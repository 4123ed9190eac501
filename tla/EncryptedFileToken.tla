-------------------------- MODULE EncryptedFileToken --------------------------
(***************************************************************************)
(* A collection of encrypted file tokens: FilemarketCollectionV2.sol.      *)
(*                                                                         *)
(* A token is an ERC721 token whose file is encrypted.  Its owner hands it *)
(* over by a transfer of several transactions: a transfer is opened (with  *)
(* or without a receiver), the receiver publishes a public key, the owner  *)
(* publishes the file password encrypted with that key, and the receiver   *)
(* (or, after a timeout, the sender) finalizes it; or it is cancelled, or  *)
(* the receiver reports a fraud and a fraud decider ends it.               *)
(*                                                                         *)
(* An action is one successful transaction: a transaction that reverts     *)
(* changes nothing and is no step.  `sender' is the code's _msgSender().   *)
(* Public keys and passwords are kept as "has been set".  A function that  *)
(* calls the transfer's callback receiver is modelled here without the     *)
(* call; module Marketplace adds it, in the same step.                     *)
(***************************************************************************)
EXTENDS Chain

CONSTANTS
    CollectionOwner,           \* owner() of the collection
    OperatorApprovals,         \* setApprovalForAll: pairs <<holder, operator>>
    FraudLateDecisionEnabled,  \* fraudLateDecisionEnabled
    Royalties,                 \* royalty rates given to mint
    InitialTimeout,            \* finalizeTransferTimeout at first, 24 hours
    Timeouts,                  \* values its setter is given
    SalesStarts,               \* values the setter of salesStartTimestamp is given
    MaxMints,                  \* bound on tokensCount
    MaxTransfers               \* bound on the transfers of one token

ROYALTY_CEILING == 5000

ASSUME CollectionAssumption ==
    /\ CollectionOwner \in Accounts
    /\ OperatorApprovals \subseteq Addresses \X Addresses
    /\ FraudLateDecisionEnabled \in BOOLEAN
    /\ Royalties \subseteq Nat
    /\ Timeouts \cup {InitialTimeout} \subseteq 0 .. StartTime - 1
    /\ SalesStarts \subseteq Nat
    /\ MaxMints \in Nat
    /\ MaxTransfers \in Nat

VARIABLES
    tokenOwner,                \* ERC721: holder of each token, or NoAddress
    tokenApproved,             \* ERC721: address approved for each token
    royalties,                 \* royalties[tokenId]
    tokensCount,               \* number of mints so far
    transfers,                 \* transfers[tokenId]
    transferCounts,            \* transferCounts[tokenId]
    finalizeTransferTimeout,
    salesStartTimestamp

tokenVars == <<tokenOwner, tokenApproved, royalties, tokensCount>>
configVars == <<finalizeTransferTimeout, salesStartTimestamp>>
collectionVars ==
    <<tokenOwner, tokenApproved, royalties, tokensCount, transfers,
      transferCounts, finalizeTransferTimeout, salesStartTimestamp>>

-----------------------------------------------------------------------------
(* State.                                                                  *)

TransferInfo ==
    [initiator : Addresses \cup {NoAddress},
     from : Addresses \cup {NoAddress},
     to : Accounts \cup {NoAddress},
     callbackReceiver : {ExchangeAddress, NoAddress},
     publicKey : BOOLEAN,
     encryptedPassword : BOOLEAN,
     fraudReported : BOOLEAN,
     publicKeySetAt : {0} \cup Times,
     passwordSetAt : {0} \cup Times]

TransferOf(initiator, from, to, callback) ==
    [initiator |-> initiator, from |-> from, to |-> to, callbackReceiver |-> callback,
     publicKey |-> FALSE, encryptedPassword |-> FALSE, fraudReported |-> FALSE,
     publicKeySetAt |-> 0, passwordSetAt |-> 0]

\* What `delete transfers[tokenId]' leaves: every field is zero.
EmptyTransfer == TransferOf(NoAddress, NoAddress, NoAddress, NoAddress)

\* Types of the collection's state.
CollectionTypeOK ==
    /\ tokenOwner \in [Tokens -> Accounts \cup {NoAddress}]
    /\ tokenApproved \in [Tokens -> Addresses \cup {NoAddress}]
    /\ royalties \in [Tokens -> 0 .. ROYALTY_CEILING]
    /\ tokensCount \in 0 .. MaxMints
    /\ transfers \in [Tokens -> TransferInfo]
    /\ transferCounts \in [Tokens -> 0 .. MaxTransfers]
    /\ finalizeTransferTimeout \in Timeouts \cup {InitialTimeout}
    /\ salesStartTimestamp \in SalesStarts \cup {StartTime - 1}

CollectionInit ==
    /\ tokenOwner = [t \in Tokens |-> NoAddress]
    /\ tokenApproved = [t \in Tokens |-> NoAddress]
    /\ royalties = [t \in Tokens |-> 0]
    /\ tokensCount = 0
    /\ transfers = [t \in Tokens |-> EmptyTransfer]
    /\ transferCounts = [t \in Tokens |-> 0]
    /\ finalizeTransferTimeout = InitialTimeout
    /\ salesStartTimestamp = StartTime - 1

Exists(t) == tokenOwner[t] # NoAddress
HasTransfer(t) == transfers[t].initiator # NoAddress
IsApprovedOrOwner(a, t) ==
    /\ Exists(t)
    /\ \/ a = tokenOwner[t]
       \/ a = tokenApproved[t]
       \/ <<tokenOwner[t], a>> \in OperatorApprovals

\* A stamp of 0 means "never set", and counts as expired.
Expired(stamp) == stamp + finalizeTransferTimeout < now

RoyaltyRate(t) == IF Exists(t) THEN royalties[t] ELSE 0

\* Bound on the clock: a timer is only started when it can still expire.
TimerFits == now + finalizeTransferTimeout < MaxTime

-----------------------------------------------------------------------------
(* ERC721.                                                                 *)

Approve(sender, t, spender) ==
    /\ Exists(t)
    /\ sender = tokenOwner[t] \/ <<tokenOwner[t], sender>> \in OperatorApprovals
    /\ spender # tokenOwner[t]
    /\ tokenApproved' = [tokenApproved EXCEPT ![t] = spender]
    /\ UNCHANGED <<tokenOwner, royalties, tokensCount, transfers,
                   transferCounts, configVars>>

\* _safeTransfer(ownerOf(t), to, t, data)
SafeTransfer(t, to) ==
    /\ Exists(t)
    /\ to # NoAddress
    /\ tokenOwner' = [tokenOwner EXCEPT ![t] = to]
    /\ tokenApproved' = [tokenApproved EXCEPT ![t] = NoAddress]

-----------------------------------------------------------------------------
(* Minting, burning and the owner's settings.                              *)

\* _mint for each token of ids, count of them, at the rates given.
MintAll(sender, to, ids, count, rates) ==
    /\ sender = CollectionOwner
    /\ tokensCount + count <= MaxMints
    /\ \A t \in ids : ~Exists(t) /\ rates[t] <= ROYALTY_CEILING
    /\ tokensCount' = tokensCount + count
    /\ tokenOwner' = [t \in Tokens |-> IF t \in ids THEN to ELSE tokenOwner[t]]
    /\ royalties' = [t \in Tokens |-> IF t \in ids THEN rates[t] ELSE royalties[t]]
    /\ UNCHANGED <<tokenApproved, transfers, transferCounts, configVars>>

Mint(sender, to, t, royalty) == MintAll(sender, to, {t}, 1, [i \in {t} |-> royalty])

NextIds(count) == tokensCount .. tokensCount + count - 1

MintBatch(sender, to, count, rates) ==
    /\ NextIds(count) \subseteq Tokens
    /\ MintAll(sender, to, NextIds(count), count, rates)

MintWithoutId(sender, to, royalty) ==
    /\ tokensCount \in Tokens
    /\ Mint(sender, to, tokensCount, royalty)

Burn(sender, t) ==
    /\ Exists(t)
    /\ sender = tokenOwner[t]
    /\ tokenOwner' = [tokenOwner EXCEPT ![t] = NoAddress]
    /\ tokenApproved' = [tokenApproved EXCEPT ![t] = NoAddress]
    /\ UNCHANGED <<royalties, tokensCount, transfers, transferCounts,
                   configVars>>

SetFinalizeTransferTimeout(sender, newTimeout) ==
    /\ sender = CollectionOwner
    /\ finalizeTransferTimeout' = newTimeout
    /\ UNCHANGED <<tokenVars, transfers, transferCounts, salesStartTimestamp>>

SetSalesStartTimestamp(sender, newTimestamp) ==
    /\ sender = CollectionOwner
    /\ salesStartTimestamp' = newTimestamp
    /\ UNCHANGED <<tokenVars, transfers, transferCounts, finalizeTransferTimeout>>

-----------------------------------------------------------------------------
(* The transfer protocol.                                                  *)

InitTransfer(sender, t, to, callback) ==
    /\ IsApprovedOrOwner(sender, t)
    /\ ~HasTransfer(t)
    /\ transferCounts[t] < MaxTransfers
    /\ transfers' = [transfers EXCEPT ![t] = TransferOf(sender, sender, to, callback)]
    /\ transferCounts' = [transferCounts EXCEPT ![t] = @ + 1]
    /\ UNCHANGED <<tokenVars, configVars>>

DraftOf(sender, t, callback) == TransferOf(sender, tokenOwner[t], NoAddress, callback)

\* draftTransfer for each token of ids, in one transaction.
DraftTransfers(sender, ids, callback) ==
    /\ \A t \in ids : /\ IsApprovedOrOwner(sender, t)
                      /\ ~HasTransfer(t)
                      /\ transferCounts[t] < MaxTransfers
    /\ sender = CollectionOwner \/ now > salesStartTimestamp
    /\ transfers' = [t \in Tokens |-> IF t \in ids THEN DraftOf(sender, t, callback)
                                                   ELSE transfers[t]]
    /\ transferCounts' = [t \in Tokens |-> IF t \in ids THEN transferCounts[t] + 1
                                                        ELSE transferCounts[t]]
    /\ UNCHANGED <<tokenVars, configVars>>

DraftTransfer(sender, t, callback) == DraftTransfers(sender, {t}, callback)

\* Mutations of CompleteTransferDraft: the caller becomes the receiver; a
\* completed draft may be completed again.
CompleteTransferDraft_ToCaller(sender, t, to) ==
    /\ HasTransfer(t) /\ sender = transfers[t].initiator /\ transfers[t].to = NoAddress
    /\ transfers' = [transfers EXCEPT ![t].to = sender,
                                      ![t].publicKey = TRUE,
                                      ![t].publicKeySetAt = now]
    /\ UNCHANGED <<tokenVars, transferCounts, configVars>>

CompleteTransferDraft_Again(sender, t, to) ==
    /\ HasTransfer(t) /\ sender = transfers[t].initiator
    /\ transfers' = [transfers EXCEPT ![t].to = to,
                                      ![t].publicKey = TRUE,
                                      ![t].publicKeySetAt = now]
    /\ UNCHANGED <<tokenVars, transferCounts, configVars>>

CompleteTransferDraft(sender, t, to) ==
    /\ HasTransfer(t)
    /\ sender = transfers[t].initiator
    /\ transfers[t].to = NoAddress
    /\ TimerFits
    /\ transfers' = [transfers EXCEPT ![t].to = to,
                                      ![t].publicKey = TRUE,
                                      ![t].publicKeySetAt = now]
    /\ UNCHANGED <<tokenVars, transferCounts, configVars>>

SetTransferPublicKey(sender, t, transferNumber) ==
    /\ HasTransfer(t)
    /\ sender = transfers[t].to
    /\ ~transfers[t].publicKey
    /\ transferNumber = transferCounts[t]
    /\ TimerFits
    /\ transfers' = [transfers EXCEPT ![t].publicKey = TRUE,
                                      ![t].publicKeySetAt = now]
    /\ UNCHANGED <<tokenVars, transferCounts, configVars>>

ApproveTransfer(sender, t) ==
    /\ HasTransfer(t)
    /\ Exists(t)
    /\ sender = tokenOwner[t]
    /\ transfers[t].publicKey
    /\ ~transfers[t].encryptedPassword
    /\ TimerFits
    /\ transfers' = [transfers EXCEPT ![t].encryptedPassword = TRUE,
                                      ![t].passwordSetAt = now]
    /\ UNCHANGED <<tokenVars, transferCounts, configVars>>

\* delete transfers[t]
DeleteTransfer(t) == transfers' = [transfers EXCEPT ![t] = EmptyTransfer]

MayFinalize(sender, t) ==
    \/ sender = transfers[t].to
    \/ Expired(transfers[t].passwordSetAt) /\ sender = transfers[t].from

\* Mutation of FinalizeTransfer: the password is not required.
FinalizeTransfer_NoPassword(sender, t) ==
    /\ HasTransfer(t) /\ ~transfers[t].fraudReported /\ MayFinalize(sender, t)
    /\ SafeTransfer(t, transfers[t].to)
    /\ DeleteTransfer(t)
    /\ UNCHANGED <<royalties, tokensCount, transferCounts, configVars>>

FinalizeTransfer(sender, t) ==
    /\ HasTransfer(t)
    /\ transfers[t].encryptedPassword
    /\ ~transfers[t].fraudReported
    /\ MayFinalize(sender, t)
    /\ SafeTransfer(t, transfers[t].to)
    /\ DeleteTransfer(t)
    /\ UNCHANGED <<royalties, tokensCount, transferCounts, configVars>>

\* The end of a transfer by a fraud decision: approved fraud leaves the token
\* with its owner, otherwise it goes to the receiver.
DecideTransfer(t, approve) ==
    /\ IF approve THEN UNCHANGED <<tokenOwner, tokenApproved>>
                  ELSE SafeTransfer(t, transfers[t].to)
    /\ DeleteTransfer(t)
    /\ UNCHANGED <<royalties, tokensCount, transferCounts, configVars>>

\* The fraud decider answers `decided' and, if so, `approve', within the call.
ReportFraud(sender, t, decided, approve) ==
    /\ HasTransfer(t)
    /\ sender = transfers[t].to
    /\ transfers[t].encryptedPassword
    /\ ~transfers[t].fraudReported
    /\ FraudLateDecisionEnabled \/ decided
    /\ IF decided
       THEN DecideTransfer(t, approve)
       ELSE /\ transfers' = [transfers EXCEPT ![t].fraudReported = TRUE]
            /\ UNCHANGED <<tokenVars, transferCounts, configVars>>

\* Called by the fraud decider contract only.
ApplyFraudDecision(t, approve) ==
    /\ FraudLateDecisionEnabled
    /\ HasTransfer(t)
    /\ transfers[t].fraudReported
    /\ DecideTransfer(t, approve)

\* Mutation of MayCancel: the receiver never may.
MayCancel_NotReceiver(sender, t) ==
    /\ Exists(t)
    /\ \/ sender = tokenOwner[t]
       \/ transfers[t].to = NoAddress /\ sender = transfers[t].initiator

\* ownerOf reverts for a token that does not exist, whoever asks.
MayCancel(sender, t) ==
    /\ Exists(t)
    /\ \/ sender = tokenOwner[t]
       \/ transfers[t].to = NoAddress /\ sender = transfers[t].initiator
       \/ /\ Expired(transfers[t].publicKeySetAt)
          /\ transfers[t].passwordSetAt = 0
          /\ sender = transfers[t].to

CancelTransfer(sender, t) ==
    /\ HasTransfer(t)
    /\ ~transfers[t].fraudReported
    /\ MayCancel(sender, t)
    /\ DeleteTransfer(t)
    /\ UNCHANGED <<tokenVars, transferCounts, configVars>>

=============================================================================
