----------------------------- MODULE HiddenFiles -----------------------------
(***************************************************************************)
(* The keys of one encrypted file token: who can open its hidden file.     *)
(*                                                                         *)
(* The page of the web frontend derives every key from the user's seed,    *)
(* the salt of the chain, the token and, for the keys of a deal, the       *)
(* number of that deal (packages/crypto, HiddenFileOwner, HiddenFileBuyer).*)
(* It reads the number from the collection, the password of earlier deals  *)
(* from the indexer, and publishes through the contracts.  The reads, the  *)
(* derivations and the transactions of one button are steps of their own:  *)
(* in between, others act, and the indexer is behind the chain.            *)
(*                                                                         *)
(* Cryptography is symbolic.  A key is the record of what it is derived    *)
(* from, a sealed password is readable with its key only.  The seed of a   *)
(* user is the user.  Of the contract only the open deal is kept; module   *)
(* EncryptedFileToken has the whole of it.  Timeouts pass at any moment.   *)
(***************************************************************************)
EXTENDS Naturals, Sequences

CONSTANTS
    Users,
    Minters,       \* users who may mint the token
    Dishonest,     \* users who may publish a wrong password
    Chains,        \* chains the page can show
    Home,          \* the token's chain
    MaxDeals,      \* bound on transferCounts
    MaxLag,        \* bound on the transactions the indexer is behind
    Junk,          \* a password that opens no file
    Nothing        \* no key, user, chain, deal, button, ...

ASSUME HiddenFilesAssumption ==
    /\ Minters \subseteq Users
    /\ Dishonest \subseteq Users
    /\ Home \in Chains
    /\ MaxDeals \in Nat
    /\ MaxLag \in Nat
    /\ Nothing \notin Users \cup Chains \cup Nat

Numbers == 1 .. MaxDeals
Optional(S) == S \cup {Nothing}

AesKeys == [seed : Users, salt : Chains]
RsaKeys == [seed : Users, salt : Chains, number : Numbers]
SealedPasswords == [password : AesKeys \cup {Junk}, key : RsaKeys]
Passwords == [number : Numbers, sealed : SealedPasswords]

\* No key, no password: undefined and the zero bytes are none of either.
ASSUME NothingAssumption ==
    /\ Nothing \notin AesKeys /\ Nothing # Junk
    /\ Nothing \notin RsaKeys
    /\ Nothing \notin SealedPasswords
    /\ Nothing \notin Passwords

\* packages/crypto/src/lib/eft-derivation.ts, for the one token.
AesDerivation(seed, salt) == [seed |-> seed, salt |-> salt]
RsaDerivation(seed, salt, number) ==
    [seed |-> seed, salt |-> salt, number |-> number]
RsaEncrypt(password, key) == [password |-> password, key |-> key]
RsaDecrypt(sealed, key) == IF sealed.key = key THEN sealed.password ELSE Nothing

Deals == [number : Numbers, order : BOOLEAN, to : Optional(Users),
          key : Optional(RsaKeys), sealed : Optional(SealedPasswords),
          reported : BOOLEAN]

\* What a button of the page has read or made so far.
Jobs ==
    [button : {"mintNFT"}, file : AesKeys] \cup
    [button : {"fulfillOrder"}, key : RsaKeys] \cup
    [button : {"setPublicKey"}, number : Numbers, key : Optional(RsaKeys)] \cup
    [button : {"approveTransfer"}, sealed : SealedPasswords]

Statuses == {"Drafted", "Created", "PublicKeySet", "PasswordSet",
             "FraudReported", "Finished", "Cancelled"}
Rows == [status : Statuses, number : Numbers, order : BOOLEAN,
         to : Optional(Users), key : Optional(RsaKeys),
         sealed : Optional(SealedPasswords)]

VARIABLES
    owner,         \* ownerOf(token), Nothing before the mint
    creator,       \* who minted it
    file,          \* the key the hidden file is encrypted with
    count,         \* transferCounts[token]
    deal,          \* transfers[token]
    mined,         \* rows of transactions the indexer has yet to process
    row,           \* indexer: the token's last transfer
    password,      \* indexer: [number, sealed] that encrypted_password answers
    salt,          \* salt[u]: #globalSalt of u's page
    job            \* job[u]: the button at work in u's page

chainVars == <<owner, creator, file, count, deal>>
indexerVars == <<row, password>>
pageVars == <<salt, job>>
vars == <<owner, creator, file, count, deal, mined, row, password, salt, job>>

\* Types of the state.
TypeOK ==
    /\ owner \in Optional(Users)
    /\ creator \in Optional(Users)
    /\ file \in Optional(AesKeys)
    /\ count \in 0 .. MaxDeals
    /\ deal \in Optional(Deals)
    /\ mined \in Seq(Rows) /\ Len(mined) <= MaxLag
    /\ row \in Optional(Rows)
    /\ password \in Optional(Passwords)
    /\ salt \in [Users -> Optional(Chains)]
    /\ job \in [Users -> Optional(Jobs)]

Init ==
    /\ owner = Nothing
    /\ creator = Nothing
    /\ file = Nothing
    /\ count = 0
    /\ deal = Nothing
    /\ mined = <<>>
    /\ row = Nothing
    /\ password = Nothing
    /\ salt = [u \in Users |-> Nothing]
    /\ job = [u \in Users |-> Nothing]

-----------------------------------------------------------------------------
(* The page's processors.  The salt is fetched by the first processor that *)
(* is made after a reload, from the chain the page then shows, and kept.   *)

SaltOf(u) == IF salt[u] = Nothing THEN Home ELSE salt[u]
KeepSalt(u) == salt' = [salt EXCEPT ![u] = SaltOf(u)]

\* Mutation of InitBuy: the number of the deal to come.
InitBuy_Next(u) == RsaDerivation(u, SaltOf(u), count + 1)

\* initBuy: the key of the deal whose number the collection has now.
InitBuy(u) == RsaDerivation(u, SaltOf(u), count)

\* #getFilePassword, with the salt s: Nothing where it throws.
FilePassword(u, s) ==
    CASE u = creator -> AesDerivation(u, s)
      [] u # creator /\ password = Nothing -> Nothing
      [] OTHER -> RsaDecrypt(password.sealed, RsaDerivation(u, s, password.number))

\* The page opens the file, when it is loaded on the token's chain.
CanRead(u) == file # Nothing /\ FilePassword(u, Home) = file

-----------------------------------------------------------------------------
(* Transactions.                                                           *)

RowOf(status, d) ==
    [status |-> status, number |-> d.number, order |-> d.order, to |-> d.to,
     key |-> d.key, sealed |-> d.sealed]

\* A transaction leaves the deal d, which the indexer will see as `status'.
Transact(status, d) ==
    /\ Len(mined) < MaxLag
    /\ deal' = IF status \in {"Finished", "Cancelled"} THEN Nothing ELSE d
    /\ mined' = Append(mined, RowOf(status, d))
    /\ UNCHANGED <<creator, file, indexerVars>>

\* The button is done: its transaction was mined, or reverted.
Free(u) == job' = [job EXCEPT ![u] = Nothing]
Idle(u) == job[u] = Nothing
Busy(u, button) == job[u] # Nothing /\ job[u].button = button
Work(u, j) == /\ KeepSalt(u)
              /\ job' = [job EXCEPT ![u] = j]
              /\ UNCHANGED <<chainVars, mined, indexerVars>>

\* mintNFT: the file is encrypted for the id that is next, or that the
\* sequencer gave; of several that were given it one mints.
EncryptFile(u) ==
    /\ Idle(u) /\ u \in Minters
    /\ owner = Nothing
    /\ Work(u, [button |-> "mintNFT", file |-> AesDerivation(u, SaltOf(u))])

MintNFT(u) ==
    /\ Busy(u, "mintNFT")
    /\ owner = Nothing
    /\ owner' = u
    /\ creator' = u
    /\ file' = job[u].file
    /\ Free(u)
    /\ UNCHANGED <<count, deal, mined, indexerVars, salt>>

\* Drafts by placeOrder on the exchange, and transfers to a known receiver.
OpenDeal(u, status, to) ==
    /\ owner = u
    /\ deal = Nothing
    /\ count < MaxDeals
    /\ count' = count + 1
    /\ Transact(status, [number |-> count + 1, order |-> status = "Drafted", to |-> to,
                         key |-> Nothing, sealed |-> Nothing, reported |-> FALSE])
    /\ UNCHANGED <<owner, pageVars>>

PlaceOrder(u) == OpenDeal(u, "Drafted", Nothing)
InitTransfer(u, to) == OpenDeal(u, "Created", to)

\* cancelOrder and cancelTransfer; a receiver may cancel before the key is set,
\* and after the timeout before the password is.
CancelTransfer(u) ==
    /\ deal # Nothing
    /\ ~deal.reported
    /\ u = owner \/ (u = deal.to /\ deal.sealed = Nothing)
    /\ Transact("Cancelled", deal)
    /\ UNCHANGED <<owner, count, pageVars>>

\* "Buy now": the key is made, the wallet asks for confirmation, and the
\* exchange takes whichever draft there is by then.
MakeKeyToBuy(u) ==
    /\ Idle(u) /\ u # owner
    /\ row # Nothing /\ row.status = "Drafted"
    /\ Work(u, [button |-> "fulfillOrder", key |-> InitBuy(u)])

FulfillOrder(u) ==
    /\ Busy(u, "fulfillOrder")
    /\ deal # Nothing /\ deal.order /\ deal.to = Nothing
    /\ Transact("PublicKeySet", [deal EXCEPT !.to = u, !.key = job[u].key])
    /\ Free(u)
    /\ UNCHANGED <<owner, count, salt>>

\* "Accept transfer": the number is read, then the key is made by initBuy,
\* which reads it again, and the collection asks for the number.
ReadNumber(u) ==
    /\ Idle(u)
    /\ row # Nothing /\ row.status = "Created" /\ row.to = u
    /\ count > 0
    /\ Work(u, [button |-> "setPublicKey", number |-> count, key |-> Nothing])

\* Mutation of MakeKey: the number is read after the key was made.
MakeKey_ThenNumber(u) ==
    /\ Busy(u, "setPublicKey") /\ job[u].key = Nothing
    /\ Work(u, [job[u] EXCEPT !.key = RsaDerivation(u, SaltOf(u), job[u].number),
                              !.number = count])

MakeKey(u) ==
    /\ Busy(u, "setPublicKey") /\ job[u].key = Nothing
    /\ Work(u, [job[u] EXCEPT !.key = InitBuy(u)])

SetPublicKey(u) ==
    /\ Busy(u, "setPublicKey") /\ job[u].key # Nothing
    /\ deal # Nothing /\ deal.to = u /\ deal.key = Nothing
    /\ job[u].number = count
    /\ Transact("PublicKeySet", [deal EXCEPT !.key = job[u].key])
    /\ Free(u)
    /\ UNCHANGED <<owner, count, salt>>

\* Mutation of SealPassword: every seller seals the key that a minter derives.
SealPassword_Derived(u) ==
    /\ Idle(u) /\ u = owner
    /\ row # Nothing /\ row.status = "PublicKeySet"
    /\ FilePassword(u, SaltOf(u)) # Nothing
    /\ Work(u, [button |-> "approveTransfer",
                sealed |-> RsaEncrypt(AesDerivation(u, SaltOf(u)), row.key)])

\* "Transfer hidden file": the password is sealed for the key in the row.
SealPassword(u) ==
    /\ Idle(u) /\ u = owner
    /\ row # Nothing /\ row.status = "PublicKeySet"
    /\ FilePassword(u, SaltOf(u)) # Nothing
    /\ Work(u, [button |-> "approveTransfer",
                sealed |-> RsaEncrypt(FilePassword(u, SaltOf(u)), row.key)])

Publish(u, sealed) ==
    /\ owner = u
    /\ deal # Nothing /\ deal.key # Nothing /\ deal.sealed = Nothing
    /\ Transact("PasswordSet", [deal EXCEPT !.sealed = sealed])
    /\ UNCHANGED <<owner, count, salt>>

ApproveTransfer(u) ==
    /\ Busy(u, "approveTransfer")
    /\ Publish(u, job[u].sealed)
    /\ Free(u)

\* A dishonest seller does without the page.
PublishJunk(u) ==
    /\ u \in Dishonest
    /\ deal # Nothing /\ deal.key # Nothing
    /\ Publish(u, RsaEncrypt(Junk, deal.key))
    /\ UNCHANGED job

\* By the receiver, or after the timeout by the sender.
FinalizeTransfer(u) ==
    /\ deal # Nothing /\ deal.sealed # Nothing /\ ~deal.reported
    /\ u \in {deal.to, owner}
    /\ Transact("Finished", deal)
    /\ owner' = deal.to
    /\ UNCHANGED <<count, pageVars>>

ReportFraud(u) ==
    /\ deal # Nothing /\ deal.sealed # Nothing /\ ~deal.reported
    /\ u = deal.to
    /\ Transact("FraudReported", [deal EXCEPT !.reported = TRUE])
    /\ UNCHANGED <<owner, count, pageVars>>

\* The decider ends a reported deal either way.
DecideFraud(approve) ==
    /\ deal # Nothing /\ deal.reported
    /\ Transact("Finished", deal)
    /\ owner' = IF approve THEN owner ELSE deal.to
    /\ UNCHANGED <<count, pageVars>>

\* The wallet was refused or the transaction reverted: the button is free.
GiveUp(u) ==
    /\ ~Idle(u)
    /\ Free(u)
    /\ UNCHANGED <<chainVars, mined, indexerVars, salt>>

-----------------------------------------------------------------------------
(* The page on other chains, and reloads.                                  *)

\* A token of another chain is opened: its salt is kept if none was.
VisitChain(u, c) ==
    /\ Idle(u) /\ c # Home /\ salt[u] = Nothing
    /\ salt' = [salt EXCEPT ![u] = c]
    /\ UNCHANGED <<chainVars, mined, indexerVars, job>>

Reload(u) ==
    /\ salt[u] # Nothing
    /\ salt' = [salt EXCEPT ![u] = Nothing]
    /\ Free(u)
    /\ UNCHANGED <<chainVars, mined, indexerVars>>

-----------------------------------------------------------------------------
(* The indexer.                                                            *)

\* Of the transfers the one with the last PasswordSet or Finished status is
\* taken, however it ended.
PasswordOf(r) ==
    IF r.status \in {"PasswordSet", "Finished"}
    THEN [number |-> r.number, sealed |-> r.sealed]
    ELSE password

Index ==
    /\ mined # <<>>
    /\ row' = Head(mined)
    /\ password' = PasswordOf(Head(mined))
    /\ mined' = Tail(mined)
    /\ UNCHANGED <<chainVars, pageVars>>

-----------------------------------------------------------------------------

UserStep(u) ==
    \/ EncryptFile(u) \/ MintNFT(u) \/ PlaceOrder(u) \/ CancelTransfer(u)
    \/ \E to \in Users \ {u} : InitTransfer(u, to)
    \/ MakeKeyToBuy(u) \/ FulfillOrder(u)
    \/ ReadNumber(u) \/ MakeKey(u) \/ SetPublicKey(u)
    \/ SealPassword(u) \/ ApproveTransfer(u) \/ PublishJunk(u)
    \/ FinalizeTransfer(u) \/ ReportFraud(u) \/ GiveUp(u)
    \/ \E c \in Chains : VisitChain(u, c)
    \/ Reload(u)

Next ==
    \/ \E u \in Users : UserStep(u)
    \/ \E approve \in BOOLEAN : DecideFraud(approve)
    \/ Index

Spec == Init /\ [][Next]_vars

-----------------------------------------------------------------------------
(* Properties.                                                             *)

\* The key of a transfer to a known receiver is always the key of that very
\* deal: the receiver's page may read the number twice, before and after the
\* owner cancels and starts again, and the collection's question for the
\* number settles it.  (fulfillOrder does not ask: a key made before a relisting
\* is accepted after it.)
TransferKeyIsItsOwn ==
    deal # Nothing /\ deal.key # Nothing /\ ~deal.order =>
        deal.key.number = deal.number

\* The indexer knows all blocks, and holds the password of the deal by which
\* its receiver owns the token.
Settled(u) ==
    /\ mined = <<>>
    /\ row # Nothing /\ row.status = "Finished"
    /\ u = owner /\ u = row.to /\ u # creator

\* Nobody derived a key of the deal for another chain.
AtHome(keys) == \A key \in keys : key.salt = Home

\* The page of whoever a deal has made the owner opens the file, however often it
\* was sold before and by whom: what the pages seal, in whatever order the buttons,
\* the contracts and the indexer go, is the minter's password or one that the
\* seller was given, and the keys are the buyers' own.  Except: somebody sold junk;
\* the password was sealed for the key of an earlier deal, or the key made for one.
DeliveredIsReadable ==
    \A u \in Users :
        /\ Settled(u)
        /\ row.sealed.password # Junk
        /\ row.sealed.key = row.key /\ row.key.number = row.number
        /\ AtHome({file, row.key, row.sealed.password})
        => CanRead(u)

=============================================================================
