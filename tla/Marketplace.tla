----------------------------- MODULE Marketplace -----------------------------
(***************************************************************************)
(* The deployed system of contracts: one collection, the exchange that is  *)
(* the callback receiver of the transfers it opens, and the fraud decider. *)
(*                                                                         *)
(* An action named ...Tx is a whole transaction: the function a user calls *)
(* and the functions the contracts call in turn.  If one of them reverts,  *)
(* all are undone, so a conjunction of their actions is exactly one step.  *)
(***************************************************************************)
EXTENDS EncryptedFileToken, FilemarketExchange, FraudDecider, FiniteSets

CONSTANTS
    Approvable,                \* addresses holders approve for a token
    Callbacks,                 \* callback receivers users give a transfer
    BatchLimit                 \* bound on the tokens of one mintBatch

ASSUME UserAssumption ==
    /\ Approvable \subseteq Addresses \cup {NoAddress}
    /\ Callbacks \subseteq {ExchangeAddress, NoAddress}
    /\ BatchLimit \in Nat

vars == <<now, collectionVars, exchangeVars, reports>>

TypeOK ==
    /\ now \in Times
    /\ CollectionTypeOK
    /\ ExchangeTypeOK
    /\ DeciderTypeOK

Init ==
    /\ now = StartTime
    /\ CollectionInit
    /\ ExchangeInit
    /\ DeciderInit

-----------------------------------------------------------------------------
(* Callbacks of the collection, made when the transfer has a receiver.     *)

IsEscrowed(t) == transfers[t].callbackReceiver = ExchangeAddress

\* Mutation of OnFinished: the exchange is told that the transfer is cancelled.
OnFinished_Cancelled(t) ==
    IF IsEscrowed(t) THEN TransferCancelled(t) ELSE UNCHANGED exchangeVars

OnFinished(t) ==
    IF IsEscrowed(t) THEN TransferFinished(t, RoyaltyRate(t)) ELSE UNCHANGED exchangeVars

\* Mutation of OnCancelled: the exchange is not told.
OnCancelled_Silent(t) == UNCHANGED exchangeVars

OnCancelled(t) ==
    IF IsEscrowed(t) THEN TransferCancelled(t) ELSE UNCHANGED exchangeVars

OnFraudDetected(t, approve) ==
    IF IsEscrowed(t) THEN TransferFraudDetected(t, approve, RoyaltyRate(t))
                     ELSE UNCHANGED exchangeVars

-----------------------------------------------------------------------------
(* Transactions on the collection.                                         *)

PassTime == Tick /\ UNCHANGED <<collectionVars, exchangeVars, reports>>

\* A call that touches the collection alone.
CollectionOnly == UNCHANGED <<now, exchangeVars, reports>>

MintTx(a, to, t, r) == Mint(a, to, t, r) /\ CollectionOnly
MintBatchTx(a, to, n, rates) == MintBatch(a, to, n, rates) /\ CollectionOnly
MintWithoutIdTx(a, to, r) == MintWithoutId(a, to, r) /\ CollectionOnly
BurnTx(a, t) == Burn(a, t) /\ CollectionOnly
ApproveTx(a, t, spender) == Approve(a, t, spender) /\ CollectionOnly
SetTimeoutTx(a, d) == SetFinalizeTransferTimeout(a, d) /\ CollectionOnly
SetSalesStartTx(a, s) == SetSalesStartTimestamp(a, s) /\ CollectionOnly

InitTransferTx(a, t, to, cb) == InitTransfer(a, t, to, cb) /\ CollectionOnly
DraftTransferTx(a, t, cb) == DraftTransfer(a, t, cb) /\ CollectionOnly
CompleteDraftTx(a, t, to) == CompleteTransferDraft(a, t, to) /\ CollectionOnly
SetPublicKeyTx(a, t, n) == SetTransferPublicKey(a, t, n) /\ CollectionOnly
ApproveTransferTx(a, t) == ApproveTransfer(a, t) /\ CollectionOnly

FinalizeTx(a, t) ==
    FinalizeTransfer(a, t) /\ OnFinished(t) /\ UNCHANGED <<now, reports>>

CancelTx(a, t) ==
    CancelTransfer(a, t) /\ OnCancelled(t) /\ UNCHANGED <<now, reports>>

ReportFraudTx(a, t) ==
    /\ \E answer \in DecideAnswers :
         /\ ReportFraud(a, t, answer[1], answer[2])
         /\ IF answer[1] THEN OnFraudDetected(t, answer[2])
                         ELSE UNCHANGED exchangeVars
    /\ Decide(t, transferCounts[t])
    /\ UNCHANGED now

\* The web2 service answers a report.
LateDecisionTx(t, approve) ==
    /\ HasReport(t)
    /\ ApplyFraudDecision(t, approve)
    /\ OnFraudDetected(t, approve)
    /\ UNCHANGED <<now, reports>>

-----------------------------------------------------------------------------
(* Transactions on the exchange.                                           *)

PlaceOrderBatchTx(a, ids, price, c) ==
    /\ CreateOrders(a, ids, price, c)
    /\ DraftTransfers(ExchangeAddress, ids, ExchangeAddress)
    /\ UNCHANGED <<now, reports>>

PlaceOrderTx(a, t, price, c) == PlaceOrderBatchTx(a, {t}, price, c)

FulfillOrderTx(a, t, extra) ==
    /\ FulfillAtPrice(a, t, extra)
    /\ CompleteTransferDraft(ExchangeAddress, t, a)
    /\ UNCHANGED <<now, reports>>

FulfillOrderWhitelistedTx(a, t, extra) ==
    /\ FulfillAtDiscount(a, t, extra)
    /\ CompleteTransferDraft(ExchangeAddress, t, a)
    /\ UNCHANGED <<now, reports>>

\* Open to everyone: the exchange itself cancels the transfer it opened.
CancelOrderTx(t) ==
    /\ HasOrder(t)
    /\ ~orders[t].fulfilled
    /\ CancelTransfer(ExchangeAddress, t)
    /\ OnCancelled(t)
    /\ UNCHANGED <<now, reports>>

ExchangeOnly == UNCHANGED <<now, collectionVars, reports>>

SetFeeTx(a, f) == SetFee(a, f) /\ ExchangeOnly
SetWhitelistTx(a, deadline, discount) ==
    SetWhitelistParams(a, deadline, discount) /\ ExchangeOnly
WithdrawFeesTx(a, to, c) == WithdrawFees(a, to, c) /\ ExchangeOnly

-----------------------------------------------------------------------------
(* The specification.                                                      *)

Settings(a) ==
    \/ \E d \in Timeouts : SetTimeoutTx(a, d)
    \/ \E s \in SalesStarts : SetSalesStartTx(a, s)
    \/ \E f \in Fees : SetFeeTx(a, f)
    \/ \E d \in Deadlines, discount \in Discounts : SetWhitelistTx(a, d, discount)
    \/ \E to \in Accounts, c \in Currencies : WithdrawFeesTx(a, to, c)

TokenTx(a, t) ==
    \/ \E to \in Accounts, r \in Royalties : MintTx(a, to, t, r)
    \/ BurnTx(a, t)
    \/ \E spender \in Approvable : ApproveTx(a, t, spender)

MintNextTx(a, to) ==
    \/ \E r \in Royalties : MintWithoutIdTx(a, to, r)
    \/ \E n \in 1 .. BatchLimit : \E rates \in [NextIds(n) -> Royalties] :
         MintBatchTx(a, to, n, rates)

TransferTx(a, t) ==
    \/ \E to \in Accounts \cup {NoAddress}, cb \in Callbacks : InitTransferTx(a, t, to, cb)
    \/ \E cb \in Callbacks : DraftTransferTx(a, t, cb)
    \/ \E to \in Accounts \cup {NoAddress} : CompleteDraftTx(a, t, to)
    \/ \E n \in 1 .. MaxTransfers : SetPublicKeyTx(a, t, n)
    \/ ApproveTransferTx(a, t)
    \/ FinalizeTx(a, t)
    \/ CancelTx(a, t)
    \/ ReportFraudTx(a, t)

OrderTx(a, t) ==
    \/ \E price \in Prices, c \in Currencies : PlaceOrderTx(a, t, price, c)
    \/ \E extra \in Extras : FulfillOrderTx(a, t, extra) \/ FulfillOrderWhitelistedTx(a, t, extra)

Next ==
    \/ PassTime
    \/ \E a \in Accounts : Settings(a)
    \/ \E a, to \in Accounts : MintNextTx(a, to)
    \/ \E a \in Accounts, ids \in SUBSET Tokens \ {{}}, price \in Prices, c \in Currencies :
         PlaceOrderBatchTx(a, ids, price, c)
    \/ \E a \in Accounts, t \in Tokens : TokenTx(a, t) \/ TransferTx(a, t) \/ OrderTx(a, t)
    \/ \E t \in Tokens : CancelOrderTx(t)
    \/ \E t \in Tokens, approve \in BOOLEAN : LateDecisionTx(t, approve)

Spec == Init /\ [][Next]_vars

\* What the parties of a sale do in their own interest: time passes, the buyer
\* of a sale that expired without a password takes the money back, the sender
\* of one that expired with a password finalizes it, and the fraud decider
\* answers the reports it has got.
BuyerReclaims(t) == transfers[t].to \in Accounts /\ CancelTx(transfers[t].to, t)
SenderFinalizes(t) == transfers[t].from \in Accounts /\ FinalizeTx(transfers[t].from, t)
DeciderAnswers(t) == \E approve \in BOOLEAN : LateDecisionTx(t, approve)

Fairness ==
    /\ WF_vars(PassTime)
    /\ \A t \in Tokens : /\ WF_vars(BuyerReclaims(t))
                         /\ WF_vars(SenderFinalizes(t))
                         /\ WF_vars(DeciderAnswers(t))

FairSpec == Spec /\ Fairness

-----------------------------------------------------------------------------
(* Safety.                                                                 *)

\* The exchange and the collection agree on every sale: an order is open
\* exactly while a transfer opened by the exchange is, the exchange is the one
\* called back, and the order is fulfilled exactly when the transfer has its
\* receiver, who is the buyer.  They keep this in separate contracts, joined
\* only by the calls of placeOrder, fulfillOrder and the three callbacks.
OrderMatchesTransfer ==
    \A t \in Tokens :
        /\ HasOrder(t) <=> transfers[t].initiator = ExchangeAddress
        /\ HasOrder(t) => /\ transfers[t].callbackReceiver = ExchangeAddress
                          /\ transfers[t].to = orders[t].receiver
                          /\ transfers[t].publicKey <=> orders[t].fulfilled

\* A fraud that waits for its decision is one of the transfer that is open
\* now: the report filed for the token holds this transfer's keys, never those
\* of an earlier one, although no report is ever deleted.
ReportIsCurrent ==
    \A t \in Tokens :
        transfers[t].fraudReported /\ ~InstantDecider => reports[t] = transferCounts[t]

\* A token goes from one holder to another only to the receiver of its
\* transfer, after the password was published, and that ends the transfer.
DeliveredOnly ==
    \A t \in Tokens :
        (Exists(t) /\ tokenOwner'[t] \notin {tokenOwner[t], NoAddress})
            => /\ transfers[t].encryptedPassword
               /\ tokenOwner'[t] = transfers[t].to
               /\ ~HasTransfer(t)'

OwnershipMovesByDelivery == [][DeliveredOnly]_vars

\* Until it ends, an open transfer keeps its initiator, sender and callback
\* receiver, from the moment it has a receiver also that receiver and the keys
\* once they are set, and after a fraud report everything: nobody can redirect a
\* sale the buyer has paid for, nor touch the evidence the decider judges.
RunsForward ==
    \A t \in Tokens :
        LET old == transfers[t]
            new == transfers'[t]
        IN  HasTransfer(t) /\ new # EmptyTransfer =>
              /\ transferCounts'[t] = transferCounts[t]
              /\ new.initiator = old.initiator
              /\ new.from = old.from
              /\ new.callbackReceiver = old.callbackReceiver
              /\ old.fraudReported => new = old
              /\ old.to # NoAddress =>
                   /\ new.to = old.to
                   /\ old.publicKey => new.publicKeySetAt = old.publicKeySetAt
                   /\ old.encryptedPassword => new.passwordSetAt = old.passwordSetAt

TransferRunsForward == [][RunsForward]_vars

\* Money the exchange keeps for sales in currency c that are paid and not
\* settled, coin by coin.
EscrowedCoins(c) ==
    UNION {{t} \X (1 .. orders[t].price) :
              t \in {u \in Tokens : orders[u].fulfilled /\ orders[u].currency = c}}
Escrow(c) == Cardinality(EscrowedCoins(c))

\* But for the discounts it has granted, the exchange owns the price of every
\* sale that is paid and not settled, and the fees it has earned.  So where no
\* discount was ever granted in a currency it can settle every sale in it, and
\* none with the money of another one; and a discount costs it no more than
\* once, although the refund and the seller get the whole price.
EscrowIsBacked ==
    \A c \in Currencies :
        balance[c][ExchangeAddress] + discounted[c] >= Escrow(c) + accumulatedFees[c]

-----------------------------------------------------------------------------
(* Liveness.                                                               *)

\* The money a buyer has put into the exchange does not stay there: a sale
\* that is paid is settled, unless its token is burnt first.
PaidSaleSettles ==
    \A t \in Tokens : orders[t].fulfilled ~> (~orders[t].fulfilled \/ ~Exists(t))

=============================================================================
