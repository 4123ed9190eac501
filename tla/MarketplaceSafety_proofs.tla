----------------------- MODULE MarketplaceSafety_proofs -----------------------
(***************************************************************************)
(* Proofs of Marketplace's safety properties.  What a step may do to one   *)
(* token is stated once, as an effect (EveryStepHasEffect); each property  *)
(* then follows by a case analysis over the effects.                       *)
(***************************************************************************)
EXTENDS Marketplace_proofs

(* Effects of a step on the token t.                                       *)

Completed(x, to) == [x EXCEPT !.to = to, !.publicKey = TRUE, !.publicKeySetAt = now]
Keyed(x) == [x EXCEPT !.publicKey = TRUE, !.publicKeySetAt = now]
Answered(x) == [x EXCEPT !.encryptedPassword = TRUE, !.passwordSetAt = now]
Reported(x) == [x EXCEPT !.fraudReported = TRUE]

KeepsHolder(t) == Exists(t) => tokenOwner'[t] \in {tokenOwner[t], NoAddress}
Quiet(t) ==
    /\ transferCounts'[t] = transferCounts[t]
    /\ reports'[t] = reports[t]
    /\ KeepsHolder(t)

Rests(t) == transfers'[t] = transfers[t] /\ orders'[t] = orders[t] /\ Quiet(t)

\* A transfer is opened by a user.
Opens(t) ==
    /\ ~HasTransfer(t)
    /\ orders'[t] = orders[t]
    /\ KeepsHolder(t)
    /\ \E a \in Accounts : \E from, to, cb : transfers'[t] = TransferOf(a, from, to, cb)

\* A transfer is opened by the exchange, with an order.
Offers(t) ==
    /\ ~HasTransfer(t)
    /\ KeepsHolder(t)
    /\ transfers'[t] = TransferOf(ExchangeAddress, tokenOwner[t], NoAddress, ExchangeAddress)
    /\ \E a \in Accounts, price \in Prices, c \in Currencies : orders'[t] = OrderOf(a, price, c)

\* A user takes a transfer one stage on.
Advances(t) ==
    /\ HasTransfer(t)
    /\ orders'[t] = orders[t]
    /\ Quiet(t)
    /\ LET x == transfers[t]
       IN  \/ /\ x.initiator # ExchangeAddress
              /\ x.to = NoAddress
              /\ \E to \in Accounts \cup {NoAddress} : transfers'[t] = Completed(x, to)
           \/ x.to \in Accounts /\ ~x.publicKey /\ transfers'[t] = Keyed(x)
           \/ x.publicKey /\ ~x.encryptedPassword /\ transfers'[t] = Answered(x)

\* A buyer fulfills the order.
Buys(t) ==
    /\ transfers[t].initiator = ExchangeAddress
    /\ transfers[t].to = NoAddress
    /\ HasOrder(t)
    /\ ~orders[t].fulfilled
    /\ Quiet(t)
    /\ \E a \in Accounts :
         /\ transfers'[t] = Completed(transfers[t], a)
         /\ orders'[t] = [orders[t] EXCEPT !.receiver = a, !.fulfilled = TRUE]

\* A fraud is reported and waits for its decision.
Accuses(t) ==
    /\ transfers[t].to \in Accounts
    /\ transfers[t].encryptedPassword
    /\ ~transfers[t].fraudReported
    /\ transfers'[t] = Reported(transfers[t])
    /\ transferCounts'[t] = transferCounts[t]
    /\ ~InstantDecider => reports'[t] = transferCounts[t]
    /\ orders'[t] = orders[t]
    /\ KeepsHolder(t)

\* A transfer ends, with its order if the exchange is called back.
Ends(t) ==
    /\ HasTransfer(t)
    /\ transfers'[t] = EmptyTransfer
    /\ IF IsEscrowed(t) THEN HasOrder(t) /\ orders'[t] = EmptyOrder
                        ELSE orders'[t] = orders[t]
    /\ \/ KeepsHolder(t)
       \/ /\ transfers[t].encryptedPassword \/ transfers[t].fraudReported
          /\ tokenOwner'[t] = transfers[t].to

Effect(t) ==
    Rests(t) \/ Opens(t) \/ Offers(t) \/ Advances(t) \/ Buys(t) \/ Accuses(t) \/ Ends(t)

-----------------------------------------------------------------------------
(* Every step has one of the effects on every token.                       *)

\* A transaction on the collection that leaves the transfers alone.
LEMMA TokenStepEffect ==
    ASSUME TypeOK, UNCHANGED <<transfers, transferCounts, orders, reports>>,
           \A t \in Tokens : KeepsHolder(t)
    PROVE  \A t \in Tokens : Effect(t)
BY DEF Effect, Rests, Quiet

\* A mint gives no token that exists to somebody else.
LEMMA MintEffect ==
    ASSUME TypeOK, NEW a, NEW to, NEW ids, NEW count, NEW rates,
           MintAll(a, to, ids, count, rates), CollectionOnly
    PROVE  \A t \in Tokens : Effect(t)
<1>1. \A t \in Tokens : KeepsHolder(t)
  BY DEF MintAll, KeepsHolder, Exists, TypeOK, CollectionTypeOK
<1>2. UNCHANGED <<transfers, transferCounts, orders, reports>>
  BY DEF MintAll, CollectionOnly, exchangeVars
<1> QED BY <1>1, <1>2, TokenStepEffect

\* The owners' settings touch no token.
LEMMA SettingsEffect ==
    ASSUME TypeOK, NEW a \in Accounts, Settings(a)
    PROVE  \A t \in Tokens : Effect(t)
<1>1. UNCHANGED <<transfers, transferCounts, orders, reports, tokenOwner>>
  BY DEF Settings, SetTimeoutTx, SetSalesStartTx, SetFeeTx, SetWhitelistTx, WithdrawFeesTx,
         SetFinalizeTransferTimeout, SetSalesStartTimestamp, SetFee, SetWhitelistParams,
         WithdrawFees, CollectionOnly, ExchangeOnly, collectionVars, exchangeVars, tokenVars
<1> QED BY <1>1, TokenStepEffect DEF KeepsHolder

\* Minting, burning and approving leave transfers and orders alone.
LEMMA TokenTxEffect ==
    ASSUME TypeOK, NEW a \in Accounts, NEW t \in Tokens, TokenTx(a, t)
    PROVE  \A u \in Tokens : Effect(u)
<1>1. CASE \E to \in Accounts, r \in Royalties : MintTx(a, to, t, r)
  <2>1. PICK to \in Accounts, r \in Royalties : MintTx(a, to, t, r)
    BY <1>1
  <2> QED BY <2>1, MintEffect DEF MintTx, Mint
<1>2. CASE BurnTx(a, t)
  <2>1. \A u \in Tokens : KeepsHolder(u)
    BY <1>2 DEF BurnTx, Burn, KeepsHolder, TypeOK, CollectionTypeOK
  <2> QED BY <1>2, <2>1, TokenStepEffect DEF BurnTx, Burn, CollectionOnly, exchangeVars
<1>3. CASE \E spender \in Approvable : ApproveTx(a, t, spender)
  BY <1>3, TokenStepEffect DEF ApproveTx, Approve, CollectionOnly, exchangeVars, KeepsHolder
<1> QED BY <1>1, <1>2, <1>3 DEF TokenTx

\* So do the mints whose ids the collection chooses.
LEMMA MintNextEffect ==
    ASSUME TypeOK, NEW a \in Accounts, NEW to \in Accounts, MintNextTx(a, to)
    PROVE  \A u \in Tokens : Effect(u)
<1>1. CASE \E r \in Royalties : MintWithoutIdTx(a, to, r)
  <2>1. PICK r \in Royalties : MintWithoutIdTx(a, to, r)
    BY <1>1
  <2> QED BY <2>1, MintEffect DEF MintWithoutIdTx, MintWithoutId, Mint
<1>2. CASE \E n \in 1 .. BatchLimit : \E rates \in [NextIds(n) -> Royalties] :
             MintBatchTx(a, to, n, rates)
  <2>1. PICK n \in 1 .. BatchLimit : \E rates \in [NextIds(n) -> Royalties] :
               MintBatchTx(a, to, n, rates)
    BY <1>2
  <2>2. PICK rates \in [NextIds(n) -> Royalties] : MintBatchTx(a, to, n, rates)
    BY <2>1
  <2> QED BY <2>2, MintEffect DEF MintBatchTx, MintBatch
<1> QED BY <1>1, <1>2 DEF MintNextTx

\* A step that changes the transfer and the order of one token only, and takes
\* no other token from its holder, lets the others rest.
LEMMA OthersRest ==
    ASSUME TypeOK, NEW t \in Tokens, Effect(t),
           \A u \in Tokens \ {t} : /\ transfers'[u] = transfers[u]
                                   /\ orders'[u] = orders[u]
                                   /\ transferCounts'[u] = transferCounts[u]
                                   /\ reports'[u] = reports[u]
                                   /\ tokenOwner'[u] = tokenOwner[u]
    PROVE  \A u \in Tokens : Effect(u)
BY DEF Effect, Rests, Quiet, KeepsHolder

\* initTransfer and draftTransfer open a transfer where there is none.
LEMMA OpenEffect ==
    ASSUME TypeOK, NEW a \in Accounts, NEW t \in Tokens,
           \/ \E to \in Accounts \cup {NoAddress}, cb \in Callbacks : InitTransferTx(a, t, to, cb)
           \/ \E cb \in Callbacks : DraftTransferTx(a, t, cb)
    PROVE  \A u \in Tokens : Effect(u)
<1>1. \/ \E to \in Accounts \cup {NoAddress}, cb \in Callbacks : InitTransfer(a, t, to, cb)
      \/ \E cb \in Callbacks : DraftTransfers(a, {t}, cb)
  BY DEF InitTransferTx, DraftTransferTx, DraftTransfer
<1>2. UNCHANGED <<orders, reports, tokenOwner>>
  BY DEF InitTransferTx, DraftTransferTx, DraftTransfer, InitTransfer, DraftTransfers,
         CollectionOnly, exchangeVars, tokenVars
<1>3. ~HasTransfer(t)
  BY <1>1 DEF InitTransfer, DraftTransfers
<1>4. \E b \in Accounts : \E from, to, cb : transfers'[t] = TransferOf(b, from, to, cb)
  <2>1. CASE \E to \in Accounts \cup {NoAddress}, cb \in Callbacks : InitTransfer(a, t, to, cb)
    BY <2>1 DEF InitTransfer, TypeOK, CollectionTypeOK
  <2>2. CASE \E cb \in Callbacks : DraftTransfers(a, {t}, cb)
    BY <2>2 DEF DraftTransfers, DraftOf, TypeOK, CollectionTypeOK
  <2> QED BY <1>1, <2>1, <2>2
<1>5. Effect(t)
  BY <1>2, <1>3, <1>4 DEF Effect, Opens, KeepsHolder
<1>6. \A u \in Tokens \ {t} : transfers'[u] = transfers[u] /\ transferCounts'[u] = transferCounts[u]
  BY <1>1 DEF InitTransfer, DraftTransfers, TypeOK, CollectionTypeOK
<1> QED BY <1>2, <1>5, <1>6, OthersRest

\* How the protocol's functions change the record of their transfer.
LEMMA ProgressRecords ==
    ASSUME TypeOK, NEW t \in Tokens
    PROVE  /\ \A to : [transfers EXCEPT ![t].to = to, ![t].publicKey = TRUE,
                                        ![t].publicKeySetAt = now]
                        = [transfers EXCEPT ![t] = Completed(transfers[t], to)]
           /\ [transfers EXCEPT ![t].publicKey = TRUE, ![t].publicKeySetAt = now]
                        = [transfers EXCEPT ![t] = Keyed(transfers[t])]
           /\ [transfers EXCEPT ![t].encryptedPassword = TRUE, ![t].passwordSetAt = now]
                        = [transfers EXCEPT ![t] = Answered(transfers[t])]
           /\ [transfers EXCEPT ![t].fraudReported = TRUE]
                        = [transfers EXCEPT ![t] = Reported(transfers[t])]
<1>1. transfers \in [Tokens -> TransferInfo]
  BY DEF TypeOK, CollectionTypeOK
<1> QED BY <1>1 DEF Completed, Keyed, Answered, Reported, TransferInfo

\* A user's completeTransferDraft, setTransferPublicKey and approveTransfer each take
\* one transfer one stage on.
LEMMA ProgressEffect ==
    ASSUME TypeOK, NEW a \in Accounts, NEW t \in Tokens,
           \/ \E to \in Accounts \cup {NoAddress} : CompleteDraftTx(a, t, to)
           \/ \E n \in 1 .. MaxTransfers : SetPublicKeyTx(a, t, n)
           \/ ApproveTransferTx(a, t)
    PROVE  \A u \in Tokens : Effect(u)
<1>1. UNCHANGED <<orders, reports, tokenOwner, transferCounts>>
  BY DEF CompleteDraftTx, SetPublicKeyTx, ApproveTransferTx, CompleteTransferDraft,
         SetTransferPublicKey, ApproveTransfer, CollectionOnly, exchangeVars, tokenVars
<1>2. transfers \in [Tokens -> TransferInfo] /\ a # ExchangeAddress /\ a # NoAddress
  BY AddressAssumption DEF TypeOK, CollectionTypeOK, Addresses
<1>3. PICK x : transfers' = [transfers EXCEPT ![t] = x] /\ Advances(t)
  <2>1. CASE \E to \in Accounts \cup {NoAddress} : CompleteDraftTx(a, t, to)
    <3>1. PICK to \in Accounts \cup {NoAddress} : CompleteTransferDraft(a, t, to)
      BY <2>1 DEF CompleteDraftTx
    <3>2. transfers' = [transfers EXCEPT ![t] = Completed(transfers[t], to)]
      BY <3>1, ProgressRecords DEF CompleteTransferDraft
    <3>3. /\ HasTransfer(t)
          /\ transfers[t].initiator # ExchangeAddress
          /\ transfers[t].to = NoAddress
      BY <1>2, <3>1 DEF CompleteTransferDraft
    <3> QED BY <1>1, <1>2, <3>2, <3>3 DEF Advances, Quiet, KeepsHolder
  <2>2. CASE \E n \in 1 .. MaxTransfers : SetPublicKeyTx(a, t, n)
    <3>1. PICK n \in 1 .. MaxTransfers : SetTransferPublicKey(a, t, n)
      BY <2>2 DEF SetPublicKeyTx
    <3>2. transfers' = [transfers EXCEPT ![t] = Keyed(transfers[t])]
      BY <3>1, ProgressRecords DEF SetTransferPublicKey
    <3>3. HasTransfer(t) /\ transfers[t].to \in Accounts /\ ~transfers[t].publicKey
      BY <3>1 DEF SetTransferPublicKey
    <3> QED BY <1>1, <1>2, <3>2, <3>3 DEF Advances, Quiet, KeepsHolder
  <2>3. CASE ApproveTransferTx(a, t)
    <3>1. ApproveTransfer(a, t)
      BY <2>3 DEF ApproveTransferTx
    <3>2. transfers' = [transfers EXCEPT ![t] = Answered(transfers[t])]
      BY <3>1, ProgressRecords DEF ApproveTransfer
    <3>3. HasTransfer(t) /\ transfers[t].publicKey /\ ~transfers[t].encryptedPassword
      BY <3>1 DEF ApproveTransfer
    <3> QED BY <1>1, <1>2, <3>2, <3>3 DEF Advances, Quiet, KeepsHolder
  <2> QED BY <2>1, <2>2, <2>3
<1>4. \A u \in Tokens \ {t} : transfers'[u] = transfers[u]
  BY <1>2, <1>3
<1> QED BY <1>1, <1>3, <1>4, OthersRest DEF Effect

\* What ends a transfer: its record is deleted, so is the order if the exchange
\* is called back, and the token stays or goes to the receiver.
LEMMA EndEffect ==
    ASSUME TypeOK, NEW t \in Tokens, HasTransfer(t), DeleteTransfer(t),
           IF IsEscrowed(t) THEN HasOrder(t) /\ DeleteOrder(t) ELSE UNCHANGED orders,
           UNCHANGED transferCounts,
           \A u \in Tokens \ {t} : reports'[u] = reports[u],
           \/ UNCHANGED tokenOwner
           \/ /\ SafeTransfer(t, transfers[t].to)
              /\ transfers[t].encryptedPassword \/ transfers[t].fraudReported
    PROVE  \A u \in Tokens : Effect(u)
<1>1. /\ transfers \in [Tokens -> TransferInfo]
      /\ orders \in [Tokens -> Order]
      /\ tokenOwner \in [Tokens -> Accounts \cup {NoAddress}]
  BY DEF TypeOK, CollectionTypeOK, ExchangeTypeOK
<1>2. transfers'[t] = EmptyTransfer /\ \A u \in Tokens \ {t} : transfers'[u] = transfers[u]
  BY <1>1 DEF DeleteTransfer
<1>3. /\ IF IsEscrowed(t) THEN HasOrder(t) /\ orders'[t] = EmptyOrder
                          ELSE orders'[t] = orders[t]
      /\ \A u \in Tokens \ {t} : orders'[u] = orders[u]
  BY <1>1 DEF DeleteOrder
<1>4. /\ \/ KeepsHolder(t)
         \/ /\ transfers[t].encryptedPassword \/ transfers[t].fraudReported
            /\ tokenOwner'[t] = transfers[t].to
      /\ \A u \in Tokens \ {t} : tokenOwner'[u] = tokenOwner[u]
  BY <1>1 DEF SafeTransfer, KeepsHolder
<1>5. Effect(t)
  BY <1>2, <1>3, <1>4 DEF Effect, Ends
<1> QED BY <1>2, <1>3, <1>4, <1>5, OthersRest

\* Each callback finds the order and deletes it.
LEMMA CallbackDeletes ==
    ASSUME NEW t \in Tokens, NEW approve \in BOOLEAN,
           OnFinished(t) \/ OnCancelled(t) \/ OnFraudDetected(t, approve)
    PROVE  IF IsEscrowed(t) THEN HasOrder(t) /\ DeleteOrder(t) ELSE UNCHANGED orders
BY DEF OnFinished, OnCancelled, OnFraudDetected, TransferFinished, TransferCancelled,
       TransferFraudDetected, exchangeVars

\* finalizeTransfer, cancelTransfer and cancelOrder end one transfer.
LEMMA FinishEffect ==
    ASSUME TypeOK, NEW a, NEW t \in Tokens,
           FinalizeTx(a, t) \/ CancelTx(a, t) \/ CancelOrderTx(t)
    PROVE  \A u \in Tokens : Effect(u)
<1>1. CASE FinalizeTx(a, t)
  BY <1>1, EndEffect, CallbackDeletes DEF FinalizeTx, FinalizeTransfer
<1>2. CASE CancelTx(a, t)
  BY <1>2, EndEffect, CallbackDeletes DEF CancelTx, CancelTransfer, tokenVars
<1>3. CASE CancelOrderTx(t)
  BY <1>3, EndEffect, CallbackDeletes DEF CancelOrderTx, CancelTransfer, tokenVars
<1> QED BY <1>1, <1>2, <1>3

\* So does the late verdict of the decider.
LEMMA LateEffect ==
    ASSUME TypeOK, NEW t \in Tokens, NEW approve \in BOOLEAN, LateDecisionTx(t, approve)
    PROVE  \A u \in Tokens : Effect(u)
<1>1. /\ HasTransfer(t) /\ transfers[t].fraudReported
      /\ DecideTransfer(t, approve)
      /\ OnFraudDetected(t, approve)
      /\ UNCHANGED reports
  BY DEF LateDecisionTx, ApplyFraudDecision
<1> QED BY <1>1, EndEffect, CallbackDeletes DEF DecideTransfer

\* The decider answers with two Booleans.
LEMMA DecisionType ==
    ASSUME NEW answer \in DecideAnswers
    PROVE  answer[1] \in BOOLEAN /\ answer[2] \in BOOLEAN
<1>1. CASE InstantDecider
  BY <1>1 DEF DecideAnswers
<1>2. CASE ~InstantDecider
  <2>1. answer = <<FALSE, FALSE>>
    BY <1>2 DEF DecideAnswers
  <2> QED BY <2>1
<1> QED BY <1>1, <1>2

\* reportFraud ends the transfer if the decider answers, else it marks it reported.
LEMMA ReportEffect ==
    ASSUME TypeOK, NEW a \in Accounts, NEW t \in Tokens, ReportFraudTx(a, t)
    PROVE  \A u \in Tokens : Effect(u)
<1>1. PICK answer \in DecideAnswers :
             /\ ReportFraud(a, t, answer[1], answer[2])
             /\ IF answer[1] THEN OnFraudDetected(t, answer[2])
                             ELSE UNCHANGED exchangeVars
  BY DEF ReportFraudTx
<1>2. answer[1] \in BOOLEAN /\ answer[2] \in BOOLEAN
  BY DecisionType
<1>3. /\ HasTransfer(t)
      /\ transfers[t].to = a
      /\ transfers[t].encryptedPassword
      /\ ~transfers[t].fraudReported
  BY <1>1 DEF ReportFraud
<1>4. reports \in [Tokens -> Nat]
  BY DEF TypeOK, DeciderTypeOK
<1>5. /\ \A u \in Tokens \ {t} : reports'[u] = reports[u]
      /\ ~InstantDecider => reports'[t] = transferCounts[t]
  BY <1>4 DEF ReportFraudTx, Decide
<1>6. CASE answer[1]
  <2>1. DecideTransfer(t, answer[2]) /\ OnFraudDetected(t, answer[2])
    BY <1>1, <1>6 DEF ReportFraud
  <2> QED BY <1>2, <1>3, <1>5, <2>1, EndEffect, CallbackDeletes DEF DecideTransfer
<1>7. CASE ~answer[1]
  <2>1. /\ transfers' = [transfers EXCEPT ![t] = Reported(transfers[t])]
        /\ UNCHANGED <<transferCounts, tokenOwner, orders>>
    BY <1>1, <1>7, ProgressRecords DEF ReportFraud, tokenVars, exchangeVars
  <2>2. /\ transfers'[t] = Reported(transfers[t])
        /\ \A u \in Tokens \ {t} : transfers'[u] = transfers[u]
    BY <2>1 DEF TypeOK, CollectionTypeOK
  <2>3. Effect(t)
    BY <1>3, <1>5, <2>1, <2>2 DEF Effect, Accuses, KeepsHolder
  <2> QED BY <1>5, <2>1, <2>2, <2>3, OthersRest
<1> QED BY <1>6, <1>7

\* placeOrder offers each of its tokens.
LEMMA PlaceEffect ==
    ASSUME TypeOK, NEW a \in Accounts, NEW ids \in SUBSET Tokens,
           NEW price \in Prices, NEW c \in Currencies,
           PlaceOrderBatchTx(a, ids, price, c)
    PROVE  \A u \in Tokens : Effect(u)
<1> TAKE u \in Tokens
<1>1. UNCHANGED <<tokenOwner, reports>>
  BY DEF PlaceOrderBatchTx, DraftTransfers, tokenVars
<1>2. CASE u \in ids
  <2>1. /\ ~HasTransfer(u)
        /\ transfers'[u] = DraftOf(ExchangeAddress, u, ExchangeAddress)
        /\ orders'[u] = OrderOf(a, price, c)
    BY <1>2 DEF PlaceOrderBatchTx, DraftTransfers, CreateOrders
  <2>2. Offers(u)
    BY <1>1, <2>1 DEF Offers, DraftOf, KeepsHolder
  <2> QED BY <2>2 DEF Effect
<1>3. CASE u \notin ids
  <2>1. /\ transfers'[u] = transfers[u]
        /\ orders'[u] = orders[u]
        /\ transferCounts'[u] = transferCounts[u]
    BY <1>3 DEF PlaceOrderBatchTx, DraftTransfers, CreateOrders
  <2> QED BY <1>1, <2>1 DEF Effect, Rests, Quiet, KeepsHolder
<1> QED BY <1>2, <1>3

\* fulfillOrder completes the draft of its token and the order together.
LEMMA BuyEffect ==
    ASSUME TypeOK, NEW a \in Accounts, NEW t \in Tokens, NEW extra \in Extras,
           FulfillOrderTx(a, t, extra) \/ FulfillOrderWhitelistedTx(a, t, extra)
    PROVE  \A u \in Tokens : Effect(u)
<1>1. /\ CompleteTransferDraft(ExchangeAddress, t, a)
      /\ HasOrder(t) /\ ~orders[t].fulfilled
      /\ orders' = [orders EXCEPT ![t].receiver = a, ![t].fulfilled = TRUE]
      /\ UNCHANGED reports
  BY DEF FulfillOrderTx, FulfillOrderWhitelistedTx, FulfillAtPrice, FulfillAtDiscount, TakeOrder
<1>2. /\ transfers \in [Tokens -> TransferInfo]
      /\ orders \in [Tokens -> Order]
  BY DEF TypeOK, CollectionTypeOK, ExchangeTypeOK
<1>3. transfers' = [transfers EXCEPT ![t] = Completed(transfers[t], a)]
  BY <1>1, ProgressRecords DEF CompleteTransferDraft
<1>4. /\ transfers'[t] = Completed(transfers[t], a)
      /\ \A u \in Tokens \ {t} : transfers'[u] = transfers[u]
  BY <1>2, <1>3
<1>5. /\ orders'[t] = [orders[t] EXCEPT !.receiver = a, !.fulfilled = TRUE]
      /\ \A u \in Tokens \ {t} : orders'[u] = orders[u]
  BY <1>1, <1>2
<1>6. /\ transfers[t].initiator = ExchangeAddress
      /\ transfers[t].to = NoAddress
      /\ UNCHANGED <<transferCounts, tokenOwner>>
  BY <1>1 DEF CompleteTransferDraft, tokenVars
<1>7. Effect(t)
  BY <1>1, <1>4, <1>5, <1>6 DEF Effect, Buys, Quiet, KeepsHolder
<1> QED BY <1>1, <1>4, <1>5, <1>6, <1>7, OthersRest

\* Every step of the system has one of the effects on every token.
LEMMA EveryStepHasEffect ==
    ASSUME TypeOK, [Next]_vars
    PROVE  \A t \in Tokens : Effect(t)
<1>1. CASE PassTime \/ UNCHANGED vars
  <2>1. UNCHANGED <<transfers, transferCounts, orders, reports, tokenOwner>>
    BY <1>1 DEF PassTime, vars, collectionVars, exchangeVars
  <2> QED BY <2>1, TokenStepEffect DEF KeepsHolder
<1>2. CASE \E a \in Accounts : Settings(a)
  BY <1>2, SettingsEffect
<1>3. CASE \E a, to \in Accounts : MintNextTx(a, to)
  BY <1>3, MintNextEffect
<1>4. CASE \E a \in Accounts, ids \in SUBSET Tokens \ {{}}, price \in Prices, c \in Currencies :
             PlaceOrderBatchTx(a, ids, price, c)
  BY <1>4, PlaceEffect
<1>5. CASE \E a \in Accounts, t \in Tokens : TokenTx(a, t) \/ TransferTx(a, t) \/ OrderTx(a, t)
  <2>1. PICK a \in Accounts, t \in Tokens : TokenTx(a, t) \/ TransferTx(a, t) \/ OrderTx(a, t)
    BY <1>5
  <2>2. CASE TokenTx(a, t)
    BY <2>2, TokenTxEffect
  <2>3. CASE TransferTx(a, t)
    BY <2>3, OpenEffect, ProgressEffect, FinishEffect, ReportEffect DEF TransferTx
  <2>4. CASE OrderTx(a, t)
    <3>1. {t} \in SUBSET Tokens
      OBVIOUS
    <3> QED BY <2>4, <3>1, PlaceEffect, BuyEffect DEF OrderTx, PlaceOrderTx
  <2> QED BY <2>1, <2>2, <2>3, <2>4
<1>6. CASE \E t \in Tokens : CancelOrderTx(t)
  BY <1>6, FinishEffect
<1>7. CASE \E t \in Tokens, approve \in BOOLEAN : LateDecisionTx(t, approve)
  BY <1>7, LateEffect
<1> QED BY <1>1, <1>2, <1>3, <1>4, <1>5, <1>6, <1>7 DEF Next

-----------------------------------------------------------------------------
(* The exchange and the collection agree on every sale.                    *)

\* OrderMatchesTransfer for one order and one transfer.
Agree(o, x) ==
    /\ o.price # 0 <=> x.initiator = ExchangeAddress
    /\ o.price # 0 => /\ x.callbackReceiver = ExchangeAddress
                      /\ x.to = o.receiver
                      /\ x.publicKey <=> o.fulfilled

\* Each effect keeps order and transfer of a token in agreement.
LEMMA EffectKeepsAgreement ==
    ASSUME TypeOK, NEW t \in Tokens, Agree(orders[t], transfers[t]), Effect(t)
    PROVE  Agree(orders'[t], transfers'[t])
<1>1. transfers[t] \in TransferInfo /\ ExchangeTypeOK
  BY DEF TypeOK, CollectionTypeOK
<1>2. ExchangeAddress \notin Accounts /\ ExchangeAddress # NoAddress /\ NoAddress \notin Accounts
  BY AddressAssumption DEF Addresses
<1>3. CASE Rests(t)
  BY <1>3 DEF Rests
<1>4. CASE Opens(t)
  BY <1>2, <1>4 DEF Opens, Agree, TransferOf, HasTransfer
<1>5. CASE Offers(t)
  <2>1. 0 \notin Prices
    BY ExchangeAssumption
  <2> QED BY <1>5, <2>1 DEF Offers, Agree, TransferOf, OrderOf
<1>6. CASE Advances(t)
  <2>1. CASE transfers[t].initiator # ExchangeAddress
    <3>1. orders[t].price = 0 /\ transfers'[t].initiator # ExchangeAddress
      BY <1>1, <1>6, <2>1 DEF Advances, Agree, Completed, Keyed, Answered, TransferInfo
    <3> QED BY <1>6, <3>1 DEF Advances, Agree
  <2>2. CASE transfers[t].initiator = ExchangeAddress
    <3>1. HasOrder(t) /\ (transfers[t].publicKey <=> orders[t].fulfilled)
                      /\ transfers[t].to = orders[t].receiver
      BY <2>2 DEF Agree, HasOrder
    <3>2. transfers[t].to \in Accounts => transfers[t].publicKey
      BY <1>1, <1>2, <3>1, OpenOrderTypes
    <3>3. transfers'[t] = Answered(transfers[t])
      BY <1>6, <2>2, <3>2 DEF Advances
    <3>4. /\ transfers'[t].initiator = transfers[t].initiator
          /\ transfers'[t].callbackReceiver = transfers[t].callbackReceiver
          /\ transfers'[t].to = transfers[t].to
          /\ transfers'[t].publicKey = transfers[t].publicKey
      BY <1>1, <3>3 DEF Answered, TransferInfo
    <3> QED BY <1>6, <3>4 DEF Advances, Agree
  <2> QED BY <2>1, <2>2
<1>7. CASE Buys(t)
  <2>1. PICK a \in Accounts : /\ transfers'[t] = Completed(transfers[t], a)
                              /\ orders'[t] = [orders[t] EXCEPT !.receiver = a, !.fulfilled = TRUE]
    BY <1>7 DEF Buys
  <2>2. /\ transfers'[t].initiator = ExchangeAddress
        /\ transfers'[t].callbackReceiver = transfers[t].callbackReceiver
        /\ transfers'[t].to = a
        /\ transfers'[t].publicKey
    BY <1>1, <1>7, <2>1 DEF Buys, Completed, TransferInfo
  <2>3. orders[t] \in OpenOrder({NoAddress}, FALSE) \cup OpenOrder(Accounts, TRUE)
    <3>1. orders[t] \in Order /\ orders[t] # EmptyOrder
      BY <1>1, <1>7 DEF Buys, HasOrder, ExchangeTypeOK, EmptyOrder
    <3> QED BY <3>1 DEF Order
  <2>4. /\ orders'[t].price = orders[t].price
        /\ orders'[t].receiver = a
        /\ orders'[t].fulfilled
    BY <2>1, <2>3 DEF OpenOrder
  <2> QED BY <1>7, <2>2, <2>4 DEF Buys, HasOrder, Agree
<1>8. CASE Accuses(t)
  <2>1. /\ transfers'[t].initiator = transfers[t].initiator
        /\ transfers'[t].callbackReceiver = transfers[t].callbackReceiver
        /\ transfers'[t].to = transfers[t].to
        /\ transfers'[t].publicKey = transfers[t].publicKey
    BY <1>1, <1>8 DEF Accuses, Reported, TransferInfo
  <2> QED BY <1>8, <2>1 DEF Accuses, Agree
<1>9. CASE Ends(t)
  <2>1. orders'[t].price = 0
    BY <1>9 DEF Ends, EmptyOrder, IsEscrowed, Agree
  <2>2. transfers'[t].initiator = NoAddress
    BY <1>9 DEF Ends, EmptyTransfer, TransferOf
  <2> QED BY <1>2, <2>1, <2>2 DEF Agree
<1> QED BY <1>3, <1>4, <1>5, <1>6, <1>7, <1>8, <1>9 DEF Effect

\* The property is the agreement of each order with its transfer.
LEMMA MatchIsAgreement ==
    OrderMatchesTransfer <=> \A t \in Tokens : Agree(orders[t], transfers[t])
BY DEF OrderMatchesTransfer, Agree, HasOrder

\* In every reachable state the exchange and the collection agree on every
\* sale, although each keeps its own record of it.
THEOREM OrdersMatchTransfers == Spec => []OrderMatchesTransfer
<1>1. Init => OrderMatchesTransfer
  <2> SUFFICES ASSUME Init PROVE \A t \in Tokens : Agree(orders[t], transfers[t])
    BY MatchIsAgreement
  <2> QED BY AddressAssumption
          DEF Init, CollectionInit, ExchangeInit, EmptyOrder, EmptyTransfer, TransferOf,
              Agree, Addresses
<1>2. TypeOK /\ OrderMatchesTransfer /\ [Next]_vars => OrderMatchesTransfer'
  <2> SUFFICES ASSUME TypeOK, OrderMatchesTransfer, [Next]_vars
               PROVE  OrderMatchesTransfer'
    OBVIOUS
  <2>1. \A t \in Tokens : Agree(orders'[t], transfers'[t])
    BY MatchIsAgreement, EveryStepHasEffect, EffectKeepsAgreement
  <2> QED BY <2>1 DEF OrderMatchesTransfer, Agree, HasOrder
<1> QED BY <1>1, <1>2, TypeCorrect, PTL DEF Spec

-----------------------------------------------------------------------------
(* Reports, stages and deliveries.                                         *)

\* The stages of a transfer are reached in order: a password only for a key,
\* a fraud report only for a password, by the receiver.
InOrder(x) ==
    /\ x.encryptedPassword => x.publicKey
    /\ x.fraudReported => x.encryptedPassword /\ x.to \in Accounts
    /\ x.publicKey => x.initiator # NoAddress

StagesInOrder == \A t \in Tokens : InOrder(transfers[t])

\* The evidence on file for a transfer that waits for its decision is its own.
Current(x, report, count) == x.fraudReported /\ ~InstantDecider => report = count

\* Each effect keeps the stages in order and the report current.
LEMMA EffectKeepsReport ==
    ASSUME TypeOK, NEW t \in Tokens, InOrder(transfers[t]),
           Current(transfers[t], reports[t], transferCounts[t]), Effect(t)
    PROVE  /\ InOrder(transfers'[t])
           /\ Current(transfers'[t], reports'[t], transferCounts'[t])
<1>1. transfers[t] \in TransferInfo
  BY DEF TypeOK, CollectionTypeOK
<1>2. NoAddress \notin Accounts /\ ExchangeAddress # NoAddress
  BY AddressAssumption DEF Addresses
<1>3. CASE Rests(t)
  BY <1>3 DEF Rests, Quiet
<1>4. CASE Opens(t) \/ Offers(t) \/ Ends(t)
  <2>1. \E by, from, to, cb : transfers'[t] = TransferOf(by, from, to, cb)
    <3>1. CASE Opens(t)
      BY <3>1 DEF Opens
    <3>2. CASE Offers(t)
      BY <3>2 DEF Offers
    <3>3. CASE Ends(t)
      BY <3>3 DEF Ends, EmptyTransfer
    <3> QED BY <1>4, <3>1, <3>2, <3>3
  <2>2. /\ transfers'[t].publicKey = FALSE
        /\ transfers'[t].encryptedPassword = FALSE
        /\ transfers'[t].fraudReported = FALSE
    BY <2>1 DEF TransferOf
  <2> QED BY <2>2 DEF InOrder, Current
<1>5. CASE Advances(t) \/ Buys(t)
  <2>1. /\ reports'[t] = reports[t] /\ transferCounts'[t] = transferCounts[t]
        /\ transfers'[t].fraudReported = transfers[t].fraudReported
        /\ transfers'[t].initiator = transfers[t].initiator
        /\ transfers[t].encryptedPassword => transfers'[t].encryptedPassword
        /\ transfers'[t].encryptedPassword => transfers'[t].publicKey
        /\ transfers[t].to \in Accounts => transfers'[t].to = transfers[t].to
    BY <1>1, <1>2, <1>5
       DEF Advances, Buys, Quiet, Completed, Keyed, Answered, TransferInfo, InOrder
  <2>2. transfers[t].initiator # NoAddress
    BY <1>2, <1>5 DEF Advances, Buys, HasTransfer
  <2> QED BY <2>1, <2>2 DEF InOrder, Current
<1>6. CASE Accuses(t)
  BY <1>1, <1>6 DEF Accuses, Reported, TransferInfo, InOrder, Current
<1> QED BY <1>3, <1>4, <1>5, <1>6 DEF Effect

\* The invariant: both claims, for every token.
ReportInvariant == StagesInOrder /\ ReportIsCurrent

\* It holds in every reachable state.
LEMMA ReportsStayCurrent == Spec => []ReportInvariant
<1>1. Init => ReportInvariant
  BY AddressAssumption
     DEF Init, CollectionInit, EmptyTransfer, TransferOf, ReportInvariant, StagesInOrder,
         InOrder, ReportIsCurrent
<1>2. TypeOK /\ ReportInvariant /\ [Next]_vars => ReportInvariant'
  <2> SUFFICES ASSUME TypeOK, ReportInvariant, [Next]_vars
               PROVE  ReportInvariant'
    OBVIOUS
  <2>1. \A t \in Tokens : /\ InOrder(transfers[t])
                          /\ Current(transfers[t], reports[t], transferCounts[t])
    BY DEF ReportInvariant, StagesInOrder, ReportIsCurrent, Current
  <2>2. \A t \in Tokens : /\ InOrder(transfers'[t])
                          /\ Current(transfers'[t], reports'[t], transferCounts'[t])
    BY <2>1, EveryStepHasEffect, EffectKeepsReport
  <2> QED BY <2>2 DEF ReportInvariant, StagesInOrder, ReportIsCurrent, Current, InOrder
<1> QED BY <1>1, <1>2, TypeCorrect, PTL DEF Spec

\* The decider never judges a transfer by the evidence of an earlier one: a
\* report that waits for its decision is that of the open transfer.
THEOREM ReportsAreCurrent == Spec => []ReportIsCurrent
BY ReportsStayCurrent, PTL DEF ReportInvariant

\* Tokens that exist change hands only by a delivery that ends their transfer.
THEOREM DeliveryMovesOwnership == Spec => OwnershipMovesByDelivery
<1>1. TypeOK /\ ReportInvariant /\ [Next]_vars => [DeliveredOnly]_vars
  <2> SUFFICES ASSUME TypeOK, ReportInvariant, [Next]_vars
               PROVE  DeliveredOnly
    OBVIOUS
  <2> SUFFICES ASSUME NEW t \in Tokens,
                      Exists(t), tokenOwner'[t] \notin {tokenOwner[t], NoAddress}
               PROVE  /\ transfers[t].encryptedPassword
                      /\ tokenOwner'[t] = transfers[t].to
                      /\ ~HasTransfer(t)'
    BY DEF DeliveredOnly
  <2>1. Effect(t) /\ ~KeepsHolder(t)
    BY EveryStepHasEffect DEF KeepsHolder
  <2>2. Ends(t)
    BY <2>1 DEF Effect, Rests, Opens, Offers, Advances, Buys, Accuses, Quiet
  <2>3. transfers[t].encryptedPassword /\ tokenOwner'[t] = transfers[t].to
    BY <2>1, <2>2 DEF Ends, ReportInvariant, StagesInOrder, InOrder
  <2>4. transfers'[t].initiator = NoAddress
    BY <2>2 DEF Ends, EmptyTransfer, TransferOf
  <2> QED BY <2>3, <2>4 DEF HasTransfer
<1> QED BY <1>1, TypeCorrect, ReportsStayCurrent, PTL DEF Spec, OwnershipMovesByDelivery

-----------------------------------------------------------------------------
(* A transfer runs forward.                                                *)

\* TransferRunsForward for one transfer, x before a step and y after it.
Forward(x, y) ==
    /\ y.initiator = x.initiator
    /\ y.from = x.from
    /\ y.callbackReceiver = x.callbackReceiver
    /\ x.fraudReported => y = x
    /\ x.to # NoAddress =>
         /\ y.to = x.to
         /\ x.publicKey => y.publicKeySetAt = x.publicKeySetAt
         /\ x.encryptedPassword => y.passwordSetAt = x.passwordSetAt

\* Each effect on an open transfer ends it or takes it forward.
LEMMA EffectGoesForward ==
    ASSUME TypeOK, NEW t \in Tokens, InOrder(transfers[t]), Effect(t),
           HasTransfer(t), transfers'[t] # EmptyTransfer
    PROVE  transferCounts'[t] = transferCounts[t] /\ Forward(transfers[t], transfers'[t])
<1>1. transfers[t] \in TransferInfo /\ NoAddress \notin Accounts
  BY AddressAssumption DEF TypeOK, CollectionTypeOK, Addresses
<1>2. CASE Rests(t)
  BY <1>2 DEF Rests, Quiet, Forward
<1>3. CASE Opens(t) \/ Offers(t) \/ Ends(t)
  BY <1>3 DEF Opens, Offers, Ends
<1>4. CASE Advances(t)
  <2>1. CASE \E to \in Accounts \cup {NoAddress} :
               transfers[t].to = NoAddress /\ transfers'[t] = Completed(transfers[t], to)
    BY <1>1, <1>4, <2>1 DEF Advances, Quiet, Completed, TransferInfo, InOrder, Forward
  <2>2. CASE ~transfers[t].publicKey /\ transfers'[t] = Keyed(transfers[t])
    BY <1>1, <1>4, <2>2 DEF Advances, Quiet, Keyed, TransferInfo, InOrder, Forward
  <2>3. CASE ~transfers[t].encryptedPassword /\ transfers'[t] = Answered(transfers[t])
    BY <1>1, <1>4, <2>3 DEF Advances, Quiet, Answered, TransferInfo, InOrder, Forward
  <2> QED BY <1>4, <2>1, <2>2, <2>3 DEF Advances
<1>5. CASE Buys(t)
  BY <1>1, <1>5 DEF Buys, Quiet, Completed, TransferInfo, InOrder, Forward
<1>6. CASE Accuses(t)
  BY <1>1, <1>6 DEF Accuses, Reported, TransferInfo, Forward
<1> QED BY <1>2, <1>3, <1>4, <1>5, <1>6 DEF Effect

\* Nobody redirects a transfer that has its receiver, replaces its key or its
\* password, or touches one that waits for the fraud decider.
THEOREM TransfersRunForward == Spec => TransferRunsForward
<1>1. TypeOK /\ ReportInvariant /\ [Next]_vars => [RunsForward]_vars
  <2> SUFFICES ASSUME TypeOK, ReportInvariant, [Next]_vars
               PROVE  RunsForward
    OBVIOUS
  <2>1. \A t \in Tokens :
          HasTransfer(t) /\ transfers'[t] # EmptyTransfer =>
              transferCounts'[t] = transferCounts[t] /\ Forward(transfers[t], transfers'[t])
    BY EveryStepHasEffect, EffectGoesForward DEF ReportInvariant, StagesInOrder
  <2> QED BY <2>1 DEF RunsForward, Forward
<1> QED BY <1>1, TypeCorrect, ReportsStayCurrent, PTL DEF Spec, TransferRunsForward

=============================================================================
