-------------------------- MODULE Marketplace_proofs --------------------------
(***************************************************************************)
(* Proofs about Marketplace, for every value of its constants.             *)
(***************************************************************************)
EXTENDS Marketplace, TLAPS

(* What a cut of a price is worth.                                         *)

\* A rate of at most 100% takes at most the whole amount.
LEMMA CutIsPart ==
    ASSUME NEW amount \in Nat, NEW rate \in 0 .. PERCENT_MULTIPLIER
    PROVE  (amount * rate) \div PERCENT_MULTIPLIER \in 0 .. amount
<1> DEFINE product == amount * rate
<1>1. product \in Nat /\ product <= amount * 10000
  BY DEF PERCENT_MULTIPLIER
<1> HIDE DEF product
<1>2. product \div 10000 \in 0 .. amount
  BY <1>1
<1> QED BY <1>2 DEF product, PERCENT_MULTIPLIER

Balances == [Currencies -> [Addresses -> Nat]]

\* A payment the payer can cover leaves everybody with a natural amount, and
\* takes it from the payer.
LEMMA PayKeepsBalances ==
    ASSUME NEW b \in Balances, NEW c \in Currencies,
           NEW payer \in Addresses, NEW payee \in Addresses,
           NEW amount \in Nat, amount <= b[c][payer]
    PROVE  /\ Pay(b, c, payer, payee, amount) \in Balances
           /\ payer # payee => Pay(b, c, payer, payee, amount)[c][payer] = b[c][payer] - amount
<1> DEFINE once == [b EXCEPT ![c][payer] = b[c][payer] - amount]
<1>1. once \in Balances
  BY DEF Balances
<1>2. Pay(b, c, payer, payee, amount) = [once EXCEPT ![c][payee] = once[c][payee] + amount]
  BY DEF Pay, Balances
<1>3. once[c][payee] + amount \in Nat
  BY <1>1 DEF Balances
<1>4. payer # payee => Pay(b, c, payer, payee, amount)[c][payer] = once[c][payer]
  BY <1>1, <1>2 DEF Balances
<1>5. once[c][payer] = b[c][payer] - amount
  BY DEF Balances
<1> QED BY <1>1, <1>2, <1>3, <1>4, <1>5 DEF Balances

-----------------------------------------------------------------------------
(* Types of the collection's state.                                        *)

\* A deleted transfer is a well-typed record.
LEMMA EmptyTransferType == EmptyTransfer \in TransferInfo
BY DEF EmptyTransfer, TransferOf, TransferInfo, Times

\* Minting, by any of the three functions, keeps the collection well typed.
LEMMA MintAllTypes ==
    ASSUME CollectionTypeOK, NEW a, NEW to \in Accounts, NEW ids \in SUBSET Tokens,
           NEW count \in Nat, NEW rates \in [ids -> Nat],
           MintAll(a, to, ids, count, rates)
    PROVE  CollectionTypeOK'
<1>1. royalties' \in [Tokens -> 0 .. ROYALTY_CEILING]
  <2>1. royalties \in [Tokens -> 0 .. ROYALTY_CEILING]
    BY DEF CollectionTypeOK
  <2>2. \A t \in ids : rates[t] <= ROYALTY_CEILING
    BY DEF MintAll
  <2>3. \A t \in ids : rates[t] \in Nat
    OBVIOUS
  <2>4. \A t \in ids : rates[t] \in 0 .. ROYALTY_CEILING
    <3> TAKE t \in ids
    <3> DEFINE rate == rates[t]
    <3>1. rate \in Nat /\ rate <= ROYALTY_CEILING
      BY <2>2, <2>3
    <3> HIDE DEF rate
    <3>2. rate \in 0 .. ROYALTY_CEILING
      BY <3>1 DEF ROYALTY_CEILING
    <3> QED BY <3>2 DEF rate
  <2> QED BY <2>1, <2>4 DEF MintAll
<1>2. tokensCount' \in 0 .. MaxMints
  BY CollectionAssumption DEF CollectionTypeOK, MintAll
<1>3. tokenOwner' \in [Tokens -> Accounts \cup {NoAddress}]
  BY DEF CollectionTypeOK, MintAll
<1> QED BY <1>1, <1>2, <1>3 DEF CollectionTypeOK, MintAll, configVars

\* So do burning and approving.
LEMMA TokenStepTypes ==
    ASSUME CollectionTypeOK, NEW a \in Accounts, NEW t \in Tokens,
           \/ Burn(a, t)
           \/ \E spender \in Approvable : Approve(a, t, spender)
    PROVE  CollectionTypeOK'
BY UserAssumption
   DEF CollectionTypeOK, Burn, Approve, configVars, Addresses

\* So do the owner's settings.
LEMMA ConfigStepTypes ==
    ASSUME CollectionTypeOK, NEW a \in Accounts,
           \/ \E d \in Timeouts : SetFinalizeTransferTimeout(a, d)
           \/ \E d \in SalesStarts : SetSalesStartTimestamp(a, d)
    PROVE  CollectionTypeOK'
BY DEF CollectionTypeOK, SetFinalizeTransferTimeout, SetSalesStartTimestamp, tokenVars

\* Opening transfers: directly, by a user, or as drafts, by a user or the
\* exchange.
LEMMA OpenTypes ==
    ASSUME CollectionTypeOK, NEW a \in Addresses, NEW t \in Tokens,
           NEW to \in Accounts \cup {NoAddress},
           NEW cb \in {ExchangeAddress, NoAddress},
           InitTransfer(a, t, to, cb)
    PROVE  CollectionTypeOK'
<1>1. TransferOf(a, a, to, cb) \in TransferInfo
  BY DEF TransferOf, TransferInfo
<1>2. transfers' \in [Tokens -> TransferInfo]
  BY <1>1 DEF CollectionTypeOK, InitTransfer
<1>3. transferCounts' \in [Tokens -> 0 .. MaxTransfers]
  BY CollectionAssumption DEF CollectionTypeOK, InitTransfer
<1> QED BY <1>2, <1>3 DEF CollectionTypeOK, InitTransfer, tokenVars, configVars

\* So does opening a transfer, by initTransfer or as a draft.
LEMMA DraftTypes ==
    ASSUME CollectionTypeOK, NEW a \in Addresses, NEW ids \in SUBSET Tokens,
           NEW cb \in {ExchangeAddress, NoAddress},
           DraftTransfers(a, ids, cb)
    PROVE  CollectionTypeOK'
<1>1. \A t \in ids : DraftOf(a, t, cb) \in TransferInfo
  BY DEF CollectionTypeOK, DraftOf, TransferOf, TransferInfo, Addresses
<1> QED
  BY <1>1, CollectionAssumption
     DEF CollectionTypeOK, DraftTransfers, tokenVars, configVars

\* So does taking a transfer forward to its receiver, its key or its password.
LEMMA ProgressTypes ==
    ASSUME CollectionTypeOK, now \in Times, NEW a \in Addresses, NEW t \in Tokens,
           \/ \E to \in Accounts \cup {NoAddress} : CompleteTransferDraft(a, t, to)
           \/ \E n \in Nat : SetTransferPublicKey(a, t, n)
           \/ ApproveTransfer(a, t)
    PROVE  CollectionTypeOK'
<1> transfers \in [Tokens -> TransferInfo]
  BY DEF CollectionTypeOK
<1>1. CASE \E to \in Accounts \cup {NoAddress} : CompleteTransferDraft(a, t, to)
  <2>1. PICK to \in Accounts \cup {NoAddress} : CompleteTransferDraft(a, t, to)
    BY <1>1
  <2>2. [transfers[t] EXCEPT !.to = to, !.publicKey = TRUE, !.publicKeySetAt = now]
          \in TransferInfo
    BY DEF TransferInfo
  <2>3. [transfers EXCEPT ![t].to = to, ![t].publicKey = TRUE, ![t].publicKeySetAt = now]
          = [transfers EXCEPT ![t] = [transfers[t] EXCEPT !.to = to, !.publicKey = TRUE,
                                                          !.publicKeySetAt = now]]
    BY DEF TransferInfo
  <2>4. [transfers EXCEPT ![t].to = to, ![t].publicKey = TRUE, ![t].publicKeySetAt = now]
          \in [Tokens -> TransferInfo]
    BY <2>2, <2>3
  <2> QED BY <2>1, <2>4 DEF CollectionTypeOK, CompleteTransferDraft, tokenVars, configVars
<1>2. CASE \E n \in Nat : SetTransferPublicKey(a, t, n)
  <2>1. PICK n \in Nat : SetTransferPublicKey(a, t, n)
    BY <1>2
  <2>2. [transfers EXCEPT ![t].publicKey = TRUE, ![t].publicKeySetAt = now]
          \in [Tokens -> TransferInfo]
    BY DEF TransferInfo
  <2> QED BY <2>1, <2>2 DEF CollectionTypeOK, SetTransferPublicKey, tokenVars, configVars
<1>3. CASE ApproveTransfer(a, t)
  <2>1. [transfers EXCEPT ![t].encryptedPassword = TRUE, ![t].passwordSetAt = now]
          \in [Tokens -> TransferInfo]
    BY DEF TransferInfo
  <2> QED BY <1>3, <2>1 DEF CollectionTypeOK, ApproveTransfer, tokenVars, configVars
<1> QED BY <1>1, <1>2, <1>3

\* So does carrying out a verdict of the fraud decider.
LEMMA DecideTypes ==
    ASSUME CollectionTypeOK, NEW t \in Tokens, NEW approve \in BOOLEAN,
           DecideTransfer(t, approve)
    PROVE  CollectionTypeOK'
<1>1. transfers[t].to \in Accounts \cup {NoAddress}
  BY DEF CollectionTypeOK, TransferInfo
<1> QED
  BY <1>1, EmptyTransferType
     DEF CollectionTypeOK, DecideTransfer, SafeTransfer, DeleteTransfer, configVars

\* So does ending a transfer by finalizeTransfer, cancelTransfer or a late verdict.
LEMMA EndTypes ==
    ASSUME CollectionTypeOK, NEW a \in Addresses, NEW t \in Tokens,
           FinalizeTransfer(a, t) \/ CancelTransfer(a, t)
    PROVE  CollectionTypeOK'
<1>1. transfers[t].to \in Accounts \cup {NoAddress}
  BY DEF CollectionTypeOK, TransferInfo
<1> QED
  BY <1>1, EmptyTransferType
     DEF CollectionTypeOK, FinalizeTransfer, CancelTransfer, SafeTransfer,
         DeleteTransfer, tokenVars, configVars

\* So does reportFraud, whether or not the decider answers at once.
LEMMA ReportTypes ==
    ASSUME CollectionTypeOK, NEW a \in Addresses, NEW t \in Tokens,
           NEW decided \in BOOLEAN, NEW approve \in BOOLEAN,
           ReportFraud(a, t, decided, approve)
    PROVE  CollectionTypeOK'
<1>1. CASE decided
  BY <1>1, DecideTypes DEF ReportFraud
<1>2. CASE ~decided
  <2>1. transfers \in [Tokens -> TransferInfo]
    BY DEF CollectionTypeOK
  <2>2. [transfers EXCEPT ![t].fraudReported = TRUE] \in [Tokens -> TransferInfo]
    BY <2>1 DEF TransferInfo
  <2> QED BY <1>2, <2>2 DEF CollectionTypeOK, ReportFraud, tokenVars, configVars
<1> QED BY <1>1, <1>2

-----------------------------------------------------------------------------
(* Types of the exchange's state.                                          *)

\* What is known of an order that is open, and of one that is fulfilled.
LEMMA OpenOrderTypes ==
    ASSUME ExchangeTypeOK, NEW t \in Tokens, HasOrder(t)
    PROVE  /\ orders[t].price \in Prices
           /\ orders[t].price \in Nat
           /\ orders[t].currency \in Currencies
           /\ orders[t].initiator \in Accounts
           /\ orders[t].fulfilled => orders[t].receiver \in Accounts
           /\ ~orders[t].fulfilled => orders[t].receiver = NoAddress
<1> orders[t] \in Order /\ orders[t].price # 0
  BY DEF ExchangeTypeOK, HasOrder
<1>1. orders[t] # EmptyOrder
  BY DEF EmptyOrder
<1>2. orders[t] \in OpenOrder({NoAddress}, FALSE) \cup OpenOrder(Accounts, TRUE)
  BY <1>1 DEF Order
<1> QED BY <1>2, ExchangeAssumption DEF OpenOrder

\* The owner's settings keep the exchange well typed.
LEMMA ExchangeSettingTypes ==
    ASSUME ExchangeTypeOK, NEW a \in Accounts,
           \/ \E f \in Fees : SetFee(a, f)
           \/ \E d \in Deadlines, discount \in Discounts : SetWhitelistParams(a, d, discount)
    PROVE  ExchangeTypeOK'
<1>1. CASE \E f \in Fees : SetFee(a, f)
  BY <1>1, ExchangeAssumption
     DEF ExchangeTypeOK, SetFee, whitelistVars, PERCENT_MULTIPLIER
<1>2. CASE \E d \in Deadlines, discount \in Discounts : SetWhitelistParams(a, d, discount)
  BY <1>2 DEF ExchangeTypeOK, SetWhitelistParams
<1> QED BY <1>1, <1>2

\* So does the withdrawal of fees, which the exchange must own.
LEMMA WithdrawTypes ==
    ASSUME ExchangeTypeOK, NEW a \in Accounts, NEW to \in Addresses, NEW c \in Currencies,
           WithdrawFees(a, to, c)
    PROVE  ExchangeTypeOK'
<1>1. /\ balance \in Balances
      /\ accumulatedFees[c] \in Nat
      /\ ExchangeAddress \in Addresses
      /\ accumulatedFees[c] <= balance[c][ExchangeAddress]
  BY DEF ExchangeTypeOK, Balances, Addresses, WithdrawFees, CanPay
<1>2. balance' \in Balances
  BY <1>1, PayKeepsBalances DEF WithdrawFees
<1> QED BY <1>2 DEF ExchangeTypeOK, Balances, WithdrawFees, whitelistVars

\* So does placing orders.
LEMMA CreateTypes ==
    ASSUME ExchangeTypeOK, NEW a \in Accounts, NEW ids \in SUBSET Tokens,
           NEW price \in Prices, NEW c \in Currencies,
           CreateOrders(a, ids, price, c)
    PROVE  ExchangeTypeOK'
<1>1. OrderOf(a, price, c) \in Order
  BY DEF OrderOf, Order, OpenOrder
<1> QED BY <1>1 DEF ExchangeTypeOK, CreateOrders, whitelistVars

\* Native coin beside the payment leaves the balances natural, too: the buyer
\* owns it, and the payment was not in native coin if there is any.
LEMMA TakePays ==
    ASSUME ExchangeTypeOK, NEW a \in Accounts, NEW t \in Tokens, NEW amount \in Nat,
           NEW extra \in Extras, TakeOrder(a, t, amount, extra)
    PROVE  /\ Pay(balance, orders[t].currency, a, ExchangeAddress, amount) \in Balances
           /\ balance' \in Balances
<1> DEFINE c == orders[t].currency
           once == Pay(balance, c, a, ExchangeAddress, amount)
<1>1. /\ c \in Currencies /\ NativeCoin \in Currencies /\ extra \in Nat
      /\ a \in Addresses /\ ExchangeAddress \in Addresses /\ a # ExchangeAddress
      /\ balance \in Balances
      /\ amount <= balance[c][a]
      /\ extra <= balance[NativeCoin][a]
      /\ c = NativeCoin => extra = 0
      /\ balance' = Pay(once, NativeCoin, a, ExchangeAddress, extra)
  BY OpenOrderTypes, ExchangeAssumption, AddressAssumption
     DEF Addresses, TakeOrder, CanPay, ExchangeTypeOK, Balances
<1>2. once \in Balances
  BY <1>1, PayKeepsBalances
<1>3. once[NativeCoin][a] = balance[NativeCoin][a] - (IF c = NativeCoin THEN amount ELSE 0)
  BY <1>1 DEF Pay, Balances
<1>4. balance[NativeCoin][a] \in Nat
  BY <1>1 DEF Balances
<1>5. extra <= once[NativeCoin][a]
  BY <1>1, <1>3, <1>4
<1> HIDE DEF once
<1>6. balance' \in Balances
  BY <1>1, <1>2, <1>5, PayKeepsBalances
<1> QED BY <1>2, <1>6 DEF once

\* So does paying for an order, at any amount the buyer can cover: of the
\* exchange's state the discounts alone are not settled by it.
LEMMA TakeTypes ==
    ASSUME ExchangeTypeOK, NEW a \in Accounts, NEW t \in Tokens, NEW amount \in Nat,
           NEW extra \in Extras, TakeOrder(a, t, amount, extra),
           discounted' \in [Currencies -> Nat]
    PROVE  ExchangeTypeOK'
<1> DEFINE taken == [orders[t] EXCEPT !.receiver = a, !.fulfilled = TRUE]
<1>1. HasOrder(t) /\ ~orders[t].fulfilled
  BY DEF TakeOrder
<1>2. orders[t] \in OpenOrder({NoAddress}, FALSE)
  <2>1. orders[t] \in Order /\ orders[t] # EmptyOrder
    BY <1>1 DEF ExchangeTypeOK, EmptyOrder, HasOrder
  <2>2. orders[t] \notin OpenOrder(Accounts, TRUE)
    BY <1>1 DEF OpenOrder
  <2> QED BY <2>1, <2>2 DEF Order
<1>3. taken \in OpenOrder(Accounts, TRUE)
  BY <1>2 DEF OpenOrder
<1>4. orders' = [orders EXCEPT ![t] = taken]
  BY <1>2 DEF TakeOrder, OpenOrder, ExchangeTypeOK
<1>5. orders' \in [Tokens -> Order]
  BY <1>3, <1>4 DEF ExchangeTypeOK, Order
<1>6. balance' \in Balances
  BY TakePays
<1> QED BY <1>5, <1>6 DEF ExchangeTypeOK, Balances, TakeOrder, whitelistVars

\* Both ways to buy take a part of the price, which the subtraction's check keeps
\* from underflowing, and the rest is booked as a discount.
LEMMA PurchaseTypes ==
    ASSUME ExchangeTypeOK, NEW a \in Accounts, NEW t \in Tokens, NEW extra \in Extras,
           FulfillAtPrice(a, t, extra) \/ FulfillAtDiscount(a, t, extra)
    PROVE  /\ ExchangeTypeOK'
           /\ \E paid \in 0 .. orders[t].price :
                /\ TakeOrder(a, t, paid, extra)
                /\ paid = orders[t].price \/ a \in Whitelisted
                /\ discounted' = [discounted EXCEPT ![orders[t].currency] =
                                    @ + (orders[t].price - paid)]
<1>1. orders[t].price \in Nat /\ orders[t].currency \in Currencies
  BY OpenOrderTypes DEF FulfillAtPrice, FulfillAtDiscount, TakeOrder
<1>2. CASE FulfillAtPrice(a, t, extra)
  <2>1. /\ TakeOrder(a, t, orders[t].price, extra)
        /\ discounted' = discounted /\ discounted \in [Currencies -> Nat]
    BY <1>2 DEF FulfillAtPrice, ExchangeTypeOK
  <2>2. discounted' = [discounted EXCEPT ![orders[t].currency] =
                        @ + (orders[t].price - orders[t].price)]
    BY <1>1, <2>1
  <2>3. ExchangeTypeOK'
    BY <1>1, <2>1, TakeTypes
  <2>4. orders[t].price \in 0 .. orders[t].price
    BY <1>1
  <2> QED BY <2>1, <2>2, <2>3, <2>4
<1>3. CASE FulfillAtDiscount(a, t, extra)
  <2> DEFINE cut == DiscountOf(orders[t].price)
             product == orders[t].price * whitelistDiscount
  <2>1. product \in Nat
    BY <1>1, ExchangeAssumption DEF ExchangeTypeOK
  <2> HIDE DEF product
  <2>2. product \div 10000 \in Nat
    BY <2>1
  <2>3. cut \in Nat
    BY <2>2 DEF product, DiscountOf, PERCENT_MULTIPLIER
  <2>4. /\ cut <= orders[t].price /\ TakeOrder(a, t, orders[t].price - cut, extra)
        /\ a \in Whitelisted
        /\ discounted' = [discounted EXCEPT ![orders[t].currency] = @ + cut]
    BY <1>3 DEF FulfillAtDiscount
  <2> HIDE DEF cut
  <2> DEFINE paid == orders[t].price - cut
  <2>5. /\ paid \in 0 .. orders[t].price /\ paid \in Nat
        /\ orders[t].price - paid = cut
    BY <1>1, <2>3, <2>4
  <2>6. discounted' \in [Currencies -> Nat]
    BY <1>1, <2>3, <2>4 DEF ExchangeTypeOK
  <2>7. ExchangeTypeOK'
    BY <2>4, <2>5, <2>6, TakeTypes
  <2> QED BY <2>4, <2>5, <2>7
<1> QED BY <1>2, <1>3

\* The exchange pays out and back what it can cover, in natural amounts: the fee
\* is part of the price, and the royalty part of what the fee leaves.
LEMMA PayOffTypes ==
    ASSUME ExchangeTypeOK, NEW t \in Tokens, NEW rate \in 0 .. ROYALTY_CEILING,
           HasOrder(t), PayOff(t, rate)
    PROVE  balance' \in Balances /\ accumulatedFees' \in [Currencies -> Nat]
<1> DEFINE c == orders[t].currency
           price == orders[t].price
           cut == FeeOf(price)
           net == price - cut
           royalty == RoyaltyOf(net, rate)
           between == Pay(balance, c, ExchangeAddress, RoyaltyReceiver, royalty)
<1>1. /\ price \in Nat
      /\ c \in Currencies
      /\ orders[t].initiator \in Addresses
      /\ RoyaltyReceiver \in Addresses
      /\ ExchangeAddress \in Addresses
      /\ RoyaltyReceiver # ExchangeAddress
  BY OpenOrderTypes, ExchangeAssumption, AddressAssumption DEF Addresses
<1>2. /\ balance \in Balances
      /\ accumulatedFees \in [Currencies -> Nat]
      /\ fee \in 0 .. PERCENT_MULTIPLIER
      /\ rate \in 0 .. PERCENT_MULTIPLIER
  BY DEF ExchangeTypeOK, Balances, PERCENT_MULTIPLIER, ROYALTY_CEILING
<1>3. /\ net <= balance[c][ExchangeAddress]
      /\ accumulatedFees' = [accumulatedFees EXCEPT ![c] = @ + cut]
      /\ balance' = Pay(between, c, ExchangeAddress, orders[t].initiator, net - royalty)
  BY DEF PayOff, CanPay
<1>4. cut \in 0 .. price
  BY <1>1, <1>2, CutIsPart DEF FeeOf
<1>5. accumulatedFees' \in [Currencies -> Nat]
  <2> HIDE DEF cut
  <2> QED BY <1>1, <1>2, <1>3, <1>4
<1>6. net \in Nat
  <2> HIDE DEF cut
  <2> QED BY <1>1, <1>4
<1>7. royalty \in 0 .. net
  <2> HIDE DEF net
  <2> QED BY <1>2, <1>6, CutIsPart DEF RoyaltyOf
<1>8. balance[c][ExchangeAddress] \in Nat
  BY <1>1, <1>2 DEF Balances
<1> HIDE DEF net, royalty, price
<1>9. royalty \in Nat /\ royalty <= balance[c][ExchangeAddress] /\ net - royalty \in Nat
  BY <1>3, <1>6, <1>7, <1>8
<1>10. /\ between \in Balances
       /\ between[c][ExchangeAddress] = balance[c][ExchangeAddress] - royalty
  BY <1>1, <1>2, <1>9, PayKeepsBalances
<1>11. net - royalty <= between[c][ExchangeAddress]
  BY <1>3, <1>6, <1>7, <1>8, <1>10
<1> HIDE DEF between
<1> QED BY <1>1, <1>3, <1>5, <1>9, <1>10, <1>11, PayKeepsBalances

\* So does paying a buyer back.
LEMMA RefundTypes ==
    ASSUME ExchangeTypeOK, NEW t \in Tokens, HasOrder(t), orders[t].fulfilled, Refund(t)
    PROVE  balance' \in Balances /\ accumulatedFees' \in [Currencies -> Nat]
<1>1. /\ orders[t].price \in Nat
      /\ orders[t].currency \in Currencies
      /\ orders[t].receiver \in Addresses
      /\ ExchangeAddress \in Addresses
      /\ balance \in Balances
      /\ orders[t].price <= balance[orders[t].currency][ExchangeAddress]
  BY OpenOrderTypes DEF Addresses, ExchangeTypeOK, Balances, Refund, CanPay
<1> QED BY <1>1, PayKeepsBalances DEF Refund, ExchangeTypeOK

\* The exchange's state is well typed after each callback.
LEMMA CallbackTypes ==
    ASSUME ExchangeTypeOK, NEW t \in Tokens, NEW rate \in 0 .. ROYALTY_CEILING,
           NEW approved \in BOOLEAN,
           \/ TransferFinished(t, rate)
           \/ TransferCancelled(t)
           \/ TransferFraudDetected(t, approved, rate)
    PROVE  ExchangeTypeOK'
<1>1. HasOrder(t) /\ DeleteOrder(t) /\ UNCHANGED <<fee, whitelistVars, discounted>>
  BY DEF TransferFinished, TransferCancelled, TransferFraudDetected
<1>2. orders' \in [Tokens -> Order]
  BY <1>1 DEF DeleteOrder, ExchangeTypeOK, Order
<1>3. balance' \in Balances /\ accumulatedFees' \in [Currencies -> Nat]
  <2>1. CASE TransferFinished(t, rate)
    BY <2>1, PayOffTypes DEF TransferFinished
  <2>2. CASE TransferCancelled(t)
    <3>1. CASE orders[t].fulfilled
      BY <2>2, <3>1, RefundTypes DEF TransferCancelled
    <3>2. CASE ~orders[t].fulfilled
      BY <2>2, <3>2 DEF TransferCancelled, ExchangeTypeOK, Balances
    <3> QED BY <3>1, <3>2
  <2>3. CASE TransferFraudDetected(t, approved, rate)
    BY <2>3, PayOffTypes, RefundTypes DEF TransferFraudDetected
  <2> QED BY <2>1, <2>2, <2>3
<1> QED BY <1>1, <1>2, <1>3 DEF ExchangeTypeOK, Balances, whitelistVars

-----------------------------------------------------------------------------
(* Type correctness of the whole system.                                   *)

\* royaltyInfo answers with a rate of at most 50%.
LEMMA RateType ==
    ASSUME CollectionTypeOK, NEW t \in Tokens
    PROVE  RoyaltyRate(t) \in 0 .. ROYALTY_CEILING
BY DEF CollectionTypeOK, RoyaltyRate, ROYALTY_CEILING

\* A transaction that ends a transfer: the exchange's part of it.
LEMMA EndCallbackTypes ==
    ASSUME TypeOK, NEW t \in Tokens, NEW approve \in BOOLEAN,
           OnFinished(t) \/ OnCancelled(t) \/ OnFraudDetected(t, approve)
    PROVE  ExchangeTypeOK'
<1>1. RoyaltyRate(t) \in 0 .. ROYALTY_CEILING /\ ExchangeTypeOK
  BY RateType DEF TypeOK
<1>2. CASE IsEscrowed(t)
  BY <1>1, <1>2, CallbackTypes DEF OnFinished, OnCancelled, OnFraudDetected
<1>3. CASE ~IsEscrowed(t)
  BY <1>1, <1>3 DEF OnFinished, OnCancelled, OnFraudDetected, exchangeVars, ExchangeTypeOK
<1> QED BY <1>2, <1>3

\* A step that leaves exchange, decider and time alone needs the collection's types only.
LEMMA CollectionFrame ==
    ASSUME TypeOK, CollectionOnly, CollectionTypeOK'
    PROVE  TypeOK'
BY DEF TypeOK, CollectionOnly, exchangeVars, ExchangeTypeOK, DeciderTypeOK

\* A step that leaves collection, decider and time alone needs the exchange's types only.
LEMMA ExchangeFrame ==
    ASSUME TypeOK, ExchangeOnly, ExchangeTypeOK'
    PROVE  TypeOK'
BY DEF TypeOK, ExchangeOnly, collectionVars, CollectionTypeOK, DeciderTypeOK

\* Transactions of the owners.
LEMMA SettingsTypes ==
    ASSUME TypeOK, NEW a \in Accounts, Settings(a)
    PROVE  TypeOK'
<1> CollectionTypeOK /\ ExchangeTypeOK
  BY DEF TypeOK
<1>1. CASE \E d \in Timeouts : SetTimeoutTx(a, d)
  BY <1>1, ConfigStepTypes, CollectionFrame DEF SetTimeoutTx
<1>2. CASE \E d \in SalesStarts : SetSalesStartTx(a, d)
  BY <1>2, ConfigStepTypes, CollectionFrame DEF SetSalesStartTx
<1>3. CASE \E f \in Fees : SetFeeTx(a, f)
  BY <1>3, ExchangeSettingTypes, ExchangeFrame DEF SetFeeTx
<1>4. CASE \E d \in Deadlines, discount \in Discounts : SetWhitelistTx(a, d, discount)
  BY <1>4, ExchangeSettingTypes, ExchangeFrame DEF SetWhitelistTx
<1>5. CASE \E to \in Accounts, c \in Currencies : WithdrawFeesTx(a, to, c)
  BY <1>5, WithdrawTypes, ExchangeFrame DEF WithdrawFeesTx, Addresses
<1> QED BY <1>1, <1>2, <1>3, <1>4, <1>5 DEF Settings

\* Transactions on one token outside its transfer.
LEMMA TokenTxTypes ==
    ASSUME TypeOK, NEW a \in Accounts, NEW t \in Tokens, TokenTx(a, t)
    PROVE  TypeOK'
<1> CollectionTypeOK
  BY DEF TypeOK
<1>1. CASE \E to \in Accounts, r \in Royalties : MintTx(a, to, t, r)
  <2>1. PICK to \in Accounts, r \in Royalties : MintTx(a, to, t, r)
    BY <1>1
  <2>2. [i \in {t} |-> r] \in [{t} -> Nat]
    BY CollectionAssumption
  <2> QED BY <2>1, <2>2, MintAllTypes, CollectionFrame DEF MintTx, Mint
<1>2. CASE BurnTx(a, t)
  BY <1>2, TokenStepTypes, CollectionFrame DEF BurnTx
<1>3. CASE \E spender \in Approvable : ApproveTx(a, t, spender)
  BY <1>3, TokenStepTypes, CollectionFrame DEF ApproveTx
<1> QED BY <1>1, <1>2, <1>3 DEF TokenTx

\* Mints whose ids the collection chooses.
LEMMA MintNextTypes ==
    ASSUME TypeOK, NEW a \in Accounts, NEW to \in Accounts, MintNextTx(a, to)
    PROVE  TypeOK'
<1> CollectionTypeOK
  BY DEF TypeOK
<1>1. CASE \E r \in Royalties : MintWithoutIdTx(a, to, r)
  <2>1. PICK r \in Royalties : MintWithoutIdTx(a, to, r)
    BY <1>1
  <2>2. tokensCount \in Tokens /\ [i \in {tokensCount} |-> r] \in [{tokensCount} -> Nat]
    BY <2>1, CollectionAssumption DEF MintWithoutIdTx, MintWithoutId
  <2> QED BY <2>1, <2>2, MintAllTypes, CollectionFrame DEF MintWithoutIdTx, MintWithoutId, Mint
<1>2. CASE \E n \in 1 .. BatchLimit : \E rates \in [NextIds(n) -> Royalties] :
             MintBatchTx(a, to, n, rates)
  <2>0. PICK n \in 1 .. BatchLimit : \E rates \in [NextIds(n) -> Royalties] :
               MintBatchTx(a, to, n, rates)
    BY <1>2
  <2>1. PICK rates \in [NextIds(n) -> Royalties] : MintBatchTx(a, to, n, rates)
    BY <2>0
  <2>2. /\ n \in Nat
        /\ NextIds(n) \in SUBSET Tokens
        /\ rates \in [NextIds(n) -> Nat]
    <3>1. n \in Nat
      BY UserAssumption
    <3>2. rates \in [NextIds(n) -> Nat]
      <4> HIDE DEF NextIds
      <4> QED BY CollectionAssumption
    <3> QED BY <2>1, <3>1, <3>2 DEF MintBatchTx, MintBatch
  <2> QED BY <2>1, <2>2, MintAllTypes, CollectionFrame DEF MintBatchTx, MintBatch
<1> QED BY <1>1, <1>2 DEF MintNextTx

\* Transactions of the transfer protocol, with their callbacks.
LEMMA TransferTxTypes ==
    ASSUME TypeOK, NEW a \in Addresses, NEW t \in Tokens, TransferTx(a, t)
    PROVE  TypeOK'
<1> CollectionTypeOK /\ now \in Times /\ Callbacks \subseteq {ExchangeAddress, NoAddress}
  BY UserAssumption DEF TypeOK
<1>1. CASE \E to \in Accounts \cup {NoAddress}, cb \in Callbacks : InitTransferTx(a, t, to, cb)
  BY <1>1, OpenTypes, CollectionFrame DEF InitTransferTx
<1>2. CASE \E cb \in Callbacks : DraftTransferTx(a, t, cb)
  BY <1>2, DraftTypes, CollectionFrame DEF DraftTransferTx, DraftTransfer
<1>3. CASE \/ \E to \in Accounts \cup {NoAddress} : CompleteDraftTx(a, t, to)
           \/ \E n \in 1 .. MaxTransfers : SetPublicKeyTx(a, t, n)
           \/ ApproveTransferTx(a, t)
  BY <1>3, ProgressTypes, CollectionFrame, CollectionAssumption
     DEF CompleteDraftTx, SetPublicKeyTx, ApproveTransferTx
<1>4. CASE FinalizeTx(a, t)
  <2>1. CollectionTypeOK' /\ ExchangeTypeOK'
    BY <1>4, EndTypes, EndCallbackTypes DEF FinalizeTx
  <2> QED BY <1>4, <2>1 DEF FinalizeTx, TypeOK, DeciderTypeOK
<1>5. CASE CancelTx(a, t)
  <2>1. CollectionTypeOK' /\ ExchangeTypeOK'
    BY <1>5, EndTypes, EndCallbackTypes DEF CancelTx
  <2> QED BY <1>5, <2>1 DEF CancelTx, TypeOK, DeciderTypeOK
<1>6. CASE ReportFraudTx(a, t)
  <2>1. PICK answer \in DecideAnswers :
               /\ ReportFraud(a, t, answer[1], answer[2])
               /\ IF answer[1] THEN OnFraudDetected(t, answer[2])
                               ELSE UNCHANGED exchangeVars
    BY <1>6 DEF ReportFraudTx
  <2>2. answer[1] \in BOOLEAN /\ answer[2] \in BOOLEAN
    <3>1. CASE InstantDecider
      BY <3>1 DEF DecideAnswers
    <3>2. CASE ~InstantDecider
      <4>1. answer = <<FALSE, FALSE>>
        BY <3>2 DEF DecideAnswers
      <4> QED BY <4>1
    <3> QED BY <3>1, <3>2
  <2>3. CollectionTypeOK'
    BY <2>1, <2>2, ReportTypes
  <2>4. ExchangeTypeOK'
    BY <2>1, <2>2, EndCallbackTypes DEF TypeOK, ExchangeTypeOK, exchangeVars
  <2>5. DeciderTypeOK'
    <3>1. transferCounts[t] \in Nat
      BY DEF CollectionTypeOK
    <3> QED BY <1>6, <3>1 DEF ReportFraudTx, Decide, TypeOK, DeciderTypeOK
  <2> QED BY <1>6, <2>3, <2>4, <2>5 DEF ReportFraudTx, TypeOK
<1> QED BY <1>1, <1>2, <1>3, <1>4, <1>5, <1>6 DEF TransferTx

\* Placing orders together with the drafts of their transfers.
LEMMA PlaceTypes ==
    ASSUME TypeOK, NEW a \in Accounts, NEW ids \in SUBSET Tokens,
           NEW price \in Prices, NEW c \in Currencies,
           PlaceOrderBatchTx(a, ids, price, c)
    PROVE  TypeOK'
<1>1. ExchangeTypeOK'
  BY CreateTypes DEF PlaceOrderBatchTx, TypeOK
<1>2. CollectionTypeOK'
  <2> ExchangeAddress \in Addresses
    BY DEF Addresses
  <2> QED BY DraftTypes DEF PlaceOrderBatchTx, TypeOK
<1> QED BY <1>1, <1>2 DEF PlaceOrderBatchTx, TypeOK, DeciderTypeOK

\* Transactions on an order, with the calls to the collection.
LEMMA OrderTxTypes ==
    ASSUME TypeOK, NEW a \in Accounts, NEW t \in Tokens, OrderTx(a, t)
    PROVE  TypeOK'
<1>1. CASE \E price \in Prices, c \in Currencies : PlaceOrderTx(a, t, price, c)
  <2>1. {t} \in SUBSET Tokens
    OBVIOUS
  <2> QED BY <1>1, <2>1, PlaceTypes DEF PlaceOrderTx
<1>2. CASE \E extra \in Extras :
             FulfillOrderTx(a, t, extra) \/ FulfillOrderWhitelistedTx(a, t, extra)
  <2>1. ExchangeTypeOK'
    BY <1>2, PurchaseTypes DEF FulfillOrderTx, FulfillOrderWhitelistedTx, TypeOK
  <2>2. CollectionTypeOK'
    <3>1. ExchangeAddress \in Addresses /\ a \in Accounts \cup {NoAddress}
      BY DEF Addresses
    <3>2. CompleteTransferDraft(ExchangeAddress, t, a)
      BY <1>2 DEF FulfillOrderTx, FulfillOrderWhitelistedTx
    <3> QED BY <3>1, <3>2, ProgressTypes DEF TypeOK
  <2> QED BY <1>2, <2>1, <2>2
          DEF FulfillOrderTx, FulfillOrderWhitelistedTx, TypeOK, DeciderTypeOK
<1> QED BY <1>1, <1>2 DEF OrderTx

\* Transactions that end a transfer and are sent to the exchange or by the
\* decider.
LEMMA OutcomeTypes ==
    ASSUME TypeOK, NEW t \in Tokens,
           \/ CancelOrderTx(t)
           \/ \E approve \in BOOLEAN : LateDecisionTx(t, approve)
    PROVE  TypeOK'
<1>1. CASE CancelOrderTx(t)
  <2>1. ExchangeAddress \in Addresses
    BY DEF Addresses
  <2>2. CollectionTypeOK' /\ ExchangeTypeOK'
    BY <1>1, <2>1, EndTypes, EndCallbackTypes DEF CancelOrderTx, TypeOK
  <2> QED BY <1>1, <2>2 DEF CancelOrderTx, TypeOK, DeciderTypeOK
<1>2. CASE \E approve \in BOOLEAN : LateDecisionTx(t, approve)
  <2>1. PICK approve \in BOOLEAN : LateDecisionTx(t, approve)
    BY <1>2
  <2>2. CollectionTypeOK' /\ ExchangeTypeOK'
    BY <2>1, DecideTypes, EndCallbackTypes
       DEF LateDecisionTx, ApplyFraudDecision, TypeOK
  <2> QED BY <2>1, <2>2 DEF LateDecisionTx, TypeOK, DeciderTypeOK
<1> QED BY <1>1, <1>2

\* The initial state is well typed.
LEMMA InitTypes == Init => TypeOK
<1> SUFFICES ASSUME Init PROVE TypeOK
  OBVIOUS
<1>1. now \in Times
  BY ChainAssumption DEF Init, Times
<1>2. CollectionTypeOK
  BY CollectionAssumption, EmptyTransferType
     DEF Init, CollectionInit, CollectionTypeOK, ROYALTY_CEILING
<1>3. ExchangeTypeOK
  BY ExchangeAssumption
     DEF Init, ExchangeInit, ExchangeTypeOK, PERCENT_MULTIPLIER, Order
<1> QED BY <1>1, <1>2, <1>3 DEF Init, DeciderInit, DeciderTypeOK, TypeOK

\* Every step keeps the types.
LEMMA NextTypes == TypeOK /\ [Next]_vars => TypeOK'
<1> SUFFICES ASSUME TypeOK, [Next]_vars PROVE TypeOK'
  OBVIOUS
<1>1. CASE PassTime
  BY <1>1, ChainAssumption
     DEF PassTime, Tick, Times, TypeOK, collectionVars, exchangeVars,
         CollectionTypeOK, ExchangeTypeOK, DeciderTypeOK, TransferInfo
<1>2. CASE \E a \in Accounts : Settings(a)
  BY <1>2, SettingsTypes
<1>3. CASE \E a, to \in Accounts : MintNextTx(a, to)
  BY <1>3, MintNextTypes
<1>4. CASE \E a \in Accounts, ids \in SUBSET Tokens \ {{}}, price \in Prices, c \in Currencies :
             PlaceOrderBatchTx(a, ids, price, c)
  BY <1>4, PlaceTypes
<1>5. CASE \E a \in Accounts, t \in Tokens : TokenTx(a, t) \/ TransferTx(a, t) \/ OrderTx(a, t)
  BY <1>5, TokenTxTypes, TransferTxTypes, OrderTxTypes DEF Addresses
<1>6. CASE \/ \E t \in Tokens : CancelOrderTx(t)
           \/ \E t \in Tokens, approve \in BOOLEAN : LateDecisionTx(t, approve)
  BY <1>6, OutcomeTypes
<1>7. CASE UNCHANGED vars
  BY <1>7 DEF vars, TypeOK, collectionVars, exchangeVars,
              CollectionTypeOK, ExchangeTypeOK, DeciderTypeOK
<1> QED BY <1>1, <1>2, <1>3, <1>4, <1>5, <1>6, <1>7 DEF Next

\* Every reachable state of the contracts is well typed: among others, no
\* balance is ever overdrawn, no fee or royalty exceeds what it is taken from,
\* and an order has its receiver exactly when it is fulfilled.
THEOREM TypeCorrect == Spec => []TypeOK
<1>1. Init => TypeOK
  BY InitTypes
<1>2. TypeOK /\ [Next]_vars => TypeOK'
  BY NextTypes
<1> QED BY <1>1, <1>2, PTL DEF Spec

=============================================================================
