--------------------- MODULE MarketplaceRefinement_proofs ---------------------
(***************************************************************************)
(* The contracts implement the atomic sale, for every value of their       *)
(* constants: each step is a step of AtomicSale or leaves its variables    *)
(* as they are.                                                            *)
(***************************************************************************)
EXTENDS MarketplaceRefinement, MarketplaceSafety_proofs, FiniteSetTheorems

Sales == [t \in Tokens |-> SaleOf(t)]

\* What users own of the balances b: the exchange's own is left out.
MoneyOf(b) == [c \in Currencies |-> [a \in Accounts |-> b[c][a]]]

-----------------------------------------------------------------------------
(* Money.                                                                  *)

HalfRates == 0 .. 5000
HalfOf(amount) == 0 .. amount \div 2

\* A rate of at most one half takes at most half of the amount.
LEMMA CutIsHalf ==
    ASSUME NEW amount \in Nat, NEW rate \in HalfRates
    PROVE  (amount * rate) \div PERCENT_MULTIPLIER \in HalfOf(amount)
<1> DEFINE product == amount * rate
<1>1. product \in Nat /\ product <= amount * 5000
  BY DEF HalfRates
<1> HIDE DEF product
<1>2. product \div 10000 \in 0 .. amount \div 2
  BY <1>1
<1> QED BY <1>2 DEF product, PERCENT_MULTIPLIER, HalfOf

\* A payment out of the exchange is given to a user.
LEMMA PaidOut ==
    ASSUME NEW b \in Balances, NEW c \in Currencies, NEW payee \in Accounts, NEW amount \in Nat
    PROVE  MoneyOf(Pay(b, c, ExchangeAddress, payee, amount))
             = Abstract!Give(MoneyOf(b), c, payee, amount)
<1> DEFINE once == [b EXCEPT ![c][ExchangeAddress] = b[c][ExchangeAddress] - amount]
           twice == [once EXCEPT ![c][payee] = once[c][payee] + amount]
<1>1. Pay(b, c, ExchangeAddress, payee, amount) = twice
  BY DEF Pay, Balances
<1>2. payee # ExchangeAddress /\ ExchangeAddress \notin Accounts
  BY AddressAssumption
<1>3. \A d \in Currencies, a \in Accounts :
        twice[d][a] = IF d = c /\ a = payee THEN b[d][a] + amount ELSE b[d][a]
  BY <1>2 DEF Balances, Addresses
<1>4. \A d \in Currencies, a \in Accounts :
        Abstract!Give(MoneyOf(b), c, payee, amount)[d][a]
          = IF d = c /\ a = payee THEN b[d][a] + amount ELSE b[d][a]
  BY DEF Abstract!Give, MoneyOf
<1>5. Abstract!Give(MoneyOf(b), c, payee, amount)
        = [d \in Currencies |-> [a \in Accounts |->
             Abstract!Give(MoneyOf(b), c, payee, amount)[d][a]]]
  BY DEF Abstract!Give, MoneyOf
<1> HIDE DEF twice
<1>6. MoneyOf(twice) = [d \in Currencies |-> [a \in Accounts |-> twice[d][a]]]
  BY DEF MoneyOf
<1> QED BY <1>1, <1>3, <1>4, <1>5, <1>6

\* A payment into the exchange is taken from the user.
LEMMA PaidIn ==
    ASSUME NEW b \in Balances, NEW c \in Currencies, NEW payer \in Accounts, NEW amount \in Nat
    PROVE  MoneyOf(Pay(b, c, payer, ExchangeAddress, amount))
             = Abstract!Take(MoneyOf(b), c, payer, amount)
<1> DEFINE once == [b EXCEPT ![c][payer] = b[c][payer] - amount]
           twice == [once EXCEPT ![c][ExchangeAddress] = once[c][ExchangeAddress] + amount]
           given == Abstract!Take(MoneyOf(b), c, payer, amount)
<1>1. Pay(b, c, payer, ExchangeAddress, amount) = twice
  BY DEF Pay, Balances
<1>2. payer # ExchangeAddress /\ ExchangeAddress \notin Accounts
  BY AddressAssumption
<1>3. \A d \in Currencies, a \in Accounts :
        twice[d][a] = IF d = c /\ a = payer THEN b[d][a] - amount ELSE b[d][a]
  BY <1>2 DEF Balances, Addresses
<1>4. \A d \in Currencies, a \in Accounts :
        given[d][a] = IF d = c /\ a = payer THEN b[d][a] - amount ELSE b[d][a]
  BY DEF MoneyOf, Abstract!Take
<1>5. given = [d \in Currencies |-> [a \in Accounts |-> given[d][a]]]
  BY DEF MoneyOf, Abstract!Take
<1> HIDE DEF twice, given
<1>6. MoneyOf(twice) = [d \in Currencies |-> [a \in Accounts |-> twice[d][a]]]
  BY DEF MoneyOf
<1>7. MoneyOf(twice) = given
  BY <1>3, <1>4, <1>5, <1>6
<1> QED BY <1>1, <1>7 DEF given

-----------------------------------------------------------------------------
(* What each operation of the contracts is to the atomic sale.             *)

\* The stage of a sale, as the order tells it.
LEMMA SaleStages ==
    ASSUME NEW t \in Tokens
    PROVE  /\ ~HasOrder(t) => SaleOf(t) = Abstract!NoSale
           /\ HasOrder(t) /\ ~orders[t].fulfilled =>
                SaleOf(t) = Abstract!Listed(orders[t].initiator, orders[t].price, orders[t].currency)
           /\ HasOrder(t) /\ orders[t].fulfilled =>
                SaleOf(t) = Abstract!Paid(orders[t].initiator, orders[t].price,
                                          orders[t].currency, orders[t].receiver)
BY DEF SaleOf, Abstract!NoSale, Abstract!Listed, Abstract!Paid

\* The variables of the atomic sale that no order and no payment touches.
LEMMA Unsold ==
    ASSUME UNCHANGED exchangeVars
    PROVE  UNCHANGED <<Sales, MoneyOf(balance), accumulatedFees>>
BY DEF exchangeVars, Sales, SaleOf, HasOrder, MoneyOf

\* A transaction that moves no token and does not reach the exchange.
LEMMA Stutter ==
    ASSUME UNCHANGED <<tokenOwner, exchangeVars>>
    PROVE  UNCHANGED Abstract!saleVars
BY Unsold DEF Abstract!saleVars, Sales, MoneyOf

\* A token that is not for sale is given away, or any token is burnt.
LEMMA MoveStep ==
    ASSUME TypeOK, NEW t \in Tokens, NEW a \in Accounts \cup {NoAddress},
           a = NoAddress \/ ~HasOrder(t),
           tokenOwner' = [tokenOwner EXCEPT ![t] = a], UNCHANGED exchangeVars
    PROVE  Abstract!Move(t, a)
BY Unsold, SaleStages DEF Abstract!Move, Sales, MoneyOf

\* Orders without a buyer are created for tokens that exist and have none.
LEMMA ListStep ==
    ASSUME TypeOK, NEW a \in Accounts, NEW ids \in SUBSET Tokens, NEW price \in Prices, NEW c \in Currencies,
           CreateOrders(a, ids, price, c), \A t \in ids : Exists(t), UNCHANGED tokenOwner
    PROVE  Abstract!List(ids, a, price, c)
<1>1. \A t \in ids : Sales[t] = Abstract!NoSale /\ tokenOwner[t] # NoAddress
  BY SaleStages DEF CreateOrders, Exists, Sales
<1>2. Sales' = [t \in Tokens |-> IF t \in ids THEN Abstract!Listed(a, price, c) ELSE Sales[t]]
  BY DEF CreateOrders, Sales, SaleOf, HasOrder, OrderOf, Abstract!Listed
<1>3. UNCHANGED <<tokenOwner, MoneyOf(balance), accumulatedFees>>
  BY DEF CreateOrders, MoneyOf
<1> QED BY <1>1, <1>2, <1>3 DEF Abstract!List, Sales, MoneyOf

\* The buyer pays into the exchange: the price, or less of it when favoured, and
\* native coin beside it when the price is in another coin.
LEMMA BuyStep ==
    ASSUME TypeOK, NEW a \in Accounts, NEW t \in Tokens, NEW paid \in 0 .. orders[t].price,
           NEW extra \in Extras, paid = orders[t].price \/ a \in Whitelisted,
           TakeOrder(a, t, paid, extra), UNCHANGED tokenOwner
    PROVE  Abstract!Buy(t, a)
<1> DEFINE o == orders[t]
           once == Pay(balance, o.currency, a, ExchangeAddress, paid)
<1> paid \in Nat /\ extra \in Nat
  BY ExchangeAssumption, OpenOrderTypes DEF TypeOK, TakeOrder
<1>1. /\ o.price \in Nat /\ o.currency \in Currencies
      /\ Sales[t] = Abstract!Listed(o.initiator, o.price, o.currency)
  BY OpenOrderTypes, SaleStages DEF TypeOK, TakeOrder, Sales
<1>2. /\ Sales[t].stage = "listed" /\ Sales[t].price = o.price
      /\ Sales[t].coin = o.currency /\ Sales[t].seller = o.initiator
  BY <1>1 DEF Abstract!Listed
<1>3. MoneyOf(balance') =
        Abstract!Take(Abstract!Take(MoneyOf(balance), o.currency, a, paid), NativeCoin, a, extra)
  <2>1. once \in Balances /\ balance \in Balances
    BY TakePays DEF TypeOK, ExchangeTypeOK, Balances
  <2>2. MoneyOf(once) = Abstract!Take(MoneyOf(balance), o.currency, a, paid)
    BY <1>1, <2>1, PaidIn
  <2>3. balance' = Pay(once, NativeCoin, a, ExchangeAddress, extra)
    BY DEF TakeOrder
  <2> HIDE DEF once
  <2>4. MoneyOf(Pay(once, NativeCoin, a, ExchangeAddress, extra))
          = Abstract!Take(MoneyOf(once), NativeCoin, a, extra)
    BY <2>1, PaidIn, ExchangeAssumption
  <2> QED BY <2>2, <2>3, <2>4
<1>4. /\ MoneyOf(balance)[o.currency][a] >= paid
      /\ extra \in 0 .. MoneyOf(balance)[NativeCoin][a]
      /\ extra = 0 \/ o.currency # NativeCoin
  <2>1. /\ balance[o.currency][a] >= paid /\ balance[NativeCoin][a] >= extra
        /\ balance[NativeCoin][a] \in Nat
        /\ o.currency = NativeCoin => extra = 0
    BY <1>1, ExchangeAssumption DEF TakeOrder, CanPay, TypeOK, ExchangeTypeOK, Addresses
  <2> QED BY <1>1, <2>1, ExchangeAssumption DEF MoneyOf
<1>5. Sales' = [Sales EXCEPT ![t] = Abstract!Paid(o.initiator, o.price, o.currency, a)]
  <2>1. /\ orders'[t].price = o.price /\ orders'[t].currency = o.currency
        /\ orders'[t].initiator = o.initiator /\ orders'[t].receiver = a
        /\ orders'[t].fulfilled = TRUE
        /\ \A u \in Tokens \ {t} : orders'[u] = orders[u]
    BY DEF TakeOrder, TypeOK, ExchangeTypeOK, Order, OpenOrder, EmptyOrder
  <2>2. Sales'[t] = Abstract!Paid(o.initiator, o.price, o.currency, a)
    BY <2>1 DEF Sales, SaleOf, HasOrder, TakeOrder, Abstract!Paid
  <2>3. \A u \in Tokens \ {t} : Sales'[u] = Sales[u]
    BY <2>1 DEF Sales, SaleOf, HasOrder
  <2> QED BY <2>2, <2>3 DEF Sales
<1>6. UNCHANGED <<tokenOwner, accumulatedFees>>
  BY DEF TakeOrder
<1>7. \E p \in 0 .. Sales[t].price, e \in 0 .. MoneyOf(balance)[NativeCoin][a] :
        /\ p = Sales[t].price \/ a \in Whitelisted
        /\ e = 0 \/ Sales[t].coin # NativeCoin
        /\ MoneyOf(balance)[Sales[t].coin][a] >= p
        /\ MoneyOf(balance') =
             Abstract!Take(Abstract!Take(MoneyOf(balance), Sales[t].coin, a, p), NativeCoin, a, e)
  BY <1>2, <1>3, <1>4
<1> QED BY <1>2, <1>5, <1>6, <1>7 DEF Abstract!Buy, Sales, MoneyOf

\* An order that is deleted is no sale any more.
LEMMA SaleEnds ==
    ASSUME TypeOK, NEW t \in Tokens, DeleteOrder(t)
    PROVE  Sales' = [Sales EXCEPT ![t] = Abstract!NoSale]
<1>1. orders'[t].price = 0 /\ \A u \in Tokens \ {t} : orders'[u] = orders[u]
  BY DEF DeleteOrder, EmptyOrder, TypeOK, ExchangeTypeOK
<1>2. Sales'[t] = Abstract!NoSale
  BY <1>1 DEF Sales, SaleOf, HasOrder, Abstract!NoSale
<1>3. \A u \in Tokens \ {t} : Sales'[u] = Sales[u]
  BY <1>1 DEF Sales, SaleOf, HasOrder
<1> QED BY <1>2, <1>3 DEF Sales

\* The price goes back to the buyer.
LEMMA RefundStep ==
    ASSUME TypeOK, NEW t \in Tokens, HasOrder(t), orders[t].fulfilled,
           Refund(t), DeleteOrder(t), UNCHANGED tokenOwner
    PROVE  Abstract!GiveBack(t)
<1> DEFINE o == orders[t]
<1>1. /\ o.price \in Nat /\ o.currency \in Currencies /\ o.receiver \in Accounts
      /\ Sales[t] = Abstract!Paid(o.initiator, o.price, o.currency, o.receiver)
  BY OpenOrderTypes, SaleStages DEF TypeOK, Sales
<1>2. /\ Sales[t].stage = "paid" /\ Sales[t].price = o.price
      /\ Sales[t].coin = o.currency /\ Sales[t].buyer = o.receiver
  BY <1>1 DEF Abstract!Paid
<1>3. MoneyOf(balance') = Abstract!Give(MoneyOf(balance), o.currency, o.receiver, o.price)
  BY <1>1, PaidOut DEF Refund, TypeOK, ExchangeTypeOK, Balances
<1>4. Sales' = [Sales EXCEPT ![t] = Abstract!NoSale]
  BY SaleEnds
<1>5. UNCHANGED <<tokenOwner, accumulatedFees>>
  BY DEF Refund
<1> QED BY <1>2, <1>3, <1>4, <1>5 DEF Abstract!GiveBack, Sales, MoneyOf

\* transferCancelled: a listed sale is withdrawn, a paid one given back.
LEMMA CancelStep ==
    ASSUME TypeOK, NEW t \in Tokens, TransferCancelled(t), UNCHANGED tokenOwner
    PROVE  Abstract!Withdraw(t) \/ Abstract!GiveBack(t)
<1> DEFINE o == orders[t]
<1>1. /\ HasOrder(t) /\ o.price \in Nat /\ o.currency \in Currencies
      /\ Sales' = [Sales EXCEPT ![t] = Abstract!NoSale]
  BY OpenOrderTypes, SaleEnds DEF TransferCancelled, TypeOK
<1>2. CASE ~o.fulfilled
  <2>1. Sales[t].stage = "listed"
    BY <1>1, <1>2, SaleStages DEF Sales, Abstract!Listed
  <2>2. UNCHANGED <<MoneyOf(balance), accumulatedFees>>
    BY <1>2 DEF TransferCancelled, MoneyOf
  <2> QED BY <1>1, <2>1, <2>2 DEF Abstract!Withdraw, Sales, MoneyOf
<1>3. CASE o.fulfilled
  <2>1. Refund(t)
    BY <1>3 DEF TransferCancelled
  <2> QED BY <1>1, <1>3, <2>1, RefundStep DEF TransferCancelled
<1> QED BY <1>2, <1>3

\* The price is divided between the fees, the royalty and the seller.
LEMMA DeliverStep ==
    ASSUME TypeOK, NEW t \in Tokens, NEW rate \in 0 .. ROYALTY_CEILING,
           HasOrder(t), orders[t].fulfilled,
           PayOff(t, rate), DeleteOrder(t), Exists(t),
           tokenOwner' = [tokenOwner EXCEPT ![t] = orders[t].receiver]
    PROVE  Abstract!Deliver(t)
<1> DEFINE o == orders[t]
           cut == FeeOf(o.price)
           net == o.price - cut
           royalty == RoyaltyOf(net, rate)
<1>1. /\ o.price \in Nat /\ o.currency \in Currencies /\ o.initiator \in Accounts
      /\ Sales[t] = Abstract!Paid(o.initiator, o.price, o.currency, o.receiver)
  BY OpenOrderTypes, SaleStages DEF TypeOK, Sales
<1>2. /\ Sales[t].stage = "paid" /\ Sales[t].price = o.price
      /\ Sales[t].coin = o.currency /\ Sales[t].buyer = o.receiver
      /\ Sales[t].seller = o.initiator
  BY <1>1 DEF Abstract!Paid
<1>3. fee \in HalfRates /\ rate \in HalfRates
  BY DEF TypeOK, ExchangeTypeOK, PERCENT_MULTIPLIER, ROYALTY_CEILING, HalfRates
<1>4. cut \in HalfOf(o.price) /\ net \in Nat
  <2>1. cut \in HalfOf(o.price)
    BY <1>1, <1>3, CutIsHalf DEF FeeOf
  <2> HIDE DEF cut
  <2> QED BY <1>1, <2>1 DEF HalfOf
<1>5. royalty \in HalfOf(net)
  <2> HIDE DEF net
  <2> QED BY <1>3, <1>4, CutIsHalf DEF RoyaltyOf
<1>6. /\ accumulatedFees' = [accumulatedFees EXCEPT ![o.currency] = @ + cut]
      /\ balance' = Pay(Pay(balance, o.currency, ExchangeAddress, RoyaltyReceiver, royalty),
                        o.currency, ExchangeAddress, o.initiator, net - royalty)
      /\ net <= balance[o.currency][ExchangeAddress]
  BY DEF PayOff, CanPay
<1> HIDE DEF cut, royalty
<1>7. MoneyOf(balance') = Abstract!Give(Abstract!Give(MoneyOf(balance), o.currency, RoyaltyReceiver, royalty),
                                        o.currency, o.initiator, net - royalty)
  <2> DEFINE once == Pay(balance, o.currency, ExchangeAddress, RoyaltyReceiver, royalty)
  <2> HIDE DEF net
  <2>1. balance \in Balances /\ balance[o.currency][ExchangeAddress] \in Nat
    BY <1>1 DEF TypeOK, ExchangeTypeOK, Balances, Addresses
  <2>2. royalty \in Nat /\ royalty <= balance[o.currency][ExchangeAddress] /\ net - royalty \in Nat
    BY <1>4, <1>5, <1>6, <2>1 DEF HalfOf
  <2>3. RoyaltyReceiver \in Accounts /\ RoyaltyReceiver \in Addresses /\ ExchangeAddress \in Addresses
    BY ExchangeAssumption DEF Addresses
  <2>4. once \in Balances
    BY <1>1, <2>1, <2>2, <2>3, PayKeepsBalances
  <2>5. MoneyOf(once) = Abstract!Give(MoneyOf(balance), o.currency, RoyaltyReceiver, royalty)
    BY <1>1, <2>1, <2>2, <2>3, PaidOut
  <2> HIDE DEF once
  <2>6. MoneyOf(Pay(once, o.currency, ExchangeAddress, o.initiator, net - royalty))
          = Abstract!Give(MoneyOf(once), o.currency, o.initiator, net - royalty)
    BY <1>1, <2>2, <2>4, PaidOut
  <2> QED BY <1>6, <2>5, <2>6 DEF once
<1>8. Sales' = [Sales EXCEPT ![t] = Abstract!NoSale]
  BY SaleEnds
<1>9. tokenOwner[t] # NoAddress /\ tokenOwner' = [tokenOwner EXCEPT ![t] = Sales[t].buyer]
  BY <1>2 DEF Exists
<1>10. \E f \in 0 .. Sales[t].price \div 2 : \E r \in 0 .. (Sales[t].price - f) \div 2 :
        /\ MoneyOf(balance') = Abstract!Give(Abstract!Give(MoneyOf(balance), Sales[t].coin, RoyaltyReceiver, r),
                                             Sales[t].coin, Sales[t].seller, Sales[t].price - f - r)
        /\ accumulatedFees' = [accumulatedFees EXCEPT ![Sales[t].coin] = @ + f]
  BY <1>2, <1>4, <1>5, <1>6, <1>7 DEF HalfOf
<1> QED BY <1>2, <1>8, <1>9, <1>10 DEF Abstract!Deliver, Sales, MoneyOf

\* The exchange's owner takes the fees that have accumulated.
LEMMA CollectStep ==
    ASSUME TypeOK, NEW a \in Accounts, NEW to \in Accounts, NEW c \in Currencies,
           WithdrawFees(a, to, c), UNCHANGED tokenOwner
    PROVE  Abstract!CollectFees(c, to)
<1>1. MoneyOf(balance') = Abstract!Give(MoneyOf(balance), c, to, accumulatedFees[c])
  BY PaidOut DEF WithdrawFees, TypeOK, ExchangeTypeOK, Balances
<1>2. UNCHANGED <<tokenOwner, Sales>> /\ accumulatedFees' = [accumulatedFees EXCEPT ![c] = 0]
  BY DEF WithdrawFees, Sales, SaleOf, HasOrder
<1> QED BY <1>1, <1>2 DEF Abstract!CollectFees, Sales, MoneyOf

\* Minting, by any of the three functions.
LEMMA MakeStep ==
    ASSUME TypeOK, NEW a, NEW to, NEW ids, NEW count, NEW rates,
           MintAll(a, to, ids, count, rates), ids \subseteq Tokens, CollectionOnly
    PROVE  Abstract!Make(ids, to)
<1>1. \A t \in ids : tokenOwner[t] = NoAddress
  BY DEF MintAll, Exists
<1>2. UNCHANGED <<Sales, MoneyOf(balance), accumulatedFees>>
  BY Unsold DEF CollectionOnly
<1> QED BY <1>1, <1>2 DEF MintAll, Abstract!Make, Sales, MoneyOf

-----------------------------------------------------------------------------
(* Every transaction is one of these operations.                           *)

\* The token goes to the receiver: an escrowed transfer is a delivery to the
\* buyer, whom the order names too; without an order the token just moves.
LEMMA DeliveryRefines ==
    ASSUME TypeOK, OrderMatchesTransfer, NEW t \in Tokens,
           SafeTransfer(t, transfers[t].to),
           OnFinished(t) \/ OnFraudDetected(t, FALSE)
    PROVE  Abstract!Deliver(t) \/ Abstract!Move(t, transfers[t].to)
<1>1. /\ Exists(t) /\ tokenOwner' = [tokenOwner EXCEPT ![t] = transfers[t].to]
      /\ transfers[t].to \in Accounts \cup {NoAddress}
  BY DEF SafeTransfer, TypeOK, CollectionTypeOK, TransferInfo
<1>2. CASE IsEscrowed(t)
  <2>1. HasOrder(t) /\ orders[t].fulfilled /\ PayOff(t, RoyaltyRate(t)) /\ DeleteOrder(t)
    BY <1>2 DEF OnFinished, OnFraudDetected, TransferFinished, TransferFraudDetected
  <2>2. transfers[t].to = orders[t].receiver
    BY <2>1 DEF OrderMatchesTransfer
  <2>3. RoyaltyRate(t) \in 0 .. ROYALTY_CEILING
    BY RateType DEF TypeOK
  <2> QED BY <1>1, <2>1, <2>2, <2>3, DeliverStep
<1>3. CASE ~IsEscrowed(t)
  <2>1. UNCHANGED exchangeVars
    BY <1>3 DEF OnFinished, OnFraudDetected
  <2>2. ~HasOrder(t)
    BY <1>3 DEF OrderMatchesTransfer, IsEscrowed
  <2> QED BY <1>1, <2>1, <2>2, MoveStep
<1> QED BY <1>2, <1>3

\* The token stays: an escrowed transfer withdraws the sale or gives the money
\* back, and one that is not escrowed is none of the sale's business.
LEMMA ReturnRefines ==
    ASSUME TypeOK, NEW t \in Tokens, UNCHANGED tokenOwner,
           OnCancelled(t) \/ OnFraudDetected(t, TRUE)
    PROVE  Abstract!Withdraw(t) \/ Abstract!GiveBack(t) \/ UNCHANGED Abstract!saleVars
<1>1. CASE ~IsEscrowed(t)
  BY <1>1, Stutter DEF OnCancelled, OnFraudDetected
<1>2. CASE IsEscrowed(t) /\ OnCancelled(t)
  BY <1>2, CancelStep DEF OnCancelled
<1>3. CASE IsEscrowed(t) /\ OnFraudDetected(t, TRUE)
  BY <1>3, RefundStep DEF OnFraudDetected, TransferFraudDetected
<1> QED BY <1>1, <1>2, <1>3

\* Both ways to fulfill an order are the purchase.
LEMMA FulfillRefines ==
    ASSUME TypeOK, NEW a \in Accounts, NEW t \in Tokens, NEW extra \in Extras,
           FulfillOrderTx(a, t, extra) \/ FulfillOrderWhitelistedTx(a, t, extra)
    PROVE  Abstract!Buy(t, a)
<1>1. UNCHANGED tokenOwner
  BY DEF FulfillOrderTx, FulfillOrderWhitelistedTx, CompleteTransferDraft, tokenVars
<1>2. FulfillAtPrice(a, t, extra) \/ FulfillAtDiscount(a, t, extra)
  BY DEF FulfillOrderTx, FulfillOrderWhitelistedTx
<1>3. PICK paid \in 0 .. orders[t].price :
        TakeOrder(a, t, paid, extra) /\ (paid = orders[t].price \/ a \in Whitelisted)
  BY <1>2, PurchaseTypes DEF TypeOK
<1> QED BY <1>1, <1>3, BuyStep

\* placeOrder lists tokens that exist: the exchange may open their transfers.
LEMMA PlaceRefines ==
    ASSUME TypeOK, NEW a \in Accounts, NEW ids \in SUBSET Tokens,
           NEW price \in Prices, NEW c \in Currencies, PlaceOrderBatchTx(a, ids, price, c)
    PROVE  Abstract!List(ids, a, price, c)
<1>1. CreateOrders(a, ids, price, c) /\ \A t \in ids : Exists(t)
  BY DEF PlaceOrderBatchTx, DraftTransfers, IsApprovedOrOwner
<1>2. UNCHANGED tokenOwner
  BY DEF PlaceOrderBatchTx, DraftTransfers, tokenVars
<1> QED BY <1>1, <1>2, ListStep

\* Of the owners' settings only the withdrawal of fees moves money.
LEMMA SettingsRefine ==
    ASSUME TypeOK, NEW a \in Accounts, Settings(a)
    PROVE  Abstract!SaleNext \/ UNCHANGED Abstract!saleVars
<1>1. CASE \/ \E d \in Timeouts : SetTimeoutTx(a, d)
           \/ \E s \in SalesStarts : SetSalesStartTx(a, s)
  BY <1>1, Stutter DEF SetTimeoutTx, SetSalesStartTx, SetFinalizeTransferTimeout,
     SetSalesStartTimestamp, CollectionOnly, tokenVars
<1>2. CASE \/ \E f \in Fees : SetFeeTx(a, f)
           \/ \E d \in Deadlines, discount \in Discounts : SetWhitelistTx(a, d, discount)
  BY <1>2 DEF SetFeeTx, SetWhitelistTx, SetFee, SetWhitelistParams, ExchangeOnly,
     collectionVars, Abstract!saleVars, SaleOf, HasOrder
<1>3. ASSUME NEW to \in Accounts, NEW c \in Currencies, WithdrawFeesTx(a, to, c)
      PROVE  Abstract!SaleNext
  <2>1. Abstract!CollectFees(c, to)
    BY <1>3, CollectStep DEF WithdrawFeesTx, ExchangeOnly, collectionVars
  <2> QED BY <2>1 DEF Abstract!SaleNext
<1> QED BY <1>1, <1>2, <1>3 DEF Settings

\* Mints of the next ids make items that did not exist.
LEMMA MintNextRefines ==
    ASSUME TypeOK, NEW a \in Accounts, NEW to \in Accounts, MintNextTx(a, to)
    PROVE  Abstract!SaleNext
<1>1. \E ids \in SUBSET Tokens : \E count, rates :
         MintAll(a, to, ids, count, rates) /\ CollectionOnly
  <2>1. CASE \E r \in Royalties : MintWithoutIdTx(a, to, r)
    <3>1. PICK r \in Royalties : MintWithoutIdTx(a, to, r)
      BY <2>1
    <3>2. {tokensCount} \in SUBSET Tokens
      BY <3>1 DEF MintWithoutIdTx, MintWithoutId
    <3> QED BY <3>1, <3>2 DEF MintWithoutIdTx, MintWithoutId, Mint
  <2>2. CASE \E n \in 1 .. BatchLimit : \E rates \in [NextIds(n) -> Royalties] :
               MintBatchTx(a, to, n, rates)
    BY <2>2 DEF MintBatchTx, MintBatch
  <2> QED BY <2>1, <2>2 DEF MintNextTx
<1> QED BY <1>1, MakeStep DEF Abstract!SaleNext

\* A mint makes an item, a burn destroys one, an approval does nothing to it.
LEMMA TokenTxRefines ==
    ASSUME TypeOK, NEW a \in Accounts, NEW t \in Tokens, TokenTx(a, t)
    PROVE  Abstract!SaleNext \/ UNCHANGED Abstract!saleVars
<1>1. ASSUME NEW to \in Accounts, NEW r \in Royalties, MintTx(a, to, t, r)
      PROVE  Abstract!SaleNext
  <2>1. Abstract!Make({t}, to)
    BY <1>1, MakeStep DEF MintTx, Mint
  <2> QED BY <2>1 DEF Abstract!SaleNext
<1>2. CASE BurnTx(a, t)
  <2>1. Abstract!Move(t, NoAddress)
    BY <1>2, MoveStep DEF BurnTx, Burn, CollectionOnly
  <2> QED BY <2>1 DEF Abstract!SaleNext
<1>3. CASE \E spender \in Approvable : ApproveTx(a, t, spender)
  BY <1>3, Stutter DEF ApproveTx, Approve, CollectionOnly
<1> QED BY <1>1, <1>2, <1>3 DEF TokenTx

\* Deliveries and returns are steps of the sale, or leave it alone.
LEMMA EndRefines ==
    ASSUME TypeOK, OrderMatchesTransfer, NEW t \in Tokens,
           \/ /\ SafeTransfer(t, transfers[t].to)
              /\ OnFinished(t) \/ OnFraudDetected(t, FALSE)
           \/ /\ UNCHANGED tokenOwner
              /\ OnCancelled(t) \/ OnFraudDetected(t, TRUE)
    PROVE  Abstract!SaleNext \/ UNCHANGED Abstract!saleVars
<1>1. transfers[t].to \in Accounts \cup {NoAddress}
  BY DEF TypeOK, CollectionTypeOK, TransferInfo
<1>2. \/ Abstract!Deliver(t) \/ Abstract!Move(t, transfers[t].to)
      \/ Abstract!Withdraw(t) \/ Abstract!GiveBack(t) \/ UNCHANGED Abstract!saleVars
  BY DeliveryRefines, ReturnRefines
<1> QED BY <1>1, <1>2 DEF Abstract!SaleNext

\* Of the calls of the transfer protocol the ones that end it reach the sale.
LEMMA TransferTxRefines ==
    ASSUME TypeOK, OrderMatchesTransfer, NEW a \in Accounts, NEW t \in Tokens, TransferTx(a, t)
    PROVE  Abstract!SaleNext \/ UNCHANGED Abstract!saleVars
<1>1. CASE \/ \E to \in Accounts \cup {NoAddress}, cb \in Callbacks : InitTransferTx(a, t, to, cb)
           \/ \E cb \in Callbacks : DraftTransferTx(a, t, cb)
           \/ \E to \in Accounts \cup {NoAddress} : CompleteDraftTx(a, t, to)
           \/ \E n \in 1 .. MaxTransfers : SetPublicKeyTx(a, t, n)
           \/ ApproveTransferTx(a, t)
  BY <1>1, Stutter DEF InitTransferTx, DraftTransferTx, CompleteDraftTx, SetPublicKeyTx,
     ApproveTransferTx, InitTransfer, DraftTransfer, DraftTransfers, CompleteTransferDraft,
     SetTransferPublicKey, ApproveTransfer, CollectionOnly, tokenVars
<1>2. CASE FinalizeTx(a, t)
  BY <1>2, EndRefines DEF FinalizeTx, FinalizeTransfer
<1>3. CASE CancelTx(a, t)
  BY <1>3, EndRefines DEF CancelTx, CancelTransfer, tokenVars
<1>4. CASE ReportFraudTx(a, t)
  <2>1. PICK answer \in DecideAnswers :
          /\ ReportFraud(a, t, answer[1], answer[2])
          /\ IF answer[1] THEN OnFraudDetected(t, answer[2]) ELSE UNCHANGED exchangeVars
    BY <1>4 DEF ReportFraudTx
  <2>2. answer[1] \in BOOLEAN /\ answer[2] \in BOOLEAN
    BY DecisionType
  <2>3. CASE ~answer[1]
    BY <2>1, <2>3, Stutter DEF ReportFraud, tokenVars
  <2>4. CASE answer[1]
    <3>1. DecideTransfer(t, answer[2]) /\ OnFraudDetected(t, answer[2])
      BY <2>1, <2>4 DEF ReportFraud
    <3>2. CASE answer[2]
      <4>1. answer[2] = TRUE
        BY <2>2, <3>2
      <4> QED BY <3>1, <4>1, EndRefines DEF DecideTransfer
    <3>3. CASE ~answer[2]
      <4>1. answer[2] = FALSE
        BY <2>2, <3>3
      <4> QED BY <3>1, <4>1, EndRefines DEF DecideTransfer
    <3> QED BY <3>2, <3>3
  <2> QED BY <2>3, <2>4
<1> QED BY <1>1, <1>2, <1>3, <1>4 DEF TransferTx

\* One step of the contracts is at most one step of the atomic sale.
LEMMA StepRefines ==
    ASSUME TypeOK, OrderMatchesTransfer, [Next]_vars
    PROVE  Abstract!SaleNext \/ UNCHANGED Abstract!saleVars
<1>1. CASE PassTime \/ UNCHANGED vars
  BY <1>1, Stutter DEF PassTime, vars, collectionVars
<1>2. CASE \E a \in Accounts : Settings(a)
  BY <1>2, SettingsRefine
<1>3. CASE \E a, to \in Accounts : MintNextTx(a, to)
  BY <1>3, MintNextRefines
<1>4. ASSUME NEW a \in Accounts, NEW ids \in SUBSET Tokens, NEW price \in Prices,
             NEW c \in Currencies, PlaceOrderBatchTx(a, ids, price, c)
      PROVE  Abstract!SaleNext
  BY <1>4, PlaceRefines DEF Abstract!SaleNext
<1>5. ASSUME NEW a \in Accounts, NEW t \in Tokens, OrderTx(a, t)
      PROVE  Abstract!SaleNext
  <2>1. CASE \E price \in Prices, c \in Currencies : PlaceOrderTx(a, t, price, c)
    BY <1>4, <2>1 DEF PlaceOrderTx
  <2>2. CASE \E extra \in Extras :
               FulfillOrderTx(a, t, extra) \/ FulfillOrderWhitelistedTx(a, t, extra)
    BY <2>2, FulfillRefines DEF Abstract!SaleNext
  <2> QED BY <1>5, <2>1, <2>2 DEF OrderTx
<1>6. CASE \E a \in Accounts, t \in Tokens : TokenTx(a, t) \/ TransferTx(a, t)
  BY <1>6, TokenTxRefines, TransferTxRefines
<1>7. ASSUME NEW t \in Tokens, CancelOrderTx(t)
      PROVE  Abstract!SaleNext \/ UNCHANGED Abstract!saleVars
  BY <1>7, EndRefines DEF CancelOrderTx, CancelTransfer, tokenVars
<1>8. ASSUME NEW t \in Tokens, NEW approve \in BOOLEAN, LateDecisionTx(t, approve)
      PROVE  Abstract!SaleNext \/ UNCHANGED Abstract!saleVars
  <2>1. DecideTransfer(t, approve) /\ OnFraudDetected(t, approve)
    BY <1>8 DEF LateDecisionTx, ApplyFraudDecision
  <2>2. CASE approve = TRUE
    BY <2>1, <2>2, EndRefines DEF DecideTransfer
  <2>3. CASE approve = FALSE
    BY <2>1, <2>3, EndRefines DEF DecideTransfer
  <2> QED BY <2>2, <2>3
<1> QED BY <1>1, <1>2, <1>3, <1>4, <1>5, <1>6, <1>7, <1>8 DEF Next

\* The contracts start with nothing minted and nothing for sale.
LEMMA InitRefines == ASSUME Init PROVE Abstract!SaleInit
<1>1. balance \in [Currencies -> [Addresses -> Nat]]
  BY InitTypes DEF TypeOK, ExchangeTypeOK
<1>2. MoneyOf(balance) \in [Currencies -> [Accounts -> Nat]]
  BY <1>1 DEF MoneyOf, Addresses
<1>3. Sales = [t \in Tokens |-> Abstract!NoSale]
  BY SaleStages DEF Init, ExchangeInit, EmptyOrder, HasOrder, Sales
<1> QED BY <1>2, <1>3 DEF Init, CollectionInit, ExchangeInit, Abstract!SaleInit, Sales, MoneyOf

-----------------------------------------------------------------------------

\* SalesAreAtomic, for any number of tokens, users, currencies, prices and
\* discounts: whoever calls which function of which contract, and whatever coin
\* comes along, a paid sale ends in the step that moves the token to the buyer
\* and divides the price between seller, royalty and fees with nothing left
\* over, or in one that gives the price back and leaves the token where it is.
THEOREM ContractsSellAtomically == Spec => SalesAreAtomic
<1>1. Init => Abstract!SaleInit
  BY InitRefines
<1>2. TypeOK /\ OrderMatchesTransfer /\ [Next]_vars => [Abstract!SaleNext]_(Abstract!saleVars)
  BY StepRefines
<1> QED BY <1>1, <1>2, TypeCorrect, OrdersMatchTransfers, PTL
        DEF Spec, SalesAreAtomic, Abstract!SaleSpec

-----------------------------------------------------------------------------
(* The money in the exchange.  Coin by coin the escrow is a set, so that a *)
(* sale that is paid or settled adds or removes the coins of its price.    *)

CoinsOf(t) == {t} \X (1 .. orders[t].price)

\* The inductive invariant.
Backed ==
    \A c \in Currencies :
        /\ IsFiniteSet(EscrowedCoins(c))
        /\ balance[c][ExchangeAddress] + discounted[c] >= Escrow(c) + accumulatedFees[c]

\* An order has as many coins as its price says.
LEMMA CoinsAreThePrice ==
    ASSUME ExchangeTypeOK, NEW t \in Tokens, HasOrder(t)
    PROVE  IsFiniteSet(CoinsOf(t)) /\ Cardinality(CoinsOf(t)) = orders[t].price
<1>1. orders[t].price \in Nat
  BY OpenOrderTypes
<1> DEFINE coins == 1 .. orders[t].price
<1>2. IsFiniteSet(coins) /\ Cardinality(coins) = orders[t].price
  <2> DEFINE n == orders[t].price
  <2>1. n \in Nat
    BY <1>1
  <2> HIDE DEF n
  <2>2. /\ IsFiniteSet(1 .. n)
        /\ Cardinality(1 .. n) = IF 1 > n THEN 0 ELSE n - 1 + 1
    BY <2>1, FS_Interval
  <2>3. Cardinality(1 .. n) = n
    BY <2>1, <2>2
  <2> QED BY <2>2, <2>3 DEF n
<1>3. IsFiniteSet({t}) /\ Cardinality({t}) = 1
  BY FS_Singleton
<1> HIDE DEF coins
<1>4. IsFiniteSet({t} \X coins) /\ Cardinality({t} \X coins) = 1 * orders[t].price
  BY <1>2, <1>3, FS_Product
<1> QED BY <1>1, <1>4 DEF CoinsOf, coins

\* Which coins are in escrow.
LEMMA EscrowMembers ==
    ASSUME NEW c \in Currencies, NEW coin
    PROVE  coin \in EscrowedCoins(c) <=>
             \E t \in Tokens : /\ orders[t].fulfilled /\ orders[t].currency = c
                               /\ coin \in CoinsOf(t)
BY DEF EscrowedCoins, CoinsOf

\* Orders that are not fulfilled, before and after, have nothing in escrow.
LEMMA SameCoins ==
    ASSUME NEW c \in Currencies,
           \A t \in Tokens : \/ orders'[t] = orders[t]
                             \/ ~orders[t].fulfilled /\ ~orders'[t].fulfilled
    PROVE  EscrowedCoins(c)' = EscrowedCoins(c)
BY DEF EscrowedCoins

\* The coins of a sale that is paid are new in the escrow of its currency.
LEMMA CoinsComeIn ==
    ASSUME ExchangeTypeOK, Backed, NEW a \in Accounts, NEW t \in Tokens, NEW paid, NEW extra,
           TakeOrder(a, t, paid, extra), NEW c \in Currencies
    PROVE  /\ IsFiniteSet(EscrowedCoins(c)')
           /\ Escrow(c)' = Escrow(c) + (IF c = orders[t].currency THEN orders[t].price ELSE 0)
<1>1. HasOrder(t) /\ ~orders[t].fulfilled
  BY DEF TakeOrder
<1>2. /\ orders'[t].fulfilled
      /\ orders'[t].currency = orders[t].currency /\ orders'[t].price = orders[t].price
      /\ \A u \in Tokens \ {t} : orders'[u] = orders[u]
  BY DEF TakeOrder, ExchangeTypeOK, Order, OpenOrder, EmptyOrder
<1>3. IsFiniteSet(EscrowedCoins(c)) /\ Cardinality(EscrowedCoins(c)) \in Nat
  BY FS_CardinalityType DEF Backed
<1>4. CASE c # orders[t].currency
  <2>1. EscrowedCoins(c)' = EscrowedCoins(c)
    BY <1>1, <1>2, <1>4 DEF EscrowedCoins
  <2> QED BY <1>3, <1>4, <2>1 DEF Escrow
<1>5. CASE c = orders[t].currency
  <2>1. EscrowedCoins(c)' = EscrowedCoins(c) \cup CoinsOf(t)
    <3>1. \A coin : coin \in EscrowedCoins(c)' <=>
            \E u \in Tokens : /\ orders'[u].fulfilled /\ orders'[u].currency = c
                              /\ coin \in {u} \X (1 .. orders'[u].price)
      BY DEF EscrowedCoins
    <3>2. \A coin : coin \in EscrowedCoins(c)' <=>
            coin \in EscrowedCoins(c) \/ coin \in CoinsOf(t)
      BY <1>1, <1>2, <1>5, <3>1, EscrowMembers DEF CoinsOf
    <3> QED BY <3>2
  <2>2. EscrowedCoins(c) \cap CoinsOf(t) = {}
    BY <1>1, EscrowMembers DEF CoinsOf
  <2>3. /\ IsFiniteSet(CoinsOf(t)) /\ Cardinality(CoinsOf(t)) = orders[t].price
        /\ orders[t].price \in Nat
    BY <1>1, CoinsAreThePrice, OpenOrderTypes
  <2>4. /\ IsFiniteSet(EscrowedCoins(c) \cup CoinsOf(t))
        /\ Cardinality(EscrowedCoins(c) \cup CoinsOf(t))
             = Cardinality(EscrowedCoins(c)) + Cardinality(CoinsOf(t))
                 - Cardinality(EscrowedCoins(c) \cap CoinsOf(t))
    BY <1>3, <2>3, FS_Union
  <2>5. Cardinality(EscrowedCoins(c) \cap CoinsOf(t)) = 0
    BY <2>2, FS_EmptySet
  <2>6. Cardinality(EscrowedCoins(c) \cup CoinsOf(t)) = Cardinality(EscrowedCoins(c)) + orders[t].price
    BY <1>3, <2>3, <2>4, <2>5
  <2> QED BY <1>5, <2>1, <2>4, <2>6 DEF Escrow
<1> QED BY <1>4, <1>5

\* The coins of a paid sale whose order is deleted leave it.
LEMMA CoinsGoOut ==
    ASSUME ExchangeTypeOK, Backed, NEW t \in Tokens, HasOrder(t), orders[t].fulfilled,
           DeleteOrder(t), NEW c \in Currencies
    PROVE  /\ IsFiniteSet(EscrowedCoins(c)')
           /\ Escrow(c)' = Escrow(c) - (IF c = orders[t].currency THEN orders[t].price ELSE 0)
           /\ c = orders[t].currency => orders[t].price <= Escrow(c)
<1>1. ~orders'[t].fulfilled /\ \A u \in Tokens \ {t} : orders'[u] = orders[u]
  BY DEF DeleteOrder, ExchangeTypeOK, EmptyOrder
<1>2. IsFiniteSet(EscrowedCoins(c)) /\ Cardinality(EscrowedCoins(c)) \in Nat
  BY FS_CardinalityType DEF Backed
<1>3. CASE c # orders[t].currency
  <2>1. EscrowedCoins(c)' = EscrowedCoins(c)
    BY <1>1, <1>3 DEF EscrowedCoins
  <2> QED BY <1>2, <1>3, <2>1 DEF Escrow
<1>4. CASE c = orders[t].currency
  <2>1. EscrowedCoins(c)' = EscrowedCoins(c) \ CoinsOf(t)
    <3>1. \A coin : coin \in EscrowedCoins(c)' <=>
            \E u \in Tokens : /\ orders'[u].fulfilled /\ orders'[u].currency = c
                              /\ coin \in {u} \X (1 .. orders'[u].price)
      BY DEF EscrowedCoins
    <3>2. \A coin : coin \in EscrowedCoins(c)' <=>
            coin \in EscrowedCoins(c) /\ coin \notin CoinsOf(t)
      BY <1>1, <1>4, <3>1, EscrowMembers DEF CoinsOf
    <3> QED BY <3>2
  <2>2. CoinsOf(t) \subseteq EscrowedCoins(c)
    BY <1>4, EscrowMembers
  <2>3. /\ IsFiniteSet(CoinsOf(t)) /\ Cardinality(CoinsOf(t)) = orders[t].price
        /\ orders[t].price \in Nat
    BY CoinsAreThePrice, OpenOrderTypes
  <2>4. /\ IsFiniteSet(EscrowedCoins(c) \ CoinsOf(t))
        /\ Cardinality(EscrowedCoins(c) \ CoinsOf(t))
             = Cardinality(EscrowedCoins(c)) - Cardinality(EscrowedCoins(c) \cap CoinsOf(t))
    BY <1>2, FS_Difference
  <2>5. EscrowedCoins(c) \cap CoinsOf(t) = CoinsOf(t)
    BY <2>2
  <2>6. Cardinality(CoinsOf(t)) <= Cardinality(EscrowedCoins(c))
    BY <1>2, <2>2, FS_Subset
  <2> QED BY <1>4, <2>1, <2>3, <2>4, <2>5, <2>6 DEF Escrow
<1> QED BY <1>3, <1>4

\* What a payment out of the exchange, or into it, does to its own balance.
LEMMA ExchangePays ==
    ASSUME NEW b \in Balances, NEW c \in Currencies, NEW payee \in Accounts, NEW amount \in Nat,
           NEW d \in Currencies
    PROVE  Pay(b, c, ExchangeAddress, payee, amount)[d][ExchangeAddress]
             = b[d][ExchangeAddress] - (IF d = c THEN amount ELSE 0)
<1>1. payee # ExchangeAddress /\ payee \in Addresses /\ ExchangeAddress \in Addresses
  BY AddressAssumption DEF Addresses
<1>2. b[d][ExchangeAddress] \in Nat
  BY <1>1 DEF Balances
<1> QED BY <1>1, <1>2 DEF Pay, Balances

LEMMA ExchangeIsPaid ==
    ASSUME NEW b \in Balances, NEW c \in Currencies, NEW payer \in Accounts, NEW amount \in Nat,
           NEW d \in Currencies
    PROVE  Pay(b, c, payer, ExchangeAddress, amount)[d][ExchangeAddress]
             = b[d][ExchangeAddress] + (IF d = c THEN amount ELSE 0)
<1>1. payer # ExchangeAddress /\ payer \in Addresses /\ ExchangeAddress \in Addresses
  BY AddressAssumption DEF Addresses
<1>2. b[d][ExchangeAddress] \in Nat
  BY <1>1 DEF Balances
<1> QED BY <1>1, <1>2 DEF Pay, Balances

\* The numbers of the invariant are numbers.
LEMMA EscrowTypes ==
    ASSUME ExchangeTypeOK, Backed, NEW c \in Currencies
    PROVE  /\ Escrow(c) \in Nat /\ accumulatedFees[c] \in Nat
           /\ balance[c][ExchangeAddress] \in Nat /\ discounted[c] \in Nat
           /\ balance[c][ExchangeAddress] + discounted[c] >= Escrow(c) + accumulatedFees[c]
           /\ balance \in Balances
<1>1. Escrow(c) \in Nat
  BY FS_CardinalityType DEF Backed, Escrow
<1>2. ExchangeAddress \in Addresses
  BY DEF Addresses
<1> QED BY <1>1, <1>2 DEF Backed, ExchangeTypeOK, Balances

\* A call that pays nothing and fulfils and deletes no paid order.
LEMMA EscrowUntouched ==
    ASSUME Backed, UNCHANGED <<balance, accumulatedFees, discounted>>,
           \A t \in Tokens : \/ orders'[t] = orders[t]
                             \/ ~orders[t].fulfilled /\ ~orders'[t].fulfilled
    PROVE  Backed'
<1>1. \A c \in Currencies : EscrowedCoins(c)' = EscrowedCoins(c)
  BY SameCoins
<1> QED BY <1>1 DEF Backed, Escrow

\* The buyer's payment and the discount are the new coins.
LEMMA TakeKeepsBacked ==
    ASSUME ExchangeTypeOK, Backed, NEW a \in Accounts, NEW t \in Tokens,
           NEW paid \in 0 .. orders[t].price, NEW extra \in Extras,
           TakeOrder(a, t, paid, extra),
           discounted' = [discounted EXCEPT ![orders[t].currency] = @ + (orders[t].price - paid)]
    PROVE  Backed'
<1> SUFFICES ASSUME NEW c \in Currencies
             PROVE  /\ IsFiniteSet(EscrowedCoins(c)')
                    /\ balance'[c][ExchangeAddress] + discounted'[c]
                         >= Escrow(c)' + accumulatedFees'[c]
  BY DEF Backed
<1> DEFINE o == orders[t]
           once == Pay(balance, o.currency, a, ExchangeAddress, paid)
<1>1. /\ o.price \in Nat /\ o.currency \in Currencies
      /\ paid \in Nat /\ extra \in Nat
      /\ NativeCoin \in Currencies
  BY OpenOrderTypes, ExchangeAssumption DEF TakeOrder
<1>2. /\ balance' = Pay(once, NativeCoin, a, ExchangeAddress, extra)
      /\ accumulatedFees' = accumulatedFees
  BY DEF TakeOrder
<1>3. once[c][ExchangeAddress]
        = balance[c][ExchangeAddress] + (IF c = o.currency THEN paid ELSE 0)
  BY <1>1, EscrowTypes, ExchangeIsPaid
<1>4. once \in Balances
  BY <1>1, TakePays
<1> HIDE DEF once
<1>5. balance'[c][ExchangeAddress] >= once[c][ExchangeAddress]
  <2>1. once[c][ExchangeAddress] \in Nat
    BY <1>4 DEF Balances, Addresses
  <2>2. balance'[c][ExchangeAddress]
          = once[c][ExchangeAddress] + (IF c = NativeCoin THEN extra ELSE 0)
    BY <1>1, <1>2, <1>4, ExchangeIsPaid
  <2> QED BY <1>1, <2>1, <2>2
<1>6. discounted'[c] = discounted[c] + (IF c = o.currency THEN o.price - paid ELSE 0)
  BY <1>1, EscrowTypes DEF ExchangeTypeOK
<1>7. /\ IsFiniteSet(EscrowedCoins(c)')
      /\ Escrow(c)' = Escrow(c) + (IF c = o.currency THEN o.price ELSE 0)
  BY CoinsComeIn
<1>8. balance'[c][ExchangeAddress] \in Nat
  BY TakePays DEF Balances, Addresses
<1> QED BY <1>1, <1>2, <1>3, <1>5, <1>6, <1>7, <1>8, EscrowTypes

\* The refund is the coins of the sale.
LEMMA RefundKeepsBacked ==
    ASSUME ExchangeTypeOK, Backed, NEW t \in Tokens, HasOrder(t), orders[t].fulfilled,
           Refund(t), DeleteOrder(t), UNCHANGED discounted
    PROVE  Backed'
<1> SUFFICES ASSUME NEW c \in Currencies
             PROVE  /\ IsFiniteSet(EscrowedCoins(c)')
                    /\ balance'[c][ExchangeAddress] + discounted'[c]
                         >= Escrow(c)' + accumulatedFees'[c]
  BY DEF Backed
<1>1. /\ orders[t].price \in Nat /\ orders[t].currency \in Currencies
      /\ orders[t].receiver \in Accounts
  BY OpenOrderTypes
<1>2. /\ balance' = Pay(balance, orders[t].currency, ExchangeAddress,
                        orders[t].receiver, orders[t].price)
      /\ accumulatedFees' = accumulatedFees
  BY DEF Refund
<1>3. balance'[c][ExchangeAddress]
        = balance[c][ExchangeAddress] - (IF c = orders[t].currency THEN orders[t].price ELSE 0)
  BY <1>1, <1>2, EscrowTypes, ExchangePays
<1>4. /\ IsFiniteSet(EscrowedCoins(c)')
      /\ Escrow(c)' = Escrow(c) - (IF c = orders[t].currency THEN orders[t].price ELSE 0)
  BY CoinsGoOut
<1> QED BY <1>1, <1>2, <1>3, <1>4, EscrowTypes

\* Of the coins of a sale that is paid off the fee stays, as a fee: royalty and
\* seller get the rest, whatever the rates and however the divisions round.
LEMMA PayOffKeepsBacked ==
    ASSUME ExchangeTypeOK, Backed, NEW t \in Tokens, NEW rate \in 0 .. ROYALTY_CEILING,
           HasOrder(t), orders[t].fulfilled, PayOff(t, rate), DeleteOrder(t),
           UNCHANGED discounted
    PROVE  Backed'
<1> SUFFICES ASSUME NEW c \in Currencies
             PROVE  /\ IsFiniteSet(EscrowedCoins(c)')
                    /\ balance'[c][ExchangeAddress] + discounted'[c]
                         >= Escrow(c)' + accumulatedFees'[c]
  BY DEF Backed
<1> DEFINE o == orders[t]
           cut == FeeOf(o.price)
           net == o.price - cut
           royalty == RoyaltyOf(net, rate)
           once == Pay(balance, o.currency, ExchangeAddress, RoyaltyReceiver, royalty)
<1>1. o.price \in Nat /\ o.currency \in Currencies /\ o.initiator \in Accounts
  BY OpenOrderTypes
<1>2. fee \in 0 .. PERCENT_MULTIPLIER /\ rate \in 0 .. PERCENT_MULTIPLIER
  BY DEF ExchangeTypeOK, PERCENT_MULTIPLIER, ROYALTY_CEILING
<1>3. /\ accumulatedFees' = [accumulatedFees EXCEPT ![o.currency] = @ + cut]
      /\ balance' = Pay(once, o.currency, ExchangeAddress, o.initiator, net - royalty)
      /\ net <= balance[o.currency][ExchangeAddress]
  BY DEF PayOff, CanPay
<1>4. cut \in 0 .. o.price
  BY <1>1, <1>2, CutIsPart DEF FeeOf
<1> HIDE DEF cut
<1>5. net \in Nat
  BY <1>1, <1>4
<1> HIDE DEF net
<1>6. royalty \in 0 .. net
  BY <1>2, <1>5, CutIsPart DEF RoyaltyOf
<1> HIDE DEF royalty
<1>7. /\ RoyaltyReceiver \in Accounts
      /\ RoyaltyReceiver \in Addresses /\ ExchangeAddress \in Addresses
  BY ExchangeAssumption DEF Addresses
<1>8. balance \in Balances /\ balance[o.currency][ExchangeAddress] \in Nat
  BY <1>1, EscrowTypes
<1>9. once \in Balances
  BY <1>1, <1>3, <1>5, <1>6, <1>7, <1>8, PayKeepsBalances
<1>10. once[c][ExchangeAddress]
         = balance[c][ExchangeAddress] - (IF c = o.currency THEN royalty ELSE 0)
  BY <1>1, <1>6, <1>7, <1>8, ExchangePays
<1> HIDE DEF once
<1>11. balance'[c][ExchangeAddress]
         = once[c][ExchangeAddress] - (IF c = o.currency THEN net - royalty ELSE 0)
  BY <1>1, <1>3, <1>5, <1>6, <1>9, ExchangePays
<1>12. accumulatedFees'[c] = accumulatedFees[c] + (IF c = o.currency THEN cut ELSE 0)
  BY <1>3, <1>4, EscrowTypes DEF ExchangeTypeOK
<1>13. /\ IsFiniteSet(EscrowedCoins(c)')
       /\ Escrow(c)' = Escrow(c) - (IF c = o.currency THEN o.price ELSE 0)
  BY CoinsGoOut
<1>14. CASE c # o.currency
  BY <1>10, <1>11, <1>12, <1>13, <1>14, EscrowTypes
<1>15. CASE c = o.currency
  <2>1. balance'[c][ExchangeAddress] = balance[c][ExchangeAddress] - net
    BY <1>5, <1>6, <1>10, <1>11, <1>15, EscrowTypes
  <2> QED BY <1>1, <1>4, <1>12, <1>13, <1>15, <2>1, EscrowTypes DEF net
<1> QED BY <1>14, <1>15

\* The owner takes the fees, and nothing but the fees.
LEMMA WithdrawKeepsBacked ==
    ASSUME ExchangeTypeOK, Backed, NEW a \in Accounts, NEW to \in Accounts, NEW c \in Currencies,
           WithdrawFees(a, to, c)
    PROVE  Backed'
<1> SUFFICES ASSUME NEW d \in Currencies
             PROVE  /\ IsFiniteSet(EscrowedCoins(d)')
                    /\ balance'[d][ExchangeAddress] + discounted'[d]
                         >= Escrow(d)' + accumulatedFees'[d]
  BY DEF Backed
<1>1. EscrowedCoins(d)' = EscrowedCoins(d)
  BY SameCoins DEF WithdrawFees
<1>2. balance'[d][ExchangeAddress]
        = balance[d][ExchangeAddress] - (IF d = c THEN accumulatedFees[c] ELSE 0)
  BY EscrowTypes, ExchangePays DEF WithdrawFees
<1>3. accumulatedFees'[d] = IF d = c THEN 0 ELSE accumulatedFees[d]
  BY DEF WithdrawFees, ExchangeTypeOK
<1>4. IsFiniteSet(EscrowedCoins(d)') /\ Escrow(d)' = Escrow(d) /\ discounted' = discounted
  BY <1>1 DEF Backed, Escrow, WithdrawFees
<1> QED BY <1>2, <1>3, <1>4, EscrowTypes

\* The callbacks that end a transfer settle its sale, or leave the exchange alone.
LEMMA CallbackKeepsBacked ==
    ASSUME TypeOK, Backed, NEW t \in Tokens,
           OnFinished(t) \/ OnCancelled(t) \/ \E approve \in BOOLEAN : OnFraudDetected(t, approve)
    PROVE  Backed'
<1> DEFINE rate == RoyaltyRate(t)
<1>1. ExchangeTypeOK /\ rate \in 0 .. ROYALTY_CEILING
  BY RateType DEF TypeOK
<1> HIDE DEF rate
<1>2. CASE UNCHANGED exchangeVars
  BY <1>2, EscrowUntouched DEF exchangeVars
<1>3. CASE /\ HasOrder(t) /\ orders[t].fulfilled /\ DeleteOrder(t) /\ UNCHANGED discounted
           /\ PayOff(t, rate) \/ Refund(t)
  BY <1>1, <1>3, PayOffKeepsBacked, RefundKeepsBacked
<1>4. CASE /\ ~orders[t].fulfilled /\ DeleteOrder(t)
           /\ UNCHANGED <<balance, accumulatedFees, discounted>>
  <2>1. \A u \in Tokens : \/ orders'[u] = orders[u]
                          \/ ~orders[u].fulfilled /\ ~orders'[u].fulfilled
    BY <1>1, <1>4 DEF DeleteOrder, ExchangeTypeOK, EmptyOrder
  <2> QED BY <1>4, <2>1, EscrowUntouched
<1> QED BY <1>2, <1>3, <1>4 DEF OnFinished, OnCancelled, OnFraudDetected, TransferFinished,
        TransferCancelled, TransferFraudDetected, rate

\* Each transaction, or none, keeps the books right.
LEMMA StepKeepsBacked ==
    ASSUME TypeOK, Backed, [Next]_vars
    PROVE  Backed'
<1> USE DEF TypeOK
<1>1. CASE UNCHANGED exchangeVars
  BY <1>1, EscrowUntouched DEF exchangeVars
<1>2. ASSUME NEW a \in Accounts, Settings(a)
      PROVE  Backed'
  <2>1. CASE UNCHANGED exchangeVars
    BY <1>1, <2>1
  <2>2. CASE \/ \E f \in Fees : SetFeeTx(a, f)
             \/ \E d \in Deadlines, discount \in Discounts : SetWhitelistTx(a, d, discount)
    BY <2>2, EscrowUntouched DEF SetFeeTx, SetWhitelistTx, SetFee, SetWhitelistParams
  <2>3. CASE \E to \in Accounts, c \in Currencies : WithdrawFeesTx(a, to, c)
    BY <2>3, WithdrawKeepsBacked DEF WithdrawFeesTx
  <2> QED BY <1>2, <2>1, <2>2, <2>3 DEF Settings, SetTimeoutTx, SetSalesStartTx, CollectionOnly
<1>3. ASSUME NEW a \in Accounts, NEW ids \in SUBSET Tokens, NEW price \in Prices,
             NEW c \in Currencies, PlaceOrderBatchTx(a, ids, price, c)
      PROVE  Backed'
  <2>1. CreateOrders(a, ids, price, c)
    BY <1>3 DEF PlaceOrderBatchTx
  <2>2. \A t \in ids : ~orders[t].fulfilled
    <3>1. ASSUME NEW t \in ids
          PROVE  ~orders[t].fulfilled
      <4>1. orders[t] \in Order /\ orders[t].price = 0
        BY <2>1 DEF CreateOrders, HasOrder, ExchangeTypeOK
      <4>2. orders[t].price \in Prices => orders[t].price # 0
        BY ExchangeAssumption
      <4>3. orders[t] = EmptyOrder
        BY <4>1, <4>2 DEF Order, OpenOrder
      <4> QED BY <4>3 DEF EmptyOrder
    <3> QED BY <3>1
  <2>3. \A t \in Tokens : \/ orders'[t] = orders[t]
                          \/ ~orders[t].fulfilled /\ ~orders'[t].fulfilled
    BY <2>1, <2>2 DEF CreateOrders, OrderOf
  <2> QED BY <2>1, <2>3, EscrowUntouched DEF CreateOrders
<1>4. ASSUME NEW a \in Accounts, NEW t \in Tokens, OrderTx(a, t)
      PROVE  Backed'
  <2>1. CASE \E price \in Prices, c \in Currencies : PlaceOrderTx(a, t, price, c)
    BY <1>3, <2>1 DEF PlaceOrderTx
  <2>2. ASSUME NEW extra \in Extras,
               FulfillOrderTx(a, t, extra) \/ FulfillOrderWhitelistedTx(a, t, extra)
        PROVE  Backed'
    <3>1. FulfillAtPrice(a, t, extra) \/ FulfillAtDiscount(a, t, extra)
      BY <2>2 DEF FulfillOrderTx, FulfillOrderWhitelistedTx
    <3> QED BY <3>1, PurchaseTypes, TakeKeepsBacked
  <2> QED BY <1>4, <2>1, <2>2 DEF OrderTx
<1>5. ASSUME NEW a \in Accounts, NEW t \in Tokens, TransferTx(a, t)
      PROVE  Backed'
  <2>1. CASE FinalizeTx(a, t) \/ CancelTx(a, t)
    BY <2>1, CallbackKeepsBacked DEF FinalizeTx, CancelTx
  <2>2. CASE ReportFraudTx(a, t)
    BY <1>1, <2>2, CallbackKeepsBacked, DecisionType DEF ReportFraudTx
  <2> QED BY <1>1, <1>5, <2>1, <2>2 DEF TransferTx, InitTransferTx, DraftTransferTx,
          CompleteDraftTx, SetPublicKeyTx, ApproveTransferTx, CollectionOnly
<1>6. CASE \E t \in Tokens : CancelOrderTx(t) \/ \E approve \in BOOLEAN : LateDecisionTx(t, approve)
  BY <1>6, CallbackKeepsBacked DEF CancelOrderTx, LateDecisionTx
<1>7. CASE PassTime \/ UNCHANGED vars
  BY <1>1, <1>7 DEF PassTime, vars
<1>8. CASE \/ \E a, to \in Accounts : MintNextTx(a, to)
           \/ \E a \in Accounts, t \in Tokens : TokenTx(a, t)
  BY <1>1, <1>8 DEF MintNextTx, TokenTx, MintWithoutIdTx, MintBatchTx, MintTx, BurnTx,
     ApproveTx, CollectionOnly
<1> QED BY <1>2, <1>3, <1>4, <1>5, <1>6, <1>7, <1>8 DEF Next

\* The exchange starts without orders, fees and money.
LEMMA InitBacked == ASSUME Init PROVE Backed
<1>1. \A c \in Currencies : EscrowedCoins(c) = {}
  BY DEF Init, ExchangeInit, EmptyOrder, EscrowedCoins
<1>2. \A c \in Currencies : /\ balance[c][ExchangeAddress] = 0
                             /\ accumulatedFees[c] = 0 /\ discounted[c] = 0
  BY DEF Init, ExchangeInit, Addresses
<1> QED BY <1>1, <1>2, FS_EmptySet DEF Backed, Escrow

\* EscrowIsBacked, for any number of tokens, currencies, prices, discounts, fees
\* and royalty rates: after every transaction the exchange is short of the prices
\* of the paid sales and the fees by no more than the discounts it has granted.
THEOREM EscrowBacked == Spec => []EscrowIsBacked
<1>1. Init => Backed
  BY InitBacked
<1>2. TypeOK /\ Backed /\ [Next]_vars => Backed'
  BY StepKeepsBacked
<1>3. Backed => EscrowIsBacked
  BY DEF Backed, EscrowIsBacked
<1> QED BY <1>1, <1>2, <1>3, TypeCorrect, PTL DEF Spec

=============================================================================
