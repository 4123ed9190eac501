-------------------------- MODULE FilemarketExchange --------------------------
(***************************************************************************)
(* The exchange FilemarketExchangeV2.sol for one collection.  An order     *)
(* sells one token at a price in a currency; a buyer who fulfills it pays  *)
(* the exchange, which keeps the money until the collection reports how    *)
(* the token's transfer ended (transferFinished, transferCancelled,        *)
(* transferFraudDetected) and then pays it out or back.                    *)
(*                                                                         *)
(* The calls the exchange makes to the collection are added by module      *)
(* Marketplace.  balance holds what users and contracts own of a currency, *)
(* the native coin or an ERC20 token.  A payment the payer cannot cover    *)
(* reverts the transaction.  Both ways to buy are payable and look at      *)
(* msg.value for an order in native coin alone: what comes with a purchase *)
(* in an ERC20 token stays in the exchange.                                *)
(***************************************************************************)
EXTENDS Chain

CONSTANTS
    ExchangeOwner,             \* owner() of the exchange
    RoyaltyReceiver,           \* royaltyReceiver of the collection
    Currencies,                \* native coin and ERC20 tokens
    NativeCoin,                \* the one that is sent as msg.value
    Extras,                    \* native coin sent beside an ERC20 payment
    Prices,                    \* prices sellers ask
    Fees,                      \* fee rates the owner sets
    Deadlines,                 \* whitelist deadlines the owner sets
    Discounts,                 \* whitelist discounts the owner sets
    Whitelisted,               \* users who hold the owner's signature
    Funds                      \* what a user owns of each currency at the start

PERCENT_MULTIPLIER == 10000

ASSUME ExchangeAssumption ==
    /\ ExchangeOwner \in Accounts
    /\ RoyaltyReceiver \in Accounts
    /\ Whitelisted \subseteq Accounts
    /\ NativeCoin \in Currencies
    /\ NoAddress \notin Currencies
    /\ Extras \subseteq Nat
    /\ Prices \subseteq Nat \ {0}
    /\ Fees \subseteq Nat
    /\ Deadlines \subseteq Nat
    /\ Discounts \subseteq Nat
    /\ Funds \in Nat

VARIABLES
    orders,                    \* orders[token][tokenId] of the collection
    fee,
    accumulatedFees,           \* by currency
    whitelistDeadline, whitelistDiscount,
    balance,                   \* balance[currency][address]
    discounted                 \* history: what the discounts so far came to

whitelistVars == <<whitelistDeadline, whitelistDiscount>>
exchangeVars ==
    <<orders, fee, accumulatedFees, whitelistDeadline, whitelistDiscount, balance,
      discounted>>

-----------------------------------------------------------------------------
(* State.                                                                  *)

\* What `delete orders[token][tokenId]' leaves.
EmptyOrder == [price |-> 0, currency |-> NoAddress, initiator |-> NoAddress,
               receiver |-> NoAddress, fulfilled |-> FALSE]

OpenOrder(receivers, isFulfilled) ==
    [price : Prices, currency : Currencies, initiator : Accounts,
     receiver : receivers, fulfilled : {isFulfilled}]

\* An order has its receiver exactly when it is fulfilled.
Order == {EmptyOrder} \cup OpenOrder({NoAddress}, FALSE) \cup OpenOrder(Accounts, TRUE)

\* Types of the exchange's state.
ExchangeTypeOK ==
    /\ orders \in [Tokens -> Order]
    /\ fee \in 0 .. PERCENT_MULTIPLIER \div 2
    /\ accumulatedFees \in [Currencies -> Nat]
    /\ whitelistDeadline \in Deadlines \cup {0}
    /\ whitelistDiscount \in Discounts \cup {0}
    /\ balance \in [Currencies -> [Addresses -> Nat]]
    /\ discounted \in [Currencies -> Nat]

ExchangeInit ==
    /\ orders = [t \in Tokens |-> EmptyOrder]
    /\ fee = 0
    /\ accumulatedFees = [c \in Currencies |-> 0]
    /\ whitelistDeadline = 0
    /\ whitelistDiscount = 0
    /\ balance = [c \in Currencies |->
                    [h \in Addresses |-> IF h = ExchangeAddress THEN 0 ELSE Funds]]
    /\ discounted = [c \in Currencies |-> 0]

HasOrder(t) == orders[t].price # 0

\* balance b after amount of currency c has moved
Pay(b, c, payer, payee, amount) ==
    LET taken == [b EXCEPT ![c][payer] = @ - amount]
    IN  [taken EXCEPT ![c][payee] = @ + amount]

CanPay(c, payer, amount) == balance[c][payer] >= amount

DeleteOrder(t) == orders' = [orders EXCEPT ![t] = EmptyOrder]

-----------------------------------------------------------------------------
(* The exchange owner's settings.                                          *)

SetFee(sender, newFee) ==
    /\ sender = ExchangeOwner
    /\ newFee <= PERCENT_MULTIPLIER \div 2
    /\ fee' = newFee
    /\ UNCHANGED <<orders, accumulatedFees, whitelistVars, balance, discounted>>

SetWhitelistParams(sender, deadline, discount) ==
    /\ sender = ExchangeOwner
    /\ whitelistDeadline' = deadline
    /\ whitelistDiscount' = discount
    /\ UNCHANGED <<orders, fee, accumulatedFees, balance, discounted>>

WithdrawFees(sender, to, c) ==
    /\ sender = ExchangeOwner
    /\ accumulatedFees[c] > 0
    /\ CanPay(c, ExchangeAddress, accumulatedFees[c])
    /\ balance' = Pay(balance, c, ExchangeAddress, to, accumulatedFees[c])
    /\ accumulatedFees' = [accumulatedFees EXCEPT ![c] = 0]
    /\ UNCHANGED <<orders, fee, whitelistVars, discounted>>

-----------------------------------------------------------------------------
(* Orders.                                                                 *)

OrderOf(sender, price, c) ==
    [price |-> price, currency |-> c, initiator |-> sender,
     receiver |-> NoAddress, fulfilled |-> FALSE]

\* An order for each token of ids, at the same price, in one transaction.
CreateOrders(sender, ids, price, c) ==
    /\ price > 0
    /\ \A t \in ids : ~HasOrder(t)
    /\ orders' = [t \in Tokens |-> IF t \in ids THEN OrderOf(sender, price, c)
                                                ELSE orders[t]]
    /\ UNCHANGED <<fee, accumulatedFees, whitelistVars, balance, discounted>>

\* The buyer pays `amount' into the exchange and becomes the receiver.  With
\* an order in an ERC20 token any `extra' native coin may come along.
TakeOrder(sender, t, amount, extra) ==
    LET c == orders[t].currency
    IN  /\ HasOrder(t)
        /\ ~orders[t].fulfilled
        /\ CanPay(c, sender, amount)
        /\ c = NativeCoin => extra = 0             \* msg.value == price
        /\ CanPay(NativeCoin, sender, extra)
        /\ balance' = Pay(Pay(balance, c, sender, ExchangeAddress, amount),
                          NativeCoin, sender, ExchangeAddress, extra)
        /\ orders' = [orders EXCEPT ![t].receiver = sender,
                                    ![t].fulfilled = TRUE]
        /\ UNCHANGED <<fee, accumulatedFees, whitelistVars>>

FulfillAtPrice(sender, t, extra) ==
    /\ whitelistDeadline = 0 \/ whitelistDeadline < now
    /\ TakeOrder(sender, t, orders[t].price, extra)
    /\ UNCHANGED discounted

DiscountOf(price) == (price * whitelistDiscount) \div PERCENT_MULTIPLIER

FulfillAtDiscount(sender, t, extra) ==
    /\ whitelistDeadline # 0
    /\ whitelistDeadline > now
    /\ sender \in Whitelisted
    /\ DiscountOf(orders[t].price) <= orders[t].price  \* else the subtraction reverts
    /\ TakeOrder(sender, t, orders[t].price - DiscountOf(orders[t].price), extra)
    /\ discounted' = [discounted EXCEPT ![orders[t].currency] =
                        @ + DiscountOf(orders[t].price)]

-----------------------------------------------------------------------------
(* Callbacks from the collection.  rate is the royalty rate royaltyInfo    *)
(* answers with, 0 when it reverts.                                        *)

FeeOf(price) == (price * fee) \div PERCENT_MULTIPLIER
RoyaltyOf(amount, rate) == (amount * rate) \div PERCENT_MULTIPLIER

\* Mutation of PayOff: the fee is booked but not taken off the seller's price.
PayOff_FullPrice(t, rate) ==
    LET c == orders[t].currency
        royalty == RoyaltyOf(orders[t].price, rate)
    IN  /\ CanPay(c, ExchangeAddress, orders[t].price)
        /\ accumulatedFees' = [accumulatedFees EXCEPT ![c] = @ + FeeOf(orders[t].price)]
        /\ balance' = Pay(Pay(balance, c, ExchangeAddress, RoyaltyReceiver, royalty),
                          c, ExchangeAddress, orders[t].initiator,
                          orders[t].price - royalty)

\* calculateFee, payoffRoyalty and the payment of the seller
PayOff(t, rate) ==
    LET c == orders[t].currency
        net == orders[t].price - FeeOf(orders[t].price)
        royalty == RoyaltyOf(net, rate)
    IN  /\ CanPay(c, ExchangeAddress, net)
        /\ accumulatedFees' = [accumulatedFees EXCEPT ![c] = @ + FeeOf(orders[t].price)]
        /\ balance' = Pay(Pay(balance, c, ExchangeAddress, RoyaltyReceiver, royalty),
                          c, ExchangeAddress, orders[t].initiator, net - royalty)

Refund(t) ==
    /\ CanPay(orders[t].currency, ExchangeAddress, orders[t].price)
    /\ balance' = Pay(balance, orders[t].currency, ExchangeAddress,
                      orders[t].receiver, orders[t].price)
    /\ UNCHANGED accumulatedFees

TransferFinished(t, rate) ==
    /\ HasOrder(t)
    /\ orders[t].fulfilled
    /\ PayOff(t, rate)
    /\ DeleteOrder(t)
    /\ UNCHANGED <<fee, whitelistVars, discounted>>

TransferCancelled(t) ==
    /\ HasOrder(t)
    /\ IF orders[t].fulfilled THEN Refund(t) ELSE UNCHANGED <<balance, accumulatedFees>>
    /\ DeleteOrder(t)
    /\ UNCHANGED <<fee, whitelistVars, discounted>>

\* Mutation of TransferFraudDetected: the verdict is read the wrong way round.
TransferFraudDetected_Inverted(t, approved, rate) ==
    /\ HasOrder(t) /\ orders[t].fulfilled
    /\ IF approved THEN PayOff(t, rate) ELSE Refund(t)
    /\ DeleteOrder(t)
    /\ UNCHANGED <<fee, whitelistVars, discounted>>

TransferFraudDetected(t, approved, rate) ==
    /\ HasOrder(t)
    /\ orders[t].fulfilled
    /\ IF approved THEN Refund(t) ELSE PayOff(t, rate)
    /\ DeleteOrder(t)
    /\ UNCHANGED <<fee, whitelistVars, discounted>>

=============================================================================
