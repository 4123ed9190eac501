------------------------ MODULE MarketplaceRefinement ------------------------
(***************************************************************************)
(* The contracts implement the atomic sale: an order that is not fulfilled *)
(* is a listed item, a fulfilled one a paid item.  The escrow has no       *)
(* counterpart: its money is that of the paid sales.                       *)
(***************************************************************************)
EXTENDS Marketplace

SaleOf(t) ==
    LET o == orders[t]
    IN  CASE ~HasOrder(t) -> [stage |-> "none"]
          [] HasOrder(t) /\ ~o.fulfilled ->
               [stage |-> "listed", seller |-> o.initiator, price |-> o.price,
                coin |-> o.currency]
          [] HasOrder(t) /\ o.fulfilled ->
               [stage |-> "paid", seller |-> o.initiator, price |-> o.price,
                coin |-> o.currency, buyer |-> o.receiver]

Abstract == INSTANCE AtomicSale WITH
    Items <- Tokens,
    People <- Accounts,
    Nobody <- NoAddress,
    Artist <- RoyaltyReceiver,
    Favoured <- Whitelisted,
    Coins <- Currencies,
    Native <- NativeCoin,
    holder <- tokenOwner,
    sale <- [t \in Tokens |-> SaleOf(t)],
    money <- [c \in Currencies |-> [a \in Accounts |-> balance[c][a]]],
    fees <- accumulatedFees

\* Whatever the order in which users call the collection, the exchange and
\* the decider, every transaction is a step of the atomic sale or does not
\* concern it: no sale ends with the token and the money on the same side.
SalesAreAtomic == Abstract!SaleSpec

=============================================================================
