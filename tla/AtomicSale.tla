------------------------------ MODULE AtomicSale ------------------------------
(***************************************************************************)
(* What the marketplace promises of a sale, with no keys, passwords,       *)
(* callbacks, timeouts or contracts in it: a buyer's money is held from    *)
(* the moment it is paid until, in ONE step, either the token goes to the  *)
(* buyer and the price is divided between the seller, the receiver of the  *)
(* royalty and the exchange's fees, or the whole price goes back to the    *)
(* buyer and the token stays where it is.  The buyer who is favoured may   *)
(* pay less than the price the seller gets and a refund returns; a buyer   *)
(* may give native coin away beside the price in another coin.             *)
(***************************************************************************)
EXTENDS Naturals

CONSTANTS Items, People, Nobody, Artist, Favoured, Coins, Native, Prices

VARIABLES
    holder,                    \* who has each item, or Nobody
    sale,                      \* the sale of each item
    money,                     \* what each person owns of each coin
    fees                       \* what the exchange has earned

saleVars == <<holder, sale, money, fees>>

NoSale == [stage |-> "none"]

Listed(seller, price, coin) ==
    [stage |-> "listed", seller |-> seller, price |-> price, coin |-> coin]

Paid(seller, price, coin, buyer) ==
    [stage |-> "paid", seller |-> seller, price |-> price, coin |-> coin,
     buyer |-> buyer]

\* Amount of a coin given to a person.
Give(m, coin, person, amount) == [m EXCEPT ![coin][person] = @ + amount]
Take(m, coin, person, amount) == [m EXCEPT ![coin][person] = @ - amount]

\* Several items may be offered, or made, at once.
List(items, seller, price, coin) ==
    /\ \A i \in items : sale[i] = NoSale /\ holder[i] # Nobody
    /\ sale' = [i \in Items |-> IF i \in items THEN Listed(seller, price, coin)
                                               ELSE sale[i]]
    /\ UNCHANGED <<holder, money, fees>>

Withdraw(i) ==
    /\ sale[i].stage = "listed"
    /\ sale' = [sale EXCEPT ![i] = NoSale]
    /\ UNCHANGED <<holder, money, fees>>

Buy(i, buyer) ==
    LET s == sale[i]
    IN  /\ s.stage = "listed"
        /\ \E paid \in 0 .. s.price, extra \in 0 .. money[Native][buyer] :
             /\ paid = s.price \/ buyer \in Favoured
             /\ extra = 0 \/ s.coin # Native
             /\ money[s.coin][buyer] >= paid
             /\ money' = Take(Take(money, s.coin, buyer, paid), Native, buyer, extra)
        /\ sale' = [sale EXCEPT ![i] = Paid(s.seller, s.price, s.coin, buyer)]
        /\ UNCHANGED <<holder, fees>>

\* The exchange's fee is at most half of the price and the royalty at most
\* half of the rest.
Deliver(i) ==
    LET s == sale[i]
    IN  /\ s.stage = "paid"
        /\ holder[i] # Nobody
        /\ holder' = [holder EXCEPT ![i] = s.buyer]
        /\ \E fee \in 0 .. s.price \div 2 :
             \E royalty \in 0 .. (s.price - fee) \div 2 :
               /\ money' = Give(Give(money, s.coin, Artist, royalty),
                                s.coin, s.seller, s.price - fee - royalty)
               /\ fees' = [fees EXCEPT ![s.coin] = @ + fee]
        /\ sale' = [sale EXCEPT ![i] = NoSale]

GiveBack(i) ==
    LET s == sale[i]
    IN  /\ s.stage = "paid"
        /\ money' = Give(money, s.coin, s.buyer, s.price)
        /\ sale' = [sale EXCEPT ![i] = NoSale]
        /\ UNCHANGED <<holder, fees>>

Make(items, person) ==
    /\ \A i \in items : holder[i] = Nobody
    /\ holder' = [i \in Items |-> IF i \in items THEN person ELSE holder[i]]
    /\ UNCHANGED <<sale, money, fees>>

\* An item is given to somebody else while it is not for sale, or destroyed.
Move(i, person) ==
    /\ sale[i] = NoSale \/ person = Nobody
    /\ holder' = [holder EXCEPT ![i] = person]
    /\ UNCHANGED <<sale, money, fees>>

CollectFees(coin, person) ==
    /\ money' = Give(money, coin, person, fees[coin])
    /\ fees' = [fees EXCEPT ![coin] = 0]
    /\ UNCHANGED <<holder, sale>>

SaleInit ==
    /\ holder = [i \in Items |-> Nobody]
    /\ sale = [i \in Items |-> NoSale]
    /\ money \in [Coins -> [People -> Nat]]
    /\ fees = [c \in Coins |-> 0]

SaleNext ==
    \/ \E items \in SUBSET Items, person \in People :
         \/ Make(items, person)
         \/ \E price \in Prices, coin \in Coins : List(items, person, price, coin)
    \/ \E i \in Items :
         \/ \E buyer \in People : Buy(i, buyer)
         \/ \E person \in People \cup {Nobody} : Move(i, person)
         \/ Withdraw(i) \/ Deliver(i) \/ GiveBack(i)
    \/ \E coin \in Coins, person \in People : CollectFees(coin, person)

SaleSpec == SaleInit /\ [][SaleNext]_saleVars

=============================================================================
