------------------------------- MODULE TokenPool -------------------------------
(***************************************************************************)
(* What the sequencer promises of the token ids of one collection: an id   *)
(* is free, kept for one wallet, or gone.  It is taken from a wallet to be *)
(* free again or because its token is minted; a free id may be lost.  Once *)
(* a timer is torn from its id nothing is promised any more.  holder[i] is *)
(* the wallet, or Free or Gone.                                            *)
(***************************************************************************)
CONSTANTS
    Ids, Wallets,
    Free, Gone

VARIABLES
    holder,
    minted,                    \* ids of the tokens that exist on the chain
    torn

poolVars == <<holder, minted, torn>>

PoolInit ==
    /\ holder = [i \in Ids |-> Free]
    /\ minted = {}
    /\ torn = FALSE

Mint(i) ==
    /\ i \notin minted
    /\ minted' = minted \cup {i}
    /\ UNCHANGED <<holder, torn>>

Move(i, from, to) ==
    /\ holder[i] \in from
    /\ holder' = [holder EXCEPT ![i] = to]
    /\ UNCHANGED <<minted, torn>>

Give(i, w) == Move(i, {Free}, w)
GiveBack(i) == Move(i, Wallets, Free)
Remove(i) == i \in minted /\ Move(i, Wallets \cup {Free}, Gone)

\* Requests that took free ids come to nothing.
Lose ==
    /\ \E lost \in SUBSET {i \in Ids : holder[i] = Free} :
          holder' = [i \in Ids |-> IF i \in lost THEN Gone ELSE holder[i]]
    /\ UNCHANGED <<minted, torn>>

Tear == torn' = TRUE /\ UNCHANGED minted

PoolNext ==
    \/ \E i \in Ids :
          \/ Mint(i) \/ GiveBack(i) \/ Remove(i)
          \/ \E w \in Wallets : Give(i, w)
    \/ Lose
    \/ Tear

PoolSpec == PoolInit /\ [][PoolNext]_poolVars

=============================================================================
