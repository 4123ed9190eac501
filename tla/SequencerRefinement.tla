-------------------------- MODULE SequencerRefinement --------------------------
(* The sequencer implements the token pool, however its requests overlap.  *)
EXTENDS Sequencer

\* A timer that a release is about to delete keeps its id for nobody.
Live == DOMAIN timer \ {thread[p].key : p \in {q \in Threads : At(q, "drop")}}

\* An id is on its way into the set, or from the set to a timer.
Moving(i) ==
    \E p \in Threads :
        \/ At(p, "append") /\ thread[p].key[2] = i
        \/ thread[p].step \in {"claim", "setTimer"} /\ thread[p].id = i

\* An id with a live timer is kept for the timer's wallet; one in the set, or on
\* its way to or from it, is free.  Live timers of two wallets for one id have no
\* counterpart in the pool.
HolderOf(i) ==
    LET wallets == {w \in Wallets : <<w, i>> \in Live}
    IN  IF wallets # {}
        THEN IF Cardinality(wallets) = 1 THEN CHOOSE w \in wallets : TRUE ELSE "contested"
        ELSE IF i \in free \/ Moving(i) THEN "free" ELSE "gone"

Pool == INSTANCE TokenPool
    WITH holder <- [i \in Ids |-> HolderOf(i)],
         Free <- "free", Gone <- "gone"

\* As long as no timer is torn from its id (see Tears), each id is free or kept for
\* one wallet until its token is minted, and never comes back once it is gone,
\* although set, timers and last ids are changed by separate commands of requests,
\* releases and deletions that run at the same time and stop half way.
IdsArePooled == Pool!PoolSpec

\* "popRandom returned tokenId, but timer for it exists" is said not to happen.  It
\* does, to a wallet that takes an id while a release is between adding it to the
\* set and deleting the wallet's timer for it: the request fails and the id is in
\* nobody's hands.  Until a timer is torn from its id that is the only way, and no
\* two requests ever have the same id in hand.
PoppedIsUntimed ==
    torn \/ \A p \in Threads :
        thread[p].step \in {"claim", "setTimer"} =>
            /\ \A w \in Wallets : <<w, thread[p].id>> \notin Live
            /\ \A q \in Threads \ {p} :
                  thread[q].step \in {"claim", "setTimer"} => thread[q].id # thread[p].id

=============================================================================
