------------------------------ MODULE BlockView ------------------------------
(* What an indexer promises about one token: its answers are those of the  *)
(* contracts after some block, and they only move on, one block at a time. *)
(* It may stay behind for ever.  Once it has lost a block that the answers *)
(* depend on it promises nothing more.                                     *)
EXTENDS Naturals, Sequences

VARIABLES
    states,        \* states[b + 1]: the contracts after block b
    view,          \* what the indexer answers
    lost           \* a block was lost

Init == Len(states) = 1 /\ view = states[1] /\ lost = FALSE

Mine ==
    /\ Len(states') = Len(states) + 1
    /\ SubSeq(states', 1, Len(states)) = states
    /\ UNCHANGED <<view, lost>>

Follow ==
    /\ \E b \in 1 .. Len(states) - 1 : view = states[b] /\ view' = states[b + 1]
    /\ UNCHANGED <<states, lost>>

Lose == lost' = TRUE /\ UNCHANGED <<states, view>>

Stray == lost /\ UNCHANGED <<states, lost>>

Next == Mine \/ Follow \/ Lose \/ Stray

Spec == Init /\ [][Next]_<<states, view, lost>>

=============================================================================
