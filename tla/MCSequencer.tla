------------------------------ MODULE MCSequencer ------------------------------
(* The sequencer and its abstract pool, for TLC.                           *)
EXTENDS SequencerRefinement, TLC

\* Ids may be exchanged for each other (wallets may not: Idle names one).
Symmetry == Permutations(Ids) \cup Permutations(Threads)

=============================================================================
