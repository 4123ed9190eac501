------------------------------ MODULE MCIndexer ------------------------------
(* Users of Indexer for TLC.                                               *)
EXTENDS Indexer

CONSTANTS alice, bob

=============================================================================
