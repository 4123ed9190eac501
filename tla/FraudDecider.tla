----------------------------- MODULE FraudDecider -----------------------------
(***************************************************************************)
(* The fraud decider, for one collection.  The deployed one is             *)
(* FraudDeciderWeb2V2.sol: it never answers at once, decide() files the    *)
(* evidence for a web2 service, and the service sends its verdict later by *)
(* lateDecision().  A decider that checks the evidence on chain and        *)
(* answers at once is what the interface foresees for Filecoin.            *)
(*                                                                         *)
(* Evidence is kept as the number of the transfer whose keys and password  *)
(* it holds; 0 is "no report".                                             *)
(***************************************************************************)
EXTENDS Chain

CONSTANT InstantDecider        \* TRUE: the decider of a Filecoin deployment

ASSUME DeciderAssumption == InstantDecider \in BOOLEAN

VARIABLE reports               \* reports[collection][tokenId]

\* Types of the decider's state.
DeciderTypeOK == reports \in [Tokens -> Nat]

DeciderInit == reports = [t \in Tokens |-> 0]

\* The pairs <<decided, approve>> that decide() may return.
DecideAnswers == IF InstantDecider THEN {TRUE} \X BOOLEAN ELSE {<<FALSE, FALSE>>}

\* Mutation of Decide: the first report of a token is kept.
Decide_KeepsFirst(t, evidence) ==
    IF InstantDecider \/ reports[t] # 0
    THEN UNCHANGED reports
    ELSE reports' = [reports EXCEPT ![t] = evidence]

\* decide() overwrites the report of an earlier transfer of the token.
Decide(t, evidence) ==
    IF InstantDecider THEN UNCHANGED reports
                      ELSE reports' = [reports EXCEPT ![t] = evidence]

\* lateDecision() asks only that some report was filed; none is ever deleted.
HasReport(t) == reports[t] # 0

=============================================================================
