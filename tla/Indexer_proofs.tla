---------------------------- MODULE Indexer_proofs ----------------------------
(***************************************************************************)
(* Proofs about Indexer, for every value of its constants.                 *)
(***************************************************************************)
EXTENDS Indexer, SequenceTheorems, FiniteSetTheorems, TLAPS

-----------------------------------------------------------------------------
(* The chain, log by log.                                                  *)

ContractStates ==
    [owner : Users \cup {Nothing}, count : Nat, deal : Deals \cup {Nothing},
     outcome : OrderStatuses \cup {Nothing}, likes : Nat]

\* A token in a deal has an owner, a draft its order, any other deal its receiver.
StateOK(s) ==
    /\ s \in ContractStates
    /\ s.deal # Nothing =>
          /\ s.owner # Nothing
          /\ IF s.deal.status = "Drafted" THEN s.deal.order # Nothing ELSE s.deal.to \in Users

\* The status that the handler of an event gives the transfer.
StatusEvents == {"TransferDraft", "TransferInit", "TransferDraftCompletion",
                 "TransferPublicKeySet", "TransferPasswordSet", "TransferFraudReported",
                 "TransferFinished", "TransferFraudDecided", "TransferCancellation"}
StatusOf(event) ==
    CASE event = "TransferDraft" -> "Drafted"
      [] event \in {"TransferInit", "TransferDraftCompletion"} -> "Created"
      [] event = "TransferPublicKeySet" -> "PublicKeySet"
      [] event = "TransferPasswordSet" -> "PasswordSet"
      [] event = "TransferFraudReported" -> "FraudReported"
      [] event \in {"TransferFinished", "TransferFraudDecided"} -> "Finished"
      [] event = "TransferCancellation" -> "Cancelled"

Events == StatusEvents \cup {"Transfer", "Like"}
Openers == {"TransferDraft", "TransferInit"}
Others == StatusEvents \ Openers

\* What the contracts have seen to before they emit a log.
Can(s, log) ==
    /\ log.event \in Events
    /\ log.event = "Transfer" => s.owner = Nothing /\ log.to \in Users
    /\ log.event = "Like" => s.owner # Nothing
    /\ log.event \in Openers =>
          s.owner # Nothing /\ s.deal = Nothing /\ log.number = s.count + 1
    /\ log.event \in {"TransferInit", "TransferDraftCompletion"} => log.to \in Users
    /\ log.event \in Others => s.deal # Nothing
    /\ log.event = "TransferDraftCompletion" => s.deal.order # Nothing
    /\ log.event \in {"TransferPublicKeySet", "TransferPasswordSet", "TransferFraudReported",
                      "TransferFinished", "TransferFraudDecided"} => s.deal.to \in Users
    /\ log.event = "TransferFraudDecided" => log.approved \in BOOLEAN

\* A state after its deal is opened, goes on or has ended.
Opened(s, deal) == [s EXCEPT !.count = s.count + 1, !.deal = deal]
GoneOn(s, deal) == [s EXCEPT !.deal = deal]
Ended(s, owner, outcome) ==
    [s EXCEPT !.owner = owner, !.deal = Nothing,
              !.outcome = IF s.deal.order = Nothing THEN s.outcome ELSE outcome]
Minted(s, to) == [s EXCEPT !.owner = to]
Liked(s) == [s EXCEPT !.likes = s.likes + 1]

\* A deal that begins, and one that goes on.
Draft(s) ==
    [number |-> s.count + 1, to |-> ZeroAddress, status |-> "Drafted", order |-> "Created"]
Direct(s, to) ==
    [number |-> s.count + 1, to |-> to, status |-> "Created", order |-> Nothing]
Filled(deal, to) ==
    [number |-> deal.number, to |-> to, status |-> "Created", order |-> "Fulfilled"]
InStage(deal, status) ==
    [number |-> deal.number, to |-> deal.to, status |-> status, order |-> deal.order]

\* The state after one log of a transaction.
After(s, log) ==
    CASE log.event = "Transfer" -> Minted(s, log.to)
      [] log.event = "TransferDraft" -> Opened(s, Draft(s))
      [] log.event = "TransferInit" -> Opened(s, Direct(s, log.to))
      [] log.event = "TransferDraftCompletion" -> GoneOn(s, Filled(s.deal, log.to))
      [] log.event \in {"TransferPublicKeySet", "TransferPasswordSet", "TransferFraudReported"} ->
           GoneOn(s, InStage(s.deal, StatusOf(log.event)))
      [] log.event = "TransferFinished" -> Ended(s, s.deal.to, "Finished")
      [] log.event = "TransferFraudDecided" ->
           IF log.approved THEN Ended(s, s.owner, "FraudApproved")
                           ELSE Ended(s, s.deal.to, "Finished")
      [] log.event = "TransferCancellation" -> Ended(s, s.owner, "Cancelled")
      [] log.event = "Like" -> Liked(s)

\* The state after the first k logs of a block that begins in s.
Partial(s, logs, k) ==
    CASE k = 0 -> s
      [] k = 1 -> After(s, logs[1])
      [] k = 2 -> After(After(s, logs[1]), logs[2])

\* A block has at most two logs; then they are of two statuses.
Leads(s, logs, new) ==
    /\ Len(logs) \in 0 .. 2
    /\ \A k \in 1 .. Len(logs) : Can(Partial(s, logs, k - 1), logs[k])
    /\ Len(logs) = 2 => /\ logs[1].event \in Others /\ logs[2].event \in Others
                        /\ StatusOf(logs[1].event) # StatusOf(logs[2].event)
    /\ new = Partial(s, logs, Len(logs))

Logs == [event : Events] \cup [event : Events, to : Users] \cup [event : Events, number : Nat]
        \cup [event : Events, number : Nat, to : Users] \cup [event : Events, approved : BOOLEAN]

History ==
    /\ blocks \in Seq(Seq(Logs)) /\ Len(blocks) <= MaxBlocks
    /\ states \in Seq(ContractStates) /\ Len(states) = Len(blocks) + 1
    /\ \A b \in 1 .. Len(states) : StateOK(states[b]) /\ states[b].count < b
    /\ \A b \in 1 .. Len(blocks) : Leads(states[b], blocks[b], states[b + 1])

\* Likes are never taken back, and there are at most MaxOther of them.
LikesGrow ==
    /\ State.likes <= Cardinality(OtherBlocks) /\ Cardinality(OtherBlocks) <= MaxOther
    /\ \A b, c \in 1 .. Len(states) : b <= c => states[b].likes <= states[c].likes

-----------------------------------------------------------------------------
(* The tables after some logs.                                             *)

HasLast(S) == S # {} => \E last \in S : \A i \in S : i <= last

\* The tables t answer like the state s and count its likes; the transfer that
\* is not over is the last one.
Stands(t, s) ==
    /\ t \in Tables
    /\ \A i \in DOMAIN t.transfers : t.transfers[i].statuses # <<>> /\ t.transfers[i].order # <<>>
    /\ t.owner = s.owner
    /\ Len(t.transfers) = s.count
    /\ Active(t) = IF s.deal = Nothing THEN {} ELSE {s.count}
    /\ s.deal # Nothing => DealOf(t.transfers[s.count]) = s.deal
    /\ Outcome(t) = s.outcome /\ HasLast(Sales(t))
    /\ t.likes >= s.likes

InRows(rows, row) == \E j \in DOMAIN rows : rows[j] = row
HasRow(t, row) == \E i \in DOMAIN t.transfers : InRows(t.transfers[i].statuses, row)

\* The log of block b is recognised when it is read again.
IsKnown(t, log, b) ==
    /\ log.event = "Transfer" => t.owner # Nothing
    /\ log.event \in StatusEvents => HasRow(t, [status |-> StatusOf(log.event), tx |-> b])

\* t knows the blocks of h up to b and of the next one the first k logs, and
\* nothing of later ones.
Knows(h, t, b, k) ==
    /\ \A c \in 1 .. b : \A i \in 1 .. Len(h[c]) : IsKnown(t, h[c][i], c)
    /\ \A i \in 1 .. k : IsKnown(t, h[b + 1][i], b + 1)
    /\ \A row \in [status : Statuses, tx : 1 .. MaxBlocks] :
          HasRow(t, row) =>
            \/ row.tx <= b
            \/ /\ row.tx = b + 1
               /\ \E i \in 1 .. k : /\ h[b + 1][i].event \in StatusEvents
                                    /\ StatusOf(h[b + 1][i].event) = row.status

\* The message m is of the state s.
Tells(m, s) ==
    /\ m.owner = s.owner
    /\ IF s.deal = Nothing THEN m.deal = Nothing \/ m.deal.status = "Finished"
       ELSE m.deal = [number |-> s.deal.number, to |-> s.deal.to, status |-> s.deal.status]

\* The last log of the block sends a message.
Sends(logs) == logs # <<>> /\ logs[Len(logs)].event # "Like"

\* The tables are those after block b, which is not before the position.
TablesStand(b) ==
    /\ saved <= b
    /\ latest # Nothing => saved <= latest /\ latest <= b
    /\ Stands(tables, states[b + 1])
    /\ Knows(blocks, tables, b, 0)

\* So is the last message, unless it is of the next block.
ToldStands(b) ==
    told # Nothing => \/ Tells(told, states[b + 1])
                      \/ b < Len(blocks) /\ Sends(blocks[b + 1])

\* The transaction has the tables after the first k logs of block b + 1.
WorkStands(b, k) ==
    /\ Stands(job.work, Partial(states[b + 1], blocks[b + 1], k))
    /\ Knows(blocks, job.work, b, k)
    /\ k > 0 /\ blocks[b + 1][k].event # "Like" =>
          Tells(told, Partial(states[b + 1], blocks[b + 1], k))

\* A block up to b is only read again.
RereadStands(b) ==
    /\ Stands(job.work, states[b + 1])
    /\ Knows(blocks, job.work, b, 0)

JobStands(b) ==
    job # Nothing =>
        /\ latest # Nothing /\ latest < Len(blocks)
        /\ job \in [next : 1 .. Len(Block) + 1, work : Tables, committed : BOOLEAN]
        /\ job.committed => latest < b
        /\ ~job.committed /\ latest < b => RereadStands(b)
        /\ ~job.committed /\ latest = b => WorkStands(b, job.next - 1)

StandsAt(b) == TablesStand(b) /\ ToldStands(b) /\ JobStands(b)

\* The types, and the positions and the job are of blocks that exist.
TypeInv ==
    /\ tables \in Tables /\ skipped \in BOOLEAN
    /\ saved \in Nat /\ saved <= Len(blocks)
    /\ latest # Nothing => latest \in Nat /\ saved <= latest /\ latest <= Len(blocks)
    /\ job # Nothing =>
          /\ latest # Nothing /\ latest < Len(blocks)
          /\ job \in [next : 1 .. Len(Block) + 1, work : Tables, committed : BOOLEAN]
    /\ told # Nothing => told.owner \in Addresses

\* Before the mint the contracts have nothing of the token.
MintedOnce ==
    \A b, c \in 1 .. Len(states) : b <= c /\ states[c].owner = Nothing => states[b] = Genesis

\* Tables that have nothing of the token.
Empty(t) == t.owner = Nothing /\ t.transfers = <<>>

\* Block m is the mint, and it was passed over: the tables have nothing, nor has the
\* job, which is beyond it.
MissesMint(m) ==
    /\ states[m].owner = Nothing /\ states[m + 1].owner # Nothing
    /\ Empty(tables)
    /\ latest # Nothing => m - 1 <= latest
    /\ job # Nothing => Empty(job.work) /\ (latest = m - 1 => job.next = 2)

Stood == \E b \in 0 .. Len(blocks) : StandsAt(b)
Missed == \E m \in 1 .. Len(blocks) : MissesMint(m)

\* Unless a block with logs was passed over, the tables are those after some
\* block or lack the mint.
IInv ==
    /\ History /\ LikesGrow /\ MintedOnce
    /\ TypeInv
    /\ ~skipped => Stood \/ Missed

-----------------------------------------------------------------------------
(* What the contracts do.                                                  *)

\* The fields of a state.
LEMMA StateFields ==
    ASSUME NEW s, StateOK(s)
    PROVE  /\ s \in ContractStates
           /\ s.owner \in Users \cup {Nothing} /\ s.count \in Nat /\ s.likes \in Nat
           /\ s.deal \in Deals \cup {Nothing} /\ s.outcome \in OrderStatuses \cup {Nothing}
           /\ s.deal # Nothing =>
                /\ s.deal \in Deals /\ s.owner \in Users
                /\ IF s.deal.status = "Drafted" THEN s.deal.order # Nothing ELSE s.deal.to \in Users
BY DEF StateOK, ContractStates

\* A record of a deal is one, and so is a deal that is changed.
LEMMA DraftType ==
    ASSUME NEW s, s.count \in Nat
    PROVE  Draft(s) \in Deals /\ Draft(s).status = "Drafted" /\ Draft(s).order # Nothing
BY NothingAssumption DEF Deals, Draft, Statuses, OrderStatuses, Addresses

LEMMA DirectType ==
    ASSUME NEW s, s.count \in Nat, NEW to \in Users
    PROVE  Direct(s, to) \in Deals /\ Direct(s, to).status = "Created" /\ Direct(s, to).to = to
BY DEF Deals, Direct, Statuses, Addresses

LEMMA DealFields ==
    ASSUME NEW d \in Deals
    PROVE  /\ d # Nothing /\ d.number \in Nat /\ d.to \in Addresses
           /\ d.status \in Statuses /\ d.order \in OrderStatuses \cup {Nothing}
           /\ d = [number |-> d.number, to |-> d.to, status |-> d.status, order |-> d.order]
BY NothingAssumption DEF Deals

LEMMA FilledType ==
    ASSUME NEW d \in Deals, NEW to \in Users
    PROVE  Filled(d, to) \in Deals /\ Filled(d, to).status = "Created" /\ Filled(d, to).to = to
BY DEF Deals, Filled, Statuses, OrderStatuses, Addresses

LEMMA StageType ==
    ASSUME NEW d \in Deals, NEW status \in Statuses
    PROVE  InStage(d, status) \in Deals /\ InStage(d, status).status = status
           /\ InStage(d, status).to = d.to
BY DEF Deals, InStage

\* The deal is opened, goes on, or ends; the token is minted or liked: each time
\* the state is one of a token.
LEMMA OpenedOK ==
    ASSUME NEW s, StateOK(s), s.owner # Nothing, NEW d \in Deals,
           d.status = "Drafted" => d.order # Nothing, d.status # "Drafted" => d.to \in Users
    PROVE  LET n == Opened(s, d)
           IN  /\ StateOK(n)
               /\ n.owner = s.owner /\ n.count = s.count + 1 /\ n.deal = d
               /\ n.outcome = s.outcome /\ n.likes = s.likes
<1> DEFINE n == Opened(s, d)
<1> DEFINE m == s.count + 1
<1>2. s \in ContractStates /\ m \in Nat
  BY StateFields
<1>3. n = [s EXCEPT !.count = m, !.deal = d]
  BY DEF Opened
<1> HIDE DEF n, m
<1>4. /\ n \in ContractStates
      /\ n.owner = s.owner /\ n.count = m /\ n.deal = d
      /\ n.outcome = s.outcome /\ n.likes = s.likes
  BY <1>2, <1>3 DEF ContractStates
<1>5. StateOK(n)
  BY <1>4 DEF StateOK
<1> QED BY <1>4, <1>5 DEF n, m

LEMMA GoneOnOK ==
    ASSUME NEW s, StateOK(s), s.deal # Nothing, NEW d \in Deals,
           d.status # "Drafted", d.to \in Users
    PROVE  LET n == GoneOn(s, d)
           IN  /\ StateOK(n)
               /\ n.owner = s.owner /\ n.count = s.count /\ n.deal = d
               /\ n.outcome = s.outcome /\ n.likes = s.likes
BY DEF StateOK, ContractStates, GoneOn

LEMMA EndedOK ==
    ASSUME NEW s, StateOK(s), s.deal # Nothing, NEW owner \in Users, NEW outcome \in OrderStatuses
    PROVE  LET n == Ended(s, owner, outcome)
           IN  /\ StateOK(n)
               /\ n.owner = owner /\ n.count = s.count /\ n.deal = Nothing
               /\ n.outcome = (IF s.deal.order = Nothing THEN s.outcome ELSE outcome)
               /\ n.likes = s.likes
BY DEF StateOK, ContractStates, Ended

LEMMA MintedOK ==
    ASSUME NEW s, StateOK(s), NEW to \in Users, s.owner = Nothing
    PROVE  LET n == Minted(s, to)
           IN  /\ StateOK(n) /\ s.deal = Nothing
               /\ n.owner = to /\ n.count = s.count /\ n.deal = Nothing
               /\ n.outcome = s.outcome /\ n.likes = s.likes
BY DEF StateOK, ContractStates, Minted

LEMMA LikedOK ==
    ASSUME NEW s, StateOK(s)
    PROVE  LET n == Liked(s)
           IN  /\ StateOK(n)
               /\ n.owner = s.owner /\ n.count = s.count /\ n.deal = s.deal
               /\ n.outcome = s.outcome /\ n.likes = s.likes + 1
BY DEF StateOK, ContractStates, Liked

\* What After is, event by event.
LEMMA AfterEvent ==
    ASSUME NEW s, NEW log
    PROVE  /\ log.event = "Transfer" => After(s, log) = Minted(s, log.to)
           /\ log.event = "TransferDraft" => After(s, log) = Opened(s, Draft(s))
           /\ log.event = "TransferInit" => After(s, log) = Opened(s, Direct(s, log.to))
           /\ log.event = "TransferDraftCompletion" => After(s, log) = GoneOn(s, Filled(s.deal, log.to))
           /\ log.event \in {"TransferPublicKeySet", "TransferPasswordSet", "TransferFraudReported"} =>
                After(s, log) = GoneOn(s, InStage(s.deal, StatusOf(log.event)))
           /\ log.event = "TransferFinished" => After(s, log) = Ended(s, s.deal.to, "Finished")
           /\ log.event = "TransferFraudDecided" /\ log.approved =>
                After(s, log) = Ended(s, s.owner, "FraudApproved")
           /\ log.event = "TransferFraudDecided" /\ ~log.approved =>
                After(s, log) = Ended(s, s.deal.to, "Finished")
           /\ log.event = "TransferCancellation" => After(s, log) = Ended(s, s.owner, "Cancelled")
           /\ log.event = "Like" => After(s, log) = Liked(s)
BY DEF After

\* A log that the contracts may emit leads to a state of the contracts.
LEMMA AfterOK ==
    ASSUME NEW s, StateOK(s), NEW log, Can(s, log)
    PROVE  LET n == After(s, log)
           IN  /\ StateOK(n)
               /\ n.count = IF log.event \in Openers THEN s.count + 1 ELSE s.count
               /\ s.owner # Nothing => n.owner # Nothing
               /\ log.event # "Like" => n.owner \in Users
               /\ n.likes = IF log.event = "Like" THEN s.likes + 1 ELSE s.likes
<1> DEFINE n == After(s, log)
<1> HIDE DEF n
<1>1. /\ s.count \in Nat /\ s.likes \in Nat
      /\ s.deal # Nothing => s.deal \in Deals /\ s.owner \in Users
      /\ s.owner # Nothing => s.owner \in Users
      /\ Nothing \notin Users
  BY StateFields, IndexerAssumption
<1>e. {"Finished", "FraudApproved", "Cancelled", "Created"} \subseteq OrderStatuses
  BY DEF OrderStatuses
<1>s. {"Drafted", "Created", "PublicKeySet", "PasswordSet", "FraudReported"} \subseteq Statuses
  BY DEF Statuses
<1>n. Nothing \notin OrderStatuses
  BY NothingAssumption
<1>2. CASE log.event = "Transfer"
  <2>1. n = Minted(s, log.to) /\ s.owner = Nothing /\ log.to \in Users
    BY <1>2, AfterEvent DEF Can, n, Openers
  <2> QED BY <1>1, <1>2, <2>1, MintedOK DEF n, Openers
<1>3. CASE log.event = "TransferDraft"
  <2>1. n = Opened(s, Draft(s)) /\ s.owner # Nothing
    BY <1>3, AfterEvent DEF Can, n, Openers
  <2>2. Draft(s) \in Deals /\ Draft(s).status = "Drafted" /\ Draft(s).order # Nothing
    BY <1>1, DraftType
  <2>3. StateOK(n) /\ n.count = s.count + 1 /\ n.owner = s.owner /\ n.likes = s.likes
    BY <2>1, <2>2, OpenedOK
  <2> QED BY <1>1, <1>3, <2>1, <2>3 DEF n, Openers
<1>4. CASE log.event = "TransferInit"
  <2>1. n = Opened(s, Direct(s, log.to)) /\ s.owner # Nothing /\ log.to \in Users
    BY <1>4, AfterEvent DEF Can, n, Openers
  <2>2. /\ Direct(s, log.to) \in Deals
        /\ Direct(s, log.to).status = "Created" /\ Direct(s, log.to).to \in Users
    BY <1>1, <2>1, DirectType
  <2>3. StateOK(n) /\ n.count = s.count + 1 /\ n.owner = s.owner /\ n.likes = s.likes
    BY <2>1, <2>2, OpenedOK
  <2> QED BY <1>1, <1>4, <2>1, <2>3 DEF n, Openers
<1>5. CASE log.event = "TransferDraftCompletion"
  <2>1. n = GoneOn(s, Filled(s.deal, log.to)) /\ s.deal # Nothing /\ log.to \in Users
    BY <1>5, AfterEvent DEF Can, n, StatusEvents, Openers, Others
  <2>2. /\ Filled(s.deal, log.to) \in Deals
        /\ Filled(s.deal, log.to).status # "Drafted" /\ Filled(s.deal, log.to).to \in Users
    BY <1>1, <2>1, FilledType
  <2>3. StateOK(n) /\ n.count = s.count /\ n.owner = s.owner /\ n.likes = s.likes
    BY <2>1, <2>2, GoneOnOK
  <2> QED BY <1>1, <1>5, <2>1, <2>3 DEF n, Openers
<1>6. CASE log.event \in {"TransferPublicKeySet", "TransferPasswordSet", "TransferFraudReported"}
  <2> DEFINE d == InStage(s.deal, StatusOf(log.event))
  <2>1. n = GoneOn(s, d) /\ s.deal # Nothing /\ s.deal.to \in Users
    BY <1>6, AfterEvent DEF Can, n, StatusEvents, Openers, Others
  <2>2. StatusOf(log.event) \in Statuses \ {"Drafted"}
    BY <1>6 DEF StatusOf, Statuses
  <2>3. d \in Deals /\ d.status # "Drafted" /\ d.to \in Users
    BY <1>1, <2>1, <2>2, StageType
  <2> HIDE DEF d
  <2>4. StateOK(n) /\ n.count = s.count /\ n.owner = s.owner /\ n.likes = s.likes
    BY <2>1, <2>3, GoneOnOK
  <2> QED BY <1>1, <1>6, <2>1, <2>4 DEF n, Openers
<1>7. ASSUME NEW owner \in Users, NEW outcome \in OrderStatuses, s.deal # Nothing,
             n = Ended(s, owner, outcome), log.event # "Like"
      PROVE  /\ StateOK(n) /\ n.count = s.count /\ (s.owner # Nothing => n.owner # Nothing)
             /\ (log.event # "Like" => n.owner \in Users)
             /\ n.likes = IF log.event = "Like" THEN s.likes + 1 ELSE s.likes
  <2>1. StateOK(n) /\ n.count = s.count /\ n.owner = owner /\ n.likes = s.likes
    BY <1>7, EndedOK
  <2> QED BY <1>1, <1>7, <2>1
<1>8. CASE log.event = "TransferFinished"
  <2>1. n = Ended(s, s.deal.to, "Finished") /\ s.deal # Nothing /\ s.deal.to \in Users
    BY <1>8, AfterEvent DEF Can, n, StatusEvents, Openers, Others
  <2> QED BY <1>e, <1>7, <1>8, <2>1 DEF n, Openers
<1>9. CASE log.event = "TransferFraudDecided"
  <2>1. /\ s.deal # Nothing /\ s.deal.to \in Users /\ s.owner \in Users
        /\ n = Ended(s, s.deal.to, "Finished") \/ n = Ended(s, s.owner, "FraudApproved")
    BY <1>1, <1>9, AfterEvent DEF Can, n, StatusEvents, Openers, Others
  <2> QED BY <1>e, <1>7, <1>9, <2>1 DEF n, Openers
<1>10. CASE log.event = "TransferCancellation"
  <2>1. n = Ended(s, s.owner, "Cancelled") /\ s.deal # Nothing /\ s.owner \in Users
    BY <1>1, <1>10, AfterEvent DEF Can, n, StatusEvents, Openers, Others
  <2> QED BY <1>e, <1>7, <1>10, <2>1 DEF n, Openers
<1>11. CASE log.event = "Like"
  <2>1. n = Liked(s)
    BY <1>11, AfterEvent DEF n
  <2>2. StateOK(n) /\ n.count = s.count /\ n.owner = s.owner /\ n.likes = s.likes + 1
    BY <2>1, LikedOK
  <2> QED BY <1>1, <1>11, <2>2 DEF n, Openers
<1> QED BY <1>2, <1>3, <1>4, <1>5, <1>6, <1>8, <1>9, <1>10, <1>11 DEF Can, Events, StatusEvents


-----------------------------------------------------------------------------
(* The logs of a block lead from one state to the next.                    *)

LEMMA LeadsNone == ASSUME NEW s PROVE Leads(s, <<>>, s)
BY DEF Leads, Partial

LEMMA LeadsOne ==
    ASSUME NEW s, NEW log, Can(s, log)
    PROVE  Leads(s, <<log>>, After(s, log))
BY DEF Leads, Partial

LEMMA LeadsTwo ==
    ASSUME NEW s, NEW log, NEW next, Can(s, log), Can(After(s, log), next),
           log.event \in Others, next.event \in Others,
           StatusOf(log.event) # StatusOf(next.event)
    PROVE  Leads(s, <<log, next>>, After(After(s, log), next))
<1> DEFINE logs == <<log, next>>
<1>1. Len(logs) = 2 /\ logs[1] = log /\ logs[2] = next
  OBVIOUS
<1> HIDE DEF logs
<1>2. /\ Partial(s, logs, 0) = s /\ Partial(s, logs, 1) = After(s, log)
      /\ Partial(s, logs, 2) = After(After(s, log), next)
  BY <1>1 DEF Partial
<1>3. \A k \in 1 .. Len(logs) : Can(Partial(s, logs, k - 1), logs[k])
  <2> SUFFICES ASSUME NEW k \in 1 .. 2 PROVE Can(Partial(s, logs, k - 1), logs[k])
    BY <1>1
  <2>1. CASE k = 1
    BY <1>1, <1>2, <2>1
  <2>2. CASE k = 2
    BY <1>1, <1>2, <2>2
  <2> QED BY <2>1, <2>2
<1> QED BY <1>1, <1>2, <1>3 DEF Leads, logs

\* A deal that a decision ends in the block that reports it ends like any other.
LEMMA ReportedEnds ==
    ASSUME NEW s, StateOK(s), s.deal # Nothing, NEW owner, NEW outcome
    PROVE  Ended(GoneOn(s, InStage(s.deal, "FraudReported")), owner, outcome) = Ended(s, owner, outcome)
BY DEF StateOK, ContractStates, Ended, GoneOn, InStage

\* The owner and the receiver stay when the deal gets on.
LEMMA StagedFields ==
    ASSUME NEW s, StateOK(s), s.deal # Nothing, NEW status \in Statuses
    PROVE  LET n == GoneOn(s, InStage(s.deal, status))
           IN  /\ n.owner = s.owner /\ n.deal # Nothing /\ n.deal.to = s.deal.to
               /\ n = [s EXCEPT !.deal = [s.deal EXCEPT !.status = status]]
<1>1. s.deal \in Deals /\ s \in ContractStates
  BY StateFields
<1>2. InStage(s.deal, status) \in Deals /\ InStage(s.deal, status).to = s.deal.to
  BY <1>1, StageType
<1>3. InStage(s.deal, status) = [s.deal EXCEPT !.status = status]
  BY <1>1 DEF InStage, Deals
<1>4. InStage(s.deal, status) # Nothing
  BY <1>2, NothingAssumption
<1> QED BY <1>1, <1>2, <1>3, <1>4 DEF GoneOn, ContractStates

\* fulfillOrder is a completion and a public key.
LEMMA FulfilledFields ==
    ASSUME NEW s, StateOK(s), s.deal # Nothing, NEW to \in Users
    PROVE  LET n == GoneOn(s, Filled(s.deal, to))
           IN  /\ n.deal # Nothing /\ n.deal.to = to
               /\ GoneOn(n, InStage(n.deal, "PublicKeySet")) =
                    [s EXCEPT !.deal = [number |-> s.deal.number, to |-> to,
                                        status |-> "PublicKeySet", order |-> "Fulfilled"]]
<1> DEFINE f == Filled(s.deal, to)
<1> DEFINE n == GoneOn(s, f)
<1> DEFINE d == [number |-> s.deal.number, to |-> to, status |-> "PublicKeySet", order |-> "Fulfilled"]
<1>1. s.deal \in Deals /\ s \in ContractStates
  BY StateFields
<1>2. f \in Deals /\ f.to = to /\ f # Nothing
  BY <1>1, FilledType, NothingAssumption
<1>3. InStage(f, "PublicKeySet") = d
  BY DEF InStage, Filled
<1> HIDE DEF f, d
<1>4. n = [s EXCEPT !.deal = f] /\ n.deal = f
  BY <1>1 DEF GoneOn, ContractStates
<1>5. GoneOn(n, d) = [s EXCEPT !.deal = d]
  BY <1>1 DEF GoneOn, ContractStates
<1> QED BY <1>2, <1>3, <1>4, <1>5 DEF f, d

\* A block with the logs of one call that the contracts accept.
Fills(logs, new) ==
    /\ logs \in Seq(Logs) /\ Leads(State, logs, new)
    /\ logs \in {<<>>, <<Log("Like")>>} => Cardinality(OtherBlocks) < MaxOther
    /\ new.count <= State.count + 1
    /\ new.likes = IF logs = <<Log("Like")>> THEN State.likes + 1 ELSE State.likes

\* What a call with one log must show, and with two.
LEMMA OneFills ==
    ASSUME StateOK(State), NEW log \in Logs, log.event # "Like", Can(State, log),
           NEW new, new = After(State, log)
    PROVE  Fills(<<log>>, new)
<1>1. <<log>> # <<>> /\ <<log>> # <<Log("Like")>> /\ <<log>> \in Seq(Logs)
  BY DEF Log
<1>2. Leads(State, <<log>>, new)
  BY LeadsOne
<1>3. new.likes = State.likes /\ new.count <= State.count + 1
  BY AfterOK, StateFields
<1> QED BY <1>1, <1>2, <1>3 DEF Fills

LEMMA TwoFill ==
    ASSUME StateOK(State), NEW log \in Logs, NEW next \in Logs, Can(State, log),
           Can(After(State, log), next),
           log.event \in Others, next.event \in Others,
           StatusOf(log.event) # StatusOf(next.event),
           NEW new, new = After(After(State, log), next)
    PROVE  Fills(<<log, next>>, new)
<1>1. <<log, next>> # <<>> /\ <<log, next>> # <<Log("Like")>> /\ <<log, next>> \in Seq(Logs)
  OBVIOUS
<1>2. Leads(State, <<log, next>>, new)
  BY LeadsTwo
<1>e. log.event \notin Openers \cup {"Like"} /\ next.event \notin Openers \cup {"Like"}
  BY DEF Others, StatusEvents
<1>3. /\ StateOK(After(State, log)) /\ After(State, log).likes = State.likes
      /\ After(State, log).count = State.count
  BY <1>e, AfterOK
<1>4. new.likes = State.likes /\ new.count = State.count
  BY <1>e, <1>3, AfterOK
<1>5. State.count \in Nat
  BY StateFields
<1> QED BY <1>1, <1>2, <1>4, <1>5 DEF Fills

\* Every call mines such a block.
LEMMA CallFills ==
    ASSUME StateOK(State), Chain
    PROVE  \E logs, new : Mine(logs, new) /\ Fills(logs, new)
<1> DEFINE s == State
<1>t. /\ s \in ContractStates /\ s.count \in Nat /\ Nothing \notin Users
      /\ s.owner \in Users \cup {Nothing}
      /\ s.deal # Nothing =>
            /\ s.deal \in Deals /\ s.owner \in Users
            /\ s.deal.status = "Drafted" => s.deal.order # Nothing
            /\ s.deal.status # "Drafted" => s.deal.to \in Users
  BY StateFields, IndexerAssumption
<1> HIDE DEF s
<1>1. ASSUME NEW to \in Minters, Mint(to)
      PROVE  \E logs, new : Mine(logs, new) /\ Fills(logs, new)
  <2> DEFINE log == [event |-> "Transfer", to |-> to]
  <2>1. s.owner = Nothing /\ Mine(<<log>>, Minted(s, to)) /\ to \in Users
    BY <1>1, IndexerAssumption DEF Mint, Minted, s
  <2>2. log \in Logs /\ log.event = "Transfer" /\ log.to = to
    BY <2>1 DEF Logs, Events, StatusEvents
  <2> HIDE DEF log
  <2>3. Can(s, log)
    BY <2>1, <2>2 DEF Can, Events, StatusEvents, Openers, Others
  <2>4. After(s, log) = Minted(s, to)
    BY <2>2, AfterEvent
  <2>5. Fills(<<log>>, Minted(s, to))
    BY <2>2, <2>3, <2>4, OneFills DEF s
  <2> QED BY <2>1, <2>5
<1>2. CASE PlaceOrder
  <2> DEFINE log == [event |-> "TransferDraft", number |-> s.count + 1]
  <2>1. s.owner # Nothing /\ s.deal = Nothing /\ Mine(<<log>>, Opened(s, Draft(s)))
    BY <1>2 DEF PlaceOrder, NewDeal, Opened, Draft, Deal, s
  <2>2. log \in Logs /\ log.event = "TransferDraft" /\ log.number = s.count + 1
    BY <1>t DEF Logs, Events, StatusEvents
  <2> HIDE DEF log
  <2>3. Can(s, log)
    BY <2>1, <2>2 DEF Can, Events, StatusEvents, Openers, Others
  <2>4. After(s, log) = Opened(s, Draft(s))
    BY <2>2, AfterEvent
  <2>5. Fills(<<log>>, Opened(s, Draft(s)))
    BY <2>2, <2>3, <2>4, OneFills DEF s
  <2> QED BY <2>1, <2>5
<1>3. ASSUME NEW to \in Users, InitTransfer(to)
      PROVE  \E logs, new : Mine(logs, new) /\ Fills(logs, new)
  <2> DEFINE log == [event |-> "TransferInit", number |-> s.count + 1, to |-> to]
  <2>1. s.owner # Nothing /\ s.deal = Nothing /\ Mine(<<log>>, Opened(s, Direct(s, to)))
    BY <1>3 DEF InitTransfer, NewDeal, Opened, Direct, Deal, s
  <2>2. log \in Logs /\ log.event = "TransferInit" /\ log.number = s.count + 1 /\ log.to = to
    BY <1>t DEF Logs, Events, StatusEvents
  <2> HIDE DEF log
  <2>3. Can(s, log)
    BY <2>1, <2>2 DEF Can, Events, StatusEvents, Openers, Others
  <2>4. After(s, log) = Opened(s, Direct(s, to))
    BY <2>2, AfterEvent
  <2>5. Fills(<<log>>, Opened(s, Direct(s, to)))
    BY <2>2, <2>3, <2>4, OneFills DEF s
  <2> QED BY <2>1, <2>5
<1>4. ASSUME NEW to \in Users, FulfillOrder(to)
      PROVE  \E logs, new : Mine(logs, new) /\ Fills(logs, new)
  <2> DEFINE log == [event |-> "TransferDraftCompletion", to |-> to]
  <2> DEFINE next == [event |-> "TransferPublicKeySet"]
  <2> DEFINE n == GoneOn(s, Filled(s.deal, to))
  <2> DEFINE new == GoneOn(n, InStage(n.deal, "PublicKeySet"))
  <2>1. s.deal # Nothing /\ s.deal.status = "Drafted"
    BY <1>4 DEF FulfillOrder, InStatus, Deal, s
  <2>2. n.deal # Nothing /\ n.deal.to = to
    BY <2>1, FulfilledFields DEF s
  <2>3. Mine(<<log, next>>, new)
    <3>1. new = [s EXCEPT !.deal = [number |-> s.deal.number, to |-> to,
                                    status |-> "PublicKeySet", order |-> "Fulfilled"]]
      BY <2>1, FulfilledFields DEF s
    <3> QED BY <1>4, <3>1 DEF FulfillOrder, Deal, Log, s
  <2>4. /\ log \in Logs /\ log.event = "TransferDraftCompletion" /\ log.to = to
        /\ next \in Logs /\ next.event = "TransferPublicKeySet"
    BY DEF Logs, Events, StatusEvents
  <2> HIDE DEF log, next, n
  <2>5. Can(s, log) /\ After(s, log) = n
    BY <1>t, <2>1, <2>4, AfterEvent DEF Can, Events, StatusEvents, Openers, Others, n
  <2>6. Can(n, next) /\ After(n, next) = new
    <3>1. StatusOf(next.event) = "PublicKeySet"
      BY <2>4 DEF StatusOf
    <3>2. After(n, next) = GoneOn(n, InStage(n.deal, StatusOf(next.event)))
      BY <2>4, AfterEvent
    <3> QED BY <2>2, <2>4, <3>1, <3>2 DEF Can, Events, StatusEvents, Openers, Others
  <2> HIDE DEF new
  <2>7. /\ log.event \in Others /\ next.event \in Others
        /\ StatusOf(log.event) # StatusOf(next.event)
    BY <2>4 DEF StatusEvents, StatusOf, Openers, Others
  <2>8. Fills(<<log, next>>, new)
    BY <2>4, <2>5, <2>6, <2>7, TwoFill DEF s
  <2> QED BY <2>3, <2>8
\* Setting the key, the password or the report.
<1>5. ASSUME NEW event, NEW status \in {"PublicKeySet", "PasswordSet", "FraudReported"},
             event \in StatusEvents, StatusOf(event) = status,
             Mine(<<Log(event)>>, Status(status)), s.deal # Nothing, s.deal.to \in Users
      PROVE  \E logs, new : Mine(logs, new) /\ Fills(logs, new)
  <2> DEFINE log == Log(event)
  <2> DEFINE new == GoneOn(s, InStage(s.deal, status))
  <2>1. log \in Logs /\ log.event = event
    BY <1>5 DEF Logs, Events, StatusEvents, Log
  <2>2. Mine(<<log>>, new)
    <3>1. status \in Statuses
      BY DEF Statuses
    <3>2. new = [s EXCEPT !.deal = [s.deal EXCEPT !.status = status]]
      BY <1>5, <3>1, StagedFields DEF s
    <3> QED BY <1>5, <3>2 DEF Status, Deal, s
  <2> HIDE DEF log
  <2>e. event \in {"TransferPublicKeySet", "TransferPasswordSet", "TransferFraudReported"}
    BY <1>5 DEF StatusOf, StatusEvents
  <2>3. Can(s, log)
    BY <1>5, <2>1, <2>e DEF Can, Events, StatusEvents, Openers, Others
  <2>4. After(s, log) = new
    BY <1>5, <2>1, <2>e, AfterEvent
  <2> HIDE DEF new
  <2>5. Fills(<<log>>, new)
    BY <2>1, <2>e, <2>3, <2>4, OneFills DEF s
  <2> QED BY <2>2, <2>5
<1>6. CASE SetPublicKey \/ ApproveTransfer \/ ReportFraud
  <2>1. s.deal # Nothing /\ s.deal.to \in Users
    BY <1>t, <1>6 DEF SetPublicKey, ApproveTransfer, ReportFraud, InStatus, Deal, s
  <2>2. CASE SetPublicKey
    BY <1>5, <2>1, <2>2 DEF SetPublicKey, StatusOf, StatusEvents
  <2>3. CASE ApproveTransfer
    BY <1>5, <2>1, <2>3 DEF ApproveTransfer, StatusOf, StatusEvents
  <2>4. CASE ReportFraud
    BY <1>5, <2>1, <2>4 DEF ReportFraud, StatusOf, StatusEvents
  <2> QED BY <1>6, <2>2, <2>3, <2>4
<1>7. CASE FinalizeTransfer
  <2> DEFINE log == Log("TransferFinished")
  <2>1. /\ s.deal # Nothing /\ s.deal.to \in Users
        /\ Mine(<<log>>, Ended(s, s.deal.to, "Finished"))
    BY <1>t, <1>7 DEF FinalizeTransfer, InStatus, End, Ended, Deal, s
  <2>2. log \in Logs /\ log.event = "TransferFinished"
    BY DEF Logs, Events, StatusEvents, Log
  <2> HIDE DEF log
  <2>3. Can(s, log) /\ After(s, log) = Ended(s, s.deal.to, "Finished")
    BY <2>1, <2>2, AfterEvent DEF Can, Events, StatusEvents, Openers, Others
  <2>4. Fills(<<log>>, Ended(s, s.deal.to, "Finished"))
    BY <2>2, <2>3, OneFills DEF s
  <2> QED BY <2>1, <2>4
<1>8. CASE CancelTransfer
  <2> DEFINE log == Log("TransferCancellation")
  <2>1. s.deal # Nothing /\ Mine(<<log>>, Ended(s, s.owner, "Cancelled"))
    BY <1>8 DEF CancelTransfer, End, Ended, Deal, s
  <2>2. log \in Logs /\ log.event = "TransferCancellation"
    BY DEF Logs, Events, StatusEvents, Log
  <2> HIDE DEF log
  <2>3. Can(s, log) /\ After(s, log) = Ended(s, s.owner, "Cancelled")
    BY <2>1, <2>2, AfterEvent DEF Can, Events, StatusEvents, Openers, Others
  <2>4. Fills(<<log>>, Ended(s, s.owner, "Cancelled"))
    BY <2>2, <2>3, OneFills DEF s
  <2> QED BY <2>1, <2>4
<1>9. ASSUME NEW approved \in BOOLEAN, DecideFraud(approved) \/ ReportAndDecide(approved)
      PROVE  \E logs, new : Mine(logs, new) /\ Fills(logs, new)
  <2> DEFINE log == Decided(approved)
  <2> DEFINE new == IF approved THEN Ended(s, s.owner, "FraudApproved")
                                ELSE Ended(s, s.deal.to, "Finished")
  <2>1. s.deal # Nothing /\ s.deal.to \in Users
    BY <1>t, <1>9 DEF DecideFraud, ReportAndDecide, InStatus, Deal, s
  <2>2. AfterDecision(approved) = new
    BY DEF AfterDecision, End, Ended, Deal, s
  <2>3. log \in Logs /\ log.event = "TransferFraudDecided" /\ log.approved = approved
    BY DEF Logs, Events, StatusEvents, Decided
  <2>4. CASE DecideFraud(approved)
    <3>1. Mine(<<log>>, new)
      BY <2>2, <2>4 DEF DecideFraud
    <3> HIDE DEF log
    <3>2. Can(s, log)
      BY <2>1, <2>3 DEF Can, Events, StatusEvents, Openers, Others
    <3>3. After(s, log) = new
      BY <2>3, AfterEvent
    <3>4. Fills(<<log>>, new)
      BY <2>3, <3>2, <3>3, OneFills DEF s
    <3> QED BY <3>1, <3>4
  <2>5. CASE ReportAndDecide(approved)
    <3> DEFINE first == Log("TransferFraudReported")
    <3> DEFINE n == GoneOn(s, InStage(s.deal, "FraudReported"))
    <3>1. Mine(<<first, log>>, new)
      BY <2>2, <2>5 DEF ReportAndDecide
    <3>2. first \in Logs /\ first.event = "TransferFraudReported"
      BY DEF Logs, Events, StatusEvents, Log
    <3>3. n.owner = s.owner /\ n.deal # Nothing /\ n.deal.to = s.deal.to
      BY <2>1, StagedFields DEF s, Statuses
    <3>4. new = IF approved THEN Ended(n, n.owner, "FraudApproved")
                            ELSE Ended(n, n.deal.to, "Finished")
      BY <2>1, <3>3, ReportedEnds DEF s
    <3> HIDE DEF log, first, n, new
    <3>5. Can(s, first) /\ StatusOf(first.event) = "FraudReported"
      BY <2>1, <3>2 DEF Can, Events, StatusEvents, Openers, Others, StatusOf
    <3>6. After(s, first) = n
      BY <3>2, <3>5, AfterEvent DEF n
    <3>7. Can(n, log)
      BY <2>1, <2>3, <3>3 DEF Can, Events, StatusEvents, Openers, Others
    <3>8. After(n, log) = new
      BY <2>3, <3>4, AfterEvent
    <3>9. /\ first.event \in Others /\ log.event \in Others
          /\ StatusOf(first.event) # StatusOf(log.event)
      BY <2>3, <3>2 DEF StatusEvents, StatusOf, Openers, Others
    <3>10. Fills(<<first, log>>, new)
      BY <2>3, <3>2, <3>5, <3>6, <3>7, <3>8, <3>9, TwoFill DEF s
    <3> QED BY <3>1, <3>10
  <2> QED BY <1>9, <2>4, <2>5
<1>10. CASE Like
  <2> DEFINE log == Log("Like")
  <2>1. s.owner # Nothing /\ Cardinality(OtherBlocks) < MaxOther /\ Mine(<<log>>, Liked(s))
    BY <1>10 DEF Like, Liked, s
  <2>2. log \in Logs /\ log.event = "Like" /\ <<log>> \in Seq(Logs)
    BY DEF Logs, Events, StatusEvents, Log
  <2>3. Liked(s).likes = s.likes + 1 /\ Liked(s).count = s.count /\ s.count \in Nat
    BY LikedOK, StateFields DEF s
  <2> HIDE DEF log
  <2>4. Can(s, log) /\ After(s, log) = Liked(s)
    BY <2>1, <2>2, AfterEvent DEF Can, Events, StatusEvents, Openers, Others
  <2>5. Leads(s, <<log>>, Liked(s))
    BY <2>4, LeadsOne
  <2>6. Fills(<<log>>, Liked(s))
    BY <2>1, <2>2, <2>3, <2>5 DEF Fills, s, log
  <2> QED BY <2>1, <2>6
<1>11. CASE EmptyBlock
  <2>1. Cardinality(OtherBlocks) < MaxOther /\ Mine(<<>>, s)
    BY <1>11 DEF EmptyBlock, s
  <2>2. <<>> \in Seq(Logs) /\ <<>> # <<Log("Like")>>
    OBVIOUS
  <2>3. Fills(<<>>, s)
    BY <1>t, <2>1, <2>2, LeadsNone DEF Fills, s
  <2> QED BY <2>1, <2>3
<1> QED BY <1>1, <1>2, <1>3, <1>4, <1>6, <1>7, <1>8, <1>9, <1>10, <1>11 DEF Chain

\* A call adds a block and a state, and the rest is as it was.
LEMMA ChainGrows ==
    ASSUME History, LikesGrow, MintedOnce, Chain
    PROVE  /\ Len(blocks') = Len(blocks) + 1 /\ Len(states') = Len(states) + 1
           /\ \A b \in 1 .. Len(blocks) : blocks'[b] = blocks[b]
           /\ \A b \in 1 .. Len(states) : states'[b] = states[b]
           /\ UNCHANGED <<tables, saved, latest, job, told, skipped>>
           /\ SubSeq(states', 1, Len(states)) = states
           /\ History' /\ LikesGrow' /\ MintedOnce'
<1>s. StateOK(State)
  BY DEF History, State
<1>1. PICK logs, new : Mine(logs, new) /\ Fills(logs, new)
  BY <1>s, CallFills
<1>2. /\ blocks' = Append(blocks, logs) /\ states' = Append(states, new)
      /\ Len(blocks) < MaxBlocks /\ UNCHANGED <<tables, saved, latest, job, told, skipped>>
  BY <1>1 DEF Mine
<1>3. logs \in Seq(Logs) /\ Leads(State, logs, new)
  BY <1>1 DEF Fills
<1>4. StateOK(new)
  <2>1. CASE Len(logs) = 0
    BY <1>s, <1>3, <2>1 DEF Leads, Partial
  <2>2. CASE Len(logs) = 1
    <3>1. Can(Partial(State, logs, 0), logs[1]) /\ new = After(State, logs[1])
      BY <1>3, <2>2 DEF Leads, Partial
    <3>2. Can(State, logs[1])
      BY <3>1 DEF Partial
    <3> QED BY <1>s, <3>1, <3>2, AfterOK
  <2>3. CASE Len(logs) = 2
    <3>1. /\ Can(Partial(State, logs, 0), logs[1]) /\ Can(Partial(State, logs, 1), logs[2])
          /\ new = After(After(State, logs[1]), logs[2])
      BY <1>3, <2>3 DEF Leads, Partial
    <3>2. Can(State, logs[1]) /\ Can(After(State, logs[1]), logs[2])
      BY <3>1 DEF Partial
    <3>3. StateOK(After(State, logs[1]))
      BY <1>s, <3>2, AfterOK
    <3> QED BY <3>1, <3>2, <3>3, AfterOK
  <2> QED BY <1>3, <2>1, <2>2, <2>3 DEF Leads
<1>5. /\ blocks \in Seq(Seq(Logs)) /\ states \in Seq(ContractStates) /\ new \in ContractStates
      /\ Len(blocks) \in Nat /\ Len(states) = Len(blocks) + 1
  BY <1>4 DEF History, StateOK
<1>6. /\ Len(blocks') = Len(blocks) + 1 /\ Len(states') = Len(states) + 1
      /\ \A b \in 1 .. Len(blocks) : blocks'[b] = blocks[b]
      /\ \A b \in 1 .. Len(states) : states'[b] = states[b]
      /\ blocks'[Len(blocks) + 1] = logs /\ states'[Len(states) + 1] = new
      /\ blocks' \in Seq(Seq(Logs)) /\ states' \in Seq(ContractStates)
  BY <1>2, <1>3, <1>5
<1>7. SubSeq(states', 1, Len(states)) = states
  BY <1>2, <1>5
<1>8. History'
  <2>1. \A b \in 1 .. Len(states') : StateOK(states'[b]) /\ states'[b].count < b
    <3> SUFFICES ASSUME NEW b \in 1 .. Len(states') PROVE StateOK(states'[b]) /\ states'[b].count < b
      OBVIOUS
    <3>1. CASE b = Len(states')
      <4>1. State.count < Len(states) /\ new.count <= State.count + 1
        BY <1>1, <1>5 DEF Fills, History, State
      <4>2. State.count \in Nat /\ new.count \in Nat
        BY <1>s, <1>4, StateFields
      <4> QED BY <1>4, <1>5, <1>6, <3>1, <4>1, <4>2
    <3>2. CASE b # Len(states')
      <4>1. b \in 1 .. Len(states)
        BY <1>5, <1>6, <3>2
      <4> QED BY <1>6, <4>1 DEF History
    <3> QED BY <3>1, <3>2
  <2>2. \A b \in 1 .. Len(blocks') : Leads(states'[b], blocks'[b], states'[b + 1])
    <3> SUFFICES ASSUME NEW b \in 1 .. Len(blocks') PROVE Leads(states'[b], blocks'[b], states'[b + 1])
      OBVIOUS
    <3>1. CASE b = Len(blocks')
      BY <1>3, <1>5, <1>6, <3>1 DEF State
    <3>2. CASE b # Len(blocks')
      <4>1. b \in 1 .. Len(blocks) /\ b \in 1 .. Len(states) /\ b + 1 \in 1 .. Len(states)
        BY <1>5, <1>6, <3>2
      <4> QED BY <1>6, <4>1 DEF History
    <3> QED BY <3>1, <3>2
  <2>3. Len(blocks') <= MaxBlocks
    BY <1>2, <1>5, <1>6, IndexerAssumption
  <2> QED BY <1>5, <1>6, <2>1, <2>2, <2>3 DEF History
<1>9. LikesGrow'
  <2> DEFINE o == OtherBlocks
  <2> DEFINE p == OtherBlocks'
  <2> DEFINE n == Len(blocks) + 1
  <2> DEFINE Other(x) == x \in {<<>>, <<Log("Like")>>}
  <2>1. o = {b \in 1 .. Len(blocks) : Other(blocks[b])}
    BY <1>5 DEF OtherBlocks
  <2>2. p = {b \in 1 .. n : Other(blocks'[b])}
    BY <1>6 DEF OtherBlocks
  <2>3. p = IF Other(logs) THEN o \cup {n} ELSE o
    <3> HIDE DEF Other
    <3> HIDE DEF o, p
    <3>1. /\ n \in Nat /\ Len(blocks) \in Nat
          /\ n \notin 1 .. Len(blocks) /\ 1 .. n = (1 .. Len(blocks)) \cup {n}
      BY <1>5
    <3>2. n \notin o /\ (n \in p <=> Other(logs))
      BY <1>6, <2>1, <2>2, <3>1
    <3>3. \A b : b # n => (b \in o <=> b \in p)
      BY <1>6, <2>1, <2>2, <3>1
    <3> QED BY <3>2, <3>3
  <2>4. IsFiniteSet(o) /\ n \notin o /\ Cardinality(o) \in Nat
    <3>1. IsFiniteSet(1 .. Len(blocks)) /\ n \notin 1 .. Len(blocks)
      BY <1>5, FS_Interval
    <3>2. o \subseteq 1 .. Len(blocks)
      BY <2>1
    <3> QED BY <3>1, <3>2, FS_Subset, FS_CardinalityType
  <2>5. Cardinality(p) = IF Other(logs) THEN Cardinality(o) + 1 ELSE Cardinality(o)
    BY <2>3, <2>4, FS_AddElement
  <2>6. Cardinality(p) <= MaxOther
    BY <1>1, <2>4, <2>5, IndexerAssumption DEF Fills, LikesGrow
  <2>7. State.likes \in Nat /\ new.likes \in Nat /\ State' = new
    BY <1>s, <1>4, <1>5, <1>6, StateFields DEF State
  <2>8. new.likes <= Cardinality(p) /\ State.likes <= new.likes
    BY <1>1, <2>4, <2>5, <2>7 DEF Fills, LikesGrow
  <2>9. ASSUME NEW b \in 1 .. Len(states'), NEW c \in 1 .. Len(states'), b <= c
        PROVE  states'[b].likes <= states'[c].likes
    <3>1. CASE c \in 1 .. Len(states)
      <4>1. b \in 1 .. Len(states)
        BY <2>9, <3>1, <1>5
      <4> QED BY <1>6, <2>9, <3>1, <4>1 DEF LikesGrow
    <3>2. CASE c = Len(states')
      <4>1. CASE b = Len(states')
        BY <1>5, <1>6, <2>7, <3>2, <4>1
      <4>2. CASE b \in 1 .. Len(states)
        <5>1. states[b].likes <= State.likes
          BY <1>5, <4>2 DEF LikesGrow, State
        <5>2. states[b].likes \in Nat
          BY <4>2, StateFields DEF History
        <5> QED BY <1>5, <1>6, <2>7, <2>8, <3>2, <4>2, <5>1, <5>2
      <4> QED BY <1>5, <1>6, <4>1, <4>2
    <3> QED BY <1>5, <1>6, <3>1, <3>2
  <2> HIDE DEF o, p
  <2>10. State'.likes <= Cardinality(OtherBlocks') /\ Cardinality(OtherBlocks') <= MaxOther
    BY <2>6, <2>7, <2>8 DEF p
  <2> QED BY <2>9, <2>10 DEF LikesGrow
<1>10. MintedOnce'
  <2>1. new.owner = Nothing => new = State
    <3> SUFFICES ASSUME new.owner = Nothing PROVE logs = <<>>
      BY <1>3 DEF Leads, Partial
    <3>1. logs # <<>> => \E s : StateOK(s) /\ new = After(s, logs[Len(logs)]) /\ Can(s, logs[Len(logs)])
      <4>1. CASE Len(logs) = 1
        <5>1. Can(Partial(State, logs, 0), logs[1]) /\ new = Partial(State, logs, 1)
          BY <1>3, <4>1 DEF Leads
        <5> QED BY <1>s, <4>1, <5>1 DEF Partial
      <4>2. CASE Len(logs) = 2
        <5>1. /\ Can(Partial(State, logs, 0), logs[1]) /\ Can(Partial(State, logs, 1), logs[2])
              /\ new = Partial(State, logs, 2)
          BY <1>3, <4>2 DEF Leads
        <5>2. Can(State, logs[1]) /\ Can(After(State, logs[1]), logs[2])
              /\ new = After(After(State, logs[1]), logs[2])
          BY <5>1 DEF Partial
        <5>3. StateOK(After(State, logs[1]))
          BY <1>s, <5>2, AfterOK
        <5> QED BY <4>2, <5>2, <5>3
      <4>3. CASE Len(logs) = 0
        BY <1>3, <4>3, EmptySeq
      <4> QED BY <1>3, <4>1, <4>2, <4>3 DEF Leads
    <3>2. ASSUME logs # <<>> PROVE FALSE
      <4>1. PICK s : StateOK(s) /\ new = After(s, logs[Len(logs)]) /\ Can(s, logs[Len(logs)])
        BY <3>1, <3>2
      <4>2. logs[Len(logs)].event = "Like" => s.owner # Nothing
        BY <4>1 DEF Can
      <4>3. new.owner # Nothing
        BY <4>1, <4>2, AfterOK, IndexerAssumption
      <4> QED BY <4>3
    <3> QED BY <3>2
  <2>2. ASSUME NEW b \in 1 .. Len(states'), NEW c \in 1 .. Len(states'), b <= c,
               states'[c].owner = Nothing
        PROVE  states'[b] = Genesis
    <3>1. CASE c \in 1 .. Len(states)
      <4>1. b \in 1 .. Len(states)
        BY <2>2, <3>1, <1>5
      <4> QED BY <1>6, <2>2, <3>1, <4>1 DEF MintedOnce
    <3>2. CASE c = Len(states')
      <4>1. new = State /\ states'[c] = new
        BY <1>5, <1>6, <2>1, <2>2, <3>2
      <4>2. State.owner = Nothing /\ Len(states) \in 1 .. Len(states)
        BY <1>5, <2>2, <4>1
      <4>3. \A d \in 1 .. Len(states) : states[d] = Genesis
        BY <4>2 DEF MintedOnce, State
      <4>4. b \in 1 .. Len(states) \/ b = c
        BY <1>5, <1>6, <3>2
      <4> QED BY <1>6, <4>1, <4>2, <4>3, <4>4 DEF State
    <3> QED BY <1>5, <1>6, <3>1, <3>2
  <2> QED BY <2>2 DEF MintedOnce
<1> QED BY <1>2, <1>6, <1>7, <1>8, <1>9, <1>10

\* A block more changes nothing of how the tables stand.
LEMMA ChainStands ==
    ASSUME IInv, Chain, NEW b \in 0 .. Len(blocks), StandsAt(b)
    PROVE  b \in 0 .. Len(blocks') /\ StandsAt(b)'
<1>1. /\ Len(blocks') = Len(blocks) + 1 /\ Len(states') = Len(states) + 1
      /\ \A c \in 1 .. Len(blocks) : blocks'[c] = blocks[c]
      /\ \A c \in 1 .. Len(states) : states'[c] = states[c]
      /\ UNCHANGED <<tables, saved, latest, job, told>>
  BY ChainGrows DEF IInv
<1>2. StandsAt(b)
  OBVIOUS
<1>t. /\ Len(blocks) \in Nat /\ Len(states) = Len(blocks) + 1
      /\ latest # Nothing => latest \in Nat
  BY DEF IInv, History, TypeInv
<1>3. b \in 0 .. Len(blocks') /\ b + 1 \in 1 .. Len(states) /\ states'[b + 1] = states[b + 1]
  BY <1>1, <1>t
<1>4. ASSUME NEW t, NEW k, k = 0 \/ b < Len(blocks)
      PROVE  Knows(blocks, t, b, k) => Knows(blocks', t, b, k)
  <2>1. \A c \in 1 .. b : blocks'[c] = blocks[c]
    BY <1>1, <1>t
  <2>2. k # 0 => blocks'[b + 1] = blocks[b + 1]
    BY <1>1, <1>4, <1>t
  <2>3. k = 0 => 1 .. k = {}
    OBVIOUS
  <2> QED BY <2>1, <2>2, <2>3 DEF Knows
<1>5. TablesStand(b)'
  BY <1>1, <1>2, <1>3, <1>4 DEF StandsAt, TablesStand
<1>6. ToldStands(b)'
  <2>1. b < Len(blocks) => b < Len(blocks') /\ blocks'[b + 1] = blocks[b + 1]
    BY <1>1, <1>t
  <2> QED BY <1>1, <1>2, <1>3, <2>1 DEF StandsAt, ToldStands
<1>7. JobStands(b)'
  <2> SUFFICES ASSUME job # Nothing PROVE JobStands(b)'
    BY <1>1 DEF JobStands
  <2>1. /\ latest # Nothing /\ latest \in Nat /\ latest < Len(blocks)
        /\ job \in [next : 1 .. Len(Block) + 1, work : Tables, committed : BOOLEAN]
        /\ job.committed => latest < b
        /\ ~job.committed /\ latest < b => RereadStands(b)
        /\ ~job.committed /\ latest = b => WorkStands(b, job.next - 1)
    BY <1>2, <1>t DEF StandsAt, JobStands
  <2>2. Block' = Block /\ latest < Len(blocks')
    BY <1>1, <1>t, <2>1 DEF Block
  <2>3. ~job.committed /\ latest < b => RereadStands(b)'
    BY <1>1, <1>3, <1>4, <2>1 DEF RereadStands
  <2>4. ~job.committed /\ latest = b => WorkStands(b, job.next - 1)'
    <3> SUFFICES ASSUME ~job.committed, latest = b PROVE WorkStands(b, job.next - 1)'
      OBVIOUS
    <3>1. blocks'[b + 1] = blocks[b + 1] /\ b < Len(blocks) /\ WorkStands(b, job.next - 1)
      BY <1>1, <1>t, <2>1
    <3> QED BY <1>1, <1>3, <1>4, <3>1 DEF WorkStands
  <2> QED BY <1>1, <2>1, <2>2, <2>3, <2>4 DEF JobStands
<1>8. StandsAt(b)'
  BY <1>5, <1>6, <1>7 DEF StandsAt
<1> QED BY <1>3, <1>8

LEMMA ChainMisses ==
    ASSUME IInv, Chain, NEW m \in 1 .. Len(blocks), MissesMint(m)
    PROVE  m \in 1 .. Len(blocks') /\ MissesMint(m)'
<1>1. /\ Len(blocks') = Len(blocks) + 1
      /\ \A c \in 1 .. Len(states) : states'[c] = states[c]
      /\ UNCHANGED <<tables, saved, latest, job, told>>
  BY ChainGrows DEF IInv
<1>2. Len(blocks) \in Nat /\ m \in 1 .. Len(states) /\ m + 1 \in 1 .. Len(states)
  BY DEF IInv, History
<1> QED BY <1>1, <1>2 DEF MissesMint

LEMMA ChainTypes == ASSUME IInv, Chain PROVE TypeInv'
<1>1. /\ Len(blocks') = Len(blocks) + 1 /\ Len(blocks) \in Nat
      /\ \A c \in 1 .. Len(blocks) : blocks'[c] = blocks[c]
      /\ UNCHANGED <<tables, saved, latest, job, told, skipped>>
  BY ChainGrows DEF IInv, History
<1>2. job # Nothing => Block' = Block
  BY <1>1 DEF IInv, TypeInv, Block
<1> QED BY <1>1, <1>2 DEF IInv, TypeInv

-----------------------------------------------------------------------------
(* What the queries make of the rows.                                      *)

LEMMA MaxIs ==
    ASSUME NEW S, NEW n \in S, \A x \in S : x \in Nat /\ x <= n
    PROVE  Max(S) = n
<1>1. \A y \in S : n >= y
  OBVIOUS
<1>2. \A x \in S : (\A y \in S : x >= y) => x = n
  OBVIOUS
<1> QED BY <1>1, <1>2 DEF Max

\* The fields of rows.
LEMMA RowFields ==
    ASSUME NEW t \in Tables
    PROVE  /\ t.transfers \in Seq(Transfers) /\ t.owner \in Addresses \cup {Nothing} /\ t.likes \in Nat
           /\ DOMAIN t.transfers = 1 .. Len(t.transfers) /\ Len(t.transfers) \in Nat
           /\ \A i \in DOMAIN t.transfers : t.transfers[i] \in Transfers
BY DEF Tables

LEMMA TransferFields ==
    ASSUME NEW r \in Transfers
    PROVE  /\ r.number \in Positions /\ r.to \in Addresses
           /\ r.statuses \in Seq([status : Statuses, tx : 1 .. MaxBlocks])
           /\ r.order \in {Nothing} \cup Seq([status : OrderStatuses, tx : 1 .. MaxBlocks])
BY DEF Transfers, Rows

LEMMA FirstRow ==
    ASSUME NEW S, NEW q \in Seq([status : S, tx : 1 .. MaxBlocks]), q # <<>>
    PROVE  Head(q).status \in S
<1>1. Head(q) \in [status : S, tx : 1 .. MaxBlocks]
  BY HeadTailProperties
<1> QED BY <1>1

\* An order has a status.
LEMMA OrderHasStatus ==
    ASSUME NEW r \in Transfers, r.order # <<>>
    PROVE  /\ LastOf(r.order) \in OrderStatuses \cup {Nothing}
           /\ LastOf(r.order) = Nothing <=> r.order = Nothing
<1>1. r.order \in {Nothing} \cup Seq([status : OrderStatuses, tx : 1 .. MaxBlocks])
  BY TransferFields
<1>2. CASE r.order = Nothing
  BY <1>2 DEF LastOf
<1>3. CASE r.order # Nothing
  <2>1. Head(r.order).status \in OrderStatuses
    BY <1>1, <1>3, FirstRow
  <2> QED BY <1>3, <2>1, NothingAssumption DEF LastOf
<1> QED BY <1>2, <1>3

IsActive(r) == Head(r.statuses).status \notin {"Finished", "Cancelled"}

LEMMA ActiveRows ==
    ASSUME NEW t, NEW n, NEW i \in DOMAIN t.transfers, Active(t) = n
    PROVE  i \in n <=> IsActive(t.transfers[i])
BY DEF Active, IsActive

\* The tables t with the transfer r at n, the owner o and the tie e.
Put(t, n, r, o, e) == [t EXCEPT !.transfers[n] = r, !.owner = o, !.tied = e]
Added(t, r) == [t EXCEPT !.transfers = Append(t.transfers, r)]

\* The tables p are t with the row n become r and the owner o.
Puts(p, t, n, r, o) ==
    /\ p \in Tables /\ p.owner = o /\ p.likes = t.likes
    /\ DOMAIN p.transfers = DOMAIN t.transfers /\ Len(p.transfers) = Len(t.transfers)
    /\ p.transfers[n] = r
    /\ \A i \in DOMAIN t.transfers : i # n => p.transfers[i] = t.transfers[i]

LEMMA PutFields ==
    ASSUME NEW t \in Tables, NEW n \in DOMAIN t.transfers, NEW r \in Transfers,
           NEW o \in Addresses \cup {Nothing}, NEW e \in BOOLEAN
    PROVE  Puts(Put(t, n, r, o, e), t, n, r, o)
<1> DEFINE p == Put(t, n, r, o, e)
<1> DEFINE q == [t.transfers EXCEPT ![n] = r]
<1>1. p.transfers = q /\ p.owner = o /\ p.likes = t.likes
  BY DEF Put, Tables
<1>2. q \in Seq(Transfers) /\ Len(q) = Len(t.transfers) /\ DOMAIN q = DOMAIN t.transfers
  BY RowFields
<1>3. q[n] = r /\ \A i \in DOMAIN t.transfers : i # n => q[i] = t.transfers[i]
  BY RowFields
<1>4. p \in Tables
  BY <1>2 DEF Put, Tables
<1> HIDE DEF p
<1> QED BY <1>1, <1>2, <1>3, <1>4 DEF Puts, p

LEMMA AddedFields ==
    ASSUME NEW t \in Tables, NEW r \in Transfers
    PROVE  LET p == Added(t, r)
               n == Len(t.transfers) + 1
           IN  /\ p \in Tables /\ p.owner = t.owner /\ p.likes = t.likes
               /\ DOMAIN p.transfers = 1 .. n /\ Len(p.transfers) = n
               /\ p.transfers[n] = r
               /\ \A i \in 1 .. n : i # n => p.transfers[i] = t.transfers[i]
<1> DEFINE p == Added(t, r)
<1> DEFINE q == Append(t.transfers, r)
<1> DEFINE n == Len(t.transfers) + 1
<1>1. p.transfers = q /\ p.owner = t.owner /\ p.likes = t.likes
  BY DEF Added, Tables
<1>2. q \in Seq(Transfers) /\ Len(q) = n /\ DOMAIN q = 1 .. n
  BY RowFields
<1>3. q[n] = r /\ \A i \in 1 .. n : i # n => q[i] = t.transfers[i]
  BY RowFields
<1>4. p \in Tables
  BY <1>2 DEF Added, Tables
<1> QED BY <1>1, <1>2, <1>3, <1>4

LEMMA LastSale ==
    ASSUME NEW t, NEW m \in Sales(t), \A i \in Sales(t) : i \in Nat /\ i <= m
    PROVE  Outcome(t) = LastOf(t.transfers[m].order) /\ HasLast(Sales(t))
<1>1. Max(Sales(t)) = m
  BY MaxIs
<1>2. Sales(t) # {}
  OBVIOUS
<1> QED BY <1>1, <1>2 DEF Outcome, HasLast

\* Tables with the same sales have the same outcome.
LEMMA SameSales ==
    ASSUME NEW t, NEW p, Sales(p) = Sales(t), HasLast(Sales(t)),
           \A i \in Sales(t) : i \in Nat /\ p.transfers[i] = t.transfers[i]
    PROVE  Outcome(p) = Outcome(t) /\ HasLast(Sales(p))
<1>1. CASE Sales(t) = {}
  BY <1>1 DEF Outcome, HasLast
<1>2. CASE Sales(t) # {}
  <2>1. PICK m \in Sales(t) : \A i \in Sales(t) : i <= m
    BY <1>2 DEF HasLast
  <2>2. Outcome(t) = LastOf(t.transfers[m].order)
    BY <2>1, LastSale
  <2>3. Outcome(p) = LastOf(p.transfers[m].order) /\ HasLast(Sales(p))
    BY <2>1, LastSale
  <2> QED BY <2>1, <2>2, <2>3
<1> QED BY <1>1, <1>2

\* The row of the open deal, and what is known of it.
LEMMA OpenRow ==
    ASSUME NEW t, NEW s, StateOK(s), Stands(t, s), s.deal # Nothing
    PROVE  LET r == t.transfers[s.count]
           IN  /\ s.count \in DOMAIN t.transfers /\ s.count = Len(t.transfers)
               /\ Active(t) = {s.count} /\ IsActive(r)
               /\ r \in Transfers /\ r.statuses # <<>> /\ r.order # <<>>
               /\ r.number = s.deal.number /\ r.to = s.deal.to /\ Head(r.statuses).status = s.deal.status
               /\ (r.order = Nothing <=> s.deal.order = Nothing) /\ LastOf(r.order) = s.deal.order
<1> DEFINE r == t.transfers[s.count]
<1>1. Active(t) = {s.count} /\ s.count = Len(t.transfers) /\ t \in Tables /\ DealOf(r) = s.deal
  BY DEF Stands
<1>2. s.count \in DOMAIN t.transfers
  BY <1>1 DEF Active
<1>3. r \in Transfers /\ r.statuses # <<>> /\ r.order # <<>>
  BY <1>1, <1>2, RowFields DEF Stands
<1>4. IsActive(r)
  BY <1>1, <1>2, ActiveRows
<1>5. /\ r.number = s.deal.number /\ r.to = s.deal.to /\ Head(r.statuses).status = s.deal.status
      /\ LastOf(r.order) = s.deal.order
  BY <1>1 DEF DealOf
<1>6. r.order = Nothing <=> s.deal.order = Nothing
  BY <1>3, <1>5, OrderHasStatus
<1> QED BY <1>1, <1>2, <1>3, <1>4, <1>5, <1>6

\* Which sales there are after the row of the open deal has become r.
LEMMA PutSales ==
    ASSUME NEW t \in Tables, NEW n \in DOMAIN t.transfers, Active(t) = {n}, NEW r, NEW o,
           NEW p, Puts(p, t, n, r, o)
    PROVE  /\ Active(p) = IF IsActive(r) THEN {n} ELSE {}
           /\ n \notin Sales(t) /\ Sales(t) \subseteq DOMAIN t.transfers
           /\ Sales(p) = IF ~IsActive(r) /\ r.order # Nothing THEN Sales(t) \cup {n} ELSE Sales(t)
<1>1. /\ DOMAIN p.transfers = DOMAIN t.transfers /\ p.transfers[n] = r
      /\ \A i \in DOMAIN t.transfers : i # n => p.transfers[i] = t.transfers[i]
  BY DEF Puts
<1>2. \A i \in DOMAIN t.transfers : i # n => ~IsActive(t.transfers[i])
  BY ActiveRows
<1>3. Active(p) = IF IsActive(r) THEN {n} ELSE {}
  <2>1. Active(p) = {i \in DOMAIN p.transfers : IsActive(p.transfers[i])}
    BY DEF Active, IsActive
  <2> QED BY <1>1, <1>2, <2>1
<1>4. n \notin Sales(t) /\ Sales(t) \subseteq DOMAIN t.transfers
  BY DEF Sales
<1>5. Sales(p) = IF ~IsActive(r) /\ r.order # Nothing THEN Sales(t) \cup {n} ELSE Sales(t)
  <2>1. Sales(t) = {i \in DOMAIN t.transfers \ {n} : t.transfers[i].order # Nothing}
    BY DEF Sales
  <2>2. Sales(p) = {i \in DOMAIN p.transfers \ Active(p) : p.transfers[i].order # Nothing}
    BY DEF Sales
  <2>3. CASE IsActive(r)
    BY <1>1, <1>3, <2>1, <2>2, <2>3
  <2>4. CASE ~IsActive(r) /\ r.order = Nothing
    BY <1>1, <1>3, <2>1, <2>2, <2>4
  <2>5. CASE ~IsActive(r) /\ r.order # Nothing
    BY <1>1, <1>3, <2>1, <2>2, <2>5
  <2> QED BY <2>3, <2>4, <2>5
<1> QED BY <1>3, <1>4, <1>5

\* The row of the open deal becomes r, and the state z, while the deal goes on ...
LEMMA GoesOn ==
    ASSUME NEW t, NEW s, StateOK(s), Stands(t, s), s.deal # Nothing,
           NEW r \in Transfers, r.statuses # <<>>, r.order # <<>>, IsActive(r),
           NEW z, z.owner = s.owner, z.count = s.count, z.deal = DealOf(r),
           z.outcome = s.outcome, z.likes = s.likes,
           NEW p, Puts(p, t, s.count, r, s.owner)
    PROVE  Stands(p, z)
<1> DEFINE n == s.count
<1>1. n \in DOMAIN t.transfers /\ n = Len(t.transfers) /\ Active(t) = {n} /\ t \in Tables
  BY OpenRow DEF Stands
<1>d. z.deal # Nothing
  <2>1. DealOf(r) \in Deals
    <3>1. r.number \in Nat /\ r.to \in Addresses
      BY TransferFields DEF Positions
    <3>2. Head(r.statuses).status \in Statuses
      BY TransferFields, FirstRow
    <3>3. LastOf(r.order) \in OrderStatuses \cup {Nothing}
      BY OrderHasStatus
    <3> QED BY <3>1, <3>2, <3>3 DEF DealOf, Deals
  <2> QED BY <2>1, NothingAssumption
<1>3. /\ p \in Tables /\ p.owner = s.owner /\ p.likes = t.likes
      /\ DOMAIN p.transfers = DOMAIN t.transfers /\ Len(p.transfers) = n /\ p.transfers[n] = r
      /\ \A i \in DOMAIN t.transfers : i # n => p.transfers[i] = t.transfers[i]
  BY <1>1 DEF Puts
<1>4. Active(p) = {n} /\ n \notin Sales(t) /\ Sales(t) \subseteq DOMAIN t.transfers /\ Sales(p) = Sales(t)
  BY <1>1, PutSales
<1>5. \A i \in Sales(t) : i \in Nat /\ p.transfers[i] = t.transfers[i]
  BY <1>1, <1>3, <1>4, RowFields
<1>6. Outcome(p) = s.outcome /\ HasLast(Sales(p))
  BY <1>4, <1>5, SameSales DEF Stands
<1>7. \A i \in DOMAIN p.transfers : p.transfers[i].statuses # <<>> /\ p.transfers[i].order # <<>>
  BY <1>3 DEF Stands
<1>8. t.likes >= z.likes
  BY DEF Stands
<1> QED BY <1>d, <1>3, <1>4, <1>6, <1>7, <1>8 DEF Stands

\* ... and when it ends.
LEMMA ComesToEnd ==
    ASSUME NEW t, NEW s, StateOK(s), Stands(t, s), s.deal # Nothing,
           NEW r \in Transfers, r.statuses # <<>>, r.order # <<>>, ~IsActive(r),
           r.order = Nothing <=> s.deal.order = Nothing, NEW o \in Users,
           NEW z, z.owner = o, z.count = s.count, z.deal = Nothing,
           z.outcome = IF r.order = Nothing THEN s.outcome ELSE LastOf(r.order), z.likes = s.likes,
           NEW p, Puts(p, t, s.count, r, o)
    PROVE  Stands(p, z)
<1> DEFINE n == s.count
<1>1. n \in DOMAIN t.transfers /\ n = Len(t.transfers) /\ Active(t) = {n} /\ t \in Tables
  BY OpenRow DEF Stands
<1>3. /\ p \in Tables /\ p.owner = o /\ p.likes = t.likes
      /\ DOMAIN p.transfers = DOMAIN t.transfers /\ Len(p.transfers) = n /\ p.transfers[n] = r
      /\ \A i \in DOMAIN t.transfers : i # n => p.transfers[i] = t.transfers[i]
  BY <1>1 DEF Puts
<1>4. /\ Active(p) = {} /\ n \notin Sales(t) /\ Sales(t) \subseteq DOMAIN t.transfers
      /\ Sales(p) = IF r.order # Nothing THEN Sales(t) \cup {n} ELSE Sales(t)
  <2>1. /\ Active(p) = IF IsActive(r) THEN {n} ELSE {}
        /\ n \notin Sales(t) /\ Sales(t) \subseteq DOMAIN t.transfers
        /\ Sales(p) = IF ~IsActive(r) /\ r.order # Nothing THEN Sales(t) \cup {n} ELSE Sales(t)
    BY <1>1, PutSales
  <2> QED BY <2>1
<1>5. \A i \in Sales(t) : i \in Nat /\ i <= n /\ p.transfers[i] = t.transfers[i]
  BY <1>1, <1>3, <1>4, RowFields
<1>6. Outcome(p) = z.outcome /\ HasLast(Sales(p))
  <2>1. CASE r.order = Nothing
    BY <1>4, <1>5, <2>1, SameSales DEF Stands
  <2>2. CASE r.order # Nothing
    <3>1. n \in Sales(p) /\ \A i \in Sales(p) : i \in Nat /\ i <= n
      BY <1>1, <1>4, <1>5, <2>2, RowFields
    <3> QED BY <1>3, <2>2, <3>1, LastSale
  <2> QED BY <2>1, <2>2
<1>7. \A i \in DOMAIN p.transfers : p.transfers[i].statuses # <<>> /\ p.transfers[i].order # <<>>
  BY <1>3 DEF Stands
<1>8. t.likes >= z.likes
  BY DEF Stands
<1> QED BY <1>3, <1>4, <1>6, <1>7, <1>8 DEF Stands

\* A row for a deal that begins.
LEMMA Begins ==
    ASSUME NEW t, NEW s, StateOK(s), Stands(t, s), s.deal = Nothing,
           NEW r \in Transfers, r.statuses # <<>>, r.order # <<>>, IsActive(r),
           NEW z, z.owner = s.owner, z.count = s.count + 1, z.deal = DealOf(r), z.deal # Nothing,
           z.outcome = s.outcome, z.likes = s.likes
    PROVE  Stands(Added(t, r), z)
<1> DEFINE n == s.count + 1
<1> DEFINE p == Added(t, r)
<1>1. Active(t) = {} /\ t \in Tables /\ s.count = Len(t.transfers)
  BY DEF Stands
<1> HIDE DEF p
<1>2. s.count \in Nat /\ DOMAIN t.transfers = 1 .. s.count
  BY <1>1, RowFields
<1>3. /\ p \in Tables /\ p.owner = s.owner /\ p.likes = t.likes
      /\ DOMAIN p.transfers = 1 .. n /\ Len(p.transfers) = n /\ p.transfers[n] = r
      /\ \A i \in 1 .. n : i # n => p.transfers[i] = t.transfers[i]
  BY <1>1, AddedFields DEF p, Stands
<1>i. \A i : i \in 1 .. n <=> i = n \/ i \in 1 .. s.count
  BY <1>2
<1>k. n \notin 1 .. s.count
  BY <1>2
<1> HIDE DEF n
<1>4. Active(p) = {n}
  <2>1. Active(p) = {i \in DOMAIN p.transfers : IsActive(p.transfers[i])}
    BY DEF Active, IsActive
  <2>2. \A i \in 1 .. s.count : ~IsActive(t.transfers[i])
    BY <1>1, <1>2, ActiveRows
  <2> QED BY <1>2, <1>3, <1>i, <1>k, <2>1, <2>2
<1>5. Sales(p) = Sales(t) /\ Sales(t) \subseteq 1 .. s.count
  <2>1. Sales(t) = {i \in 1 .. s.count : t.transfers[i].order # Nothing}
    BY <1>1, <1>2 DEF Sales
  <2>2. Sales(p) = {i \in (1 .. n) \ {n} : p.transfers[i].order # Nothing}
    BY <1>3, <1>4 DEF Sales
  <2> QED BY <1>3, <1>i, <1>k, <2>1, <2>2
<1>6. \A i \in Sales(t) : i \in Nat /\ p.transfers[i] = t.transfers[i]
  BY <1>2, <1>3, <1>5, <1>i, <1>k
<1>7. Outcome(p) = s.outcome /\ HasLast(Sales(p))
  BY <1>5, <1>6, SameSales DEF Stands
<1>8. \A i \in DOMAIN p.transfers : p.transfers[i].statuses # <<>> /\ p.transfers[i].order # <<>>
  BY <1>2, <1>3, <1>i, <1>k DEF Stands
<1>9. t.likes >= z.likes
  BY DEF Stands
<1>10. z.count = n
  BY DEF n
<1> QED BY <1>3, <1>4, <1>7, <1>8, <1>9, <1>10 DEF Stands, p

-----------------------------------------------------------------------------
(* What the handlers write.                                                *)

TimedRows == [status : Statuses, tx : 1 .. MaxBlocks]

\* A transfer with one more status, and with one more status of its order.
Staged(r, row) == [r EXCEPT !.statuses = <<row>> \o r.statuses]
Ordered(r, row) ==
    IF r.order = Nothing THEN r ELSE [r EXCEPT !.order = <<row>> \o r.order]

\* A row before others.
LEMMA RowAdded ==
    ASSUME NEW S, NEW row \in S, NEW rows \in Seq(S)
    PROVE  LET q == <<row>> \o rows
           IN  /\ q \in Seq(S) /\ q # <<>> /\ Head(q) = row
               /\ \A x : InRows(q, x) <=> x = row \/ InRows(rows, x)
<1> DEFINE q == <<row>> \o rows
<1>1. q \in Seq(S) /\ Len(q) = Len(rows) + 1 /\ Len(rows) \in Nat /\ q[1] = row
  OBVIOUS
<1>2. \A i \in 1 .. Len(rows) : q[i + 1] = rows[i]
  OBVIOUS
<1> HIDE DEF q
<1>3. q # <<>> /\ Head(q) = row
  BY <1>1, EmptySeq
<1>4. ASSUME NEW x PROVE InRows(q, x) <=> x = row \/ InRows(rows, x)
  <2>1. CASE InRows(q, x)
    <3>1. PICK j \in 1 .. Len(q) : q[j] = x
      BY <1>1, <2>1 DEF InRows
    <3>2. CASE j = 1
      BY <1>1, <2>1, <3>1, <3>2
    <3>3. CASE j # 1
      <4>1. j - 1 \in 1 .. Len(rows) /\ q[(j - 1) + 1] = rows[j - 1]
        BY <1>1, <1>2, <3>1, <3>3
      <4> QED BY <2>1, <3>1, <4>1 DEF InRows
    <3> QED BY <3>2, <3>3
  <2>2. CASE x = row
    <3>1. 1 \in DOMAIN q
      BY <1>1
    <3> QED BY <1>1, <2>2, <3>1 DEF InRows
  <2>3. CASE InRows(rows, x)
    <3>1. PICK j \in 1 .. Len(rows) : rows[j] = x
      BY <2>3 DEF InRows
    <3>2. j + 1 \in DOMAIN q /\ q[j + 1] = x
      BY <1>1, <1>2, <3>1
    <3> QED BY <2>3, <3>2 DEF InRows
  <2> QED BY <2>1, <2>2, <2>3
<1> QED BY <1>1, <1>3, <1>4 DEF q

LEMMA StagedRow ==
    ASSUME NEW r \in Transfers, NEW row \in TimedRows
    PROVE  LET q == Staged(r, row)
           IN  /\ q \in Transfers /\ q.number = r.number /\ q.to = r.to /\ q.order = r.order
               /\ q.statuses # <<>> /\ Head(q.statuses) = row
               /\ \A x : InRows(q.statuses, x) <=> x = row \/ InRows(r.statuses, x)
<1> DEFINE rows == <<row>> \o r.statuses
<1>1. r.statuses \in Seq(TimedRows)
  BY TransferFields DEF TimedRows
<1>2. /\ rows \in Seq(TimedRows) /\ rows # <<>> /\ Head(rows) = row
      /\ \A x : InRows(rows, x) <=> x = row \/ InRows(r.statuses, x)
  BY <1>1, RowAdded
<1>3. Staged(r, row) = [r EXCEPT !.statuses = rows]
  BY DEF Staged
<1> HIDE DEF rows
<1> QED BY <1>2, <1>3 DEF Transfers, Rows, TimedRows

LEMMA OrderedRow ==
    ASSUME NEW r \in Transfers, NEW row \in [status : OrderStatuses, tx : 1 .. MaxBlocks], r.order # <<>>
    PROVE  LET q == Ordered(r, row)
           IN  /\ q \in Transfers /\ q.number = r.number /\ q.to = r.to
               /\ q.statuses = r.statuses /\ q.order # <<>>
               /\ (q.order = Nothing <=> r.order = Nothing)
               /\ LastOf(q.order) = IF r.order = Nothing THEN Nothing ELSE row.status
<1>1. CASE r.order = Nothing
  BY <1>1 DEF Ordered, LastOf
<1>2. CASE r.order # Nothing
  <2> DEFINE rows == <<row>> \o r.order
  <2>1. r.order \in Seq([status : OrderStatuses, tx : 1 .. MaxBlocks])
    BY <1>2, TransferFields
  <2>2. rows \in Seq([status : OrderStatuses, tx : 1 .. MaxBlocks]) /\ rows # <<>> /\ Head(rows) = row
    BY <2>1, RowAdded
  <2>3. Ordered(r, row) = [r EXCEPT !.order = rows]
    BY <1>2 DEF Ordered
  <2>4. rows # Nothing
    BY <2>2, NothingAssumption DEF Rows
  <2> HIDE DEF rows
  <2> QED BY <1>2, <2>2, <2>3, <2>4 DEF Transfers, Rows, LastOf
<1> QED BY <1>1, <1>2

\* The rows of one list are those of another and one more.
GainsRow(rows, others, row) == \A x : InRows(rows, x) <=> x = row \/ InRows(others, x)

\* The rows of the tables.
LEMMA PutRows ==
    ASSUME NEW t, NEW n \in DOMAIN t.transfers, NEW r, NEW o, NEW p, Puts(p, t, n, r, o), NEW row,
           GainsRow(r.statuses, t.transfers[n].statuses, row)
    PROVE  \A x : HasRow(p, x) <=> x = row \/ HasRow(t, x)
<1>1. /\ DOMAIN p.transfers = DOMAIN t.transfers /\ p.transfers[n] = r
      /\ \A i \in DOMAIN t.transfers : i # n => p.transfers[i] = t.transfers[i]
  BY DEF Puts
<1>2. ASSUME NEW x PROVE HasRow(p, x) <=> x = row \/ HasRow(t, x)
  BY <1>1 DEF HasRow, GainsRow
<1> QED BY <1>2

LEMMA AddedRows ==
    ASSUME NEW t \in Tables, NEW r \in Transfers, NEW row, r.statuses = <<row>>
    PROVE  \A x : HasRow(Added(t, r), x) <=> x = row \/ HasRow(t, x)
<1> DEFINE p == Added(t, r)
<1> DEFINE n == Len(t.transfers) + 1
<1>1. /\ DOMAIN p.transfers = 1 .. n /\ p.transfers[n] = r
      /\ \A i \in 1 .. n : i # n => p.transfers[i] = t.transfers[i]
  BY AddedFields
<1>2. /\ DOMAIN t.transfers = 1 .. Len(t.transfers)
      /\ \A i : i \in 1 .. n <=> i = n \/ i \in 1 .. Len(t.transfers)
      /\ n \notin 1 .. Len(t.transfers)
  BY RowFields
<1>3. \A x : InRows(r.statuses, x) <=> x = row
  BY DEF InRows
<1> HIDE DEF p, n
<1>4. ASSUME NEW x PROVE HasRow(p, x) <=> x = row \/ HasRow(t, x)
  BY <1>1, <1>2, <1>3 DEF HasRow
<1> QED BY <1>4 DEF p

\* Messages of an open deal and of none.
LEMMA OpenTold ==
    ASSUME NEW o, NEW r \in Transfers, NEW z, z.owner = o, z.deal = DealOf(r), z.deal # Nothing
    PROVE  Tells(MessageOf(o, r), z)
BY NothingAssumption DEF Tells, MessageOf, DealOf

LEMMA EndTold ==
    ASSUME NEW o, NEW r \in Transfers \cup {Nothing}, NEW z, z.owner = o, z.deal = Nothing,
           r # Nothing => Head(r.statuses).status = "Finished"
    PROVE  Tells(MessageOf(o, r), z)
BY DEF Tells, MessageOf

-----------------------------------------------------------------------------
(* The handlers, for a log that is read for the first time.                *)

Row(log, b) == [status |-> StatusOf(log.event), tx |-> b]

\* From the tables t, which stand at s, a log of block b leads to w and the
\* message m.
Wrote(t, s, log, b, w, m) ==
    /\ Stands(w, After(s, log))
    /\ \A x : HasRow(w, x) <=> HasRow(t, x) \/ (log.event \in StatusEvents /\ x = Row(log, b))
    /\ Tells(m, After(s, log)) /\ m.owner \in Users

\* The handler has done so.
Handled(s) ==
    \E w : /\ job' = [job EXCEPT !.next = job.next + 1, !.work = w]
           /\ Wrote(job.work, s, CurrentLog, latest + 1, w, told')
           /\ UNCHANGED <<blocks, states, tables, saved, latest>>

\* A log that can be handled: its transaction has not given its status yet.
IsFresh(s) ==
    /\ job # Nothing /\ latest \in Nat /\ latest + 1 \in 1 .. MaxBlocks
    /\ StateOK(s) /\ Stands(job.work, s) /\ s.count + 1 \in 1 .. MaxBlocks
    /\ Can(s, CurrentLog)
    /\ CurrentLog.event \in StatusEvents => ~HasRow(job.work, Row(CurrentLog, latest + 1))

LEMMA Exists ==
    ASSUME NEW status
    PROVE  TransferTxExists(status) <=> HasRow(job.work, Now(status))
BY DEF TransferTxExists, HasRow, InRows

\* The token is minted.
LEMMA MintWrites ==
    ASSUME NEW s, IsFresh(s), OnCollectionTransfer, ~PassOver
    PROVE  Handled(s)
<1> DEFINE t == job.work
<1> DEFINE log == CurrentLog
<1> DEFINE w == [t EXCEPT !.owner = log.to]
<1> DEFINE z == After(s, log)
<1>1. /\ log.event = "Transfer" /\ log.to \in Users /\ s.owner = Nothing
      /\ Stands(t, s) /\ t.owner = Nothing /\ StateOK(s)
  BY DEF OnCollectionTransfer, Handling, IsFresh, Can, Stands
<1>2. /\ job' = [job EXCEPT !.next = job.next + 1, !.work = w]
      /\ told' = MessageOf(log.to, Nothing)
      /\ UNCHANGED <<blocks, states, tables, saved, latest>>
  BY <1>1 DEF OnCollectionTransfer, Done
<1> HIDE DEF log
<1>3. z = Minted(s, log.to)
  BY <1>1, AfterEvent
<1>4. /\ s.deal = Nothing /\ z.owner = log.to /\ z.count = s.count /\ z.deal = Nothing
      /\ z.outcome = s.outcome /\ z.likes = s.likes
  BY <1>1, <1>3, MintedOK
<1>5. w \in Tables /\ w.owner = log.to /\ w.transfers = t.transfers /\ w.likes = t.likes
  BY <1>1 DEF Stands, Tables, Addresses
<1> HIDE DEF t, w, z
<1>6. Active(w) = Active(t) /\ Sales(w) = Sales(t) /\ Outcome(w) = Outcome(t)
  BY <1>5 DEF Active, Sales, Outcome
<1>7. Stands(w, z)
  BY <1>1, <1>4, <1>5, <1>6 DEF Stands
<1>8. \A x : HasRow(w, x) <=> HasRow(t, x)
  BY <1>5 DEF HasRow
<1>9. Tells(told', z) /\ told'.owner \in Users
  BY <1>1, <1>2, <1>4, EndTold DEF MessageOf
<1> QED BY <1>1, <1>2, <1>7, <1>8, <1>9 DEF Handled, Wrote, StatusEvents, log, t, z

\* A transfer or an order begins.
LEMMA BeginningWrites ==
    ASSUME NEW s, IsFresh(s), OnTransferInit \/ OnTransferDraft
    PROVE  Handled(s)
<1> DEFINE t == job.work
<1> DEFINE log == CurrentLog
<1> DEFINE z == After(s, log)
<1> DEFINE row == Row(log, latest + 1)
<1>1. /\ log.event \in Openers /\ log.number = s.count + 1 /\ s.owner # Nothing /\ s.deal = Nothing
      /\ log.event = "TransferInit" => log.to \in Users
      /\ t \in Tables /\ Stands(t, s) /\ StateOK(s) /\ t.owner = s.owner
      /\ ~HasRow(t, row) /\ s.count + 1 \in Positions /\ latest + 1 \in 1 .. MaxBlocks
      /\ s.owner \in Users /\ s.count \in Nat
  BY StateFields
     DEF OnTransferInit, OnTransferDraft, Handling, IsFresh, Can, Stands, Openers, StatusEvents, Positions
<1>2. ASSUME NEW r \in Transfers, r.statuses = <<row>>, r.order # <<>>, row.status \in Statuses,
             IsActive(r), z = Opened(s, DealOf(r)), DealOf(r) \in Deals,
             StateOK(z), z.owner = s.owner, z.count = s.count + 1, z.deal = DealOf(r),
             z.outcome = s.outcome, z.likes = s.likes, Insert(r)
      PROVE  Handled(s)
  <2> DEFINE w == Added(t, r)
  <2>1. /\ job' = [job EXCEPT !.next = job.next + 1, !.work = w]
        /\ told' = MessageOf(t.owner, r)
        /\ UNCHANGED <<blocks, states, tables, saved, latest>>
    BY <1>2 DEF Insert, Done, Added
  <2>2. z.deal # Nothing /\ r.statuses # <<>>
    BY <1>2, NothingAssumption
  <2> HIDE DEF t, log, z, row
  <2>3. Stands(w, z)
    BY <1>1, <1>2, <2>2, Begins
  <2>4. \A x : HasRow(w, x) <=> x = row \/ HasRow(t, x)
    BY <1>1, <1>2, AddedRows
  <2>5. Tells(told', z)
    BY <1>1, <1>2, <2>1, <2>2, OpenTold
  <2>6. told'.owner \in Users
    BY <1>1, <2>1 DEF MessageOf
  <2> HIDE DEF w
  <2>7. log.event \in StatusEvents
    BY <1>1 DEF Openers, StatusEvents
  <2> QED BY <2>1, <2>3, <2>4, <2>5, <2>6, <2>7 DEF Handled, Wrote, log, t, z, row
<1>3. CASE OnTransferInit
  <2>1. log.event = "TransferInit" /\ log.to \in Users
    BY <1>1, <1>3 DEF OnTransferInit, Handling
  <2>2. row = Now("Created")
    BY <2>1 DEF Row, StatusOf, Now
  <2> DEFINE r == [number |-> log.number, to |-> log.to, statuses |-> <<row>>, order |-> Nothing]
  <2>3. Insert(r)
    BY <1>1, <1>3, <2>2, Exists DEF OnTransferInit, Passes, Unknown
  <2> HIDE DEF log
  <2>4. row \in TimedRows /\ row.status = "Created"
    BY <1>1, <2>2 DEF Now, TimedRows, Statuses
  <2> HIDE DEF row
  <2>n. Nothing # <<>>
    <3>1. <<>> \in Rows(OrderStatuses)
      BY DEF Rows
    <3> QED BY <3>1, NothingAssumption
  <2>5. r \in Transfers /\ r.statuses = <<row>> /\ r.order # <<>>
    BY <1>1, <2>1, <2>4, <2>n DEF Transfers, Rows, TimedRows, Addresses
  <2>6. IsActive(r) /\ DealOf(r) = Direct(s, log.to)
    BY <1>1, <2>4 DEF IsActive, DealOf, Direct, LastOf
  <2> HIDE DEF r
  <2>7. z = Opened(s, DealOf(r))
    BY <2>1, <2>6, AfterEvent
  <2>8. /\ DealOf(r) \in Deals /\ DealOf(r).status # "Drafted" /\ DealOf(r).to \in Users
    BY <1>1, <2>1, <2>6, DirectType
  <2>9. /\ StateOK(z) /\ z.owner = s.owner /\ z.count = s.count + 1 /\ z.deal = DealOf(r)
        /\ z.outcome = s.outcome /\ z.likes = s.likes
    BY <1>1, <2>7, <2>8, OpenedOK
  <2> QED BY <1>2, <2>3, <2>4, <2>5, <2>6, <2>7, <2>8, <2>9 DEF Statuses
<1>4. CASE OnTransferDraft
  <2>1. log.event = "TransferDraft"
    BY <1>1, <1>4 DEF OnTransferDraft, Handling
  <2>2. row = Now("Drafted")
    BY <2>1 DEF Row, StatusOf, Now
  <2> DEFINE order == <<Now("Created")>>
  <2> DEFINE r == [number |-> log.number, to |-> ZeroAddress, statuses |-> <<row>>, order |-> order]
  <2>3. Insert(r)
    BY <1>1, <1>4, <2>2, Exists DEF OnTransferDraft, Passes, Unknown
  <2> HIDE DEF log
  <2>4. row \in TimedRows /\ row.status = "Drafted"
    BY <1>1, <2>2 DEF Now, TimedRows, Statuses
  <2>o. /\ order \in Seq([status : OrderStatuses, tx : 1 .. MaxBlocks]) /\ order # <<>>
        /\ Head(order).status = "Created"
    <3>1. Now("Created") \in [status : OrderStatuses, tx : 1 .. MaxBlocks]
      BY <1>1 DEF Now, OrderStatuses
    <3>2. Now("Created").status = "Created"
      BY DEF Now
    <3> QED BY <3>1, <3>2
  <2> HIDE DEF row, order
  <2>p. order # Nothing
    BY <2>o, NothingAssumption DEF Rows
  <2>5. r \in Transfers /\ r.statuses = <<row>> /\ r.order # <<>>
    BY <1>1, <2>1, <2>4, <2>o DEF Transfers, Rows, TimedRows, Addresses
  <2>6. IsActive(r) /\ DealOf(r) = Draft(s)
    BY <1>1, <2>4, <2>o, <2>p DEF IsActive, DealOf, Draft, LastOf
  <2> HIDE DEF r
  <2>7. z = Opened(s, DealOf(r))
    BY <2>1, <2>6, AfterEvent
  <2>8. /\ DealOf(r) \in Deals /\ DealOf(r).status = "Drafted" /\ DealOf(r).order # Nothing
    BY <1>1, <2>1, <2>6, DraftType
  <2>9. /\ StateOK(z) /\ z.owner = s.owner /\ z.count = s.count + 1 /\ z.deal = DealOf(r)
        /\ z.outcome = s.outcome /\ z.likes = s.likes
    BY <1>1, <2>7, <2>8, OpenedOK
  <2> QED BY <1>2, <2>3, <2>4, <2>5, <2>6, <2>7, <2>8, <2>9 DEF Statuses
<1> QED BY <1>3, <1>4

\* The deal goes on: the row of the open deal becomes r.
LEMMA GoingWrites ==
    ASSUME NEW s, IsFresh(s), s.deal # Nothing, CurrentLog.event \in StatusEvents,
           NEW r \in Transfers, r.statuses # <<>>, r.order # <<>>, IsActive(r),
           \A x : InRows(r.statuses, x) <=> \/ x = Row(CurrentLog, latest + 1)
                                            \/ InRows(job.work.transfers[s.count].statuses, x),
           DealOf(r).status # "Drafted", DealOf(r).to \in Users, DealOf(r) \in Deals,
           After(s, CurrentLog) = GoneOn(s, DealOf(r)),
           Becomes(s.count, r, job.work.owner, r)
    PROVE  Handled(s)
<1> DEFINE t == job.work
<1> DEFINE z == After(s, CurrentLog)
<1> DEFINE row == Row(CurrentLog, latest + 1)
<1>e. PICK e \in BOOLEAN :
        Done([t EXCEPT !.transfers[s.count] = r, !.owner = t.owner, !.tied = e], MessageOf(t.owner, r))
  BY DEF Becomes, Ties
<1> DEFINE w == Put(t, s.count, r, t.owner, e)
<1>1. /\ job' = [job EXCEPT !.next = job.next + 1, !.work = w]
      /\ told' = MessageOf(t.owner, r)
      /\ UNCHANGED <<blocks, states, tables, saved, latest>>
  BY <1>e DEF Done, Put
<1>2. StateOK(s) /\ Stands(t, s) /\ t \in Tables /\ t.owner = s.owner
  BY DEF IsFresh, Stands
<1>3. /\ z.owner = s.owner /\ z.count = s.count /\ z.deal = DealOf(r)
      /\ z.outcome = s.outcome /\ z.likes = s.likes /\ z.deal # Nothing
  BY <1>2, GoneOnOK, NothingAssumption
<1>4. s.count \in DOMAIN t.transfers /\ s.owner \in Users /\ s.owner \in Addresses \cup {Nothing}
  BY <1>2, OpenRow, StateFields DEF Addresses
<1>r. GainsRow(r.statuses, t.transfers[s.count].statuses, row)
  BY DEF GainsRow
<1> HIDE DEF t, z, row
<1>p. Puts(w, t, s.count, r, t.owner)
  BY <1>2, <1>4, PutFields
<1> HIDE DEF w
<1>5. Stands(w, z)
  BY <1>2, <1>3, <1>p, GoesOn
<1>6. \A x : HasRow(w, x) <=> x = row \/ HasRow(t, x)
  BY <1>2, <1>4, <1>p, <1>r, PutRows
<1>7. Tells(told', z)
  BY <1>1, <1>2, <1>3, OpenTold
<1>8. told'.owner \in Users
  BY <1>1, <1>2, <1>4 DEF MessageOf
<1> QED BY <1>1, <1>5, <1>6, <1>7, <1>8 DEF Handled, Wrote, t, z, row

\* The deal ends.
LEMMA EndingWrites ==
    ASSUME NEW s, IsFresh(s), s.deal # Nothing, CurrentLog.event \in StatusEvents,
           NEW r \in Transfers, r.statuses # <<>>, r.order # <<>>, ~IsActive(r),
           r.order = Nothing <=> s.deal.order = Nothing,
           \A x : InRows(r.statuses, x) <=> \/ x = Row(CurrentLog, latest + 1)
                                            \/ InRows(job.work.transfers[s.count].statuses, x),
           NEW owner \in Users, NEW outcome \in OrderStatuses,
           r.order # Nothing => LastOf(r.order) = outcome,
           After(s, CurrentLog) = Ended(s, owner, outcome),
           NEW shown \in {r, Nothing}, shown # Nothing => Head(r.statuses).status = "Finished",
           Becomes(s.count, r, owner, shown)
    PROVE  Handled(s)
<1> DEFINE t == job.work
<1> DEFINE z == After(s, CurrentLog)
<1> DEFINE row == Row(CurrentLog, latest + 1)
<1>e. PICK e \in BOOLEAN :
        Done([t EXCEPT !.transfers[s.count] = r, !.owner = owner, !.tied = e], MessageOf(owner, shown))
  BY DEF Becomes, Ties
<1> DEFINE w == Put(t, s.count, r, owner, e)
<1>1. /\ job' = [job EXCEPT !.next = job.next + 1, !.work = w]
      /\ told' = MessageOf(owner, shown)
      /\ UNCHANGED <<blocks, states, tables, saved, latest>>
  BY <1>e DEF Done, Put
<1>2. StateOK(s) /\ Stands(t, s) /\ t \in Tables
  BY DEF IsFresh, Stands
<1>3. /\ z.owner = owner /\ z.count = s.count /\ z.deal = Nothing
      /\ z.outcome = (IF s.deal.order = Nothing THEN s.outcome ELSE outcome) /\ z.likes = s.likes
  BY <1>2, EndedOK
<1>o. z.outcome = IF r.order = Nothing THEN s.outcome ELSE LastOf(r.order)
  BY <1>3
<1>4. s.count \in DOMAIN t.transfers /\ owner \in Addresses \cup {Nothing}
  BY <1>2, OpenRow DEF Addresses
<1>r. GainsRow(r.statuses, t.transfers[s.count].statuses, row)
  BY DEF GainsRow
<1> HIDE DEF t, z, row
<1>p. Puts(w, t, s.count, r, owner)
  BY <1>2, <1>4, PutFields
<1> HIDE DEF w
<1>5. Stands(w, z)
  BY <1>2, <1>3, <1>o, <1>p, ComesToEnd
<1>6. \A x : HasRow(w, x) <=> x = row \/ HasRow(t, x)
  BY <1>2, <1>4, <1>p, <1>r, PutRows
<1>7. Tells(told', z)
  BY <1>1, <1>3, EndTold
<1>8. told'.owner \in Users
  BY <1>1 DEF MessageOf
<1> QED BY <1>1, <1>5, <1>6, <1>7, <1>8 DEF Handled, Wrote, t, z, row

\* What a handler of a log finds of the open deal.
LEMMA FreshRow ==
    ASSUME NEW s, IsFresh(s), s.deal # Nothing, CurrentLog.event \in StatusEvents
    PROVE  LET r == job.work.transfers[s.count]
           IN  /\ Active(job.work) = {s.count} /\ IsActive(r)
               /\ ~Passes(StatusOf(CurrentLog.event))
               /\ Row(CurrentLog, latest + 1) = Now(StatusOf(CurrentLog.event))
               /\ r \in Transfers /\ r.order # <<>>
               /\ s.deal \in Deals /\ s.owner \in Users /\ job.work.owner = s.owner
               /\ r.number = s.deal.number /\ r.to = s.deal.to
               /\ (r.order = Nothing <=> s.deal.order = Nothing) /\ LastOf(r.order) = s.deal.order
<1>1. Stands(job.work, s) /\ StateOK(s)
  BY DEF IsFresh
<1>2. Row(CurrentLog, latest + 1) = Now(StatusOf(CurrentLog.event))
  BY DEF Row, Now
<1>3. ~TransferTxExists(StatusOf(CurrentLog.event))
  BY <1>2, Exists DEF IsFresh
<1>4. s.deal \in Deals /\ s.owner \in Users /\ job.work.owner = s.owner
  BY <1>1, StateFields DEF Stands
<1>5. ~Passes(StatusOf(CurrentLog.event))
  BY <1>3, <1>4, IndexerAssumption DEF Passes, Unknown
<1> QED BY <1>1, <1>2, <1>4, <1>5, OpenRow

\* The key, the password, and the report.
LEMMA StageWrites ==
    ASSUME NEW s, IsFresh(s), OnPublicKeySet \/ OnPasswordSet \/ OnTransferFraudReported
    PROVE  Handled(s)
<1> DEFINE log == CurrentLog
<1> DEFINE status == StatusOf(log.event)
<1> DEFINE r0 == job.work.transfers[s.count]
<1> DEFINE r == Staged(r0, Now(status))
<1>1. /\ log.event \in {"TransferPublicKeySet", "TransferPasswordSet", "TransferFraudReported"}
      /\ OnStatus(log.event, status)
  BY DEF OnPublicKeySet, OnPasswordSet, OnTransferFraudReported, OnStatus, Handling, StatusOf
<1>2. log.event \in StatusEvents /\ s.deal # Nothing /\ s.deal.to \in Users
  BY <1>1 DEF IsFresh, Can, StatusEvents, Others, Openers
<1>3. /\ Active(job.work) = {s.count} /\ IsActive(r0) /\ ~Passes(status)
      /\ Row(log, latest + 1) = Now(status) /\ r0 \in Transfers /\ r0.order # <<>>
      /\ s.deal \in Deals /\ r0.number = s.deal.number /\ r0.to = s.deal.to
      /\ LastOf(r0.order) = s.deal.order
  BY <1>2, FreshRow
<1>4. Becomes(s.count, r, job.work.owner, r)
  BY <1>1, <1>3 DEF OnStatus, Adds, Staged, GetActiveTransfer
<1>5. status \in Statuses \ {"Drafted", "Finished", "Cancelled"}
  BY <1>1 DEF StatusOf, Statuses
<1>6. Now(status) \in TimedRows /\ Now(status).status = status
  BY <1>5 DEF IsFresh, Now, TimedRows
<1>7. /\ r \in Transfers /\ r.number = r0.number /\ r.to = r0.to /\ r.order = r0.order
      /\ r.statuses # <<>> /\ Head(r.statuses) = Now(status)
      /\ \A x : InRows(r.statuses, x) <=> x = Now(status) \/ InRows(r0.statuses, x)
  BY <1>3, <1>6, StagedRow
<1>8. After(s, log) = GoneOn(s, InStage(s.deal, status))
  BY <1>1, AfterEvent
<1> HIDE DEF log, status, r
<1>9. IsActive(r) /\ DealOf(r) = InStage(s.deal, status)
  BY <1>3, <1>5, <1>6, <1>7 DEF IsActive, DealOf, InStage
<1>10. DealOf(r) \in Deals /\ DealOf(r).status # "Drafted" /\ DealOf(r).to \in Users
  BY <1>2, <1>3, <1>5, <1>9, StageType
<1> QED BY <1>2, <1>3, <1>4, <1>7, <1>8, <1>9, <1>10, GoingWrites DEF log

\* A draft gets its receiver.
LEMMA CompletionWrites ==
    ASSUME NEW s, IsFresh(s), OnTransferDraftCompletion
    PROVE  Handled(s)
<1> DEFINE log == CurrentLog
<1> DEFINE r0 == job.work.transfers[s.count]
<1> DEFINE r1 == [r0 EXCEPT !.to = log.to]
<1> DEFINE r2 == Staged(r1, Now("Created"))
<1> DEFINE r == Ordered(r2, Now("Fulfilled"))
<1>1. log.event = "TransferDraftCompletion"
  BY DEF OnTransferDraftCompletion, Handling
<1>2. log.event \in StatusEvents /\ s.deal # Nothing /\ s.deal.order # Nothing /\ log.to \in Users
  BY <1>1 DEF IsFresh, Can, StatusEvents, Others, Openers
<1>s. StatusOf(log.event) = "Created"
  BY <1>1 DEF StatusOf
<1>3. /\ Active(job.work) = {s.count} /\ ~Passes("Created")
      /\ Row(log, latest + 1) = Now("Created") /\ r0 \in Transfers /\ r0.order # <<>>
      /\ s.deal \in Deals /\ r0.number = s.deal.number
      /\ r0.order # Nothing
  BY <1>2, <1>s, FreshRow
<1>4. Becomes(s.count, r, job.work.owner, r)
  BY <1>3 DEF OnTransferDraftCompletion, Adds, Staged, AddsOrder, Ordered, GetActiveTransfer
<1>5. /\ Now("Created") \in TimedRows /\ Now("Created").status = "Created"
      /\ Now("Fulfilled") \in [status : OrderStatuses, tx : 1 .. MaxBlocks]
      /\ Now("Fulfilled").status = "Fulfilled"
  BY DEF IsFresh, Now, TimedRows, Statuses, OrderStatuses
<1> HIDE DEF log
<1>6. /\ r1 \in Transfers /\ r1.number = r0.number /\ r1.to = log.to /\ r1.order = r0.order
      /\ r1.statuses = r0.statuses
  BY <1>2, <1>3 DEF Transfers, Addresses
<1> HIDE DEF r0, r1
<1>7. /\ r2 \in Transfers /\ r2.number = r1.number /\ r2.to = r1.to /\ r2.order = r1.order
      /\ r2.statuses # <<>> /\ Head(r2.statuses) = Now("Created")
      /\ \A x : InRows(r2.statuses, x) <=> x = Now("Created") \/ InRows(r1.statuses, x)
  BY <1>5, <1>6, StagedRow
<1> HIDE DEF r2
<1>8. /\ r \in Transfers /\ r.number = r2.number /\ r.to = r2.to
      /\ r.statuses = r2.statuses /\ r.order # <<>> /\ LastOf(r.order) = "Fulfilled"
  BY <1>3, <1>5, <1>6, <1>7, OrderedRow
<1> HIDE DEF r
<1>9. IsActive(r) /\ DealOf(r) = Filled(s.deal, log.to)
  BY <1>3, <1>5, <1>6, <1>7, <1>8 DEF IsActive, DealOf, Filled
<1>10. DealOf(r) \in Deals /\ DealOf(r).status # "Drafted" /\ DealOf(r).to \in Users
  BY <1>2, <1>3, <1>9, FilledType
<1>11. After(s, log) = GoneOn(s, DealOf(r))
  BY <1>1, <1>9, AfterEvent
<1>12. \A x : InRows(r.statuses, x) <=> x = Row(log, latest + 1) \/ InRows(r0.statuses, x)
  BY <1>3, <1>6, <1>7, <1>8
<1>13. r.statuses # <<>>
  BY <1>7, <1>8
<1> QED BY <1>2, <1>4, <1>8, <1>9, <1>10, <1>11, <1>12, <1>13, GoingWrites DEF log, r0

\* The end of a deal, however it comes.
LEMMA OverWrites ==
    ASSUME NEW s, IsFresh(s), NEW status \in {"Finished", "Cancelled"}, NEW outcome \in OrderStatuses,
           NEW owner \in Users, NEW shows \in BOOLEAN, shows => status = "Finished",
           CurrentLog.event \in StatusEvents, StatusOf(CurrentLog.event) = status, s.deal # Nothing,
           After(s, CurrentLog) = Ended(s, owner, outcome),
           LET r == Ordered(Staged(job.work.transfers[s.count], Now(status)), Now(outcome))
           IN  Becomes(s.count, r, owner, IF shows THEN r ELSE Nothing)
    PROVE  Handled(s)
<1> DEFINE r0 == job.work.transfers[s.count]
<1> DEFINE r2 == Staged(r0, Now(status))
<1> DEFINE r == Ordered(r2, Now(outcome))
<1> DEFINE shown == IF shows THEN r ELSE Nothing
<1>1. /\ Row(CurrentLog, latest + 1) = Now(status) /\ r0 \in Transfers /\ r0.order # <<>>
      /\ (r0.order = Nothing <=> s.deal.order = Nothing)
  BY FreshRow
<1>2. Becomes(s.count, r, owner, shown)
  OBVIOUS
<1>3. /\ Now(status) \in TimedRows /\ Now(status).status = status
      /\ Now(outcome) \in [status : OrderStatuses, tx : 1 .. MaxBlocks] /\ Now(outcome).status = outcome
  BY DEF IsFresh, Now, TimedRows, Statuses
<1> HIDE DEF r0
<1>4. /\ r2 \in Transfers /\ r2.order = r0.order /\ r2.statuses # <<>> /\ Head(r2.statuses) = Now(status)
      /\ \A x : InRows(r2.statuses, x) <=> x = Now(status) \/ InRows(r0.statuses, x)
  BY <1>1, <1>3, StagedRow
<1> HIDE DEF r2
<1>5. /\ r \in Transfers /\ r.statuses = r2.statuses /\ r.order # <<>>
      /\ (r.order = Nothing <=> r2.order = Nothing)
      /\ LastOf(r.order) = IF r2.order = Nothing THEN Nothing ELSE outcome
  BY <1>1, <1>3, <1>4, OrderedRow
<1> HIDE DEF r
<1>6. ~IsActive(r) /\ Head(r.statuses).status = status
  BY <1>3, <1>4, <1>5 DEF IsActive
<1>7. /\ r.order = Nothing <=> s.deal.order = Nothing
      /\ r.order # Nothing => LastOf(r.order) = outcome
      /\ r.statuses # <<>>
  BY <1>1, <1>4, <1>5
<1>8. \A x : InRows(r.statuses, x) <=> x = Row(CurrentLog, latest + 1) \/ InRows(r0.statuses, x)
  BY <1>1, <1>4, <1>5
<1>9. shown \in {r, Nothing} /\ (shown # Nothing => Head(r.statuses).status = "Finished")
  BY <1>6
<1> HIDE DEF shown
<1> QED BY <1>2, <1>5, <1>6, <1>7, <1>8, <1>9, EndingWrites DEF r0

LEMMA EndWrites ==
    ASSUME NEW s, IsFresh(s), OnTransferFinish \/ OnTransferFraudDecided \/ OnTransferCancel
    PROVE  Handled(s)
<1> DEFINE log == CurrentLog
<1> DEFINE n == s.count
<1> DEFINE r0 == job.work.transfers[n]
<1>1. log.event \in {"TransferFinished", "TransferFraudDecided", "TransferCancellation"}
  BY DEF OnTransferFinish, OnTransferFraudDecided, OnTransferCancel, Handling
<1>2. /\ log.event \in StatusEvents /\ s.deal # Nothing
      /\ log.event # "TransferCancellation" => s.deal.to \in Users
      /\ log.event = "TransferFraudDecided" => log.approved \in BOOLEAN
  BY <1>1 DEF IsFresh, Can, StatusEvents, Others, Openers
<1>3. /\ Active(job.work) = {n} /\ ~Passes(StatusOf(log.event)) /\ r0 \in Transfers
      /\ s.owner \in Users /\ job.work.owner = s.owner /\ r0.to = s.deal.to
  BY <1>2, FreshRow
<1>e. {"Finished", "FraudApproved", "Cancelled"} \subseteq OrderStatuses
  BY DEF OrderStatuses
<1>4. ASSUME NEW status, NEW outcome
      PROVE  /\ AddsOrder(Adds(r0, status), outcome) = Ordered(Staged(r0, Now(status)), Now(outcome))
             /\ r0 \in Transfers => Ordered(Staged(r0, Now(status)), Now(outcome)).to = r0.to
  <2>1. AddsOrder(Adds(r0, status), outcome) = Ordered(Staged(r0, Now(status)), Now(outcome))
    BY DEF Adds, AddsOrder, Staged, Ordered
  <2>2. r0 \in Transfers => Ordered(Staged(r0, Now(status)), Now(outcome)).to = r0.to
    BY DEF Staged, Ordered, Transfers
  <2> QED BY <2>1, <2>2
<1>5. CASE OnTransferFinish
  <2> DEFINE r == Ordered(Staged(r0, Now("Finished")), Now("Finished"))
  <2>1. log.event = "TransferFinished" /\ StatusOf(log.event) = "Finished"
    BY <1>5 DEF OnTransferFinish, Handling, StatusOf
  <2>2. r.to = s.deal.to
    BY <1>3, <1>4
  <2>3. Becomes(n, r, r.to, Nothing)
    BY <1>3, <1>4, <1>5, <2>1 DEF OnTransferFinish, GetActiveTransfer
  <2>4. Becomes(n, r, s.deal.to, IF FALSE THEN r ELSE Nothing)
    BY <2>2, <2>3
  <2>5. After(s, log) = Ended(s, s.deal.to, "Finished")
    BY <2>1, AfterEvent
  <2> QED BY <1>2, <1>e, <2>1, <2>4, <2>5, OverWrites
<1>6. CASE OnTransferCancel
  <2> DEFINE r == Ordered(Staged(r0, Now("Cancelled")), Now("Cancelled"))
  <2>1. log.event = "TransferCancellation" /\ StatusOf(log.event) = "Cancelled"
    BY <1>6 DEF OnTransferCancel, Handling, StatusOf
  <2>3. Becomes(n, r, s.owner, IF FALSE THEN r ELSE Nothing)
    BY <1>3, <1>4, <1>6, <2>1 DEF OnTransferCancel, GetActiveTransfer
  <2>5. After(s, log) = Ended(s, s.owner, "Cancelled")
    BY <2>1, AfterEvent
  <2> QED BY <1>2, <1>3, <1>e, <2>1, <2>3, <2>5, OverWrites
<1>7. CASE OnTransferFraudDecided
  <2> DEFINE order == IF log.approved THEN "FraudApproved" ELSE "Finished"
  <2> DEFINE owner == IF log.approved THEN s.owner ELSE s.deal.to
  <2> DEFINE r == Ordered(Staged(r0, Now("Finished")), Now(order))
  <2>1. log.event = "TransferFraudDecided" /\ StatusOf(log.event) = "Finished"
    BY <1>7 DEF OnTransferFraudDecided, Handling, StatusOf
  <2>2. r.to = s.deal.to
    BY <1>3, <1>4
  <2>3. Becomes(n, r, IF log.approved THEN s.owner ELSE r.to, r)
    BY <1>3, <1>4, <1>7, <2>1 DEF OnTransferFraudDecided, GetActiveTransfer
  <2>4. Becomes(n, r, owner, IF TRUE THEN r ELSE Nothing)
    BY <2>2, <2>3
  <2>5. After(s, log) = Ended(s, owner, order) /\ owner \in Users /\ order \in OrderStatuses
    BY <1>2, <1>3, <1>e, <2>1, AfterEvent
  <2> HIDE DEF order, owner
  <2> QED BY <1>2, <2>1, <2>4, <2>5, OverWrites
<1> QED BY <1>5, <1>6, <1>7

\* The log of a like has no status.
LEMMA FreshHandled ==
    ASSUME NEW s, IsFresh(s), Handle, ~OnLike, ~(OnCollectionTransfer /\ PassOver)
    PROVE  Handled(s)
BY MintWrites, BeginningWrites, StageWrites, CompletionWrites, EndWrites DEF Handle

-----------------------------------------------------------------------------
(* The logs of the block that is handled.                                  *)

\* The log k of block b + 1, and the states before and after it.
LEMMA LogOfBlock ==
    ASSUME History, NEW b \in 0 .. Len(blocks), b < Len(blocks), NEW k \in 1 .. Len(blocks[b + 1])
    PROVE  LET logs == blocks[b + 1]
               s == Partial(states[b + 1], logs, k - 1)
           IN  /\ b + 1 \in 1 .. MaxBlocks /\ StateOK(s) /\ s.count + 1 \in 1 .. MaxBlocks
               /\ Can(s, logs[k]) /\ Partial(states[b + 1], logs, k) = After(s, logs[k])
               /\ k = 1 \/ (k = 2 /\ Len(logs) = 2)
               /\ Len(logs) \in 1 .. 2
               /\ logs[k].event = "Like" => k = 1 /\ Len(logs) = 1 /\ s = states[b + 1]
               /\ logs[k].event # "Like" => Sends(logs)
               /\ k = 2 => /\ logs[1].event \in StatusEvents /\ logs[2].event \in StatusEvents
                           /\ StatusOf(logs[1].event) # StatusOf(logs[2].event)
<1> DEFINE logs == blocks[b + 1]
<1> DEFINE s0 == states[b + 1]
<1> DEFINE s == Partial(s0, logs, k - 1)
<1>1. /\ Len(blocks) \in Nat /\ Len(blocks) <= MaxBlocks /\ Len(states) = Len(blocks) + 1
      /\ b + 1 \in 1 .. Len(blocks) /\ b + 1 \in 1 .. Len(states) /\ MaxBlocks \in Nat
  BY IndexerAssumption DEF History
<1>2. b + 1 \in 1 .. MaxBlocks
  BY <1>1
<1>3. StateOK(s0) /\ s0.count < b + 1 /\ Leads(s0, logs, states[b + 2])
  <2>1. (b + 1) + 1 = b + 2
    BY <1>1
  <2> QED BY <1>1, <2>1 DEF History
<1>c. s0.count \in Nat
  BY <1>3, StateFields
<1> HIDE DEF logs, s0
<1>4. /\ Len(logs) \in 0 .. 2 /\ Can(s, logs[k])
      /\ Len(logs) = 2 => /\ logs[1].event \in Others /\ logs[2].event \in Others
                          /\ StatusOf(logs[1].event) # StatusOf(logs[2].event)
  <2>1. k \in 1 .. Len(logs)
    BY DEF logs
  <2> QED BY <1>3, <2>1 DEF Leads
<1>5. (k = 1 \/ (k = 2 /\ Len(logs) = 2)) /\ Len(logs) \in 1 .. 2
  <2>1. k \in 1 .. Len(logs)
    BY DEF logs
  <2> QED BY <1>4, <2>1
<1>6. CASE k = 1
  <2>1. s = s0 /\ Partial(s0, logs, 1) = After(s0, logs[1])
    BY <1>6 DEF Partial
  <2>2. StateOK(s) /\ s.count + 1 \in 1 .. MaxBlocks
    BY <1>1, <1>2, <1>3, <1>c, <2>1
  <2>3. logs[k].event = "Like" => Len(logs) = 1
    BY <1>4, <1>5, <1>6 DEF Others, StatusEvents
  <2>4. logs[k].event # "Like" => Sends(logs)
    <3>1. (logs # <<>> /\ logs[Len(logs)].event # "Like") \/ logs[k].event = "Like"
      <4>1. logs # <<>>
        BY <1>5
      <4>2. CASE Len(logs) = 1
        BY <1>6, <4>1, <4>2
      <4>3. CASE Len(logs) = 2
        BY <1>4, <4>1, <4>3 DEF Others, StatusEvents
      <4> QED BY <1>5, <4>2, <4>3
    <3> QED BY <3>1 DEF Sends
  <2> QED BY <1>2, <1>4, <1>5, <1>6, <2>1, <2>2, <2>3, <2>4 DEF logs, s0
<1>7. CASE k = 2
  <2>1. s = After(s0, logs[1]) /\ Partial(s0, logs, 2) = After(s, logs[2])
    BY <1>7 DEF Partial
  <2>2. Can(s0, logs[1]) /\ Len(logs) = 2
    <3>1. 1 \in 1 .. Len(logs) /\ Len(logs) = 2
      BY <1>5, <1>7
    <3>2. Can(Partial(s0, logs, 1 - 1), logs[1])
      BY <1>3, <3>1 DEF Leads
    <3> QED BY <3>1, <3>2 DEF Partial
  <2>3. /\ logs[1].event \in StatusEvents \ Openers /\ logs[2].event # "Like"
        /\ logs[2].event \in StatusEvents
        /\ StatusOf(logs[1].event) # StatusOf(logs[2].event)
    BY <1>4, <2>2 DEF Others, StatusEvents
  <2>4. StateOK(s) /\ s.count = s0.count
    BY <1>3, <2>1, <2>2, <2>3, AfterOK
  <2>5. s.count + 1 \in 1 .. MaxBlocks
    BY <1>1, <1>2, <1>3, <1>c, <2>4
  <2>6. Sends(logs)
    <3>1. logs # <<>>
      BY <1>5
    <3>2. logs[Len(logs)] = logs[2]
      BY <2>2
    <3> QED BY <2>3, <3>1, <3>2 DEF Sends
  <2> QED BY <1>2, <1>4, <1>5, <1>7, <2>1, <2>3, <2>4, <2>5, <2>6 DEF logs, s0
<1> QED BY <1>5, <1>6, <1>7

\* The state a block leads to; a block that sends nothing changes likes only.
LEMMA EndOfBlock ==
    ASSUME History, NEW b \in 0 .. Len(blocks), b < Len(blocks)
    PROVE  LET logs == blocks[b + 1]
           IN  /\ Len(logs) \in 0 .. 2
               /\ states[b + 2] = Partial(states[b + 1], logs, Len(logs))
               /\ StateOK(states[b + 1]) /\ StateOK(states[b + 2])
               /\ logs = <<>> => states[b + 2] = states[b + 1]
               /\ ~Sends(logs) => /\ states[b + 2].owner = states[b + 1].owner
                                  /\ states[b + 2].deal = states[b + 1].deal
<1> DEFINE logs == blocks[b + 1]
<1>1. /\ Len(blocks) \in Nat /\ Len(states) = Len(blocks) + 1
      /\ b + 1 \in 1 .. Len(blocks) /\ b + 1 \in 1 .. Len(states) /\ b + 2 \in 1 .. Len(states)
      /\ (b + 1) + 1 = b + 2
  BY DEF History
<1>2. /\ Leads(states[b + 1], logs, states[b + 2])
      /\ StateOK(states[b + 1]) /\ StateOK(states[b + 2])
  BY <1>1 DEF History
<1>3. Len(logs) \in 0 .. 2 /\ states[b + 2] = Partial(states[b + 1], logs, Len(logs))
  BY <1>2 DEF Leads
<1>4. logs = <<>> => states[b + 2] = states[b + 1]
  BY <1>3 DEF Partial
<1>5. ASSUME ~Sends(logs), logs # <<>>
      PROVE  /\ states[b + 2].owner = states[b + 1].owner /\ states[b + 2].deal = states[b + 1].deal
  <2>1. Len(logs) \in 1 .. Len(logs) /\ logs[Len(logs)].event = "Like"
    <3>1. logs \in Seq(Logs)
      BY <1>1 DEF History
    <3>2. Len(logs) # 0
      BY <1>5, <3>1, EmptySeq
    <3> QED BY <1>3, <1>5, <3>2 DEF Sends
  <2>2. Len(logs) = 1 /\ Partial(states[b + 1], logs, Len(logs)) = After(states[b + 1], logs[1])
    BY <2>1, LogOfBlock
  <2>3. states[b + 2] = Liked(states[b + 1])
    BY <1>3, <2>1, <2>2, AfterEvent
  <2> QED BY <1>2, <2>3, LikedOK
<1> QED BY <1>2, <1>3, <1>4, <1>5

\* Tables that have handled one more log.
LEMMA KnowsNext ==
    ASSUME NEW h, NEW t, NEW w, NEW b \in Nat, NEW k \in Nat, k > 0, Knows(h, t, b, k - 1),
           t.owner # Nothing => w.owner # Nothing,
           h[b + 1][k].event = "Transfer" => w.owner # Nothing,
           \A x : HasRow(w, x) <=>
               HasRow(t, x) \/ (h[b + 1][k].event \in StatusEvents /\ x = Row(h[b + 1][k], b + 1))
    PROVE  Knows(h, w, b, k)
<1> DEFINE log == h[b + 1][k]
<1>1. \A l, c : IsKnown(t, l, c) => IsKnown(w, l, c)
  BY DEF IsKnown
<1>2. IsKnown(w, log, b + 1)
  BY DEF IsKnown, Row
<1>3. \A i \in 1 .. k : i = k \/ i \in 1 .. k - 1
  OBVIOUS
<1>4. \A c \in 1 .. b : \A i \in 1 .. Len(h[c]) : IsKnown(w, h[c][i], c)
  BY <1>1 DEF Knows
<1>5. \A i \in 1 .. k : IsKnown(w, h[b + 1][i], b + 1)
  BY <1>1, <1>2, <1>3 DEF Knows
<1>6. ASSUME NEW row \in [status : Statuses, tx : 1 .. MaxBlocks], HasRow(w, row)
      PROVE  \/ row.tx <= b
             \/ /\ row.tx = b + 1
                /\ \E i \in 1 .. k : /\ h[b + 1][i].event \in StatusEvents
                                     /\ StatusOf(h[b + 1][i].event) = row.status
  <2>1. CASE HasRow(t, row)
    <3>1. \A i \in 1 .. k - 1 : i \in 1 .. k
      OBVIOUS
    <3> QED BY <2>1, <3>1 DEF Knows
  <2>2. CASE log.event \in StatusEvents /\ row = Row(log, b + 1)
    <3>1. k \in 1 .. k
      OBVIOUS
    <3> QED BY <2>2, <3>1 DEF Row
  <2> QED BY <1>6, <2>1, <2>2
<1> QED BY <1>4, <1>5, <1>6 DEF Knows

\* A block that is known is one of those the tables have.
LEMMA KnowsBlock ==
    ASSUME NEW h, NEW t, NEW b \in Nat, Knows(h, t, b, Len(h[b + 1])), Len(h[b + 1]) \in Nat
    PROVE  Knows(h, t, b + 1, 0)
<1>1. \A c \in 1 .. b + 1 : c = b + 1 \/ c \in 1 .. b
  OBVIOUS
<1>2. \A c \in 1 .. b + 1 : \A i \in 1 .. Len(h[c]) : IsKnown(t, h[c][i], c)
  BY <1>1 DEF Knows
<1>3. \A i \in 1 .. 0 : IsKnown(t, h[b + 2][i], b + 2)
  OBVIOUS
<1>4. \A row \in [status : Statuses, tx : 1 .. MaxBlocks] : HasRow(t, row) => row.tx <= b + 1
  BY DEF Knows
<1> QED BY <1>2, <1>3, <1>4 DEF Knows

\* Tables with the same rows and owner know the same.
LEMMA KnowsSame ==
    ASSUME NEW h, NEW t, NEW w, NEW b, NEW k, Knows(h, t, b, k), w.owner = t.owner,
           \A x : HasRow(w, x) <=> HasRow(t, x)
    PROVE  Knows(h, w, b, k)
BY DEF Knows, IsKnown

-----------------------------------------------------------------------------
(* The handlers keep the invariant.                                        *)

\* The likes of every state are below the bound of the counter.
LEMMA LikesBounded ==
    ASSUME History, LikesGrow, NEW c \in 1 .. Len(states)
    PROVE  states[c].likes \in Nat /\ states[c].likes <= MaxOther
<1>1. Len(states) \in Nat /\ Len(states) \in 1 .. Len(states) /\ Len(blocks) \in Nat
  BY DEF History
<1>2. /\ StateOK(states[c]) /\ StateOK(State)
      /\ states[c].likes <= State.likes
  BY <1>1 DEF History, LikesGrow, State
<1>3. Cardinality(OtherBlocks) \in Nat
  <2>1. OtherBlocks \subseteq 1 .. Len(blocks)
    BY DEF OtherBlocks, History
  <2>2. IsFiniteSet(1 .. Len(blocks))
    BY <1>1, FS_Interval
  <2> QED BY <2>1, <2>2, FS_Subset, FS_CardinalityType
<1>4. states[c].likes \in Nat /\ State.likes \in Nat
  BY <1>2, StateFields
<1> QED BY <1>2, <1>3, <1>4, IndexerAssumption DEF LikesGrow

LEMMA HandledEvent ==
    ASSUME Handle
    PROVE  /\ job # Nothing /\ ~job.committed /\ job.next <= Len(Block)
           /\ OnLike <=> CurrentLog.event = "Like"
           /\ CurrentLog.event \in Events
<1> USE DEF Handle, Handling, Events, StatusEvents
<1>1. CASE OnCollectionTransfer \/ OnTransferInit \/ OnTransferDraft \/ OnTransferDraftCompletion
  BY <1>1
      DEF OnCollectionTransfer, OnTransferInit, OnTransferDraft, OnTransferDraftCompletion, OnLike
<1>2. CASE OnPublicKeySet \/ OnPasswordSet \/ OnTransferFraudReported
  BY <1>2 DEF OnPublicKeySet, OnPasswordSet, OnTransferFraudReported, OnStatus, OnLike
<1>3. CASE OnTransferFinish \/ OnTransferFraudDecided \/ OnTransferCancel
  BY <1>3 DEF OnTransferFinish, OnTransferFraudDecided, OnTransferCancel, OnLike
<1>4. CASE OnLike
  BY <1>4 DEF OnLike
<1> QED BY <1>1, <1>2, <1>3, <1>4

\* A log that was handled in an earlier life is passed over.
LEMMA KnownAgain ==
    ASSUME Handle, ~OnLike, IsKnown(job.work, CurrentLog, latest + 1)
    PROVE  PassOver
<1>1. CASE OnCollectionTransfer
  <2>1. CurrentLog.event = "Transfer"
    BY <1>1 DEF OnCollectionTransfer, Handling
  <2> QED BY <1>1, <2>1 DEF OnCollectionTransfer, IsKnown, Unknown
<1>2. ASSUME NEW event \in StatusEvents, CurrentLog.event = event
      PROVE  Passes(StatusOf(event))
  <2>1. HasRow(job.work, Now(StatusOf(event)))
    BY <1>2 DEF IsKnown, Now
  <2> QED BY <2>1, Exists DEF Passes
<1>s. /\ StatusOf("TransferDraft") = "Drafted" /\ StatusOf("TransferInit") = "Created"
      /\ StatusOf("TransferDraftCompletion") = "Created"
      /\ StatusOf("TransferPublicKeySet") = "PublicKeySet"
      /\ StatusOf("TransferPasswordSet") = "PasswordSet"
      /\ StatusOf("TransferFraudReported") = "FraudReported"
      /\ StatusOf("TransferFinished") = "Finished" /\ StatusOf("TransferFraudDecided") = "Finished"
      /\ StatusOf("TransferCancellation") = "Cancelled"
  BY DEF StatusOf
<1>3. CASE OnTransferInit \/ OnTransferDraft \/ OnTransferDraftCompletion
  BY <1>2, <1>3, <1>s
      DEF OnTransferInit, OnTransferDraft, OnTransferDraftCompletion, Handling, StatusEvents
<1>4. CASE OnPublicKeySet \/ OnPasswordSet \/ OnTransferFraudReported
  BY <1>2, <1>4, <1>s
      DEF OnPublicKeySet, OnPasswordSet, OnTransferFraudReported, OnStatus, Handling, StatusEvents
<1>5. CASE OnTransferFinish \/ OnTransferFraudDecided \/ OnTransferCancel
  BY <1>2, <1>5, <1>s
      DEF OnTransferFinish, OnTransferFraudDecided, OnTransferCancel, Handling, StatusEvents
<1> QED BY <1>1, <1>3, <1>4, <1>5 DEF Handle

\* The job with one more log.
LEMMA JobFields ==
    ASSUME NEW n \in Nat, NEW j \in [next : 1 .. n + 1, work : Tables, committed : BOOLEAN],
           j.next <= n, NEW w \in Tables
    PROVE  LET q == [j EXCEPT !.next = j.next + 1, !.work = w]
           IN  /\ q \in [next : 1 .. n + 1, work : Tables, committed : BOOLEAN]
               /\ q.next = j.next + 1 /\ q.work = w /\ q.committed = j.committed
<1> DEFINE m == j.next + 1
<1>1. m \in 1 .. n + 1
  OBVIOUS
<1> HIDE DEF m
<1>2. LET q == [j EXCEPT !.next = m, !.work = w]
      IN  /\ q \in [next : 1 .. n + 1, work : Tables, committed : BOOLEAN]
          /\ q.next = m /\ q.work = w /\ q.committed = j.committed
  BY <1>1
<1> QED BY <1>2 DEF m

LEMMA SameWork ==
    ASSUME NEW n, NEW j \in [next : n, work : Tables, committed : BOOLEAN]
    PROVE  [j EXCEPT !.next = j.next + 1] = [j EXCEPT !.next = j.next + 1, !.work = j.work]
OBVIOUS

\* A like changes the number of likes only.
LikedTables(t) == [t EXCEPT !.likes = IF t.likes > MaxOther THEN t.likes ELSE t.likes + 1]

LEMMA LikeWrites ==
    ASSUME NEW t, NEW s, Stands(t, s), StateOK(s)
    PROVE  LET w == LikedTables(t)
           IN  /\ Stands(w, s) /\ w.owner = t.owner
               /\ \A x : HasRow(w, x) <=> HasRow(t, x)
               /\ s.likes < MaxOther => Stands(w, Liked(s))
<1> DEFINE w == LikedTables(t)
<1>1. t \in Tables /\ s.likes \in Nat /\ t.likes \in Nat /\ t.likes >= s.likes /\ MaxOther \in Nat
  BY StateFields, IndexerAssumption DEF Stands, Tables
<1>2. /\ w \in Tables /\ w.owner = t.owner /\ w.transfers = t.transfers
      /\ w.likes >= s.likes /\ (s.likes < MaxOther => w.likes >= s.likes + 1)
  BY <1>1 DEF Tables, LikedTables
<1> HIDE DEF w
<1>3. Active(w) = Active(t) /\ Sales(w) = Sales(t) /\ Outcome(w) = Outcome(t)
  BY <1>2 DEF Active, Sales, Outcome
<1>4. Stands(w, s)
  BY <1>2, <1>3 DEF Stands
<1>5. \A x : HasRow(w, x) <=> HasRow(t, x)
  BY <1>2 DEF HasRow
<1>6. s.likes < MaxOther => Stands(w, Liked(s))
  BY <1>2, <1>4, LikedOK DEF Stands
<1> QED BY <1>2, <1>4, <1>5, <1>6 DEF w

\* A block up to b is read again.
LEMMA RereadKeeps ==
    ASSUME IInv, Handle, NEW b \in 0 .. Len(blocks), StandsAt(b), latest < b
    PROVE  StandsAt(b)' /\ UNCHANGED <<blocks, states, saved, latest, told>>
<1> DEFINE n == Len(Block)
<1>1. /\ job # Nothing /\ ~job.committed /\ job.next <= n
      /\ OnLike <=> CurrentLog.event = "Like"
  BY HandledEvent
<1>2. /\ latest # Nothing /\ latest \in Nat /\ latest < Len(blocks) /\ Len(blocks) \in Nat
      /\ job \in [next : 1 .. n + 1, work : Tables, committed : BOOLEAN]
      /\ RereadStands(b) /\ TablesStand(b) /\ ToldStands(b)
  BY <1>1 DEF IInv, History, TypeInv, StandsAt, JobStands
<1>3. latest + 1 \in 1 .. b /\ latest + 1 \in 1 .. Len(blocks) /\ b + 1 \in 1 .. Len(states)
  BY <1>2 DEF IInv, History
<1>n. n \in Nat /\ job.next \in 1 .. n
  <2>1. Block \in Seq(Logs)
    BY <1>3 DEF IInv, History, Block
  <2>2. n \in Nat
    BY <2>1
  <2> QED BY <1>1, <1>2, <2>2
<1>w. /\ Stands(job.work, states[b + 1]) /\ Knows(blocks, job.work, b, 0)
      /\ job.work \in Tables /\ StateOK(states[b + 1])
  BY <1>2, <1>3 DEF RereadStands, IInv, History
<1>4. PICK w \in Tables :
        /\ job' = [job EXCEPT !.next = job.next + 1, !.work = w]
        /\ Stands(w, states[b + 1]) /\ Knows(blocks, w, b, 0)
        /\ UNCHANGED <<blocks, states, tables, saved, latest, told>>
  <2>1. CASE OnLike /\ ~Unknown(job.work)
    <3> DEFINE w == LikedTables(job.work)
    <3>1. Stands(w, states[b + 1]) /\ w.owner = job.work.owner
          /\ \A x : HasRow(w, x) <=> HasRow(job.work, x)
      BY <1>w, LikeWrites
    <3>2. /\ job' = [job EXCEPT !.next = job.next + 1, !.work = w]
          /\ UNCHANGED <<blocks, states, tables, saved, latest, told>>
      BY <2>1 DEF OnLike, Done, LikedTables
    <3> HIDE DEF w
    <3>3. Knows(blocks, w, b, 0) /\ w \in Tables
      BY <1>w, <3>1, KnowsSame DEF Stands
    <3> QED BY <3>1, <3>2, <3>3
  <2>3. CASE OnLike /\ Unknown(job.work)
    <3>1. PassOver
      BY <2>3 DEF OnLike
    <3>2. job' = [job EXCEPT !.next = job.next + 1, !.work = job.work]
      BY <1>2, <3>1, SameWork DEF PassOver
    <3> QED BY <1>w, <3>1, <3>2 DEF PassOver
  <2>2. CASE ~OnLike
    <3>1. IsKnown(job.work, CurrentLog, latest + 1)
      BY <1>3, <1>n, <1>w DEF Knows, Block, CurrentLog
    <3>2. PassOver
      BY <2>2, <3>1, KnownAgain
    <3>3. job' = [job EXCEPT !.next = job.next + 1, !.work = job.work]
      BY <1>2, <3>2, SameWork DEF PassOver
    <3> QED BY <1>w, <3>2, <3>3 DEF PassOver
  <2> QED BY <2>1, <2>2, <2>3
<1>5. /\ job' \in [next : 1 .. n + 1, work : Tables, committed : BOOLEAN]
      /\ job'.work = w /\ job'.committed = job.committed
  <2> HIDE DEF n
  <2> QED BY <1>1, <1>2, <1>4, <1>n, JobFields
<1>6. Block' = Block
  BY <1>4 DEF Block
<1>7. JobStands(b)'
  BY <1>1, <1>2, <1>4, <1>5, <1>6 DEF JobStands, RereadStands
<1>8. TablesStand(b)' /\ ToldStands(b)'
  BY <1>2, <1>4 DEF TablesStand, ToldStands
<1> QED BY <1>4, <1>7, <1>8 DEF StandsAt

\* The log that comes next has not been handled.
LEMMA NextIsFresh ==
    ASSUME NEW b, NEW k, NEW t, NEW log,
           b \in Nat, b + 1 \in 1 .. MaxBlocks, k \in {1, 2}, log = blocks[b + 1][k],
           Knows(blocks, t, b, k - 1), log.event \in StatusEvents,
           k = 2 => StatusOf(blocks[b + 1][1].event) # StatusOf(log.event)
    PROVE  ~HasRow(t, Row(log, b + 1))
<1> SUFFICES ASSUME HasRow(t, Row(log, b + 1)) PROVE FALSE
  OBVIOUS
<1> DEFINE row == Row(log, b + 1)
<1>1. row.status = StatusOf(log.event) /\ row.tx = b + 1
  BY DEF Row
<1>2. StatusOf(log.event) \in Statuses
  BY DEF StatusOf, StatusEvents, Statuses
<1>3. row \in [status : Statuses, tx : 1 .. MaxBlocks]
  BY <1>2 DEF Row
<1> HIDE DEF row
<1>4. ~(row.tx <= b)
  BY <1>1
<1>5. \E i \in 1 .. k - 1 : StatusOf(blocks[b + 1][i].event) = row.status
  BY <1>3, <1>4 DEF Knows, row
<1>6. PICK i \in 1 .. k - 1 : StatusOf(blocks[b + 1][i].event) = row.status
  BY <1>5
<1>7. k = 2 /\ i = 1
  BY <1>6
<1> QED BY <1>1, <1>6, <1>7

\* The block after b is handled, log by log.
LEMMA FreshKeeps ==
    ASSUME IInv, Handle, NEW b \in 0 .. Len(blocks), StandsAt(b), latest = b,
           ~(OnCollectionTransfer /\ PassOver)
    PROVE  StandsAt(b)' /\ UNCHANGED <<blocks, states, saved, latest>>
<1> DEFINE n == Len(Block)
<1> DEFINE k == job.next
<1> DEFINE log == CurrentLog
<1> DEFINE s == Partial(states[b + 1], Block, k - 1)
<1> DEFINE z == Partial(states[b + 1], Block, k)
<1>1. /\ job # Nothing /\ ~job.committed /\ k <= n
      /\ OnLike <=> log.event = "Like"
      /\ log.event \in Events
  BY HandledEvent
<1>2. /\ latest # Nothing /\ latest \in Nat /\ latest < Len(blocks) /\ Len(blocks) \in Nat
      /\ job \in [next : 1 .. n + 1, work : Tables, committed : BOOLEAN]
      /\ WorkStands(b, k - 1) /\ TablesStand(b) /\ ToldStands(b)
      /\ Block = blocks[b + 1] /\ log = blocks[b + 1][k]
      /\ History /\ LikesGrow
  BY <1>1 DEF IInv, History, TypeInv, StandsAt, JobStands, Block, CurrentLog
<1>3. b + 1 \in 1 .. Len(blocks) /\ b + 1 \in 1 .. Len(states) /\ b + 2 \in 1 .. Len(states)
  <2>1. Len(states) = Len(blocks) + 1
    BY <1>2 DEF History
  <2> QED BY <1>2, <2>1
<1>n. n \in Nat /\ k \in 1 .. n
  <2>1. Block \in Seq(Logs)
    BY <1>2, <1>3 DEF History
  <2>2. n \in Nat
    BY <2>1
  <2> QED BY <1>1, <1>2, <2>2
<1>l. /\ b + 1 \in 1 .. MaxBlocks /\ StateOK(s) /\ s.count + 1 \in 1 .. MaxBlocks
      /\ Can(s, log) /\ z = After(s, log)
      /\ k = 1 \/ (k = 2 /\ n = 2)
      /\ log.event = "Like" => k = 1 /\ n = 1 /\ s = states[b + 1]
      /\ log.event # "Like" => Sends(Block)
      /\ k = 2 => /\ Block[1].event \in StatusEvents
                  /\ StatusOf(Block[1].event) # StatusOf(log.event)
  BY <1>2, <1>n, LogOfBlock
<1>w. Stands(job.work, s) /\ Knows(blocks, job.work, b, k - 1)
  BY <1>2 DEF WorkStands
<1> HIDE DEF n, k, log, s, z
<1>4. PICK w :
        /\ w \in Tables
        /\ job' = [job EXCEPT !.next = job.next + 1, !.work = w]
        /\ Stands(w, z)
        /\ UNCHANGED <<blocks, states, tables, saved, latest>>
        /\ \A x : HasRow(w, x) <=>
                HasRow(job.work, x) \/ (log.event \in StatusEvents /\ x = Row(log, b + 1))
        /\ log.event = "Like" => told' = told
        /\ log.event # "Like" => Tells(told', z)
  <2>1. CASE OnLike
    <3> DEFINE w == LikedTables(job.work)
    <3>1. /\ log.event = "Like" /\ k = 1 /\ n = 1 /\ s = states[b + 1] /\ z = Liked(s)
      BY <1>1, <1>l, <2>1, AfterEvent
    <3>2. z = states[b + 2]
      BY <1>2, <3>1, EndOfBlock DEF n, z
    <3>3. s.likes < MaxOther
      <4>1. z.likes <= MaxOther /\ z.likes = s.likes + 1
        BY <1>2, <1>3, <1>l, <3>1, <3>2, LikesBounded, LikedOK
      <4> QED BY <1>l, <4>1, StateFields, IndexerAssumption
    <3>4. /\ Stands(w, z) /\ w.owner = job.work.owner
          /\ \A x : HasRow(w, x) <=> HasRow(job.work, x)
      BY <1>l, <1>w, <3>1, <3>3, LikeWrites
    <3>5. /\ job' = [job EXCEPT !.next = job.next + 1, !.work = w]
          /\ UNCHANGED <<blocks, states, tables, saved, latest, told>>
      <4>1. ~Unknown(job.work)
        BY <1>l, <1>w, <3>1 DEF Can, Unknown, Stands
      <4> QED BY <2>1, <4>1 DEF OnLike, Done, LikedTables
    <3> HIDE DEF w
    <3>6. w \in Tables /\ log.event \notin StatusEvents
      BY <3>1, <3>4 DEF Stands, StatusEvents
    <3> QED BY <3>1, <3>4, <3>5, <3>6
  <2>2. CASE ~OnLike
    <3>1. log.event \in StatusEvents => ~HasRow(job.work, Row(log, b + 1))
      BY <1>2, <1>l, <1>w, NextIsFresh DEF log
    <3>2. IsFresh(s)
      BY <1>1, <1>2, <1>l, <1>w, <3>1 DEF IsFresh, log
    <3>3. Handled(s)
      BY <2>2, <3>2, FreshHandled
    <3> QED BY <1>1, <1>2, <1>l, <2>2, <3>3 DEF Handled, Wrote, Stands, log
  <2> QED BY <2>1, <2>2
<1>5. /\ job' \in [next : 1 .. n + 1, work : Tables, committed : BOOLEAN]
      /\ job'.work = w /\ job'.committed = job.committed /\ job'.next = k + 1
  BY <1>1, <1>2, <1>4, <1>n, JobFields DEF k
<1>6. Knows(blocks, w, b, k)
  <2>1. job.work.owner # Nothing => w.owner # Nothing
    BY <1>4, <1>l, <1>w, AfterOK, StateFields DEF Stands
  <2>2. log.event = "Transfer" => w.owner # Nothing
    BY <1>4, <1>l, AfterOK, IndexerAssumption DEF Stands
  <2>3. log = blocks[b + 1][k] /\ b \in Nat /\ k \in Nat /\ k > 0
    BY <1>2, <1>n
  <2>4. \A x : HasRow(w, x) <=>
            HasRow(job.work, x) \/ (blocks[b + 1][k].event \in StatusEvents
                                    /\ x = Row(blocks[b + 1][k], b + 1))
    BY <1>4, <2>3
  <2> QED BY <1>w, <2>1, <2>2, <2>3, <2>4, KnowsNext
<1>7. (job'.next) - 1 = k
  BY <1>5, <1>n
<1>8. WorkStands(b, job.next - 1)'
  <2>1. z = Partial(states'[b + 1], blocks'[b + 1], (job'.next) - 1)
    BY <1>2, <1>4, <1>7 DEF z
  <2>2. log = blocks'[b + 1][(job'.next) - 1]
    BY <1>2, <1>4, <1>7
  <2>3. Stands(job'.work, z) /\ Knows(blocks', job'.work, b, (job'.next) - 1)
    BY <1>4, <1>5, <1>6, <1>7
  <2>4. log.event # "Like" => Tells(told', z)
    BY <1>4
  <2> QED BY <2>1, <2>2, <2>3, <2>4 DEF WorkStands
<1>9. Block' = Block
  BY <1>4 DEF Block
<1>10. JobStands(b)'
  BY <1>1, <1>2, <1>4, <1>5, <1>7, <1>8, <1>9 DEF JobStands, n
<1>11. ToldStands(b)'
  BY <1>2, <1>4, <1>l DEF ToldStands
<1>12. TablesStand(b)'
  BY <1>2, <1>4 DEF TablesStand
<1> QED BY <1>4, <1>10, <1>11, <1>12 DEF StandsAt

\* The mint of block m and what stands before it.
LEMMA BeforeMint ==
    ASSUME History, MintedOnce, NEW m \in 1 .. Len(blocks),
           states[m].owner = Nothing, states[m + 1].owner # Nothing
    PROVE  /\ m - 1 \in 0 .. Len(blocks) /\ m - 1 < Len(blocks) /\ (m - 1) + 1 = m
           /\ m \in Nat /\ Len(blocks) \in Nat
           /\ states[m] = Genesis /\ StateOK(states[m])
           /\ \A c \in 1 .. m - 1 : blocks[c] = <<>>
           /\ Sends(blocks[m]) /\ Len(blocks[m]) \in 0 .. 2 /\ Len(blocks[m]) # 2
           /\ \A c \in m + 1 .. Len(states) : states[c].owner # Nothing
<1>1. /\ Len(blocks) \in Nat /\ Len(states) = Len(blocks) + 1
      /\ m - 1 \in 0 .. Len(blocks) /\ m - 1 < Len(blocks) /\ (m - 1) + 1 = m /\ (m - 1) + 2 = m + 1
      /\ m \in 1 .. Len(states) /\ m + 1 \in 1 .. Len(states) /\ m \in Nat
  BY DEF History
<1>2. states[m] = Genesis /\ \A c \in 1 .. m : states[c] = Genesis
  BY <1>1 DEF MintedOnce
<1>3. StateOK(states[m])
  BY <1>1 DEF History
<1>4. ASSUME NEW c \in 1 .. m - 1 PROVE blocks[c] = <<>>
  <2>1. /\ c \in 1 .. Len(blocks) /\ c - 1 \in 0 .. Len(blocks) /\ c - 1 < Len(blocks) /\ (c - 1) + 1 = c
        /\ (c - 1) + 2 = c + 1 /\ c \in 1 .. m /\ c + 1 \in 1 .. m
    BY <1>1
  <2>2. states[c + 1] = Genesis /\ states[c] = Genesis
    BY <1>2, <2>1
  <2>3. blocks[c] \in Seq(Logs) /\ Leads(states[c], blocks[c], states[c + 1])
    BY <2>1 DEF History
  <2>4. /\ Len(blocks[c]) \in 0 .. 2
        /\ states[c + 1] = Partial(states[c], blocks[c], Len(blocks[c]))
    BY <2>3 DEF Leads
  <2>5. Len(blocks[c]) # 0 => FALSE
    <3> DEFINE k == Len(blocks[c])
    <3> SUFFICES ASSUME k # 0 PROVE FALSE
      OBVIOUS
    <3>1. k \in 1 .. Len(blocks[c])
      BY <2>4
    <3> DEFINE s == Partial(states[c], blocks[c], k - 1)
    <3>2. StateOK(s) /\ Can(s, blocks[c][k]) /\ states[c + 1] = After(s, blocks[c][k])
      BY <2>1, <2>4, <3>1, LogOfBlock
    <3> HIDE DEF s, k
    <3>3. After(s, blocks[c][k]).owner # Nothing
      BY <3>2, AfterOK, IndexerAssumption DEF Can
    <3> QED BY <2>2, <3>2, <3>3 DEF Genesis
  <2> QED BY <2>3, <2>4, <2>5, EmptySeq
<1>5. Sends(blocks[m])
  BY <1>1, EndOfBlock
<1>6. Leads(states[m], blocks[m], states[m + 1])
  BY <1>1 DEF History
<1>7. Len(blocks[m]) \in 0 .. 2 /\ Len(blocks[m]) # 2
  <2>1. Len(blocks[m]) \in 0 .. 2
    BY <1>6 DEF Leads
  <2>2. ASSUME Len(blocks[m]) = 2 PROVE FALSE
    <3>1. Can(Partial(states[m], blocks[m], 1 - 1), blocks[m][1]) /\ blocks[m][1].event \in Others
      BY <1>6, <2>2 DEF Leads
    <3>2. states[m].deal # Nothing
      BY <3>1 DEF Can, Partial
    <3> QED BY <1>3, <3>2 DEF StateOK
  <2> QED BY <2>1, <2>2
<1>8. ASSUME NEW c \in m + 1 .. Len(states) PROVE states[c].owner # Nothing
  <2>1. c \in 1 .. Len(states) /\ m + 1 <= c
    BY <1>1
  <2>2. states[c].owner = Nothing => states[m + 1] = Genesis
    BY <1>1, <2>1 DEF MintedOnce
  <2> QED BY <2>2 DEF Genesis
<1> QED BY <1>1, <1>2, <1>3, <1>4, <1>5, <1>7, <1>8

\* Empty tables stand before the mint.
LEMMA EmptyStands ==
    ASSUME NEW t \in Tables, Empty(t)
    PROVE  Stands(t, Genesis) /\ \A x : ~HasRow(t, x)
<1>1. /\ DOMAIN t.transfers = {} /\ Len(t.transfers) = 0 /\ t.likes \in Nat
      /\ t.owner = Nothing
  BY DEF Empty, Tables
<1>2. Active(t) = {} /\ Sales(t) = {}
  BY <1>1 DEF Active, Sales
<1>3. Outcome(t) = Nothing /\ HasLast(Sales(t))
  BY <1>2 DEF Outcome, HasLast
<1>4. \A x : ~HasRow(t, x)
  BY <1>1 DEF HasRow
<1> QED BY <1>1, <1>2, <1>3, <1>4 DEF Stands, Genesis

LEMMA StandsEmpty ==
    ASSUME NEW t, Stands(t, Genesis)
    PROVE  Empty(t)
<1>1. t \in Tables /\ t.owner = Nothing /\ Len(t.transfers) = 0
  BY DEF Stands, Genesis
<1>2. t.transfers \in Seq(Transfers)
  BY <1>1, RowFields
<1>3. t.transfers = <<>>
  BY <1>1, <1>2, EmptySeq
<1> QED BY <1>1, <1>3 DEF Empty


\* With the position before the mint, the tables that miss it stand there again.
LEMMA Returns ==
    ASSUME IInv, NEW m \in 1 .. Len(blocks), MissesMint(m), job = Nothing,
           IF latest = Nothing THEN saved < m ELSE latest = m - 1
    PROVE  Stood
<1>1. tables \in Tables /\ Empty(tables)
  BY DEF IInv, TypeInv, MissesMint
<1>2. /\ m - 1 \in 0 .. Len(blocks) /\ m - 1 < Len(blocks) /\ (m - 1) + 1 = m /\ m \in Nat
      /\ states[m] = Genesis /\ Sends(blocks[m]) /\ \A c \in 1 .. m - 1 : blocks[c] = <<>>
  BY BeforeMint DEF IInv, MissesMint
<1>3. Stands(tables, states[(m - 1) + 1]) /\ \A x : ~HasRow(tables, x)
  BY <1>1, <1>2, EmptyStands
<1>4. Knows(blocks, tables, m - 1, 0)
  <2>1. \A c \in 1 .. m - 1 : 1 .. Len(blocks[c]) = {}
    BY <1>2
  <2>2. 1 .. 0 = {}
    OBVIOUS
  <2> QED BY <1>3, <2>1, <2>2 DEF Knows
<1>5. saved <= m - 1 /\ (latest # Nothing => saved <= latest /\ latest <= m - 1)
  <2>1. saved \in Nat /\ (latest # Nothing => saved <= latest /\ latest \in Nat)
    BY DEF IInv, TypeInv
  <2> QED BY <1>2, <2>1
<1>6. TablesStand(m - 1)
  BY <1>3, <1>4, <1>5 DEF TablesStand
<1>7. ToldStands(m - 1)
  BY <1>2 DEF ToldStands
<1>8. StandsAt(m - 1)
  BY <1>6, <1>7 DEF StandsAt, JobStands
<1> QED BY <1>2, <1>8 DEF Stood

\* A mint that is passed over is missed.
LEMMA MintPassed ==
    ASSUME IInv, OnCollectionTransfer, PassOver, NEW b \in 0 .. Len(blocks), StandsAt(b), latest = b
    PROVE  b + 1 \in 1 .. Len(blocks) /\ MissesMint(b + 1)'
<1> DEFINE k == job.next
<1>1. /\ job # Nothing /\ ~job.committed /\ k <= Len(Block) /\ CurrentLog.event = "Transfer"
  BY DEF OnCollectionTransfer, Handling
<1>2. /\ latest \in Nat /\ latest < Len(blocks) /\ Len(blocks) \in Nat /\ Len(states) = Len(blocks) + 1
      /\ job \in [next : 1 .. Len(Block) + 1, work : Tables, committed : BOOLEAN]
      /\ WorkStands(b, k - 1) /\ TablesStand(b)
      /\ Block = blocks[b + 1] /\ CurrentLog = blocks[b + 1][k]
      /\ History /\ MintedOnce
  BY <1>1 DEF IInv, History, TypeInv, StandsAt, JobStands, Block, CurrentLog
<1>3. b + 1 \in 1 .. Len(blocks) /\ b + 1 \in 1 .. Len(states) /\ b + 2 = (b + 1) + 1
  BY <1>2
<1>4. Len(Block) \in Nat /\ k \in 1 .. Len(Block)
  <2>1. Block \in Seq(Logs)
    BY <1>2, <1>3 DEF History
  <2>2. Len(Block) \in Nat
    BY <2>1
  <2> QED BY <1>1, <1>2, <2>2
<1>5. k = 1
  BY <1>1, <1>2, <1>4, LogOfBlock DEF StatusEvents
<1>6. /\ Can(states[b + 1], Block[1]) /\ Block[1].event = "Transfer"
      /\ StateOK(states[b + 1])
  <2>1. Can(Partial(states[b + 1], Block, 1 - 1), Block[1]) /\ StateOK(Partial(states[b + 1], Block, 1 - 1))
    BY <1>2, <1>4, <1>5, LogOfBlock
  <2> QED BY <1>1, <1>2, <1>5, <2>1 DEF Partial
<1>7. states[b + 1].owner = Nothing
  BY <1>6 DEF Can
<1>8. states[b + 2].owner # Nothing
  <2>1. Len(Block) = 1
    <3>1. Len(Block) # 2
      <4>1. Leads(states[b + 1], Block, states[b + 2])
        BY <1>2, <1>3 DEF History
      <4> QED BY <1>6, <4>1 DEF Leads, Others, StatusEvents
    <3> QED BY <1>2, <1>4, <3>1, LogOfBlock
  <2>2. states[b + 2] = After(states[b + 1], Block[1])
    <3>1. states[b + 2] = Partial(states[b + 1], Block, 1)
      BY <1>2, <2>1, EndOfBlock
    <3> QED BY <3>1 DEF Partial
  <2> QED BY <1>6, <2>2, AfterOK, IndexerAssumption
<1>9. states[b + 1] = Genesis
  BY <1>3, <1>7 DEF IInv, MintedOnce
<1>10. Empty(tables) /\ Empty(job.work)
  <2>1. Stands(tables, states[b + 1])
    BY <1>2 DEF TablesStand
  <2>2. Stands(job.work, Genesis)
    BY <1>2, <1>5, <1>9 DEF WorkStands, Partial
  <2> QED BY <1>9, <2>1, <2>2, StandsEmpty
<1>11. /\ job' = [job EXCEPT !.next = @ + 1] /\ UNCHANGED <<blocks, states, tables, saved, latest, told>>
  BY DEF PassOver
<1>12. job'.next = 2 /\ job'.work = job.work
  BY <1>2, <1>5, <1>11
<1>13. latest' = (b + 1) - 1
  BY <1>2, <1>11
<1>14. states'[b + 1].owner = Nothing /\ states'[(b + 1) + 1].owner # Nothing
  BY <1>3, <1>7, <1>8, <1>11
<1>15. Empty(tables') /\ Empty(job'.work)
  BY <1>10, <1>11, <1>12
<1> QED BY <1>2, <1>3, <1>11, <1>12, <1>13, <1>14, <1>15 DEF MissesMint

\* The tables are handled where they stand.
LEMMA HandleStands ==
    ASSUME IInv, Handle, NEW b \in 0 .. Len(blocks), StandsAt(b)
    PROVE  Stood' \/ Missed'
<1>1. latest \in Nat /\ latest <= b
  <2>1. job # Nothing
    BY HandledEvent
  <2> QED BY <2>1 DEF IInv, TypeInv, StandsAt, JobStands, TablesStand
<1>2. CASE latest < b
  BY <1>2, RereadKeeps DEF Stood
<1>3. CASE latest = b /\ ~(OnCollectionTransfer /\ PassOver)
  BY <1>3, FreshKeeps DEF Stood
<1>4. CASE latest = b /\ OnCollectionTransfer /\ PassOver
  <2>1. b + 1 \in 1 .. Len(blocks) /\ MissesMint(b + 1)'
    BY <1>4, MintPassed
  <2>2. blocks' = blocks
    BY <1>4 DEF PassOver
  <2> QED BY <2>1, <2>2 DEF Missed
<1> QED BY <1>1, <1>2, <1>3, <1>4

\* Of a token that is unknown all but its mint is passed over.
LEMMA UnknownPasses ==
    ASSUME Handle, Unknown(job.work), ~OnCollectionTransfer
    PROVE  PassOver
<1>1. \A status : Passes(status)
  BY DEF Passes
<1>2. CASE OnTransferInit \/ OnTransferDraft \/ OnTransferDraftCompletion
  BY <1>1, <1>2 DEF OnTransferInit, OnTransferDraft, OnTransferDraftCompletion
<1>3. CASE OnPublicKeySet \/ OnPasswordSet \/ OnTransferFraudReported
  BY <1>1, <1>3 DEF OnPublicKeySet, OnPasswordSet, OnTransferFraudReported, OnStatus
<1>4. CASE OnTransferFinish \/ OnTransferFraudDecided \/ OnTransferCancel
  BY <1>1, <1>4 DEF OnTransferFinish, OnTransferFraudDecided, OnTransferCancel
<1>5. CASE OnLike
  BY <1>5 DEF OnLike
<1> QED BY <1>2, <1>3, <1>4, <1>5 DEF Handle

LEMMA HandleMisses ==
    ASSUME IInv, Handle, NEW m \in 1 .. Len(blocks), MissesMint(m)
    PROVE  Missed'
<1> DEFINE k == job.next
<1>1. job # Nothing /\ ~job.committed /\ k <= Len(Block)
  BY HandledEvent
<1>2. /\ latest # Nothing /\ latest \in Nat /\ latest < Len(blocks) /\ m - 1 <= latest
      /\ job \in [next : 1 .. Len(Block) + 1, work : Tables, committed : BOOLEAN]
      /\ Empty(job.work) /\ (latest = m - 1 => k = 2)
      /\ Block = blocks[latest + 1] /\ CurrentLog = Block[k]
      /\ History /\ MintedOnce /\ states[m].owner = Nothing /\ states[m + 1].owner # Nothing
  BY <1>1 DEF IInv, TypeInv, MissesMint, Block, CurrentLog
<1>3. /\ Len(blocks[m]) \in 0 .. 2 /\ Len(blocks[m]) # 2 /\ m \in Nat /\ Len(blocks) \in Nat
      /\ \A c \in m + 1 .. Len(states) : states[c].owner # Nothing
  BY <1>2, BeforeMint
<1>4. m <= latest
  <2>1. latest = m - 1 => Len(Block) # 2 /\ Len(Block) \in 0 .. 2
    <3>1. latest = m - 1 => latest + 1 = m
      BY <1>2, <1>3
    <3> QED BY <1>2, <1>3, <3>1
  <2> QED BY <1>1, <1>2, <1>3, <2>1
<1>5. states[latest + 1].owner # Nothing
  <2>1. latest + 1 \in m + 1 .. Len(states)
    BY <1>2, <1>3, <1>4 DEF History
  <2> QED BY <1>3, <2>1
<1>6. ~OnCollectionTransfer
  <2> SUFFICES ASSUME OnCollectionTransfer PROVE FALSE
    OBVIOUS
  <2>1. CurrentLog.event = "Transfer"
    BY DEF OnCollectionTransfer, Handling
  <2>2. latest + 1 \in 1 .. Len(blocks) /\ latest \in 0 .. Len(blocks)
    BY <1>2, <1>3
  <2>3. Len(Block) \in Nat /\ k \in 1 .. Len(Block)
    <3>1. Block \in Seq(Logs)
      BY <1>2, <2>2 DEF History
    <3>2. Len(Block) \in Nat
      BY <3>1
    <3> QED BY <1>1, <1>2, <3>2
  <2>4. /\ Can(Partial(states[latest + 1], Block, k - 1), Block[k])
        /\ k = 1 \/ k = 2
        /\ k = 2 => Block[2].event \in StatusEvents
    BY <1>2, <2>2, <2>3, LogOfBlock
  <2>5. k = 1
    BY <1>2, <2>1, <2>4 DEF StatusEvents
  <2>6. Partial(states[latest + 1], Block, 1 - 1) = states[latest + 1]
    BY DEF Partial
  <2> QED BY <1>2, <1>5, <2>1, <2>4, <2>5, <2>6 DEF Can
<1>7. PassOver
  BY <1>2, <1>6, UnknownPasses DEF Empty, Unknown
<1>8. /\ job' = [job EXCEPT !.next = @ + 1] /\ UNCHANGED <<blocks, states, tables, saved, latest>>
  BY <1>7 DEF PassOver
<1>9. job'.work = job.work
  BY <1>2, <1>8
<1>10. latest # m - 1 /\ m - 1 <= latest
  BY <1>2, <1>3, <1>4
<1>11. MissesMint(m)'
  BY <1>2, <1>8, <1>9, <1>10 DEF MissesMint
<1> QED BY <1>8, <1>11 DEF Missed

-----------------------------------------------------------------------------
(* The types.                                                              *)

\* A row of the block being processed.
LEMMA NowType ==
    ASSUME latest \in Nat, latest < Len(blocks), History
    PROVE  /\ \A status \in Statuses : Now(status) \in TimedRows
           /\ \A status \in OrderStatuses : Now(status) \in [status : OrderStatuses, tx : 1 .. MaxBlocks]
<1>1. latest + 1 \in 1 .. MaxBlocks
  BY IndexerAssumption DEF History
<1> QED BY <1>1 DEF Now, TimedRows

\* A transfer with a status more of its own or of its order is one.
LEMMA AddsType ==
    ASSUME latest \in Nat, latest < Len(blocks), History,
           NEW r \in Transfers, NEW status \in Statuses
    PROVE  Adds(r, status) \in Transfers /\ Adds(r, status).to = r.to
<1> DEFINE rows == <<Now(status)>> \o r.statuses
<1>1. rows \in Seq(TimedRows)
  <2>1. Now(status) \in TimedRows
    BY NowType
  <2>2. r.statuses \in Seq(TimedRows)
    BY TransferFields DEF TimedRows
  <2> QED BY <2>1, <2>2
<1>2. Adds(r, status) = [r EXCEPT !.statuses = rows]
  BY DEF Adds
<1> HIDE DEF rows
<1> QED BY <1>1, <1>2 DEF Transfers, Rows, TimedRows

LEMMA AddsOrderType ==
    ASSUME latest \in Nat, latest < Len(blocks), History,
           NEW r \in Transfers, NEW status \in OrderStatuses
    PROVE  AddsOrder(r, status) \in Transfers /\ AddsOrder(r, status).to = r.to
<1>1. CASE r.order = Nothing
  BY <1>1 DEF AddsOrder
<1>2. CASE r.order # Nothing
  <2> DEFINE rows == <<Now(status)>> \o r.order
  <2>1. r.order \in Seq([status : OrderStatuses, tx : 1 .. MaxBlocks])
    BY <1>2, TransferFields
  <2>2. Now(status) \in [status : OrderStatuses, tx : 1 .. MaxBlocks]
    BY NowType
  <2>3. rows \in Seq([status : OrderStatuses, tx : 1 .. MaxBlocks])
    BY <2>1, <2>2
  <2>4. AddsOrder(r, status) = [r EXCEPT !.order = rows]
    BY <1>2 DEF AddsOrder
  <2> HIDE DEF rows
  <2> QED BY <2>3, <2>4 DEF Transfers, Rows
<1> QED BY <1>1, <1>2

\* The work and the message after a log.
Typed ==
    \E w \in Tables :
        /\ job' = [job EXCEPT !.next = job.next + 1, !.work = w]
        /\ told' = told \/ told'.owner \in Addresses
        /\ UNCHANGED <<blocks, states, tables, saved, latest, skipped>>

LEMMA DoneTyped ==
    ASSUME NEW w \in Tables, NEW m, m = told \/ m.owner \in Addresses, Done(w, m)
    PROVE  Typed
BY DEF Done, Typed

LEMMA InsertTyped ==
    ASSUME job.work \in Tables, ~Unknown(job.work), NEW r \in Transfers, Insert(r)
    PROVE  Typed
<1>1. Added(job.work, r) \in Tables
  BY AddedFields
<1>2. Done(Added(job.work, r), MessageOf(job.work.owner, r))
  BY DEF Insert, Added
<1>3. MessageOf(job.work.owner, r).owner \in Addresses
  BY RowFields DEF MessageOf, Unknown
<1> QED BY <1>1, <1>2, <1>3, DoneTyped

LEMMA BecomesTyped ==
    ASSUME job.work \in Tables, NEW i \in DOMAIN job.work.transfers, NEW r \in Transfers,
           NEW o \in Addresses, NEW shown, Becomes(i, r, o, shown)
    PROVE  Typed
<1>1. PICK e \in BOOLEAN :
        Done([job.work EXCEPT !.transfers[i] = r, !.owner = o, !.tied = e], MessageOf(o, shown))
  BY DEF Becomes, Ties
<1>2. Put(job.work, i, r, o, e) \in Tables
  BY PutFields DEF Puts
<1>3. Done(Put(job.work, i, r, o, e), MessageOf(o, shown))
  BY <1>1 DEF Put
<1>4. MessageOf(o, shown).owner \in Addresses
  BY DEF MessageOf
<1> QED BY <1>2, <1>3, <1>4, DoneTyped

LEMMA HandleTyped ==
    ASSUME IInv, Handle
    PROVE  Typed
<1> DEFINE k == job.next
<1> DEFINE t == job.work
<1>1. job # Nothing /\ ~job.committed /\ k <= Len(Block)
  BY HandledEvent
<1>2. /\ latest \in Nat /\ latest < Len(blocks) /\ Len(blocks) \in Nat /\ History
      /\ job \in [next : 1 .. Len(Block) + 1, work : Tables, committed : BOOLEAN]
      /\ Block = blocks[latest + 1] /\ CurrentLog = Block[k]
  BY <1>1 DEF IInv, History, TypeInv, Block, CurrentLog
<1>3. t \in Tables
  BY <1>2
<1>4. latest + 1 \in 1 .. Len(blocks) /\ latest \in 0 .. Len(blocks)
  BY <1>2
<1>5. Len(Block) \in Nat /\ k \in 1 .. Len(Block)
  <2>1. Block \in Seq(Logs)
    BY <1>2, <1>4 DEF History
  <2>2. Len(Block) \in Nat
    BY <2>1
  <2> QED BY <1>1, <1>2, <2>2
<1>6. PICK s : StateOK(s) /\ s.count + 1 \in 1 .. MaxBlocks /\ Can(s, CurrentLog)
  BY <1>2, <1>4, <1>5, LogOfBlock
<1>7. PassOver => Typed
  <2> SUFFICES ASSUME PassOver PROVE Typed
    OBVIOUS
  <2>1. job' = [job EXCEPT !.next = job.next + 1, !.work = t]
    BY <1>2, SameWork DEF PassOver
  <2> QED BY <1>3, <2>1 DEF PassOver, Typed
<1>8. \A i \in GetActiveTransfer : i \in DOMAIN t.transfers /\ t.transfers[i] \in Transfers
  BY <1>3, RowFields DEF GetActiveTransfer, Active
<1>9. ~Unknown(t) => t.owner \in Addresses
  BY <1>3, RowFields DEF Unknown
<1>s. /\ {"Created", "Drafted", "PublicKeySet", "PasswordSet", "FraudReported",
          "Finished", "Cancelled"} \subseteq Statuses
      /\ {"Created", "Fulfilled", "Finished", "FraudApproved", "Cancelled"} \subseteq OrderStatuses
      /\ Users \subseteq Addresses /\ ZeroAddress \in Addresses
  BY DEF Statuses, OrderStatuses, Addresses
<1>a. ASSUME NEW i \in GetActiveTransfer, NEW r, r \in Transfers, NEW o \in Addresses, NEW shown,
             Becomes(i, r, o, shown)
      PROVE  Typed
  BY <1>3, <1>8, <1>a, BecomesTyped
<1> HIDE DEF k, t
<1>10. CASE OnCollectionTransfer
  <2>1. CurrentLog.to \in Users
    BY <1>6, <1>10 DEF OnCollectionTransfer, Handling, Can
  <2> DEFINE w == [t EXCEPT !.owner = CurrentLog.to]
  <2>2. w \in Tables
    BY <1>3, <1>s, <2>1 DEF Tables
  <2>3. MessageOf(CurrentLog.to, Nothing).owner \in Addresses
    BY <1>s, <2>1 DEF MessageOf
  <2>4. PassOver \/ Done(w, MessageOf(CurrentLog.to, Nothing))
    BY <1>10 DEF OnCollectionTransfer, t
  <2> QED BY <1>7, <2>2, <2>3, <2>4, DoneTyped
<1>11. CASE OnTransferInit
  <2>1. CurrentLog.to \in Users /\ CurrentLog.number \in Positions
    BY <1>6, <1>11 DEF OnTransferInit, Handling, Can, Openers, Positions
  <2> DEFINE r == [number |-> CurrentLog.number, to |-> CurrentLog.to,
                   statuses |-> <<Now("Created")>>, order |-> Nothing]
  <2>2. PassOver \/ (Insert(r) /\ ~Unknown(t))
    BY <1>11 DEF OnTransferInit, Passes, t
  <2>3. Now("Created") \in TimedRows
    BY <1>2, <1>s, NowType
  <2>4. r \in Transfers
    BY <1>s, <2>1, <2>3 DEF Transfers, Rows, TimedRows
  <2> HIDE DEF r
  <2> QED BY <1>3, <1>7, <2>2, <2>4, InsertTyped DEF t
<1>12. CASE OnTransferDraft
  <2>1. CurrentLog.number \in Positions
    BY <1>6, <1>12 DEF OnTransferDraft, Handling, Can, Openers, Positions
  <2> DEFINE order == <<Now("Created")>>
  <2> DEFINE r == [number |-> CurrentLog.number, to |-> ZeroAddress,
                   statuses |-> <<Now("Drafted")>>, order |-> order]
  <2>2. PassOver \/ (Insert(r) /\ ~Unknown(t))
    BY <1>12 DEF OnTransferDraft, Passes, t
  <2>3. /\ Now("Drafted") \in TimedRows
        /\ Now("Created") \in [status : OrderStatuses, tx : 1 .. MaxBlocks]
    BY <1>2, <1>s, NowType
  <2>5. order \in Seq([status : OrderStatuses, tx : 1 .. MaxBlocks])
    BY <2>3
  <2> HIDE DEF order
  <2>4. r \in Transfers
    BY <1>s, <2>1, <2>3, <2>5 DEF Transfers, Rows, TimedRows
  <2> HIDE DEF r
  <2> QED BY <1>3, <1>7, <2>2, <2>4, InsertTyped DEF t
<1>13. CASE OnTransferDraftCompletion
  <2>1. CurrentLog.to \in Users
    BY <1>6, <1>13 DEF OnTransferDraftCompletion, Handling, Can
  <2> SUFFICES ASSUME ~Passes("Created") PROVE Typed
    BY <1>7, <1>13 DEF OnTransferDraftCompletion
  <2>2. PICK i \in GetActiveTransfer :
          LET draft == [t.transfers[i] EXCEPT !.to = CurrentLog.to]
              transfer == AddsOrder(Adds(draft, "Created"), "Fulfilled")
          IN Becomes(i, transfer, t.owner, transfer)
    BY <1>13 DEF OnTransferDraftCompletion, t
  <2> DEFINE draft == [t.transfers[i] EXCEPT !.to = CurrentLog.to]
  <2>3. draft \in Transfers
    BY <1>8, <1>s, <2>1 DEF Transfers
  <2> HIDE DEF draft
  <2>4. Adds(draft, "Created") \in Transfers
    BY <1>2, <1>s, <2>3, AddsType
  <2>5. AddsOrder(Adds(draft, "Created"), "Fulfilled") \in Transfers
    BY <1>2, <1>s, <2>4, AddsOrderType
  <2>6. t.owner \in Addresses
    BY <1>9 DEF Passes, t
  <2> QED BY <1>a, <2>2, <2>5, <2>6 DEF draft
<1>14. ASSUME NEW event, NEW status \in Statuses, OnStatus(event, status) PROVE Typed
  <2> SUFFICES ASSUME ~Passes(status) PROVE Typed
    BY <1>7, <1>14 DEF OnStatus
  <2>2. PICK i \in GetActiveTransfer :
          LET transfer == Adds(t.transfers[i], status)
          IN Becomes(i, transfer, t.owner, transfer)
    BY <1>14 DEF OnStatus, t
  <2>4. Adds(t.transfers[i], status) \in Transfers
    BY <1>2, <1>8, AddsType
  <2>6. t.owner \in Addresses
    BY <1>9 DEF Passes, t
  <2> QED BY <1>a, <2>2, <2>4, <2>6
<1>15. CASE OnPublicKeySet \/ OnPasswordSet \/ OnTransferFraudReported
  BY <1>14, <1>15, <1>s DEF OnPublicKeySet, OnPasswordSet, OnTransferFraudReported
<1>16. ASSUME NEW i \in GetActiveTransfer, NEW status \in Statuses, NEW order \in OrderStatuses
       PROVE  /\ AddsOrder(Adds(t.transfers[i], status), order) \in Transfers
              /\ AddsOrder(Adds(t.transfers[i], status), order).to \in Addresses
  <2>1. Adds(t.transfers[i], status) \in Transfers /\ t.transfers[i] \in Transfers
    BY <1>2, <1>8, AddsType
  <2>2. AddsOrder(Adds(t.transfers[i], status), order) \in Transfers
    BY <1>2, <2>1, AddsOrderType
  <2> QED BY <2>2, TransferFields
<1>17. CASE OnTransferFinish
  <2> SUFFICES ASSUME ~Passes("Finished") PROVE Typed
    BY <1>7, <1>17 DEF OnTransferFinish
  <2>2. PICK i \in GetActiveTransfer :
          LET transfer == AddsOrder(Adds(t.transfers[i], "Finished"), "Finished")
          IN Becomes(i, transfer, transfer.to, Nothing)
    BY <1>17 DEF OnTransferFinish, t
  <2> QED BY <1>a, <1>s, <1>16, <2>2
<1>18. CASE OnTransferFraudDecided
  <2> SUFFICES ASSUME ~Passes("Finished") PROVE Typed
    BY <1>7, <1>18 DEF OnTransferFraudDecided
  <2> DEFINE order == IF CurrentLog.approved THEN "FraudApproved" ELSE "Finished"
  <2>2. PICK i \in GetActiveTransfer :
          LET transfer == AddsOrder(Adds(t.transfers[i], "Finished"), order)
          IN Becomes(i, transfer, IF CurrentLog.approved THEN t.owner ELSE transfer.to, transfer)
    BY <1>18 DEF OnTransferFraudDecided, t
  <2>3. order \in OrderStatuses
    BY <1>s
  <2> HIDE DEF order
  <2> DEFINE r == AddsOrder(Adds(t.transfers[i], "Finished"), order)
  <2>4. r \in Transfers /\ r.to \in Addresses
    BY <1>s, <1>16, <2>3
  <2>5. t.owner \in Addresses
    BY <1>9 DEF Passes, t
  <2>6. Becomes(i, r, IF CurrentLog.approved THEN t.owner ELSE r.to, r)
    BY <2>2
  <2> HIDE DEF r
  <2> QED BY <1>a, <2>4, <2>5, <2>6
<1>19. CASE OnTransferCancel
  <2> SUFFICES ASSUME ~Passes("Cancelled") PROVE Typed
    BY <1>7, <1>19 DEF OnTransferCancel
  <2>2. PICK i \in GetActiveTransfer :
          LET transfer == AddsOrder(Adds(t.transfers[i], "Cancelled"), "Cancelled")
          IN Becomes(i, transfer, t.owner, Nothing)
    BY <1>19 DEF OnTransferCancel, t
  <2>5. t.owner \in Addresses
    BY <1>9 DEF Passes, t
  <2> QED BY <1>a, <1>s, <1>16, <2>2, <2>5
<1>20. CASE OnLike
  <2> DEFINE w == LikedTables(t)
  <2>1. w \in Tables
    BY <1>3 DEF Tables, LikedTables
  <2>2. PassOver \/ Done(w, told)
    BY <1>20 DEF OnLike, LikedTables, t
  <2> QED BY <1>7, <2>1, <2>2, DoneTyped
<1> QED BY <1>10, <1>11, <1>12, <1>13, <1>15, <1>17, <1>18, <1>19, <1>20 DEF Handle

LEMMA HandleTypes == ASSUME IInv, Handle PROVE TypeInv' /\ UNCHANGED <<blocks, states, skipped>>
<1> DEFINE n == Len(Block)
<1>1. PICK w \in Tables :
        /\ job' = [job EXCEPT !.next = job.next + 1, !.work = w]
        /\ told' = told \/ told'.owner \in Addresses
        /\ UNCHANGED <<blocks, states, tables, saved, latest, skipped>>
  BY HandleTyped DEF Typed
<1>2. job # Nothing /\ job.next <= n
  BY HandledEvent
<1>3. /\ latest # Nothing /\ latest \in Nat /\ latest < Len(blocks) /\ Len(blocks) \in Nat
      /\ job \in [next : 1 .. n + 1, work : Tables, committed : BOOLEAN]
  BY <1>2 DEF IInv, History, TypeInv
<1>4. n \in Nat
  <2>1. latest + 1 \in 1 .. Len(blocks)
    BY <1>3
  <2>2. Block \in Seq(Logs)
    BY <2>1 DEF IInv, History, Block
  <2> QED BY <2>2
<1>5. job' \in [next : 1 .. n + 1, work : Tables, committed : BOOLEAN]
  <2> HIDE DEF n
  <2> QED BY <1>1, <1>2, <1>3, <1>4, JobFields
<1>6. Block' = Block
  BY <1>1 DEF Block
<1> QED BY <1>1, <1>3, <1>5, <1>6 DEF IInv, TypeInv

-----------------------------------------------------------------------------
(* The loop keeps the invariant.                                           *)

\* What the invariant knows of a job, whatever the block it stands at.
LEMMA JobIs ==
    ASSUME IInv, NEW b \in 0 .. Len(blocks), StandsAt(b)
    PROVE  /\ saved \in Nat /\ saved <= b /\ b \in Nat /\ Len(blocks) \in Nat
           /\ latest \in Nat \cup {Nothing}
           /\ latest # Nothing => latest \in Nat /\ saved <= latest /\ latest <= b
           /\ job # Nothing =>
                /\ latest # Nothing /\ latest < Len(blocks)
                /\ job \in [next : 1 .. Len(Block) + 1, work : Tables, committed : BOOLEAN]
                /\ job.committed => latest < b
                /\ ~job.committed /\ latest < b => RereadStands(b)
                /\ ~job.committed /\ latest = b => WorkStands(b, job.next - 1)
           /\ Nothing \notin Nat
BY IndexerAssumption DEF IInv, History, TypeInv, StandsAt, TablesStand, JobStands

\* The loop leaves the chain alone.
LEMMA ChainKept ==
    ASSUME IInv, UNCHANGED <<blocks, states>>
    PROVE  History' /\ LikesGrow' /\ MintedOnce'
BY DEF IInv, History, LikesGrow, State, OtherBlocks, MintedOnce

LEMMA LoopTypes == ASSUME IInv, Loop PROVE TypeInv' /\ UNCHANGED <<blocks, states>>
<1>1. UNCHANGED <<blocks, states>> /\ Block' = (blocks[latest' + 1])
  BY DEF Loop, Start, Crash, Begin, Rollback, Commit, SetLastBlock, SkipBlock, Block
<1>t. /\ tables \in Tables /\ skipped \in BOOLEAN
      /\ saved \in Nat /\ saved <= Len(blocks) /\ Len(blocks) \in Nat
      /\ latest # Nothing => latest \in Nat /\ saved <= latest /\ latest <= Len(blocks)
      /\ job # Nothing =>
            /\ latest # Nothing /\ latest < Len(blocks)
            /\ job \in [next : 1 .. Len(Block) + 1, work : Tables, committed : BOOLEAN]
      /\ told # Nothing => told.owner \in Addresses
  BY DEF IInv, History, TypeInv
<1>2. CASE Start \/ Crash \/ Rollback
  BY <1>1, <1>2, <1>t DEF Start, Crash, Rollback, TypeInv, Block
<1>3. CASE Begin
  <2>1. Len(Block) + 1 \in Nat \ {0}
    <3>1. latest + 1 \in 1 .. Len(blocks)
      BY <1>3, <1>t DEF Begin
    <3>2. Block \in Seq(Logs)
      BY <3>1 DEF IInv, History, Block
    <3> QED BY <3>2
  <2>2. job' \in [next : 1 .. Len(Block) + 1, work : Tables, committed : BOOLEAN]
    BY <1>3, <1>t, <2>1 DEF Begin
  <2>3. Block' = Block
    BY <1>3 DEF Begin, Block
  <2> QED BY <1>1, <1>3, <1>t, <2>2, <2>3 DEF Begin, TypeInv
<1>4. CASE Commit
  <2>1. job' \in [next : 1 .. Len(Block) + 1, work : Tables, committed : BOOLEAN] /\ tables' \in Tables
    BY <1>4, <1>t DEF Commit
  <2>2. Block' = Block
    BY <1>4 DEF Commit, Block
  <2> QED BY <1>1, <1>4, <1>t, <2>1, <2>2 DEF Commit, TypeInv
<1>5. CASE \E isSaved \in BOOLEAN : SetLastBlock(isSaved) \/ SkipBlock(isSaved)
  <2>1. PICK isSaved \in BOOLEAN : SetLastBlock(isSaved) \/ SkipBlock(isSaved)
    BY <1>5
  <2>2. /\ saved' = (IF isSaved THEN latest + 1 ELSE saved) /\ latest' = latest + 1 /\ job' = Nothing
        /\ UNCHANGED <<blocks, states, tables, told>> /\ skipped' \in BOOLEAN
        /\ latest # Nothing /\ latest < Len(blocks)
    BY <1>t, <2>1 DEF SetLastBlock, SkipBlock
  <2>3. /\ saved' \in Nat /\ latest' \in Nat /\ saved' <= latest' /\ latest' <= Len(blocks)
        /\ saved' <= Len(blocks)
    BY <1>t, <2>2
  <2> QED BY <1>t, <2>2, <2>3 DEF TypeInv
<1> QED BY <1>1, <1>2, <1>3, <1>4, <1>5 DEF Loop

LEMMA StartStands ==
    ASSUME IInv, Start, NEW b \in 0 .. Len(blocks), StandsAt(b)
    PROVE  StandsAt(b)'
<1>1. StandsAt(b)
  OBVIOUS
<1>2. StandsAt(b)'
  <2>1. job = Nothing
    BY <1>1 DEF StandsAt, JobStands, Start
  <2>2. TablesStand(b)'
    BY <1>1, JobIs DEF StandsAt, TablesStand, Start
  <2>3. ToldStands(b)' /\ JobStands(b)'
    BY <1>1, <2>1 DEF StandsAt, ToldStands, JobStands, Start
  <2> QED BY <2>2, <2>3 DEF StandsAt
<1> QED BY <1>2

LEMMA CrashStands ==
    ASSUME IInv, Crash, NEW b \in 0 .. Len(blocks), StandsAt(b)
    PROVE  StandsAt(b)'
<1>1. StandsAt(b)
  OBVIOUS
<1>2. StandsAt(b)'
  BY <1>1 DEF StandsAt, TablesStand, ToldStands, JobStands, Crash
<1> QED BY <1>2

LEMMA RollbackStands ==
    ASSUME IInv, Rollback, NEW b \in 0 .. Len(blocks), StandsAt(b)
    PROVE  StandsAt(b)'
<1>1. StandsAt(b)
  OBVIOUS
<1>2. StandsAt(b)'
  BY <1>1 DEF StandsAt, TablesStand, ToldStands, JobStands, Rollback
<1> QED BY <1>2

LEMMA BeginStands ==
    ASSUME IInv, Begin, NEW b \in 0 .. Len(blocks), StandsAt(b)
    PROVE  StandsAt(b)'
<1>1. StandsAt(b)
  OBVIOUS
<1>2. /\ job' = [next |-> 1, work |-> tables, committed |-> FALSE]
      /\ latest # Nothing /\ latest < Len(blocks)
      /\ UNCHANGED <<blocks, states, tables, saved, latest, told>>
  BY DEF Begin
<1>3. Stands(tables, states[b + 1]) /\ Knows(blocks, tables, b, 0) /\ tables \in Tables
  BY <1>1 DEF StandsAt, TablesStand, Stands
<1>4. Len(Block) + 1 \in Nat \ {0}
  <2>1. Block \in Seq(Logs)
    BY <1>1, <1>2, JobIs DEF IInv, History, Block
  <2> QED BY <2>1
<1>5. job' \in [next : 1 .. Len(Block) + 1, work : Tables, committed : BOOLEAN]
  BY <1>2, <1>3, <1>4
<1>6. RereadStands(b)' /\ WorkStands(b, 0)'
  BY <1>2, <1>3 DEF RereadStands, WorkStands, Partial
<1>7. Block' = Block /\ (job'.next) - 1 = 0 /\ ~job'.committed
  BY <1>2 DEF Block
<1>8. JobStands(b)'
  BY <1>2, <1>5, <1>6, <1>7 DEF JobStands
<1>9. TablesStand(b)' /\ ToldStands(b)'
  BY <1>1, <1>2 DEF StandsAt, TablesStand, ToldStands
<1>10. StandsAt(b)'
  BY <1>8, <1>9 DEF StandsAt
<1> QED BY <1>10

\* A committed block that was handled for the first time is the next of those the tables have.
LEMMA CommitMoves ==
    ASSUME IInv, Commit, NEW b \in 0 .. Len(blocks), StandsAt(b)
    PROVE  \E c \in 0 .. Len(blocks) : c \in {b, b + 1} /\ StandsAt(c)'
<1>1. StandsAt(b)
  OBVIOUS
<1>2. /\ job # Nothing /\ ~job.committed /\ job.next > Len(Block)
      /\ tables' = job.work /\ job' = [job EXCEPT !.committed = TRUE]
      /\ UNCHANGED <<blocks, states, saved, latest, told>>
  BY DEF Commit
<1>3. /\ saved \in Nat /\ saved <= b /\ b \in Nat /\ Len(blocks) \in Nat
      /\ latest # Nothing /\ latest \in Nat /\ saved <= latest /\ latest <= b /\ latest < Len(blocks)
      /\ job \in [next : 1 .. Len(Block) + 1, work : Tables, committed : BOOLEAN]
      /\ latest < b => RereadStands(b)
      /\ latest = b => WorkStands(b, job.next - 1)
  BY <1>1, <1>2, JobIs
<1>4. Block' = Block
  BY <1>2 DEF Block
<1>5. /\ job' \in [next : 1 .. Len(Block) + 1, work : Tables, committed : BOOLEAN]
      /\ job'.committed
  BY <1>2, <1>3
<1>6. CASE latest < b
  <2>1. Stands(tables', states[b + 1]) /\ Knows(blocks, tables', b, 0)
    BY <1>2, <1>3, <1>6 DEF RereadStands
  <2>2. TablesStand(b)'
    BY <1>2, <1>3, <2>1 DEF TablesStand
  <2>3. ToldStands(b)'
    BY <1>1, <1>2 DEF StandsAt, ToldStands
  <2>4. JobStands(b)'
    BY <1>2, <1>3, <1>4, <1>5, <1>6 DEF JobStands
  <2>5. StandsAt(b)'
    BY <2>2, <2>3, <2>4 DEF StandsAt
  <2> QED BY <2>5
<1>7. CASE latest = b
  <2> DEFINE c == b + 1
  <2> DEFINE logs == blocks[c]
  <2> DEFINE k == Len(logs)
  <2>1. c \in 0 .. Len(blocks) /\ c \in Nat /\ latest < c /\ saved <= c /\ b < Len(blocks)
    BY <1>3, <1>7
  <2>2. logs = Block /\ job.next - 1 = k /\ k \in Nat
    <3>1. logs = Block
      BY <1>7 DEF Block
    <3>2. Block \in Seq(Logs)
      BY <2>1, <3>1 DEF IInv, History
    <3>3. k \in Nat /\ k = Len(Block)
      BY <3>1, <3>2
    <3> QED BY <1>2, <1>3, <3>1, <3>3
  <2>3. /\ states[c + 1] = Partial(states[c], logs, k)
        /\ logs = <<>> => states[c + 1] = states[c]
        /\ ~Sends(logs) => /\ states[c + 1].owner = states[c].owner
                            /\ states[c + 1].deal = states[c].deal
    <3>1. c + 1 = b + 2
      BY <1>3
    <3> QED BY <1>1, <2>1, <3>1, EndOfBlock DEF IInv
  <2>w. /\ Stands(tables', states[c + 1]) /\ Knows(blocks, tables', b, k)
        /\ k > 0 /\ logs[k].event # "Like" => Tells(told, states[c + 1])
    BY <1>2, <1>3, <1>7, <2>2, <2>3 DEF WorkStands
  <2>4. Knows(blocks, tables', c, 0)
    BY <1>3, <2>2, <2>w, KnowsBlock
  <2>5. TablesStand(c)'
    BY <1>2, <1>3, <2>1, <2>w, <2>4 DEF TablesStand
  <2>6. told # Nothing => Tells(told, states[c + 1])
    <3> SUFFICES ASSUME told # Nothing PROVE Tells(told, states[c + 1])
      OBVIOUS
    <3>1. CASE Sends(logs)
      <4>1. k > 0
        <5>1. logs \in Seq(Logs)
          BY <2>1 DEF IInv, History
        <5>2. k # 0
          BY <3>1, <5>1, EmptySeq DEF Sends
        <5> QED BY <2>2, <5>2
      <4> QED BY <2>w, <3>1, <4>1 DEF Sends
    <3>2. CASE ~Sends(logs)
      <4>1. Tells(told, states[c])
        BY <1>1, <3>2 DEF StandsAt, ToldStands
      <4> QED BY <2>3, <3>2, <4>1 DEF Tells
    <3> QED BY <3>1, <3>2
  <2> HIDE DEF c
  <2>7. ToldStands(c)'
    BY <1>2, <2>6 DEF ToldStands
  <2>8. JobStands(c)'
    BY <1>2, <1>3, <1>4, <1>5, <2>1 DEF JobStands
  <2>9. StandsAt(c)'
    BY <2>5, <2>7, <2>8 DEF StandsAt
  <2> QED BY <2>1, <2>9 DEF c
<1> QED BY <1>3, <1>6, <1>7

LEMMA SetLastBlockStands ==
    ASSUME IInv, NEW isSaved \in BOOLEAN, SetLastBlock(isSaved), NEW b \in 0 .. Len(blocks), StandsAt(b)
    PROVE  StandsAt(b)'
<1>1. StandsAt(b)
  OBVIOUS
<1>2. /\ job # Nothing /\ job.committed
      /\ saved' = (IF isSaved THEN latest + 1 ELSE saved) /\ latest' = latest + 1 /\ job' = Nothing
      /\ UNCHANGED <<blocks, states, tables, told>>
  BY DEF SetLastBlock
<1>3. /\ saved \in Nat /\ b \in Nat /\ latest \in Nat /\ saved <= latest /\ latest < b
  BY <1>1, <1>2, JobIs
<1>4. saved' \in Nat /\ latest' \in Nat /\ saved' <= latest' /\ latest' <= b /\ saved' <= b
  BY <1>2, <1>3
<1>5. StandsAt(b)'
  BY <1>1, <1>2, <1>4 DEF StandsAt, TablesStand, ToldStands, JobStands
<1> QED BY <1>5

\* An empty block changes nothing.
LEMMA SkipBlockStands ==
    ASSUME IInv, NEW isSaved \in BOOLEAN, SkipBlock(isSaved), ~skipped',
           NEW b \in 0 .. Len(blocks), StandsAt(b)
    PROVE  Stood'
<1>1. StandsAt(b)
  OBVIOUS
<1>2. /\ job = Nothing /\ latest # Nothing /\ latest < Len(blocks) /\ Block = <<>>
      /\ saved' = (IF isSaved THEN latest + 1 ELSE saved) /\ latest' = latest + 1 /\ job' = Nothing
      /\ UNCHANGED <<blocks, states, tables, told>>
  BY DEF SkipBlock
<1>3. /\ saved \in Nat /\ b \in Nat /\ latest \in Nat /\ saved <= latest /\ latest <= b
      /\ Len(blocks) \in Nat
  BY <1>1, <1>2, JobIs
<1>4. saved' \in Nat /\ latest' \in Nat /\ saved' <= latest'
  BY <1>2, <1>3
<1>5. CASE latest < b
  <2>1. latest' <= b /\ saved' <= b
    BY <1>2, <1>3, <1>4, <1>5
  <2>2. StandsAt(b)'
    BY <1>1, <1>2, <1>4, <2>1 DEF StandsAt, TablesStand, ToldStands, JobStands
  <2> QED BY <1>2, <2>2 DEF Stood
<1>6. CASE latest = b
  <2> DEFINE c == b + 1
  <2>1. c \in 0 .. Len(blocks) /\ latest' <= c /\ saved' <= c /\ b < Len(blocks) /\ c \in Nat
    BY <1>2, <1>3, <1>4, <1>6
  <2>2. blocks[c] = <<>> /\ Len(blocks[c]) = 0
    BY <1>2, <1>6 DEF Block
  <2>3. states[c + 1] = states[c]
    <3>1. c + 1 = b + 2
      BY <1>3
    <3> QED BY <1>1, <2>1, <2>2, <3>1, EndOfBlock DEF IInv
  <2>4. Knows(blocks, tables, c, 0)
    BY <1>1, <1>3, <2>2, KnowsBlock DEF StandsAt, TablesStand
  <2>5. ~Sends(blocks[c])
    BY <2>2 DEF Sends
  <2>6. Stands(tables, states[c + 1]) /\ (told # Nothing => Tells(told, states[c + 1]))
    BY <1>1, <2>3, <2>5 DEF StandsAt, TablesStand, ToldStands
  <2> HIDE DEF c
  <2>7. StandsAt(c)'
    BY <1>2, <1>4, <2>1, <2>4, <2>6 DEF StandsAt, TablesStand, ToldStands, JobStands
  <2> QED BY <1>2, <2>1, <2>7 DEF Stood
<1> QED BY <1>3, <1>5, <1>6

LEMMA Initial == Init => IInv
<1> SUFFICES ASSUME Init PROVE IInv
  OBVIOUS
<1> USE DEF Init
<1>1. StateOK(Genesis) /\ Genesis.count = 0 /\ Genesis.likes = 0
  BY DEF StateOK, ContractStates, Genesis
<1>2. /\ Len(blocks) = 0 /\ Len(states) = 1 /\ states[1] = Genesis /\ State = Genesis
      /\ blocks \in Seq(Seq(Logs)) /\ states \in Seq(ContractStates)
  BY <1>1 DEF StateOK, State
<1>3. History
  <2>1. \A c \in 1 .. Len(states) : c = 1
    BY <1>2
  <2>2. Len(blocks) <= MaxBlocks /\ Len(states) = Len(blocks) + 1
    BY <1>2, IndexerAssumption
  <2>3. \A c \in 1 .. Len(blocks) : FALSE
    BY <1>2
  <2>4. \A c \in 1 .. Len(states) : StateOK(states[c]) /\ states[c].count < c
    BY <1>1, <1>2, <2>1
  <2> QED BY <1>2, <2>2, <2>3, <2>4 DEF History
<1>4. LikesGrow
  <2>1. OtherBlocks = {}
    BY DEF OtherBlocks
  <2>2. Cardinality(OtherBlocks) = 0
    BY <2>1, FS_EmptySet
  <2>3. \A c \in 1 .. Len(states) : c = 1
    BY <1>2
  <2> QED BY <1>1, <1>2, <2>2, <2>3, IndexerAssumption DEF LikesGrow
<1>5. Stands(tables, Genesis)
  <2>1. /\ tables \in Tables /\ DOMAIN tables.transfers = {} /\ Len(tables.transfers) = 0
        /\ tables.owner = Nothing /\ tables.likes = 0
    BY DEF Tables
  <2>2. Active(tables) = {} /\ Sales(tables) = {}
    BY <2>1 DEF Active, Sales
  <2>3. Outcome(tables) = Nothing /\ HasLast(Sales(tables))
    BY <2>2 DEF Outcome, HasLast
  <2>4. /\ Genesis.owner = Nothing /\ Genesis.count = 0 /\ Genesis.deal = Nothing
        /\ Genesis.outcome = Nothing /\ Genesis.likes = 0
    BY DEF Genesis
  <2> HIDE DEF Init
  <2> QED BY <2>1, <2>2, <2>3, <2>4 DEF Stands
<1>6. Knows(blocks, tables, 0, 0)
  <2>1. \A x : ~HasRow(tables, x)
    BY DEF HasRow
  <2>2. 1 .. 0 = {}
    OBVIOUS
  <2> QED BY <2>1, <2>2 DEF Knows
<1>7. StandsAt(0)
  BY <1>2, <1>5, <1>6 DEF StandsAt, TablesStand, ToldStands, JobStands
<1>8. MintedOnce
  <2>1. \A c \in 1 .. Len(states) : c = 1
    BY <1>2
  <2> QED BY <1>2, <2>1 DEF MintedOnce
<1>9. TypeInv
  <2>1. tables \in Tables
    BY <1>5 DEF Stands
  <2>2. Len(blocks) \in Nat /\ saved \in Nat /\ saved <= Len(blocks)
    BY <1>2
  <2> QED BY <2>1, <2>2 DEF TypeInv
<1>10. Stood
  BY <1>2, <1>7 DEF Stood
<1> QED BY <1>3, <1>4, <1>8, <1>9, <1>10 DEF IInv

\* Where the tables stand they go on, or the mint is passed over.
LEMMA StoodKept ==
    ASSUME IInv, [Next]_vars, ~skipped', Stood
    PROVE  Stood' \/ Missed'
<1>1. PICK b \in 0 .. Len(blocks) : StandsAt(b)
  BY DEF Stood
<1>2. CASE Chain
  BY <1>1, <1>2, ChainStands DEF Stood
<1>3. CASE Handle
  BY <1>1, <1>3, HandleStands
<1>4. CASE Start \/ Crash \/ Begin \/ Rollback
  <2>1. StandsAt(b)'
    BY <1>1, <1>4, StartStands, CrashStands, BeginStands, RollbackStands
  <2> QED BY <1>1, <1>4, <2>1 DEF Stood, Start, Crash, Begin, Rollback
<1>5. CASE Commit
  <2>1. PICK c \in 0 .. Len(blocks) : StandsAt(c)'
    BY <1>1, <1>5, CommitMoves
  <2> QED BY <1>5, <2>1 DEF Stood, Commit
<1>6. ASSUME NEW isSaved \in BOOLEAN, SetLastBlock(isSaved) PROVE Stood'
  <2>1. StandsAt(b)'
    BY <1>1, <1>6, SetLastBlockStands
  <2> QED BY <1>1, <1>6, <2>1 DEF Stood, SetLastBlock
<1>7. ASSUME NEW isSaved \in BOOLEAN, SkipBlock(isSaved) PROVE Stood'
  BY <1>1, <1>7, SkipBlockStands
<1>8. CASE UNCHANGED vars
  <2>1. StandsAt(b)'
    BY <1>1, <1>8
        DEF vars, StandsAt, TablesStand, ToldStands, JobStands, RereadStands, WorkStands, Block
  <2> QED BY <1>1, <1>8, <2>1 DEF vars, Stood
<1> QED BY <1>2, <1>3, <1>4, <1>5, <1>6, <1>7, <1>8 DEF Next, Loop

\* Tables that miss the mint have nothing until the position is before it again.
LEMMA MissedKept ==
    ASSUME IInv, [Next]_vars, ~skipped', Missed
    PROVE  Stood' \/ Missed'
<1>1. PICK m \in 1 .. Len(blocks) : MissesMint(m)
  BY DEF Missed
<1>2. CASE job = Nothing /\ IF latest = Nothing THEN saved < m ELSE latest = m - 1
  BY <1>1, <1>2, Returns, StoodKept
<1>3. CASE ~(job = Nothing /\ IF latest = Nothing THEN saved < m ELSE latest = m - 1)
  <2>1. /\ m \in Nat /\ saved \in Nat /\ (latest # Nothing => latest \in Nat /\ m - 1 <= latest)
        /\ states[m].owner = Nothing /\ states[m + 1].owner # Nothing
        /\ Empty(tables)
        /\ job # Nothing => Empty(job.work) /\ (latest = m - 1 => job.next = 2)
    BY <1>1 DEF IInv, TypeInv, MissesMint
  <2>2. CASE Chain
    BY <1>1, <2>2, ChainMisses DEF Missed
  <2>3. CASE Handle
    BY <1>1, <2>3, HandleMisses
  <2>4. CASE Start
    <3>1. job = Nothing
      BY <2>4 DEF IInv, TypeInv, Start
    <3>2. m - 1 <= latest' /\ job' = Nothing
      BY <1>3, <2>1, <2>4, <3>1 DEF Start
    <3>3. MissesMint(m)'
      BY <2>1, <2>4, <3>2 DEF MissesMint, Start
    <3> QED BY <2>4, <3>3 DEF Missed, Start
  <2>5. CASE Crash
    <3>1. MissesMint(m)'
      BY <2>1, <2>5 DEF MissesMint, Crash
    <3> QED BY <2>5, <3>1 DEF Missed, Crash
  <2>6. CASE Rollback
    <3>1. MissesMint(m)'
      BY <2>1, <2>6 DEF MissesMint, Rollback
    <3> QED BY <2>6, <3>1 DEF Missed, Rollback
  <2>7. CASE Begin
    <3>1. latest # m - 1 /\ job'.work = tables
      BY <1>3, <2>7 DEF Begin
    <3>2. MissesMint(m)'
      BY <2>1, <2>7, <3>1 DEF MissesMint, Begin
    <3> QED BY <2>7, <3>2 DEF Missed, Begin
  <2>8. CASE Commit
    <3>1. job'.work = job.work /\ job'.next = job.next /\ tables' = job.work /\ job # Nothing
      BY <2>8 DEF Commit, IInv, TypeInv
    <3>2. MissesMint(m)'
      BY <2>1, <2>8, <3>1 DEF MissesMint, Commit
    <3> QED BY <2>8, <3>2 DEF Missed, Commit
  <2>9. ASSUME NEW isSaved \in BOOLEAN, SetLastBlock(isSaved) \/ SkipBlock(isSaved) PROVE Missed'
    <3>1. /\ latest # Nothing /\ latest' = latest + 1 /\ job' = Nothing
          /\ UNCHANGED <<blocks, states, tables>>
      BY <2>9 DEF SetLastBlock, SkipBlock, IInv, TypeInv
    <3>2. m - 1 <= latest'
      BY <2>1, <3>1
    <3>3. MissesMint(m)'
      BY <2>1, <3>1, <3>2 DEF MissesMint
    <3> QED BY <3>1, <3>3 DEF Missed
  <2>10. CASE UNCHANGED vars
    BY <1>1, <2>10 DEF vars, Missed, MissesMint
  <2> QED BY <2>2, <2>3, <2>4, <2>5, <2>6, <2>7, <2>8, <2>9, <2>10 DEF Next, Loop
<1> QED BY <1>2, <1>3

LEMMA Inductive == IInv /\ [Next]_vars => IInv'
<1> SUFFICES ASSUME IInv, [Next]_vars PROVE IInv'
  OBVIOUS
<1>1. History' /\ LikesGrow' /\ MintedOnce' /\ TypeInv' /\ (skipped => skipped')
  <2>1. CASE Chain
    BY <2>1, ChainGrows, ChainTypes DEF IInv
  <2>2. CASE Handle
    BY <2>2, HandleTypes, ChainKept
  <2>3. CASE Loop
    <3>1. skipped => skipped'
      BY <2>3 DEF Loop, Start, Crash, Begin, Rollback, Commit, SetLastBlock, SkipBlock
    <3> QED BY <2>3, <3>1, LoopTypes, ChainKept
  <2>4. CASE UNCHANGED vars
    <3>1. TypeInv'
      BY <2>4 DEF vars, IInv, TypeInv, Block
    <3> QED BY <2>4, <3>1, ChainKept DEF vars
  <2> QED BY <2>1, <2>2, <2>3, <2>4 DEF Next
<1>2. ~skipped' => Stood' \/ Missed'
  <2> SUFFICES ASSUME ~skipped' PROVE Stood' \/ Missed'
    OBVIOUS
  <2>1. Stood \/ Missed
    BY <1>1 DEF IInv
  <2> QED BY <2>1, StoodKept, MissedKept
<1> QED BY <1>1, <1>2 DEF IInv

LEMMA Invariant == Spec => []IInv
<1>1. Init => IInv
  BY Initial
<1>2. IInv /\ [Next]_vars => IInv'
  BY Inductive
<1> QED BY <1>1, <1>2, PTL DEF Spec

-----------------------------------------------------------------------------
(* The properties.                                                         *)

\* What the invariant says of the tables.
LEMMA TablesAre ==
    ASSUME IInv, NEW b \in 0 .. Len(blocks), StandsAt(b)
    PROVE  /\ b + 1 \in 1 .. Len(states) /\ Len(states) = Len(blocks) + 1 /\ Len(states) \in Nat
           /\ StateOK(states[b + 1]) /\ Stands(tables, states[b + 1]) /\ tables \in Tables
           /\ Len(blocks) \in Nat /\ Len(blocks) <= MaxBlocks /\ MaxBlocks \in Nat
<1>1. Len(blocks) \in Nat /\ Len(states) = Len(blocks) + 1 /\ b + 1 \in 1 .. Len(states)
  BY DEF IInv, History
<1>2. Stands(tables, states[b + 1]) /\ tables \in Tables
  BY DEF StandsAt, TablesStand, Stands
<1>3. StateOK(states[b + 1]) /\ Len(blocks) <= MaxBlocks
  BY <1>1 DEF IInv, History
<1> QED BY <1>1, <1>2, <1>3, IndexerAssumption

\* The queries answer what the contracts have.
LEMMA Answers ==
    ASSUME NEW t, NEW s, StateOK(s), Stands(t, s)
    PROVE  View(t) = ViewOfState(s)
<1>1. /\ t.owner = s.owner /\ Len(t.transfers) = s.count /\ Outcome(t) = s.outcome
  BY DEF Stands
<1>2. CASE s.deal = Nothing
  <2>1. Active(t) = {}
    BY <1>2 DEF Stands
  <2> QED BY <1>1, <1>2, <2>1 DEF View, ViewOfState
<1>3. CASE s.deal # Nothing
  <2> DEFINE n == CHOOSE i \in Active(t) : TRUE
  <2>1. Active(t) = {s.count}
    BY <1>3 DEF Stands
  <2>2. n = s.count
    BY <2>1
  <2>3. DealOf(t.transfers[n]) = s.deal
    BY <1>3, <2>2 DEF Stands
  <2> HIDE DEF n
  <2>4. View(t) = [owner |-> t.owner, count |-> Len(t.transfers),
                   deal |-> DealOf(t.transfers[n]), outcome |-> Outcome(t)]
    BY <2>1 DEF View, n
  <2> QED BY <1>1, <2>3, <2>4 DEF ViewOfState
<1> QED BY <1>2, <1>3

\* Tables that have nothing of the token answer like the contracts before the mint.
LEMMA EmptyAnswers ==
    ASSUME NEW t \in Tables, Empty(t)
    PROVE  View(t) = ViewOfState(Genesis)
<1>1. StateOK(Genesis)
  BY DEF StateOK, ContractStates, Genesis
<1> QED BY <1>1, EmptyStands, Answers

\* The tables, the positions in Redis and in memory and the job keep their types,
\* whatever is killed, skipped or passed over.
THEOREM TypeCorrect == Spec => []TypeOK
<1>1. IInv => TypeOK
  <2> SUFFICES ASSUME IInv PROVE TypeOK
    OBVIOUS
  <2>1. /\ Len(blocks) \in Nat /\ Len(blocks) <= MaxBlocks /\ MaxBlocks \in Nat
        /\ Len(states) = Len(blocks) + 1
    BY IndexerAssumption DEF IInv, History
  <2>2. saved \in Positions /\ latest \in Positions \cup {Nothing}
    BY <2>1 DEF IInv, TypeInv, Positions
  <2>3. ASSUME job # Nothing
        PROVE  job.work \in Tables /\ job.next \in Nat /\ job.committed \in BOOLEAN
    <3>1. /\ latest \in Nat /\ latest < Len(blocks)
          /\ job \in [next : 1 .. Len(Block) + 1, work : Tables, committed : BOOLEAN]
      BY <2>3 DEF IInv, TypeInv
    <3>2. Len(Block) \in Nat
      <4>1. latest + 1 \in 1 .. Len(blocks)
        BY <2>1, <3>1
      <4>2. Block \in Seq(Logs)
        BY <4>1 DEF IInv, History, Block
      <4> QED BY <4>2
    <3> QED BY <3>1, <3>2
  <2> QED BY <2>1, <2>2, <2>3 DEF TypeOK, IInv, TypeInv
<1> QED BY <1>1, Invariant, PTL

\* service.go:1451, 1579, 699-702: unless a block with logs is passed over, the
\* committed tables answer like the contracts after one block not before the
\* position, or, the mint being passed over, have nothing of the token.
THEOREM OneBlock == Spec => []TablesAreOfOneBlock
<1>1. IInv => TablesAreOfOneBlock
  <2> SUFFICES ASSUME IInv, ~skipped
               PROVE  \/ View(tables) = ViewOfState(Genesis)
                      \/ \E b \in (IF latest = Nothing THEN saved ELSE latest) .. Len(blocks) :
                             View(tables) = ViewOfState(states[b + 1])
    BY DEF TablesAreOfOneBlock
  <2>1. CASE Stood
    <3>1. PICK b \in 0 .. Len(blocks) : StandsAt(b)
      BY <2>1 DEF Stood
    <3>2. View(tables) = ViewOfState(states[b + 1])
      BY <3>1, TablesAre, Answers
    <3>3. b \in (IF latest = Nothing THEN saved ELSE latest) .. Len(blocks)
      BY <3>1, JobIs
    <3> QED BY <3>2, <3>3
  <2>2. CASE Missed
    BY <2>2, EmptyAnswers DEF Missed, MissesMint, IInv, TypeInv
  <2> QED BY <2>1, <2>2 DEF IInv
<1> QED BY <1>1, Invariant, PTL

\* service.go:1575: unless a block with logs is passed over, every like of a token
\* that the tables know is counted, up to the position that Redis has.
THEOREM EveryLikeCounts == Spec => []LikesAreNotLost
<1>1. IInv => LikesAreNotLost
  <2> SUFFICES ASSUME IInv, ~skipped, ~Unknown(tables)
               PROVE  tables.likes >= states[saved + 1].likes
    BY DEF LikesAreNotLost
  <2>k. ~Missed
    BY DEF Missed, MissesMint, Empty, Unknown
  <2>1. PICK b \in 0 .. Len(blocks) : StandsAt(b)
    BY <2>k DEF IInv, Stood
  <2>2. saved + 1 \in 1 .. Len(states) /\ b + 1 \in 1 .. Len(states) /\ saved + 1 <= b + 1
    BY <2>1, JobIs, TablesAre
  <2>3. states[saved + 1].likes <= states[b + 1].likes
    BY <2>2 DEF IInv, LikesGrow
  <2>4. states[saved + 1].likes \in Nat /\ states[b + 1].likes \in Nat
    BY <2>2, StateFields DEF IInv, History
  <2>5. tables.likes >= states[b + 1].likes /\ tables.likes \in Nat
    BY <2>1, TablesAre DEF Stands, Tables
  <2> QED BY <2>3, <2>4, <2>5
<1> QED BY <1>1, Invariant, PTL

\* contract_events.go: at the head, the pages have been told the owner and the
\* open deal that the tables have, however often blocks were read again, unless a
\* block with logs or the mint was passed over.
THEOREM PagesAreCurrent == Spec => []ToldIsCurrent
<1>1. IInv => ToldIsCurrent
  <2> SUFFICES ASSUME IInv, ~skipped, ~Unknown(tables), latest = Len(blocks), told # Nothing
               PROVE  LET deal == View(tables).deal
                      IN  /\ told.owner = tables.owner
                          /\ IF deal = Nothing THEN told.deal = Nothing \/ told.deal.status = "Finished"
                             ELSE told.deal = [number |-> deal.number, to |-> deal.to,
                                               status |-> deal.status]
    BY DEF ToldIsCurrent
  <2>k. ~Missed
    BY DEF Missed, MissesMint, Empty, Unknown
  <2>1. PICK b \in 0 .. Len(blocks) : StandsAt(b)
    BY <2>k DEF IInv, Stood
  <2>2. b = Len(blocks)
    BY <2>1, JobIs
  <2>3. Tells(told, states[b + 1])
    BY <2>1, <2>2, JobIs DEF StandsAt, ToldStands
  <2>4. View(tables) = ViewOfState(states[b + 1]) /\ tables.owner = states[b + 1].owner
    BY <2>1, TablesAre, Answers DEF Stands
  <2>5. View(tables).deal = states[b + 1].deal
    BY <2>4 DEF ViewOfState
  <2> QED BY <2>3, <2>4, <2>5 DEF Tells
<1> QED BY <1>1, Invariant, PTL

-----------------------------------------------------------------------------
(* The indexer is a BlockView.                                             *)

\* What the contracts answer after each block.
Views == [i \in DOMAIN states |-> ViewOfState(states[i])]
Answer == {ViewOfState(s) : s \in ContractStates}

LEMMA ViewsOfStates ==
    ASSUME NEW h \in Seq(ContractStates)
    PROVE  LET v == [i \in DOMAIN h |-> ViewOfState(h[i])]
           IN  /\ v \in Seq(Answer) /\ Len(v) = Len(h)
               /\ \A i \in 1 .. Len(h) : v[i] = ViewOfState(h[i])
<1> DEFINE v == [i \in DOMAIN h |-> ViewOfState(h[i])]
<1>1. Len(h) \in Nat /\ DOMAIN h = 1 .. Len(h)
  OBVIOUS
<1>2. \A i \in 1 .. Len(h) : v[i] = ViewOfState(h[i]) /\ v[i] \in Answer
  BY <1>1 DEF Answer
<1>3. v \in [1 .. Len(h) -> Answer]
  BY <1>1, <1>2
<1> HIDE DEF v
<1>4. v \in Seq(Answer) /\ Len(v) = Len(h)
  BY <1>1, <1>3, SeqDef
<1> QED BY <1>2, <1>4 DEF v

LEMMA ViewsAre ==
    ASSUME History
    PROVE  /\ Views \in Seq(Answer) /\ Len(Views) = Len(states) /\ Len(states) \in Nat
           /\ \A i \in 1 .. Len(states) : Views[i] = ViewOfState(states[i])
<1>1. states \in Seq(ContractStates) /\ Views = [i \in DOMAIN states |-> ViewOfState(states[i])]
  BY DEF History, Views
<1> HIDE DEF Views
<1>2. Len(states) \in Nat
  BY <1>1
<1> QED BY <1>1, <1>2, ViewsOfStates

LEMMA ViewInitial == Init => Abstract!Init
<1> SUFFICES ASSUME Init PROVE Abstract!Init
  OBVIOUS
<1>1. IInv
  BY Initial
<1>2. Len(Views) = Len(states) /\ Len(states) = 1 /\ Views[1] = ViewOfState(Genesis)
  BY <1>1, ViewsAre DEF IInv, Init
<1>3. View(tables) = ViewOfState(Genesis)
  <2>1. tables \in Tables /\ Empty(tables)
    BY <1>1 DEF IInv, TypeInv, Init, Empty
  <2> QED BY <2>1, EmptyAnswers
<1> QED BY <1>2, <1>3 DEF Abstract!Init, Views, Init

LEMMA ViewMines == ASSUME IInv, Chain PROVE Abstract!Mine
<1>1. /\ Len(states') = Len(states) + 1 /\ \A c \in 1 .. Len(states) : states'[c] = states[c]
      /\ tables' = tables /\ skipped' = skipped /\ History /\ History'
  BY ChainGrows DEF IInv
<1>2. /\ Views \in Seq(Answer) /\ Len(Views) = Len(states) /\ Len(states) \in Nat
      /\ \A i \in 1 .. Len(states) : Views[i] = ViewOfState(states[i])
  BY <1>1, ViewsAre
<1>3. /\ Views' \in Seq(Answer) /\ Len(Views') = Len(states')
      /\ \A i \in 1 .. Len(states') : Views'[i] = ViewOfState(states'[i])
  <2>1. states' \in Seq(ContractStates) /\ Views' = [i \in DOMAIN states' |-> ViewOfState(states'[i])]
    BY <1>1 DEF History, Views
  <2> QED BY <2>1, ViewsOfStates
<1>4. Len(Views') = Len(Views) + 1 /\ \A i \in 1 .. Len(Views) : Views'[i] = Views[i]
  BY <1>1, <1>2, <1>3
<1>5. SubSeq(Views', 1, Len(Views)) = Views
  <2> DEFINE p == Views'
  <2> DEFINE q == Views
  <2>1. /\ p \in Seq(Answer) /\ q \in Seq(Answer) /\ Len(p) = Len(q) + 1 /\ Len(q) \in Nat
        /\ \A i \in 1 .. Len(q) : p[i] = q[i]
    BY <1>2, <1>3, <1>4
  <2> HIDE DEF p, q
  <2>2. SubSeq(p, 1, Len(q)) = q
    BY <2>1
  <2> QED BY <2>2 DEF p, q
<1>6. View(tables)' = View(tables)
  BY <1>1 DEF View, Active, Outcome, Sales
<1> QED BY <1>1, <1>4, <1>5, <1>6 DEF Abstract!Mine, Views

LEMMA ViewFollows ==
    ASSUME IInv, Commit, Stood
    PROVE  Abstract!Follow \/ UNCHANGED <<Views, View(tables), skipped>>
<1>1. PICK b \in 0 .. Len(blocks) : StandsAt(b)
  BY DEF Stood
<1>2. PICK c \in 0 .. Len(blocks) : c \in {b, b + 1} /\ StandsAt(c)'
  BY <1>1, CommitMoves
<1>3. /\ View(tables) = ViewOfState(states[b + 1])
      /\ b + 1 \in 1 .. Len(states) /\ c + 1 \in 1 .. Len(states) /\ StateOK(states[c + 1])
      /\ Len(states) \in Nat /\ Len(states) = Len(blocks) + 1
  <2>1. c + 1 \in 1 .. Len(states)
    BY <1>1, TablesAre
  <2> QED BY <1>1, <2>1, TablesAre, Answers DEF IInv, History
<1>4. states' = states /\ Views' = Views /\ skipped' = skipped
  BY DEF Commit, Views
<1>5. Stands(tables', states[c + 1])
  BY <1>2, <1>4 DEF StandsAt, TablesStand
<1>6. View(tables)' = ViewOfState(states[c + 1])
  <2>1. View(tables') = ViewOfState(states[c + 1])
    BY <1>3, <1>5, Answers
  <2>2. View(tables)' = View(tables')
    BY DEF View, Active, Outcome, Sales
  <2> QED BY <2>1, <2>2
<1>7. CASE c = b
  BY <1>3, <1>4, <1>6, <1>7
<1>8. CASE c = b + 1
  <2> DEFINE i == b + 1
  <2>1. /\ i \in 1 .. Len(Views) - 1
        /\ Views[i] = ViewOfState(states[i]) /\ Views[i + 1] = ViewOfState(states[i + 1])
    BY <1>3, <1>8, ViewsAre DEF IInv
  <2>2. View(tables) = Views[i] /\ View(tables)' = Views[i + 1]
    BY <1>3, <1>6, <1>8, <2>1
  <2>3. \E j \in 1 .. Len(Views) - 1 : View(tables) = Views[j] /\ View(tables)' = Views[j + 1]
    BY <2>1, <2>2
  <2> QED BY <1>4, <2>3 DEF Abstract!Follow, Views
<1> QED BY <1>2, <1>7, <1>8

\* Tables without the token stay so.
LEMMA ViewMisses ==
    ASSUME IInv, Commit, Missed
    PROVE  UNCHANGED <<Views, View(tables), skipped>>
<1>1. job # Nothing /\ tables' = job.work /\ states' = states /\ skipped' = skipped
  BY DEF Commit
<1>2. tables \in Tables /\ job.work \in Tables /\ Empty(tables) /\ Empty(job.work)
  BY <1>1 DEF IInv, TypeInv, Missed, MissesMint
<1>3. View(tables) = ViewOfState(Genesis) /\ View(job.work) = ViewOfState(Genesis)
  BY <1>2, EmptyAnswers
<1>4. View(tables)' = View(tables')
  BY DEF View, Active, Outcome, Sales
<1> QED BY <1>1, <1>3, <1>4 DEF Views

LEMMA ViewNext == IInv /\ [Next]_vars => [Abstract!Next]_<<Views, View(tables), skipped>>
<1> SUFFICES ASSUME IInv, [Next]_vars PROVE [Abstract!Next]_<<Views, View(tables), skipped>>
  OBVIOUS
<1> DEFINE Same == states' = states /\ tables' = tables
<1>1. Same => UNCHANGED <<Views, View(tables)>>
  BY DEF Views, View, Active, Outcome, Sales
<1>2. CASE Chain
  BY <1>2, ViewMines DEF Abstract!Next, IInv
<1>3. CASE Commit
  <2>1. CASE ~skipped
    BY <1>3, <2>1, ViewFollows, ViewMisses DEF Abstract!Next, IInv
  <2>2. CASE skipped
    <3>1. Views' = Views /\ skipped' = skipped
      BY <1>3 DEF Commit, Views
    <3> QED BY <2>2, <3>1 DEF Abstract!Next, Abstract!Stray, Views
  <2> QED BY <2>1, <2>2
<1>4. CASE Handle
  <2>1. Same /\ skipped' = skipped
    BY <1>4, HandleTyped DEF Typed
  <2> QED BY <1>1, <2>1
<1>5. CASE \/ Start \/ Crash \/ Begin \/ Rollback
           \/ \E isSaved \in BOOLEAN : SetLastBlock(isSaved) \/ SkipBlock(isSaved)
  <2>1. Same /\ (skipped' = skipped \/ skipped' = TRUE)
    BY <1>5 DEF Start, Crash, Begin, Rollback, SetLastBlock, SkipBlock, IInv, TypeInv
  <2>2. UNCHANGED <<Views, View(tables)>>
    BY <1>1, <2>1
  <2>3. CASE skipped' = TRUE
    BY <2>2, <2>3 DEF Abstract!Next, Abstract!Lose, Views
  <2>4. CASE skipped' = skipped
    BY <2>2, <2>4
  <2> QED BY <2>1, <2>3, <2>4
<1>6. CASE UNCHANGED vars
  BY <1>1, <1>6 DEF vars
<1> HIDE DEF Same
<1> QED BY <1>2, <1>3, <1>4, <1>5, <1>6 DEF Next, Loop

\* The answers of the indexer are those of one block after another: a block that
\* is read again, after a crash or a position not saved, changes none of them; they
\* stay for ever if the mint is passed over, and are lost only with a block that has logs.
THEOREM Refinement == Spec => FollowsTheChain
<1>1. Init => Abstract!Init
  BY ViewInitial
<1>2. IInv /\ [Next]_vars => [Abstract!Next]_<<Views, View(tables), skipped>>
  BY ViewNext
<1> QED BY <1>1, <1>2, Invariant, PTL DEF Spec, FollowsTheChain, Abstract!Spec, Views

=============================================================================
