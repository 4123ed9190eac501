------------------------------- MODULE Indexer -------------------------------
(***************************************************************************)
(* The indexer: it reads the blocks of a chain one by one and keeps what   *)
(* they say of one token in Postgres, and how far it is in Redis.          *)
(*                                                                         *)
(* A block is processed in one Postgres transaction; each of its logs may  *)
(* send a message to the pages that watch the token.  Then the transaction *)
(* is committed, and only then the position is saved: a crash in between,  *)
(* or a position that cannot be saved, makes it process blocks again.      *)
(*                                                                         *)
(* Not every failure rolls back.  If the node does not give the block of a *)
(* mint a second time, the mint is passed over and the block committed;    *)
(* and a block that a node cannot decode is passed over whatever it holds. *)
(*                                                                         *)
(* Bounds and restrictions.  One collection and one token, whose mint is   *)
(* among the blocks that are read; one transaction per block, sent to a    *)
(* contract of the marketplace.  The token is not burnt and not rejected by*)
(* moderators, Redis keeps its key, the clock does not go back, and two    *)
(* blocks are not processed in one millisecond.  A lagging head and a block*)
(* that no node has make an attempt fail, as any other failing call of a   *)
(* handler does (receipts, prices, the authentication server).             *)
(***************************************************************************)
EXTENDS Naturals, Sequences, FiniteSetsExt

CONSTANTS
    Users,
    Minters,       \* users who may mint the token
    MaxBlocks,     \* bound on the length of the chain
    MaxOther,      \* bound on the blocks that are empty or hold a like
    MaxUnsaved,    \* bound on the blocks since the last that Redis took
    Undecodable,   \* the blocks that a node may fail to decode
    ZeroAddress,   \* address(0), the receiver of a draft
    Nothing        \* no user, deal, order, message, job

ASSUME IndexerAssumption ==
    /\ Minters \subseteq Users
    /\ {MaxBlocks, MaxOther, MaxUnsaved} \subseteq Nat
    /\ ZeroAddress \notin Users
    /\ Nothing \notin Users \cup Nat \cup {ZeroAddress}

VARIABLES
    blocks,        \* the logs of each block
    states,        \* the token after each block, genesis first
    tables,        \* Postgres
    saved,         \* Redis: the last block
    latest,        \* lastBlock of ListenBlockchain; Nothing while it is down
    job,           \* the transaction of the block being processed
    told,          \* the last message to the pages
    skipped        \* history: a block that has logs was passed over

chainVars == <<blocks, states>>
vars == <<blocks, states, tables, saved, latest, job, told, skipped>>

-----------------------------------------------------------------------------
(* The chain: the logs each call emits, and the state it leaves.           *)

State == states[Len(states)]
Deal == State.deal

Mine(logs, state) ==
    /\ Len(blocks) < MaxBlocks
    /\ blocks' = Append(blocks, logs)
    /\ states' = Append(states, state)
    /\ UNCHANGED <<tables, saved, latest, job, told, skipped>>

Log(event) == [event |-> event]
Status(status) == [State EXCEPT !.deal = [Deal EXCEPT !.status = status]]
\* `outcome' is how the last order ended.
End(owner, outcome) ==
    [State EXCEPT !.owner = owner, !.deal = Nothing,
                  !.outcome = IF Deal.order = Nothing THEN @ ELSE outcome]
NewDeal(status, to, order) ==
    [State EXCEPT !.count = @ + 1,
                  !.deal = [number |-> State.count + 1, to |-> to,
                            status |-> status, order |-> order]]

Mint(to) ==
    /\ State.owner = Nothing
    /\ Mine(<<[event |-> "Transfer", to |-> to]>>, [State EXCEPT !.owner = to])

PlaceOrder ==
    /\ State.owner # Nothing /\ Deal = Nothing
    /\ Mine(<<[event |-> "TransferDraft", number |-> State.count + 1]>>,
            NewDeal("Drafted", ZeroAddress, "Created"))

InitTransfer(to) ==
    /\ State.owner \notin {Nothing, to} /\ Deal = Nothing
    /\ Mine(<<[event |-> "TransferInit", number |-> State.count + 1, to |-> to]>>,
            NewDeal("Created", to, Nothing))

InStatus(statuses) == Deal # Nothing /\ Deal.status \in statuses

\* fulfillOrder completes the draft and sets the public key.
FulfillOrder(to) ==
    /\ InStatus({"Drafted"}) /\ to # State.owner
    /\ Mine(<<[event |-> "TransferDraftCompletion", to |-> to], Log("TransferPublicKeySet")>>,
            [State EXCEPT !.deal = [number |-> Deal.number, to |-> to,
                                    status |-> "PublicKeySet", order |-> "Fulfilled"]])

SetPublicKey ==
    /\ InStatus({"Created"})
    /\ Mine(<<Log("TransferPublicKeySet")>>, Status("PublicKeySet"))

ApproveTransfer ==
    /\ InStatus({"PublicKeySet"})
    /\ Mine(<<Log("TransferPasswordSet")>>, Status("PasswordSet"))

FinalizeTransfer ==
    /\ InStatus({"PasswordSet"})
    /\ Mine(<<Log("TransferFinished")>>, End(Deal.to, "Finished"))

ReportFraud ==
    /\ InStatus({"PasswordSet"})
    /\ Mine(<<Log("TransferFraudReported")>>, Status("FraudReported"))

Decided(approved) == [event |-> "TransferFraudDecided", approved |-> approved]
AfterDecision(approved) ==
    IF approved THEN End(State.owner, "FraudApproved") ELSE End(Deal.to, "Finished")

DecideFraud(approved) ==
    /\ InStatus({"FraudReported"})
    /\ Mine(<<Decided(approved)>>, AfterDecision(approved))

\* With a decider that answers at once the report ends the deal.
ReportAndDecide(approved) ==
    /\ InStatus({"PasswordSet"})
    /\ Mine(<<Log("TransferFraudReported"), Decided(approved)>>, AfterDecision(approved))

CancelTransfer ==
    /\ Deal # Nothing /\ ~InStatus({"FraudReported"})
    /\ Mine(<<Log("TransferCancellation")>>, End(State.owner, "Cancelled"))

OtherBlocks == {b \in DOMAIN blocks : blocks[b] \in {<<>>, <<Log("Like")>>}}

Like ==
    /\ State.owner # Nothing /\ Cardinality(OtherBlocks) < MaxOther
    /\ Mine(<<Log("Like")>>, [State EXCEPT !.likes = @ + 1])

EmptyBlock ==
    /\ Cardinality(OtherBlocks) < MaxOther
    /\ Mine(<<>>, State)

Chain ==
    \/ \E to \in Minters : Mint(to)
    \/ \E to \in Users : InitTransfer(to) \/ FulfillOrder(to)
    \/ PlaceOrder \/ SetPublicKey \/ ApproveTransfer \/ FinalizeTransfer
    \/ ReportFraud \/ CancelTransfer
    \/ \E approved \in BOOLEAN : DecideFraud(approved) \/ ReportAndDecide(approved)
    \/ Like \/ EmptyBlock

-----------------------------------------------------------------------------
(* The tables.  The statuses of a transfer and of its order are in the     *)
(* order of their time stamps, the last first.                             *)

Block == blocks[latest + 1]
CurrentLog == Block[job.next]
Now(status) == [status |-> status, tx |-> latest + 1]

\* Mutation of TransferTxExists: any transaction counts.
TransferTxExists_Any(status) ==
    \E i \in DOMAIN job.work.transfers :
        \E j \in DOMAIN job.work.transfers[i].statuses :
            job.work.transfers[i].statuses[j].status = status

\* Has the transaction given a transfer of the token this status before?
TransferTxExists(status) ==
    \E i \in DOMAIN job.work.transfers :
        \E j \in DOMAIN job.work.transfers[i].statuses :
            job.work.transfers[i].statuses[j] = Now(status)

\* The token has no row: it is not minted, or its mint was passed over.
Unknown(t) == t.owner = Nothing

Active(t) ==
    {i \in DOMAIN t.transfers : Head(t.transfers[i].statuses).status \notin {"Finished", "Cancelled"}}

Adds(transfer, status) == [transfer EXCEPT !.statuses = <<Now(status)>> \o @]
AddsOrder(transfer, status) ==
    IF transfer.order = Nothing THEN transfer
    ELSE [transfer EXCEPT !.order = <<Now(status)>> \o @]

\* What a page is told: of the deals the numbers and their last statuses.
MessageOf(owner, transfer) ==
    [owner |-> owner,
     deal |-> IF transfer = Nothing THEN Nothing
              ELSE [number |-> transfer.number, to |-> transfer.to,
                    status |-> Head(transfer.statuses).status]]

-----------------------------------------------------------------------------
(* The handlers.  One that finds no row of the token passes the log over;  *)
(* one that finds no active transfer returns an error, as it does for ever *)
(* once the last two statuses of a transfer have the same time stamp.      *)

Handling(event) ==
    /\ job # Nothing /\ ~job.committed /\ job.next <= Len(Block)
    /\ CurrentLog.event = event

Done(work, message) ==
    /\ job' = [job EXCEPT !.next = @ + 1, !.work = work]
    /\ told' = message
    /\ UNCHANGED <<blocks, states, tables, saved, latest, skipped>>

\* The log is passed over.
PassOver ==
    /\ job' = [job EXCEPT !.next = @ + 1]
    /\ UNCHANGED <<blocks, states, tables, saved, latest, told, skipped>>

\* A status log is passed over when it was processed in an earlier life, or when
\* the token is unknown.
Passes(status) == TransferTxExists(status) \/ Unknown(job.work)

GetActiveTransfer == {i \in Active(job.work) : ~job.work.tied}

\* When the node does not give the block again, a mint is passed over too.
OnCollectionTransfer ==
    /\ Handling("Transfer")
    /\ \/ PassOver
       \/ /\ Unknown(job.work)
          /\ Done([job.work EXCEPT !.owner = CurrentLog.to], MessageOf(CurrentLog.to, Nothing))

Insert(transfer) ==
    Done([job.work EXCEPT !.transfers = Append(@, transfer)], MessageOf(job.work.owner, transfer))

OnTransferInit ==
    /\ Handling("TransferInit")
    /\ IF Passes("Created") THEN PassOver
       ELSE Insert([number |-> CurrentLog.number, to |-> CurrentLog.to,
                    statuses |-> <<Now("Created")>>, order |-> Nothing])

\* Mutation of OnTransferDraft: the transaction is not looked for.
OnTransferDraft_Again ==
    /\ Handling("TransferDraft")
    /\ IF Unknown(job.work) THEN PassOver
       ELSE Insert([number |-> CurrentLog.number, to |-> ZeroAddress,
                    statuses |-> <<Now("Drafted")>>, order |-> <<Now("Created")>>])

OnTransferDraft ==
    /\ Handling("TransferDraft")
    /\ IF Passes("Drafted") THEN PassOver
       ELSE Insert([number |-> CurrentLog.number, to |-> ZeroAddress,
                    statuses |-> <<Now("Drafted")>>, order |-> <<Now("Created")>>])

\* Two statuses that one transaction gives a transfer may have one time stamp.
Ties(i) == IF Head(job.work.transfers[i].statuses).tx = latest + 1 THEN BOOLEAN ELSE {FALSE}

\* A draft or a transfer that is active gets the row `transfer'.
Becomes(i, transfer, owner, shown) ==
    \E tied \in Ties(i) :
        Done([job.work EXCEPT !.transfers[i] = transfer, !.owner = owner, !.tied = tied],
             MessageOf(owner, shown))

OnTransferDraftCompletion ==
    /\ Handling("TransferDraftCompletion")
    /\ IF Passes("Created") THEN PassOver
       ELSE \E i \in GetActiveTransfer :
              LET draft == [job.work.transfers[i] EXCEPT !.to = CurrentLog.to]
                  transfer == AddsOrder(Adds(draft, "Created"), "Fulfilled")
              IN Becomes(i, transfer, job.work.owner, transfer)

\* onPublicKeySetEvent, onPasswordSetEvent and onTransferFraudReportedEvent.
OnStatus(event, status) ==
    /\ Handling(event)
    /\ IF Passes(status) THEN PassOver
       ELSE \E i \in GetActiveTransfer :
              LET transfer == Adds(job.work.transfers[i], status)
              IN Becomes(i, transfer, job.work.owner, transfer)

OnPublicKeySet == OnStatus("TransferPublicKeySet", "PublicKeySet")
OnPasswordSet == OnStatus("TransferPasswordSet", "PasswordSet")
OnTransferFraudReported == OnStatus("TransferFraudReported", "FraudReported")

\* Mutation of OnTransferFinish: the message is made before the token is updated.
OnTransferFinish_Early ==
    /\ Handling("TransferFinished")
    /\ IF Passes("Finished") THEN PassOver
       ELSE \E i \in GetActiveTransfer :
              LET transfer == AddsOrder(Adds(job.work.transfers[i], "Finished"), "Finished")
              IN Done([job.work EXCEPT !.transfers[i] = transfer, !.owner = transfer.to],
                      MessageOf(job.work.owner, Nothing))

OnTransferFinish ==
    /\ Handling("TransferFinished")
    /\ IF Passes("Finished") THEN PassOver
       ELSE \E i \in GetActiveTransfer :
              LET transfer == AddsOrder(Adds(job.work.transfers[i], "Finished"), "Finished")
              IN Becomes(i, transfer, transfer.to, Nothing)

\* The page is told the ended transfer, where other ends tell it none.
OnTransferFraudDecided ==
    /\ Handling("TransferFraudDecided")
    /\ IF Passes("Finished") THEN PassOver
       ELSE \E i \in GetActiveTransfer :
              LET approved == CurrentLog.approved
                  order == IF approved THEN "FraudApproved" ELSE "Finished"
                  transfer == AddsOrder(Adds(job.work.transfers[i], "Finished"), order)
              IN Becomes(i, transfer, IF approved THEN job.work.owner ELSE transfer.to, transfer)

\* Mutation of OnTransferCancel: the transaction is not looked for.
OnTransferCancel_Again ==
    /\ Handling("TransferCancellation")
    /\ IF Unknown(job.work) THEN PassOver
       ELSE \E i \in GetActiveTransfer :
              LET transfer == AddsOrder(Adds(job.work.transfers[i], "Cancelled"), "Cancelled")
              IN Becomes(i, transfer, job.work.owner, Nothing)

OnTransferCancel ==
    /\ Handling("TransferCancellation")
    /\ IF Passes("Cancelled") THEN PassOver
       ELSE \E i \in GetActiveTransfer :
              LET transfer == AddsOrder(Adds(job.work.transfers[i], "Cancelled"), "Cancelled")
              IN Becomes(i, transfer, job.work.owner, Nothing)

\* A like of a known token is counted whenever it is read; the model counts to
\* MaxOther + 1.
OnLike ==
    /\ Handling("Like")
    /\ IF Unknown(job.work) THEN PassOver
       ELSE Done([job.work EXCEPT !.likes = IF @ > MaxOther THEN @ ELSE @ + 1], told)

Handle ==
    \/ OnCollectionTransfer \/ OnTransferInit \/ OnTransferDraft
    \/ OnTransferDraftCompletion \/ OnPublicKeySet \/ OnPasswordSet
    \/ OnTransferFinish \/ OnTransferFraudReported \/ OnTransferFraudDecided
    \/ OnTransferCancel \/ OnLike

-----------------------------------------------------------------------------
(* The loop of ListenBlockchain.                                           *)

\* ListenBlockchain: the position is read from Redis.
Start ==
    /\ latest = Nothing
    /\ latest' = saved
    /\ UNCHANGED <<blocks, states, tables, saved, job, told, skipped>>

Crash ==
    /\ latest # Nothing
    /\ latest' = Nothing
    /\ job' = Nothing
    /\ UNCHANGED <<blocks, states, tables, saved, told, skipped>>

\* Mutation of Begin: the position is saved first.
Begin_SaveFirst ==
    /\ latest # Nothing /\ job = Nothing
    /\ latest < Len(blocks)
    /\ saved' = latest + 1
    /\ job' = [next |-> 1, work |-> tables, committed |-> FALSE]
    /\ UNCHANGED <<blocks, states, tables, latest, told, skipped>>

\* checkSingleBlock has the block after the last, processBlock begins.
Begin ==
    /\ latest # Nothing /\ job = Nothing
    /\ latest < Len(blocks)
    /\ job' = [next |-> 1, work |-> tables, committed |-> FALSE]
    /\ UNCHANGED <<blocks, states, tables, saved, latest, told, skipped>>

\* Something fails: what the handlers wrote is rolled back.
Rollback ==
    /\ job # Nothing /\ ~job.committed
    /\ job' = Nothing
    /\ UNCHANGED <<blocks, states, tables, saved, latest, told, skipped>>

Commit ==
    /\ job # Nothing /\ ~job.committed /\ job.next > Len(Block)
    /\ tables' = job.work
    /\ job' = [job EXCEPT !.committed = TRUE]
    /\ UNCHANGED <<blocks, states, saved, latest, told, skipped>>

\* Mutation of SetLastBlock: the position is that of the next block.
SetLastBlock_Next(isSaved) ==
    /\ job # Nothing /\ job.committed
    /\ saved' = IF isSaved THEN latest + 2 ELSE saved
    /\ latest' = latest + 1
    /\ job' = Nothing
    /\ UNCHANGED <<blocks, states, tables, told, skipped>>

\* That Redis does not take the position is only logged.
SetLastBlock(isSaved) ==
    /\ job # Nothing /\ job.committed
    /\ isSaved \/ latest - saved < MaxUnsaved
    /\ saved' = IF isSaved THEN latest + 1 ELSE saved
    /\ latest' = latest + 1
    /\ job' = Nothing
    /\ UNCHANGED <<blocks, states, tables, told, skipped>>

\* A block that a node cannot decode is passed over, whatever it holds.
SkipBlock(isSaved) ==
    /\ latest # Nothing /\ job = Nothing
    /\ latest < Len(blocks) /\ latest + 1 \in Undecodable
    /\ isSaved \/ latest - saved < MaxUnsaved
    /\ saved' = IF isSaved THEN latest + 1 ELSE saved
    /\ latest' = latest + 1
    /\ skipped' = (skipped \/ Block # <<>>)
    /\ UNCHANGED <<blocks, states, tables, job, told>>

Loop ==
    \/ Start \/ Crash \/ Begin \/ Rollback \/ Commit
    \/ \E isSaved \in BOOLEAN : SetLastBlock(isSaved) \/ SkipBlock(isSaved)

-----------------------------------------------------------------------------

Genesis == [owner |-> Nothing, count |-> 0, deal |-> Nothing, outcome |-> Nothing, likes |-> 0]

Init ==
    /\ blocks = <<>>
    /\ states = <<Genesis>>
    /\ tables = [owner |-> Nothing, transfers |-> <<>>, likes |-> 0, tied |-> FALSE]
    /\ saved = 0 /\ latest = Nothing
    /\ job = Nothing /\ told = Nothing /\ skipped = FALSE

Next == Chain \/ Handle \/ Loop

\* What fails does not fail for ever, and the indexer is not killed each time
\* it comes to the same step, the handling of the first or the second log too.
Fairness ==
    /\ WF_vars(Start) /\ SF_vars(Begin) /\ SF_vars(Commit)
    /\ \A n \in 1 .. 2 : SF_vars(Handle /\ job.next = n)
    /\ SF_vars(SetLastBlock(TRUE))

Spec == Init /\ [][Next]_vars
FairSpec == Spec /\ Fairness

-----------------------------------------------------------------------------
(* Properties.                                                             *)

Statuses == {"Drafted", "Created", "PublicKeySet", "PasswordSet",
             "FraudReported", "Finished", "Cancelled"}
OrderStatuses == {"Created", "Fulfilled", "Finished", "FraudApproved", "Cancelled"}
Positions == 0 .. MaxBlocks
Rows(S) == Seq([status : S, tx : 1 .. MaxBlocks])
Addresses == Users \cup {ZeroAddress}
Transfers == [number : Positions, to : Addresses, statuses : Rows(Statuses),
              order : {Nothing} \cup Rows(OrderStatuses)]
Tables == [owner : Addresses \cup {Nothing}, transfers : Seq(Transfers), likes : Nat,
           tied : BOOLEAN]

\* Types of the state.
TypeOK ==
    /\ Len(blocks) <= MaxBlocks /\ Len(states) = Len(blocks) + 1
    /\ tables \in Tables
    /\ saved \in Positions
    /\ latest \in Positions \cup {Nothing}
    /\ job # Nothing => /\ job.work \in Tables
                        /\ job.next \in Nat /\ job.committed \in BOOLEAN
    /\ told # Nothing => told.owner \in Addresses
    /\ skipped \in BOOLEAN

\* The deal of the contracts and of the answers.
Deals == [number : Nat, to : Addresses, status : Statuses,
          order : OrderStatuses \cup {Nothing}]

\* Go's nil is no status, row, deal or transfer.
ASSUME NothingAssumption ==
    /\ Nothing \notin Statuses \cup OrderStatuses
    /\ Nothing \notin Rows(OrderStatuses)
    /\ Nothing \notin Deals /\ Nothing \notin Transfers

LastOf(rows) == IF rows = Nothing THEN Nothing ELSE Head(rows).status

DealOf(transfer) ==
    [number |-> transfer.number, to |-> transfer.to,
     status |-> Head(transfer.statuses).status, order |-> LastOf(transfer.order)]

\* The transfers that have ended and were of an order, and how the last ended.
Sales(t) == {i \in DOMAIN t.transfers \ Active(t) : t.transfers[i].order # Nothing}
Outcome(t) == IF Sales(t) = {} THEN Nothing ELSE LastOf(t.transfers[Max(Sales(t))].order)

\* What GetToken, GetActiveTransfer, GetActiveOrder and the lists of orders
\* answer: like a state of the contracts, without the likes.
View(t) ==
    [owner |-> t.owner, count |-> Len(t.transfers),
     deal |-> IF Active(t) = {} THEN Nothing
              ELSE DealOf(t.transfers[CHOOSE i \in Active(t) : TRUE]),
     outcome |-> Outcome(t)]

ViewOfState(state) ==
    [owner |-> state.owner, count |-> state.count, deal |-> state.deal, outcome |-> state.outcome]

\* Unless a block with logs was passed over: wherever it is killed, whatever fails
\* and however many blocks it reads again, the tables agree with the contracts
\* after some block that is not before the position, or have nothing of the token.
\* A mint that is passed over (service.go:699-702) leaves no half-known token: all
\* its later logs are passed over too, and none counts twice.
TablesAreOfOneBlock ==
    ~skipped =>
        \/ View(tables) = ViewOfState(Genesis)
        \/ \E b \in (IF latest = Nothing THEN saved ELSE latest) .. Len(blocks) :
               View(tables) = ViewOfState(states[b + 1])

\* service.go:1575: the position is never saved ahead of the tables, so that no
\* like of a token they know is lost (one may be counted again).
LikesAreNotLost ==
    ~skipped /\ ~Unknown(tables) => tables.likes >= states[saved + 1].likes

\* contract_events.go: once the indexer is at the head, the last message told the
\* pages what the tables have, though messages went out before the commit.
ToldIsCurrent ==
    ~skipped /\ ~Unknown(tables) /\ latest = Len(blocks) /\ told # Nothing =>
        LET deal == View(tables).deal
        IN /\ told.owner = tables.owner
           /\ IF deal = Nothing THEN told.deal = Nothing \/ told.deal.status = "Finished"
              ELSE told.deal = [number |-> deal.number, to |-> deal.to, status |-> deal.status]

\* The indexer is a BlockView: replayed blocks change no answer, answers move from
\* one block's to the next's or stay, and only a block with logs that is passed
\* over ends this.
Abstract == INSTANCE BlockView WITH
    states <- [i \in DOMAIN states |-> ViewOfState(states[i])],
    view <- View(tables), lost <- skipped
FollowsTheChain == Abstract!Spec

\* The answers become those of the last block, unless the code gives the token up:
\* a block with logs or the mint is passed over, or two statuses of a transfer have
\* one time stamp (transfers.go:656-663), on which every later query fails.
CatchesUp ==
    <>[](\/ skipped \/ tables.tied \/ Unknown(tables)
         \/ View(tables) = ViewOfState(State))

=============================================================================
