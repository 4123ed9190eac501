------------------------------ MODULE TokenPage ------------------------------
(***************************************************************************)
(* The page of one token in the web frontend, while its deal goes on.      *)
(*                                                                         *)
(* What the page shows comes from four sources that do not wait for each   *)
(* other: answers to HTTP requests, messages of a WebSocket, the page's own*)
(* guess once one of its transactions has a receipt, and reads of the chain*)
(* (TransferStore, TokenStore, SocketStore, BlockStore, NFTDeal).  Behind  *)
(* them the indexer follows the chain.  The other party of the deal acts on*)
(* the contracts meanwhile.                                                *)
(*                                                                         *)
(* Bounds and restrictions.  One page, of user `me'.  The model begins as  *)
(* the page changes from another token to this one, or is opened on it;    *)
(* connections break only afterwards.  Only the exchange makes drafts, and *)
(* the owner has approved it.  Timeouts of page and contract are equal; an *)
(* overlay hides the buttons.                                              *)
(***************************************************************************)
EXTENDS Naturals, Sequences, FiniteSets

CONSTANTS
    me, other,     \* the page's user, and everybody else
    FirstOwners,   \* who may own the token at first
    Openers,       \* calls by which deals begin: placeOrder, initTransfer
    Entries,       \* how the page is come to: from "another token", "at once"
    MaxDeals,      \* bound on the deals of the token
    MaxLag,        \* bound on the transactions the indexer is behind
    MaxChannel,    \* bound on the messages on their way to the page
    MaxRequests,   \* bound on the requests of a store
    Nothing

ASSUME TokenPageAssumption ==
    /\ me # other
    /\ FirstOwners \subseteq {me, other}
    /\ Openers \subseteq {"placeOrder", "initTransfer"}
    /\ Entries \subseteq {"another token", "at once"}
    /\ MaxLag \in Nat
    /\ MaxDeals \in Nat \ {0}
    /\ MaxChannel \in Nat \ {0}
    /\ MaxRequests \in Nat \ {0, 1}

Users == {me, other}
Optional(S) == S \cup {Nothing}

Statuses == {"Drafted", "Created", "PublicKeySet", "PasswordSet",
             "FraudReported", "Finished"}
Buttons == {"placeOrder", "initTransfer", "cancelOrder",
            "cancelTransfer", "fulfillOrder", "setPublicKey", "approveTransfer",
            "finalizeTransfer", "reportFraud"}
Stores == {"transfer", "token"}
Tokens == {"old", "this"}

VARIABLES
    chain,         \* the token: [owner, count, deal]
    mined,         \* messages of transactions the indexer has yet to process
    sent,          \* the first of them is sent but not committed
    row,           \* what the indexer answers: [owner, transfer]
    socket,        \* "open", "switching" to another token, "connecting", "closed"
    channel,       \* messages on their way to the page
    page,          \* token of the page
    shown,         \* data of the stores, and the token they are of
    inFlight,      \* requests of the stores on their way
    currentRequest, requestCount,
    waiting,       \* isWaitingForEvent, isWaitingForReciept
    canContinue,   \* BlockStore has seen a block after the last receipt's
    job            \* the button pressed

chainVars == <<chain, mined>>
indexerVars == <<sent, row>>
socketVars == <<socket, channel>>
requestVars == <<inFlight, currentRequest, requestCount>>
buttonVars == <<waiting, canContinue, job>>
vars == <<chain, mined, sent, row, socket, channel, page, shown, inFlight,
          currentRequest, requestCount, waiting, canContinue, job>>

-----------------------------------------------------------------------------
(* The contracts, as far as the buttons call them.                         *)

Status(transfer) == IF transfer = Nothing THEN Nothing ELSE Head(transfer.statuses)
Exists(status, transfer) ==
    transfer # Nothing /\ \E i \in DOMAIN transfer.statuses : transfer.statuses[i] = status

TransferOf(deal) ==
    IF deal = Nothing THEN Nothing
    ELSE [number |-> deal.number, statuses |-> deal.statuses,
          order |-> deal.order, to |-> deal.to]

\* Does the contract accept the call a button makes?
Accepts(button, u) ==
    LET deal == chain.deal
        status == Status(deal)
    IN CASE button \in Openers -> u = chain.owner /\ deal = Nothing
         [] button = "cancelOrder" -> u = chain.owner /\ status = "Drafted" /\ deal.order
         [] button = "cancelTransfer" ->
              /\ deal # Nothing /\ status # "FraudReported"
              /\ \/ u = chain.owner
                 \/ u = deal.to /\ (status = "Created" \/ (status = "PublicKeySet" /\ deal.late))
         [] button = "fulfillOrder" -> status = "Drafted" /\ deal.order
         [] button = "setPublicKey" -> status = "Created" /\ u = deal.to
         [] button = "approveTransfer" -> status = "PublicKeySet" /\ u = chain.owner
         [] button = "finalizeTransfer" ->
              status = "PasswordSet" /\ (u = deal.to \/ (u = chain.owner /\ deal.late))
         [] button = "reportFraud" -> status = "PasswordSet" /\ u = deal.to
         [] OTHER -> FALSE

NewDeal(status, order, to) ==
    [chain EXCEPT !.count = @ + 1,
                  !.deal = [number |-> chain.count + 1, statuses |-> <<status>>,
                            order |-> order, to |-> to, late |-> FALSE]]
Advance(status, to) ==
    LET deal == [chain.deal EXCEPT !.statuses = <<status>> \o @, !.to = to, !.late = FALSE]
    IN  [chain EXCEPT !.deal = deal]
EndDeal(owner) ==
    [chain EXCEPT !.owner = owner, !.deal = Nothing]

\* The state the call leaves.
After(button, u) ==
    CASE button = "placeOrder" -> NewDeal("Drafted", TRUE, Nothing)
      [] button = "initTransfer" -> NewDeal("Created", FALSE, CHOOSE to \in Users : to # u)
      [] button \in {"cancelOrder", "cancelTransfer"} -> EndDeal(chain.owner)
      [] button = "fulfillOrder" -> Advance("PublicKeySet", u)
      [] button = "setPublicKey" -> Advance("PublicKeySet", u)
      [] button = "approveTransfer" -> Advance("PasswordSet", chain.deal.to)
      [] button = "finalizeTransfer" -> EndDeal(chain.deal.to)
      [] button = "reportFraud" -> Advance("FraudReported", chain.deal.to)

MessageOf(c, transfer) == [of |-> "this", owner |-> c.owner, transfer |-> transfer]

\* A transaction leaves the state c, the indexer will send the message m.
Transact(c, m) ==
    /\ Len(mined) < MaxLag
    /\ chain' = c
    /\ mined' = Append(mined, m)

Call(button, u) ==
    /\ Accepts(button, u)
    /\ button \in Openers => chain.count < MaxDeals
    /\ Transact(After(button, u), MessageOf(After(button, u), TransferOf(After(button, u).deal)))

\* Someone else takes a step of the deal.
OtherCalls ==
    /\ \E button \in Buttons : Call(button, other)
    /\ UNCHANGED <<indexerVars, socketVars, page, shown, requestVars, buttonVars>>

\* The indexer's message says that the transfer is finished; after other ends
\* of a deal it has no transfer.
DecideFraud ==
    /\ Status(chain.deal) = "FraudReported"
    /\ \E owner \in {chain.owner, chain.deal.to} :
          LET c == EndDeal(owner)
          IN Transact(c, MessageOf(c, [TransferOf(chain.deal) EXCEPT
                                          !.statuses = <<"Finished">> \o @]))
    /\ UNCHANGED <<indexerVars, socketVars, page, shown, requestVars, buttonVars>>

TimeoutPasses ==
    /\ Status(chain.deal) \in {"PublicKeySet", "PasswordSet"}
    /\ ~chain.deal.late
    /\ chain' = [chain EXCEPT !.deal.late = TRUE]
    /\ UNCHANGED <<mined, indexerVars, socketVars, page, shown, requestVars,
                   buttonVars>>

-----------------------------------------------------------------------------
(* The indexer and the WebSocket.                                          *)

\* The deal of the page's token before.
OldTransfer == [number |-> 1, statuses |-> <<"Drafted">>, order |-> TRUE, to |-> Nothing]

OldAnswer == [of |-> "old", data |-> OldTransfer]
OldMessage == [of |-> "old", owner |-> me, transfer |-> OldTransfer]

ASSUME NothingAssumption == Nothing \notin Users \cup Statuses /\ Nothing # OldAnswer

Active(transfer) == IF Status(transfer) = "Finished" THEN Nothing ELSE transfer

\* The message is sent while the block is processed, to whoever is connected.
SendMessage ==
    /\ mined # <<>> /\ ~sent
    /\ sent' = TRUE
    /\ IF socket = "open"
       THEN Len(channel) < MaxChannel /\ channel' = Append(channel, Head(mined))
       ELSE UNCHANGED channel
    /\ UNCHANGED <<chainVars, row, socket, page, shown, requestVars, buttonVars>>

\* The block's transaction is committed: requests see it.
Commit ==
    /\ sent
    /\ sent' = FALSE
    /\ mined' = Tail(mined)
    /\ row' = [owner |-> Head(mined).owner, transfer |-> Active(Head(mined).transfer)]
    /\ UNCHANGED <<chain, socketVars, page, shown, requestVars, buttonVars>>

Greeting == [of |-> "this", owner |-> row.owner, transfer |-> row.transfer]

IsConnected == socket \in {"open", "switching"}

Drop ==
    /\ IsConnected
    /\ socket' = "closed"
    /\ channel' = <<>>
    /\ UNCHANGED <<chainVars, indexerVars, page, shown, requestVars, buttonVars>>

\* Two seconds later subscribeToEft makes a new connection: the server reads the
\* state to greet it with, and then adds it to those it sends messages to.
Reconnect ==
    /\ socket = "closed"
    /\ socket' = "connecting"
    /\ channel' = <<Greeting>>
    /\ UNCHANGED <<chainVars, indexerVars, page, shown, requestVars, buttonVars>>

AddConnection ==
    /\ socket = "connecting"
    /\ socket' = "open"
    /\ UNCHANGED <<chainVars, indexerVars, channel, page, shown, requestVars, buttonVars>>

\* The server reads which token the page has changed to.
SubscribeTo ==
    /\ socket = "switching"
    /\ socket' = "open"
    /\ UNCHANGED <<chainVars, indexerVars, channel, page, shown, requestVars, buttonVars>>

\* Until then it sends what happens to the token before.
SendOldMessage ==
    /\ socket = "switching"
    /\ Len(channel) < MaxChannel
    /\ channel' = Append(channel, OldMessage)
    /\ UNCHANGED <<chainVars, indexerVars, socket, page, shown, requestVars, buttonVars>>

\* A receipt's block is the latest, or the page has seen a later one.
SetReceiptBlock == canContinue' \in BOOLEAN

BlockSeen ==
    /\ ~canContinue
    /\ canContinue' = TRUE
    /\ UNCHANGED <<chainVars, indexerVars, socketVars, page, shown, requestVars,
                   waiting, job>>

\* Mutation of SetData: a message without a transfer is taken for no news.
SetData_Keep(of, transfer) ==
    IF transfer = Nothing THEN shown.transfer ELSE [of |-> of, data |-> transfer]

SetData(of, transfer) == [of |-> of, data |-> transfer]

\* onMessageSubscribeToEft, whatever token the message is of.
ReceiveMessage ==
    /\ IsConnected /\ channel # <<>>
    /\ LET m == Head(channel)
       IN /\ shown' = [transfer |-> SetData(m.of, m.transfer),
                       token |-> [of |-> m.of, data |-> m.owner]]
          /\ IF m.transfer = Nothing THEN UNCHANGED canContinue ELSE SetReceiptBlock
    /\ waiting' = [waiting EXCEPT !.event = FALSE]
    /\ channel' = Tail(channel)
    /\ UNCHANGED <<chainVars, indexerVars, socket, page, requestVars, job>>

-----------------------------------------------------------------------------
(* The stores' requests.                                                   *)

\* storeRequestGeneric: while a request runs, the answer of another has no effect.
Reload(s) ==
    IF currentRequest[s] # 0 \/ requestCount[s] = MaxRequests
    THEN UNCHANGED requestVars
    ELSE /\ requestCount' = [requestCount EXCEPT ![s] = @ + 1]
         /\ currentRequest' = [currentRequest EXCEPT ![s] = requestCount'[s]]
         /\ inFlight' = inFlight \cup
               {[store |-> s, id |-> requestCount'[s], of |-> page, answer |-> Nothing]}

AnswerTo(r) ==
    [of |-> "this", data |-> IF r.store = "token" THEN row.owner ELSE row.transfer]

ServerAnswers ==
    /\ \E r \in inFlight :
          /\ r.answer = Nothing
          /\ inFlight' = (inFlight \ {r}) \cup {[r EXCEPT !.answer = AnswerTo(r)]}
    /\ UNCHANGED <<chainVars, indexerVars, socketVars, page, shown, currentRequest,
                   requestCount, buttonVars>>

\* Mutation of IsCurrent: any answer ends the request that runs.
IsCurrent_Any(r) == currentRequest[r.store] # 0

IsCurrent(r) == currentRequest[r.store] = r.id

\* finish: the answer counts if its request was not replaced or cancelled.
ReceiveAnswer ==
    /\ \E r \in inFlight :
          /\ r.answer # Nothing
          /\ inFlight' = inFlight \ {r}
          /\ IF IsCurrent(r)
             THEN /\ currentRequest' = [currentRequest EXCEPT ![r.store] = 0]
                  /\ shown' = [shown EXCEPT ![r.store] = r.answer]
                  /\ IF r.store = "transfer" /\ r.answer.data # Nothing
                     THEN SetReceiptBlock ELSE UNCHANGED canContinue
             ELSE UNCHANGED <<currentRequest, shown, canContinue>>
    /\ UNCHANGED <<chainVars, indexerVars, socketVars, page, requestCount,
                   waiting, job>>

RequestFails ==
    /\ \E r \in inFlight :
          /\ inFlight' = inFlight \ {r}
          /\ currentRequest' = IF IsCurrent(r) THEN [currentRequest EXCEPT ![r.store] = 0]
                               ELSE currentRequest
    /\ UNCHANGED <<chainVars, indexerVars, socketVars, page, shown, requestCount,
                   buttonVars>>

\* The route changes: the stores are deactivated and activated again, their
\* data stays; an open connection is told the token, and greets it with nothing.
Navigate ==
    /\ page = "old"
    /\ page' = "this"
    /\ inFlight' = inFlight \cup
          {[store |-> s, id |-> requestCount[s] + 1, of |-> "this", answer |-> Nothing] : s \in Stores}
    /\ requestCount' = [s \in Stores |-> requestCount[s] + 1]
    /\ currentRequest' = requestCount'
    /\ IF socket = "open" THEN socket' = "switching" /\ UNCHANGED channel
       ELSE socket' = "connecting" /\ channel' = <<Greeting>>
    /\ UNCHANGED <<chainVars, indexerVars, shown, buttonVars>>

-----------------------------------------------------------------------------
(* What the page offers.                                                   *)

transfer == shown.transfer.data
isOwner == shown.token.data = me
isBuyer == transfer # Nothing /\ transfer.to = me

\* The time since the status that is shown: of another deal it may be any.
IsLate ==
    LET deal == chain.deal
        isShown == /\ deal # Nothing
                   /\ transfer.number = deal.number
                   /\ Status(transfer) = Status(deal)
    IN IF isShown THEN deal.late ELSE TRUE

\* Mutation of OwnerMay: canFinalize without the timeout.
OwnerMay_AtOnce(button) ==
    CASE button = "finalizeTransfer" -> Status(transfer) = "PasswordSet"
      [] button = "approveTransfer" -> Status(transfer) = "PublicKeySet"
      [] button = "cancelOrder" -> Status(transfer) = "Drafted" /\ transfer.order
      [] button = "cancelTransfer" ->
           \/ Status(transfer) = "Drafted" /\ ~transfer.order
           \/ Status(transfer) \in {"Created", "PublicKeySet", "PasswordSet"}
      [] button \in Openers -> transfer = Nothing
      [] OTHER -> FALSE

\* transferPermissions.owner, in NFTDealActionsOwner.
OwnerMay(button) ==
    CASE button = "approveTransfer" -> Status(transfer) = "PublicKeySet"
      [] button = "finalizeTransfer" -> Status(transfer) = "PasswordSet" /\ IsLate
      [] button = "cancelOrder" -> Status(transfer) = "Drafted" /\ transfer.order
      [] button = "cancelTransfer" ->
           \/ Status(transfer) = "Drafted" /\ ~transfer.order
           \/ Status(transfer) \in {"Created", "PublicKeySet", "PasswordSet"}
      [] button \in Openers -> transfer = Nothing
      [] OTHER -> FALSE

\* transferPermissions.buyer, in NFTDealActionsBuyer.
BuyerMay(button) ==
    CASE button = "fulfillOrder" -> Status(transfer) = "Drafted"
      [] button = "setPublicKey" -> isBuyer /\ Status(transfer) = "Created"
      [] button = "finalizeTransfer" -> isBuyer /\ Status(transfer) = "PasswordSet"
      [] button = "reportFraud" -> isBuyer /\ Status(transfer) = "PasswordSet"
      [] button = "cancelTransfer" -> isBuyer /\ Status(transfer) = "PublicKeySet" /\ IsLate
      [] OTHER -> FALSE

Offered(button) == IF isOwner THEN OwnerMay(button) ELSE BuyerMay(button)

isWaitingForContinue == waiting.event /\ waiting.receipt
IsDisabled == ~canContinue \/ isWaitingForContinue
IsLoading == waiting.event # waiting.receipt

-----------------------------------------------------------------------------
(* The buttons: wrapAction and the handlers of TransferStore.              *)

\* isWaitingForSocket falls with isWaitingForEvent or later, and is only asked
\* together with it: it is left out.
AllWaiting(value) == [event |-> value, receipt |-> value]

\* Mutation of OnActionStart: the receipt is not waited for.
OnActionStart_NoReceipt == waiting' = [AllWaiting(TRUE) EXCEPT !.receipt = FALSE]

OnActionStart == waiting' = AllWaiting(TRUE)

\* Mutation of OnActionError: the event is still waited for.
OnActionError_NoEvent == waiting' = [AllWaiting(FALSE) EXCEPT !.event = waiting.event]

OnActionError == waiting' = AllWaiting(FALSE)

\* A button that is visible and enabled is pressed.
Press(button) ==
    /\ Offered(button)
    /\ ~IsDisabled /\ ~IsLoading
    /\ OnActionStart
    /\ job' = [button |-> button, receipt |-> Nothing]
    /\ UNCHANGED <<chainVars, indexerVars, socketVars, page, shown, requestVars,
                   canContinue>>

Mine ==
    /\ job # Nothing /\ job.receipt = Nothing
    /\ Call(job.button, me)
    /\ job' = [job EXCEPT !.receipt = chain'.count]
    /\ UNCHANGED <<indexerVars, socketVars, page, shown, requestVars, waiting, canContinue>>

\* The user or the node refuses, the transaction fails, or the receipt or what
\* the page does after it cannot be had.
ActionFails ==
    /\ job # Nothing
    /\ job' = Nothing
    /\ OnActionError
    /\ UNCHANGED <<chainVars, indexerVars, socketVars, page, shown, requestVars,
                   canContinue>>

NoChange == UNCHANGED <<shown, requestVars, canContinue>>
ReceiptOnly == waiting' = [waiting EXCEPT !.receipt = FALSE] /\ NoChange
EventSeen == waiting' = [waiting EXCEPT !.receipt = FALSE, !.event = FALSE]
Show(data) == shown' = [shown EXCEPT !.transfer = [of |-> "this", data |-> data]]

OnTransferDraft ==
    IF Exists("Drafted", transfer) THEN ReceiptOnly
    ELSE /\ Show([number |-> job.receipt, statuses |-> <<"Drafted">>,
                  order |-> FALSE, to |-> Nothing])
         /\ SetReceiptBlock
         /\ EventSeen
         /\ UNCHANGED <<requestVars>>

\* checkData compares the token; old data is of another one.
IsOfThis == transfer # Nothing /\ shown.transfer.of = "this"
Unshift(status) ==
    Show([transfer EXCEPT !.statuses = IF Exists(status, transfer) THEN @ ELSE <<status>> \o @])

\* Mutation of OnTransferPublicKeySet: the status is added again.
OnTransferPublicKeySet_Twice ==
    IF ~IsOfThis THEN ReceiptOnly
    ELSE /\ Show([transfer EXCEPT !.statuses = <<"PublicKeySet">> \o @])
         /\ SetReceiptBlock
         /\ EventSeen
         /\ UNCHANGED requestVars

OnTransferPublicKeySet ==
    IF ~IsOfThis THEN ReceiptOnly
    ELSE /\ Unshift("PublicKeySet")
         /\ SetReceiptBlock
         /\ EventSeen
         /\ UNCHANGED requestVars

\* onTransferPasswordSet and onTransferFraudReported.
OnStatus(status) ==
    IF ~IsOfThis \/ Exists(status, transfer) THEN ReceiptOnly
    ELSE /\ Unshift(status)
         /\ SetReceiptBlock
         /\ EventSeen
         /\ UNCHANGED <<requestVars>>

OnTransferFinished ==
    IF transfer = Nothing THEN ReceiptOnly
    ELSE /\ Show(Nothing)
         /\ EventSeen
         /\ Reload("token")
         /\ UNCHANGED canContinue

OnTransferCancellation ==
    /\ Show(Nothing)
    /\ EventSeen
    /\ UNCHANGED <<requestVars, canContinue>>

Handle(button) ==
    CASE button \in {"placeOrder", "initTransfer"} -> OnTransferDraft
      [] button \in {"fulfillOrder", "setPublicKey"} -> OnTransferPublicKeySet
      [] button = "approveTransfer" -> OnStatus("PasswordSet")
      [] button = "reportFraud" -> OnStatus("FraudReported")
      [] button = "finalizeTransfer" -> OnTransferFinished
      [] button \in {"cancelOrder", "cancelTransfer"} -> OnTransferCancellation

ReceiptArrives ==
    /\ job # Nothing /\ job.receipt # Nothing
    /\ Handle(job.button)
    /\ job' = Nothing
    /\ UNCHANGED <<chainVars, indexerVars, socketVars, page>>

-----------------------------------------------------------------------------

\* Another token's page is open, with its requests and a message under way;
\* or the browser opens this page.
Init ==
    /\ \E owner \in FirstOwners :
          /\ chain = [owner |-> owner, count |-> 0, deal |-> Nothing]
          /\ row = [owner |-> owner, transfer |-> Nothing]
    /\ mined = <<>> /\ sent = FALSE
    /\ page = "old"
    /\ waiting = AllWaiting(FALSE) /\ canContinue = TRUE /\ job = Nothing
    /\ \/ /\ "another token" \in Entries
          /\ socket = "open"
          /\ shown = [transfer |-> [of |-> "old", data |-> OldTransfer],
                      token |-> [of |-> "old", data |-> me]]
          /\ channel \in {<<>>, <<OldMessage>>}
          /\ inFlight = {[store |-> "transfer", id |-> 1, of |-> "old", answer |-> OldAnswer]}
          /\ currentRequest = [transfer |-> 1, token |-> 0]
          /\ requestCount = [s \in Stores |-> 1]
       \/ /\ "at once" \in Entries
          /\ socket = "closed" /\ channel = <<>>
          /\ shown = [s \in Stores |-> [of |-> "this", data |-> Nothing]]
          /\ inFlight = {}
          /\ currentRequest = [s \in Stores |-> 0] /\ requestCount = [s \in Stores |-> 0]

Indexer == SendMessage \/ Commit
Requests == ServerAnswers \/ ReceiveAnswer \/ RequestFails
Button == Mine \/ ReceiptArrives \/ ActionFails

Next ==
    \/ Navigate
    \/ Requests
    \/ /\ page = "this"
       /\ \/ OtherCalls \/ DecideFraud \/ TimeoutPasses \/ Indexer
          \/ Drop \/ Reconnect \/ AddConnection \/ SubscribeTo \/ SendOldMessage
          \/ ReceiveMessage \/ BlockSeen
          \/ \E button \in Buttons : Press(button)
          \/ Button

\* Servers, wallet and network get round to what they have to do; a connection
\* is not always lost before its message arrives.
Spec ==
    /\ Init /\ [][Next]_vars
    /\ WF_vars(Navigate) /\ WF_vars(Requests)
    /\ WF_vars(Indexer) /\ WF_vars(Reconnect)
    /\ WF_vars(AddConnection) /\ WF_vars(SubscribeTo)
    /\ SF_vars(ReceiveMessage)
    /\ WF_vars(BlockSeen) /\ WF_vars(Button)

-----------------------------------------------------------------------------
(* Properties.                                                             *)

Transfers == [number : 1 .. MaxDeals, statuses : Seq(Statuses), order : BOOLEAN,
              to : Optional(Users)]
Data(s) == IF s = "token" THEN Optional(Users) ELSE Optional(Transfers)

NoneTwice(statuses) == \A i, j \in DOMAIN statuses : statuses[i] = statuses[j] => i = j

\* Types of the state.  A deal has each status once, on the chain and as shown.
TypeOK ==
    /\ chain.owner \in Users /\ chain.count \in 0 .. MaxDeals
    /\ TransferOf(chain.deal) \in Optional(Transfers)
    /\ chain.deal # Nothing => NoneTwice(chain.deal.statuses)
    /\ transfer # Nothing => NoneTwice(transfer.statuses)
    /\ Len(mined) <= MaxLag /\ Len(channel) <= MaxChannel
    /\ sent \in BOOLEAN /\ (sent => mined # <<>>)
    /\ row.owner \in Users /\ row.transfer \in Optional(Transfers)
    /\ socket \in {"open", "switching", "connecting", "closed"}
    /\ page \in Tokens
    /\ \A s \in Stores : shown[s].of \in Tokens /\ shown[s].data \in Data(s)
    /\ \A r \in inFlight : r.store \in Stores /\ r.id \in 1 .. MaxRequests /\ r.of \in Tokens
    /\ currentRequest \in [Stores -> 0 .. MaxRequests]
    /\ requestCount \in [Stores -> 0 .. MaxRequests]
    /\ waiting \in [{"event", "receipt"} -> BOOLEAN]
    /\ canContinue \in BOOLEAN
    /\ job \in {Nothing} \cup [button : Buttons, receipt : 0 .. MaxDeals \cup {Nothing}]

\* IStoreRequester.ts:27, 112: an answer that a store takes in is of the token
\* whose page is open, whatever was requested before the page changed.
AnswerIsOfThisToken ==
    [][\A s \in Stores :
          /\ inFlight' # inFlight
          /\ shown'[s] # shown[s]
          /\ \E r \in inFlight \ inFlight' : r.store = s
          => shown'[s].of = page]_vars

\* wrapButtonActionsFunction.ts:9: from the press of a button to the end of its
\* transaction no button is visible and enabled, whichever of receipt, message
\* and handler comes first.
ButtonsWait == job # Nothing => IsDisabled \/ IsLoading

\* The page shows the owner and the state of the deal as the
\* contracts have them, though perhaps not all of the deal.
IsUpToDate ==
    /\ page = "this"
    /\ shown.token.data = chain.owner
    /\ Status(transfer) = Status(chain.deal)
    /\ transfer # Nothing => /\ transfer.number = chain.deal.number
                             /\ transfer.to \in {Nothing, chain.deal.to}

\* status.ts against the contracts: what an up to date page offers the contract
\* accepts, in every state of every kind of deal and before and after timeouts.
OfferedIsAccepted ==
    \A button \in Buttons : IsUpToDate /\ Offered(button) => Accepts(button, me)

\* Overlay and disabled buttons come to an end, though messages are lost, calls
\* fail and the handler finds nothing to do.
LoadingEnds == (IsDisabled \/ IsLoading) ~> ~(IsDisabled \/ IsLoading)

ShowsRow ==
    /\ shown.transfer = [of |-> "this", data |-> row.transfer]
    /\ shown.token = [of |-> "this", data |-> row.owner]

\* A page whose connection is renewed again and again shows the indexer's state
\* in the end, whatever it lost, guessed, or received late.
PageCatchesUp == []<>(socket = "closed") => <>[]ShowsRow

=============================================================================
