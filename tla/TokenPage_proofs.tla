---------------------------- MODULE TokenPage_proofs ----------------------------
(***************************************************************************)
(* Proofs about TokenPage, for every value of its constants.               *)
(***************************************************************************)
EXTENDS TokenPage, SequenceTheorems, TLAPS

\* The bounds are numbers, large enough for the states that the page begins in.
LEMMA Bounds ==
    /\ MaxLag \in Nat /\ MaxDeals \in Nat /\ MaxChannel \in Nat /\ MaxRequests \in Nat
    /\ 1 <= MaxDeals /\ 1 <= MaxChannel /\ 2 <= MaxRequests
<1>1. MaxLag \in Nat /\ MaxDeals \in Nat /\ MaxChannel \in Nat /\ MaxRequests \in Nat
  BY TokenPageAssumption
<1>2. MaxDeals # 0 /\ MaxChannel # 0 /\ MaxRequests # 0 /\ MaxRequests # 1
  BY TokenPageAssumption
<1> QED BY <1>1, <1>2

(* Deals and what is told of them.                                         *)

\* What a deal may have been before it came to a status.
Earlier(status) ==
    CASE status = "PublicKeySet" -> {"Drafted", "Created"}
      [] status = "PasswordSet" -> {"Drafted", "Created", "PublicKeySet"}
      [] status = "FraudReported" -> {"Drafted", "Created", "PublicKeySet", "PasswordSet"}
      [] OTHER -> {}

Deals == [number : 1 .. MaxDeals, statuses : Seq(Statuses), order : BOOLEAN,
          to : Optional(Users), late : BOOLEAN]

\* A deal on the chain: it has had each status once, in the order in which calls
\* follow each other; a draft is an order, and everything else has a receiver.
GoodDeals == {deal \in Deals :
    /\ deal.statuses # <<>> /\ NoneTwice(deal.statuses)
    /\ \A i \in DOMAIN deal.statuses : i # 1 => deal.statuses[i] \in Earlier(deal.statuses[1])
    /\ deal.statuses[1] # "Finished"
    /\ IF deal.statuses[1] = "Drafted" THEN deal.order ELSE deal.to \in Users}

GoodTransfers == {t \in Transfers : t.statuses # <<>> /\ NoneTwice(t.statuses)}

\* A status comes before others.
LEMMA StatusAdded ==
    ASSUME NEW status \in Statuses, NEW statuses \in Seq(Statuses)
    PROVE  LET added == <<status>> \o statuses
           IN  /\ added \in Seq(Statuses) /\ added # <<>>
               /\ added[1] = status /\ Head(added) = status
               /\ \A i \in DOMAIN added : i # 1 => i - 1 \in DOMAIN statuses /\ added[i] = statuses[i - 1]
               /\ /\ NoneTwice(statuses)
                  /\ \A i \in DOMAIN statuses : statuses[i] # status
                  => NoneTwice(added)
<1> DEFINE added == <<status>> \o statuses
<1>1. added \in Seq(Statuses) /\ Len(added) = Len(statuses) + 1 /\ Len(statuses) \in Nat
  OBVIOUS
<1>2. added[1] = status
  OBVIOUS
<1>3. \A i \in DOMAIN added : i # 1 => i - 1 \in DOMAIN statuses /\ added[i] = statuses[i - 1]
  OBVIOUS
<1>4. added # <<>>
  BY <1>1
<1>5. Head(added) = status
  BY <1>2
<1>6. ASSUME NoneTwice(statuses), \A i \in DOMAIN statuses : statuses[i] # status
      PROVE  NoneTwice(added)
  <2> SUFFICES ASSUME NEW i \in DOMAIN added, NEW j \in DOMAIN added, added[i] = added[j]
               PROVE  i = j
    BY DEF NoneTwice
  <2>0. i \in Int /\ j \in Int
    BY <1>1
  <2> HIDE DEF added
  <2>1. CASE i = 1 \/ j = 1
    BY <1>2, <1>3, <1>6, <2>1
  <2>2. CASE i # 1 /\ j # 1
    <3>1. i - 1 = j - 1
      BY <1>3, <1>6, <2>2 DEF NoneTwice
    <3> QED BY <2>0, <3>1
  <2> QED BY <2>1, <2>2
<1> QED BY <1>1, <1>2, <1>3, <1>4, <1>5, <1>6

\* The only status of a new deal.
LEMMA StatusOnly ==
    ASSUME NEW status \in Statuses
    PROVE  /\ <<status>> \in Seq(Statuses) /\ <<status>> # <<>>
           /\ <<status>>[1] = status /\ Head(<<status>>) = status
           /\ DOMAIN <<status>> = {1} /\ NoneTwice(<<status>>)
<1> QED BY DEF NoneTwice

\* What is told of a deal.
LEMMA TransferType ==
    ASSUME NEW deal \in GoodDeals \cup {Nothing}
    PROVE  /\ TransferOf(deal) \in Optional(GoodTransfers)
           /\ deal # Nothing =>
                  /\ Status(deal) = deal.statuses[1] /\ Status(deal) \in Statuses
                  /\ TransferOf(deal) \in GoodTransfers
<1>1. CASE deal = Nothing
  BY <1>1 DEF TransferOf, Optional
<1>2. CASE deal # Nothing
  <2>1. /\ deal.number \in 1 .. MaxDeals /\ deal.statuses \in Seq(Statuses)
        /\ deal.order \in BOOLEAN /\ deal.to \in Optional(Users)
        /\ deal.statuses # <<>> /\ NoneTwice(deal.statuses)
    BY <1>2 DEF GoodDeals, Deals
  <2>2. TransferOf(deal) \in GoodTransfers
    BY <1>2, <2>1 DEF TransferOf, GoodTransfers, Transfers
  <2>3. Status(deal) = deal.statuses[1] /\ Status(deal) \in Statuses
    BY <1>2, <2>1 DEF Status
  <2> QED BY <2>2, <2>3 DEF Optional
<1> QED BY <1>1, <1>2

\* A transfer that is told to be finished.
LEMMA FinishedType ==
    ASSUME NEW deal \in GoodDeals, deal # Nothing
    PROVE  [TransferOf(deal) EXCEPT !.statuses = <<"Finished">> \o @] \in GoodTransfers
<1> DEFINE t == TransferOf(deal)
<1>1. t \in GoodTransfers /\ t.statuses = deal.statuses
  BY TransferType DEF TransferOf
<1>2. \A i \in DOMAIN deal.statuses : deal.statuses[i] # "Finished"
  BY DEF GoodDeals, Earlier
<1>3. t.statuses \in Seq(Statuses) /\ "Finished" \in Statuses
  BY <1>1 DEF GoodTransfers, Transfers, Statuses
<1>4. /\ <<"Finished">> \o t.statuses \in Seq(Statuses) /\ <<"Finished">> \o t.statuses # <<>>
      /\ NoneTwice(<<"Finished">> \o t.statuses)
  BY <1>1, <1>2, <1>3, StatusAdded DEF GoodTransfers
<1> HIDE DEF t
<1>5. [t EXCEPT !.statuses = <<"Finished">> \o @] \in GoodTransfers
  BY <1>1, <1>4 DEF GoodTransfers, Transfers
<1> QED BY <1>5 DEF t

GoodChains == {c \in [owner : Users, count : 0 .. MaxDeals, deal : Optional(GoodDeals)] :
                   c.deal # Nothing => c.count # 0}

\* A deal begins.
LEMMA NewDealType ==
    ASSUME chain \in GoodChains, chain.count < MaxDeals,
           NEW status \in {"Drafted", "Created"}, NEW order \in BOOLEAN, NEW to \in Optional(Users),
           IF status = "Drafted" THEN order ELSE to \in Users
    PROVE  NewDeal(status, order, to) \in GoodChains
<1> DEFINE deal == [number |-> chain.count + 1, statuses |-> <<status>>,
                    order |-> order, to |-> to, late |-> FALSE]
<1>1. chain.count \in 0 .. MaxDeals /\ MaxDeals \in Nat
  BY TokenPageAssumption DEF GoodChains
<1>2. status \in Statuses
  BY DEF Statuses
<1>3. chain.count + 1 \in 1 .. MaxDeals
  BY <1>1
<1>4. deal \in Deals
  BY <1>2, <1>3, StatusOnly DEF Deals
<1>5. deal \in GoodDeals
  BY <1>2, <1>4, StatusOnly DEF GoodDeals
<1> HIDE DEF deal
<1>6. NewDeal(status, order, to) = [chain EXCEPT !.count = @ + 1, !.deal = deal]
  BY DEF NewDeal, deal
<1>7. chain.count + 1 \in 0 .. MaxDeals /\ chain.count + 1 # 0
  BY <1>1, <1>3
<1>8. chain \in [owner : Users, count : 0 .. MaxDeals, deal : Optional(GoodDeals)]
  BY DEF GoodChains
<1> QED BY <1>5, <1>6, <1>7, <1>8 DEF GoodChains, Optional

\* A deal goes on.
LEMMA AdvanceType ==
    ASSUME chain \in GoodChains, chain.deal # Nothing,
           NEW status \in Statuses \ {"Finished", "Drafted"},
           Status(chain.deal) \in Earlier(status), Earlier(Status(chain.deal)) \subseteq Earlier(status),
           NEW to \in Users
    PROVE  Advance(status, to) \in GoodChains
<1> DEFINE deal == [chain.deal EXCEPT !.statuses = <<status>> \o @, !.to = to, !.late = FALSE]
           added == <<status>> \o chain.deal.statuses
<1>1. chain.deal \in GoodDeals
  BY DEF GoodChains, Optional
<1>2. Status(chain.deal) = chain.deal.statuses[1] /\ chain.deal.statuses \in Seq(Statuses)
  BY <1>1, TransferType DEF GoodDeals, Deals
<1>3. \A i \in DOMAIN chain.deal.statuses : chain.deal.statuses[i] \in Earlier(status)
  BY <1>1, <1>2 DEF GoodDeals
<1>4. status \notin Earlier(status)
  BY DEF Earlier, Statuses
<1>5. /\ added \in Seq(Statuses) /\ added # <<>> /\ added[1] = status /\ NoneTwice(added)
      /\ \A i \in DOMAIN added : i # 1 => added[i] \in Earlier(status)
  BY <1>1, <1>2, <1>3, <1>4, StatusAdded DEF GoodDeals
<1> HIDE DEF added
<1>6. deal = [chain.deal EXCEPT !.statuses = added, !.to = to, !.late = FALSE]
  BY DEF added
<1>7. deal \in Deals /\ deal.statuses = added /\ deal.to = to
  BY <1>1, <1>5, <1>6 DEF GoodDeals, Deals, Optional
<1> HIDE DEF deal
<1>8. deal \in GoodDeals
  BY <1>5, <1>7 DEF GoodDeals
<1>9. Advance(status, to) = [chain EXCEPT !.deal = deal]
  BY DEF Advance, deal
<1> QED BY <1>8, <1>9 DEF GoodChains, Optional

\* A deal ends.
LEMMA EndDealType ==
    ASSUME chain \in GoodChains, NEW owner \in Users
    PROVE  EndDeal(owner) \in GoodChains
<1> QED BY DEF EndDeal, GoodChains, Optional

\* The receiver of a deal that is not a draft.
LEMMA DealType ==
    ASSUME chain \in GoodChains, chain.deal # Nothing
    PROVE  /\ chain.deal \in GoodDeals /\ Status(chain.deal) \in Statuses \ {"Finished"}
           /\ Status(chain.deal) = chain.deal.statuses[1]
           /\ IF Status(chain.deal) = "Drafted" THEN chain.deal.order ELSE chain.deal.to \in Users
<1>1. chain.deal \in GoodDeals
  BY DEF GoodChains, Optional
<1> QED BY <1>1, TransferType DEF GoodDeals

\* Without a deal there is no status.
LEMMA NoStatus ==
    ASSUME NEW status \in Statuses, Status(chain.deal) = status
    PROVE  chain.deal # Nothing
<1> QED BY NothingAssumption DEF Status

\* Each call that the contracts accept.
LEMMA AfterType ==
    ASSUME chain \in GoodChains, NEW button \in Buttons, NEW u \in Users, Accepts(button, u),
           button \in Openers => chain.count < MaxDeals
    PROVE  After(button, u) \in GoodChains
<1> USE DEF Statuses
<1>1. CASE button \in {"placeOrder", "initTransfer"}
  <2>1. button \in Openers
    BY <1>1 DEF Accepts
  <2>2. (CHOOSE to \in Users : to # u) \in Users
    <3>1. \E to \in Users : to # u
      <4>1. me # other /\ me \in Users /\ other \in Users
        BY TokenPageAssumption DEF Users
      <4> QED BY <4>1
    <3> QED BY <3>1
  <2> HIDE DEF Statuses
  <2>3. NewDeal("Drafted", TRUE, Nothing) \in GoodChains
    BY <2>1, NewDealType DEF Optional
  <2>4. NewDeal("Created", FALSE, CHOOSE to \in Users : to # u) \in GoodChains
    BY <2>1, <2>2, NewDealType DEF Optional
  <2> QED BY <1>1, <2>3, <2>4 DEF After
<1>2. CASE button \in {"cancelOrder", "cancelTransfer"}
  <2>1. chain.owner \in Users /\ After(button, u) = EndDeal(chain.owner)
    BY <1>2 DEF GoodChains, After
  <2> QED BY <2>1, EndDealType
<1>o. button \notin {"placeOrder", "initTransfer"} => button \notin Openers
  BY TokenPageAssumption
<1>3. CASE button = "fulfillOrder"
  <2>1. Status(chain.deal) = "Drafted" /\ After(button, u) = Advance("PublicKeySet", u)
    BY <1>o, <1>3 DEF Accepts, After
  <2> QED BY <2>1, NoStatus, AdvanceType DEF Earlier
<1>4. CASE button = "setPublicKey"
  <2>1. Status(chain.deal) = "Created" /\ After(button, u) = Advance("PublicKeySet", u)
    BY <1>o, <1>4 DEF Accepts, After
  <2> QED BY <2>1, NoStatus, AdvanceType DEF Earlier
<1>5. CASE button = "approveTransfer"
  <2>1. Status(chain.deal) = "PublicKeySet" /\ After(button, u) = Advance("PasswordSet", chain.deal.to)
    BY <1>o, <1>5 DEF Accepts, After
  <2>2. chain.deal.to \in Users /\ chain.deal # Nothing
    BY <2>1, NoStatus, DealType
  <2> QED BY <2>1, <2>2, AdvanceType DEF Earlier
<1>6. CASE button = "finalizeTransfer"
  <2>1. Status(chain.deal) = "PasswordSet" /\ After(button, u) = EndDeal(chain.deal.to)
    BY <1>o, <1>6 DEF Accepts, After
  <2>2. chain.deal.to \in Users
    BY <2>1, NoStatus, DealType
  <2> QED BY <2>1, <2>2, EndDealType
<1>7. CASE button = "reportFraud"
  <2>1. Status(chain.deal) = "PasswordSet" /\ After(button, u) = Advance("FraudReported", chain.deal.to)
    BY <1>o, <1>7 DEF Accepts, After
  <2>2. chain.deal.to \in Users /\ chain.deal # Nothing
    BY <2>1, NoStatus, DealType
  <2> QED BY <2>1, <2>2, AdvanceType DEF Earlier
<1> QED BY <1>1, <1>2, <1>3, <1>4, <1>5, <1>6, <1>7 DEF Buttons

-----------------------------------------------------------------------------
(* Types.                                                                  *)

Rows == [owner : Users, transfer : Optional(GoodTransfers)]
Messages == [of : Tokens, owner : Users, transfer : Optional(GoodTransfers)]
Replies == [of : Tokens, data : Optional(GoodTransfers) \cup Optional(Users)]

\* The receipt of a call that begins a deal comes with its number.
Jobs == {j \in [button : Buttons, receipt : 0 .. MaxDeals \cup {Nothing}] :
             j.button \in {"placeOrder", "initTransfer"} /\ j.receipt # Nothing => j.receipt # 0}

\* A request and the answer to it are of the same store and token; what was asked
\* for another token has been answered.
GoodRequests ==
    {r \in [store : Stores, id : 1 .. MaxRequests, of : Tokens, answer : Optional(Replies)] :
        /\ r.answer # Nothing =>
               /\ r.answer.of = r.of
               /\ r.answer.data \in IF r.store = "token" THEN Optional(Users) ELSE Optional(GoodTransfers)
        /\ r.answer = Nothing => r.of = "this"}

ShownType(s) ==
    /\ DOMAIN s = Stores
    /\ s.transfer \in [of : Tokens, data : Optional(GoodTransfers)]
    /\ s.token \in [of : Tokens, data : Optional(Users)]

\* Before the page changes no store has sent more than one request, and there is
\* no job.
TypeInv ==
    /\ chain \in GoodChains
    /\ mined \in Seq(Messages) /\ Len(mined) <= MaxLag
    /\ sent \in BOOLEAN /\ (sent => mined # <<>>)
    /\ row \in Rows
    /\ socket \in {"open", "switching", "connecting", "closed"}
    /\ channel \in Seq(Messages) /\ Len(channel) <= MaxChannel
    /\ page \in Tokens
    /\ ShownType(shown)
    /\ inFlight \subseteq GoodRequests
    /\ currentRequest \in [Stores -> 0 .. MaxRequests]
    /\ requestCount \in [Stores -> 0 .. MaxRequests]
    /\ page = "old" => \A s \in Stores : requestCount[s] <= 1
    /\ waiting \in [event : BOOLEAN, receipt : BOOLEAN]
    /\ canContinue \in BOOLEAN
    /\ job \in {Nothing} \cup Jobs

\* A message that is sent says what was left of the deal.
LEMMA MessageType ==
    ASSUME NEW c \in GoodChains
    PROVE  MessageOf(c, TransferOf(c.deal)) \in Messages
<1>1. c.owner \in Users /\ c.deal \in GoodDeals \cup {Nothing}
  BY DEF GoodChains, Optional
<1> QED BY <1>1, TransferType DEF MessageOf, Messages, Tokens

\* So does one of the page's token before.
LEMMA OldMessageType == OldTransfer \in GoodTransfers /\ OldMessage \in Messages
<1>1. MaxDeals \in Nat /\ 1 <= MaxDeals /\ me \in Users
  BY Bounds, TokenPageAssumption DEF Users
<1>2. OldTransfer \in GoodTransfers
  BY <1>1, StatusOnly DEF OldTransfer, GoodTransfers, Transfers, Statuses, Optional
<1> HIDE DEF OldTransfer
<1> QED BY <1>1, <1>2 DEF OldMessage, Messages, Optional, Tokens

\* A transaction is mined.
LEMMA TransactType ==
    ASSUME TypeInv, NEW c \in GoodChains, NEW m \in Messages, Transact(c, m)
    PROVE  /\ chain' = c /\ mined' \in Seq(Messages) /\ Len(mined') <= MaxLag
           /\ sent => mined' # <<>>
<1>1. mined' = Append(mined, m) /\ mined \in Seq(Messages) /\ Len(mined) < MaxLag
  BY DEF Transact, TypeInv
<1>2. MaxLag \in Nat
  BY TokenPageAssumption
<1>3. mined' \in Seq(Messages) /\ Len(mined') = Len(mined) + 1 /\ Len(mined) \in Nat
  BY <1>1, AppendProperties
<1> QED BY <1>1, <1>2, <1>3, EmptySeq DEF Transact

\* A call is mined.
LEMMA CallType ==
    ASSUME TypeInv, NEW button \in Buttons, NEW u \in Users, Call(button, u)
    PROVE  /\ chain' \in GoodChains /\ mined' \in Seq(Messages) /\ Len(mined') <= MaxLag
           /\ sent => mined' # <<>>
           /\ chain'.count \in 0 .. MaxDeals
           /\ button \in {"placeOrder", "initTransfer"} => chain'.count # 0
<1>1. After(button, u) \in GoodChains
  BY AfterType DEF Call, TypeInv
<1>2. /\ chain' = After(button, u) /\ mined' \in Seq(Messages) /\ Len(mined') <= MaxLag
      /\ sent => mined' # <<>>
  BY <1>1, MessageType, TransactType DEF Call
<1>3. ASSUME button \in {"placeOrder", "initTransfer"}
      PROVE  After(button, u).count # 0
  <2>1. chain.count \in Nat
    <3>1. MaxDeals \in Nat
      BY TokenPageAssumption
    <3>2. chain.count \in 0 .. MaxDeals
      BY DEF TypeInv, GoodChains
    <3> QED BY <3>1, <3>2
  <2>2. After(button, u).count = chain.count + 1
    BY <1>3 DEF After, NewDeal, TypeInv, GoodChains
  <2> QED BY <2>1, <2>2
<1> QED BY <1>1, <1>2, <1>3 DEF GoodChains

\* What the page shows after an answer, a message or a guess.
LEMMA ShownChange ==
    ASSUME ShownType(shown), NEW of \in Tokens
    PROVE  /\ \A t \in Optional(GoodTransfers) :
                  ShownType([shown EXCEPT !.transfer = [of |-> of, data |-> t]])
           /\ \A o \in Optional(Users) :
                  ShownType([shown EXCEPT !.token = [of |-> of, data |-> o]])
           /\ \A t \in Optional(GoodTransfers), o \in Optional(Users) :
                  ShownType([transfer |-> [of |-> of, data |-> t], token |-> [of |-> of, data |-> o]])
<1> QED BY DEF ShownType, Stores

\* The deal goes on without the page.
LEMMA ChainTypes ==
    ASSUME TypeInv, OtherCalls \/ DecideFraud \/ TimeoutPasses
    PROVE  TypeInv'
<1> USE DEF indexerVars, socketVars, requestVars, buttonVars
<1>s. ASSUME chain' \in GoodChains, mined' \in Seq(Messages), Len(mined') <= MaxLag,
             sent => mined' # <<>>,
             UNCHANGED <<indexerVars, socketVars, page, shown, requestVars, buttonVars>>
      PROVE  TypeInv'
  BY <1>s DEF TypeInv
<1>1. CASE OtherCalls
  <2>1. PICK button \in Buttons : Call(button, other)
    BY <1>1 DEF OtherCalls
  <2>2. other \in Users
    BY DEF Users
  <2>3. /\ chain' \in GoodChains /\ mined' \in Seq(Messages) /\ Len(mined') <= MaxLag
        /\ sent => mined' # <<>>
    BY <2>1, <2>2, CallType
  <2> QED BY <1>1, <1>s, <2>3 DEF OtherCalls
<1>2. CASE DecideFraud
  <2>1. chain \in GoodChains /\ chain.deal # Nothing /\ Status(chain.deal) = "FraudReported"
    BY <1>2, NoStatus DEF DecideFraud, TypeInv, Statuses
  <2>2. chain.deal \in GoodDeals /\ chain.deal.to \in Users /\ chain.owner \in Users
    BY <2>1, DealType DEF GoodChains
  <2> DEFINE t == [TransferOf(chain.deal) EXCEPT !.statuses = <<"Finished">> \o @]
  <2>3. t \in GoodTransfers
    BY <2>1, <2>2, FinishedType
  <2> HIDE DEF t
  <2>4. PICK owner \in Users : Transact(EndDeal(owner), MessageOf(EndDeal(owner), t))
    BY <1>2, <2>2 DEF DecideFraud, t
  <2>5. EndDeal(owner) \in GoodChains
    BY <2>1, EndDealType
  <2>6. MessageOf(EndDeal(owner), t) \in Messages
    BY <2>3, <2>5 DEF MessageOf, Messages, GoodChains, Optional, Tokens
  <2>7. /\ chain' = EndDeal(owner) /\ mined' \in Seq(Messages) /\ Len(mined') <= MaxLag
        /\ sent => mined' # <<>>
    BY <2>4, <2>5, <2>6, TransactType
  <2> QED BY <1>2, <1>s, <2>5, <2>7 DEF DecideFraud
<1>3. CASE TimeoutPasses
  <2>1. chain \in GoodChains /\ chain.deal # Nothing
    BY <1>3, NoStatus DEF TimeoutPasses, TypeInv, Statuses
  <2>2. chain.deal \in GoodDeals
    BY <2>1, DealType
  <2> DEFINE deal == [chain.deal EXCEPT !.late = TRUE]
  <2>3. deal \in GoodDeals
    BY <2>2 DEF GoodDeals, Deals
  <2>4. chain' = [chain EXCEPT !.deal = deal]
    BY <1>3 DEF TimeoutPasses
  <2> HIDE DEF deal
  <2>5. chain' \in GoodChains
    BY <2>1, <2>3, <2>4 DEF GoodChains, Optional
  <2>6. /\ mined' \in Seq(Messages) /\ Len(mined') <= MaxLag
        /\ sent => mined' # <<>>
        /\ UNCHANGED <<indexerVars, socketVars, page, shown, requestVars, buttonVars>>
    BY <1>3 DEF TimeoutPasses, TypeInv
  <2> QED BY <1>s, <2>5, <2>6
<1> QED BY <1>1, <1>2, <1>3

\* Indexer and connection.
LEMMA IndexerTypes ==
    ASSUME TypeInv, SendMessage \/ Commit \/ Drop \/ Reconnect \/ AddConnection \/ BlockSeen
           \/ SubscribeTo \/ SendOldMessage
    PROVE  TypeInv'
<1> USE DEF chainVars, indexerVars, socketVars, requestVars, buttonVars
<1>g. <<Greeting>> \in Seq(Messages) /\ Len(<<Greeting>>) <= MaxChannel
  <2>1. Greeting \in Messages
    BY DEF Greeting, Messages, Rows, Tokens, TypeInv
  <2> HIDE DEF Greeting
  <2>2. <<Greeting>> \in Seq(Messages) /\ Len(<<Greeting>>) = 1
    BY <2>1
  <2>3. MaxChannel \in Nat \ {0}
    BY TokenPageAssumption
  <2> QED BY <2>2, <2>3
<1>m. MaxChannel \in Nat
  BY TokenPageAssumption
<1>e. <<>> \in Seq(Messages) /\ Len(<<>>) <= MaxChannel
  BY <1>m
<1>h. mined # <<>> => Head(mined) \in Messages /\ Tail(mined) \in Seq(Messages) /\ Len(Tail(mined)) <= MaxLag
  <2> SUFFICES ASSUME mined # <<>>
               PROVE  Head(mined) \in Messages /\ Tail(mined) \in Seq(Messages) /\ Len(Tail(mined)) <= MaxLag
    OBVIOUS
  <2>1. mined \in Seq(Messages) /\ Len(mined) <= MaxLag /\ MaxLag \in Nat /\ Len(mined) \in Nat
    BY TokenPageAssumption, LenProperties DEF TypeInv
  <2>2. Head(mined) \in Messages /\ Tail(mined) \in Seq(Messages) /\ Len(Tail(mined)) = Len(mined) - 1
    BY <2>1, HeadTailProperties
  <2> QED BY <2>1, <2>2
<1>1. CASE SendMessage
  <2>1. channel' \in Seq(Messages) /\ Len(channel') <= MaxChannel
    <3>1. CASE socket = "open"
      <4>1. Len(channel) < MaxChannel /\ channel' = Append(channel, Head(mined))
            /\ channel \in Seq(Messages) /\ Head(mined) \in Messages
        BY <1>1, <1>h, <3>1 DEF SendMessage, TypeInv
      <4>2. channel' \in Seq(Messages) /\ Len(channel') = Len(channel) + 1 /\ Len(channel) \in Nat
        BY <4>1, AppendProperties
      <4> QED BY <1>m, <4>1, <4>2
    <3>2. CASE socket # "open"
      BY <1>1, <3>2 DEF SendMessage, TypeInv
    <3> QED BY <3>1, <3>2
  <2> QED BY <1>1, <2>1 DEF SendMessage, TypeInv
<1>2. CASE Commit
  <2>1. mined # <<>>
    BY <1>2 DEF Commit, TypeInv
  <2>2. row' \in Rows
    BY <1>2, <1>h, <2>1 DEF Commit, Active, Rows, Messages, Optional
  <2> QED BY <1>2, <1>h, <2>1, <2>2 DEF Commit, TypeInv
<1>3. CASE Drop
  BY <1>3, <1>e DEF Drop, TypeInv
<1>4. CASE Reconnect
  BY <1>4, <1>g DEF Reconnect, TypeInv
<1>5. CASE AddConnection
  BY <1>5 DEF AddConnection, TypeInv
<1>7. CASE SubscribeTo
  BY <1>7 DEF SubscribeTo, TypeInv
<1>8. CASE SendOldMessage
  <2>1. /\ Len(channel) < MaxChannel /\ channel' = Append(channel, OldMessage)
        /\ channel \in Seq(Messages)
    BY <1>8 DEF SendOldMessage, TypeInv
  <2>2. channel' \in Seq(Messages) /\ Len(channel') = Len(channel) + 1 /\ Len(channel) \in Nat
    BY <2>1, OldMessageType, AppendProperties
  <2>3. channel' \in Seq(Messages) /\ Len(channel') <= MaxChannel
    BY <1>m, <2>1, <2>2
  <2> QED BY <1>8, <2>3 DEF SendOldMessage, TypeInv
<1>6. CASE BlockSeen
  BY <1>6 DEF BlockSeen, TypeInv
<1> QED BY <1>1, <1>2, <1>3, <1>4, <1>5, <1>6, <1>7, <1>8

\* A message is taken in.
LEMMA MessageTypes ==
    ASSUME TypeInv, ReceiveMessage
    PROVE  TypeInv'
<1> USE DEF chainVars, indexerVars, requestVars
<1>1. /\ channel # <<>> /\ channel \in Seq(Messages) /\ Len(channel) <= MaxChannel
      /\ MaxChannel \in Nat /\ Len(channel) \in Nat
  BY TokenPageAssumption, LenProperties DEF ReceiveMessage, TypeInv
<1>2. /\ Head(channel) \in Messages /\ Tail(channel) \in Seq(Messages)
      /\ Len(Tail(channel)) = Len(channel) - 1
  BY <1>1, HeadTailProperties
<1>3. channel' \in Seq(Messages) /\ Len(channel') <= MaxChannel
  BY <1>1, <1>2 DEF ReceiveMessage
<1>4. ShownType(shown')
  <2> DEFINE m == Head(channel)
  <2>1. m.of \in Tokens /\ m.transfer \in Optional(GoodTransfers) /\ m.owner \in Optional(Users)
    BY <1>2 DEF Messages, Optional
  <2>2. shown' = [transfer |-> [of |-> m.of, data |-> m.transfer],
                  token |-> [of |-> m.of, data |-> m.owner]]
    BY DEF ReceiveMessage, SetData
  <2> HIDE DEF m
  <2> QED BY <2>1, <2>2, ShownChange DEF TypeInv
<1>5. canContinue' \in BOOLEAN /\ waiting' \in [event : BOOLEAN, receipt : BOOLEAN]
  BY DEF ReceiveMessage, SetReceiptBlock, TypeInv
<1> QED BY <1>3, <1>4, <1>5 DEF ReceiveMessage, TypeInv

\* A request that is not under way yet.
LEMMA NewRequestType ==
    ASSUME NEW s \in Stores, NEW id \in 1 .. MaxRequests
    PROVE  [store |-> s, id |-> id, of |-> "this", answer |-> Nothing] \in GoodRequests
<1> QED BY DEF GoodRequests, Optional, Tokens

\* The stores ask again.
LEMMA ReloadType ==
    ASSUME TypeInv, page = "this", NEW s \in Stores, Reload(s)
    PROVE  /\ inFlight' \subseteq GoodRequests
           /\ currentRequest' \in [Stores -> 0 .. MaxRequests]
           /\ requestCount' \in [Stores -> 0 .. MaxRequests]
<1>1. CASE currentRequest[s] # 0 \/ requestCount[s] = MaxRequests
  BY <1>1 DEF Reload, requestVars, TypeInv
<1>2. CASE ~(currentRequest[s] # 0 \/ requestCount[s] = MaxRequests)
  <2>1. MaxRequests \in Nat /\ requestCount[s] \in 0 .. MaxRequests /\ requestCount[s] # MaxRequests
    BY <1>2, TokenPageAssumption DEF TypeInv
  <2>2. requestCount[s] + 1 \in 1 .. MaxRequests /\ requestCount[s] + 1 \in 0 .. MaxRequests
    BY <2>1
  <2>3. requestCount' = [requestCount EXCEPT ![s] = @ + 1]
    BY <1>2 DEF Reload
  <2>4. requestCount' \in [Stores -> 0 .. MaxRequests] /\ requestCount'[s] = requestCount[s] + 1
    BY <2>2, <2>3 DEF TypeInv
  <2>5. currentRequest' = [currentRequest EXCEPT ![s] = requestCount'[s]]
    BY <1>2 DEF Reload
  <2>6. currentRequest' \in [Stores -> 0 .. MaxRequests]
    BY <2>2, <2>4, <2>5 DEF TypeInv
  <2>7. inFlight' = inFlight \cup
            {[store |-> s, id |-> requestCount[s] + 1, of |-> "this", answer |-> Nothing]}
    BY <1>2, <2>4 DEF Reload
  <2> QED BY <2>2, <2>4, <2>6, <2>7, NewRequestType DEF TypeInv
<1> QED BY <1>1, <1>2

\* Answers come and are taken in, or do not come.
LEMMA AnswerTypes ==
    ASSUME TypeInv, Requests
    PROVE  TypeInv'
<1> USE DEF chainVars, indexerVars, socketVars, buttonVars
<1>z. 0 \in 0 .. MaxRequests
  BY Bounds
<1>1. CASE ServerAnswers
  <2>1. PICK r \in inFlight :
            r.answer = Nothing /\ inFlight' = (inFlight \ {r}) \cup {[r EXCEPT !.answer = AnswerTo(r)]}
    BY <1>1 DEF ServerAnswers
  <2>2. r \in GoodRequests /\ r.of = "this"
    BY <2>1 DEF TypeInv, GoodRequests
  <2>3. /\ AnswerTo(r) \in Replies /\ AnswerTo(r).of = r.of
        /\ AnswerTo(r).data \in IF r.store = "token" THEN Optional(Users) ELSE Optional(GoodTransfers)
    BY <2>2 DEF AnswerTo, Replies, Rows, TypeInv, Optional, Tokens
  <2> DEFINE a == AnswerTo(r)
  <2> HIDE DEF a
  <2>4. [r EXCEPT !.answer = a] \in GoodRequests
    BY <2>2, <2>3 DEF GoodRequests, Optional, a
  <2> QED BY <1>1, <2>1, <2>4 DEF ServerAnswers, TypeInv, a
<1>2. CASE ReceiveAnswer
  <2>1. PICK r \in inFlight :
          /\ r.answer # Nothing
          /\ inFlight' = inFlight \ {r}
          /\ IF IsCurrent(r)
             THEN /\ currentRequest' = [currentRequest EXCEPT ![r.store] = 0]
                  /\ shown' = [shown EXCEPT ![r.store] = r.answer]
                  /\ canContinue' \in BOOLEAN
             ELSE UNCHANGED <<currentRequest, shown, canContinue>>
    BY <1>2 DEF ReceiveAnswer, SetReceiptBlock, TypeInv
  <2>2. /\ r \in GoodRequests /\ r.store \in Stores /\ r.answer \in Replies
        /\ r.answer.data \in IF r.store = "token" THEN Optional(Users) ELSE Optional(GoodTransfers)
    BY <2>1 DEF TypeInv, GoodRequests, Optional
  <2>3. ShownType([shown EXCEPT ![r.store] = r.answer])
    <3>1. r.answer \in [of : Tokens, data : IF r.store = "token" THEN Optional(Users) ELSE Optional(GoodTransfers)]
      BY <2>2 DEF Replies
    <3>2. CASE r.store = "token"
      BY <3>1, <3>2 DEF TypeInv, ShownType, Stores
    <3>3. CASE r.store = "transfer"
      BY <3>1, <3>3 DEF TypeInv, ShownType, Stores
    <3> QED BY <2>2, <3>2, <3>3 DEF Stores
  <2>4. /\ ShownType(shown') /\ canContinue' \in BOOLEAN
        /\ currentRequest' \in [Stores -> 0 .. MaxRequests] /\ inFlight' \subseteq GoodRequests
    BY <1>z, <2>1, <2>2, <2>3 DEF TypeInv
  <2> QED BY <1>2, <2>4 DEF ReceiveAnswer, TypeInv
<1>3. CASE RequestFails
  <2>1. currentRequest' \in [Stores -> 0 .. MaxRequests] /\ inFlight' \subseteq GoodRequests
    BY <1>3, <1>z DEF RequestFails, TypeInv
  <2> QED BY <1>3, <2>1 DEF RequestFails, TypeInv
<1> QED BY <1>1, <1>2, <1>3 DEF Requests

\* The page changes.
LEMMA NavigateTypes ==
    ASSUME TypeInv, Navigate
    PROVE  TypeInv'
<1> USE DEF chainVars, indexerVars, buttonVars
<1>1. \A s \in Stores : requestCount[s] + 1 \in 1 .. MaxRequests /\ requestCount[s] + 1 \in 0 .. MaxRequests
  <2> SUFFICES ASSUME NEW s \in Stores
               PROVE  requestCount[s] + 1 \in 1 .. MaxRequests /\ requestCount[s] + 1 \in 0 .. MaxRequests
    OBVIOUS
  <2>1. requestCount[s] \in 0 .. MaxRequests /\ requestCount[s] <= 1
    BY DEF Navigate, TypeInv
  <2> QED BY <2>1, Bounds
<1>2. /\ requestCount' \in [Stores -> 0 .. MaxRequests]
      /\ currentRequest' \in [Stores -> 0 .. MaxRequests]
  BY <1>1 DEF Navigate
<1>3. inFlight' \subseteq GoodRequests
  BY <1>1, NewRequestType DEF Navigate, TypeInv
<1>4. socket' \in {"open", "switching", "connecting", "closed"} /\ channel' \in Seq(Messages) /\ Len(channel') <= MaxChannel
  <2>1. CASE socket = "open"
    BY <2>1 DEF Navigate, socketVars, TypeInv
  <2>2. CASE socket # "open"
    <3>1. Greeting \in Messages
      BY DEF Greeting, Messages, Rows, Tokens, TypeInv
    <3> HIDE DEF Greeting
    <3>2. <<Greeting>> \in Seq(Messages) /\ Len(<<Greeting>>) = 1
      BY <3>1
    <3>3. socket' = "connecting" /\ channel' = <<Greeting>>
      BY <2>2 DEF Navigate
    <3> QED BY <3>2, <3>3, Bounds
  <2> QED BY <2>1, <2>2
<1> QED BY <1>2, <1>3, <1>4 DEF Navigate, TypeInv, Tokens

\* A button is pressed, its call is mined or fails.
LEMMA ButtonTypes ==
    ASSUME TypeInv, (\E button \in Buttons : Press(button)) \/ Mine \/ ActionFails
    PROVE  TypeInv'
<1> USE DEF indexerVars, socketVars, requestVars
<1>1. ASSUME NEW button \in Buttons, Press(button)
      PROVE  TypeInv'
  <2>1. job' \in Jobs
    BY <1>1 DEF Press, Jobs
  <2> QED BY <1>1, <2>1 DEF Press, OnActionStart, AllWaiting, TypeInv, chainVars
<1>2. CASE Mine
  <2>1. job \in Jobs /\ job.button \in Buttons /\ me \in Users
    BY <1>2 DEF Mine, TypeInv, Jobs, Users
  <2>2. /\ chain' \in GoodChains /\ mined' \in Seq(Messages) /\ Len(mined') <= MaxLag
        /\ sent => mined' # <<>>
        /\ chain'.count \in 0 .. MaxDeals
        /\ job.button \in {"placeOrder", "initTransfer"} => chain'.count # 0
    BY <1>2, <2>1, CallType DEF Mine
  <2> DEFINE n == chain'.count
  <2>3. job' = [job EXCEPT !.receipt = n]
    BY <1>2 DEF Mine
  <2> HIDE DEF n
  <2>4. job' \in Jobs
    BY <2>1, <2>2, <2>3 DEF Jobs, n
  <2> QED BY <1>2, <2>2, <2>4 DEF Mine, TypeInv
<1>3. CASE ActionFails
  BY <1>3 DEF ActionFails, OnActionError, AllWaiting, TypeInv, chainVars
<1> QED BY <1>1, <1>2, <1>3

\* What the page makes of the receipt.
LEMMA ReceiptTypes ==
    ASSUME TypeInv, page = "this", ReceiptArrives
    PROVE  TypeInv'
<1> USE DEF chainVars, indexerVars, socketVars
<1>j. job \in Jobs /\ job.button \in Buttons /\ job.receipt \in 0 .. MaxDeals
  BY DEF ReceiptArrives, TypeInv, Jobs
<1>w. waiting \in [event : BOOLEAN, receipt : BOOLEAN]
  BY DEF TypeInv
<1>t. transfer \in Optional(GoodTransfers)
  BY DEF transfer, TypeInv, ShownType
<1>s. ASSUME NEW data \in Optional(GoodTransfers), Show(data)
      PROVE  ShownType(shown')
  BY <1>s, ShownChange DEF Show, TypeInv, Tokens
<1>q. ASSUME ShownType(shown'), waiting' \in [event : BOOLEAN, receipt : BOOLEAN],
             canContinue' \in BOOLEAN,
             UNCHANGED requestVars \/ Reload("token")
      PROVE  TypeInv'
  <2>1. /\ inFlight' \subseteq GoodRequests
        /\ currentRequest' \in [Stores -> 0 .. MaxRequests]
        /\ requestCount' \in [Stores -> 0 .. MaxRequests]
    BY <1>q, ReloadType DEF TypeInv, requestVars, Stores
  <2> QED BY <1>q, <2>1 DEF ReceiptArrives, TypeInv
<1>r. ReceiptOnly => TypeInv'
  BY <1>q, <1>w DEF ReceiptOnly, NoChange, TypeInv
<1>e. EventSeen => waiting' \in [event : BOOLEAN, receipt : BOOLEAN]
  BY <1>w DEF EventSeen
<1>n. Nothing \in Optional(GoodTransfers)
  BY DEF Optional
<1>u. ASSUME transfer # Nothing, NEW status \in Statuses, Unshift(status)
      PROVE  ShownType(shown')
  <2> DEFINE old == transfer
             statuses == IF Exists(status, old) THEN old.statuses ELSE <<status>> \o old.statuses
  <2>1. old \in GoodTransfers /\ old.statuses \in Seq(Statuses)
    BY <1>t, <1>u DEF Optional, GoodTransfers, Transfers
  <2>2. statuses \in Seq(Statuses) /\ statuses # <<>> /\ NoneTwice(statuses)
    BY <1>u, <2>1, StatusAdded DEF Exists, GoodTransfers
  <2> HIDE DEF statuses
  <2>3. [old EXCEPT !.statuses = statuses] \in GoodTransfers
    BY <2>1, <2>2 DEF GoodTransfers, Transfers
  <2>4. Show([old EXCEPT !.statuses = statuses])
    BY <1>u DEF Unshift, statuses
  <2> QED BY <1>s, <2>3, <2>4 DEF Optional
<1>1. CASE job.button \in {"placeOrder", "initTransfer"}
  <2> DEFINE data == [number |-> job.receipt, statuses |-> <<"Drafted">>, order |-> FALSE, to |-> Nothing]
  <2>1. data \in GoodTransfers
    <3>1. job.receipt \in 1 .. MaxDeals
      BY <1>1, <1>j, Bounds DEF ReceiptArrives, Jobs
    <3> QED BY <3>1, StatusOnly DEF GoodTransfers, Transfers, Statuses, Optional
  <2> HIDE DEF data
  <2>2. OnTransferDraft
    BY <1>1 DEF ReceiptArrives, Handle
  <2>3. \/ ReceiptOnly
        \/ Show(data) /\ canContinue' \in BOOLEAN /\ EventSeen /\ UNCHANGED requestVars
    BY <2>2 DEF OnTransferDraft, SetReceiptBlock, data
  <2> QED BY <1>r, <1>s, <1>q, <1>e, <2>1, <2>3 DEF Optional
<1>2. CASE job.button \in {"fulfillOrder", "setPublicKey"}
  <2>1. OnTransferPublicKeySet
    BY <1>2 DEF ReceiptArrives, Handle
  <2>2. \/ ReceiptOnly
        \/ /\ transfer # Nothing /\ Unshift("PublicKeySet")
           /\ canContinue' \in BOOLEAN /\ EventSeen /\ UNCHANGED requestVars
    BY <2>1 DEF OnTransferPublicKeySet, IsOfThis, SetReceiptBlock
  <2> QED BY <1>r, <1>u, <1>q, <1>e, <2>2 DEF Statuses
<1>3. CASE job.button \in {"approveTransfer", "reportFraud"}
  <2>1. PICK status \in Statuses : OnStatus(status)
    BY <1>3 DEF ReceiptArrives, Handle, Statuses
  <2>2. \/ ReceiptOnly
        \/ /\ transfer # Nothing /\ Unshift(status)
           /\ canContinue' \in BOOLEAN /\ EventSeen /\ UNCHANGED requestVars
    BY <2>1 DEF OnStatus, IsOfThis, SetReceiptBlock
  <2> QED BY <1>r, <1>u, <1>q, <1>e, <2>2
<1>4. CASE job.button = "finalizeTransfer"
  <2>1. \/ ReceiptOnly
        \/ Show(Nothing) /\ EventSeen /\ Reload("token") /\ UNCHANGED canContinue
    BY <1>4 DEF ReceiptArrives, Handle, OnTransferFinished
  <2> QED BY <1>r, <1>s, <1>q, <1>e, <1>n, <2>1 DEF TypeInv
<1>5. CASE job.button \in {"cancelOrder", "cancelTransfer"}
  <2>1. Show(Nothing) /\ EventSeen /\ UNCHANGED requestVars /\ UNCHANGED canContinue
    BY <1>5 DEF ReceiptArrives, Handle, OnTransferCancellation
  <2> QED BY <1>s, <1>q, <1>e, <1>n, <2>1 DEF TypeInv
<1> QED BY <1>j, <1>1, <1>2, <1>3, <1>4, <1>5 DEF Buttons

\* Every step keeps the types.
LEMMA TypeInductive ==
    ASSUME TypeInv, [Next]_vars
    PROVE  TypeInv'
<1>1. CASE UNCHANGED vars
  BY <1>1 DEF vars, TypeInv
<1>2. CASE Next
  BY <1>2, NavigateTypes, AnswerTypes, ChainTypes, IndexerTypes, MessageTypes, ButtonTypes,
     ReceiptTypes DEF Next, Indexer, Button
<1> QED BY <1>1, <1>2

\* The page changes from another token, or is opened.
LEMMA TypeInitial == Init => TypeInv
<1> SUFFICES ASSUME Init PROVE TypeInv
  OBVIOUS
<1>b. /\ MaxLag \in Nat /\ MaxDeals \in Nat /\ MaxChannel \in Nat /\ MaxRequests \in Nat
      /\ 1 <= MaxDeals /\ 1 <= MaxChannel /\ 2 <= MaxRequests
      /\ me \in Users /\ FirstOwners \subseteq Users
  BY Bounds, TokenPageAssumption DEF Users
<1>o. OldTransfer \in GoodTransfers
  BY OldMessageType
<1>1. chain \in GoodChains /\ row \in Rows
  <2>1. PICK owner \in Users :
            /\ chain = [owner |-> owner, count |-> 0, deal |-> Nothing]
            /\ row = [owner |-> owner, transfer |-> Nothing]
    BY <1>b DEF Init
  <2>2. 0 \in 0 .. MaxDeals
    BY <1>b
  <2> QED BY <2>1, <2>2 DEF GoodChains, Rows, Optional
<1>e. <<>> \in Seq(Messages) /\ Len(<<>>) = 0
  OBVIOUS
<1>2. mined \in Seq(Messages) /\ Len(mined) <= MaxLag /\ sent = FALSE /\ page = "old"
  <2>1. mined = <<>> /\ sent = FALSE /\ page = "old"
    BY DEF Init
  <2> QED BY <1>b, <1>e, <2>1
<1>3. /\ waiting \in [event : BOOLEAN, receipt : BOOLEAN] /\ canContinue \in BOOLEAN /\ job = Nothing
  BY DEF Init, AllWaiting
<1>4. CASE /\ socket = "open"
           /\ shown = [transfer |-> [of |-> "old", data |-> OldTransfer],
                       token |-> [of |-> "old", data |-> me]]
           /\ channel \in {<<>>, <<OldMessage>>}
           /\ inFlight = {[store |-> "transfer", id |-> 1, of |-> "old", answer |-> OldAnswer]}
           /\ currentRequest = [transfer |-> 1, token |-> 0]
           /\ requestCount = [s \in Stores |-> 1]
  <2> HIDE DEF OldTransfer
  <2>1. ShownType(shown)
    BY <1>4, <1>b, <1>o DEF ShownType, Stores, Optional, Tokens
  <2>2. channel \in Seq(Messages) /\ Len(channel) <= MaxChannel
    <3> DEFINE m == OldMessage
    <3>1. m \in Messages
      BY OldMessageType
    <3> HIDE DEF m
    <3>2. <<m>> \in Seq(Messages) /\ Len(<<m>>) = 1
      BY <3>1
    <3>3. channel = <<>> \/ channel = <<m>>
      BY <1>4 DEF m
    <3>4. 0 <= MaxChannel
      BY <1>b
    <3>5. CASE channel = <<>>
      BY <1>e, <3>4, <3>5
    <3>6. CASE channel = <<m>>
      BY <1>b, <3>2, <3>6
    <3> QED BY <3>3, <3>5, <3>6
  <2>3. inFlight \subseteq GoodRequests
    <3>1. OldAnswer \in Replies /\ OldAnswer.of = "old" /\ OldAnswer.data \in Optional(GoodTransfers)
      BY <1>o DEF OldAnswer, Replies, Optional, Tokens
    <3>2. OldAnswer # Nothing
      BY NothingAssumption
    <3>3. 1 \in 1 .. MaxRequests
      BY <1>b
    <3> HIDE DEF OldAnswer
    <3> QED BY <1>4, <3>1, <3>2, <3>3 DEF GoodRequests, Optional, Tokens, Stores
  <2>4. currentRequest \in [Stores -> 0 .. MaxRequests] /\ requestCount \in [Stores -> 0 .. MaxRequests]
    BY <1>4, <1>b DEF Stores
  <2>5. \A s \in Stores : requestCount[s] <= 1
    BY <1>4
  <2> QED BY <1>1, <1>2, <1>3, <1>4, <2>1, <2>2, <2>3, <2>4, <2>5 DEF TypeInv, Tokens
<1>5. CASE /\ socket = "closed" /\ channel = <<>>
           /\ shown = [s \in Stores |-> [of |-> "this", data |-> Nothing]]
           /\ inFlight = {}
           /\ currentRequest = [s \in Stores |-> 0] /\ requestCount = [s \in Stores |-> 0]
  <2>1. ShownType(shown)
    BY <1>5 DEF ShownType, Stores, Optional, Tokens
  <2>2. channel \in Seq(Messages) /\ Len(channel) <= MaxChannel
    BY <1>5, <1>b, <1>e
  <2>4. \A s \in Stores : requestCount[s] <= 1
    BY <1>5
  <2>3. currentRequest \in [Stores -> 0 .. MaxRequests] /\ requestCount \in [Stores -> 0 .. MaxRequests]
    BY <1>5, <1>b
  <2> QED BY <1>1, <1>2, <1>3, <1>5, <2>1, <2>2, <2>3, <2>4 DEF TypeInv, Tokens
<1> QED BY <1>4, <1>5 DEF Init

\* A receipt makes the stores ask again, or not.
LEMMA ReceiptRequests ==
    ASSUME ReceiptArrives, TypeInv
    PROVE  UNCHANGED requestVars \/ Reload("token")
<1>1. job.button \in Buttons
  BY DEF ReceiptArrives, TypeInv, Jobs
<1>2. \/ OnTransferDraft \/ OnTransferPublicKeySet \/ OnStatus("PasswordSet")
      \/ OnStatus("FraudReported") \/ OnTransferFinished \/ OnTransferCancellation
  BY <1>1 DEF ReceiptArrives, Handle, Buttons
<1> QED BY <1>2 DEF OnTransferDraft, OnTransferPublicKeySet, OnStatus, OnTransferFinished,
           OnTransferCancellation, ReceiptOnly, NoChange

\* A page, its stores and connection, the indexer and the contracts stay well typed,
\* whatever arrives in whichever order.  No deal has a status twice, neither on the
\* chain nor on the page, though the page adds statuses that messages and answers
\* bring too.
THEOREM TypeCorrect == Spec => []TypeOK
<1>1. TypeInv /\ [Next]_vars => TypeInv'
  BY TypeInductive
<1>2. ASSUME TypeInv PROVE TypeOK
  <2>1. chain.owner \in Users /\ chain.count \in 0 .. MaxDeals /\ chain.deal \in GoodDeals \cup {Nothing}
    BY <1>2 DEF TypeInv, GoodChains, Optional
  <2>2. TransferOf(chain.deal) \in Optional(Transfers)
    BY <2>1, TransferType DEF Optional, GoodTransfers
  <2>3. chain.deal # Nothing => NoneTwice(chain.deal.statuses)
    BY <2>1 DEF GoodDeals
  <2>4. /\ transfer \in Optional(Transfers) /\ (transfer # Nothing => NoneTwice(transfer.statuses))
        /\ shown["transfer"].of \in Tokens /\ shown["transfer"].data \in Optional(Transfers)
        /\ shown["token"].of \in Tokens /\ shown["token"].data \in Optional(Users)
    BY <1>2 DEF TypeInv, ShownType, transfer, GoodTransfers, Optional
  <2>5. \A s \in Stores : shown[s].of \in Tokens /\ shown[s].data \in Data(s)
    BY <2>4 DEF Stores, Data
  <2>6. row.owner \in Users /\ row.transfer \in Optional(Transfers)
    BY <1>2 DEF TypeInv, Rows, GoodTransfers, Optional
  <2>7. \A r \in inFlight : r.store \in Stores /\ r.id \in 1 .. MaxRequests /\ r.of \in Tokens
    BY <1>2 DEF TypeInv, GoodRequests
  <2>8. waiting \in [{"event", "receipt"} -> BOOLEAN]
    BY <1>2 DEF TypeInv
  <2>9. job \in {Nothing} \cup [button : Buttons, receipt : 0 .. MaxDeals \cup {Nothing}]
    BY <1>2 DEF TypeInv, Jobs
  <2> QED BY <1>2, <2>1, <2>2, <2>3, <2>4, <2>5, <2>6, <2>7, <2>8, <2>9 DEF TypeInv, TypeOK
<1> QED BY <1>1, <1>2, TypeInitial, PTL DEF Spec

-----------------------------------------------------------------------------
(* The buttons wait.                                                       *)

\* While a call is under way its receipt is waited for.
WaitInv == TypeInv /\ (job # Nothing => waiting.receipt)

\* Every step keeps the invariant.
LEMMA WaitInductive ==
    ASSUME WaitInv, [Next]_vars
    PROVE  WaitInv'
<1> USE DEF buttonVars
<1>t. TypeInv /\ TypeInv'
  BY TypeInductive DEF WaitInv
<1>w. waiting \in [event : BOOLEAN, receipt : BOOLEAN]
  BY <1>t DEF TypeInv
<1>1. CASE UNCHANGED <<waiting, job>>
  BY <1>t, <1>1 DEF WaitInv
<1>2. CASE job' = Nothing
  BY <1>t, <1>2 DEF WaitInv
<1>3. CASE job' = job /\ waiting' = [waiting EXCEPT !.event = FALSE]
  BY <1>t, <1>w, <1>3 DEF WaitInv
<1>4. CASE job # Nothing /\ waiting' = waiting
  BY <1>t, <1>4 DEF WaitInv
<1>5. CASE waiting' = AllWaiting(TRUE)
  BY <1>t, <1>5 DEF WaitInv, AllWaiting
<1>6. CASE UNCHANGED vars
  BY <1>1, <1>6 DEF vars
<1>7. CASE Navigate \/ Requests
  BY <1>1, <1>7 DEF Navigate, Requests, ServerAnswers, ReceiveAnswer, RequestFails
<1>8. CASE OtherCalls \/ DecideFraud \/ TimeoutPasses \/ Indexer \/ Drop \/ Reconnect
           \/ AddConnection \/ SubscribeTo \/ SendOldMessage \/ BlockSeen
  BY <1>1, <1>8 DEF OtherCalls, DecideFraud, TimeoutPasses, Indexer, SendMessage, Commit, Drop,
     Reconnect, AddConnection, SubscribeTo, SendOldMessage, BlockSeen
<1>9. CASE ReceiveMessage
  BY <1>3, <1>9 DEF ReceiveMessage
<1>10. CASE \E button \in Buttons : Press(button)
  BY <1>5, <1>10 DEF Press, OnActionStart
<1>11. CASE Button
  BY <1>2, <1>4, <1>11 DEF Button, Mine, ReceiptArrives, ActionFails
<1> QED BY <1>6, <1>7, <1>8, <1>9, <1>10, <1>11 DEF Next

\* From the press of a button to the end of its transaction no button is visible and
\* enabled, whichever of receipt, message and handler comes first, and whatever else
\* changes the three flags meanwhile.
THEOREM ButtonsDoWait == Spec => []ButtonsWait
<1>1. Init => WaitInv
  BY TypeInitial DEF Init, WaitInv
<1>2. WaitInv /\ [Next]_vars => WaitInv'
  BY WaitInductive
<1>3. WaitInv => ButtonsWait
  BY DEF WaitInv, TypeInv, ButtonsWait, IsDisabled, IsLoading, isWaitingForContinue
<1> QED BY <1>1, <1>2, <1>3, PTL DEF Spec

-----------------------------------------------------------------------------
(* An answer that counts is of the token whose page is open.               *)

\* The request whose answer a store awaits is of the page's token; its number is the
\* newest, and no answer from before the page changed has it.
CountInv ==
    /\ TypeInv
    /\ \A s \in Stores : currentRequest[s] <= requestCount[s]
    /\ \A r \in inFlight : /\ r.id <= requestCount[r.store]
                           /\ IsCurrent(r) => r.of = page

\* The numbers of requests.
LEMMA Counts ==
    ASSUME TypeInv
    PROVE  /\ \A s \in Stores : currentRequest[s] \in Nat /\ requestCount[s] \in Nat
           /\ \A r \in inFlight : r.id \in Nat /\ r.id # 0 /\ r.store \in Stores
<1>1. \A s \in Stores : currentRequest[s] \in 0 .. MaxRequests /\ requestCount[s] \in 0 .. MaxRequests
  BY DEF TypeInv
<1>2. \A r \in inFlight : r.id \in 1 .. MaxRequests /\ r.store \in Stores
  BY DEF TypeInv, GoodRequests
<1> QED BY <1>1, <1>2, Bounds

\* A store that asks again keeps the invariant.
LEMMA ReloadCounts ==
    ASSUME CountInv, TypeInv', NEW s \in Stores, Reload(s), UNCHANGED page
    PROVE  CountInv'
<1>t. TypeInv
  BY DEF CountInv
<1>1. CASE currentRequest[s] # 0 \/ requestCount[s] = MaxRequests
  BY <1>1 DEF Reload, requestVars, CountInv, IsCurrent
<1>2. CASE ~(currentRequest[s] # 0 \/ requestCount[s] = MaxRequests)
  <2>1. /\ requestCount' = [requestCount EXCEPT ![s] = @ + 1]
        /\ currentRequest' = [currentRequest EXCEPT ![s] = requestCount'[s]]
        /\ inFlight' = inFlight \cup
               {[store |-> s, id |-> requestCount'[s], of |-> page, answer |-> Nothing]}
    BY <1>2 DEF Reload
  <2>2. /\ requestCount'[s] = requestCount[s] + 1 /\ currentRequest'[s] = requestCount[s] + 1
        /\ \A o \in Stores \ {s} : requestCount'[o] = requestCount[o] /\ currentRequest'[o] = currentRequest[o]
    BY <1>t, <2>1 DEF TypeInv
  <2>3. \A o \in Stores : currentRequest'[o] <= requestCount'[o]
    BY <1>t, <2>2, Counts DEF CountInv
  <2>4. ASSUME NEW r \in inFlight'
        PROVE  /\ r.id <= requestCount'[r.store]
               /\ currentRequest'[r.store] = r.id => r.of = page
    <3>1. CASE r \in inFlight
      BY <1>t, <2>2, <3>1, Counts DEF CountInv, IsCurrent
    <3>2. CASE r = [store |-> s, id |-> requestCount[s] + 1, of |-> page, answer |-> Nothing]
      BY <1>t, <2>2, <3>2, Counts
    <3> QED BY <2>1, <2>2, <2>4, <3>1, <3>2
  <2> QED BY <2>3, <2>4 DEF CountInv, IsCurrent
<1> QED BY <1>1, <1>2

\* Every step keeps the invariant.
LEMMA CountInductive ==
    ASSUME CountInv, [Next]_vars
    PROVE  CountInv'
<1> USE DEF requestVars
<1>t. TypeInv /\ TypeInv'
  BY TypeInductive DEF CountInv
<1>1. CASE UNCHANGED <<requestVars, page>>
  BY <1>t, <1>1 DEF CountInv, IsCurrent
<1>2. CASE Navigate
  <2>1. /\ page' = "this" /\ currentRequest' = requestCount'
        /\ requestCount' = [s \in Stores |-> requestCount[s] + 1]
        /\ inFlight' = inFlight \cup
               {[store |-> s, id |-> requestCount[s] + 1, of |-> "this", answer |-> Nothing] : s \in Stores}
    BY <1>2 DEF Navigate
  <2>2. \A s \in Stores : currentRequest'[s] = requestCount[s] + 1 /\ requestCount'[s] = requestCount[s] + 1
    BY <2>1
  <2>3. ASSUME NEW r \in inFlight'
        PROVE  /\ r.id <= requestCount'[r.store]
               /\ currentRequest'[r.store] = r.id => r.of = page'
    <3>1. CASE r \in inFlight
      BY <1>t, <2>2, <3>1, Counts DEF CountInv
    <3>2. CASE \E s \in Stores :
                   r = [store |-> s, id |-> requestCount[s] + 1, of |-> "this", answer |-> Nothing]
      BY <1>t, <2>1, <2>2, <3>2, Counts
    <3> QED BY <2>1, <2>3, <3>1, <3>2
  <2> QED BY <1>t, <2>2, <2>3, Counts DEF CountInv, IsCurrent
<1>3. CASE ServerAnswers
  <2>1. PICK r \in inFlight :
            r.answer = Nothing /\ inFlight' = (inFlight \ {r}) \cup {[r EXCEPT !.answer = AnswerTo(r)]}
    BY <1>3 DEF ServerAnswers
  <2> DEFINE answered == [r EXCEPT !.answer = AnswerTo(r)]
  <2>2. answered.id = r.id /\ answered.store = r.store /\ answered.of = r.of
    BY <1>t, <2>1 DEF TypeInv, GoodRequests
  <2> HIDE DEF answered
  <2>3. inFlight' = (inFlight \ {r}) \cup {answered} /\ UNCHANGED <<page, currentRequest, requestCount>>
    BY <1>3, <2>1 DEF ServerAnswers, answered
  <2> QED BY <1>t, <2>2, <2>3 DEF CountInv, IsCurrent
<1>4. CASE ReceiveAnswer \/ RequestFails
  <2>1. PICK r \in inFlight :
            /\ inFlight' = inFlight \ {r}
            /\ \/ currentRequest' = [currentRequest EXCEPT ![r.store] = 0]
               \/ currentRequest' = currentRequest
            /\ UNCHANGED <<page, requestCount>>
    BY <1>4 DEF ReceiveAnswer, RequestFails
  <2>2. \A s \in Stores : currentRequest'[s] \in {0, currentRequest[s]}
    BY <1>t, <2>1 DEF TypeInv
  <2>3. \A s \in Stores : currentRequest'[s] <= requestCount'[s]
    BY <1>t, <2>1, <2>2, Counts DEF CountInv
  <2>4. \A o \in inFlight' : /\ o.id <= requestCount'[o.store]
                             /\ currentRequest'[o.store] = o.id => o.of = page'
    BY <1>t, <2>1, <2>2, Counts DEF CountInv, IsCurrent
  <2> QED BY <1>t, <2>3, <2>4 DEF CountInv, IsCurrent
<1>5. CASE OtherCalls \/ DecideFraud \/ TimeoutPasses \/ Indexer \/ Drop \/ Reconnect
           \/ AddConnection \/ SubscribeTo \/ SendOldMessage \/ BlockSeen \/ ReceiveMessage
           \/ (\E button \in Buttons : Press(button)) \/ Mine \/ ActionFails
  BY <1>1, <1>5 DEF OtherCalls, DecideFraud, TimeoutPasses, Indexer, SendMessage, Commit, Drop,
     Reconnect, AddConnection, SubscribeTo, SendOldMessage, BlockSeen, ReceiveMessage, Press,
     Mine, ActionFails
<1>6. CASE ReceiptArrives
  <2>1. page' = page /\ (UNCHANGED requestVars \/ Reload("token"))
    BY <1>t, <1>6, ReceiptRequests DEF ReceiptArrives
  <2> QED BY <1>t, <1>1, <2>1, ReloadCounts DEF Stores
<1>7. CASE UNCHANGED vars
  BY <1>1, <1>7 DEF vars
<1> QED BY <1>2, <1>3, <1>4, <1>5, <1>6, <1>7 DEF Next, Requests, Button

\* An answer that a store takes in is of the token whose page is open, whatever was
\* requested before the page changed, and in whichever order the answers come: the
\* old request has a number that the store no longer awaits.
THEOREM AnswersAreOfThisToken == Spec => AnswerIsOfThisToken
<1> DEFINE Step == \A s \in Stores :
                       /\ inFlight' # inFlight
                       /\ shown'[s] # shown[s]
                       /\ \E r \in inFlight \ inFlight' : r.store = s
                       => shown'[s].of = page
<1>1. Init => CountInv
  <2> SUFFICES ASSUME Init PROVE CountInv
    OBVIOUS
  <2>1. TypeInv
    BY TypeInitial
  <2>2. \/ /\ inFlight = {[store |-> "transfer", id |-> 1, of |-> "old", answer |-> OldAnswer]}
           /\ currentRequest = [transfer |-> 1, token |-> 0]
           /\ requestCount = [s \in Stores |-> 1]
        \/ /\ inFlight = {}
           /\ currentRequest = [s \in Stores |-> 0] /\ requestCount = [s \in Stores |-> 0]
    BY DEF Init
  <2>3. page = "old"
    BY DEF Init
  <2>4. \A s \in Stores : currentRequest[s] <= requestCount[s]
    BY <2>2 DEF Stores
  <2>5. \A r \in inFlight : r.id <= requestCount[r.store] /\ r.of = page
    BY <2>2, <2>3 DEF Stores
  <2> QED BY <2>1, <2>4, <2>5 DEF CountInv
<1>2. CountInv /\ [Next]_vars => CountInv'
  BY CountInductive
<1>3. CountInv /\ [Next]_vars => [Step]_vars
  <2> SUFFICES ASSUME CountInv, Next, NEW s \in Stores, inFlight' # inFlight, shown'[s] # shown[s],
                      NEW r \in inFlight \ inFlight', r.store = s
               PROVE  shown'[s].of = page
    OBVIOUS
  <2>t. TypeInv
    BY DEF CountInv
  <2>1. CASE ReceiveAnswer
    <3>1. PICK q \in inFlight :
              /\ q.answer # Nothing /\ inFlight' = inFlight \ {q}
              /\ IF IsCurrent(q) THEN shown' = [shown EXCEPT ![q.store] = q.answer]
                                 ELSE UNCHANGED shown
      BY <2>1 DEF ReceiveAnswer
    <3>2. q = r /\ IsCurrent(r) /\ shown' = [shown EXCEPT ![s] = r.answer]
      BY <3>1
    <3>3. r.answer.of = r.of /\ r.of = page
      BY <2>t, <3>1, <3>2 DEF CountInv, TypeInv, GoodRequests
    <3>4. shown'[s] = r.answer
      BY <2>t, <3>2 DEF TypeInv, ShownType
    <3> QED BY <3>3, <3>4
  <2>2. CASE ReceiptArrives
    <3>1. inFlight \subseteq inFlight'
      BY <2>t, <2>2, ReceiptRequests DEF Reload, requestVars
    <3> QED BY <3>1
  <2>3. CASE ServerAnswers \/ RequestFails \/ Navigate
    BY <2>3 DEF ServerAnswers, RequestFails, Navigate
  <2>4. CASE UNCHANGED inFlight
    BY <2>4
  <2>5. CASE OtherCalls \/ DecideFraud \/ TimeoutPasses \/ Indexer \/ Drop \/ Reconnect
             \/ AddConnection \/ SubscribeTo \/ SendOldMessage \/ BlockSeen \/ ReceiveMessage
             \/ (\E button \in Buttons : Press(button)) \/ Mine \/ ActionFails
    BY <2>4, <2>5
        DEF OtherCalls, DecideFraud, TimeoutPasses, Indexer, SendMessage, Commit, Drop,
       Reconnect, AddConnection, SubscribeTo, SendOldMessage, BlockSeen, ReceiveMessage, Press,
     Mine, ActionFails, requestVars
  <2> QED BY <2>1, <2>2, <2>3, <2>5 DEF Next, Requests, Button
<1> QED BY <1>1, <1>2, <1>3, PTL DEF Spec, AnswerIsOfThisToken

-----------------------------------------------------------------------------
(* What the page offers is accepted.                                       *)

\* status.ts repeats the guards of the contracts without a mistake: whatever an up
\* to date page offers its user, the contract accepts, in every state of every kind
\* of deal and before and after the timeouts.
THEOREM OffersAreAccepted == Spec => []OfferedIsAccepted
<1>1. TypeInv /\ [Next]_vars => TypeInv'
  BY TypeInductive
<1>2. TypeInv => OfferedIsAccepted
  <2> SUFFICES ASSUME TypeInv, NEW button \in Buttons, IsUpToDate, Offered(button)
               PROVE  Accepts(button, me)
    BY DEF OfferedIsAccepted
  <2>c. chain \in GoodChains
    BY DEF TypeInv
  <2>u. /\ shown.token.data = chain.owner
        /\ Status(transfer) = Status(chain.deal)
        /\ transfer # Nothing => /\ transfer.number = chain.deal.number
                                 /\ transfer.to \in {Nothing, chain.deal.to}
    BY DEF IsUpToDate
  <2>n. Nothing \notin Statuses /\ me # Nothing
    BY NothingAssumption DEF Users
  <2>d. chain.deal # Nothing =>
            /\ Status(chain.deal) \in Statuses \ {"Finished"}
            /\ Status(chain.deal) = "Drafted" => chain.deal.order
    BY <2>c, DealType
  <2>l. chain.deal # Nothing /\ transfer # Nothing /\ IsLate => chain.deal.late
    BY <2>u DEF IsLate
  <2>b. isBuyer => transfer # Nothing /\ chain.deal.to = me
    BY <2>u, <2>n DEF isBuyer
  <2>s. Status(transfer) \in Statuses => transfer # Nothing /\ chain.deal # Nothing
    BY <2>u, <2>n DEF Status
  <2>o. button \notin {"placeOrder", "initTransfer"} => button \notin Openers
    BY TokenPageAssumption
  <2>1. CASE isOwner /\ OwnerMay(button)
    <3>1. chain.owner = me
      BY <2>1, <2>u DEF isOwner
    <3>2. CASE button \in {"placeOrder", "initTransfer"}
      <4>1. button \in Openers /\ transfer = Nothing
        BY <2>1, <3>2 DEF OwnerMay
      <4>2. chain.deal = Nothing
        BY <2>u, <2>n, <2>d, <4>1 DEF Status
      <4> QED BY <3>1, <3>2, <4>1, <4>2 DEF Accepts
    <3>3. CASE button \notin {"placeOrder", "initTransfer"}
      <4>1. Status(transfer) \in Statuses
        BY <2>1, <2>o, <3>3 DEF OwnerMay, Statuses
      <4>2. chain.deal # Nothing /\ transfer # Nothing /\ Status(chain.deal) = Status(transfer)
        BY <2>s, <2>u, <4>1
      <4>3. CASE button = "approveTransfer"
        BY <2>1, <2>o, <3>1, <4>2, <4>3 DEF OwnerMay, Accepts
      <4>4. CASE button = "finalizeTransfer"
        BY <2>1, <2>o, <2>l, <3>1, <4>2, <4>4 DEF OwnerMay, Accepts
      <4>5. CASE button = "cancelOrder"
        BY <2>1, <2>o, <2>d, <3>1, <4>2, <4>5 DEF OwnerMay, Accepts
      <4>6. CASE button = "cancelTransfer"
        BY <2>1, <2>o, <3>1, <4>2, <4>6 DEF OwnerMay, Accepts
      <4> QED BY <2>1, <2>o, <3>3, <4>3, <4>4, <4>5, <4>6 DEF OwnerMay
    <3> QED BY <3>2, <3>3
  <2>2. CASE ~isOwner /\ BuyerMay(button)
    <3>1. button \notin Openers /\ Status(transfer) \in Statuses
      BY <2>2, <2>o DEF BuyerMay, Statuses
    <3>2. chain.deal # Nothing /\ transfer # Nothing /\ Status(chain.deal) = Status(transfer)
      BY <2>s, <2>u, <3>1
    <3>3. CASE button = "fulfillOrder"
      BY <2>2, <2>d, <3>1, <3>2, <3>3 DEF BuyerMay, Accepts
    <3>4. CASE button = "setPublicKey"
      BY <2>2, <2>b, <3>1, <3>2, <3>4 DEF BuyerMay, Accepts
    <3>5. CASE button = "finalizeTransfer"
      BY <2>2, <2>b, <3>1, <3>2, <3>5 DEF BuyerMay, Accepts
    <3>6. CASE button = "reportFraud"
      BY <2>2, <2>b, <3>1, <3>2, <3>6 DEF BuyerMay, Accepts
    <3>7. CASE button = "cancelTransfer"
      BY <2>2, <2>b, <2>l, <3>1, <3>2, <3>7 DEF BuyerMay, Accepts
    <3> QED BY <2>2, <3>1, <3>3, <3>4, <3>5, <3>6, <3>7 DEF BuyerMay, Buttons
  <2> QED BY <2>1, <2>2 DEF Offered
<1> QED BY <1>1, <1>2, TypeInitial, PTL DEF Spec

=============================================================================
