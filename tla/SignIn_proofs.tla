----------------------------- MODULE SignIn_proofs -----------------------------
(***************************************************************************)
(* Proofs about SignIn, for every value of its constants.                  *)
(***************************************************************************)
EXTENDS SignIn, FiniteSetTheorems, TLAPS

(* Types.                                                                  *)

Slots == {"current", "dropped"}

\* A request that was verified brought a pair; a sign-in that has begun found a
\* number.
GoodRequests == {q \in Requests :
    /\ q.kind = "refresh" /\ q.phase \in {"verified", "begun"} => q.pair # Nothing
    /\ q.kind = "bySignature" /\ q.phase = "begun" => q.read \in Numbers}

PageRequests == [current : Optional(GoodRequests), dropped : Optional(GoodRequests)]

TypeInv ==
    /\ table \in [Numbers -> Optional(Secrets)]
    /\ issued \in 0 .. MaxPairs
    /\ age \in [Secrets -> Fresh .. RefreshOld]
    /\ stored \in [Devices -> Optional(Pairs)]
    /\ isAuth \in [Pages -> BOOLEAN]
    /\ known \in [Pages -> SUBSET {"access", "refresh"}]
    /\ request \in [Pages -> PageRequests]
    /\ overlapped \in [Devices -> BOOLEAN]
    /\ missed \in [Devices -> BOOLEAN]

\* What a page holds, and what is under way.
LEMMA PageType ==
    ASSUME TypeInv, NEW p \in Pages
    PROVE  /\ DeviceOf[p] \in Devices
           /\ Held(p) \in Optional(Pairs)
           /\ Actual(p) \subseteq {"access", "refresh"}
           /\ Actual(p) # {} => Held(p) # Nothing
           /\ request[p] \in PageRequests
           /\ \A s \in Slots : request[p][s] \in Optional(GoodRequests)
<1>1. DeviceOf[p] \in Devices
  BY SignInAssumption
<1>2. Held(p) \in Optional(Pairs)
  BY <1>1 DEF Held, TypeInv
<1>3. Actual(p) \subseteq {"access", "refresh"} /\ (Actual(p) # {} => Held(p) # Nothing)
  BY DEF Actual
<1>4. request[p] \in PageRequests
  BY DEF TypeInv
<1>5. \A s \in Slots : request[p][s] \in Optional(GoodRequests)
  BY <1>4 DEF PageRequests, Slots
<1> QED BY <1>1, <1>2, <1>3, <1>4, <1>5

\* A new request.
LEMMA RequestType ==
    ASSUME NEW kind \in Kinds, NEW pair \in Optional(Pairs)
    PROVE  /\ Request(kind, pair) \in GoodRequests
           /\ Request(kind, pair).kind = kind
           /\ Request(kind, pair).pair = pair
           /\ Request(kind, pair).phase = "sent"
           /\ Request(kind, pair).answer = Nothing
<1>1. Request(kind, pair) \in Requests
  BY DEF Request, Requests, Optional
<1> QED BY <1>1 DEF Request, GoodRequests

\* A page sends a request: it takes the free slot current, or else dropped.
LEMMA SendType ==
    ASSUME TypeInv, NEW p \in Pages, NEW r \in PageRequests, NEW kind \in Kinds, Send(p, r, kind)
    PROVE  /\ request' \in [Pages -> PageRequests]
           /\ \A q \in Pages \ {p} : request'[q] = request[q]
           /\ \/ /\ r.current = Nothing
                 /\ request'[p].current = Request(kind, Held(p))
                 /\ request'[p].dropped = r.dropped
              \/ /\ r.current # Nothing
                 /\ request'[p].current = r.current
                 /\ request'[p].dropped = Request(kind, Held(p))
           /\ overlapped' \in [Devices -> BOOLEAN]
<1> DEFINE new == StoreRequest(r, kind, Held(p))
<1>1. Request(kind, Held(p)) \in GoodRequests
  BY PageType, RequestType
<1>2. /\ new \in PageRequests
      /\ \/ r.current = Nothing /\ new.current = Request(kind, Held(p)) /\ new.dropped = r.dropped
         \/ r.current # Nothing /\ new.current = r.current /\ new.dropped = Request(kind, Held(p))
  BY <1>1 DEF StoreRequest, PageRequests, Optional
<1>3. request' = [request EXCEPT ![p] = new]
  BY DEF Send
<1> HIDE DEF new
<1>4. /\ request'[p] = new /\ request' \in [Pages -> PageRequests]
      /\ \A q \in Pages \ {p} : request'[q] = request[q]
  BY <1>2, <1>3 DEF TypeInv
<1>5. overlapped' \in [Devices -> BOOLEAN]
  BY DEF Send, TypeInv
<1> QED BY <1>2, <1>4, <1>5

\* One slot changes.
LEMMA SlotType ==
    ASSUME TypeInv, NEW p \in Pages, NEW s \in Slots, NEW q \in Optional(GoodRequests),
           request' = [request EXCEPT ![p][s] = q]
    PROVE  /\ request' \in [Pages -> PageRequests]
           /\ request'[p][s] = q
           /\ \A o \in Pages, t \in Slots : o # p \/ t # s => request'[o][t] = request[o][t]
<1> QED BY DEF TypeInv, PageRequests, Slots

\* The server takes a request further.
LEMMA TakeType ==
    ASSUME TypeInv, NEW p \in Pages, NEW s \in Slots, NEW q \in GoodRequests, Take(p, s, q)
    PROVE  /\ request' \in [Pages -> PageRequests]
           /\ request'[p][s] = q
           /\ \A o \in Pages, t \in Slots : o # p \/ t # s => request'[o][t] = request[o][t]
<1>1. q \in Optional(GoodRequests)
  BY DEF Optional
<1>2. request' = [request EXCEPT ![p][s] = q]
  BY DEF Take
<1> QED BY <1>1, <1>2 DEF TypeInv, PageRequests, Slots

\* The server answers a request, or the answer is replaced.
LEMMA AnswerType ==
    ASSUME TypeInv, NEW p \in Pages, NEW s \in Slots, request[p][s] # Nothing,
           NEW ok \in BOOLEAN, NEW answer \in Optional(Pairs), Answer(p, s, ok, answer)
    PROVE  /\ request' \in [Pages -> PageRequests]
           /\ request'[p][s] \in GoodRequests
           /\ request'[p][s].kind = request[p][s].kind
           /\ request'[p][s].phase = "answered"
           /\ request'[p][s].pair = Nothing
           /\ request'[p][s].answer = answer
           /\ request'[p][s].ok = ok
           /\ \A o \in Pages, t \in Slots : o # p \/ t # s => request'[o][t] = request[o][t]
<1>1. request[p][s].kind \in Kinds
  BY PageType DEF Optional, GoodRequests, Requests
<1> DEFINE q == [kind |-> request[p][s].kind, pair |-> Nothing, phase |-> "answered",
                 read |-> Nothing, ok |-> ok, answer |-> answer]
<1>2. q \in GoodRequests
  BY <1>1 DEF GoodRequests, Requests, Optional
<1>3. Take(p, s, q)
  BY DEF Answer
<1> QED BY <1>2, <1>3, TakeType

\* A pair goes into the table at a number.
LEMMA InsertType ==
    ASSUME TypeInv, NEW p \in Pages, NEW s \in Slots, request[p][s] # Nothing,
           NEW number \in Numbers, Insert(p, s, number)
    PROVE  /\ issued + 1 \in Secrets /\ issued' = issued + 1
           /\ table' = [table EXCEPT ![number] = issued + 1]
           /\ table' \in [Numbers -> Optional(Secrets)]
           /\ [number |-> number, secret |-> issued + 1] \in Pairs
           /\ Answer(p, s, TRUE, [number |-> number, secret |-> issued + 1])
<1>1. issued + 1 \in Secrets /\ issued \in Nat /\ MaxPairs \in Nat
  BY SignInAssumption DEF TypeInv, Insert, Secrets
<1> QED BY <1>1 DEF Insert, TypeInv, Pairs, Optional

\* The steps of a page keep the types.
LEMMA LogoutType ==
    ASSUME TypeInv, NEW p \in Pages, NEW r \in PageRequests, Logout(p, r)
    PROVE  /\ request' \in [Pages -> PageRequests] /\ overlapped' \in [Devices -> BOOLEAN]
           /\ stored' \in [Devices -> Optional(Pairs)] /\ isAuth' \in [Pages -> BOOLEAN]
<1>1. Send(p, r, "logout")
  BY DEF Logout
<1>2. request' \in [Pages -> PageRequests] /\ overlapped' \in [Devices -> BOOLEAN]
  BY <1>1, SendType DEF Kinds
<1> QED BY <1>2 DEF Logout, TypeInv, Optional

\* What useDisconnect does keeps them.
LEMMA DisconnectedType ==
    ASSUME TypeInv, NEW p \in Pages, Disconnected(p)
    PROVE  /\ request' \in [Pages -> PageRequests] /\ overlapped' \in [Devices -> BOOLEAN]
           /\ stored' \in [Devices -> Optional(Pairs)] /\ isAuth' \in [Pages -> BOOLEAN]
<1>1. CASE isAuth[p]
  BY <1>1, LogoutType, PageType DEF Disconnected
<1>2. CASE ~isAuth[p]
  BY <1>2 DEF Disconnected, TypeInv
<1> QED BY <1>1, <1>2

\* The slots of the requests r of a page that has given up its current one.
LEMMA MovedType ==
    ASSUME TypeInv, NEW p \in Pages
    PROVE  /\ [current |-> Nothing, dropped |-> request[p].current] \in PageRequests
           /\ [request[p] EXCEPT !.current = Nothing] \in PageRequests
           /\ [request[p] EXCEPT !.dropped = Nothing] \in PageRequests
<1> QED BY PageType DEF PageRequests, Optional

\* Each step of a page.
LEMMA PageTypes ==
    ASSUME TypeInv, NEW p \in Pages,
           \/ LoginBySignature(p) \/ OnDisconnect(p) \/ Watch(p) \/ Mount(p)
           \/ Receive(p) \/ Drop(p)
    PROVE  TypeInv'
<1> USE DEF serverVars, pageVars
<1>1. CASE LoginBySignature(p)
  <2>1. Send(p, request[p], "bySignature")
    BY <1>1 DEF LoginBySignature
  <2>2. request' \in [Pages -> PageRequests] /\ overlapped' \in [Devices -> BOOLEAN]
    BY <2>1, SendType, PageType DEF Kinds
  <2> QED BY <1>1, <2>2 DEF LoginBySignature, TypeInv
<1>2. CASE OnDisconnect(p)
  BY <1>2, DisconnectedType DEF OnDisconnect, TypeInv
<1>3. CASE Watch(p)
  <2>1. /\ request' \in [Pages -> PageRequests] /\ overlapped' \in [Devices -> BOOLEAN]
        /\ stored' \in [Devices -> Optional(Pairs)] /\ isAuth' \in [Pages -> BOOLEAN]
    <3>1. CASE Disconnected(p)
      BY <3>1, DisconnectedType
    <3>2. CASE Send(p, request[p], "refresh") /\ UNCHANGED <<stored, isAuth>>
      <4>1. request' \in [Pages -> PageRequests] /\ overlapped' \in [Devices -> BOOLEAN]
        BY <3>2, SendType, PageType DEF Kinds
      <4> QED BY <3>2, <4>1 DEF TypeInv
    <3>3. CASE UNCHANGED <<request, overlapped, stored, isAuth>>
      BY <3>3 DEF TypeInv
    <3> QED BY <1>3, <3>1, <3>2, <3>3 DEF Watch, CheckIsActualToken
  <2> QED BY <1>3, <2>1, PageType DEF Watch, TypeInv
<1>4. CASE Mount(p)
  <2> DEFINE r == [current |-> Nothing, dropped |-> request[p].current]
  <2>1. r \in PageRequests
    BY MovedType
  <2> HIDE DEF r
  <2>2. \/ Send(p, r, "checkAuth") \/ Send(p, r, "refresh")
        \/ request' = [request EXCEPT ![p] = r] /\ UNCHANGED overlapped
    BY <1>4 DEF Mount, r
  <2>3. request' \in [Pages -> PageRequests] /\ overlapped' \in [Devices -> BOOLEAN]
    BY <2>1, <2>2, SendType DEF Kinds, TypeInv
  <2> QED BY <1>4, <2>3, PageType DEF Mount, TypeInv
<1>5. CASE Receive(p)
  <2> DEFINE q == request[p].current
             r == [request[p] EXCEPT !.current = Nothing]
  <2>1. r \in PageRequests /\ q \in Optional(GoodRequests) /\ q # Nothing
    BY <1>5, MovedType, PageType DEF Receive, PageRequests
  <2>2. q.answer \in Optional(Pairs)
    BY <2>1 DEF Optional, GoodRequests, Requests
  <2>3. CASE /\ SetData(p, q.answer) /\ UNCHANGED overlapped
             /\ request' = [request EXCEPT ![p] = r]
    <3>1. request' \in [Pages -> PageRequests]
      BY <2>1, <2>3 DEF TypeInv
    <3>2. /\ stored' \in [Devices -> Optional(Pairs)] /\ isAuth' \in [Pages -> BOOLEAN]
          /\ missed' \in [Devices -> BOOLEAN]
      BY <2>2, <2>3 DEF SetData, TypeInv
    <3> QED BY <1>5, <2>3, <3>1, <3>2 DEF Receive, TypeInv
  <2>4. CASE /\ request' = [request EXCEPT ![p] = r]
             /\ isAuth' \in [Pages -> BOOLEAN] /\ UNCHANGED <<overlapped, stored, missed>>
    <3>1. request' \in [Pages -> PageRequests]
      BY <2>1, <2>4 DEF TypeInv
    <3> QED BY <1>5, <2>4, <3>1 DEF Receive, TypeInv
  <2>5. CASE Logout(p, r) /\ UNCHANGED missed
    BY <1>5, <2>1, <2>5, LogoutType DEF Receive, TypeInv
  <2>6. [isAuth EXCEPT ![p] = TRUE] \in [Pages -> BOOLEAN] /\ isAuth \in [Pages -> BOOLEAN]
    BY DEF TypeInv
  <2> QED BY <1>5, <2>3, <2>4, <2>5, <2>6 DEF Receive
<1>6. CASE Drop(p)
  <2>1. request' \in [Pages -> PageRequests]
    BY <1>6, PageType DEF Drop, TypeInv, PageRequests, Optional
  <2>2. missed' \in [Devices -> BOOLEAN]
    BY <1>6 DEF Drop, TypeInv
  <2> QED BY <1>6, <2>1, <2>2 DEF Drop, TypeInv
<1> QED BY <1>1, <1>2, <1>3, <1>4, <1>5, <1>6

\* Each step of the server.
LEMMA ServerTypes ==
    ASSUME TypeInv, NEW p \in Pages, NEW s \in Slots, Serve(p, s) \/ LoseAnswer(p, s)
    PROVE  TypeInv'
<1> USE DEF serverVars, pageVars
<1>0. request[p][s] \in GoodRequests /\ request[p][s] # Nothing
  BY PageType DEF Serve, LoseAnswer, Optional
<1>a. ASSUME NEW ok \in BOOLEAN, NEW answer \in Optional(Pairs), Answer(p, s, ok, answer)
      PROVE  request' \in [Pages -> PageRequests]
  BY <1>0, <1>a, AnswerType
<1>n. Nothing \in Optional(Pairs)
  BY DEF Optional
<1>s. ASSUME request' \in [Pages -> PageRequests], table' \in [Numbers -> Optional(Secrets)],
             issued' \in 0 .. MaxPairs, Serve(p, s)
      PROVE  TypeInv'
  BY <1>s DEF Serve, TypeInv
<1>i. ASSUME NEW number \in Numbers, Insert(p, s, number), Serve(p, s)
      PROVE  TypeInv'
  <2>1. [number |-> number, secret |-> issued + 1] \in Optional(Pairs)
    BY <1>0, <1>i, InsertType DEF Optional
  <2>2. Answer(p, s, TRUE, [number |-> number, secret |-> issued + 1])
    BY <1>i DEF Insert
  <2>3. request' \in [Pages -> PageRequests]
    BY <1>a, <2>1, <2>2
  <2>4. issued' \in 0 .. MaxPairs
    <3>1. issued + 1 \in Secrets /\ issued' = issued + 1
      BY <1>0, <1>i, InsertType
    <3> QED BY <3>1, SignInAssumption DEF Secrets
  <2> QED BY <1>0, <1>i, <1>s, <2>3, <2>4, InsertType
<1>1. CASE Serve(p, s) /\ Verify(p, s)
  <2>1. [request[p][s] EXCEPT !.phase = "verified"] \in GoodRequests
    BY <1>0, <1>1 DEF Verify, Accepts, GoodRequests, Requests
  <2>2. request' \in [Pages -> PageRequests]
    BY <1>1, <1>a, <1>n, <2>1, TakeType DEF Verify
  <2> QED BY <1>1, <1>s, <2>2 DEF Verify, TypeInv
<1>2. CASE Serve(p, s) /\ Begin(p, s)
  <2> DEFINE q == request[p][s]
  <2>1. CASE q.kind = "bySignature"
    <3>1. PICK number \in Numbers : Take(p, s, [q EXCEPT !.phase = "begun", !.read = number])
      BY <1>2, <2>1 DEF Begin
    <3>2. [q EXCEPT !.phase = "begun", !.read = number] \in GoodRequests
      <4>1. number \in Optional(Nat)
        BY SignInAssumption DEF Numbers, Optional
      <4> QED BY <1>0, <2>1, <4>1 DEF GoodRequests, Requests
    <3>3. request' \in [Pages -> PageRequests]
      BY <3>1, <3>2, TakeType
    <3> QED BY <1>2, <1>s, <3>3 DEF Begin, TypeInv
  <2>2. CASE q.kind # "bySignature"
    <3>1. /\ q.kind = "refresh" /\ q.phase = "verified"
          /\ Take(p, s, [q EXCEPT !.phase = "begun", !.read = table[q.pair.number]])
      BY <1>2, <2>2 DEF Begin
    <3>2. q.pair \in Pairs
      BY <1>0, <3>1 DEF GoodRequests, Requests, Optional
    <3>3. table[q.pair.number] \in Optional(Nat)
      BY <3>2 DEF Pairs, TypeInv, Optional, Secrets
    <3>4. [q EXCEPT !.phase = "begun", !.read = table[q.pair.number]] \in GoodRequests
      BY <1>0, <3>1, <3>2, <3>3 DEF GoodRequests, Requests
    <3>5. request' \in [Pages -> PageRequests]
      BY <3>1, <3>4, TakeType
    <3> QED BY <1>2, <1>s, <3>5 DEF Begin, TypeInv
  <2> QED BY <2>1, <2>2
<1>3. CASE Serve(p, s) /\ Refuse(p, s)
  BY <1>3, <1>a, <1>n, <1>s DEF Refuse, TypeInv
<1>4. CASE Serve(p, s) /\ AuthBySignature(p, s)
  <2>1. request[p][s].read \in Numbers
    BY <1>0, <1>4 DEF AuthBySignature, GoodRequests
  <2> QED BY <1>4, <1>i, <2>1 DEF AuthBySignature
<1>5. CASE Serve(p, s) /\ RefreshJwtTokens(p, s)
  <2>1. request[p][s].pair.number \in Numbers
    BY <1>0, <1>5 DEF RefreshJwtTokens, GoodRequests, Requests, Optional, Pairs
  <2> QED BY <1>5, <1>i, <2>1 DEF RefreshJwtTokens
<1>6. CASE LoseAnswer(p, s)
  <2>1. request' \in [Pages -> PageRequests]
    BY <1>6, <1>a, <1>n DEF LoseAnswer
  <2>2. missed' \in [Devices -> BOOLEAN]
    BY <1>6 DEF LoseAnswer, TypeInv
  <2> QED BY <1>6, <2>1, <2>2 DEF LoseAnswer, TypeInv
<1> QED BY <1>1, <1>2, <1>3, <1>4, <1>5, <1>6 DEF Serve

\* Every step keeps the types.
LEMMA TypeInductive ==
    ASSUME TypeInv, [Next]_vars
    PROVE  TypeInv'
<1>1. CASE UNCHANGED vars
  BY <1>1 DEF vars, TypeInv
<1>2. ASSUME NEW p \in Pages, PageStep(p)
      PROVE  TypeInv'
  BY <1>2, PageTypes, ServerTypes DEF PageStep, Slots
<1>3. ASSUME NEW s \in Secrets, Age(s)
      PROVE  TypeInv'
  <2>1. age[s] + 1 \in Fresh .. RefreshOld
    BY <1>3 DEF Age, TypeInv, Fresh, RefreshOld
  <2> QED BY <1>3, <2>1 DEF Age, TypeInv, serverVars, pageVars
<1> QED BY <1>1, <1>2, <1>3 DEF Next

\* At first nobody is signed in.
LEMMA TypeInitial == Init => TypeInv
<1> SUFFICES ASSUME Init PROVE TypeInv
  OBVIOUS
<1>1. Idle \in PageRequests
  BY DEF Idle, PageRequests, Optional
<1>2. Fresh \in Fresh .. RefreshOld /\ 0 \in 0 .. MaxPairs
  BY SignInAssumption DEF Fresh, RefreshOld
<1> QED BY <1>1, <1>2 DEF Init, TypeInv, Optional

\* Pages, local storages, requests and the server's table stay well typed: no
\* transaction works on a pair it was not sent or a number it did not find, in
\* whichever order the transactions of any number of devices run.
THEOREM TypeCorrect == Spec => []TypeOK
<1>1. TypeInv /\ [Next]_vars => TypeInv'
  BY TypeInductive
<1>2. TypeInv => TypeOK
  <2> SUFFICES ASSUME TypeInv
               PROVE  request \in [Pages -> [current : Optional(Requests),
                                             dropped : Optional(Requests)]]
    BY DEF TypeInv, TypeOK
  <2> QED BY DEF TypeInv, PageRequests, Optional, GoodRequests
<1> QED BY <1>1, <1>2, TypeInitial, PTL DEF Spec

\* A transaction that had begun inserts a pair, which the answer brings: at a free
\* number, or at that of the pair it replaces.
BringsPair(p, s, number) ==
    LET q == request[p][s]
        new == request'[p][s]
    IN  /\ q.phase = "begun" /\ new.phase = "answered" /\ new.pair = Nothing /\ new.ok
        /\ \/ q.kind = "bySignature" /\ table[number] = Nothing
           \/ /\ q.kind = "refresh" /\ number = q.pair.number
              /\ table[number] \in {q.read, Nothing}
        /\ issued + 1 \in Secrets /\ issued' = issued + 1
        /\ table' = [table EXCEPT ![number] = issued + 1]
        /\ new.answer = [number |-> number, secret |-> issued + 1]

\* What the server makes of a request in one step: it verifies it, begins, or
\* answers it; with the answer a pair is inserted, or dropped, or none.
LEMMA ServerTakes ==
    ASSUME TypeInv, NEW p \in Pages, NEW s \in Slots, Serve(p, s)
    PROVE  LET q == request[p][s]
               new == request'[p][s]
           IN  /\ q \in GoodRequests /\ q # Nothing
               /\ new \in GoodRequests /\ new.kind = q.kind
               /\ \A o \in Pages, t \in Slots : o # p \/ t # s => request'[o][t] = request[o][t]
               /\ \/ /\ new.phase = "verified" /\ q.phase = "sent"
                     /\ new.pair = q.pair /\ new.answer = q.answer /\ Accepts(q)
                     /\ UNCHANGED serverVars
                  \/ /\ new.phase = "begun" /\ q.phase \in {"sent", "verified"}
                     /\ new.pair = q.pair /\ new.answer = q.answer
                     /\ q.kind = "bySignature" \/ new.read = table[q.pair.number]
                     /\ q.kind = "bySignature" \/ q.phase = "verified"
                     /\ UNCHANGED serverVars
                  \/ /\ q.phase # "answered" /\ new.phase = "answered"
                     /\ new.pair = Nothing /\ new.answer = Nothing
                     /\ UNCHANGED serverVars
                  \/ \E number \in Numbers : BringsPair(p, s, number)
<1> USE DEF serverVars
<1>0. request[p][s] \in GoodRequests /\ request[p][s] # Nothing
  BY PageType DEF Serve, Optional
<1>n. Nothing \in Optional(Pairs)
  BY DEF Optional
<1>1. CASE Verify(p, s)
  <2>1. CASE request[p][s].kind = "checkAuth"
    BY <1>0, <1>1, <1>n, <2>1, AnswerType DEF Verify
  <2>2. CASE request[p][s].kind # "checkAuth"
    <3> DEFINE new == [request[p][s] EXCEPT !.phase = "verified"]
    <3>1. Take(p, s, new) /\ Accepts(request[p][s]) /\ request[p][s].phase = "sent"
          /\ UNCHANGED serverVars
      BY <1>1, <2>2 DEF Verify
    <3>2. new \in GoodRequests
      BY <1>0, <1>1, <3>1 DEF Verify, Accepts, GoodRequests, Requests
    <3>3. /\ new.kind = request[p][s].kind /\ new.phase = "verified"
          /\ new.pair = request[p][s].pair /\ new.answer = request[p][s].answer
      BY <1>0 DEF GoodRequests, Requests
    <3> HIDE DEF new
    <3> QED BY <1>0, <3>1, <3>2, <3>3, TakeType
  <2> QED BY <2>1, <2>2
<1>2. CASE Begin(p, s)
  <2> DEFINE q == request[p][s]
  <2>1. CASE q.kind = "bySignature"
    <3>1. PICK number \in Numbers : Take(p, s, [q EXCEPT !.phase = "begun", !.read = number])
      BY <1>2, <2>1 DEF Begin
    <3> DEFINE new == [q EXCEPT !.phase = "begun", !.read = number]
    <3>2. new \in GoodRequests
      <4>1. number \in Optional(Nat)
        BY SignInAssumption DEF Numbers, Optional
      <4> QED BY <1>0, <2>1, <4>1 DEF GoodRequests, Requests
    <3>3. new.kind = q.kind /\ new.phase = "begun" /\ new.pair = q.pair /\ new.answer = q.answer
      BY <1>0 DEF GoodRequests, Requests
    <3>4. UNCHANGED serverVars /\ q.phase = "sent"
      BY <1>2, <2>1 DEF Begin
    <3>5. Take(p, s, new)
      BY <3>1
    <3> HIDE DEF new
    <3> QED BY <1>0, <2>1, <3>2, <3>3, <3>4, <3>5, TakeType
  <2>2. CASE q.kind # "bySignature"
    <3> DEFINE new == [q EXCEPT !.phase = "begun", !.read = table[q.pair.number]]
    <3>1. /\ q.kind = "refresh" /\ q.phase = "verified"
          /\ Take(p, s, new) /\ UNCHANGED serverVars
      BY <1>2, <2>2 DEF Begin
    <3>2. q.pair \in Pairs
      BY <1>0, <3>1 DEF GoodRequests, Requests, Optional
    <3>3. table[q.pair.number] \in Optional(Nat)
      BY <3>2 DEF Pairs, TypeInv, Optional, Secrets
    <3>4. new \in GoodRequests
      BY <1>0, <3>1, <3>2, <3>3 DEF GoodRequests, Requests
    <3>5. /\ new.kind = q.kind /\ new.phase = "begun" /\ new.pair = q.pair
          /\ new.answer = q.answer /\ new.read = table[q.pair.number]
      BY <1>0 DEF GoodRequests, Requests
    <3> HIDE DEF new
    <3> QED BY <1>0, <3>1, <3>4, <3>5, TakeType
  <2> QED BY <2>1, <2>2
<1>3. CASE Refuse(p, s)
  <2>1. Answer(p, s, FALSE, Nothing) /\ UNCHANGED serverVars /\ request[p][s].phase # "answered"
    BY <1>3 DEF Refuse
  <2>2. /\ request'[p][s] \in GoodRequests
        /\ request'[p][s].kind = request[p][s].kind
        /\ request'[p][s].phase = "answered" /\ request'[p][s].pair = Nothing
        /\ request'[p][s].answer = Nothing
        /\ \A o \in Pages, t \in Slots : o # p \/ t # s => request'[o][t] = request[o][t]
    BY <1>0, <1>n, <2>1, AnswerType
  <2> QED BY <1>0, <2>1, <2>2
<1>i. ASSUME NEW number \in Numbers, Insert(p, s, number),
             request[p][s].phase = "begun",
             LET q == request[p][s]
             IN  \/ q.kind = "bySignature" /\ table[number] = Nothing
                 \/ /\ q.kind = "refresh" /\ number = q.pair.number
                    /\ table[number] \in {q.read, Nothing}
      PROVE  /\ BringsPair(p, s, number)
             /\ request'[p][s] \in GoodRequests
             /\ request'[p][s].kind = request[p][s].kind
             /\ \A o \in Pages, t \in Slots : o # p \/ t # s => request'[o][t] = request[o][t]
  <2> DEFINE pair == [number |-> number, secret |-> issued + 1]
  <2>1. /\ issued + 1 \in Secrets /\ issued' = issued + 1
        /\ table' = [table EXCEPT ![number] = issued + 1]
        /\ pair \in Pairs /\ Answer(p, s, TRUE, pair)
    BY <1>0, <1>i, InsertType
  <2>2. pair \in Optional(Pairs)
    BY <2>1 DEF Optional
  <2>3. /\ request'[p][s] \in GoodRequests
        /\ request'[p][s].kind = request[p][s].kind
        /\ request'[p][s].phase = "answered" /\ request'[p][s].pair = Nothing
        /\ request'[p][s].answer = pair /\ request'[p][s].ok
        /\ \A o \in Pages, t \in Slots : o # p \/ t # s => request'[o][t] = request[o][t]
    BY <1>0, <2>1, <2>2, AnswerType
  <2> QED BY <1>i, <2>1, <2>3 DEF BringsPair
<1>4. CASE AuthBySignature(p, s)
  <2>1. request[p][s].read \in Numbers
    BY <1>0, <1>4 DEF AuthBySignature, GoodRequests
  <2>2. /\ Insert(p, s, request[p][s].read) /\ request[p][s].phase = "begun"
        /\ request[p][s].kind = "bySignature" /\ table[request[p][s].read] = Nothing
    BY <1>4 DEF AuthBySignature
  <2> QED BY <1>0, <1>i, <2>1, <2>2
<1>5. CASE RefreshJwtTokens(p, s)
  <2>1. request[p][s].pair.number \in Numbers
    BY <1>0, <1>5 DEF RefreshJwtTokens, GoodRequests, Requests, Optional, Pairs
  <2>2. /\ Insert(p, s, request[p][s].pair.number) /\ request[p][s].phase = "begun"
        /\ request[p][s].kind = "refresh"
        /\ table[request[p][s].pair.number] \in {request[p][s].read, Nothing}
    BY <1>5 DEF RefreshJwtTokens
  <2> QED BY <1>0, <1>i, <2>1, <2>2
<1> QED BY <1>1, <1>2, <1>3, <1>4, <1>5 DEF Serve

\* An answer that is lost.
LEMMA AnswerLost ==
    ASSUME TypeInv, NEW p \in Pages, NEW s \in Slots, LoseAnswer(p, s)
    PROVE  LET q == request[p][s]
               new == request'[p][s]
           IN  /\ q \in GoodRequests /\ q # Nothing /\ q.phase = "answered"
               /\ new \in GoodRequests /\ new.kind = q.kind /\ new.phase = "answered"
               /\ new.pair = Nothing /\ new.answer = Nothing
               /\ \A o \in Pages, t \in Slots : o # p \/ t # s => request'[o][t] = request[o][t]
<1>0. request[p][s] \in GoodRequests /\ request[p][s] # Nothing /\ request[p][s].phase = "answered"
  BY PageType DEF LoseAnswer, Optional
<1>1. Nothing \in Optional(Pairs) /\ Answer(p, s, FALSE, Nothing)
  BY DEF Optional, LoseAnswer
<1> QED BY <1>0, <1>1, AnswerType

\* A request is not the absence of one.
LEMMA RequestIsSomething == \A q \in GoodRequests : q # Nothing
<1> QED BY NothingAssumption DEF GoodRequests

-----------------------------------------------------------------------------
(* A page that shows itself signed in has a pair.                          *)

\* As long as a check is awaited the page is not signed in, and what it holds
\* stays.
Shown(p) ==
    /\ isAuth[p] => Held(p) # Nothing
    /\ request[p].current # Nothing /\ request[p].current.kind = "checkAuth" =>
           ~isAuth[p] /\ Held(p) # Nothing

ShownInv == TypeInv /\ \A p \in Pages : OnePage(DeviceOf[p]) => Shown(p)

\* Pages other than p, and devices other than p's, are left alone.
OnlyPage(p) ==
    /\ \A q \in Pages \ {p} : request'[q] = request[q] /\ isAuth'[q] = isAuth[q]
    /\ \A d \in Devices \ {DeviceOf[p]} : stored'[d] = stored[d] /\ missed'[d] = missed[d]

\* The only page of a device has it for itself.
LEMMA AloneOnDevice ==
    ASSUME NEW p \in Pages, NEW q \in Pages, OnePage(DeviceOf[p]), DeviceOf[q] = DeviceOf[p]
    PROVE  q = p
<1> DEFINE S == {o \in Pages : DeviceOf[o] = DeviceOf[p]}
<1>1. IsFiniteSet(S)
  BY SignInAssumption, FS_Subset
<1>2. Cardinality(S) = 1
  BY DEF OnePage
<1>3. PICK o : S = {o}
  BY <1>1, <1>2, FS_Singleton
<1>4. p \in S /\ q \in S
  OBVIOUS
<1> QED BY <1>3, <1>4

\* The page's own steps.
LEMMA PageShows ==
    ASSUME TypeInv, NEW p \in Pages,
           \/ LoginBySignature(p) \/ OnDisconnect(p) \/ Watch(p) \/ Mount(p)
           \/ Receive(p) \/ Drop(p)
    PROVE  (Shown(p) => Shown(p)') /\ OnlyPage(p)
<1> USE DEF serverVars, pageVars
<1>h. DeviceOf[p] \in Devices /\ request[p] \in PageRequests
  BY PageType
<1>s. ASSUME NEW r \in PageRequests, NEW kind \in Kinds \ {"checkAuth"}, Send(p, r, kind),
             r.current = request[p].current \/ r.current = Nothing,
             UNCHANGED <<stored, isAuth, missed>>
      PROVE  (Shown(p) => Shown(p)') /\ OnlyPage(p)
  <2>1. /\ \A q \in Pages \ {p} : request'[q] = request[q]
        /\ \/ request'[p].current.kind = kind
           \/ request'[p].current = request[p].current
    BY <1>s, SendType, RequestType, PageType
  <2> QED BY <1>s, <2>1 DEF Shown, OnlyPage, Held
<1>l. ASSUME NEW r \in PageRequests, Logout(p, r), UNCHANGED missed,
             r.current = Nothing \/ (isAuth[p] /\ r.current = request[p].current)
      PROVE  (Shown(p) => Shown(p)') /\ OnlyPage(p)
  <2>1. /\ \A q \in Pages \ {p} : request'[q] = request[q]
        /\ \/ request'[p].current.kind = "logout"
           \/ isAuth[p] /\ request'[p].current = request[p].current
    BY <1>l, SendType, RequestType, PageType DEF Logout, Kinds
  <2>2. /\ stored' = [stored EXCEPT ![DeviceOf[p]] = Nothing]
        /\ isAuth' = [isAuth EXCEPT ![p] = FALSE]
    BY <1>l DEF Logout
  <2> QED BY <1>h, <1>l, <2>1, <2>2 DEF Shown, OnlyPage, TypeInv
<1>d. ASSUME Disconnected(p), UNCHANGED missed
      PROVE  (Shown(p) => Shown(p)') /\ OnlyPage(p)
  <2>1. CASE isAuth[p]
    BY <1>h, <1>d, <1>l, <2>1 DEF Disconnected
  <2>2. CASE ~isAuth[p]
    BY <1>d, <2>2 DEF Disconnected, Shown, OnlyPage, Held
  <2> QED BY <2>1, <2>2
<1>1. CASE LoginBySignature(p)
  BY <1>h, <1>s, <1>1 DEF LoginBySignature, Kinds
<1>2. CASE OnDisconnect(p)
  BY <1>d, <1>2 DEF OnDisconnect
<1>3. CASE Watch(p)
  <2>1. CASE Disconnected(p)
    BY <1>d, <1>3, <2>1 DEF Watch
  <2>2. CASE Send(p, request[p], "refresh") /\ UNCHANGED <<stored, isAuth>>
    BY <1>h, <1>s, <1>3, <2>2 DEF Watch, Kinds
  <2>3. CASE UNCHANGED <<request, overlapped, stored, isAuth>>
    BY <1>3, <2>3 DEF Watch, Shown, OnlyPage, Held
  <2> QED BY <1>3, <2>1, <2>2, <2>3 DEF Watch, CheckIsActualToken
<1>4. CASE Mount(p)
  <2> DEFINE r == [current |-> Nothing, dropped |-> request[p].current]
  <2>1. r \in PageRequests /\ r.current = Nothing
    BY MovedType
  <2> HIDE DEF r
  <2>2. /\ \/ Actual(p) # {} /\ Send(p, r, "checkAuth")
           \/ Send(p, r, "refresh")
           \/ request' = [request EXCEPT ![p] = r]
        /\ isAuth' = [isAuth EXCEPT ![p] = FALSE] /\ UNCHANGED <<stored, missed>>
    BY <1>4 DEF Mount, r
  <2>3. /\ \A q \in Pages \ {p} : request'[q] = request[q]
        /\ \/ Held(p) # Nothing
           \/ request'[p].current.kind = "refresh"
           \/ request'[p].current = Nothing
    <3>1. CASE Actual(p) # {} /\ Send(p, r, "checkAuth")
      BY <2>1, <3>1, SendType, PageType DEF Kinds
    <3>2. CASE Send(p, r, "refresh")
      BY <2>1, <3>2, SendType, RequestType, PageType DEF Kinds
    <3>3. CASE request' = [request EXCEPT ![p] = r]
      BY <2>1, <3>3 DEF TypeInv
    <3> QED BY <2>2, <3>1, <3>2, <3>3
  <2>4. ~isAuth'[p] /\ \A q \in Pages \ {p} : isAuth'[q] = isAuth[q]
    BY <2>2 DEF TypeInv
  <2> QED BY <2>2, <2>3, <2>4 DEF Shown, OnlyPage, Held
<1>5. CASE Receive(p)
  <2> DEFINE q == request[p].current
             r == [request[p] EXCEPT !.current = Nothing]
  <2>1. r \in PageRequests /\ r.current = Nothing /\ q \in Optional(GoodRequests) /\ q # Nothing
    BY <1>h, <1>5, MovedType DEF Receive, PageRequests
  <2>2. ASSUME request' = [request EXCEPT ![p] = r]
        PROVE  request'[p].current = Nothing /\ \A o \in Pages \ {p} : request'[o] = request[o]
    BY <2>1, <2>2 DEF TypeInv
  <2>3. CASE q.answer # Nothing /\ SetData(p, q.answer) /\ request' = [request EXCEPT ![p] = r]
    <3>1. Held(p)' # Nothing
      BY <1>h, <2>3 DEF SetData, TypeInv, Held
    <3>2. OnlyPage(p)
      BY <1>h, <2>2, <2>3 DEF OnlyPage, SetData, TypeInv
    <3> QED BY <2>2, <2>3, <3>1, <3>2 DEF Shown
  <2>4. CASE /\ q.kind = "checkAuth" /\ isAuth' = [isAuth EXCEPT ![p] = TRUE]
             /\ request' = [request EXCEPT ![p] = r] /\ UNCHANGED <<overlapped, stored, missed>>
    <3>1. Shown(p) => Held(p)' # Nothing
      BY <2>1, <2>4 DEF Shown, Held
    <3>2. OnlyPage(p)
      BY <1>h, <2>2, <2>4 DEF OnlyPage, TypeInv
    <3> QED BY <2>2, <2>4, <3>1, <3>2 DEF Shown
  <2>5. CASE Logout(p, r) /\ UNCHANGED missed
    BY <1>l, <2>1, <2>5
  <2>6. CASE request' = [request EXCEPT ![p] = r] /\ UNCHANGED <<overlapped, stored, isAuth, missed>>
    BY <2>2, <2>6 DEF Shown, OnlyPage, Held
  <2> QED BY <1>5, <2>3, <2>4, <2>5, <2>6 DEF Receive
<1>6. CASE Drop(p)
  <2>1. request'[p].current = request[p].current /\ \A q \in Pages \ {p} : request'[q] = request[q]
    BY <1>h, <1>6 DEF Drop, TypeInv, PageRequests
  <2>2. UNCHANGED <<stored, isAuth>> /\ \A d \in Devices \ {DeviceOf[p]} : missed'[d] = missed[d]
    BY <1>h, <1>6 DEF Drop, TypeInv
  <2> QED BY <2>1, <2>2 DEF Shown, OnlyPage, Held
<1> QED BY <1>1, <1>2, <1>3, <1>4, <1>5, <1>6

\* The steps of the server leave what the page shows.
LEMMA ServerShows ==
    ASSUME TypeInv, NEW p \in Pages, NEW s \in Slots, Serve(p, s) \/ LoseAnswer(p, s),
           NEW o \in Pages, Shown(o)
    PROVE  Shown(o)'
<1>1. /\ request[p][s] # Nothing
      /\ request'[p][s] \in GoodRequests /\ request'[p][s].kind = request[p][s].kind
      /\ \A x \in Pages, t \in Slots : x # p \/ t # s => request'[x][t] = request[x][t]
  BY ServerTakes, AnswerLost
<1>2. UNCHANGED <<stored, isAuth>>
  BY DEF Serve, LoseAnswer, pageVars
<1>3. CASE o = p /\ s = "current"
  BY <1>1, <1>2, <1>3 DEF Shown, Held
<1>4. CASE ~(o = p /\ s = "current")
  <2>1. request'[o].current = request[o].current
    BY <1>1, <1>4 DEF Slots
  <2> QED BY <1>2, <2>1 DEF Shown, Held
<1> QED BY <1>3, <1>4

\* Every step keeps the invariant.
LEMMA ShownInductive ==
    ASSUME ShownInv, [Next]_vars
    PROVE  ShownInv'
<1> USE DEF ShownInv
<1>t. TypeInv'
  BY TypeInductive
<1> SUFFICES ASSUME NEW o \in Pages, OnePage(DeviceOf[o])
             PROVE  Shown(o)'
  BY <1>t DEF OnePage
<1>0. Shown(o)
  OBVIOUS
<1>1. CASE UNCHANGED vars
  BY <1>0, <1>1 DEF vars, Shown, Held
<1>2. ASSUME NEW p \in Pages,
             \/ LoginBySignature(p) \/ OnDisconnect(p) \/ Watch(p) \/ Mount(p)
             \/ Receive(p) \/ Drop(p)
      PROVE  Shown(o)'
  <2>1. CASE p = o
    BY <1>0, <1>2, <2>1, PageShows
  <2>2. CASE p # o
    <3>1. DeviceOf[p] # DeviceOf[o]
      BY <2>2, AloneOnDevice
    <3>2. OnlyPage(p)
      BY <1>2, PageShows
    <3> QED BY <1>0, <2>2, <3>1, <3>2, PageType DEF OnlyPage, Shown, Held
  <2> QED BY <2>1, <2>2
<1>3. ASSUME NEW p \in Pages, NEW s \in Slots, Serve(p, s) \/ LoseAnswer(p, s)
      PROVE  Shown(o)'
  BY <1>0, <1>3, ServerShows
<1>4. ASSUME NEW s \in Secrets, Age(s)
      PROVE  Shown(o)'
  BY <1>0, <1>4 DEF Age, pageVars, Shown, Held
<1> QED BY <1>1, <1>2, <1>3, <1>4 DEF Next, PageStep, Slots

\* At first no page is signed in.
LEMMA ShownInitial == Init => ShownInv
<1> SUFFICES ASSUME Init PROVE ShownInv
  OBVIOUS
<1>1. \A p \in Pages : ~isAuth[p] /\ request[p].current = Nothing
  BY DEF Init, Idle
<1> QED BY <1>1, TypeInitial DEF ShownInv, Shown

\* The only page of a device has a pair to send as long as it shows itself signed
\* in, whatever other devices have: whichever of its checks, refreshes and
\* logouts are answered, refused, lost or dropped, in whichever order.
THEOREM PagesShowWhatTheyHold == Spec => []ShownIsHeld
<1>1. ShownInv /\ [Next]_vars => ShownInv'
  BY ShownInductive
<1>2. ShownInv => ShownIsHeld
  BY DEF ShownInv, Shown, ShownIsHeld
<1> QED BY <1>1, <1>2, ShownInitial, PTL DEF Spec

-----------------------------------------------------------------------------
(* The pair of a device that is not busy is the one that the server accepts. *)

\* The server accepts the pair.
Fits(pair) == table[pair.number] = pair.secret

Busy(d, p, s) == DeviceOf[p] = d /\ request[p][s] # Nothing

\* A device has the pair stored or in a request under way.
Has(d, pair) ==
    /\ pair # Nothing
    /\ \/ stored[d] = pair
       \/ \E p \in Pages, s \in Slots :
              Busy(d, p, s) /\ pair \in {request[p][s].pair, request[p][s].answer}

\* No two devices ever have pairs of the same number, and a pair's number is never
\* free again.
NumbersAreOwn ==
    \A d, e \in Devices, x, y \in Pairs :
        Has(d, x) /\ Has(e, y) => table[x.number] # Nothing /\ (x.number = y.number => d = e)

\* A device that does not overlap its requests has one.
Single(d) ==
    \A p, o \in Pages, s, t \in Slots : Busy(d, p, s) /\ Busy(d, o, t) => p = o /\ s = t

\* What a request has found in the table is still there, and an answer's pair has
\* been put there.
Sound(q) ==
    /\ q.kind = "refresh" =>
           /\ q.phase \in {"verified", "begun"} => Fits(q.pair)
           /\ q.phase = "begun" => q.read = q.pair.secret
    /\ q.answer # Nothing =>
           /\ Fits(q.answer) /\ q.phase = "answered" /\ q.ok
           /\ q.kind \in {"bySignature", "refresh"}

AllSound(d) ==
    \A p \in Pages, s \in Slots : Busy(d, p, s) => Sound(request[p][s])

\* What is stored is accepted, or the pair that replaced it is on its way.
HeldFits(d) ==
    stored[d] # Nothing /\ ~missed[d] =>
        \/ Live(d)
        \/ \E p \in Pages, s \in Slots : Busy(d, p, s) /\ request[p][s].answer # Nothing

Session(d) == Single(d) /\ AllSound(d) /\ HeldFits(d)

SessionInv ==
    TypeInv /\ NumbersAreOwn /\ \A d \in Devices : ~overlapped[d] => Session(d)

\* A page that is not under way, and one that is.
LEMMA IdlePage ==
    ASSUME TypeInv, NEW p \in Pages
    PROVE  request[p] = Idle <=> \A s \in Slots : request[p][s] = Nothing
<1>1. request[p] \in PageRequests
  BY PageType
<1> QED BY <1>1 DEF PageRequests, Idle, Slots

\* Numbers stay apart as long as no device comes to have a pair of another.
LEMMA NumbersStay ==
    ASSUME NumbersAreOwn, table' = table,
           \A d \in Devices, x \in Pairs : Has(d, x)' => Has(d, x)
    PROVE  NumbersAreOwn'
<1> QED BY DEF NumbersAreOwn

\* So do they when one device is sent a pair whose number no other one has.
LEMMA NumbersGrow ==
    ASSUME TypeInv, NumbersAreOwn, NEW d \in Devices, NEW number \in Numbers,
           NEW secret \in Secrets, table' = [table EXCEPT ![number] = secret],
           \A e \in Devices, x \in Pairs :
               /\ Has(e, x)' => Has(e, x) \/ (e = d /\ x.number = number)
               /\ Has(e, x) /\ x.number = number => e = d
    PROVE  NumbersAreOwn'
<1> SUFFICES ASSUME NEW e \in Devices, NEW f \in Devices, NEW x \in Pairs, NEW y \in Pairs,
                    Has(e, x)', Has(f, y)'
             PROVE  table'[x.number] # Nothing /\ (x.number = y.number => e = f)
  BY DEF NumbersAreOwn
<1>1. secret # Nothing /\ x.number \in Numbers
  BY SignInAssumption DEF Secrets, Pairs
<1>2. table'[x.number] = IF x.number = number THEN secret ELSE table[x.number]
  BY <1>1 DEF TypeInv
<1>3. Has(e, x) => table[x.number] # Nothing
  BY DEF NumbersAreOwn
<1>4. Has(e, x) /\ Has(f, y) /\ x.number = y.number => e = f
  BY DEF NumbersAreOwn
<1> QED BY <1>1, <1>2, <1>3, <1>4

\* A device goes on as before when its own state is left alone and the pairs that
\* it has are still accepted.
LEMMA SessionElsewhere ==
    ASSUME TypeInv, NEW d \in Devices, Session(d),
           stored'[d] = stored[d], missed'[d] = missed[d],
           \A p \in Pages : DeviceOf[p] = d => request'[p] = request[p],
           \A x \in Pairs : Has(d, x) /\ Fits(x) => Fits(x)'
    PROVE  Session(d)'
<1>1. \A p \in Pages, s \in Slots :
          /\ Busy(d, p, s)' <=> Busy(d, p, s)
          /\ Busy(d, p, s) => request'[p][s] = request[p][s]
  BY DEF Busy
<1>2. Single(d)'
  BY <1>1 DEF Session, Single
<1>3. ASSUME NEW p \in Pages, NEW s \in Slots, Busy(d, p, s)
      PROVE  Sound(request[p][s])'
  <2>1. request[p][s] \in GoodRequests
    BY <1>3, PageType DEF Busy, Optional
  <2>2. Sound(request[p][s])
    BY <1>3 DEF Session, AllSound
  <2>3. \A x \in Pairs : x \in {request[p][s].pair, request[p][s].answer} => (Fits(x) => Fits(x)')
    <3>1. \A x \in Pairs : x # Nothing
      BY NothingAssumption
    <3> QED BY <1>3, <3>1 DEF Has
  <2>4. request'[p][s] = request[p][s]
    BY <1>1, <1>3
  <2> DEFINE q == request[p][s]
  <2>5. /\ q.kind = "refresh" /\ q.phase \in {"verified", "begun"} => q.pair \in Pairs
        /\ q.answer # Nothing => q.answer \in Pairs
        /\ q.kind \in Kinds
    BY <2>1 DEF GoodRequests, Requests, Optional
  <2> HIDE DEF q
  <2>6. /\ q.kind = "refresh" /\ q.phase \in {"verified", "begun"} =>
               table'[q.pair.number] = q.pair.secret
        /\ q.answer # Nothing => table'[q.answer.number] = q.answer.secret
    BY <2>2, <2>3, <2>5 DEF Sound, Fits, q
  <2>7. request'[p][s] = q /\ stored'[d] = stored[d]
    BY <2>4 DEF q
  <2> QED BY <2>2, <2>6, <2>7 DEF Sound, Fits, q
<1>4. HeldFits(d)'
  <2>1. HeldFits(d)
    BY DEF Session
  <2>2. Live(d) => Live(d)'
    <3> SUFFICES ASSUME Live(d) PROVE Live(d)'
      OBVIOUS
    <3>1. stored[d] \in Pairs /\ Has(d, stored[d]) /\ Fits(stored[d])
      BY DEF Live, Has, Fits, TypeInv, Optional
    <3>2. table'[stored[d].number] = stored[d].secret
      BY <3>1 DEF Fits
    <3> QED BY <3>2 DEF Live
  <2> QED BY <1>1, <2>1, <2>2 DEF HeldFits
<1> QED BY <1>1, <1>2, <1>3, <1>4 DEF Session, AllSound

\* A device without requests.
LEMMA SessionQuiet ==
    ASSUME NEW d \in Devices, \A p \in Pages, s \in Slots : ~Busy(d, p, s)',
           stored'[d] # Nothing /\ ~missed'[d] => Live(d)'
    PROVE  Session(d)'
<1> QED BY DEF Session, Single, AllSound, HeldFits

\* A device whose only request has just been sent.
LEMMA SessionSent ==
    ASSUME TypeInv, NEW p \in Pages, NEW r \in PageRequests, NEW kind \in Kinds,
           Send(p, r, kind), ~overlapped'[DeviceOf[p]], Session(DeviceOf[p]), UNCHANGED serverVars,
           \/ kind = "logout" /\ stored'[DeviceOf[p]] = Nothing
           \/ kind # "logout" /\ (r = Idle => request[p] = Idle) /\ UNCHANGED <<stored, missed>>
    PROVE  Session(DeviceOf[p])' /\ ~overlapped[DeviceOf[p]]
<1> DEFINE d == DeviceOf[p]
           new == Request(kind, Held(p))
<1>1. /\ ~overlapped[DeviceOf[p]] /\ r = Idle
      /\ \A q \in Pages \ {p} : DeviceOf[q] = d => request[q] = Idle
  BY PageType DEF Send, TypeInv
<1>2. /\ request'[p].current = new /\ request'[p].dropped = Nothing
      /\ \A q \in Pages \ {p} : request'[q] = request[q]
  BY <1>1, SendType DEF Idle
<1>3. /\ new \in GoodRequests /\ new.phase = "sent" /\ new.answer = Nothing /\ new.kind = kind
      /\ new # Nothing
  BY PageType, RequestType, RequestIsSomething
<1>4. \A q \in Pages, s \in Slots : Busy(d, q, s)' <=> (q = p /\ s = "current")
  BY <1>1, <1>2, <1>3 DEF Busy, Idle, Slots
<1>5. Single(d)'
  BY <1>4 DEF Single
<1>6. AllSound(d)'
  BY <1>2, <1>3, <1>4 DEF AllSound, Sound
<1>7. HeldFits(d)'
  <2>1. CASE stored'[d] = Nothing
    BY <2>1 DEF HeldFits
  <2>2. CASE request[p] = Idle /\ UNCHANGED <<stored, missed>>
    <3>1. \A q \in Pages, s \in Slots : ~Busy(d, q, s)
      BY <1>1, <2>2 DEF Busy, Idle, Slots
    <3>2. HeldFits(d)
      BY DEF Session
    <3> QED BY <2>2, <3>1, <3>2 DEF HeldFits, Live, serverVars
  <2> QED BY <1>1, <2>1, <2>2
<1> QED BY <1>1, <1>5, <1>6, <1>7 DEF Session

\* A page comes to have a pair only from its device or from an answer.
LEMMA HasKept ==
    ASSUME TypeInv, NEW p \in Pages, OnlyPage(p),
           \/ stored'[DeviceOf[p]] \in {Nothing, stored[DeviceOf[p]]}
           \/ /\ request[p].current # Nothing
              /\ stored'[DeviceOf[p]] = request[p].current.answer,
           \A s \in Slots :
               \/ request'[p][s] = Nothing
               \/ \E t \in Slots : request'[p][s] = request[p][t]
               \/ \E kind \in Kinds : request'[p][s] = Request(kind, Held(p))
    PROVE  \A d \in Devices, x \in Pairs : Has(d, x)' => Has(d, x)
<1> SUFFICES ASSUME NEW d \in Devices, NEW x \in Pairs, Has(d, x)'
             PROVE  Has(d, x)
  OBVIOUS
<1>0. x # Nothing /\ "current" \in Slots
  BY NothingAssumption DEF Slots
<1>1. CASE stored'[d] = x
  <2>1. CASE d # DeviceOf[p] \/ stored'[d] = stored[d]
    BY <1>0, <1>1, <2>1 DEF OnlyPage, Has
  <2>2. CASE d = DeviceOf[p] /\ stored'[d] # stored[d]
    BY <1>0, <1>1, <2>2 DEF Has, Busy
  <2> QED BY <2>1, <2>2
<1>2. CASE stored'[d] # x
  <2>1. PICK o \in Pages, s \in Slots :
            /\ DeviceOf[o] = d /\ request'[o][s] # Nothing
            /\ x \in {request'[o][s].pair, request'[o][s].answer}
    BY <1>2 DEF Has, Busy
  <2>2. CASE o # p
    BY <1>0, <2>1, <2>2 DEF OnlyPage, Has, Busy
  <2>3. CASE o = p /\ \E t \in Slots : request'[p][s] = request[p][t]
    BY <1>0, <2>1, <2>3 DEF Has, Busy
  <2>4. CASE o = p /\ \E kind \in Kinds : request'[p][s] = Request(kind, Held(p))
    <3>1. x = Held(p)
      BY <1>0, <2>1, <2>4, PageType, RequestType
    <3> QED BY <1>0, <2>1, <2>4, <3>1 DEF Has, Held
  <2> QED BY <2>1, <2>2, <2>3, <2>4
<1> QED BY <1>1, <1>2

\* Nor by sending a request.
LEMMA HasSent ==
    ASSUME TypeInv, NEW p \in Pages, NEW r \in PageRequests, NEW kind \in Kinds,
           Send(p, r, kind), OnlyPage(p),
           stored'[DeviceOf[p]] \in {Nothing, stored[DeviceOf[p]]},
           r.current \in {Nothing, request[p].current},
           r.dropped \in {Nothing, request[p].current, request[p].dropped}
    PROVE  \A d \in Devices, x \in Pairs : Has(d, x)' => Has(d, x)
<1>1. \A s \in Slots :
          \/ request'[p][s] = Nothing
          \/ \E t \in Slots : request'[p][s] = request[p][t]
          \/ request'[p][s] = Request(kind, Held(p))
  BY SendType DEF Slots
<1> QED BY <1>1, HasKept

\* A device whose only request brings no pair holds the one that is accepted.
LEMMA LiveMeanwhile ==
    ASSUME NEW p \in Pages, NEW s \in Slots, Session(DeviceOf[p]), request[p][s] # Nothing,
           request[p][s].answer = Nothing,
           stored[DeviceOf[p]] # Nothing, ~missed[DeviceOf[p]]
    PROVE  Live(DeviceOf[p])
<1>1. Busy(DeviceOf[p], p, s)
  BY DEF Busy
<1>2. \A o \in Pages, t \in Slots : Busy(DeviceOf[p], o, t) => o = p /\ t = s
  BY <1>1 DEF Session, Single
<1> QED BY <1>2 DEF Session, HeldFits

\* A device whose only request is done with.
LEMMA SessionLeft ==
    ASSUME TypeInv, NEW p \in Pages, NEW s \in Slots, Session(DeviceOf[p]), request[p][s] # Nothing,
           request' = [request EXCEPT ![p][s] = Nothing],
           stored'[DeviceOf[p]] # Nothing /\ ~missed'[DeviceOf[p]] => Live(DeviceOf[p])'
    PROVE  Session(DeviceOf[p])'
<1>1. Busy(DeviceOf[p], p, s)
  BY DEF Busy
<1>2. \A o \in Pages, t \in Slots : Busy(DeviceOf[p], o, t) => o = p /\ t = s
  BY <1>1 DEF Session, Single
<1>3. /\ request'[p][s] = Nothing
      /\ \A o \in Pages, t \in Slots : o # p \/ t # s => request'[o][t] = request[o][t]
  <2>1. Nothing \in Optional(GoodRequests)
    BY DEF Optional
  <2> QED BY <2>1 DEF TypeInv, PageRequests, Slots
<1>4. \A o \in Pages, t \in Slots : ~Busy(DeviceOf[p], o, t)'
  BY <1>2, <1>3 DEF Busy
<1> QED BY <1>4, SessionQuiet, PageType

\* A page that is loaded anew waits no more for the request under way, if there is
\* one: that request and the pair it brings stay as they are.
LEMMA SessionMoved ==
    ASSUME TypeInv, NEW p \in Pages, OnlyPage(p), request[p].dropped = Nothing,
           NEW r \in PageRequests, r.current = Nothing, r.dropped = request[p].current,
           request' = [request EXCEPT ![p] = r],
           UNCHANGED <<serverVars, stored, missed, overlapped>>,
           ~overlapped[DeviceOf[p]] => Session(DeviceOf[p])
    PROVE  /\ \A d \in Devices, x \in Pairs : Has(d, x)' => Has(d, x)
           /\ ~overlapped'[DeviceOf[p]] => ~overlapped[DeviceOf[p]] /\ Session(DeviceOf[p])'
<1> DEFINE d == DeviceOf[p]
<1>1. /\ request'[p].current = Nothing /\ request'[p].dropped = request[p].current
      /\ \A o \in Pages \ {p} : request'[o] = request[o]
  BY DEF TypeInv
<1>2. \A e \in Devices, x \in Pairs : Has(e, x)' => Has(e, x)
  <2>1. \A s \in Slots : request'[p][s] = Nothing \/ \E t \in Slots : request'[p][s] = request[p][t]
    BY <1>1 DEF Slots
  <2> QED BY <2>1, HasKept, PageType
<1>3. SUFFICES ASSUME ~overlapped[DeviceOf[p]]
               PROVE  Session(d)'
  BY <1>2
<1>4. \A o \in Pages, s \in Slots : Busy(d, o, s)' =>
          \E t \in Slots : /\ Busy(d, o, t) /\ request'[o][s] = request[o][t]
                           /\ o # p => t = s
                           /\ o = p => s = "dropped"
  BY <1>1 DEF Busy, Slots
<1>5. Single(d)'
  BY <1>3, <1>4 DEF Session, Single
<1>6. AllSound(d)'
  <2> SUFFICES ASSUME NEW o \in Pages, NEW s \in Slots, Busy(d, o, s)'
               PROVE  Sound(request[o][s])'
    BY DEF AllSound
  <2>1. PICK t \in Slots : Busy(d, o, t) /\ request'[o][s] = request[o][t]
    BY <1>4
  <2>2. Sound(request[o][t])
    BY <1>3, <2>1 DEF Session, AllSound
  <2> QED BY <2>1, <2>2 DEF Sound, Fits, serverVars
<1>7. HeldFits(d)'
  <2>1. \A o \in Pages, t \in Slots : Busy(d, o, t) =>
            \E s \in Slots : Busy(d, o, s)' /\ request'[o][s] = request[o][t]
    BY <1>1 DEF Busy, Slots
  <2>2. HeldFits(d) /\ (Live(d) <=> Live(d)')
    BY <1>3 DEF Session, Live, serverVars
  <2> QED BY <2>1, <2>2 DEF HeldFits
<1> QED BY <1>5, <1>6, <1>7 DEF Session

\* What the page p does keeps the secrets apart and the session of its device.
LEMMA PageSession ==
    ASSUME SessionInv, NEW p \in Pages,
           \/ LoginBySignature(p) \/ OnDisconnect(p) \/ Watch(p) \/ Mount(p)
           \/ Receive(p) \/ Drop(p)
    PROVE  /\ \A d \in Devices, x \in Pairs : Has(d, x)' => Has(d, x)
           /\ ~overlapped'[DeviceOf[p]] => ~overlapped[DeviceOf[p]] /\ Session(DeviceOf[p])'
<1> USE DEF serverVars, pageVars
<1>t. TypeInv
  BY DEF SessionInv
<1>h. /\ DeviceOf[p] \in Devices /\ request[p] \in PageRequests
      /\ \A s \in Slots : request[p][s] \in Optional(GoodRequests)
  BY <1>t, PageType
<1>o. OnlyPage(p)
  BY <1>t, PageShows
<1>w. ~overlapped[DeviceOf[p]] => Session(DeviceOf[p])
  BY <1>h DEF SessionInv
\* A request is sent.
<1>s. ASSUME NEW r \in PageRequests, NEW kind \in Kinds, Send(p, r, kind), UNCHANGED serverVars,
             \/ kind = "logout" /\ stored'[DeviceOf[p]] = Nothing
             \/ kind # "logout" /\ (r = Idle => request[p] = Idle) /\ UNCHANGED <<stored, missed>>,
             r.current \in {Nothing, request[p].current},
             r.dropped \in {Nothing, request[p].current, request[p].dropped}
      PROVE  /\ \A d \in Devices, x \in Pairs : Has(d, x)' => Has(d, x)
             /\ ~overlapped'[DeviceOf[p]] => ~overlapped[DeviceOf[p]] /\ Session(DeviceOf[p])'
  <2>1. stored'[DeviceOf[p]] \in {Nothing, stored[DeviceOf[p]]}
    BY <1>s
  <2>2. \A d \in Devices, x \in Pairs : Has(d, x)' => Has(d, x)
    BY <1>t, <1>o, <1>s, <2>1, HasSent
  <2>3. ~overlapped'[DeviceOf[p]] => ~overlapped[DeviceOf[p]]
    BY <1>t, <1>h, <1>s DEF Send, TypeInv
  <2>4. ~overlapped'[DeviceOf[p]] => Session(DeviceOf[p])'
    BY <1>t, <1>s, <1>w, <2>3, SessionSent
  <2> QED BY <2>2, <2>3, <2>4
<1>l. ASSUME NEW r \in PageRequests, Logout(p, r), UNCHANGED serverVars,
             r.current \in {Nothing, request[p].current},
             r.dropped \in {Nothing, request[p].current, request[p].dropped}
      PROVE  /\ \A d \in Devices, x \in Pairs : Has(d, x)' => Has(d, x)
             /\ ~overlapped'[DeviceOf[p]] => ~overlapped[DeviceOf[p]] /\ Session(DeviceOf[p])'
  <2>1. Send(p, r, "logout") /\ stored'[DeviceOf[p]] = Nothing
    BY <1>t, <1>h, <1>l DEF Logout, TypeInv
  <2> QED BY <1>l, <1>s, <2>1 DEF Kinds
\* Nothing is sent, and the requests stay.
<1>u. ASSUME UNCHANGED <<serverVars, stored, missed, request, overlapped>>
      PROVE  /\ \A d \in Devices, x \in Pairs : Has(d, x)' => Has(d, x)
             /\ ~overlapped'[DeviceOf[p]] => ~overlapped[DeviceOf[p]] /\ Session(DeviceOf[p])'
  <2>1. \A d \in Devices, x \in Pairs : Has(d, x)' => Has(d, x)
    BY <1>u DEF Has, Busy
  <2>2. Session(DeviceOf[p]) => Session(DeviceOf[p])'
    BY <1>t, <1>h, <1>u, SessionElsewhere DEF Fits
  <2> QED BY <1>u, <1>w, <2>1, <2>2
<1>d. ASSUME Disconnected(p), UNCHANGED <<serverVars, missed>>
      PROVE  /\ \A d \in Devices, x \in Pairs : Has(d, x)' => Has(d, x)
             /\ ~overlapped'[DeviceOf[p]] => ~overlapped[DeviceOf[p]] /\ Session(DeviceOf[p])'
  BY <1>h, <1>d, <1>l, <1>u DEF Disconnected
\* The request in a slot is done with.
<1>c. ASSUME NEW s \in Slots, request[p][s] # Nothing,
             request' = [request EXCEPT ![p][s] = Nothing], UNCHANGED <<serverVars, overlapped>>,
             \/ stored'[DeviceOf[p]] = stored[DeviceOf[p]]
             \/ s = "current" /\ stored'[DeviceOf[p]] = request[p].current.answer,
             ~overlapped[DeviceOf[p]] /\ Session(DeviceOf[p]) =>
                 (stored'[DeviceOf[p]] # Nothing /\ ~missed'[DeviceOf[p]] => Live(DeviceOf[p])')
      PROVE  /\ \A d \in Devices, x \in Pairs : Has(d, x)' => Has(d, x)
             /\ ~overlapped'[DeviceOf[p]] => ~overlapped[DeviceOf[p]] /\ Session(DeviceOf[p])'
  <2>1. /\ request'[p][s] = Nothing
        /\ \A o \in Pages, t \in Slots : o # p \/ t # s => request'[o][t] = request[o][t]
    <3>1. Nothing \in Optional(GoodRequests)
      BY DEF Optional
    <3> QED BY <1>t, <1>c, <3>1 DEF TypeInv, PageRequests, Slots
  <2>2. \A t \in Slots : request'[p][t] = Nothing \/ \E v \in Slots : request'[p][t] = request[p][v]
    BY <2>1
  <2>3. \A d \in Devices, x \in Pairs : Has(d, x)' => Has(d, x)
    BY <1>t, <1>o, <1>c, <2>2, HasKept
  <2>4. ~overlapped[DeviceOf[p]] => Session(DeviceOf[p])'
    BY <1>t, <1>c, <1>w, SessionLeft
  <2> QED BY <1>c, <2>3, <2>4
<1>1. CASE LoginBySignature(p)
  <2>1. Send(p, request[p], "bySignature") /\ UNCHANGED <<serverVars, stored, missed>>
    BY <1>1 DEF LoginBySignature
  <2> QED BY <1>h, <1>s, <2>1 DEF Kinds
<1>2. CASE OnDisconnect(p)
  BY <1>d, <1>2 DEF OnDisconnect
<1>3. CASE Watch(p)
  <2>1. CASE Disconnected(p)
    BY <1>d, <1>3, <2>1 DEF Watch
  <2>2. CASE Send(p, request[p], "refresh") /\ UNCHANGED <<stored, isAuth>>
    BY <1>h, <1>s, <1>3, <2>2 DEF Watch, Kinds
  <2>3. CASE UNCHANGED <<request, overlapped, stored, isAuth>>
    BY <1>u, <1>3, <2>3 DEF Watch
  <2> QED BY <1>3, <2>1, <2>2, <2>3 DEF Watch, CheckIsActualToken
<1>4. CASE Mount(p)
  <2> DEFINE r == [current |-> Nothing, dropped |-> request[p].current]
  <2>1. r \in PageRequests /\ r.current = Nothing /\ r.dropped = request[p].current
    BY <1>t, MovedType
  <2>2. r = Idle => request[p] = Idle
    BY <1>h, <1>4 DEF Mount, MaySend, Idle, PageRequests
  <2> HIDE DEF r
  <2>3. /\ \/ Send(p, r, "checkAuth") \/ Send(p, r, "refresh")
           \/ request' = [request EXCEPT ![p] = r] /\ UNCHANGED overlapped
        /\ UNCHANGED <<serverVars, stored, missed>>
        /\ request[p].dropped = Nothing
    BY <1>4 DEF Mount, MaySend, r
  <2>4. ASSUME NEW kind \in {"checkAuth", "refresh"}, Send(p, r, kind)
        PROVE  /\ \A d \in Devices, x \in Pairs : Has(d, x)' => Has(d, x)
               /\ ~overlapped'[DeviceOf[p]] => ~overlapped[DeviceOf[p]] /\ Session(DeviceOf[p])'
    BY <1>s, <2>1, <2>2, <2>3, <2>4 DEF Kinds
  <2>5. CASE request' = [request EXCEPT ![p] = r] /\ UNCHANGED overlapped
    BY <1>t, <1>h, <1>o, <1>w, <2>1, <2>3, <2>5, SessionMoved
  <2> QED BY <2>3, <2>4, <2>5
<1>5. CASE Receive(p)
  <2> DEFINE q == request[p].current
             r == [request[p] EXCEPT !.current = Nothing]
  <2>1. /\ r \in PageRequests /\ r.current = Nothing /\ r.dropped = request[p].dropped
        /\ q \in GoodRequests /\ q # Nothing /\ "current" \in Slots
    BY <1>t, <1>h, <1>5, MovedType DEF Receive, PageRequests, Optional, Slots
  <2>2. [request EXCEPT ![p] = r] = [request EXCEPT ![p]["current"] = Nothing]
    OBVIOUS
  <2>3. UNCHANGED serverVars
    BY <1>5 DEF Receive
  <2>4. CASE /\ q.answer # Nothing /\ SetData(p, q.answer)
             /\ request' = [request EXCEPT ![p] = r] /\ UNCHANGED overlapped
    <3>1. stored'[DeviceOf[p]] = q.answer
      BY <1>t, <1>h, <2>4 DEF SetData, TypeInv
    <3>2. Session(DeviceOf[p]) => Fits(q.answer)
      BY <2>1, <2>4 DEF Session, AllSound, Sound, Busy
    <3>3. ~overlapped[DeviceOf[p]] /\ Session(DeviceOf[p]) => Live(DeviceOf[p])'
      BY <2>3, <2>4, <3>1, <3>2 DEF Live, Fits
    <3> QED BY <1>c, <2>1, <2>2, <2>3, <2>4, <3>1, <3>3
  <2>5. CASE /\ q.kind \in {"checkAuth", "logout"} \/ ~q.ok
             /\ request' = [request EXCEPT ![p] = r] /\ UNCHANGED <<overlapped, stored, missed>>
    <3>1. Session(DeviceOf[p]) => q.answer = Nothing
      BY <2>1, <2>5 DEF Session, AllSound, Sound, Busy
    <3>2. Session(DeviceOf[p]) /\ stored[DeviceOf[p]] # Nothing /\ ~missed[DeviceOf[p]] =>
              Live(DeviceOf[p])
      BY <2>1, <3>1, LiveMeanwhile
    <3>3. Live(DeviceOf[p]) => Live(DeviceOf[p])'
      BY <2>3, <2>5 DEF Live
    <3> QED BY <1>c, <2>1, <2>2, <2>3, <2>5, <3>2, <3>3
  <2>6. CASE Logout(p, r) /\ UNCHANGED missed
    BY <1>l, <2>1, <2>3, <2>6
  <2> QED BY <1>5, <2>4, <2>5, <2>6 DEF Receive
<1>6. CASE Drop(p)
  <2> DEFINE q == request[p].dropped
  <2>1. /\ q # Nothing /\ request' = [request EXCEPT ![p]["dropped"] = Nothing]
        /\ UNCHANGED <<serverVars, stored, overlapped>> /\ "dropped" \in Slots
    BY <1>6 DEF Drop, Slots
  <2>2. missed'[DeviceOf[p]] = (missed[DeviceOf[p]] \/ q.answer # Nothing)
    BY <1>t, <1>h, <1>6 DEF Drop, TypeInv
  <2>3. Session(DeviceOf[p]) /\ stored[DeviceOf[p]] # Nothing /\ ~missed'[DeviceOf[p]] =>
            Live(DeviceOf[p])
    BY <2>1, <2>2, LiveMeanwhile
  <2>4. Live(DeviceOf[p]) => Live(DeviceOf[p])'
    BY <2>1 DEF Live
  <2> QED BY <1>c, <2>1, <2>3, <2>4
<1> QED BY <1>1, <1>2, <1>3, <1>4, <1>5, <1>6

\* The slot that the server works on is the only busy one of its device, and stays
\* so: what is left to show is about its request.
LEMMA SessionServed ==
    ASSUME TypeInv, NEW p \in Pages, NEW s \in Slots, Session(DeviceOf[p]),
           request[p][s] # Nothing, request'[p][s] # Nothing,
           \A o \in Pages, t \in Slots : o # p \/ t # s => request'[o][t] = request[o][t],
           Sound(request[p][s])',
           \/ stored'[DeviceOf[p]] = Nothing
           \/ missed'[DeviceOf[p]]
           \/ Live(DeviceOf[p])'
           \/ request'[p][s].answer # Nothing
    PROVE  Session(DeviceOf[p])'
<1> DEFINE d == DeviceOf[p]
<1>1. \A o \in Pages, t \in Slots : Busy(d, o, t)' <=> Busy(d, o, t)
  BY DEF Busy
<1>2. \A o \in Pages, t \in Slots : Busy(d, o, t) => o = p /\ t = s
  BY DEF Session, Single, Busy
<1>3. Single(d)'
  BY <1>1, <1>2 DEF Single
<1>4. AllSound(d)'
  BY <1>1, <1>2 DEF AllSound
<1>5. HeldFits(d)'
  BY DEF HeldFits, Busy
<1> QED BY <1>3, <1>4, <1>5 DEF Session

\* What the server does for the page p keeps the numbers apart and every session.
LEMMA ServerSession ==
    ASSUME SessionInv, NEW p \in Pages, NEW s \in Slots, Serve(p, s)
    PROVE  NumbersAreOwn' /\ \A d \in Devices : Session(d) => Session(d)'
<1> USE DEF serverVars, pageVars
<1>t. TypeInv /\ TypeInv'
  BY ServerTypes DEF SessionInv
<1>u. UNCHANGED <<age, stored, isAuth, known, overlapped, missed>>
  BY DEF Serve
<1> DEFINE q == request[p][s]
           new == request'[p][s]
<1>0. /\ q \in GoodRequests /\ q # Nothing
      /\ new \in GoodRequests /\ new # Nothing /\ new.kind = q.kind
      /\ \A o \in Pages, t \in Slots : o # p \/ t # s => request'[o][t] = request[o][t]
  BY <1>t, ServerTakes, RequestIsSomething
<1>h. DeviceOf[p] \in Devices /\ NumbersAreOwn /\ Busy(DeviceOf[p], p, s)
  BY <1>t, <1>0, PageType DEF SessionInv, Busy
\* What the session of this device says of the request.
<1>q. ASSUME Session(DeviceOf[p])
      PROVE  /\ Sound(q)
             /\ stored[DeviceOf[p]] # Nothing /\ ~missed[DeviceOf[p]] /\ q.answer = Nothing =>
                    Live(DeviceOf[p])
  BY <1>0, <1>h, <1>q, LiveMeanwhile DEF Session, AllSound
<1>p. /\ q.pair # Nothing => q.pair \in Pairs /\ Has(DeviceOf[p], q.pair)
      /\ q.answer # Nothing => Has(DeviceOf[p], q.answer)
      /\ \A x \in Pairs : x # Nothing
      /\ q.kind = "refresh" /\ q.phase \in {"verified", "begun"} => q.pair \in Pairs
  BY <1>0, <1>h, NothingAssumption DEF Has, GoodRequests, Requests, Optional
\* Whoever has a pair had it, or it is the new one.
<1>x. \A d \in Devices, x \in Pairs :
          Has(d, x)' => \/ Has(d, x)
                        \/ d = DeviceOf[p] /\ x \in {new.pair, new.answer}
  BY <1>0, <1>u DEF Has, Busy
\* The sessions of other devices.
<1>e. ASSUME \A x \in Pairs, d \in Devices \ {DeviceOf[p]} : Has(d, x) /\ Fits(x) => Fits(x)'
      PROVE  \A d \in Devices \ {DeviceOf[p]} : Session(d) => Session(d)'
  <2> SUFFICES ASSUME NEW d \in Devices \ {DeviceOf[p]}, Session(d)
               PROVE  Session(d)'
    OBVIOUS
  <2>1. \A o \in Pages : DeviceOf[o] = d => request'[o] = request[o]
    <3> SUFFICES ASSUME NEW o \in Pages, DeviceOf[o] = d
                 PROVE  request'[o] = request[o]
      OBVIOUS
    <3>1. request[o] \in PageRequests /\ request'[o] \in PageRequests
      BY <1>t DEF TypeInv
    <3>2. request'[o].current = request[o].current /\ request'[o].dropped = request[o].dropped
      BY <1>0 DEF Slots
    <3> QED BY <3>1, <3>2 DEF PageRequests
  <2> QED BY <1>t, <1>e, <1>u, <2>1, SessionElsewhere
<1>1. CASE UNCHANGED serverVars
  <2>0. \A number \in Numbers : ~BringsPair(p, s, number)
    BY <1>1, <1>t, SignInAssumption DEF TypeInv, BringsPair
  <2>1. new.pair \in {q.pair, Nothing} /\ new.answer \in {q.answer, Nothing}
    BY <1>1, <1>t, <2>0, ServerTakes
  <2>2. \A d \in Devices, x \in Pairs : Has(d, x)' => Has(d, x)
    BY <1>p, <1>x, <2>1
  <2>3. NumbersAreOwn'
    BY <1>1, <1>h, <2>2, NumbersStay
  <2>4. \A d \in Devices \ {DeviceOf[p]} : Session(d) => Session(d)'
    BY <1>1, <1>e DEF Fits
  <2>5. ASSUME Session(DeviceOf[p])
        PROVE  Session(DeviceOf[p])'
    <3>1. /\ q.phase # "answered" /\ new.answer \in {q.answer, Nothing}
          /\ \/ /\ new.phase = "verified" /\ new.pair = q.pair
                /\ Accepts(q)
             \/ /\ new.phase = "begun" /\ new.pair = q.pair
                /\ \/ q.kind = "bySignature"
                   \/ q.phase = "verified" /\ new.read = table[q.pair.number]
             \/ new.phase = "answered"
      BY <1>1, <1>t, <2>0, ServerTakes
    <3>2. q.answer = Nothing /\ new.answer = Nothing
      BY <1>q, <2>5, <3>1 DEF Sound
    <3>3. Sound(request[p][s])'
      BY <1>0, <1>1, <1>q, <1>u, <2>5, <3>1, <3>2 DEF Sound, Fits, Accepts
    <3>4. stored[DeviceOf[p]] # Nothing /\ ~missed[DeviceOf[p]] => Live(DeviceOf[p])'
      BY <1>1, <1>q, <1>u, <2>5, <3>2 DEF Live
    <3> QED BY <1>t, <1>0, <1>u, <2>5, <3>3, <3>4, SessionServed
  <2> QED BY <2>3, <2>4, <2>5
\* A pair that is inserted takes a number that nobody has, or replaces one of this
\* device.
<1>2. CASE \E number \in Numbers : BringsPair(p, s, number)
  <2>0. PICK number \in Numbers : BringsPair(p, s, number)
    BY <1>2
  <2>1. /\ q.phase = "begun"
        /\ \/ q.kind = "bySignature" /\ table[number] = Nothing
           \/ q.kind = "refresh" /\ number = q.pair.number
        /\ issued + 1 \in Secrets
        /\ table' = [table EXCEPT ![number] = issued + 1]
        /\ new.answer = [number |-> number, secret |-> issued + 1]
        /\ new.phase = "answered" /\ new.pair = Nothing /\ new.ok
    BY <2>0 DEF BringsPair
  <2>2. ASSUME NEW d \in Devices, NEW x \in Pairs, Has(d, x), x.number = number
        PROVE  d = DeviceOf[p]
    <3>1. table[number] # Nothing
      BY <1>h, <2>2 DEF NumbersAreOwn
    <3>2. q.pair \in Pairs /\ Has(DeviceOf[p], q.pair) /\ q.pair.number = x.number
      BY <1>p, <2>1, <2>2, <3>1
    <3> QED BY <1>h, <2>2, <3>2 DEF NumbersAreOwn
  <2>3. \A d \in Devices, x \in Pairs :
            Has(d, x)' => Has(d, x) \/ (d = DeviceOf[p] /\ x.number = number)
    BY <1>p, <1>x, <2>1
  <2>4. NumbersAreOwn'
    <3>1. \A d \in Devices, x \in Pairs :
              /\ Has(d, x)' => Has(d, x) \/ (d = DeviceOf[p] /\ x.number = number)
              /\ Has(d, x) /\ x.number = number => d = DeviceOf[p]
      BY <2>2, <2>3
    <3> QED BY <1>t, <1>h, <2>1, <3>1, NumbersGrow
  <2>5. ASSUME NEW x \in Pairs, NEW d \in Devices \ {DeviceOf[p]}, Has(d, x), Fits(x)
        PROVE  Fits(x)'
    <3>1. x.number \in Numbers /\ x.number # number
      BY <2>2, <2>5 DEF Pairs
    <3>2. table'[x.number] = table[x.number]
      BY <1>t, <2>1, <3>1 DEF TypeInv
    <3> QED BY <2>5, <3>2 DEF Fits
  <2>6. \A d \in Devices \ {DeviceOf[p]} : Session(d) => Session(d)'
    BY <1>e, <2>5
  <2>7. ASSUME Session(DeviceOf[p])
        PROVE  Session(DeviceOf[p])'
    <3>1. new.answer # Nothing /\ new.answer.number = number /\ new.answer.secret = issued + 1
      <4>1. new.answer \in Pairs
        BY <2>1 DEF Pairs
      <4> QED BY <1>p, <2>1, <4>1
    <3>2. table'[number] = issued + 1
      BY <1>t, <2>1 DEF TypeInv
    <3>3. Sound(request[p][s])'
      BY <1>0, <2>1, <3>1, <3>2 DEF Sound, Fits
    <3> QED BY <1>t, <1>0, <2>7, <3>1, <3>3, SessionServed
  <2> QED BY <2>4, <2>6, <2>7
<1> QED
  <2>1. UNCHANGED serverVars \/ \E number \in Numbers : BringsPair(p, s, number)
    BY <1>t, ServerTakes
  <2> QED BY <1>1, <1>2, <2>1

\* A lost answer is missed.
LEMMA LossSession ==
    ASSUME SessionInv, NEW p \in Pages, NEW s \in Slots, LoseAnswer(p, s)
    PROVE  NumbersAreOwn' /\ \A d \in Devices : Session(d) => Session(d)'
<1> USE DEF serverVars, pageVars
<1>t. TypeInv /\ TypeInv'
  BY ServerTypes DEF SessionInv
<1>u. UNCHANGED <<table, issued, age, stored, isAuth, known, overlapped>>
  BY DEF LoseAnswer
<1> DEFINE q == request[p][s]
           new == request'[p][s]
<1>0. /\ q \in GoodRequests /\ q # Nothing /\ new # Nothing
      /\ new.kind = q.kind /\ new.phase = "answered" /\ new.pair = Nothing /\ new.answer = Nothing
      /\ \A o \in Pages, t \in Slots : o # p \/ t # s => request'[o][t] = request[o][t]
  BY <1>t, AnswerLost, RequestIsSomething
<1>h. DeviceOf[p] \in Devices /\ NumbersAreOwn
  BY <1>t, PageType DEF SessionInv
<1>m. missed' = [missed EXCEPT ![DeviceOf[p]] = @ \/ q.answer # Nothing]
  BY DEF LoseAnswer
<1>1. NumbersAreOwn'
  <2>1. \A d \in Devices, x \in Pairs : Has(d, x)' => Has(d, x)
    BY <1>0, <1>u, NothingAssumption DEF Has, Busy
  <2> QED BY <1>h, <1>u, <2>1, NumbersStay
<1>2. ASSUME NEW d \in Devices \ {DeviceOf[p]}, Session(d)
      PROVE  Session(d)'
  <2>1. \A o \in Pages : DeviceOf[o] = d => request'[o] = request[o]
    <3> SUFFICES ASSUME NEW o \in Pages, DeviceOf[o] = d
                 PROVE  request'[o] = request[o]
      OBVIOUS
    <3>1. request[o] \in PageRequests /\ request'[o] \in PageRequests
      BY <1>t DEF TypeInv
    <3>2. request'[o].current = request[o].current /\ request'[o].dropped = request[o].dropped
      BY <1>0, <1>2 DEF Slots
    <3> QED BY <3>1, <3>2 DEF PageRequests
  <2>2. missed'[d] = missed[d]
    BY <1>t, <1>m DEF TypeInv
  <2>3. \A x \in Pairs : Fits(x) => Fits(x)'
    BY <1>u DEF Fits
  <2> QED BY <1>t, <1>2, <1>u, <2>1, <2>2, <2>3, SessionElsewhere
<1>3. ASSUME Session(DeviceOf[p])
      PROVE  Session(DeviceOf[p])'
  <2>1. Sound(q)
    BY <1>0, <1>3 DEF Session, AllSound, Busy
  <2>2. Sound(request[p][s])'
    BY <1>0, <1>u, <2>1 DEF Sound
  <2>3. missed'[DeviceOf[p]] = (missed[DeviceOf[p]] \/ q.answer # Nothing)
    BY <1>t, <1>h, <1>m DEF TypeInv
  <2>4. stored[DeviceOf[p]] # Nothing /\ ~missed'[DeviceOf[p]] => Live(DeviceOf[p])'
    BY <1>0, <1>3, <1>u, <2>3, LiveMeanwhile DEF Live
  <2> QED BY <1>t, <1>0, <1>3, <1>u, <2>2, <2>4, SessionServed
<1> QED BY <1>1, <1>2, <1>3

\* A page overlaps the requests of its own device alone.
LEMMA OverlapsOwn ==
    ASSUME TypeInv, NEW p \in Pages,
           \/ LoginBySignature(p) \/ OnDisconnect(p) \/ Watch(p) \/ Mount(p)
           \/ Receive(p) \/ Drop(p),
           NEW d \in Devices \ {DeviceOf[p]}
    PROVE  overlapped'[d] = overlapped[d]
<1>1. ASSUME NEW r, NEW kind, Send(p, r, kind)
      PROVE  overlapped'[d] = overlapped[d]
  BY <1>1, PageType DEF Send, TypeInv
<1>2. ASSUME NEW r, Logout(p, r)
      PROVE  overlapped'[d] = overlapped[d]
  BY <1>1, <1>2 DEF Logout
<1>3. CASE LoginBySignature(p)
  BY <1>1, <1>3 DEF LoginBySignature
<1>4. CASE OnDisconnect(p)
  BY <1>2, <1>4 DEF OnDisconnect, Disconnected
<1>5. CASE Watch(p)
  BY <1>1, <1>2, <1>5 DEF Watch, CheckIsActualToken, Disconnected
<1>6. CASE Mount(p)
  <2> DEFINE r == [current |-> Nothing, dropped |-> request[p].current]
  <2>1. Send(p, r, "checkAuth") \/ Send(p, r, "refresh") \/ UNCHANGED overlapped
    BY <1>6 DEF Mount
  <2> HIDE DEF r
  <2> QED BY <1>1, <2>1
<1>7. CASE Receive(p)
  BY <1>2, <1>7 DEF Receive
<1>8. CASE Drop(p)
  BY <1>8 DEF Drop
<1> QED BY <1>3, <1>4, <1>5, <1>6, <1>7, <1>8

\* Every step keeps the invariant.
LEMMA SessionInductive ==
    ASSUME SessionInv, [Next]_vars
    PROVE  SessionInv'
<1>t. TypeInv /\ TypeInv'
  BY TypeInductive DEF SessionInv
<1>u. ASSUME UNCHANGED <<table, issued, stored, request, overlapped, missed>>
      PROVE  SessionInv'
  <2>1. \A d \in Devices : Session(d) => Session(d)'
    BY <1>t, <1>u, SessionElsewhere DEF Fits
  <2>2. NumbersAreOwn'
    BY <1>u, NumbersStay DEF Has, Busy, SessionInv
  <2> QED BY <1>t, <1>u, <2>1, <2>2 DEF SessionInv
<1>1. CASE UNCHANGED vars
  BY <1>u, <1>1 DEF vars
<1>2. ASSUME NEW p \in Pages,
             \/ LoginBySignature(p) \/ OnDisconnect(p) \/ Watch(p) \/ Mount(p)
             \/ Receive(p) \/ Drop(p)
      PROVE  SessionInv'
  <2>1. /\ \A d \in Devices, x \in Pairs : Has(d, x)' => Has(d, x)
        /\ ~overlapped'[DeviceOf[p]] => ~overlapped[DeviceOf[p]] /\ Session(DeviceOf[p])'
    BY <1>2, PageSession
  <2>2. OnlyPage(p)
    BY <1>t, <1>2, PageShows
  <2>3. UNCHANGED serverVars
    BY <1>2 DEF LoginBySignature, OnDisconnect, Watch, Mount, Receive, Drop
  <2>4. NumbersAreOwn'
    BY <2>1, <2>3, NumbersStay DEF serverVars, SessionInv
  <2>5. ASSUME NEW d \in Devices \ {DeviceOf[p]}
        PROVE  overlapped'[d] = overlapped[d] /\ (Session(d) => Session(d)')
    <3>1. /\ stored'[d] = stored[d] /\ missed'[d] = missed[d]
          /\ \A o \in Pages : DeviceOf[o] = d => request'[o] = request[o]
      BY <2>2, <2>5 DEF OnlyPage
    <3>2. \A x \in Pairs : Fits(x) => Fits(x)'
      BY <2>3 DEF Fits, serverVars
    <3>3. overlapped'[d] = overlapped[d]
      BY <1>t, <1>2, <2>5, OverlapsOwn
    <3> QED BY <1>t, <3>1, <3>2, <3>3, SessionElsewhere
  <2> QED BY <1>t, <2>1, <2>4, <2>5 DEF SessionInv
<1>3. ASSUME NEW p \in Pages, NEW s \in Slots, Serve(p, s) \/ LoseAnswer(p, s)
      PROVE  SessionInv'
  <2>1. UNCHANGED overlapped
    BY <1>3 DEF Serve, LoseAnswer
  <2> QED BY <1>t, <1>3, <2>1, ServerSession, LossSession DEF SessionInv
<1>4. ASSUME NEW s \in Secrets, Age(s)
      PROVE  SessionInv'
  BY <1>4, <1>u DEF Age, serverVars, pageVars
<1> QED BY <1>1, <1>2, <1>3, <1>4 DEF Next, PageStep, Slots

\* At first there is no pair and no request.
LEMMA SessionInitial == Init => SessionInv
<1> SUFFICES ASSUME Init PROVE SessionInv
  OBVIOUS
<1>1. TypeInv
  BY TypeInitial
<1>2. \A d \in Devices, p \in Pages, s \in Slots : ~Busy(d, p, s)
  BY <1>1, IdlePage DEF Init, Busy
<1>3. \A d \in Devices : stored[d] = Nothing
  BY DEF Init
<1>4. \A d \in Devices, x \in Pairs : ~Has(d, x)
  BY <1>2, <1>3 DEF Has
<1>5. NumbersAreOwn
  BY <1>4 DEF NumbersAreOwn
<1>6. \A d \in Devices : Session(d)
  BY <1>2, <1>3 DEF Session, Single, AllSound, HeldFits
<1> QED BY <1>1, <1>5, <1>6 DEF SessionInv

\* A device that has not overlapped its own requests, awaits nothing and was told of
\* every pair holds the one the server accepts: for any number of devices and pages,
\* nothing that other devices do ends its session, though they overlap their requests
\* and the transactions read and commit in any order.
THEOREM SessionsAreLive == Spec => []SessionIsLive
<1>1. SessionInv /\ [Next]_vars => SessionInv'
  BY SessionInductive
<1>2. SessionInv => SessionIsLive
  <2> SUFFICES ASSUME SessionInv, NEW d \in Devices,
                      ~overlapped[d], stored[d] # Nothing, ~Waits(d), ~missed[d]
               PROVE  Live(d)
    BY DEF SessionIsLive
  <2>1. TypeInv /\ HeldFits(d)
    BY DEF SessionInv, Session
  <2>2. \A p \in Pages, s \in Slots : ~Busy(d, p, s)
    BY <2>1, IdlePage DEF Waits, Busy
  <2> QED BY <2>1, <2>2 DEF HeldFits
<1> QED BY <1>1, <1>2, SessionInitial, PTL DEF Spec

================================================================================
