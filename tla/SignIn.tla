-------------------------------- MODULE SignIn --------------------------------
(***************************************************************************)
(* One user's sign-in on several devices: the pages' AuthStore, the pair   *)
(* of tokens in the local storage of each device, and the authentication   *)
(* server with its table of numbered pairs.                                *)
(*                                                                         *)
(* A page has at most one request whose answer it handles; what it sends   *)
(* meanwhile reaches the server, and its answer is dropped.  The server    *)
(* serves a request in up to three steps: it verifies the token in one     *)
(* transaction, and works in another one, which sees what was committed    *)
(* when it began and takes effect when it commits.                         *)
(*                                                                         *)
(* The access and the refresh token of a pair are inserted, dropped and    *)
(* stored together: the secret of a pair stands for the two secrets, one   *)
(* for each token, which always differ.  The signature of the message, the *)
(* profile and the wallet itself are left out: disconnecting is what it    *)
(* makes the page do.                                                      *)
(***************************************************************************)
EXTENDS Naturals, FiniteSets

CONSTANTS
    Pages,         \* open pages
    Devices,
    DeviceOf,      \* the device of each page
    MaxPairs,      \* bound on the pairs issued
    MaxRequests,   \* bound on requests under way when a user starts another
    Reloaded,      \* bound: the pages that are loaded anew
    Nothing        \* no pair, request, number

ASSUME SignInAssumption ==
    /\ IsFiniteSet(Pages)
    /\ DeviceOf \in [Pages -> Devices]
    /\ Reloaded \subseteq Pages
    /\ MaxPairs \in Nat
    /\ MaxRequests \in Nat
    /\ Nothing \notin Nat

Numbers == 0 .. MaxPairs
Secrets == 1 .. MaxPairs
Pairs == [number : Numbers, secret : Secrets]
Optional(S) == S \cup {Nothing}

\* The age of a pair: what the page and the server make of its tokens.
Fresh == 0             \* both are good
AccessOld == 1         \* the page no longer counts on the access token
AccessExpired == 2     \* the server no longer takes it
RefreshOld == 3        \* the page no longer counts on the refresh token

\* What a request has come to.  `read' is the number that a sign-in, and the
\* secret that another transaction, found in the table.
Kinds == {"bySignature", "checkAuth", "refresh", "logout"}
Requests ==
    [kind : Kinds, pair : Optional(Pairs),
     phase : {"sent", "verified", "begun", "answered"},
     read : Optional(Nat), ok : BOOLEAN, answer : Optional(Pairs)]

ASSUME NothingAssumption == Nothing \notin Pairs \cup Requests

VARIABLES
    table,         \* auth_tokens: table[n] is the secret of pair n, or Nothing
    issued,        \* how many pairs the server has issued
    age,           \* age[s] of the pair with secret s
    stored,        \* stored[d]: the pair in the local storage of device d
    isAuth,        \* AuthStore.isAuth of each page
    known,         \* the actual tokens when the page's effect last ran
    request,       \* request[p].current and .dropped: requests under way
    overlapped,    \* history: overlapped[d], device d had two requests under way
    missed         \* history: missed[d], device d has not got its newest pair

serverVars == <<table, issued>>
pageVars == <<stored, isAuth, known>>
vars == <<table, issued, age, stored, isAuth, known, request, overlapped, missed>>

\* Types of the state.
TypeOK ==
    /\ table \in [Numbers -> Optional(Secrets)]
    /\ issued \in 0 .. MaxPairs
    /\ age \in [Secrets -> Fresh .. RefreshOld]
    /\ stored \in [Devices -> Optional(Pairs)]
    /\ isAuth \in [Pages -> BOOLEAN]
    /\ known \in [Pages -> SUBSET {"access", "refresh"}]
    /\ request \in [Pages -> [current : Optional(Requests),
                              dropped : Optional(Requests)]]
    /\ overlapped \in [Devices -> BOOLEAN]
    /\ missed \in [Devices -> BOOLEAN]

Idle == [current |-> Nothing, dropped |-> Nothing]

Init ==
    /\ table = [n \in Numbers |-> Nothing]
    /\ issued = 0
    /\ age = [s \in Secrets |-> Fresh]
    /\ stored = [d \in Devices |-> Nothing]
    /\ isAuth = [p \in Pages |-> FALSE]
    /\ known = [p \in Pages |-> {}]
    /\ request = [p \in Pages |-> Idle]
    /\ overlapped = [d \in Devices |-> FALSE]
    /\ missed = [d \in Devices |-> FALSE]

-----------------------------------------------------------------------------
(* The page.                                                               *)

Held(p) == stored[DeviceOf[p]]

\* isActualAccessToken and isActualRefreshToken.
Actual(p) ==
    IF Held(p) = Nothing THEN {}
    ELSE {k \in {"access", "refresh"} :
             age[Held(p).secret] < IF k = "access" THEN AccessOld ELSE RefreshOld}

Request(kind, pair) ==
    [kind |-> kind, pair |-> pair, phase |-> "sent",
     read |-> Nothing, ok |-> FALSE, answer |-> Nothing]

\* storeRequest, in the requests r of a page: the request is sent in any case.
StoreRequest(r, kind, pair) ==
    IF r.current = Nothing
    THEN [r EXCEPT !.current = Request(kind, pair)]
    ELSE [r EXCEPT !.dropped = Request(kind, pair)]

\* Bound: a page has at most one request under way whose answer is dropped.
MaySend(p) == request[p].dropped = Nothing

UserMayStart ==
    Cardinality({ps \in Pages \X {"current", "dropped"} :
                     request[ps[1]][ps[2]] # Nothing}) < MaxRequests

\* The page p, with its requests r, sends one more.
Send(p, r, kind) ==
    /\ request' = [request EXCEPT ![p] = StoreRequest(r, kind, Held(p))]
    /\ overlapped' =
           [overlapped EXCEPT ![DeviceOf[p]] =
               \/ @ \/ r # Idle
               \/ \E q \in Pages \ {p} : DeviceOf[q] = DeviceOf[p] /\ request[q] # Idle]

SetData(p, pair) ==
    /\ stored' = [stored EXCEPT ![DeviceOf[p]] = pair]
    /\ isAuth' = [isAuth EXCEPT ![p] = TRUE]
    /\ missed' = [missed EXCEPT ![DeviceOf[p]] = FALSE]

\* Mutation of Logout: isAuth is left undefined.
Logout_Undefined(p, r) ==
    /\ Send(p, r, "logout")
    /\ stored' = [stored EXCEPT ![DeviceOf[p]] = Nothing]
    /\ isAuth' = [isAuth EXCEPT ![p] = Nothing]

Logout(p, r) ==
    /\ Send(p, r, "logout")
    /\ stored' = [stored EXCEPT ![DeviceOf[p]] = Nothing]
    /\ isAuth' = [isAuth EXCEPT ![p] = FALSE]

\* Mutation of Disconnected: the page logs out whether it is signed in or not.
Disconnected_Always(p) == Logout(p, request[p])

\* What useDisconnect does once the wallet is disconnected.
Disconnected(p) ==
    IF isAuth[p]
    THEN Logout(p, request[p])
    ELSE UNCHANGED <<request, overlapped, stored, isAuth>>

\* The user signs the message in a page that is not signed in.
LoginBySignature(p) ==
    /\ ~isAuth[p]
    /\ MaySend(p) /\ UserMayStart
    /\ Send(p, request[p], "bySignature")
    /\ UNCHANGED <<serverVars, age, pageVars, missed>>

\* The user disconnects the wallet.
OnDisconnect(p) ==
    /\ MaySend(p) /\ UserMayStart
    /\ Disconnected(p)
    /\ UNCHANGED <<serverVars, age, known, missed>>

\* Mutation of CheckIsActualToken: old tokens do not disconnect.
CheckIsActualToken_Stay(p) ==
    CASE Held(p) = Nothing -> Disconnected(p)
      [] Held(p) # Nothing /\ Actual(p) = {"refresh"} ->
             Send(p, request[p], "refresh") /\ UNCHANGED <<stored, isAuth>>
      [] OTHER -> UNCHANGED <<request, overlapped, stored, isAuth>>

CheckIsActualToken(p) ==
    CASE Actual(p) = {} -> Disconnected(p)
      [] Actual(p) = {"refresh"} ->
             Send(p, request[p], "refresh") /\ UNCHANGED <<stored, isAuth>>
      [] OTHER -> UNCHANGED <<request, overlapped, stored, isAuth>>

\* FileWalletConnectWatcher: the effect runs when what is actual has changed.
Watch(p) ==
    /\ MaySend(p)
    /\ known[p] # Actual(p)
    /\ known' = [known EXCEPT ![p] = Actual(p)]
    /\ CheckIsActualToken(p)
    /\ UNCHANGED <<serverVars, age, missed>>

\* The page is loaded anew and runs both effects, each of which sends only if
\* the other does not.  Nobody waits any more for the answers on their way.
Mount(p) ==
    /\ p \in Reloaded /\ MaySend(p) /\ UserMayStart
    /\ known' = [known EXCEPT ![p] = Actual(p)]
    /\ isAuth' = [isAuth EXCEPT ![p] = FALSE]
    /\ LET r == [current |-> Nothing, dropped |-> request[p].current]
       IN  CASE "access" \in Actual(p) -> Send(p, r, "checkAuth")
             [] Actual(p) = {"refresh"} -> Send(p, r, "refresh")
             [] OTHER -> request' = [request EXCEPT ![p] = r] /\ UNCHANGED overlapped
    /\ UNCHANGED <<serverVars, age, stored, missed>>

\* finish: the page handles the answer to its current request.
Receive(p) ==
    LET q == request[p].current
        r == [request[p] EXCEPT !.current = Nothing]
    IN  /\ q # Nothing /\ q.phase = "answered"
        /\ \/ /\ q.ok /\ q.answer # Nothing
              /\ SetData(p, q.answer)
              /\ request' = [request EXCEPT ![p] = r]
              /\ UNCHANGED overlapped
           \/ /\ q.ok /\ q.kind = "checkAuth"
              /\ isAuth' = [isAuth EXCEPT ![p] = TRUE]
              /\ request' = [request EXCEPT ![p] = r]
              /\ UNCHANGED <<overlapped, stored, missed>>
           \/ /\ ~q.ok /\ q.kind \in {"checkAuth", "refresh"}
              /\ Logout(p, r)
              /\ UNCHANGED missed
           \/ /\ q.kind = "logout" \/ (~q.ok /\ q.kind = "bySignature")
              /\ request' = [request EXCEPT ![p] = r]
              /\ UNCHANGED <<overlapped, stored, isAuth, missed>>
        /\ UNCHANGED <<serverVars, age, known>>

\* The answer to a request that was not current.
Drop(p) ==
    LET q == request[p].dropped
    IN  /\ q # Nothing /\ q.phase = "answered"
        /\ request' = [request EXCEPT ![p].dropped = Nothing]
        /\ missed' = [missed EXCEPT ![DeviceOf[p]] = @ \/ q.answer # Nothing]
        /\ UNCHANGED <<serverVars, age, pageVars, overlapped>>

-----------------------------------------------------------------------------
(* The server.  Each step takes the request in slot s of page p further.   *)

Take(p, s, q) == request' = [request EXCEPT ![p][s] = q]
Answer(p, s, ok, answer) ==
    Take(p, s, [kind |-> request[p][s].kind, pair |-> Nothing, phase |-> "answered",
                read |-> Nothing, ok |-> ok, answer |-> answer])

\* The token of its pair that a page sends, and the one whose secret the route
\* looks up.  A logout sends the access token to a route for refresh tokens.
SentToken(kind) == IF kind = "refresh" THEN "refresh" ELSE "access"
Purpose(kind) == IF kind = "checkAuth" THEN "access" ELSE "refresh"

\* GetUserByJwtToken: the secret is the one in the table, and not expired.
Accepts(q) ==
    /\ q.pair # Nothing
    /\ SentToken(q.kind) = Purpose(q.kind)
    /\ table[q.pair.number] = q.pair.secret
    /\ q.kind # "refresh" => age[q.pair.secret] < AccessExpired

Verify(p, s) ==
    LET q == request[p][s]
    IN  /\ q.phase = "sent" /\ q.kind # "bySignature"
        /\ Accepts(q)
        /\ IF q.kind = "checkAuth"
           THEN Answer(p, s, TRUE, Nothing)
           ELSE Take(p, s, [q EXCEPT !.phase = "verified"])
        /\ UNCHANGED serverVars

\* The first number is 0; later ones are the first gap above the smallest.
JwtTokenNumber(number) ==
    LET Used == {n \in Numbers : table[n] # Nothing}
        Gaps == {n \in Numbers \ Used : \E m \in Used : m < n}
    IN  IF Used = {} THEN number = 0
        ELSE number \in Gaps /\ \A n \in Gaps : number <= n

\* The transaction begins: a sign-in looks for a number, a refresh comes to the
\* DELETE.
Begin(p, s) ==
    LET q == request[p][s]
    IN  /\ \/ /\ q.kind = "bySignature" /\ q.phase = "sent"
              /\ \E number \in Numbers :
                    /\ JwtTokenNumber(number)
                    /\ Take(p, s, [q EXCEPT !.phase = "begun", !.read = number])
           \/ /\ q.kind = "refresh" /\ q.phase = "verified"
              /\ Take(p, s, [q EXCEPT !.phase = "begun",
                                      !.read = table[q.pair.number]])
        /\ UNCHANGED serverVars

\* A pair is inserted, its number being free, and the answer brings it.
Insert(p, s, number) ==
    /\ issued < MaxPairs
    /\ issued' = issued + 1
    /\ table' = [table EXCEPT ![number] = issued + 1]
    /\ Answer(p, s, TRUE, [number |-> number, secret |-> issued + 1])

\* Mutation of AuthBySignature: the number's pair is overwritten.
AuthBySignature_Overwrite(p, s) ==
    LET q == request[p][s]
    IN  /\ q.kind = "bySignature" /\ q.phase = "begun"
        /\ Insert(p, s, q.read)

AuthBySignature(p, s) ==
    LET q == request[p][s]
    IN  /\ q.kind = "bySignature" /\ q.phase = "begun"
        /\ table[q.read] = Nothing
        /\ Insert(p, s, q.read)

\* The DELETE takes the pair it saw, unless another transaction was first; a
\* pair inserted since it began it does not see, and the INSERT conflicts.
RefreshJwtTokens(p, s) ==
    LET q == request[p][s]
    IN  /\ q.kind = "refresh" /\ q.phase = "begun"
        /\ table[q.pair.number] \in {q.read, Nothing}
        /\ Insert(p, s, q.pair.number)

\* The token is refused, as a logout's always is, the transaction conflicts or
\* is given up, or the request is lost.
Refuse(p, s) ==
    /\ request[p][s].phase # "answered"
    /\ Answer(p, s, FALSE, Nothing)
    /\ UNCHANGED serverVars

\* The answer is lost on its way; with it, perhaps, a pair.
LoseAnswer(p, s) ==
    LET q == request[p][s]
    IN  /\ q # Nothing /\ q.phase = "answered" /\ q.ok
        /\ Answer(p, s, FALSE, Nothing)
        /\ missed' = [missed EXCEPT ![DeviceOf[p]] = @ \/ q.answer # Nothing]
        /\ UNCHANGED <<serverVars, age, pageVars, overlapped>>

Serve(p, s) ==
    /\ request[p][s] # Nothing
    /\ \/ Verify(p, s) \/ Begin(p, s) \/ Refuse(p, s)
       \/ AuthBySignature(p, s) \/ RefreshJwtTokens(p, s)
    /\ UNCHANGED <<age, pageVars, overlapped, missed>>

-----------------------------------------------------------------------------

Requested == {request[p][s] : p \in Pages, s \in {"current", "dropped"}} \ {Nothing}

\* Time passes, for older pairs first.  A page looks at the clock every second;
\* the answer with a pair arrives within a day, and any within months.
Age(s) ==
    /\ s <= issued
    /\ age[s] < RefreshOld
    /\ \A older \in 1 .. s - 1 : age[older] > age[s] \/ age[older] = RefreshOld
    /\ \A p \in Pages : known[p] = Actual(p)
    /\ \A q \in Requested : q.answer # Nothing => q.answer.secret # s
    /\ age[s] = AccessExpired => Requested = {}
    /\ age' = [age EXCEPT ![s] = @ + 1]
    /\ UNCHANGED <<serverVars, pageVars, request, overlapped, missed>>

PageStep(p) ==
    \/ LoginBySignature(p) \/ OnDisconnect(p) \/ Watch(p) \/ Mount(p)
    \/ Receive(p) \/ Drop(p)
    \/ \E s \in {"current", "dropped"} : Serve(p, s) \/ LoseAnswer(p, s)

Next ==
    \/ \E p \in Pages : PageStep(p)
    \/ \E s \in Secrets : Age(s)

Spec == Init /\ [][Next]_vars

\* The request in slot s of page p goes on.
GetOn(p, s) ==
    \/ Serve(p, s)
    \/ s = "current" /\ Receive(p)
    \/ s = "dropped" /\ Drop(p)

\* Requests are answered in one way or another, effects run, and time passes
\* though requests come and go.
Fairness ==
    /\ \A p \in Pages :
           /\ \A s \in {"current", "dropped"} : WF_vars(GetOn(p, s))
           /\ WF_vars(Watch(p))
    /\ \A s \in Secrets : SF_vars(Age(s))

FairSpec == Spec /\ Fairness

-----------------------------------------------------------------------------
(* Properties.                                                             *)

Live(d) == stored[d] # Nothing /\ table[stored[d].number] = stored[d].secret

Waits(d) == \E p \in Pages : DeviceOf[p] = d /\ request[p] # Idle

OnePage(d) == Cardinality({p \in Pages : DeviceOf[p] = d}) = 1

\* A page that shows itself signed in has a pair to send, though a check, a
\* refresh and a logout may be under way together and end in any order: an
\* answer never signs in a page whose pair was removed while it was awaited
\* without bringing a new one.  (Not so with two pages on one device.)
ShownIsHeld ==
    \A p \in Pages : OnePage(DeviceOf[p]) /\ isAuth[p] => Held(p) # Nothing

\* A device that has not overlapped its own requests keeps its session whatever
\* the others do: their sign-ins, refreshes and checks may be many, overlap and
\* read numbers and commit in any order.  Once it awaits nothing and has got
\* every pair it was sent, it holds the pair that the server accepts.  (It is
\* not the logouts that could end one: the server refuses them all.)
SessionIsLive ==
    \A d \in Devices :
        /\ ~overlapped[d] /\ ~missed[d] /\ ~Waits(d)
        /\ stored[d] # Nothing
        => Live(d)

\* A page never stays signed in for ever with a pair that the server no longer
\* accepts: whether answers were lost, dropped or overtaken, the pair is renewed
\* or the page signs out, at the latest when the refresh token gets old.
DeadSessionEnds ==
    \A p \in Pages :
        isAuth[p] /\ ~Live(DeviceOf[p]) ~> ~isAuth[p] \/ Live(DeviceOf[p])

=============================================================================
