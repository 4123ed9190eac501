------------------------------- MODULE Sequencer -------------------------------
(***************************************************************************)
(* The token sequencer (indexer/pkg/sequencer), seen from one collection   *)
(* and suffix: it keeps the ids that are still to be minted in Redis and   *)
(* hands them out to wallets, each for a limited time.                     *)
(*                                                                         *)
(* Redis runs one command at a time; a request is several commands, so a   *)
(* step of this module is one command.  Requests run in threads, which     *)
(* share the Sequencer object: lastCheck and the mutex checkMu, one of     *)
(* each for all collections.  Of a request for another collection, or for  *)
(* the other suffix of this one, that is all there is to see.              *)
(*                                                                         *)
(* A time stamp is kept as its age, which Tick raises up to Expired.  The  *)
(* stamp 0 that marks a timer for the next release is of age Expired.      *)
(***************************************************************************)
EXTENDS Naturals, FiniteSets

CONSTANTS
    Ids,                       \* ids added to the set when the collection starts
    Wallets,
    Overlapping,               \* wallets that may send a request before the last is answered
    Threads,                   \* bound on the requests that run at a time
    NoId, NoThread,
    TokenIdTTL, CheckInterval, \* of the configuration
    Faults                     \* what may fail, see the section on faults

ASSUME SequencerAssumption ==
    /\ NoId \notin Ids
    /\ Wallets # {}
    /\ Overlapping \subseteq Wallets
    /\ NoThread \notin Threads
    /\ TokenIdTTL \in Nat
    /\ CheckInterval \in Nat
    /\ Faults \subseteq {"crash", "acquire", "delete", "release"}

\* main.go passes the check interval for it.
SwitchTokenTimeout == CheckInterval

VARIABLES
    free,                      \* Redis: the set of free ids
    timer,                     \* Redis: age of the timer of each <<wallet, id>> that has one
    lastId,                    \* Redis: hash last_token_id, from wallets to ids
    checkAge,                  \* age of lastCheck
    checkMu,                   \* the thread that holds checkMu
    sweepAge,                  \* age of the start of the release under way
    thread,                    \* what each thread is doing
    minted,                    \* ids minted on the chain
    processed,                 \* those the indexer has processed
    torn                       \* history: whether a timer was torn from its id, see Tears

redis == <<free, timer, lastId>>
process == <<checkAge, checkMu, sweepAge>>
chain == <<minted, processed>>
vars == <<redis, process, thread, chain, torn>>

Expired == TokenIdTTL + CheckInterval + 1
Age == 0 .. Expired
Key == Wallets \X Ids
NoKey == << >>
Older(age) == IF age < Expired THEN age + 1 ELSE age

Calls == {"acquire", "recount", "count", "other"}
Steps == {"idle", "release", "sweep", "append", "drop",
          "lookup", "fresh", "scard", "pop", "claim", "setTimer", "setAgain",
          "setLast", "listOld", "resetOld",
          "delTimer", "delLookup", "delLast", "delFromSet"}

\* A thread's local variables: the step it is at, the call that releases ids,
\* the wallet, lastTokenId, tokenId, the keys that KEYS has listed, the key that
\* is dealt with, and whether globalErr is set.
Local ==
    [step : Steps, call : Calls, wallet : Wallets, last : Ids \cup {NoId},
     id : Ids \cup {NoId}, keys : SUBSET Key, key : Key \cup {NoKey},
     failed : BOOLEAN]

AnyWallet == CHOOSE w \in Wallets : TRUE
Idle == [step |-> "idle", call |-> "count", wallet |-> AnyWallet, last |-> NoId,
         id |-> NoId, keys |-> {}, key |-> NoKey, failed |-> FALSE]

\* Types.
TypeOK ==
    /\ free \subseteq Ids
    /\ DOMAIN timer \subseteq Key /\ \A k \in DOMAIN timer : timer[k] \in Age
    /\ DOMAIN lastId \subseteq Wallets /\ \A w \in DOMAIN lastId : lastId[w] \in Ids
    /\ checkAge \in Age /\ sweepAge \in Age
    /\ checkMu \in Threads \cup {NoThread}
    /\ thread \in [Threads -> Local]
    /\ processed \subseteq minted /\ minted \subseteq Ids
    /\ torn \in BOOLEAN

Init ==
    /\ free = Ids
    /\ timer = << >>
    /\ lastId = << >>
    /\ checkAge = Expired
    /\ checkMu = NoThread
    /\ sweepAge = 0
    /\ thread = [p \in Threads |-> Idle]
    /\ minted = {}
    /\ processed = {}
    /\ torn = FALSE

-----------------------------------------------------------------------------
(* Redis commands and the thread's control.                                *)

With(f, x, value) == [y \in DOMAIN f \cup {x} |-> IF y = x THEN value ELSE f[y]]

Set(key, age) == timer' = With(timer, key, age)
Del(key) == timer' = [k \in DOMAIN timer \ {key} |-> timer[k]]

At(p, step) == thread[p].step = step
Goto(p, step) == thread' = [thread EXCEPT ![p].step = step]
Return(p) == thread' = [thread EXCEPT ![p] = Idle]

Tick ==
    /\ timer' = [k \in DOMAIN timer |-> Older(timer[k])]
    /\ checkAge' = Older(checkAge)
    /\ sweepAge' = IF checkMu = NoThread THEN sweepAge ELSE Older(sweepAge)
    /\ UNCHANGED <<free, lastId, checkMu, thread, chain>>

-----------------------------------------------------------------------------
(* releaseTokens: ids whose timer has expired become free again.           *)

\* The caller goes on; of a request for another collection nothing more is seen.
AfterRelease(p) ==
    IF thread[p].call = "other" THEN Return(p)
    ELSE thread' = [thread EXCEPT
                      ![p].step = IF thread[p].call = "acquire" THEN "lookup" ELSE "scard",
                      ![p].failed = FALSE]

\* The mutex is free and the last check recent, of whatever collection it was.
SkipRelease(p) ==
    /\ At(p, "release")
    /\ checkMu = NoThread
    /\ checkAge <= CheckInterval
    /\ AfterRelease(p)
    /\ UNCHANGED <<redis, process, chain>>

\* A mutant: the mutex is not taken.
BeginRelease_Unlocked(p) ==
    /\ At(p, "release")
    /\ checkAge > CheckInterval
    /\ checkMu' = p
    /\ sweepAge' = 0
    /\ thread' = [thread EXCEPT ![p].step = "sweep", ![p].keys = DOMAIN timer]
    /\ UNCHANGED <<redis, checkAge, chain>>

\* KEYS.  Those of another collection are not seen here, but whether they fail.
BeginRelease(p) ==
    LET other == thread[p].call = "other"
    IN  /\ At(p, "release")
        /\ checkMu = NoThread
        /\ checkAge > CheckInterval
        /\ checkMu' = p
        /\ sweepAge' = 0
        /\ \E failed \in BOOLEAN :
              /\ failed => other
              /\ thread' = [thread EXCEPT ![p].step = "sweep", ![p].failed = failed,
                                          ![p].keys = IF other THEN {} ELSE DOMAIN timer]
        /\ UNCHANGED <<redis, checkAge, chain>>

\* GET of the next key's time stamp, which may have been deleted meanwhile.
Sweep(p, key) ==
    /\ At(p, "sweep")
    /\ key \in thread[p].keys
    /\ IF key \notin DOMAIN timer
       THEN thread' = [thread EXCEPT ![p].keys = @ \ {key}, ![p].failed = TRUE]
       ELSE IF timer[key] > TokenIdTTL
       THEN thread' = [thread EXCEPT ![p].step = "append", ![p].key = key,
                                     ![p].keys = @ \ {key}]
       ELSE thread' = [thread EXCEPT ![p].keys = @ \ {key}]
    /\ UNCHANGED <<redis, process, chain>>

\* SADD
AppendTokenId(p) ==
    /\ At(p, "append")
    /\ free' = free \cup {thread[p].key[2]}
    /\ Goto(p, "drop")
    /\ UNCHANGED <<timer, lastId, process, chain>>

\* DEL, which fails when the timer is gone.
DropTimer(p) ==
    /\ At(p, "drop")
    /\ Del(thread[p].key)
    /\ thread' = [thread EXCEPT ![p].step = "sweep", ![p].key = NoKey,
                                ![p].failed = @ \/ thread[p].key \notin DOMAIN timer]
    /\ UNCHANGED <<free, lastId, process, chain>>

\* lastCheck stays as it is when something failed.
EndRelease(p) ==
    /\ At(p, "sweep")
    /\ thread[p].keys = {}
    /\ checkMu' = NoThread
    /\ checkAge' = IF thread[p].failed THEN checkAge ELSE sweepAge
    /\ sweepAge' = 0
    /\ AfterRelease(p)
    /\ UNCHANGED <<redis, chain>>

Release(p) ==
    \/ SkipRelease(p) \/ BeginRelease(p) \/ EndRelease(p)
    \/ AppendTokenId(p) \/ DropTimer(p)
    \/ \E key \in thread[p].keys : Sweep(p, key)

-----------------------------------------------------------------------------
(* Acquire: a random free id for the wallet.                               *)

StartRequest(p, call, w) ==
    /\ At(p, "idle")
    /\ thread' = [thread EXCEPT ![p] = [Idle EXCEPT !.step = "release", !.call = call,
                                                   !.wallet = w]]
    /\ UNCHANGED <<redis, process, chain>>

Acquiring(p, w) ==
    ~At(p, "idle") /\ thread[p].call \in {"acquire", "recount"} /\ thread[p].wallet = w

StartAcquire(p, w) ==
    /\ w \in Overlapping \/ \A q \in Threads : ~Acquiring(q, w)
    /\ StartRequest(p, "acquire", w)

StartCount(p) == StartRequest(p, "count", AnyWallet)

\* Acquire or Count for another collection or suffix.
StartOther(p) == StartRequest(p, "other", AnyWallet)

\* HGET of the wallet's last id
LookupLast(p) ==
    LET w == thread[p].wallet
    IN  /\ At(p, "lookup")
        /\ thread' = IF w \in DOMAIN lastId
                     THEN [thread EXCEPT ![p].step = "fresh", ![p].last = lastId[w]]
                     ELSE [thread EXCEPT ![p].step = "release", ![p].call = "recount"]
        /\ UNCHANGED <<redis, process, chain>>

\* GET of its timer: the wallet is answered the same id while it is fresh.
AnswerFresh(p) ==
    LET key == <<thread[p].wallet, thread[p].last>>
    IN  /\ At(p, "fresh")
        /\ IF key \in DOMAIN timer /\ timer[key] < SwitchTokenTimeout
           THEN Return(p)
           ELSE thread' = [thread EXCEPT ![p].step = "release", ![p].call = "recount",
                                         ![p].last = NoId]
        /\ UNCHANGED <<redis, process, chain>>

\* SCARD, for Count and for Acquire, which answers an empty set with the wallet's
\* last id or with none.
CountFree(p) ==
    /\ At(p, "scard")
    /\ IF thread[p].call = "count" \/ free = {} THEN Return(p) ELSE Goto(p, "pop")
    /\ UNCHANGED <<redis, process, chain>>

\* A mutant: SRANDMEMBER.
PopRandom_Member(p) ==
    /\ At(p, "pop")
    /\ \/ free = {} /\ Return(p)
       \/ \E id \in free : thread' = [thread EXCEPT ![p].step = "claim", ![p].id = id]
    /\ UNCHANGED <<redis, process, chain>>

\* SPOP
PopRandom(p) ==
    /\ At(p, "pop")
    /\ \/ /\ free = {}
          /\ Return(p)
          /\ UNCHANGED free
       \/ \E id \in free :
             /\ free' = free \ {id}
             /\ thread' = [thread EXCEPT ![p].step = "claim", ![p].id = id]
    /\ UNCHANGED <<timer, lastId, process, chain>>

OwnKey(p) == <<thread[p].wallet, thread[p].id>>

\* GET: "shouldn't happen!" that the popped id has a timer of this wallet.
Claim(p) ==
    /\ At(p, "claim")
    /\ IF OwnKey(p) \in DOMAIN timer THEN Return(p) ELSE Goto(p, "setTimer")
    /\ UNCHANGED <<redis, process, chain>>

\* SET, the first time and when it is tried again after a later command has failed
SetTimer(p) ==
    /\ At(p, "setTimer") \/ At(p, "setAgain")
    /\ Set(OwnKey(p), 0)
    /\ Goto(p, "setLast")
    /\ UNCHANGED <<free, lastId, process, chain>>

SetLast(p) ==
    /\ At(p, "setLast")
    /\ lastId' = With(lastId, thread[p].wallet, thread[p].id)
    /\ Goto(p, "listOld")
    /\ UNCHANGED <<free, timer, process, chain>>

\* A mutant: only the first key of the answer is dealt with.
ListOld_First(p) ==
    /\ At(p, "listOld")
    /\ \E first \in {k \in DOMAIN timer : k[1] = thread[p].wallet} :
          thread' = [thread EXCEPT ![p].step = "resetOld", ![p].keys = {first} \ {OwnKey(p)}]
    /\ UNCHANGED <<redis, process, chain>>

\* KEYS
ListOld(p) ==
    /\ At(p, "listOld")
    /\ thread' = [thread EXCEPT
                    ![p].step = "resetOld",
                    ![p].keys = {k \in DOMAIN timer : k[1] = thread[p].wallet} \ {OwnKey(p)}]
    /\ UNCHANGED <<redis, process, chain>>

\* SET of the wallet's other timers to 0
ResetOld(p) ==
    /\ At(p, "resetOld")
    /\ \/ /\ thread[p].keys = {}
          /\ Return(p)
          /\ UNCHANGED timer
       \/ \E key \in thread[p].keys :
             /\ Set(key, Expired)
             /\ thread' = [thread EXCEPT ![p].keys = @ \ {key}]
    /\ UNCHANGED <<free, lastId, process, chain>>

Acquire(p) ==
    \/ LookupLast(p) \/ AnswerFresh(p) \/ CountFree(p) \/ PopRandom(p) \/ Claim(p)
    \/ SetTimer(p) \/ SetLast(p) \/ ListOld(p) \/ ResetOld(p)

-----------------------------------------------------------------------------
(* DeleteTokenID: the indexer has seen the mint of an id.                  *)

MintOnChain(id) ==
    /\ id \notin minted
    /\ minted' = minted \cup {id}
    /\ UNCHANGED <<redis, process, thread, processed>>

DeleteSteps == {"delTimer", "delLookup", "delLast", "delFromSet"}

\* KEYS, and the first key of the answer.  The indexer handles one mint at a time.
StartDelete(p, id) ==
    LET keys == {k \in DOMAIN timer : k[2] = id}
    IN  /\ At(p, "idle")
        /\ \A q \in Threads : thread[q].step \notin DeleteSteps
        /\ id \in minted \ processed
        /\ \/ /\ keys = {}
              /\ thread' = [thread EXCEPT ![p] = [Idle EXCEPT !.step = "delFromSet", !.id = id]]
           \/ \E key \in keys :
                 thread' = [thread EXCEPT ![p] = [Idle EXCEPT !.step = "delTimer", !.id = id,
                                                            !.key = key]]
        /\ UNCHANGED <<redis, process, chain>>

\* DEL
DeleteTimer(p) ==
    /\ At(p, "delTimer")
    /\ Del(thread[p].key)
    /\ Goto(p, "delLookup")
    /\ UNCHANGED <<free, lastId, process, chain>>

\* HGET
LookupHolder(p) ==
    LET w == thread[p].key[1]
    IN  /\ At(p, "delLookup")
        /\ IF w \in DOMAIN lastId /\ lastId[w] = thread[p].id
           THEN Goto(p, "delLast")
           ELSE Goto(p, "delFromSet")
        /\ UNCHANGED <<redis, process, chain>>

\* A mutant: the field is set to a blank instead of deleted.
DeleteLast_Blank(p) ==
    /\ At(p, "delLast")
    /\ lastId' = [lastId EXCEPT ![thread[p].key[1]] = NoId]
    /\ Goto(p, "delFromSet")
    /\ UNCHANGED <<free, timer, process, chain>>

\* HDEL
DeleteLast(p) ==
    /\ At(p, "delLast")
    /\ lastId' = [w \in DOMAIN lastId \ {thread[p].key[1]} |-> lastId[w]]
    /\ Goto(p, "delFromSet")
    /\ UNCHANGED <<free, timer, process, chain>>

\* SREM
DeleteFromSet(p) ==
    /\ At(p, "delFromSet")
    /\ free' = free \ {thread[p].id}
    /\ processed' = processed \cup {thread[p].id}
    /\ Return(p)
    /\ UNCHANGED <<timer, lastId, process, minted>>

Delete(p) ==
    DeleteTimer(p) \/ LookupHolder(p) \/ DeleteLast(p) \/ DeleteFromSet(p)

-----------------------------------------------------------------------------
(* Faults: the process stops, or Redis fails a command of Acquire or Count, *)
(* of DeleteTokenID or of releaseTokens.                                   *)

RetriedSteps == {"setTimer", "setAgain", "setLast", "listOld", "resetOld"}

\* A command of Acquire's last part fails, and the part is tried again.
Retry(p) ==
    /\ thread[p].step \in RetriedSteps
    /\ thread' = [thread EXCEPT ![p].step = IF @ = "setTimer" THEN @ ELSE "setAgain",
                                ![p].keys = {}]
    /\ UNCHANGED <<redis, process, chain>>

\* Acquire returns an error, after the last attempt if the part is retried.  At
\* "claim" it is the answer of SPOP that is lost.
Abandon(p) ==
    /\ thread[p].step \in {"lookup", "fresh", "pop", "claim"} \cup RetriedSteps
    /\ Return(p)
    /\ UNCHANGED <<redis, process, chain>>

\* Count answers 0 when SCARD fails.
CountFails(p) ==
    /\ At(p, "scard")
    /\ Return(p)
    /\ UNCHANGED <<redis, process, chain>>

\* Any error of GET is taken for the timer's absence.
ClaimFails(p) ==
    /\ At(p, "claim")
    /\ Goto(p, "setTimer")
    /\ UNCHANGED <<redis, process, chain>>

AcquireFails(p) ==
    "acquire" \in Faults /\ (Retry(p) \/ Abandon(p) \/ CountFails(p) \/ ClaimFails(p))

\* The indexer logs the error of DeleteTokenID and goes on.  Deletion itself goes
\* on when DEL fails.
DeleteFails(p) ==
    /\ "delete" \in Faults
    /\ \/ /\ At(p, "delTimer")
          /\ Goto(p, "delLookup")
          /\ UNCHANGED chain
       \/ /\ thread[p].step \in DeleteSteps \ {"delTimer"}
          /\ processed' = processed \cup {thread[p].id}
          /\ Return(p)
          /\ UNCHANGED minted
       \/ \E id \in minted \ processed :
             /\ At(p, "idle")
             /\ \A q \in Threads : thread[q].step \notin DeleteSteps
             /\ processed' = processed \cup {id}
             /\ UNCHANGED <<thread, minted>>
    /\ UNCHANGED <<redis, process>>

\* KEYS, GET, SADD or DEL fails; the error of SADD is only logged.
ReleaseFails(p) ==
    /\ "release" \in Faults
    /\ \/ /\ At(p, "release") /\ checkMu = NoThread /\ checkAge > CheckInterval
          /\ AfterRelease(p)
       \/ \E key \in thread[p].keys :
             /\ At(p, "sweep")
             /\ thread' = [thread EXCEPT ![p].keys = @ \ {key}, ![p].failed = TRUE]
       \/ At(p, "append") /\ Goto(p, "drop")
       \/ /\ At(p, "drop")
          /\ thread' = [thread EXCEPT ![p].step = "sweep", ![p].key = NoKey, ![p].failed = TRUE]
    /\ UNCHANGED <<redis, process, chain>>

\* The process stops and starts again; Redis is another process.
Crash ==
    /\ "crash" \in Faults
    /\ thread' = [p \in Threads |-> Idle]
    /\ checkAge' = Expired
    /\ checkMu' = NoThread
    /\ sweepAge' = 0
    /\ UNCHANGED <<redis, chain>>

-----------------------------------------------------------------------------
(* The specification.                                                      *)

Step(p) == Release(p) \/ Acquire(p) \/ Delete(p)

Fault ==
    \/ \E p \in Threads : AcquireFails(p) \/ DeleteFails(p) \/ ReleaseFails(p)
    \/ Crash

\* What leaves a timer that says nothing of its id: of a release, SADD and DEL are
\* not both done, because of a crash between them or an error of one of them; or
\* SET writes a timer that a release or a deletion has meanwhile removed.
HalfReleased(p) ==
    \/ At(p, "append") /\ thread'[p].step = "drop" /\ thread[p].key[2] \notin free'
    \/ At(p, "drop") /\ thread'[p].step # "drop" /\ thread[p].key \in DOMAIN timer'
Resurrected(p) ==
    /\ thread'[p] # thread[p]
    /\ \/ At(p, "setAgain") /\ OwnKey(p) \in DOMAIN timer' \ DOMAIN timer
       \/ At(p, "resetOld") /\ DOMAIN timer' # DOMAIN timer

Tears == \E p \in Threads : HalfReleased(p) \/ Resurrected(p)
Record == torn' = (torn \/ Tears)

Next ==
    /\ \/ Tick
       \/ \E id \in Ids : MintOnChain(id)
       \/ \E p \in Threads :
            \/ \E w \in Wallets : StartAcquire(p, w)
            \/ StartCount(p) \/ StartOther(p)
            \/ \E id \in Ids : StartDelete(p, id)
            \/ Step(p)
       \/ Fault
    /\ Record

Spec == Init /\ [][Next]_vars

\* Time passes, every request takes its next step, and there is always another
\* request for this collection.
Fairness ==
    /\ WF_vars(Tick /\ Record)
    /\ \A p \in Threads :
          /\ WF_vars(Step(p) /\ Record)
          /\ WF_vars((\E w \in Wallets : StartAcquire(p, w)) /\ Record)

FairSpec == Spec /\ Fairness

-----------------------------------------------------------------------------
(* Properties.                                                             *)

\* A wallet keeps one id at a time: when a request that has the wallet to itself is
\* about to be answered with an id from the set, the timers of all other ids the
\* wallet had, those of requests that failed half way included, are stamped for the
\* next release.
WalletKeepsOne ==
    \A p \in Threads :
        At(p, "resetOld") /\ thread[p].keys = {} /\ thread[p].wallet \notin Overlapping =>
            \A k \in DOMAIN timer :
                k[1] = thread[p].wallet /\ k # OwnKey(p) => timer[k] = Expired

\* The code says of the timers it stamps "Will 'expire' on the next cycle".  They
\* need not: a cycle is one collection's, and the releases of other collections
\* and of the other suffixes put off this one's for as long as they go on.
StampedTimersEnd ==
    \A k \in Key :
        (k \in DOMAIN timer /\ timer[k] = Expired) ~> k \notin DOMAIN timer

=============================================================================
