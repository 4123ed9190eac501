---------------------------- MODULE Sequencer_proofs ----------------------------
(***************************************************************************)
(* Proofs about Sequencer and SequencerRefinement, for every value of      *)
(* their constants.                                                        *)
(***************************************************************************)
EXTENDS SequencerRefinement, FiniteSetTheorems, TLAPS

(* The threads' locals: what holds for any number of threads.              *)

KeySteps == {"append", "drop", "delTimer", "delLookup", "delLast"}
IdSteps == {"claim", "setTimer", "setAgain", "setLast", "listOld", "resetOld"} \cup DeleteSteps
AcquireSteps == {"lookup", "fresh", "pop", "claim", "setTimer", "setAgain", "setLast", "listOld", "resetOld"}

\* At some steps a thread has a key, or an id, or one of the ids m that are minted;
\* some belong to Acquire.
Locals(m) == {l \in Local :
    /\ l.step \in KeySteps => l.key \in Key
    /\ l.step \in IdSteps => l.id \in Ids
    /\ l.step \in DeleteSteps => l.id \in m
    /\ l.step = "delTimer" => l.key[2] = l.id
    /\ l.step \in AcquireSteps => l.call \in {"acquire", "recount"}
    /\ l.step = "scard" => l.call # "other"}

DataOK ==
    /\ free \subseteq Ids
    /\ DOMAIN timer \subseteq Key /\ \A k \in DOMAIN timer : timer[k] \in Age
    /\ DOMAIN lastId \subseteq Wallets /\ \A w \in DOMAIN lastId : lastId[w] \in Ids
    /\ checkAge \in Age /\ sweepAge \in Age
    /\ checkMu \in Threads \cup {NoThread}
    /\ processed \subseteq minted /\ minted \subseteq Ids

TypeInv == DataOK /\ thread \in [Threads -> Locals(minted)]

\* What SET and DEL leave of the timers.
LEMMA SetTimers ==
    ASSUME NEW key, NEW age, Set(key, age)
    PROVE  /\ DOMAIN timer' = DOMAIN timer \cup {key}
           /\ timer'[key] = age
           /\ \A k \in DOMAIN timer \ {key} : timer'[k] = timer[k]
<1> QED BY DEF Set, With

LEMMA DelTimers ==
    ASSUME NEW key, Del(key)
    PROVE  /\ DOMAIN timer' = DOMAIN timer \ {key}
           /\ \A k \in DOMAIN timer \ {key} : timer'[k] = timer[k]
<1> QED BY DEF Del

\* Ages are naturals and get older up to Expired.
LEMMA Ages ==
    /\ Expired \in Nat /\ 0 \in Age /\ Expired \in Age
    /\ TokenIdTTL < Expired /\ CheckInterval < Expired
    /\ \A age \in Age : /\ age \in Nat /\ Older(age) \in Age /\ age <= Older(age)
                        /\ age = Expired => Older(age) = Expired
                        /\ age < Expired => Older(age) = age + 1
<1> QED BY SequencerAssumption DEF Expired, Age, Older


\* An idle thread's locals.
LEMMA IdleType ==
    /\ Idle \in Local
    /\ Idle.step = "idle" /\ Idle.id = NoId
    /\ AnyWallet \in Wallets
<1> QED BY SequencerAssumption DEF Idle, AnyWallet, Local, Steps, Calls

\* Keys are pairs.
LEMMA KeyParts ==
    /\ \A k \in Key : k[1] \in Wallets /\ k[2] \in Ids /\ k = <<k[1], k[2]>>
    /\ \A w \in Wallets, i \in Ids : <<w, i>> \in Key
<1> QED BY DEF Key

\* A thread's locals change.
LEMMA LocalsChange ==
    ASSUME thread \in [Threads -> Locals(minted)], NEW p \in Threads, NEW l \in Locals(minted),
           thread' = [thread EXCEPT ![p] = l]
    PROVE  /\ thread' \in [Threads -> Locals(minted)]
           /\ thread'[p] = l
           /\ \A q \in Threads \ {p} : thread'[q] = thread[q]
<1> QED OBVIOUS

\* A thread goes to a step for which it has what it needs.
LEMMA GotoType ==
    ASSUME thread \in [Threads -> Locals(minted)], NEW p \in Threads, NEW step \in Steps,
           step \in KeySteps => thread[p].key \in Key,
           step \in IdSteps => thread[p].id \in Ids,
           step \in DeleteSteps => thread[p].id \in minted,
           step \in AcquireSteps => thread[p].call \in {"acquire", "recount"},
           step = "scard" => thread[p].call # "other",
           step # "delTimer",
           Goto(p, step)
    PROVE  /\ thread' \in [Threads -> Locals(minted)]
           /\ thread'[p] = [thread[p] EXCEPT !.step = step]
           /\ \A q \in Threads \ {p} : thread'[q] = thread[q]
<1>1. [thread[p] EXCEPT !.step = step] \in Locals(minted)
  BY DEF Locals, Local
<1> QED BY <1>1, LocalsChange DEF Goto

\* A request ends.
LEMMA EndType ==
    ASSUME TypeInv, NEW p \in Threads, Return(p)
    PROVE  /\ thread' \in [Threads -> Locals(minted)]
           /\ thread'[p] = Idle
           /\ \A q \in Threads \ {p} : thread'[q] = thread[q]
<1>1. Idle \in Locals(minted)
  BY IdleType DEF Locals, KeySteps, IdSteps, AcquireSteps, DeleteSteps
<1> QED BY <1>1, LocalsChange DEF TypeInv, Return

\* After a release.
LEMMA AfterReleaseType ==
    ASSUME TypeInv, NEW p \in Threads, At(p, "release") \/ At(p, "sweep"), AfterRelease(p)
    PROVE  /\ thread' \in [Threads -> Locals(minted)]
           /\ thread'[p].step \in {"idle", "lookup", "scard"}
           /\ thread'[p].step # "idle" => /\ thread'[p].call = thread[p].call
                                          /\ thread'[p].wallet = thread[p].wallet
           /\ \A q \in Threads \ {p} : thread'[q] = thread[q]
<1>l. thread[p] \in Locals(minted)
  BY DEF TypeInv
<1>1. CASE thread[p].call = "other"
  BY <1>1, EndType, IdleType DEF AfterRelease
<1>2. CASE thread[p].call # "other"
  <2> DEFINE step == IF thread[p].call = "acquire" THEN "lookup" ELSE "scard"
             l == [thread[p] EXCEPT !.step = step, !.failed = FALSE]
  <2>1. l \in Locals(minted)
    <3>1. CASE thread[p].call = "acquire"
      <4>1. [thread[p] EXCEPT !.step = "lookup", !.failed = FALSE] \in Locals(minted)
        BY <1>l, <3>1 DEF Locals, Local, Steps, KeySteps, IdSteps, AcquireSteps, DeleteSteps
      <4> QED BY <3>1, <4>1
    <3>2. CASE thread[p].call # "acquire"
      <4>1. [thread[p] EXCEPT !.step = "scard", !.failed = FALSE] \in Locals(minted)
        BY <1>l, <1>2, <3>2 DEF Locals, Local, Steps, KeySteps, IdSteps, AcquireSteps, DeleteSteps
      <4> QED BY <3>2, <4>1
    <3> QED BY <3>1, <3>2
  <2>2. thread' = [thread EXCEPT ![p] = l]
    BY <1>2 DEF AfterRelease
  <2>3. thread'[p] = l /\ \A q \in Threads \ {p} : thread'[q] = thread[q]
    BY <2>1, <2>2, LocalsChange DEF TypeInv
  <2>4. thread' \in [Threads -> Locals(minted)]
    BY <2>1, <2>2, LocalsChange DEF TypeInv
  <2>5. l.step = step /\ l.call = thread[p].call /\ l.wallet = thread[p].wallet
    BY <1>l DEF Locals, Local
  <2> QED BY <2>3, <2>4, <2>5
<1> QED BY <1>1, <1>2

\* The steps of a release.
LEMMA ReleaseTypes ==
    ASSUME TypeInv, NEW p \in Threads, Release(p)
    PROVE  TypeInv'
<1>l. thread[p] \in Locals(minted)
  BY DEF TypeInv
<1>1. CASE SkipRelease(p)
  <2>1. thread' \in [Threads -> Locals(minted)]
    BY <1>1, AfterReleaseType DEF SkipRelease
  <2>2. DataOK' /\ UNCHANGED minted
    BY <1>1, <1>l DEF TypeInv, DataOK, redis, process, chain, SkipRelease
  <2> QED BY <2>1, <2>2 DEF TypeInv
<1>2. CASE BeginRelease(p)
  <2>1. thread' \in [Threads -> Locals(minted)]
    BY <1>2, <1>l, LocalsChange DEF
        BeginRelease, DataOK, TypeInv, Locals, Local, Steps, Calls, KeySteps, IdSteps, AcquireSteps,
        DeleteSteps, At
  <2>2. DataOK' /\ UNCHANGED minted
    BY <1>2, <1>l, Ages DEF TypeInv, DataOK, redis, process, chain, BeginRelease
  <2> QED BY <2>1, <2>2 DEF TypeInv
<1>3. CASE EndRelease(p)
  <2>1. thread' \in [Threads -> Locals(minted)]
    BY <1>3, AfterReleaseType DEF EndRelease
  <2>2. DataOK' /\ UNCHANGED minted
    BY <1>3, <1>l, Ages DEF TypeInv, DataOK, redis, process, chain, EndRelease
  <2> QED BY <2>1, <2>2 DEF TypeInv
<1>4. CASE AppendTokenId(p)
  <2>1. thread' \in [Threads -> Locals(minted)]
    BY <1>4, <1>l, GotoType DEF
        AppendTokenId, TypeInv, Locals, Local, Steps, Calls, KeySteps,
        IdSteps, AcquireSteps, DeleteSteps, At
  <2>2. DataOK' /\ UNCHANGED minted
    BY <1>4, <1>l, KeyParts DEF
        TypeInv, DataOK, redis, process, chain, AppendTokenId, Locals, KeySteps, At
  <2> QED BY <2>1, <2>2 DEF TypeInv
<1>5. CASE DropTimer(p)
  <2>1. thread' \in [Threads -> Locals(minted)]
    BY <1>5, <1>l, LocalsChange DEF
        DropTimer, TypeInv, Locals, Local, Steps, Calls, KeySteps, IdSteps, AcquireSteps, DeleteSteps,
        At
  <2>2. DataOK' /\ UNCHANGED minted
    BY <1>5, <1>l, DelTimers DEF TypeInv, DataOK, redis, process, chain, DropTimer
  <2> QED BY <2>1, <2>2 DEF TypeInv
<1>6. CASE \E key \in thread[p].keys : Sweep(p, key)
  <2>1. thread' \in [Threads -> Locals(minted)]
    BY <1>6, <1>l, LocalsChange DEF
        Sweep, TypeInv, Locals, Local, Steps, Calls, KeySteps, IdSteps, AcquireSteps, DeleteSteps, At
  <2>2. DataOK' /\ UNCHANGED minted
    BY <1>6, <1>l DEF TypeInv, DataOK, redis, process, chain, Sweep
  <2> QED BY <2>1, <2>2 DEF TypeInv
<1> QED BY <1>1, <1>2, <1>3, <1>4, <1>5, <1>6 DEF Release

\* The steps of Acquire and Count.
LEMMA AcquireTypes ==
    ASSUME TypeInv, NEW p \in Threads, Acquire(p)
    PROVE  TypeInv'
<1>l. thread[p] \in Locals(minted)
  BY DEF TypeInv
<1>1. CASE LookupLast(p)
  <2>1. thread' \in [Threads -> Locals(minted)]
    <3> DEFINE w == thread[p].wallet
    <3>1. CASE w \in DOMAIN lastId
      <4>1. lastId[w] \in Ids
        BY <3>1 DEF TypeInv, DataOK
      <4> DEFINE l == [thread[p] EXCEPT !.step = "fresh", !.last = lastId[w]]
      <4>2. l \in Locals(minted)
        BY <1>1, <1>l, <4>1 DEF
            LookupLast, At, Locals, Local, Steps, KeySteps, IdSteps, AcquireSteps, DeleteSteps
      <4> QED BY <1>1, <3>1, <4>2, LocalsChange DEF LookupLast, TypeInv
    <3>2. CASE w \notin DOMAIN lastId
      <4> DEFINE l == [thread[p] EXCEPT !.step = "release", !.call = "recount"]
      <4>2. l \in Locals(minted)
        BY <1>l DEF Locals, Local, Steps, Calls, KeySteps, IdSteps, AcquireSteps, DeleteSteps
      <4> QED BY <1>1, <3>2, <4>2, LocalsChange DEF LookupLast, TypeInv
    <3> QED BY <3>1, <3>2
  <2>2. DataOK' /\ UNCHANGED minted
    BY <1>1, <1>l DEF TypeInv, DataOK, redis, process, chain, LookupLast
  <2> QED BY <2>1, <2>2 DEF TypeInv
<1>2. CASE AnswerFresh(p)
  <2>1. thread' \in [Threads -> Locals(minted)]
    BY <1>2, <1>l, EndType, LocalsChange DEF
        AnswerFresh, TypeInv, Locals, Local, Steps, Calls, KeySteps, IdSteps, AcquireSteps,
        DeleteSteps, At
  <2>2. DataOK' /\ UNCHANGED minted
    BY <1>2, <1>l, EndType DEF
        TypeInv, DataOK, redis, process, chain, AnswerFresh, Locals, Local
  <2> QED BY <2>1, <2>2 DEF TypeInv
<1>3. CASE CountFree(p)
  <2>1. thread' \in [Threads -> Locals(minted)]
    BY <1>3, <1>l, EndType, GotoType DEF
        CountFree, TypeInv, Locals, Local, Steps, Calls, KeySteps,
        IdSteps, AcquireSteps, DeleteSteps, At
  <2>2. DataOK' /\ UNCHANGED minted
    BY <1>3, <1>l, EndType DEF TypeInv, DataOK, redis, process, chain, CountFree, Locals, Local
  <2> QED BY <2>1, <2>2 DEF TypeInv
<1>4. CASE PopRandom(p)
  <2>1. thread' \in [Threads -> Locals(minted)]
    BY <1>4, <1>l, EndType, LocalsChange DEF
        PopRandom, DataOK, TypeInv, Locals, Local, Steps, Calls, KeySteps, IdSteps, AcquireSteps,
        DeleteSteps, At
  <2>2. DataOK' /\ UNCHANGED minted
    BY <1>4, <1>l, EndType DEF TypeInv, DataOK, redis, process, chain, PopRandom
  <2> QED BY <2>1, <2>2 DEF TypeInv
<1>5. CASE Claim(p)
  <2>1. thread' \in [Threads -> Locals(minted)]
    BY <1>5, <1>l, EndType, GotoType DEF
        Claim, TypeInv, Locals, Local, Steps, Calls, KeySteps, IdSteps, AcquireSteps,
        DeleteSteps, At
  <2>2. DataOK' /\ UNCHANGED minted
    BY <1>5, <1>l, EndType DEF TypeInv, DataOK, redis, process, chain, Claim
  <2> QED BY <2>1, <2>2 DEF TypeInv
<1>6. CASE SetTimer(p)
  <2>1. thread' \in [Threads -> Locals(minted)]
    BY <1>6, <1>l, GotoType DEF
        SetTimer, TypeInv, Locals, Local, Steps, Calls, KeySteps, IdSteps, AcquireSteps,
        DeleteSteps, At
  <2>2. DataOK' /\ UNCHANGED minted
    <3>1. OwnKey(p) \in Key
      BY <1>6, <1>l, KeyParts DEF SetTimer, OwnKey, Locals, Local, IdSteps, AcquireSteps, At
    <3>2. /\ DOMAIN timer' = DOMAIN timer \cup {OwnKey(p)}
          /\ timer'[OwnKey(p)] = 0
          /\ \A k \in DOMAIN timer \ {OwnKey(p)} : timer'[k] = timer[k]
      BY <1>6, SetTimers DEF SetTimer
    <3> QED BY <1>6, <3>1, <3>2, Ages DEF TypeInv, DataOK, redis, process, chain, SetTimer
  <2> QED BY <2>1, <2>2 DEF TypeInv
<1>7. CASE SetLast(p)
  <2>1. thread' \in [Threads -> Locals(minted)]
    BY <1>7, <1>l, GotoType DEF
        SetLast, TypeInv, Locals, Local, Steps, Calls, KeySteps, IdSteps, AcquireSteps,
        DeleteSteps, At
  <2>2. DataOK' /\ UNCHANGED minted
    BY <1>7, <1>l DEF
        TypeInv, DataOK, redis, process, chain, SetLast, With, Locals, Local, IdSteps, AcquireSteps,
        At
  <2> QED BY <2>1, <2>2 DEF TypeInv
<1>8. CASE ListOld(p)
  <2>1. thread' \in [Threads -> Locals(minted)]
    <3> DEFINE keys == {k \in DOMAIN timer : k[1] = thread[p].wallet} \ {OwnKey(p)}
               l == [thread[p] EXCEPT !.step = "resetOld", !.keys = keys]
    <3>1. keys \in SUBSET Key
      BY DEF TypeInv, DataOK
    <3> HIDE DEF keys
    <3>2. l \in Locals(minted)
      BY <1>8, <1>l, <3>1 DEF
          ListOld, Locals, Local, Steps, Calls, KeySteps, IdSteps, AcquireSteps, DeleteSteps, At
    <3>3. thread' = [thread EXCEPT ![p] = l]
      BY <1>8 DEF ListOld, keys
    <3> QED BY <3>2, <3>3, LocalsChange DEF TypeInv
  <2>2. DataOK' /\ UNCHANGED minted
    BY <1>8, <1>l DEF TypeInv, DataOK, redis, process, chain, ListOld
  <2> QED BY <2>1, <2>2 DEF TypeInv
<1>9. CASE ResetOld(p)
  <2>1. thread' \in [Threads -> Locals(minted)]
    BY <1>9, <1>l, EndType, LocalsChange DEF
        ResetOld, TypeInv, Locals, Local, Steps, Calls, KeySteps, IdSteps, AcquireSteps, DeleteSteps,
        At
  <2>2. DataOK' /\ UNCHANGED minted
    <3>1. CASE Return(p) /\ UNCHANGED timer
      BY <1>9, <1>l, <3>1, EndType DEF
          TypeInv, DataOK, redis, process, chain, ResetOld, Locals, Local
    <3>2. ASSUME NEW key \in thread[p].keys, Set(key, Expired)
          PROVE  DataOK' /\ UNCHANGED minted
      <4>1. key \in Key
        BY <1>l DEF Locals, Local
      <4>2. /\ DOMAIN timer' = DOMAIN timer \cup {key}
            /\ timer'[key] = Expired
            /\ \A k \in DOMAIN timer \ {key} : timer'[k] = timer[k]
        BY <3>2, SetTimers
      <4> QED BY <1>9, <3>2, <4>1, <4>2, Ages DEF
          TypeInv, DataOK, redis, process, chain, ResetOld
    <3> QED BY <1>9, <3>1, <3>2 DEF ResetOld
  <2> QED BY <2>1, <2>2 DEF TypeInv
<1> QED BY <1>1, <1>2, <1>3, <1>4, <1>5, <1>6, <1>7, <1>8, <1>9 DEF Acquire

\* The steps of DeleteTokenID.
LEMMA DeleteTypes ==
    ASSUME TypeInv, NEW p \in Threads, Delete(p)
    PROVE  TypeInv'
<1>l. thread[p] \in Locals(minted)
  BY DEF TypeInv
<1>1. CASE DeleteTimer(p)
  <2>1. thread' \in [Threads -> Locals(minted)]
    BY <1>1, <1>l, GotoType DEF
        DeleteTimer, TypeInv, Locals, Local, Steps, Calls, KeySteps,
        IdSteps, AcquireSteps, DeleteSteps, At
  <2>2. DataOK' /\ UNCHANGED minted
    BY <1>1, <1>l, DelTimers DEF TypeInv, DataOK, redis, process, chain, DeleteTimer
  <2> QED BY <2>1, <2>2 DEF TypeInv
<1>2. CASE LookupHolder(p)
  <2>1. thread' \in [Threads -> Locals(minted)]
    BY <1>2, <1>l, GotoType DEF
        LookupHolder, TypeInv, Locals, Local, Steps, Calls, KeySteps,
        IdSteps, AcquireSteps, DeleteSteps, At
  <2>2. DataOK' /\ UNCHANGED minted
    BY <1>2, <1>l DEF TypeInv, DataOK, redis, process, chain, LookupHolder
  <2> QED BY <2>1, <2>2 DEF TypeInv
<1>3. CASE DeleteLast(p)
  <2>1. thread' \in [Threads -> Locals(minted)]
    BY <1>3, <1>l, GotoType DEF
        DeleteLast, TypeInv, Locals, Local, Steps, Calls, KeySteps,
        IdSteps, AcquireSteps, DeleteSteps, At
  <2>2. DataOK' /\ UNCHANGED minted
    BY <1>3, <1>l DEF TypeInv, DataOK, redis, process, chain, DeleteLast
  <2> QED BY <2>1, <2>2 DEF TypeInv
<1>4. CASE DeleteFromSet(p)
  <2>1. thread' \in [Threads -> Locals(minted)]
    BY <1>4, <1>l, EndType DEF DeleteFromSet, TypeInv
  <2>2. DataOK' /\ UNCHANGED minted
    BY <1>4, <1>l, EndType DEF
        TypeInv, DataOK, redis, process, chain, DeleteFromSet, Locals, DeleteSteps, At
  <2> QED BY <2>1, <2>2 DEF TypeInv
<1> QED BY <1>1, <1>2, <1>3, <1>4 DEF Delete


\* Time passes, tokens are minted, and requests begin.
LEMMA OthersTypes ==
    ASSUME TypeInv,
           \/ Tick
           \/ \E id \in Ids : MintOnChain(id)
           \/ \E p \in Threads :
                 \/ \E w \in Wallets : StartAcquire(p, w)
                 \/ StartCount(p) \/ StartOther(p)
                 \/ \E id \in Ids : StartDelete(p, id)
           \/ Crash
    PROVE  TypeInv'
<1>1. CASE Tick
  BY <1>1, Ages DEF Tick, TypeInv, DataOK, chain
<1>2. ASSUME NEW id \in Ids, MintOnChain(id)
      PROVE  TypeInv'
  BY <1>2 DEF MintOnChain, TypeInv, DataOK, Locals, redis, process
<1>3. ASSUME NEW p \in Threads, NEW call \in Calls, NEW w \in Wallets, StartRequest(p, call, w)
      PROVE  TypeInv'
  <2> DEFINE l == [Idle EXCEPT !.step = "release", !.call = call, !.wallet = w]
  <2>1. l \in Locals(minted)
    BY IdleType DEF Locals, Local, Steps, KeySteps, IdSteps, AcquireSteps, DeleteSteps
  <2>2. thread' \in [Threads -> Locals(minted)]
    BY <1>3, <2>1, LocalsChange DEF StartRequest, TypeInv
  <2>3. DataOK' /\ UNCHANGED minted
    BY <1>3 DEF StartRequest, TypeInv, DataOK, redis, process, chain
  <2> QED BY <2>2, <2>3 DEF TypeInv
<1>4. ASSUME NEW p \in Threads, NEW id \in Ids, StartDelete(p, id)
      PROVE  TypeInv'
  <2> DEFINE l(key) == [Idle EXCEPT !.step = "delTimer", !.id = id, !.key = key]
             none == [Idle EXCEPT !.step = "delFromSet", !.id = id]
  <2>1. id \in minted
    BY <1>4 DEF StartDelete
  <2>2. none \in Locals(minted) /\ \A key \in Key : key[2] = id => l(key) \in Locals(minted)
    BY <2>1, IdleType DEF Locals, Local, Steps, KeySteps, IdSteps, AcquireSteps, DeleteSteps
  <2>3. \/ thread' = [thread EXCEPT ![p] = none]
        \/ \E key \in Key : key[2] = id /\ thread' = [thread EXCEPT ![p] = l(key)]
    BY <1>4 DEF StartDelete, TypeInv, DataOK
  <2> HIDE DEF none, l
  <2>4. thread' \in [Threads -> Locals(minted)]
    BY <2>2, <2>3, LocalsChange DEF TypeInv
  <2>5. DataOK' /\ UNCHANGED minted
    BY <1>4 DEF StartDelete, TypeInv, DataOK, redis, process, chain
  <2> QED BY <2>4, <2>5 DEF TypeInv
<1>5. CASE Crash
  <2>1. thread' \in [Threads -> Locals(minted)]
    BY <1>5, IdleType DEF Crash, Locals, KeySteps, IdSteps, AcquireSteps, DeleteSteps
  <2>2. DataOK' /\ UNCHANGED minted
    BY <1>5, Ages DEF Crash, TypeInv, DataOK, redis, chain
  <2> QED BY <2>1, <2>2 DEF TypeInv
<1>6. "acquire" \in Calls /\ "count" \in Calls /\ "other" \in Calls /\ AnyWallet \in Wallets
  BY IdleType DEF Calls
<1> QED BY <1>1, <1>2, <1>3, <1>4, <1>5, <1>6 DEF StartAcquire, StartCount, StartOther

\* The faults but a crash.
LEMMA FaultTypes ==
    ASSUME TypeInv, NEW p \in Threads, AcquireFails(p) \/ DeleteFails(p) \/ ReleaseFails(p)
    PROVE  TypeInv'
<1>l. thread[p] \in Locals(minted)
  BY DEF TypeInv
<1>1. CASE Retry(p)
  <2>1. thread' \in [Threads -> Locals(minted)]
    BY <1>1, <1>l, LocalsChange DEF
        Retry, RetriedSteps, TypeInv, Locals, Local, Steps, Calls, KeySteps, IdSteps, AcquireSteps,
        DeleteSteps, At
  <2>2. DataOK' /\ UNCHANGED minted
    BY <1>1, <1>l DEF TypeInv, DataOK, redis, process, chain, Retry
  <2> QED BY <2>1, <2>2 DEF TypeInv
<1>2. CASE Abandon(p)
  <2>1. thread' \in [Threads -> Locals(minted)]
    BY <1>2, <1>l, EndType DEF Abandon
  <2>2. DataOK' /\ UNCHANGED minted
    BY <1>2, <1>l, EndType DEF TypeInv, DataOK, redis, process, chain, Abandon
  <2> QED BY <2>1, <2>2 DEF TypeInv
<1>3. CASE CountFails(p)
  <2>1. thread' \in [Threads -> Locals(minted)]
    BY <1>3, <1>l, EndType DEF CountFails, Locals, Local
  <2>2. DataOK' /\ UNCHANGED minted
    BY <1>3, <1>l, EndType DEF TypeInv, DataOK, redis, process, chain, CountFails, Locals, Local
  <2> QED BY <2>1, <2>2 DEF TypeInv
<1>4. CASE ClaimFails(p)
  <2>1. thread' \in [Threads -> Locals(minted)]
    BY <1>4, <1>l, GotoType DEF
        ClaimFails, TypeInv, Locals, Local, Steps, Calls, KeySteps,
        IdSteps, AcquireSteps, DeleteSteps, At
  <2>2. DataOK' /\ UNCHANGED minted
    BY <1>4, <1>l DEF TypeInv, DataOK, redis, process, chain, ClaimFails
  <2> QED BY <2>1, <2>2 DEF TypeInv
<1>5. CASE DeleteFails(p)
  <2>1. thread' \in [Threads -> Locals(minted)]
    BY <1>5, <1>l, EndType, GotoType DEF
        DeleteFails, Return, TypeInv, Locals, Local, Steps, Calls,
        KeySteps, IdSteps, AcquireSteps, DeleteSteps, At
  <2>2. DataOK' /\ UNCHANGED minted
    BY <1>5, <1>l, EndType DEF
        TypeInv, DataOK, redis, process, chain, DeleteFails, Return, Goto, Locals,
        DeleteSteps, At
  <2> QED BY <2>1, <2>2 DEF TypeInv
<1>6. CASE ReleaseFails(p)
  <2>1. thread' \in [Threads -> Locals(minted)]
    <3>1. CASE At(p, "release") /\ AfterRelease(p)
      BY <3>1, AfterReleaseType
    <3>2. ASSUME NEW key, At(p, "sweep"),
                 thread' = [thread EXCEPT ![p].keys = @ \ {key}, ![p].failed = TRUE]
          PROVE  thread' \in [Threads -> Locals(minted)]
      <4> DEFINE l == [thread[p] EXCEPT !.keys = @ \ {key}, !.failed = TRUE]
      <4>1. l \in Locals(minted)
        BY <1>l DEF Locals, Local
      <4> QED BY <3>2, <4>1, LocalsChange DEF TypeInv
    <3>3. CASE At(p, "append") /\ Goto(p, "drop")
      BY <3>3, <1>l, GotoType DEF
          TypeInv, Locals, Local, Steps, Calls, KeySteps, IdSteps, AcquireSteps, DeleteSteps, At
    <3>4. CASE thread' = [thread EXCEPT ![p].step = "sweep", ![p].key = NoKey, ![p].failed = TRUE]
      <4> DEFINE l == [thread[p] EXCEPT !.step = "sweep", !.key = NoKey, !.failed = TRUE]
      <4>1. l \in Locals(minted)
        BY <1>l DEF Locals, Local, Steps, KeySteps, IdSteps, AcquireSteps, DeleteSteps
      <4> QED BY <3>4, <4>1, LocalsChange DEF TypeInv
    <3> QED BY <1>6, <3>1, <3>2, <3>3, <3>4 DEF ReleaseFails
  <2>2. DataOK' /\ UNCHANGED minted
    BY <1>6, <1>l DEF TypeInv, DataOK, redis, process, chain, ReleaseFails
  <2> QED BY <2>1, <2>2 DEF TypeInv
<1> QED BY <1>1, <1>2, <1>3, <1>4, <1>5, <1>6 DEF AcquireFails

\* Every step keeps the types.
LEMMA TypeInductive ==
    ASSUME TypeInv, [Next]_vars
    PROVE  TypeInv'
<1>1. CASE UNCHANGED vars
  BY <1>1 DEF vars, redis, process, chain, TypeInv, DataOK
<1>2. ASSUME NEW p \in Threads, Step(p)
      PROVE  TypeInv'
  BY <1>2, ReleaseTypes, AcquireTypes, DeleteTypes DEF Step
<1>3. CASE Fault
  BY <1>3, OthersTypes, FaultTypes DEF Fault
<1> QED BY <1>1, <1>2, <1>3, OthersTypes DEF Next

LEMMA TypeInitial == Init => TypeInv
<1> SUFFICES ASSUME Init PROVE TypeInv
  OBVIOUS
<1>1. Idle \in Locals(minted)
  BY IdleType DEF Locals, KeySteps, IdSteps, AcquireSteps, DeleteSteps
<1>2. DOMAIN timer = {} /\ DOMAIN lastId = {}
  BY DEF Init
<1> QED BY <1>1, <1>2, Ages DEF Init, TypeInv, DataOK

\* Redis, the process and every thread's locals stay well typed: no step finds
\* its key or its id missing, for any number of requests at a time, in any order
\* of their commands, whatever of them fails.
THEOREM TypeCorrect == Spec => []TypeOK
<1>1. Init => TypeInv /\ torn \in BOOLEAN
  BY TypeInitial DEF Init
<1>2. TypeInv /\ torn \in BOOLEAN /\ [Next]_vars => (TypeInv /\ torn \in BOOLEAN)'
  <2> SUFFICES ASSUME TypeInv, torn \in BOOLEAN, [Next]_vars PROVE TypeInv' /\ torn' \in BOOLEAN
    OBVIOUS
  <2>1. torn' \in BOOLEAN
    BY DEF Next, Record, vars
  <2> QED BY <2>1, TypeInductive
<1>3. TypeInv /\ torn \in BOOLEAN => TypeOK
  BY DEF TypeInv, DataOK, TypeOK, Locals
<1> QED BY <1>1, <1>2, <1>3, PTL DEF Spec

-----------------------------------------------------------------------------
(* A wallet whose requests do not overlap keeps one id.                    *)

\* One request at a time acquires an id for a wallet that sends no second one before
\* the first is answered.
OneForEach ==
    \A w \in Wallets \ Overlapping :
        \A p, q \in Threads : Acquiring(p, w) /\ Acquiring(q, w) => p = q

\* While such a wallet's timers are being reset, those that count but the new one
\* are yet to be reset.
OldAreListed ==
    \A p \in Threads :
        At(p, "resetOld") /\ thread[p].wallet \notin Overlapping =>
            \A k \in DOMAIN timer :
                k[1] = thread[p].wallet /\ timer[k] # Expired =>
                    k = OwnKey(p) \/ k \in thread[p].keys

KeepInv == TypeInv /\ OneForEach /\ OldAreListed

\* What a thread does that serves a request: it goes on with the request, or ends it.
GoesOn(p) ==
    /\ \A q \in Threads \ {p} : thread'[q] = thread[q]
    /\ \/ thread'[p] = Idle
       \/ /\ ~At(p, "idle")
          /\ thread'[p].wallet = thread[p].wallet
          /\ \/ thread'[p].call = thread[p].call
             \/ thread[p].call \in {"acquire", "recount"} /\ thread'[p].call = "recount"

LEMMA ReleaseGoesOn ==
    ASSUME TypeInv, NEW p \in Threads, Release(p)
    PROVE  GoesOn(p) /\ thread'[p].step # "resetOld"
<1>l. thread[p] \in Local /\ thread \in [Threads -> Local]
  BY DEF TypeInv, Locals
<1>0. AfterRelease(p) /\ (At(p, "release") \/ At(p, "sweep")) =>
        GoesOn(p) /\ thread'[p].step # "resetOld"
  BY <1>l, IdleType DEF AfterRelease, Return, GoesOn, At, Local
<1>1. CASE SkipRelease(p)
  BY <1>0, <1>1 DEF SkipRelease
<1>2. CASE BeginRelease(p)
  BY <1>2, <1>l DEF BeginRelease, GoesOn, Local, At
<1>3. CASE EndRelease(p)
  BY <1>0, <1>3 DEF EndRelease
<1>4. CASE AppendTokenId(p)
  BY <1>4, <1>l DEF AppendTokenId, Goto, GoesOn, Local, At
<1>5. CASE DropTimer(p)
  BY <1>5, <1>l DEF DropTimer, GoesOn, Local, At
<1>6. CASE \E key \in thread[p].keys : Sweep(p, key)
  BY <1>6, <1>l DEF Sweep, GoesOn, Local, At
<1> QED BY <1>1, <1>2, <1>3, <1>4, <1>5, <1>6 DEF Release

LEMMA AcquireGoesOn ==
    ASSUME TypeInv, NEW p \in Threads, Acquire(p)
    PROVE  /\ GoesOn(p)
           /\ thread'[p].step # "resetOld" \/ ListOld(p) \/ ResetOld(p)
<1>l. thread[p] \in Locals(minted) /\ thread[p] \in Local /\ thread \in [Threads -> Local]
  BY DEF TypeInv, Locals
<1>0. Return(p) => GoesOn(p) /\ thread'[p].step # "resetOld"
  BY <1>l, IdleType DEF Return, GoesOn, Local
<1>1. CASE LookupLast(p)
  BY <1>1, <1>l DEF LookupLast, GoesOn, Locals, AcquireSteps, Local, At
<1>2. CASE AnswerFresh(p)
  BY <1>0, <1>2, <1>l DEF AnswerFresh, GoesOn, Locals, AcquireSteps, Local, At
<1>3. CASE CountFree(p)
  BY <1>0, <1>3, <1>l DEF CountFree, Goto, GoesOn, Local, At
<1>4. CASE PopRandom(p)
  BY <1>0, <1>4, <1>l DEF PopRandom, GoesOn, Local, At
<1>5. CASE Claim(p)
  BY <1>0, <1>5, <1>l DEF Claim, Goto, GoesOn, Local, At
<1>6. CASE SetTimer(p)
  BY <1>6, <1>l DEF SetTimer, Goto, GoesOn, Local, At
<1>7. CASE SetLast(p)
  BY <1>7, <1>l DEF SetLast, Goto, GoesOn, Local, At
<1>8. CASE ListOld(p)
  BY <1>8, <1>l DEF ListOld, GoesOn, Local, At
<1>9. CASE ResetOld(p)
  BY <1>0, <1>9, <1>l DEF ResetOld, GoesOn, Local, At
<1> QED BY <1>1, <1>2, <1>3, <1>4, <1>5, <1>6, <1>7, <1>8, <1>9 DEF Acquire

LEMMA DeleteGoesOn ==
    ASSUME TypeInv, NEW p \in Threads, Delete(p)
    PROVE  GoesOn(p) /\ thread'[p].step # "resetOld"
<1>l. thread[p] \in Local /\ thread \in [Threads -> Local]
  BY DEF TypeInv, Locals
<1>1. CASE DeleteTimer(p)
  BY <1>1, <1>l DEF DeleteTimer, Goto, GoesOn, Local, At
<1>2. CASE LookupHolder(p)
  BY <1>2, <1>l DEF LookupHolder, Goto, GoesOn, Local, At
<1>3. CASE DeleteLast(p)
  BY <1>3, <1>l DEF DeleteLast, Goto, GoesOn, Local, At
<1>4. CASE DeleteFromSet(p)
  BY <1>4, <1>l, IdleType DEF DeleteFromSet, Return, GoesOn, Local, At
<1> QED BY <1>1, <1>2, <1>3, <1>4 DEF Delete

\* A command that fails; a mint may be dismissed without a thread's doing.
LEMMA FaultGoesOn ==
    ASSUME TypeInv, NEW p \in Threads, AcquireFails(p) \/ DeleteFails(p) \/ ReleaseFails(p)
    PROVE  /\ UNCHANGED redis
           /\ UNCHANGED thread \/ (GoesOn(p) /\ thread'[p].step # "resetOld")
<1>l. thread[p] \in Local /\ thread \in [Threads -> Local]
  BY DEF TypeInv, Locals
<1>0. Return(p) => GoesOn(p) /\ thread'[p].step # "resetOld"
  BY <1>l, IdleType DEF Return, GoesOn, Local
<1>1. CASE Retry(p)
  BY <1>1, <1>l DEF Retry, RetriedSteps, GoesOn, Local, At
<1>2. CASE Abandon(p)
  BY <1>0, <1>2 DEF Abandon
<1>3. CASE CountFails(p)
  BY <1>0, <1>3 DEF CountFails
<1>4. CASE ClaimFails(p)
  BY <1>4, <1>l DEF ClaimFails, Goto, GoesOn, Local, At
<1>5. CASE DeleteFails(p)
  BY <1>0, <1>5, <1>l DEF DeleteFails, Goto, GoesOn, Local, At
<1>6. CASE ReleaseFails(p)
  <2>1. AfterRelease(p) /\ At(p, "release") => GoesOn(p) /\ thread'[p].step # "resetOld"
    BY <1>l, IdleType DEF AfterRelease, Return, GoesOn, At, Local
  <2>2. ASSUME NEW key, At(p, "sweep"),
               thread' = [thread EXCEPT ![p].keys = @ \ {key}, ![p].failed = TRUE]
        PROVE  GoesOn(p) /\ thread'[p].step # "resetOld"
    BY <2>2, <1>l DEF GoesOn, Local, At
  <2>3. At(p, "append") /\ Goto(p, "drop") => GoesOn(p) /\ thread'[p].step # "resetOld"
    BY <1>l DEF Goto, GoesOn, Local, At
  <2>4. /\ At(p, "drop")
        /\ thread' = [thread EXCEPT ![p].step = "sweep", ![p].key = NoKey, ![p].failed = TRUE]
        => GoesOn(p) /\ thread'[p].step # "resetOld"
    BY <1>l DEF GoesOn, Local, At
  <2> QED BY <1>6, <2>1, <2>2, <2>3, <2>4 DEF ReleaseFails
<1> QED BY <1>1, <1>2, <1>3, <1>4, <1>5, <1>6 DEF AcquireFails

\* What starts a thread's work.
LEMMA Starts ==
    ASSUME TypeInv, NEW p \in Threads,
           \/ \E w \in Wallets : StartAcquire(p, w)
           \/ StartCount(p) \/ StartOther(p)
           \/ \E id \in Ids : StartDelete(p, id)
    PROVE  /\ UNCHANGED redis
           /\ At(p, "idle")
           /\ thread'[p].step \in {"release", "delTimer", "delFromSet"}
           /\ \A q \in Threads \ {p} : thread'[q] = thread[q]
           /\ \A w \in Wallets : Acquiring(p, w)' => StartAcquire(p, w)
<1>l. thread \in [Threads -> Local]
  BY DEF TypeInv, Locals
<1>1. ASSUME NEW call \in Calls, NEW w \in Wallets, StartRequest(p, call, w)
      PROVE  /\ UNCHANGED redis /\ At(p, "idle")
             /\ thread'[p].step = "release" /\ thread'[p].call = call /\ thread'[p].wallet = w
             /\ \A q \in Threads \ {p} : thread'[q] = thread[q]
  BY <1>1, <1>l, IdleType DEF StartRequest, Local
<1>2. ASSUME NEW id \in Ids, StartDelete(p, id)
      PROVE  /\ UNCHANGED redis /\ At(p, "idle")
             /\ thread'[p].step \in {"delTimer", "delFromSet"} /\ thread'[p].call = "count"
             /\ \A q \in Threads \ {p} : thread'[q] = thread[q]
  <2>1. \/ thread' = [thread EXCEPT ![p] = [Idle EXCEPT !.step = "delFromSet", !.id = id]]
        \/ \E key : thread' = [thread EXCEPT ![p] = [Idle EXCEPT !.step = "delTimer", !.id = id, !.key = key]]
    BY <1>2 DEF StartDelete
  <2>2. UNCHANGED redis /\ At(p, "idle")
    BY <1>2 DEF StartDelete
  <2>3. Idle.call = "count"
    BY DEF Idle
  <2>4. CASE thread' = [thread EXCEPT ![p] = [Idle EXCEPT !.step = "delFromSet", !.id = id]]
    <3>1. thread'[p] = [Idle EXCEPT !.step = "delFromSet", !.id = id]
      BY <1>l, <2>4
    <3>2. thread'[p].step = "delFromSet" /\ thread'[p].call = "count"
      BY <2>3, <3>1, IdleType DEF Local
    <3> QED BY <1>l, <2>2, <2>4, <3>2
  <2>5. ASSUME NEW key,
               thread' = [thread EXCEPT ![p] = [Idle EXCEPT !.step = "delTimer", !.id = id, !.key = key]]
        PROVE  /\ thread'[p].step = "delTimer" /\ thread'[p].call = "count"
               /\ \A q \in Threads \ {p} : thread'[q] = thread[q]
    <3>1. thread'[p] = [Idle EXCEPT !.step = "delTimer", !.id = id, !.key = key]
      BY <1>l, <2>5
    <3>2. thread'[p].step = "delTimer" /\ thread'[p].call = "count"
      BY <2>3, <3>1, IdleType DEF Local
    <3> QED BY <1>l, <2>5, <3>2
  <2> QED BY <2>1, <2>2, <2>4, <2>5
<1>3. CASE \E w \in Wallets : StartAcquire(p, w)
  <2> PICK v \in Wallets : StartAcquire(p, v)
    BY <1>3
  <2>1. StartRequest(p, "acquire", v) /\ "acquire" \in Calls
    BY DEF StartAcquire, Calls
  <2> QED BY <1>1, <2>1 DEF Acquiring
<1>4. CASE StartCount(p) \/ StartOther(p)
  BY <1>1, <1>4, IdleType DEF StartCount, StartOther, Calls, Acquiring
<1>5. CASE \E id \in Ids : StartDelete(p, id)
  BY <1>2, <1>5 DEF Acquiring
<1> QED BY <1>3, <1>4, <1>5

\* Two requests for one wallet are never made of one.
LEMMA OneForEachKept ==
    ASSUME KeepInv, [Next]_vars
    PROVE  OneForEach'
<1>0. ASSUME NEW p \in Threads, GoesOn(p)
      PROVE  OneForEach'
  <2>1. \A w \in Wallets : Acquiring(p, w)' => Acquiring(p, w)
    BY <1>0, IdleType DEF GoesOn, Acquiring, At
  <2>2. \A q \in Threads \ {p}, w \in Wallets : Acquiring(q, w)' => Acquiring(q, w)
    BY <1>0 DEF GoesOn, Acquiring, At
  <2> QED BY <2>1, <2>2 DEF KeepInv, OneForEach
<1>u. UNCHANGED thread => OneForEach'
  BY DEF KeepInv, OneForEach, Acquiring, At
<1>1. ASSUME NEW p \in Threads, Step(p)
      PROVE  OneForEach'
  BY <1>0, <1>1, ReleaseGoesOn, AcquireGoesOn, DeleteGoesOn DEF Step, KeepInv
<1>2. ASSUME NEW p \in Threads, AcquireFails(p) \/ DeleteFails(p) \/ ReleaseFails(p)
      PROVE  OneForEach'
  BY <1>0, <1>u, <1>2, FaultGoesOn DEF KeepInv
<1>3. ASSUME NEW p \in Threads,
             \/ \E w \in Wallets : StartAcquire(p, w)
             \/ StartCount(p) \/ StartOther(p)
             \/ \E id \in Ids : StartDelete(p, id)
      PROVE  OneForEach'
  <2>1. \A q \in Threads \ {p}, w \in Wallets : Acquiring(q, w)' => Acquiring(q, w)
    BY <1>3, Starts DEF KeepInv, Acquiring, At
  <2>2. \A w \in Wallets : Acquiring(p, w)' => StartAcquire(p, w)
    BY <1>3, Starts DEF KeepInv
  <2>3. \A w \in Wallets \ Overlapping, q \in Threads \ {p} : Acquiring(p, w)' => ~Acquiring(q, w)'
    BY <2>1, <2>2 DEF StartAcquire
  <2> QED BY <2>1, <2>3 DEF KeepInv, OneForEach
<1>4. CASE Crash
  BY <1>4, IdleType DEF Crash, OneForEach, Acquiring, At
<1>5. CASE Tick \/ (\E id \in Ids : MintOnChain(id)) \/ UNCHANGED vars
  BY <1>u, <1>5 DEF Tick, MintOnChain, vars
<1> QED BY <1>1, <1>2, <1>3, <1>4, <1>5 DEF Next, Fault

\* A step after which no timer counts that did not count before keeps the lists, if
\* it is not a step on the list.
NoneAnew == \A k \in DOMAIN timer' : timer'[k] # Expired => k \in DOMAIN timer /\ timer[k] # Expired

LEMMA ListsKept ==
    ASSUME KeepInv, NoneAnew, NEW p \in Threads, thread'[p].step # "resetOld",
           \A q \in Threads \ {p} : thread'[q] = thread[q]
    PROVE  OldAreListed'
<1> QED BY DEF KeepInv, OldAreListed, NoneAnew, OwnKey, At

LEMMA AcquireKeepsLists ==
    ASSUME KeepInv, NEW p \in Threads, Acquire(p)
    PROVE  OldAreListed'
<1>l. /\ thread[p] \in Local /\ thread \in [Threads -> Local] /\ thread[p] \in Locals(minted)
      /\ TypeInv /\ GoesOn(p)
  BY AcquireGoesOn DEF KeepInv, TypeInv, Locals
<1>o. \A q \in Threads \ {p} : thread'[q] = thread[q]
  BY <1>l DEF GoesOn
<1>1. CASE SetTimer(p)
  <2>1. /\ DOMAIN timer' = DOMAIN timer \cup {OwnKey(p)}
        /\ \A k \in DOMAIN timer \ {OwnKey(p)} : timer'[k] = timer[k]
    BY <1>1, SetTimers DEF SetTimer
  <2>2. Acquiring(p, thread[p].wallet) /\ thread[p].wallet \in Wallets
    BY <1>1, <1>l DEF SetTimer, Acquiring, Locals, Local, AcquireSteps, At
  <2>3. thread'[p].step = "setLast"
    BY <1>1, <1>l DEF SetTimer, Goto, Local
  <2>4. ASSUME NEW q \in Threads \ {p}, At(q, "resetOld"), thread[q].wallet \notin Overlapping
        PROVE  OwnKey(p)[1] # thread[q].wallet
    <3>1. Acquiring(q, thread[q].wallet) /\ thread[q].wallet \in Wallets
      BY <2>4 DEF KeepInv, TypeInv, Acquiring, Locals, Local, AcquireSteps, At
    <3> QED BY <2>2, <2>4, <3>1 DEF KeepInv, OneForEach, OwnKey
  <2> QED BY <1>o, <2>1, <2>3, <2>4 DEF KeepInv, OldAreListed, OwnKey, At
<1>2. CASE ListOld(p)
  <2>1. UNCHANGED timer
    BY <1>2 DEF ListOld, redis
  <2>2. /\ thread'[p].wallet = thread[p].wallet /\ thread'[p].id = thread[p].id
        /\ thread'[p].keys = {k \in DOMAIN timer : k[1] = thread[p].wallet} \ {OwnKey(p)}
    BY <1>2, <1>l DEF ListOld, Local
  <2> QED BY <1>o, <2>1, <2>2 DEF KeepInv, OldAreListed, OwnKey, At
<1>3. CASE ResetOld(p)
  <2>1. CASE Return(p) /\ UNCHANGED timer
    <3>1. thread'[p].step # "resetOld"
      BY <2>1, <1>l, IdleType DEF Return, Local
    <3> QED BY <1>o, <2>1, <3>1, ListsKept DEF NoneAnew
  <2>2. ASSUME NEW key \in thread[p].keys, Set(key, Expired),
               thread' = [thread EXCEPT ![p].keys = @ \ {key}]
        PROVE  OldAreListed'
    <3>1. /\ DOMAIN timer' = DOMAIN timer \cup {key}
          /\ timer'[key] = Expired
          /\ \A k \in DOMAIN timer \ {key} : timer'[k] = timer[k]
      BY <2>2, SetTimers
    <3>2. /\ thread'[p].wallet = thread[p].wallet /\ thread'[p].id = thread[p].id
          /\ thread'[p].keys = thread[p].keys \ {key}
      BY <2>2, <1>l DEF Local
    <3>3. At(p, "resetOld")
      BY <1>3 DEF ResetOld
    <3> QED BY <1>o, <3>1, <3>2, <3>3 DEF KeepInv, OldAreListed, OwnKey, At
  <2> QED BY <1>3, <2>1, <2>2 DEF ResetOld
<1>4. CASE ~SetTimer(p) /\ ~ListOld(p) /\ ~ResetOld(p)
  <2>1. UNCHANGED timer
    BY <1>4 DEF Acquire, LookupLast, AnswerFresh, CountFree, PopRandom, Claim, SetLast, redis
  <2>2. thread'[p].step # "resetOld"
    BY <1>l, <1>4, AcquireGoesOn
  <2> QED BY <1>o, <2>1, <2>2, ListsKept DEF NoneAnew
<1> QED BY <1>1, <1>2, <1>3, <1>4

\* Every step keeps the lists.
LEMMA ListsInductive ==
    ASSUME KeepInv, [Next]_vars
    PROVE  OldAreListed'
<1>t. TypeInv
  BY DEF KeepInv
<1>1. ASSUME NEW p \in Threads, Release(p) \/ Delete(p)
      PROVE  OldAreListed'
  <2>1. thread'[p].step # "resetOld" /\ GoesOn(p)
    BY <1>1, <1>t, ReleaseGoesOn, DeleteGoesOn
  <2>2. CASE DropTimer(p) \/ DeleteTimer(p)
    <3>1. NoneAnew
      BY <2>2, DelTimers DEF DropTimer, DeleteTimer, NoneAnew
    <3> QED BY <2>1, <3>1, ListsKept DEF GoesOn
  <2>3. CASE ~DropTimer(p) /\ ~DeleteTimer(p)
    <3>1. UNCHANGED timer
      BY <1>1, <2>3 DEF Release, SkipRelease, BeginRelease, EndRelease, AppendTokenId, Sweep,
          Delete, LookupHolder, DeleteLast, DeleteFromSet, redis
    <3> QED BY <2>1, <3>1, ListsKept DEF GoesOn, NoneAnew
  <2> QED BY <2>2, <2>3
<1>2. ASSUME NEW p \in Threads, Acquire(p)
      PROVE  OldAreListed'
  BY <1>2, AcquireKeepsLists
<1>3. ASSUME NEW p \in Threads, AcquireFails(p) \/ DeleteFails(p) \/ ReleaseFails(p)
      PROVE  OldAreListed'
  <2>1. UNCHANGED redis /\ (UNCHANGED thread \/ (GoesOn(p) /\ thread'[p].step # "resetOld"))
    BY <1>3, <1>t, FaultGoesOn
  <2>2. CASE UNCHANGED thread
    BY <2>1, <2>2 DEF redis, KeepInv, OldAreListed, OwnKey, At
  <2>3. CASE GoesOn(p) /\ thread'[p].step # "resetOld"
    BY <2>1, <2>3, ListsKept DEF redis, GoesOn, NoneAnew
  <2> QED BY <2>1, <2>2, <2>3
<1>4. ASSUME NEW p \in Threads,
             \/ \E w \in Wallets : StartAcquire(p, w)
             \/ StartCount(p) \/ StartOther(p)
             \/ \E id \in Ids : StartDelete(p, id)
      PROVE  OldAreListed'
  <2>1. /\ UNCHANGED timer /\ thread'[p].step # "resetOld"
        /\ \A q \in Threads \ {p} : thread'[q] = thread[q]
    BY <1>4, <1>t, Starts DEF redis
  <2> QED BY <2>1, ListsKept DEF NoneAnew
<1>5. CASE Crash
  BY <1>5, IdleType DEF Crash, OldAreListed, At
<1>6. CASE Tick
  <2>1. \A k \in DOMAIN timer : timer[k] = Expired => timer'[k] = Expired
    BY <1>6, <1>t, Ages DEF Tick, TypeInv, DataOK
  <2>2. DOMAIN timer' = DOMAIN timer /\ UNCHANGED thread
    BY <1>6 DEF Tick
  <2> QED BY <2>1, <2>2 DEF KeepInv, OldAreListed, OwnKey, At
<1>7. CASE (\E id \in Ids : MintOnChain(id)) \/ UNCHANGED vars
  BY <1>7 DEF MintOnChain, vars, redis, KeepInv, OldAreListed, OwnKey, At
<1> QED BY <1>1, <1>2, <1>3, <1>4, <1>5, <1>6, <1>7 DEF Next, Fault, Step

\* A wallet that is given an id from the set keeps no other: the timers of its ids
\* before, however many requests failed half way, are stamped for the next release
\* when the request is answered.  Any number of requests run at a time, and any
\* step of any request may fail; only the wallet itself waits for its answers.
THEOREM WalletsKeepOne == Spec => []WalletKeepsOne
<1>1. Init => KeepInv
  <2> SUFFICES ASSUME Init PROVE KeepInv
    OBVIOUS
  <2>1. OneForEach /\ OldAreListed
    BY IdleType DEF Init, OneForEach, OldAreListed, Acquiring, At
  <2> QED BY <2>1, TypeInitial DEF KeepInv
<1>2. KeepInv /\ [Next]_vars => KeepInv'
  BY TypeInductive, OneForEachKept, ListsInductive DEF KeepInv
<1>3. KeepInv => WalletKeepsOne
  BY DEF KeepInv, OldAreListed, WalletKeepsOne
<1> QED BY <1>1, <1>2, <1>3, PTL DEF Spec

-----------------------------------------------------------------------------
(* The ids in the pool, for as long as no timer is torn from its id.       *)

\* A thread has an id in hand between the set and the id's timer.
InHand(p) == thread[p].step \in {"claim", "setTimer"}
Outside(p) == thread[p].step \notin {"append", "drop"}

\* Releases exclude each other.
MutexInv == \A p \in Threads : thread[p].step \in {"sweep", "append", "drop"} => checkMu = p

OneTimerEach == \A k, l \in Live : k[2] = l[2] => k = l

TimedAreApart ==
    \A k \in Live : k[2] \notin free /\ \A p \in Threads : InHand(p) => thread[p].id # k[2]

InHandAreApart ==
    \A p \in Threads : InHand(p) =>
        /\ thread[p].id \notin free
        /\ \A q \in Threads \ {p} : InHand(q) => thread[q].id # thread[p].id

\* The id that a release is about to add to the set has no timer but the one that
\* the release has read, and is not there yet.
AddedAreApart ==
    \A p \in Threads : At(p, "append") =>
        /\ thread[p].key[2] \notin free
        /\ \A q \in Threads : InHand(q) => thread[q].id # thread[p].key[2]
        /\ \A k \in Live : k[2] = thread[p].key[2] => k = thread[p].key

PoolInv == OneTimerEach /\ TimedAreApart /\ InHandAreApart /\ AddedAreApart

LEMMA LiveIs ==
    /\ \A k : k \in Live <=>
         k \in DOMAIN timer /\ \A p \in Threads : thread[p].step = "drop" => thread[p].key # k
    /\ \A k : k \in Live' <=>
         k \in DOMAIN timer' /\ \A p \in Threads : thread'[p].step = "drop" => thread'[p].key # k
<1>1. \A k : k \in Live <=>
         k \in DOMAIN timer /\ \A p \in Threads : thread[p].step = "drop" => thread[p].key # k
  BY DEF Live, At
<1>2. \A k : k \in Live' <=>
         k \in DOMAIN timer' /\ \A p \in Threads : thread'[p].step = "drop" => thread'[p].key # k
  BY DEF Live, At
<1> QED BY <1>1, <1>2

(* The effects that steps have on the ids.                                 *)

SameKeys == DOMAIN timer' = DOMAIN timer
OnlyOf(p) == UNCHANGED minted /\ \A q \in Threads \ {p} : thread'[q] = thread[q]

Still ==
    /\ UNCHANGED <<free, thread>> /\ SameKeys
    /\ UNCHANGED minted \/ \E id \in Ids \ minted : minted' = minted \cup {id}
Stop ==
    /\ UNCHANGED <<free, minted>> /\ SameKeys
    /\ \A p \in Threads : thread'[p] = Idle /\ (At(p, "drop") => thread[p].key \notin DOMAIN timer)
Quiet(p) ==
    /\ OnlyOf(p) /\ UNCHANGED free /\ SameKeys
    /\ Outside(p) /\ Outside(p)'
    /\ InHand(p)' => InHand(p) /\ thread'[p].id = thread[p].id
Pop(p) ==
    /\ OnlyOf(p) /\ SameKeys
    /\ Outside(p) /\ Outside(p)' /\ ~InHand(p) /\ InHand(p)'
    /\ thread'[p].id \in free /\ free' = free \ {thread'[p].id}
Get(p) ==
    /\ OnlyOf(p) /\ UNCHANGED free
    /\ Outside(p) /\ Outside(p)' /\ InHand(p) /\ ~InHand(p)'
    /\ thread[p].id \in Ids /\ thread[p].wallet \in Wallets
    /\ DOMAIN timer' = DOMAIN timer \cup {OwnKey(p)}
Find(p) ==
    /\ OnlyOf(p) /\ UNCHANGED free /\ SameKeys
    /\ At(p, "sweep") /\ thread'[p].step = "append" /\ thread'[p].key \in DOMAIN timer
Add(p) ==
    /\ OnlyOf(p) /\ SameKeys
    /\ At(p, "append") /\ thread'[p].step = "drop" /\ thread'[p].key = thread[p].key
    /\ free' = free \cup {thread[p].key[2]}
Drop(p) ==
    /\ OnlyOf(p) /\ UNCHANGED free
    /\ At(p, "drop") /\ Outside(p)' /\ ~InHand(p)'
    /\ DOMAIN timer' = DOMAIN timer \ {thread[p].key}
Take(p) ==
    /\ OnlyOf(p) /\ UNCHANGED free
    /\ Outside(p) /\ Outside(p)' /\ ~InHand(p) /\ ~InHand(p)'
    /\ thread[p].key[2] \in minted
    /\ DOMAIN timer' = DOMAIN timer \ {thread[p].key}
Clear(p) ==
    /\ OnlyOf(p) /\ SameKeys
    /\ Outside(p) /\ Outside(p)' /\ ~InHand(p) /\ ~InHand(p)'
    /\ \E id \in Ids : free' = free \ {id}

Effect(p) ==
    Quiet(p) \/ Pop(p) \/ Get(p) \/ Find(p) \/ Add(p) \/ Drop(p) \/ Take(p) \/ Clear(p)

LEMMA ReleaseEffects ==
    ASSUME TypeInv, NEW p \in Threads, Release(p)
    PROVE  Effect(p)
<1>l. /\ thread[p] \in Local /\ thread \in [Threads -> Local]
      /\ DOMAIN timer \subseteq Key
  BY DEF TypeInv, DataOK, Locals
<1>0. AfterRelease(p) /\ (At(p, "release") \/ At(p, "sweep")) =>
        Outside(p) /\ Outside(p)' /\ ~InHand(p)'
  BY AfterReleaseType DEF Outside, InHand, At
<1>o. \A q \in Threads \ {p} : thread'[q] = thread[q]
  BY ReleaseGoesOn DEF GoesOn
<1>1. CASE SkipRelease(p)
  <2>1. Quiet(p)
    BY <1>1, <1>0, <1>o DEF SkipRelease, Quiet, OnlyOf, SameKeys, redis, chain
  <2> QED BY <2>1 DEF Effect
<1>2. CASE BeginRelease(p)
  <2>1. thread'[p].step = "sweep" /\ At(p, "release")
    BY <1>2, <1>l DEF BeginRelease, Local
  <2>2. Quiet(p)
    BY <1>2, <1>o, <2>1 DEF BeginRelease, Quiet, OnlyOf, SameKeys, Outside, InHand, At, redis, chain
  <2> QED BY <2>2 DEF Effect
<1>3. CASE EndRelease(p)
  <2>1. Quiet(p)
    BY <1>3, <1>0, <1>o DEF EndRelease, Quiet, OnlyOf, SameKeys, redis, chain
  <2> QED BY <2>1 DEF Effect
<1>4. CASE AppendTokenId(p)
  <2>1. thread'[p].step = "drop" /\ thread'[p].key = thread[p].key
    BY <1>4, <1>l DEF AppendTokenId, Goto, Local
  <2>2. Add(p)
    BY <1>4, <1>o, <2>1 DEF AppendTokenId, Add, OnlyOf, SameKeys, chain
  <2> QED BY <2>2 DEF Effect
<1>5. CASE DropTimer(p)
  <2>1. thread'[p].step = "sweep"
    BY <1>5, <1>l DEF DropTimer, Local
  <2>2. Drop(p)
    BY <1>5, <1>o, <2>1, DelTimers DEF DropTimer, Drop, OnlyOf, Outside, InHand, chain
  <2> QED BY <2>2 DEF Effect
<1>6. CASE \E key \in thread[p].keys : Sweep(p, key)
  <2> PICK key \in thread[p].keys : Sweep(p, key)
    BY <1>6
  <2>1. At(p, "sweep") /\ UNCHANGED <<free, timer, minted>>
    BY DEF Sweep, redis, chain
  <2>2. CASE key \in DOMAIN timer /\ timer[key] > TokenIdTTL
    <3>1. thread' = [thread EXCEPT ![p].step = "append", ![p].key = key, ![p].keys = @ \ {key}]
      BY <2>2 DEF Sweep
    <3>2. thread'[p].step = "append" /\ thread'[p].key = key
      BY <1>l, <3>1 DEF Local
    <3>3. Find(p)
      BY <1>o, <2>1, <2>2, <3>2 DEF Find, OnlyOf, SameKeys
    <3> QED BY <3>3 DEF Effect
  <2>3. CASE ~(key \in DOMAIN timer /\ timer[key] > TokenIdTTL)
    <3>1. thread'[p].step = "sweep"
      BY <1>l, <2>1, <2>3 DEF Sweep, Local, At
    <3>2. Quiet(p)
      BY <1>o, <2>1, <3>1 DEF Quiet, OnlyOf, SameKeys, Outside, InHand, At
    <3> QED BY <3>2 DEF Effect
  <2> QED BY <2>2, <2>3
<1> QED BY <1>1, <1>2, <1>3, <1>4, <1>5, <1>6 DEF Release

LEMMA AcquireEffects ==
    ASSUME TypeInv, NEW p \in Threads, Acquire(p), ~Resurrected(p)
    PROVE  Effect(p)
<1>l. thread[p] \in Local /\ thread \in [Threads -> Local] /\ thread[p] \in Locals(minted)
  BY DEF TypeInv, Locals
<1>o. \A q \in Threads \ {p} : thread'[q] = thread[q]
  BY AcquireGoesOn DEF GoesOn
<1>m. UNCHANGED minted
  BY DEF Acquire, LookupLast, AnswerFresh, CountFree, PopRandom, Claim, SetTimer, SetLast,
      ListOld, ResetOld, chain
<1>0. Return(p) => Outside(p)' /\ ~InHand(p)'
  BY <1>l, IdleType DEF Return, Outside, InHand, Local
<1>1. CASE LookupLast(p) \/ AnswerFresh(p) \/ CountFree(p)
  <2>1. Outside(p) /\ Outside(p)' /\ ~InHand(p)'
    BY <1>0, <1>1, <1>l DEF LookupLast, AnswerFresh, CountFree, Goto, Outside, InHand, Local, At
  <2>2. Quiet(p)
    BY <1>1, <1>o, <1>m, <2>1 DEF
        LookupLast, AnswerFresh, CountFree, Quiet, OnlyOf, SameKeys, redis
  <2> QED BY <2>2 DEF Effect
<1>4. CASE PopRandom(p)
  <2>1. CASE Return(p) /\ UNCHANGED free
    <3>1. Quiet(p)
      BY <1>0, <1>4, <1>o, <1>m, <2>1 DEF PopRandom, Quiet, OnlyOf, SameKeys, Outside, At
    <3> QED BY <3>1 DEF Effect
  <2>2. ASSUME NEW id \in free, free' = free \ {id},
               thread' = [thread EXCEPT ![p].step = "claim", ![p].id = id]
        PROVE  Effect(p)
    <3>1. thread'[p].step = "claim" /\ thread'[p].id = id
      BY <1>l, <2>2 DEF Local
    <3>2. Pop(p)
      BY <1>4, <1>o, <1>m, <2>2, <3>1 DEF PopRandom, Pop, OnlyOf, SameKeys, Outside, InHand, At
    <3> QED BY <3>2 DEF Effect
  <2> QED BY <1>4, <2>1, <2>2 DEF PopRandom
<1>5. CASE Claim(p)
  <2>1. Outside(p) /\ Outside(p)' /\ InHand(p) /\ (InHand(p)' => thread'[p].id = thread[p].id)
    BY <1>0, <1>5, <1>l DEF Claim, Goto, Outside, InHand, Local, At
  <2>2. Quiet(p)
    BY <1>5, <1>o, <1>m, <2>1 DEF Claim, Quiet, OnlyOf, SameKeys, redis
  <2> QED BY <2>2 DEF Effect
<1>6. CASE SetTimer(p)
  <2>1. /\ thread[p].step \in {"setTimer", "setAgain"}
        /\ thread'[p].step = "setLast"
        /\ DOMAIN timer' = DOMAIN timer \cup {OwnKey(p)}
        /\ UNCHANGED free
    BY <1>6, <1>l, SetTimers DEF SetTimer, Goto, Local, At
  <2>2. Outside(p) /\ Outside(p)' /\ ~InHand(p)'
    BY <2>1 DEF Outside, InHand
  <2>3. CASE At(p, "setTimer")
    <3>1. Get(p)
      BY <1>l, <1>o, <1>m, <2>1, <2>2, <2>3 DEF Get, OnlyOf, InHand, At, Locals, IdSteps, Local
    <3> QED BY <3>1 DEF Effect
  <2>4. CASE At(p, "setAgain")
    <3>1. SameKeys
      BY <2>1, <2>4 DEF Resurrected, SameKeys, At
    <3>2. Quiet(p)
      BY <1>o, <1>m, <2>1, <2>2, <3>1 DEF Quiet, OnlyOf
    <3> QED BY <3>2 DEF Effect
  <2> QED BY <2>1, <2>3, <2>4 DEF At
<1>7. CASE SetLast(p) \/ ListOld(p)
  <2>1. Outside(p) /\ Outside(p)' /\ ~InHand(p)'
    BY <1>7, <1>l DEF SetLast, ListOld, Goto, Outside, InHand, Local, At
  <2>2. Quiet(p)
    BY <1>7, <1>o, <1>m, <2>1 DEF SetLast, ListOld, Quiet, OnlyOf, SameKeys, redis
  <2> QED BY <2>2 DEF Effect
<1>9. CASE ResetOld(p)
  <2>0. At(p, "resetOld") /\ UNCHANGED free
    BY <1>9 DEF ResetOld
  <2>1. CASE Return(p) /\ UNCHANGED timer
    <3>1. Quiet(p)
      BY <1>0, <1>o, <1>m, <2>0, <2>1 DEF Quiet, OnlyOf, SameKeys, Outside, At
    <3> QED BY <3>1 DEF Effect
  <2>2. ASSUME NEW key \in thread[p].keys, Set(key, Expired),
               thread' = [thread EXCEPT ![p].keys = @ \ {key}]
        PROVE  Effect(p)
    <3>1. thread'[p].step = "resetOld" /\ thread'[p].keys = thread[p].keys \ {key}
      BY <1>l, <2>0, <2>2 DEF Local, At
    <3>2. SameKeys
      BY <2>0, <2>2, <3>1 DEF Resurrected, SameKeys
    <3>3. Quiet(p)
      BY <1>o, <1>m, <2>0, <3>1, <3>2 DEF Quiet, OnlyOf, Outside, InHand, At
    <3> QED BY <3>3 DEF Effect
  <2> QED BY <1>9, <2>1, <2>2 DEF ResetOld
<1> QED BY <1>1, <1>4, <1>5, <1>6, <1>7, <1>9 DEF Acquire

LEMMA DeleteEffects ==
    ASSUME TypeInv, NEW p \in Threads, Delete(p)
    PROVE  Effect(p)
<1>l. thread[p] \in Local /\ thread \in [Threads -> Local] /\ thread[p] \in Locals(minted)
  BY DEF TypeInv, Locals
<1>o. \A q \in Threads \ {p} : thread'[q] = thread[q]
  BY DeleteGoesOn DEF GoesOn
<1>1. CASE DeleteTimer(p)
  <2>1. At(p, "delTimer") /\ thread'[p].step = "delLookup"
    BY <1>1, <1>l DEF DeleteTimer, Goto, Local
  <2>2. thread[p].key[2] \in minted
    BY <1>l, <2>1 DEF Locals, DeleteSteps, At
  <2>3. Take(p)
    BY <1>1, <1>o, <2>1, <2>2, DelTimers DEF
        DeleteTimer, Take, OnlyOf, Outside, InHand, At, chain
  <2> QED BY <2>3 DEF Effect
<1>2. CASE LookupHolder(p) \/ DeleteLast(p)
  <2>1. Outside(p) /\ Outside(p)' /\ ~InHand(p)'
    BY <1>2, <1>l DEF LookupHolder, DeleteLast, Goto, Outside, InHand, Local, At
  <2>2. Quiet(p)
    BY <1>2, <1>o, <2>1 DEF LookupHolder, DeleteLast, Quiet, OnlyOf, SameKeys, redis, chain
  <2> QED BY <2>2 DEF Effect
<1>3. CASE DeleteFromSet(p)
  <2>1. At(p, "delFromSet") /\ thread'[p].step = "idle" /\ thread[p].id \in Ids
    BY <1>3, <1>l, IdleType DEF DeleteFromSet, Return, Locals, IdSteps, DeleteSteps, At
  <2>2. Clear(p)
    BY <1>3, <1>o, <2>1 DEF DeleteFromSet, Clear, OnlyOf, SameKeys, Outside, InHand, At
  <2> QED BY <2>2 DEF Effect
<1> QED BY <1>1, <1>2, <1>3 DEF Delete

LEMMA FaultEffects ==
    ASSUME TypeInv, NEW p \in Threads, AcquireFails(p) \/ DeleteFails(p) \/ ReleaseFails(p),
           ~HalfReleased(p)
    PROVE  Effect(p) \/ Still
<1>l. /\ thread[p] \in Local /\ thread \in [Threads -> Local] /\ thread[p] \in Locals(minted)
      /\ free \subseteq Ids
  BY DEF TypeInv, DataOK, Locals
<1>o. /\ UNCHANGED redis
      /\ UNCHANGED thread \/ \A q \in Threads \ {p} : thread'[q] = thread[q]
  BY FaultGoesOn DEF GoesOn
<1>m. UNCHANGED minted
  BY DEF AcquireFails, Retry, Abandon, CountFails, ClaimFails, DeleteFails, ReleaseFails, chain
<1>r. UNCHANGED free /\ SameKeys
  BY <1>o DEF redis, SameKeys
<1>0. Return(p) => Outside(p)' /\ ~InHand(p)'
  BY <1>l, IdleType DEF Return, Outside, InHand, Local
<1>q. ASSUME Outside(p), Outside(p)', InHand(p)' => InHand(p) /\ thread'[p].id = thread[p].id
      PROVE  Effect(p)
  BY <1>o, <1>m, <1>r, <1>q DEF Effect, Quiet, OnlyOf
<1>1. CASE Retry(p)
  <2>1. /\ Outside(p) /\ Outside(p)'
        /\ InHand(p)' => InHand(p) /\ thread'[p].id = thread[p].id
    BY <1>1, <1>l DEF Retry, RetriedSteps, Outside, InHand, Local
  <2> QED BY <1>q, <2>1
<1>2. CASE Abandon(p) \/ CountFails(p)
  <2>1. Outside(p)
    BY <1>2 DEF Abandon, CountFails, RetriedSteps, Outside, At
  <2> QED BY <1>0, <1>2, <1>q, <2>1 DEF Abandon, CountFails
<1>3. CASE ClaimFails(p)
  <2>1. Outside(p) /\ Outside(p)' /\ InHand(p) /\ thread'[p].id = thread[p].id
    BY <1>3, <1>l DEF ClaimFails, Goto, Outside, InHand, Local, At
  <2> QED BY <1>q, <2>1
<1>4. CASE DeleteFails(p)
  <2>1. CASE UNCHANGED thread
    BY <1>m, <1>r, <2>1 DEF Still
  <2>2. CASE At(p, "delTimer") /\ Goto(p, "delLookup")
    <3>1. Outside(p) /\ Outside(p)' /\ ~InHand(p)'
      BY <1>l, <2>2 DEF Goto, Outside, InHand, Local, At
    <3> QED BY <1>q, <3>1
  <2>3. CASE thread[p].step \in DeleteSteps /\ Return(p)
    BY <1>0, <1>q, <2>3 DEF Outside, DeleteSteps
  <2> QED BY <1>4, <2>1, <2>2, <2>3 DEF DeleteFails
<1>5. CASE ReleaseFails(p)
  <2>1. CASE At(p, "release") /\ AfterRelease(p)
    <3>1. Outside(p) /\ Outside(p)' /\ ~InHand(p)'
      BY <2>1, AfterReleaseType DEF Outside, InHand, At
    <3> QED BY <1>q, <3>1
  <2>2. ASSUME NEW key, At(p, "sweep"),
               thread' = [thread EXCEPT ![p].keys = @ \ {key}, ![p].failed = TRUE]
        PROVE  Effect(p)
    <3>1. Outside(p) /\ Outside(p)' /\ ~InHand(p)'
      BY <1>l, <2>2 DEF Outside, InHand, Local, At
    <3> QED BY <1>q, <3>1
  <2>3. CASE At(p, "append") /\ Goto(p, "drop")
    <3>1. thread'[p].step = "drop" /\ thread'[p].key = thread[p].key
      BY <1>l, <2>3 DEF Goto, Local
    <3>2. free' = free \cup {thread[p].key[2]}
      BY <1>r, <2>3, <3>1 DEF HalfReleased
    <3>3. \A q \in Threads \ {p} : thread'[q] = thread[q]
      BY <1>o
    <3>4. Add(p)
      BY <1>m, <1>r, <2>3, <3>1, <3>2, <3>3 DEF Add, OnlyOf
    <3> QED BY <3>4 DEF Effect
  <2>4. CASE /\ At(p, "drop")
             /\ thread' = [thread EXCEPT ![p].step = "sweep", ![p].key = NoKey, ![p].failed = TRUE]
    <3>1. thread'[p].step = "sweep"
      BY <1>l, <2>4 DEF Local
    <3>2. DOMAIN timer' = DOMAIN timer \ {thread[p].key}
      BY <1>r, <2>4, <3>1 DEF HalfReleased, SameKeys
    <3>3. \A q \in Threads \ {p} : thread'[q] = thread[q]
      BY <1>o
    <3>4. Drop(p)
      BY <1>m, <1>r, <2>4, <3>1, <3>2, <3>3 DEF Drop, OnlyOf, Outside, InHand
    <3> QED BY <3>4 DEF Effect
  <2> QED BY <1>5, <2>1, <2>2, <2>3, <2>4 DEF ReleaseFails
<1> QED BY <1>1, <1>2, <1>3, <1>4, <1>5 DEF AcquireFails

\* As long as nothing is torn, these are all the effects there are.
LEMMA Effects ==
    ASSUME TypeInv, [Next]_vars, ~torn'
    PROVE  Still \/ Stop \/ \E p \in Threads : Effect(p)
<1>0. CASE UNCHANGED vars
  BY <1>0 DEF vars, redis, chain, Still, SameKeys
<1>t. ASSUME Next
      PROVE  \A p \in Threads : ~HalfReleased(p) /\ ~Resurrected(p)
  BY <1>t DEF Next, Record, Tears
<1>1. ASSUME Next, NEW p \in Threads, Step(p)
      PROVE  Effect(p)
  BY <1>1, <1>t, ReleaseEffects, AcquireEffects, DeleteEffects DEF Step
<1>2. ASSUME Next, NEW p \in Threads, AcquireFails(p) \/ DeleteFails(p) \/ ReleaseFails(p)
      PROVE  Effect(p) \/ Still
  BY <1>2, <1>t, FaultEffects
<1>3. ASSUME NEW p \in Threads,
             \/ \E w \in Wallets : StartAcquire(p, w)
             \/ StartCount(p) \/ StartOther(p)
             \/ \E id \in Ids : StartDelete(p, id)
      PROVE  Effect(p)
  <2>1. /\ UNCHANGED redis /\ At(p, "idle")
        /\ thread'[p].step \in {"release", "delTimer", "delFromSet"}
        /\ \A q \in Threads \ {p} : thread'[q] = thread[q]
    BY <1>3, Starts
  <2>2. UNCHANGED minted
    BY <1>3 DEF StartAcquire, StartCount, StartOther, StartRequest, StartDelete, chain
  <2>3. Quiet(p)
    BY <2>1, <2>2 DEF Quiet, OnlyOf, SameKeys, Outside, InHand, At, redis
  <2> QED BY <2>3 DEF Effect
<1>4. ASSUME Next, Crash
      PROVE  Stop
  <2>1. \A p \in Threads : thread'[p] = Idle
    BY <1>4 DEF Crash
  <2>2. UNCHANGED <<free, minted, timer>>
    BY <1>4 DEF Crash, redis, chain
  <2>3. \A p \in Threads : At(p, "drop") => thread[p].key \notin DOMAIN timer
    BY <1>4, <1>t, <2>1, <2>2, IdleType DEF HalfReleased
  <2> QED BY <2>1, <2>2, <2>3 DEF Stop, SameKeys
<1>5. CASE Tick \/ \E id \in Ids : MintOnChain(id)
  BY <1>5 DEF Tick, MintOnChain, Still, SameKeys, redis, chain
<1> QED BY <1>0, <1>1, <1>2, <1>3, <1>4, <1>5 DEF Next, Fault

(* Every step keeps the pool's ids apart.                                  *)

LEMMA MutexKept ==
    ASSUME TypeInv, MutexInv, [Next]_vars
    PROVE  MutexInv'
<1> DEFINE In(p) == thread[p].step \in {"sweep", "append", "drop"}
<1>t. thread \in [Threads -> Local]
  BY DEF TypeInv, Locals
<1>0. ASSUME NEW p \in Threads, UNCHANGED checkMu, In(p)' => In(p),
             \A q \in Threads \ {p} : thread'[q] = thread[q]
      PROVE  MutexInv'
  BY <1>0 DEF MutexInv
<1>u. UNCHANGED <<thread, checkMu>> => MutexInv'
  BY DEF MutexInv
<1>1. ASSUME NEW p \in Threads, Release(p)
      PROVE  MutexInv'
  <2>l. thread[p] \in Local /\ \A q \in Threads \ {p} : thread'[q] = thread[q]
    BY <1>t, <1>1, ReleaseGoesOn DEF GoesOn
  <2>1. CASE SkipRelease(p)
    BY <1>0, <2>1, <2>l, AfterReleaseType DEF SkipRelease, process
  <2>2. CASE BeginRelease(p)
    <3>1. checkMu = NoThread /\ checkMu' = p
      BY <2>2 DEF BeginRelease
    <3> QED BY <2>l, <3>1, SequencerAssumption DEF MutexInv
  <2>3. CASE EndRelease(p)
    <3>1. In(p) /\ ~In(p)'
      BY <2>3, AfterReleaseType DEF EndRelease, At
    <3>2. \A q \in Threads : In(q) => q = p
      BY <3>1 DEF MutexInv
    <3> QED BY <2>l, <3>1, <3>2 DEF MutexInv
  <2>4. CASE AppendTokenId(p) \/ DropTimer(p) \/ \E key \in thread[p].keys : Sweep(p, key)
    <3>1. In(p) /\ UNCHANGED checkMu
      BY <2>4 DEF AppendTokenId, DropTimer, Sweep, At, process
    <3> QED BY <1>0, <2>l, <3>1
  <2> QED BY <1>1, <2>1, <2>2, <2>3, <2>4 DEF Release
<1>2. ASSUME NEW p \in Threads, Acquire(p)
      PROVE  MutexInv'
  <2>l. thread[p] \in Local /\ \A q \in Threads \ {p} : thread'[q] = thread[q]
    BY <1>t, <1>2, AcquireGoesOn DEF GoesOn
  <2>0. Return(p) => ~In(p)'
    BY <1>t, IdleType DEF Return
  <2>1. UNCHANGED checkMu
    BY <1>2 DEF Acquire, LookupLast, AnswerFresh, CountFree, PopRandom, Claim, SetTimer,
        SetLast, ListOld, ResetOld, process
  <2>2. CASE LookupLast(p) \/ AnswerFresh(p) \/ CountFree(p) \/ PopRandom(p) \/ Claim(p)
    <3>1. ~In(p)'
      BY <1>t, <2>l, <2>0, <2>2 DEF LookupLast, AnswerFresh, CountFree, PopRandom, Claim, Goto, Local
    <3> QED BY <1>0, <2>l, <2>1, <3>1
  <2>3. CASE SetTimer(p) \/ SetLast(p) \/ ListOld(p) \/ ResetOld(p)
    <3>1. ~In(p)'
      BY <1>t, <2>l, <2>0, <2>3 DEF SetTimer, SetLast, ListOld, ResetOld, Goto, Local, At
    <3> QED BY <1>0, <2>l, <2>1, <3>1
  <2> QED BY <1>2, <2>2, <2>3 DEF Acquire
<1>3. ASSUME NEW p \in Threads, Delete(p)
      PROVE  MutexInv'
  <2>l. thread[p] \in Local /\ \A q \in Threads \ {p} : thread'[q] = thread[q]
    BY <1>t, <1>3, DeleteGoesOn DEF GoesOn
  <2>1. UNCHANGED checkMu /\ ~In(p)'
    BY <1>3, <1>t, <2>l, IdleType DEF
        Delete, DeleteTimer, LookupHolder, DeleteLast, DeleteFromSet, Goto, Return, Local, process
  <2> QED BY <1>0, <2>l, <2>1
<1>4. ASSUME NEW p \in Threads, AcquireFails(p) \/ DeleteFails(p) \/ ReleaseFails(p)
      PROVE  MutexInv'
  <2>l. thread[p] \in Local
    BY <1>t
  <2>1. UNCHANGED checkMu
    BY <1>4 DEF AcquireFails, Retry, Abandon, CountFails, ClaimFails, DeleteFails,
        ReleaseFails, process
  <2>2. CASE UNCHANGED thread
    BY <1>u, <2>1, <2>2
  <2>3. CASE GoesOn(p)
    <3>0. Return(p) => ~In(p)'
      BY <1>t, IdleType DEF Return
    <3>1. Retry(p) \/ Abandon(p) \/ CountFails(p) \/ ClaimFails(p) => ~In(p)'
      BY <1>t, <2>l, <3>0 DEF Retry, RetriedSteps, Abandon, CountFails, ClaimFails, Goto, Local, At
    <3>2. DeleteFails(p) => UNCHANGED thread \/ ~In(p)'
      BY <1>t, <2>l, <3>0 DEF DeleteFails, Goto, Local
    <3>3. ReleaseFails(p) => In(p) \/ ~In(p)'
      BY AfterReleaseType DEF ReleaseFails, At
    <3> QED BY <1>0, <1>4, <1>u, <2>1, <2>3, <3>1, <3>2, <3>3 DEF GoesOn, AcquireFails
  <2> QED BY <1>4, <2>2, <2>3, FaultGoesOn
<1>5. ASSUME NEW p \in Threads,
             \/ \E w \in Wallets : StartAcquire(p, w)
             \/ StartCount(p) \/ StartOther(p)
             \/ \E id \in Ids : StartDelete(p, id)
      PROVE  MutexInv'
  <2>1. ~In(p)' /\ \A q \in Threads \ {p} : thread'[q] = thread[q]
    BY <1>5, Starts
  <2>2. UNCHANGED checkMu
    BY <1>5 DEF StartAcquire, StartCount, StartOther, StartRequest, StartDelete, process
  <2> QED BY <1>0, <2>1, <2>2
<1>6. CASE Crash
  BY <1>6, IdleType DEF Crash, MutexInv
<1>7. CASE Tick \/ (\E id \in Ids : MintOnChain(id)) \/ UNCHANGED vars
  BY <1>7, <1>u DEF Tick, MintOnChain, vars, process
<1> QED BY <1>1, <1>2, <1>3, <1>4, <1>5, <1>6, <1>7 DEF Next, Fault, Step

\* What the effects make of the live timers.
LEMMA LiveAfter ==
    /\ Still \/ Stop => Live' = Live
    /\ \A p \in Threads :
         /\ Quiet(p) \/ Pop(p) \/ Find(p) \/ Drop(p) \/ Clear(p) => Live' = Live
         /\ Get(p) => Live' = Live \/ Live' = Live \cup {OwnKey(p)}
         /\ Add(p) \/ Take(p) => Live' = Live \ {thread[p].key}
<1>1. Still => Live' = Live
  BY LiveIs DEF Still, SameKeys
<1>2. Stop => Live' = Live
  BY LiveIs, IdleType DEF Stop, SameKeys, At
<1>3. ASSUME NEW p \in Threads
      PROVE  /\ Quiet(p) \/ Pop(p) \/ Find(p) \/ Drop(p) \/ Clear(p) => Live' = Live
             /\ Get(p) => Live' = Live \/ Live' = Live \cup {OwnKey(p)}
             /\ Add(p) \/ Take(p) => Live' = Live \ {thread[p].key}
  <2>1. Quiet(p) => Live' = Live
    BY LiveIs DEF Quiet, OnlyOf, SameKeys, Outside
  <2>2. Pop(p) => Live' = Live
    <3> SUFFICES ASSUME Pop(p) PROVE Live' = Live
      OBVIOUS
    <3>1. DOMAIN timer' = DOMAIN timer
      BY DEF Pop, SameKeys
    <3>2. \A q \in Threads :
             (thread'[q].step = "drop" <=> thread[q].step = "drop")
             /\ (thread'[q].step = "drop" => thread'[q].key = thread[q].key)
      BY DEF Pop, OnlyOf, Outside
    <3>3. \A k : k \in Live' <=> k \in Live
      BY <3>1, <3>2, LiveIs
    <3> QED BY <3>3
  <2>3. Find(p) => Live' = Live
    BY LiveIs DEF Find, OnlyOf, SameKeys, At
  <2>4. Drop(p) => Live' = Live
    BY LiveIs DEF Drop, OnlyOf, Outside, At
  <2>5. Clear(p) => Live' = Live
    <3> SUFFICES ASSUME Clear(p) PROVE Live' = Live
      OBVIOUS
    <3>1. DOMAIN timer' = DOMAIN timer
      BY DEF Clear, SameKeys
    <3>2. \A q \in Threads :
             (thread'[q].step = "drop" <=> thread[q].step = "drop")
             /\ (thread'[q].step = "drop" => thread'[q].key = thread[q].key)
      BY DEF Clear, OnlyOf, Outside
    <3>3. \A k : k \in Live' <=> k \in Live
      BY <3>1, <3>2, LiveIs
    <3> QED BY <3>3
  <2>6. Get(p) => Live' = Live \/ Live' = Live \cup {OwnKey(p)}
    <3> SUFFICES ASSUME Get(p) PROVE Live' = Live \/ Live' = Live \cup {OwnKey(p)}
      OBVIOUS
    <3>1. \A k : k # OwnKey(p) => (k \in Live' <=> k \in Live)
      BY LiveIs DEF Get, OnlyOf, Outside
    <3>2. OwnKey(p) \in Live => OwnKey(p) \in Live'
      BY LiveIs DEF Get, OnlyOf, Outside
    <3> QED BY <3>1, <3>2
  <2>7. Add(p) => Live' = Live \ {thread[p].key}
    BY LiveIs DEF Add, OnlyOf, SameKeys, At
  <2>8. Take(p) => Live' = Live \ {thread[p].key}
    BY LiveIs DEF Take, OnlyOf, Outside
  <2> QED BY <2>1, <2>2, <2>3, <2>4, <2>5, <2>6, <2>7, <2>8
<1> QED BY <1>1, <1>2, <1>3

LEMMA EffectKeepsPool ==
    ASSUME PoolInv, MutexInv, NEW p \in Threads, Effect(p)
    PROVE  PoolInv'
<1>o. \A q \in Threads \ {p} : thread'[q] = thread[q]
  BY DEF Effect, Quiet, Pop, Get, Find, Add, Drop, Take, Clear, OnlyOf
<1>1. CASE Quiet(p)
  BY <1>1, <1>o, LiveAfter DEF Quiet, PoolInv, OneTimerEach, TimedAreApart, InHandAreApart,
      AddedAreApart, InHand, Outside, At
<1>2. CASE Pop(p)
  BY <1>2, <1>o, LiveAfter DEF Pop, PoolInv, OneTimerEach, TimedAreApart, InHandAreApart,
      AddedAreApart, InHand, Outside, At
<1>3. CASE Get(p)
  <2>1. Live' \subseteq Live \cup {OwnKey(p)} /\ OwnKey(p)[2] = thread[p].id
    BY <1>3, LiveAfter DEF OwnKey
  <2>2. OneTimerEach'
    BY <1>3, <2>1 DEF Get, PoolInv, OneTimerEach, TimedAreApart
  <2>3. TimedAreApart'
    BY <1>3, <1>o, <2>1 DEF Get, PoolInv, TimedAreApart, InHandAreApart, InHand
  <2>4. InHandAreApart'
    BY <1>3, <1>o DEF Get, PoolInv, InHandAreApart, InHand
  <2>5. AddedAreApart'
    BY <1>3, <1>o, <2>1 DEF Get, PoolInv, AddedAreApart, InHand, Outside, At
  <2> QED BY <2>2, <2>3, <2>4, <2>5 DEF PoolInv
<1>4. CASE Find(p)
  <2>1. \A q \in Threads \ {p} : Outside(q)
    BY <1>4 DEF Find, MutexInv, Outside, At
  <2>2. thread'[p].key \in Live /\ Live' = Live
    BY <1>4, <2>1, LiveIs, LiveAfter DEF Find, Outside, At
  <2> QED BY <1>4, <1>o, <2>1, <2>2 DEF Find, PoolInv, OneTimerEach, TimedAreApart, InHandAreApart,
      AddedAreApart, InHand, Outside, At
<1>5. CASE Add(p)
  <2>1. \A q \in Threads \ {p} : Outside(q)
    BY <1>5 DEF Add, MutexInv, Outside, At
  <2>2. Live' = Live \ {thread[p].key}
    BY <1>5, LiveAfter
  <2> QED BY <1>5, <1>o, <2>1, <2>2 DEF Add, PoolInv, OneTimerEach, TimedAreApart, InHandAreApart,
      AddedAreApart, InHand, Outside, At
<1>6. CASE Drop(p)
  BY <1>6, <1>o, LiveAfter DEF Drop, PoolInv, OneTimerEach, TimedAreApart, InHandAreApart,
      AddedAreApart, InHand, Outside, At
<1>7. CASE Take(p)
  BY <1>7, <1>o, LiveAfter DEF Take, PoolInv, OneTimerEach, TimedAreApart, InHandAreApart,
      AddedAreApart, InHand, Outside, At
<1>8. CASE Clear(p)
  BY <1>8, <1>o, LiveAfter DEF Clear, PoolInv, OneTimerEach, TimedAreApart, InHandAreApart,
      AddedAreApart, InHand, Outside, At
<1> QED BY <1>1, <1>2, <1>3, <1>4, <1>5, <1>6, <1>7, <1>8 DEF Effect

SeqInv == TypeInv /\ torn \in BOOLEAN /\ MutexInv /\ (~torn => PoolInv)

LEMMA SeqInitial == Init => SeqInv
<1> SUFFICES ASSUME Init PROVE SeqInv
  OBVIOUS
<1>1. \A p \in Threads : thread[p].step = "idle"
  BY IdleType DEF Init
<1>2. Live = {}
  <2>1. DOMAIN timer = {}
    BY DEF Init
  <2> QED BY <2>1, LiveIs
<1> QED BY <1>1, <1>2, TypeInitial DEF Init, SeqInv, MutexInv, PoolInv, OneTimerEach,
    TimedAreApart, InHandAreApart, AddedAreApart, InHand, At

LEMMA SeqInductive ==
    ASSUME SeqInv, [Next]_vars
    PROVE  SeqInv'
<1>1. torn' \in BOOLEAN /\ (~torn' => ~torn)
  BY DEF SeqInv, Next, Record, vars
<1>2. TypeInv' /\ MutexInv'
  BY TypeInductive, MutexKept DEF SeqInv
<1>3. ASSUME ~torn'
      PROVE  PoolInv'
  <2>1. TypeInv /\ MutexInv /\ PoolInv
    BY <1>1, <1>3 DEF SeqInv
  <2>2. CASE Still
    BY <2>1, <2>2, LiveAfter DEF Still, PoolInv, OneTimerEach, TimedAreApart, InHandAreApart,
        AddedAreApart, InHand, At
  <2>3. CASE Stop
    BY <2>1, <2>3, LiveAfter, IdleType DEF Stop, PoolInv, OneTimerEach, TimedAreApart,
        InHandAreApart, AddedAreApart, InHand, At
  <2> QED BY <1>3, <2>1, <2>2, <2>3, Effects, EffectKeepsPool
<1> QED BY <1>1, <1>2, <1>3 DEF SeqInv

\* An id that a request takes from the set has no timer that counts, and no other
\* request has it in hand, as long as no timer is torn from its id: any number of
\* requests, releases and deletions at a time, whatever of them fails.  What can be
\* found there is a timer that a release has still to delete.
THEOREM PoppedAreUntimed == Spec => []PoppedIsUntimed
<1>1. SeqInv => PoppedIsUntimed
  <2> SUFFICES ASSUME SeqInv, ~torn, NEW p \in Threads, thread[p].step \in {"claim", "setTimer"}
               PROVE  /\ \A w \in Wallets : <<w, thread[p].id>> \notin Live
                      /\ \A q \in Threads \ {p} :
                            thread[q].step \in {"claim", "setTimer"} => thread[q].id # thread[p].id
    BY DEF PoppedIsUntimed
  <2>1. PoolInv /\ InHand(p)
    BY DEF SeqInv, InHand
  <2> QED BY <2>1 DEF PoolInv, TimedAreApart, InHandAreApart, InHand
<1> QED BY <1>1, SeqInitial, SeqInductive, PTL DEF Spec

-----------------------------------------------------------------------------
(* The sequencer implements the pool.                                      *)

LEMMA Holders ==
    ASSUME NEW i \in Ids
    PROVE  /\ \A w \in Wallets : <<w, i>> \in Live /\ OneTimerEach => HolderOf(i) = w
           /\ (\A w \in Wallets : <<w, i>> \notin Live) =>
                HolderOf(i) = IF i \in free \/ Moving(i) THEN "free" ELSE "gone"
<1>1. ASSUME NEW w \in Wallets, <<w, i>> \in Live, OneTimerEach
      PROVE  HolderOf(i) = w
  <2>1. {v \in Wallets : <<v, i>> \in Live} = {w}
    BY <1>1 DEF OneTimerEach
  <2> QED BY <2>1, FS_Singleton DEF HolderOf
<1>2. ASSUME \A w \in Wallets : <<w, i>> \notin Live
      PROVE  HolderOf(i) = IF i \in free \/ Moving(i) THEN "free" ELSE "gone"
  <2>1. {v \in Wallets : <<v, i>> \in Live} = {}
    BY <1>2
  <2> QED BY <2>1 DEF HolderOf
<1> QED BY <1>1, <1>2

LEMMA HoldersAfter ==
    ASSUME NEW i \in Ids
    PROVE  /\ \A w \in Wallets : <<w, i>> \in Live' /\ OneTimerEach' => HolderOf(i)' = w
           /\ (\A w \in Wallets : <<w, i>> \notin Live') =>
                HolderOf(i)' = IF i \in free' \/ Moving(i)' THEN "free" ELSE "gone"
<1>1. ASSUME NEW w \in Wallets, <<w, i>> \in Live', OneTimerEach'
      PROVE  HolderOf(i)' = w
  <2>1. {v \in Wallets : <<v, i>> \in Live'} = {w}
    BY <1>1 DEF OneTimerEach
  <2> QED BY <2>1, FS_Singleton DEF HolderOf
<1>2. ASSUME \A w \in Wallets : <<w, i>> \notin Live'
      PROVE  HolderOf(i)' = IF i \in free' \/ Moving(i)' THEN "free" ELSE "gone"
  <2>1. {v \in Wallets : <<v, i>> \in Live'} = {}
    BY <1>2
  <2> QED BY <2>1 DEF HolderOf
<1> QED BY <1>1, <1>2

Available(i) == i \in free \/ Moving(i)

\* An id whose timers stay keeps its holder, or is lost if it was free.
LEMMA SameTimers ==
    ASSUME OneTimerEach, OneTimerEach', NEW i \in Ids,
           \A w \in Wallets : <<w, i>> \in Live' <=> <<w, i>> \in Live,
           Available(i)' => Available(i) \/ \E w \in Wallets : <<w, i>> \in Live
    PROVE  /\ HolderOf(i)' = HolderOf(i) \/ (HolderOf(i) = "free" /\ HolderOf(i)' = "gone")
           /\ (Available(i)' <=> Available(i)) => HolderOf(i)' = HolderOf(i)
<1>1. CASE \E w \in Wallets : <<w, i>> \in Live
  BY <1>1, Holders, HoldersAfter
<1>2. CASE \A w \in Wallets : <<w, i>> \notin Live
  BY <1>2, Holders, HoldersAfter DEF Available
<1> QED BY <1>1, <1>2

\* When all timers stay, ids are lost or nothing happens.
LEMMA Losing ==
    ASSUME OneTimerEach, OneTimerEach', Live' = Live, UNCHANGED <<minted, torn>>,
           \A i \in Ids : Available(i)' => Available(i) \/ \E w \in Wallets : <<w, i>> \in Live
    PROVE  Pool!PoolNext
<1> DEFINE lost == {i \in Ids : HolderOf(i) = "free" /\ HolderOf(i)' = "gone"}
<1>1. [i \in Ids |-> HolderOf(i)]' = [i \in Ids |-> HolderOf(i)']
  OBVIOUS
<1>2. \A i \in Ids : HolderOf(i)' = IF i \in lost THEN "gone" ELSE HolderOf(i)
  BY SameTimers
<1>3. lost \in SUBSET {i \in Ids : [j \in Ids |-> HolderOf(j)][i] = "free"}
  OBVIOUS
<1>4. [i \in Ids |-> HolderOf(i)]' =
        [i \in Ids |-> IF i \in lost THEN "gone" ELSE [j \in Ids |-> HolderOf(j)][i]]
  BY <1>2
<1> QED BY <1>3, <1>4 DEF Pool!PoolNext, Pool!Lose

\* One id changes hands.
LEMMA Moves ==
    ASSUME NEW i \in Ids, NEW from, NEW to,
           HolderOf(i) \in from, HolderOf(i)' = to,
           \A j \in Ids \ {i} : HolderOf(j)' = HolderOf(j),
           UNCHANGED <<minted, torn>>
    PROVE  Pool!Move(i, from, to)
<1>1. [j \in Ids |-> HolderOf(j)][i] = HolderOf(i)
  OBVIOUS
<1>2. [j \in Ids |-> HolderOf(j)]' = [[j \in Ids |-> HolderOf(j)] EXCEPT ![i] = to]
  OBVIOUS
<1> QED BY <1>1, <1>2 DEF Pool!Move

\* What a step makes available of the ids.
LEMMA AvailableAfter ==
    ASSUME TypeInv, NEW p \in Threads, OnlyOf(p), NEW i \in Ids
    PROVE  /\ Outside(p) /\ Outside(p)' /\ (InHand(p)' => InHand(p) /\ thread'[p].id = thread[p].id) =>
                (Moving(i)' => Moving(i))
           /\ Outside(p) /\ Outside(p)' /\ ~InHand(p) /\ ~InHand(p)' => (Moving(i)' <=> Moving(i))
<1>1. \A q \in Threads \ {p} : thread'[q] = thread[q]
  BY DEF OnlyOf
<1>2. ASSUME Outside(p), Outside(p)', InHand(p)' => InHand(p) /\ thread'[p].id = thread[p].id
      PROVE  Moving(i)' => Moving(i)
  BY <1>1, <1>2 DEF Outside, InHand, Moving, At
<1>3. ASSUME Outside(p), Outside(p)', ~InHand(p), ~InHand(p)'
      PROVE  Moving(i) => Moving(i)'
  BY <1>1, <1>3 DEF Outside, InHand, Moving, At
<1> QED BY <1>2, <1>3

LEMMA EffectRefines ==
    ASSUME TypeInv, PoolInv, PoolInv', MutexInv, UNCHANGED torn, NEW p \in Threads, Effect(p)
    PROVE  Pool!PoolNext \/ UNCHANGED Pool!poolVars
<1>p. OneTimerEach /\ OneTimerEach'
  BY DEF PoolInv
<1>m. UNCHANGED minted /\ OnlyOf(p)
  BY DEF Effect, Quiet, Pop, Get, Find, Add, Drop, Take, Clear, OnlyOf
<1>k. Live \subseteq Key /\ free \subseteq Ids
  BY LiveIs DEF TypeInv, DataOK
<1>1. CASE Quiet(p)
  <2>1. \A i \in Ids : Available(i)' => Available(i)
    BY <1>1, <1>m, AvailableAfter DEF Quiet, Available
  <2> QED BY <1>1, <1>m, <1>p, <2>1, LiveAfter, Losing
<1>2. CASE Pop(p)
  <2>1. \A i \in Ids : Available(i)' => Available(i)
    BY <1>2, <1>m DEF Pop, OnlyOf, Available, Moving, Outside, InHand, At
  <2> QED BY <1>2, <1>m, <1>p, <2>1, LiveAfter, Losing
<1>3. CASE Get(p)
  <2>1. \A i \in Ids : Available(i)' => Available(i)
    BY <1>3, <1>m, AvailableAfter DEF Get, Available
  <2>2. CASE Live' = Live
    BY <1>m, <1>p, <2>1, <2>2, Losing
  <2>3. CASE Live' = Live \cup {OwnKey(p)}
    <3> PICK i \in Ids, w \in Wallets : i = thread[p].id /\ w = thread[p].wallet
      BY <1>3 DEF Get
    <3>1. OwnKey(p) = <<w, i>>
      BY DEF OwnKey
    <3>2. \A v \in Wallets : <<v, i>> \notin Live
      BY <1>3 DEF Get, PoolInv, TimedAreApart
    <3>3. HolderOf(i) = "free"
      <4>1. Moving(i)
        BY <1>3 DEF Get, InHand, Moving
      <4> QED BY <3>1, <3>2, <4>1, Holders
    <3>4. HolderOf(i)' = w
      BY <1>p, <2>3, <3>1, HoldersAfter
    <3>5. ASSUME NEW j \in Ids \ {i}
          PROVE  HolderOf(j)' = HolderOf(j)
      <4>1. \A v \in Wallets : <<v, j>> \in Live' <=> <<v, j>> \in Live
        BY <2>3, <3>1
      <4>2. Available(j)' <=> Available(j)
        BY <1>3 DEF Get, OnlyOf, Available, Moving, Outside, InHand, At
      <4> QED BY <1>p, <4>1, <4>2, SameTimers
    <3>6. Pool!Give(i, w)
      BY <1>m, <3>1, <3>3, <3>4, <3>5, Moves DEF Pool!Give
    <3> QED BY <3>1, <3>6 DEF Pool!PoolNext
  <2> QED BY <1>3, <2>2, <2>3, LiveAfter
<1>4. CASE Find(p)
  <2>1. thread'[p].key \in Live
    <3>1. \A q \in Threads : Outside(q)
      BY <1>4 DEF Find, MutexInv, Outside, At
    <3> QED BY <1>4, <3>1, LiveIs DEF Find, Outside
  <2>2. ASSUME NEW i \in Ids, Available(i)', ~Available(i)
        PROVE  \E w \in Wallets : <<w, i>> \in Live
    <3>1. thread'[p].key[2] = i
      BY <1>4, <2>2 DEF Find, OnlyOf, Available, Moving, At
    <3>2. thread'[p].key = <<thread'[p].key[1], i>> /\ thread'[p].key[1] \in Wallets
      BY <1>k, <2>1, <3>1, KeyParts
    <3> QED BY <2>1, <3>2
  <2> QED BY <1>4, <1>m, <1>p, <2>2, LiveAfter, Losing
<1>5. CASE Add(p)
  <2> PICK k \in Key, w \in Wallets, i \in Ids : k = thread[p].key /\ k = <<w, i>>
    BY <1>5, KeyParts DEF Add, TypeInv, Locals, KeySteps, At
  <2>1. Live' = Live \ {k}
    BY <1>5, LiveAfter
  <2>2. \A v \in Wallets : <<v, i>> \notin Live'
    <3>1. thread[p].key[2] = i
      OBVIOUS
    <3>2. \A l \in Live : l[2] = i => l = k
      BY <1>5, <3>1 DEF Add, PoolInv, AddedAreApart
    <3>3. \A v \in Wallets : <<v, i>>[2] = i
      OBVIOUS
    <3> QED BY <2>1, <3>2, <3>3
  <2>3. HolderOf(i)' = "free"
    <3>0. thread[p].key[2] = i
      OBVIOUS
    <3>1. i \in free'
      BY <1>5, <3>0 DEF Add
    <3> QED BY <2>2, <3>1, HoldersAfter
  <2>4. ASSUME NEW j \in Ids \ {i}
        PROVE  HolderOf(j)' = HolderOf(j)
    <3>1. \A v \in Wallets : <<v, j>> \in Live' <=> <<v, j>> \in Live
      BY <2>1
    <3>2. Available(j)' <=> Available(j)
      BY <1>5 DEF Add, OnlyOf, Available, Moving, At
    <3> QED BY <1>p, <3>1, <3>2, SameTimers
  <2>5. CASE k \in Live
    <3>1. HolderOf(i) = w
      BY <1>p, <2>5, Holders
    <3>2. Pool!GiveBack(i)
      BY <1>m, <2>3, <2>4, <3>1, Moves DEF Pool!GiveBack
    <3> QED BY <3>2 DEF Pool!PoolNext
  <2>6. CASE k \notin Live
    <3>1. Live' = Live
      BY <2>1, <2>6
    <3>2. ASSUME NEW j \in Ids, Available(j)' PROVE Available(j)
      BY <1>5, <3>2 DEF Add, OnlyOf, Available, Moving, At
    <3> QED BY <1>m, <1>p, <3>1, <3>2, Losing
  <2> QED BY <2>5, <2>6
<1>6. CASE Drop(p)
  <2>1. \A i \in Ids : Available(i)' => Available(i)
    BY <1>6 DEF Drop, OnlyOf, Available, Moving, Outside, InHand, At
  <2> QED BY <1>6, <1>m, <1>p, <2>1, LiveAfter, Losing
<1>7. CASE Take(p)
  <2> PICK k : k = thread[p].key
    OBVIOUS
  <2>0. \A j \in Ids : Available(j)' <=> Available(j)
    BY <1>7, <1>m, AvailableAfter DEF Take, Available
  <2>1. Live' = Live \ {k}
    BY <1>7, LiveAfter
  <2>2. CASE k \notin Live
    BY <1>m, <1>p, <2>0, <2>1, <2>2, Losing
  <2>3. CASE k \in Live
    <3> PICK w \in Wallets, i \in Ids : k = <<w, i>> /\ i \in minted
      BY <1>k, <1>7, <2>3, KeyParts DEF Take
    <3>1. HolderOf(i) = w
      BY <1>p, <2>3, Holders
    <3>2. \A v \in Wallets : <<v, i>> \notin Live'
      BY <1>p, <2>1, <2>3 DEF OneTimerEach
    <3>3. ASSUME NEW j \in Ids \ {i}
          PROVE  HolderOf(j)' = HolderOf(j)
      <4>1. \A v \in Wallets : <<v, j>> \in Live' <=> <<v, j>> \in Live
        BY <2>1
      <4> QED BY <1>p, <2>0, <4>1, SameTimers
    <3>4. HolderOf(i)' \in {"free", "gone"}
      BY <3>2, HoldersAfter
    <3>5. CASE HolderOf(i)' = "free"
      <4>1. Pool!GiveBack(i)
        BY <1>m, <3>1, <3>3, <3>5, Moves DEF Pool!GiveBack
      <4> QED BY <4>1 DEF Pool!PoolNext
    <3>6. CASE HolderOf(i)' = "gone"
      <4>1. Pool!Remove(i)
        BY <1>m, <3>1, <3>3, <3>6, Moves DEF Pool!Remove
      <4> QED BY <4>1 DEF Pool!PoolNext
    <3> QED BY <3>4, <3>5, <3>6
  <2> QED BY <2>2, <2>3
<1>8. CASE Clear(p)
  <2>1. \A i \in Ids : Available(i)' => Available(i)
    BY <1>8, <1>m, AvailableAfter DEF Clear, Available
  <2> QED BY <1>8, <1>m, <1>p, <2>1, LiveAfter, Losing
<1> QED BY <1>1, <1>2, <1>3, <1>4, <1>5, <1>6, <1>7, <1>8 DEF Effect

\* Tokens are minted, and nothing else happens to the ids.
LEMMA MintRefines ==
    ASSUME NEW id \in Ids, MintOnChain(id), UNCHANGED torn
    PROVE  Pool!Mint(id)
<1>1. UNCHANGED <<free, timer, thread>> /\ id \notin minted /\ minted' = minted \cup {id}
  BY DEF MintOnChain, redis
<1>2. \A i \in Ids : HolderOf(i)' = HolderOf(i)
  BY <1>1 DEF HolderOf, Live, Moving, At
<1>3. [i \in Ids |-> HolderOf(i)]' = [i \in Ids |-> HolderOf(i)]
  BY <1>2
<1> QED BY <1>1, <1>3 DEF Pool!Mint

LEMMA StepRefines ==
    ASSUME SeqInv, SeqInv', [Next]_vars
    PROVE  Pool!PoolNext \/ UNCHANGED Pool!poolVars
<1>0. CASE UNCHANGED vars
  <2>1. \A i \in Ids : HolderOf(i)' = HolderOf(i)
    BY <1>0 DEF vars, redis, HolderOf, Live, Moving, At
  <2> QED BY <1>0, <2>1 DEF vars, chain, Pool!poolVars
<1>1. ASSUME Next, NEW id \in Ids, MintOnChain(id)
      PROVE  Pool!PoolNext
  <2>1. UNCHANGED thread
    BY <1>1 DEF MintOnChain
  <2>2. ~Tears
    BY <2>1 DEF Tears, HalfReleased, Resurrected, At
  <2>3. UNCHANGED torn
    BY <1>1, <2>2 DEF Next, Record, SeqInv
  <2> QED BY <1>1, <2>3, MintRefines DEF Pool!PoolNext
<1>2. ASSUME Next, \A id \in Ids : ~MintOnChain(id)
      PROVE  Pool!PoolNext \/ UNCHANGED Pool!poolVars
  <2>1. UNCHANGED minted
    <3>1. ASSUME NEW p \in Threads, Step(p)
          PROVE  UNCHANGED minted
      BY <3>1 DEF Step, Release, SkipRelease, BeginRelease, Sweep, AppendTokenId, DropTimer,
          EndRelease, Acquire, LookupLast, AnswerFresh, CountFree, PopRandom, Claim, SetTimer,
          SetLast, ListOld, ResetOld, Delete, DeleteTimer, LookupHolder, DeleteLast,
          DeleteFromSet, chain
    <3>2. ASSUME NEW p \in Threads,
                 \/ \E w \in Wallets : StartAcquire(p, w)
                 \/ StartCount(p) \/ StartOther(p)
                 \/ \E id \in Ids : StartDelete(p, id)
          PROVE  UNCHANGED minted
      BY <3>2 DEF StartAcquire, StartCount, StartOther, StartRequest, StartDelete, chain
    <3>3. ASSUME NEW p \in Threads, AcquireFails(p) \/ DeleteFails(p) \/ ReleaseFails(p)
          PROVE  UNCHANGED minted
      BY <3>3 DEF AcquireFails, Retry, Abandon, CountFails, ClaimFails, DeleteFails,
          ReleaseFails, chain
    <3>4. Tick \/ Crash => UNCHANGED minted
      BY DEF Tick, Crash, chain
    <3> QED BY <1>2, <3>1, <3>2, <3>3, <3>4 DEF Next, Fault
  <2>2. CASE torn'
    BY <2>1, <2>2 DEF Pool!PoolNext, Pool!Tear, SeqInv
  <2>3. CASE ~torn'
    <3>1. ~torn /\ UNCHANGED torn /\ TypeInv /\ MutexInv /\ PoolInv /\ PoolInv'
      BY <1>2, <2>3 DEF SeqInv, Next, Record
    <3>2. CASE Still
      <4>1. Live' = Live /\ \A i \in Ids : Available(i)' => Available(i)
        BY <3>2, LiveAfter DEF Still, Available, Moving, At
      <4> QED BY <2>1, <3>1, <4>1, Losing DEF PoolInv
    <3>3. CASE Stop
      <4>1. Live' = Live /\ \A i \in Ids : Available(i)' => Available(i)
        BY <3>3, LiveAfter, IdleType DEF Stop, Available, Moving, At
      <4> QED BY <2>1, <3>1, <4>1, Losing DEF PoolInv
    <3>4. ASSUME NEW p \in Threads, Effect(p)
          PROVE  Pool!PoolNext \/ UNCHANGED Pool!poolVars
      BY <3>1, <3>4, EffectRefines
    <3> QED BY <1>2, <2>3, <3>1, <3>2, <3>3, <3>4, Effects
  <2> QED BY <2>2, <2>3
<1> QED BY <1>0, <1>1, <1>2

\* The sequencer implements the pool: until a timer is torn from its id, an id is
\* given to one wallet at a time, is taken from it only to be free again or because
\* its token is minted, and never comes back when it is gone.  It holds for any
\* number of wallets, ids and requests at a time, with releases for other
\* collections in between, and whatever fails.
THEOREM IdsStayPooled == Spec => IdsArePooled
<1>1. Init => Pool!PoolInit
  <2> SUFFICES ASSUME Init PROVE Pool!PoolInit
    OBVIOUS
  <2>1. DOMAIN timer = {} /\ free = Ids /\ minted = {} /\ torn = FALSE
    BY DEF Init
  <2>2. Live = {}
    BY <2>1, LiveIs
  <2>3. \A i \in Ids : HolderOf(i) = "free"
    BY <2>1, <2>2, Holders
  <2> QED BY <2>1, <2>3 DEF Pool!PoolInit
<1>2. SeqInv /\ SeqInv' /\ [Next]_vars => [Pool!PoolNext]_(Pool!poolVars)
  BY StepRefines
<1> QED BY <1>1, <1>2, SeqInitial, SeqInductive, PTL DEF Spec, IdsArePooled, Pool!PoolSpec

=============================================================================
