---------------------------- MODULE UvLoopProofs ----------------------------
(***************************************************************************)
(* Proofs about UvLoop, for any number of handles, requests, threads and   *)
(* calls of stop, and for either order of the wake-ups.                    *)
(***************************************************************************)
EXTENDS UvLoop, AsyncPoolProofs, FiniteSetTheorems

Work == Reqs \cup {E_LOOP_STOP}

\* The inductive invariant.  The invariant of the pool supplies fresh handles
\* to Submit, so that storing a request never overwrites another one; the
\* two conjuncts about threads support each other through run and theadRun.
IInv ==
  /\ TypeOK
  /\ PoolInv(Work)
  /\ ExactlyOnce
  /\ OneLoopThread
  /\ RunningFlagCoversLoop

LEMMA WorkDistinct ==
  Nothing \notin Work /\ E_LOOP_STOP \notin Reqs /\ Nothing \notin Reqs
BY LoopAssumption DEF Work

-----------------------------------------------------------------------------
(* The types.                                                              *)

LEMMA InitTypeOK == Init => TypeOK /\ PoolInv(Work)
<1> SUFFICES ASSUME Init PROVE TypeOK /\ PoolInv(Work)
  OBVIOUS
<1>1. PoolInv(Work)
  BY PoolInitInv DEF Init
<1>2. PoolTypeOK(Reqs \cup {E_LOOP_STOP})
  BY <1>1 DEF PoolInv, Work
<1>3. /\ call \in [Reqs -> {"idle", "checked", "nested"} \cup Result]
      /\ ran \in [Reqs -> Nat]
      /\ tpc \in [Thread -> {"unborn", "uv_run", "closed", "notify", "dead"}]
      /\ apc \in [Actor -> {"idle", "spawned", "stop", "dtor", "dtor_stop",
                            "test", "block", "asleep", "gone", "destroyed"}]
  BY DEF Init
<1>4. stops \in 0 .. MaxStops
  BY LoopAssumption DEF Init
<1>5. TypeOK
  BY <1>2, <1>3, <1>4 DEF Init, TypeOK
<1> QED BY <1>1, <1>5

\* Every step keeps the invariant of the pool: it is a step of the pool or
\* leaves the pool alone.
LEMMA NextPool ==
  ASSUME PoolInv(Work), [Next]_vars
  PROVE  PoolInv(Work)'
<1>1. CASE UNCHANGED vars
  BY <1>1, PoolStutters DEF vars
<1>2. ASSUME NEW r \in Reqs, AddReqTest(r) \/ AddReqTestNested(r)
      PROVE  PoolInv(Work)'
  BY <1>2, PoolStutters DEF AddReqTest, AddReqTestNested
<1>3. ASSUME NEW r \in Reqs, AddReqLocked(r)
      PROVE  PoolInv(Work)'
  <2>1. r \in Work
    BY DEF Work
  <2> QED BY <1>3, <2>1, SubmitInv, PoolStutters DEF AddReqLocked
<1>4. ASSUME NEW t \in Thread, RunSpawn(t) \/ UvRunReturns(t) \/ ClearFlag(t) \/ NotifyAll(t)
      PROVE  PoolInv(Work)'
  BY <1>4, PoolStutters DEF RunSpawn, UvRunReturns, ClearFlag, NotifyAll
<1>5. ASSUME NEW t \in Thread, FireHandle(t)
      PROVE  PoolInv(Work)'
  BY <1>5, FireInv DEF FireHandle
<1>6. ASSUME NEW t \in Thread, RunRequest(t) \/ RunStop(t)
      PROVE  PoolInv(Work)'
  BY <1>6, ClearTcbInv DEF RunRequest, RunStop, InTcb
<1>7. ASSUME NEW t \in Thread, ReturnHandle(t)
      PROVE  PoolInv(Work)'
  BY <1>7, RecycleInv DEF ReturnHandle
<1>8. CASE RunSetFlag \/ StopTest \/ Release
  BY <1>8, PoolStutters DEF RunSetFlag, StopTest, Release
<1>9. ASSUME NEW a \in Actor, StopLocked(a)
      PROVE  PoolInv(Work)'
  <2>1. E_LOOP_STOP \in Work
    BY DEF Work
  <2> QED BY <1>9, <2>1, SubmitInv, PoolStutters DEF StopLocked
<1>10. ASSUME NEW a \in Actor, Destructor(a) \/ SpuriousWakeup(a)
       PROVE  PoolInv(Work)'
  BY <1>10, PoolStutters
     DEF Destructor, DtorBegin, DtorTest, DtorBlock, SpuriousWakeup
<1> QED
  BY <1>1, <1>2, <1>3, <1>4, <1>5, <1>6, <1>7, <1>8, <1>9, <1>10
     DEF Next, LoopThread

\* The variables of UvLoop keep their types; the pool's part is NextPool.
LEMMA NextTypeOK ==
  ASSUME TypeOK, PoolInv(Work)', [Next]_vars
  PROVE  TypeOK'
<1> DEFINE Rest ==
      /\ m_bRunning \in BOOLEAN
      /\ call \in [Reqs -> {"idle", "checked", "nested"} \cup Result]
      /\ ran \in [Reqs -> Nat]
      /\ tpc \in [Thread -> {"unborn", "uv_run", "closed", "notify", "dead"}]
      /\ stop_flag \in BOOLEAN
      /\ owned \in BOOLEAN
      /\ apc \in [Actor -> {"idle", "spawned", "stop", "dtor", "dtor_stop",
                            "test", "block", "asleep", "gone", "destroyed"}]
      /\ stops \in 0 .. MaxStops
<1>0. Rest
  BY DEF TypeOK
<1> SUFFICES Rest'
  BY DEF TypeOK, PoolInv, Work
<1>1. CASE UNCHANGED vars
  BY <1>0, <1>1 DEF vars, lifeVars
<1>2. ASSUME NEW r \in Reqs, AddReqTest(r) \/ AddReqTestNested(r)
      PROVE  Rest'
  BY <1>0, <1>2 DEF AddReqTest, AddReqTestNested, lifeVars, Result
<1>3. ASSUME NEW r \in Reqs, AddReqLocked(r)
      PROVE  Rest'
  BY <1>0, <1>3 DEF AddReqLocked, lifeVars, Result
<1>4. ASSUME NEW t \in Thread, RunSpawn(t) \/ UvRunReturns(t) \/ ClearFlag(t)
      PROVE  Rest'
  BY <1>0, <1>4 DEF RunSpawn, UvRunReturns, ClearFlag
<1>5. ASSUME NEW t \in Thread, NotifyAll(t)
      PROVE  Rest'
  BY <1>0, <1>5 DEF NotifyAll
<1>6. ASSUME NEW t \in Thread, FireHandle(t) \/ ReturnHandle(t)
      PROVE  Rest'
  BY <1>0, <1>6 DEF FireHandle, ReturnHandle, lifeVars
<1>7. ASSUME NEW t \in Thread, RunRequest(t)
      PROVE  Rest'
  <2>1. slot[cur] \in Reqs /\ ran' = [ran EXCEPT ![slot[cur]] = @ + 1]
    BY <1>7 DEF RunRequest, InTcb
  <2>2. ran' \in [Reqs -> Nat]
    BY <1>0, <2>1
  <2>3. apc' \in [Actor -> {"idle", "spawned", "stop", "dtor", "dtor_stop",
                            "test", "block", "asleep", "gone", "destroyed"}]
    BY <1>0, <1>7 DEF RunRequest
  <2> QED BY <1>0, <1>7, <2>2, <2>3 DEF RunRequest
<1>8. ASSUME NEW t \in Thread, RunStop(t)
      PROVE  Rest'
  BY <1>0, <1>8 DEF RunStop
<1>9. CASE RunSetFlag
  BY <1>0, <1>9 DEF RunSetFlag
<1>13. CASE StopTest
  <2>1. stops' \in 0 .. MaxStops
    <3>1. stops \in 0 .. MaxStops /\ stops < MaxStops /\ stops' = stops + 1
      BY <1>0, <1>13 DEF StopTest
    <3> QED BY <3>1, LoopAssumption
  <2> QED BY <1>0, <1>13, <2>1 DEF StopTest
<1>10. CASE Release
  BY <1>0, <1>10 DEF Release
<1>11. ASSUME NEW a \in Actor, StopLocked(a)
       PROVE  Rest'
  BY <1>0, <1>11 DEF StopLocked
<1>12. ASSUME NEW a \in Actor, Destructor(a) \/ SpuriousWakeup(a)
       PROVE  Rest'
  BY <1>0, <1>12
     DEF Destructor, DtorBegin, DtorTest, DtorBlock, SpuriousWakeup
<1> QED
  BY <1>1, <1>2, <1>3, <1>4, <1>5, <1>6, <1>7, <1>8, <1>9, <1>10, <1>11, <1>12, <1>13
     DEF Next, LoopThread

-----------------------------------------------------------------------------
(* The threads.                                                            *)

\* Only run, the end of uv_run and the reset of the flag matter; everything
\* else leaves the set of threads alive and the two witnesses of the flag.
LEMMA NextThreads ==
  ASSUME TypeOK, OneLoopThread, RunningFlagCoversLoop, [Next]_vars
  PROVE  OneLoopThread' /\ RunningFlagCoversLoop'
<1> DEFINE Covered == m_bRunning \/ apc["owner"] = "spawned"
           Goal    == OneLoopThread' /\ RunningFlagCoversLoop'
<1>0. /\ tpc \in [Thread -> {"unborn", "uv_run", "closed", "notify", "dead"}]
      /\ DOMAIN apc = Actor /\ "owner" \in Actor
  BY DEF TypeOK, Actor
<1>1. ASSUME UNCHANGED tpc, Covered => Covered'
      PROVE  Goal
  BY <1>1 DEF OneLoopThread, RunningFlagCoversLoop, Alive
<1>2. ASSUME NEW t \in Thread, RunSpawn(t)
      PROVE  Goal
  <2>1. Alive = {}
    BY <1>2 DEF RunSpawn, RunningFlagCoversLoop
  <2>2. \A s \in Alive' : s = t
    BY <2>1, <1>2, <1>0 DEF RunSpawn, Alive
  <2>3. apc'["owner"] = "spawned"
    BY <1>2, <1>0 DEF RunSpawn
  <2> QED BY <2>2, <2>3 DEF OneLoopThread, RunningFlagCoversLoop
<1>3. ASSUME NEW t \in Thread, UvRunReturns(t)
      PROVE  Goal
  <2>1. Alive' = Alive
    BY <1>3, <1>0 DEF UvRunReturns, Alive
  <2> QED BY <1>3, <2>1 DEF UvRunReturns, OneLoopThread, RunningFlagCoversLoop
<1>4. ASSUME NEW t \in Thread, ClearFlag(t)
      PROVE  Goal
  <2>1. t \in Alive /\ Alive' = Alive \ {t}
    BY <1>4, <1>0 DEF ClearFlag, Alive
  <2> QED BY <2>1 DEF OneLoopThread, RunningFlagCoversLoop
<1>5. ASSUME NEW t \in Thread, NotifyAll(t)
      PROVE  Goal
  <2>1. Alive' = Alive
    BY <1>5, <1>0 DEF NotifyAll, Alive
  <2>2. Covered => Covered'
    BY <1>5, <1>0 DEF NotifyAll
  <2> QED BY <2>1, <2>2 DEF OneLoopThread, RunningFlagCoversLoop
<1>6. CASE UNCHANGED vars
  BY <1>1, <1>6 DEF vars, lifeVars
<1>7. ASSUME NEW r \in Reqs, AddReqTest(r) \/ AddReqTestNested(r) \/ AddReqLocked(r)
      PROVE  Goal
  BY <1>1, <1>7 DEF AddReqTest, AddReqTestNested, AddReqLocked, lifeVars
<1>8. ASSUME NEW t \in Thread,
             FireHandle(t) \/ RunRequest(t) \/ RunStop(t) \/ ReturnHandle(t)
      PROVE  Goal
  <2>1. UNCHANGED <<tpc, m_bRunning>>
    BY <1>8 DEF FireHandle, RunRequest, RunStop, ReturnHandle, lifeVars
  <2>2. apc'["owner"] = apc["owner"]
    BY <1>8, <1>0 DEF FireHandle, RunRequest, RunStop, ReturnHandle, lifeVars
  <2> QED BY <1>1, <2>1, <2>2
<1>9. CASE RunSetFlag
  BY <1>1, <1>9 DEF RunSetFlag
<1>10. CASE StopTest \/ Release
  BY <1>1, <1>10, <1>0 DEF StopTest, Release
<1>11. ASSUME NEW a \in Actor, StopLocked(a) \/ Destructor(a) \/ SpuriousWakeup(a)
       PROVE  Goal
  BY <1>1, <1>11, <1>0
     DEF StopLocked, Destructor, DtorBegin, DtorTest, DtorBlock, SpuriousWakeup
<1> QED
  BY <1>2, <1>3, <1>4, <1>5, <1>6, <1>7, <1>8, <1>9, <1>10, <1>11
     DEF Next, LoopThread

-----------------------------------------------------------------------------
(* Exactly once.                                                           *)

\* Submit stores a request in a handle that stored nothing.
LEMMA SubmitHolders ==
  ASSUME PoolInv(Work), NEW w \in Work, Submit(w), NEW r \in Reqs
  PROVE  Holders(r)' = IF r = w THEN Holders(r) \cup {Head(m_dAsync)}
                       ELSE Holders(r)
<1>1. /\ Head(m_dAsync) \in Handle
      /\ slot[Head(m_dAsync)] = Nothing
  BY FreshHandle DEF Submit
<1>2. slot \in [Handle -> Work \cup {Nothing}]
  BY DEF PoolInv, PoolTypeOK
<1>3. slot' = [slot EXCEPT ![Head(m_dAsync)] = w]
  BY DEF Submit
<1> QED BY <1>1, <1>2, <1>3, WorkDistinct DEF Holders

\* Clearing the current handle takes it from the request it stored.
LEMMA ClearTcbHolders ==
  ASSUME PoolInv(Work), cur # NoHandle, ClearTcb, NEW r \in Reqs
  PROVE  Holders(r)' = Holders(r) \ {cur}
<1>1. slot \in [Handle -> Work \cup {Nothing}] /\ cur \in Handle
  BY DEF PoolInv, PoolTypeOK
<1> QED BY <1>1, WorkDistinct DEF ClearTcb, Holders

LEMMA NextExactlyOnce ==
  ASSUME TypeOK, PoolInv(Work), ExactlyOnce, [Next]_vars
  PROVE  ExactlyOnce'
<1> SUFFICES ASSUME NEW q \in Reqs
             PROVE  /\ Holders(q)' \subseteq m_mapAsync'
                    /\ \A g, h \in Holders(q)' : g = h
                    /\ IF call'[q] = "ERR_LOOP_NO_ERR"
                       THEN ran'[q] = IF Holders(q)' = {} THEN 1 ELSE 0
                       ELSE Holders(q)' = {} /\ ran'[q] = 0
  BY DEF ExactlyOnce
<1> DEFINE Goal == /\ Holders(q)' \subseteq m_mapAsync'
                   /\ \A g, h \in Holders(q)' : g = h
                   /\ IF call'[q] = "ERR_LOOP_NO_ERR"
                      THEN ran'[q] = IF Holders(q)' = {} THEN 1 ELSE 0
                      ELSE Holders(q)' = {} /\ ran'[q] = 0
<1>0. /\ Holders(q) \subseteq m_mapAsync
      /\ \A g, h \in Holders(q) : g = h
      /\ IF call[q] = "ERR_LOOP_NO_ERR"
         THEN ran[q] = IF Holders(q) = {} THEN 1 ELSE 0
         ELSE Holders(q) = {} /\ ran[q] = 0
  BY DEF ExactlyOnce
<1>a. DOMAIN call = Reqs /\ ran \in [Reqs -> Nat]
  BY DEF TypeOK
<1>1. ASSUME Holders(q)' = Holders(q), Holders(q) \subseteq m_mapAsync',
             (call'[q] = "ERR_LOOP_NO_ERR") = (call[q] = "ERR_LOOP_NO_ERR"),
             ran'[q] = ran[q]
      PROVE  Goal
  BY <1>0, <1>1
<1>2. ASSUME UNCHANGED <<poolVars, call, ran>>
      PROVE  Goal
  BY <1>0, <1>2 DEF poolVars, Holders
<1>3. CASE UNCHANGED vars
  BY <1>2, <1>3 DEF vars
<1>4. ASSUME NEW r \in Reqs, AddReqTest(r) \/ AddReqTestNested(r)
      PROVE  Goal
  <2>1. UNCHANGED <<m_mapAsync, slot, ran>>
    BY <1>4 DEF AddReqTest, AddReqTestNested, poolVars
  <2>2. (call'[q] = "ERR_LOOP_NO_ERR") = (call[q] = "ERR_LOOP_NO_ERR")
    BY <1>4, <1>a DEF AddReqTest, AddReqTestNested
  <2> QED BY <1>0, <1>1, <2>1, <2>2 DEF Holders
<1>5. ASSUME NEW r \in Reqs, AddReqLocked(r)
      PROVE  Goal
  <2>1. /\ call[r] # "ERR_LOOP_NO_ERR" /\ UNCHANGED ran
        /\ r # q => call'[q] = call[q]
    BY <1>5, <1>a DEF AddReqLocked
  <2>2. CASE Busy /\ UNCHANGED poolVars /\ call' = [call EXCEPT ![r] = "ERR_LOOP_BUSY"]
    <3>1. (call'[q] = "ERR_LOOP_NO_ERR") = (call[q] = "ERR_LOOP_NO_ERR")
      BY <2>1, <2>2, <1>a
    <3> QED BY <1>0, <1>1, <2>1, <2>2, <3>1 DEF poolVars, Holders
  <2>3. CASE Submit(r) /\ call' = [call EXCEPT ![r] = "ERR_LOOP_NO_ERR"]
    <3>1. Holders(q)' = IF q = r THEN Holders(q) \cup {Head(m_dAsync)} ELSE Holders(q)
      BY <2>3, SubmitHolders DEF Work
    <3>2. m_mapAsync' = m_mapAsync \cup {Head(m_dAsync)}
      BY <2>3 DEF Submit
    <3>3. CASE q = r
      <4>1. Holders(q)' = {Head(m_dAsync)} /\ ran'[q] = 0
        BY <1>0, <2>1, <3>1, <3>3
      <4>2. call'[q] = "ERR_LOOP_NO_ERR"
        BY <2>3, <3>3, <1>a
      <4> QED BY <3>2, <4>1, <4>2
    <3>4. CASE q # r
      BY <1>0, <1>1, <2>1, <3>1, <3>2, <3>4
    <3> QED BY <3>3, <3>4
  <2> QED BY <1>5, <2>2, <2>3 DEF AddReqLocked
<1>6. ASSUME NEW a \in Actor, StopLocked(a)
      PROVE  Goal
  <2>1. UNCHANGED <<call, ran>>
    BY <1>6 DEF StopLocked
  <2>2. CASE Submit(E_LOOP_STOP)
    <3>1. Holders(q)' = Holders(q)
      BY <2>2, SubmitHolders, WorkDistinct DEF Work
    <3>2. Holders(q) \subseteq m_mapAsync'
      BY <1>0, <2>2 DEF Submit
    <3> QED BY <1>1, <2>1, <3>1, <3>2
  <2>3. CASE UNCHANGED poolVars
    BY <1>2, <2>1, <2>3
  <2> QED BY <1>6, <2>2, <2>3 DEF StopLocked
<1>7. ASSUME NEW t \in Thread, FireHandle(t)
      PROVE  Goal
  BY <1>0, <1>1, <1>7 DEF FireHandle, Fire, Holders
<1>8. ASSUME NEW t \in Thread, RunRequest(t)
      PROVE  Goal
  <2>1. /\ cur # NoHandle /\ slot[cur] \in Reqs /\ ClearTcb
        /\ ran' = [ran EXCEPT ![slot[cur]] = @ + 1] /\ UNCHANGED call
    BY <1>8 DEF RunRequest, InTcb
  <2>2. Holders(q)' = Holders(q) \ {cur} /\ m_mapAsync' = m_mapAsync
    BY <2>1, ClearTcbHolders DEF ClearTcb
  <2>3. CASE slot[cur] = q
    <3>1. cur \in Holders(q)
      BY <2>1, <2>3 DEF Holders, PoolInv, PoolTypeOK
    <3>2. Holders(q)' = {} /\ call'[q] = "ERR_LOOP_NO_ERR" /\ ran[q] = 0
      BY <1>0, <2>1, <2>2, <3>1
    <3>3. ran'[q] = 1
      BY <2>1, <2>3, <3>2, <1>a
    <3> QED BY <3>2, <3>3
  <2>4. CASE slot[cur] # q
    <3>1. cur \notin Holders(q) /\ ran'[q] = ran[q]
      BY <2>1, <2>4, <1>a DEF Holders
    <3> QED BY <1>0, <1>1, <2>1, <2>2, <3>1
  <2> QED BY <2>3, <2>4
<1>9. ASSUME NEW t \in Thread, RunStop(t)
      PROVE  Goal
  <2>1. cur # NoHandle /\ slot[cur] = E_LOOP_STOP /\ ClearTcb /\ UNCHANGED <<call, ran>>
    BY <1>9 DEF RunStop
  <2>2. Holders(q)' = Holders(q) \ {cur} /\ m_mapAsync' = m_mapAsync
    BY <2>1, ClearTcbHolders DEF ClearTcb
  <2>3. cur \notin Holders(q)
    BY <2>1, WorkDistinct DEF Holders
  <2> QED BY <1>0, <1>1, <2>1, <2>2, <2>3
<1>10. ASSUME NEW t \in Thread, ReturnHandle(t)
       PROVE  Goal
  <2>1. /\ slot[cur] = Nothing /\ UNCHANGED <<slot, call, ran>>
        /\ m_mapAsync' = m_mapAsync \ {cur}
    BY <1>10 DEF ReturnHandle, Recycle
  <2>2. cur \notin Holders(q) /\ Holders(q)' = Holders(q)
    BY <2>1, WorkDistinct DEF Holders
  <2> QED BY <1>0, <1>1, <2>1, <2>2
<1>11. ASSUME NEW t \in Thread, RunSpawn(t) \/ UvRunReturns(t) \/ ClearFlag(t) \/ NotifyAll(t)
       PROVE  Goal
  BY <1>2, <1>11 DEF RunSpawn, UvRunReturns, ClearFlag, NotifyAll
<1>12. CASE RunSetFlag \/ StopTest \/ Release
  BY <1>2, <1>12 DEF RunSetFlag, StopTest, Release
<1>13. ASSUME NEW a \in Actor, Destructor(a) \/ SpuriousWakeup(a)
       PROVE  Goal
  BY <1>2, <1>13
     DEF Destructor, DtorBegin, DtorTest, DtorBlock, SpuriousWakeup
<1> QED
  BY <1>3, <1>4, <1>5, <1>6, <1>7, <1>8, <1>9, <1>10, <1>11, <1>12, <1>13
     DEF Next, LoopThread

-----------------------------------------------------------------------------
(* The theorems.                                                           *)

LEMMA InitIInv == Init => IInv
<1> SUFFICES ASSUME Init PROVE IInv
  OBVIOUS
<1>1. TypeOK /\ PoolInv(Work)
  BY InitTypeOK
<1>2. \A r \in Reqs : Holders(r) = {}
  BY WorkDistinct DEF Init, PoolInit, Holders
<1>3. ExactlyOnce
  BY <1>2 DEF Init, ExactlyOnce
<1>4. Alive = {}
  BY DEF Init, Alive
<1>5. OneLoopThread /\ RunningFlagCoversLoop
  BY <1>4 DEF OneLoopThread, RunningFlagCoversLoop
<1> QED BY <1>1, <1>3, <1>5 DEF IInv

LEMMA NextIInv == IInv /\ [Next]_vars => IInv'
BY NextPool, NextTypeOK, NextThreads, NextExactlyOnce DEF IInv

\* The inductive invariant holds in every reachable state.
THEOREM Invariance == Spec => []IInv
<1> QED BY InitIInv, NextIInv, PTL DEF Spec

\* The variables keep their types, for every value of the constants.
THEOREM TypeCorrect == Spec => []TypeOK
<1>1. IInv => TypeOK
  BY DEF IInv
<1> QED BY <1>1, Invariance, PTL

\* No sequence of AddReq, stop, restarts and callbacks loses or duplicates a
\* handle of the pool (loop.cpp:48-53, 106-112, 133-140).
THEOREM HandlesAreConserved == Spec => []HandlesConserved
<1>1. IInv => HandlesConserved
  BY DEF IInv, PoolInv
<1> QED BY <1>1, Invariance, PTL

\* The branch of loop.cpp:45-49 that dereferences end() is never taken.
THEOREM CallbackAlwaysFindsHandle == Spec => []CallbackFindsHandle
<1>1. IInv => CallbackFindsHandle
  BY DEF IInv, PoolInv
<1> QED BY <1>1, Invariance, PTL

\* AddReq tells the truth: an accepted request is stored once or has been
\* executed exactly once, a refused one is neither (loop.cpp:117-144, 28-29).
THEOREM RequestsRunOnce == Spec => []ExactlyOnce
<1>1. IInv => ExactlyOnce
  BY DEF IInv
<1> QED BY <1>1, Invariance, PTL

\* At most one loop thread is alive, and the flag covers it (loop.cpp:71-87).
THEOREM LoopIsNotReentered == Spec => [](OneLoopThread /\ RunningFlagCoversLoop)
<1>1. IInv => OneLoopThread /\ RunningFlagCoversLoop
  BY DEF IInv
<1> QED BY <1>1, Invariance, PTL

-----------------------------------------------------------------------------
(* The destructor.                                                         *)

Destroying == {"dtor", "dtor_stop", "test", "block", "asleep", "destroyed"}

\* ~uvloop runs when nobody can reach the loop any more: it has no reference,
\* stored in a handle or not, and no call of AddReq is under way.  It runs
\* once; no thread is in uv_run, or will be, when it comes back; and it never
\* comes back on the loop thread, which would have to leave uv_run first
\* (loop.cpp:61-69): the wait that NoSelfWait finds is for ever.
DestroyedAlone ==
  /\ \A a, b \in Actor : apc[a] \in Destroying /\ apc[b] \in Destroying => a = b
  /\ \A a \in Actor : apc[a] \in Destroying =>
       ~owned /\ ~HoldsRef({}) /\ \A r \in Reqs : call[r] \notin {"checked", "nested"}
  /\ \A a \in Actor : apc[a] = "destroyed" => Alive = {}
  /\ apc["loop"] # "destroyed"

OwnerInv ==
  IF owned THEN apc["owner"] \in {"idle", "spawned", "stop"} /\ apc["loop"] = "idle"
  ELSE /\ apc["owner"] \in Destroying \cup {"gone"}
       /\ \A r \in Reqs : call[r] # "checked"

\* A call from inside a callback ends before the callback, whose closure holds
\* a reference until then; the loop thread begins ~uvloop inside a callback.
LastRefInv ==
  /\ (\E r \in Reqs : call[r] = "nested") => InTcb
  /\ \A a \in Actor : apc[a] \in Destroying => ~HoldsRef({})
  /\ apc["loop"] \in Destroying \cup {"idle"}
  /\ apc["loop"] \in Destroying => apc["owner"] = "gone" /\ cur # NoHandle
  /\ cur # NoHandle => InUvRun # {}

DtorInv == OwnerInv /\ LastRefInv /\ \A a \in Actor : apc[a] = "destroyed" => Alive = {}

LEMMA CallbackHoldsRef ==
  ASSUME PoolInv(Work), InTcb
  PROVE  HoldsRef({})
BY DEF InTcb, HoldsRef, PoolInv, PoolTypeOK

LEMMA SubmitRefs ==
  ASSUME PoolInv(Work), NEW w \in Work, Submit(w)
  PROVE  InTcb' = InTcb /\ cur' = cur /\ (w \notin Reqs /\ ~HoldsRef({}) => ~HoldsRef({})')
<1>1. /\ Head(m_dAsync) \in Handle /\ Head(m_dAsync) # cur
      /\ slot[Head(m_dAsync)] = Nothing
  BY FreshHandle DEF Submit
<1>2. slot \in [Handle -> Work \cup {Nothing}] /\ cur \in Handle \cup {NoHandle}
  BY DEF PoolInv, PoolTypeOK
<1>3. slot' = [slot EXCEPT ![Head(m_dAsync)] = w] /\ cur' = cur
  BY DEF Submit
<1> QED BY <1>1, <1>2, <1>3, WorkDistinct DEF InTcb, HoldsRef

LEMMA ClearTcbRefs ==
  ASSUME PoolInv(Work), cur # NoHandle, ClearTcb
  PROVE  cur' = cur /\ ~InTcb' /\ (HoldsRef({})' <=> HoldsRef({cur}))
<1>1. slot \in [Handle -> Work \cup {Nothing}] /\ cur \in Handle
  BY DEF PoolInv, PoolTypeOK
<1>2. slot' = [slot EXCEPT ![cur] = Nothing] /\ cur' = cur
  BY DEF ClearTcb
<1> QED BY <1>1, <1>2, WorkDistinct DEF InTcb, HoldsRef

\* The calls of AddReq are made by those who hold a reference.
LEMMA CallDtorInv ==
  ASSUME TypeOK, PoolInv(Work), DtorInv, NEW r \in Reqs,
         AddReqTest(r) \/ AddReqTestNested(r) \/ AddReqLocked(r)
  PROVE  DtorInv'
<1>0. call \in [Reqs -> {"idle", "checked", "nested"} \cup Result]
  BY DEF TypeOK
<1>1. UNCHANGED <<tpc, owned, apc>>
  BY DEF AddReqTest, AddReqTestNested, AddReqLocked, lifeVars
<1>2. owned \/ InTcb
  BY DEF AddReqTest, AddReqTestNested, AddReqLocked, DtorInv, OwnerInv, LastRefInv
<1>3. \A a \in Actor : apc[a] \notin Destroying
  BY <1>2, CallbackHoldsRef DEF DtorInv, OwnerInv, LastRefInv, Actor, Destroying
<1>4. InTcb' = InTcb /\ cur' = cur
  <2>1. r \in Work
    BY DEF Work
  <2> QED BY <2>1, SubmitRefs
          DEF AddReqTest, AddReqTestNested, AddReqLocked, poolVars, InTcb
<1>5. /\ \A q \in Reqs : q # r => call'[q] = call[q]
      /\ call'[r] = "checked" => owned
      /\ call'[r] = "nested" => InTcb
  BY <1>0 DEF AddReqTest, AddReqTestNested, AddReqLocked
<1>6. OwnerInv'
  BY <1>1, <1>5 DEF DtorInv, OwnerInv
<1>7. LastRefInv'
  BY <1>1, <1>3, <1>4, <1>5 DEF DtorInv, LastRefInv, InUvRun
<1>8. \A a \in Actor : apc'[a] # "destroyed"
  BY <1>1, <1>3 DEF Destroying
<1> QED BY <1>6, <1>7, <1>8 DEF DtorInv

LEMMA LoopThreadDtorInv ==
  ASSUME TypeOK, PoolInv(Work), DtorInv, NEW t \in Thread, LoopThread(t)
  PROVE  DtorInv'
<1>0. /\ tpc \in [Thread -> {"unborn", "uv_run", "closed", "notify", "dead"}]
      /\ DOMAIN apc = Actor /\ "owner" \in Actor /\ "loop" \in Actor
      /\ Alive' \subseteq Alive
  <2>1. tpc \in [Thread -> {"unborn", "uv_run", "closed", "notify", "dead"}]
    BY DEF TypeOK
  <2>2. Alive' \subseteq Alive
    BY <2>1 DEF LoopThread, FireHandle, RunRequest, RunStop, ReturnHandle, UvRunReturns,
                ClearFlag, NotifyAll, lifeVars, Alive
  <2> QED BY <2>1, <2>2 DEF TypeOK, Actor
<1>1. CASE FireHandle(t)
  <2>1. /\ UNCHANGED <<slot, call, owned, apc, tpc>> /\ t \in InUvRun
        /\ cur = NoHandle
    BY <1>1 DEF FireHandle, Fire, lifeVars, InUvRun
  <2>2. HoldsRef({})' = HoldsRef({}) /\ InUvRun' = InUvRun /\ ~InTcb
    BY <2>1 DEF HoldsRef, InUvRun, InTcb
  <2> QED BY <1>0, <2>1, <2>2 DEF DtorInv, OwnerInv, LastRefInv
<1>2. CASE RunRequest(t)
  <2>1. /\ InTcb /\ cur # NoHandle /\ ClearTcb /\ UNCHANGED <<call, owned, tpc>>
        /\ \A q \in Reqs : call[q] # "nested"
        /\ apc' = IF owned \/ HoldsRef({cur}) THEN apc ELSE [apc EXCEPT !["loop"] = "dtor"]
    BY <1>2 DEF RunRequest, InTcb
  <2>2. cur' = cur /\ (HoldsRef({})' <=> HoldsRef({cur})) /\ InUvRun' = InUvRun
    BY <2>1, ClearTcbRefs DEF InUvRun
  <2>3. \A a \in Actor : apc[a] \notin Destroying
    BY <2>1, CallbackHoldsRef DEF DtorInv, LastRefInv
  <2>4. ~owned => apc["owner"] = "gone"
    BY <1>0, <2>3 DEF DtorInv, OwnerInv
  <2>5. apc'["owner"] = apc["owner"] /\ \A a \in Actor : apc'[a] # "destroyed"
    BY <1>0, <2>1, <2>3 DEF Destroying
  <2>6. OwnerInv'
    BY <1>0, <2>1, <2>5 DEF DtorInv, OwnerInv
  <2>7. LastRefInv'
    BY <1>0, <2>1, <2>2, <2>3, <2>4, <2>5 DEF DtorInv, LastRefInv, Actor, Destroying
  <2> QED BY <2>5, <2>6, <2>7 DEF DtorInv
<1>3. CASE RunStop(t)
  <2>1. /\ cur # NoHandle /\ slot[cur] \notin Reqs /\ ClearTcb /\ UNCHANGED <<call, owned, apc, tpc>>
    BY <1>3, WorkDistinct DEF RunStop
  <2>2. cur' = cur /\ (HoldsRef({})' => HoldsRef({})) /\ InUvRun' = InUvRun /\ ~InTcb
    BY <2>1, ClearTcbRefs DEF InUvRun, InTcb, HoldsRef
  <2> QED BY <1>0, <2>1, <2>2 DEF DtorInv, OwnerInv, LastRefInv
<1>4. CASE ReturnHandle(t)
  <2>1. /\ UNCHANGED <<slot, call, owned, apc, tpc>> /\ cur' = NoHandle
        /\ apc["loop"] = "idle" /\ slot[cur] = Nothing
    BY <1>4 DEF ReturnHandle, Recycle, lifeVars
  <2>2. HoldsRef({})' = HoldsRef({}) /\ ~InTcb
    BY <2>1, WorkDistinct DEF HoldsRef, InTcb
  <2> QED BY <1>0, <2>1, <2>2 DEF DtorInv, OwnerInv, LastRefInv, Destroying
<1>5. CASE UvRunReturns(t)
  <2>1. UNCHANGED <<slot, cur, call, owned, apc>> /\ cur = NoHandle
    BY <1>5 DEF UvRunReturns, poolVars
  <2>2. HoldsRef({})' = HoldsRef({}) /\ InTcb' = InTcb
    BY <2>1 DEF HoldsRef, InTcb
  <2> QED BY <1>0, <2>1, <2>2 DEF DtorInv, OwnerInv, LastRefInv
<1>6. CASE ClearFlag(t)
  <2>1. UNCHANGED <<slot, cur, call, owned, apc>>
    BY <1>6 DEF ClearFlag, poolVars
  <2>2. HoldsRef({})' = HoldsRef({}) /\ InTcb' = InTcb /\ InUvRun \subseteq InUvRun'
    BY <1>0, <1>6, <2>1 DEF HoldsRef, InTcb, InUvRun, ClearFlag
  <2> QED BY <1>0, <2>1, <2>2 DEF DtorInv, OwnerInv, LastRefInv
<1>7. CASE NotifyAll(t)
  <2>1. /\ UNCHANGED <<slot, cur, call, owned>>
        /\ apc' = [a \in Actor |-> IF apc[a] = "asleep" THEN "test" ELSE apc[a]]
    BY <1>7 DEF NotifyAll, poolVars
  <2>2. HoldsRef({})' = HoldsRef({}) /\ InTcb' = InTcb /\ InUvRun \subseteq InUvRun'
    BY <1>0, <1>7, <2>1 DEF HoldsRef, InTcb, InUvRun, NotifyAll
  <2>3. \A a \in Actor : /\ apc'[a] \in Destroying <=> apc[a] \in Destroying
                         /\ apc[a] \notin Destroying => apc'[a] = apc[a]
                         /\ apc'[a] = "destroyed" => apc[a] = "destroyed"
    BY <2>1 DEF Destroying
  <2>4. OwnerInv'
    BY <1>0, <2>1, <2>3 DEF DtorInv, OwnerInv, Destroying
  <2>5. LastRefInv'
    BY <1>0, <2>1, <2>2, <2>3 DEF DtorInv, LastRefInv, Destroying
  <2> QED BY <1>0, <2>3, <2>4, <2>5 DEF DtorInv
<1> QED BY <1>1, <1>2, <1>3, <1>4, <1>5, <1>6, <1>7 DEF LoopThread

\* The owner, and whoever runs ~uvloop.
LEMMA OwnerDtorInv ==
  ASSUME TypeOK, PoolInv(Work), RunningFlagCoversLoop, DtorInv,
         \/ \E t \in Thread : RunSpawn(t)
         \/ RunSetFlag \/ StopTest \/ Release
         \/ \E a \in Actor : StopLocked(a) \/ Destructor(a) \/ SpuriousWakeup(a)
  PROVE  DtorInv'
<1>0. /\ tpc \in [Thread -> {"unborn", "uv_run", "closed", "notify", "dead"}]
      /\ DOMAIN apc = Actor /\ "owner" \in Actor /\ "loop" \in Actor
  BY DEF TypeOK, Actor
<1>1. ASSUME NEW t \in Thread, RunSpawn(t)
      PROVE  DtorInv'
  <2>1. /\ UNCHANGED <<slot, cur, call, owned>> /\ owned
        /\ apc' = [apc EXCEPT !["owner"] = "spawned"]
        /\ InUvRun \subseteq InUvRun'
    BY <1>0, <1>1 DEF RunSpawn, poolVars, InUvRun
  <2>2. \A a \in Actor : apc'[a] \notin Destroying
    BY <1>0, <2>1 DEF DtorInv, OwnerInv, Actor, Destroying
  <2>3. InTcb' = InTcb
    BY <2>1 DEF InTcb
  <2> QED BY <1>0, <2>1, <2>2, <2>3 DEF DtorInv, OwnerInv, LastRefInv, Destroying
<1>2. CASE RunSetFlag \/ StopTest
  <2>1. /\ UNCHANGED <<slot, cur, call, owned, tpc>> /\ owned
        /\ apc' = [apc EXCEPT !["owner"] = "idle"] \/ apc' = [apc EXCEPT !["owner"] = "stop"]
    BY <1>2 DEF RunSetFlag, StopTest, poolVars, DtorInv, OwnerInv, Destroying
  <2>2. \A a \in Actor : apc'[a] \notin Destroying
    BY <1>0, <2>1 DEF DtorInv, OwnerInv, Actor, Destroying
  <2>3. InTcb' = InTcb /\ InUvRun' = InUvRun
    BY <2>1 DEF InTcb, InUvRun
  <2> QED BY <1>0, <2>1, <2>2, <2>3 DEF DtorInv, OwnerInv, LastRefInv, Destroying
<1>3. CASE Release
  <2>1. /\ UNCHANGED <<slot, cur, call, tpc>> /\ owned /\ ~owned'
        /\ apc' = [apc EXCEPT !["owner"] = IF HoldsRef({}) THEN "gone" ELSE "dtor"]
        /\ \A r \in Reqs : call[r] # "checked"
    BY <1>3 DEF Release, poolVars
  <2>2. InTcb' = InTcb /\ InUvRun' = InUvRun /\ HoldsRef({})' = HoldsRef({})
    BY <2>1 DEF InTcb, InUvRun, HoldsRef
  <2>3. apc'["owner"] = (IF HoldsRef({}) THEN "gone" ELSE "dtor") /\ apc'["loop"] = "idle"
    BY <1>0, <2>1 DEF DtorInv, OwnerInv
  <2>4. \A a \in Actor : apc'[a] # "destroyed" /\ (apc'[a] \in Destroying => ~HoldsRef({}))
    BY <2>3 DEF Actor, Destroying
  <2>5. OwnerInv'
    BY <2>1, <2>3 DEF OwnerInv, Destroying
  <2>6. LastRefInv'
    BY <2>1, <2>2, <2>3, <2>4 DEF DtorInv, LastRefInv, Destroying
  <2> QED BY <2>4, <2>5, <2>6 DEF DtorInv
<1>4. ASSUME NEW a \in Actor, StopLocked(a)
      PROVE  DtorInv'
  <2>1. /\ Submit(E_LOOP_STOP) \/ UNCHANGED <<slot, cur>>
        /\ UNCHANGED <<call, owned, tpc>>
        /\ apc[a] \in {"stop", "dtor_stop"}
        /\ apc' = [apc EXCEPT ![a] = IF apc[a] = "stop" THEN "idle" ELSE "test"]
    BY <1>4 DEF StopLocked, poolVars
  <2>2. E_LOOP_STOP \in Work /\ E_LOOP_STOP \notin Reqs
    BY WorkDistinct DEF Work
  <2>3. InTcb' = InTcb /\ cur' = cur /\ (~HoldsRef({}) => ~HoldsRef({})')
    BY <2>1, <2>2, SubmitRefs DEF InTcb, HoldsRef
  <2>4. InUvRun' = InUvRun
    BY <2>1 DEF InUvRun
  <2>5. \A b \in Actor : /\ apc'[b] \in Destroying <=> apc[b] \in Destroying
                         /\ \/ apc[b] \in Destroying \/ apc'[b] = apc[b]
                            \/ apc'[b] = "idle" /\ apc[b] = "stop"
                         /\ apc'[b] # "destroyed" \/ apc[b] = "destroyed"
    BY <1>0, <2>1 DEF Destroying
  <2>6. OwnerInv'
    BY <1>0, <2>1, <2>5 DEF DtorInv, OwnerInv, Destroying
  <2>7. LastRefInv'
    BY <1>0, <2>1, <2>3, <2>4, <2>5 DEF DtorInv, LastRefInv, Destroying
  <2>8. Alive' = Alive
    BY <2>1 DEF Alive
  <2> QED BY <2>5, <2>6, <2>7, <2>8 DEF DtorInv
<1>5. ASSUME NEW a \in Actor, Destructor(a) \/ SpuriousWakeup(a)
      PROVE  DtorInv'
  <2>1. /\ UNCHANGED <<slot, cur, call, owned, tpc>>
        /\ apc[a] \in Destroying
        /\ \E s \in Destroying : /\ apc' = [apc EXCEPT ![a] = s]
                                 /\ s = "destroyed" => ~m_bRunning
    BY <1>5 DEF Destructor, DtorBegin, DtorTest, DtorBlock, SpuriousWakeup, poolVars, Destroying
  <2>2. InTcb' = InTcb /\ InUvRun' = InUvRun /\ HoldsRef({})' = HoldsRef({}) /\ Alive' = Alive
    BY <2>1 DEF InTcb, InUvRun, HoldsRef, Alive
  <2>3. \A b \in Actor : /\ apc'[b] \in Destroying <=> apc[b] \in Destroying
                         /\ apc[b] \in Destroying \/ apc'[b] = apc[b]
                         /\ apc'[b] = "destroyed" => ~m_bRunning \/ apc[b] = "destroyed"
    BY <1>0, <2>1
  <2>4. ~owned /\ apc["owner"] # "spawned"
    BY <1>0, <2>1 DEF DtorInv, OwnerInv, Actor, Destroying
  <2>5. OwnerInv'
    BY <1>0, <2>1, <2>3, <2>4 DEF DtorInv, OwnerInv, Destroying
  <2>6. LastRefInv'
    BY <1>0, <2>1, <2>2, <2>3 DEF DtorInv, LastRefInv, Destroying
  <2>7. \A b \in Actor : apc'[b] = "destroyed" => Alive' = {}
    BY <2>2, <2>3, <2>4 DEF DtorInv, RunningFlagCoversLoop
  <2> QED BY <2>5, <2>6, <2>7 DEF DtorInv
<1> QED BY <1>1, <1>2, <1>3, <1>4, <1>5

\* Over any sequence of runs, stops, requests and releases.
THEOREM DestructorIsLast == Spec => []DestroyedAlone
<1>1. Init => DtorInv
  BY DEF Init, PoolInit, DtorInv, OwnerInv, LastRefInv, Actor, Destroying
<1>2. IInv /\ DtorInv /\ [Next]_vars => DtorInv'
  <2>1. DtorInv /\ UNCHANGED vars => DtorInv'
    BY DEF DtorInv, OwnerInv, LastRefInv, vars, poolVars, lifeVars, InTcb, HoldsRef, InUvRun, Alive
  <2> QED BY <2>1, CallDtorInv, LoopThreadDtorInv, OwnerDtorInv DEF IInv, Next
<1>3. IInv /\ DtorInv => DestroyedAlone
  <2> SUFFICES ASSUME IInv, DtorInv
               PROVE  DestroyedAlone
    OBVIOUS
  <2>1. \A a, b \in Actor : apc[a] \in Destroying /\ apc[b] \in Destroying => a = b
    BY DEF DtorInv, LastRefInv, Actor, Destroying
  <2>2. ASSUME NEW a \in Actor, apc[a] \in Destroying
        PROVE  ~owned /\ ~HoldsRef({}) /\ \A r \in Reqs : call[r] \notin {"checked", "nested"}
    BY <2>2, CallbackHoldsRef DEF IInv, DtorInv, OwnerInv, LastRefInv, Actor, Destroying
  <2>3. apc["loop"] # "destroyed"
    <3>1. InUvRun \subseteq Alive
      BY DEF InUvRun, Alive
    <3> QED BY <3>1 DEF DtorInv, LastRefInv, Actor, Destroying
  <2> QED BY <2>1, <2>2, <2>3 DEF DestroyedAlone, DtorInv
<1> QED BY <1>1, <1>2, <1>3, Invariance, PTL DEF Spec

-----------------------------------------------------------------------------
(* Refinement of RequestChannel.                                           *)

\* The refinement mapping, named.
Waiting == {slot[h] : h \in Range(sent)} \cap Reqs
Serving == {slot[h] : h \in {cur} \ {NoHandle}} \cap Reqs
Served  == {r \in Reqs : ran[r] > 0}
Refused == {r \in Reqs : call[r] \in {"ERR_LOOP_BUSY", "ERR_LOOP_STOP"}}

\* A request that is waiting or being served has a holder in flight.
LEMMA InFlightHasHolder ==
  ASSUME PoolInv(Work), NEW r \in Waiting \cup Serving
  PROVE  \E h \in m_mapAsync : h \in Holders(r)
<1>1. /\ m_mapAsync = Range(sent) \cup ({cur} \ {NoHandle})
      /\ m_mapAsync \subseteq Handle
  BY DEF PoolInv, PoolTypeOK, CallbackFindsHandle
<1> QED BY <1>1 DEF Waiting, Serving, Holders

\* A request without an answer is fresh in the abstract channel.
LEMMA UnansweredIsFresh ==
  ASSUME IInv, NEW r \in Reqs, call[r] \notin Result
  PROVE  r \notin Waiting \cup Serving \cup Served \cup Refused
<1>1. Holders(r) = {} /\ ran[r] = 0
  BY DEF IInv, ExactlyOnce, Result
<1>2. r \notin Waiting \cup Serving
  BY <1>1, InFlightHasHolder DEF IInv
<1> QED BY <1>1, <1>2 DEF Served, Refused, Result

\* With a handle left in the deque the channel has a free place: distinct
\* requests in flight are stored in distinct handles of the map.
LEMMA FreePlace ==
  ASSUME PoolInv(Work), ~Busy
  PROVE  Cardinality(Waiting \cup Serving) < UV_ASYNC_HANDE
<1> DEFINE h == Head(m_dAsync)
           T == {slot[g] : g \in m_mapAsync}
           f == [g \in m_mapAsync |-> slot[g]]
<1>1. IsFiniteSet(Handle) /\ Cardinality(Handle) = UV_ASYNC_HANDE
  BY FS_Interval, PoolAssumption DEF Handle
<1>2. h \in Handle \ m_mapAsync /\ m_mapAsync \subseteq Handle \ {h}
  BY FreshHandle DEF PoolInv, PoolTypeOK
<1>3. IsFiniteSet(Handle \ {h}) /\ Cardinality(Handle \ {h}) = UV_ASYNC_HANDE - 1
  BY <1>1, <1>2, FS_RemoveElement
<1>4. IsFiniteSet(m_mapAsync) /\ Cardinality(m_mapAsync) <= UV_ASYNC_HANDE - 1
  BY <1>2, <1>3, FS_Subset
<1>5. f \in Surjection(m_mapAsync, T)
  BY DEF Surjection
<1>6. IsFiniteSet(T) /\ Cardinality(T) <= Cardinality(m_mapAsync)
  BY <1>4, <1>5, FS_Surjection
<1>7. Waiting \cup Serving \subseteq T
  BY InFlightHasHolder DEF Holders
<1>8. /\ IsFiniteSet(Waiting \cup Serving)
      /\ Cardinality(Waiting \cup Serving) <= Cardinality(T)
  BY <1>6, <1>7, FS_Subset
<1>9. /\ Cardinality(m_mapAsync) \in Nat /\ Cardinality(T) \in Nat
      /\ Cardinality(Waiting \cup Serving) \in Nat
  BY <1>4, <1>6, <1>8, FS_CardinalityType
<1> HIDE DEF T
<1> QED BY <1>4, <1>6, <1>8, <1>9, PoolAssumption

\* Submit adds its work to what is waiting if it is a request.
LEMMA SubmitWaiting ==
  ASSUME PoolInv(Work), NEW w \in Work, Submit(w)
  PROVE  Waiting' = (Waiting \cup {w}) \cap Reqs /\ Serving' = Serving
<1> DEFINE h == Head(m_dAsync)
<1>1. h \in Handle /\ h \notin Range(sent) /\ h # cur
  BY FreshHandle DEF Submit
<1>2. Range(sent') = Range(sent) \cup {h}
  BY SubmitInv
<1>3. slot' = [slot EXCEPT ![h] = w] /\ cur' = cur
  BY DEF Submit
<1>4. slot'[h] = w /\ \A g \in Handle \ {h} : slot'[g] = slot[g]
  BY <1>1, <1>3 DEF PoolInv, PoolTypeOK
<1>5. Range(sent) \subseteq Handle \ {h} /\ {cur} \ {NoHandle} \subseteq Handle \ {h}
  BY <1>1 DEF PoolInv, PoolTypeOK, CallbackFindsHandle
<1> HIDE DEF h
<1> QED BY <1>2, <1>3, <1>4, <1>5 DEF Waiting, Serving

\* ClearTcb ends the service and leaves what is waiting.
LEMMA ClearTcbServing ==
  ASSUME PoolInv(Work), cur # NoHandle, ClearTcb
  PROVE  Serving' = {} /\ Waiting' = Waiting
<1>1. /\ cur \in Handle /\ cur \notin Range(sent) /\ Range(sent) \subseteq Handle
      /\ slot \in [Handle -> Work \cup {Nothing}]
  BY DEF PoolInv, PoolTypeOK, CallbackFindsHandle
<1>2. slot' = [slot EXCEPT ![cur] = Nothing] /\ sent' = sent /\ cur' = cur
  BY DEF ClearTcb
<1> QED BY <1>1, <1>2, WorkDistinct DEF Waiting, Serving

LEMMA InitChannel ==
  ASSUME Init
  PROVE  Waiting = {} /\ Serving = {} /\ Served = {} /\ Refused = {}
<1>1. Range(sent) = {}
  BY EmptySeq DEF Init, PoolInit, Range
<1> QED BY <1>1 DEF Init, PoolInit, Waiting, Serving, Served, Refused

\* The actions of the abstract channel under the mapping.
LEMMA ChannelAccept ==
  ASSUME NEW r \in Reqs
  PROVE  Channel!Accept(r) <=>
           /\ r \in Reqs \ (Waiting \cup Serving \cup Served \cup Refused)
           /\ Cardinality(Waiting \cup Serving) < UV_ASYNC_HANDE
           /\ Waiting' = Waiting \cup {r}
           /\ UNCHANGED <<Serving, Served, Refused>>
BY DEF Channel!Accept, Channel!Fresh, Waiting, Serving, Served, Refused,
       Channel!Cardinality, Cardinality, Channel!IsFiniteSet, IsFiniteSet

LEMMA ChannelBegin ==
  ASSUME NEW r \in Reqs
  PROVE  Channel!Begin(r) <=>
           /\ r \in Waiting
           /\ Serving = {}
           /\ Waiting' = Waiting \ {r}
           /\ Serving' = {r}
           /\ UNCHANGED <<Served, Refused>>
BY DEF Channel!Begin, Waiting, Serving, Served, Refused

LEMMA ChannelEnd ==
  ASSUME NEW r \in Reqs
  PROVE  Channel!End(r) <=>
           /\ r \in Serving
           /\ Serving' = {}
           /\ Served' = Served \cup {r}
           /\ UNCHANGED <<Waiting, Refused>>
BY DEF Channel!End, Waiting, Serving, Served, Refused

\* Every step of the loop is a step of the channel or a stutter.
LEMMA NextChannel ==
  ASSUME IInv, [Next]_vars
  PROVE  [Channel!Next]_(Channel!vars)
<1> DEFINE Goal == [Channel!Next]_(Channel!vars)
<1> USE DEF IInv
<1>a. call \in [Reqs -> {"idle", "checked", "nested"} \cup Result] /\ ran \in [Reqs -> Nat]
  BY DEF TypeOK
<1>1. ASSUME UNCHANGED <<Waiting, Serving, Served, Refused>>
      PROVE  Goal
  BY <1>1 DEF Channel!vars, Waiting, Serving, Served, Refused
<1>2. ASSUME UNCHANGED <<sent, slot, cur, call, ran>>
      PROVE  Goal
  BY <1>1, <1>2 DEF Waiting, Serving, Served, Refused
<1>3. CASE UNCHANGED vars
  BY <1>2, <1>3 DEF vars, poolVars
<1>4. ASSUME NEW r \in Reqs, r \notin Waiting \cup Serving \cup Served \cup Refused,
             Refused' = Refused \cup {r}, UNCHANGED <<Waiting, Serving, Served>>
      PROVE  Goal
  <2>1. Channel!Refuse(r)
    BY <1>4 DEF Channel!Refuse, Channel!Fresh, Waiting, Serving, Served, Refused
  <2> QED BY <2>1 DEF Channel!Next
<1>5. ASSUME NEW r \in Reqs, AddReqTest(r) \/ AddReqTestNested(r)
      PROVE  Goal
  <2>1. /\ call[r] = "idle"
        /\ call' = [call EXCEPT ![r] = call'[r]]
        /\ call'[r] \in {"checked", "nested", "ERR_LOOP_STOP"}
        /\ UNCHANGED <<sent, slot, cur, ran>>
    BY <1>5, <1>a DEF AddReqTest, AddReqTestNested, poolVars
  <2>2. UNCHANGED <<Waiting, Serving, Served>>
    BY <2>1 DEF Waiting, Serving, Served
  <2>3. CASE call'[r] = "ERR_LOOP_STOP"
    <3>1. Refused' = Refused \cup {r}
      BY <2>1, <2>3, <1>a DEF Refused
    <3>2. r \notin Waiting \cup Serving \cup Served \cup Refused
      BY <2>1, UnansweredIsFresh DEF Result
    <3> QED BY <1>4, <2>2, <3>1, <3>2
  <2>4. CASE call'[r] # "ERR_LOOP_STOP"
    <3>1. Refused' = Refused
      BY <2>1, <2>4, <1>a DEF Refused
    <3> QED BY <1>1, <2>2, <3>1
  <2> QED BY <2>3, <2>4
<1>6. ASSUME NEW r \in Reqs, AddReqLocked(r)
      PROVE  Goal
  <2>1. call[r] \notin Result /\ UNCHANGED ran
    BY <1>6 DEF AddReqLocked, Result
  <2>2. r \notin Waiting \cup Serving \cup Served \cup Refused
    BY <2>1, UnansweredIsFresh
  <2>3. CASE UNCHANGED poolVars /\ call' = [call EXCEPT ![r] = "ERR_LOOP_BUSY"]
    <3>1. UNCHANGED <<Waiting, Serving, Served>>
      BY <2>1, <2>3 DEF poolVars, Waiting, Serving, Served
    <3>2. Refused' = Refused \cup {r}
      BY <2>3, <1>a DEF Refused
    <3> QED BY <1>4, <2>2, <3>1, <3>2
  <2>4. CASE Submit(r) /\ call' = [call EXCEPT ![r] = "ERR_LOOP_NO_ERR"]
    <3>1. Waiting' = Waiting \cup {r} /\ Serving' = Serving
      BY <2>4, SubmitWaiting DEF Work, Waiting
    <3>2. Served' = Served
      BY <2>1 DEF Served
    <3>3. Refused' = Refused
      BY <2>1, <2>4, <1>a DEF Refused, Result
    <3>4. Cardinality(Waiting \cup Serving) < UV_ASYNC_HANDE
      BY <2>4, FreePlace DEF Submit
    <3>5. Channel!Accept(r)
      BY <2>2, <3>1, <3>2, <3>3, <3>4, ChannelAccept
    <3> QED BY <3>5 DEF Channel!Next
  <2> QED BY <1>6, <2>3, <2>4 DEF AddReqLocked
<1>7. ASSUME NEW a \in Actor, StopLocked(a)
      PROVE  Goal
  <2>1. UNCHANGED <<call, ran>>
    BY <1>7 DEF StopLocked
  <2>2. CASE Submit(E_LOOP_STOP)
    <3>1. Waiting' = Waiting /\ Serving' = Serving
      BY <2>2, SubmitWaiting, WorkDistinct DEF Work, Waiting
    <3> QED BY <1>1, <2>1, <3>1 DEF Served, Refused
  <2>3. CASE UNCHANGED poolVars
    BY <1>2, <2>1, <2>3 DEF poolVars
  <2> QED BY <1>7, <2>2, <2>3 DEF StopLocked
<1>8. ASSUME NEW t \in Thread, FireHandle(t)
      PROVE  Goal
  <2>1. /\ cur = NoHandle /\ cur' \in Range(sent) /\ cur' \in Handle
        /\ Range(sent') = Range(sent) \ {cur'}
        /\ UNCHANGED <<slot, call, ran>>
    BY <1>8, FireInv DEF FireHandle
  <2>2. Serving = {} /\ Served' = Served /\ Refused' = Refused
    BY <2>1 DEF Serving, Served, Refused
  <2>3. NoHandle \notin Handle /\ Range(sent) \subseteq Handle
    BY PoolAssumption DEF NoHandle, Handle, PoolInv, PoolTypeOK, CallbackFindsHandle
  <2>4. CASE slot[cur'] \in Reqs
    <3>. PICK r \in Reqs : r = slot[cur']
      BY <2>4
    <3>1. r \in Waiting /\ Serving' = {r}
      BY <2>1, <2>3 DEF Waiting, Serving
    <3>2. \A h \in Range(sent) : slot[h] = r => h = cur'
      BY <2>1, <2>3 DEF ExactlyOnce, Holders
    <3>3. Waiting' = Waiting \ {r}
      BY <2>1, <3>2 DEF Waiting
    <3>4. Channel!Begin(r)
      BY <2>2, <3>1, <3>3, ChannelBegin
    <3> QED BY <3>4 DEF Channel!Next
  <2>5. CASE slot[cur'] \notin Reqs
    <3>1. Waiting' = Waiting /\ Serving' = {}
      BY <2>1, <2>5 DEF Waiting, Serving
    <3> QED BY <1>1, <2>2, <3>1
  <2> QED BY <2>4, <2>5
<1>9. ASSUME NEW t \in Thread, RunRequest(t)
      PROVE  Goal
  <2>. PICK r \in Reqs : r = slot[cur]
    BY <1>9 DEF RunRequest, InTcb
  <2>1. /\ cur # NoHandle /\ ClearTcb
        /\ ran' = [ran EXCEPT ![r] = @ + 1] /\ UNCHANGED call
    BY <1>9 DEF RunRequest, InTcb
  <2>2. r \in Serving
    BY <2>1 DEF Serving
  <2>3. Serving' = {} /\ Waiting' = Waiting
    BY <2>1, ClearTcbServing
  <2>4. Served' = Served \cup {r} /\ Refused' = Refused
    BY <2>1, <1>a DEF Served, Refused
  <2>5. Channel!End(r)
    BY <2>1, <2>2, <2>3, <2>4, ChannelEnd
  <2> QED BY <2>5 DEF Channel!Next
<1>10. ASSUME NEW t \in Thread, RunStop(t)
       PROVE  Goal
  <2>1. /\ cur # NoHandle /\ slot[cur] = E_LOOP_STOP /\ ClearTcb
        /\ UNCHANGED <<call, ran>>
    BY <1>10 DEF RunStop
  <2>2. Serving = {}
    BY <2>1, WorkDistinct DEF Serving
  <2>3. Serving' = {} /\ Waiting' = Waiting
    BY <2>1, ClearTcbServing
  <2> QED BY <1>1, <2>1, <2>2, <2>3 DEF Served, Refused
<1>11. ASSUME NEW t \in Thread, ReturnHandle(t)
       PROVE  Goal
  <2>1. /\ slot[cur] = Nothing /\ cur' = NoHandle
        /\ UNCHANGED <<slot, sent, call, ran>>
    BY <1>11 DEF ReturnHandle, Recycle
  <2>2. Serving = {} /\ Serving' = {} /\ Waiting' = Waiting
    BY <2>1, WorkDistinct DEF Serving, Waiting
  <2> QED BY <1>1, <2>1, <2>2 DEF Served, Refused
<1>12. ASSUME NEW t \in Thread, RunSpawn(t) \/ UvRunReturns(t) \/ ClearFlag(t) \/ NotifyAll(t)
       PROVE  Goal
  BY <1>2, <1>12 DEF RunSpawn, UvRunReturns, ClearFlag, NotifyAll, poolVars
<1>13. CASE RunSetFlag \/ StopTest \/ Release
  BY <1>2, <1>13 DEF RunSetFlag, StopTest, Release, poolVars
<1>14. ASSUME NEW a \in Actor, Destructor(a) \/ SpuriousWakeup(a)
       PROVE  Goal
  BY <1>2, <1>14
     DEF Destructor, DtorBegin, DtorTest, DtorBlock, SpuriousWakeup, poolVars
<1> QED
  BY <1>3, <1>5, <1>6, <1>7, <1>8, <1>9, <1>10, <1>11, <1>12, <1>13, <1>14
     DEF Next, LoopThread

\* The loop implements the abstract channel of UV_ASYNC_HANDE places: no
\* client can tell them apart, whatever the order of the wake-ups and the
\* interleaving of run, stop and ~uvloop.
THEOREM LoopImplementsChannel == Spec => ImplementsChannel
<1>1. Init => Channel!Init
  BY InitChannel DEF Channel!Init, Waiting, Serving, Served, Refused
<1>2. IInv /\ [Next]_vars => [Channel!Next]_(Channel!vars)
  BY NextChannel
<1> QED BY <1>1, <1>2, Invariance, PTL DEF Spec, ImplementsChannel, Channel!Spec
=============================================================================
