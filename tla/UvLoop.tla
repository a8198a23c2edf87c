------------------------------- MODULE UvLoop -------------------------------
(***************************************************************************)
(* The life of a uvloop (libuvcpp/loop.h, loop.cpp): clients call AddReq   *)
(* from any thread, an owner calls run and stop and finally drops its      *)
(* reference, and the detached thread started by run executes uv_run.      *)
(*                                                                         *)
(* Every request the library submits binds an object whose m_ploop is a    *)
(* shared_ptr to the loop, so a stored tcb keeps the loop alive; whoever   *)
(* drops the last reference runs ~uvloop, be it the owner or the loop      *)
(* thread at tcb = nullptr.  m_lockAsync makes the accesses to the pool    *)
(* atomic; m_bRunning is a plain bool read and written without a lock.     *)
(***************************************************************************)
EXTENDS AsyncPool

CONSTANTS
  Reqs,         \* the calls of AddReq, each made at most once
  E_LOOP_STOP,  \* the work of a handle taken by stop
  MaxRuns,      \* bound on the threads run may start
  MaxStops      \* bound on the owner's calls of stop

ASSUME LoopAssumption ==
  /\ Nothing \notin Reqs \cup {E_LOOP_STOP}
  /\ E_LOOP_STOP \notin Reqs
  /\ MaxRuns \in Nat
  /\ MaxStops \in Nat

VARIABLES
  m_bRunning,
  call,       \* progress or result of each call of AddReq
  ran,        \* how often each request has been executed
  tpc,        \* where each loop thread is in theadRun
  stop_flag,  \* libuv's flag set by uv_stop
  owned,      \* is there still a reference outside the stored requests?
  apc,        \* where the owner and the loop thread are in run, stop, ~uvloop
  stops       \* number of calls of stop

lifeVars == <<m_bRunning, tpc, stop_flag, owned, apc, stops>>
vars == <<poolVars, lifeVars, call, ran>>

Thread == 1 .. MaxRuns
Actor  == {"owner", "loop"}
Result == {"ERR_LOOP_NO_ERR", "ERR_LOOP_BUSY", "ERR_LOOP_STOP"}

TypeOK ==
  /\ PoolTypeOK(Reqs \cup {E_LOOP_STOP})
  /\ m_bRunning \in BOOLEAN
  /\ call \in [Reqs -> {"idle", "checked", "nested"} \cup Result]
  /\ ran \in [Reqs -> Nat]
  /\ tpc \in [Thread -> {"unborn", "uv_run", "closed", "notify", "dead"}]
  /\ stop_flag \in BOOLEAN
  /\ owned \in BOOLEAN
  /\ apc \in [Actor -> {"idle", "spawned", "stop", "dtor", "dtor_stop",
                        "test", "block", "asleep", "gone", "destroyed"}]
  /\ stops \in 0 .. MaxStops

Init ==
  /\ PoolInit
  /\ m_bRunning = FALSE
  /\ call = [r \in Reqs |-> "idle"]
  /\ ran = [r \in Reqs |-> 0]
  /\ tpc = [t \in Thread |-> "unborn"]
  /\ stop_flag = FALSE
  /\ owned = TRUE
  /\ apc = [a \in Actor |-> "idle"]
  /\ stops = 0

\* Is the loop thread executing the callback of a request?
InTcb == cur # NoHandle /\ slot[cur] \in Reqs

\* Does a handle other than those in S store a request, hence a reference?
HoldsRef(S) == \E h \in Handle \ S : slot[h] \in Reqs

-----------------------------------------------------------------------------
(* AddReq: the unlocked test of m_bRunning, then the locked part.  It is   *)
(* called by a client thread, which owns a reference, or by the loop       *)
(* thread from inside a callback (nested).                                 *)

AddReqTest(r) ==
  /\ call[r] = "idle"
  /\ owned
  /\ call' = [call EXCEPT ![r] = IF m_bRunning THEN "checked" ELSE "ERR_LOOP_STOP"]
  /\ UNCHANGED <<poolVars, lifeVars, ran>>

AddReqTestNested(r) ==
  /\ call[r] = "idle"
  /\ InTcb
  /\ \A q \in Reqs : call[q] # "nested"
  /\ call' = [call EXCEPT ![r] = IF m_bRunning THEN "nested" ELSE "ERR_LOOP_STOP"]
  /\ UNCHANGED <<poolVars, lifeVars, ran>>

\* Faulty variant: the caller is not told that the deque was empty.
AddReqLockedNeverBusy(r) ==
  /\ call[r] \in {"checked", "nested"}
  /\ Submit(r) \/ (Busy /\ UNCHANGED poolVars)
  /\ call' = [call EXCEPT ![r] = "ERR_LOOP_NO_ERR"]
  /\ UNCHANGED <<lifeVars, ran>>

AddReqLocked(r) ==
  /\ call[r] \in {"checked", "nested"}
  /\ \/ /\ Busy
        /\ call' = [call EXCEPT ![r] = "ERR_LOOP_BUSY"]
        /\ UNCHANGED poolVars
     \/ /\ Submit(r)
        /\ call' = [call EXCEPT ![r] = "ERR_LOOP_NO_ERR"]
  /\ UNCHANGED <<lifeVars, ran>>

-----------------------------------------------------------------------------
(* The owner: run, stop, and the release of the last outside reference.    *)

\* Faulty variant: run without its test of m_bRunning.
RunSpawnUntested(t) ==
  /\ apc["owner"] = "idle" /\ owned
  /\ tpc[t] = "unborn" /\ \A s \in 1 .. t - 1 : tpc[s] # "unborn"
  /\ tpc' = [tpc EXCEPT ![t] = "uv_run"]
  /\ apc' = [apc EXCEPT !["owner"] = "spawned"]
  /\ UNCHANGED <<poolVars, call, ran, m_bRunning, stop_flag, owned, stops>>

\* run starts the thread before it sets the flag.
RunSpawn(t) ==
  /\ apc["owner"] = "idle" /\ owned
  /\ ~m_bRunning
  /\ tpc[t] = "unborn" /\ \A s \in 1 .. t - 1 : tpc[s] # "unborn"
  /\ tpc' = [tpc EXCEPT ![t] = "uv_run"]
  /\ apc' = [apc EXCEPT !["owner"] = "spawned"]
  /\ UNCHANGED <<poolVars, call, ran, m_bRunning, stop_flag, owned, stops>>

RunSetFlag ==
  /\ apc["owner"] = "spawned"
  /\ m_bRunning' = TRUE
  /\ apc' = [apc EXCEPT !["owner"] = "idle"]
  /\ UNCHANGED <<poolVars, call, ran, tpc, stop_flag, owned, stops>>

StopTest ==
  /\ apc["owner"] = "idle" /\ owned
  /\ stops < MaxStops
  /\ m_bRunning
  /\ apc' = [apc EXCEPT !["owner"] = "stop"]
  /\ stops' = stops + 1
  /\ UNCHANGED <<poolVars, call, ran, m_bRunning, tpc, stop_flag, owned>>

\* The locked part of stop; with the pool empty it returns having done nothing.
StopLocked(a) ==
  /\ apc[a] \in {"stop", "dtor_stop"}
  /\ Submit(E_LOOP_STOP) \/ (Busy /\ UNCHANGED poolVars)
  /\ apc' = [apc EXCEPT ![a] = IF @ = "stop" THEN "idle" ELSE "test"]
  /\ UNCHANGED <<call, ran, m_bRunning, tpc, stop_flag, owned, stops>>

\* The last reference outside the requests goes; no call through it is open.
Release ==
  /\ apc["owner"] = "idle" /\ owned
  /\ \A r \in Reqs : call[r] # "checked"
  /\ owned' = FALSE
  /\ apc' = [apc EXCEPT !["owner"] = IF HoldsRef({}) THEN "gone" ELSE "dtor"]
  /\ UNCHANGED <<poolVars, call, ran, m_bRunning, tpc, stop_flag, stops>>

-----------------------------------------------------------------------------
(* ~uvloop, run by actor a: stop(), then wait until m_bRunning is false.   *)

DtorBegin(a) ==
  /\ apc[a] = "dtor"
  /\ apc' = [apc EXCEPT ![a] = IF m_bRunning THEN "dtor_stop" ELSE "test"]
  /\ UNCHANGED <<poolVars, call, ran, m_bRunning, tpc, stop_flag, owned, stops>>

DtorTest(a) ==
  /\ apc[a] = "test"
  /\ apc' = [apc EXCEPT ![a] = IF m_bRunning THEN "block" ELSE "destroyed"]
  /\ UNCHANGED <<poolVars, call, ran, m_bRunning, tpc, stop_flag, owned, stops>>

DtorBlock(a) ==
  /\ apc[a] = "block"
  /\ apc' = [apc EXCEPT ![a] = "asleep"]
  /\ UNCHANGED <<poolVars, call, ran, m_bRunning, tpc, stop_flag, owned, stops>>

SpuriousWakeup(a) ==
  /\ apc[a] = "asleep"
  /\ apc' = [apc EXCEPT ![a] = "test"]
  /\ UNCHANGED <<poolVars, call, ran, m_bRunning, tpc, stop_flag, owned, stops>>

-----------------------------------------------------------------------------
(* The loop thread: callbacks of the handles inside uv_run, then the end   *)
(* of theadRun.  uv_loop_close fails with UV_EBUSY, since the async        *)
(* handles are never closed, and changes nothing.                          *)

FireHandle(t) ==
  /\ tpc[t] = "uv_run"
  /\ Fire
  /\ UNCHANGED <<lifeVars, call, ran>>

\* tcb(); tcb = nullptr.  Dropping the closure may drop the last reference.
RunRequest(t) ==
  /\ tpc[t] = "uv_run"
  /\ InTcb
  /\ \A q \in Reqs : call[q] # "nested"
  /\ ran' = [ran EXCEPT ![slot[cur]] = @ + 1]
  /\ ClearTcb
  /\ apc' = IF owned \/ HoldsRef({cur}) THEN apc ELSE [apc EXCEPT !["loop"] = "dtor"]
  /\ UNCHANGED <<call, m_bRunning, tpc, stop_flag, owned, stops>>

\* Faulty variant: the callback forgets uv_stop.
RunStopNoUvStop(t) ==
  /\ tpc[t] = "uv_run"
  /\ cur # NoHandle /\ slot[cur] = E_LOOP_STOP
  /\ ClearTcb
  /\ UNCHANGED <<lifeVars, call, ran>>

RunStop(t) ==
  /\ tpc[t] = "uv_run"
  /\ cur # NoHandle /\ slot[cur] = E_LOOP_STOP
  /\ stop_flag' = TRUE
  /\ ClearTcb
  /\ UNCHANGED <<call, ran, m_bRunning, tpc, owned, apc, stops>>

ReturnHandle(t) ==
  /\ tpc[t] = "uv_run"
  /\ apc["loop"] = "idle"
  /\ Recycle
  /\ UNCHANGED <<lifeVars, call, ran>>

\* uv_run leaves at the end of an iteration, so it may first call back more.
UvRunReturns(t) ==
  /\ tpc[t] = "uv_run"
  /\ stop_flag /\ cur = NoHandle
  /\ stop_flag' = FALSE
  /\ tpc' = [tpc EXCEPT ![t] = "closed"]
  /\ UNCHANGED <<poolVars, call, ran, m_bRunning, owned, apc, stops>>

ClearFlag(t) ==
  /\ tpc[t] = "closed"
  /\ m_bRunning' = FALSE
  /\ tpc' = [tpc EXCEPT ![t] = "notify"]
  /\ UNCHANGED <<poolVars, call, ran, stop_flag, owned, apc, stops>>

\* notify_all wakes whoever is blocked at this moment; no lock is held.
NotifyAll(t) ==
  /\ tpc[t] = "notify"
  /\ tpc' = [tpc EXCEPT ![t] = "dead"]
  /\ apc' = [a \in Actor |-> IF apc[a] = "asleep" THEN "test" ELSE apc[a]]
  /\ UNCHANGED <<poolVars, call, ran, m_bRunning, stop_flag, owned, stops>>

-----------------------------------------------------------------------------
LoopThread(t) ==
  \/ FireHandle(t) \/ RunRequest(t) \/ RunStop(t) \/ ReturnHandle(t)
  \/ UvRunReturns(t) \/ ClearFlag(t) \/ NotifyAll(t)

Destructor(a) == DtorBegin(a) \/ DtorTest(a) \/ DtorBlock(a)

Next ==
  \/ \E r \in Reqs : AddReqTest(r) \/ AddReqTestNested(r) \/ AddReqLocked(r)
  \/ \E t \in Thread : RunSpawn(t) \/ LoopThread(t)
  \/ RunSetFlag \/ StopTest \/ Release
  \/ \E a \in Actor : StopLocked(a) \/ Destructor(a) \/ SpuriousWakeup(a)

Spec == Init /\ [][Next]_vars

\* Whatever has been started goes on: the operating system schedules the
\* loop thread and every thread that is inside a call.  Nobody is obliged to
\* make a call, and spurious wake-ups are not guaranteed.
Fairness ==
  /\ \A r \in Reqs : WF_vars(AddReqLocked(r))
  /\ WF_vars(RunSetFlag)
  /\ \A a \in Actor : WF_vars(StopLocked(a)) /\ WF_vars(Destructor(a))
  /\ \A t \in Thread : WF_vars(LoopThread(t))

FairSpec == Spec /\ Fairness

-----------------------------------------------------------------------------
(* Safety.                                                                 *)

InUvRun == {t \in Thread : tpc[t] = "uv_run"}

\* The threads that have yet to reset m_bRunning.
Alive == {t \in Thread : tpc[t] \in {"uv_run", "closed"}}

\* The handles that store request r.
Holders(r) == {h \in Handle : slot[h] = r}

\* The caller of AddReq is told the truth, whatever the interleaving of
\* clients, stop, restarts and callbacks (loop.cpp:117-144, 28-29): a request
\* answered ERR_LOOP_NO_ERR is stored in exactly one handle in flight or has
\* been executed exactly once and is stored nowhere; any other is neither.
ExactlyOnce ==
  \A r \in Reqs :
    /\ Holders(r) \subseteq m_mapAsync
    /\ \A g, h \in Holders(r) : g = h
    /\ IF call[r] = "ERR_LOOP_NO_ERR"
       THEN ran[r] = IF Holders(r) = {} THEN 1 ELSE 0
       ELSE Holders(r) = {} /\ ran[r] = 0

\* uv_run is not reentrant.  Although run starts the thread first and sets
\* the flag afterwards (loop.cpp:82-87), over any sequence of runs and stops
\* at most one thread is between uv_run and the reset of m_bRunning.
OneLoopThread == \A s, t \in Alive : s = t

\* Until theadRun resets it, AddReq and stop see m_bRunning set while a loop
\* thread is alive (loop.cpp:75, 93, 119), except between the two statements
\* of run.
RunningFlagCoversLoop ==
  Alive # {} => m_bRunning \/ apc["owner"] = "spawned"

-----------------------------------------------------------------------------
(* Refinement: the loop is a RequestChannel of UV_ASYNC_HANDE places.      *)

Channel == INSTANCE RequestChannel WITH
  Requests <- Reqs,
  Capacity <- UV_ASYNC_HANDE,
  waiting  <- {slot[h] : h \in Range(sent)} \cap Reqs,
  serving  <- {slot[h] : h \in {cur} \ {NoHandle}} \cap Reqs,
  served   <- {r \in Reqs : ran[r] > 0},
  refused  <- {r \in Reqs : call[r] \in {"ERR_LOOP_BUSY", "ERR_LOOP_STOP"}}

\* What the clients of AddReq see of handles, wake-ups, the flag and the
\* threads is the abstract channel.
ImplementsChannel == Channel!Spec

-----------------------------------------------------------------------------
(* Liveness, under FairSpec.                                               *)

\* An accepted request is executed unless the loop stops first; the deque
\* of handles cannot starve it (loop.cpp:133-141, 28).
AcceptedRuns ==
  \A r \in Reqs :
    call[r] = "ERR_LOOP_NO_ERR" ~> ran[r] = 1 \/ InUvRun = {}

\* ERR_LOOP_BUSY is a passing condition ("loop busy, wait later",
\* loop.cpp:128): while the loop runs the deque gets a handle back, unless
\* the callback in progress has ended in ~uvloop.
PoolRefills ==
  Busy ~> ~Busy \/ InUvRun = {} \/ apc["loop"] # "idle"

\* A stop that found a handle ends the loop (loop.cpp:102-112, 33, 73-76):
\* the thread leaves uv_run, and afterwards theadRun comes to its end.
StopEndsLoop ==
  \A t \in Thread :
    /\ (\E h \in Handle : slot[h] = E_LOOP_STOP) /\ tpc[t] = "uv_run"
         ~> tpc[t] # "uv_run" \/ apc["loop"] # "idle"
    /\ tpc[t] = "closed" ~> tpc[t] = "dead"

-----------------------------------------------------------------------------
(* What comments of the source say and the code does not do.               *)

\* loop.cpp:65 "waiting for uv_loop stop": a destructor that waits wakes up
\* once the flag is down.  theadRun writes the flag and notifies without
\* m_RunningLock, so both may fall between the test and the block.
DestructorWakes ==
  apc["owner"] = "asleep" /\ ~m_bRunning ~> apc["owner"] # "asleep"

\* loop.cpp:65 again: the one who waits for the loop is not the loop itself.
NoSelfWait == apc["loop"] \notin {"block", "asleep"}
=============================================================================
