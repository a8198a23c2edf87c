------------------------------ MODULE UvTimer ------------------------------
(***************************************************************************)
(* uvtimer (libuvcpp/timer.h, timer.cpp): client threads and the timer's   *)
(* own callback call startTimer, StopTimer and SetTimer; the uv_timer_t is *)
(* touched on the loop thread alone, by requests sent through the pool of  *)
(* the loop.  m_bTimerStarted, m_bRestartTimer and m_repeat are plain      *)
(* fields shared by all threads.  The loop runs throughout; the requests   *)
(* of the other users of the loop are a single kind of work, Other.        *)
(*                                                                         *)
(* The class says nothing about how it may be used.  The users of a        *)
(* behaviour are careful or not: a careful one makes a call only when the  *)
(* earlier ones have taken effect, never stops a timer that was never      *)
(* started, and shares the loop with users who leave it two handles.  This *)
(* tells what holds for anyone from what holds under these rules only.     *)
(***************************************************************************)
EXTENDS AsyncPool

CONSTANTS
  Clients,     \* client threads
  Callback,    \* the caller that stands for m_pTimercb, on the loop thread
  LateSet,     \* may SetTimer be called while the timer is in use?
  MaxCalls,    \* bound on the calls of startTimer, StopTimer and SetTimer
  MaxCareless  \* the same bound, for users who are not careful

ASSUME TimerAssumption ==
  /\ Callback \notin Clients
  /\ LateSet \in BOOLEAN
  /\ MaxCalls \in Nat /\ MaxCareless \in Nat
  /\ Nothing \notin {"E_TIMER_START", "E_TIMER_STOP", "Other"}

VARIABLES
  m_bTimerStarted,
  m_bRestartTimer,
  m_repeat,  \* is m_repeat other than 0?
  handle,    \* the uv_timer_t: no uv_timer_init yet, inactive, or armed
  misused,   \* has libuv been called with a handle it must not be given?
  pc,        \* the request each caller is about to make
  lpc,       \* where the loop thread is inside a callback
  last,      \* the last start or stop accepted since the last SetTimer
  calls,     \* number of calls so far
  careful    \* are the users careful?

timerVars == <<m_bTimerStarted, m_bRestartTimer, m_repeat, handle, misused,
               pc, lpc, last, calls, careful>>
vars == <<poolVars, timerVars>>

Caller == Clients \cup {Callback}
Work   == {"E_TIMER_START", "E_TIMER_STOP", "Other"}
Armed  == {"once", "repeating"}
Bound  == IF careful THEN MaxCalls ELSE MaxCareless

TypeOK ==
  /\ PoolTypeOK(Work)
  /\ m_bTimerStarted \in BOOLEAN
  /\ m_bRestartTimer \in BOOLEAN
  /\ m_repeat \in BOOLEAN
  /\ handle \in {"raw", "inactive"} \cup Armed
  /\ misused \in BOOLEAN
  /\ pc \in [Caller -> {"idle", "start", "stop", "force"}]
  /\ lpc \in {"idle", "timercb", "stopped", "clear", "restart", "return"}
  /\ last \in {"none", "start", "stop"}
  /\ careful \in BOOLEAN
  /\ calls \in 0 .. Bound

Init ==
  /\ PoolInit
  /\ m_bTimerStarted = FALSE
  /\ m_bRestartTimer = FALSE
  /\ m_repeat = FALSE
  /\ handle = "raw"
  /\ misused = FALSE
  /\ pc = [c \in Caller |-> "idle"]
  /\ lpc = "idle"
  /\ last = "none"
  /\ calls = 0
  /\ careful \in BOOLEAN

\* No call on the timer is in progress, in flight or being executed.
Quiescent ==
  /\ \A c \in Caller : pc[c] = "idle"
  /\ \A h \in Handle : slot[h] \in {Nothing, "Other"}
  /\ lpc \in {"idle", "timercb"}

\* May c make a call?  The callback of the timer is the caller Callback.
MayCall(c) ==
  /\ pc[c] = "idle"
  /\ calls < Bound
  /\ c = Callback => lpc = "timercb"
  /\ careful => Quiescent

-----------------------------------------------------------------------------
(* The callers.                                                            *)

\* Unless LateSet, callers set the timer up while it is not in use.
SetTimer(c, repeat) ==
  /\ MayCall(c)
  /\ LateSet \/ (handle \notin Armed /\ Quiescent /\ lpc = "idle")
  /\ m_repeat' = repeat
  /\ last' = "none"
  /\ calls' = calls + 1
  /\ UNCHANGED <<poolVars, m_bTimerStarted, m_bRestartTimer, handle, misused,
                 pc, lpc, careful>>

\* Faulty variant: startTimer without its test of m_bTimerStarted.
StartTimerIgnoresFlag(c, bForceRestart) ==
  /\ MayCall(c)
  /\ calls' = calls + 1
  /\ pc' = [pc EXCEPT ![c] = "start"]
  /\ UNCHANGED <<poolVars, m_bTimerStarted, m_bRestartTimer, m_repeat, handle,
                 misused, lpc, last, careful>>

\* startTimer up to its call of AddReq, if there is one.
StartTimer(c, bForceRestart) ==
  /\ MayCall(c)
  /\ calls' = calls + 1
  /\ \/ /\ ~m_bTimerStarted
        /\ pc' = [pc EXCEPT ![c] = "start"]
        /\ UNCHANGED <<m_bRestartTimer, last>>
     \/ /\ m_bTimerStarted /\ bForceRestart
        /\ m_bRestartTimer' = TRUE
        /\ pc' = [pc EXCEPT ![c] = "force"]
        /\ UNCHANGED last
     \/ /\ m_bTimerStarted /\ ~bForceRestart
        /\ last' = "start"
        /\ UNCHANGED <<m_bRestartTimer, pc>>
  /\ UNCHANGED <<poolVars, m_bTimerStarted, m_repeat, handle, misused, lpc,
                 careful>>

\* A careful user never stops a timer that has never been started.
StopTimer(c) ==
  /\ MayCall(c)
  /\ careful => handle # "raw"
  /\ calls' = calls + 1
  /\ pc' = [pc EXCEPT ![c] = "stop"]
  /\ UNCHANGED <<poolVars, m_bTimerStarted, m_bRestartTimer, m_repeat, handle,
                 misused, lpc, last, careful>>

\* AddReq on behalf of caller c.  startTimer(true) does not look at the result.
AddReq(c) ==
  /\ pc[c] # "idle"
  /\ \/ /\ Submit(IF pc[c] = "start" THEN "E_TIMER_START" ELSE "E_TIMER_STOP")
        /\ last' = IF pc[c] = "stop" THEN "stop" ELSE "start"
     \/ /\ Busy
        /\ UNCHANGED <<poolVars, last>>
  /\ pc' = [pc EXCEPT ![c] = "idle"]
  /\ UNCHANGED <<m_bTimerStarted, m_bRestartTimer, m_repeat, handle, misused,
                 lpc, calls, careful>>

\* The other users of the loop.
OtherRequest ==
  /\ careful =>
       Cardinality({h \in m_mapAsync : slot[h] \in {"Other", Nothing}})
         < UV_ASYNC_HANDE - 2
  /\ Submit("Other")
  /\ UNCHANGED timerVars

-----------------------------------------------------------------------------
(* The loop thread: requests.                                              *)

FireHandle ==
  /\ lpc = "idle"
  /\ Fire
  /\ UNCHANGED timerVars

\* timerStart.  uv_timer_init must not be given an armed timer.
TimerStart ==
  /\ cur # NoHandle /\ slot[cur] = "E_TIMER_START"
  /\ misused' = (misused \/ handle \in Armed)
  /\ handle' = IF m_repeat THEN "repeating" ELSE "once"
  /\ m_bTimerStarted' = TRUE
  /\ ClearTcb
  /\ UNCHANGED <<m_bRestartTimer, m_repeat, pc, lpc, last, calls, careful>>

\* Faulty variant: timerStop forgets m_bTimerStarted.
TimerStopKeepsFlag ==
  /\ cur # NoHandle /\ slot[cur] = "E_TIMER_STOP" /\ lpc = "idle"
  /\ misused' = (misused \/ handle = "raw")
  /\ handle' = IF handle = "raw" THEN "raw" ELSE "inactive"
  /\ lpc' = "stopped"
  /\ UNCHANGED <<poolVars, m_bTimerStarted, m_bRestartTimer, m_repeat, pc,
                 last, calls, careful>>

\* timerStop, up to its test of m_bRestartTimer.  uv_timer_stop must not be
\* given memory that uv_timer_init has not seen.
TimerStop ==
  /\ cur # NoHandle /\ slot[cur] = "E_TIMER_STOP" /\ lpc = "idle"
  /\ misused' = (misused \/ handle = "raw")
  /\ handle' = IF handle = "raw" THEN "raw" ELSE "inactive"
  /\ m_bTimerStarted' = FALSE
  /\ lpc' = "stopped"
  /\ UNCHANGED <<poolVars, m_bRestartTimer, m_repeat, pc, last, calls,
                 careful>>

TestRestart ==
  /\ lpc = "stopped"
  /\ lpc' = IF m_bRestartTimer THEN "clear" ELSE "return"
  /\ UNCHANGED <<poolVars, m_bTimerStarted, m_bRestartTimer, m_repeat, handle,
                 misused, pc, last, calls, careful>>

\* Faulty variant: the wish to restart survives the restart.
ClearRestartForgotten ==
  /\ lpc = "clear"
  /\ lpc' = "restart"
  /\ UNCHANGED <<poolVars, m_bTimerStarted, m_bRestartTimer, m_repeat, handle,
                 misused, pc, last, calls, careful>>

ClearRestart ==
  /\ lpc = "clear"
  /\ m_bRestartTimer' = FALSE
  /\ lpc' = "restart"
  /\ UNCHANGED <<poolVars, m_bTimerStarted, m_repeat, handle, misused, pc,
                 last, calls, careful>>

\* Faulty variant: m_bTimerStarted is reset after the restart, so startTimer
\* finds it still set and makes no request.
RestartSeesFlag ==
  /\ lpc = "restart"
  /\ lpc' = "return"
  /\ UNCHANGED <<poolVars, m_bTimerStarted, m_bRestartTimer, m_repeat, handle,
                 misused, pc, last, calls, careful>>

\* startTimer() inside timerStop, which has just cleared m_bTimerStarted;
\* nobody looks at the result.
Restart ==
  /\ lpc = "restart"
  /\ Submit("E_TIMER_START") \/ (Busy /\ UNCHANGED poolVars)
  /\ lpc' = "return"
  /\ UNCHANGED <<m_bTimerStarted, m_bRestartTimer, m_repeat, handle, misused,
                 pc, last, calls, careful>>

StopReturns ==
  /\ lpc = "return"
  /\ ClearTcb
  /\ lpc' = "idle"
  /\ UNCHANGED <<m_bTimerStarted, m_bRestartTimer, m_repeat, handle, misused,
                 pc, last, calls, careful>>

RunOther ==
  /\ cur # NoHandle /\ slot[cur] = "Other"
  /\ ClearTcb
  /\ UNCHANGED timerVars

ReturnHandle == Recycle /\ UNCHANGED timerVars

-----------------------------------------------------------------------------
(* The loop thread: the timer expires.  libuv disarms a one-shot timer     *)
(* before the callback and re-arms a repeating one; the flag of a one-shot *)
(* timer falls when the callback has returned.                             *)

TimerExpires ==
  /\ cur = NoHandle /\ lpc = "idle"
  /\ handle \in Armed
  /\ handle' = IF handle = "once" THEN "inactive" ELSE handle
  /\ lpc' = "timercb"
  /\ UNCHANGED <<poolVars, m_bTimerStarted, m_bRestartTimer, m_repeat, misused,
                 pc, last, calls, careful>>

CallbackReturns ==
  /\ lpc = "timercb" /\ pc[Callback] = "idle"
  /\ m_bTimerStarted' = (m_bTimerStarted /\ m_repeat)
  /\ lpc' = "idle"
  /\ UNCHANGED <<poolVars, m_bRestartTimer, m_repeat, handle, misused, pc,
                 last, calls, careful>>

-----------------------------------------------------------------------------
LoopThread ==
  \/ FireHandle \/ TimerStart \/ TimerStop \/ TestRestart \/ ClearRestart
  \/ Restart \/ StopReturns \/ RunOther \/ ReturnHandle \/ CallbackReturns

Next ==
  \/ \E c \in Caller :
       \/ \E b \in BOOLEAN : SetTimer(c, b) \/ StartTimer(c, b)
       \/ StopTimer(c) \/ AddReq(c)
  \/ OtherRequest \/ LoopThread \/ TimerExpires

Spec == Init /\ [][Next]_vars

\* A call that has begun goes on, the loop thread runs, and in every turn of
\* uv_run libuv calls back the pending requests, however many timers expire.
\* Nothing is assumed of the clock, of the callers or of the other users.
Fairness ==
  /\ WF_vars(LoopThread)
  /\ \A h \in Handle : SF_vars(FireHandle /\ cur' = h)
  /\ \A c \in Caller : WF_vars(AddReq(c))

FairSpec == Spec /\ Fairness

-----------------------------------------------------------------------------
(* For any user, from any number of threads.                               *)

\* m_bTimerStarted, which decides between starting and restarting
\* (timer.cpp:62), agrees with the state of the uv_timer_t, which other steps
\* change, except while the callback of a one-shot timer runs.
FlagTracksHandle ==
  m_bTimerStarted <=>
    handle \in Armed \/ (handle = "inactive" /\ lpc = "timercb" /\ ~m_repeat)

-----------------------------------------------------------------------------
(* For careful users.                                                      *)

\* libuv never gets an armed timer to initialise, or raw memory to stop
\* (timer.cpp:39, 87): the restart inside timerStop brings no second start.
NeverMisused == careful => ~misused

\* When everything has settled the timer is as the last accepted call wanted
\* it: a stop is not undone by an earlier wish to restart (timer.cpp:71-72,
\* 89-94), and a repeating timer is armed after a start or restart.
LastCallWins ==
  careful /\ Quiescent =>
    /\ last = "stop" => handle \notin Armed
    /\ last = "start" /\ m_repeat => handle = "repeating"

\* "already stoped, restart" (timer.cpp:92): a timer stopped by
\* startTimer(true) is armed again.
RestartCompletes == careful /\ lpc = "restart" ~> handle \in Armed

=============================================================================
