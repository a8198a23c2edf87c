--------------------------- MODULE UvTimerProofs ---------------------------
(***************************************************************************)
(* Proofs about UvTimer, for any number of handles, clients and calls, and *)
(* for either order of the wake-ups.                                       *)
(***************************************************************************)
EXTENDS UvTimer, AsyncPoolProofs, FiniteSetTheorems

-----------------------------------------------------------------------------
(* The types.                                                              *)

LEMMA InitTypeOK == Init => TypeOK /\ PoolInv(Work)
<1> SUFFICES ASSUME Init PROVE TypeOK /\ PoolInv(Work)
  OBVIOUS
<1>1. PoolInv(Work)
  BY PoolInitInv DEF Init
<1>2. 0 \in 0 .. Bound
  BY TimerAssumption DEF Bound
<1>3. pc \in [Caller -> {"idle", "start", "stop", "force"}]
  BY DEF Init
<1> QED BY <1>1, <1>2, <1>3 DEF Init, TypeOK, PoolInv

\* Every step keeps the invariant of the pool: it is a step of the pool or
\* leaves the pool alone.
LEMMA NextPool ==
  ASSUME PoolInv(Work), [Next]_vars
  PROVE  PoolInv(Work)'
<1>1. CASE UNCHANGED vars
  BY <1>1, PoolStutters DEF vars
<1>2. ASSUME NEW c \in Caller, NEW b \in BOOLEAN,
             SetTimer(c, b) \/ StartTimer(c, b) \/ StopTimer(c)
      PROVE  PoolInv(Work)'
  BY <1>2, PoolStutters DEF SetTimer, StartTimer, StopTimer
<1>3. ASSUME NEW c \in Caller, AddReq(c)
      PROVE  PoolInv(Work)'
  <2>1. "E_TIMER_START" \in Work /\ "E_TIMER_STOP" \in Work
    BY DEF Work
  <2> QED BY <1>3, <2>1, SubmitInv, PoolStutters DEF AddReq
<1>4. CASE OtherRequest
  <2>1. "Other" \in Work
    BY DEF Work
  <2> QED BY <1>4, <2>1, SubmitInv DEF OtherRequest
<1>5. CASE FireHandle
  BY <1>5, FireInv DEF FireHandle
<1>6. CASE TimerStart \/ RunOther
  BY <1>6, ClearTcbInv DEF TimerStart, RunOther
<1>7. CASE StopReturns
  <2>1. CASE cur # NoHandle
    BY <1>7, <2>1, ClearTcbInv DEF StopReturns
  <2>2. CASE cur = NoHandle
    <3>1. cur \notin DOMAIN slot
      BY <2>2, PoolAssumption DEF PoolInv, PoolTypeOK, Handle, NoHandle
    <3>2. slot' = slot
      BY <1>7, <3>1 DEF StopReturns, ClearTcb, PoolInv, PoolTypeOK
    <3> QED BY <1>7, <3>2, PoolStutters DEF StopReturns, ClearTcb, poolVars
  <2> QED BY <2>1, <2>2
<1>8. CASE TimerStop \/ TestRestart \/ ClearRestart \/ CallbackReturns \/ TimerExpires
  BY <1>8, PoolStutters
     DEF TimerStop, TestRestart, ClearRestart, CallbackReturns, TimerExpires
<1>9. CASE Restart
  <2>1. "E_TIMER_START" \in Work
    BY DEF Work
  <2> QED BY <1>9, <2>1, SubmitInv, PoolStutters DEF Restart
<1>10. CASE ReturnHandle
  BY <1>10, RecycleInv DEF ReturnHandle
<1> QED
  BY <1>1, <1>2, <1>3, <1>4, <1>5, <1>6, <1>7, <1>8, <1>9, <1>10
     DEF Next, LoopThread

\* Users do not change their ways.
LEMMA CarefulIsConstant ==
  ASSUME [Next]_vars
  PROVE  careful' = careful
BY DEF Next, LoopThread, vars, timerVars, SetTimer, StartTimer, StopTimer,
       AddReq, OtherRequest, FireHandle, RunOther, ReturnHandle, TimerStart,
       TimerStop, TimerExpires, CallbackReturns, TestRestart, ClearRestart,
       Restart, StopReturns

\* The fields of the timer keep their types; the pool's part is NextPool.
LEMMA NextTypeOK ==
  ASSUME TypeOK, PoolInv(Work)', [Next]_vars
  PROVE  TypeOK'
<1> DEFINE Fields ==
      /\ m_bTimerStarted \in BOOLEAN
      /\ m_bRestartTimer \in BOOLEAN
      /\ m_repeat \in BOOLEAN
      /\ handle \in {"raw", "inactive"} \cup Armed
      /\ misused \in BOOLEAN
      /\ pc \in [Caller -> {"idle", "start", "stop", "force"}]
      /\ lpc \in {"idle", "timercb", "stopped", "clear", "restart", "return"}
      /\ last \in {"none", "start", "stop"}
      /\ careful \in BOOLEAN
<1>0. Fields
  BY DEF TypeOK
<1>1. Fields'
  <2>1. CASE UNCHANGED timerVars
    BY <1>0, <2>1 DEF timerVars, Armed
  <2>2. CASE UNCHANGED vars
    BY <2>1, <2>2 DEF vars
  <2>3. ASSUME NEW c \in Caller, NEW b \in BOOLEAN,
               SetTimer(c, b) \/ StartTimer(c, b) \/ StopTimer(c)
        PROVE  Fields'
    <3>1. CASE SetTimer(c, b)
      BY <1>0, <3>1 DEF SetTimer, Armed
    <3>2. CASE StartTimer(c, b)
      BY <1>0, <3>2 DEF StartTimer, Armed
    <3>3. CASE StopTimer(c)
      BY <1>0, <3>3 DEF StopTimer, Armed
    <3> QED BY <2>3, <3>1, <3>2, <3>3
  <2>4. ASSUME NEW c \in Caller, AddReq(c)
        PROVE  Fields'
    BY <1>0, <2>4 DEF AddReq, Armed
  <2>5. CASE OtherRequest \/ FireHandle \/ RunOther \/ ReturnHandle
    BY <2>1, <2>5 DEF OtherRequest, FireHandle, RunOther, ReturnHandle
  <2>6. CASE TimerStart \/ TimerStop \/ TimerExpires \/ CallbackReturns
    BY <1>0, <2>6 DEF TimerStart, TimerStop, TimerExpires, CallbackReturns, Armed
  <2>7. CASE TestRestart \/ ClearRestart \/ Restart \/ StopReturns
    BY <1>0, <2>7 DEF TestRestart, ClearRestart, Restart, StopReturns, Armed
  <2> QED BY <2>2, <2>3, <2>4, <2>5, <2>6, <2>7 DEF Next, LoopThread
<1>2. careful' = careful
  BY CarefulIsConstant
<1>3. calls' = calls \/ (calls < Bound /\ calls' = calls + 1)
  BY DEF Next, LoopThread, vars, timerVars, SetTimer, StartTimer, StopTimer,
         AddReq, OtherRequest, FireHandle, RunOther, ReturnHandle, TimerStart,
         TimerStop, TimerExpires, CallbackReturns, TestRestart, ClearRestart,
         Restart, StopReturns, MayCall
<1>4. calls' \in 0 .. Bound'
  <2>1. Bound \in Nat /\ Bound' = Bound
    BY <1>2, TimerAssumption DEF Bound
  <2>2. calls \in 0 .. Bound
    BY DEF TypeOK
  <2> QED BY <1>3, <2>1, <2>2
<1> QED BY <1>1, <1>4 DEF TypeOK, PoolInv

\* Every field of uvtimer, and what is under way on it, keeps its type.
THEOREM TypeCorrect == Spec => []TypeOK
<1>1. TypeOK /\ PoolInv(Work) /\ [Next]_vars => (TypeOK /\ PoolInv(Work))'
  BY NextPool, NextTypeOK
<1> QED BY InitTypeOK, <1>1, PTL DEF Spec

-----------------------------------------------------------------------------
(* The flag.                                                               *)

\* What the agreement of flag and handle needs: the handle repeats if and only
\* if m_repeat, which nobody changes while it is armed, and inside a callback
\* of the timer a one-shot handle has been disarmed and no request runs.
FlagInv ==
  /\ FlagTracksHandle
  /\ handle = "once" => ~m_repeat
  /\ handle = "repeating" => m_repeat
  /\ lpc = "timercb" => cur = NoHandle /\ handle # "once"

LEMMA InitFlagInv == Init => FlagInv
BY DEF Init, FlagInv, FlagTracksHandle, Armed

LEMMA NextFlagInv ==
  ASSUME ~LateSet, TypeOK, FlagInv, [Next]_vars
  PROVE  FlagInv'
<1> USE DEF FlagInv, FlagTracksHandle, Armed
<1>0. /\ handle \in {"raw", "inactive", "once", "repeating"}
      /\ m_bTimerStarted \in BOOLEAN /\ m_repeat \in BOOLEAN
  BY DEF TypeOK
<1>1. CASE UNCHANGED <<m_bTimerStarted, m_repeat, handle, lpc, cur>>
  BY <1>1
<1>2. ASSUME NEW c \in Caller, NEW b \in BOOLEAN, SetTimer(c, b)
      PROVE  FlagInv'
  BY <1>2 DEF SetTimer, poolVars
<1>3. ASSUME NEW c \in Caller, NEW b \in BOOLEAN,
             StartTimer(c, b) \/ StopTimer(c) \/ AddReq(c)
      PROVE  FlagInv'
  BY <1>1, <1>3 DEF StartTimer, StopTimer, AddReq, Submit, poolVars
<1>4. CASE OtherRequest \/ RunOther
  BY <1>1, <1>4 DEF OtherRequest, RunOther, Submit, ClearTcb, timerVars
<1>5. CASE FireHandle \/ ReturnHandle
  BY <1>5 DEF FireHandle, Fire, ReturnHandle, Recycle, timerVars
<1>6. CASE TimerStart
  BY <1>0, <1>6 DEF TimerStart, ClearTcb
<1>7. CASE TimerStop
  BY <1>0, <1>7 DEF TimerStop
<1>8. CASE TestRestart \/ ClearRestart \/ Restart \/ StopReturns
  BY <1>8 DEF TestRestart, ClearRestart, Restart, StopReturns, Submit,
              ClearTcb, poolVars
<1>9. CASE TimerExpires
  BY <1>0, <1>9 DEF TimerExpires, poolVars
<1>10. CASE CallbackReturns
  BY <1>0, <1>10 DEF CallbackReturns, poolVars
<1>11. CASE UNCHANGED vars
  BY <1>1, <1>11 DEF vars, timerVars, poolVars
<1> QED
  BY <1>2, <1>3, <1>4, <1>5, <1>6, <1>7, <1>8, <1>9, <1>10, <1>11
     DEF Next, LoopThread

\* m_bTimerStarted agrees with the uv_timer_t over any interleaving of calls,
\* requests, restarts and expiries, if nobody calls SetTimer on a timer in use
\* (timer.cpp:62).
THEOREM FlagIsRight ==
  ASSUME ~LateSet
  PROVE  Spec => []FlagTracksHandle
<1> DEFINE Inv == TypeOK /\ PoolInv(Work) /\ FlagInv
<1>1. Init => Inv
  BY InitTypeOK, InitFlagInv
<1>2. Inv /\ [Next]_vars => Inv'
  BY NextPool, NextTypeOK, NextFlagInv
<1>3. Inv => FlagTracksHandle
  BY DEF FlagInv
<1> QED BY <1>1, <1>2, <1>3, PTL DEF Spec

-----------------------------------------------------------------------------
(* Careful users.                                                          *)

Active(h) == slot[h] \in {"E_TIMER_START", "E_TIMER_STOP"}
Stopping  == lpc \in {"stopped", "clear", "restart", "return"}

\* The handle is in the state that the requests to come expect.
HandleReady ==
  /\ ~misused
  /\ \A c \in Caller : /\ pc[c] = "start" => handle \notin Armed
                       /\ pc[c] \in {"stop", "force"} => handle # "raw"
  /\ \A h \in Handle : /\ slot[h] = "E_TIMER_START" => handle \notin Armed
                       /\ slot[h] = "E_TIMER_STOP" => handle # "raw"
  /\ Stopping => handle \notin Armed

\* At most one call or request is under way, but for the start that timerStop
\* requests when it restarts the timer, and then timerStop is about to return.
OneAtATime ==
  /\ \A c, d \in Caller : pc[c] # "idle" /\ pc[d] # "idle" => c = d
  /\ \A c \in Caller, h \in Handle : pc[c] # "idle" => ~Active(h)
  /\ \A g, h \in Handle : Active(g) /\ Active(h) /\ g # h =>
       /\ lpc = "return"
       /\ \/ cur = g /\ slot[h] = "E_TIMER_START"
          \/ cur = h /\ slot[g] = "E_TIMER_START"

\* While timerStop runs its request is still stored in the handle.
StopIsCurrent == Stopping => cur \in Handle /\ slot[cur] = "E_TIMER_STOP"

CarefulInv == StopIsCurrent /\ (careful => HandleReady /\ OneAtATime)

LEMMA InitCarefulInv == Init => CarefulInv
BY TimerAssumption
   DEF Init, PoolInit, CarefulInv, HandleReady, OneAtATime, StopIsCurrent, Armed,
       Active, Stopping, Caller

\* A request is stored in a handle that stored nothing and is not running.
LEMMA SubmitFresh ==
  ASSUME PoolInv(Work), NEW w, Submit(w)
  PROVE  \E h \in Handle : /\ slot[h] = Nothing /\ h # cur
                           /\ slot' = [slot EXCEPT ![h] = w]
                           /\ cur' = cur
<1>1. LET h == Head(m_dAsync) IN h \in Handle /\ h # cur /\ slot[h] = Nothing
  BY FreshHandle DEF Submit
<1> QED BY <1>1 DEF Submit

\* The calls, up to AddReq.
LEMMA CallCarefulInv ==
  ASSUME TypeOK, FlagInv, CarefulInv, NEW c \in Caller, NEW b \in BOOLEAN,
         SetTimer(c, b) \/ StartTimer(c, b) \/ StopTimer(c)
  PROVE  CarefulInv'
<1>1. /\ UNCHANGED <<slot, cur, lpc, handle, misused, careful>>
      /\ careful => Quiescent
  BY DEF SetTimer, StartTimer, StopTimer, MayCall, poolVars
<1>2. careful => \/ pc' = pc
                 \/ pc' = [pc EXCEPT ![c] = "start"] /\ handle \notin Armed
                 \/ pc' = [pc EXCEPT ![c] = "stop"] /\ handle # "raw"
                 \/ pc' = [pc EXCEPT ![c] = "force"] /\ handle # "raw"
  BY DEF SetTimer, StartTimer, StopTimer, FlagInv, FlagTracksHandle, Armed
<1>3. StopIsCurrent'
  BY <1>1 DEF CarefulInv, StopIsCurrent, Stopping
<1>4. ASSUME careful PROVE HandleReady' /\ OneAtATime'
  <2>1. /\ \A d \in Caller : pc[d] = "idle"
        /\ \A h \in Handle : ~Active(h)
    BY <1>1, <1>4, TimerAssumption DEF Quiescent, Active
  <2>2. \A d \in Caller : d # c => pc'[d] = "idle"
    BY <1>2, <1>4, <2>1 DEF TypeOK
  <2>3. /\ pc'[c] = "start" => handle \notin Armed
        /\ pc'[c] \in {"stop", "force"} => handle # "raw"
    BY <1>2, <1>4, <2>1 DEF TypeOK
  <2>4. HandleReady'
    BY <1>1, <1>4, <2>2, <2>3 DEF CarefulInv, HandleReady, Stopping, Armed
  <2>5. OneAtATime'
    BY <1>1, <2>1, <2>2 DEF OneAtATime, Active
  <2> QED BY <2>4, <2>5
<1> QED BY <1>1, <1>3, <1>4 DEF CarefulInv

LEMMA AddReqCarefulInv ==
  ASSUME TypeOK, PoolInv(Work), CarefulInv, NEW c \in Caller, AddReq(c)
  PROVE  CarefulInv'
<1>1. /\ UNCHANGED <<lpc, handle, misused, careful>>
      /\ pc' = [pc EXCEPT ![c] = "idle"] /\ pc[c] # "idle"
      /\ pc \in [Caller -> {"idle", "start", "stop", "force"}]
      /\ slot \in [Handle -> Work \cup {Nothing}]
  BY DEF AddReq, TypeOK, PoolTypeOK
<1>2. CASE UNCHANGED poolVars
  BY <1>1, <1>2 DEF CarefulInv, StopIsCurrent, HandleReady, OneAtATime, Active,
                    Stopping, Armed, poolVars
<1>3. CASE Submit(IF pc[c] = "start" THEN "E_TIMER_START" ELSE "E_TIMER_STOP")
  <2> DEFINE w == IF pc[c] = "start" THEN "E_TIMER_START" ELSE "E_TIMER_STOP"
  <2>1. PICK h \in Handle : /\ slot[h] = Nothing /\ h # cur
                            /\ slot' = [slot EXCEPT ![h] = w]
                            /\ cur' = cur
    BY <1>3, SubmitFresh
  <2>2. StopIsCurrent'
    BY <1>1, <2>1 DEF CarefulInv, StopIsCurrent, Stopping
  <2>3. ASSUME careful PROVE HandleReady' /\ OneAtATime'
    <3>1. /\ \A g \in Handle : ~Active(g)
          /\ \A d \in Caller : d # c => pc[d] = "idle"
      BY <1>1, <2>3 DEF CarefulInv, OneAtATime
    <3>2. /\ w = "E_TIMER_START" => handle \notin Armed
          /\ w = "E_TIMER_STOP" => handle # "raw"
      BY <1>1, <2>3 DEF CarefulInv, HandleReady
    <3>3. \A g \in Handle : g # h => ~Active(g)'
      BY <1>1, <2>1, <3>1 DEF Active
    <3>4. HandleReady'
      BY <1>1, <2>1, <2>3, <3>1, <3>2, <3>3
         DEF CarefulInv, HandleReady, Stopping, Active, Armed
    <3>5. OneAtATime'
      BY <1>1, <3>1, <3>3 DEF OneAtATime
    <3> QED BY <3>4, <3>5
  <2> QED BY <1>1, <2>2, <2>3 DEF CarefulInv
<1> QED BY <1>2, <1>3 DEF AddReq

\* The loop thread, outside timerStop.
LEMMA LoopCarefulInv ==
  ASSUME TypeOK, PoolInv(Work), CarefulInv,
         OtherRequest \/ FireHandle \/ TimerStart \/ RunOther \/ ReturnHandle
         \/ TimerExpires \/ CallbackReturns
  PROVE  CarefulInv'
<1> USE DEF CarefulInv
<1>0. /\ slot \in [Handle -> Work \cup {Nothing}]
      /\ cur \in Handle \cup {NoHandle}
      /\ handle \in {"raw", "inactive"} \cup Armed
      /\ NoHandle \notin Handle
      /\ Nothing \notin {"E_TIMER_START", "E_TIMER_STOP", "Other"}
  BY TimerAssumption, PoolAssumption DEF TypeOK, PoolTypeOK, NoHandle, Handle
<1>1. CASE OtherRequest
  <2>1. PICK h \in Handle : /\ slot[h] = Nothing /\ h # cur
                            /\ slot' = [slot EXCEPT ![h] = "Other"]
                            /\ cur' = cur
    BY <1>1, SubmitFresh DEF OtherRequest
  <2>2. UNCHANGED timerVars /\ \A g \in Handle : Active(g)' <=> Active(g)
    BY <1>0, <1>1, <2>1 DEF OtherRequest, Active
  <2>3. StopIsCurrent'
    BY <1>0, <2>1, <2>2 DEF StopIsCurrent, Stopping, timerVars
  <2>4. HandleReady => HandleReady'
    BY <1>0, <2>1, <2>2 DEF HandleReady, Stopping, Armed, timerVars
  <2>5. OneAtATime => OneAtATime'
    BY <1>0, <2>1, <2>2 DEF OneAtATime, timerVars, Active
  <2> QED BY <2>2, <2>3, <2>4, <2>5 DEF timerVars
<1>2. CASE FireHandle
  <2>1. UNCHANGED <<timerVars, slot>> /\ lpc = "idle"
    BY <1>2 DEF FireHandle, Fire
  <2> QED BY <2>1 DEF StopIsCurrent, HandleReady, OneAtATime, Stopping, Active,
                      Armed, timerVars
<1>3. CASE TimerStart
  <2>1. /\ cur \in Handle /\ slot[cur] = "E_TIMER_START"
        /\ slot' = [slot EXCEPT ![cur] = Nothing]
        /\ UNCHANGED <<cur, pc, lpc, careful>>
        /\ handle' \in Armed
        /\ misused' = (misused \/ handle \in Armed)
    BY <1>0, <1>3 DEF TimerStart, ClearTcb, Armed
  <2>2. StopIsCurrent' /\ ~Stopping
    BY <2>1 DEF StopIsCurrent, Stopping
  <2>3. ASSUME HandleReady, OneAtATime PROVE HandleReady' /\ OneAtATime'
    <3>1. /\ \A c \in Caller : pc[c] = "idle"
          /\ \A h \in Handle : h # cur => ~Active(h)
      BY <2>1, <2>2, <2>3 DEF OneAtATime, Active, Stopping
    <3>2. \A h \in Handle : ~Active(h)'
      BY <1>0, <2>1, <3>1 DEF Active
    <3>3. ~misused'
      BY <2>1, <2>3 DEF HandleReady
    <3>4. HandleReady'
      BY <2>1, <2>2, <3>1, <3>2, <3>3 DEF HandleReady, Active, Stopping, Armed
    <3> QED BY <2>1, <3>1, <3>2, <3>4 DEF OneAtATime
  <2> QED BY <2>1, <2>2, <2>3
<1>4. CASE RunOther
  <2>1. /\ cur \in Handle /\ slot[cur] = "Other"
        /\ slot' = [slot EXCEPT ![cur] = Nothing]
        /\ UNCHANGED <<cur, timerVars>>
    BY <1>0, <1>4 DEF RunOther, ClearTcb
  <2> QED BY <1>0, <2>1 DEF StopIsCurrent, HandleReady, OneAtATime, Stopping,
                            Active, Armed, timerVars
<1>5. CASE ReturnHandle
  <2>1. UNCHANGED <<timerVars, slot>> /\ slot[cur] = Nothing /\ cur' = NoHandle
    BY <1>5 DEF ReturnHandle, Recycle
  <2>2. StopIsCurrent' /\ ~Stopping
    BY <1>0, <2>1 DEF StopIsCurrent, Stopping, timerVars
  <2> QED BY <1>0, <2>1, <2>2
          DEF HandleReady, OneAtATime, Stopping, Active, Armed, timerVars
<1>6. CASE TimerExpires \/ CallbackReturns
  <2>1. /\ UNCHANGED <<slot, cur, pc, misused, careful>>
        /\ lpc \in {"idle", "timercb"} /\ lpc' \in {"idle", "timercb"}
        /\ handle' = handle \/ (handle = "once" /\ handle' = "inactive")
    BY <1>6 DEF TimerExpires, CallbackReturns, poolVars
  <2> QED BY <2>1 DEF StopIsCurrent, HandleReady, OneAtATime, Stopping, Active,
                      Armed
<1> QED BY <1>1, <1>2, <1>3, <1>4, <1>5, <1>6

\* timerStop.
LEMMA StopCarefulInv ==
  ASSUME TypeOK, PoolInv(Work), CarefulInv,
         TimerStop \/ TestRestart \/ ClearRestart \/ Restart \/ StopReturns
  PROVE  CarefulInv'
<1> USE DEF CarefulInv
<1>0. /\ slot \in [Handle -> Work \cup {Nothing}]
      /\ cur \in Handle \cup {NoHandle}
      /\ handle \in {"raw", "inactive"} \cup Armed
      /\ NoHandle \notin Handle
      /\ Nothing \notin {"E_TIMER_START", "E_TIMER_STOP", "Other"}
  BY TimerAssumption, PoolAssumption DEF TypeOK, PoolTypeOK, NoHandle, Handle
<1>1. CASE TimerStop
  <2>1. /\ cur \in Handle /\ slot[cur] = "E_TIMER_STOP"
        /\ UNCHANGED <<slot, cur, pc, careful>>
        /\ lpc = "idle" /\ lpc' = "stopped"
        /\ handle' \in {"raw", "inactive"} /\ (handle # "raw" => handle' # "raw")
        /\ misused' = (misused \/ handle = "raw")
    BY <1>0, <1>1 DEF TimerStop, poolVars, Armed
  <2>2. StopIsCurrent'
    BY <2>1 DEF StopIsCurrent
  <2>3. HandleReady => HandleReady'
    BY <2>1 DEF HandleReady, Stopping, Armed
  <2>4. OneAtATime => OneAtATime'
    BY <2>1 DEF OneAtATime, Active
  <2> QED BY <2>1, <2>2, <2>3, <2>4
<1>2. CASE TestRestart \/ ClearRestart
  <2>1. /\ UNCHANGED <<slot, cur, pc, handle, misused, careful>>
        /\ lpc \in {"stopped", "clear"} /\ lpc' \in {"clear", "return", "restart"}
    BY <1>2 DEF TestRestart, ClearRestart, poolVars
  <2>2. StopIsCurrent'
    BY <2>1 DEF StopIsCurrent, Stopping
  <2>3. HandleReady => HandleReady'
    BY <2>1 DEF HandleReady, Stopping, Armed
  <2>4. OneAtATime => OneAtATime'
    BY <2>1 DEF OneAtATime, Active
  <2> QED BY <2>1, <2>2, <2>3, <2>4
<1>3. CASE Restart
  <2>1. /\ UNCHANGED <<pc, handle, misused, careful>>
        /\ lpc = "restart" /\ lpc' = "return" /\ Stopping /\ Stopping'
    BY <1>3 DEF Restart, Stopping
  <2>2. CASE UNCHANGED poolVars
    BY <2>1, <2>2 DEF StopIsCurrent, HandleReady, OneAtATime, Active, Armed, poolVars
  <2>3. CASE Submit("E_TIMER_START")
    <3>1. PICK h \in Handle : /\ slot[h] = Nothing /\ h # cur
                              /\ slot' = [slot EXCEPT ![h] = "E_TIMER_START"]
                              /\ cur' = cur
      BY <2>3, SubmitFresh
    <3>2. StopIsCurrent' /\ cur \in Handle /\ slot[cur] = "E_TIMER_STOP"
      BY <1>0, <2>1, <3>1 DEF StopIsCurrent
    <3>3. HandleReady => HandleReady'
      BY <1>0, <2>1, <3>1 DEF HandleReady, Armed
    <3>4. ASSUME OneAtATime PROVE OneAtATime'
      <4>1. /\ \A c \in Caller : pc[c] = "idle"
            /\ \A g \in Handle : g # cur => ~Active(g)
        BY <2>1, <3>2, <3>4 DEF OneAtATime, Active
      <4>2. \A g \in Handle : g # cur /\ g # h => ~Active(g)'
        BY <1>0, <3>1, <4>1 DEF Active
      <4>3. slot'[h] = "E_TIMER_START"
        BY <1>0, <3>1
      <4> QED BY <2>1, <3>1, <4>1, <4>2, <4>3 DEF OneAtATime
    <3> QED BY <2>1, <3>2, <3>3, <3>4
  <2> QED BY <1>3, <2>2, <2>3 DEF Restart
<1>4. CASE StopReturns
  <2>1. /\ UNCHANGED <<cur, pc, handle, misused, careful>>
        /\ lpc = "return" /\ Stopping /\ lpc' = "idle" /\ ~Stopping'
        /\ slot' = [slot EXCEPT ![cur] = Nothing]
    BY <1>4 DEF StopReturns, ClearTcb, Stopping
  <2>2. cur \in Handle /\ slot[cur] = "E_TIMER_STOP"
    BY <2>1 DEF StopIsCurrent
  <2>3. HandleReady => HandleReady'
    BY <1>0, <2>1, <2>2 DEF HandleReady, Armed
  <2>4. ASSUME OneAtATime PROVE OneAtATime'
    <3>1. \A c \in Caller : pc[c] = "idle"
      BY <2>2, <2>4 DEF OneAtATime, Active
    <3>2. \A g, h \in Handle : Active(g)' /\ Active(h)' => g = h
      BY <1>0, <2>1, <2>2, <2>4 DEF OneAtATime, Active
    <3> QED BY <2>1, <3>1, <3>2 DEF OneAtATime
  <2> QED BY <2>1, <2>3, <2>4 DEF StopIsCurrent
<1> QED BY <1>1, <1>2, <1>3, <1>4

LEMMA NextCarefulInv ==
  ASSUME TypeOK, PoolInv(Work), FlagInv, CarefulInv, [Next]_vars
  PROVE  CarefulInv'
<1>1. CASE UNCHANGED vars
  BY <1>1 DEF CarefulInv, StopIsCurrent, HandleReady, OneAtATime, Active,
              Stopping, Armed, vars, timerVars, poolVars
<1>2. CASE Next
  BY <1>2, CallCarefulInv, AddReqCarefulInv, LoopCarefulInv, StopCarefulInv
     DEF Next, LoopThread
<1> QED BY <1>1, <1>2

\* libuv never gets an armed timer to initialise, or memory that is no timer
\* to stop, from users who make one call after the other (timer.cpp:39, 87).
THEOREM CarefulNeverMisuses ==
  ASSUME ~LateSet
  PROVE  Spec => []NeverMisused
<1> DEFINE Inv == TypeOK /\ PoolInv(Work) /\ FlagInv /\ CarefulInv
<1>1. Init => Inv
  BY InitTypeOK, InitFlagInv, InitCarefulInv
<1>2. Inv /\ [Next]_vars => Inv'
  BY NextPool, NextTypeOK, NextFlagInv, NextCarefulInv
<1>3. Inv => NeverMisused
  BY DEF CarefulInv, HandleReady, NeverMisused
<1> QED BY <1>1, <1>2, <1>3, PTL DEF Spec

-----------------------------------------------------------------------------
(* The last call.                                                          *)

\* The handles that hold the requests of the other users of the loop.
Shared == {h \in Handle : slot[h] = "Other"}

\* A wake-up that is pending has work to do, and careful users leave two of
\* the handles to the timer: one to the request that is running, or has run
\* and has not been returned yet, and one to the next.
SpareInv ==
  /\ \A h \in Range(sent) : slot[h] # Nothing
  /\ careful => Cardinality(Shared) <= UV_ASYNC_HANDE - 2

LEMMA SharedIsFinite ==
  IsFiniteSet(Handle) /\ IsFiniteSet(Shared) /\ Cardinality(Shared) \in Nat
<1>1. IsFiniteSet(Handle)
  BY PoolAssumption, FS_Interval DEF Handle
<1>2. Shared \subseteq Handle
  BY DEF Shared
<1> QED BY <1>1, <1>2, FS_Subset, FS_CardinalityType

LEMMA InitSpareInv ==
  ASSUME UV_ASYNC_HANDE >= 2, Init
  PROVE  SpareInv
<1>1. Range(sent) = {}
  BY EmptySeq DEF Init, PoolInit, Range
<1>2. Shared = {}
  BY TimerAssumption DEF Init, PoolInit, Shared
<1>3. Cardinality(Shared) = 0 /\ 0 <= UV_ASYNC_HANDE - 2
  BY <1>2, FS_EmptySet, PoolAssumption
<1> QED BY <1>1, <1>3 DEF SpareInv

\* The requests of others do not grow but by OtherRequest.
LEMMA SharedShrinks ==
  ASSUME SpareInv, NEW S, S \subseteq Shared
  PROVE  careful => Cardinality(S) <= UV_ASYNC_HANDE - 2
<1>1. Cardinality(S) <= Cardinality(Shared) /\ Cardinality(S) \in Nat
  BY SharedIsFinite, FS_Subset, FS_CardinalityType
<1> QED BY <1>1, SharedIsFinite, PoolAssumption DEF SpareInv

LEMMA NextSpareInv ==
  ASSUME TypeOK, PoolInv(Work), CarefulInv, SpareInv, [Next]_vars
  PROVE  SpareInv'
<1>0. /\ slot \in [Handle -> Work \cup {Nothing}] /\ cur \in Handle \cup {NoHandle}
      /\ Nothing \notin Work
      /\ \A h \in Range(sent) : h \in Handle /\ h # cur
      /\ {"E_TIMER_START", "E_TIMER_STOP", "Other"} = Work
      /\ NoHandle \notin Handle
  <2>1. \A h \in Range(sent) : h \in Handle
    BY LenProperties DEF PoolInv, PoolTypeOK, Range
  <2> QED BY <2>1, TimerAssumption, PoolAssumption
          DEF PoolInv, PoolTypeOK, CallbackFindsHandle, Work, Handle, NoHandle
<1>1. careful' = careful
  BY CarefulIsConstant
<1>2. CASE UNCHANGED slot /\ Range(sent') \subseteq Range(sent)
  <2>1. Shared' = Shared
    BY <1>2 DEF Shared
  <2> QED BY <1>1, <1>2, <2>1 DEF SpareInv
<1>3. CASE \E w \in {"E_TIMER_START", "E_TIMER_STOP"} : Submit(w)
  <2>1. PICK w \in {"E_TIMER_START", "E_TIMER_STOP"} : Submit(w)
    BY <1>3
  <2>2. w \in Work /\ w # "Other"
    BY DEF Work
  <2>3. PICK h \in Handle : /\ slot' = [slot EXCEPT ![h] = w]
                            /\ Range(sent') = Range(sent) \cup {h}
    BY <2>1, <2>2, SubmitSent
  <2>4. Shared' \subseteq Shared
    BY <1>0, <2>2, <2>3 DEF Shared
  <2>5. \A g \in Range(sent') : slot'[g] # Nothing
    BY <1>0, <2>2, <2>3 DEF SpareInv
  <2>6. careful => Cardinality(Shared') <= UV_ASYNC_HANDE - 2
    BY <2>4, SharedShrinks
  <2> QED BY <1>1, <2>5, <2>6 DEF SpareInv
<1>4. CASE ClearTcb /\ cur \in Handle
  <2>1. slot' = [slot EXCEPT ![cur] = Nothing] /\ sent' = sent
    BY <1>4 DEF ClearTcb
  <2>2. Shared' \subseteq Shared
    BY <1>0, <1>4, <2>1, TimerAssumption DEF Shared
  <2>3. \A g \in Range(sent') : slot'[g] # Nothing
    BY <1>0, <2>1 DEF SpareInv
  <2>4. careful => Cardinality(Shared') <= UV_ASYNC_HANDE - 2
    BY <2>2, SharedShrinks
  <2> QED BY <1>1, <2>3, <2>4 DEF SpareInv
<1>5. CASE OtherRequest
  <2>1. PICK h \in Handle : /\ slot[h] = Nothing
                            /\ slot' = [slot EXCEPT ![h] = "Other"]
                            /\ Range(sent') = Range(sent) \cup {h}
    BY <1>0, <1>5, SubmitSent DEF OtherRequest
  <2>2. \A g \in Range(sent') : slot'[g] # Nothing
    BY <1>0, <2>1 DEF SpareInv
  <2>3. ASSUME careful PROVE Cardinality(Shared') <= UV_ASYNC_HANDE - 2
    <3> DEFINE Lent == {g \in m_mapAsync : slot[g] \in {"Other", Nothing}}
    <3>1. Shared' = Shared \cup {h} /\ h \notin Shared
      BY <1>0, <2>1 DEF Shared
    <3>2. Cardinality(Shared') = Cardinality(Shared) + 1
      BY <3>1, SharedIsFinite, FS_AddElement
    <3>3. Shared \subseteq Lent /\ Lent \subseteq Handle
      BY <1>0 DEF Shared, PoolInv, IdleHandlesEmpty, PoolTypeOK
    <3>4. IsFiniteSet(Lent)
      BY <3>3, SharedIsFinite, FS_Subset
    <3>5. Cardinality(Lent) < UV_ASYNC_HANDE - 2
      BY <1>5, <2>3 DEF OtherRequest
    <3>6. Cardinality(Shared) <= Cardinality(Lent) /\ Cardinality(Lent) \in Nat
      BY <3>3, <3>4, FS_Subset, FS_CardinalityType
    <3> HIDE DEF Lent
    <3> QED BY <3>2, <3>5, <3>6, SharedIsFinite, PoolAssumption
  <2> QED BY <1>1, <2>2, <2>3 DEF SpareInv
<1>6. CASE FireHandle
  BY <1>2, <1>6, FireInv DEF FireHandle
<1>7. CASE ReturnHandle
  BY <1>2, <1>7 DEF ReturnHandle, Recycle
<1>8. CASE TimerStart \/ RunOther \/ StopReturns
  BY <1>0, <1>4, <1>8
     DEF TimerStart, RunOther, StopReturns, CarefulInv, StopIsCurrent, Stopping
<1>9. CASE Restart \/ \E c \in Caller : AddReq(c)
  BY <1>2, <1>3, <1>9 DEF Restart, AddReq, poolVars
<1>10. CASE UNCHANGED vars \/ TimerStop \/ TestRestart \/ ClearRestart
            \/ TimerExpires \/ CallbackReturns
  BY <1>2, <1>10 DEF vars, TimerStop, TestRestart, ClearRestart, TimerExpires,
                     CallbackReturns, poolVars
<1>11. ASSUME NEW c \in Caller, NEW b \in BOOLEAN,
              SetTimer(c, b) \/ StartTimer(c, b) \/ StopTimer(c)
       PROVE  SpareInv'
  BY <1>2, <1>11 DEF SetTimer, StartTimer, StopTimer, poolVars
<1> QED
  BY <1>5, <1>6, <1>7, <1>8, <1>9, <1>10, <1>11 DEF Next, LoopThread

\* A handle is free when all but the current one are lent to others.
LEMMA SpareHandle ==
  ASSUME PoolInv(Work), SpareInv, careful,
         \A h \in m_mapAsync : h = cur \/ slot[h] = "Other"
  PROVE  ~Busy
<1>1. IsFiniteSet(Shared \cup {cur}) /\ Cardinality(Shared \cup {cur}) <= Cardinality(Shared) + 1
  <2>1. /\ IsFiniteSet(Shared \cup {cur})
        /\ cur \in Shared => Shared \cup {cur} = Shared
        /\ cur \notin Shared => Cardinality(Shared \cup {cur}) = Cardinality(Shared) + 1
    BY SharedIsFinite, FS_AddElement
  <2>2. CASE cur \in Shared
    <3>1. Cardinality(Shared \cup {cur}) = Cardinality(Shared)
      BY <2>1, <2>2, Zenon
    <3> QED BY <2>1, <3>1, SharedIsFinite
  <2>3. CASE cur \notin Shared
    BY <2>1, <2>3, SharedIsFinite
  <2> QED BY <2>1, <2>2, <2>3
<1>2. m_mapAsync \subseteq Shared \cup {cur}
  BY DEF Shared, PoolInv, PoolTypeOK
<1>3. Cardinality(m_mapAsync) <= Cardinality(Shared \cup {cur})
  BY <1>1, <1>2, FS_Subset
<1>4. Cardinality(m_mapAsync) \in Nat /\ Cardinality(Shared \cup {cur}) \in Nat
  BY <1>1, <1>2, FS_Subset, FS_CardinalityType
<1>5. Cardinality(m_mapAsync) # UV_ASYNC_HANDE
  BY <1>1, <1>3, <1>4, SharedIsFinite, PoolAssumption DEF SpareInv
<1>6. Busy => m_mapAsync = Handle
  BY BusyIsFull
<1>7. Cardinality(Handle) = UV_ASYNC_HANDE
  BY PoolAssumption, FS_Interval DEF Handle
<1> QED BY <1>5, <1>6, <1>7

\* The timer is as the last accepted call wanted it.
AsWanted ==
  /\ last = "stop" => handle \notin Armed
  /\ last = "start" /\ m_repeat => handle = "repeating"

\* What the calls of careful users want survives until it is done: in the
\* timer when nothing is under way, in the request that is stored, or in
\* m_bRestartTimer, which outlives no stop.
WishInv ==
  /\ (\A h \in Handle : ~Active(h)) =>
       AsWanted /\ (m_bRestartTimer <=> \E c \in Caller : pc[c] = "force")
  /\ \A h \in Handle : slot[h] = "E_TIMER_STOP" /\ lpc \notin {"clear", "restart", "return"} =>
       last = IF m_bRestartTimer THEN "start" ELSE "stop"
  /\ \A h \in Handle : slot[h] = "E_TIMER_START" => last = "start" /\ ~m_bRestartTimer
  /\ lpc = "clear" => last = "start"
  /\ lpc = "restart" => last = "start" /\ ~m_bRestartTimer
  /\ lpc = "return" =>
       /\ ~m_bRestartTimer
       /\ last = "stop" \/ \E h \in Handle : slot[h] = "E_TIMER_START"

LEMMA InitWishInv == Init => WishInv
BY TimerAssumption DEF Init, PoolInit, WishInv, AsWanted, Active

\* No call or request is under way.
LEMMA NothingUnderWay ==
  ASSUME CarefulInv, \A h \in Handle : ~Active(h)
  PROVE  ~Stopping
BY DEF CarefulInv, StopIsCurrent, Active

\* The calls, up to AddReq.
LEMMA CallWishInv ==
  ASSUME careful, TypeOK, FlagInv, CarefulInv, WishInv, NEW c \in Caller, NEW b \in BOOLEAN,
         SetTimer(c, b) \/ StartTimer(c, b) \/ StopTimer(c)
  PROVE  WishInv'
<1>1. /\ Quiescent /\ UNCHANGED <<slot, lpc, handle>>
      /\ pc \in [Caller -> {"idle", "start", "stop", "force"}]
      /\ m_bRestartTimer \in BOOLEAN /\ m_bTimerStarted \in BOOLEAN /\ m_repeat \in BOOLEAN
  BY DEF SetTimer, StartTimer, StopTimer, MayCall, poolVars, TypeOK
<1>2. /\ \A d \in Caller : pc[d] = "idle"
      /\ \A h \in Handle : ~Active(h) /\ slot[h] \notin {"E_TIMER_START", "E_TIMER_STOP"}
      /\ lpc \notin {"clear", "restart", "return"}
  BY <1>1, TimerAssumption DEF Quiescent, Active
<1>3. AsWanted /\ ~m_bRestartTimer
  BY <1>2 DEF WishInv
<1>4. AsWanted' /\ (m_bRestartTimer' <=> \E d \in Caller : pc'[d] = "force")
  <2>1. CASE SetTimer(c, b)
    BY <1>2, <1>3, <2>1 DEF SetTimer, AsWanted
  <2>2. CASE StopTimer(c)
    BY <1>1, <1>2, <1>3, <2>2 DEF StopTimer, AsWanted
  <2>3. CASE StartTimer(c, b)
    <3>1. CASE ~m_bTimerStarted
      BY <1>1, <1>2, <1>3, <2>3, <3>1 DEF StartTimer, AsWanted
    <3>2. CASE m_bTimerStarted /\ b
      BY <1>1, <1>2, <1>3, <2>3, <3>2 DEF StartTimer, AsWanted
    <3>3. CASE m_bTimerStarted /\ ~b
      <4>1. m_repeat => handle = "repeating"
        BY <3>3 DEF FlagInv, FlagTracksHandle, Armed
      <4> QED BY <1>1, <1>2, <1>3, <2>3, <3>3, <4>1 DEF StartTimer, AsWanted
    <3> QED BY <3>1, <3>2, <3>3
  <2> QED BY <2>1, <2>2, <2>3
<1> QED BY <1>1, <1>2, <1>4 DEF WishInv

\* AddReq stores the wish in the pool, and finds a handle for a restart.
LEMMA AddReqWishInv ==
  ASSUME careful, TypeOK, PoolInv(Work), CarefulInv, SpareInv, WishInv,
         NEW c \in Caller, AddReq(c)
  PROVE  WishInv'
<1>1. /\ UNCHANGED <<lpc, handle, m_repeat, m_bRestartTimer>>
      /\ pc' = [pc EXCEPT ![c] = "idle"] /\ pc[c] \in {"start", "stop", "force"}
      /\ pc \in [Caller -> {"idle", "start", "stop", "force"}]
      /\ slot \in [Handle -> Work \cup {Nothing}]
      /\ m_bRestartTimer \in BOOLEAN
  BY DEF AddReq, TypeOK, PoolTypeOK
<1>2. /\ \A h \in Handle : ~Active(h)
      /\ \A d \in Caller : d # c => pc[d] = "idle"
  BY <1>1 DEF CarefulInv, OneAtATime
<1>3. /\ AsWanted /\ (m_bRestartTimer <=> pc[c] = "force")
      /\ lpc \notin {"clear", "restart", "return"}
  BY <1>2, NothingUnderWay DEF WishInv, Stopping
<1>4. CASE Busy /\ UNCHANGED <<poolVars, last>>
  <2>1. \A h \in m_mapAsync : h = cur \/ slot[h] = "Other"
    BY <1>1, <1>2 DEF PoolInv, CallbackFindsHandle, SpareInv, Active, Work, PoolTypeOK
  <2>2. FALSE
    BY <1>4, <2>1, SpareHandle
  <2> QED BY <2>2
<1>5. CASE /\ Submit(IF pc[c] = "start" THEN "E_TIMER_START" ELSE "E_TIMER_STOP")
           /\ last' = IF pc[c] = "stop" THEN "stop" ELSE "start"
  <2>1. PICK w \in Work : w = IF pc[c] = "start" THEN "E_TIMER_START" ELSE "E_TIMER_STOP"
    BY DEF Work
  <2>2. PICK h \in Handle : slot' = [slot EXCEPT ![h] = w]
    BY <1>5, <2>1, SubmitFresh
  <2>3. slot'[h] = w /\ \A g \in Handle : g # h => slot'[g] \notin {"E_TIMER_START", "E_TIMER_STOP"}
    BY <1>1, <1>2, <2>2 DEF Active
  <2>4. ~\A g \in Handle : ~Active(g)'
    BY <2>1, <2>3 DEF Active
  <2> QED BY <1>1, <1>3, <1>5, <2>1, <2>3, <2>4 DEF WishInv
<1> QED BY <1>4, <1>5 DEF AddReq

\* The loop thread, outside timerStop.
LEMMA LoopWishInv ==
  ASSUME careful, TypeOK, PoolInv(Work), FlagInv, CarefulInv, WishInv,
         OtherRequest \/ FireHandle \/ TimerStart \/ RunOther \/ ReturnHandle
         \/ TimerExpires \/ CallbackReturns
  PROVE  WishInv'
<1>0. /\ slot \in [Handle -> Work \cup {Nothing}]
      /\ cur \in Handle \cup {NoHandle} /\ m_repeat \in BOOLEAN
      /\ Nothing \notin {"E_TIMER_START", "E_TIMER_STOP", "Other"}
  BY TimerAssumption DEF TypeOK, PoolTypeOK
<1>1. CASE OtherRequest \/ RunOther
  <2>1. /\ UNCHANGED timerVars
        /\ \A h \in Handle : \/ slot'[h] = slot[h]
                             \/ {slot[h], slot'[h]} \subseteq {"Other", Nothing}
    BY <1>0, <1>1, SubmitFresh DEF OtherRequest, RunOther, ClearTcb
  <2>2. \A h \in Handle : /\ Active(h)' <=> Active(h)
                          /\ slot'[h] = "E_TIMER_START" <=> slot[h] = "E_TIMER_START"
                          /\ slot'[h] = "E_TIMER_STOP" <=> slot[h] = "E_TIMER_STOP"
    BY <1>0, <2>1 DEF Active
  <2> QED BY <2>1, <2>2 DEF WishInv, AsWanted, timerVars
<1>2. CASE FireHandle \/ ReturnHandle
  <2>1. UNCHANGED <<timerVars, slot>>
    BY <1>2 DEF FireHandle, Fire, ReturnHandle, Recycle
  <2> QED BY <2>1 DEF WishInv, AsWanted, Active, timerVars
<1>3. CASE TimerStart
  <2>1. /\ cur \in Handle /\ slot[cur] = "E_TIMER_START" /\ Active(cur)
        /\ slot' = [slot EXCEPT ![cur] = Nothing]
        /\ handle' = IF m_repeat THEN "repeating" ELSE "once"
        /\ UNCHANGED <<m_bRestartTimer, m_repeat, pc, lpc, last>>
    BY <1>0, <1>3 DEF TimerStart, ClearTcb, Active
  <2>2. ~Stopping
    BY <2>1 DEF CarefulInv, StopIsCurrent
  <2>3. /\ \A c \in Caller : pc[c] = "idle"
        /\ \A h \in Handle : h # cur => ~Active(h)
    BY <2>1, <2>2 DEF CarefulInv, OneAtATime, Stopping
  <2>4. \A h \in Handle : slot'[h] \notin {"E_TIMER_START", "E_TIMER_STOP"}
    BY <1>0, <2>1, <2>3 DEF Active
  <2>5. last = "start" /\ ~m_bRestartTimer
    BY <2>1 DEF WishInv
  <2>6. AsWanted'
    BY <2>1, <2>5 DEF AsWanted
  <2> QED BY <2>1, <2>2, <2>3, <2>4, <2>5, <2>6 DEF WishInv, Stopping
<1>4. CASE TimerExpires
  <2>1. /\ UNCHANGED <<slot, m_bRestartTimer, m_repeat, pc, last>>
        /\ lpc = "idle" /\ lpc' = "timercb" /\ handle \in Armed
        /\ handle' = IF handle = "once" THEN "inactive" ELSE handle
    BY <1>4 DEF TimerExpires, poolVars
  <2>2. AsWanted => AsWanted'
    BY <2>1 DEF AsWanted
  <2> QED BY <2>1, <2>2 DEF WishInv, Active
<1>5. CASE CallbackReturns
  <2>1. /\ UNCHANGED <<slot, m_bRestartTimer, m_repeat, pc, last, handle>>
        /\ lpc = "timercb" /\ lpc' = "idle"
    BY <1>5 DEF CallbackReturns, poolVars
  <2> QED BY <2>1 DEF WishInv, AsWanted, Active
<1> QED BY <1>1, <1>2, <1>3, <1>4, <1>5

\* While timerStop restarts the timer, every handle in flight but its own is
\* some other user's.
LEMMA RestartFindsSpare ==
  ASSUME careful, TypeOK, PoolInv(Work), CarefulInv, SpareInv, lpc = "restart"
  PROVE  ~Busy
<1>1. /\ cur \in Handle /\ slot[cur] = "E_TIMER_STOP"
      /\ \A h \in Handle : h # cur => ~Active(h)
  BY DEF CarefulInv, StopIsCurrent, OneAtATime, Active, Stopping
<1>2. \A h \in m_mapAsync : h = cur \/ slot[h] = "Other"
  BY <1>1, TimerAssumption
     DEF TypeOK, PoolInv, CallbackFindsHandle, SpareInv, Active, Work, PoolTypeOK
<1> QED BY <1>2, SpareHandle

\* timerStop.
LEMMA StopWishInv ==
  ASSUME careful, TypeOK, PoolInv(Work), CarefulInv, SpareInv, WishInv,
         TimerStop \/ TestRestart \/ ClearRestart \/ Restart \/ StopReturns
  PROVE  WishInv'
<1>0. /\ slot \in [Handle -> Work \cup {Nothing}]
      /\ cur \in Handle \cup {NoHandle}
      /\ Nothing \notin {"E_TIMER_START", "E_TIMER_STOP", "Other"}
      /\ m_bRestartTimer \in BOOLEAN
  BY TimerAssumption DEF TypeOK, PoolTypeOK
<1>1. CASE TimerStop
  <2>1. /\ cur \in Handle /\ slot[cur] = "E_TIMER_STOP"
        /\ UNCHANGED <<slot, pc, m_bRestartTimer, last>>
        /\ lpc = "idle" /\ lpc' = "stopped"
    BY <1>0, <1>1 DEF TimerStop, poolVars
  <2>2. ~\A h \in Handle : ~Active(h)'
    BY <2>1 DEF Active
  <2> QED BY <2>1, <2>2 DEF WishInv
<1>2. ASSUME Stopping, lpc # "return"
      PROVE  /\ cur \in Handle /\ slot[cur] = "E_TIMER_STOP"
             /\ \A c \in Caller : pc[c] = "idle"
             /\ \A h \in Handle : h # cur => ~Active(h)
  BY <1>2 DEF CarefulInv, StopIsCurrent, OneAtATime, Active
<1>3. CASE TestRestart
  <2>1. /\ UNCHANGED <<slot, pc, m_bRestartTimer, last>>
        /\ lpc = "stopped" /\ lpc' = IF m_bRestartTimer THEN "clear" ELSE "return"
        /\ Stopping
    BY <1>3 DEF TestRestart, poolVars, Stopping
  <2>2. /\ cur \in Handle /\ slot[cur] = "E_TIMER_STOP"
        /\ ~\A h \in Handle : ~Active(h)'
    BY <1>2, <2>1 DEF Active
  <2>3. last = IF m_bRestartTimer THEN "start" ELSE "stop"
    BY <2>1, <2>2 DEF WishInv
  <2>4. \A h \in Handle : slot[h] # "E_TIMER_START"
    BY <1>2, <2>1 DEF Active
  <2> QED BY <1>0, <2>1, <2>2, <2>3, <2>4 DEF WishInv
<1>4. CASE ClearRestart
  <2>1. /\ UNCHANGED <<slot, pc, last>> /\ ~m_bRestartTimer'
        /\ lpc = "clear" /\ lpc' = "restart" /\ Stopping
    BY <1>4 DEF ClearRestart, poolVars, Stopping
  <2>2. /\ ~\A h \in Handle : ~Active(h)'
        /\ last = "start"
    BY <1>2, <2>1 DEF Active, WishInv
  <2> QED BY <2>1, <2>2 DEF WishInv
<1>5. CASE Restart
  <2>1. /\ UNCHANGED <<pc, last, m_bRestartTimer>>
        /\ lpc = "restart" /\ lpc' = "return" /\ Stopping
        /\ Submit("E_TIMER_START") \/ Busy
    BY <1>5 DEF Restart, Stopping
  <2>2. last = "start" /\ ~m_bRestartTimer
    BY <2>1 DEF WishInv
  <2>3. ~Busy
    BY <2>1, RestartFindsSpare
  <2>4. PICK h \in Handle : slot' = [slot EXCEPT ![h] = "E_TIMER_START"]
    BY <2>1, <2>3, SubmitFresh
  <2>5. slot'[h] = "E_TIMER_START"
    BY <1>0, <2>4
  <2>6. ~\A g \in Handle : ~Active(g)'
    BY <2>5 DEF Active
  <2> QED BY <2>1, <2>2, <2>5, <2>6 DEF WishInv
<1>6. CASE StopReturns
  <2>1. /\ UNCHANGED <<pc, last, m_bRestartTimer, handle, m_repeat>>
        /\ lpc = "return" /\ lpc' = "idle" /\ Stopping
        /\ slot' = [slot EXCEPT ![cur] = Nothing]
    BY <1>6 DEF StopReturns, ClearTcb, Stopping
  <2>2. /\ cur \in Handle /\ slot[cur] = "E_TIMER_STOP" /\ Active(cur)
        /\ handle \notin Armed /\ ~m_bRestartTimer
    BY <2>1 DEF CarefulInv, StopIsCurrent, HandleReady, Active, WishInv
  <2>3. \A h \in Handle : slot'[h] = IF h = cur THEN Nothing ELSE slot[h]
    BY <1>0, <2>1, <2>2
  <2>4. \A h \in Handle : slot'[h] # "E_TIMER_STOP"
    BY <1>0, <2>2, <2>3 DEF CarefulInv, OneAtATime, Active
  <2>5. \A c \in Caller : pc[c] = "idle"
    BY <2>2 DEF CarefulInv, OneAtATime
  <2>6. \A h \in Handle : slot'[h] = "E_TIMER_START" => last = "start"
    BY <1>0, <2>3 DEF WishInv
  <2>7. (\A h \in Handle : ~Active(h)') => last = "stop"
    BY <2>1, <2>2, <2>3 DEF WishInv, Active
  <2>8. last = "stop" => AsWanted'
    BY <2>1, <2>2 DEF AsWanted
  <2> QED BY <2>1, <2>2, <2>4, <2>5, <2>6, <2>7, <2>8 DEF WishInv
<1> QED BY <1>1, <1>3, <1>4, <1>5, <1>6

LEMMA NextWishInv ==
  ASSUME careful, TypeOK, PoolInv(Work), FlagInv, CarefulInv, SpareInv, WishInv,
         [Next]_vars
  PROVE  WishInv'
<1>1. CASE UNCHANGED vars
  BY <1>1 DEF WishInv, AsWanted, Active, vars, timerVars, poolVars
<1>2. CASE Next
  BY <1>2, CallWishInv, AddReqWishInv, LoopWishInv, StopWishInv DEF Next, LoopThread
<1> QED BY <1>1, <1>2

\* Whenever everything has settled the timer is as the last accepted call of
\* careful users wanted it, over any number of starts, stops, forced restarts
\* and expiries (timer.cpp:62-76, 84-96): no stop is undone by an earlier wish
\* to restart, and no restart is lost for want of a handle.
THEOREM LastCallStands ==
  ASSUME ~LateSet, UV_ASYNC_HANDE >= 2
  PROVE  Spec => []LastCallWins
<1> DEFINE Inv == /\ TypeOK /\ PoolInv(Work) /\ FlagInv /\ CarefulInv
                  /\ SpareInv /\ (careful => WishInv)
<1>1. Init => Inv
  BY InitTypeOK, InitFlagInv, InitCarefulInv, InitSpareInv, InitWishInv
<1>2. Inv /\ [Next]_vars => Inv'
  BY NextPool, NextTypeOK, NextFlagInv, NextCarefulInv, NextSpareInv, NextWishInv,
     CarefulIsConstant
<1>3. Inv => LastCallWins
  <2> SUFFICES ASSUME Inv, careful, Quiescent
               PROVE  AsWanted
    BY DEF LastCallWins, AsWanted
  <2>1. \A h \in Handle : ~Active(h)
    BY TimerAssumption DEF Quiescent, Active
  <2> QED BY <2>1 DEF WishInv
<1> QED BY <1>1, <1>2, <1>3, PTL DEF Spec

\* The startTimer inside timerStop (timer.cpp:93), which nobody repeats when it
\* is refused, always finds a free handle.
RestartHasHandle == careful /\ lpc = "restart" => ~Busy

\* For users who wait for each call, and leave the timer two handles, a forced
\* restart is never refused.
THEOREM RestartFindsHandle ==
  ASSUME ~LateSet, UV_ASYNC_HANDE >= 2
  PROVE  Spec => []RestartHasHandle
<1> DEFINE Inv == TypeOK /\ PoolInv(Work) /\ FlagInv /\ CarefulInv /\ SpareInv
<1>1. Init => Inv
  BY InitTypeOK, InitFlagInv, InitCarefulInv, InitSpareInv
<1>2. Inv /\ [Next]_vars => Inv'
  BY NextPool, NextTypeOK, NextFlagInv, NextCarefulInv, NextSpareInv
<1>3. Inv => RestartHasHandle
  BY RestartFindsSpare DEF RestartHasHandle
<1> QED BY <1>1, <1>2, <1>3, PTL DEF Spec

\* No handle of the pool is lost or duplicated by the requests of the timer,
\* and the callback always finds its handle (loop.cpp:45-49).
THEOREM PoolIsSound == Spec => [](HandlesConserved /\ CallbackFindsHandle)
<1>1. PoolInv(Work) /\ [Next]_vars => PoolInv(Work)'
  BY NextPool
<1>2. PoolInv(Work) => HandlesConserved /\ CallbackFindsHandle
  BY DEF PoolInv
<1> QED BY InitTypeOK, <1>1, <1>2, PTL DEF Spec
=============================================================================
