--------------------------- MODULE UvServerProofs ---------------------------
(***************************************************************************)
(* Proofs about UvServer, for any number of handles, connections and       *)
(* calls, and either order of the wake-ups: the types, that for a careful  *)
(* user no memory is freed that the running loop still knows, and that a   *)
(* read that was accepted is not forgotten.                                *)
(***************************************************************************)
EXTENDS UvServer, AsyncPoolProofs

-----------------------------------------------------------------------------
(* The invariant.                                                          *)

\* What holds for any user: a callback runs inside uv_run, and the flag falls
\* after the thread is done, so that a user who reads it as false knows that
\* the loop is over.
LoopInv ==
  /\ cur # NoHandle => InUvRun
  /\ loop # "none" => m_bRunning

\* One listen at a time: it is about to be requested, or its request waits or
\* runs, or it has been carried out.
ListensOnce ==
  /\ pc = "listen" \/ ListenPending \/ m_pServer # "none" => listened
  /\ pc = "listen" => ~ListenPending
  /\ m_pServer # "none" => pc # "listen" /\ ~ListenPending
  /\ \A g, h \in Handle : slot[g] = "E_TCP_LISTEN" /\ slot[h] = "E_TCP_LISTEN" => g = h

\* The TcpServer goes only when the loop is over, and nothing starts it again.
GoneAfterLoop == pc \in {"release", "gone"} => ~m_bRunning

\* The user keeps every connection that waits to be read.
ReadersKept == \A h \in Handle : slot[h] \in Conns => slot[h] \in kept

CarefulInv == ListensOnce /\ GoneAfterLoop /\ ReadersKept /\ ~dangling

IInv ==
  /\ PoolInv(Work) /\ TypeOK
  /\ LoopInv
  /\ careful => CarefulInv

LEMMA InitIInv == Init => IInv
<1> SUFFICES ASSUME Init PROVE IInv
  OBVIOUS
<1>1. PoolInv(Work)
  BY PoolInitInv DEF Init
<1>2. TypeOK
  <2>1. backlog \in Seq(Conns)
    BY EmptySeq DEF Init
  <2>2. calls \in 0 .. MaxCalls
    BY ServerAssumption DEF Init
  <2>3. conn \in [Conns -> {"away", "waiting", "lost", "refused", "requested",
                           "reading", "ended"}]
    BY DEF Init
  <2> QED BY <1>1, <2>1, <2>2, <2>3 DEF Init, PoolInv, TypeOK
<1>3. \A h \in Handle : slot[h] = Nothing
  BY DEF Init, PoolInit
<1>4. ~ListenPending /\ ReadersKept
  BY <1>3, ServerAssumption DEF ListenPending, ReadersKept
<1>5. LoopInv
  BY DEF Init, PoolInit, LoopInv
<1> QED
  BY <1>1, <1>2, <1>3, <1>4, <1>5, ServerAssumption
     DEF Init, IInv, CarefulInv, ListensOnce, GoneAfterLoop

-----------------------------------------------------------------------------
(* The pool.                                                               *)

\* Submit puts the work into a handle that was empty.
LEMMA SubmitFills ==
  ASSUME PoolInv(Work), NEW w \in Work, Submit(w)
  PROVE  /\ PoolInv(Work)' /\ cur' = cur
         /\ \E h \in Handle : slot[h] = Nothing /\ slot' = [slot EXCEPT ![h] = w]
<1>1. PoolInv(Work)'
  BY SubmitInv
<1>2. PICK h : h = Head(m_dAsync)
  OBVIOUS
<1>3. h \in Handle /\ slot[h] = Nothing
  BY <1>2, FreshHandle DEF Submit
<1>4. slot' = [slot EXCEPT ![h] = w] /\ cur' = cur
  BY <1>2 DEF Submit
<1> QED BY <1>1, <1>3, <1>4

\* The steps of the loop thread that carry out the current request.
Serving == ServerListenStart \/ ReadStart \/ LoopStop

LEMMA ServingClears ==
  ASSUME PoolInv(Work), Serving
  PROVE  /\ PoolInv(Work)' /\ cur \in Handle /\ cur' = cur
         /\ slot' = [slot EXCEPT ![cur] = Nothing]
<1>1. cur # NoHandle /\ ClearTcb
  BY DEF Serving, ServerListenStart, ReadStart, LoopStop
<1>2. cur \in Handle
  BY <1>1 DEF PoolInv, PoolTypeOK
<1> QED BY <1>1, <1>2, ClearTcbInv DEF ClearTcb

LEMMA NextPoolInv ==
  ASSUME PoolInv(Work), backlog \in Seq(Conns), [Next]_vars
  PROVE  PoolInv(Work)'
<1>1. CASE UNCHANGED poolVars
  BY <1>1, PoolStutters
<1>2. ASSUME NEW w \in Work, Submit(w)
      PROVE  PoolInv(Work)'
  BY <1>2, SubmitFills
<1>3. CASE Listen \/ tcpStop \/ DropServer
  BY <1>1, <1>2, <1>3 DEF Listen, tcpStop, DropServer, Stop, Work
<1>4. ASSUME NEW keep \in BOOLEAN, NewConnection(keep)
      PROVE  PoolInv(Work)'
  <2>1. Head(backlog) \in Work
    BY <1>4, EmptySeq, HeadTailProperties DEF NewConnection, Work
  <2> QED BY <1>1, <1>2, <1>4, <2>1 DEF NewConnection
<1>5. CASE FireHandle
  BY <1>5, FireInv DEF FireHandle
<1>6. CASE ServerListenStart \/ ReadStart \/ LoopStop
  BY <1>6, ServingClears DEF Serving
<1>7. CASE ReturnHandle
  BY <1>7, RecycleInv DEF ReturnHandle
<1>8. ASSUME NEW c \in Conns, Arrives(c) \/ ReadEnds(c)
      PROVE  PoolInv(Work)'
  BY <1>1, <1>8 DEF Arrives, ReadEnds
<1>9. CASE tcpRun \/ tcpListen \/ ReleaseListener \/ UvRunReturns \/ ThreadEnds \/ UNCHANGED vars
  BY <1>1, <1>9 DEF tcpRun, tcpListen, ReleaseListener, UvRunReturns, ThreadEnds, vars
<1> QED
  BY <1>3, <1>4, <1>5, <1>6, <1>7, <1>8, <1>9 DEF Next, LoopThread

-----------------------------------------------------------------------------
(* The types.                                                              *)

\* TypeOK without the pool.
RestTypes ==
  /\ m_bRunning \in BOOLEAN
  /\ loop \in {"none", "uv_run", "stopping", "returned"}
  /\ m_pServer \in {"none", "listening", "failed"}
  /\ dangling \in BOOLEAN /\ listened \in BOOLEAN /\ careful \in BOOLEAN
  /\ conn \in [Conns -> {"away", "waiting", "lost", "refused", "requested",
                         "reading", "ended"}]
  /\ backlog \in Seq(Conns) /\ kept \subseteq Conns
  /\ pc \in {"idle", "listen", "release", "gone"}
  /\ calls \in 0 .. MaxCalls

LEMMA NewConnectionTypes ==
  ASSUME RestTypes, NEW keep \in BOOLEAN, NewConnection(keep)
  PROVE  RestTypes'
<1>1. backlog # <<>> /\ backlog' = Tail(backlog)
  BY DEF NewConnection
<1>2. PICK c : c = Head(backlog)
  OBVIOUS
<1>3. c \in Conns /\ backlog' \in Seq(Conns)
  BY <1>1, <1>2, HeadTailProperties DEF RestTypes
<1>4. /\ \E state \in {"lost", "requested", "refused"} :
           conn' = [conn EXCEPT ![c] = state]
      /\ kept' \in {kept, kept \cup {c}}
  BY <1>2 DEF NewConnection
<1>5. dangling' \in BOOLEAN
  BY DEF NewConnection, RestTypes
<1>6. UNCHANGED <<m_bRunning, loop, m_pServer, pc, listened, careful, calls>>
  BY DEF NewConnection, IOTurn, loopVars, userVars
<1> QED BY <1>3, <1>4, <1>5, <1>6 DEF RestTypes

LEMMA NextRestTypes ==
  ASSUME RestTypes, [Next]_vars
  PROVE  RestTypes'
<1>1. CASE UNCHANGED <<loopVars, acceptVars, userVars>>
  BY <1>1 DEF RestTypes, loopVars, acceptVars, userVars
<1>2. CASE tcpRun \/ tcpListen \/ tcpStop
  <2>1. /\ calls' = calls + 1 /\ calls < MaxCalls /\ UNCHANGED <<acceptVars, careful>>
        /\ pc' \in {"listen", pc} /\ listened' \in {TRUE, listened}
    BY <1>2 DEF tcpRun, tcpListen, tcpStop, Call
  <2>2. m_bRunning' \in {TRUE, m_bRunning} /\ loop' \in {"uv_run", loop}
    BY <1>2 DEF tcpRun, tcpListen, tcpStop, Run, loopVars
  <2>3. calls' \in 0 .. MaxCalls
    BY <2>1, ServerAssumption DEF RestTypes
  <2> QED BY <2>1, <2>2, <2>3 DEF RestTypes, acceptVars
<1>3. CASE Listen \/ DropServer
  BY <1>3 DEF Listen, DropServer, RestTypes, loopVars, acceptVars
<1>4. CASE ReleaseListener
  <2>1. dangling' \in BOOLEAN
    BY <1>4 DEF ReleaseListener, RestTypes
  <2> QED BY <1>4, <2>1 DEF ReleaseListener, RestTypes, loopVars
<1>5. CASE ServerListenStart
  <2>1. dangling' \in BOOLEAN
    BY <1>5 DEF ServerListenStart, RestTypes
  <2> QED BY <1>5, <2>1 DEF ServerListenStart, RestTypes, loopVars, userVars
<1>6. CASE ReadStart
  <2>1. PICK c \in Conns :
          conn' = [conn EXCEPT ![c] = "reading"] /\ dangling' = (dangling \/ c \notin kept)
    BY <1>6 DEF ReadStart
  <2>2. dangling' \in BOOLEAN
    BY <2>1 DEF RestTypes
  <2> QED BY <1>6, <2>1, <2>2 DEF ReadStart, RestTypes, loopVars, userVars
<1>7. CASE LoopStop \/ UvRunReturns \/ ThreadEnds
  BY <1>7 DEF LoopStop, UvRunReturns, ThreadEnds, RestTypes, acceptVars, userVars
<1>8. ASSUME NEW c \in Conns, Arrives(c)
      PROVE  RestTypes'
  <2>1. backlog' \in Seq(Conns)
    BY <1>8, AppendProperties DEF Arrives, RestTypes
  <2> QED BY <1>8, <2>1 DEF Arrives, RestTypes, loopVars, userVars
<1>9. ASSUME NEW c \in Conns, ReadEnds(c)
      PROVE  RestTypes'
  BY <1>9 DEF ReadEnds, IOTurn, RestTypes, loopVars, userVars
<1>10. ASSUME NEW keep \in BOOLEAN, NewConnection(keep)
       PROVE  RestTypes'
  BY <1>10, NewConnectionTypes
<1>11. FireHandle \/ ReturnHandle \/ UNCHANGED vars => UNCHANGED <<loopVars, acceptVars, userVars>>
  BY DEF FireHandle, ReturnHandle, vars
<1> QED
  BY <1>1, <1>2, <1>3, <1>4, <1>5, <1>6, <1>7, <1>8, <1>9, <1>10, <1>11
     DEF Next, LoopThread

-----------------------------------------------------------------------------
(* The flag and the loop.                                                  *)

LEMMA NextLoopInv ==
  ASSUME PoolInv(Work), LoopInv, [Next]_vars
  PROVE  LoopInv'
<1>1. CASE cur' = cur /\ UNCHANGED loopVars
  BY <1>1 DEF LoopInv, loopVars, InUvRun
<1>2. ASSUME NEW w, Submit(w) \/ UNCHANGED poolVars
      PROVE  cur' = cur
  BY <1>2 DEF Submit, poolVars
<1>3. CASE tcpRun \/ tcpListen
  <2>1. cur' = cur /\ Run
    BY <1>3 DEF tcpRun, tcpListen, poolVars
  <2> QED BY <1>1, <2>1 DEF Run, LoopInv, InUvRun
<1>4. Listen \/ tcpStop \/ DropServer => cur' = cur /\ UNCHANGED loopVars
  BY <1>2 DEF Listen, tcpStop, DropServer, Stop
<1>5. (\E keep \in BOOLEAN : NewConnection(keep)) => cur' = cur /\ UNCHANGED loopVars
  BY <1>2 DEF NewConnection, IOTurn
<1>6. CASE FireHandle
  BY <1>6 DEF FireHandle, LoopInv, InUvRun, loopVars
<1>7. CASE ReturnHandle
  BY <1>7 DEF ReturnHandle, Recycle, LoopInv, InUvRun, loopVars
<1>8. ServerListenStart \/ ReadStart => cur' = cur /\ UNCHANGED loopVars
  BY DEF ServerListenStart, ReadStart, ClearTcb
<1>9. CASE LoopStop
  BY <1>9 DEF LoopStop, ClearTcb, LoopInv, InUvRun
<1>10. CASE UvRunReturns
  BY <1>10 DEF UvRunReturns, poolVars, LoopInv, InUvRun
<1>11. CASE ThreadEnds
  BY <1>11 DEF ThreadEnds, poolVars, LoopInv, InUvRun
<1>12. ReleaseListener \/ (\E c \in Conns : Arrives(c) \/ ReadEnds(c)) \/ UNCHANGED vars
         => cur' = cur /\ UNCHANGED loopVars
  BY DEF ReleaseListener, Arrives, ReadEnds, IOTurn, vars, poolVars
<1> QED
  BY <1>1, <1>3, <1>4, <1>5, <1>6, <1>7, <1>8, <1>9, <1>10, <1>11, <1>12
     DEF Next, LoopThread

-----------------------------------------------------------------------------
(* The careful user.                                                       *)

\* Requests other than a listen that are stored, and requests that are dropped,
\* leave no more listens pending, and no reader that was not there.
LEMMA OtherSlots ==
  ASSUME IInv, careful, CarefulInv, NEW h \in Handle, NEW w \in (Work \ {"E_TCP_LISTEN"}) \cup {Nothing},
         slot' = [slot EXCEPT ![h] = w], kept \subseteq kept', w \in Conns => w \in kept'
  PROVE  /\ ListenPending' => ListenPending
         /\ \A f, g \in Handle : slot'[f] = "E_TCP_LISTEN" /\ slot'[g] = "E_TCP_LISTEN" => f = g
         /\ ReadersKept'
<1>1. slot \in [Handle -> Work \cup {Nothing}]
  BY DEF IInv, TypeOK, PoolTypeOK
<1>2. w # "E_TCP_LISTEN"
  BY ServerAssumption
<1>3. \A g \in Handle : slot'[g] = IF g = h THEN w ELSE slot[g]
  BY <1>1
<1>4. ReadersKept'
  BY <1>3 DEF CarefulInv, ReadersKept
<1> QED BY <1>2, <1>3, <1>4 DEF CarefulInv, ListensOnce, ListenPending

LEMMA NextCarefulInv ==
  ASSUME IInv, careful, [Next]_vars
  PROVE  CarefulInv'
<1> USE DEF IInv
<1>0. CarefulInv /\ ListensOnce /\ GoneAfterLoop /\ ReadersKept /\ ~dangling
  BY DEF CarefulInv
<1>1. CASE /\ UNCHANGED <<slot, m_pServer, pc, listened, kept, dangling>>
           /\ m_bRunning' => m_bRunning
  BY <1>0, <1>1 DEF CarefulInv, ListensOnce, GoneAfterLoop, ReadersKept, ListenPending
<1>2. CASE tcpRun \/ tcpListen
  <2>1. /\ pc = "idle" /\ UNCHANGED <<slot, m_pServer, kept, dangling>>
        /\ \/ pc' = pc /\ listened' = listened
           \/ /\ ~listened /\ listened' = TRUE
              /\ pc' = "listen"
    BY <1>2 DEF tcpRun, tcpListen, Call, poolVars, acceptVars
  <2> QED
    BY <1>0, <2>1 DEF CarefulInv, ListensOnce, GoneAfterLoop, ReadersKept, ListenPending
<1>3. CASE Listen
  <2>1. /\ pc = "listen" /\ pc' = "idle"
        /\ UNCHANGED <<m_bRunning, m_pServer, kept, dangling, listened>>
    BY <1>3 DEF Listen, loopVars, acceptVars
  <2>2. listened /\ ~ListenPending /\ m_pServer = "none"
    BY <1>0, <2>1 DEF ListensOnce
  <2>3. CASE UNCHANGED slot
    BY <1>0, <2>1, <2>2, <2>3
       DEF CarefulInv, ListensOnce, GoneAfterLoop, ReadersKept, ListenPending
  <2>4. CASE Submit("E_TCP_LISTEN")
    <3>1. PICK h \in Handle : slot' = [slot EXCEPT ![h] = "E_TCP_LISTEN"]
      BY <2>4, SubmitFills DEF Work
    <3>2. \A g \in Handle : slot'[g] = IF g = h THEN "E_TCP_LISTEN" ELSE slot[g]
      BY <3>1 DEF TypeOK, PoolTypeOK
    <3>3. ReadersKept'
      BY <1>0, <2>1, <3>2, ServerAssumption DEF ReadersKept
    <3>4. ListensOnce' /\ GoneAfterLoop'
      BY <2>1, <2>2, <3>2 DEF ListensOnce, GoneAfterLoop, ListenPending
    <3> QED BY <1>0, <2>1, <3>3, <3>4 DEF CarefulInv
  <2> QED BY <1>3, <2>3, <2>4 DEF Listen, poolVars
<1>4. CASE tcpStop \/ DropServer
  <2>1. /\ UNCHANGED <<m_bRunning, m_pServer, kept, dangling, listened>>
        /\ pc = "idle" /\ (pc' = pc \/ (pc' = "release" /\ ~m_bRunning))
        /\ Submit("E_LOOP_STOP") \/ UNCHANGED slot
    <3>1. CASE tcpStop
      BY <3>1 DEF tcpStop, Call, Stop, loopVars, acceptVars, poolVars
    <3>2. CASE DropServer
      BY <3>2 DEF DropServer, Stop, loopVars, acceptVars, poolVars
    <3> QED BY <1>4, <3>1, <3>2
  <2>2. CASE UNCHANGED slot
    BY <1>0, <2>1, <2>2
       DEF CarefulInv, ListensOnce, GoneAfterLoop, ReadersKept, ListenPending
  <2>3. CASE Submit("E_LOOP_STOP")
    <3>1. PICK h \in Handle : slot' = [slot EXCEPT ![h] = "E_LOOP_STOP"]
      BY <2>3, SubmitFills DEF Work
    <3>2. "E_LOOP_STOP" \in Work \ {"E_TCP_LISTEN"} /\ "E_LOOP_STOP" \notin Conns
      BY ServerAssumption DEF Work
    <3>3. /\ ListenPending' => ListenPending
          /\ \A f, g \in Handle : slot'[f] = "E_TCP_LISTEN" /\ slot'[g] = "E_TCP_LISTEN" => f = g
          /\ ReadersKept'
      BY <1>0, <2>1, <3>1, <3>2, OtherSlots
    <3> QED BY <1>0, <2>1, <3>3 DEF CarefulInv, ListensOnce, GoneAfterLoop
  <2> QED BY <2>1, <2>2, <2>3
<1>5. CASE ReleaseListener
  <2>1. /\ pc = "release" /\ pc' = "gone"
        /\ UNCHANGED <<slot, m_bRunning, m_pServer, kept, listened>>
        /\ dangling' = (dangling \/ (m_pServer # "none" /\ loop # "none" /\ ~ListenPending))
    BY <1>5 DEF ReleaseListener, poolVars, loopVars
  <2>2. loop = "none"
    BY <1>0, <2>1 DEF GoneAfterLoop, LoopInv
  <2> QED
    BY <1>0, <2>1, <2>2 DEF CarefulInv, ListensOnce, GoneAfterLoop, ReadersKept, ListenPending
<1>6. ASSUME Serving, kept' = kept
      PROVE  /\ ListenPending' => ListenPending
             /\ \A f, g \in Handle : slot'[f] = "E_TCP_LISTEN" /\ slot'[g] = "E_TCP_LISTEN" => f = g
             /\ ReadersKept'
  <2>1. cur \in Handle /\ slot' = [slot EXCEPT ![cur] = Nothing]
    BY <1>6, ServingClears
  <2>2. Nothing \notin Conns
    BY ServerAssumption
  <2> QED BY <1>0, <1>6, <2>1, <2>2, OtherSlots
<1>7. CASE ServerListenStart
  <2>1. /\ cur # NoHandle /\ slot[cur] = "E_TCP_LISTEN"
        /\ dangling' = (dangling \/ m_pServer # "none" \/ pc = "gone")
        /\ UNCHANGED <<m_bRunning, kept, pc, listened>>
    BY <1>7 DEF ServerListenStart, loopVars, userVars
  <2>2. cur \in Handle /\ slot' = [slot EXCEPT ![cur] = Nothing]
    BY <1>7, ServingClears DEF Serving
  <2>3. ListenPending
    BY <2>1, <2>2 DEF ListenPending
  <2>4. m_pServer = "none" /\ pc # "listen" /\ listened
    BY <1>0, <2>3 DEF ListensOnce
  <2>5. pc # "gone"
    BY <1>0, <2>1 DEF LoopInv, InUvRun, GoneAfterLoop
  <2>6. ~ListenPending'
    <3>1. \A g \in Handle : slot'[g] = IF g = cur THEN Nothing ELSE slot[g]
      BY <2>2 DEF TypeOK, PoolTypeOK
    <3>2. Nothing # "E_TCP_LISTEN"
      BY ServerAssumption
    <3>3. \A g \in Handle : slot[g] = "E_TCP_LISTEN" => g = cur
      BY <1>0, <2>1, <2>2 DEF ListensOnce
    <3> QED BY <3>1, <3>2, <3>3 DEF ListenPending
  <2>7. ReadersKept' /\ ListensOnce'
    BY <1>6, <1>7, <2>1, <2>4, <2>6 DEF Serving, ListensOnce
  <2> QED BY <1>0, <2>1, <2>4, <2>5, <2>7 DEF CarefulInv, GoneAfterLoop
<1>8. CASE ReadStart
  <2>1. PICK c \in Conns : slot[cur] = c /\ dangling' = (dangling \/ c \notin kept)
    BY <1>8 DEF ReadStart
  <2>2. UNCHANGED <<m_bRunning, m_pServer, kept, pc, listened>>
    BY <1>8 DEF ReadStart, loopVars, userVars
  <2>3. cur \in Handle
    BY <1>8, ServingClears DEF Serving
  <2>4. ~dangling'
    BY <1>0, <2>1, <2>3 DEF ReadersKept
  <2> QED
    BY <1>0, <1>6, <1>8, <2>2, <2>4 DEF Serving, CarefulInv, ListensOnce, GoneAfterLoop
<1>9. CASE LoopStop
  <2>1. UNCHANGED <<m_bRunning, m_pServer, kept, dangling, pc, listened>>
    BY <1>9 DEF LoopStop, acceptVars, userVars
  <2> QED
    BY <1>0, <1>6, <1>9, <2>1 DEF Serving, CarefulInv, ListensOnce, GoneAfterLoop
<1>10. ASSUME NEW keep \in BOOLEAN, NewConnection(keep)
       PROVE  CarefulInv'
  <2>1. /\ keep /\ UNCHANGED <<m_bRunning, m_pServer, pc, listened>>
        /\ backlog \in Seq(Conns) /\ backlog # <<>>
    BY <1>10 DEF NewConnection, IOTurn, loopVars, userVars, TypeOK
  <2>2. PICK c : c = Head(backlog)
    OBVIOUS
  <2>3. c \in Conns
    BY <2>1, <2>2, HeadTailProperties
  <2>4. /\ ~dangling' /\ kept \subseteq kept'
        /\ UNCHANGED slot \/ (Submit(c) /\ c \in kept')
    <3>1. kept' = kept \cup {c} \/ kept' = kept
      BY <1>10, <2>1, <2>2 DEF NewConnection
    <3>2. ~dangling'
      BY <1>0, <1>10, <2>1 DEF NewConnection
    <3>3. UNCHANGED slot \/ (Submit(c) /\ kept' = kept \cup {c})
      BY <1>10, <2>1, <2>2 DEF NewConnection, poolVars
    <3> QED BY <3>1, <3>2, <3>3
  <2>5. CASE UNCHANGED slot
    BY <1>0, <2>1, <2>4, <2>5
       DEF CarefulInv, ListensOnce, GoneAfterLoop, ReadersKept, ListenPending
  <2>6. CASE Submit(c) /\ c \in kept'
    <3>1. PICK h \in Handle : slot' = [slot EXCEPT ![h] = c]
      BY <2>3, <2>6, SubmitFills DEF Work
    <3>2. c \in Work \ {"E_TCP_LISTEN"}
      BY <2>3, ServerAssumption DEF Work
    <3>3. /\ ListenPending' => ListenPending
          /\ \A f, g \in Handle : slot'[f] = "E_TCP_LISTEN" /\ slot'[g] = "E_TCP_LISTEN" => f = g
          /\ ReadersKept'
      BY <1>0, <2>4, <2>6, <3>1, <3>2, OtherSlots
    <3> QED BY <1>0, <2>1, <2>4, <3>3 DEF CarefulInv, ListensOnce, GoneAfterLoop
  <2> QED BY <2>4, <2>5, <2>6
<1>11. CASE FireHandle \/ ReturnHandle \/ UvRunReturns \/ ThreadEnds \/ UNCHANGED vars
  <2>1. UNCHANGED <<slot, m_pServer, pc, listened, kept, dangling>>
    BY <1>11 DEF FireHandle, Fire, ReturnHandle, Recycle, UvRunReturns, ThreadEnds, vars,
       poolVars, acceptVars, userVars
  <2>2. m_bRunning' => m_bRunning
    BY <1>11 DEF FireHandle, ReturnHandle, UvRunReturns, ThreadEnds, vars, loopVars
  <2> QED BY <1>1, <2>1, <2>2
<1>12. ASSUME NEW c \in Conns, Arrives(c) \/ ReadEnds(c)
       PROVE  CarefulInv'
  BY <1>1, <1>12 DEF Arrives, ReadEnds, IOTurn, poolVars, loopVars, userVars
<1> QED
  BY <1>2, <1>3, <1>4, <1>5, <1>7, <1>8, <1>9, <1>10, <1>11, <1>12 DEF Next, LoopThread

-----------------------------------------------------------------------------
(* The theorems.                                                           *)

LEMMA NextIInv == IInv /\ [Next]_vars => IInv'
<1> SUFFICES ASSUME IInv, [Next]_vars
             PROVE  IInv'
  OBVIOUS
<1>1. PoolInv(Work)'
  BY NextPoolInv DEF IInv, TypeOK
<1>2. RestTypes'
  BY NextRestTypes DEF IInv, TypeOK, RestTypes
<1>3. TypeOK'
  BY <1>1, <1>2 DEF TypeOK, RestTypes, PoolInv
<1>4. LoopInv'
  BY NextLoopInv DEF IInv
<1>5. careful' = careful
  BY DEF Next, tcpRun, tcpListen, Listen, tcpStop, DropServer, ReleaseListener, Call,
         FireHandle, LoopThread, ServerListenStart, ReadStart, LoopStop, ReturnHandle,
         UvRunReturns, ThreadEnds, Arrives, ReadEnds, NewConnection, IOTurn, userVars, vars
<1>6. careful' => CarefulInv'
  BY <1>5, NextCarefulInv
<1> QED BY <1>1, <1>3, <1>4, <1>6 DEF IInv

LEMMA Invariance == Spec => []IInv
BY InitIInv, NextIInv, PTL DEF Spec

\* The types of UvServer, the pool's among them.
THEOREM TypeCorrect == Spec => []TypeOK
<1>1. IInv => TypeOK
  BY DEF IInv
<1> QED BY <1>1, Invariance, PTL

\* For a user who listens once, keeps the connections and drops the TcpServer
\* when IsRunning is false, no memory is freed while the running loop knows it
\* (tcpServer.cpp:14-48, accept.cpp:34-65): neither the listener's, when
\* ServerListenStart resets m_pServer or the TcpServer goes, nor that of a
\* connection, whether its StartReadData was accepted or refused.
THEOREM CarefulNothingDangles == Spec => []NothingDangles
<1>1. IInv => NothingDangles
  BY DEF IInv, CarefulInv, NothingDangles
<1> QED BY <1>1, Invariance, PTL

-----------------------------------------------------------------------------
(* The reads.                                                              *)

ReadsHeld == \A c \in Conns : conn[c] = "requested" => \E h \in Handle : slot[h] = c

\* A step that makes no connection requested, and takes no read away.
LEMMA ReadsStay ==
  ASSUME ReadsHeld, \A c \in Conns : conn'[c] = "requested" => conn[c] = "requested",
         \A h \in Handle : slot[h] \in Conns => slot'[h] = slot[h]
  PROVE  ReadsHeld'
BY DEF ReadsHeld

LEMMA NextReadsHeld ==
  ASSUME TypeOK, PoolInv(Work), ReadsHeld, [Next]_vars
  PROVE  ReadsHeld'
<1>0. /\ slot \in [Handle -> Work \cup {Nothing}] /\ Nothing \notin Conns
      /\ "E_TCP_LISTEN" \notin Conns /\ "E_LOOP_STOP" \notin Conns
      /\ \A c \in Conns : c \in Work
      /\ "E_TCP_LISTEN" \in Work /\ "E_LOOP_STOP" \in Work
      /\ conn \in [Conns -> {"away", "waiting", "lost", "refused", "requested",
                            "reading", "ended"}]
  BY ServerAssumption DEF TypeOK, PoolTypeOK, Work
<1>1. CASE UNCHANGED <<slot, conn>>
  BY <1>1, ReadsStay
<1>2. ASSUME NEW w \in Work, Submit(w), UNCHANGED conn
      PROVE  ReadsHeld'
  <2>1. \A h \in Handle : slot[h] \in Conns => slot'[h] = slot[h]
    BY <1>0, <1>2, SubmitFills
  <2> QED BY <1>2, <2>1, ReadsStay
<1>3. CASE Listen \/ tcpStop \/ DropServer
  <2>1. UNCHANGED conn
    BY <1>3 DEF Listen, tcpStop, DropServer, Call, acceptVars
  <2>2. Submit("E_TCP_LISTEN") \/ Submit("E_LOOP_STOP") \/ UNCHANGED slot
    BY <1>3 DEF Listen, tcpStop, DropServer, Stop, poolVars
  <2> QED BY <1>0, <1>1, <1>2, <2>1, <2>2
<1>4. ASSUME NEW keep \in BOOLEAN, NewConnection(keep)
      PROVE  ReadsHeld'
  <2>1. PICK c : c = Head(backlog)
    OBVIOUS
  <2>2. c \in Conns
    BY <1>4, <2>1, HeadTailProperties DEF NewConnection, TypeOK
  <2>3. \/ UNCHANGED slot /\ \E state \in {"lost", "refused"} : conn' = [conn EXCEPT ![c] = state]
        \/ Submit(c) /\ conn' = [conn EXCEPT ![c] = "requested"]
    BY <1>4, <2>1 DEF NewConnection, poolVars
  <2>4. CASE UNCHANGED slot /\ \E state \in {"lost", "refused"} : conn' = [conn EXCEPT ![c] = state]
    BY <1>0, <2>2, <2>4, ReadsStay
  <2>5. CASE Submit(c) /\ conn' = [conn EXCEPT ![c] = "requested"]
    <3>1. PICK h \in Handle : slot[h] = Nothing /\ slot' = [slot EXCEPT ![h] = c]
      BY <1>0, <2>2, <2>5, SubmitFills
    <3>2. slot'[h] = c /\ \A g \in Handle : slot[g] \in Conns => slot'[g] = slot[g]
      BY <1>0, <3>1
    <3>3. \A d \in Conns : d # c => conn'[d] = conn[d]
      BY <1>0, <2>5
    <3> QED BY <3>2, <3>3 DEF ReadsHeld
  <2> QED BY <2>3, <2>4, <2>5
<1>5. CASE FireHandle \/ ReturnHandle
  BY <1>1, <1>5 DEF FireHandle, Fire, ReturnHandle, Recycle, acceptVars
<1>6. CASE ServerListenStart \/ LoopStop
  <2>1. /\ slot' = [slot EXCEPT ![cur] = Nothing] /\ slot[cur] \notin Conns
        /\ cur \in Handle /\ UNCHANGED conn
    BY <1>0, <1>6, ServingClears DEF Serving, ServerListenStart, LoopStop, acceptVars
  <2> QED BY <1>0, <2>1, ReadsStay
<1>7. CASE ReadStart
  <2>1. PICK c \in Conns : slot[cur] = c /\ conn' = [conn EXCEPT ![c] = "reading"]
    BY <1>7 DEF ReadStart
  <2>2. slot' = [slot EXCEPT ![cur] = Nothing] /\ cur \in Handle
    BY <1>7, ServingClears DEF Serving
  <2>3. \A h \in Handle : slot[h] # c => slot'[h] = slot[h]
    BY <1>0, <2>1, <2>2
  <2>4. \A d \in Conns : conn'[d] = "requested" => d # c /\ conn[d] = "requested"
    BY <1>0, <2>1
  <2> QED BY <2>3, <2>4 DEF ReadsHeld
<1>8. ASSUME NEW c \in Conns, Arrives(c) \/ ReadEnds(c)
      PROVE  ReadsHeld'
  <2>1. UNCHANGED slot /\ \E state \in {"waiting", "ended"} : conn' = [conn EXCEPT ![c] = state]
    BY <1>8 DEF Arrives, ReadEnds, poolVars
  <2> QED BY <1>0, <2>1, ReadsStay
<1>9. CASE tcpRun \/ tcpListen \/ ReleaseListener \/ UvRunReturns \/ ThreadEnds \/ UNCHANGED vars
  BY <1>1, <1>9
     DEF tcpRun, tcpListen, ReleaseListener, UvRunReturns, ThreadEnds, Call, vars, poolVars,
         acceptVars
<1> QED
  BY <1>3, <1>4, <1>5, <1>6, <1>7, <1>8, <1>9 DEF Next, LoopThread

\* A connection whose read was accepted is never forgotten: until it is read
\* its request waits for its wake-up, or runs (accept.cpp:61, connect.cpp:130).
ReadsAreStored ==
  \A c \in Conns :
    conn[c] = "requested" => \E h \in Range(sent) \cup ({cur} \ {NoHandle}) : slot[h] = c

\* Whatever the user does, and however long the burst of connections.
THEOREM ReadsAreKept == Spec => []ReadsAreStored
<1>1. Init => ReadsHeld
  BY DEF Init, ReadsHeld
<1>2. IInv /\ ReadsHeld /\ [Next]_vars => ReadsHeld'
  BY NextReadsHeld DEF IInv
<1>3. IInv /\ ReadsHeld => ReadsAreStored
  <2> SUFFICES ASSUME IInv, ReadsHeld, NEW c \in Conns, conn[c] = "requested"
               PROVE  \E h \in Range(sent) \cup ({cur} \ {NoHandle}) : slot[h] = c
    BY DEF ReadsAreStored
  <2>1. PICK h \in Handle : slot[h] = c
    BY DEF ReadsHeld
  <2>2. h \in m_mapAsync
    BY <2>1, ServerAssumption DEF IInv, PoolInv, IdleHandlesEmpty
  <2> QED BY <2>1, <2>2 DEF IInv, PoolInv, CallbackFindsHandle
<1> QED BY <1>1, <1>2, <1>3, Invariance, PTL DEF Spec

\* No handle of the pool is lost or duplicated by a server and its connections,
\* and the callback always finds its handle (loop.cpp:45-49).
THEOREM PoolIsSound == Spec => [](HandlesConserved /\ CallbackFindsHandle)
<1>1. IInv => HandlesConserved /\ CallbackFindsHandle
  BY DEF IInv, PoolInv
<1> QED BY <1>1, Invariance, PTL
=============================================================================
