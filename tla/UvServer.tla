------------------------------ MODULE UvServer ------------------------------
(***************************************************************************)
(* TcpServer and uvaccept (libuvcpp/tcpServer.cpp, accept.cpp) with the    *)
(* connections they hand over, on the pool of one loop.  One thread uses   *)
(* the TcpServer; the loop thread listens, accepts and reads.  The user's  *)
(* OnNewConnection is that of sample/sample.cpp: it keeps the connection   *)
(* and calls StartReadData, whose result it does not look at.  How the     *)
(* loop starts and stops in detail is in UvLoop, what else a connection    *)
(* can do in UvConnect.                                                    *)
(*                                                                         *)
(* A careful user listens once, keeps every connection, and drops the      *)
(* TcpServer only when IsRunning is false.                                 *)
(***************************************************************************)
EXTENDS AsyncPool, FiniteSets

CONSTANTS
  Conns,    \* the connections that may arrive
  MaxCalls  \* bound on the calls of tcpListen, tcpRun and tcpStop

ASSUME ServerAssumption ==
  /\ MaxCalls \in Nat
  /\ Conns \cap {"E_TCP_LISTEN", "E_LOOP_STOP"} = {}
  /\ Nothing \notin {"E_TCP_LISTEN", "E_LOOP_STOP"} \cup Conns

VARIABLES
  m_bRunning,
  loop,       \* the thread in theadRun: none, in uv_run, told to stop, returned
  m_pServer,  \* the uv_tcp_t of the listener
  dangling,   \* does the running loop know a handle whose memory is freed?
  conn,       \* what has become of each connection
  backlog,    \* the connections the kernel holds, in the order of arrival
  kept,       \* the connections the user keeps
  pc,         \* what the user's thread is about to do
  listened,   \* has tcpListen been called?
  careful,    \* does the user keep to the rules above?
  calls

loopVars   == <<m_bRunning, loop>>
acceptVars == <<m_pServer, dangling, conn, backlog, kept>>
userVars   == <<pc, listened, careful, calls>>
vars == <<poolVars, loopVars, acceptVars, userVars>>

\* A read request stands for its connection.
Work == {"E_TCP_LISTEN", "E_LOOP_STOP"} \cup Conns

TypeOK ==
  /\ PoolTypeOK(Work)
  /\ m_bRunning \in BOOLEAN
  /\ loop \in {"none", "uv_run", "stopping", "returned"}
  /\ m_pServer \in {"none", "listening", "failed"}
  /\ dangling \in BOOLEAN /\ listened \in BOOLEAN /\ careful \in BOOLEAN
  /\ conn \in [Conns -> {"away", "waiting", "lost", "refused", "requested",
                         "reading", "ended"}]
  /\ backlog \in Seq(Conns) /\ kept \subseteq Conns
  /\ pc \in {"idle", "listen", "release", "gone"}
  /\ calls \in 0 .. MaxCalls

Init ==
  /\ PoolInit
  /\ m_bRunning = FALSE /\ loop = "none"
  /\ m_pServer = "none" /\ dangling = FALSE
  /\ conn = [c \in Conns |-> "away"] /\ backlog = <<>> /\ kept = {}
  /\ pc = "idle" /\ listened = FALSE /\ careful \in BOOLEAN /\ calls = 0

-----------------------------------------------------------------------------
(* The thread that uses the TcpServer.                                     *)

Call ==
  /\ pc = "idle"
  /\ calls < MaxCalls
  /\ calls' = calls + 1
  /\ UNCHANGED <<acceptVars, careful>>

\* uvloop::run, which does nothing while m_bRunning is set.
Run ==
  \/ /\ ~m_bRunning /\ loop = "none"
     /\ m_bRunning' = TRUE /\ loop' = "uv_run"
  \/ /\ m_bRunning
     /\ UNCHANGED loopVars

tcpRun == Call /\ Run /\ UNCHANGED <<poolVars, pc, listened>>

\* tcpListen up to the AddReq of uvaccept::listen.
tcpListen ==
  /\ Call /\ Run
  /\ careful => ~listened
  /\ listened' = TRUE
  /\ pc' = "listen"
  /\ UNCHANGED poolVars

\* The result of AddReq is dropped: tcpListen returns true.
Listen ==
  /\ pc = "listen"
  /\ \/ m_bRunning /\ Submit("E_TCP_LISTEN")
     \/ (~m_bRunning \/ Busy) /\ UNCHANGED poolVars
  /\ pc' = "idle"
  /\ UNCHANGED <<loopVars, acceptVars, listened, careful, calls>>

\* uvloop::stop, which does nothing when there is no free handle.
Stop ==
  \/ m_bRunning /\ Submit("E_LOOP_STOP")
  \/ (~m_bRunning \/ Busy) /\ UNCHANGED poolVars

tcpStop == Call /\ Stop /\ UNCHANGED <<loopVars, pc, listened>>

ListenPending == \E h \in Handle : slot[h] = "E_TCP_LISTEN"

\* ~TcpServer, first its body, and then its members: m_pListner goes before
\* m_pLoop, unless a request holds it.
DropServer ==
  /\ pc = "idle"
  /\ careful => ~m_bRunning
  /\ Stop
  /\ pc' = "release"
  /\ UNCHANGED <<loopVars, acceptVars, listened, careful, calls>>

ReleaseListener ==
  /\ pc = "release"
  /\ pc' = "gone"
  /\ dangling' = (dangling \/ (m_pServer # "none" /\ loop # "none" /\ ~ListenPending))
  /\ UNCHANGED <<poolVars, loopVars, m_pServer, conn, backlog, kept, listened,
                 careful, calls>>

-----------------------------------------------------------------------------
(* The loop thread: requests.                                              *)

InUvRun == loop \in {"uv_run", "stopping"}

FireHandle == InUvRun /\ Fire /\ UNCHANGED <<loopVars, acceptVars, userVars>>

\* ServerListenStart.  The reset of m_pServer frees the handle of an earlier
\* call; uv_listen may fail, for one because that handle has the port.  The
\* request may have been the last to hold the uvaccept.
ServerListenStart ==
  /\ cur # NoHandle /\ slot[cur] = "E_TCP_LISTEN"
  /\ m_pServer' \in {"listening", "failed"}
  /\ dangling' = (dangling \/ m_pServer # "none" \/ pc = "gone")
  /\ ClearTcb
  /\ UNCHANGED <<loopVars, conn, backlog, kept, userVars>>

\* Faulty variant: m_bConnectSuccess of an accepted connection is not set.
ReadStartReturnsEarly ==
  /\ cur # NoHandle /\ slot[cur] \in Conns
  /\ ClearTcb
  /\ UNCHANGED <<loopVars, acceptVars, userVars>>

\* ReadStart of the connection.  The request may have been the last to hold it.
ReadStart ==
  /\ cur # NoHandle
  /\ \E c \in Conns :
       /\ slot[cur] = c
       /\ conn' = [conn EXCEPT ![c] = "reading"]
       /\ dangling' = (dangling \/ c \notin kept)
  /\ ClearTcb
  /\ UNCHANGED <<loopVars, m_pServer, backlog, kept, userVars>>

\* Faulty variant: the flag falls with the request and not with uv_run.
LoopStopClearsFlag ==
  /\ cur # NoHandle /\ slot[cur] = "E_LOOP_STOP"
  /\ loop' = "stopping"
  /\ m_bRunning' = FALSE
  /\ ClearTcb
  /\ UNCHANGED <<acceptVars, userVars>>

LoopStop ==
  /\ cur # NoHandle /\ slot[cur] = "E_LOOP_STOP"
  /\ loop' = "stopping"
  /\ ClearTcb
  /\ UNCHANGED <<m_bRunning, acceptVars, userVars>>

ReturnHandle == Recycle /\ UNCHANGED <<loopVars, acceptVars, userVars>>

\* uv_run returns at the end of the turn in which uv_stop was called.
UvRunReturns ==
  /\ loop = "stopping" /\ cur = NoHandle
  /\ loop' = "returned"
  /\ UNCHANGED <<poolVars, m_bRunning, acceptVars, userVars>>

\* The rest of theadRun.
ThreadEnds ==
  /\ loop = "returned"
  /\ loop' = "none" /\ m_bRunning' = FALSE
  /\ UNCHANGED <<poolVars, acceptVars, userVars>>

-----------------------------------------------------------------------------
(* The loop thread: connections.                                           *)

Arrives(c) ==
  /\ conn[c] = "away" /\ m_pServer = "listening"
  /\ conn' = [conn EXCEPT ![c] = "waiting"]
  /\ backlog' = Append(backlog, c)
  /\ UNCHANGED <<poolVars, loopVars, m_pServer, dangling, kept, userVars>>

IOTurn == InUvRun /\ cur = NoHandle /\ UNCHANGED <<loopVars, m_pServer, userVars>>

\* The callback of uv_listen; then OnNewConnection, if uv_accept succeeds.  A
\* connection nobody holds is freed when the callback returns.
NewConnection(keep) ==
  /\ IOTurn
  /\ backlog # <<>> /\ m_pServer = "listening"
  /\ careful => keep
  /\ backlog' = Tail(backlog)
  /\ LET c == Head(backlog) IN
       \/ /\ conn' = [conn EXCEPT ![c] = "lost"]
          /\ UNCHANGED <<poolVars, kept, dangling>>
       \/ /\ kept' = IF keep THEN kept \cup {c} ELSE kept
          /\ \/ /\ m_bRunning /\ Submit(c)
                /\ conn' = [conn EXCEPT ![c] = "requested"]
                /\ UNCHANGED dangling
             \/ /\ ~m_bRunning \/ Busy
                /\ conn' = [conn EXCEPT ![c] = "refused"]
                /\ dangling' = (dangling \/ ~keep)
                /\ UNCHANGED poolVars

\* The read callback with an error: the connection is over, its handle open.
ReadEnds(c) ==
  /\ IOTurn
  /\ conn[c] = "reading"
  /\ conn' = [conn EXCEPT ![c] = "ended"]
  /\ UNCHANGED <<poolVars, dangling, backlog, kept>>

-----------------------------------------------------------------------------
LoopThread ==
  \/ ServerListenStart \/ ReadStart \/ LoopStop \/ ReturnHandle
  \/ UvRunReturns \/ ThreadEnds

Next ==
  \/ tcpRun \/ tcpListen \/ Listen \/ tcpStop \/ DropServer \/ ReleaseListener
  \/ FireHandle \/ LoopThread
  \/ \E c \in Conns : Arrives(c) \/ ReadEnds(c)
  \/ \E keep \in BOOLEAN : NewConnection(keep)

Spec == Init /\ [][Next]_vars

\* Callbacks return, and libuv calls back the pending requests, however many
\* connections arrive and end.
Fairness ==
  /\ WF_vars(LoopThread)
  /\ SF_vars(FireHandle)

FairSpec == Spec /\ Fairness
-----------------------------------------------------------------------------
(* Properties.                                                             *)

\* For a careful user no memory is freed that a handle of the running loop is
\* in: not that of the listener by ServerListenStart or by ~TcpServer, nor
\* that of a connection when its last holder lets go of it.
NothingDangles == careful => ~dangling

\* A StartReadData that was accepted in the callback of a new connection ends
\* in reading, while the loop runs (accept.cpp:61, connect.cpp:130).  One that
\* is refused, in a burst of connections beyond the pool, never does.
RequestedIsRead ==
  \A c \in Conns :
    conn[c] = "requested" ~> conn[c] \in {"reading", "ended"} \/ loop = "none"

\* A request to listen is carried out while the loop runs, although nobody
\* learns whether uv_listen succeeded (accept.cpp:43, tcpServer.cpp:25).
ListenTakesEffect == ListenPending ~> m_pServer # "none" \/ loop = "none"
=============================================================================
