----------------------------- MODULE UvConnect -----------------------------
(***************************************************************************)
(* uvconnect (libuvcpp/connect.h, connect.cpp): one TCP connection, made   *)
(* by ConnectToServer or accepted by a server (RegisterloopAndStream).     *)
(* Clients and the event handler of the connection, which runs on the loop *)
(* thread inside libuv's callbacks, call the public operations; each sends *)
(* a request through the pool of the loop, and the private half runs on    *)
(* the loop thread.  m_bConnectSuccess and m_bReconect are plain fields.   *)
(*                                                                         *)
(* The uv_tcp_t blocks are numbered.  m_ptcp and m_pStream are shared_ptrs *)
(* that do not know of each other: both delete the block they point to.    *)
(* What must not be done with a block is recorded in faults; its effect is *)
(* undefined, and the model goes on as if it were harmless (a crash is a   *)
(* behaviour that goes no further).  The loop runs throughout.             *)
(***************************************************************************)
EXTENDS AsyncPool

CONSTANTS
  Clients,   \* client threads
  Handler,   \* the caller that stands for m_EvnentHandler, on the loop thread
  Buffers,      \* names for the stSend objects
  CarefulOps,   \* the public operations that careful users call
  CarelessOps,  \* and those that others call
  MaxCareful,   \* bounds on the calls other than wirteData, of careful users
  MaxCareless,  \* and of others
  MaxWrites     \* bound on the calls of wirteData

ASSUME ConnectAssumption ==
  /\ Handler \notin Clients
  /\ CarefulOps \cup CarelessOps
       \subseteq {"connect", "close", "reconnect", "read", "write", "other"}
  /\ Buffers \cap {"E_TCP_CONNECT", "E_TCP_CLOSE", "E_TCP_READ_START",
                   "E_TCP_READ_STOP", "Other", Nothing} = {}
  /\ Nothing \notin {"E_TCP_CONNECT", "E_TCP_CLOSE", "E_TCP_READ_START",
                    "E_TCP_READ_STOP", "Other"}
  /\ MaxCareful \in Nat /\ MaxCareless \in 0 .. MaxCareful /\ MaxWrites \in Nat

Caller  == Clients \cup {Handler}
Block   == 1 .. MaxCareful + 1
Null    == 0
Request == {"E_TCP_CONNECT", "E_TCP_CLOSE", "E_TCP_READ_START", "E_TCP_READ_STOP"}
Work    == Request \cup Buffers \cup {"Other"}

VARIABLES
  careful,    \* are connects, closes, reconnects and StopReadData made one
              \* after the other, each when it makes sense, and do the rest
              \* of the users of the loop leave two handles to them?
  m_bConnectSuccess,
  m_bReconect,
  m_ptcp,     \* the block m_ptcp owns
  m_pStream,  \* the block m_pStream owns
  m_mapSend,  \* keys of the map of the stSend objects in use
  m_dSend,    \* deque of the stSend objects to reuse
  uv,         \* what libuv knows of each block
  reading,    \* blocks with uv_read_start in effect
  writing,    \* writes that have not completed: the object and the block
  freed,      \* blocks that have been deleted
  faults,     \* what has been done that must not be
  pc,         \* the request each caller is about to make
  lpc,        \* where the loop thread is inside a callback of libuv
  data,       \* number of the write whose bytes are in each stSend
  accepted,   \* writes for which wirteData returned true, in order
  wire,       \* writes passed to uv_write, in order
  calls, writes

connVars == <<m_bConnectSuccess, m_bReconect, m_ptcp, m_pStream, uv, reading,
              freed, faults>>
sendVars == <<m_mapSend, m_dSend, writing, data, wire>>
vars == <<careful, poolVars, connVars, sendVars, pc, lpc, accepted, calls, writes>>

TypeOK ==
  /\ careful \in BOOLEAN
  /\ PoolTypeOK(Work)
  /\ m_bConnectSuccess \in BOOLEAN /\ m_bReconect \in BOOLEAN
  /\ m_ptcp \in Block \cup {Null} /\ m_pStream \in Block \cup {Null}
  /\ m_mapSend \subseteq Buffers /\ m_dSend \in Seq(Buffers)
  /\ uv \in [Block -> {"none", "connecting", "inert", "open", "closing", "closed"}]
  /\ reading \subseteq Block /\ freed \subseteq Block
  /\ writing \in Seq([buf : Buffers, on : Block \cup {Null}])
  /\ faults \subseteq {"null", "freed", "double close", "double free", "free in use"}
  /\ pc \in [Caller -> Work \cup {Nothing}]
  /\ lpc \in {"idle", "handler", "reconnect"}
  /\ data \in [Buffers -> 0 .. MaxWrites]
  /\ accepted \in Seq(1 .. MaxWrites) /\ wire \in Seq(1 .. MaxWrites)
  /\ calls \in 0 .. MaxCareful + MaxCareless /\ writes \in 0 .. MaxWrites

\* A new object, or one that a server made of an accepted stream.
Init ==
  /\ careful \in BOOLEAN
  /\ PoolInit
  /\ \E role \in {"client", "server"} :
       /\ m_bConnectSuccess = (role = "server")
       /\ m_pStream = IF role = "server" THEN 1 ELSE Null
       /\ uv = [b \in Block |-> IF b = m_pStream THEN "open" ELSE "none"]
  /\ m_bReconect = FALSE
  /\ m_ptcp = Null
  /\ m_mapSend = {} /\ m_dSend = <<>>
  /\ reading = {} /\ writing = <<>> /\ freed = {} /\ faults = {}
  /\ pc = [c \in Caller |-> Nothing]
  /\ lpc = "idle"
  /\ data = [b \in Buffers |-> 0]
  /\ accepted = <<>> /\ wire = <<>>
  /\ calls = 0 /\ writes = 0

-----------------------------------------------------------------------------
(* The callers.                                                            *)

\* Is a connect, close, reconnect or StopReadData under way?
Changing ==
  \/ \E c \in Caller : pc[c] \in Request \ {"E_TCP_READ_START"}
  \/ \E h \in Handle : slot[h] \in Request \ {"E_TCP_READ_START"}
  \/ lpc = "reconnect"
  \/ \E b \in Block : uv[b] \in {"connecting", "closing"}

\* The handles taken, or about to be, by StartReadData and other users.
Light ==
  Cardinality({h \in m_mapAsync : slot[h] \in {"Other", "E_TCP_READ_START", Nothing}})
  + Cardinality({c \in Caller : pc[c] = "E_TCP_READ_START"})

LeavesSpare == careful => Light < UV_ASYNC_HANDE - 2

MayCall(c, op) ==
  /\ op \in IF careful THEN CarefulOps ELSE CarelessOps
  /\ pc[c] = Nothing
  /\ c = Handler => lpc = "handler"

\* Caller c is about to send request r.
Call(c, r) ==
  /\ calls < IF careful THEN MaxCareful ELSE MaxCareless
  /\ calls' = calls + 1
  /\ pc' = [pc EXCEPT ![c] = r]
  /\ UNCHANGED <<careful, poolVars, sendVars, lpc, accepted, writes>>

Open == m_pStream # Null /\ uv[m_pStream] = "open"

ConnectToServer(c) ==
  /\ MayCall(c, "connect")
  /\ careful => ~Changing /\ \A b \in Block : uv[b] \in {"none", "closed"}
  /\ Call(c, "E_TCP_CONNECT")
  /\ UNCHANGED connVars

CloseConnection(c) ==
  /\ MayCall(c, "close")
  /\ careful => ~Changing /\ Open
  /\ Call(c, "E_TCP_CLOSE")
  /\ UNCHANGED connVars

Reconnnect(c) ==
  /\ MayCall(c, "reconnect")
  /\ careful => ~Changing /\ Open
  /\ m_bReconect' = TRUE
  /\ Call(c, "E_TCP_CLOSE")
  /\ UNCHANGED <<m_bConnectSuccess, m_ptcp, m_pStream, uv, reading, freed, faults>>

StartReadData(c) ==
  /\ MayCall(c, "read") /\ LeavesSpare
  /\ m_bConnectSuccess
  /\ Call(c, "E_TCP_READ_START")
  /\ UNCHANGED connVars

StopReadData(c) ==
  /\ MayCall(c, "read")
  /\ careful => ~Changing /\ Open
  /\ Call(c, "E_TCP_READ_STOP")
  /\ UNCHANGED connVars

\* Faulty variant: wirteData leaves the stSend object in the deque.
WirteDataKeepsFront(c) ==
  /\ MayCall(c, "write") /\ writes < MaxWrites
  /\ m_bConnectSuccess
  /\ writes' = writes + 1
  /\ \E b \in Buffers :
       /\ IF m_dSend = <<>> THEN b \notin m_mapSend ELSE b = Head(m_dSend)
       /\ m_mapSend' = m_mapSend \cup {b}
       /\ data' = [data EXCEPT ![b] = writes + 1]
       /\ pc' = [pc EXCEPT ![c] = b]
  /\ UNCHANGED <<careful, poolVars, connVars, m_dSend, writing, wire, lpc, accepted,
                 calls>>

\* wirteData up to AddReq: under m_writelock it takes an stSend object from
\* the deque or makes a new one, and registers it.
WirteData(c) ==
  /\ MayCall(c, "write") /\ writes < MaxWrites
  /\ m_bConnectSuccess
  /\ writes' = writes + 1
  /\ \E b \in Buffers :
       /\ \/ /\ m_dSend = <<>>
             /\ b \notin m_mapSend
             /\ UNCHANGED m_dSend
          \/ /\ m_dSend # <<>>
             /\ b = Head(m_dSend)
             /\ m_dSend' = Tail(m_dSend)
       /\ m_mapSend' = m_mapSend \cup {b}
       /\ data' = [data EXCEPT ![b] = writes + 1]
       /\ pc' = [pc EXCEPT ![c] = b]
  /\ UNCHANGED <<careful, poolVars, connVars, writing, wire, lpc, accepted, calls>>

\* AddReq on behalf of caller c.  Nothing is undone when it is refused.
AddReq(c) ==
  /\ pc[c] # Nothing
  /\ \/ /\ Submit(pc[c])
        /\ accepted' = IF pc[c] \in Buffers THEN Append(accepted, data[pc[c]])
                       ELSE accepted
     \/ /\ Busy
        /\ UNCHANGED <<poolVars, accepted>>
  /\ pc' = [pc EXCEPT ![c] = Nothing]
  /\ UNCHANGED <<careful, connVars, sendVars, lpc, calls, writes>>

\* The other users of the loop.
OtherRequest ==
  /\ "other" \in IF careful THEN CarefulOps ELSE CarelessOps
  /\ LeavesSpare
  /\ Submit("Other")
  /\ UNCHANGED <<careful, connVars, sendVars, pc, lpc, accepted, calls, writes>>

-----------------------------------------------------------------------------
(* The loop thread: requests.                                              *)

Running(work) == cur # NoHandle /\ slot[cur] = work

unchangedByLoop == <<careful, pc, accepted, calls, writes>>

\* libuv calls back the wake-ups in the order of the sends on Windows, and in
\* no promised order elsewhere, which makes a difference to those who write.
FireHandle ==
  /\ lpc = "idle"
  /\ Fire
  /\ ~careful => cur' = Head(sent)
  /\ UNCHANGED <<connVars, sendVars, lpc, unchangedByLoop>>

\* The faults of deleting block b, and of using m_pStream.
DeleteFaults(b) ==
  IF b = Null THEN {}
  ELSE (IF b \in freed THEN {"double free"} ELSE {})
       \cup (IF uv[b] \in {"none", "closed"} THEN {} ELSE {"free in use"})

StreamFaults ==
  IF m_pStream = Null THEN {"null"}
  ELSE IF m_pStream \in freed THEN {"freed"} ELSE {}

\* Connect: m_ptcp gets a new block and deletes the one it had.  When
\* uv_tcp_connect fails at once nobody notices and no callback will come.
Connect ==
  /\ Running("E_TCP_CONNECT")
  /\ \E b \in Block :
       /\ uv[b] = "none" /\ \A k \in 1 .. b - 1 : uv[k] # "none"
       /\ m_ptcp' = b
       /\ \E s \in {"connecting", "inert"} : uv' = [uv EXCEPT ![b] = s]
  /\ faults' = faults \cup DeleteFaults(m_ptcp)
  /\ freed' = freed \cup ({m_ptcp} \ {Null})
  /\ ClearTcb
  /\ UNCHANGED <<m_bConnectSuccess, m_bReconect, m_pStream, reading, sendVars,
                 lpc, unchangedByLoop>>

\* Faulty variant: CloseConnect leaves m_bConnectSuccess alone.
CloseConnectKeepsFlag ==
  /\ Running("E_TCP_CLOSE")
  /\ Open
  /\ uv' = [uv EXCEPT ![m_pStream] = "closing"]
  /\ reading' = reading \ {m_pStream}
  /\ ClearTcb
  /\ UNCHANGED <<m_bConnectSuccess, m_bReconect, m_ptcp, m_pStream, freed,
                 faults, sendVars, lpc, unchangedByLoop>>

\* CloseConnect: uv_close wants a live handle that is not closing yet.
CloseConnect ==
  /\ Running("E_TCP_CLOSE")
  /\ m_bConnectSuccess' = FALSE
  /\ \/ /\ Open
        /\ uv' = [uv EXCEPT ![m_pStream] = "closing"]
        /\ reading' = reading \ {m_pStream}
        /\ faults' = faults \cup StreamFaults
     \/ /\ ~Open
        /\ faults' = faults \cup StreamFaults
             \cup (IF m_pStream = Null THEN {} ELSE {"double close"})
        /\ UNCHANGED <<uv, reading>>
  /\ ClearTcb
  /\ UNCHANGED <<m_bReconect, m_ptcp, m_pStream, freed, sendVars, lpc,
                 unchangedByLoop>>

\* Faulty variant: ReadStart does not look at m_bConnectSuccess.
ReadStartUnchecked ==
  /\ Running("E_TCP_READ_START")
  /\ faults' = faults \cup StreamFaults
  /\ reading' = IF Open THEN reading \cup {m_pStream} ELSE reading
  /\ ClearTcb
  /\ UNCHANGED <<m_bConnectSuccess, m_bReconect, m_ptcp, m_pStream, uv, freed,
                 sendVars, lpc, unchangedByLoop>>

\* ReadStart; libuv refuses a handle that is closing.
ReadStart ==
  /\ Running("E_TCP_READ_START")
  /\ \/ /\ m_bConnectSuccess
        /\ faults' = faults \cup StreamFaults
        /\ reading' = IF Open THEN reading \cup {m_pStream} ELSE reading
     \/ /\ ~m_bConnectSuccess
        /\ UNCHANGED <<faults, reading>>
  /\ ClearTcb
  /\ UNCHANGED <<m_bConnectSuccess, m_bReconect, m_ptcp, m_pStream, uv, freed,
                 sendVars, lpc, unchangedByLoop>>

ReadStop ==
  /\ Running("E_TCP_READ_STOP")
  /\ faults' = faults \cup StreamFaults
  /\ reading' = reading \ {m_pStream}
  /\ ClearTcb
  /\ UNCHANGED <<m_bConnectSuccess, m_bReconect, m_ptcp, m_pStream, uv, freed,
                 sendVars, lpc, unchangedByLoop>>

\* tcpWrite: after the connection has gone it returns without a word, and the
\* stSend object stays in the map.
TcpWrite ==
  /\ cur # NoHandle /\ slot[cur] \in Buffers
  /\ \/ /\ m_bConnectSuccess
        /\ writing' = Append(writing, [buf |-> slot[cur], on |-> m_pStream])
        /\ wire' = Append(wire, data[slot[cur]])
        /\ faults' = faults \cup StreamFaults
     \/ /\ ~m_bConnectSuccess
        /\ UNCHANGED <<writing, wire, faults>>
  /\ ClearTcb
  /\ UNCHANGED <<m_bConnectSuccess, m_bReconect, m_ptcp, m_pStream, uv, reading,
                 freed, m_mapSend, m_dSend, data, lpc, unchangedByLoop>>

RunOther ==
  /\ Running("Other")
  /\ ClearTcb
  /\ UNCHANGED <<connVars, sendVars, lpc, unchangedByLoop>>

ReturnHandle ==
  /\ Recycle
  /\ UNCHANGED <<connVars, sendVars, lpc, unchangedByLoop>>

-----------------------------------------------------------------------------
(* The loop thread: callbacks of libuv.  Most end in the event handler.    *)

Between == cur = NoHandle /\ lpc = "idle"

\* The callback of uv_tcp_connect: m_pStream deletes the block it had and
\* becomes the second owner of the block of m_ptcp.
ConnectCallback(b, success) ==
  /\ Between
  /\ uv[b] = "connecting"
  /\ uv' = [uv EXCEPT ![b] = "open"]
  /\ faults' = faults \cup DeleteFaults(m_pStream)
  /\ freed' = freed \cup ({m_pStream} \ {Null})
  /\ m_pStream' = b
  /\ m_bConnectSuccess' = success
  /\ lpc' = "handler"
  /\ UNCHANGED <<poolVars, m_bReconect, m_ptcp, reading, sendVars,
                 unchangedByLoop>>

\* libuv calls back the writes of a closing handle before the handle itself.
CloseCallback(b) ==
  /\ Between
  /\ uv[b] = "closing"
  /\ \A i \in DOMAIN writing : writing[i].on # b
  /\ uv' = [uv EXCEPT ![b] = "closed"]
  /\ lpc' = IF m_bReconect THEN "reconnect" ELSE "idle"
  /\ UNCHANGED <<poolVars, m_bConnectSuccess, m_bReconect, m_ptcp, m_pStream,
                 reading, freed, faults, sendVars, unchangedByLoop>>

\* Faulty variant: the callback of uv_close reconnects without a request.
ReconnectForgotten ==
  /\ lpc = "reconnect"
  /\ m_bReconect' = FALSE
  /\ lpc' = "idle"
  /\ UNCHANGED <<poolVars, m_bConnectSuccess, m_ptcp, m_pStream, uv, reading,
                 freed, faults, sendVars, unchangedByLoop>>

\* ConnectToServer inside the callback of uv_close; its result is dropped.
Reconnect ==
  /\ lpc = "reconnect"
  /\ m_bReconect' = FALSE
  /\ Submit("E_TCP_CONNECT") \/ (Busy /\ UNCHANGED poolVars)
  /\ lpc' = "idle"
  /\ UNCHANGED <<m_bConnectSuccess, m_ptcp, m_pStream, uv, reading, freed,
                 faults, sendVars, unchangedByLoop>>

\* Data has arrived, or the stream has ended or failed.
ReadCallback(b, ended) ==
  /\ Between
  /\ b \in reading /\ uv[b] = "open"
  /\ reading' = IF ended THEN reading \ {m_pStream} ELSE reading
  /\ m_bConnectSuccess' = (m_bConnectSuccess /\ ~ended)
  /\ lpc' = "handler"
  /\ UNCHANGED <<poolVars, m_bReconect, m_ptcp, m_pStream, uv, freed, faults,
                 sendVars, unchangedByLoop>>

\* Faulty variant: the stSend object is not put back into the deque.
WriteCallbackDropsObject ==
  /\ Between
  /\ \E i \in DOMAIN writing :
       /\ \A k \in 1 .. i - 1 : writing[k].on # writing[i].on
       /\ writing' = RemoveAt(writing, i)
       /\ m_mapSend' = m_mapSend \ {writing[i].buf}
  /\ lpc' = "handler"
  /\ UNCHANGED <<poolVars, connVars, m_dSend, data, wire, unchangedByLoop>>

\* The first write of a block has completed, failed or been cancelled.  On an
\* open block that may never happen: it is up to the peer, who need not read.
WriteCallback ==
  /\ Between
  /\ \E i \in DOMAIN writing :
       /\ \A k \in 1 .. i - 1 : writing[k].on # writing[i].on
       /\ writing' = RemoveAt(writing, i)
       /\ \E b \in IF writing[i].buf \in m_mapSend THEN {writing[i].buf} ELSE Buffers :
            m_dSend' = Append(m_dSend, b)
       /\ m_mapSend' = m_mapSend \ {writing[i].buf}
  /\ lpc' = "handler"
  /\ UNCHANGED <<poolVars, connVars, data, wire, unchangedByLoop>>

HandlerReturns ==
  /\ lpc = "handler" /\ pc[Handler] = Nothing
  /\ lpc' = "idle"
  /\ UNCHANGED <<poolVars, connVars, sendVars, unchangedByLoop>>

-----------------------------------------------------------------------------
Requests ==
  \/ FireHandle \/ Connect \/ CloseConnect \/ ReadStart \/ ReadStop
  \/ TcpWrite \/ RunOther \/ ReturnHandle

Next ==
  \/ \E c \in Caller :
       \/ ConnectToServer(c) \/ CloseConnection(c) \/ Reconnnect(c)
       \/ StartReadData(c) \/ StopReadData(c) \/ WirteData(c) \/ AddReq(c)
  \/ OtherRequest \/ Requests
  \/ \E b \in Block :
       \/ \E ok \in BOOLEAN : ConnectCallback(b, ok) \/ ReadCallback(b, ok)
       \/ CloseCallback(b)
  \/ Reconnect \/ WriteCallback \/ HandlerReturns

Spec == Init /\ [][Next]_vars

\* Is libuv about to cancel the write at place i, because of a uv_close?
Cancelled(i) ==
  /\ writing[i].on \in Block
  /\ uv[writing[i].on] = "closing"

\* A call that has begun goes on, the loop thread runs, and in every turn of
\* uv_run libuv calls back the pending requests and, of a handle that is closing,
\* the writes and then the handle itself, however much data arrives.  The peer
\* need not answer or read, so that a write on an open handle may stay pending.
Fairness ==
  /\ \A c \in Caller : WF_vars(AddReq(c))
  /\ WF_vars(Requests \/ Reconnect \/ HandlerReturns)
  /\ \A h \in Handle : SF_vars(FireHandle /\ cur' = h)
  /\ SF_vars(/\ WriteCallback
             /\ \E i \in DOMAIN writing : Cancelled(i) /\ writing' = RemoveAt(writing, i))
  /\ SF_vars(\E b \in Block : CloseCallback(b))

FairSpec == Spec /\ Fairness

-----------------------------------------------------------------------------
(* For any user.                                                           *)

\* The bytes of a write are never overwritten before libuv is done with them
\* and write_cb always finds its object (connect.cpp:74-86, 206-222): an
\* stSend object that a caller, a request or libuv holds is held once, is in
\* the map and is not offered for reuse, where every object is offered once.
SendExclusive ==
  /\ IsInjective(m_dSend)
  /\ \A b \in Buffers :
       LET callers  == {c \in Caller : pc[c] = b}
           requests == {h \in Handle : slot[h] = b}
           queued   == {i \in DOMAIN writing : writing[i].buf = b}
           holders  == Cardinality(callers) + Cardinality(requests) + Cardinality(queued)
       IN  /\ holders <= 1
           /\ holders = 1 => b \in m_mapSend
           /\ b \in m_mapSend => b \notin Range(m_dSend)

\* The flag that lets tcpWrite and ReadStart go ahead (connect.cpp:151, 199)
\* is up only while m_pStream is an open handle.
ConnectedIsOpen == careful /\ m_bConnectSuccess => Open

\* With wake-ups in the order of the sends, what goes to the wire is what
\* was accepted, in that order, with nothing changed or sent twice; it may
\* have gaps, for tcpWrite drops what comes after the connection has gone.
WritesInOrder ==
  \A i, j \in DOMAIN wire :
    /\ Contains(accepted, wire[i])
    /\ i < j => \E k, m \in DOMAIN accepted :
                  k < m /\ accepted[k] = wire[i] /\ accepted[m] = wire[j]

\* Where the object of an accepted write can be.
Stored(b)   == \E h \in Handle : slot[h] = b
InLibuv(b)  == \E i \in DOMAIN writing : writing[i].buf = b
Closing(b)  == \E i \in DOMAIN writing : writing[i].buf = b /\ Cancelled(i)
Dropped(b)  == ~m_bConnectSuccess /\ b \in m_mapSend /\ ~Stored(b) /\ ~InLibuv(b)

\* No accepted write gets stuck in the library, however closes and the end of the
\* stream fall between the test, the request and its execution.  Its object goes
\* down to libuv on a connection that is not closing, unless it comes upon one
\* that is gone and is dropped (connect.cpp:199); and if it is still in libuv when
\* the connection is closed, it comes back to be used again (connect.cpp:206-222).
\* Nothing is promised of a write that libuv holds on an open connection.
AcceptedWriteMovesOn ==
  \A b \in Buffers :
    Stored(b) \/ Closing(b)
      ~> b \in Range(m_dSend) \/ (InLibuv(b) /\ ~Closing(b)) \/ Dropped(b)

-----------------------------------------------------------------------------
(* For a careful user.                                                     *)

\* No request finds m_pStream null, deleted or closing, and no open handle
\* is deleted: all that is left is what two owners of one block must do.
OnlyDoubleFree == careful => faults \subseteq {"double free"}

\* With two handles to spare a reconnect leads from the callback of uv_close
\* to another uv_tcp_connect (connect.cpp:101-105).
ReconnectCompletes ==
  careful /\ m_bReconect /\ (\E b \in Block : uv[b] = "closing")
    ~> \E b \in Block : uv[b] \in {"connecting", "inert"}
=============================================================================
