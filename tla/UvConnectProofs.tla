-------------------------- MODULE UvConnectProofs --------------------------
(***************************************************************************)
(* Proofs about UvConnect, for any number of handles, clients, calls and   *)
(* stSend objects: the objects, the connection, the order of the writes,   *)
(* and that a reconnect finds a handle.                                    *)
(***************************************************************************)
EXTENDS UvConnect, AsyncPoolProofs, FiniteSetTheorems

LEMMA WorkDistinct ==
  /\ Nothing \notin Work /\ "Other" \notin Buffers /\ Nothing \notin Buffers
  /\ \A r \in Request : r \notin Buffers
  /\ NoHandle \notin Handle
BY ConnectAssumption, PoolAssumption DEF Work, Request, NoHandle, Handle

-----------------------------------------------------------------------------
(* The pool of handles.                                                    *)

\* Every step keeps the invariant of the pool: it is a step of the pool or
\* leaves the pool alone.
LEMMA NextPool ==
  ASSUME PoolInv(Work), pc \in [Caller -> Work \cup {Nothing}], [Next]_vars
  PROVE  PoolInv(Work)'
<1>0. \A r \in Request \cup Buffers \cup {"Other"} : r \in Work
  BY DEF Work
<1>1. CASE UNCHANGED vars
  BY <1>1, PoolStutters DEF vars
<1>2. ASSUME NEW c \in Caller,
             \/ ConnectToServer(c) \/ CloseConnection(c) \/ Reconnnect(c)
             \/ StartReadData(c) \/ StopReadData(c) \/ WirteData(c)
      PROVE  PoolInv(Work)'
  BY <1>2, PoolStutters
     DEF ConnectToServer, CloseConnection, Reconnnect, StartReadData,
         StopReadData, WirteData, Call
<1>3. ASSUME NEW c \in Caller, AddReq(c)
      PROVE  PoolInv(Work)'
  <2>1. pc[c] \in Work
    BY <1>3 DEF AddReq
  <2> QED BY <1>3, <2>1, SubmitInv, PoolStutters DEF AddReq
<1>4. CASE OtherRequest
  BY <1>0, <1>4, SubmitInv DEF OtherRequest
<1>5. CASE FireHandle
  BY <1>5, FireInv DEF FireHandle
<1>6. CASE Connect \/ CloseConnect \/ ReadStart \/ ReadStop \/ TcpWrite \/ RunOther
  BY <1>6, ClearTcbInv
     DEF Connect, CloseConnect, ReadStart, ReadStop, TcpWrite, RunOther, Running
<1>7. CASE ReturnHandle
  BY <1>7, RecycleInv DEF ReturnHandle
<1>8. CASE Reconnect
  <2>1. "E_TCP_CONNECT" \in Work
    BY <1>0 DEF Request
  <2> QED BY <1>8, <2>1, SubmitInv, PoolStutters DEF Reconnect
<1>9. ASSUME NEW b \in Block, NEW ok \in BOOLEAN,
             ConnectCallback(b, ok) \/ ReadCallback(b, ok) \/ CloseCallback(b)
      PROVE  PoolInv(Work)'
  BY <1>9, PoolStutters DEF ConnectCallback, ReadCallback, CloseCallback
<1>10. CASE WriteCallback \/ HandlerReturns
  BY <1>10, PoolStutters DEF WriteCallback, HandlerReturns
<1>11. TRUE \in BOOLEAN
  OBVIOUS
<1> QED
  BY <1>1, <1>2, <1>3, <1>4, <1>5, <1>6, <1>7, <1>8, <1>9, <1>10, <1>11
     DEF Next, Requests

\* A request is stored in a handle that stored nothing.
LEMMA SubmitFresh ==
  ASSUME PoolInv(Work), NEW w, Submit(w)
  PROVE  \E h \in Handle : slot[h] = Nothing /\ slot' = [slot EXCEPT ![h] = w]
<1>1. LET h == Head(m_dAsync) IN h \in Handle /\ slot[h] = Nothing
  BY FreshHandle DEF Submit
<1> QED BY <1>1 DEF Submit

-----------------------------------------------------------------------------
(* The stSend objects.                                                     *)

\* A write in the queue of libuv.
Write == [buf : Buffers, on : Block \cup {Null}]

SendTypes ==
  /\ m_ptcp \in Block \cup {Null} /\ m_pStream \in Block \cup {Null}
  /\ pc \in [Caller -> Work \cup {Nothing}]
  /\ m_dSend \in Seq(Buffers) /\ writing \in Seq(Write)

\* What each holder of an stSend object may rely on: no other holder has it,
\* it is in the map, and what is in the map is not offered for reuse.
HeldOnce ==
  /\ \A c, d \in Caller : pc[c] \in Buffers /\ pc[c] = pc[d] => c = d
  /\ \A g, h \in Handle : slot[g] \in Buffers /\ slot[g] = slot[h] => g = h
  /\ \A x, y \in Range(writing) : x.buf = y.buf => x = y
  /\ \A c \in Caller, h \in Handle : pc[c] \in Buffers => slot[h] # pc[c]
  /\ \A c \in Caller, x \in Range(writing) : x.buf # pc[c]
  /\ \A h \in Handle, x \in Range(writing) : x.buf # slot[h]

HeldInMap ==
  /\ \A c \in Caller : pc[c] \in Buffers => pc[c] \in m_mapSend
  /\ \A h \in Handle : slot[h] \in Buffers => slot[h] \in m_mapSend
  /\ \A x \in Range(writing) : x.buf \in m_mapSend

SendInv ==
  /\ SendTypes
  /\ HeldOnce /\ HeldInMap
  /\ IsInjective(writing) /\ IsInjective(m_dSend)
  /\ Range(m_dSend) \cap m_mapSend = {}

\* What libuv has queued is a write of an object.
LEMMA QueuedWrites ==
  ASSUME SendTypes
  PROVE  \A x \in Range(writing) : x \in Write /\ x.buf \in Buffers
<1>1. \A x \in Range(writing) : x \in Write
  BY LenProperties DEF SendTypes, Range
<1> QED BY <1>1 DEF Write

LEMMA InitSendInv == Init => SendInv
<1> SUFFICES ASSUME Init PROVE SendInv
  OBVIOUS
<1>1. <<>> \in Seq(Buffers) /\ <<>> \in Seq(Write) /\ DOMAIN <<>> = {}
  BY EmptySeq
<1>2. 1 \in Block
  BY ConnectAssumption DEF Block
<1>3. SendTypes
  BY <1>1, <1>2 DEF Init, SendTypes
<1>4. Range(writing) = {} /\ Range(m_dSend) = {}
  BY <1>1 DEF Init, Range
<1>5. HeldOnce /\ HeldInMap
  BY <1>4, WorkDistinct DEF Init, PoolInit, HeldOnce, HeldInMap
<1> QED BY <1>1, <1>3, <1>4, <1>5 DEF Init, SendInv, IsInjective

\* What a step does to the objects: nothing, ...
LEMMA SendStutters ==
  ASSUME SendInv, SendTypes',
         UNCHANGED <<pc, slot, writing, m_dSend, m_mapSend>>
  PROVE  SendInv'
BY DEF SendInv, HeldOnce, HeldInMap

\* ... or it stores something other than an object, or Nothing, in a handle or
\* with a caller.
LEMMA StoreOther ==
  ASSUME SendInv, SendTypes', NEW v, v \notin Buffers, slot \in [Handle -> Work \cup {Nothing}],
         UNCHANGED <<writing, m_dSend, m_mapSend>>,
         \/ \E h \in Handle : slot' = [slot EXCEPT ![h] = v] /\ UNCHANGED pc
         \/ \E c \in Caller : pc' = [pc EXCEPT ![c] = v] /\ UNCHANGED slot
  PROVE  SendInv'
<1> USE DEF SendInv
<1>1. CASE \E h \in Handle : slot' = [slot EXCEPT ![h] = v] /\ UNCHANGED pc
  <2>1. PICK h \in Handle : slot' = [slot EXCEPT ![h] = v] /\ UNCHANGED pc
    BY <1>1
  <2>2. \A x \in Range(writing) : x.buf # v
    BY QueuedWrites
  <2>3. HeldOnce'
    BY <2>1, <2>2 DEF HeldOnce, SendTypes
  <2>4. HeldInMap'
    BY <2>1 DEF HeldInMap
  <2> QED BY <2>3, <2>4
<1>2. CASE \E c \in Caller : pc' = [pc EXCEPT ![c] = v] /\ UNCHANGED slot
  <2>1. PICK c \in Caller : pc' = [pc EXCEPT ![c] = v] /\ UNCHANGED slot
    BY <1>2
  <2>2. \A x \in Range(writing) : x.buf # v
    BY QueuedWrites
  <2>3. HeldOnce'
    BY <2>1, <2>2 DEF HeldOnce, SendTypes
  <2>4. HeldInMap'
    BY <2>1 DEF HeldInMap, SendTypes
  <2> QED BY <2>3, <2>4
<1> QED BY <1>1, <1>2

\* wirteData takes an object that nobody holds.
LEMMA WirteDataSendInv ==
  ASSUME SendInv, NEW c \in Caller, WirteData(c)
  PROVE  SendInv'
<1> USE DEF SendInv
<1>1. PICK b \in Buffers :
        /\ \/ m_dSend = <<>> /\ b \notin m_mapSend /\ UNCHANGED m_dSend
           \/ m_dSend # <<>> /\ b = Head(m_dSend) /\ m_dSend' = Tail(m_dSend)
        /\ m_mapSend' = m_mapSend \cup {b}
        /\ pc' = [pc EXCEPT ![c] = b]
  BY DEF WirteData
<1>2. /\ UNCHANGED <<slot, writing, m_ptcp, m_pStream>> /\ pc[c] = Nothing
  BY DEF WirteData, MayCall, poolVars, connVars
<1>3. /\ b \notin m_mapSend
      /\ m_dSend' \in Seq(Buffers) /\ IsInjective(m_dSend')
      /\ Range(m_dSend') \cap m_mapSend' = {}
  <2>1. CASE m_dSend = <<>> /\ b \notin m_mapSend /\ UNCHANGED m_dSend
    <3>1. Range(m_dSend') = {}
      BY <2>1, EmptySeq DEF Range
    <3> QED BY <2>1, <3>1 DEF SendTypes
  <2>2. CASE m_dSend # <<>> /\ b = Head(m_dSend) /\ m_dSend' = Tail(m_dSend)
    BY <1>1, <2>2, TailKeepsInjective DEF SendTypes
  <2> QED BY <1>1, <2>1, <2>2
<1>4. SendTypes'
  BY <1>1, <1>2, <1>3 DEF SendTypes, Work
<1>5. /\ \A d \in Caller : pc[d] # b
      /\ \A h \in Handle : slot[h] # b
      /\ \A x \in Range(writing) : x.buf # b
  BY <1>3 DEF HeldInMap
<1>6. HeldOnce'
  BY <1>1, <1>2, <1>5 DEF HeldOnce, SendTypes
<1>7. HeldInMap'
  BY <1>1, <1>2 DEF HeldInMap, SendTypes
<1> QED BY <1>2, <1>3, <1>4, <1>6, <1>7

\* AddReq moves what the caller holds into a handle, or lets it go.
LEMMA AddReqSendInv ==
  ASSUME SendInv, PoolInv(Work), NEW c \in Caller, AddReq(c)
  PROVE  SendInv'
<1> USE DEF SendInv
<1>1. /\ UNCHANGED <<writing, m_dSend, m_mapSend, m_ptcp, m_pStream>>
      /\ pc' = [pc EXCEPT ![c] = Nothing]
      /\ slot \in [Handle -> Work \cup {Nothing}]
  BY DEF AddReq, connVars, sendVars, PoolInv, PoolTypeOK
<1>2. SendTypes'
  BY <1>1 DEF SendTypes
<1>3. CASE UNCHANGED poolVars
  BY <1>1, <1>2, <1>3, WorkDistinct, StoreOther DEF poolVars
<1>4. CASE Submit(pc[c])
  <2>1. PICK h \in Handle : slot[h] = Nothing /\ slot' = [slot EXCEPT ![h] = pc[c]]
    BY <1>4, SubmitFresh
  <2>2. \A x \in Range(writing) : x.buf \in Buffers
    BY QueuedWrites
  <2>3. \A d \in Caller : d # c /\ pc[d] \in Buffers => pc[d] # pc[c]
    BY DEF HeldOnce
  <2>4. HeldOnce'
    BY <1>1, <2>1, <2>2, <2>3, WorkDistinct DEF HeldOnce, SendTypes
  <2>5. HeldInMap'
    BY <1>1, <2>1, WorkDistinct DEF HeldInMap, SendTypes
  <2> QED BY <1>1, <1>2, <2>4, <2>5
<1> QED BY <1>3, <1>4 DEF AddReq

\* tcpWrite moves what the handle holds into libuv's queue, or lets it go.
LEMMA TcpWriteSendInv ==
  ASSUME SendInv, PoolInv(Work), TcpWrite
  PROVE  SendInv'
<1> USE DEF SendInv
<1>1. /\ UNCHANGED <<pc, m_dSend, m_mapSend, m_ptcp, m_pStream>>
      /\ cur \in Handle /\ slot[cur] \in Buffers
      /\ slot' = [slot EXCEPT ![cur] = Nothing]
      /\ slot \in [Handle -> Work \cup {Nothing}]
  BY DEF TcpWrite, ClearTcb, unchangedByLoop, PoolInv, PoolTypeOK
<1>2. CASE UNCHANGED writing
  <2>1. SendTypes'
    BY <1>1, <1>2 DEF SendTypes
  <2> QED BY <1>1, <1>2, <2>1, WorkDistinct, StoreOther
<1>3. CASE writing' = Append(writing, [buf |-> slot[cur], on |-> m_pStream])
  <2> DEFINE w == [buf |-> slot[cur], on |-> m_pStream]
  <2>1. w \in Write /\ w.buf = slot[cur]
    BY <1>1 DEF Write, SendTypes
  <2>2. w \notin Range(writing)
    BY <1>1, <2>1 DEF HeldOnce
  <2> HIDE DEF w
  <2>3. writing' = Append(writing, w)
    BY <1>3 DEF w
  <2>4. /\ writing' \in Seq(Write) /\ IsInjective(writing')
        /\ Range(writing') = Range(writing) \cup {w}
    BY <2>1, <2>2, <2>3, AppendKeepsInjective DEF SendTypes
  <2>5. SendTypes'
    BY <1>1, <2>4 DEF SendTypes
  <2>6. \A x \in Range(writing) : x.buf \in Buffers
    BY QueuedWrites
  <2>7. HeldOnce'
    BY <1>1, <2>1, <2>4, <2>6, WorkDistinct DEF HeldOnce, SendTypes
  <2>8. HeldInMap'
    BY <1>1, <2>1, <2>4, WorkDistinct DEF HeldInMap
  <2> QED BY <1>1, <2>4, <2>5, <2>7, <2>8
<1> QED BY <1>2, <1>3 DEF TcpWrite

\* The callback of uv_write gives the object back.
LEMMA WriteCallbackSendInv ==
  ASSUME SendInv, WriteCallback
  PROVE  SendInv'
<1> USE DEF SendInv
<1>1. PICK i \in DOMAIN writing :
        /\ writing' = RemoveAt(writing, i)
        /\ \E b \in IF writing[i].buf \in m_mapSend THEN {writing[i].buf} ELSE Buffers :
             m_dSend' = Append(m_dSend, b)
        /\ m_mapSend' = m_mapSend \ {writing[i].buf}
  BY DEF WriteCallback
<1>2. UNCHANGED <<pc, slot, m_ptcp, m_pStream>>
  BY DEF WriteCallback, poolVars, connVars, unchangedByLoop
<1>3. PICK x \in Range(writing) : x = writing[i]
  BY DEF Range
<1>4. i \in 1 .. Len(writing) /\ writing \in Seq(Write)
  BY LenProperties DEF SendTypes
<1>5. /\ writing' \in Seq(Write) /\ IsInjective(writing')
      /\ Range(writing') = Range(writing) \ {x}
  BY <1>1, <1>3, <1>4, RemoveAtKeepsInjective
<1>6. x.buf \in Buffers /\ x.buf \in m_mapSend /\ x.buf \notin Range(m_dSend)
  BY QueuedWrites DEF HeldInMap
<1>7. m_dSend' = Append(m_dSend, x.buf) /\ m_mapSend' = m_mapSend \ {x.buf}
  BY <1>1, <1>3, <1>6
<1>8. /\ m_dSend' \in Seq(Buffers) /\ IsInjective(m_dSend')
      /\ Range(m_dSend') = Range(m_dSend) \cup {x.buf}
  BY <1>6, <1>7, AppendKeepsInjective DEF SendTypes
<1>9. SendTypes'
  BY <1>2, <1>5, <1>8 DEF SendTypes
<1>10. HeldOnce'
  BY <1>2, <1>5 DEF HeldOnce
<1>11. HeldInMap'
  BY <1>2, <1>3, <1>5, <1>7 DEF HeldInMap, HeldOnce
<1> QED BY <1>5, <1>7, <1>8, <1>9, <1>10, <1>11

LEMMA NextSendInv ==
  ASSUME SendInv, PoolInv(Work), [Next]_vars
  PROVE  SendInv'
<1>0. slot \in [Handle -> Work \cup {Nothing}] /\ cur \in Handle \cup {NoHandle}
  BY DEF PoolInv, PoolTypeOK
<1>1. CASE UNCHANGED vars
  BY <1>1, SendStutters
     DEF vars, poolVars, connVars, sendVars, SendInv, SendTypes
<1>2. ASSUME NEW c \in Caller,
             \/ ConnectToServer(c) \/ CloseConnection(c) \/ Reconnnect(c)
             \/ StartReadData(c) \/ StopReadData(c)
      PROVE  SendInv'
  <2>1. PICK r \in Request : pc' = [pc EXCEPT ![c] = r]
    BY <1>2 DEF ConnectToServer, CloseConnection, Reconnnect, StartReadData,
                StopReadData, Call, Request
  <2>2. UNCHANGED <<slot, writing, m_dSend, m_mapSend, m_ptcp, m_pStream>>
    BY <1>2 DEF ConnectToServer, CloseConnection, Reconnnect, StartReadData,
                StopReadData, Call, poolVars, connVars, sendVars
  <2>3. SendTypes'
    BY <2>1, <2>2 DEF SendInv, SendTypes, Work
  <2> QED BY <1>0, <2>1, <2>2, <2>3, WorkDistinct, StoreOther
<1>3. ASSUME NEW c \in Caller, WirteData(c) \/ AddReq(c)
      PROVE  SendInv'
  BY <1>3, WirteDataSendInv, AddReqSendInv
<1>4. CASE OtherRequest \/ Reconnect
  <2>1. /\ UNCHANGED <<pc, writing, m_dSend, m_mapSend, m_ptcp, m_pStream>>
        /\ Submit("Other") \/ Submit("E_TCP_CONNECT") \/ UNCHANGED poolVars
    BY <1>4 DEF OtherRequest, Reconnect, connVars, sendVars, unchangedByLoop
  <2>2. SendTypes'
    BY <2>1 DEF SendInv, SendTypes
  <2>3. CASE UNCHANGED poolVars
    BY <2>1, <2>2, <2>3, SendStutters DEF poolVars
  <2>4. ASSUME NEW w \in {"Other", "E_TCP_CONNECT"}, Submit(w)
        PROVE  SendInv'
    <3>1. w \notin Buffers
      BY WorkDistinct DEF Request
    <3> QED BY <1>0, <2>1, <2>2, <2>4, <3>1, SubmitFresh, StoreOther
  <2> QED BY <2>1, <2>3, <2>4
<1>5. CASE Connect \/ CloseConnect \/ ReadStart \/ ReadStop \/ RunOther
  <2>1. /\ UNCHANGED <<pc, writing, m_dSend, m_mapSend, m_pStream>>
        /\ m_ptcp' \in Block \/ UNCHANGED m_ptcp
        /\ cur \in Handle /\ slot' = [slot EXCEPT ![cur] = Nothing]
    BY <1>0, <1>5 DEF Connect, CloseConnect, ReadStart, ReadStop, RunOther, Running,
                ClearTcb, connVars, sendVars, unchangedByLoop
  <2>2. SendTypes'
    BY <2>1 DEF SendInv, SendTypes
  <2> QED BY <1>0, <2>1, <2>2, WorkDistinct, StoreOther
<1>6. CASE TcpWrite \/ WriteCallback
  BY <1>6, TcpWriteSendInv, WriteCallbackSendInv
<1>7. CASE FireHandle \/ ReturnHandle \/ HandlerReturns
  BY <1>7, SendStutters
     DEF FireHandle, Fire, ReturnHandle, Recycle, HandlerReturns, poolVars, connVars,
         sendVars, unchangedByLoop, SendInv, SendTypes
<1>8. ASSUME NEW b \in Block, NEW ok \in BOOLEAN,
             ConnectCallback(b, ok) \/ ReadCallback(b, ok) \/ CloseCallback(b)
      PROVE  SendInv'
  BY <1>8, SendStutters
     DEF ConnectCallback, ReadCallback, CloseCallback, poolVars,
         sendVars, unchangedByLoop, SendInv, SendTypes
<1>9. TRUE \in BOOLEAN
  OBVIOUS
<1> QED
  BY <1>1, <1>2, <1>3, <1>4, <1>5, <1>6, <1>7, <1>8, <1>9 DEF Next, Requests

-----------------------------------------------------------------------------
(* The theorem.                                                            *)

\* A set whose elements are all equal has at most one of them.
LEMMA AtMostOne ==
  ASSUME NEW S, \A x, y \in S : x = y
  PROVE  Cardinality(S) = IF S = {} THEN 0 ELSE 1
<1>1. CASE S = {}
  BY <1>1, FS_EmptySet
<1>2. CASE S # {}
  <2>1. PICK x \in S : S = {x}
    BY <1>2
  <2> QED BY <1>2, <2>1, FS_Singleton
<1> QED BY <1>1, <1>2

LEMMA SendInvSuffices ==
  ASSUME SendInv
  PROVE  SendExclusive
<1> USE DEF SendInv
<1> SUFFICES ASSUME NEW b \in Buffers
             PROVE
    LET callers  == {c \in Caller : pc[c] = b}
        requests == {h \in Handle : slot[h] = b}
        queued   == {i \in DOMAIN writing : writing[i].buf = b}
        holders  == Cardinality(callers) + Cardinality(requests) + Cardinality(queued)
    IN  /\ holders <= 1
        /\ holders = 1 => b \in m_mapSend
        /\ b \in m_mapSend => b \notin Range(m_dSend)
  BY DEF SendExclusive
<1> DEFINE callers  == {c \in Caller : pc[c] = b}
           requests == {h \in Handle : slot[h] = b}
           queued   == {i \in DOMAIN writing : writing[i].buf = b}
<1>1. \A i \in DOMAIN writing : writing[i] \in Range(writing)
  BY DEF Range
<1>2. \A c, d \in callers : c = d
  BY DEF HeldOnce
<1>3. \A g, h \in requests : g = h
  BY DEF HeldOnce
<1>4. \A i, j \in queued : i = j
  BY <1>1 DEF HeldOnce, IsInjective
<1>5. /\ callers # {} => requests = {} /\ queued = {}
      /\ requests # {} => queued = {}
  BY <1>1 DEF HeldOnce
<1>6. callers # {} \/ requests # {} \/ queued # {} => b \in m_mapSend
  BY <1>1 DEF HeldInMap
<1> HIDE DEF callers, requests, queued
<1>7. /\ Cardinality(callers)  = IF callers = {} THEN 0 ELSE 1
      /\ Cardinality(requests) = IF requests = {} THEN 0 ELSE 1
      /\ Cardinality(queued)   = IF queued = {} THEN 0 ELSE 1
  BY <1>2, <1>3, <1>4, AtMostOne
<1>8. LET holders == Cardinality(callers) + Cardinality(requests) + Cardinality(queued)
      IN  holders <= 1 /\ (holders = 1 => b \in m_mapSend)
  BY <1>5, <1>6, <1>7
<1> QED BY <1>8 DEF callers, requests, queued

\* An stSend object is never filled, sent or offered for reuse while somebody
\* else has it, and write_cb always finds it in the map (connect.cpp:74-86,
\* 206-222): whatever the users do, however many there are, and in whatever
\* order libuv calls back.
THEOREM SendObjectsExclusive == Spec => []SendExclusive
<1> DEFINE Inv == PoolInv(Work) /\ SendInv
<1>1. Init => Inv
  BY PoolInitInv, InitSendInv DEF Init
<1>2. Inv /\ [Next]_vars => Inv'
  <2> SUFFICES ASSUME Inv, [Next]_vars
               PROVE  Inv'
    OBVIOUS
  <2>1. PoolInv(Work)'
    BY NextPool DEF SendInv, SendTypes
  <2>2. SendInv'
    BY NextSendInv
  <2> QED BY <2>1, <2>2
<1>3. Inv => SendExclusive
  BY SendInvSuffices
<1> QED BY <1>1, <1>2, <1>3, PTL DEF Spec

-----------------------------------------------------------------------------
(* The connection, for a careful user.                                     *)

\* The requests of which a careful user makes one at a time.
Change == Request \ {"E_TCP_READ_START"}

\* A block that libuv knows and has not called close_cb for.
Live(b) == uv[b] \notin {"none", "closed"}

Requested(w) == (\E c \in Caller : pc[c] = w) \/ (\E h \in Handle : slot[h] = w)

NoneRequested == \A w \in Change : ~Requested(w)

\* At most one change of the connection is under way, and nothing else is
\* under way when the callback of uv_close is about to reconnect or a block is
\* between two states.
OneChange ==
  /\ \A c, d \in Caller : pc[c] \in Change /\ pc[d] \in Change => c = d
  /\ \A g, h \in Handle : slot[g] \in Change /\ slot[h] \in Change => g = h
  /\ \A c \in Caller, h \in Handle : ~(pc[c] \in Change /\ slot[h] \in Change)
  /\ lpc = "reconnect" => NoneRequested
  /\ \A b \in Block : uv[b] \in {"connecting", "closing"} =>
       lpc # "reconnect" /\ NoneRequested

\* A request finds the blocks as the user saw them when he made the call.
BlockInv ==
  /\ \A b, d \in Block : Live(b) /\ Live(d) => b = d
  /\ \A b \in freed : uv[b] = "closed"
  /\ m_ptcp # Null => uv[m_ptcp] # "none"
  /\ m_pStream # Null => uv[m_pStream] \in {"open", "closing", "closed"}
  /\ Requested("E_TCP_CONNECT") \/ lpc = "reconnect" => \A b \in Block : ~Live(b)
  /\ Requested("E_TCP_CLOSE") \/ Requested("E_TCP_READ_STOP") => Open
  /\ m_bConnectSuccess => Open

BlockTypes ==
  /\ uv \in [Block -> {"none", "connecting", "inert", "open", "closing", "closed"}]
  /\ freed \subseteq Block
  /\ careful \in BOOLEAN

ConnInv == BlockTypes /\ (careful => OneChange /\ BlockInv)

LEMMA ChangeWork ==
  /\ Change = {"E_TCP_CONNECT", "E_TCP_CLOSE", "E_TCP_READ_STOP"}
  /\ Nothing \notin Change /\ "Other" \notin Change /\ "E_TCP_READ_START" \notin Change
  /\ \A b \in Buffers : b \notin Change
BY ConnectAssumption DEF Change, Request

LEMMA NotNull == Null \notin Block
BY ConnectAssumption DEF Null, Block

LEMMA InitConnInv == Init => ConnInv /\ OnlyDoubleFree
<1> SUFFICES ASSUME Init PROVE ConnInv /\ OnlyDoubleFree
  OBVIOUS
<1>1. PICK role \in {"client", "server"} :
        /\ m_bConnectSuccess = (role = "server")
        /\ m_pStream = IF role = "server" THEN 1 ELSE Null
        /\ uv = [b \in Block |-> IF b = m_pStream THEN "open" ELSE "none"]
  BY DEF Init
<1>2. 1 \in Block
  BY ConnectAssumption DEF Block
<1>3. (\A c \in Caller : pc[c] = Nothing) /\ \A h \in Handle : slot[h] = Nothing
  BY DEF Init, PoolInit
<1>4. \A w \in Change : ~Requested(w)
  BY <1>3, ChangeWork DEF Requested
<1>5. OneChange
  BY <1>1, <1>3, <1>4, ChangeWork DEF Init, OneChange, NoneRequested
<1>6. BlockInv
  BY <1>1, <1>2, <1>4, NotNull, ChangeWork DEF Init, BlockInv, Live, Open
<1>7. BlockTypes /\ OnlyDoubleFree
  BY <1>1 DEF Init, BlockTypes, OnlyDoubleFree
<1> QED BY <1>5, <1>6, <1>7 DEF ConnInv

\* A careful user never uses a deleted stream, or null.
LEMMA OpenIsSound ==
  ASSUME BlockInv, Open
  PROVE  StreamFaults = {}
BY DEF BlockInv, Open, StreamFaults

\* Deleting a block that is not live is at most a double free.
LEMMA DeadIsDeleted ==
  ASSUME NEW b, b # Null => ~Live(b)
  PROVE  DeleteFaults(b) \subseteq {"double free"}
BY DEF DeleteFaults, Live

\* What a request or call that is stored, moved or done does to OneChange and
\* BlockInv, for a careful user: it may store what is no change, ...
LEMMA StoreNoChange ==
  ASSUME OneChange, BlockInv, NEW v, v \notin Change,
         slot \in [Handle -> Work \cup {Nothing}], pc \in [Caller -> Work \cup {Nothing}],
         UNCHANGED <<uv, freed, m_ptcp, m_pStream, m_bConnectSuccess>>,
         lpc' = lpc \/ lpc' # "reconnect",
         \/ \E h \in Handle : slot' = [slot EXCEPT ![h] = v] /\ UNCHANGED pc
         \/ \E c \in Caller : pc' = [pc EXCEPT ![c] = v] /\ UNCHANGED slot
         \/ UNCHANGED <<slot, pc>>
  PROVE  OneChange' /\ BlockInv'
<1>1. \A w \in Change : Requested(w)' => Requested(w)
  BY DEF Requested
<1>2. OneChange'
  BY <1>1 DEF OneChange, NoneRequested
<1>3. BlockInv'
  BY <1>1, ChangeWork DEF BlockInv, Live, Open
<1> QED BY <1>2, <1>3

\* ... it may make a request when none is under way, ...
LEMMA MakeChange ==
  ASSUME OneChange, BlockInv, ~Changing, NEW c \in Caller, NEW w \in Change,
         pc \in [Caller -> Work \cup {Nothing}],
         w = "E_TCP_CONNECT" => \A b \in Block : ~Live(b),
         w # "E_TCP_CONNECT" => Open,
         UNCHANGED <<uv, freed, m_ptcp, m_pStream, m_bConnectSuccess, lpc, slot>>,
         pc' = [pc EXCEPT ![c] = w]
  PROVE  OneChange' /\ BlockInv'
<1>1. /\ \A d \in Caller : pc[d] \notin Change
      /\ \A h \in Handle : slot[h] \notin Change
      /\ lpc # "reconnect" /\ \A b \in Block : uv[b] \notin {"connecting", "closing"}
  BY DEF Changing, Change
<1>2. OneChange'
  BY <1>1 DEF OneChange
<1>3. \A v \in Change : Requested(v)' => v = w
  BY <1>1 DEF Requested
<1>4. BlockInv'
  BY <1>1, <1>3, ChangeWork DEF BlockInv, Live, Open
<1> QED BY <1>2, <1>4

\* ... or move a caller's request into a handle.
LEMMA MoveChange ==
  ASSUME OneChange, BlockInv, NEW c \in Caller, NEW h \in Handle, slot[h] = Nothing,
         slot \in [Handle -> Work \cup {Nothing}], pc \in [Caller -> Work \cup {Nothing}],
         UNCHANGED <<uv, freed, m_ptcp, m_pStream, m_bConnectSuccess, lpc>>,
         slot' = [slot EXCEPT ![h] = pc[c]], pc' = [pc EXCEPT ![c] = Nothing]
  PROVE  OneChange' /\ BlockInv'
<1>1. \A v \in Change : Requested(v)' => Requested(v)
  BY ChangeWork DEF Requested
<1>2. OneChange'
  <2>1. \A d, e \in Caller : pc'[d] \in Change /\ pc'[e] \in Change => d = e
    BY ChangeWork DEF OneChange
  <2>2. \A g, k \in Handle : slot'[g] \in Change /\ slot'[k] \in Change => g = k
    BY DEF OneChange
  <2>3. \A d \in Caller, g \in Handle : ~(pc'[d] \in Change /\ slot'[g] \in Change)
    BY ChangeWork DEF OneChange
  <2> QED BY <1>1, <2>1, <2>2, <2>3 DEF OneChange, NoneRequested
<1>3. BlockInv'
  BY <1>1, ChangeWork DEF BlockInv, Live, Open
<1> QED BY <1>2, <1>3

\* The request that the loop thread runs is the only one, and it is done.
LEMMA RunChange ==
  ASSUME OneChange, cur \in Handle, slot[cur] \in Change, ClearTcb, UNCHANGED pc,
         slot \in [Handle -> Work \cup {Nothing}]
  PROVE  /\ Requested(slot[cur])
         /\ lpc # "reconnect" /\ \A b \in Block : uv[b] \notin {"connecting", "closing"}
         /\ NoneRequested'
<1>1. Requested(slot[cur])
  BY DEF Requested
<1>2. /\ \A c \in Caller : pc'[c] \notin Change
      /\ \A h \in Handle : slot'[h] \notin Change
  BY ChangeWork DEF OneChange, ClearTcb
<1>3. NoneRequested'
  BY <1>2 DEF NoneRequested, Requested
<1>4. ~NoneRequested
  BY <1>1 DEF NoneRequested
<1> QED BY <1>1, <1>3, <1>4 DEF OneChange

\* With no request left and nobody about to reconnect, only one block that is
\* live matters.
LEMMA NoneLeft ==
  ASSUME NoneRequested', lpc' # "reconnect"
  PROVE  /\ OneChange'
         /\ ~Requested("E_TCP_CONNECT")' /\ ~Requested("E_TCP_CLOSE")'
         /\ ~Requested("E_TCP_READ_STOP")'
<1>1. /\ \A c \in Caller : pc'[c] \notin Change
      /\ \A h \in Handle : slot'[h] \notin Change
  BY DEF NoneRequested, Requested
<1>2. OneChange'
  BY <1>1 DEF OneChange
<1> QED BY <1>2, ChangeWork DEF NoneRequested

\* uv_tcp_connect on a new block, when all others are closed.
LEMMA ConnectStep ==
  ASSUME ConnInv, OnlyDoubleFree, PoolInv(Work), SendTypes, careful, Connect
  PROVE  OneChange' /\ BlockInv' /\ OnlyDoubleFree'
<1>1. /\ cur \in Handle /\ slot[cur] = "E_TCP_CONNECT" /\ slot[cur] \in Change
      /\ UNCHANGED <<pc, lpc, m_pStream, m_bConnectSuccess, careful>> /\ ClearTcb
      /\ slot \in [Handle -> Work \cup {Nothing}]
      /\ freed' = freed \cup ({m_ptcp} \ {Null})
      /\ faults' = faults \cup DeleteFaults(m_ptcp)
      /\ OneChange /\ BlockInv /\ BlockTypes
  BY ChangeWork DEF Connect, Running, unchangedByLoop, PoolInv, PoolTypeOK, ConnInv
<1>2. PICK b \in Block, s \in {"connecting", "inert"} :
        uv[b] = "none" /\ m_ptcp' = b /\ uv' = [uv EXCEPT ![b] = s]
  BY DEF Connect
<1>3. Requested("E_TCP_CONNECT") /\ lpc # "reconnect" /\ NoneRequested'
  BY <1>1, RunChange
<1>4. \A d \in Block : ~Live(d)
  BY <1>1, <1>3 DEF BlockInv
<1>5. m_ptcp # Null => ~Live(m_ptcp) /\ uv[m_ptcp] = "closed"
  BY <1>1, <1>4 DEF BlockInv, SendTypes, Live
<1>6. m_pStream # Null => uv[m_pStream] = "closed" /\ m_pStream \in Block
  BY <1>1, <1>4 DEF BlockInv, SendTypes, Live
<1>7. ~m_bConnectSuccess
  BY <1>1, <1>6 DEF BlockInv, Open
<1>8. BlockInv'
  <2>1. \A d \in Block : uv'[d] = IF d = b THEN s ELSE uv[d]
    BY <1>1, <1>2 DEF BlockTypes
  <2>2. \A d, e \in Block : Live(d)' /\ Live(e)' => d = e
    BY <1>4, <2>1 DEF Live
  <2>3. \A d \in freed' : uv'[d] = "closed"
    <3>1. \A d \in freed : d \in Block /\ d # b
      BY <1>1, <1>2 DEF BlockInv, BlockTypes
    <3>2. m_ptcp # Null => m_ptcp \in Block /\ m_ptcp # b
      BY <1>2, <1>5 DEF SendTypes
    <3> QED BY <1>1, <1>5, <2>1, <3>1, <3>2 DEF BlockInv
  <2>4. m_ptcp' # Null /\ uv'[m_ptcp'] # "none"
    BY <1>2, <2>1, NotNull
  <2>5. m_pStream' # Null => uv'[m_pStream'] = "closed"
    BY <1>1, <1>2, <1>6, <2>1
  <2> QED BY <1>1, <1>3, <1>7, <2>2, <2>3, <2>4, <2>5, NoneLeft DEF BlockInv
<1>9. OnlyDoubleFree'
  BY <1>1, <1>5, DeadIsDeleted DEF OnlyDoubleFree
<1> QED BY <1>1, <1>3, <1>8, <1>9, NoneLeft

\* uv_close finds m_pStream open.
LEMMA CloseStep ==
  ASSUME ConnInv, OnlyDoubleFree, PoolInv(Work), SendTypes, careful, CloseConnect
  PROVE  OneChange' /\ BlockInv' /\ OnlyDoubleFree'
<1>1. /\ cur \in Handle /\ slot[cur] = "E_TCP_CLOSE" /\ slot[cur] \in Change
      /\ UNCHANGED <<pc, lpc, m_ptcp, m_pStream, freed, careful>> /\ ClearTcb
      /\ slot \in [Handle -> Work \cup {Nothing}]
      /\ m_bConnectSuccess' = FALSE
      /\ OneChange /\ BlockInv /\ BlockTypes
  BY ChangeWork DEF CloseConnect, Running, unchangedByLoop, PoolInv, PoolTypeOK, ConnInv
<1>2. Requested("E_TCP_CLOSE") /\ lpc # "reconnect" /\ NoneRequested'
  BY <1>1, RunChange
<1>3. Open
  BY <1>1, <1>2 DEF BlockInv
<1>4. uv' = [uv EXCEPT ![m_pStream] = "closing"] /\ faults' = faults \cup StreamFaults
  BY <1>3 DEF CloseConnect
<1>5. m_pStream \in Block /\ uv[m_pStream] = "open"
  BY <1>3 DEF Open, SendTypes
<1>6. \A d \in Block : uv'[d] = IF d = m_pStream THEN "closing" ELSE uv[d]
  BY <1>1, <1>4, <1>5 DEF BlockTypes
<1>7. BlockInv'
  <2>1. \A d, e \in Block : Live(d)' /\ Live(e)' => d = e
    BY <1>1, <1>5, <1>6 DEF BlockInv, Live
  <2>2. \A d \in freed' : uv'[d] = "closed"
    BY <1>1, <1>5, <1>6 DEF BlockInv, BlockTypes
  <2>3. m_ptcp' # Null => uv'[m_ptcp'] # "none"
    BY <1>1, <1>6 DEF BlockInv, SendTypes
  <2>4. uv'[m_pStream'] = "closing"
    BY <1>1, <1>5, <1>6
  <2> QED BY <1>1, <1>2, <2>1, <2>2, <2>3, <2>4, NoneLeft DEF BlockInv
<1>8. OnlyDoubleFree'
  BY <1>1, <1>3, <1>4, OpenIsSound DEF OnlyDoubleFree
<1> QED BY <1>1, <1>2, <1>7, <1>8, NoneLeft

\* The callback of uv_tcp_connect: m_pStream deletes a block that is closed.
LEMMA ConnectedStep ==
  ASSUME ConnInv, OnlyDoubleFree, SendTypes, careful,
         NEW b \in Block, NEW ok \in BOOLEAN, ConnectCallback(b, ok)
  PROVE  OneChange' /\ BlockInv' /\ OnlyDoubleFree'
<1>1. /\ uv[b] = "connecting" /\ uv' = [uv EXCEPT ![b] = "open"]
      /\ faults' = faults \cup DeleteFaults(m_pStream)
      /\ freed' = freed \cup ({m_pStream} \ {Null})
      /\ m_pStream' = b /\ lpc' = "handler"
      /\ UNCHANGED <<pc, slot, m_ptcp, careful>>
      /\ OneChange /\ BlockInv /\ BlockTypes
  BY DEF ConnectCallback, unchangedByLoop, ConnInv, poolVars
<1>2. NoneRequested
  BY <1>1 DEF OneChange
<1>3. NoneRequested'
  BY <1>1, <1>2 DEF NoneRequested, Requested
<1>4. m_pStream # Null => m_pStream \in Block /\ m_pStream # b /\ uv[m_pStream] = "closed"
  BY <1>1 DEF BlockInv, SendTypes, Live
<1>5. \A d \in Block : uv'[d] = IF d = b THEN "open" ELSE uv[d]
  BY <1>1 DEF BlockTypes
<1>6. BlockInv'
  <2>1. \A d, e \in Block : Live(d)' /\ Live(e)' => d = e
    BY <1>1, <1>5 DEF BlockInv, Live
  <2>2. \A d \in freed' : uv'[d] = "closed"
    <3>1. \A d \in freed : d \in Block /\ d # b /\ uv[d] = "closed"
      BY <1>1 DEF BlockInv, BlockTypes
    <3> QED BY <1>1, <1>4, <1>5, <3>1
  <2>3. m_ptcp' # Null => uv'[m_ptcp'] # "none"
    BY <1>1, <1>5 DEF BlockInv, SendTypes
  <2>4. Open' /\ uv'[m_pStream'] = "open"
    BY <1>1, <1>5, NotNull DEF Open
  <2> QED BY <1>1, <1>3, <2>1, <2>2, <2>3, <2>4, NoneLeft DEF BlockInv
<1>7. OnlyDoubleFree'
  BY <1>1, <1>4, DeadIsDeleted DEF OnlyDoubleFree, Live
<1> QED BY <1>1, <1>3, <1>6, <1>7, NoneLeft

\* The callback of uv_close: no block is live any more.
LEMMA ClosedStep ==
  ASSUME ConnInv, SendTypes, careful, NEW b \in Block, CloseCallback(b)
  PROVE  OneChange' /\ BlockInv'
<1>1. /\ uv[b] = "closing" /\ uv' = [uv EXCEPT ![b] = "closed"]
      /\ UNCHANGED <<pc, slot, m_ptcp, m_pStream, freed, m_bConnectSuccess, careful>>
      /\ OneChange /\ BlockInv /\ BlockTypes
  BY DEF CloseCallback, unchangedByLoop, ConnInv, poolVars
<1>2. NoneRequested'
  BY <1>1 DEF OneChange, NoneRequested, Requested
<1>3. /\ \A c \in Caller : pc'[c] \notin Change
      /\ \A h \in Handle : slot'[h] \notin Change
  BY <1>2 DEF NoneRequested, Requested
<1>4. \A d \in Block : uv'[d] = IF d = b THEN "closed" ELSE uv[d]
  BY <1>1 DEF BlockTypes
<1>5. \A d \in Block : ~Live(d)'
  BY <1>1, <1>4 DEF BlockInv, Live
<1>6. ~m_bConnectSuccess
  BY <1>1 DEF BlockInv, Open, SendTypes, Live
<1>7. OneChange'
  BY <1>2, <1>3, <1>5 DEF OneChange, Live
<1>8. BlockInv'
  <2>1. \A d \in freed' : uv'[d] = "closed"
    BY <1>1, <1>4 DEF BlockInv, BlockTypes
  <2>2. m_ptcp' # Null => uv'[m_ptcp'] # "none"
    BY <1>1, <1>4 DEF BlockInv, SendTypes
  <2>3. m_pStream' # Null => uv'[m_pStream'] \in {"open", "closing", "closed"}
    BY <1>1, <1>4 DEF BlockInv, SendTypes
  <2>4. ~Requested("E_TCP_CLOSE")' /\ ~Requested("E_TCP_READ_STOP")'
    BY <1>2, ChangeWork DEF NoneRequested
  <2> QED BY <1>1, <1>5, <1>6, <2>1, <2>2, <2>3, <2>4 DEF BlockInv
<1> QED BY <1>7, <1>8

\* The reconnect that the callback of uv_close asks for.
LEMMA ReconnectStep ==
  ASSUME ConnInv, PoolInv(Work), SendTypes, careful, Reconnect
  PROVE  OneChange' /\ BlockInv'
<1>1. /\ lpc = "reconnect" /\ lpc' = "idle"
      /\ UNCHANGED <<pc, uv, m_ptcp, m_pStream, freed, m_bConnectSuccess, careful>>
      /\ slot \in [Handle -> Work \cup {Nothing}] /\ pc \in [Caller -> Work \cup {Nothing}]
      /\ OneChange /\ BlockInv /\ BlockTypes
  BY DEF Reconnect, unchangedByLoop, ConnInv, PoolInv, PoolTypeOK, SendTypes
<1>2. CASE UNCHANGED slot
  BY <1>1, <1>2, ChangeWork, StoreNoChange
<1>3. CASE Submit("E_TCP_CONNECT")
  <2>1. PICK h \in Handle : slot[h] = Nothing /\ slot' = [slot EXCEPT ![h] = "E_TCP_CONNECT"]
    BY <1>3, SubmitFresh
  <2>2. /\ \A c \in Caller : pc[c] \notin Change
        /\ \A g \in Handle : slot[g] \notin Change
        /\ \A b \in Block : ~Live(b)
    BY <1>1 DEF OneChange, NoneRequested, Requested, BlockInv
  <2>3. \A w \in Change : Requested(w)' => w = "E_TCP_CONNECT"
    BY <1>1, <2>1, <2>2 DEF Requested
  <2>4. OneChange'
    BY <1>1, <2>1, <2>2 DEF OneChange, Live
  <2>5. BlockInv'
    BY <1>1, <2>2, <2>3, ChangeWork DEF BlockInv, Live, Open
  <2> QED BY <2>4, <2>5
<1> QED BY <1>2, <1>3 DEF Reconnect, poolVars

LEMMA CarefulIsConstant ==
  ASSUME [Next]_vars
  PROVE  careful' = careful
<1>1. ASSUME NEW c \in Caller,
             \/ ConnectToServer(c) \/ CloseConnection(c) \/ Reconnnect(c)
             \/ StartReadData(c) \/ StopReadData(c) \/ WirteData(c) \/ AddReq(c)
      PROVE  careful' = careful
  BY <1>1 DEF ConnectToServer, CloseConnection, Reconnnect, StartReadData, StopReadData,
              WirteData, AddReq, Call
<1>2. CASE Requests \/ Reconnect \/ WriteCallback \/ HandlerReturns
  <2>1. CASE CloseConnect
    BY <2>1, Zenon DEF CloseConnect, unchangedByLoop
  <2> QED
    BY <1>2, <2>1
       DEF Requests, FireHandle, Connect, ReadStart, ReadStop, TcpWrite, RunOther,
           ReturnHandle, Reconnect, WriteCallback, HandlerReturns, unchangedByLoop
<1>3. ASSUME NEW b \in Block, NEW ok \in BOOLEAN,
             ConnectCallback(b, ok) \/ ReadCallback(b, ok) \/ CloseCallback(b)
      PROVE  careful' = careful
  BY <1>3 DEF ConnectCallback, ReadCallback, CloseCallback, unchangedByLoop
<1>4. CASE OtherRequest \/ UNCHANGED vars
  BY <1>4 DEF OtherRequest, vars
<1>5. TRUE \in BOOLEAN
  OBVIOUS
<1> QED BY <1>1, <1>2, <1>3, <1>4, <1>5 DEF Next

LEMMA NextConnInv ==
  ASSUME ConnInv, OnlyDoubleFree, PoolInv(Work), SendTypes, [Next]_vars
  PROVE  ConnInv' /\ OnlyDoubleFree'
<1>0. /\ slot \in [Handle -> Work \cup {Nothing}] /\ pc \in [Caller -> Work \cup {Nothing}]
      /\ cur \in Handle \cup {NoHandle}
  BY DEF PoolInv, PoolTypeOK, SendTypes
<1>1. BlockTypes' /\ careful' = careful
  <2>1. careful' = careful
    BY CarefulIsConstant
  <2>2. CASE Connect \/ CloseConnect
    BY <2>1, <2>2 DEF Connect, CloseConnect, BlockTypes, ConnInv, SendTypes
  <2>3. ASSUME NEW b \in Block, NEW ok \in BOOLEAN, ConnectCallback(b, ok) \/ CloseCallback(b)
        PROVE  BlockTypes'
    BY <2>1, <2>3 DEF ConnectCallback, CloseCallback, BlockTypes, ConnInv, SendTypes
  <2>4. \/ Connect \/ CloseConnect
        \/ \E b \in Block : (\E ok \in BOOLEAN : ConnectCallback(b, ok)) \/ CloseCallback(b)
        \/ UNCHANGED <<uv, freed>>
    BY DEF Next, ConnectToServer, CloseConnection, Reconnnect, StartReadData, StopReadData,
           WirteData, AddReq, Call, OtherRequest, Requests, FireHandle,
           ReadStart, ReadStop, TcpWrite, RunOther, ReturnHandle,
           ReadCallback, Reconnect, WriteCallback, HandlerReturns,
           connVars, vars
  <2>5. TRUE \in BOOLEAN
    OBVIOUS
  <2> QED BY <2>1, <2>2, <2>3, <2>4, <2>5 DEF BlockTypes, ConnInv
<1>2. CASE ~careful
  BY <1>1, <1>2 DEF ConnInv, OnlyDoubleFree
<1>3. CASE careful
  <2> SUFFICES OneChange' /\ BlockInv' /\ OnlyDoubleFree'
    BY <1>1, <1>3 DEF ConnInv
  <2>0. OneChange /\ BlockInv /\ careful'
    BY <1>1, <1>3 DEF ConnInv
  <2>1. CASE UNCHANGED vars
    BY <1>0, <2>0, <2>1, ChangeWork, StoreNoChange
       DEF vars, poolVars, connVars, OnlyDoubleFree
  <2>2. ASSUME NEW c \in Caller,
               ConnectToServer(c) \/ CloseConnection(c) \/ Reconnnect(c) \/ StopReadData(c)
        PROVE  OneChange' /\ BlockInv' /\ OnlyDoubleFree'
    <3>1. PICK w \in Change :
            /\ pc' = [pc EXCEPT ![c] = w] /\ ~Changing
            /\ w = "E_TCP_CONNECT" => \A b \in Block : ~Live(b)
            /\ w # "E_TCP_CONNECT" => Open
      BY <1>3, <2>2, ChangeWork
         DEF ConnectToServer, CloseConnection, Reconnnect, StopReadData, Call, Live
    <3>2. UNCHANGED <<uv, freed, m_ptcp, m_pStream, m_bConnectSuccess, lpc, slot, faults>>
      BY <2>2 DEF ConnectToServer, CloseConnection, Reconnnect, StopReadData, Call,
                  connVars, poolVars
    <3>3. OnlyDoubleFree'
      BY <1>1, <3>2 DEF OnlyDoubleFree
    <3> QED BY <1>0, <2>0, <3>1, <3>2, <3>3, MakeChange
  <2>3. ASSUME NEW c \in Caller, StartReadData(c) \/ WirteData(c)
        PROVE  OneChange' /\ BlockInv' /\ OnlyDoubleFree'
    <3>1. \E v : v \notin Change /\ pc' = [pc EXCEPT ![c] = v]
      BY <2>3, ChangeWork DEF StartReadData, WirteData, Call
    <3>2. UNCHANGED <<uv, freed, m_ptcp, m_pStream, m_bConnectSuccess, lpc, slot, faults>>
      BY <2>3 DEF StartReadData, WirteData, Call, connVars, poolVars
    <3> QED BY <1>0, <1>1, <2>0, <3>1, <3>2, StoreNoChange DEF OnlyDoubleFree
  <2>4. ASSUME NEW c \in Caller, AddReq(c)
        PROVE  OneChange' /\ BlockInv' /\ OnlyDoubleFree'
    <3>1. /\ UNCHANGED <<uv, freed, m_ptcp, m_pStream, m_bConnectSuccess, lpc, faults>>
          /\ pc' = [pc EXCEPT ![c] = Nothing]
          /\ Submit(pc[c]) \/ UNCHANGED slot
      BY <2>4 DEF AddReq, connVars, poolVars
    <3>2. CASE UNCHANGED slot
      BY <1>0, <1>1, <2>0, <3>1, <3>2, ChangeWork, StoreNoChange DEF OnlyDoubleFree
    <3>3. CASE Submit(pc[c])
      BY <1>0, <1>1, <2>0, <3>1, <3>3, SubmitFresh, MoveChange DEF OnlyDoubleFree
    <3> QED BY <3>1, <3>2, <3>3
  <2>5. CASE OtherRequest
    <3>1. UNCHANGED <<uv, freed, m_ptcp, m_pStream, m_bConnectSuccess, lpc, pc, faults>>
      BY <2>5 DEF OtherRequest, connVars
    <3>2. \E h \in Handle : slot' = [slot EXCEPT ![h] = "Other"]
      BY <2>5, SubmitFresh DEF OtherRequest
    <3> QED BY <1>0, <1>1, <2>0, <3>1, <3>2, ChangeWork, StoreNoChange DEF OnlyDoubleFree
  <2>6. CASE FireHandle \/ ReturnHandle \/ HandlerReturns \/ WriteCallback
    <3>1. /\ UNCHANGED <<uv, freed, m_ptcp, m_pStream, m_bConnectSuccess, pc, slot, faults>>
          /\ lpc' = lpc \/ lpc' # "reconnect"
      BY <2>6 DEF FireHandle, Fire, ReturnHandle, Recycle, HandlerReturns, WriteCallback,
                  connVars, poolVars, unchangedByLoop
    <3> QED BY <1>0, <1>1, <2>0, <3>1, ChangeWork, StoreNoChange DEF OnlyDoubleFree
  <2>7. CASE Connect
    BY <1>3, <2>7, ConnectStep
  <2>8. CASE CloseConnect
    BY <1>3, <2>8, CloseStep
  <2>9. CASE ReadStart \/ ReadStop \/ TcpWrite \/ RunOther
    <3>1. /\ UNCHANGED <<uv, freed, m_ptcp, m_pStream, m_bConnectSuccess, lpc, pc>>
          /\ cur \in Handle /\ slot' = [slot EXCEPT ![cur] = Nothing]
          /\ faults' = faults \/ faults' = faults \cup StreamFaults
      BY <1>0, <2>9 DEF ReadStart, ReadStop, TcpWrite, RunOther, Running, ClearTcb, connVars,
                        unchangedByLoop
    <3>2. OneChange' /\ BlockInv'
      BY <1>0, <2>0, <3>1, ChangeWork, StoreNoChange
    <3>3. faults' # faults => Open
      <4>1. CASE ReadStop
        <5>1. slot[cur] = "E_TCP_READ_STOP" /\ cur \in Handle
          BY <3>1, <4>1 DEF ReadStop, Running
        <5>2. Requested("E_TCP_READ_STOP")
          BY <5>1 DEF Requested
        <5> QED BY <2>0, <5>2 DEF BlockInv
      <4>2. CASE ReadStart \/ TcpWrite \/ RunOther
        <5>1. faults' # faults => m_bConnectSuccess
          BY <4>2 DEF ReadStart, TcpWrite, RunOther, connVars
        <5> QED BY <2>0, <5>1 DEF BlockInv
      <4> QED BY <2>9, <4>1, <4>2
    <3>4. faults' = faults
      BY <2>0, <3>1, <3>3, OpenIsSound
    <3> QED BY <1>1, <3>2, <3>4 DEF OnlyDoubleFree
  <2>10. ASSUME NEW b \in Block, NEW ok \in BOOLEAN, ConnectCallback(b, ok)
         PROVE  OneChange' /\ BlockInv' /\ OnlyDoubleFree'
    BY <1>3, <2>10, ConnectedStep
  <2>11. ASSUME NEW b \in Block, NEW ok \in BOOLEAN, ReadCallback(b, ok)
         PROVE  OneChange' /\ BlockInv' /\ OnlyDoubleFree'
    <3>1. /\ UNCHANGED <<uv, freed, m_ptcp, m_pStream, pc, slot, faults>>
          /\ m_bConnectSuccess' = (m_bConnectSuccess /\ ~ok) /\ lpc' = "handler"
      BY <2>11 DEF ReadCallback, poolVars, unchangedByLoop
    <3>2. \A w \in Change : Requested(w)' <=> Requested(w)
      BY <3>1 DEF Requested
    <3>3. OneChange'
      BY <2>0, <3>1, <3>2 DEF OneChange, NoneRequested
    <3>4. BlockInv'
      BY <2>0, <3>1, <3>2, ChangeWork DEF BlockInv, Live, Open
    <3> QED BY <1>1, <3>1, <3>3, <3>4 DEF OnlyDoubleFree
  <2>12. ASSUME NEW b \in Block, CloseCallback(b)
         PROVE  OneChange' /\ BlockInv' /\ OnlyDoubleFree'
    <3>1. faults' = faults
      BY <2>12 DEF CloseCallback
    <3> QED BY <1>1, <1>3, <2>12, <3>1, ClosedStep DEF OnlyDoubleFree
  <2>13. CASE Reconnect
    <3>1. faults' = faults
      BY <2>13 DEF Reconnect
    <3> QED BY <1>1, <1>3, <2>13, <3>1, ReconnectStep DEF OnlyDoubleFree
  <2> QED
    BY <2>1, <2>2, <2>3, <2>4, <2>5, <2>6, <2>7, <2>8, <2>9, <2>10, <2>11, <2>12, <2>13
       DEF Next, Requests
<1> QED BY <1>2, <1>3

\* The invariants of the pool, the objects and the connection together.
LEMMA Invariance == Spec => [](PoolInv(Work) /\ SendInv /\ ConnInv /\ OnlyDoubleFree)
<1> DEFINE Inv == PoolInv(Work) /\ SendInv /\ ConnInv /\ OnlyDoubleFree
<1>1. Init => Inv
  BY PoolInitInv, InitSendInv, InitConnInv DEF Init
<1>2. Inv /\ [Next]_vars => Inv'
  <2> SUFFICES ASSUME Inv, [Next]_vars
               PROVE  Inv'
    OBVIOUS
  <2>1. SendTypes
    BY DEF SendInv
  <2>2. PoolInv(Work)'
    BY <2>1, NextPool DEF SendTypes
  <2>3. SendInv'
    BY NextSendInv
  <2>4. ConnInv' /\ OnlyDoubleFree'
    BY <2>1, NextConnInv
  <2> QED BY <2>2, <2>3, <2>4
<1> QED BY <1>1, <1>2, PTL DEF Spec

\* For users who change the connection one step at a time, m_bConnectSuccess
\* is up only while m_pStream is an open handle (connect.cpp:151, 199), however
\* reads, writes, reconnects and the callbacks of libuv come in between.
THEOREM FlagMeansOpen == Spec => []ConnectedIsOpen
<1>1. ConnInv => ConnectedIsOpen
  BY DEF ConnInv, BlockInv, ConnectedIsOpen
<1> QED BY <1>1, Invariance, PTL

\* For the same users no request finds m_pStream null, deleted or closing, and
\* no live handle is deleted, although m_ptcp and m_pStream both own its block:
\* what is left is the second delete of a closed block.
THEOREM CarefulOnlyDoubleFrees == Spec => []OnlyDoubleFree
BY Invariance, PTL

-----------------------------------------------------------------------------
(* The types of the rest.                                                  *)

Faults == {"null", "freed", "double close", "double free", "free in use"}

RestTypes ==
  /\ m_bConnectSuccess \in BOOLEAN /\ m_bReconect \in BOOLEAN
  /\ m_mapSend \subseteq Buffers /\ reading \subseteq Block
  /\ faults \subseteq Faults
  /\ lpc \in {"idle", "handler", "reconnect"}
  /\ calls \in 0 .. MaxCareful + MaxCareless

\* Who is about to send an stSend object, or has sent it, has filled it.
WriteTypes ==
  /\ data \in [Buffers -> 0 .. MaxWrites] /\ writes \in 0 .. MaxWrites
  /\ accepted \in Seq(1 .. MaxWrites) /\ wire \in Seq(1 .. MaxWrites)
  /\ \A c \in Caller : pc[c] \in Buffers => data[pc[c]] # 0
  /\ \A h \in Handle : slot[h] \in Buffers => data[slot[h]] # 0

LEMMA FaultTypes ==
  /\ \A b : DeleteFaults(b) \subseteq Faults
  /\ StreamFaults \subseteq Faults
  /\ CloseConnect /\ faults \subseteq Faults => faults' \subseteq Faults
<1>1. \A b : DeleteFaults(b) \subseteq Faults
  BY Zenon DEF DeleteFaults, Faults
<1>2. StreamFaults \subseteq Faults
  BY Zenon DEF StreamFaults, Faults
<1>3. {"double close"} \subseteq Faults
  BY Zenon DEF Faults
<1>4. ASSUME CloseConnect, faults \subseteq Faults
      PROVE  faults' \subseteq Faults
  <2>1. CASE faults' = faults \cup StreamFaults
    BY <1>2, <1>4, <2>1, Zenon
  <2>2. CASE faults' = faults \cup StreamFaults
                 \cup (IF m_pStream = Null THEN {} ELSE {"double close"})
    BY <1>2, <1>3, <1>4, <2>2, Zenon
  <2> QED BY <1>4, <2>1, <2>2, Zenon DEF CloseConnect
<1> QED BY <1>1, <1>2, <1>4

LEMMA InitRestTypes == Init => RestTypes /\ WriteTypes
<1> SUFFICES ASSUME Init PROVE RestTypes /\ WriteTypes
  OBVIOUS
<1>1. 0 \in 0 .. MaxWrites /\ 0 \in 0 .. MaxCareful + MaxCareless
  BY ConnectAssumption
<1>2. <<>> \in Seq(1 .. MaxWrites)
  BY EmptySeq
<1>3. /\ \A c \in Caller : pc[c] \notin Buffers
      /\ \A h \in Handle : slot[h] \notin Buffers
  BY WorkDistinct DEF Init, PoolInit
<1>4. RestTypes
  BY <1>1 DEF Init, RestTypes
<1> QED BY <1>1, <1>2, <1>3, <1>4 DEF Init, WriteTypes

LEMMA CloseConnectChanges ==
  ASSUME CloseConnect
  PROVE  /\ UNCHANGED <<careful, pc, accepted, calls, writes, lpc, m_bReconect, sendVars>>
         /\ m_bConnectSuccess' = FALSE /\ slot' = [slot EXCEPT ![cur] = Nothing]
         /\ reading' = reading \/ reading' = reading \ {m_pStream}
<1>1. UNCHANGED <<sendVars, lpc, unchangedByLoop, m_bReconect>>
  BY Zenon DEF CloseConnect
<1>2. m_bConnectSuccess' = FALSE /\ slot' = [slot EXCEPT ![cur] = Nothing]
  BY Zenon DEF CloseConnect, ClearTcb
<1>3. reading' = reading \/ reading' = reading \ {m_pStream}
  BY Zenon DEF CloseConnect
<1> QED BY <1>1, <1>2, <1>3 DEF unchangedByLoop

LEMMA NextRestTypes ==
  ASSUME RestTypes, SendTypes, [Next]_vars
  PROVE  RestTypes'
<1>1. ASSUME UNCHANGED <<m_bConnectSuccess, m_bReconect, m_mapSend, reading, faults, lpc, calls>>
      PROVE  RestTypes'
  BY <1>1 DEF RestTypes
<1>2. ASSUME NEW c \in Caller,
             \/ ConnectToServer(c) \/ CloseConnection(c) \/ Reconnnect(c)
             \/ StartReadData(c) \/ StopReadData(c)
      PROVE  RestTypes'
  <2>1. /\ UNCHANGED <<m_bConnectSuccess, m_mapSend, reading, faults, lpc>>
        /\ m_bReconect' = m_bReconect \/ m_bReconect' = TRUE
        /\ calls' = calls + 1 /\ (calls < MaxCareful \/ calls < MaxCareless)
    BY <1>2 DEF ConnectToServer, CloseConnection, Reconnnect, StartReadData, StopReadData,
                Call, sendVars, connVars
  <2>2. calls' \in 0 .. MaxCareful + MaxCareless
    BY <2>1, ConnectAssumption DEF RestTypes
  <2> QED BY <2>1, <2>2 DEF RestTypes
<1>3. ASSUME NEW c \in Caller, WirteData(c)
      PROVE  RestTypes'
  BY <1>3 DEF WirteData, connVars, RestTypes
<1>4. ASSUME NEW c \in Caller, AddReq(c)
      PROVE  RestTypes'
  BY <1>1, <1>4 DEF AddReq, connVars, sendVars
<1>5. CASE OtherRequest \/ FireHandle \/ RunOther \/ ReturnHandle \/ UNCHANGED vars
  BY <1>1, <1>5 DEF OtherRequest, FireHandle, RunOther, ReturnHandle, connVars, sendVars,
                    unchangedByLoop, vars
<1>6. CASE Connect
  BY <1>6, FaultTypes DEF Connect, sendVars, unchangedByLoop, RestTypes
<1>7. CASE CloseConnect
  BY <1>7, FaultTypes, CloseConnectChanges DEF sendVars, RestTypes
<1>8. CASE ReadStart \/ ReadStop \/ TcpWrite
  <2>1. /\ UNCHANGED <<m_bConnectSuccess, m_bReconect, m_mapSend, lpc, calls>>
        /\ faults' = faults \/ faults' = faults \cup StreamFaults
        /\ reading' \subseteq reading \/ (Open /\ reading' = reading \cup {m_pStream})
    BY <1>8 DEF ReadStart, ReadStop, TcpWrite, sendVars, unchangedByLoop
  <2> QED BY <2>1, FaultTypes DEF RestTypes, SendTypes, Open
<1>9. ASSUME NEW b \in Block, NEW ok \in BOOLEAN, ConnectCallback(b, ok)
      PROVE  RestTypes'
  BY <1>9, FaultTypes DEF ConnectCallback, sendVars, unchangedByLoop, RestTypes
<1>10. ASSUME NEW b \in Block, NEW ok \in BOOLEAN, ReadCallback(b, ok)
       PROVE  RestTypes'
  BY <1>10 DEF ReadCallback, sendVars, unchangedByLoop, RestTypes
<1>11. ASSUME NEW b \in Block, CloseCallback(b)
       PROVE  RestTypes'
  BY <1>11 DEF CloseCallback, sendVars, unchangedByLoop, RestTypes
<1>12. CASE Reconnect \/ WriteCallback \/ HandlerReturns
  BY <1>12 DEF Reconnect, WriteCallback, HandlerReturns, connVars, sendVars, unchangedByLoop,
               RestTypes
<1> QED
  BY <1>2, <1>3, <1>4, <1>5, <1>6, <1>7, <1>8, <1>9, <1>10, <1>11, <1>12 DEF Next, Requests

LEMMA NextWriteTypes ==
  ASSUME WriteTypes, PoolInv(Work), SendTypes, [Next]_vars
  PROVE  WriteTypes'
<1>0. /\ slot \in [Handle -> Work \cup {Nothing}] /\ pc \in [Caller -> Work \cup {Nothing}]
      /\ cur \in Handle \cup {NoHandle} /\ MaxWrites \in Nat
  BY ConnectAssumption DEF PoolInv, PoolTypeOK, SendTypes
<1>1. ASSUME UNCHANGED <<data, writes>>,
             accepted' \in Seq(1 .. MaxWrites), wire' \in Seq(1 .. MaxWrites),
             \A c \in Caller : pc'[c] \in Buffers => pc'[c] = pc[c],
             \/ \A h \in Handle : slot'[h] \in Buffers => slot'[h] = slot[h]
             \/ \E c \in Caller : Submit(pc[c])
      PROVE  WriteTypes'
  <2>1. \A c \in Caller : pc'[c] \in Buffers => data[pc'[c]] # 0
    BY <1>1 DEF WriteTypes
  <2>2. ASSUME NEW h \in Handle, slot'[h] \in Buffers
        PROVE  data[slot'[h]] # 0
    <3>1. CASE slot'[h] = slot[h]
      BY <2>2, <3>1 DEF WriteTypes
    <3>2. ASSUME NEW c \in Caller, Submit(pc[c])
          PROVE  slot'[h] = slot[h] \/ slot'[h] = pc[c]
      BY <1>0, <3>2, SubmitFresh
    <3> QED BY <1>1, <2>2, <3>1, <3>2 DEF WriteTypes
  <2> QED BY <1>1, <2>1, <2>2 DEF WriteTypes
<1>2. ASSUME NEW c \in Caller,
             \/ ConnectToServer(c) \/ CloseConnection(c) \/ Reconnnect(c)
             \/ StartReadData(c) \/ StopReadData(c)
      PROVE  WriteTypes'
  <2>1. \E r \in Request : pc' = [pc EXCEPT ![c] = r]
    BY <1>2 DEF ConnectToServer, CloseConnection, Reconnnect, StartReadData,
                StopReadData, Call, Request
  <2>2. UNCHANGED <<slot, data, wire, writes, accepted>>
    BY <1>2 DEF ConnectToServer, CloseConnection, Reconnnect, StartReadData,
                StopReadData, Call, poolVars, sendVars
  <2>3. \A d \in Caller : pc'[d] \in Buffers => pc'[d] = pc[d]
    BY <1>0, <2>1, WorkDistinct
  <2> QED BY <1>1, <2>2, <2>3 DEF WriteTypes
<1>3. ASSUME NEW c \in Caller, WirteData(c)
      PROVE  WriteTypes'
  <2>1. PICK b \in Buffers :
          data' = [data EXCEPT ![b] = writes + 1] /\ pc' = [pc EXCEPT ![c] = b]
    BY <1>3 DEF WirteData
  <2>2. /\ UNCHANGED <<slot, wire, accepted>> /\ writes' = writes + 1 /\ writes < MaxWrites
    BY <1>3 DEF WirteData, poolVars
  <2>3. writes + 1 \in 0 .. MaxWrites /\ writes + 1 # 0
    BY <1>0, <2>2 DEF WriteTypes
  <2>4. data' \in [Buffers -> 0 .. MaxWrites] /\ \A d \in Buffers : data[d] # 0 \/ d = b => data'[d] # 0
    BY <2>1, <2>3 DEF WriteTypes
  <2>5. \A d \in Caller : pc'[d] \in Buffers => pc'[d] = pc[d] \/ pc'[d] = b
    BY <1>0, <2>1
  <2> QED BY <2>2, <2>3, <2>4, <2>5 DEF WriteTypes
<1>4. ASSUME NEW c \in Caller, AddReq(c)
      PROVE  WriteTypes'
  <2>1. UNCHANGED <<data, writes, wire>> /\ pc' = [pc EXCEPT ![c] = Nothing]
    BY <1>4 DEF AddReq, sendVars
  <2>2. \A d \in Caller : pc'[d] \in Buffers => pc'[d] = pc[d]
    BY <1>0, <2>1, WorkDistinct
  <2>3. accepted' \in Seq(1 .. MaxWrites)
    <3>1. pc[c] \in Buffers => data[pc[c]] \in 1 .. MaxWrites
      BY <1>0 DEF WriteTypes
    <3>2. accepted' = accepted \/ (pc[c] \in Buffers /\ accepted' = Append(accepted, data[pc[c]]))
      BY <1>4 DEF AddReq
    <3>3. \A n \in 1 .. MaxWrites : Append(accepted, n) \in Seq(1 .. MaxWrites)
      BY AppendProperties DEF WriteTypes
    <3> QED BY <3>1, <3>2, <3>3 DEF WriteTypes
  <2>4. Submit(pc[c]) \/ UNCHANGED slot
    BY <1>4 DEF AddReq, poolVars
  <2> QED BY <1>1, <2>1, <2>2, <2>3, <2>4 DEF WriteTypes
<1>5. CASE OtherRequest \/ Reconnect
  <2>1. /\ UNCHANGED <<data, writes, wire, accepted, pc>>
        /\ Submit("Other") \/ Submit("E_TCP_CONNECT") \/ UNCHANGED slot
    BY <1>5 DEF OtherRequest, Reconnect, sendVars, unchangedByLoop, poolVars
  <2>2. "Other" \notin Buffers /\ "E_TCP_CONNECT" \notin Buffers
    BY WorkDistinct DEF Request
  <2>3. \A h \in Handle : slot'[h] \in Buffers => slot'[h] = slot[h]
    BY <1>0, <2>1, <2>2, SubmitFresh
  <2> QED BY <1>1, <2>1, <2>3 DEF WriteTypes
<1>6. CASE TcpWrite
  <2>1. /\ UNCHANGED <<data, writes, accepted, pc>> /\ slot' = [slot EXCEPT ![cur] = Nothing]
        /\ cur \in Handle /\ slot[cur] \in Buffers
        /\ wire' = wire \/ wire' = Append(wire, data[slot[cur]])
    BY <1>0, <1>6 DEF TcpWrite, ClearTcb, unchangedByLoop
  <2>2. data[slot[cur]] \in 1 .. MaxWrites
    BY <1>0, <2>1 DEF WriteTypes
  <2>3. \A n \in 1 .. MaxWrites : Append(wire, n) \in Seq(1 .. MaxWrites)
    BY AppendProperties DEF WriteTypes
  <2>4. \A h \in Handle : slot'[h] \in Buffers => slot'[h] = slot[h]
    BY <1>0, <2>1, WorkDistinct
  <2> QED BY <1>1, <2>1, <2>2, <2>3, <2>4 DEF WriteTypes
<1>7. CASE Connect \/ CloseConnect \/ ReadStart \/ ReadStop \/ RunOther
  <2>1. /\ UNCHANGED <<data, wire, writes, pc, accepted>>
        /\ slot' = [slot EXCEPT ![cur] = Nothing]
    <3>1. CASE CloseConnect
      BY <3>1, CloseConnectChanges DEF sendVars
    <3>2. CASE Connect \/ ReadStart \/ ReadStop \/ RunOther
      BY <3>2 DEF Connect, ReadStart, ReadStop, RunOther, ClearTcb, sendVars, unchangedByLoop
    <3> QED BY <1>7, <3>1, <3>2
  <2>2. \A h \in Handle : slot'[h] \in Buffers => slot'[h] = slot[h]
    BY <1>0, <2>1, WorkDistinct
  <2> QED BY <1>1, <2>1, <2>2 DEF WriteTypes
<1>8. CASE UNCHANGED <<data, wire, writes, pc, accepted, slot>>
  BY <1>8 DEF WriteTypes
<1>9. FireHandle \/ ReturnHandle \/ HandlerReturns \/ WriteCallback \/ UNCHANGED vars
        => UNCHANGED <<data, wire, writes, pc, accepted, slot>>
  BY DEF FireHandle, Fire, ReturnHandle, Recycle, HandlerReturns, WriteCallback, poolVars,
         sendVars, unchangedByLoop, vars
<1>10. ASSUME NEW b \in Block, NEW ok \in BOOLEAN,
              ConnectCallback(b, ok) \/ ReadCallback(b, ok) \/ CloseCallback(b)
       PROVE  UNCHANGED <<data, wire, writes, pc, accepted, slot>>
  BY <1>10 DEF ConnectCallback, ReadCallback, CloseCallback, poolVars, sendVars,
               unchangedByLoop
<1>11. TRUE \in BOOLEAN
  OBVIOUS
<1> QED
  BY <1>2, <1>3, <1>4, <1>5, <1>6, <1>7, <1>8, <1>9, <1>10, <1>11 DEF Next, Requests

\* Every field of uvconnect, what libuv knows of it and what is under way on it
\* keep their types; in particular only writes that were filled are accepted.
THEOREM TypeCorrect == Spec => []TypeOK
<1> DEFINE Inv  == PoolInv(Work) /\ SendInv /\ ConnInv /\ OnlyDoubleFree
           Rest == RestTypes /\ WriteTypes
<1>1. Inv /\ Rest /\ [Next]_vars => Rest'
  BY NextRestTypes, NextWriteTypes DEF SendInv, PoolInv, PoolTypeOK
<1>2. Inv /\ Rest => TypeOK
  BY Zenon DEF SendInv, SendTypes, ConnInv, BlockTypes, PoolInv, RestTypes, WriteTypes,
               TypeOK, Write, Faults
<1>3. Spec => []Inv
  BY Invariance
<1> QED BY InitRestTypes, <1>1, <1>2, <1>3, PTL DEF Spec

-----------------------------------------------------------------------------
(* The order of the writes.                                                *)

\* Does x stand before y in the sequence s?
Precedes(s, x, y) == \E k, m \in DOMAIN s : k < m /\ s[k] = x /\ s[m] = y

\* A sequence that grows keeps its order, and what is appended comes last.
LEMMA AppendPrecedes ==
  ASSUME NEW S, NEW s \in Seq(S), NEW v \in S
  PROVE  /\ \A x, y : Precedes(s, x, y) => Precedes(Append(s, v), x, y)
         /\ \A x \in Range(s) : Precedes(Append(s, v), x, v)
<1> DEFINE t == Append(s, v)
<1>1. /\ Len(s) \in Nat /\ DOMAIN s = 1 .. Len(s) /\ DOMAIN t = 1 .. Len(s) + 1
      /\ \A i \in 1 .. Len(s) : t[i] = s[i]
      /\ t[Len(s) + 1] = v
  BY AppendProperties, LenProperties
<1> HIDE DEF t
<1>2. /\ DOMAIN s \subseteq DOMAIN t
      /\ Len(s) + 1 \in DOMAIN t /\ \A i \in DOMAIN s : i < Len(s) + 1
  BY <1>1
<1>3. ASSUME NEW x, NEW y, Precedes(s, x, y)
      PROVE  Precedes(t, x, y)
  BY <1>1, <1>2, <1>3 DEF Precedes
<1>4. ASSUME NEW x \in Range(s)
      PROVE  Precedes(t, x, v)
  <2>1. PICK i \in DOMAIN s : s[i] = x
    BY DEF Range
  <2>2. i \in DOMAIN t /\ i < Len(s) + 1 /\ t[i] = x
    BY <1>1, <1>2, <2>1
  <2> QED BY <1>1, <1>2, <2>2 DEF Precedes
<1> QED BY <1>3, <1>4 DEF t

\* The request stored in handle h is a write, and which one.
Holds(h)   == slot[h] \in Buffers
WriteOf(h) == data[slot[h]]

OrderTypes ==
  /\ data \in [Buffers -> Nat] /\ writes \in Nat
  /\ accepted \in Seq(Nat) /\ wire \in Seq(Nat)

\* What waits in the pool or has gone to the wire was accepted, ...
WasAccepted ==
  /\ \A h \in Handle : Holds(h) => WriteOf(h) \in Range(accepted)
  /\ \A x \in Range(wire) : x \in Range(accepted)

\* ... the wire has it in the order of its acceptance, ahead of what waits, ...
WireInOrder ==
  /\ \A i, j \in DOMAIN wire : i < j => Precedes(accepted, wire[i], wire[j])
  /\ \A x \in Range(wire), h \in Handle : Holds(h) => Precedes(accepted, x, WriteOf(h))

\* ... and what waits does so in that order, the current request first.
QueueInOrder ==
  /\ \A i, j \in DOMAIN sent : i < j /\ Holds(sent[i]) /\ Holds(sent[j]) =>
       Precedes(accepted, WriteOf(sent[i]), WriteOf(sent[j]))
  /\ \A h \in Range(sent) : cur \in Handle /\ Holds(cur) /\ Holds(h) =>
       Precedes(accepted, WriteOf(cur), WriteOf(h))

\* Where libuv may call back in any order the careful users do not write.
OnlyOrderedWrites ==
  ~InOrder /\ careful => /\ \A c \in Caller : pc[c] \notin Buffers
                         /\ \A h \in Handle : ~Holds(h)

OrderInv ==
  OrderTypes /\ WasAccepted /\ WireInOrder /\ QueueInOrder /\ OnlyOrderedWrites

LEMMA InitOrderInv == Init => OrderInv
<1> SUFFICES ASSUME Init PROVE OrderInv
  OBVIOUS
<1>1. <<>> \in Seq(Nat) /\ DOMAIN <<>> = {}
  BY EmptySeq
<1>2. OrderTypes
  BY <1>1 DEF Init, OrderTypes
<1>3. /\ \A h \in Handle : ~Holds(h)
      /\ \A c \in Caller : pc[c] \notin Buffers
      /\ wire = <<>> /\ sent = <<>> /\ DOMAIN wire = {} /\ DOMAIN sent = {}
      /\ Range(wire) = {} /\ Range(sent) = {}
  BY <1>1, WorkDistinct DEF Init, PoolInit, Holds, Range
<1> QED
  BY <1>2, <1>3 DEF OrderInv, WasAccepted, WireInOrder, QueueInOrder, OnlyOrderedWrites

\* A step that stores no write and leaves the wire and the queue alone.
LEMMA OrderStutters ==
  ASSUME OrderInv, OrderTypes', UNCHANGED <<accepted, wire, sent, careful>>,
         cur' = cur \/ cur' = NoHandle,
         \A h \in Handle : Holds(h)' => Holds(h) /\ WriteOf(h)' = WriteOf(h),
         sent \in Seq(Handle),
         \A c \in Caller : pc'[c] \in Buffers => pc[c] \in Buffers \/ InOrder \/ ~careful
  PROVE  OrderInv'
<1>0. /\ \A i \in DOMAIN sent : sent[i] \in Handle
      /\ \A h \in Range(sent) : h \in Handle
      /\ NoHandle \notin Handle
  BY LenProperties, WorkDistinct DEF Range
<1>1. WasAccepted' /\ WireInOrder'
  BY DEF OrderInv, WasAccepted, WireInOrder
<1>2. QueueInOrder'
  BY <1>0 DEF OrderInv, QueueInOrder
<1>3. OnlyOrderedWrites'
  BY DEF OrderInv, OnlyOrderedWrites
<1> QED BY <1>1, <1>2, <1>3 DEF OrderInv

\* A request goes to the end of the queue, a write with its acceptance.
LEMMA SubmitOrderInv ==
  ASSUME OrderInv, PoolInv(Work), NEW w \in Work, Submit(w),
         UNCHANGED <<data, wire, writes, careful>>,
         accepted' = IF w \in Buffers THEN Append(accepted, data[w]) ELSE accepted,
         w \in Buffers => InOrder \/ ~careful,
         \A c \in Caller : pc'[c] \in Buffers => pc[c] \in Buffers
  PROVE  OrderInv'
<1>0. PICK h : h = Head(m_dAsync)
  OBVIOUS
<1>1. /\ h \in Handle /\ h \notin Range(sent) /\ h # cur
  BY <1>0, FreshHandle DEF Submit
<1>2. /\ sent' = Append(sent, h) /\ slot' = [slot EXCEPT ![h] = w] /\ cur' = cur
      /\ slot \in [Handle -> Work \cup {Nothing}] /\ sent \in Seq(Handle)
  BY <1>0 DEF Submit, PoolInv, PoolTypeOK
<1>3. /\ Len(sent) \in Nat /\ DOMAIN sent = 1 .. Len(sent) /\ DOMAIN sent' = 1 .. Len(sent) + 1
      /\ \A i \in 1 .. Len(sent) : sent'[i] = sent[i] /\ sent[i] \in Range(sent)
      /\ sent'[Len(sent) + 1] = h
      /\ Range(sent') = Range(sent) \cup {h}
      /\ \A g \in Range(sent) : g \in Handle
  <2>1. \A i \in 1 .. Len(sent) : sent[i] \in Range(sent) /\ sent[i] \in Handle
    BY <1>2, LenProperties DEF Range
  <2>2. \A g \in Range(sent) : g \in Handle
    BY <1>2, <2>1, LenProperties DEF Range
  <2> QED BY <1>1, <1>2, <2>1, <2>2, LenProperties, AppendProperties, AppendKeepsInjective
<1>4. \A g \in Handle : g # h => (Holds(g)' <=> Holds(g)) /\ WriteOf(g)' = WriteOf(g)
  BY <1>1, <1>2 DEF Holds, WriteOf
<1>5. slot'[h] = w /\ (Holds(h)' <=> w \in Buffers) /\ WriteOf(h)' = data[w]
  BY <1>1, <1>2 DEF Holds, WriteOf
<1>6. /\ OrderTypes'
      /\ \A x, y : Precedes(accepted, x, y) => Precedes(accepted', x, y)
      /\ \A x \in Range(accepted) : x \in Range(accepted')
      /\ w \in Buffers => /\ \A x \in Range(accepted) : Precedes(accepted', x, data[w])
                          /\ data[w] \in Range(accepted')
  <2>1. CASE w \in Buffers
    <3>1. data[w] \in Nat /\ accepted' = Append(accepted, data[w]) /\ accepted \in Seq(Nat)
      BY <2>1 DEF OrderInv, OrderTypes
    <3>2. Range(accepted') = Range(accepted) \cup {data[w]} /\ accepted' \in Seq(Nat)
      BY <3>1, AppendKeepsInjective
    <3>3. /\ \A x, y : Precedes(accepted, x, y) => Precedes(accepted', x, y)
          /\ \A x \in Range(accepted) : Precedes(accepted', x, data[w])
      BY <3>1, AppendPrecedes
    <3> QED BY <3>2, <3>3 DEF OrderInv, OrderTypes
  <2>2. CASE w \notin Buffers
    BY <2>2 DEF OrderInv, OrderTypes
  <2> QED BY <2>1, <2>2
<1>7. WasAccepted'
  BY <1>1, <1>4, <1>5, <1>6 DEF OrderInv, WasAccepted
<1>8. WireInOrder'
  <2>1. \A i, j \in DOMAIN wire : i < j => Precedes(accepted', wire[i], wire[j])
    BY <1>6 DEF OrderInv, WireInOrder
  <2>2. ASSUME NEW x \in Range(wire), NEW g \in Handle, Holds(g)'
        PROVE  Precedes(accepted', x, WriteOf(g)')
    <3>1. CASE g = h
      BY <1>5, <1>6, <2>2, <3>1 DEF OrderInv, WasAccepted
    <3>2. CASE g # h
      BY <1>4, <1>6, <2>2, <3>2 DEF OrderInv, WireInOrder
    <3> QED BY <3>1, <3>2
  <2> QED BY <2>1, <2>2 DEF WireInOrder
<1>9. QueueInOrder'
  <2>1. \A g \in Range(sent) : g # h
    BY <1>1
  <2>2. ASSUME NEW i \in 1 .. Len(sent) + 1, NEW j \in 1 .. Len(sent) + 1, i < j,
               NEW e, NEW g, e = sent'[i], g = sent'[j], Holds(e)', Holds(g)'
        PROVE  Precedes(accepted', WriteOf(e)', WriteOf(g)')
    <3>1. i \in 1 .. Len(sent) /\ (j \in 1 .. Len(sent) \/ j = Len(sent) + 1)
      BY <1>3, <2>2
    <3>2. sent[i] = e /\ e \in Handle /\ e # h
      BY <1>3, <2>1, <2>2, <3>1
    <3>3. Holds(e) /\ WriteOf(e)' = WriteOf(e)
      BY <1>4, <2>2, <3>2
    <3>4. CASE j = Len(sent) + 1
      <4>1. g = h /\ w \in Buffers
        BY <1>3, <1>5, <2>2, <3>4
      <4>2. WriteOf(e) \in Range(accepted)
        BY <3>2, <3>3 DEF OrderInv, WasAccepted
      <4> QED BY <1>5, <1>6, <3>3, <4>1, <4>2
    <3>5. CASE j \in 1 .. Len(sent)
      <4>1. g = sent[j] /\ g \in Handle /\ g # h
        BY <1>3, <2>1, <2>2, <3>5
      <4>2. Holds(g) /\ WriteOf(g)' = WriteOf(g)
        BY <1>4, <2>2, <4>1
      <4>3. Precedes(accepted, WriteOf(e), WriteOf(g))
        BY <1>3, <2>2, <3>1, <3>2, <3>3, <3>5, <4>1, <4>2 DEF OrderInv, QueueInOrder
      <4> QED BY <1>6, <3>3, <4>2, <4>3
    <3> QED BY <3>1, <3>4, <3>5
  <2>3. ASSUME NEW g \in Range(sent'), NEW e \in Handle, e = cur', Holds(e)', Holds(g)'
        PROVE  Precedes(accepted', WriteOf(e)', WriteOf(g)')
    <3>1. e = cur /\ Holds(e) /\ WriteOf(e)' = WriteOf(e)
      BY <1>1, <1>2, <1>4, <2>3
    <3>2. CASE g = h
      <4>1. WriteOf(e) \in Range(accepted) /\ w \in Buffers
        BY <1>5, <2>3, <3>1, <3>2 DEF OrderInv, WasAccepted
      <4> QED BY <1>5, <1>6, <3>1, <3>2, <4>1
    <3>3. CASE g \in Range(sent) /\ g # h
      <4>1. g \in Handle /\ Holds(g) /\ WriteOf(g)' = WriteOf(g)
        BY <1>3, <1>4, <2>3, <3>3
      <4> QED BY <1>6, <3>1, <3>3, <4>1 DEF OrderInv, QueueInOrder
    <3> QED BY <1>3, <2>1, <3>2, <3>3
  <2> QED BY <1>3, <2>2, <2>3 DEF QueueInOrder, Holds, WriteOf
<1>10. OnlyOrderedWrites'
  BY <1>4, <1>5 DEF OrderInv, OnlyOrderedWrites
<1> QED BY <1>6, <1>7, <1>8, <1>9, <1>10 DEF OrderInv

\* libuv calls back the first of the queue, or the queue holds no writes.
LEMMA FireOrderInv ==
  ASSUME OrderInv, PoolInv(Work), FireHandle
  PROVE  OrderInv'
<1>1. PICK i \in 1 .. Len(sent) :
        cur' = sent[i] /\ sent' = RemoveAt(sent, i) /\ (InOrder => i = 1)
  BY DEF FireHandle, Fire
<1>2. /\ UNCHANGED <<slot, data, wire, accepted, writes, careful, pc>>
      /\ ~careful => cur' = Head(sent)
      /\ sent \in Seq(Handle) /\ IsInjective(sent)
      /\ slot \in [Handle -> Work \cup {Nothing}]
  BY DEF FireHandle, Fire, sendVars, unchangedByLoop, PoolInv, PoolTypeOK, CallbackFindsHandle
<1>3. /\ Len(sent) \in Nat /\ DOMAIN sent = 1 .. Len(sent)
      /\ \A j \in 1 .. Len(sent) : sent[j] \in Handle
  BY <1>2, LenProperties, ElementOfSeq
<1>4. /\ DOMAIN sent' = 1 .. Len(sent) - 1
      /\ \A j \in 1 .. Len(sent) - 1 : sent'[j] = IF j < i THEN sent[j] ELSE sent[j + 1]
  BY <1>1, <1>2, RemoveAtElements
<1>5. Range(sent') = Range(sent) \ {cur'}
  BY <1>1, <1>2, RemoveAtKeepsInjective
<1>6. \A h : (Holds(h)' <=> Holds(h)) /\ WriteOf(h)' = WriteOf(h)
  BY <1>2 DEF Holds, WriteOf
<1>7. QueueInOrder'
  <2>1. CASE ~InOrder /\ careful
    <3>1. /\ \A h \in Handle : ~Holds(h)'
          /\ \A h \in Range(sent') : h \in Handle
      BY <1>3, <1>5, <1>6, <2>1 DEF OrderInv, OnlyOrderedWrites, Range
    <3>2. \A j \in DOMAIN sent' : sent'[j] \in Handle
      BY <3>1 DEF Range
    <3> QED BY <1>2, <3>1, <3>2 DEF QueueInOrder, Holds
  <2>2. CASE InOrder \/ ~careful
    <3>1. i = 1
      <4>1. CASE InOrder
        BY <1>1, <4>1
      <4>2. CASE ~careful
        <5>1. sent[i] = sent[1] /\ 1 \in DOMAIN sent /\ i \in DOMAIN sent
          BY <1>1, <1>2, <1>3, <4>2
        <5> QED BY <1>2, <5>1 DEF IsInjective
      <4> QED BY <2>2, <4>1, <4>2
    <3>2. \A j \in 1 .. Len(sent) - 1 : j + 1 \in DOMAIN sent /\ sent'[j] = sent[j + 1]
      BY <1>3, <1>4, <3>1
    <3>3. ASSUME NEW j \in DOMAIN sent', NEW k \in DOMAIN sent', j < k,
                 NEW e, NEW g, e = sent'[j], g = sent'[k], Holds(e), Holds(g)
          PROVE  Precedes(accepted, WriteOf(e), WriteOf(g))
      <4>1. /\ e = sent[j + 1] /\ g = sent[k + 1] /\ j + 1 < k + 1
            /\ j + 1 \in DOMAIN sent /\ k + 1 \in DOMAIN sent
        BY <1>3, <1>4, <3>2, <3>3
      <4> QED BY <3>3, <4>1 DEF OrderInv, QueueInOrder
    <3>4. ASSUME NEW g \in Range(sent'), NEW e, e = cur', Holds(e), Holds(g)
          PROVE  Precedes(accepted, WriteOf(e), WriteOf(g))
      <4>1. PICK j \in DOMAIN sent' : sent'[j] = g
        BY DEF Range
      <4>2. /\ g = sent[j + 1] /\ e = sent[1] /\ 1 < j + 1
            /\ j + 1 \in DOMAIN sent /\ 1 \in DOMAIN sent
        BY <1>1, <1>3, <1>4, <3>1, <3>2, <3>4, <4>1
      <4> QED BY <3>4, <4>2 DEF OrderInv, QueueInOrder
    <3> QED BY <1>2, <3>3, <3>4 DEF QueueInOrder, Holds, WriteOf
  <2> QED BY <2>1, <2>2
<1>8. OrderTypes' /\ WasAccepted' /\ WireInOrder' /\ OnlyOrderedWrites'
  BY <1>2, <1>6 DEF OrderInv, OrderTypes, WasAccepted, WireInOrder, OnlyOrderedWrites
<1> QED BY <1>7, <1>8 DEF OrderInv

\* The current write goes to the end of the wire, ahead of those that wait.
LEMMA TcpWriteOrderInv ==
  ASSUME OrderInv, PoolInv(Work), SendInv, TcpWrite
  PROVE  OrderInv'
<1>1. /\ UNCHANGED <<sent, cur, data, accepted, writes, careful, pc>>
      /\ cur \in Handle /\ Holds(cur)
      /\ slot' = [slot EXCEPT ![cur] = Nothing]
      /\ slot \in [Handle -> Work \cup {Nothing}] /\ sent \in Seq(Handle)
  BY DEF TcpWrite, ClearTcb, unchangedByLoop, PoolInv, PoolTypeOK, Holds
<1>2. \A h \in Handle : Holds(h)' => h # cur /\ Holds(h) /\ WriteOf(h)' = WriteOf(h)
  BY <1>1, WorkDistinct DEF Holds, WriteOf
<1>3. CASE UNCHANGED wire
  <2>1. OrderTypes'
    BY <1>1, <1>3 DEF OrderInv, OrderTypes
  <2> QED BY <1>1, <1>2, <1>3, <2>1, OrderStutters
<1>4. CASE wire' = Append(wire, data[slot[cur]])
  <2>1. PICK v : v = WriteOf(cur)
    OBVIOUS
  <2>2. /\ v \in Nat /\ v \in Range(accepted) /\ wire \in Seq(Nat) /\ wire' = Append(wire, v)
        /\ \A x \in Range(wire) : Precedes(accepted, x, v)
        /\ \A h \in Range(sent) : Holds(h) => Precedes(accepted, v, WriteOf(h))
    BY <1>1, <1>4, <2>1
       DEF OrderInv, OrderTypes, WasAccepted, WireInOrder, QueueInOrder, Holds, WriteOf
  <2>3. wire' \in Seq(Nat) /\ Range(wire') = Range(wire) \cup {v}
    BY <2>2, AppendKeepsInjective
  <2>4. /\ Len(wire) \in Nat /\ DOMAIN wire = 1 .. Len(wire)
        /\ DOMAIN wire' = 1 .. Len(wire) + 1
        /\ \A i \in 1 .. Len(wire) : wire'[i] = wire[i] /\ wire[i] \in Range(wire)
        /\ wire'[Len(wire) + 1] = v
    <3>1. \A i \in DOMAIN wire : wire[i] \in Range(wire)
      BY DEF Range
    <3> QED BY <2>2, <3>1, LenProperties, AppendProperties
  <2>5. OrderTypes' /\ WasAccepted'
    BY <1>1, <1>2, <2>2, <2>3 DEF OrderInv, OrderTypes, WasAccepted
  <2>6. WireInOrder'
    <3>1. ASSUME NEW i \in DOMAIN wire', NEW j \in DOMAIN wire', i < j
          PROVE  Precedes(accepted, wire'[i], wire'[j])
      <4>1. i \in 1 .. Len(wire) /\ (j \in 1 .. Len(wire) \/ j = Len(wire) + 1)
        BY <2>4, <3>1
      <4>2. CASE j = Len(wire) + 1
        BY <2>2, <2>4, <4>1, <4>2
      <4>3. CASE j \in 1 .. Len(wire)
        BY <2>4, <3>1, <4>1, <4>3 DEF OrderInv, WireInOrder
      <4> QED BY <4>1, <4>2, <4>3
    <3>2. ASSUME NEW h \in Handle, Holds(h)'
          PROVE  h \in Range(sent)
      <4>1. Holds(h) /\ h # cur
        BY <1>2, <3>2
      <4>2. h \in m_mapAsync
        BY <4>1, WorkDistinct DEF Holds, PoolInv, IdleHandlesEmpty
      <4> QED BY <4>1, <4>2 DEF PoolInv, CallbackFindsHandle
    <3>3. ASSUME NEW x \in Range(wire'), NEW h \in Handle, Holds(h)'
          PROVE  Precedes(accepted, x, WriteOf(h)')
      <4>1. Holds(h) /\ WriteOf(h)' = WriteOf(h) /\ h \in Range(sent)
        BY <1>2, <3>2, <3>3
      <4>2. CASE x \in Range(wire)
        BY <4>1, <4>2 DEF OrderInv, WireInOrder
      <4>3. CASE x = v
        BY <2>2, <4>1, <4>3
      <4> QED BY <2>3, <4>2, <4>3
    <3> QED BY <1>1, <3>1, <3>3 DEF WireInOrder
  <2>7. QueueInOrder'
    <3>1. /\ \A i \in DOMAIN sent : sent[i] \in Handle
          /\ \A h \in Range(sent) : h \in Handle
      BY <1>1, LenProperties DEF Range
    <3>2. ~Holds(cur)'
      BY <1>1, <1>2
    <3> QED BY <1>1, <1>2, <3>1, <3>2 DEF OrderInv, QueueInOrder
  <2>8. OnlyOrderedWrites'
    BY <1>1, <1>2 DEF OrderInv, OnlyOrderedWrites
  <2> QED BY <2>5, <2>6, <2>7, <2>8 DEF OrderInv
<1> QED BY <1>3, <1>4 DEF TcpWrite

\* wirteData writes into an object that no request holds.
LEMMA WirteDataOrderInv ==
  ASSUME InOrder \/ "write" \notin CarefulOps,
         OrderInv, PoolInv(Work), SendInv, NEW c \in Caller, WirteData(c)
  PROVE  OrderInv'
<1>1. PICK b \in Buffers :
        /\ \/ m_dSend = <<>> /\ b \notin m_mapSend
           \/ m_dSend # <<>> /\ b = Head(m_dSend)
        /\ data' = [data EXCEPT ![b] = writes + 1]
        /\ pc' = [pc EXCEPT ![c] = b]
  BY DEF WirteData
<1>2. /\ UNCHANGED <<slot, sent, cur, wire, accepted, careful>> /\ writes' = writes + 1
      /\ sent \in Seq(Handle) /\ pc \in [Caller -> Work \cup {Nothing}]
  BY DEF WirteData, poolVars, PoolInv, PoolTypeOK, SendInv, SendTypes
<1>3. b \notin m_mapSend
  <2>1. m_dSend # <<>> => Head(m_dSend) \in Range(m_dSend)
    BY TailKeepsInjective DEF SendInv, SendTypes
  <2> QED BY <1>1, <2>1 DEF SendInv
<1>4. \A h \in Handle : Holds(h)' => Holds(h) /\ WriteOf(h)' = WriteOf(h)
  BY <1>1, <1>2, <1>3 DEF Holds, WriteOf, SendInv, HeldInMap, OrderInv, OrderTypes
<1>5. OrderTypes'
  BY <1>1, <1>2 DEF OrderInv, OrderTypes
<1>6. InOrder \/ ~careful
  BY DEF WirteData, MayCall
<1> QED BY <1>1, <1>2, <1>4, <1>5, <1>6, OrderStutters

LEMMA NextOrderInv ==
  ASSUME InOrder \/ "write" \notin CarefulOps,
         OrderInv, PoolInv(Work), SendInv, [Next]_vars
  PROVE  OrderInv'
<1>0. /\ slot \in [Handle -> Work \cup {Nothing}] /\ sent \in Seq(Handle)
      /\ pc \in [Caller -> Work \cup {Nothing}]
      /\ \A r \in Request \cup Buffers \cup {"Other"} : r \in Work
      /\ cur \in Handle \cup {NoHandle}
  BY DEF PoolInv, PoolTypeOK, SendInv, SendTypes, Work
<1>1. CASE UNCHANGED <<slot, sent, pc, data, wire, accepted, writes, careful>>
           /\ (cur' = cur \/ cur' = NoHandle)
  <2>1. OrderTypes'
    BY <1>1 DEF OrderInv, OrderTypes
  <2>2. \A h \in Handle : Holds(h)' => Holds(h) /\ WriteOf(h)' = WriteOf(h)
    BY <1>1 DEF Holds, WriteOf
  <2> QED BY <1>0, <1>1, <2>1, <2>2, OrderStutters
<1>2. CASE UNCHANGED vars
  BY <1>1, <1>2 DEF vars, poolVars, sendVars
<1>3. ASSUME NEW c \in Caller,
             \/ ConnectToServer(c) \/ CloseConnection(c) \/ Reconnnect(c)
             \/ StartReadData(c) \/ StopReadData(c)
      PROVE  OrderInv'
  <2>1. \E r \in Request : pc' = [pc EXCEPT ![c] = r]
    BY <1>3 DEF ConnectToServer, CloseConnection, Reconnnect, StartReadData,
                StopReadData, Call, Request
  <2>2. UNCHANGED <<slot, sent, cur, data, wire, accepted, writes, careful>>
    BY <1>3 DEF ConnectToServer, CloseConnection, Reconnnect, StartReadData,
                StopReadData, Call, poolVars, sendVars
  <2>3. OrderTypes' /\ \A h \in Handle : Holds(h)' => Holds(h) /\ WriteOf(h)' = WriteOf(h)
    BY <2>2 DEF OrderInv, OrderTypes, Holds, WriteOf
  <2>4. \A d \in Caller : pc'[d] \in Buffers => pc[d] \in Buffers
    BY <1>0, <2>1, WorkDistinct
  <2> QED BY <1>0, <2>2, <2>3, <2>4, OrderStutters
<1>4. ASSUME NEW c \in Caller, WirteData(c)
      PROVE  OrderInv'
  BY <1>4, WirteDataOrderInv
<1>5. ASSUME NEW c \in Caller, AddReq(c)
      PROVE  OrderInv'
  <2>1. /\ UNCHANGED <<data, wire, writes, careful>>
        /\ pc[c] \in Work /\ pc' = [pc EXCEPT ![c] = Nothing]
    BY <1>0, <1>5 DEF AddReq, sendVars
  <2>2. \A d \in Caller : pc'[d] \in Buffers => pc[d] \in Buffers
    BY <1>0, <2>1, WorkDistinct
  <2>3. CASE Submit(pc[c]) /\ accepted' = IF pc[c] \in Buffers THEN Append(accepted, data[pc[c]])
                                          ELSE accepted
    <3>1. pc[c] \in Buffers => InOrder \/ ~careful
      BY DEF OrderInv, OnlyOrderedWrites
    <3> QED BY <2>1, <2>2, <2>3, <3>1, SubmitOrderInv
  <2>4. CASE UNCHANGED <<poolVars, accepted>>
    <3>1. OrderTypes' /\ \A h \in Handle : Holds(h)' => Holds(h) /\ WriteOf(h)' = WriteOf(h)
      BY <2>1, <2>4 DEF OrderInv, OrderTypes, Holds, WriteOf, poolVars
    <3> QED BY <1>0, <2>1, <2>2, <2>4, <3>1, OrderStutters DEF poolVars
  <2> QED BY <1>5, <2>3, <2>4 DEF AddReq
<1>6. CASE OtherRequest \/ Reconnect
  <2>1. /\ UNCHANGED <<data, wire, writes, careful, pc, accepted>>
        /\ Submit("Other") \/ Submit("E_TCP_CONNECT") \/ UNCHANGED poolVars
    BY <1>6 DEF OtherRequest, Reconnect, sendVars, unchangedByLoop
  <2>2. CASE UNCHANGED poolVars
    BY <1>1, <2>1, <2>2 DEF poolVars
  <2>3. ASSUME NEW w \in {"Other", "E_TCP_CONNECT"}, Submit(w)
        PROVE  OrderInv'
    <3>1. w \in Work /\ w \notin Buffers
      BY <1>0, WorkDistinct DEF Request
    <3> QED BY <2>1, <2>3, <3>1, SubmitOrderInv
  <2> QED BY <2>1, <2>2, <2>3
<1>7. CASE FireHandle
  BY <1>7, FireOrderInv
<1>8. CASE Connect \/ CloseConnect \/ ReadStart \/ ReadStop \/ RunOther
  <2>1. /\ UNCHANGED <<sent, cur, data, wire, writes, careful, pc, accepted>>
        /\ slot' = [slot EXCEPT ![cur] = Nothing]
    BY <1>8 DEF Connect, CloseConnect, ReadStart, ReadStop, RunOther,
                ClearTcb, sendVars, unchangedByLoop
  <2>2. OrderTypes' /\ \A h \in Handle : Holds(h)' => Holds(h) /\ WriteOf(h)' = WriteOf(h)
    BY <1>0, <2>1, WorkDistinct DEF OrderInv, OrderTypes, Holds, WriteOf
  <2> QED BY <1>0, <2>1, <2>2, OrderStutters
<1>9. CASE TcpWrite
  BY <1>9, TcpWriteOrderInv
<1>10. CASE ReturnHandle \/ HandlerReturns \/ WriteCallback
  BY <1>1, <1>10 DEF ReturnHandle, Recycle, HandlerReturns, WriteCallback, poolVars, sendVars,
                     unchangedByLoop
<1>11. ASSUME NEW b \in Block, NEW ok \in BOOLEAN,
              ConnectCallback(b, ok) \/ ReadCallback(b, ok) \/ CloseCallback(b)
       PROVE  OrderInv'
  BY <1>1, <1>11 DEF ConnectCallback, ReadCallback, CloseCallback, poolVars, sendVars,
                     unchangedByLoop
<1>12. TRUE \in BOOLEAN
  OBVIOUS
<1> QED
  BY <1>2, <1>3, <1>4, <1>5, <1>6, <1>7, <1>8, <1>9, <1>10, <1>11, <1>12 DEF Next, Requests

\* What goes to the wire is what wirteData accepted, in that order, nothing
\* changed or sent twice, whoever writes from however many threads, if the
\* wake-ups that writers get come in the order of the sends (connect.cpp:74-86,
\* 199-222, loop.cpp:106-116).
THEOREM WireKeepsOrder ==
  ASSUME InOrder \/ "write" \notin CarefulOps
  PROVE  Spec => []WritesInOrder
<1> DEFINE Inv == PoolInv(Work) /\ SendInv /\ OrderInv
<1>1. Init => Inv
  BY PoolInitInv, InitSendInv, InitOrderInv DEF Init
<1>2. Inv /\ [Next]_vars => Inv'
  BY NextPool, NextSendInv, NextOrderInv DEF SendInv, SendTypes
<1>3. Inv => WritesInOrder
  <2> SUFFICES ASSUME Inv, NEW i \in DOMAIN wire
               PROVE  /\ Contains(accepted, wire[i])
                      /\ \A j \in DOMAIN wire : i < j => Precedes(accepted, wire[i], wire[j])
    BY DEF WritesInOrder, Precedes
  <2>1. wire[i] \in Range(accepted) /\ DOMAIN accepted = 1 .. Len(accepted)
    BY LenProperties DEF OrderInv, OrderTypes, WasAccepted, Range
  <2>2. Contains(accepted, wire[i])
    BY <2>1 DEF Contains, Range
  <2> QED BY <2>2 DEF OrderInv, WireInOrder
<1> QED BY <1>1, <1>2, <1>3, PTL DEF Spec

-----------------------------------------------------------------------------
(* The reconnect.                                                          *)

\* The handles that hold requests which may be made at any time, and the
\* callers who are about to make one.
Lent   == {h \in Handle : slot[h] \in {"Other", "E_TCP_READ_START"}}
Asking == {c \in Caller : pc[c] = "E_TCP_READ_START"}

\* A wake-up that is pending has work to do, no request runs inside another
\* callback of libuv, and careful users, who do not write, leave two handles to
\* the changes of the connection.
RoomInv ==
  /\ \A h \in Range(sent) : slot[h] # Nothing
  /\ lpc # "idle" => cur = NoHandle
  /\ \A c \in Caller : pc[c] # "Other"
  /\ IsFiniteSet(Asking)
  /\ careful =>
       /\ \A c \in Caller : pc[c] \notin Buffers
       /\ \A h \in Handle : slot[h] \notin Buffers
       /\ Cardinality(Lent) + Cardinality(Asking) <= UV_ASYNC_HANDE - 2

\* Two finite sets that shrink, one that grows, and an element that moves.
LEMMA ShrinkCounts ==
  ASSUME NEW A, NEW B, IsFiniteSet(A), IsFiniteSet(B),
         NEW S, NEW T, S \subseteq A, T \subseteq B
  PROVE  /\ IsFiniteSet(S) /\ IsFiniteSet(T)
         /\ Cardinality(S) + Cardinality(T) <= Cardinality(A) + Cardinality(B)
<1>1. /\ IsFiniteSet(S) /\ Cardinality(S) <= Cardinality(A)
      /\ IsFiniteSet(T) /\ Cardinality(T) <= Cardinality(B)
  BY FS_Subset
<1>2. /\ Cardinality(A) \in Nat /\ Cardinality(B) \in Nat
      /\ Cardinality(S) \in Nat /\ Cardinality(T) \in Nat
  BY <1>1, FS_CardinalityType
<1> QED BY <1>1, <1>2

LEMMA GrowCounts ==
  ASSUME NEW A, NEW B, IsFiniteSet(A), IsFiniteSet(B), NEW x,
         NEW n \in Int, Cardinality(A) + Cardinality(B) < n
  PROVE  IsFiniteSet(A \cup {x}) /\ Cardinality(A \cup {x}) + Cardinality(B) <= n
<1>1. Cardinality(A) \in Nat /\ Cardinality(B) \in Nat
  BY FS_CardinalityType
<1>2. /\ IsFiniteSet(A \cup {x})
      /\ Cardinality(A \cup {x}) = Cardinality(A) \/ Cardinality(A \cup {x}) = Cardinality(A) + 1
  <2>1. x \in A => A \cup {x} = A
    OBVIOUS
  <2>2. CASE x \in A
    <3>1. A \cup {x} = A
      BY <2>1, <2>2
    <3> QED BY <3>1, Zenon
  <2>3. CASE x \notin A
    BY <2>3, FS_AddElement
  <2> QED BY <2>2, <2>3
<1> QED BY <1>1, <1>2

LEMMA MoveCounts ==
  ASSUME NEW A, NEW B, IsFiniteSet(A), IsFiniteSet(B), NEW x, x \notin A, NEW y \in B
  PROVE  Cardinality(A \cup {x}) + Cardinality(B \ {y}) = Cardinality(A) + Cardinality(B)
<1>1. Cardinality(A) \in Nat /\ Cardinality(B) \in Nat
  BY FS_CardinalityType
<1>2. Cardinality(A \cup {x}) = Cardinality(A) + 1
  BY FS_AddElement
<1>3. Cardinality(B \ {y}) = Cardinality(B) - 1
  BY FS_RemoveElement
<1> QED BY <1>1, <1>2, <1>3

LEMMA LentIsFinite == IsFiniteSet(Handle) /\ IsFiniteSet(Lent)
<1>1. IsFiniteSet(Handle)
  BY PoolAssumption, FS_Interval DEF Handle
<1>2. Lent \subseteq Handle
  BY DEF Lent
<1> QED BY <1>1, <1>2, FS_Subset

LEMMA PlainWork ==
  /\ Nothing \notin {"Other", "E_TCP_READ_START"} /\ Nothing \notin Buffers
  /\ "Other" \notin Change
  /\ "E_TCP_READ_START" \notin Buffers /\ "Other" \notin Buffers
  /\ \A w \in Change : w \notin Buffers /\ w \notin {"Other", "E_TCP_READ_START"}
  /\ \A b \in Buffers : b \notin {"Other", "E_TCP_READ_START"}
  /\ Change \cup {"Other", "E_TCP_READ_START"} \cup Buffers = Work
BY ConnectAssumption DEF Change, Request, Work

LEMMA InitRoomInv ==
  ASSUME UV_ASYNC_HANDE >= 2, Init
  PROVE  RoomInv
<1>1. Range(sent) = {}
  BY EmptySeq DEF Init, PoolInit, Range
<1>2. /\ Lent = {} /\ Asking = {}
      /\ \A c \in Caller : pc[c] \notin Buffers
      /\ \A h \in Handle : slot[h] \notin Buffers
  BY PlainWork DEF Init, PoolInit, Lent, Asking
<1>3. /\ IsFiniteSet(Asking)
      /\ Cardinality(Lent) + Cardinality(Asking) <= UV_ASYNC_HANDE - 2
  BY <1>2, FS_EmptySet, PoolAssumption
<1>4. cur = NoHandle /\ \A c \in Caller : pc[c] # "Other"
  BY PlainWork DEF Init, PoolInit
<1> QED BY <1>1, <1>2, <1>3, <1>4 DEF RoomInv

\* A step that lends no handle.
LEMMA NoneLent ==
  ASSUME RoomInv, careful' = careful, Lent' \subseteq Lent, Asking' \subseteq Asking,
         \A h \in Range(sent') : slot'[h] # Nothing,
         lpc' # "idle" => cur' = NoHandle,
         \A c \in Caller : pc'[c] # "Other",
         careful => \A c \in Caller : pc'[c] \notin Buffers,
         careful => \A h \in Handle : slot'[h] \notin Buffers
  PROVE  RoomInv'
<1>1. /\ IsFiniteSet(Asking')
      /\ Cardinality(Lent') + Cardinality(Asking') <= Cardinality(Lent) + Cardinality(Asking)
  BY LentIsFinite, ShrinkCounts DEF RoomInv
<1>2. IsFiniteSet(Lent')
  BY LentIsFinite, FS_Subset
<1>3. /\ Cardinality(Lent) \in Nat /\ Cardinality(Asking) \in Nat
      /\ Cardinality(Lent') \in Nat /\ Cardinality(Asking') \in Nat
  BY <1>1, <1>2, LentIsFinite, FS_CardinalityType DEF RoomInv
<1>4. careful => Cardinality(Lent') + Cardinality(Asking') <= UV_ASYNC_HANDE - 2
  BY <1>1, <1>3, PoolAssumption DEF RoomInv
<1> QED BY <1>1, <1>4 DEF RoomInv

\* A careful user who makes a request that may come at any time has counted
\* those that are there.
LEMMA LeavesRoom ==
  ASSUME RoomInv, PoolInv(Work), LeavesSpare, careful
  PROVE  Cardinality(Lent) + Cardinality(Asking) < UV_ASYNC_HANDE - 2
<1> DEFINE InUse == {h \in m_mapAsync : slot[h] \in {"Other", "E_TCP_READ_START", Nothing}}
<1>1. Lent \subseteq InUse /\ InUse \subseteq Handle
  BY PlainWork DEF Lent, PoolInv, IdleHandlesEmpty, PoolTypeOK
<1>2. IsFiniteSet(InUse)
  BY <1>1, LentIsFinite, FS_Subset
<1>3. Cardinality(Lent) + Cardinality(Asking) <= Cardinality(InUse) + Cardinality(Asking)
  BY <1>1, <1>2, ShrinkCounts DEF RoomInv
<1>4. Cardinality(InUse) + Cardinality(Asking) < UV_ASYNC_HANDE - 2
  BY DEF LeavesSpare, Light, Asking
<1>5. /\ Cardinality(Lent) \in Nat /\ Cardinality(Asking) \in Nat
      /\ Cardinality(InUse) \in Nat
  BY <1>2, LentIsFinite, FS_CardinalityType DEF RoomInv
<1> HIDE DEF InUse
<1> QED BY <1>3, <1>4, <1>5, PoolAssumption

\* AddReq, by a caller, another user or the callback of uv_close.
LEMMA SubmitRoomInv ==
  ASSUME RoomInv, PoolInv(Work), SendTypes, NEW w \in Work, Submit(w),
         careful' = careful, lpc' = lpc \/ lpc' = "idle",
         \/ \E c \in Caller : pc[c] = w /\ pc' = [pc EXCEPT ![c] = Nothing]
         \/ w = "Other" /\ LeavesSpare /\ UNCHANGED pc
         \/ w \in Change /\ UNCHANGED pc
  PROVE  RoomInv'
<1>0. /\ slot \in [Handle -> Work \cup {Nothing}] /\ pc \in [Caller -> Work \cup {Nothing}]
      /\ \A h \in Range(sent) : h \in Handle
      /\ Nothing \notin Work
  BY LenProperties, WorkDistinct DEF SendTypes, PoolInv, PoolTypeOK, Range
<1>1. PICK h \in Handle : /\ slot[h] = Nothing /\ slot' = [slot EXCEPT ![h] = w]
                         /\ Range(sent') = Range(sent) \cup {h} /\ cur' = cur
  BY SubmitSent
<1>2. /\ \A g \in Range(sent') : slot'[g] # Nothing
      /\ lpc' # "idle" => cur' = NoHandle
  BY <1>0, <1>1 DEF RoomInv
<1>3. h \notin Lent /\ \A c \in Caller : pc'[c] # "Other"
  BY <1>0, <1>1, PlainWork DEF Lent, RoomInv
<1>4. Lent' = IF w \in {"Other", "E_TCP_READ_START"} THEN Lent \cup {h} ELSE Lent
  BY <1>0, <1>1, <1>3 DEF Lent
<1>5. CASE \E c \in Caller : pc[c] = w /\ pc' = [pc EXCEPT ![c] = Nothing]
  <2>1. PICK c \in Caller : pc[c] = w /\ pc' = [pc EXCEPT ![c] = Nothing]
    BY <1>5
  <2>2. careful => w \notin Buffers /\ \A d \in Caller : pc'[d] \notin Buffers
    BY <1>0, <2>1, PlainWork DEF RoomInv
  <2>3. careful => \A g \in Handle : slot'[g] \notin Buffers
    BY <1>0, <1>1, <2>2 DEF RoomInv
  <2>4. CASE w = "E_TCP_READ_START"
    <3>1. Asking' = Asking \ {c} /\ c \in Asking
      BY <1>0, <2>1, <2>4, PlainWork DEF Asking
    <3>2. Lent' = Lent \cup {h}
      BY <1>4, <2>4
    <3>3. Cardinality(Lent \cup {h}) + Cardinality(Asking \ {c}) = Cardinality(Lent) + Cardinality(Asking)
      BY <1>3, <3>1, LentIsFinite, MoveCounts DEF RoomInv
    <3>4. Cardinality(Lent') + Cardinality(Asking') = Cardinality(Lent) + Cardinality(Asking)
      BY <3>1, <3>2, <3>3, Zenon
    <3>5. IsFiniteSet(Asking')
      BY <3>1, FS_RemoveElement DEF RoomInv
    <3> QED BY <1>2, <1>3, <2>2, <2>3, <3>4, <3>5 DEF RoomInv
  <2>5. CASE w # "E_TCP_READ_START" /\ w # "Other"
    <3>1. Lent' \subseteq Lent /\ Asking' \subseteq Asking
      BY <1>0, <1>4, <2>1, <2>5, PlainWork DEF Asking
    <3> QED BY <1>2, <1>3, <2>2, <2>3, <3>1, NoneLent
  <2>6. w # "Other"
    BY <2>1 DEF RoomInv
  <2> QED BY <2>4, <2>5, <2>6
<1>6. CASE w = "Other" /\ LeavesSpare /\ UNCHANGED pc
  <2>1. Asking' = Asking /\ Lent' = Lent \cup {h}
    BY <1>4, <1>6 DEF Asking
  <2>2. ASSUME careful
        PROVE  Cardinality(Lent \cup {h}) + Cardinality(Asking) <= UV_ASYNC_HANDE - 2
    <3>1. Cardinality(Lent) + Cardinality(Asking) < UV_ASYNC_HANDE - 2
      BY <1>6, <2>2, LeavesRoom
    <3>2. UV_ASYNC_HANDE - 2 \in Int
      BY PoolAssumption
    <3> QED BY <3>1, <3>2, LentIsFinite, GrowCounts DEF RoomInv
  <2>3. careful => Cardinality(Lent') + Cardinality(Asking') <= UV_ASYNC_HANDE - 2
    BY <2>1, <2>2
  <2>4. careful => \A g \in Handle : slot'[g] \notin Buffers
    BY <1>0, <1>1, <1>6, PlainWork DEF RoomInv
  <2>5. IsFiniteSet(Asking')
    BY <2>1 DEF RoomInv
  <2> QED BY <1>2, <1>3, <1>6, <2>3, <2>4, <2>5 DEF RoomInv
<1>7. CASE w \in Change /\ UNCHANGED pc
  <2>1. Lent' \subseteq Lent /\ Asking' \subseteq Asking
    BY <1>4, <1>7, PlainWork DEF Asking
  <2>2. careful => \A g \in Handle : slot'[g] \notin Buffers
    BY <1>0, <1>1, <1>7, PlainWork DEF RoomInv
  <2>3. careful => \A c \in Caller : pc'[c] \notin Buffers
    BY <1>7 DEF RoomInv
  <2> QED BY <1>2, <1>3, <2>1, <2>2, <2>3, NoneLent
<1> QED BY <1>5, <1>6, <1>7

LEMMA NextRoomInv ==
  ASSUME "write" \notin CarefulOps, RoomInv, ConnInv, PoolInv(Work), SendTypes, [Next]_vars
  PROVE  RoomInv'
<1>0. /\ slot \in [Handle -> Work \cup {Nothing}] /\ pc \in [Caller -> Work \cup {Nothing}]
      /\ cur \in Handle \cup {NoHandle} /\ cur \notin Range(sent)
  BY DEF SendTypes, PoolInv, PoolTypeOK, CallbackFindsHandle
<1>1. careful' = careful
  BY CarefulIsConstant
<1>2. ASSUME UNCHANGED <<slot, pc>>, Range(sent') \subseteq Range(sent),
             lpc' # "idle" => cur' = NoHandle
      PROVE  RoomInv'
  <2>1. Lent' = Lent /\ Asking' = Asking
    BY <1>2 DEF Lent, Asking
  <2> QED BY <1>1, <1>2, <2>1, NoneLent DEF RoomInv
<1>3. ASSUME NEW c \in Caller,
             \/ ConnectToServer(c) \/ CloseConnection(c) \/ Reconnnect(c)
             \/ StopReadData(c) \/ WirteData(c)
      PROVE  RoomInv'
  <2>1. UNCHANGED <<slot, sent, cur, lpc>>
    BY <1>3 DEF ConnectToServer, CloseConnection, Reconnnect, StopReadData, WirteData,
                Call, poolVars
  <2>2. PICK w \in Change \cup Buffers : pc' = [pc EXCEPT ![c] = w] /\ (w \in Buffers => ~careful)
    <3>1. CASE WirteData(c)
      <4>1. ~careful
        BY <3>1 DEF WirteData, MayCall
      <4> QED BY <3>1, <4>1 DEF WirteData
    <3>2. CASE ConnectToServer(c) \/ CloseConnection(c) \/ Reconnnect(c) \/ StopReadData(c)
      <4>1. \E w \in Change : pc' = [pc EXCEPT ![c] = w]
        BY <3>2, ChangeWork DEF ConnectToServer, CloseConnection, Reconnnect, StopReadData, Call
      <4> QED BY <4>1, PlainWork
    <3> QED BY <1>3, <3>1, <3>2
  <2>3. Lent' \subseteq Lent /\ Asking' \subseteq Asking
    BY <1>0, <2>1, <2>2, PlainWork DEF Lent, Asking
  <2>4. /\ \A d \in Caller : pc'[d] # "Other"
        /\ careful => \A d \in Caller : pc'[d] \notin Buffers
    BY <1>0, <2>2, PlainWork DEF RoomInv
  <2> QED BY <1>1, <2>1, <2>3, <2>4, NoneLent DEF RoomInv
<1>4. ASSUME NEW c \in Caller, StartReadData(c)
      PROVE  RoomInv'
  <2>1. /\ UNCHANGED <<slot, sent, cur, lpc>> /\ LeavesSpare
        /\ pc' = [pc EXCEPT ![c] = "E_TCP_READ_START"]
    BY <1>4 DEF StartReadData, Call, poolVars
  <2>2. Lent' = Lent /\ Asking' = Asking \cup {c}
    BY <1>0, <2>1 DEF Lent, Asking
  <2>3. ASSUME careful
        PROVE  Cardinality(Asking \cup {c}) + Cardinality(Lent) <= UV_ASYNC_HANDE - 2
    <3>1. Cardinality(Lent) + Cardinality(Asking) < UV_ASYNC_HANDE - 2
      BY <2>1, <2>3, LeavesRoom
    <3>2. /\ Cardinality(Lent) \in Nat /\ Cardinality(Asking) \in Nat
          /\ UV_ASYNC_HANDE - 2 \in Int
      BY LentIsFinite, FS_CardinalityType, PoolAssumption DEF RoomInv
    <3>3. Cardinality(Asking) + Cardinality(Lent) < UV_ASYNC_HANDE - 2
      BY <3>1, <3>2
    <3> QED BY <3>2, <3>3, LentIsFinite, GrowCounts DEF RoomInv
  <2>4. IsFiniteSet(Asking \cup {c})
    BY FS_AddElement DEF RoomInv
  <2>5. /\ Cardinality(Lent) \in Nat /\ Cardinality(Asking \cup {c}) \in Nat
    BY <2>4, LentIsFinite, FS_CardinalityType
  <2>6. careful => Cardinality(Lent) + Cardinality(Asking \cup {c}) <= UV_ASYNC_HANDE - 2
    BY <2>3, <2>5
  <2>7. /\ \A d \in Caller : pc'[d] # "Other"
        /\ careful => \A d \in Caller : pc'[d] \notin Buffers
    BY <1>0, <2>1, PlainWork DEF RoomInv
  <2>8. /\ IsFiniteSet(Asking')
        /\ careful => Cardinality(Lent') + Cardinality(Asking') <= UV_ASYNC_HANDE - 2
    BY <2>2, <2>4, <2>6, Zenon
  <2> QED BY <1>1, <2>1, <2>7, <2>8 DEF RoomInv
<1>5. ASSUME NEW c \in Caller, AddReq(c)
      PROVE  RoomInv'
  <2>1. pc[c] \in Work /\ pc' = [pc EXCEPT ![c] = Nothing] /\ UNCHANGED lpc
    BY <1>0, <1>5 DEF AddReq
  <2>2. CASE Submit(pc[c])
    BY <1>1, <2>1, <2>2, SubmitRoomInv
  <2>3. CASE UNCHANGED poolVars
    <3>1. /\ Lent' \subseteq Lent /\ Asking' \subseteq Asking
          /\ \A d \in Caller : pc'[d] # "Other"
          /\ careful => \A d \in Caller : pc'[d] \notin Buffers
      BY <1>0, <2>1, <2>3, PlainWork DEF Lent, Asking, poolVars, RoomInv
    <3> QED BY <1>1, <2>1, <2>3, <3>1, NoneLent DEF RoomInv, poolVars
  <2> QED BY <1>5, <2>2, <2>3 DEF AddReq
<1>6. CASE OtherRequest
  <2>1. "Other" \in Work /\ Submit("Other") /\ LeavesSpare /\ UNCHANGED <<pc, lpc>>
    BY <1>6, PlainWork DEF OtherRequest
  <2> QED BY <1>1, <2>1, SubmitRoomInv
<1>7. CASE Reconnect
  <2>1. /\ "E_TCP_CONNECT" \in Change /\ UNCHANGED pc /\ lpc' = "idle"
        /\ Submit("E_TCP_CONNECT") \/ UNCHANGED poolVars
    BY <1>7, ChangeWork DEF Reconnect, unchangedByLoop
  <2>2. "E_TCP_CONNECT" \in Work
    BY <2>1, PlainWork
  <2>3. CASE Submit("E_TCP_CONNECT")
    BY <1>1, <2>1, <2>2, <2>3, SubmitRoomInv
  <2> QED BY <1>2, <2>1, <2>3 DEF poolVars
<1>8. CASE FireHandle
  <2>1. Fire /\ lpc = "idle" /\ UNCHANGED <<pc, lpc>>
    BY <1>8 DEF FireHandle, unchangedByLoop
  <2> QED BY <1>2, <2>1, FireInv
<1>9. CASE Connect \/ CloseConnect \/ ReadStart \/ ReadStop \/ TcpWrite \/ RunOther
  <2>0. ClearTcb /\ cur # NoHandle
    <3>1. CASE Connect
      BY <3>1 DEF Connect, Running
    <3>2. CASE CloseConnect
      BY <3>2, Zenon DEF CloseConnect, Running
    <3>3. CASE ReadStart \/ ReadStop \/ RunOther
      BY <3>3 DEF ReadStart, ReadStop, RunOther, Running
    <3>4. CASE TcpWrite
      BY <3>4 DEF TcpWrite
    <3> QED BY <1>9, <3>1, <3>2, <3>3, <3>4
  <2>1. /\ UNCHANGED <<pc, lpc, sent, cur>> /\ cur # NoHandle
        /\ slot' = [slot EXCEPT ![cur] = Nothing]
    <3>1. UNCHANGED <<pc, lpc>>
      <4>1. CASE CloseConnect
        BY <4>1, Zenon DEF CloseConnect, unchangedByLoop
      <4>2. CASE Connect \/ ReadStart \/ ReadStop \/ TcpWrite \/ RunOther
        BY <4>2 DEF Connect, ReadStart, ReadStop, TcpWrite, RunOther, unchangedByLoop
      <4> QED BY <1>9, <4>1, <4>2
    <3> QED BY <2>0, <3>1 DEF ClearTcb
  <2>2. /\ Lent' \subseteq Lent /\ Asking' \subseteq Asking
        /\ careful => \A h \in Handle : slot'[h] \notin Buffers
    BY <1>0, <2>1, PlainWork DEF Lent, Asking, RoomInv
  <2>3. \A h \in Range(sent') : slot'[h] # Nothing
    <3>1. \A h \in Range(sent) : h \in Handle /\ h # cur
      BY <1>0, LenProperties DEF PoolInv, PoolTypeOK, Range
    <3> QED BY <1>0, <2>1, <3>1 DEF RoomInv
  <2> QED BY <1>1, <2>1, <2>2, <2>3, NoneLent DEF RoomInv
<1>10. CASE ReturnHandle \/ HandlerReturns \/ WriteCallback \/ UNCHANGED vars
  <2>1. /\ UNCHANGED <<slot, pc, sent>>
        /\ lpc' # "idle" => cur' = NoHandle
    BY <1>10 DEF ReturnHandle, Recycle, HandlerReturns, WriteCallback, Between, poolVars,
                 unchangedByLoop, vars, RoomInv
  <2> QED BY <1>2, <2>1
<1>11. ASSUME NEW b \in Block, NEW ok \in BOOLEAN,
              ConnectCallback(b, ok) \/ ReadCallback(b, ok) \/ CloseCallback(b)
       PROVE  RoomInv'
  <2>1. UNCHANGED <<slot, pc, sent, cur>> /\ cur = NoHandle
    BY <1>11 DEF ConnectCallback, ReadCallback, CloseCallback, Between, poolVars, unchangedByLoop
  <2> QED BY <1>2, <2>1
<1>12. TRUE \in BOOLEAN
  OBVIOUS
<1> QED
  BY <1>3, <1>4, <1>5, <1>6, <1>7, <1>8, <1>9, <1>10, <1>11, <1>12 DEF Next, Requests

\* The ConnectToServer inside the callback of uv_close (connect.cpp:104), whose
\* flag is cleared whether it is refused or not, always finds a free handle.
ReconnectHasHandle == careful /\ lpc = "reconnect" => ~Busy

\* For users who change the connection one step at a time and leave the changes
\* two handles, a reconnect is never refused.
THEOREM ReconnectFindsHandle ==
  ASSUME "write" \notin CarefulOps, UV_ASYNC_HANDE >= 2
  PROVE  Spec => []ReconnectHasHandle
<1> DEFINE Inv == PoolInv(Work) /\ SendInv /\ ConnInv /\ OnlyDoubleFree
<1>1. Init => RoomInv
  BY InitRoomInv
<1>2. Inv /\ RoomInv /\ [Next]_vars => RoomInv'
  BY NextRoomInv DEF SendInv
<1>3. Inv /\ RoomInv => ReconnectHasHandle
  <2> SUFFICES ASSUME Inv, RoomInv, careful, lpc = "reconnect", Busy
               PROVE  FALSE
    BY DEF ReconnectHasHandle
  <2>1. m_mapAsync = Handle /\ m_mapAsync = Range(sent)
    BY BusyIsFull DEF PoolInv, CallbackFindsHandle, RoomInv
  <2>2. \A h \in Handle : slot[h] \in Work /\ slot[h] \notin Change /\ slot[h] \notin Buffers
    BY <2>1 DEF PoolInv, PoolTypeOK, RoomInv, ConnInv, OneChange, NoneRequested, Requested
  <2>3. Lent = Handle
    BY <2>2, PlainWork DEF Lent
  <2>4. Cardinality(Lent) = UV_ASYNC_HANDE
    BY <2>3, PoolAssumption, FS_Interval DEF Handle
  <2>5. Cardinality(Asking) \in Nat
    BY FS_CardinalityType DEF RoomInv
  <2> QED BY <2>4, <2>5, PoolAssumption DEF RoomInv
<1> QED BY <1>1, <1>2, <1>3, Invariance, PTL DEF Spec

\* No handle of the pool is lost or duplicated by the requests of connections,
\* and the callback always finds its handle (loop.cpp:45-49).
THEOREM PoolIsSound == Spec => [](HandlesConserved /\ CallbackFindsHandle)
<1>1. PoolInv(Work) => HandlesConserved /\ CallbackFindsHandle
  BY DEF PoolInv
<1> QED BY <1>1, Invariance, PTL
=============================================================================
