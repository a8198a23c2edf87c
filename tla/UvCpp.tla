------------------------------- MODULE UvCpp -------------------------------
(***************************************************************************)
(* uv::uvcpp (uvcppclient/uvcpp.h, uvcpp.cpp): a client with one           *)
(* connection.  User threads call send, close and stop; each puts an event *)
(* into the map _works, unless its key is taken, and wakes the loop thread *)
(* through a single async handle.  The callback of the handle takes the    *)
(* whole map and handles its events in the order of their keys.            *)
(*                                                                         *)
(* The names are those of the code without the leading underscore.  The    *)
(* model begins when connect and run have been called, as the test program *)
(* does.  A byte is the number of the send it came with.  The sends are    *)
(* taken to fit into the buffer, whose growth is in SendBuffer.            *)
(***************************************************************************)
EXTENDS Integers, Sequences, FiniteSets, Functions, FiniteSetsExt, SequencesExt

CONSTANTS
  Users,     \* user threads
  MaxSends,  \* bound on the calls of send
  MaxCalls   \* bound on the calls of close, stop and setAutoReconnect

ASSUME CppAssumption == MaxSends \in Nat /\ MaxCalls \in Nat

Event  == {"EV_SEND", "EV_CLOSE_CONN", "EV_STOP_LOOP"}
HIGH   == 0
MEDIUM == 1

VARIABLES
  works,         \* the map from keys to events
  batch,         \* what the callback has swapped out of it, yet to be handled
  pending,       \* has the async handle been woken?
  async,         \* what libuv knows of the async handle
  statusNormal,
  autoReconnect,
  tcpHandle,     \* is _tcpHandle other than null?
  tcp,           \* what libuv knows of _tcp
  ownData,       \* has _tcp->data been set?
  misused,       \* what has been used that was not there
  sendBuf,       \* the bytes not yet written
  wire,          \* the bytes written, over all connections
  loop,          \* uv_run
  pc,            \* where each user is: the event and the step of its call
  sends, calls

connVars == <<statusNormal, tcpHandle, tcp, ownData, misused>>
workVars == <<works, batch, pending, async>>
dataVars == <<sendBuf, wire>>
userVars == <<pc, sends, calls>>
vars == <<workVars, connVars, dataVars, userVars, autoReconnect, loop>>

EmptyMap == [k \in {} |-> "EV_SEND"]
Maps     == UNION {[K -> Event] : K \in SUBSET (0 .. MaxSends + MaxCalls)}
Idle     == <<"idle", "none">>

TypeOK ==
  /\ works \in Maps /\ batch \in Maps
  /\ pending \in BOOLEAN /\ async \in {"active", "closing", "closed"}
  /\ statusNormal \in BOOLEAN /\ autoReconnect \in BOOLEAN /\ tcpHandle \in BOOLEAN
  /\ tcp \in {"connecting", "inert", "open", "failed", "closing", "closed"}
  /\ ownData \in BOOLEAN
  /\ misused \subseteq {"null", "double close", "async gone", "no data"}
  /\ sendBuf \in Seq(1 .. MaxSends) /\ wire \in Seq(1 .. MaxSends)
  /\ loop \in {"running", "stopping", "ended"}
  /\ pc \in [Users -> {Idle} \cup {"insert", "notify"} \X Event]
  /\ sends \in 0 .. MaxSends /\ calls \in 0 .. MaxCalls

\* connect has begun a connection, or failed to, and run has started the loop.
Init ==
  /\ works = EmptyMap /\ batch = EmptyMap
  /\ pending = FALSE /\ async = "active"
  /\ statusNormal = FALSE /\ autoReconnect = TRUE /\ tcpHandle = FALSE
  /\ tcp \in {"connecting", "inert"} /\ ownData = FALSE /\ misused = {}
  /\ sendBuf = <<>> /\ wire = <<>>
  /\ loop = "running"
  /\ pc = [u \in Users |-> Idle] /\ sends = 0 /\ calls = 0

-----------------------------------------------------------------------------
(* The users.                                                              *)

\* send, under _sendBufLock.
Send(u) ==
  /\ pc[u] = Idle /\ sends < MaxSends
  /\ sends' = sends + 1
  /\ sendBuf' = Append(sendBuf, sends + 1)
  /\ pc' = [pc EXCEPT ![u] = <<"insert", "EV_SEND">>]
  /\ UNCHANGED <<workVars, connVars, wire, calls, autoReconnect, loop>>

CloseOrStop(u, ev) ==
  /\ ev \in {"EV_CLOSE_CONN", "EV_STOP_LOOP"}
  /\ pc[u] = Idle /\ calls < MaxCalls
  /\ calls' = calls + 1
  /\ pc' = [pc EXCEPT ![u] = <<"insert", ev>>]
  /\ UNCHANGED <<workVars, connVars, dataVars, sends, autoReconnect, loop>>

SetAutoReconnect(u) ==
  /\ pc[u] = Idle /\ calls < MaxCalls
  /\ calls' = calls + 1
  /\ autoReconnect' = ~autoReconnect
  /\ UNCHANGED <<workVars, connVars, dataVars, pc, sends, loop>>

Key(ev) ==
  CASE ev = "EV_STOP_LOOP"  -> HIGH
    [] ev = "EV_CLOSE_CONN" -> MEDIUM
    [] ev = "EV_SEND"       -> Cardinality(DOMAIN works)

\* Under _workLock.  insert does nothing when the key is there already.
Insert(u) ==
  /\ pc[u][1] = "insert"
  /\ LET ev == pc[u][2] IN
       /\ works' = [k \in DOMAIN works \cup {Key(ev)} |->
                      IF k \in DOMAIN works THEN works[k] ELSE ev]
       /\ pc' = [pc EXCEPT ![u] = <<"notify", ev>>]
  /\ UNCHANGED <<batch, pending, async, connVars, dataVars, sends, calls,
                 autoReconnect, loop>>

\* uv_async_send; the async handle is deleted after stop.
Notify(u) ==
  /\ pc[u][1] = "notify"
  /\ pending' = TRUE
  /\ misused' = misused \cup (IF async = "closed" THEN {"async gone"} ELSE {})
  /\ pc' = [pc EXCEPT ![u] = Idle]
  /\ UNCHANGED <<works, batch, async, statusNormal, tcpHandle, tcp, ownData, dataVars,
                 sends, calls, autoReconnect, loop>>

-----------------------------------------------------------------------------
(* The loop thread: the callback of the async handle.                      *)

Between == batch = EmptyMap /\ loop # "ended"

\* Faulty variant: the callback takes the first event only.
AsyncCallbackTakesOne ==
  /\ Between /\ pending /\ async = "active"
  /\ pending' = FALSE
  /\ LET first == {k \in DOMAIN works : \A j \in DOMAIN works : k <= j} IN
       /\ batch' = Restrict(works, first)
       /\ works' = Restrict(works, DOMAIN works \ first)
  /\ UNCHANGED <<async, connVars, dataVars, userVars, autoReconnect, loop>>

\* libuv clears the wake-up and then the callback swaps the maps.
AsyncCallback ==
  /\ Between /\ pending /\ async = "active"
  /\ pending' = FALSE
  /\ batch' = works
  /\ works' = EmptyMap
  /\ UNCHANGED <<async, connVars, dataVars, userVars, autoReconnect, loop>>

Next1(ev) == batch # EmptyMap /\ batch[Min(DOMAIN batch)] = ev
Rest      == Restrict(batch, DOMAIN batch \ {Min(DOMAIN batch)})

\* Faulty variant: the callback returns after a write.
WriteReturns ==
  /\ Next1("EV_SEND")
  /\ batch' = EmptyMap
  /\ UNCHANGED <<works, pending, async, connVars, dataVars, userVars,
                 autoReconnect, loop>>

\* Faulty variant: a partial write clears the buffer.
WriteForgetsRest ==
  /\ Next1("EV_SEND")
  /\ batch' = Rest
  /\ \E n \in 1 .. Len(sendBuf) :
       /\ wire' = wire \o SubSeq(sendBuf, 1, n)
       /\ sendBuf' = <<>>
  /\ UNCHANGED <<works, pending, async, connVars, userVars, autoReconnect, loop>>

\* write: uv_try_write takes any part of the buffer, none if the connection
\* is not open; what is left waits for the next EV_SEND.
Write ==
  /\ Next1("EV_SEND")
  /\ batch' = Rest
  /\ \E n \in 0 .. Len(sendBuf) :
       /\ n > 0 => tcpHandle /\ tcp = "open"
       /\ wire' = wire \o SubSeq(sendBuf, 1, n)
       /\ sendBuf' = SubSeq(sendBuf, n + 1, Len(sendBuf))
  /\ misused' = misused \cup (IF sendBuf # <<>> /\ ~tcpHandle THEN {"null"} ELSE {})
  /\ UNCHANGED <<works, pending, async, statusNormal, tcpHandle, tcp, ownData,
                 userVars, autoReconnect, loop>>

\* Faulty variant: inner_close without its test of the status.
InnerCloseAlways ==
  /\ statusNormal' = FALSE
  /\ tcp' = "closing"
  /\ misused' = misused \cup (IF tcp \in {"closing", "closed"} THEN {"double close"} ELSE {})
  /\ ownData' = TRUE
  /\ UNCHANGED tcpHandle

\* inner_close does nothing unless the status is normal.
InnerClose ==
  IF statusNormal
  THEN /\ statusNormal' = FALSE
       /\ tcp' = "closing"
       /\ misused' = misused \cup (IF ~tcpHandle THEN {"null"} ELSE {})
                     \cup (IF tcp \in {"closing", "closed"} THEN {"double close"} ELSE {})
       /\ ownData' = TRUE
       /\ UNCHANGED tcpHandle
  ELSE UNCHANGED connVars

HandleClose ==
  /\ Next1("EV_CLOSE_CONN")
  /\ batch' = EmptyMap
  /\ InnerClose
  /\ UNCHANGED <<works, pending, async, dataVars, userVars, autoReconnect, loop>>

\* inner_stop: inner_close, async_deinit, uv_stop.
HandleStop ==
  /\ Next1("EV_STOP_LOOP")
  /\ batch' = EmptyMap
  /\ InnerClose
  /\ async' = "closing"
  /\ loop' = "stopping"
  /\ UNCHANGED <<works, pending, dataVars, userVars, autoReconnect>>

\* The close callback of the async handle deletes it.
AsyncClosed ==
  /\ Between /\ async = "closing"
  /\ async' = "closed"
  /\ UNCHANGED <<works, batch, pending, connVars, dataVars, userVars,
                 autoReconnect, loop>>

-----------------------------------------------------------------------------
(* The loop thread: the callbacks of the connection.                       *)

\* After a failure inner_close has no effect, for the status is not normal.
ConnectCallback(success) ==
  /\ Between /\ tcp = "connecting"
  /\ tcpHandle' = TRUE
  /\ tcp' = IF success THEN "open" ELSE "failed"
  /\ statusNormal' = success
  /\ UNCHANGED <<workVars, ownData, misused, dataVars, userVars, autoReconnect, loop>>

\* The callback finds the client through _tcp->data, which is set only when
\* a connection is closed: on the first one any call of it, for data or for
\* the end of the stream, reads a pointer that was never written.
ReadData ==
  /\ Between /\ tcp = "open"
  /\ misused' = misused \cup (IF ownData THEN {} ELSE {"no data"})
  /\ UNCHANGED <<workVars, statusNormal, tcpHandle, tcp, ownData, dataVars,
                 userVars, autoReconnect, loop>>

\* The stream has ended or failed, on a later connection.
ReadFails ==
  /\ Between /\ tcp = "open" /\ ownData
  /\ InnerClose
  /\ UNCHANGED <<workVars, dataVars, userVars, autoReconnect, loop>>

\* Nobody ever sets _exStopLoop, so that a connection comes back after a stop
\* although uvcpp.cpp:265 says "re-connect unless user stop loop".
isLoopStop == FALSE

\* connect starts again on the same handle, now that it is closed.
CloseCallback ==
  /\ Between /\ tcp = "closing"
  /\ tcpHandle' = FALSE
  /\ tcp' \in IF autoReconnect /\ ~isLoopStop THEN {"connecting", "inert"}
             ELSE {"closed"}
  /\ UNCHANGED <<workVars, statusNormal, ownData, misused, dataVars, userVars,
                 autoReconnect, loop>>

\* uv_run leaves at the end of the turn in which uv_stop was called.
UvRunReturns ==
  /\ Between /\ loop = "stopping"
  /\ loop' = "ended"
  /\ UNCHANGED <<workVars, connVars, dataVars, userVars, autoReconnect>>

-----------------------------------------------------------------------------
HandleEvent == Write \/ HandleClose \/ HandleStop

Next ==
  \/ \E u \in Users :
       \/ Send(u) \/ Insert(u) \/ Notify(u) \/ SetAutoReconnect(u)
       \/ \E ev \in Event : CloseOrStop(u, ev)
  \/ AsyncCallback \/ HandleEvent \/ AsyncClosed
  \/ \E ok \in BOOLEAN : ConnectCallback(ok)
  \/ ReadData \/ ReadFails \/ CloseCallback \/ UvRunReturns

Spec == Init /\ [][Next]_vars

\* A call that has begun goes on, and so does the callback of the async
\* handle; libuv calls it back when it is due, however often connections
\* come and go, and leaves the loop when it has been stopped.
Fairness ==
  /\ \A u \in Users : WF_vars(Insert(u)) /\ WF_vars(Notify(u))
  /\ WF_vars(HandleEvent) /\ SF_vars(AsyncCallback) /\ SF_vars(UvRunReturns)

FairSpec == Spec /\ Fairness

-----------------------------------------------------------------------------
\* The buffer is filled by users and emptied in parts on the loop thread,
\* over several connections (uvcpp.cpp:154-183): every byte sent has been
\* written or is still in the buffer, once and in the order of the sends.
BytesInOrder == wire \o sendBuf = [i \in 1 .. sends |-> i]

\* What the users see is the abstract stream: bytes leave on an open connection
\* only, in order, and none leaves once a stop is being carried out, although
\* the connection that it closes may be opened again (uvcpp.cpp:133-183, 266).
Link ==
  IF loop # "running" THEN "stopped" ELSE IF tcp = "open" THEN "up" ELSE "down"

Stream == INSTANCE ByteStream WITH accepted <- sends, link <- Link

ImplementsStream == Stream!Spec

\* Many wake-ups may become one, but none is lost: as long as an event is in
\* the map the callback will run again (uvcpp.cpp:99-117, 128-132, 185-191).
WakeupPending ==
  works # EmptyMap => pending \/ \E u \in Users : pc[u][1] = "notify"

\* The status that lets inner_close go ahead is normal only while _tcpHandle
\* is an open connection (uvcpp.cpp:37-44, 251-264), so that a user's close,
\* a stop and a failing read never close it twice.
StatusIsOpen ==
  /\ statusNormal => tcpHandle /\ tcp = "open"
  /\ "double close" \notin misused

\* A close or a stop that got into the map takes effect, whatever else is in
\* the map with it: the connection goes down, or uv_run ends (uvcpp.cpp:114,
\* 133-149).  A stop may not get there: an EV_SEND that waits can have the key
\* HIGH, which is 0, and insert keeps it (uvcpp.cpp:103, 185).
EventsTakeEffect ==
  /\ (\E k \in DOMAIN works : works[k] = "EV_CLOSE_CONN")
       ~> ~statusNormal \/ loop # "running"
  /\ (\E k \in DOMAIN works : works[k] = "EV_STOP_LOOP") ~> loop # "running"
=============================================================================
