------------------------------- MODULE NetLib -------------------------------
(***************************************************************************)
(* netlibuv (util/netlib.h): one connection on one loop.  Any thread may   *)
(* call net_AsyncSend, which copies the data into one of a few senders and *)
(* wakes the loop thread; there async_cb passes the data to net_Send.  All *)
(* else is called before net_Run or by the user's callbacks, on the loop   *)
(* thread.                                                                 *)
(*                                                                         *)
(* One block of memory, m_psocktcp, serves for every connection, and       *)
(* m_btcpClosed says whether it may be initialised again.  What libuv must *)
(* not be asked, and the assertions that fail, are recorded in faults; the *)
(* model goes on as a build without assertions does.  A message stands for *)
(* the data of one call.                                                   *)
(***************************************************************************)
EXTENDS Integers, Sequences, FiniteSets, SequencesExt

CONSTANTS
  ASYNC_HANDLE_NUM,  \* number of senders (5 in the code)
  MaxSends,          \* bound on the calls of net_AsyncSend and net_Send
  MaxCalls,          \* bound on the calls that begin a connect or a close
  MaxCareless        \* the same, for the user who keeps to no rules

ASSUME NetAssumption ==
  /\ ASYNC_HANDLE_NUM \in Nat \ {0} /\ MaxSends \in Nat /\ MaxCalls \in Nat
  /\ MaxCareless \in 0 .. MaxCalls

Sender  == 1 .. ASYNC_HANDLE_NUM
Message == 1 .. MaxSends
Sendst  == 1 .. MaxSends
Timers  == {"m_timer", "m_tcpReconnectTimer"}

VARIABLES
  m_dAsyncSend,    \* deque of the free senders
  m_mapAsyncSend,  \* keys of the map of the senders in use
  asyncBuffer,     \* the message in each sender, 0 before the first
  woken,           \* senders with a wake-up pending
  m_dSend,         \* deque of the Sendst objects to reuse
  m_mapSend,       \* keys of the map of the Sendst objects in use
  buffer,          \* the message in each Sendst, 0 before there is one
  writing,         \* what uv_write has been given and not completed
  m_ptcpHandle,    \* is it other than null?
  m_btcpClosed,
  tcp,             \* what libuv knows of m_psocktcp
  timer,           \* the timers that are armed, for once or for good
  callback,        \* is the loop thread in one of the user's callbacks?
  running,         \* has net_Run been called?
  faults,
  careful,         \* does the user keep to the rules below?
  sends, calls

asyncVars == <<m_dAsyncSend, m_mapAsyncSend, asyncBuffer, woken>>
sendVars  == <<m_dSend, m_mapSend, buffer, writing>>
connVars  == <<m_ptcpHandle, m_btcpClosed, tcp>>
userVars  == <<timer, callback, running, careful>>
vars == <<asyncVars, sendVars, connVars, userVars, faults, sends, calls>>

TypeOK ==
  /\ m_dAsyncSend \in Seq(Sender) /\ m_mapAsyncSend \subseteq Sender
  /\ asyncBuffer \in [Sender -> Message \cup {0}] /\ woken \subseteq Sender
  /\ m_dSend \in Seq(Sendst) /\ m_mapSend \subseteq Sendst
  /\ buffer \in [Sendst -> Message \cup {0}]
  /\ writing \in Seq([obj : Sendst, msg : Message])
  /\ m_ptcpHandle \in BOOLEAN /\ m_btcpClosed \in BOOLEAN
  /\ tcp \in {"inert", "connecting", "open", "eof", "failed", "cancelled",
              "closing", "closed"}
  /\ timer \subseteq Timers /\ callback \in BOOLEAN
  /\ running \in BOOLEAN /\ careful \in BOOLEAN
  /\ faults \subseteq {"null", "double close", "connect twice", "init in use",
                       "init failed", "refused write"}
  /\ sends \in 0 .. MaxSends /\ calls \in 0 .. MaxCalls

\* The loop of the constructor that fills m_dAsyncSend.
AllSenders == [a \in Sender |-> a]

Init ==
  /\ m_dAsyncSend = AllSenders /\ m_mapAsyncSend = {}
  /\ asyncBuffer = [a \in Sender |-> 0] /\ woken = {}
  /\ m_dSend = <<>> /\ m_mapSend = {}
  /\ buffer = [s \in Sendst |-> 0] /\ writing = <<>>
  /\ m_ptcpHandle = FALSE /\ m_btcpClosed = FALSE /\ tcp = "inert"
  /\ timer = {} /\ callback = FALSE
  /\ running = FALSE /\ faults = {} /\ careful \in BOOLEAN
  /\ sends = 0 /\ calls = 0

Fault(kinds) == faults' = faults \cup kinds

-----------------------------------------------------------------------------
(* Sending from any thread.                                                *)

\* Faulty variant: the sender is free again as soon as it has been woken, not
\* when async_cb is done with it.
net_AsyncSendFreesAtOnce ==
  /\ sends < MaxSends
  /\ careful => m_ptcpHandle
  /\ m_dAsyncSend # <<>>
  /\ LET a == Head(m_dAsyncSend) IN
       /\ m_mapAsyncSend' = m_mapAsyncSend \cup {a}
       /\ asyncBuffer' = [asyncBuffer EXCEPT ![a] = sends + 1]
       /\ woken' = woken \cup {a}
       /\ m_dAsyncSend' = Append(Tail(m_dAsyncSend), a)
  /\ sends' = sends + 1
  /\ UNCHANGED <<sendVars, connVars, userVars, faults, calls>>

\* Under m_lockAsyncWriteBuffer; false when the deque is empty.
net_AsyncSend ==
  /\ sends < MaxSends
  /\ careful => m_ptcpHandle
  /\ m_dAsyncSend # <<>>
  /\ LET a == Head(m_dAsyncSend) IN
       /\ m_mapAsyncSend' = m_mapAsyncSend \cup {a}
       /\ asyncBuffer' = [asyncBuffer EXCEPT ![a] = sends + 1]
       /\ woken' = woken \cup {a}
  /\ m_dAsyncSend' = Tail(m_dAsyncSend)
  /\ sends' = sends + 1
  /\ UNCHANGED <<sendVars, connVars, userVars, faults, calls>>

\* Faulty variant: the object stays in the deque while it is in use.
net_SendKeepsFront(msg) ==
  LET new == IF m_dSend = <<>> THEN Cardinality(m_mapSend) + 1 ELSE Head(m_dSend) IN
    /\ m_mapSend' = m_mapSend \cup {new}
    /\ buffer' = [buffer EXCEPT ![new] = msg]
    /\ writing' = Append(writing, [obj |-> new, msg |-> msg])
    /\ UNCHANGED <<m_dSend, faults>>

\* A new Sendst object when none is left in the deque.  uv_write wants a
\* connection; m_ptcpHandle is null before the first.
net_Send(msg) ==
  LET new == IF m_dSend = <<>> THEN Cardinality(m_mapSend) + 1 ELSE Head(m_dSend) IN
    /\ m_dSend' = IF m_dSend = <<>> THEN <<>> ELSE Tail(m_dSend)
    /\ m_mapSend' = m_mapSend \cup {new}
    /\ buffer' = [buffer EXCEPT ![new] = msg]
    /\ \/ /\ tcp \in {"open", "eof"}
          /\ writing' = Append(writing, [obj |-> new, msg |-> msg])
          /\ UNCHANGED faults
       \/ /\ tcp \notin {"open", "eof"}
          /\ Fault(IF m_ptcpHandle THEN {"refused write"} ELSE {"null"})
          /\ UNCHANGED writing

LoopIdle == running /\ ~callback

\* Faulty variant: one wake-up clears them all.
async_cbForgets ==
  /\ LoopIdle
  /\ \E a \in woken :
       /\ woken' = {}
       /\ net_Send(asyncBuffer[a])
  /\ UNCHANGED <<m_dAsyncSend, m_mapAsyncSend, asyncBuffer, connVars, userVars,
                 sends, calls>>

\* async_cb, under m_lockAsyncWriteBuffer.  The sender stays in the map.
async_cb ==
  /\ LoopIdle
  /\ \E a \in woken :
       /\ woken' = woken \ {a}
       /\ a \in m_mapAsyncSend
       /\ net_Send(asyncBuffer[a])
  /\ UNCHANGED <<m_dAsyncSend, m_mapAsyncSend, asyncBuffer, connVars, userVars,
                 sends, calls>>

-----------------------------------------------------------------------------
(* What the user calls before net_Run, and in a callback.                  *)

InUserCode == ~running \/ callback

Call ==
  /\ InUserCode
  /\ calls < IF careful THEN MaxCalls ELSE MaxCareless
  /\ calls' = calls + 1
  /\ UNCHANGED <<asyncVars, sends, running, careful, callback>>

SendNow ==
  /\ InUserCode
  /\ sends < MaxSends
  /\ careful => tcp = "open"
  /\ sends' = sends + 1
  /\ net_Send(sends + 1)
  /\ UNCHANGED <<asyncVars, connVars, userVars, calls>>

net_Connect ==
  /\ Call
  /\ careful => tcp = "inert" /\ ~running
  /\ tcp' = "connecting"
  /\ Fault(IF tcp = "inert" THEN {} ELSE {"connect twice"})
  /\ UNCHANGED <<sendVars, m_ptcpHandle, m_btcpClosed, timer>>

net_Run ==
  /\ ~running
  /\ careful => tcp = "connecting"
  /\ running' = TRUE
  /\ UNCHANGED <<asyncVars, sendVars, connVars, timer, callback, careful, faults,
                 sends, calls>>

\* net_closeConnection.  libuv calls back a connect that is cut short first.
CloseTcp ==
  /\ tcp' = CASE tcp = "connecting"              -> "cancelled"
              [] tcp \in {"cancelled", "closed"} -> tcp
              [] OTHER                           -> "closing"
  /\ Fault((IF m_ptcpHandle THEN {} ELSE {"null"}) \cup
           (IF tcp \in {"cancelled", "closing", "closed"} THEN {"double close"} ELSE {}))

\* A close or a reconnect has begun and is not over: the user is not told
\* when a close is, and has to guess.
Changing == tcp \in {"connecting", "cancelled", "closing"}

net_closeConnection ==
  /\ Call
  /\ careful => m_ptcpHandle /\ ~Changing /\ tcp # "closed"
  /\ CloseTcp
  /\ UNCHANGED <<sendVars, m_ptcpHandle, m_btcpClosed, timer>>

\* Faulty variant: the test of m_btcpClosed is left out.
net_reConnectAlways ==
  /\ Call
  /\ careful => m_ptcpHandle /\ ~Changing
  /\ tcp' = "connecting"
  /\ Fault(CASE tcp = "closed" -> {}
             [] tcp \in {"inert", "failed"} -> {"init failed"}
             [] OTHER -> {"init in use"})
  /\ UNCHANGED <<sendVars, m_ptcpHandle, m_btcpClosed, timer>>

\* The first call closes; the next, once the close is over, initialises the
\* block again and connects, or does not get as far as that.
net_reConnect ==
  /\ Call
  /\ careful => m_ptcpHandle /\ ~Changing
  /\ \/ /\ ~m_btcpClosed
        /\ CloseTcp
     \/ /\ m_btcpClosed
        /\ tcp' \in {"connecting", "inert"}
        /\ Fault(CASE tcp = "closed"              -> {}
                   [] tcp \in {"inert", "failed"} -> {"init failed"}
                   [] OTHER                       -> {"init in use"})
  /\ UNCHANGED <<sendVars, m_ptcpHandle, m_btcpClosed, timer>>

\* net_StartTimer, net_StartTcpTimer, net_stopTimer (also by net_Stop, which
\* does nothing else) and net_stopTcpTimer.  Whether a timer repeats is left open.
SetTimer(armed) ==
  /\ InUserCode
  /\ timer' = armed
  /\ UNCHANGED <<asyncVars, sendVars, connVars, callback, running, careful, faults,
                 sends, calls>>

-----------------------------------------------------------------------------
(* The callbacks of libuv.                                                 *)

CallbackReturns ==
  /\ callback
  /\ callback' = FALSE
  /\ UNCHANGED <<asyncVars, sendVars, connVars, timer, running, careful, faults,
                 sends, calls>>

\* Faulty variant: a new connection leaves m_btcpClosed set.
connect_cbKeepsFlag(success) ==
  /\ LoopIdle /\ tcp \in {"connecting", "cancelled"}
  /\ success => tcp = "connecting"
  /\ m_ptcpHandle' = TRUE
  /\ tcp' = IF success THEN "open" ELSE IF tcp = "connecting" THEN "failed" ELSE "closing"
  /\ callback' = TRUE
  /\ UNCHANGED <<m_btcpClosed, asyncVars, sendVars, timer, running, careful,
                 faults, sends, calls>>

connect_cb(success) ==
  /\ LoopIdle /\ tcp \in {"connecting", "cancelled"}
  /\ success => tcp = "connecting"
  /\ m_ptcpHandle' = TRUE
  /\ tcp' = CASE success            -> "open"
              [] tcp = "cancelled"  -> "closing"
              [] OTHER              -> "failed"
  /\ m_btcpClosed' = (m_btcpClosed /\ ~success)
  /\ callback' = TRUE
  /\ UNCHANGED <<asyncVars, sendVars, timer, running, careful, faults, sends, calls>>

\* Data has arrived, or the stream has ended and reading stops.
read_cb(error) ==
  /\ LoopIdle /\ tcp = "open"
  /\ tcp' = IF error THEN "eof" ELSE "open"
  /\ callback' = TRUE
  /\ UNCHANGED <<asyncVars, sendVars, m_ptcpHandle, m_btcpClosed, timer, running,
                 careful, faults, sends, calls>>

\* Faulty variant: the object stays in the map.
write_cbKeepsKey ==
  /\ LoopIdle /\ writing # <<>>
  /\ writing' = Tail(writing)
  /\ m_dSend' = Append(m_dSend, Head(writing).obj)
  /\ UNCHANGED <<m_mapSend, asyncVars, buffer, connVars, userVars, faults, sends,
                 calls>>

\* write_cb, whatever the status, under m_lockWriteBuffer.
write_cb ==
  /\ LoopIdle /\ writing # <<>>
  /\ LET obj == Head(writing).obj IN
       /\ obj \in m_mapSend
       /\ m_dSend' = Append(m_dSend, obj)
       /\ m_mapSend' = m_mapSend \ {obj}
  /\ writing' = Tail(writing)
  /\ UNCHANGED <<asyncVars, buffer, connVars, userVars, faults, sends, calls>>

\* Faulty variant: nobody is told that the block is free.
close_cbKeepsQuiet ==
  /\ LoopIdle /\ tcp = "closing" /\ writing = <<>>
  /\ tcp' = "closed"
  /\ UNCHANGED <<m_btcpClosed, asyncVars, sendVars, m_ptcpHandle, userVars, faults,
                 sends, calls>>

\* libuv completes the writes of a stream before the callback of its uv_close.
close_cb ==
  /\ LoopIdle /\ tcp = "closing" /\ writing = <<>>
  /\ tcp' = "closed"
  /\ m_btcpClosed' = TRUE
  /\ UNCHANGED <<asyncVars, sendVars, m_ptcpHandle, userVars, faults, sends, calls>>

\* time_cb and tcptimer_cb.
time_cb(t) ==
  /\ LoopIdle /\ t \in timer
  /\ timer' \in {timer, timer \ {t}}
  /\ callback' = TRUE
  /\ UNCHANGED <<asyncVars, sendVars, connVars, running, careful, faults, sends, calls>>

-----------------------------------------------------------------------------
Next ==
  \/ net_AsyncSend \/ async_cb
  \/ SendNow \/ net_Connect \/ net_Run \/ net_closeConnection \/ net_reConnect
  \/ \E t \in Timers : SetTimer(timer \cup {t}) \/ SetTimer(timer \ {t})
  \/ \E b \in BOOLEAN : connect_cb(b) \/ read_cb(b)
  \/ CallbackReturns \/ write_cb \/ close_cb
  \/ \E t \in Timers : time_cb(t)

Spec == Init /\ [][Next]_vars

\* The user's callbacks return, and in each turn libuv calls back the senders
\* that were woken and, of a handle that is closing, the writes it cancels and
\* then the handle, however much data arrives and however often timers expire.
\* The peer need not read, so that a write may stay pending while it is open.
Fairness ==
  /\ WF_vars(CallbackReturns)
  /\ SF_vars(async_cb)
  /\ SF_vars((tcp = "closing" /\ write_cb) \/ close_cb)

FairSpec == Spec /\ Fairness
-----------------------------------------------------------------------------
(* Properties.                                                             *)

\* The bytes libuv has been given to write are not touched before their
\* write_cb: no two writes share a Sendst object, and none of their objects
\* waits in m_dSend to be reused (net_Send, write_cb).
SendExclusive ==
  /\ \A i \in DOMAIN writing : writing[i].msg = buffer[writing[i].obj]
  /\ \A i, j \in DOMAIN writing : i # j => writing[i].obj # writing[j].obj
  /\ \A i \in DOMAIN writing : writing[i].obj \notin ToSet(m_dSend)

\* No Sendst object is in two places, and as long as no write was refused
\* those in use are those libuv writes from: the memory for sending grows with
\* the writes under way and not with the writes ever made (net_Send, write_cb).
SendstNotLost ==
  /\ IsInjective(m_dSend) /\ ToSet(m_dSend) \cap m_mapSend = {}
  /\ faults \cap {"null", "refused write"} = {} =>
       m_mapSend = {writing[i].obj : i \in DOMAIN writing}

\* What net_AsyncSend accepted is neither overwritten nor dropped while it waits
\* for the loop thread: as long as the wake-up of a sender is pending its bytes
\* stay as they are, whatever other threads send, and the wake-up is used up only
\* by the async_cb that passes just these bytes to net_Send.
AcceptedIsKept ==
  [][\A a \in woken :
       IF a \in woken' THEN asyncBuffer'[a] = asyncBuffer[a]
       ELSE \E s \in Sendst : buffer[s] # asyncBuffer[a] /\ buffer'[s] = asyncBuffer[a]]_vars

\* A user who connects once before net_Run, and afterwards closes or reconnects
\* only when no connect or close is under way, still meets two failures of the
\* library's own: net_reConnect after a reconnect that failed initialises the
\* block of an open handle (m_btcpClosed is still set), and what net_AsyncSend
\* was given may be written to a connection lost since.  But no handle is closed
\* twice, none is initialised while it connects or closes, and none is null.
CarefulFaults == careful => faults \subseteq {"init failed", "refused write"}

\* What net_AsyncSend accepted gets to net_Send once the loop runs (async_cb).
AcceptedIsPassedOn ==
  \A a \in Sender : (running /\ a \in woken) ~>
                     (\E s \in Sendst : buffer[s] = asyncBuffer[a])

\* A close that a careful user began ends with the block free to be used again
\* (close_cb): the next net_reConnect connects.
CloseCompletes ==
  (careful /\ tcp = "closing") ~> (tcp = "closed" /\ m_btcpClosed)
=============================================================================
