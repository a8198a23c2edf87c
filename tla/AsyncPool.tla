----------------------------- MODULE AsyncPool -----------------------------
(***************************************************************************)
(* The request mailbox of uvloop (libuvcpp/loop.h, loop.cpp): a fixed pool *)
(* of uv_async_t handles through which any thread hands work to the single *)
(* thread that runs uv_run.  A free handle sits in the deque m_dAsync; a   *)
(* handle in flight is a key of m_mapAsync and its stAsync record carries  *)
(* the work.  Key and value of m_mapAsync are the same object, so the map  *)
(* is modelled by the set of its keys.                                     *)
(*                                                                         *)
(* libuv itself is external: uv_async_send makes a handle pending and the  *)
(* loop calls back every pending handle once.  The Windows build posts a   *)
(* completion packet per send, so wake-ups come in the order of the sends  *)
(* (InOrder); the Unix build scans its handles and promises no order.      *)
(***************************************************************************)
EXTENDS Integers, Sequences, Functions, SequencesExt

CONSTANTS
  UV_ASYNC_HANDE,  \* number of handles in the pool (5 in the code)
  InOrder,         \* do wake-ups come in the order of the sends?
  Nothing          \* the empty std::function, tcb == nullptr

ASSUME PoolAssumption ==
  /\ UV_ASYNC_HANDE \in Nat \ {0}
  /\ InOrder \in BOOLEAN

VARIABLES
  m_dAsync,    \* deque of the free handles
  m_mapAsync,  \* keys of the map of the handles in flight
  slot,        \* the work stored in each handle's stAsync
  sent,        \* pending wake-ups, in the order of uv_async_send
  cur          \* the handle whose callback the loop thread is in, or NoHandle

poolVars == <<m_dAsync, m_mapAsync, slot, sent, cur>>

Handle   == 1 .. UV_ASYNC_HANDE
NoHandle == 0

PoolTypeOK(Work) ==
  /\ m_dAsync \in Seq(Handle)
  /\ m_mapAsync \in SUBSET Handle
  /\ slot \in [Handle -> Work \cup {Nothing}]
  /\ sent \in Seq(Handle)
  /\ cur \in Handle \cup {NoHandle}

\* The constructor creates the handles and puts them all into the deque.
PoolInit ==
  /\ m_dAsync = [h \in Handle |-> h]
  /\ m_mapAsync = {}
  /\ slot = [h \in Handle |-> Nothing]
  /\ sent = <<>>
  /\ cur = NoHandle

Busy == m_dAsync = <<>>

\* Faulty variants of Submit: without pop_front, and without uv_async_send.
SubmitNoPop(work) ==
  LET h == Head(m_dAsync) IN
    /\ ~Busy
    /\ m_mapAsync' = m_mapAsync \cup {h}
    /\ slot' = [slot EXCEPT ![h] = work]
    /\ sent' = Append(sent, h)
    /\ UNCHANGED <<m_dAsync, cur>>
SubmitNoSend(work) ==
  LET h == Head(m_dAsync) IN
    /\ ~Busy
    /\ m_dAsync' = Tail(m_dAsync)
    /\ m_mapAsync' = m_mapAsync \cup {h}
    /\ slot' = [slot EXCEPT ![h] = work]
    /\ UNCHANGED <<sent, cur>>

\* What AddReq and stop do under m_lockAsync when a handle is free.
Submit(work) ==
  LET h == Head(m_dAsync) IN
    /\ ~Busy
    /\ m_dAsync' = Tail(m_dAsync)
    /\ m_mapAsync' = m_mapAsync \cup {h}
    /\ slot' = [slot EXCEPT ![h] = work]
    /\ sent' = Append(sent, h)
    /\ UNCHANGED cur

\* libuv calls back one pending handle.
Fire ==
  /\ cur = NoHandle
  /\ \E i \in 1 .. Len(sent) :
       /\ InOrder => i = 1
       /\ cur' = sent[i]
       /\ sent' = RemoveAt(sent, i)
  /\ UNCHANGED <<m_dAsync, m_mapAsync, slot>>

\* tcb = nullptr once the work of the current handle has been done.
ClearTcb ==
  /\ slot' = [slot EXCEPT ![cur] = Nothing]
  /\ UNCHANGED <<m_dAsync, m_mapAsync, sent, cur>>

\* Faulty variants of Recycle: without erase, and without push_back.
RecycleKeepsKey ==
  /\ cur # NoHandle /\ slot[cur] = Nothing
  /\ m_dAsync' = Append(m_dAsync, cur)
  /\ cur' = NoHandle
  /\ UNCHANGED <<m_mapAsync, slot, sent>>
RecycleDropsHandle ==
  /\ cur # NoHandle /\ slot[cur] = Nothing
  /\ m_mapAsync' = m_mapAsync \ {cur}
  /\ cur' = NoHandle
  /\ UNCHANGED <<m_dAsync, slot, sent>>

\* The locked end of the callback.  When the handle is not in the map the
\* code dereferences end(): the deque receives some unspecified pointer.
Recycle ==
  /\ cur # NoHandle
  /\ slot[cur] = Nothing
  /\ \E h \in IF cur \in m_mapAsync THEN {cur} ELSE Handle :
       m_dAsync' = Append(m_dAsync, h)
  /\ m_mapAsync' = m_mapAsync \ {cur}
  /\ cur' = NoHandle
  /\ UNCHANGED <<slot, sent>>

-----------------------------------------------------------------------------
(* Invariants of the pool, for the specifications built on it.             *)

\* No handle is lost or duplicated over any sequence of AddReq, stop and
\* callbacks (loop.cpp:48-53, 106-112, 133-140): each one is either in the
\* deque, once, or in the map.
HandlesConserved ==
  /\ IsInjective(m_dAsync)
  /\ Range(m_dAsync) \cap m_mapAsync = {}
  /\ Range(m_dAsync) \cup m_mapAsync = Handle

\* The branch of loop.cpp:45-49 that would dereference end() is dead code:
\* whatever is pending or being called back is still registered in the map,
\* and no handle is pending twice or pending while its callback runs.
CallbackFindsHandle ==
  /\ IsInjective(sent)
  /\ cur \notin Range(sent)
  /\ m_mapAsync = Range(sent) \cup ({cur} \ {NoHandle})
=============================================================================
