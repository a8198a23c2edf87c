# A verification development of libuvwrapper

This directory holds TLA+ models of libuvwrapper, a small C++ layer over libuv,
the TLC configurations that model-check them, and theorems about them whose
proofs TLAPS checks.  Paths such as `loop.cpp:75` are relative to
`src/libuvcpp/` unless another directory is given.

- [The system](#the-system)
- [The modules](#the-modules)
- [The runs](#the-runs)
- [Careful users](#careful-users)
- [Bounds and fairness](#bounds-and-fairness)
- [What is proved](#what-is-proved)
- [What the models showed](#what-the-models-showed)
- [What is not modelled](#what-is-not-modelled)
- [Plan](#plan)

## The system

libuv runs callbacks on the one thread that executes `uv_run`, and only
`uv_async_send` may be called from another thread.  The repository wraps it three
times over: the classes of `libuvcpp/`, the older `netlibuv` of
`util/netlib.h`, and the client `uv::uvcpp` of `uvcppclient/`.  The headers of
libuv are part of the repository, and some of them hold code: the trees of
`include/tree.h` and the table of error codes of `include/uv-errno.h`.

| Component | State it keeps | Operations | What makes it correct |
|---|---|---|---|
| **uvloop** `loop.h/.cpp` | `m_bRunning` (plain bool), five `uv_async_t` handles in the deque `m_dAsync` or the map `m_mapAsync`, `m_lockAsync`, the condition variable of the destructor | `AddReq`, `run`, `stop`, `IsRunning`, `~uvloop`; on the loop thread `theadRun` and the callback of the handles | no handle lost or used twice; a request answered with `ERR_LOOP_NO_ERR` runs exactly once, any other never; one thread in `uv_run`; a stop stops; the destructor waits for the thread and comes back |
| **uvtimer** `timer.h/.cpp` | `m_bTimerStarted`, `m_bRestartTimer`, `m_repeat`, one `uv_timer_t` | `SetTimer`, `startTimer(bForceRestart)`, `StopTimer`; on the loop thread `timerStart`, `timerStop`, the expiry callback | the flag tells the truth about the timer; libuv gets handles in the right state only; the last accepted call wins; a restart ends armed |
| **uvconnect** `connect.h/.cpp` | `m_bConnectSuccess`, `m_bReconect`, the blocks `m_ptcp` and `m_pStream`, the pool of `stSend` objects in `m_dSend`/`m_mapSend` under `m_writelock` | `ConnectToServer`, `CloseConnection`, `Reconnnect`, `StartReadData`, `StopReadData`, `wirteData`; on the loop thread `Connect`, `CloseConnect`, `ReadStart`, `ReadStop`, `tcpWrite` and the callbacks of libuv | bytes being written are not touched; writes keep their order; no request acts on a stream that is null, closing or freed; a reconnect connects |
| **uvaccept**, **TcpServer** `accept.h/.cpp`, `tcpServer.h/.cpp` | the listening `uv_tcp_t`, the loop, the new-connection callback | `tcpListen`, `tcpRun`, `tcpStop`, the destructor; on the loop thread `ServerListenStart` and the callback of `uv_listen` | no memory of a live handle is freed; a listen or a read that was accepted takes effect |
| **TcpClient** `tcpClient.h/.cpp` | an `uvloop` and an `uvconnect` | `ConnectToServer`, `WriteData` | what it reports is what happened |
| **safebuffer** `util/safebuffer.cpp` | pointer, capacity, length, offset | constructors, `operator=`, `readmem`, `resize`, `swap`, `ClearMem`, `StepOffset` | nothing is written past a block; a zero follows the data; the offset is within it |
| **uv::uvcpp** `uvcppclient/` | `_works`, one async handle, `_sendBuf`, `_statusNormal`, `_autoReconnect` | `connect`, `run`, `stop`, `close`, `send` and the loop's `write`, `inner_close`, `inner_stop`, `allocSendBuf` | no event is lost; bytes go out once and in order, and fit the buffer; the connection is closed once |
| **netlibuv** `util/netlib.h` | five async senders, the pool of `Sendst` objects, `m_btcpClosed`, two timers | `net_AsyncSend`, `net_Send`, `net_Connect`, `net_closeConnection`, `net_reConnect`, timers | write objects are neither shared nor lost; what was accepted is sent; the handle is closed and initialised in turn |
| **tree.h** `include/` | the links and colours of the nodes | insertion, removal and lookup of the red-black and of the splay tree | order, balance, lookups |
| **error codes** `include/uv-errno.h` | none; a table computed by the preprocessor | - | the binary and the program understand each other |
| loggers, samples | none | log4cplus macros; example programs | - |

**Interaction.**  Every public operation of `libuvcpp` that must touch libuv makes a
request: it binds itself and a `shared_ptr` to its object into a closure and passes it to
`uvloop::AddReq`, which stores it in a free async handle and wakes the loop
thread.  The callback of the handle runs the closure, drops it and gives the
handle back.  A call can be refused: `ERR_LOOP_STOP` when the flag is down,
`ERR_LOOP_BUSY` when the deque is empty, and nearly all callers ignore the
reason.  Callbacks of libuv run user code (`m_EvnentHandler`, `m_pTimercb`, the
new-connection callback) on the loop thread, and that code makes further
requests.  Closures own the loop, so the last reference to it can go on either
side.  `uv::uvcpp` has one async handle and a map of events instead; `netlibuv` has a
deque of async handles for sending and nothing else.

**What is hard.**  The flags (`m_bRunning`, `m_bTimerStarted`,
`m_bConnectSuccess`, ...) are tested on one thread and changed on another, and
the request made on the strength of a test is executed later; the pool can be
empty at any call, including calls made from callbacks whose result nobody
looks at; the destructor, `run` and `theadRun` share a flag without a lock;
`uv_close` and `uv_tcp_connect` complete later, with calls in between; sizes are
computed in unsigned arithmetic.  `PROJECT.json` lists each hazard at its line with
the properties that cover it.

## The modules

| Module | Models | Depends on |
|---|---|---|
| `RequestChannel` | abstract: what `uvloop` promises the callers of `AddReq` | - |
| `AsyncPool` | the pool of async handles; operators, not a specification | - |
| `UvLoop` | the life of a `uvloop` | `AsyncPool`, implements `RequestChannel` |
| `UvTimer` | `uvtimer` over the pool of a running loop | `AsyncPool` |
| `UvConnect` | `uvconnect` over the pool of a running loop | `AsyncPool` |
| `UvServer` | `TcpServer` with `uvaccept`, the connections it hands over, and the pool | `AsyncPool` |
| `SafeBuffer` | `safebuffer` | - |
| `ByteStream` | abstract: what `uv::uvcpp` promises the callers of `send` | - |
| `UvCpp` | `uv::uvcpp` | implements `ByteStream` |
| `SendBuffer` | the size of the send buffer of `uv::uvcpp` | - |
| `NetLib` | `netlibuv` | - |
| `Trees` | the trees of `tree.h` | - |
| `UvErrno` | the error codes | - |
| `AsyncPoolProofs`, `UvLoopProofs`, `UvTimerProofs`, `UvConnectProofs`, `UvServerProofs`, `UvCppProofs`, `NetLibProofs`, `DataProofs` | theorems | the module each is named for, `TLAPS`; `UvCppProofs` also `SendBuffer`, `DataProofs` `SafeBuffer` and `UvErrno` |

**AsyncPool.**  A handle is a number.  `m_dAsync` is a sequence, `m_mapAsync` the
set of its keys (key and value are the same object), `slot[h]` the work in the
`stAsync` of handle `h`, `sent` the pending wake-ups and `cur` the handle whose
callback is running.  `Submit` is the locked half of `AddReq` and `stop`,
`Fire` libuv's call of a pending handle, `ClearTcb` is `tcb = nullptr` and
`Recycle` the locked end of the callback, with the branch that would
dereference `end()`.  The sequence of an operation that uses the pool is
always: test, `Submit`, `Fire`, the work and `ClearTcb`, `Recycle`, each an atomic
step, because `m_lockAsync` covers exactly `Submit` and `Recycle`.

**UvLoop.**  `AddReq` is two steps, the unlocked test of the flag and the locked
part; it is called by a client (`AddReqTest`) or from inside a running closure
(`AddReqTestNested`).  `run` is two steps, since the thread starts before the
flag is set.  The owner's and the loop thread's progress in `run`, `stop` and
`~uvloop` is `apc`; that of each thread in `theadRun` is `tpc`.  `Release` drops
the last outside reference; `HoldsRef` says whether a stored closure still keeps
the loop alive, and `RunRequest` starts the destructor on the loop thread when
it drops the last one.  The wait of the destructor is split into the test of
the predicate and the block, with spurious wake-ups; `NotifyAll` wakes only
who is already asleep.

**RequestChannel.**  Requests are accepted or refused at submission, at most
`Capacity` are in flight, one is served at a time, each at most once.  The
refinement mapping in `UvLoop` reads `waiting` off the pending wake-ups,
`serving` off the current handle and `refused` off the results of `AddReq`.

**UvTimer.**  Each public call is the step up to `AddReq` and the step of
`AddReq`; `timerStop` is split at each access to `m_bRestartTimer`, which client
threads write at any time.  `handle` is the state of the `uv_timer_t` in libuv,
`misused` records a call libuv does not allow.

**UvConnect.**  The `uv_tcp_t` blocks are numbered in the order of their
allocation; `m_ptcp` and `m_pStream` say which block each `shared_ptr` owns,
`uv[b]` what libuv knows of the block, and deleting a block twice, or while
libuv holds it, or using a null or deleted one is recorded in `faults`.  A
fault is undefined behaviour; the model goes on as if it had been harmless.
`wirteData` is the step that takes an `stSend` object and the step of `AddReq`;
`writing` is libuv's queue.

In `UvTimer` and `UvConnect` the loop runs throughout: starting and stopping it is the
subject of `UvLoop`.

**UvServer.**  `tcpListen` is the step that calls `run` and the step of `AddReq`;
`DropServer` and `ReleaseListener` are the body of `~TcpServer` and the destruction of its
members, between which the loop thread goes on.  `loop` and `m_bRunning` abstract
`UvLoop`: the flag falls last, in `ThreadEnds`.  `dangling` records that memory
of a handle the running loop knows has been freed.  A connection moves from the
kernel's `backlog` to the user's callback, which keeps it and calls
`StartReadData` as `sample/sample.cpp` does, and then through the pool to `reading`.

**UvCpp.**  `works` is the map `_works`; `Insert` is the locked part of `send`,
`close` and `stop` and `Notify` their `uv_async_send`, two steps because the loop
thread can run in between.  `AsyncCallback` swaps the map into `batch`, whose
events `Write`, `HandleClose` and `HandleStop` then take one by one, since
`write` takes the lock of the send buffer each time; no other callback runs
until the batch is done.  `tcp` is what libuv knows of `_tcp`, which is used
again for every connection, `wire` what `uv_try_write` has taken over all of
them.  A byte is the number of the `send` it came with.  `misused` records what
is used that is not there (a null `_tcpHandle`, the freed async handle, the
pointer `_tcp->data` that nobody has written on the first connection) and a
second `uv_close`; only the last is excluded, by `StatusIsOpen`.

**ByteStream.**  Bytes are accepted at any time and leave in order while the link is up;
the link goes up and down, until a stop ends it.  The refinement mapping in `UvCpp` reads
`accepted` off the number of sends and the link off `tcp`, or off `loop` once a stop has
been carried out: the connection that comes back after a stop (`CloseCallback`) is then
no link, and `ImplementsStream` says that nothing is written to it.

**SendBuffer** is the other half of `send` and `write`: not which bytes wait, but how
many, and whether the block has room.  `allocSendBuf` is called with
`_sendLen - len - _sendOffset`, a negative number in an unsigned type.  `Init`, `Next` and
the like have the prefix `Buffer` there, so that the proofs about the client can extend
both modules.

**SafeBuffer.**  The member functions are operators on the members of one object; those
that may fail or run over yield the set of their outcomes.  Every `unsigned long`
is reduced modulo `ULONG`.  `past` remembers what has happened to an object that
excuses it from a property.

**NetLib.**  `net_AsyncSend` runs on any thread and copies into a sender; everything
else is on the loop thread, or before `net_Run`.  One block of memory serves all
connections, `m_btcpClosed` says whether it may be initialised, and what libuv must
not be asked is recorded in `faults`.

**Trees.**  The macros are operators on a record of links, written once for the two
sides that the code writes out twice.  The state machine inserts, removes and looks
up; the properties compare with definitions that do without the code's links.
The operators are recursive, so nothing is proved about them.

**UvErrno.**  The binary of libuv and the program are compiled in turn, each seeing its
own `errno.h`: macros are missing, or (on Windows) redefined.  `Fallback` is the table of the
`#else` branches, cut into three records.  Its definitions have the prefix `Errno`, for
`DataProofs` extends it together with `SafeBuffer`.

Definitions headed "Faulty variant" are not part of the specification.  Each
is a definition of the model with a plausible bug put in, defined beside it;
replacing the one by the other must make the property named in `PROJECT.json`
fail, which shows that the property depends on that code.

## The runs

Runs that must pass:

| Run | Checks | Instance |
|---|---|---|
| `loop` | `HandlesConserved`, `CallbackFindsHandle`, `ExactlyOnce`, `OneLoopThread`, the refinement `ImplementsChannel`; `AcceptedRuns`, `PoolRefills`, `StopEndsLoop` | 2 handles, 3 requests, 2 threads in turn, 2 stops, wake-ups in any order |
| `timer` | for anyone `FlagTracksHandle`; for careful users `NeverMisused`, `LastCallWins`, `RestartCompletes` | 3 handles, 2 clients and the callback; 7 calls of careful users, 5 of others; other users of the loop |
| `connect` | for anyone `SendExclusive`, `WritesInOrder`, `AcceptedWriteMovesOn`; for careful users `OnlyDoubleFree`, `ConnectedIsOpen`, `ReconnectCompletes` | both roles, 3 handles, 2 clients and the handler; careful users: 4 calls and other users of the loop; others: 3 writes and one other call |
| `server` | `NothingDangles`, `RequestedIsRead`, `ListenTakesEffect` | 2 handles, 2 connections, 3 calls |
| `uvcpp` | the refinement `ImplementsStream`; `WakeupPending`, `StatusIsOpen`, `EventsTakeEffect` | 2 users, 3 sends, 2 other calls |
| `netlib` | `SendExclusive`, `SendstNotLost`, `AcceptedIsKept`, `AcceptedIsPassedOn`; for careful users `CarefulFaults`, `CloseCompletes` | 2 senders, 3 messages, 4 calls that connect or close (3 of others) |
| `safebuffer` | for careful users `NoOverrun`, `EndsInZero`, `OffsetInData` | 2 buffers, blocks of 2, 8 values of an unsigned long, 5 calls (2 of others) |
| `send_buffer` | for careful users `BytesFit` | first size 7, 64 values of an unsigned int, at most 32 bytes waiting |
| `trees` | `OrderKept`, `RedBlackRules`, `LookupsRight` | every sequence of operations on 8 nodes |
| `errno` | `NeverMistaken`, `CodesAgree` | 2 units, any of 3 macros missing or redefined in each, 3 platforms |

Runs that must find a violation, because the code does not do what its comment
says:

| Run | Property | Comment |
|---|---|---|
| `loop_dtor_lost_wakeup` | `DestructorWakes` | `loop.cpp:65` "waiting for uv_loop stop": the flag is written and the notification sent without the lock, and both may fall between the destructor's test and its wait |
| `loop_self_wait` | `NoSelfWait` | the same: the last reference may go with a closure, and then the destructor runs on the loop thread and waits for itself |

Each property is preceded in its module by what it means and the lines it is
about.  Deadlock is checked in `trees` only: elsewhere all callers may have made
their calls and the loop may have stopped.

## Careful users

None of the classes says how it may be used, and used anyhow most of them do what
libuv does not allow.  Where that matters a variable `careful`, chosen in `Init`
and never changed, says whether the users of a behaviour keep to the rules below,
and a property that needs them says `careful =>`.  The rules are the weakest
we found under which the properties hold; each is a guard on a call.

- `UvTimer`: a call is made when the earlier ones have taken effect, a timer
  never started is not stopped, and the other users of the loop leave two handles.
  Also, by the constant `LateSet` being false, `SetTimer` is not called on a timer in
  use.
- `UvConnect`: connects, closes, reconnects and `StopReadData` are made one after
  the other, each when it makes sense, and `StartReadData` and other users leave two
  handles.
- `UvServer`: one `tcpListen`; connections are kept; the `TcpServer` is dropped only
  when `IsRunning` is false.  (`sample.cpp` drops it while it runs.)
- `NetLib`: one connect before `net_Run`; a close or a reconnect only when none is
  under way.
- `SafeBuffer`: no `swap`; a buffer gets no more bytes in all than an unsigned long
  can count, `DEFAULT_BUFFER_LEN` spared; the offset is stepped within the data.
- `SendBuffer`: pieces of at most a third of `DEFAULT_BUFFER_LEN`, and at most
  `MaxPending` bytes waiting.

Both kinds of user are in every run, so that the states of the careless are
explored too: the other properties of these modules hold for them.

## Bounds and fairness

**Bounds.**  `UV_ASYNC_HANDE` is 5 in the code and 2 or 3 in the runs: the
interesting cases are an empty deque, a deque with one handle left and a handle
used again, and all occur with two; careful users need a third.  Three requests against two handles make
`ERR_LOOP_BUSY` and the reuse of a handle happen together; two threads in turn
are the least for a restart and two stops the least for one to be left over.
Five calls on a timer are enough for start, forced restart, stop, and one
concurrent call of each kind before any takes effect.  Three writes are the
least with one object reused while another is in flight.  Four lifecycle calls
make a connect, two reconnects and a read.  Three sends and two other calls of
`uv::uvcpp` fill the keys 0 and 1 in every order and leave a partial write behind
a reconnection.  Two connections and one listen compete for two handles.  Two
senders of `netlibuv` run out at the third message; four calls are a connect, a
close and two reconnects, one of which may fail.  Five operations with 8 values of
an unsigned long reach every way to wrap around, to fill a block to its last byte and to
lose it in `realloc`.  With 64 values of an unsigned int and a first size of 7 a
send buffer grows several times and a careless piece wraps.  Eight nodes are the
least for a red-black tree of height 4 and every case of its removal.
The counters `MaxRuns`, `MaxStops`, `MaxCalls`, `MaxCareful`, `MaxCareless`, `MaxSends`
and `MaxWrites` bound calls of the environment; the
steps of the library are never cut off.  `SendBuffer` and `Trees` have no counter.

**Fairness.**  The operating system schedules the loop thread and every thread
that is inside a call, so those steps are weakly fair.  In each turn of `uv_run`
libuv calls back every handle it found ready, so in `UvTimer`, `UvConnect`, `UvServer`
and `NetLib` the call of a pending handle is strongly fair: data that keeps
arriving or a timer that keeps expiring does not starve it.  So are the call of the
async handle and the return of a stopped `uv_run` in `UvCpp`, whose connections come
and go for ever.  After a `uv_close` libuv cancels the writes of the handle and
calls back each of them and then the handle, so these calls are strongly fair as
well, from the close on.  The callback of a write on an *open* handle is not fair at
all: a peer that stops reading keeps it pending for ever.  `AcceptedWriteMovesOn` is
therefore about a write up to its `uv_write` and from the close of its connection
on, and says nothing of one that libuv holds in between.
Nobody is obliged to
call an operation, a peer need not answer or
send, the clock need not advance, and spurious wake-ups need not come.

**Order.**  The Windows build of libuv posts a completion packet per
`uv_async_send`, so wake-ups come in order; the Unix build scans its handles.
`InOrder` chooses, and is false in the runs.  Only `WritesInOrder` needs the order,
since on Unix writes can overtake each other; in the run `connect` the wake-ups of
users who write come in order, and those of the careful, who do not write there, in any.

## What is proved

The theorems hold for every value of the constants that the assumptions of
the module admit: any positive number of handles, either order of the wake-ups, any number of
callers, calls, objects and bytes.

| Module | Theorem | States |
|---|---|---|
| `UvLoopProofs` | `TypeCorrect` | `Spec => []TypeOK` |
| | `HandlesAreConserved` | `Spec => []HandlesConserved` |
| | `CallbackAlwaysFindsHandle` | `Spec => []CallbackFindsHandle` |
| | `RequestsRunOnce` | `Spec => []ExactlyOnce` |
| | `LoopIsNotReentered` | `Spec => [](OneLoopThread /\ RunningFlagCoversLoop)` |
| | `LoopImplementsChannel` | `Spec => ImplementsChannel` |
| | `DestructorIsLast` | `Spec => []DestroyedAlone` |
| `UvTimerProofs` | `TypeCorrect` | `Spec => []TypeOK` |
| | `FlagIsRight` | `Spec => []FlagTracksHandle`, if `~LateSet` |
| | `CarefulNeverMisuses` | `Spec => []NeverMisused`, if `~LateSet` |
| | `LastCallStands` | `Spec => []LastCallWins`, if `~LateSet` and `UV_ASYNC_HANDE >= 2` |
| | `RestartFindsHandle` | `Spec => []RestartHasHandle`, under the same |
| | `PoolIsSound` | `Spec => [](HandlesConserved /\ CallbackFindsHandle)` |
| `UvConnectProofs` | `TypeCorrect` | `Spec => []TypeOK` |
| | `SendObjectsExclusive` | `Spec => []SendExclusive` |
| | `FlagMeansOpen` | `Spec => []ConnectedIsOpen` |
| | `CarefulOnlyDoubleFrees` | `Spec => []OnlyDoubleFree` |
| | `WireKeepsOrder` | `Spec => []WritesInOrder`, if `InOrder` or `"write" \notin CarefulOps` |
| | `ReconnectFindsHandle` | `Spec => []ReconnectHasHandle`, if `"write" \notin CarefulOps` and `UV_ASYNC_HANDE >= 2` |
| | `PoolIsSound` | as for the timer |
| `UvServerProofs` | `TypeCorrect` | `Spec => []TypeOK` |
| | `CarefulNothingDangles` | `Spec => []NothingDangles` |
| | `ReadsAreKept` | `Spec => []ReadsAreStored` |
| | `PoolIsSound` | as for the timer |
| `UvCppProofs` | `TypeCorrect` | `Spec => []TypeOK` |
| | `StatusIsRight` | `Spec => []StatusIsOpen` |
| | `WakeupsAreKept` | `Spec => []WakeupPending` |
| | `BytesKeepOrder` | `Spec => []BytesInOrder` |
| | `StreamImplemented` | `Spec => ImplementsStream` |
| | `StopsAreHandled` | `Spec => CloseDropsNoStop` |
| | `BufferTypeCorrect` | `BufferSpec => []BufferTypeOK` |
| | `CarefulBytesFit` | `BufferSpec => []BytesFit` |
| | `BufferNeverShrinks` | `BufferSpec => NeverShrinks` |
| `DataProofs` | `TypeCorrect` | `Spec => []TypeOK` |
| | `CarefulNeverOverruns` | `Spec => []NoOverrun` |
| | `DataEndInZero` | `Spec => []EndsInZero` |
| | `OffsetStaysInData` | `Spec => []OffsetInData` |
| | `StatusNeverMistaken` | `ErrnoSpec => []NeverMistaken` |
| | `UnitsAgree` | `ErrnoSpec => []CodesAgree` |
| `NetLibProofs` | `TypeCorrect` | `Spec => []TypeOK` |
| | `WritesAreExclusive` | `Spec => []SendExclusive` |
| | `ObjectsAreNotLost` | `Spec => []SendstNotLost` |
| | `CarefulCallsAreInOrder` | `Spec => []CarefulFaults` |
| | `AcceptedMessagesAreKept` | `Spec => AcceptedIsKept` |
| | `LookupsSucceed` | `Spec => []CallbacksFind` |

**The pool.**  `PoolInv` is about `AsyncPool` alone: `HandlesConserved` is not
inductive by
itself, since `Recycle` pushes the current handle and one must know that it is
in the map; that is `CallbackFindsHandle`, which in turn needs that a handle in
the deque is neither pending nor current.  The fourth part, `IdleHandlesEmpty`,
says that a handle outside the map stores nothing, without which `Submit` could
overwrite a request.  Its lemmas, one per operator of the pool, are stated for
an arbitrary set of work, and the modules on top of the pool cite them.

**The loop.**  The inductive invariant is
`IInv == TypeOK /\ PoolInv /\ ExactlyOnce /\ OneLoopThread /\ RunningFlagCoversLoop`.
`SubmitHolders` and `ClearTcbHolders` lift the lemmas of the pool to `Holders(r)`, and
`NextExactlyOnce` uses these for each action.  `OneLoopThread` and
`RunningFlagCoversLoop` need each other: `run` starts a thread only when the flag
is down, which means that no thread is alive; and the thread that clears the
flag is the only one alive.  `LoopImplementsChannel` is step simulation under `IInv`:
the locked part of
`AddReq` maps to `Accept` or `Refuse`, `Fire` of a request to `Begin`,
`RunRequest` to `End`, and all other steps to stuttering.  The capacity condition
of `Accept` is where `HandlesConserved` is used: a handle in the deque means
fewer than `UV_ASYNC_HANDE` requests in flight (`FreePlace`).

`DestroyedAlone` says when `~uvloop` runs: once, with no reference and no call of `AddReq`
left, and never to its end while a thread is in `uv_run`.  `LastRefInv` is what it needs of
references (a call from inside a callback ends before the callback, whose closure holds
one; a destructor on the loop thread is inside a callback) and `OwnerInv` of the owner; with
`RunningFlagCoversLoop` the flag that the destructor waits for tells that the thread has left
`uv_run`, and so a destructor on the loop thread, which keeps that thread in `uv_run`, never
comes back: what `loop_self_wait` finds is not a passing state.

**The timer.**  `FlagInv` adds to `FlagTracksHandle` that an armed handle repeats if
and only if `m_repeat`, which nobody changes while it is armed (`~LateSet`), and that
inside the expiry callback a one-shot handle has been disarmed.  For careful
users `OneAtATime` says that at most one call or request is under way, but for the start
that `timerStop` requests before it returns, `HandleReady` that the handle is in the state
that the requests to come expect, and `StopIsCurrent` that `timerStop`'s own request
is still in its handle; together they are inductive and give `NeverMisused`.

`LastCallWins` speaks of the moments when nothing is under way, so its invariant has to say
where the wish of the last call is until then.  `WishInv` does: in the timer itself, in the
request that is stored, or in `m_bRestartTimer`, which is up only between a
`startTimer(true)` and the end of the stop it asked for.  The one way to lose a wish is a restart that
`timerStop` cannot request because the deque is empty.  `SpareInv` rules it out by
counting: the others hold at most `UV_ASYNC_HANDE - 2` handles, and the timer one, so that
one is free.  This needs two handles at least; the code has five.  Without `~LateSet` the
theorems are false, since a `SetTimer` under an armed timer changes what a start wants.
`SpareInv` also gives `RestartFindsHandle`.

**The connection.**  `SendExclusive` counts the holders of an `stSend` object, who are
callers, handles and writes in libuv.  The induction is on two relations without
counting: `HeldOnce`, no object has two holders of whatever kind, and `HeldInMap`, a held
object is in `m_mapSend`, from which `m_dSend` is disjoint.  An object is held before
it is in a handle, so `Submit` storing into an *empty* handle (`SubmitFresh`, from
`PoolInv`) is what keeps the others.  `WriteCallback` returns the object to the deque
because `HeldInMap` says it is found.  `SendInvSuffices` turns this into the count.

`ConnectedIsOpen` and `OnlyDoubleFree` rest on `OneChange`, by which a careful user has one
connect, close or stop of reading under way at most, and `BlockInv`: at most one block is
live, what is freed was closed, and a request finds the blocks as the user saw them when he
made the call.  That is the heart of it, as the request runs later than the test: nothing but
another change could have come in between (`RunChange`).  The two owners of a block
then delete only closed ones, each of them once (`DeadIsDeleted`), hence the double free and nothing
worse.

`WritesInOrder` compares the wire with what was accepted.  `OrderInv` says that every write
stored in the pool, and every write on the wire, was accepted (`WasAccepted`), that the wire
has them in that order and ahead of all that wait (`WireInOrder`), and that those that wait
do so in that order, the current one first (`QueueInOrder`).  The last is where the
order of the wake-ups comes in; so the theorem assumes `InOrder`, which is what the Windows build
of libuv does, or careful users who do not write, as in the run.

`ReconnectFindsHandle` counts as `SpareInv` does, but the reads that careful users may start
meanwhile come in as well, and are called before they are stored: `RoomInv` bounds the
handles lent to others (`Lent`) and the calls that have yet to take one (`Asking`) together.
With at most one change under way, whose handle is back when the callback of `uv_close` runs, a
full pool contradicts it.

**The server.**  `LoopInv` holds for anyone: a callback runs inside `uv_run`, and the flag falls
after that, so that the careful user who reads it as false knows that the loop is over
(`GoneAfterLoop`).  `ListensOnce` follows the one listen through call, request and handle, whose
number is at most one in all; hence `ServerListenStart` finds no earlier handle to free.
`ReadersKept` says that the user keeps every connection whose request to read waits.
`ReadsAreKept` is the converse, for anyone: `ReadsHeld`, that such a connection has a handle,
is inductive with `PoolInv`, by which that handle has its wake-up.

**uv::uvcpp.**  `StatusIsOpen` is inductive, `WakeupPending` with the type of `pc`, and
`BytesInOrder` with the types of the sequences; the work is in `MoveFront` (a
partial write changes nothing of the whole) and `NextNumber`.  `StreamImplemented` is step
simulation under `BytesInOrder` and `StreamInv`, by which no batch is left once a stop has been carried
out: `HandleStop` drops the rest of its batch and closes the async handle, so that no `Write`
follows.  `StopsAreHandled` is about the other drop, in `HandleClose`: a stop is only ever
stored under the key 0 (`KeyInv`), the least there is, and so comes first.  The types take a count:
the key of an `EV_SEND` is the size of the map, which is in range because every event in
the map, and every one on its way there, is of a call of its own (`MapInv`).

**The send buffer.**  `WrapTurns` computes the modulo in the ranges that occur, and
`NewSizeOfNegative` shows that for a piece within the rules the negative argument comes
out as twice the size without the piece, which is room enough because three times the piece
is at most the size.

**The safe buffer.**  `NoOverrun` needs the invariant `Good` of every object: its data fit
in its block, and their length leaves `DEFAULT_BUFFER_LEN` to spare below `ULONG`, so that
`datalen + RoundUp(len)` in `readmem` does not wrap.  A lemma for each operation says that it
takes a good object to good outcomes; in `ReadIsGood` the subtraction in `NoRoom` does not wrap
because the data fit, and `RoundUpBounds` gives the room.  Only the bounds of
`BufferAssumption` on `DEFAULT_BUFFER_LEN` and `ULONG` are used.
`Good` also keeps a byte to spare in every block with data, which is where the zero of
`EndsInZero` is, and `Traced` says that the tail and the offset are in order unless
something in `past` explains why not.  Each operation is shown to keep both
(`KeepsTail`, `KeepsOffset`).

**The error codes.**  Each code is in the range of its kind: fixed codes and fallbacks below
-3000, where `FixedDistinct` and `FallbackDistinct` tell them apart, system codes
above it, where different errnos are different (`Errno`); only EHOSTDOWN of BSD, -64, needs
a word of its own.  The three records of fallbacks have disjoint ranges and domains, so that the provers
compare within each record only.

**netlibuv.**  `IInv` has a part for each of the senders, the write objects, the connection and the
user.  `net_Send` names a new object by the number of those in use, so the objects
must be numbered without gaps for the name to be new: `Numbered` says that deque and map
together are `1 .. n`, and, for the bound, that `n` and the senders that wait are no more than the
calls.  `CarefulFaults` needs to know what `m_btcpClosed` means in each state of the handle
(`ConnInv`).  `LookupsSucceed` adds that a sender that was woken is in the map.
`AcceptedIsKept` needs `FreshInv`: a message that waits in a sender is in no other sender and
has not been sent, as all messages are numbered below `sends`.  It holds because
`net_AsyncSend` takes a sender that is not waiting (`NextMessage`), and would as well if
`async_cb` gave the senders back when it is done with them.

Left to TLC:

- everything under fairness, since liveness is beyond the prover (the safety half of some is proved:
  `RestartFindsHandle`, `ReconnectFindsHandle`, `ReadsAreKept`, `StopsAreHandled`, `LookupsSucceed`): `AcceptedRuns`, `PoolRefills`,
  `StopEndsLoop`, `RestartCompletes`, `AcceptedWriteMovesOn`, `ReconnectCompletes`,
  `RequestedIsRead`, `ListenTakesEffect`, `EventsTakeEffect`, `AcceptedIsPassedOn`,
  `CloseCompletes`;
- `OrderKept`, `RedBlackRules` and `LookupsRight` of `Trees`, whose operators are recursive: a
  proof would be an induction over the tree, which the installed provers cannot do.

`TypeOK` is in no run; it held in every module when checked, and is proved for every
specification that has one.

## What the models showed

What holds, for any interleaving: the pool, the answers of `AddReq`, the single
loop thread, the agreement of the timer's flag with the timer, the exclusive
use and order of write buffers, the bytes and wake-ups of `uv::uvcpp`, the write
objects of `netlibuv`, the trees and the error codes.  What does not, besides the
two findings of the second table, are states that the models reach and
that no run singles out:

- `~uvloop` can finish before the loop thread is done with the object.
- A second stop posted before the first has taken effect ends the next
  `uv_run`, and `run` may set the flag after that thread has cleared it:
  `AddReq` then accepts requests that never run.
- A stop, a timer restart or a reconnect that finds the deque empty is dropped;
  `RestartCompletes` and `ReconnectCompletes` are therefore
  stated for users who leave handles to spare.
- A second connect deletes one block through two owners ("double free" is the one
  fault that `OnlyDoubleFree` allows).
- A refused write leaks its `stSend` object.
- In a burst of connections beyond the pool, a connection is accepted and never read;
  `tcpListen` reports success whatever `uv_listen` says.
- In `uv::uvcpp` a stop can be lost behind a send that waits, since both may have the
  key 0 (`EventsTakeEffect` speaks of those that got into the map).  A failed connection is
  never tried again, although `uvcpp.cpp:40` expects a reconnect, and a connection is begun
  again after a stop, although `uvcpp.cpp:265` says "unless user stop loop"; and the first
  connection reads an uninitialised pointer when data arrives.
- `send` of `uv::uvcpp` can halve or free its buffer for a piece of more than a third of
  it; and when `realloc` moves the block the old one is used.
- The senders of `netlibuv` serve once each, since `async_cb` does not give them back: the
  sixth `net_AsyncSend` fails for ever.  After a reconnect that failed, the next initialises an open handle.
- Two constructors of `safebuffer` leave the offset unset, `operator=` to an empty
  buffer does not clear its memory, and `swap` does not swap the lengths.

## What is not modelled

- **libuv** is external, a binary: its callbacks appear as actions with the freedom its
  documentation leaves.  The rest of its headers declares what the binary does.
- **TcpClient** starts the loop and forwards to `uvconnect`; it has no state of
  its own.
- The destructors of `uvtimer`, `uvconnect` and `uvaccept`.  Their bodies are empty and what they do is
  to let go of the members: that of `uvtimer` may free a `uv_timer_t` that is armed, that of
  `uvconnect` a stream that is open, or one block through both owners, as a second connect
  does (for `uvaccept`, and the connections of a server, `UvServer` has the effect).
  Closures hold a `shared_ptr` to the object, but a libuv handle does not; no program of the repository
  says when a user may drop one.
- `uv_write` that fails at once (`connect.cpp:229`): the code asserts that it does not,
  and so does the model.
- The width of pointers: `safebuffer.cpp` converts them to `unsigned long` (lines 125,
  151 and 169), which loses bits where that type is shorter, as on 64-bit Windows.
  `SafeBuffer` has offsets only and assumes a build without loss (32-bit Windows, as in the
  project files, or 64-bit Unix).
- **Loggers, samples and test programs** have no behaviour of the library in them.
- Addresses, payloads, event codes and texts of messages are abstracted away.
  `IsRunning`, `IsConnected`, `SetEventHandler`,
  `RegisterConnect`, `RegisterTimer` and `SetIPAndAddr` read or write one field before use
  and are no actions.
- A copy of `m_bRunning` kept by the compiler is not
  considered: every wait for it goes through a mutex.
- Of `uv::uvcpp` the constructor, the first `connect` and `run` are the initial state, and
  the destructor is left out.
- Of `netlibuv` the destructor (which deletes itself), the race of two first calls of
  `net_GetInstance`, and `net_Send` from a thread other than the loop's are left out.
- `RB_AUGMENT`, which nobody defines.

## Plan

Done: the modules and theorems above.  What is left are the destructors of `uvtimer`,
`uvconnect`, `uv::uvcpp` and `netlibuv`, of which the repository has no caller that would
say what they must do.
