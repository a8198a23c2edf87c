---------------------------- MODULE UvCppProofs ----------------------------
(***************************************************************************)
(* Proofs about uv::uvcpp: about UvCpp, for any number of users, sends and *)
(* calls, and about SendBuffer, for every width of an unsigned int, every  *)
(* first size of the buffer and every bound on the bytes waiting that      *)
(* SendAssumption allows.                                                  *)
(***************************************************************************)
EXTENDS UvCpp, SendBuffer, SequenceTheorems, FiniteSetTheorems, TLAPS

-----------------------------------------------------------------------------
(* Sequences.                                                              *)

\* The elements of s \o t, by the lengths of the two.
LEMMA Concatenation ==
  ASSUME NEW S, NEW s \in Seq(S), NEW t \in Seq(S), NEW m \in Nat, NEW n \in Nat,
         Len(s) = m, Len(t) = n
  PROVE  /\ s \o t \in Seq(S) /\ Len(s \o t) = m + n
         /\ DOMAIN (s \o t) = 1 .. m + n
         /\ \A i \in 1 .. m + n : (s \o t)[i] = IF i <= m THEN s[i] ELSE t[i - m]
<1>1. /\ s \o t \in Seq(S) /\ Len(s \o t) = Len(s) + Len(t)
      /\ \A i \in 1 .. Len(s) + Len(t) :
           (s \o t)[i] = IF i <= Len(s) THEN s[i] ELSE t[i - Len(s)]
  BY ConcatProperties
<1>2. DOMAIN (s \o t) = 1 .. Len(s \o t)
  BY <1>1, LenProperties
<1> QED BY <1>1, <1>2

\* The first n elements of t, and the others.
Taken(t, n)     == SubSeq(t, 1, n)
Remaining(t, n) == SubSeq(t, n + 1, Len(t))

\* Moving the first n elements of t to the end of s does not change what they
\* are together.
LEMMA MoveFront ==
  ASSUME NEW S, NEW s \in Seq(S), NEW t \in Seq(S), NEW n \in 0 .. Len(t)
  PROVE  /\ s \o Taken(t, n) \in Seq(S)
         /\ Remaining(t, n) \in Seq(S)
         /\ (s \o Taken(t, n)) \o Remaining(t, n) = s \o t
<1> DEFINE front == Taken(t, n)
           rest  == Remaining(t, n)
<1>0. Len(t) \in Nat /\ Len(s) \in Nat
  BY LenProperties
<1>1. /\ front \in Seq(S) /\ Len(front) = n
      /\ \A i \in 1 .. n : front[i] = t[i]
  BY <1>0, SubSeqProperties DEF Taken
<1>2. /\ rest \in Seq(S) /\ Len(rest) = Len(t) - n
      /\ \A i \in 1 .. Len(t) - n : rest[i] = t[n + i]
  BY <1>0, SubSeqProperties DEF Remaining
<1> DEFINE both == s \o front
<1> HIDE DEF front, rest
<1>3. /\ both \in Seq(S) /\ Len(both) = Len(s) + n
      /\ \A i \in 1 .. Len(s) + n :
           both[i] = IF i <= Len(s) THEN s[i] ELSE front[i - Len(s)]
  BY <1>1, ConcatProperties
<1> HIDE DEF both
<1>4. /\ both \o rest \in Seq(S)
      /\ Len(both \o rest) = Len(s) + Len(t)
      /\ \A i \in 1 .. Len(s) + Len(t) :
           (both \o rest)[i] =
             IF i <= Len(s) + n THEN both[i] ELSE rest[i - (Len(s) + n)]
  <2>1. Len(both) + Len(rest) = Len(s) + Len(t)
    BY <1>0, <1>2, <1>3
  <2>2. /\ both \o rest \in Seq(S) /\ Len(both \o rest) = Len(both) + Len(rest)
        /\ \A i \in 1 .. Len(both) + Len(rest) :
             (both \o rest)[i] = IF i <= Len(both) THEN both[i] ELSE rest[i - Len(both)]
    BY <1>2, <1>3, ConcatProperties
  <2> QED BY <1>3, <2>1, <2>2
<1>5. /\ s \o t \in Seq(S) /\ Len(s \o t) = Len(s) + Len(t)
      /\ \A i \in 1 .. Len(s) + Len(t) :
           (s \o t)[i] = IF i <= Len(s) THEN s[i] ELSE t[i - Len(s)]
  BY ConcatProperties
<1>6. ASSUME NEW i \in 1 .. Len(s) + Len(t)
      PROVE  (both \o rest)[i] = (s \o t)[i]
  <2>1. CASE i <= Len(s)
    BY <1>0, <1>3, <1>4, <1>5, <2>1
  <2>2. CASE Len(s) < i /\ i <= Len(s) + n
    <3>1. i - Len(s) \in 1 .. n
      BY <1>0, <2>2
    <3> QED BY <1>0, <1>1, <1>3, <1>4, <1>5, <2>2, <3>1
  <2>3. CASE Len(s) + n < i
    <3>1. i - (Len(s) + n) \in 1 .. Len(t) - n /\ n + (i - (Len(s) + n)) = i - Len(s)
      BY <1>0, <2>3
    <3> QED BY <1>0, <1>2, <1>4, <1>5, <2>3, <3>1
  <2>4. i <= Len(s) \/ (Len(s) < i /\ i <= Len(s) + n) \/ Len(s) + n < i
    BY <1>0
  <2> QED BY <2>1, <2>2, <2>3, <2>4
<1>7. both \o rest = s \o t
  BY <1>4, <1>5, <1>6, SeqEqual
<1> QED BY <1>2, <1>3, <1>7 DEF both, front, rest

\* If s and t together are 1, ..., n then s alone is 1, ..., Len(s).
LEMMA FrontNumbered ==
  ASSUME NEW n \in Nat, NEW s \in Seq(Nat), NEW t \in Seq(Nat),
         s \o t = [i \in 1 .. n |-> i]
  PROVE  /\ Len(s) + Len(t) = n
         /\ s = [i \in 1 .. Len(s) |-> i]
<1>0. Len(s) \in Nat /\ Len(t) \in Nat
  BY LenProperties
<1>1. /\ s \o t \in Seq(Nat)
      /\ Len(s \o t) = Len(s) + Len(t) /\ DOMAIN (s \o t) = 1 .. Len(s) + Len(t)
      /\ \A i \in 1 .. Len(s) + Len(t) :
           (s \o t)[i] = IF i <= Len(s) THEN s[i] ELSE t[i - Len(s)]
  <2>1. /\ s \o t \in Seq(Nat) /\ Len(s \o t) = Len(s) + Len(t)
        /\ \A i \in 1 .. Len(s) + Len(t) :
             (s \o t)[i] = IF i <= Len(s) THEN s[i] ELSE t[i - Len(s)]
    BY ConcatProperties
  <2>2. DOMAIN (s \o t) = 1 .. Len(s \o t)
    BY <2>1, LenProperties
  <2> QED BY <2>1, <2>2
<1>2. Len(s) + Len(t) = n
  <2>1. 1 .. Len(s) + Len(t) = 1 .. n
    BY <1>1
  <2> QED BY <1>0, <1>1, <2>1
<1>3. \A i \in 1 .. Len(s) : s[i] = i
  BY <1>0, <1>1, <1>2
<1>4. DOMAIN s = 1 .. Len(s) /\ s = [i \in DOMAIN s |-> s[i]]
  BY LenProperties
<1> QED BY <1>2, <1>3, <1>4

LEMMA OneLonger ==
  ASSUME NEW a \in Nat, NEW b \in Nat, NEW n, a + b = n
  PROVE  b + 1 \in Nat /\ a + (b + 1) = n + 1
OBVIOUS

\* Sending number n + 1 after 1, ..., n.
LEMMA NextNumber ==
  ASSUME NEW n \in Nat, NEW s \in Seq(Nat), NEW t \in Seq(Nat),
         s \o t = [i \in 1 .. n |-> i]
  PROVE  /\ Append(t, n + 1) \in Seq(Nat)
         /\ s \o Append(t, n + 1) = [i \in 1 .. n + 1 |-> i]
<1>0. Len(s) \in Nat /\ Len(t) \in Nat
  BY LenProperties
<1>1. \A i \in 1 .. Len(s) + Len(t) :
        (s \o t)[i] = IF i <= Len(s) THEN s[i] ELSE t[i - Len(s)]
  BY ConcatProperties
<1>2. Len(s) + Len(t) = n
  BY FrontNumbered
<1>3. /\ Append(t, n + 1) \in Seq(Nat) /\ Len(Append(t, n + 1)) = Len(t) + 1
      /\ \A i \in 1 .. Len(t) : Append(t, n + 1)[i] = t[i]
      /\ Append(t, n + 1)[Len(t) + 1] = n + 1
  BY AppendProperties
<1> DEFINE more == Append(t, n + 1)
<1>4. /\ s \o more \in Seq(Nat) /\ Len(s \o more) = n + 1
      /\ \A i \in 1 .. n + 1 :
           (s \o more)[i] = IF i <= Len(s) THEN s[i] ELSE more[i - Len(s)]
  <2>1. Len(t) + 1 \in Nat /\ Len(s) + (Len(t) + 1) = n + 1
    BY <1>0, <1>2, OneLonger
  <2>2. more \in Seq(Nat) /\ Len(more) = Len(t) + 1
    BY <1>3
  <2> HIDE DEF more
  <2>3. /\ s \o more \in Seq(Nat) /\ Len(s \o more) = Len(s) + (Len(t) + 1)
        /\ \A i \in 1 .. Len(s) + (Len(t) + 1) :
             (s \o more)[i] = IF i <= Len(s) THEN s[i] ELSE more[i - Len(s)]
    BY <1>0, <1>1, <2>1, <2>2, Concatenation
  <2> QED BY <2>1, <2>3
<1>5. ASSUME NEW i \in 1 .. n + 1
      PROVE  (s \o more)[i] = i
  <2>1. CASE i = n + 1
    BY <1>0, <1>1, <1>2, <1>3, <1>4, <2>1
  <2>2. CASE i # n + 1
    <3>1. i \in 1 .. n /\ (s \o t)[i] = i
      BY <2>2
    <3>2. CASE i <= Len(s)
      BY <1>0, <1>1, <1>2, <1>4, <3>1, <3>2
    <3>3. CASE ~(i <= Len(s))
      <4>1. i - Len(s) \in 1 .. Len(t)
        BY <1>0, <1>1, <1>2, <3>1, <3>3
      <4> QED BY <1>0, <1>1, <1>2, <1>3, <1>4, <3>1, <3>3, <4>1
    <3> QED BY <3>2, <3>3
  <2> QED BY <2>1, <2>2
<1>6. [i \in 1 .. n + 1 |-> i] \in Seq(Nat) /\ Len([i \in 1 .. n + 1 |-> i]) = n + 1
  BY IsASeq
<1>7. s \o more = [i \in 1 .. n + 1 |-> i]
  BY <1>4, <1>5, <1>6, SeqEqual
<1> QED BY <1>3, <1>7

-----------------------------------------------------------------------------
(* The status of the connection.                                           *)

\* StatusIsOpen is inductive: only the connect callback raises the status, and
\* every step that takes the connection from "open" lowers it.
\* The status lets inner_close go ahead only on an open connection, and no
\* connection is closed twice (uvcpp.cpp:37-44, 251-264), whatever the users
\* call and however connections come and go.
THEOREM StatusIsRight == Spec => []StatusIsOpen
<1>1. Init => StatusIsOpen
  BY DEF Init, StatusIsOpen
<1>2. StatusIsOpen /\ [Next]_vars => StatusIsOpen'
  <2> SUFFICES ASSUME StatusIsOpen, [Next]_vars
               PROVE  StatusIsOpen'
    OBVIOUS
  <2>1. CASE UNCHANGED connVars
    BY <2>1 DEF connVars, StatusIsOpen
  <2>2. ASSUME NEW u \in Users, Notify(u)
        PROVE  StatusIsOpen'
    BY <2>2 DEF Notify, StatusIsOpen
  <2>3. CASE InnerClose
    BY <2>3 DEF InnerClose, connVars, StatusIsOpen
  <2>4. CASE Write
    BY <2>4 DEF Write, StatusIsOpen
  <2>5. ASSUME NEW ok \in BOOLEAN, ConnectCallback(ok)
        PROVE  StatusIsOpen'
    BY <2>5 DEF ConnectCallback, StatusIsOpen
  <2>6. CASE ReadData
    BY <2>6 DEF ReadData, StatusIsOpen
  <2>7. CASE CloseCallback
    BY <2>7 DEF CloseCallback, StatusIsOpen
  <2>8. ASSUME NEW u \in Users,
               \/ Send(u) \/ Insert(u) \/ SetAutoReconnect(u)
               \/ \E ev \in Event : CloseOrStop(u, ev)
        PROVE  UNCHANGED connVars
    BY <2>8 DEF Send, Insert, SetAutoReconnect, CloseOrStop
  <2>9. AsyncCallback \/ AsyncClosed \/ UvRunReturns \/ UNCHANGED vars => UNCHANGED connVars
    BY DEF AsyncCallback, AsyncClosed, UvRunReturns, vars
  <2>10. HandleClose \/ HandleStop \/ ReadFails => InnerClose
    BY DEF HandleClose, HandleStop, ReadFails
  <2> QED
    BY <2>1, <2>2, <2>3, <2>4, <2>5, <2>6, <2>7, <2>8, <2>9, <2>10
       DEF Next, HandleEvent
<1> QED BY <1>1, <1>2, PTL DEF Spec

-----------------------------------------------------------------------------
(* The wake-ups.                                                           *)

Position == {Idle} \cup ({"insert", "notify"} \X Event)

WakeInv == pc \in [Users -> Position] /\ WakeupPending

\* A wake-up may be one for many events, but an event in the map is never
\* without one (uvcpp.cpp:99-117, 128-132, 185-191): the user who inserted it
\* is still to wake the loop, or the callback will run and take the map.
THEOREM WakeupsAreKept == Spec => []WakeupPending
<1>1. Init => WakeInv
  BY DEF Init, WakeInv, WakeupPending, Position
<1>2. WakeInv /\ [Next]_vars => WakeInv'
  <2> SUFFICES ASSUME WakeInv, [Next]_vars
               PROVE  WakeInv'
    OBVIOUS
  <2>1. CASE UNCHANGED <<works, pending, pc>>
    BY <2>1 DEF WakeInv, WakeupPending
  <2>2. ASSUME NEW u \in Users, NEW ev \in Event,
               pc[u] = Idle, pc' = [pc EXCEPT ![u] = <<"insert", ev>>],
               UNCHANGED <<works, pending>>
        PROVE  WakeInv'
    <3>1. pc' \in [Users -> Position]
      BY <2>2 DEF WakeInv, Position
    <3>2. \A w \in Users : pc[w][1] = "notify" => pc'[w][1] = "notify"
      BY <2>2 DEF WakeInv, Idle
    <3> QED BY <2>2, <3>1, <3>2 DEF WakeInv, WakeupPending
  <2>3. ASSUME NEW u \in Users, Insert(u)
        PROVE  WakeInv'
    <3>1. PICK ev \in Event : pc[u] = <<"insert", ev>>
      BY <2>3 DEF Insert, WakeInv, Position, Idle
    <3>2. pc' = [pc EXCEPT ![u] = <<"notify", ev>>] /\ UNCHANGED pending
      BY <2>3, <3>1 DEF Insert
    <3>3. pc' \in [Users -> Position]
      BY <3>2 DEF WakeInv, Position
    <3>4. pc'[u][1] = "notify"
      BY <3>2 DEF WakeInv
    <3> QED BY <3>3, <3>4 DEF WakeInv, WakeupPending
  <2>4. ASSUME NEW u \in Users, Notify(u)
        PROVE  WakeInv'
    BY <2>4 DEF Notify, WakeInv, WakeupPending, Position
  <2>5. CASE AsyncCallback
    BY <2>5 DEF AsyncCallback, WakeInv, WakeupPending, userVars
  <2>6. ASSUME NEW u \in Users, SetAutoReconnect(u)
        PROVE  UNCHANGED <<works, pending, pc>>
    BY <2>6 DEF SetAutoReconnect, workVars
  <2>7. ASSUME NEW u \in Users, Send(u)
        PROVE  WakeInv'
    BY <2>2, <2>7 DEF Send, workVars, Event
  <2>8. ASSUME NEW u \in Users, NEW ev \in Event, CloseOrStop(u, ev)
        PROVE  WakeInv'
    BY <2>2, <2>8 DEF CloseOrStop, workVars
  <2>9. Write \/ HandleClose \/ HandleStop => UNCHANGED <<works, pending, pc>>
    BY DEF Write, HandleClose, HandleStop, userVars
  <2>10. AsyncClosed \/ ReadData \/ ReadFails \/ CloseCallback \/ UvRunReturns
           => UNCHANGED <<works, pending, pc>>
    BY DEF AsyncClosed, ReadData, ReadFails, CloseCallback, UvRunReturns, userVars,
           workVars
  <2>11. (\E ok \in BOOLEAN : ConnectCallback(ok)) \/ UNCHANGED vars
           => UNCHANGED <<works, pending, pc>>
    BY DEF ConnectCallback, vars, workVars, userVars
  <2> QED
    BY <2>1, <2>3, <2>4, <2>5, <2>6, <2>7, <2>8, <2>9, <2>10, <2>11
       DEF Next, HandleEvent
<1>3. WakeInv => WakeupPending
  BY DEF WakeInv
<1> QED BY <1>1, <1>2, <1>3, PTL DEF Spec

-----------------------------------------------------------------------------
(* The bytes.                                                              *)

ByteInv ==
  /\ sends \in Nat /\ wire \in Seq(Nat) /\ sendBuf \in Seq(Nat)
  /\ BytesInOrder

LEMMA BytesInvariance == Spec => []ByteInv
<1>1. Init => ByteInv
  <2> SUFFICES ASSUME Init PROVE ByteInv
    OBVIOUS
  <2>1. <<>> \in Seq(Nat) /\ <<>> \o <<>> = [i \in 1 .. 0 |-> i]
    BY EmptySeq
  <2> QED BY <2>1 DEF Init, ByteInv, BytesInOrder
<1>2. ByteInv /\ [Next]_vars => ByteInv'
  <2> SUFFICES ASSUME ByteInv, [Next]_vars
               PROVE  ByteInv'
    OBVIOUS
  <2>1. CASE UNCHANGED <<wire, sendBuf, sends>>
    BY <2>1 DEF ByteInv, BytesInOrder
  <2>2. ASSUME NEW u \in Users, Send(u)
        PROVE  ByteInv'
    <3>1. /\ Append(sendBuf, sends + 1) \in Seq(Nat)
          /\ wire \o Append(sendBuf, sends + 1) = [i \in 1 .. sends + 1 |-> i]
      BY NextNumber DEF ByteInv, BytesInOrder
    <3>2. /\ sends' = sends + 1 /\ sendBuf' = Append(sendBuf, sends + 1) /\ wire' = wire
      BY <2>2 DEF Send
    <3>3. sends' \in Nat
      BY <3>2 DEF ByteInv
    <3> QED BY <3>1, <3>2, <3>3 DEF ByteInv, BytesInOrder
  <2>3. CASE Write
    <3>1. PICK n \in 0 .. Len(sendBuf) :
            wire' = wire \o Taken(sendBuf, n) /\ sendBuf' = Remaining(sendBuf, n)
      BY <2>3 DEF Write, Taken, Remaining
    <3>2. wire' \in Seq(Nat) /\ sendBuf' \in Seq(Nat) /\ wire' \o sendBuf' = wire \o sendBuf
      BY <3>1, MoveFront DEF ByteInv
    <3>3. UNCHANGED sends
      BY <2>3 DEF Write, userVars
    <3> QED BY <3>2, <3>3 DEF ByteInv, BytesInOrder
  <2>4. ASSUME NEW u \in Users,
               \/ Insert(u) \/ Notify(u) \/ SetAutoReconnect(u)
               \/ \E ev \in Event : CloseOrStop(u, ev)
        PROVE  UNCHANGED <<wire, sendBuf, sends>>
    BY <2>4 DEF Insert, Notify, SetAutoReconnect, CloseOrStop, dataVars
  <2>5. AsyncCallback \/ HandleClose \/ HandleStop \/ AsyncClosed \/ ReadData
           => UNCHANGED <<wire, sendBuf, sends>>
    BY DEF AsyncCallback, HandleClose, HandleStop, AsyncClosed, ReadData, dataVars,
           userVars
  <2>6. ReadFails \/ CloseCallback \/ UvRunReturns \/ UNCHANGED vars
           => UNCHANGED <<wire, sendBuf, sends>>
    BY DEF ReadFails, CloseCallback, UvRunReturns, vars, dataVars, userVars
  <2>7. (\E ok \in BOOLEAN : ConnectCallback(ok)) => UNCHANGED <<wire, sendBuf, sends>>
    BY DEF ConnectCallback, dataVars, userVars
  <2> QED
    BY <2>1, <2>2, <2>3, <2>4, <2>5, <2>6, <2>7 DEF Next, HandleEvent
<1> QED BY <1>1, <1>2, PTL DEF Spec

\* Every byte sent has been written or is in the buffer, once and in the order
\* of the sends, over all connections (uvcpp.cpp:154-183).
THEOREM BytesKeepOrder == Spec => []BytesInOrder
<1>1. ByteInv => BytesInOrder
  BY DEF ByteInv
<1> QED BY <1>1, BytesInvariance, PTL

-----------------------------------------------------------------------------
(* The abstract stream.                                                    *)

\* The callback takes the map only while the async handle is active, which
\* the stop that is handled last makes an end of: what is yet to be handled is
\* handled by a loop that runs.
StreamInv ==
  /\ async = "active" => loop = "running"
  /\ batch # EmptyMap => loop = "running"

LEMMA StreamInvariance == Spec => []StreamInv
<1>1. Init => StreamInv
  BY DEF Init, StreamInv
<1>2. StreamInv /\ [Next]_vars => StreamInv'
  <2> SUFFICES ASSUME StreamInv, [Next]_vars
               PROVE  StreamInv'
    OBVIOUS
  <2>1. CASE UNCHANGED <<batch, async, loop>>
    BY <2>1 DEF StreamInv
  <2>2. ASSUME NEW u \in Users,
               \/ Send(u) \/ Insert(u) \/ Notify(u) \/ SetAutoReconnect(u)
               \/ \E ev \in Event : CloseOrStop(u, ev)
        PROVE  UNCHANGED <<batch, async, loop>>
    BY <2>2 DEF Send, Insert, Notify, SetAutoReconnect, CloseOrStop, workVars
  <2>3. CASE AsyncCallback
    BY <2>3 DEF AsyncCallback, StreamInv
  <2>4. CASE Write \/ HandleClose
    BY <2>4 DEF Write, HandleClose, Next1, StreamInv
  <2>5. CASE HandleStop
    BY <2>5 DEF HandleStop, StreamInv
  <2>6. CASE AsyncClosed
    BY <2>6 DEF AsyncClosed, StreamInv
  <2>7. ReadData \/ ReadFails \/ CloseCallback \/ UNCHANGED vars
          => UNCHANGED <<batch, async, loop>>
    BY DEF ReadData, ReadFails, CloseCallback, vars, workVars
  <2>8. (\E ok \in BOOLEAN : ConnectCallback(ok)) => UNCHANGED <<batch, async, loop>>
    BY DEF ConnectCallback, workVars
  <2>9. CASE UvRunReturns
    BY <2>9 DEF UvRunReturns, Between, workVars, StreamInv
  <2> QED
    BY <2>1, <2>2, <2>3, <2>4, <2>5, <2>6, <2>7, <2>8, <2>9 DEF Next, HandleEvent
<1> QED BY <1>1, <1>2, PTL DEF Spec

\* What leaves the bytes alone is a step of the link, or none.
LEMMA QuietStep ==
  ASSUME UNCHANGED <<wire, sends>>, loop # "running" => loop' # "running"
  PROVE  [Stream!Next]_(Stream!vars)
<1>1. Link \in {"up", "down", "stopped"} /\ Link' \in {"up", "down", "stopped"}
  BY DEF Link
<1>2. Link = "stopped" => Link' = "stopped"
  BY DEF Link
<1>3. \/ Link' = Link \/ Link' = "stopped"
      \/ Link = "down" /\ Link' = "up"
      \/ Link = "up" /\ Link' = "down"
  BY <1>1, <1>2
<1> QED BY <1>3 DEF Stream!Next, Stream!vars, Stream!Connect, Stream!Disconnect, Stream!Stop

\* A step of the client is a step of the abstract stream, or none.
LEMMA StreamStep ==
  ASSUME ByteInv, StreamInv, [Next]_vars
  PROVE  [Stream!Next]_(Stream!vars)
<1>1. CASE UNCHANGED vars
  BY <1>1, QuietStep DEF vars, dataVars, userVars
<1>2. ASSUME NEW u \in Users, Send(u)
      PROVE  Stream!Accept
  <2>1. sends' = sends + 1 /\ UNCHANGED <<wire, tcp, loop>>
    BY <1>2 DEF Send, connVars
  <2> QED BY <2>1 DEF Stream!Accept, Link
<1>3. ASSUME NEW u \in Users,
             \/ Insert(u) \/ Notify(u) \/ SetAutoReconnect(u)
             \/ \E ev \in Event : CloseOrStop(u, ev)
      PROVE  UNCHANGED <<wire, sends, loop>>
  BY <1>3 DEF Insert, Notify, SetAutoReconnect, CloseOrStop, dataVars
<1>4. AsyncCallback \/ HandleClose \/ AsyncClosed \/ ReadData \/ ReadFails \/ CloseCallback
        => UNCHANGED <<wire, sends, loop>>
  BY DEF AsyncCallback, HandleClose, AsyncClosed, ReadData, ReadFails, CloseCallback,
         dataVars, userVars
<1>5. (\E ok \in BOOLEAN : ConnectCallback(ok)) => UNCHANGED <<wire, sends, loop>>
  BY DEF ConnectCallback, dataVars, userVars
<1>6. HandleStop \/ UvRunReturns => UNCHANGED <<wire, sends>> /\ loop' # "running"
  BY DEF HandleStop, UvRunReturns, dataVars, userVars
<1>7. CASE Write
  <2>1. PICK n \in 0 .. Len(sendBuf) :
          /\ n > 0 => tcp = "open"
          /\ wire' = wire \o Taken(sendBuf, n) /\ sendBuf' = Remaining(sendBuf, n)
    BY <1>7 DEF Write, Taken, Remaining
  <2>2. UNCHANGED <<sends, tcp, loop>> /\ batch # EmptyMap
    BY <1>7 DEF Write, userVars, Next1
  <2>3. /\ sends \in Nat /\ wire \in Seq(Nat) /\ sendBuf \in Seq(Nat)
        /\ wire \o sendBuf = [i \in 1 .. sends |-> i]
        /\ Len(wire) \in Nat /\ Len(sendBuf) \in Nat
    BY LenProperties DEF ByteInv, BytesInOrder
  <2>4. CASE n = 0
    <3>1. Taken(sendBuf, n) = <<>>
      BY <2>3, <2>4 DEF Taken
    <3>2. wire' = wire
      BY <2>1, <2>3, <3>1
    <3> QED BY <2>2, <3>2, QuietStep
  <2>5. CASE n > 0
    <3>1. Link = "up" /\ Link' = "up"
      BY <2>1, <2>2, <2>5 DEF StreamInv, Link
    <3>2. /\ wire' \in Seq(Nat) /\ sendBuf' \in Seq(Nat)
          /\ wire' \o sendBuf' = [i \in 1 .. sends |-> i]
      <4>1. /\ wire \o Taken(sendBuf, n) \in Seq(Nat) /\ Remaining(sendBuf, n) \in Seq(Nat)
            /\ (wire \o Taken(sendBuf, n)) \o Remaining(sendBuf, n) = wire \o sendBuf
        <5>1. wire \in Seq(Nat) /\ sendBuf \in Seq(Nat)
          BY <2>3
        <5>2. n \in 0 .. Len(sendBuf)
          BY <2>1
        <5> QED BY <5>1, <5>2, MoveFront, SMTT(30)
      <4> QED BY <2>1, <2>3, <4>1
    <3>3. /\ Len(wire') + Len(sendBuf') = sends
          /\ wire' = [i \in 1 .. Len(wire') |-> i]
      BY <2>3, <3>2, FrontNumbered
    <3>4. Len(wire') = Len(wire) + n
      <4>1. Taken(sendBuf, n) \in Seq(Nat) /\ Len(Taken(sendBuf, n)) = n
        BY <2>1, <2>3, SubSeqProperties DEF Taken
      <4>2. Len(wire \o Taken(sendBuf, n)) = Len(wire) + n
        <5>1. wire \in Seq(Nat)
          BY <2>3
        <5> QED BY <4>1, <5>1, ConcatProperties
      <4> QED BY <2>1, <4>2
    <3>5. Len(wire') \in Len(wire) + 1 .. sends
      BY <2>3, <2>5, <3>2, <3>3, <3>4, LenProperties
    <3> QED BY <2>2, <3>1, <3>3, <3>5 DEF Stream!Deliver, Stream!Next
  <2> QED BY <2>4, <2>5
<1> QED
  BY <1>1, <1>2, <1>3, <1>4, <1>5, <1>6, <1>7, QuietStep DEF Next, HandleEvent, Stream!Next

\* The client keeps what the abstract stream promises: no user can tell it
\* from one, whatever the order of the events, however often connections
\* fail, are closed and come back, and whenever it is stopped.
THEOREM StreamImplemented == Spec => ImplementsStream
<1>1. Init => Stream!Init
  BY DEF Init, Stream!Init, Link
<1>2. ByteInv /\ StreamInv /\ [Next]_vars => [Stream!Next]_(Stream!vars)
  BY StreamStep
<1> QED BY <1>1, <1>2, BytesInvariance, StreamInvariance, PTL DEF Spec, ImplementsStream, Stream!Spec

-----------------------------------------------------------------------------
(* The map of events.                                                      *)

Inserting == {u \in Users : pc[u][1] = "insert"}

\* A key that is the size of the map is in range, because every event in the
\* map, and every one on its way there, is of a call of its own.
MapInv ==
  /\ works \in Maps /\ batch \in Maps /\ pc \in [Users -> Position]
  /\ sends \in 0 .. MaxSends /\ calls \in 0 .. MaxCalls
  /\ IsFiniteSet(Inserting) /\ IsFiniteSet(DOMAIN works)
  /\ Cardinality(Inserting) + Cardinality(DOMAIN works) <= sends + calls

LEMMA MapsAre ==
  ASSUME NEW f
  PROVE  f \in Maps <=> /\ DOMAIN f \subseteq 0 .. MaxSends + MaxCalls
                        /\ f = [k \in DOMAIN f |-> f[k]]
                        /\ \A k \in DOMAIN f : f[k] \in Event
BY DEF Maps

LEMMA EmptyMapIs == EmptyMap \in Maps /\ DOMAIN EmptyMap = {} /\ Cardinality(DOMAIN EmptyMap) = 0
<1>1. DOMAIN EmptyMap = {}
  BY DEF EmptyMap
<1>2. EmptyMap \in Maps
  BY <1>1, MapsAre DEF EmptyMap
<1> QED BY <1>1, <1>2, FS_EmptySet

LEMMA RestIsMap ==
  ASSUME batch \in Maps
  PROVE  Rest \in Maps
<1> DEFINE S == DOMAIN batch \ {Min(DOMAIN batch)}
<1>1. S \subseteq DOMAIN batch
  OBVIOUS
<1> HIDE DEF S
<1>2. Restrict(batch, S) = [k \in S |-> batch[k]]
  BY DEF Restrict
<1>3. Restrict(batch, S) \in Maps
  <2>1. /\ DOMAIN batch \subseteq 0 .. MaxSends + MaxCalls
        /\ \A k \in DOMAIN batch : batch[k] \in Event
    BY MapsAre
  <2>2. DOMAIN Restrict(batch, S) = S /\ \A k \in S : Restrict(batch, S)[k] = batch[k]
    BY <1>2
  <2> QED BY <1>1, <1>2, <2>1, <2>2, MapsAre
<1> QED BY <1>3 DEF Rest, S

LEMMA OneMoreEach ==
  ASSUME NEW m \in Nat, NEW n \in Nat, NEW s \in Nat, NEW c \in Nat,
         NEW s1 \in Nat, NEW c1 \in Nat, m + n <= s + c, s1 + c1 = s + c + 1
  PROVE  (m + 1) + n <= s1 + c1
OBVIOUS

\* A call begins: it is one more, and its event is on its way to the map.
LEMMA BeginsInsert ==
  ASSUME MapInv, NEW u \in Users, NEW ev \in Event, pc[u] = Idle,
         pc' = [pc EXCEPT ![u] = <<"insert", ev>>], UNCHANGED <<works, batch>>,
         sends' \in 0 .. MaxSends, calls' \in 0 .. MaxCalls,
         sends' + calls' = sends + calls + 1
  PROVE  MapInv'
<1>1. pc' \in [Users -> Position]
  BY DEF MapInv, Position
<1>2. Inserting' = Inserting \cup {u} /\ u \notin Inserting
  BY DEF Inserting, MapInv, Idle
<1> DEFINE m == Cardinality(Inserting)
           n == Cardinality(DOMAIN works)
<1>3. m \in Nat /\ n \in Nat /\ m + n <= sends + calls
  BY FS_CardinalityType DEF MapInv
<1>4. IsFiniteSet(Inserting') /\ Cardinality(Inserting') = m + 1
  BY <1>2, FS_AddElement DEF MapInv
<1>5. /\ sends \in Nat /\ calls \in Nat
      /\ sends' \in Nat /\ calls' \in Nat
  BY CppAssumption DEF MapInv
<1> HIDE DEF m, n
<1>6. (m + 1) + n <= sends' + calls'
  BY <1>3, <1>5, OneMoreEach, Zenon
<1> QED BY <1>1, <1>4, <1>6 DEF MapInv, n

LEMMA InsertMapInv ==
  ASSUME MapInv, NEW u \in Users, Insert(u)
  PROVE  MapInv'
<1>1. PICK ev \in Event : pc[u] = <<"insert", ev>>
  BY DEF Insert, MapInv, Position, Idle
<1>2. PICK k : k = Key(ev)
  OBVIOUS
<1>3. /\ works' = [j \in DOMAIN works \cup {k} |-> IF j \in DOMAIN works THEN works[j] ELSE ev]
      /\ pc' = [pc EXCEPT ![u] = <<"notify", ev>>]
      /\ UNCHANGED <<batch, sends, calls>>
  BY <1>1, <1>2 DEF Insert
<1>4. pc' \in [Users -> Position]
  BY <1>3 DEF MapInv, Position
<1>5. Inserting' = Inserting \ {u} /\ u \in Inserting
  BY <1>1, <1>3 DEF Inserting, MapInv
<1> DEFINE m == Cardinality(Inserting)
           n == Cardinality(DOMAIN works)
<1>6. m \in Nat /\ n \in Nat /\ m + n <= sends + calls
  BY FS_CardinalityType DEF MapInv
<1>7. /\ IsFiniteSet(Inserting') /\ Cardinality(Inserting') = m - 1
      /\ m > 0
  <2>1. Inserting # {} /\ IsFiniteSet(Inserting)
    BY <1>5 DEF MapInv
  <2>2. m # 0
    BY <2>1, FS_EmptySet
  <2> QED BY <1>5, <1>6, <2>1, <2>2, FS_RemoveElement
<1>8. DOMAIN works' = DOMAIN works \cup {k}
  BY <1>3
<1>9. /\ IsFiniteSet(DOMAIN works')
      /\ Cardinality(DOMAIN works') \in {n, n + 1}
  <2>1. IsFiniteSet(DOMAIN works)
    BY DEF MapInv
  <2>2. CASE k \in DOMAIN works
    <3>1. DOMAIN works' = DOMAIN works
      BY <1>8, <2>2
    <3> QED BY <2>1, <3>1
  <2>3. CASE k \notin DOMAIN works
    BY <1>8, <2>1, <2>3, FS_AddElement
  <2> QED BY <2>2, <2>3
<1>10. sends \in Nat /\ calls \in Nat /\ sends <= MaxSends /\ calls <= MaxCalls
       /\ MaxSends \in Nat /\ MaxCalls \in Nat
  BY CppAssumption DEF MapInv
<1>11. k \in 0 .. MaxSends + MaxCalls
  <2>1. k \in {0, 1, n}
    BY <1>2 DEF Key, HIGH, MEDIUM, Event
  <2> HIDE DEF m, n
  <2>2. 1 <= sends + calls /\ n <= sends + calls
    BY <1>6, <1>7, <1>10
  <2> QED BY <1>6, <1>10, <2>1, <2>2
<1>12. works' \in Maps
  <2>1. /\ DOMAIN works \subseteq 0 .. MaxSends + MaxCalls
        /\ \A j \in DOMAIN works : works[j] \in Event
    BY MapsAre DEF MapInv
  <2>2. \A j \in DOMAIN works' : works'[j] \in Event
    BY <1>3, <1>8, <2>1
  <2>3. DOMAIN works' \subseteq 0 .. MaxSends + MaxCalls
    BY <1>8, <1>11, <2>1
  <2>4. works' = [j \in DOMAIN works' |-> works'[j]]
    BY <1>3, <1>8
  <2> QED BY <2>2, <2>3, <2>4, MapsAre
<1> HIDE DEF m, n
<1>13. Cardinality(Inserting') + Cardinality(DOMAIN works') <= sends' + calls'
  BY <1>3, <1>6, <1>7, <1>9, <1>10
<1> QED BY <1>3, <1>4, <1>7, <1>9, <1>12, <1>13 DEF MapInv

LEMMA InitMapInv == Init => MapInv
<1> SUFFICES ASSUME Init PROVE MapInv
  OBVIOUS
<1>1. 0 \in 0 .. MaxSends /\ 0 \in 0 .. MaxCalls
  BY CppAssumption
<1>2. pc \in [Users -> Position]
  BY DEF Init, Position
<1>3. Inserting = {}
  BY DEF Init, Inserting, Idle
<1>4. IsFiniteSet({}) /\ Cardinality({}) = 0 /\ 0 + 0 <= 0 + 0
  BY FS_EmptySet
<1>5. works = EmptyMap /\ batch = EmptyMap /\ sends = 0 /\ calls = 0
  BY DEF Init
<1>6. Cardinality(Inserting) + Cardinality(DOMAIN works) <= sends + calls
  BY <1>3, <1>4, <1>5, EmptyMapIs
<1> QED BY <1>1, <1>2, <1>3, <1>4, <1>5, <1>6, EmptyMapIs DEF MapInv

LEMMA NextMapInv ==
  ASSUME MapInv, [Next]_vars
  PROVE  MapInv'
<1>0. /\ sends \in Nat /\ calls \in Nat /\ MaxSends \in Nat /\ MaxCalls \in Nat
      /\ sends <= MaxSends /\ calls <= MaxCalls
  BY CppAssumption DEF MapInv
<1>1. CASE UNCHANGED <<works, pc, sends, calls>> /\ batch' \in Maps
  BY <1>1 DEF MapInv, Inserting
<1>2. ASSUME NEW u \in Users, Send(u)
      PROVE  MapInv'
  <2>1. /\ sends' = sends + 1 /\ calls' = calls /\ sends < MaxSends
        /\ UNCHANGED <<works, batch>>
        /\ pc[u] = Idle /\ pc' = [pc EXCEPT ![u] = <<"insert", "EV_SEND">>]
    BY <1>2 DEF Send, workVars
  <2>2. /\ sends' \in 0 .. MaxSends /\ calls' \in 0 .. MaxCalls
        /\ sends' + calls' = sends + calls + 1
    BY <1>0, <2>1
  <2> QED BY <2>1, <2>2, BeginsInsert DEF Event
<1>3. ASSUME NEW u \in Users, NEW ev \in Event, CloseOrStop(u, ev)
      PROVE  MapInv'
  <2>1. /\ sends' = sends /\ calls' = calls + 1 /\ calls < MaxCalls
        /\ UNCHANGED <<works, batch>>
        /\ pc[u] = Idle /\ pc' = [pc EXCEPT ![u] = <<"insert", ev>>]
    BY <1>3 DEF CloseOrStop, workVars
  <2>2. /\ sends' \in 0 .. MaxSends /\ calls' \in 0 .. MaxCalls
        /\ sends' + calls' = sends + calls + 1
    BY <1>0, <2>1
  <2> QED BY <2>1, <2>2, BeginsInsert
<1>4. ASSUME NEW u \in Users, SetAutoReconnect(u)
      PROVE  MapInv'
  <2>1. /\ sends' = sends /\ calls' = calls + 1 /\ calls < MaxCalls
        /\ UNCHANGED <<works, batch, pc>>
    BY <1>4 DEF SetAutoReconnect, workVars
  <2>2. Inserting' = Inserting /\ DOMAIN works' = DOMAIN works
    BY <2>1 DEF Inserting
  <2>3. Cardinality(Inserting) \in Nat /\ Cardinality(DOMAIN works) \in Nat
    BY FS_CardinalityType DEF MapInv
  <2>4. Cardinality(Inserting') + Cardinality(DOMAIN works') <= sends' + calls'
    BY <1>0, <2>1, <2>2, <2>3 DEF MapInv
  <2>5. calls' \in 0 .. MaxCalls
    BY <1>0, <2>1
  <2> QED BY <2>1, <2>2, <2>4, <2>5 DEF MapInv
<1>5. ASSUME NEW u \in Users, Insert(u)
      PROVE  MapInv'
  BY <1>5, InsertMapInv
<1>6. ASSUME NEW u \in Users, Notify(u)
      PROVE  MapInv'
  <2>1. /\ UNCHANGED <<works, batch, sends, calls>>
        /\ pc[u][1] = "notify" /\ pc' = [pc EXCEPT ![u] = Idle]
    BY <1>6, Zenon DEF Notify
  <2>2. pc' \in [Users -> Position]
    BY <2>1 DEF MapInv, Position
  <2>3. Inserting' = Inserting
    BY <2>1 DEF MapInv, Inserting, Idle
  <2> QED BY <2>1, <2>2, <2>3 DEF MapInv
<1>7. CASE AsyncCallback
  <2>1. /\ works' = EmptyMap /\ batch' = works /\ UNCHANGED <<pc, sends, calls>>
    BY <1>7 DEF AsyncCallback, userVars
  <2>2. Inserting' = Inserting
    BY <2>1 DEF Inserting
  <2>3. Cardinality(Inserting) \in Nat /\ Cardinality(DOMAIN works) \in Nat
    BY FS_CardinalityType DEF MapInv
  <2>4. IsFiniteSet(DOMAIN works') /\ Cardinality(DOMAIN works') = 0
    BY <2>1, EmptyMapIs, FS_EmptySet
  <2>5. Cardinality(Inserting') + Cardinality(DOMAIN works') <= sends' + calls'
    BY <1>0, <2>1, <2>2, <2>3, <2>4 DEF MapInv
  <2> QED BY <2>1, <2>2, <2>4, <2>5, EmptyMapIs DEF MapInv
<1>8. CASE HandleEvent
  BY <1>1, <1>8, RestIsMap, EmptyMapIs, Zenon
     DEF HandleEvent, Write, HandleClose, HandleStop, userVars, MapInv
<1>9. CASE AsyncClosed \/ ReadData \/ ReadFails \/ CloseCallback \/ UvRunReturns \/ UNCHANGED vars
  BY <1>1, <1>9, Zenon DEF AsyncClosed, ReadData, ReadFails, CloseCallback, UvRunReturns, workVars,
                    userVars, vars, MapInv
<1>10. ASSUME NEW ok \in BOOLEAN, ConnectCallback(ok)
       PROVE  MapInv'
  BY <1>1, <1>10 DEF ConnectCallback, workVars, userVars, MapInv
<1> QED
  BY <1>2, <1>3, <1>4, <1>5, <1>6, <1>7, <1>8, <1>9, <1>10 DEF Next

-----------------------------------------------------------------------------
(* The keys of the events.                                                 *)

\* A stop is only ever stored under HIGH and a close under MEDIUM, although
\* an EV_SEND can take either key.
Keyed(m) ==
  \A k \in DOMAIN m : /\ m[k] = "EV_STOP_LOOP"  => k = HIGH
                      /\ m[k] = "EV_CLOSE_CONN" => k = MEDIUM

KeyInv == Keyed(works) /\ Keyed(batch)

\* A close ends the handling of a batch, with what is left of it, but no stop
\* is among that: its key is lower, so that it was handled first (uvcpp.cpp:114,
\* 133-149).
CloseDropsNoStop ==
  [][HandleClose => \A k \in DOMAIN batch : batch[k] # "EV_STOP_LOOP"]_vars

LEMMA LowestKey ==
  ASSUME NEW S \in SUBSET Nat, 0 \in S
  PROVE  Min(S) = 0
<1> DEFINE P(x) == x \in S /\ \A y \in S : x <= y
<1>1. P(0)
  OBVIOUS
<1>2. \A x : P(x) => x = 0
  OBVIOUS
<1>3. Min(S) = CHOOSE x : P(x)
  BY DEF Min
<1> HIDE DEF P
<1> QED BY <1>1, <1>2, <1>3

LEMMA RestIsKeyed ==
  ASSUME Keyed(batch)
  PROVE  Keyed(Rest)
<1> DEFINE S == DOMAIN batch \ {Min(DOMAIN batch)}
<1>1. S \subseteq DOMAIN batch /\ Rest = [k \in S |-> batch[k]]
  BY DEF Rest, Restrict
<1> HIDE DEF S
<1>2. DOMAIN Rest = S /\ \A k \in S : Rest[k] = batch[k]
  BY <1>1
<1> QED BY <1>1, <1>2 DEF Keyed

LEMMA EmptyIsKeyed == Keyed(EmptyMap)
BY EmptyMapIs DEF Keyed

LEMMA InsertKeyed ==
  ASSUME NEW u \in Users, Insert(u), Keyed(works)
  PROVE  Keyed(works')
<1>1. PICK ev, k : /\ ev = pc[u][2] /\ k = Key(ev)
                   /\ works' = [j \in DOMAIN works \cup {k} |->
                                  IF j \in DOMAIN works THEN works[j] ELSE ev]
  BY DEF Insert
<1>2. (ev = "EV_STOP_LOOP" => k = HIGH) /\ (ev = "EV_CLOSE_CONN" => k = MEDIUM)
  BY <1>1 DEF Key
<1>3. /\ DOMAIN works' = DOMAIN works \cup {k}
      /\ \A j \in DOMAIN works' : \/ j \in DOMAIN works /\ works'[j] = works[j]
                                  \/ j = k /\ works'[j] = ev
  BY <1>1
<1> QED BY <1>2, <1>3 DEF Keyed

LEMMA NextKeyInv ==
  ASSUME KeyInv, [Next]_vars
  PROVE  KeyInv'
<1>1. CASE UNCHANGED <<works, batch>>
  BY <1>1 DEF KeyInv, Keyed
<1>2. ASSUME NEW u \in Users, Insert(u)
      PROVE  KeyInv'
  <2>1. batch' = batch
    BY <1>2 DEF Insert
  <2> QED BY <1>2, <2>1, InsertKeyed DEF KeyInv, Keyed
<1>3. ASSUME NEW u \in Users,
             Send(u) \/ SetAutoReconnect(u) \/ \E ev \in Event : CloseOrStop(u, ev)
      PROVE  UNCHANGED <<works, batch>>
  BY <1>3 DEF Send, SetAutoReconnect, CloseOrStop, workVars
<1>4. ASSUME NEW u \in Users, Notify(u)
      PROVE  UNCHANGED <<works, batch>>
  BY <1>4, Zenon DEF Notify
<1>5. CASE AsyncCallback
  BY <1>5, EmptyIsKeyed DEF AsyncCallback, KeyInv
<1>6. CASE HandleEvent
  <2>1. UNCHANGED works /\ (batch' = Rest \/ batch' = EmptyMap)
    BY <1>6, Zenon DEF HandleEvent, Write, HandleClose, HandleStop
  <2> QED BY <2>1, RestIsKeyed, EmptyIsKeyed DEF KeyInv
<1>7. ASSUME NEW ok \in BOOLEAN, ConnectCallback(ok)
      PROVE  UNCHANGED <<works, batch>>
  BY <1>7 DEF ConnectCallback, workVars
<1>8. CASE AsyncClosed \/ ReadData \/ ReadFails \/ CloseCallback \/ UvRunReturns \/ UNCHANGED vars
  <2>1. UNCHANGED <<works, batch>>
    BY <1>8, Zenon DEF AsyncClosed, ReadData, ReadFails, CloseCallback, UvRunReturns, workVars, vars
  <2> QED BY <1>1, <2>1
<1> QED BY <1>1, <1>2, <1>3, <1>4, <1>5, <1>6, <1>7, <1>8 DEF Next

\* What a user asked for with stop is not lost to a close in the same batch.
THEOREM StopsAreHandled == Spec => CloseDropsNoStop
<1>1. Init => KeyInv
  BY EmptyIsKeyed DEF Init, KeyInv
<1>2. MapInv /\ KeyInv /\ [Next]_vars =>
        [HandleClose => \A k \in DOMAIN batch : batch[k] # "EV_STOP_LOOP"]_vars
  <2> SUFFICES ASSUME MapInv, KeyInv, HandleClose, NEW k \in DOMAIN batch,
                      batch[k] = "EV_STOP_LOOP"
               PROVE  FALSE
    BY Zenon
  <2>1. 0 \in DOMAIN batch /\ batch[0] = "EV_STOP_LOOP"
    BY DEF KeyInv, Keyed, HIGH
  <2>2. DOMAIN batch \subseteq Nat
    BY MapsAre DEF MapInv
  <2>3. Min(DOMAIN batch) = 0
    BY <2>1, <2>2, LowestKey
  <2>4. batch[Min(DOMAIN batch)] = "EV_CLOSE_CONN"
    BY Zenon DEF HandleClose, Next1
  <2> QED BY <2>1, <2>3, <2>4
<1> QED BY <1>1, <1>2, InitMapInv, NextMapInv, NextKeyInv, PTL DEF Spec, CloseDropsNoStop

-----------------------------------------------------------------------------
(* The types.                                                              *)

\* What can be misused.
Misuses == {"null", "double close", "async gone", "no data"}

ByteTypes == sendBuf \in Seq(1 .. MaxSends) /\ wire \in Seq(1 .. MaxSends)

FlagTypes ==
  /\ pending \in BOOLEAN /\ async \in {"active", "closing", "closed"}
  /\ statusNormal \in BOOLEAN /\ autoReconnect \in BOOLEAN /\ tcpHandle \in BOOLEAN
  /\ tcp \in {"connecting", "inert", "open", "failed", "closing", "closed"}
  /\ ownData \in BOOLEAN
  /\ loop \in {"running", "stopping", "ended"}

MisuseTypes == misused \subseteq Misuses

LEMMA NextByteTypes ==
  ASSUME MapInv, ByteTypes, [Next]_vars
  PROVE  ByteTypes'
<1>1. CASE UNCHANGED <<wire, sendBuf>>
  BY <1>1 DEF ByteTypes
<1>2. ASSUME NEW u \in Users, Send(u)
      PROVE  ByteTypes'
  <2>1. /\ sends < MaxSends /\ wire' = wire /\ sendBuf' = Append(sendBuf, sends + 1)
    BY <1>2 DEF Send
  <2>2. sends + 1 \in 1 .. MaxSends
    BY <2>1, CppAssumption DEF MapInv
  <2>3. Append(sendBuf, sends + 1) \in Seq(1 .. MaxSends)
    BY <2>2, AppendProperties DEF ByteTypes
  <2> QED BY <2>1, <2>3 DEF ByteTypes
<1>3. CASE Write
  <2>1. PICK n \in 0 .. Len(sendBuf) :
          wire' = wire \o Taken(sendBuf, n) /\ sendBuf' = Remaining(sendBuf, n)
    BY <1>3 DEF Write, Taken, Remaining
  <2> QED BY <2>1, MoveFront DEF ByteTypes
<1>4. ASSUME NEW u \in Users,
             \/ Insert(u) \/ Notify(u) \/ SetAutoReconnect(u)
             \/ \E ev \in Event : CloseOrStop(u, ev)
      PROVE  UNCHANGED <<wire, sendBuf>>
  BY <1>4, Zenon DEF Insert, Notify, SetAutoReconnect, CloseOrStop, dataVars
<1>5. AsyncCallback \/ HandleClose \/ HandleStop \/ AsyncClosed \/ ReadData
        \/ ReadFails \/ CloseCallback \/ UvRunReturns \/ UNCHANGED vars
         => UNCHANGED <<wire, sendBuf>>
  BY Zenon DEF AsyncCallback, HandleClose, HandleStop, AsyncClosed, ReadData, ReadFails,
         CloseCallback, UvRunReturns, vars, dataVars
<1>6. (\E ok \in BOOLEAN : ConnectCallback(ok)) => UNCHANGED <<wire, sendBuf>>
  BY DEF ConnectCallback, dataVars
<1> QED
  BY <1>1, <1>2, <1>3, <1>4, <1>5, <1>6, Zenon DEF Next, HandleEvent

LEMMA InnerCloseTypes ==
  ASSUME InnerClose
  PROVE  /\ statusNormal' \in {statusNormal, FALSE} /\ tcp' \in {tcp, "closing"}
         /\ ownData' \in {ownData, TRUE} /\ tcpHandle' = tcpHandle
         /\ misused' \subseteq misused \cup Misuses
<1>1. CASE ~statusNormal
  BY <1>1, Zenon DEF InnerClose, connVars
<1>2. CASE statusNormal
  <2>1. /\ statusNormal' = FALSE /\ tcp' = "closing" /\ ownData' = TRUE
        /\ tcpHandle' = tcpHandle
    BY <1>2, Zenon DEF InnerClose
  <2>2. misused' = misused \cup (IF ~tcpHandle THEN {"null"} ELSE {})
                     \cup (IF tcp \in {"closing", "closed"} THEN {"double close"} ELSE {})
    BY <1>2, Zenon DEF InnerClose
  <2>3. "null" \in Misuses /\ "double close" \in Misuses
    BY Zenon DEF Misuses
  <2>4. misused' \subseteq misused \cup Misuses
    BY <2>2, <2>3, Zenon
  <2> QED BY <2>1, <2>4, Zenon
<1> QED BY <1>1, <1>2, Zenon

LEMMA NextFlagTypes ==
  ASSUME FlagTypes, MisuseTypes, [Next]_vars
  PROVE  FlagTypes' /\ MisuseTypes'
<1>1. CASE UNCHANGED <<pending, async, connVars, autoReconnect, loop>>
  BY <1>1, Zenon DEF FlagTypes, MisuseTypes, connVars
<1>2. ASSUME NEW u \in Users,
             \/ Send(u) \/ Insert(u)
             \/ \E ev \in Event : CloseOrStop(u, ev)
      PROVE  UNCHANGED <<pending, async, connVars, autoReconnect, loop>>
  BY <1>2, Zenon DEF Send, Insert, CloseOrStop, workVars
<1>3. ASSUME NEW u \in Users, SetAutoReconnect(u)
      PROVE  FlagTypes' /\ MisuseTypes'
  <2>1. autoReconnect' = ~autoReconnect
        /\ UNCHANGED <<pending, async, connVars, loop>>
    BY <1>3, Zenon DEF SetAutoReconnect, workVars
  <2>2. autoReconnect' \in BOOLEAN
    BY <2>1, Zenon
  <2> QED BY <2>1, <2>2, Zenon DEF FlagTypes, MisuseTypes, connVars
<1>4. ASSUME NEW u \in Users, Notify(u)
      PROVE  FlagTypes' /\ MisuseTypes'
  <2>1. /\ pending' = TRUE
        /\ UNCHANGED <<async, statusNormal, tcpHandle, tcp, ownData, autoReconnect, loop>>
    BY <1>4, Zenon DEF Notify
  <2>2. misused' = misused \cup (IF async = "closed" THEN {"async gone"} ELSE {})
    BY <1>4, Zenon DEF Notify
  <2>3. "async gone" \in Misuses
    BY Zenon DEF Misuses
  <2>4. misused' \subseteq Misuses
    BY <2>2, <2>3, Zenon DEF MisuseTypes
  <2> QED BY <2>1, <2>4, Zenon DEF FlagTypes, MisuseTypes
<1>5. CASE AsyncCallback
  BY <1>5, Zenon DEF AsyncCallback, FlagTypes, MisuseTypes, connVars
<1>6. CASE Write
  <2>1. /\ UNCHANGED <<pending, async, statusNormal, tcpHandle, tcp, ownData, autoReconnect, loop>>
        /\ misused' = misused \cup (IF sendBuf # <<>> /\ ~tcpHandle THEN {"null"} ELSE {})
    BY <1>6, Zenon DEF Write
  <2>2. "null" \in Misuses
    BY Zenon DEF Misuses
  <2>3. misused' \subseteq Misuses
    BY <2>1, <2>2, Zenon DEF MisuseTypes
  <2> QED BY <2>1, <2>3, Zenon DEF FlagTypes, MisuseTypes
<1>7. CASE HandleClose \/ ReadFails
  <2>1. InnerClose /\ UNCHANGED <<pending, async, autoReconnect, loop>>
    BY <1>7, Zenon DEF HandleClose, ReadFails, workVars
  <2> QED BY <2>1, InnerCloseTypes, Zenon DEF FlagTypes, MisuseTypes
<1>8. CASE HandleStop
  <2>1. /\ InnerClose /\ UNCHANGED <<pending, autoReconnect>>
        /\ async' = "closing" /\ loop' = "stopping"
    BY <1>8, Zenon DEF HandleStop
  <2> QED BY <2>1, InnerCloseTypes, Zenon DEF FlagTypes, MisuseTypes
<1>9. CASE AsyncClosed
  BY <1>9, Zenon DEF AsyncClosed, FlagTypes, MisuseTypes, connVars
<1>10. ASSUME NEW ok \in BOOLEAN, ConnectCallback(ok)
       PROVE  FlagTypes' /\ MisuseTypes'
  BY <1>10, Zenon DEF ConnectCallback, FlagTypes, MisuseTypes, workVars
<1>11. CASE ReadData
  <2>1. /\ UNCHANGED <<pending, async, statusNormal, tcpHandle, tcp, ownData, autoReconnect, loop>>
        /\ misused' = misused \cup (IF ownData THEN {} ELSE {"no data"})
    BY <1>11, Zenon DEF ReadData, workVars
  <2>2. "no data" \in Misuses
    BY Zenon DEF Misuses
  <2>3. misused' \subseteq Misuses
    BY <2>1, <2>2, Zenon DEF MisuseTypes
  <2> QED BY <2>1, <2>3, Zenon DEF FlagTypes, MisuseTypes
<1>12. CASE CloseCallback
  <2>1. /\ UNCHANGED <<pending, async, statusNormal, ownData, misused, autoReconnect, loop>>
        /\ tcpHandle' = FALSE
        /\ tcp' \in IF autoReconnect /\ ~isLoopStop THEN {"connecting", "inert"} ELSE {"closed"}
    BY <1>12, Zenon DEF CloseCallback, workVars
  <2>2. tcp' \in {"connecting", "inert", "closed"}
    BY <2>1, Zenon
  <2> QED BY <2>1, <2>2, Zenon DEF FlagTypes, MisuseTypes
<1>13. CASE UvRunReturns
  BY <1>13, Zenon DEF UvRunReturns, FlagTypes, MisuseTypes, workVars, connVars
<1>14. UNCHANGED vars => UNCHANGED <<pending, async, connVars, autoReconnect, loop>>
  BY Zenon DEF vars, workVars
<1> QED
  BY <1>1, <1>2, <1>3, <1>4, <1>5, <1>6, <1>7, <1>8, <1>9, <1>10, <1>11, <1>12,
     <1>13, <1>14, Zenon DEF Next, HandleEvent

\* The types of all of UvCpp; that the keys of the map of events are bounded
\* takes the counting of MapInv (uvcpp.cpp:99-117).
THEOREM TypeCorrect == Spec => []TypeOK
<1> DEFINE Inv == MapInv /\ ByteTypes /\ FlagTypes /\ MisuseTypes
<1>1. Init => Inv
  <2> SUFFICES ASSUME Init PROVE Inv
    OBVIOUS
  <2>1. ByteTypes
    BY EmptySeq DEF Init, ByteTypes
  <2>2. FlagTypes /\ MisuseTypes
    BY Zenon DEF Init, FlagTypes, MisuseTypes
  <2> QED BY <2>1, <2>2, InitMapInv
<1>2. Inv /\ [Next]_vars => Inv'
  BY NextMapInv, NextByteTypes, NextFlagTypes, Zenon
<1>3. Inv => TypeOK
  BY Zenon DEF MapInv, Position, ByteTypes, FlagTypes, MisuseTypes, Misuses, TypeOK
<1> QED BY <1>1, <1>2, <1>3, PTL DEF Spec

-----------------------------------------------------------------------------
(* The send buffer: unsigned arithmetic.                                   *)

\* What wrapping does to a number that is at most one turn below zero, in
\* range, or up to three turns above.
LEMMA WrapTurns ==
  ASSUME NEW n \in Int
  PROVE  /\ -UINT <= n /\ n < 0 => Wrap(n) = n + UINT
         /\ 0 <= n /\ n < UINT => Wrap(n) = n
         /\ 2 * UINT <= n /\ n < 3 * UINT => Wrap(n) = n - 2 * UINT
         /\ Wrap(n) \in UnsignedInt
<1>1. UINT \in Nat /\ UINT > 0
  BY SendAssumption
<1> QED BY <1>1, SMTT(30) DEF Wrap, UnsignedInt

\* A piece of at most a third of the recorded size, for which there is no
\* room: allocSendBuf makes the size twice what is left of it without the piece.
LEMMA NewSizeOfNegative ==
  ASSUME _sendLen \in Nat, _sendOffset \in Nat, NEW len \in Nat,
         3 * len <= _sendLen, _sendOffset <= _sendLen,
         _sendOffset + len > _sendLen, _sendOffset + len <= MaxPending
  PROVE  NewSize(Wrap(_sendLen - len - _sendOffset)) = 2 * (_sendLen - len)
<1> DEFINE need == _sendLen - len - _sendOffset
<1>1. UINT \in Nat /\ MaxPending \in Nat /\ 2 * MaxPending <= UINT
  BY SendAssumption DEF BUFFER_INCREASE_FACTOR
<1>2. need \in Int /\ -UINT <= need /\ need < 0
  BY <1>1
<1>3. Wrap(need) = need + UINT
  BY <1>2, WrapTurns
<1> DEFINE product == (_sendOffset + (need + UINT)) * 2
<1>4. product = 2 * (_sendLen - len) + 2 * UINT
  BY <1>1
<1>5. product \in Int /\ 2 * UINT <= product /\ product < 3 * UINT
  BY <1>1, <1>4
<1>6. Wrap(product) = product - 2 * UINT
  BY <1>5, WrapTurns
<1>7. product - 2 * UINT = 2 * (_sendLen - len)
  BY <1>1, <1>4
<1> QED BY <1>3, <1>6, <1>7 DEF NewSize, BUFFER_INCREASE_FACTOR

-----------------------------------------------------------------------------
(* The send buffer: the invariant.                                         *)

\* The recorded size never falls below the first one, so that a third of the
\* first is a third of it; it stays below UINT because all numbers do.
SizeInv ==
  /\ _sendLen \in UnsignedInt /\ _sendOffset \in UnsignedInt /\ room \in UnsignedInt
  /\ careful => /\ DEFAULT_BUFFER_LEN <= _sendLen
                /\ _sendOffset <= _sendLen
                /\ fault # "overrun"
                /\ fault = "none" => room = _sendLen

LEMMA InitSizeInv == BufferInit => SizeInv
BY SendAssumption DEF BufferInit, SizeInv, UnsignedInt

LEMMA CarefulSend ==
  ASSUME SizeInv, careful, NEW len \in UnsignedInt \ {0}, send(len)
  PROVE  /\ _sendLen <= _sendLen' /\ _sendOffset' <= _sendLen'
         /\ fault' # "overrun"
         /\ fault' = "none" => room' = _sendLen'
<1>1. /\ _sendLen \in Nat /\ _sendOffset \in Nat /\ len \in Nat /\ room = _sendLen
      /\ DEFAULT_BUFFER_LEN \in Nat /\ UINT \in Nat /\ MaxPending \in Nat
      /\ 2 * MaxPending <= UINT
      /\ DEFAULT_BUFFER_LEN <= _sendLen /\ _sendOffset <= _sendLen
      /\ 3 * len <= DEFAULT_BUFFER_LEN /\ _sendOffset + len <= MaxPending
  BY SendAssumption DEF SizeInv, send, UnsignedInt, BUFFER_INCREASE_FACTOR
<1>2. 0 <= _sendOffset + len /\ _sendOffset + len < UINT
  <2>1. len > 0
    BY DEF UnsignedInt
  <2> QED BY <1>1, <2>1
<1>3. Wrap(_sendOffset + len) = _sendOffset + len /\ Wrap(len + _sendOffset) = _sendOffset + len
  BY <1>1, <1>2, WrapTurns
<1>4. _sendOffset' = _sendOffset + len
  BY <1>3 DEF send
<1>5. PICK block \in BlockFor(len) :
        /\ _sendLen' = block.len /\ room' = block.room
        /\ fault' = IF block.fault = "none" /\ _sendOffset + len > block.room
                    THEN "overrun" ELSE block.fault
  BY DEF send
<1>6. CASE ~Full(len)
  <2>1. block = Allocated(_sendLen, room, "none")
    BY <1>5, <1>6 DEF BlockFor
  <2>2. _sendOffset + len <= _sendLen
    BY <1>1, <1>3, <1>6 DEF Full
  <2> QED BY <1>1, <1>4, <1>5, <2>1, <2>2 DEF Allocated
<1>7. CASE Full(len)
  <2>0. PICK doubled \in Int : doubled = 2 * (_sendLen - len)
    BY <1>1
  <2>1. _sendOffset + len > _sendLen
    BY <1>1, <1>3, <1>7 DEF Full
  <2>2. NewSize(Wrap(_sendLen - len - _sendOffset)) = doubled
    BY <1>1, <2>0, <2>1, NewSizeOfNegative
  <2>3. _sendLen <= doubled /\ _sendOffset + len <= doubled /\ doubled > 0
    BY <1>1, <2>0, <2>1
  <2>4. ~(doubled < _sendOffset) /\ doubled # 0
    BY <1>1, <2>3
  <2>5. \E outcome \in {"in place", "moved", "failed"} :
          block = Allocated(doubled, doubled,
                    CASE outcome = "moved" \/ doubled = 0 -> "use after free"
                      [] outcome = "failed" /\ doubled < _sendOffset -> "overrun"
                      [] OTHER -> "none")
    BY <1>5, <1>7, <2>2 DEF BlockFor, allocSendBuf
  <2>6. /\ block.len = doubled /\ block.room = doubled
        /\ block.fault \in {"use after free", "none"}
    <3>1. PICK outcome \in {"in place", "moved", "failed"} :
            block = Allocated(doubled, doubled,
                      CASE outcome = "moved" \/ doubled = 0 -> "use after free"
                        [] outcome = "failed" /\ doubled < _sendOffset -> "overrun"
                        [] OTHER -> "none")
      BY <2>5
    <3>2. CASE outcome = "moved"
      BY <2>4, <3>1, <3>2 DEF Allocated
    <3>3. CASE outcome # "moved"
      BY <2>4, <3>1, <3>3 DEF Allocated
    <3> QED BY <3>2, <3>3
  <2>7. _sendLen' = doubled /\ room' = doubled
    BY <1>5, <2>6
  <2>8. fault' \in {"use after free", "none"}
    <3>1. ~(_sendOffset + len > doubled)
      BY <1>1, <2>3
    <3> QED BY <1>5, <2>6, <3>1
  <2> QED BY <1>4, <2>3, <2>7, <2>8
<1> QED BY <1>6, <1>7

LEMMA NextSizeInv ==
  ASSUME SizeInv, [BufferNext]_bufferVars
  PROVE  SizeInv' /\ (careful => _sendLen <= _sendLen')
<1>1. CASE UNCHANGED bufferVars
  BY <1>1 DEF bufferVars, SizeInv, UnsignedInt
<1>2. ASSUME NEW n \in UnsignedInt \ {0}, send(n)
      PROVE  SizeInv' /\ (careful => _sendLen <= _sendLen')
  <2>1. /\ _sendLen' \in UnsignedInt /\ room' \in UnsignedInt
        /\ _sendOffset' \in UnsignedInt /\ careful' = careful
    <3>1. PICK block \in BlockFor(n) : _sendLen' = block.len /\ room' = block.room
      BY <1>2 DEF send
    <3>2. \A need \in Int : NewSize(need) \in UnsignedInt
      BY WrapTurns DEF NewSize, SizeInv, UnsignedInt, BUFFER_INCREASE_FACTOR
    <3>3. Wrap(_sendLen - n - _sendOffset) \in Int
      BY WrapTurns DEF SizeInv, UnsignedInt
    <3>4. block.len \in UnsignedInt /\ block.room \in UnsignedInt
      <4>1. CASE Full(n)
        <5>1. PICK outcome \in {"in place", "moved", "failed"} :
                block = allocSendBuf(Wrap(_sendLen - n - _sendOffset), outcome)
          BY <4>1 DEF BlockFor
        <5>2. PICK new \in UnsignedInt :
                new = NewSize(Wrap(_sendLen - n - _sendOffset))
          BY <3>2, <3>3
        <5> QED BY <5>1, <5>2 DEF allocSendBuf, Allocated
      <4>2. CASE ~Full(n)
        BY <4>2 DEF BlockFor, Allocated, SizeInv
      <4> QED BY <4>1, <4>2
    <3>5. _sendOffset + n \in Int
      BY DEF SizeInv, UnsignedInt
    <3> QED BY <1>2, <3>1, <3>4, <3>5, WrapTurns DEF send
  <2>2. CASE careful
    <3>1. _sendLen \in Nat /\ _sendLen' \in Nat /\ DEFAULT_BUFFER_LEN \in Nat
      BY <2>1, SendAssumption DEF SizeInv, UnsignedInt
    <3> QED BY <1>2, <2>1, <2>2, <3>1, CarefulSend DEF SizeInv
  <2> QED BY <2>1, <2>2 DEF SizeInv
<1>3. ASSUME NEW n \in UnsignedInt \ {0}, write(n)
      PROVE  SizeInv' /\ (careful => _sendLen <= _sendLen')
  <2>1. /\ _sendOffset \in Nat /\ n \in Nat /\ n <= _sendOffset /\ UINT \in Nat
        /\ _sendOffset < UINT /\ _sendLen \in Nat
    BY <1>3, SendAssumption DEF write, SizeInv, UnsignedInt
  <2>2. _sendOffset' \in UnsignedInt /\ _sendOffset' <= _sendOffset
    BY <1>3, <2>1 DEF write, UnsignedInt
  <2>3. DEFAULT_BUFFER_LEN \in Nat
    BY SendAssumption
  <2> QED BY <1>3, <2>1, <2>2, <2>3 DEF write, SizeInv, UnsignedInt
<1> QED BY <1>1, <1>2, <1>3 DEF BufferNext

-----------------------------------------------------------------------------
(* The send buffer: the theorems.                                          *)

LEMMA SizeInvariant == BufferSpec => []SizeInv
BY InitSizeInv, NextSizeInv, PTL DEF BufferSpec

\* Pieces of at most a third of DEFAULT_BUFFER_LEN always fit in the block that
\* send appends them to (uvcpp.cpp:172-183, 195-206), although send asks
\* allocSendBuf for a negative number of bytes: as long as no realloc moves the
\* block, memcpy stays inside it.
THEOREM CarefulBytesFit == BufferSpec => []BytesFit
<1>1. SizeInv => BytesFit
  BY DEF SizeInv, BytesFit
<1> QED BY <1>1, SizeInvariant, PTL

\* And the buffer never gets smaller for such a user.
THEOREM BufferNeverShrinks == BufferSpec => NeverShrinks
<1>1. SizeInv /\ [BufferNext]_bufferVars => [careful => _sendLen <= _sendLen']_bufferVars
  BY NextSizeInv
<1> QED BY <1>1, SizeInvariant, PTL DEF BufferSpec, NeverShrinks

-----------------------------------------------------------------------------
(* The send buffer: the types.                                             *)

\* For every user: the block that send appends to is new, or was there.
LEMMA BlockFaults ==
  ASSUME NEW len, NEW block \in BlockFor(len)
  PROVE  block.fault \in {"none", "overrun", "use after free"}
<1>1. ASSUME NEW outcome \in {"in place", "moved", "failed"}
      PROVE  allocSendBuf(Wrap(_sendLen - len - _sendOffset), outcome).fault
               \in {"none", "overrun", "use after free"}
  BY Zenon DEF allocSendBuf, Allocated
<1>2. Allocated(_sendLen, room, "none").fault = "none"
  BY DEF Allocated
<1>3. CASE Full(len)
  BY <1>1, <1>3, Zenon DEF BlockFor
<1>4. CASE ~Full(len)
  BY <1>2, <1>4, Zenon DEF BlockFor
<1> QED BY <1>3, <1>4

\* The sizes stay unsigned ints, for careful users and for others.
THEOREM BufferTypeCorrect == BufferSpec => []BufferTypeOK
<1> DEFINE FaultOK == fault \in {"none", "overrun", "use after free"} /\ careful \in BOOLEAN
<1>1. BufferInit => FaultOK
  BY Zenon DEF BufferInit
<1>2. FaultOK /\ [BufferNext]_bufferVars => FaultOK'
  <2> SUFFICES ASSUME FaultOK, [BufferNext]_bufferVars
               PROVE  FaultOK'
    OBVIOUS
  <2>1. ASSUME NEW n \in UnsignedInt \ {0}, send(n)
        PROVE  FaultOK'
    <3>1. PICK block \in BlockFor(n) :
            fault' \in {block.fault, "overrun"} /\ careful' = careful
      BY <2>1, Zenon DEF send
    <3> QED BY <3>1, BlockFaults, Zenon
  <2>2. ASSUME NEW n \in UnsignedInt \ {0}, write(n)
        PROVE  FaultOK'
    BY <2>2, Zenon DEF write
  <2> QED BY <2>1, <2>2, Zenon DEF BufferNext, bufferVars
<1>3. SizeInv /\ FaultOK => BufferTypeOK
  BY Zenon DEF SizeInv, BufferTypeOK
<1> QED BY <1>1, <1>2, <1>3, SizeInvariant, PTL DEF BufferSpec
=============================================================================
