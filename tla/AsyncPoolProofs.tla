-------------------------- MODULE AsyncPoolProofs --------------------------
(***************************************************************************)
(* Lemmas about the operations of AsyncPool: what each of them does to the *)
(* deque, the map and the pending wake-ups, for a pool of any size.  The   *)
(* specifications built on the pool cite them in their own invariants.     *)
(***************************************************************************)
EXTENDS AsyncPool, SequenceTheorems, TLAPS

\* The inductive invariant of the pool.  A handle outside the map stores no
\* work; together with the two invariants of AsyncPool this is what makes a
\* handle taken from the deque a fresh one.
IdleHandlesEmpty == \A h \in Handle \ m_mapAsync : slot[h] = Nothing

PoolInv(Work) ==
  /\ PoolTypeOK(Work)
  /\ HandlesConserved
  /\ CallbackFindsHandle
  /\ IdleHandlesEmpty

-----------------------------------------------------------------------------
(* Sequences without repetition.                                           *)

\* Removing the head of a sequence without repetition removes it from the
\* range and keeps the rest injective.
LEMMA TailKeepsInjective ==
  ASSUME NEW S, NEW s \in Seq(S), s # <<>>, IsInjective(s)
  PROVE  /\ Head(s) \in S
         /\ Head(s) \in Range(s)
         /\ Tail(s) \in Seq(S)
         /\ IsInjective(Tail(s))
         /\ Range(Tail(s)) = Range(s) \ {Head(s)}
<1>1. /\ Tail(s) \in Seq(S) /\ Head(s) \in S
      /\ Len(Tail(s)) = Len(s) - 1
      /\ \A i \in 1 .. Len(Tail(s)) : Tail(s)[i] = s[i + 1]
  BY HeadTailProperties
<1>2. /\ Len(s) \in Nat \ {0} /\ DOMAIN s = 1 .. Len(s)
      /\ DOMAIN Tail(s) = 1 .. Len(s) - 1 /\ Head(s) = s[1]
  BY <1>1, LenProperties, EmptySeq
<1>3. IsInjective(Tail(s))
  BY <1>1, <1>2 DEF IsInjective
<1>4. Range(Tail(s)) \subseteq Range(s) \ {Head(s)}
  BY <1>1, <1>2 DEF IsInjective, Range
<1>5. Range(s) \ {Head(s)} \subseteq Range(Tail(s))
  <2> SUFFICES ASSUME NEW i \in 1 .. Len(s), s[i] # s[1]
               PROVE  s[i] \in Range(Tail(s))
    BY <1>2 DEF Range
  <2>1. i - 1 \in 1 .. Len(s) - 1 /\ Tail(s)[i - 1] = s[i]
    BY <1>1, <1>2
  <2> QED BY <2>1, <1>2 DEF Range
<1>6. Range(Tail(s)) = Range(s) \ {Head(s)}
  BY <1>4, <1>5
<1>7. Head(s) \in Range(s)
  <2>1. 1 \in DOMAIN s /\ Head(s) = s[1]
    BY <1>2
  <2> QED BY <2>1 DEF Range
<1> QED BY <1>1, <1>3, <1>6, <1>7

\* Appending adds exactly the new element; a new element keeps the sequence
\* injective.
LEMMA AppendKeepsInjective ==
  ASSUME NEW S, NEW s \in Seq(S), NEW e \in S
  PROVE  /\ Append(s, e) \in Seq(S)
         /\ Range(Append(s, e)) = Range(s) \cup {e}
         /\ (IsInjective(s) /\ e \notin Range(s)) => IsInjective(Append(s, e))
<1>1. /\ Append(s, e) \in Seq(S)
      /\ Len(Append(s, e)) = Len(s) + 1
      /\ \A i \in 1 .. Len(s) : Append(s, e)[i] = s[i]
      /\ Append(s, e)[Len(s) + 1] = e
  BY AppendProperties
<1>2. /\ Len(s) \in Nat /\ DOMAIN s = 1 .. Len(s)
      /\ DOMAIN Append(s, e) = 1 .. Len(s) + 1
  BY <1>1, LenProperties
<1>3. \A i \in 1 .. Len(s) + 1 : i \in 1 .. Len(s) \/ i = Len(s) + 1
  BY <1>2
<1>4. Range(Append(s, e)) \subseteq Range(s) \cup {e}
  BY <1>1, <1>2, <1>3 DEF Range
<1>5. Range(s) \cup {e} \subseteq Range(Append(s, e))
  <2>1. \A i \in 1 .. Len(s) : i \in 1 .. Len(s) + 1
    BY <1>2
  <2>2. Len(s) + 1 \in 1 .. Len(s) + 1
    BY <1>2
  <2> QED BY <2>1, <2>2, <1>1, <1>2 DEF Range
<1>6. (IsInjective(s) /\ e \notin Range(s)) => IsInjective(Append(s, e))
  BY <1>1, <1>2, <1>3 DEF IsInjective, Range
<1>7. Range(Append(s, e)) = Range(s) \cup {e}
  BY <1>4, <1>5
<1> QED BY <1>1, <1>6, <1>7

\* RemoveAt moves what comes after the removed element one place forward.
LEMMA RemoveAtElements ==
  ASSUME NEW S, NEW s \in Seq(S), NEW i \in 1 .. Len(s)
  PROVE  /\ RemoveAt(s, i) \in Seq(S)
         /\ DOMAIN RemoveAt(s, i) = 1 .. Len(s) - 1
         /\ \A j \in 1 .. Len(s) - 1 :
              RemoveAt(s, i)[j] = IF j < i THEN s[j] ELSE s[j + 1]
<1> DEFINE a == SubSeq(s, 1, i - 1)
           b == SubSeq(s, i + 1, Len(s))
           t == RemoveAt(s, i)
<1>1. /\ Len(s) \in Nat /\ DOMAIN s = 1 .. Len(s)
      /\ \A j \in 1 .. Len(s) : s[j] \in S
  BY LenProperties, ElementOfSeq
<1>2. /\ a \in Seq(S) /\ Len(a) = i - 1
      /\ \A j \in 1 .. i - 1 : a[j] = s[j]
  <2>1. /\ a \in Seq(S)
        /\ Len(a) = IF 1 <= i - 1 THEN (i - 1) - 1 + 1 ELSE 0
        /\ \A j \in 1 .. (i - 1) - 1 + 1 : a[j] = s[1 + j - 1]
    <3>1. 1 \in Int /\ i - 1 \in Int /\ \A j \in 1 .. i - 1 : s[j] \in S
      BY <1>1
    <3> QED BY <3>1, SubSeqProperties
  <2> QED BY <2>1
<1>3. /\ b \in Seq(S) /\ Len(b) = Len(s) - i
      /\ \A j \in 1 .. Len(s) - i : b[j] = s[i + j]
  <2>1. /\ b \in Seq(S)
        /\ Len(b) = IF i + 1 <= Len(s) THEN Len(s) - (i + 1) + 1 ELSE 0
        /\ \A j \in 1 .. Len(s) - (i + 1) + 1 : b[j] = s[(i + 1) + j - 1]
    <3>1. /\ i + 1 \in Int /\ Len(s) \in Int
          /\ \A j \in i + 1 .. Len(s) : s[j] \in S
      BY <1>1
    <3> QED BY <3>1, SubSeqProperties
  <2>2. Len(b) = Len(s) - i
    <3> HIDE DEF b
    <3>1. i \in Int /\ i <= Len(s) /\ Len(s) \in Int
      BY <1>1
    <3>2. Len(b) = IF i + 1 <= Len(s) THEN Len(s) - (i + 1) + 1 ELSE 0
      BY <2>1
    <3> QED BY <3>1, <3>2
  <2>3. ASSUME NEW j \in 1 .. Len(s) - i
        PROVE  b[j] = s[i + j]
    <3>1. j \in 1 .. Len(s) - (i + 1) + 1 /\ (i + 1) + j - 1 = i + j
      BY <1>1
    <3> QED BY <3>1, <2>1
  <2> QED BY <2>1, <2>2, <2>3
<1>4. /\ t \in Seq(S) /\ DOMAIN t = 1 .. Len(s) - 1
      /\ \A j \in 1 .. Len(s) - 1 : t[j] = IF j < i THEN s[j] ELSE s[j + 1]
  <2>1. t = a \o b
    BY DEF RemoveAt
  <2> HIDE DEF a, b, t
  <2>2. /\ t \in Seq(S) /\ Len(t) = Len(a) + Len(b)
        /\ \A j \in 1 .. Len(a) + Len(b) :
             t[j] = IF j <= Len(a) THEN a[j] ELSE b[j - Len(a)]
    BY <2>1, <1>2, <1>3, ConcatProperties
  <2>3. DOMAIN t = 1 .. Len(s) - 1
    BY <2>2, <1>1, <1>2, <1>3, LenProperties
  <2>4. ASSUME NEW j \in 1 .. Len(s) - 1
        PROVE  t[j] = IF j < i THEN s[j] ELSE s[j + 1]
    <3>1. j \in 1 .. Len(a) + Len(b) /\ Len(a) = i - 1
      BY <1>1, <1>2, <1>3
    <3>2. t[j] = IF j <= i - 1 THEN a[j] ELSE b[j - (i - 1)]
      BY <3>1, <2>2
    <3>3. CASE j < i
      <4>1. j \in 1 .. i - 1 /\ j <= i - 1
        BY <3>3, <1>1
      <4> QED BY <4>1, <3>2, <3>3, <1>2
    <3>4. CASE ~(j < i)
      <4>1. /\ j - (i - 1) \in 1 .. Len(s) - i /\ ~(j <= i - 1)
            /\ i + (j - (i - 1)) = j + 1
        BY <3>4, <1>1
      <4>2. b[j - (i - 1)] = s[j + 1]
        BY <4>1, <1>3
      <4> QED BY <4>1, <4>2, <3>2, <3>4
    <3> QED BY <3>3, <3>4
  <2> QED BY <2>2, <2>3, <2>4
<1> QED BY <1>4 DEF t

\* RemoveAt removes one element from a sequence without repetition.
LEMMA RemoveAtKeepsInjective ==
  ASSUME NEW S, NEW s \in Seq(S), IsInjective(s), NEW i \in 1 .. Len(s)
  PROVE  /\ s[i] \in S
         /\ s[i] \in Range(s)
         /\ RemoveAt(s, i) \in Seq(S)
         /\ IsInjective(RemoveAt(s, i))
         /\ Range(RemoveAt(s, i)) = Range(s) \ {s[i]}
<1> DEFINE t == RemoveAt(s, i)
<1>1. /\ Len(s) \in Nat /\ DOMAIN s = 1 .. Len(s)
      /\ \A j \in 1 .. Len(s) : s[j] \in S
  BY LenProperties, ElementOfSeq
<1>2. /\ t \in Seq(S) /\ DOMAIN t = 1 .. Len(s) - 1
      /\ \A j \in 1 .. Len(s) - 1 : t[j] = IF j < i THEN s[j] ELSE s[j + 1]
  BY RemoveAtElements
<1> HIDE DEF t
<1>3. IsInjective(t)
  <2> SUFFICES ASSUME NEW j \in 1 .. Len(s) - 1, NEW k \in 1 .. Len(s) - 1,
                      t[j] = t[k]
               PROVE  j = k
    BY <1>2 DEF IsInjective
  <2> DEFINE f(n) == IF n < i THEN n ELSE n + 1
  <2>1. /\ f(j) \in 1 .. Len(s) /\ f(k) \in 1 .. Len(s)
        /\ f(j) = f(k) => j = k
    BY <1>1
  <2>2. t[j] = s[f(j)] /\ t[k] = s[f(k)]
    BY <1>2
  <2> QED BY <2>1, <2>2, <1>1 DEF IsInjective
<1>4. Range(t) \subseteq Range(s) \ {s[i]}
  <2> SUFFICES ASSUME NEW j \in 1 .. Len(s) - 1
               PROVE  t[j] \in Range(s) \ {s[i]}
    BY <1>2 DEF Range
  <2> DEFINE k == IF j < i THEN j ELSE j + 1
  <2>1. k \in 1 .. Len(s) /\ k # i /\ t[j] = s[k]
    BY <1>1, <1>2
  <2> QED BY <2>1, <1>1 DEF IsInjective, Range
<1>5. Range(s) \ {s[i]} \subseteq Range(t)
  <2> SUFFICES ASSUME NEW k \in 1 .. Len(s), k # i
               PROVE  s[k] \in Range(t)
    BY <1>1 DEF Range
  <2> DEFINE j == IF k < i THEN k ELSE k - 1
  <2>1. j \in 1 .. Len(s) - 1 /\ t[j] = s[k]
    BY <1>1, <1>2
  <2> QED BY <2>1, <1>2 DEF Range
<1>6. s[i] \in S /\ s[i] \in Range(s)
  BY <1>1 DEF Range
<1>7. Range(t) = Range(s) \ {s[i]}
  BY <1>4, <1>5
<1> QED BY <1>2, <1>3, <1>6, <1>7 DEF t

-----------------------------------------------------------------------------
(* The operations of the pool keep its invariant.                          *)

LEMMA PoolInitInv ==
  ASSUME NEW Work, PoolInit
  PROVE  PoolInv(Work)
<1>1. m_dAsync \in Seq(Handle) /\ DOMAIN m_dAsync = Handle
  BY PoolAssumption, IsASeq DEF PoolInit, Handle
<1>2. <<>> \in Seq(Handle) /\ DOMAIN <<>> = {}
  BY EmptySeq
<1>3. PoolTypeOK(Work)
  BY <1>1, <1>2 DEF PoolInit, PoolTypeOK
<1>4. HandlesConserved
  BY <1>1 DEF PoolInit, HandlesConserved, IsInjective, Range
<1>5. CallbackFindsHandle
  BY <1>2 DEF PoolInit, CallbackFindsHandle, IsInjective, Range
<1> QED BY <1>3, <1>4, <1>5 DEF PoolInv, PoolInit, IdleHandlesEmpty

\* The head of a nonempty deque is a handle that is not in flight and
\* stores nothing: what AddReq overwrites was empty.
LEMMA FreshHandle ==
  ASSUME NEW Work, PoolInv(Work), ~Busy
  PROVE  LET h == Head(m_dAsync) IN
           /\ h \in Handle \ m_mapAsync
           /\ h \notin Range(sent) /\ h # cur
           /\ slot[h] = Nothing
<1>1. Head(m_dAsync) \in Handle /\ Head(m_dAsync) \in Range(m_dAsync)
  BY TailKeepsInjective DEF PoolInv, PoolTypeOK, HandlesConserved, Busy
<1>2. Head(m_dAsync) \notin m_mapAsync
  BY <1>1 DEF PoolInv, HandlesConserved
<1>3. NoHandle \notin Handle
  BY PoolAssumption DEF NoHandle, Handle
<1> QED
  BY <1>1, <1>2, <1>3 DEF PoolInv, CallbackFindsHandle, IdleHandlesEmpty

LEMMA SubmitInv ==
  ASSUME NEW Work, PoolInv(Work), NEW w \in Work, Submit(w)
  PROVE  /\ PoolInv(Work)'
         /\ Range(sent') = Range(sent) \cup {Head(m_dAsync)}
<1> DEFINE h == Head(m_dAsync)
<1> USE DEF PoolInv
<1>1. /\ h \in Handle \ m_mapAsync
      /\ h \notin Range(sent) /\ h # cur
  BY FreshHandle DEF Submit
<1>2. /\ m_dAsync' \in Seq(Handle) /\ IsInjective(m_dAsync')
      /\ Range(m_dAsync') = Range(m_dAsync) \ {h}
  BY TailKeepsInjective DEF Submit, PoolTypeOK, HandlesConserved, Busy
<1>3. /\ sent' \in Seq(Handle) /\ IsInjective(sent')
      /\ Range(sent') = Range(sent) \cup {h}
  BY <1>1, AppendKeepsInjective DEF Submit, PoolTypeOK, CallbackFindsHandle
<1>4. /\ m_mapAsync' = m_mapAsync \cup {h} /\ cur' = cur
      /\ slot' = [slot EXCEPT ![h] = w]
  BY DEF Submit
<1> HIDE DEF h
<1>5. PoolTypeOK(Work)'
  BY <1>1, <1>2, <1>3, <1>4 DEF PoolTypeOK
<1>6. HandlesConserved'
  BY <1>1, <1>2, <1>4 DEF HandlesConserved
<1>7. CallbackFindsHandle'
  BY <1>1, <1>3, <1>4 DEF CallbackFindsHandle
<1>8. IdleHandlesEmpty'
  BY <1>1, <1>4 DEF IdleHandlesEmpty, PoolTypeOK
<1> QED BY <1>3, <1>5, <1>6, <1>7, <1>8 DEF h

LEMMA FireInv ==
  ASSUME NEW Work, PoolInv(Work), Fire
  PROVE  /\ PoolInv(Work)'
         /\ cur = NoHandle /\ cur' \in Range(sent) /\ cur' \in Handle
         /\ Range(sent') = Range(sent) \ {cur'}
         /\ UNCHANGED <<m_dAsync, m_mapAsync, slot>>
<1> USE DEF PoolInv
<1>1. PICK i \in 1 .. Len(sent) : cur' = sent[i] /\ sent' = RemoveAt(sent, i)
  BY DEF Fire
<1>2. /\ cur' \in Handle /\ cur' \in Range(sent)
      /\ sent' \in Seq(Handle) /\ IsInjective(sent')
      /\ Range(sent') = Range(sent) \ {cur'}
  BY <1>1, RemoveAtKeepsInjective DEF PoolTypeOK, CallbackFindsHandle
<1>3. cur = NoHandle /\ UNCHANGED <<m_dAsync, m_mapAsync, slot>>
  BY DEF Fire
<1>4. NoHandle \notin Handle
  BY PoolAssumption DEF NoHandle, Handle
<1>5. PoolTypeOK(Work)'
  BY <1>2, <1>3 DEF PoolTypeOK
<1>6. HandlesConserved' /\ IdleHandlesEmpty'
  BY <1>3 DEF HandlesConserved, IdleHandlesEmpty
<1>7. CallbackFindsHandle'
  BY <1>2, <1>3, <1>4 DEF CallbackFindsHandle
<1> QED BY <1>2, <1>3, <1>5, <1>6, <1>7

LEMMA ClearTcbInv ==
  ASSUME NEW Work, PoolInv(Work), cur # NoHandle, ClearTcb
  PROVE  PoolInv(Work)'
<1> USE DEF PoolInv
<1>1. /\ slot' = [slot EXCEPT ![cur] = Nothing]
      /\ UNCHANGED <<m_dAsync, m_mapAsync, sent, cur>>
  BY DEF ClearTcb
<1>2. PoolTypeOK(Work)'
  BY <1>1 DEF PoolTypeOK
<1>3. HandlesConserved' /\ CallbackFindsHandle'
  BY <1>1 DEF HandlesConserved, CallbackFindsHandle
<1>4. IdleHandlesEmpty'
  BY <1>1 DEF IdleHandlesEmpty, PoolTypeOK
<1> QED BY <1>2, <1>3, <1>4

LEMMA RecycleInv ==
  ASSUME NEW Work, PoolInv(Work), Recycle
  PROVE  /\ PoolInv(Work)'
         /\ m_dAsync' = Append(m_dAsync, cur)
<1> USE DEF PoolInv
<1>1. NoHandle \notin Handle
  BY PoolAssumption DEF NoHandle, Handle
<1>2. cur \in Handle /\ cur \in m_mapAsync /\ cur \notin Range(m_dAsync)
  BY <1>1 DEF Recycle, PoolTypeOK, CallbackFindsHandle, HandlesConserved
<1>3. /\ m_dAsync' = Append(m_dAsync, cur)
      /\ m_mapAsync' = m_mapAsync \ {cur} /\ cur' = NoHandle
      /\ slot[cur] = Nothing /\ UNCHANGED <<slot, sent>>
  BY <1>2 DEF Recycle
<1>4. /\ m_dAsync' \in Seq(Handle) /\ IsInjective(m_dAsync')
      /\ Range(m_dAsync') = Range(m_dAsync) \cup {cur}
  BY <1>2, <1>3, AppendKeepsInjective DEF PoolTypeOK, HandlesConserved
<1>5. PoolTypeOK(Work)'
  BY <1>3, <1>4 DEF PoolTypeOK
<1>6. HandlesConserved'
  BY <1>2, <1>3, <1>4 DEF HandlesConserved
<1>7. CallbackFindsHandle'
  BY <1>1, <1>2, <1>3 DEF CallbackFindsHandle, PoolTypeOK
<1>8. IdleHandlesEmpty'
  BY <1>3 DEF IdleHandlesEmpty
<1> QED BY <1>3, <1>5, <1>6, <1>7, <1>8

LEMMA PoolStutters ==
  ASSUME NEW Work, PoolInv(Work), UNCHANGED poolVars
  PROVE  PoolInv(Work)'
BY DEF PoolInv, poolVars, PoolTypeOK, HandlesConserved, CallbackFindsHandle,
       IdleHandlesEmpty

\* Work is stored in a handle that stored nothing, and wakes the loop.
LEMMA SubmitSent ==
  ASSUME NEW Work, PoolInv(Work), NEW w \in Work, Submit(w)
  PROVE  \E h \in Handle : /\ slot[h] = Nothing /\ h # cur /\ h \notin Range(sent)
                           /\ slot' = [slot EXCEPT ![h] = w]
                           /\ Range(sent') = Range(sent) \cup {h}
                           /\ cur' = cur
<1>1. PICK h : h = Head(m_dAsync)
  OBVIOUS
<1>2. h \in Handle /\ h # cur /\ h \notin Range(sent) /\ slot[h] = Nothing
  BY <1>1, FreshHandle DEF Submit
<1>3. Range(sent') = Range(sent) \cup {h}
  BY <1>1, SubmitInv
<1>4. slot' = [slot EXCEPT ![h] = w] /\ cur' = cur
  BY <1>1 DEF Submit
<1> QED BY <1>2, <1>3, <1>4

\* AddReq is refused when every handle is in flight.
LEMMA BusyIsFull ==
  ASSUME NEW Work, PoolInv(Work), Busy
  PROVE  m_mapAsync = Handle
<1>1. Range(m_dAsync) = {}
  BY EmptySeq DEF Busy, Range
<1> QED BY <1>1 DEF PoolInv, HandlesConserved
=============================================================================
