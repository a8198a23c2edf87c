---------------------------- MODULE NetLibProofs ----------------------------
(***************************************************************************)
(* Proofs about NetLib: its senders, its Sendst objects and the handle of  *)
(* its connection, for any number of senders, calls and messages, and for  *)
(* users who are careful or not.                                           *)
(***************************************************************************)
EXTENDS NetLib, SequenceTheorems, FiniteSetTheorems, TLAPS

-----------------------------------------------------------------------------
(* Sequences as queues: what leaves at the head and joins at the end.      *)

LEMMA PopFront ==
  ASSUME NEW S, NEW s \in Seq(S), s # <<>>
  PROVE  /\ Head(s) \in S /\ Tail(s) \in Seq(S)
         /\ 1 \in DOMAIN s /\ Head(s) = s[1]
         /\ \A i \in DOMAIN Tail(s) :
              i \in Nat /\ i + 1 \in DOMAIN s /\ i + 1 # 1 /\ Tail(s)[i] = s[i + 1]
         /\ \A i \in DOMAIN s : i # 1 => i - 1 \in DOMAIN Tail(s) /\ Tail(s)[i - 1] = s[i]
<1>1. /\ Tail(s) \in Seq(S) /\ Head(s) \in S
      /\ Len(Tail(s)) = Len(s) - 1
      /\ \A i \in 1 .. Len(Tail(s)) : Tail(s)[i] = s[i + 1]
  BY HeadTailProperties
<1>2. /\ Len(s) \in Nat \ {0} /\ DOMAIN s = 1 .. Len(s)
      /\ DOMAIN Tail(s) = 1 .. Len(s) - 1 /\ Head(s) = s[1]
  BY <1>1, LenProperties, EmptySeq
<1> QED BY <1>1, <1>2

\* The head of a queue without repetition is not in what is left.
LEMMA PopFrontOnce ==
  ASSUME NEW S, NEW s \in Seq(S), s # <<>>, IsInjective(s)
  PROVE  /\ IsInjective(Tail(s))
         /\ Head(s) \in ToSet(s) /\ ToSet(Tail(s)) = ToSet(s) \ {Head(s)}
<1>1. /\ 1 \in DOMAIN s /\ Head(s) = s[1]
      /\ \A i \in DOMAIN Tail(s) :
           i \in Nat /\ i + 1 \in DOMAIN s /\ i + 1 # 1 /\ Tail(s)[i] = s[i + 1]
      /\ \A i \in DOMAIN s : i # 1 => i - 1 \in DOMAIN Tail(s) /\ Tail(s)[i - 1] = s[i]
  BY PopFront
<1>2. IsInjective(Tail(s))
  BY <1>1 DEF IsInjective
<1>3. ToSet(Tail(s)) \subseteq ToSet(s) \ {Head(s)}
  BY <1>1 DEF IsInjective, ToSet
<1>4. ToSet(s) \ {Head(s)} \subseteq ToSet(Tail(s))
  <2> SUFFICES ASSUME NEW i \in DOMAIN s, i # 1
               PROVE  s[i] \in ToSet(Tail(s))
    BY <1>1 DEF ToSet
  <2> QED BY <1>1 DEF ToSet
<1>5. Head(s) \in ToSet(s)
  BY <1>1 DEF ToSet
<1> QED BY <1>2, <1>3, <1>4, <1>5

LEMMA PushBack ==
  ASSUME NEW S, NEW s \in Seq(S), NEW e \in S
  PROVE  /\ Append(s, e) \in Seq(S)
         /\ Len(s) + 1 \in DOMAIN Append(s, e) /\ Append(s, e)[Len(s) + 1] = e
         /\ Len(s) + 1 \notin DOMAIN s
         /\ \A i \in DOMAIN Append(s, e) :
              i # Len(s) + 1 => i \in DOMAIN s /\ Append(s, e)[i] = s[i]
         /\ \A i \in DOMAIN s : i \in DOMAIN Append(s, e) /\ Append(s, e)[i] = s[i]
<1>1. /\ Append(s, e) \in Seq(S)
      /\ Len(Append(s, e)) = Len(s) + 1
      /\ \A i \in 1 .. Len(s) : Append(s, e)[i] = s[i]
      /\ Append(s, e)[Len(s) + 1] = e
  BY AppendProperties
<1>2. /\ Len(s) \in Nat /\ DOMAIN s = 1 .. Len(s)
      /\ DOMAIN Append(s, e) = 1 .. Len(s) + 1
  BY <1>1, LenProperties
<1> QED BY <1>1, <1>2

LEMMA PushBackOnce ==
  ASSUME NEW S, NEW s \in Seq(S), NEW e \in S, IsInjective(s), e \notin ToSet(s)
  PROVE  /\ IsInjective(Append(s, e))
         /\ ToSet(Append(s, e)) = ToSet(s) \cup {e}
<1>1. /\ Len(s) + 1 \in DOMAIN Append(s, e) /\ Append(s, e)[Len(s) + 1] = e
      /\ \A i \in DOMAIN Append(s, e) :
           i # Len(s) + 1 => i \in DOMAIN s /\ Append(s, e)[i] = s[i]
      /\ \A i \in DOMAIN s : i \in DOMAIN Append(s, e) /\ Append(s, e)[i] = s[i]
  BY PushBack
<1>2. \A i \in DOMAIN s : s[i] # e
  BY DEF ToSet
<1> HIDE DEF IsInjective
<1>3. ASSUME NEW i \in DOMAIN Append(s, e), NEW j \in DOMAIN Append(s, e),
             Append(s, e)[i] = Append(s, e)[j]
      PROVE  i = j
  BY <1>1, <1>2, <1>3 DEF IsInjective
<1>4. IsInjective(Append(s, e))
  BY <1>3 DEF IsInjective
<1>5. ToSet(Append(s, e)) \subseteq ToSet(s) \cup {e}
  BY <1>1 DEF ToSet
<1>6. ToSet(s) \cup {e} \subseteq ToSet(Append(s, e))
  BY <1>1 DEF ToSet
<1> QED BY <1>4, <1>5, <1>6

LEMMA ToSetOfEmpty == ToSet(<<>>) = {} /\ DOMAIN <<>> = {}
BY EmptySeq DEF ToSet

-----------------------------------------------------------------------------
(* The invariant.                                                          *)

\* A sender in the deque has never been used, one that was woken has a message.
AsyncInv ==
  /\ m_dAsyncSend \in Seq(Sender) /\ m_mapAsyncSend \subseteq Sender
  /\ asyncBuffer \in [Sender -> Message \cup {0}] /\ woken \subseteq Sender
  /\ sends \in 0 .. MaxSends
  /\ IsInjective(m_dAsyncSend)
  /\ \A a \in ToSet(m_dAsyncSend) : asyncBuffer[a] = 0
  /\ \A a \in woken : asyncBuffer[a] \in Message

SendTypes ==
  /\ m_dSend \in Seq(Sendst) /\ m_mapSend \subseteq Sendst
  /\ buffer \in [Sendst -> Message \cup {0}]
  /\ writing \in Seq([obj : Sendst, msg : Message])

\* net_Send names a new object by counting those in use: the objects are always
\* numbered without gaps, and there are no more than calls that have got here.
Numbered ==
  \E n \in Nat : /\ ToSet(m_dSend) \cup m_mapSend = 1 .. n
                 /\ n + Cardinality(woken) <= sends

SendInv ==
  /\ SendTypes /\ Numbered
  /\ SendExclusive /\ SendstNotLost
  /\ \A i \in DOMAIN writing : writing[i].obj \in m_mapSend

ConnInv ==
  /\ m_ptcpHandle \in BOOLEAN /\ m_btcpClosed \in BOOLEAN
  /\ tcp \in {"inert", "connecting", "open", "eof", "failed", "cancelled",
              "closing", "closed"}
  /\ tcp = "closed" => m_btcpClosed
  /\ tcp \in {"open", "eof"} => ~m_btcpClosed
  /\ careful /\ woken # {} => m_ptcpHandle

UserTypes ==
  /\ timer \subseteq Timers /\ callback \in BOOLEAN
  /\ running \in BOOLEAN /\ careful \in BOOLEAN
  /\ faults \subseteq {"null", "double close", "connect twice", "init in use",
                       "init failed", "refused write"}
  /\ calls \in 0 .. MaxCalls

IInv == AsyncInv /\ SendInv /\ ConnInv /\ UserTypes /\ CarefulFaults

LEMMA InitIInv == Init => IInv
<1> SUFFICES ASSUME Init PROVE IInv
  OBVIOUS
<1> USE DEF Init
<1>0. ASYNC_HANDLE_NUM \in Nat /\ MaxSends \in Nat /\ MaxCalls \in Nat
  BY NetAssumption
<1>1. AllSenders \in Seq(Sender)
  BY <1>0, IsASeq DEF AllSenders, Sender
<1>2. AsyncInv
  <2>1. IsInjective(m_dAsyncSend) /\ ToSet(m_dAsyncSend) \subseteq Sender
    BY DEF AllSenders, IsInjective, ToSet
  <2> QED BY <1>0, <1>1, <2>1 DEF AsyncInv
<1>3. ToSet(m_dSend) = {} /\ DOMAIN writing = {} /\ DOMAIN m_dSend = {}
  BY ToSetOfEmpty
<1>4. SendTypes
  BY EmptySeq DEF SendTypes
<1>5. Numbered
  <2>1. 1 .. 0 = {} /\ Cardinality({}) = 0
    BY FS_EmptySet
  <2>2. /\ ToSet(m_dSend) \cup m_mapSend = 1 .. 0 /\ 0 \in Nat
        /\ 0 + Cardinality(woken) <= sends
    BY <1>3, <2>1
  <2> QED BY <2>2 DEF Numbered
<1>6. SendInv
  BY <1>3, <1>4, <1>5 DEF SendInv, SendExclusive, SendstNotLost, IsInjective
<1>7. ConnInv /\ CarefulFaults
  BY DEF ConnInv, CarefulFaults
<1>8. UserTypes
  <2>1. calls \in 0 .. MaxCalls
    BY <1>0
  <2> QED BY <2>1 DEF UserTypes
<1> QED BY <1>2, <1>6, <1>7, <1>8 DEF IInv

-----------------------------------------------------------------------------
(* The senders.                                                            *)

\* Senders can be counted.
LEMMA SendersFinite ==
  ASSUME NEW S \in SUBSET Sender
  PROVE  IsFiniteSet(S) /\ Cardinality(S) \in Nat
<1>1. IsFiniteSet(Sender)
  BY NetAssumption, FS_Interval DEF Sender
<1> QED BY <1>1, FS_Subset, FS_CardinalityType

\* net_AsyncSend writes to a sender that has never been used.
LEMMA AsyncSendTakesUnused ==
  ASSUME AsyncInv, net_AsyncSend
  PROVE  /\ AsyncInv'
         /\ \E a \in Sender : /\ asyncBuffer[a] = 0
                              /\ asyncBuffer' = [asyncBuffer EXCEPT ![a] = sends + 1]
                              /\ woken' = woken \cup {a}
         /\ sends' = sends + 1
<1> DEFINE a == Head(m_dAsyncSend)
<1>1. /\ m_dAsyncSend # <<>> /\ m_dAsyncSend' = Tail(m_dAsyncSend)
      /\ m_mapAsyncSend' = m_mapAsyncSend \cup {a}
      /\ asyncBuffer' = [asyncBuffer EXCEPT ![a] = sends + 1]
      /\ woken' = woken \cup {a}
      /\ sends' = sends + 1 /\ sends < MaxSends
  BY DEF net_AsyncSend
<1>2. /\ a \in Sender /\ m_dAsyncSend' \in Seq(Sender)
  BY <1>1, PopFront DEF AsyncInv
<1>3. /\ IsInjective(m_dAsyncSend')
      /\ a \in ToSet(m_dAsyncSend) /\ ToSet(m_dAsyncSend') = ToSet(m_dAsyncSend) \ {a}
  BY <1>1, PopFrontOnce DEF AsyncInv
<1> HIDE DEF a
<1>4. sends + 1 \in Message /\ sends' \in 0 .. MaxSends
  BY <1>1, NetAssumption DEF AsyncInv, Message
<1>5. asyncBuffer[a] = 0
  BY <1>3 DEF AsyncInv
<1>6. AsyncInv'
  <2>1. \A b \in ToSet(m_dAsyncSend)' : asyncBuffer'[b] = 0
    BY <1>1, <1>2, <1>3 DEF AsyncInv
  <2>2. \A b \in woken' : asyncBuffer'[b] \in Message
    BY <1>1, <1>2, <1>4 DEF AsyncInv
  <2>3. asyncBuffer' \in [Sender -> Message \cup {0}]
    BY <1>1, <1>2, <1>4 DEF AsyncInv
  <2> QED BY <1>1, <1>2, <1>3, <1>4, <2>1, <2>2, <2>3 DEF AsyncInv
<1> QED BY <1>1, <1>2, <1>5, <1>6

-----------------------------------------------------------------------------
(* The Sendst objects.                                                     *)

\* net_Send takes an object that is not in use, an old or a new one.
LEMMA SendTakesFree ==
  ASSUME SendInv, NEW n \in Nat, ToSet(m_dSend) \cup m_mapSend = 1 .. n,
         n < MaxSends, NEW msg, net_Send(msg)
  PROVE  \E new \in Sendst, m \in Nat :
           /\ new \notin m_mapSend /\ new \notin ToSet(m_dSend')
           /\ m_mapSend' = m_mapSend \cup {new}
           /\ buffer' = [buffer EXCEPT ![new] = msg]
           /\ m_dSend' \in Seq(Sendst) /\ IsInjective(m_dSend')
           /\ ToSet(m_dSend') \subseteq ToSet(m_dSend)
           /\ ToSet(m_dSend') \cup m_mapSend' = 1 .. m /\ m <= n + 1
           /\ \/ /\ writing' = Append(writing, [obj |-> new, msg |-> msg])
                 /\ UNCHANGED faults
              \/ /\ UNCHANGED writing
                 /\ faults' \cap {"null", "refused write"} # {}
<1> DEFINE new == IF m_dSend = <<>> THEN Cardinality(m_mapSend) + 1 ELSE Head(m_dSend)
<1>1. /\ m_dSend' = IF m_dSend = <<>> THEN <<>> ELSE Tail(m_dSend)
      /\ m_mapSend' = m_mapSend \cup {new}
      /\ buffer' = [buffer EXCEPT ![new] = msg]
      /\ \/ /\ writing' = Append(writing, [obj |-> new, msg |-> msg])
            /\ UNCHANGED faults
         \/ /\ UNCHANGED writing
            /\ faults' \cap {"null", "refused write"} # {}
  BY DEF net_Send, Fault
<1>2. /\ m_dSend \in Seq(Sendst) /\ IsInjective(m_dSend)
      /\ ToSet(m_dSend) \cap m_mapSend = {}
      /\ MaxSends \in Nat
  BY NetAssumption DEF SendInv, SendTypes, SendstNotLost
<1>3. CASE m_dSend = <<>>
  <2>1. m_mapSend = 1 .. n
    BY <1>3, ToSetOfEmpty
  <2>2. Cardinality(m_mapSend) = n
    <3>1. Cardinality(1 .. n) = n
      BY FS_Interval
    <3> QED BY <2>1, <3>1
  <2>3. new = n + 1
    BY <1>3, <2>2
  <2> HIDE DEF new
  <2>4. new \in Sendst /\ new \notin m_mapSend /\ m_mapSend \cup {new} = 1 .. n + 1
    BY <1>2, <2>1, <2>3 DEF Sendst
  <2>5. m_dSend' = m_dSend /\ ToSet(m_dSend') = {}
    BY <1>1, <1>3, ToSetOfEmpty
  <2>6. n + 1 \in Nat /\ n + 1 <= n + 1
    OBVIOUS
  <2>7. ToSet(m_dSend') \cup m_mapSend' = 1 .. n + 1
    BY <1>1, <2>4, <2>5
  <2> QED BY <1>1, <1>2, <2>4, <2>5, <2>6, <2>7
<1>4. CASE m_dSend # <<>>
  <2>1. new = Head(m_dSend) /\ m_dSend' = Tail(m_dSend)
    BY <1>1, <1>4
  <2>2. new \in Sendst /\ m_dSend' \in Seq(Sendst)
    BY <1>2, <1>4, <2>1, PopFront
  <2>3. /\ IsInjective(m_dSend')
        /\ new \in ToSet(m_dSend) /\ ToSet(m_dSend') = ToSet(m_dSend) \ {new}
    BY <1>2, <1>4, <2>1, PopFrontOnce
  <2> HIDE DEF new
  <2>4. ToSet(m_dSend') \cup m_mapSend' = ToSet(m_dSend) \cup m_mapSend
    BY <1>1, <2>3
  <2>5. n <= n + 1 /\ new \notin m_mapSend
    BY <1>2, <2>3
  <2> QED BY <1>1, <1>2, <2>2, <2>3, <2>4, <2>5
<1> QED BY <1>3, <1>4

\* A call of net_Send keeps the invariant when the calls are counted with it.
LEMMA NetSendInv ==
  ASSUME SendInv, NEW msg \in Message, net_Send(msg),
         Cardinality(woken) \in Nat, Cardinality(woken') \in Nat,
         sends \in Nat, sends' \in 0 .. MaxSends,
         sends' - Cardinality(woken') = sends - Cardinality(woken) + 1
  PROVE  SendInv'
<1>1. PICK n \in Nat : /\ ToSet(m_dSend) \cup m_mapSend = 1 .. n
                       /\ n + Cardinality(woken) <= sends
  BY DEF SendInv, Numbered
<1>2. n < MaxSends /\ \A k \in Nat : k <= n + 1 => k + Cardinality(woken') <= sends'
  BY <1>1, NetAssumption
<1>3. PICK new \in Sendst, m \in Nat :
        /\ new \notin m_mapSend /\ new \notin ToSet(m_dSend')
        /\ m_mapSend' = m_mapSend \cup {new}
        /\ buffer' = [buffer EXCEPT ![new] = msg]
        /\ m_dSend' \in Seq(Sendst) /\ IsInjective(m_dSend')
        /\ ToSet(m_dSend') \subseteq ToSet(m_dSend)
        /\ ToSet(m_dSend') \cup m_mapSend' = 1 .. m /\ m <= n + 1
        /\ \/ /\ writing' = Append(writing, [obj |-> new, msg |-> msg])
              /\ UNCHANGED faults
           \/ /\ UNCHANGED writing
              /\ faults' \cap {"null", "refused write"} # {}
  BY <1>1, <1>2, SendTakesFree
<1>4. Numbered'
  BY <1>2, <1>3 DEF Numbered
<1>5. /\ SendTypes /\ SendExclusive /\ SendstNotLost
      /\ \A i \in DOMAIN writing : writing[i].obj \in m_mapSend
  BY DEF SendInv
<1>6. \A i \in DOMAIN writing : writing[i].obj # new
  BY <1>3, <1>5
<1>7. ToSet(m_dSend') \cap m_mapSend' = {}
  BY <1>3, <1>5 DEF SendstNotLost
<1>8. CASE UNCHANGED writing /\ faults' \cap {"null", "refused write"} # {}
  <2>1. SendTypes'
    BY <1>3, <1>5, <1>8 DEF SendTypes
  <2>2. SendExclusive'
    BY <1>3, <1>5, <1>6, <1>8 DEF SendExclusive, SendTypes
  <2>3. SendstNotLost'
    BY <1>3, <1>7, <1>8 DEF SendstNotLost
  <2> QED BY <1>3, <1>4, <1>5, <1>8, <2>1, <2>2, <2>3 DEF SendInv
<1>9. CASE writing' = Append(writing, [obj |-> new, msg |-> msg]) /\ UNCHANGED faults
  <2> DEFINE w == [obj |-> new, msg |-> msg]
             end == Len(writing) + 1
  <2>1. w \in [obj : Sendst, msg : Message] /\ w.obj = new /\ w.msg = msg
    OBVIOUS
  <2> HIDE DEF w
  <2>2. /\ writing' \in Seq([obj : Sendst, msg : Message])
        /\ end \in DOMAIN writing' /\ writing'[end] = w
        /\ \A i \in DOMAIN writing' : i # end => i \in DOMAIN writing /\ writing'[i] = writing[i]
        /\ \A i \in DOMAIN writing : i \in DOMAIN writing' /\ writing'[i] = writing[i]
    BY <1>5, <1>9, <2>1, PushBack DEF SendTypes, w
  <2> HIDE DEF end
  <2>3. SendTypes'
    BY <1>3, <1>5, <2>2 DEF SendTypes
  <2>4. \A i \in DOMAIN writing' :
          writing'[i].obj = IF i = end THEN new ELSE writing[i].obj
    BY <2>1, <2>2
  <2>5. SendExclusive'
    <3>1. \A i \in DOMAIN writing' : writing'[i].msg = buffer'[writing'[i].obj]
      <4> SUFFICES ASSUME NEW i \in DOMAIN writing'
                   PROVE  writing'[i].msg = buffer'[writing'[i].obj]
        OBVIOUS
      <4>1. CASE i = end
        BY <1>3, <1>5, <2>1, <2>2, <4>1 DEF SendTypes
      <4>2. CASE i # end
        <5>1. i \in DOMAIN writing /\ writing'[i] = writing[i]
          BY <2>2, <4>2
        <5>2. writing[i].obj \in Sendst /\ writing[i].obj # new
          BY <1>5, <1>6, <5>1 DEF SendTypes
        <5> QED BY <1>3, <1>5, <5>1, <5>2 DEF SendExclusive, SendTypes
      <4> QED BY <4>1, <4>2
    <3>2. \A i, j \in DOMAIN writing' : i # j => writing'[i].obj # writing'[j].obj
      BY <1>5, <1>6, <2>2, <2>4 DEF SendExclusive
    <3>3. \A i \in DOMAIN writing' : writing'[i].obj \notin ToSet(m_dSend')
      BY <1>3, <1>5, <2>2, <2>4 DEF SendExclusive
    <3> QED BY <3>1, <3>2, <3>3 DEF SendExclusive
  <2>6. {writing'[i].obj : i \in DOMAIN writing'} =
          {writing[i].obj : i \in DOMAIN writing} \cup {new}
    BY <2>1, <2>2
  <2>7. SendstNotLost'
    BY <1>3, <1>5, <1>7, <1>9, <2>6 DEF SendstNotLost
  <2>8. \A i \in DOMAIN writing' : writing'[i].obj \in m_mapSend'
    BY <1>3, <1>5, <2>2, <2>4
  <2> QED BY <1>4, <2>3, <2>5, <2>7, <2>8 DEF SendInv
<1> QED BY <1>3, <1>8, <1>9

\* write_cb puts the object of the oldest write back into the deque.
LEMMA WriteCbInv ==
  ASSUME SendInv, write_cb
  PROVE  SendInv'
<1> DEFINE obj == Head(writing).obj
<1>1. /\ writing # <<>> /\ writing' = Tail(writing)
      /\ m_dSend' = Append(m_dSend, obj) /\ m_mapSend' = m_mapSend \ {obj}
      /\ obj \in m_mapSend
      /\ UNCHANGED <<buffer, woken, sends, faults>>
  BY DEF write_cb, asyncVars
<1>2. /\ SendTypes /\ SendExclusive /\ SendstNotLost
      /\ \A i \in DOMAIN writing : writing[i].obj \in m_mapSend
  BY DEF SendInv
<1>3. /\ writing' \in Seq([obj : Sendst, msg : Message])
      /\ 1 \in DOMAIN writing /\ obj = writing[1].obj
      /\ \A i \in DOMAIN writing' :
           i \in Nat /\ i + 1 \in DOMAIN writing /\ i + 1 # 1 /\ writing'[i] = writing[i + 1]
      /\ \A i \in DOMAIN writing : i # 1 => i - 1 \in DOMAIN writing' /\ writing'[i - 1] = writing[i]
  BY <1>1, <1>2, PopFront DEF SendTypes
<1> HIDE DEF obj
<1>4. obj \in Sendst /\ obj \notin ToSet(m_dSend)
  BY <1>1, <1>2 DEF SendTypes, SendstNotLost
<1>5. /\ m_dSend' \in Seq(Sendst) /\ IsInjective(m_dSend')
      /\ ToSet(m_dSend') = ToSet(m_dSend) \cup {obj}
  <2>1. m_dSend \in Seq(Sendst) /\ IsInjective(m_dSend)
    BY <1>2 DEF SendTypes, SendstNotLost
  <2>2. /\ Append(m_dSend, obj) \in Seq(Sendst)
        /\ IsInjective(Append(m_dSend, obj))
        /\ ToSet(Append(m_dSend, obj)) = ToSet(m_dSend) \cup {obj}
    BY <1>4, <2>1, PushBack, PushBackOnce
  <2> QED BY <1>1, <2>2
<1>6. \A i \in DOMAIN writing' : writing'[i].obj # obj
  BY <1>2, <1>3 DEF SendExclusive
<1>7. SendTypes'
  BY <1>1, <1>2, <1>3, <1>5 DEF SendTypes
<1>8. Numbered'
  <2>1. ToSet(m_dSend') \cup m_mapSend' = ToSet(m_dSend) \cup m_mapSend
    BY <1>1, <1>5
  <2> QED BY <1>1, <2>1 DEF SendInv, Numbered
<1>9. SendExclusive'
  BY <1>1, <1>2, <1>3, <1>5, <1>6 DEF SendExclusive
<1>10. {writing'[i].obj : i \in DOMAIN writing'} =
         {writing[i].obj : i \in DOMAIN writing} \ {obj}
  <2>1. \A i \in DOMAIN writing' : writing'[i].obj \in {writing[j].obj : j \in DOMAIN writing}
    BY <1>3
  <2>2. \A i \in DOMAIN writing : writing[i].obj # obj =>
          writing[i].obj \in {writing'[j].obj : j \in DOMAIN writing'}
    BY <1>3
  <2> QED BY <1>6, <2>1, <2>2
<1>11. SendstNotLost'
  BY <1>1, <1>2, <1>5, <1>10 DEF SendstNotLost
<1>12. \A i \in DOMAIN writing' : writing'[i].obj \in m_mapSend'
  BY <1>1, <1>2, <1>3, <1>6
<1> QED BY <1>7, <1>8, <1>9, <1>11, <1>12 DEF SendInv

\* A step that leaves the objects alone keeps the invariant, whatever it adds to
\* the faults.
LEMMA SendStutters ==
  ASSUME SendInv, UNCHANGED sendVars, faults \subseteq faults', Numbered'
  PROVE  SendInv'
BY DEF SendInv, SendTypes, SendExclusive, SendstNotLost, sendVars

-----------------------------------------------------------------------------
(* The steps.                                                              *)

\* Steps that neither send nor end a write.
Other ==
  \/ net_Connect \/ net_Run \/ net_closeConnection \/ net_reConnect
  \/ \E t \in Timers : SetTimer(timer \cup {t}) \/ SetTimer(timer \ {t}) \/ time_cb(t)
  \/ \E b \in BOOLEAN : connect_cb(b) \/ read_cb(b)
  \/ CallbackReturns \/ close_cb

LEMMA NextSteps ==
  ASSUME [Next]_vars
  PROVE  net_AsyncSend \/ async_cb \/ SendNow \/ write_cb \/ Other \/ UNCHANGED vars
BY DEF Next, Other

LEMMA OtherLeavesData ==
  ASSUME Other \/ UNCHANGED vars
  PROVE  UNCHANGED <<asyncVars, sendVars, sends>>
BY DEF Other, net_Connect, net_Run, net_closeConnection, net_reConnect, SetTimer,
       time_cb, connect_cb, read_cb, CallbackReturns, close_cb, Call, vars

\* No step takes a fault back.
LEMMA FaultsGrow ==
  ASSUME [Next]_vars
  PROVE  faults \subseteq faults'
<1>1. CASE net_AsyncSend \/ write_cb \/ UNCHANGED vars
  BY <1>1 DEF net_AsyncSend, write_cb, vars
<1>2. CASE async_cb \/ SendNow
  BY <1>2 DEF async_cb, SendNow, net_Send, Fault
<1>3. CASE Other
  BY <1>3 DEF Other, net_Connect, net_Run, net_closeConnection, net_reConnect, SetTimer,
              time_cb, connect_cb, read_cb, CallbackReturns, close_cb, CloseTcp, Fault
<1> QED BY <1>1, <1>2, <1>3, NextSteps

\* What a step does to the senders.
LEMMA NextAsync ==
  ASSUME AsyncInv, [Next]_vars
  PROVE  /\ AsyncInv'
         /\ \A a \in Sender : asyncBuffer[a] # 0 => asyncBuffer'[a] = asyncBuffer[a]
<1>1. CASE net_AsyncSend
  <2>1. PICK a \in Sender : /\ asyncBuffer[a] = 0
                            /\ asyncBuffer' = [asyncBuffer EXCEPT ![a] = sends + 1]
    BY <1>1, AsyncSendTakesUnused
  <2>2. \A b \in Sender : b # a => asyncBuffer'[b] = asyncBuffer[b]
    BY <2>1 DEF AsyncInv
  <2> QED BY <1>1, <2>1, <2>2, AsyncSendTakesUnused
<1>2. CASE async_cb
  BY <1>2 DEF async_cb, AsyncInv
<1>3. CASE SendNow
  <2>1. /\ UNCHANGED <<m_dAsyncSend, m_mapAsyncSend, asyncBuffer, woken>>
        /\ sends' = sends + 1 /\ sends < MaxSends
    BY <1>3 DEF SendNow, asyncVars
  <2>2. sends' \in 0 .. MaxSends
    BY <2>1, NetAssumption DEF AsyncInv
  <2> QED BY <2>1, <2>2 DEF AsyncInv
<1>4. CASE write_cb \/ Other \/ UNCHANGED vars
  <2>1. UNCHANGED <<asyncVars, sends>>
    BY <1>4, OtherLeavesData DEF write_cb
  <2> QED BY <2>1 DEF AsyncInv, asyncVars
<1> QED BY <1>1, <1>2, <1>3, <1>4, NextSteps

LEMMA NextSend ==
  ASSUME AsyncInv, SendInv, [Next]_vars
  PROVE  SendInv'
<1>0. /\ IsFiniteSet(woken) /\ Cardinality(woken) \in Nat
      /\ IsFiniteSet(woken') /\ Cardinality(woken') \in Nat
      /\ sends \in Nat /\ sends' \in 0 .. MaxSends
  <2>1. AsyncInv'
    BY NextAsync
  <2>2. woken \in SUBSET Sender /\ woken' \in SUBSET Sender
    BY <2>1 DEF AsyncInv
  <2>3. sends \in Nat /\ sends' \in 0 .. MaxSends
    BY <2>1, NetAssumption DEF AsyncInv
  <2> QED BY <2>2, <2>3, SendersFinite
<1>1. CASE net_AsyncSend
  <2>1. PICK a \in Sender : woken' = woken \cup {a} /\ sends' = sends + 1
    BY <1>1, AsyncSendTakesUnused
  <2>2. Cardinality(woken') <= Cardinality(woken) + 1
    <3>1. Cardinality(woken \cup {a}) = IF a \in woken THEN Cardinality(woken)
                                        ELSE Cardinality(woken) + 1
      BY <1>0, FS_AddElement
    <3> QED BY <1>0, <2>1, <3>1
  <2>3. \A n \in Nat : n + Cardinality(woken) <= sends => n + Cardinality(woken') <= sends'
    BY <1>0, <2>1, <2>2
  <2>4. UNCHANGED <<m_dSend, m_mapSend>> /\ UNCHANGED sendVars
    BY <1>1 DEF net_AsyncSend, sendVars
  <2>5. Numbered'
    BY <2>3, <2>4 DEF SendInv, Numbered
  <2> QED BY <2>4, <2>5, FaultsGrow, SendStutters
<1>2. CASE async_cb
  <2>1. PICK a \in woken : woken' = woken \ {a} /\ net_Send(asyncBuffer[a])
    BY <1>2 DEF async_cb
  <2>2. asyncBuffer[a] \in Message
    BY DEF AsyncInv
  <2>3. Cardinality(woken') = Cardinality(woken) - 1
    BY <1>0, <2>1, FS_RemoveElement
  <2>4. sends' = sends
    BY <1>2 DEF async_cb
  <2>5. sends' - Cardinality(woken') = sends - Cardinality(woken) + 1
    BY <1>0, <2>3, <2>4
  <2> QED BY <1>0, <2>1, <2>2, <2>5, NetSendInv
<1>3. CASE SendNow
  <2>1. net_Send(sends + 1) /\ woken' = woken /\ sends' = sends + 1 /\ sends < MaxSends
    BY <1>3 DEF SendNow, asyncVars
  <2>2. /\ sends + 1 \in Message
        /\ sends' - Cardinality(woken') = sends - Cardinality(woken) + 1
    BY <1>0, <2>1, NetAssumption DEF Message
  <2> QED BY <1>0, <2>1, <2>2, NetSendInv
<1>4. CASE write_cb
  BY <1>4, WriteCbInv
<1>5. CASE Other \/ UNCHANGED vars
  <2>1. UNCHANGED <<asyncVars, sendVars, sends>>
    BY <1>5, OtherLeavesData
  <2>2. Numbered'
    BY <2>1 DEF SendInv, Numbered, asyncVars, sendVars
  <2> QED BY <2>1, <2>2, FaultsGrow, SendStutters
<1> QED BY <1>1, <1>2, <1>3, <1>4, <1>5, NextSteps

\* What a step does to the handle of the connection: m_btcpClosed is set when
\* it is closed, and not while it is open.
LEMMA NextConn ==
  ASSUME ConnInv, [Next]_vars
  PROVE  ConnInv'
<1> USE DEF ConnInv
<1>1. CASE net_AsyncSend
  BY <1>1 DEF net_AsyncSend, connVars, userVars
<1>2. CASE async_cb
  BY <1>2 DEF async_cb, connVars, userVars
<1>3. CASE SendNow \/ write_cb \/ net_Run \/ CallbackReturns \/ UNCHANGED vars
  BY <1>3 DEF SendNow, write_cb, net_Run, CallbackReturns, vars, asyncVars, connVars, userVars
<1>4. CASE net_Connect
  BY <1>4 DEF net_Connect, Call, asyncVars
<1>5. CASE net_closeConnection
  BY <1>5 DEF net_closeConnection, CloseTcp, Call, asyncVars
<1>6. CASE net_reConnect
  BY <1>6 DEF net_reConnect, CloseTcp, Call, asyncVars
<1>7. ASSUME NEW b \in BOOLEAN, connect_cb(b)
      PROVE  ConnInv'
  BY <1>7 DEF connect_cb, asyncVars
<1>8. ASSUME NEW b \in BOOLEAN, read_cb(b)
      PROVE  ConnInv'
  BY <1>8 DEF read_cb, asyncVars
<1>9. CASE close_cb
  BY <1>9 DEF close_cb, asyncVars, userVars
<1>10. ASSUME NEW t \in Timers, SetTimer(timer \cup {t}) \/ SetTimer(timer \ {t}) \/ time_cb(t)
       PROVE  ConnInv'
  BY <1>10 DEF SetTimer, time_cb, asyncVars, connVars
<1> QED
  BY <1>1, <1>2, <1>3, <1>4, <1>5, <1>6, <1>7, <1>8, <1>9, <1>10, NextSteps DEF Other

LEMMA NextUserTypes ==
  ASSUME UserTypes, [Next]_vars
  PROVE  UserTypes'
<1>0. calls \in 0 .. MaxCalls
  BY DEF UserTypes
<1>1. calls' \in 0 .. MaxCalls
  <2>1. UNCHANGED calls \/ (Call /\ calls' = calls + 1)
    BY DEF Next, net_AsyncSend, async_cb, SendNow, net_Connect, net_Run,
           net_closeConnection, net_reConnect, SetTimer, connect_cb, read_cb,
           CallbackReturns, write_cb, close_cb, time_cb, Call, vars
  <2>2. Call => calls + 1 \in 0 .. MaxCalls
    <3>1. Call => calls < MaxCalls \/ calls < MaxCareless
      BY DEF Call
    <3>2. calls \in Nat /\ MaxCalls \in Nat /\ MaxCareless \in Nat /\ MaxCareless <= MaxCalls
      BY <1>0, NetAssumption
    <3> QED BY <3>1, <3>2
  <2> QED BY <1>0, <2>1, <2>2
<1>2. faults' \subseteq {"null", "double close", "connect twice", "init in use",
                         "init failed", "refused write"}
  BY DEF UserTypes, Next, net_AsyncSend, async_cb, SendNow, net_Connect, net_Run, net_Send,
         net_closeConnection, net_reConnect, SetTimer, connect_cb, read_cb, CloseTcp, Fault,
         CallbackReturns, write_cb, close_cb, time_cb, vars
<1>3. timer' \subseteq Timers /\ callback' \in BOOLEAN /\ running' \in BOOLEAN /\ careful' \in BOOLEAN
  BY DEF UserTypes, Next, net_AsyncSend, async_cb, SendNow, net_Connect, net_Run, Call,
         net_closeConnection, net_reConnect, SetTimer, connect_cb, read_cb,
         CallbackReturns, write_cb, close_cb, time_cb, vars, userVars
<1> QED BY <1>1, <1>2, <1>3 DEF UserTypes

\* The calls of a careful user find the handle in a state for them.
LEMMA NextFaults ==
  ASSUME ConnInv, CarefulFaults, [Next]_vars
  PROVE  CarefulFaults'
<1> USE DEF ConnInv, CarefulFaults
<1>1. CASE net_AsyncSend \/ write_cb \/ net_Run \/ CallbackReturns \/ close_cb \/ UNCHANGED vars
  BY <1>1 DEF net_AsyncSend, write_cb, net_Run, CallbackReturns, close_cb, vars, userVars
<1>2. CASE async_cb
  BY <1>2 DEF async_cb, net_Send, Fault, userVars
<1>3. CASE SendNow
  BY <1>3 DEF SendNow, net_Send, Fault, userVars
<1>4. CASE net_Connect
  BY <1>4 DEF net_Connect, Call, Fault
<1>5. CASE net_closeConnection
  BY <1>5 DEF net_closeConnection, CloseTcp, Changing, Call, Fault
<1>6. CASE net_reConnect
  BY <1>6 DEF net_reConnect, CloseTcp, Changing, Call, Fault
<1>7. ASSUME NEW b \in BOOLEAN, connect_cb(b) \/ read_cb(b)
      PROVE  CarefulFaults'
  BY <1>7 DEF connect_cb, read_cb
<1>8. ASSUME NEW t \in Timers, SetTimer(timer \cup {t}) \/ SetTimer(timer \ {t}) \/ time_cb(t)
      PROVE  CarefulFaults'
  BY <1>8 DEF SetTimer, time_cb
<1> QED BY <1>1, <1>2, <1>3, <1>4, <1>5, <1>6, <1>7, <1>8, NextSteps DEF Other

-----------------------------------------------------------------------------
(* The theorems.                                                           *)

LEMMA Invariance == Spec => []IInv
<1>1. IInv /\ [Next]_vars => IInv'
  BY NextAsync, NextSend, NextConn, NextUserTypes, NextFaults DEF IInv
<1> QED BY <1>1, InitIInv, PTL DEF Spec

\* Every variable keeps its type.
THEOREM TypeCorrect == Spec => []TypeOK
<1>1. IInv => TypeOK
  BY DEF IInv, AsyncInv, SendInv, SendTypes, ConnInv, UserTypes, TypeOK
<1> QED BY <1>1, Invariance, PTL

\* net_Send never takes an object that libuv still writes from, although it
\* names new objects by the number of those in use and takes used ones from a
\* deque that write_cb fills (netlib.h): whatever the user does, and whichever
\* writes are refused.
THEOREM WritesAreExclusive == Spec => []SendExclusive
<1>1. IInv => SendExclusive
  BY DEF IInv, SendInv
<1> QED BY <1>1, Invariance, PTL

\* As long as no write is refused, the map of net_Send holds just the objects
\* libuv writes from: none is lost in it.
THEOREM ObjectsAreNotLost == Spec => []SendstNotLost
<1>1. IInv => SendstNotLost
  BY DEF IInv, SendInv
<1> QED BY <1>1, Invariance, PTL

\* A careful user never closes the handle twice, initialises it while it
\* connects or closes, connects twice or uses it while it is null.
THEOREM CarefulCallsAreInOrder == Spec => []CarefulFaults
<1>1. IInv => CarefulFaults
  BY DEF IInv
<1> QED BY <1>1, Invariance, PTL

\* A message that waits in a sender is in no Sendst object and in no other sender.
FreshInv ==
  /\ \A a \in Sender : asyncBuffer[a] \in 0 .. sends
  /\ \A s \in Sendst : buffer[s] \in 0 .. sends
  /\ \A a, b \in woken : a # b => asyncBuffer[a] # asyncBuffer[b]
  /\ \A a \in woken, s \in Sendst : buffer[s] # asyncBuffer[a]

\* net_Send writes to one Sendst object and to no other.
LEMMA NetSendBuffer ==
  ASSUME NEW msg, net_Send(msg), SendTypes, SendTypes'
  PROVE  \E new \in Sendst : buffer' = [buffer EXCEPT ![new] = msg]
<1> DEFINE new == IF m_dSend = <<>> THEN Cardinality(m_mapSend) + 1 ELSE Head(m_dSend)
<1>1. m_mapSend' = m_mapSend \cup {new} /\ buffer' = [buffer EXCEPT ![new] = msg]
  BY DEF net_Send
<1>2. new \in Sendst
  BY <1>1 DEF SendTypes
<1> QED BY <1>1, <1>2

\* Where the message of a step goes: net_AsyncSend puts a new one into a sender,
\* async_cb moves one to a Sendst object, SendNow puts a new one there.
LEMMA NextMessage ==
  ASSUME IInv, IInv', [Next]_vars
  PROVE  \/ \E a \in Sender : /\ asyncBuffer' = [asyncBuffer EXCEPT ![a] = sends + 1]
                              /\ a \notin woken /\ woken' = woken \cup {a}
                              /\ buffer' = buffer /\ sends' = sends + 1
         \/ \E a \in woken, s \in Sendst :
                              /\ buffer' = [buffer EXCEPT ![s] = asyncBuffer[a]]
                              /\ asyncBuffer' = asyncBuffer /\ woken' = woken \ {a}
                              /\ sends' = sends
         \/ \E s \in Sendst : /\ buffer' = [buffer EXCEPT ![s] = sends + 1]
                              /\ asyncBuffer' = asyncBuffer /\ woken' = woken
                              /\ sends' = sends + 1
         \/ UNCHANGED <<asyncBuffer, woken, buffer, sends>>
<1>0. AsyncInv /\ SendTypes /\ SendTypes'
  BY DEF IInv, SendInv
<1>1. CASE net_AsyncSend
  <2>1. PICK a \in Sender : /\ asyncBuffer[a] = 0
                            /\ asyncBuffer' = [asyncBuffer EXCEPT ![a] = sends + 1]
                            /\ woken' = woken \cup {a}
    BY <1>0, <1>1, AsyncSendTakesUnused
  <2>2. buffer' = buffer /\ sends' = sends + 1
    BY <1>1 DEF net_AsyncSend, sendVars
  <2>3. a \notin woken
    BY <1>0, <2>1, NetAssumption DEF AsyncInv, Message
  <2> QED BY <2>1, <2>2, <2>3
<1>2. CASE async_cb
  <2>1. PICK a \in woken : woken' = woken \ {a} /\ net_Send(asyncBuffer[a])
    BY <1>2 DEF async_cb
  <2>2. asyncBuffer' = asyncBuffer /\ sends' = sends
    BY <1>2 DEF async_cb
  <2>3. \E s \in Sendst : buffer' = [buffer EXCEPT ![s] = asyncBuffer[a]]
    BY <1>0, <2>1, NetSendBuffer
  <2> QED BY <2>1, <2>2, <2>3
<1>3. CASE SendNow
  <2>1. net_Send(sends + 1)
    BY <1>3 DEF SendNow
  <2>2. asyncBuffer' = asyncBuffer /\ woken' = woken /\ sends' = sends + 1
    BY <1>3 DEF SendNow, asyncVars
  <2>3. \E s \in Sendst : buffer' = [buffer EXCEPT ![s] = sends + 1]
    BY <1>0, <2>1, NetSendBuffer
  <2> QED BY <2>2, <2>3
<1>4. CASE write_cb
  BY <1>4 DEF write_cb, asyncVars
<1>5. CASE Other \/ UNCHANGED vars
  BY <1>5, OtherLeavesData DEF asyncVars, sendVars
<1> QED BY <1>1, <1>2, <1>3, <1>4, <1>5, NextSteps

LEMMA NextFresh ==
  ASSUME IInv, IInv', FreshInv, [Next]_vars
  PROVE  FreshInv'
<1> USE DEF FreshInv
<1>0. /\ sends \in Nat /\ woken \subseteq Sender
      /\ asyncBuffer \in [Sender -> Message \cup {0}]
      /\ buffer \in [Sendst -> Message \cup {0}]
  BY NetAssumption DEF IInv, AsyncInv, SendInv, SendTypes
<1>1. ASSUME NEW a \in Sender, asyncBuffer' = [asyncBuffer EXCEPT ![a] = sends + 1],
             a \notin woken, woken' = woken \cup {a}, buffer' = buffer, sends' = sends + 1
      PROVE  FreshInv'
  <2>1. \A b \in Sender : asyncBuffer'[b] = IF b = a THEN sends + 1 ELSE asyncBuffer[b]
    BY <1>0, <1>1
  <2> QED BY <1>0, <1>1, <2>1
<1>2. ASSUME NEW a \in woken, NEW s \in Sendst,
             buffer' = [buffer EXCEPT ![s] = asyncBuffer[a]], asyncBuffer' = asyncBuffer,
             woken' = woken \ {a}, sends' = sends
      PROVE  FreshInv'
  <2>1. \A t \in Sendst : buffer'[t] = IF t = s THEN asyncBuffer[a] ELSE buffer[t]
    BY <1>0, <1>2
  <2> QED BY <1>0, <1>2, <2>1
<1>3. ASSUME NEW s \in Sendst, buffer' = [buffer EXCEPT ![s] = sends + 1],
             asyncBuffer' = asyncBuffer, woken' = woken, sends' = sends + 1
      PROVE  FreshInv'
  <2>1. \A t \in Sendst : buffer'[t] = IF t = s THEN sends + 1 ELSE buffer[t]
    BY <1>0, <1>3
  <2> QED BY <1>0, <1>3, <2>1
<1>4. CASE UNCHANGED <<asyncBuffer, woken, buffer, sends>>
  BY <1>4
<1> QED BY <1>1, <1>2, <1>3, <1>4, NextMessage

\* Any number of threads may send while the loop thread is busy: what
\* net_AsyncSend accepted stays in its sender untouched until async_cb passes
\* it to net_Send, which gets it once (netlib.h).
THEOREM AcceptedMessagesAreKept == Spec => AcceptedIsKept
<1> DEFINE Kept == \A a \in woken :
               IF a \in woken' THEN asyncBuffer'[a] = asyncBuffer[a]
               ELSE \E s \in Sendst : buffer[s] # asyncBuffer[a] /\ buffer'[s] = asyncBuffer[a]
<1>1. Init => FreshInv
  BY NetAssumption DEF Init, FreshInv
<1>2. IInv /\ IInv' /\ FreshInv /\ [Next]_vars => FreshInv'
  BY NextFresh
<1>3. IInv /\ IInv' /\ FreshInv /\ [Next]_vars => Kept
  <2> SUFFICES ASSUME IInv, IInv', FreshInv, [Next]_vars, NEW a \in woken
               PROVE  IF a \in woken' THEN asyncBuffer'[a] = asyncBuffer[a]
                      ELSE \E s \in Sendst : /\ buffer[s] # asyncBuffer[a]
                                              /\ buffer'[s] = asyncBuffer[a]
    OBVIOUS
  <2>1. /\ woken \subseteq Sender
        /\ asyncBuffer \in [Sender -> Message \cup {0}]
        /\ buffer \in [Sendst -> Message \cup {0}]
    BY DEF IInv, AsyncInv, SendInv, SendTypes
  <2>2. \A s \in Sendst : buffer[s] # asyncBuffer[a]
    BY DEF FreshInv
  <2> QED BY <2>1, <2>2, NextMessage
<1>4. IInv /\ IInv' /\ FreshInv /\ [Next]_vars => [Kept]_vars
  BY <1>3
<1> QED BY <1>1, <1>2, <1>4, Invariance, PTL DEF Spec, AcceptedIsKept

\* What a callback looks for in its map is there: the sender that woke async_cb
\* and the object whose write ends.
CallbacksFind ==
  /\ woken \subseteq m_mapAsyncSend
  /\ \A i \in DOMAIN writing : writing[i].obj \in m_mapSend

\* So both callbacks act whenever libuv calls them, and nothing that was
\* accepted waits for a callback that returns at its lookup (netlib.h): what
\* AcceptedIsPassedOn needs beside fairness.
THEOREM LookupsSucceed == Spec => []CallbacksFind
<1> DEFINE Known == woken \subseteq m_mapAsyncSend
<1>1. Init => Known
  BY DEF Init
<1>2. Known /\ [Next]_vars => Known'
  <2> SUFFICES ASSUME Known, [Next]_vars
               PROVE  Known'
    OBVIOUS
  <2>1. CASE net_AsyncSend \/ async_cb
    BY <2>1 DEF net_AsyncSend, async_cb
  <2>2. CASE SendNow \/ write_cb
    BY <2>2 DEF SendNow, write_cb, asyncVars
  <2>3. CASE Other \/ UNCHANGED vars
    BY <2>3, OtherLeavesData DEF asyncVars
  <2> QED BY <2>1, <2>2, <2>3, NextSteps
<1>3. IInv /\ Known => CallbacksFind
  BY DEF IInv, SendInv, CallbacksFind
<1> HIDE DEF Known
<1> QED BY <1>1, <1>2, <1>3, Invariance, PTL DEF Spec
=============================================================================
