---------------------------- MODULE Queue_proofs ----------------------------
(***************************************************************************)
(* What the queue operations of the code do to the elements of a queue and *)
(* to their being there once.                                              *)
(***************************************************************************)
EXTENDS Queue, TLAPS

\* Enqueueing adds one message at the back.
LEMMA AppendElems ==
    ASSUME NEW S, NEW s \in Seq(S), NEW x \in S
    PROVE  /\ Append(s, x) \in Seq(S)
           /\ Len(Append(s, x)) = Len(s) + 1
           /\ Elems(Append(s, x)) = Elems(s) \cup {x}
           /\ NoDup(s) /\ x \notin Elems(s) => NoDup(Append(s, x))
<1>1. /\ Append(s, x) \in Seq(S)
      /\ Len(Append(s, x)) = Len(s) + 1
      /\ DOMAIN Append(s, x) = 1..(Len(s) + 1)
      /\ DOMAIN s = 1..Len(s)
      /\ Append(s, x)[Len(s) + 1] = x
      /\ \A i \in 1..Len(s) : Append(s, x)[i] = s[i]
  OBVIOUS
<1>2. Elems(Append(s, x)) = Elems(s) \cup {x}
  <2>1. Elems(Append(s, x)) \subseteq Elems(s) \cup {x}
    BY <1>1 DEF Elems
  <2>2. Elems(s) \cup {x} \subseteq Elems(Append(s, x))
    <3>1. x \in Elems(Append(s, x))
      BY <1>1 DEF Elems
    <3>2. ASSUME NEW i \in 1..Len(s)
          PROVE  s[i] \in Elems(Append(s, x))
      BY <1>1 DEF Elems
    <3> QED
      BY <1>1, <3>1, <3>2 DEF Elems
  <2> QED
    BY <2>1, <2>2
<1>3. NoDup(s) /\ x \notin Elems(s) => NoDup(Append(s, x))
  BY <1>1 DEF NoDup, Elems
<1> QED
  BY <1>1, <1>2, <1>3

\* Putting back adds one message at the front.
LEMMA FrontElems ==
    ASSUME NEW S, NEW s \in Seq(S), NEW x \in S
    PROVE  /\ <<x>> \o s \in Seq(S)
           /\ Len(<<x>> \o s) = Len(s) + 1
           /\ Elems(<<x>> \o s) = Elems(s) \cup {x}
           /\ NoDup(s) /\ x \notin Elems(s) => NoDup(<<x>> \o s)
           /\ Head(<<x>> \o s) = x
           /\ Tail(<<x>> \o s) = s
<1> DEFINE t == <<x>> \o s
<1>1. /\ t \in Seq(S)
      /\ Len(t) = Len(s) + 1
      /\ DOMAIN t = 1..(Len(s) + 1)
      /\ DOMAIN s = 1..Len(s)
      /\ t[1] = x
      /\ \A i \in 2..(Len(s) + 1) : t[i] = s[i - 1]
      /\ Len(s) \in Nat
  OBVIOUS
<1> HIDE DEF t
<1>2. Elems(t) = Elems(s) \cup {x}
  <2>1. Elems(t) \subseteq Elems(s) \cup {x}
    <3> SUFFICES ASSUME NEW i \in 1..(Len(s) + 1)
                 PROVE  t[i] \in Elems(s) \cup {x}
      BY <1>1 DEF Elems
    <3>1. CASE i = 1
      BY <3>1, <1>1
    <3>2. CASE i # 1
      <4>1. i \in 2..(Len(s) + 1) /\ i - 1 \in 1..Len(s)
        BY <3>2, <1>1
      <4> QED
        BY <4>1, <1>1 DEF Elems
    <3> QED
      BY <3>1, <3>2
  <2>2. x \in Elems(t)
    BY <1>1 DEF Elems
  <2>3. ASSUME NEW i \in 1..Len(s)
        PROVE  s[i] \in Elems(t)
    <3>1. i + 1 \in 2..(Len(s) + 1) /\ i + 1 \in DOMAIN t
      BY <1>1
    <3>2. t[i + 1] = s[i]
      <4>1. (i + 1) - 1 = i
        OBVIOUS
      <4> QED
        BY <4>1, <3>1, <1>1
    <3> QED
      BY <3>1, <3>2 DEF Elems
  <2> QED
    BY <1>1, <2>1, <2>2, <2>3 DEF Elems
<1>3. ASSUME NoDup(s), x \notin Elems(s)
      PROVE  NoDup(t)
  <2> SUFFICES ASSUME NEW i \in 1..(Len(s) + 1), NEW j \in 1..(Len(s) + 1), t[i] = t[j]
               PROVE  i = j
    BY <1>1 DEF NoDup
  <2>1. ASSUME NEW k \in 1..(Len(s) + 1), k # 1
        PROVE  k - 1 \in DOMAIN s /\ t[k] = s[k - 1] /\ t[k] # x
    <3>1. k - 1 \in 1..Len(s) /\ k \in 2..(Len(s) + 1)
      BY <1>1, <2>1
    <3> QED
      BY <1>1, <1>3, <3>1 DEF Elems
  <2>2. CASE i = 1 \/ j = 1
    BY <1>1, <2>1, <2>2
  <2>3. CASE i # 1 /\ j # 1
    <3>1. s[i - 1] = s[j - 1] /\ i - 1 \in DOMAIN s /\ j - 1 \in DOMAIN s
      BY <2>1, <2>3
    <3>2. i - 1 = j - 1
      BY <1>3, <3>1 DEF NoDup
    <3> QED
      BY <3>2, <1>1
  <2> QED
    BY <2>2, <2>3
<1>4. Head(t) = x /\ Tail(t) = s
  BY <1>1 DEF t
<1> QED
  BY <1>1, <1>2, <1>3, <1>4 DEF t

\* Popping takes the head and nothing else.
LEMMA TailElems ==
    ASSUME NEW S, NEW s \in Seq(S), s # <<>>, NoDup(s)
    PROVE  /\ Head(s) \in S /\ Tail(s) \in Seq(S)
           /\ Len(Tail(s)) = Len(s) - 1
           /\ Elems(s) = Elems(Tail(s)) \cup {Head(s)}
           /\ Head(s) \notin Elems(Tail(s))
           /\ NoDup(Tail(s))
           /\ <<Head(s)>> \o Tail(s) = s
<1>1. /\ Head(s) \in S /\ Tail(s) \in Seq(S)
      /\ Len(s) \in Nat /\ Len(s) > 0
      /\ Len(Tail(s)) = Len(s) - 1
      /\ DOMAIN s = 1..Len(s)
      /\ DOMAIN Tail(s) = 1..(Len(s) - 1)
      /\ Head(s) = s[1]
      /\ \A i \in 1..(Len(s) - 1) : Tail(s)[i] = s[i + 1]
  OBVIOUS
<1>2. Elems(s) = Elems(Tail(s)) \cup {Head(s)}
  <2>1. ASSUME NEW i \in 1..Len(s)
        PROVE  s[i] \in Elems(Tail(s)) \cup {Head(s)}
    <3>1. CASE i = 1
      BY <3>1, <1>1
    <3>2. CASE i # 1
      <4>1. i - 1 \in 1..(Len(s) - 1) /\ (i - 1) + 1 = i
        BY <3>2, <1>1
      <4> QED
        BY <4>1, <1>1 DEF Elems
    <3> QED
      BY <3>1, <3>2
  <2>2. ASSUME NEW i \in 1..(Len(s) - 1)
        PROVE  Tail(s)[i] \in Elems(s)
    BY <1>1 DEF Elems
  <2>3. Head(s) \in Elems(s)
    BY <1>1 DEF Elems
  <2> QED
    BY <1>1, <2>1, <2>2, <2>3 DEF Elems
<1>3. Head(s) \notin Elems(Tail(s)) /\ NoDup(Tail(s))
  <2>1. ASSUME NEW i \in 1..(Len(s) - 1)
        PROVE  Tail(s)[i] = s[i + 1] /\ i + 1 \in 1..Len(s) /\ i + 1 # 1
    BY <1>1
  <2> QED
    BY <1>1, <2>1 DEF NoDup, Elems
<1>4. <<Head(s)>> \o Tail(s) = s
  BY <1>1
<1> QED
  BY <1>1, <1>2, <1>3, <1>4

=============================================================================
