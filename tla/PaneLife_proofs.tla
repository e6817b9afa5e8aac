--------------------------- MODULE PaneLife_proofs ---------------------------
(* For any number of messages, panes of one name, triggers and interventions,  *)
(* and whatever the operator does and may go wrong.                            *)
EXTENDS PaneLife, Queue_proofs, FiniteSetTheorems, SequenceTheorems

-----------------------------------------------------------------------------
(* The inductive invariant: what each goroutine has in its hands, by where it *)
(* is, and where the mail is.                                                 *)

Made == {o \in Obj : life[o] # "unmade"}
Over == {o \in Made : life[o] # "live"}

SenderAt(m) ==
    /\ hand[m] = <<m>> /\ new[m] = NoObj
    /\ pc[m] \in {"idle", "done"} \cup SendPcs
    /\ pc[m] # "done" => fate[m] = "new"
    /\ pc[m] \in SendPcs => ptr[m] \in Made

DrainAt(o) ==
    /\ pc[o] \in {"idle", "pop"} \cup SendPcs /\ new[o] = NoObj
    /\ pc[o] \in {"idle", "pop"} => hand[o] = <<>>
    /\ pc[o] \in SendPcs => Len(hand[o]) = 1 /\ ptr[o] \in Made

WakeInv ==
    /\ pc["wake"] \in {"idle"} \cup WakePcs \cup SendPcs
    /\ pc["wake"] \notin {"list", "init"} \cup SendPcs => hand["wake"] = <<>>
    /\ pc["wake"] \in SendPcs => hand["wake"] # <<>>
    /\ pc["wake"] # "idle" => ptr["wake"] \in Made
    /\ pc["wake"] \in {"stale", "swap", "check", "enqueue"} => new["wake"] # NoObj
    /\ new["wake"] # NoObj => new["wake"] \in Made
    /\ pc["wake"] \in {"idle", "resolve", "judge", "spawn", "list", "init"} => new["wake"] = NoObj
    /\ pc["wake"] \in {"spawn", "swap"} => ptr["wake"] \in Over
    /\ hand["wake"] # <<>> /\ new["wake"] = NoObj /\ pc["wake"] # "list" =>
          inHand[ptr["wake"]] = hand["wake"]

CmdInv ==
    /\ pc["cmd"] \in {"idle"} \cup CmdPcs
    /\ pc["cmd"] # "respawn" => hand["cmd"] = <<>>
    /\ pc["cmd"] # "idle" => ptr["cmd"] \in Made
    /\ pc["cmd"] \in {"reswap", "startSwap"} => new["cmd"] \in Made /\ new["cmd"] # ptr["cmd"]
    /\ pc["cmd"] \in {"respawn", "reswap", "startSwap"} => ptr["cmd"] \in Over

ParkInv ==
    /\ pc["park"] \in {"idle", "park"} /\ hand["park"] = <<>>
    /\ pc["park"] = "park" => ptr["park"] \in Made

NameInv == /\ current \in Made \cup {NoObj}
           /\ \A o \in Obj \ Made : queue[o] = <<>>

\* The queues and the hands of the loops, as one family.
Q(o) == <<"q", o>>
H(a) == <<"h", a>>
Boxes == {Q(o) : o \in Obj} \cup {H(a) : a \in Loops}
Family(qs, hs) == [b \in Boxes |-> IF b[1] = "q" THEN qs[b[2]] ELSE hs[b[2]]]

\* A message told "held" is in one box of the family, once; any other in none.
Kept(f, F) ==
    /\ \A b \in Boxes : NoDup(f[b])
    /\ \A b, c \in Boxes : \A m \in Elems(f[b]) : m \in Elems(f[c]) => b = c
    /\ \A m \in Msg : F[m] = "held" <=> \E b \in Boxes : m \in Elems(f[b])

MailInv == Kept(Family(queue, hand), fate)

LocalInv == /\ \A m \in Msg : SenderAt(m)
            /\ \A o \in Obj : DrainAt(o)
            /\ WakeInv /\ CmdInv /\ ParkInv /\ NameInv

\* A trigger waits for the lock with a pane that was made.
TriggerInv == \A o \in Obj \ Made : wakes[o] = 0

LifeInv == TypeOK /\ LocalInv /\ TriggerInv /\ MailInv

-----------------------------------------------------------------------------
(* Names. *)

LEMMA Actors ==
    /\ \A m \in Msg : m \in Actor /\ m \notin Obj /\ m \notin {"wake", "cmd", "park"} /\ m # NoObj
    /\ \A o \in Obj : o \in Actor /\ o \notin Msg /\ o \notin {"wake", "cmd", "park"} /\ o # NoObj
    /\ {"wake", "cmd", "park"} \subseteq Actor \ (Msg \cup Obj)
    /\ "wake" # "cmd" /\ "wake" # "park" /\ "cmd" # "park"
    /\ Loops = Obj \cup {"wake", "cmd", "park"} /\ Loops \subseteq Actor
BY NameAssumption DEF Actor, Loops

LEMMA BoxNames ==
    /\ \A o \in Obj : Q(o) \in Boxes
    /\ \A a \in Loops : H(a) \in Boxes
    /\ \A b \in Boxes : \/ \E o \in Obj : b = Q(o)
                        \/ \E a \in Loops : b = H(a)
    /\ \A o, p \in Obj : Q(o) = Q(p) => o = p
    /\ \A a, b \in Loops : H(a) = H(b) => a = b
    /\ \A o \in Obj, a \in Loops : Q(o) # H(a)
<1>1. /\ \A o, p \in Obj : Q(o) = Q(p) => o = p
      /\ \A a, b \in Loops : H(a) = H(b) => a = b
      /\ \A o \in Obj, a \in Loops : Q(o) # H(a)
  BY DEF Q, H
<1> QED BY <1>1, Zenon DEF Boxes

LEMMA InBox ==
    ASSUME NEW qs, NEW hs
    PROVE  /\ \A o \in Obj : Family(qs, hs)[Q(o)] = qs[o]
           /\ \A a \in Loops : Family(qs, hs)[H(a)] = hs[a]
<1>1. \A o \in Obj : Q(o)[1] = "q" /\ Q(o)[2] = o
  BY DEF Q
<1>2. \A a \in Loops : H(a)[1] = "h" /\ H(a)[2] = a
  BY DEF H
<1>3. "h" # "q"
  OBVIOUS
<1> HIDE DEF Q, H
<1> QED BY <1>1, <1>2, <1>3, BoxNames DEF Family

-----------------------------------------------------------------------------
(* What an operation does to the family. *)

\* A carry: what was in two boxes is in them still.
LEMMA Moves ==
    ASSUME NEW f, NEW g, NEW F, NEW G, Kept(f, F),
           NEW k \in Boxes, NEW l \in Boxes, k # l,
           NoDup(g[k]), NoDup(g[l]), Elems(g[k]) \cap Elems(g[l]) = {},
           Elems(g[k]) \cup Elems(g[l]) = Elems(f[k]) \cup Elems(f[l]),
           \A b \in Boxes \ {k, l} : g[b] = f[b],
           \A m \in Msg : G[m] = "held" <=> F[m] = "held"
    PROVE  Kept(g, G)
<1>1. \A b \in Boxes : NoDup(g[b])
  BY DEF Kept
<1>2. ASSUME NEW b \in Boxes, NEW c \in Boxes, NEW m, m \in Elems(g[b]), m \in Elems(g[c])
      PROVE  b = c
  <2>1. CASE b \in {k, l}
    <3>1. PICK x \in {k, l} : m \in Elems(f[x])
      BY <1>2, <2>1
    <3>2. c \in {k, l}
      BY <1>2, <3>1 DEF Kept
    <3> QED BY <1>2, <2>1, <3>2
  <2>2. CASE b \notin {k, l}
    <3>1. m \in Elems(f[b])
      BY <1>2, <2>2
    <3>2. CASE c \in {k, l}
      <4>1. PICK x \in {k, l} : m \in Elems(f[x])
        BY <1>2, <3>2
      <4> QED BY <2>2, <3>1, <4>1 DEF Kept
    <3>3. CASE c \notin {k, l}
      BY <1>2, <3>1, <3>3 DEF Kept
    <3> QED BY <3>2, <3>3
  <2> QED BY <2>1, <2>2
<1>3. ASSUME NEW m
      PROVE  (\E b \in Boxes : m \in Elems(g[b])) <=> \E b \in Boxes : m \in Elems(f[b])
  <2>1. m \in Elems(g[k]) \/ m \in Elems(g[l]) <=> m \in Elems(f[k]) \/ m \in Elems(f[l])
    OBVIOUS
  <2>2. \A b \in Boxes : b = k \/ b = l \/ g[b] = f[b]
    OBVIOUS
  <2> QED BY <2>1, <2>2, Zenon
<1>4. \A m \in Msg : G[m] = "held" <=> \E b \in Boxes : m \in Elems(g[b])
  BY <1>3, Zenon DEF Kept
<1> QED BY <1>1, <1>2, <1>4 DEF Kept

\* A message that was in none enters one.
LEMMA Enters ==
    ASSUME NEW f, NEW g, NEW F, NEW G, Kept(f, F),
           NEW k \in Boxes, NEW x \in Msg, F[x] # "held", G[x] = "held",
           NoDup(g[k]), Elems(g[k]) = Elems(f[k]) \cup {x},
           \A b \in Boxes \ {k} : g[b] = f[b],
           \A m \in Msg \ {x} : G[m] = "held" <=> F[m] = "held"
    PROVE  Kept(g, G)
<1>1. \A b \in Boxes : NoDup(g[b])
  BY DEF Kept
<1>2. \A b \in Boxes : x \notin Elems(f[b])
  BY DEF Kept
<1>3. ASSUME NEW b \in Boxes, NEW m, m # x
      PROVE  m \in Elems(g[b]) <=> m \in Elems(f[b])
  BY <1>3
<1>4. ASSUME NEW b \in Boxes, NEW c \in Boxes, NEW m, m \in Elems(g[b]), m \in Elems(g[c])
      PROVE  b = c
  <2>1. CASE m = x
    BY <1>2, <1>4, <2>1
  <2>2. CASE m # x
    BY <1>3, <1>4, <2>2 DEF Kept
  <2> QED BY <2>1, <2>2
<1>5. ASSUME NEW m \in Msg
      PROVE  G[m] = "held" <=> \E b \in Boxes : m \in Elems(g[b])
  <2>1. CASE m = x
    BY <2>1
  <2>2. CASE m # x
    BY <1>3, <2>2, Zenon DEF Kept
  <2> QED BY <2>1, <2>2
<1> QED BY <1>1, <1>4, <1>5 DEF Kept

\* Messages with a verdict leave the one they were in.
LEMMA Leave ==
    ASSUME NEW f, NEW g, NEW F, NEW G, Kept(f, F),
           NEW k \in Boxes, NEW S, S \subseteq Elems(f[k]),
           NoDup(g[k]), Elems(g[k]) = Elems(f[k]) \ S,
           \A b \in Boxes \ {k} : g[b] = f[b],
           \A m \in Msg : G[m] = "held" <=> F[m] = "held" /\ m \notin S
    PROVE  Kept(g, G)
<1>1. \A b \in Boxes : NoDup(g[b])
  BY DEF Kept
<1>2. ASSUME NEW b \in Boxes, NEW m
      PROVE  m \in Elems(g[b]) <=> m \in Elems(f[b]) /\ m \notin S
  <2>1. CASE b = k
    BY <2>1
  <2>2. CASE b # k
    BY <2>2 DEF Kept
  <2> QED BY <2>1, <2>2
<1>3. \A b, c \in Boxes : \A m \in Elems(g[b]) : m \in Elems(g[c]) => b = c
  BY <1>2 DEF Kept
<1>4. ASSUME NEW m \in Msg
      PROVE  G[m] = "held" <=> \E b \in Boxes : m \in Elems(g[b])
  <2>1. F[m] = "held" <=> \E b \in Boxes : m \in Elems(f[b])
    BY DEF Kept
  <2> QED BY <1>2, <2>1, Zenon
<1> QED BY <1>1, <1>3, <1>4 DEF Kept

\* Nothing happens to any box.
LEMMA Same ==
    ASSUME NEW f, NEW g, NEW F, NEW G, Kept(f, F),
           \A b \in Boxes : g[b] = f[b],
           \A m \in Msg : G[m] = "held" <=> F[m] = "held"
    PROVE  Kept(g, G)
<1>1. \A m : (\E b \in Boxes : m \in Elems(g[b])) <=> \E b \in Boxes : m \in Elems(f[b])
  BY Zenon
<1>2. \A m \in Msg : G[m] = "held" <=> \E b \in Boxes : m \in Elems(g[b])
  BY <1>1, Zenon DEF Kept
<1> QED BY <1>2 DEF Kept

\* One queue behind another.
LEMMA ConcatElems ==
    ASSUME NEW S, NEW s \in Seq(S), NEW t \in Seq(S)
    PROVE  /\ s \o t \in Seq(S)
           /\ Elems(s \o t) = Elems(s) \cup Elems(t)
           /\ NoDup(s) /\ NoDup(t) /\ Elems(s) \cap Elems(t) = {} => NoDup(s \o t)
<1> DEFINE u == s \o t
<1>1. /\ u \in Seq(S) /\ Len(s) \in Nat /\ Len(t) \in Nat
      /\ DOMAIN s = 1..Len(s) /\ DOMAIN t = 1..Len(t)
      /\ DOMAIN u = 1..(Len(s) + Len(t))
      /\ \A i \in 1..(Len(s) + Len(t)) :
            u[i] = IF i <= Len(s) THEN s[i] ELSE t[i - Len(s)]
  BY ConcatProperties
<1> HIDE DEF u
<1>2. ASSUME NEW i \in DOMAIN u
      PROVE  \/ i \in DOMAIN s /\ u[i] = s[i]
             \/ i - Len(s) \in DOMAIN t /\ u[i] = t[i - Len(s)] /\ i \notin DOMAIN s
  BY <1>1
<1>3. ASSUME NEW i \in DOMAIN s PROVE i \in DOMAIN u /\ u[i] = s[i]
  BY <1>1
<1>4. ASSUME NEW i \in DOMAIN t
      PROVE  i + Len(s) \in DOMAIN u /\ u[i + Len(s)] = t[i]
  <2>1. i + Len(s) \in 1..(Len(s) + Len(t)) /\ ~(i + Len(s) <= Len(s)) /\ (i + Len(s)) - Len(s) = i
    BY <1>1
  <2> QED BY <1>1, <2>1
<1>5. Elems(u) = Elems(s) \cup Elems(t)
  <2>1. Elems(u) \subseteq Elems(s) \cup Elems(t)
    BY <1>2 DEF Elems
  <2>2. Elems(s) \subseteq Elems(u)
    BY <1>3 DEF Elems
  <2>3. Elems(t) \subseteq Elems(u)
    BY <1>4 DEF Elems
  <2> QED BY <2>1, <2>2, <2>3
<1>6. ASSUME NoDup(s), NoDup(t), Elems(s) \cap Elems(t) = {}
      PROVE  NoDup(u)
  <2> SUFFICES ASSUME NEW i \in DOMAIN u, NEW j \in DOMAIN u, u[i] = u[j]
               PROVE  i = j
    BY DEF NoDup
  <2>1. CASE i \in DOMAIN s /\ j \in DOMAIN s
    BY <1>3, <1>6, <2>1 DEF NoDup
  <2>2. CASE i \notin DOMAIN s /\ j \notin DOMAIN s
    <3>1. i - Len(s) = j - Len(s)
      BY <1>2, <1>6, <2>2 DEF NoDup
    <3> QED BY <1>1, <3>1
  <2>3. CASE ~(i \in DOMAIN s <=> j \in DOMAIN s)
    <3>1. u[i] \in Elems(s) \cap Elems(t) \/ u[j] \in Elems(s) \cap Elems(t)
      BY <1>2, <2>3 DEF Elems
    <3> QED BY <1>6, <3>1
  <2> QED BY <2>1, <2>2, <2>3
<1> QED BY <1>1, <1>5, <1>6 DEF u

-----------------------------------------------------------------------------
(* What holds of the goroutine that acts. *)

Senders == Msg \cup Obj \cup {"wake"}

LEMMA Sending ==
    ASSUME LifeInv, NEW a \in Senders, pc[a] \in SendPcs
    PROVE  /\ a \in Actor /\ ptr[a] \in Made /\ ptr[a] \in Obj
           /\ hand[a] \in Seq(Msg) /\ Len(hand[a]) \in Nat \ {0} /\ Carried(a) \in Msg
           /\ a \in Msg => Carried(a) = a /\ fate[a] = "new" /\ hand[a] = <<a>>
           /\ a \notin Msg => /\ a \in Loops /\ fate[Carried(a)] = "held"
                              /\ Carried(a) \in Elems(hand[a])
                              /\ Tail(hand[a]) \in Seq(Msg) /\ NoDup(Tail(hand[a]))
                              /\ Len(Tail(hand[a])) = Len(hand[a]) - 1
                              /\ Elems(Tail(hand[a])) = Elems(hand[a]) \ {Carried(a)}
<1>1. a \in Actor /\ hand[a] \in Seq(Msg)
  BY Actors DEF Senders, LifeInv, TypeOK
<1>2. CASE a \in Msg
  <2>1. SenderAt(a) /\ hand[a] = <<a>>
    BY <1>2 DEF LifeInv, LocalInv, SenderAt
  <2>2. Head(<<a>>) = a /\ Len(<<a>>) = 1
    OBVIOUS
  <2> QED BY <1>1, <1>2, <2>1, <2>2 DEF SenderAt, Carried, Made, SendPcs
<1>3. CASE a \notin Msg
  <2>1. a \in Loops
    BY <1>1, <1>3 DEF Loops
  <2>2. hand[a] # <<>> /\ ptr[a] \in Made
    <3>1. CASE a \in Obj
      BY <3>1 DEF LifeInv, LocalInv, DrainAt, SendPcs
    <3>2. CASE a = "wake"
      BY <3>2 DEF LifeInv, LocalInv, WakeInv, SendPcs
    <3> QED BY <1>3, <3>1, <3>2 DEF Senders
  <2>3. /\ Family(queue, hand)[H(a)] = hand[a] /\ H(a) \in Boxes
    BY <2>1, InBox, BoxNames
  <2>4. NoDup(hand[a]) /\ \A m \in Elems(hand[a]) : m \in Msg => fate[m] = "held"
    BY <2>3 DEF LifeInv, MailInv, Kept
  <2>5. /\ Head(hand[a]) \in Msg /\ Tail(hand[a]) \in Seq(Msg)
        /\ Len(Tail(hand[a])) = Len(hand[a]) - 1
        /\ Elems(hand[a]) = Elems(Tail(hand[a])) \cup {Head(hand[a])}
        /\ Head(hand[a]) \notin Elems(Tail(hand[a]))
        /\ NoDup(Tail(hand[a]))
    BY <1>1, <2>2, <2>4, TailElems
  <2>6. Len(hand[a]) \in Nat \ {0}
    BY <1>1, <2>2
  <2> QED BY <1>1, <1>3, <2>1, <2>2, <2>4, <2>5, <2>6 DEF Carried, Made
<1> QED BY <1>2, <1>3

\* A goroutine that has sent one goes on, or is done.
LEMMA SentTo ==
    ASSUME LifeInv, NEW a \in Senders, pc[a] \in SendPcs, Sent(a)
    PROVE  /\ hand' = [hand EXCEPT ![a] = IF a \in Msg THEN <<a>> ELSE Tail(@)]
           /\ hand' \in [Actor -> Seq(Msg)]
           /\ pc' \in [Actor -> Pcs] /\ ptr' \in [Actor -> MayBe] /\ new' \in [Actor -> MayBe]
           /\ \/ /\ a = "wake" /\ Len(hand[a]) > 1
                 /\ pc' = [pc EXCEPT ![a] = IF new[a] = NoObj THEN "type" ELSE "check"]
                 /\ ptr' = ptr /\ new' = new
              \/ /\ ~(a = "wake" /\ Len(hand[a]) > 1)
                 /\ pc' = [pc EXCEPT ![a] = IF a \in Msg THEN "done" ELSE "idle"]
                 /\ ptr' = [ptr EXCEPT ![a] = NoObj] /\ new' = [new EXCEPT ![a] = NoObj]
<1>1. <<a>> \in Seq(Msg) \/ a \notin Msg
  OBVIOUS
<1>2. a \in Actor /\ (a \notin Msg => Tail(hand[a]) \in Seq(Msg))
  BY Sending
<1>3. hand' = [hand EXCEPT ![a] = IF a \in Msg THEN <<a>> ELSE Tail(@)]
  BY DEF Sent
<1>4. hand' \in [Actor -> Seq(Msg)]
  BY <1>1, <1>2, <1>3 DEF LifeInv, TypeOK
<1>5. \/ /\ a = "wake" /\ Len(hand[a]) > 1
         /\ pc' = [pc EXCEPT ![a] = IF new[a] = NoObj THEN "type" ELSE "check"]
         /\ ptr' = ptr /\ new' = new
      \/ /\ ~(a = "wake" /\ Len(hand[a]) > 1)
         /\ pc' = [pc EXCEPT ![a] = IF a \in Msg THEN "done" ELSE "idle"]
         /\ ptr' = [ptr EXCEPT ![a] = NoObj] /\ new' = [new EXCEPT ![a] = NoObj]
  BY DEF Sent, Goes, EndsIn
<1>6. pc' \in [Actor -> Pcs] /\ ptr' \in [Actor -> MayBe] /\ new' \in [Actor -> MayBe]
  BY <1>2, <1>5 DEF LifeInv, TypeOK, Pcs, SendPcs, MayBe
<1> QED BY <1>3, <1>4, <1>5, <1>6

LEMMA TriggerTypes ==
    ASSUME TypeOK, NEW o \in Obj, Trigger(o)
    PROVE  wakes' \in [Obj -> 0 .. MaxWakes]
BY BoundsAssumption DEF TypeOK, Trigger

LEMMA Typings ==
    ASSUME TypeOK
    PROVE  /\ \A o \in Obj : queue[o] \in Seq(Msg) /\ inHand[o] \in Seq(Msg)
           /\ \A o \in Obj : Tail(inHand[o]) \in Seq(Msg) \/ inHand[o] = <<>>
           /\ \A a \in Actor : hand[a] \in Seq(Msg) /\ ptr[a] \in MayBe /\ new[a] \in MayBe
           /\ <<>> \in Seq(Msg)
           /\ current # NoObj => current \in Obj
<1>1. \A o \in Obj : queue[o] \in Seq(Msg) /\ inHand[o] \in Seq(Msg)
  BY DEF TypeOK
<1>2. ASSUME NEW s \in Seq(Msg) PROVE Tail(s) \in Seq(Msg) \/ s = <<>>
  OBVIOUS
<1> QED BY <1>1, <1>2 DEF TypeOK, MayBe

-----------------------------------------------------------------------------
(* Types. *)

LEMMA SendTypes ==
    ASSUME LifeInv, NEW a \in Senders, SendStep(a)
    PROVE  TypeOK'
<1> USE DEF panes, mail, procs
<1>1. CASE Check(a)
  <2>1. pc' \in [Actor -> Pcs]
    BY <1>1, Actors DEF Check, LifeInv, TypeOK, Pcs, SendPcs, Senders
  <2> QED BY <1>1, <2>1 DEF Check, LifeInv, TypeOK
<1>2. CASE Enqueue(a)
  <2>1. pc[a] \in SendPcs
    BY <1>2 DEF Enqueue, SendPcs
  <2>2. ptr[a] \in Obj /\ Carried(a) \in Msg
    BY <2>1, Sending
  <2>3. /\ hand' \in [Actor -> Seq(Msg)] /\ pc' \in [Actor -> Pcs]
        /\ ptr' \in [Actor -> MayBe] /\ new' \in [Actor -> MayBe]
    BY <1>2, <2>1, SentTo DEF Enqueue
  <2>4. wakes' \in [Obj -> 0 .. MaxWakes]
    BY <1>2, <2>2, TriggerTypes DEF Enqueue, LifeInv
  <2>5. Append(queue[ptr[a]], Carried(a)) \in Seq(Msg)
    BY <2>2, Typings, AppendElems DEF LifeInv
  <2>6. queue' \in [Obj -> Seq(Msg)] /\ fate' \in [Msg -> Fates]
    BY <1>2, <2>2, <2>5 DEF Enqueue, LifeInv, TypeOK, Fates
  <2> QED BY <1>2, <2>3, <2>4, <2>6 DEF Enqueue, LifeInv, TypeOK
<1>3. CASE Type(a)
  <2>1. pc[a] \in SendPcs
    BY <1>3 DEF Type, SendPcs
  <2>2. ptr[a] \in Obj /\ Carried(a) \in Msg
    BY <2>1, Sending
  <2>3. /\ hand' \in [Actor -> Seq(Msg)] /\ pc' \in [Actor -> Pcs]
        /\ ptr' \in [Actor -> MayBe] /\ new' \in [Actor -> MayBe]
    BY <1>3, <2>1, SentTo DEF Type
  <2>4. /\ Append(queue[ptr[a]], Carried(a)) \in Seq(Msg)
        /\ <<Carried(a)>> \o queue[ptr[a]] \in Seq(Msg)
    BY <2>2, Typings, AppendElems, FrontElems DEF LifeInv
  <2>5. \/ UNCHANGED queue
        \/ queue' = [queue EXCEPT ![ptr[a]] = IF a \in Obj THEN <<Carried(a)>> \o @
                                                           ELSE Append(@, Carried(a))]
    BY <1>3 DEF Type, HoldInSend
  <2>6. queue' \in [Obj -> Seq(Msg)]
    <3>1. queue \in [Obj -> Seq(Msg)]
      BY DEF LifeInv, TypeOK
    <3>2. \/ queue' = queue
          \/ \E t \in Seq(Msg) : queue' = [queue EXCEPT ![ptr[a]] = t]
      <4>1. CASE a \in Obj
        BY <2>4, <2>5, <4>1
      <4>2. CASE a \notin Obj
        BY <2>4, <2>5, <4>2
      <4> QED BY <4>1, <4>2
    <3> QED BY ONLY <2>2, <3>1, <3>2
  <2>7. \E v \in {"refused", "lost", "typed", "unsure", "held"} :
            fate' = [fate EXCEPT ![Carried(a)] = v]
    BY <1>3 DEF Type, HoldInSend
  <2>8. fate' \in [Msg -> Fates]
    BY <2>7 DEF LifeInv, TypeOK, Fates
  <2>9. inHand' \in [Obj -> Seq(Msg)]
    BY <1>3, <2>2, Typings DEF Type, TypedFromHand, LifeInv, TypeOK
  <2> QED BY <1>3, <2>3, <2>6, <2>8, <2>9 DEF Type, LifeInv, TypeOK
<1> QED BY <1>1, <1>2, <1>3 DEF SendStep

LEMMA DrainTypes ==
    ASSUME LifeInv, NEW o \in Obj, DrainStep(o)
    PROVE  TypeOK'
<1> USE DEF panes, mail, procs, LifeInv
<1>1. CASE DrainStart(o)
  BY <1>1, Actors DEF DrainStart, Goes, TypeOK, Pcs
<1>2. CASE DrainPop(o)
  <2>1. CASE queue[o] = <<>>
    <3>1. UNCHANGED <<queue, hand>> /\ Ends(o)
      BY <1>2, <2>1 DEF DrainPop
    <3>2. pc' \in [Actor -> Pcs]
      BY <3>1 DEF Ends, EndsIn, TypeOK, Pcs
    <3>3. ptr' \in [Actor -> MayBe] /\ new' \in [Actor -> MayBe]
      BY <3>1 DEF Ends, EndsIn, TypeOK, MayBe
    <3> QED BY <1>2, <3>1, <3>2, <3>3 DEF DrainPop, TypeOK
  <2>2. CASE queue[o] # <<>>
    <3>1. Q(o) \in Boxes /\ Family(queue, hand)[Q(o)] = queue[o]
      BY BoxNames, InBox
    <3>2. Head(queue[o]) \in Msg /\ Tail(queue[o]) \in Seq(Msg)
      BY <2>2, <3>1, Typings, TailElems DEF MailInv, Kept
    <3>3. <<Head(queue[o])>> \in Seq(Msg)
      BY <3>2
    <3>4. hand' \in [Actor -> Seq(Msg)]
      BY <1>2, <2>2, <3>3 DEF DrainPop, TypeOK
    <3>5. queue' \in [Obj -> Seq(Msg)]
      BY <1>2, <2>2, <3>2 DEF DrainPop, TypeOK
    <3>6. pc' \in [Actor -> Pcs] /\ ptr' \in [Actor -> MayBe]
      BY <1>2, <2>2 DEF DrainPop, Goes, TypeOK, Pcs, SendPcs, MayBe
    <3> QED BY <1>2, <2>2, <3>4, <3>5, <3>6 DEF DrainPop, TypeOK
  <2> QED BY <2>1, <2>2
<1> QED BY <1>1, <1>2 DEF DrainStep

LEMMA WakeTypes ==
    ASSUME LifeInv, Wake
    PROVE  TypeOK'
<1> USE DEF panes, mail, procs, LifeInv, Goes, Ends, EndsIn
<1>1. /\ "wake" \in Actor /\ hand["wake"] \in Seq(Msg)
      /\ pc["wake"] # "idle" => ptr["wake"] \in Obj
      /\ pc["wake"] \in {"stale", "swap"} => new["wake"] \in Obj
  BY Actors, Typings DEF LocalInv, WakeInv, Made
<1>2. ASSUME NEW o \in Obj, WakeBegin(o) PROVE TypeOK'
  <2>1. wakes' \in [Obj -> 0 .. MaxWakes]
    BY <1>2, BoundsAssumption DEF WakeBegin, TypeOK
  <2> QED BY <1>1, <1>2, <2>1 DEF WakeBegin, TypeOK, Pcs, WakePcs, MayBe
<1>3. CASE Resolve
  <2>1. pc' \in [Actor -> Pcs]
    BY <1>3 DEF Resolve, TypeOK, Pcs, WakePcs
  <2>2. ptr' \in [Actor -> MayBe]
    BY <1>3 DEF Resolve, TypeOK, MayBe
  <2>3. new' \in [Actor -> MayBe]
    BY <1>3 DEF Resolve, TypeOK, MayBe
  <2> QED BY <1>3, <2>1, <2>2, <2>3 DEF Resolve, TypeOK
<1>4. CASE Stale
  BY <1>1, <1>4, Typings DEF Stale, TypeOK, Pcs, SendPcs, MayBe
<1>5. CASE Judge
  BY <1>1, <1>5 DEF Judge, TypeOK, Pcs, WakePcs, MayBe
<1>6. CASE Spawn
  <2>1. life' \in [Obj -> Lives] /\ term' \in [Obj -> Terms] /\ cut' \in BOOLEAN
    BY <1>6 DEF Spawn, Spawned, TypeOK, Lives, Terms
  <2>2. pc' \in [Actor -> Pcs] /\ ptr' \in [Actor -> MayBe] /\ new' \in [Actor -> MayBe]
    <3>1. pc' \in [Actor -> Pcs]
      BY <1>6 DEF Spawn, TypeOK, Pcs, WakePcs
    <3>2. ptr' \in [Actor -> MayBe]
      BY <1>6 DEF Spawn, TypeOK, MayBe
    <3>3. new' \in [Actor -> MayBe]
      BY <1>6 DEF Spawn, TypeOK, MayBe
    <3> QED BY <3>1, <3>2, <3>3
  <2> QED BY <1>6, <2>1, <2>2 DEF Spawn, TypeOK
<1>7. CASE Swap
  <2>1. life' \in [Obj -> Lives] /\ term' \in [Obj -> Terms] /\ current' \in MayBe
    BY <1>1, <1>7 DEF Swap, Discard, TypeOK, Lives, Terms, MayBe
  <2>2. pc' \in [Actor -> Pcs] /\ ptr' \in [Actor -> MayBe] /\ new' \in [Actor -> MayBe]
    BY <1>1, <1>7 DEF Swap, TypeOK, Pcs, WakePcs, MayBe
  <2>3. hand' \in [Actor -> Seq(Msg)] /\ queue' \in [Obj -> Seq(Msg)]
    <3>1. queue[ptr["wake"]] \in Seq(Msg) /\ <<>> \in Seq(Msg)
      BY <1>1, <1>7, Typings DEF Swap
    <3>2. CASE current = ptr["wake"]
      <4>1. /\ hand' = [hand EXCEPT !["wake"] = queue[ptr["wake"]]]
            /\ queue' = [queue EXCEPT ![ptr["wake"]] = <<>>]
        BY <1>7, <3>2 DEF Swap
      <4>2. hand' \in [Actor -> Seq(Msg)]
        BY <3>1, <4>1 DEF TypeOK
      <4>3. queue' \in [Obj -> Seq(Msg)]
        BY <3>1, <4>1 DEF TypeOK
      <4> QED BY <4>2, <4>3
    <3>3. CASE current # ptr["wake"]
      BY <1>7, <3>3 DEF Swap, TypeOK
    <3> QED BY <3>2, <3>3
  <2> QED BY <1>7, <2>1, <2>2, <2>3 DEF Swap, TypeOK
<1>8. CASE WakeInit
  <2>1. ptr["wake"] \in Obj /\ queue[ptr["wake"]] \o hand["wake"] \in Seq(Msg)
    BY <1>1, <1>8, Typings, ConcatElems DEF WakeInit
  <2>2. hand' \in [Actor -> Seq(Msg)] /\ queue' \in [Obj -> Seq(Msg)]
    <3>1. <<>> \in Seq(Msg)
      BY Typings
    <3>2. CASE life[ptr["wake"]] # "live"
      <4>1. /\ hand' = [hand EXCEPT !["wake"] = <<>>]
            /\ queue' = [queue EXCEPT ![ptr["wake"]] = @ \o hand["wake"]]
        BY <1>8, <3>2 DEF WakeInit
      <4>2. hand' \in [Actor -> Seq(Msg)]
        BY <3>1, <4>1 DEF TypeOK
      <4>3. queue' \in [Obj -> Seq(Msg)]
        BY <2>1, <4>1 DEF TypeOK
      <4> QED BY <4>2, <4>3
    <3>3. CASE life[ptr["wake"]] = "live"
      BY <1>8, <3>3 DEF WakeInit, TypeOK
    <3> QED BY <3>2, <3>3
  <2>3. life' \in [Obj -> Lives] /\ cut' \in BOOLEAN
    BY <1>8 DEF WakeInit, TypeOK, Lives
  <2>4. pc' \in [Actor -> Pcs] /\ ptr' \in [Actor -> MayBe] /\ new' \in [Actor -> MayBe]
    BY <1>8 DEF WakeInit, TypeOK, Pcs, SendPcs, MayBe
  <2> QED BY <1>8, <2>2, <2>3, <2>4 DEF WakeInit, TypeOK
<1>9. CASE TypeInHand
  <2>1. pc' \in [Actor -> Pcs]
    BY <1>9 DEF TypeInHand, TypeOK, Pcs, WakePcs
  <2>2. inHand' \in [Obj -> Seq(Msg)]
    BY <1>1, <1>9 DEF TypeInHand, TypeOK
  <2> QED BY <1>9, <2>1, <2>2 DEF TypeInHand, TypeOK
<1> QED BY <1>2, <1>3, <1>4, <1>5, <1>6, <1>7, <1>8, <1>9 DEF Wake

LEMMA OperateTypes ==
    ASSUME LifeInv, Operate
    PROVE  TypeOK'
<1> USE DEF panes, mail, procs, LifeInv, Goes, Ends, EndsIn
<1>1. /\ "cmd" \in Actor /\ "park" \in Actor /\ hand["cmd"] \in Seq(Msg)
      /\ pc["cmd"] # "idle" => ptr["cmd"] \in Obj
      /\ pc["cmd"] \in {"reswap", "startSwap"} => new["cmd"] \in Obj
      /\ pc["park"] = "park" => ptr["park"] \in Obj
      /\ current # NoObj => current \in Obj
  BY Actors, Typings DEF LocalInv, CmdInv, ParkInv, Made
<1>2. Intervenes => acts' \in 0 .. MaxActs
  BY BoundsAssumption DEF Intervenes, TypeOK
<1>3. CASE RestartMark
  BY <1>1, <1>2, <1>3 DEF RestartMark, TypeOK, Pcs, CmdPcs, MayBe, Terms
<1>4. CASE RestartTake
  BY <1>1, <1>4, Typings DEF RestartTake, TypeOK, Pcs, CmdPcs, Lives, Terms
<1>5. CASE RestartSpawn
  <2>1. ptr["cmd"] \in Obj /\ hand["cmd"] \o queue[ptr["cmd"]] \in Seq(Msg)
    BY <1>1, <1>5, Typings, ConcatElems DEF RestartSpawn
  <2>2. hand' \in [Actor -> Seq(Msg)] /\ queue' \in [Obj -> Seq(Msg)]
    <3>1. <<>> \in Seq(Msg)
      BY Typings
    <3>2. \/ queue' = [queue EXCEPT ![ptr["cmd"]] = hand["cmd"] \o @]
          \/ \E np \in Obj : queue' = [queue EXCEPT ![np] = hand["cmd"]]
      BY <1>5 DEF RestartSpawn
    <3>3. queue' \in [Obj -> Seq(Msg)]
      BY <1>1, <2>1, <3>2 DEF TypeOK
    <3> QED BY <1>5, <3>1, <3>3 DEF RestartSpawn, TypeOK
  <2>3. life' \in [Obj -> Lives] /\ term' \in [Obj -> Terms]
    BY <1>5 DEF RestartSpawn, Spawned, TypeOK, Lives, Terms
  <2>4. pc' \in [Actor -> Pcs] /\ ptr' \in [Actor -> MayBe] /\ new' \in [Actor -> MayBe]
    <3>1. pc' \in [Actor -> Pcs]
      BY <1>5 DEF RestartSpawn, TypeOK, Pcs, CmdPcs
    <3>2. ptr' \in [Actor -> MayBe]
      BY <1>5 DEF RestartSpawn, TypeOK, MayBe
    <3>3. new' \in [Actor -> MayBe]
      BY <1>5 DEF RestartSpawn, TypeOK, MayBe
    <3> QED BY <3>1, <3>2, <3>3
  <2> QED BY <1>5, <2>2, <2>3, <2>4 DEF RestartSpawn, TypeOK
<1>6. CASE RestartSwap
  <2>1. /\ ptr["cmd"] \in Obj /\ new["cmd"] \in Obj
        /\ queue[new["cmd"]] \o queue[ptr["cmd"]] \in Seq(Msg)
    BY <1>1, <1>6, Typings, ConcatElems DEF RestartSwap
  <2>2. queue' \in [Obj -> Seq(Msg)]
    BY <1>6, <2>1, Typings DEF RestartSwap, TypeOK
  <2>3. life' \in [Obj -> Lives] /\ term' \in [Obj -> Terms] /\ current' \in MayBe
    BY <1>6, <2>1 DEF RestartSwap, Discard, TypeOK, Lives, Terms, MayBe
  <2>4. pc' \in [Actor -> Pcs] /\ ptr' \in [Actor -> MayBe] /\ new' \in [Actor -> MayBe]
    BY <1>6 DEF RestartSwap, TypeOK, Pcs, MayBe
  <2> QED BY <1>6, <2>2, <2>3, <2>4 DEF RestartSwap, TypeOK
<1>7. CASE Start
  BY <1>1, <1>7 DEF Start, Spawned, TypeOK, Pcs, CmdPcs, MayBe, Lives, Terms
<1>8. CASE StartSwap
  BY <1>1, <1>8 DEF StartSwap, Discard, TypeOK, Pcs, MayBe, Lives, Terms
<1>9. CASE Stop
  BY <1>1, <1>2, <1>9 DEF Stop, TypeOK, Lives, Terms
<1>10. CASE Remove
  BY <1>1, <1>2, <1>10, Typings DEF Remove, CloseOffMain, TypeOK, MayBe, Lives, Terms, Fates
<1>11. CASE Add
  BY <1>1, <1>11 DEF Add, Spawned, TypeOK, MayBe, Lives, Terms
<1>12. CASE ParkPick
  BY <1>1, <1>2, <1>12 DEF ParkPick, TypeOK, Pcs, MayBe
<1>13. CASE Park
  BY <1>1, <1>13 DEF Park, CloseOffMain, TypeOK, Pcs, MayBe, Lives, Terms
<1>14. CASE Rewake
  <2>1. wakes' \in [Obj -> 0 .. MaxWakes]
    BY <1>1, <1>14, TriggerTypes DEF Rewake
  <2> QED BY <1>14, <2>1 DEF Rewake, TypeOK
<1> QED BY <1>3, <1>4, <1>5, <1>6, <1>7, <1>8, <1>9, <1>10, <1>11, <1>12, <1>13, <1>14 DEF Operate

LEMMA NextTypes ==
    ASSUME LifeInv, [Next]_vars
    PROVE  TypeOK'
<1> USE DEF panes, mail, procs
<1>1. ASSUME NEW m \in Msg, Send(m) PROVE TypeOK'
  <2>1. current # NoObj => /\ current \in Obj
                           /\ Append(queue[current], m) \in Seq(Msg)
    BY Typings, AppendElems DEF LifeInv
  <2>2. current # NoObj /\ Trigger(current) => wakes' \in [Obj -> 0 .. MaxWakes]
    BY <2>1, TriggerTypes DEF LifeInv
  <2>3. pc' \in [Actor -> Pcs] /\ ptr' \in [Actor -> MayBe]
    BY <1>1, <2>1 DEF Send, Goes, LifeInv, TypeOK, Pcs, SendPcs, MayBe
  <2>4. fate' \in [Msg -> Fates] /\ queue' \in [Obj -> Seq(Msg)]
    BY <1>1, <2>1 DEF Send, LifeInv, TypeOK, Fates
  <2>5. wakes' \in [Obj -> 0 .. MaxWakes]
    BY <1>1, <2>2 DEF Send, LifeInv, TypeOK
  <2> QED BY <1>1, <2>3, <2>4, <2>5 DEF Send, LifeInv, TypeOK
<1>2. ASSUME NEW a \in Senders, SendStep(a) PROVE TypeOK'
  BY <1>2, SendTypes
<1>3. ASSUME NEW o \in Obj, DrainStep(o) PROVE TypeOK'
  BY <1>3, DrainTypes
<1>4. ASSUME NEW o \in Obj, Teardown(o) PROVE TypeOK'
  BY <1>4 DEF Teardown, LifeInv, TypeOK, Terms
<1>5. ASSUME NEW o \in Obj, ChildExit(o) PROVE TypeOK'
  BY <1>5, BoundsAssumption DEF ChildExit, Intervenes, LifeInv, TypeOK, Lives
<1>6. CASE TickReports
  BY <1>6, Typings DEF TickReports, LifeInv, TypeOK, Fates
<1>7. CASE Wake
  BY <1>7, WakeTypes
<1>8. CASE Operate
  BY <1>8, OperateTypes
<1>9. CASE UNCHANGED vars
  BY <1>9 DEF vars, LifeInv, TypeOK
<1> QED BY <1>1, <1>2, <1>3, <1>4, <1>5, <1>6, <1>7, <1>8, <1>9 DEF Next, Senders

-----------------------------------------------------------------------------
(* The same, told of the queues and the hands. *)

LEMMA Rest ==
    ASSUME NEW qs, NEW hs, NEW qt, NEW ht, NEW b \in Boxes,
           \A p \in Obj : b = Q(p) => qt[p] = qs[p],
           \A a \in Loops : b = H(a) => ht[a] = hs[a]
    PROVE  Family(qt, ht)[b] = Family(qs, hs)[b]
<1>1. CASE \E o \in Obj : b = Q(o)
  BY <1>1, InBox
<1>2. CASE \E a \in Loops : b = H(a)
  BY <1>2, InBox
<1> QED BY <1>1, <1>2, BoxNames

LEMMA CarryQH ==
    ASSUME NEW qs, NEW hs, NEW qt, NEW ht, NEW F, NEW G, Kept(Family(qs, hs), F),
           NEW o \in Obj, NEW a \in Loops,
           \A p \in Obj \ {o} : qt[p] = qs[p],
           \A c \in Loops \ {a} : ht[c] = hs[c],
           NoDup(qt[o]), NoDup(ht[a]), Elems(qt[o]) \cap Elems(ht[a]) = {},
           Elems(qt[o]) \cup Elems(ht[a]) = Elems(qs[o]) \cup Elems(hs[a]),
           \A m \in Msg : G[m] = "held" <=> F[m] = "held"
    PROVE  Kept(Family(qt, ht), G)
<1> DEFINE f == Family(qs, hs)
           g == Family(qt, ht)
<1>1. /\ Q(o) \in Boxes /\ H(a) \in Boxes /\ Q(o) # H(a)
      /\ g[Q(o)] = qt[o] /\ g[H(a)] = ht[a] /\ f[Q(o)] = qs[o] /\ f[H(a)] = hs[a]
  BY BoxNames, InBox
<1>2. \A b \in Boxes \ {Q(o), H(a)} : g[b] = f[b]
  <2> SUFFICES ASSUME NEW b \in Boxes \ {Q(o), H(a)} PROVE g[b] = f[b]
    OBVIOUS
  <2>1. \A p \in Obj : b = Q(p) => qt[p] = qs[p]
    OBVIOUS
  <2>2. \A c \in Loops : b = H(c) => ht[c] = hs[c]
    OBVIOUS
  <2> QED BY <2>1, <2>2, Rest
<1> HIDE DEF f, g
<1>3. Kept(g, G)
  <2>1. Kept(f, F)
    BY DEF f
  <2> QED BY <1>1, <1>2, <2>1, Moves
<1> QED BY <1>3 DEF g

LEMMA CarryQQ ==
    ASSUME NEW qs, NEW hs, NEW qt, NEW F, Kept(Family(qs, hs), F),
           NEW o \in Obj, NEW n \in Obj, o # n,
           \A p \in Obj \ {o, n} : qt[p] = qs[p],
           NoDup(qt[o]), NoDup(qt[n]), Elems(qt[o]) \cap Elems(qt[n]) = {},
           Elems(qt[o]) \cup Elems(qt[n]) = Elems(qs[o]) \cup Elems(qs[n])
    PROVE  Kept(Family(qt, hs), F)
<1> DEFINE f == Family(qs, hs)
           g == Family(qt, hs)
<1>1. /\ Q(o) \in Boxes /\ Q(n) \in Boxes /\ Q(o) # Q(n)
      /\ g[Q(o)] = qt[o] /\ g[Q(n)] = qt[n] /\ f[Q(o)] = qs[o] /\ f[Q(n)] = qs[n]
  BY BoxNames, InBox
<1>2. \A b \in Boxes \ {Q(o), Q(n)} : g[b] = f[b]
  <2> SUFFICES ASSUME NEW b \in Boxes \ {Q(o), Q(n)} PROVE g[b] = f[b]
    OBVIOUS
  <2>1. \A p \in Obj : b = Q(p) => qt[p] = qs[p]
    OBVIOUS
  <2>2. \A c \in Loops : b = H(c) => hs[c] = hs[c]
    OBVIOUS
  <2> QED BY <2>1, <2>2, Rest
<1> HIDE DEF f, g
<1>3. Kept(g, F)
  <2>1. Kept(f, F)
    BY DEF f
  <2> QED BY <1>1, <1>2, <2>1, Moves
<1> QED BY <1>3 DEF g

LEMMA EnterQ ==
    ASSUME NEW qs, NEW hs, NEW qt, NEW ht, NEW F, NEW G, Kept(Family(qs, hs), F),
           NEW o \in Obj, NEW x \in Msg, F[x] # "held", G[x] = "held",
           \A p \in Obj \ {o} : qt[p] = qs[p],
           \A c \in Loops : ht[c] = hs[c],
           NoDup(qt[o]), Elems(qt[o]) = Elems(qs[o]) \cup {x},
           \A m \in Msg \ {x} : G[m] = "held" <=> F[m] = "held"
    PROVE  Kept(Family(qt, ht), G)
<1> DEFINE f == Family(qs, hs)
           g == Family(qt, ht)
<1>1. Q(o) \in Boxes /\ g[Q(o)] = qt[o] /\ f[Q(o)] = qs[o]
  BY BoxNames, InBox
<1>2. \A b \in Boxes \ {Q(o)} : g[b] = f[b]
  <2> SUFFICES ASSUME NEW b \in Boxes, b # Q(o) PROVE g[b] = f[b]
    OBVIOUS
  <2>1. \A p \in Obj : b = Q(p) => qt[p] = qs[p]
    OBVIOUS
  <2>2. \A c \in Loops : b = H(c) => ht[c] = hs[c]
    OBVIOUS
  <2>3. Family(qt, ht)[b] = Family(qs, hs)[b]
    BY ONLY b \in Boxes, <2>1, <2>2, Rest
  <2> QED BY <2>3
<1> HIDE DEF f, g
<1>3. Kept(g, G)
  <2>1. Kept(f, F)
    BY DEF f
  <2> QED BY <1>1, <1>2, <2>1, Enters
<1> QED BY <1>3 DEF g

LEMMA LeaveQ ==
    ASSUME NEW qs, NEW hs, NEW qt, NEW F, NEW G, Kept(Family(qs, hs), F),
           NEW o \in Obj, qt[o] = <<>>,
           \A p \in Obj \ {o} : qt[p] = qs[p],
           \A m \in Msg : G[m] = "held" <=> F[m] = "held" /\ m \notin Elems(qs[o])
    PROVE  Kept(Family(qt, hs), G)
<1> DEFINE f == Family(qs, hs)
           g == Family(qt, hs)
<1>1. Q(o) \in Boxes /\ g[Q(o)] = <<>> /\ f[Q(o)] = qs[o]
  BY BoxNames, InBox
<1>2. \A b \in Boxes \ {Q(o)} : g[b] = f[b]
  <2> SUFFICES ASSUME NEW b \in Boxes \ {Q(o)} PROVE g[b] = f[b]
    OBVIOUS
  <2>1. \A p \in Obj : b = Q(p) => qt[p] = qs[p]
    OBVIOUS
  <2>2. \A c \in Loops : b = H(c) => hs[c] = hs[c]
    OBVIOUS
  <2> QED BY <2>1, <2>2, Rest
<1>3. NoDup(<<>>) /\ Elems(<<>>) = {}
  BY DEF NoDup, Elems
<1> HIDE DEF f, g
<1>4. Kept(g, G)
  <2>1. Kept(f, F)
    BY DEF f
  <2>2. /\ Elems(qs[o]) \subseteq Elems(f[Q(o)])
        /\ NoDup(g[Q(o)]) /\ Elems(g[Q(o)]) = Elems(f[Q(o)]) \ Elems(qs[o])
    BY <1>1, <1>3
  <2> QED BY <1>1, <1>2, <2>1, <2>2, Leave
<1> QED BY <1>4 DEF g

LEMMA LeaveH ==
    ASSUME NEW qs, NEW hs, NEW ht, NEW F, NEW G, Kept(Family(qs, hs), F),
           NEW a \in Loops, NEW x \in Elems(hs[a]),
           NoDup(ht[a]), Elems(ht[a]) = Elems(hs[a]) \ {x},
           \A c \in Loops \ {a} : ht[c] = hs[c],
           \A m \in Msg : G[m] = "held" <=> F[m] = "held" /\ m # x
    PROVE  Kept(Family(qs, ht), G)
<1> DEFINE f == Family(qs, hs)
           g == Family(qs, ht)
<1>1. H(a) \in Boxes /\ g[H(a)] = ht[a] /\ f[H(a)] = hs[a]
  BY BoxNames, InBox
<1>2. \A b \in Boxes \ {H(a)} : g[b] = f[b]
  <2> SUFFICES ASSUME NEW b \in Boxes \ {H(a)} PROVE g[b] = f[b]
    OBVIOUS
  <2>1. \A p \in Obj : b = Q(p) => qs[p] = qs[p]
    OBVIOUS
  <2>2. \A c \in Loops : b = H(c) => ht[c] = hs[c]
    OBVIOUS
  <2> QED BY <2>1, <2>2, Rest
<1> HIDE DEF f, g
<1>3. Kept(g, G)
  <2>1. Kept(f, F)
    BY DEF f
  <2> DEFINE S == {x}
  <2>2. /\ S \subseteq Elems(f[H(a)]) /\ NoDup(g[H(a)])
        /\ Elems(g[H(a)]) = Elems(f[H(a)]) \ S
        /\ \A m \in Msg : G[m] = "held" <=> F[m] = "held" /\ m \notin S
    BY <1>1
  <2> HIDE DEF S
  <2> QED BY <1>1, <1>2, <2>1, <2>2, Leave
<1> QED BY <1>3 DEF g

LEMMA SameQH ==
    ASSUME NEW qs, NEW hs, NEW ht, NEW F, NEW G, Kept(Family(qs, hs), F),
           \A c \in Loops : ht[c] = hs[c],
           \A m \in Msg : G[m] = "held" <=> F[m] = "held"
    PROVE  Kept(Family(qs, ht), G)
<1> DEFINE f == Family(qs, hs)
           g == Family(qs, ht)
<1>1. ASSUME NEW b \in Boxes PROVE g[b] = f[b]
  <2>1. \A p \in Obj : b = Q(p) => qs[p] = qs[p]
    OBVIOUS
  <2>2. \A c \in Loops : b = H(c) => ht[c] = hs[c]
    OBVIOUS
  <2> QED BY <2>1, <2>2, Rest
<1> HIDE DEF f, g
<1>2. Kept(g, G)
  <2>1. Kept(f, F)
    BY DEF f
  <2> QED BY <1>1, <2>1, Same
<1> QED BY <1>2 DEF g

-----------------------------------------------------------------------------
(* Where the mail is, after every step. *)

LEMMA MailFacts ==
    ASSUME LifeInv
    PROVE  /\ \A o \in Obj : NoDup(queue[o]) /\ Elems(queue[o]) \subseteq Msg
           /\ \A a \in Loops : NoDup(hand[a]) /\ Elems(hand[a]) \subseteq Msg
           /\ \A o, p \in Obj : o # p => Elems(queue[o]) \cap Elems(queue[p]) = {}
           /\ \A o \in Obj, a \in Loops : Elems(queue[o]) \cap Elems(hand[a]) = {}
           /\ \A o \in Obj : \A m \in Elems(queue[o]) : fate[m] = "held"
           /\ \A a \in Loops : \A m \in Elems(hand[a]) : fate[m] = "held"
<1> DEFINE f == Family(queue, hand)
<1>1. /\ \A o \in Obj : Q(o) \in Boxes /\ f[Q(o)] = queue[o]
      /\ \A a \in Loops : H(a) \in Boxes /\ f[H(a)] = hand[a]
  BY BoxNames, InBox
<1>2. Kept(f, fate)
  BY DEF LifeInv, MailInv
<1> HIDE DEF f
<1>3. ASSUME NEW s \in Seq(Msg) PROVE Elems(s) \subseteq Msg
  BY <1>3 DEF Elems
<1>4. \A o \in Obj : NoDup(queue[o]) /\ Elems(queue[o]) \subseteq Msg
  BY <1>1, <1>2, <1>3, Typings DEF Kept, LifeInv
<1>5. \A a \in Loops : NoDup(hand[a]) /\ Elems(hand[a]) \subseteq Msg
  BY <1>1, <1>2, <1>3, Typings, Actors DEF Kept, LifeInv
<1>6. ASSUME NEW o \in Obj, NEW p \in Obj, o # p
      PROVE  Elems(queue[o]) \cap Elems(queue[p]) = {}
  <2>1. Q(o) # Q(p)
    BY <1>6, BoxNames
  <2> QED BY <1>1, <1>2, <2>1 DEF Kept
<1>7. ASSUME NEW o \in Obj, NEW a \in Loops
      PROVE  Elems(queue[o]) \cap Elems(hand[a]) = {}
  <2>1. Q(o) # H(a)
    BY BoxNames
  <2> QED BY <1>1, <1>2, <2>1 DEF Kept
<1>8. ASSUME NEW o \in Obj, NEW m \in Elems(queue[o]) PROVE fate[m] = "held"
  BY <1>1, <1>2, <1>4 DEF Kept
<1>9. ASSUME NEW a \in Loops, NEW m \in Elems(hand[a]) PROVE fate[m] = "held"
  BY <1>1, <1>2, <1>5 DEF Kept
<1> QED BY <1>4, <1>5, <1>6, <1>7, <1>8, <1>9

\* A verdict stays, and a message nobody has sent is still to be sent.
Fated(S) == /\ \A m \in Msg : fate[m] \in Terminal => fate'[m] = fate[m]
            /\ \A m \in Msg \ S : fate[m] = "new" => fate'[m] = "new"

\* A message goes from the sender or the loop to a queue.
LEMMA HeldMail ==
    ASSUME LifeInv, NEW a \in Senders, pc[a] \in SendPcs, Sent(a),
           NEW t, queue' = [queue EXCEPT ![ptr[a]] = t],
           t = Append(queue[ptr[a]], Carried(a)) \/ t = <<Carried(a)>> \o queue[ptr[a]],
           fate' = [fate EXCEPT ![Carried(a)] = "held"]
    PROVE  MailInv' /\ Fated({a})
<1> DEFINE o == ptr[a]
           x == Carried(a)
<1>1. o \in Obj /\ x \in Msg /\ queue[o] \in Seq(Msg) /\ NoDup(queue[o])
  BY Sending, MailFacts, Typings DEF LifeInv
<1>2. hand' = [hand EXCEPT ![a] = IF a \in Msg THEN <<a>> ELSE Tail(@)]
  BY SentTo
<1>3. x \notin Elems(queue[o])
  <2>1. CASE a \in Msg
    BY <1>1, <2>1, Sending, MailFacts
  <2>2. CASE a \notin Msg
    BY <1>1, <2>2, Sending, MailFacts
  <2> QED BY <2>1, <2>2
<1>4. Elems(t) = Elems(queue[o]) \cup {x} /\ NoDup(t)
  <2> DEFINE s == queue[o]
  <2>1. t = Append(s, x) \/ t = <<x>> \o s
    OBVIOUS
  <2>2. s \in Seq(Msg) /\ x \in Msg /\ x \notin Elems(s) /\ NoDup(s)
    BY <1>1, <1>3
  <2> DEFINE sx == Append(s, x)
             xs == <<x>> \o s
  <2> HIDE DEF o, x, s
  <2>3. Elems(sx) = Elems(s) \cup {x} /\ NoDup(sx)
    BY ONLY <2>2, AppendElems
  <2>4. Elems(xs) = Elems(s) \cup {x} /\ NoDup(xs)
    BY ONLY <2>2, FrontElems
  <2>5. t = sx \/ t = xs
    BY <2>1
  <2> HIDE DEF sx, xs
  <2>6. Elems(t) = Elems(s) \cup {x} /\ NoDup(t)
    BY ONLY <2>3, <2>4, <2>5
  <2> QED BY <2>6 DEF s
<1>5. queue'[o] = t /\ \A p \in Obj \ {o} : queue'[p] = queue[p]
  BY <1>1 DEF LifeInv, TypeOK
<1>6. fate'[x] = "held" /\ \A m \in Msg \ {x} : fate'[m] = fate[m]
  BY <1>1 DEF LifeInv, TypeOK
<1>7. Kept(Family(queue, hand), fate)
  BY DEF LifeInv, MailInv
<1>8. CASE a \in Msg
  <2>1. x = a /\ fate[x] = "new"
    BY <1>8, Sending
  <2>2. \A c \in Loops : hand'[c] = hand[c]
    BY <1>2, <1>8, Actors DEF Loops, LifeInv, TypeOK
  <2>3. fate[x] # "held"
    BY <2>1
  <2> HIDE DEF o, x
  <2>4. Kept(Family(queue', hand'), fate')
    BY ONLY <1>1, <1>4, <1>5, <1>6, <1>7, <2>2, <2>3, EnterQ
  <2>5. Fated({a})
    BY <1>6, <2>1 DEF Fated, Terminal
  <2> QED BY <2>4, <2>5 DEF MailInv
<1>9. CASE a \notin Msg
  <2>1. /\ a \in Loops /\ fate[x] = "held" /\ x \in Elems(hand[a])
        /\ NoDup(Tail(hand[a])) /\ Elems(Tail(hand[a])) = Elems(hand[a]) \ {x}
    BY <1>9, Sending
  <2>2. hand'[a] = Tail(hand[a]) /\ \A c \in Loops \ {a} : hand'[c] = hand[c]
    BY <1>2, <1>9, Sending, Actors DEF LifeInv, TypeOK
  <2>3. Elems(queue[o]) \cap Elems(hand[a]) = {}
    BY <1>1, <2>1, MailFacts
  <2>4. /\ Elems(queue'[o]) \cap Elems(hand'[a]) = {}
        /\ Elems(queue'[o]) \cup Elems(hand'[a]) = Elems(queue[o]) \cup Elems(hand[a])
        /\ NoDup(queue'[o]) /\ NoDup(hand'[a])
    BY <1>4, <1>5, <2>1, <2>2, <2>3
  <2>5. \A m \in Msg : fate'[m] = "held" <=> fate[m] = "held"
    BY <1>6, <2>1
  <2> HIDE DEF o, x
  <2>6. Kept(Family(queue', hand'), fate')
    BY ONLY <1>1, <1>5, <1>7, <2>1, <2>2, <2>4, <2>5, CarryQH
  <2>7. Fated({a})
    BY <1>6, <2>1 DEF Fated, Terminal
  <2> QED BY <2>6, <2>7 DEF MailInv
<1> QED BY <1>8, <1>9

\* A message is out of the sender's or the loop's hands.
LEMMA ToldMail ==
    ASSUME LifeInv, NEW a \in Senders, pc[a] \in SendPcs, Sent(a), UNCHANGED queue,
           NEW v, v # "held", v # "new", fate' = [fate EXCEPT ![Carried(a)] = v]
    PROVE  MailInv' /\ Fated({a})
<1> DEFINE x == Carried(a)
<1>1. x \in Msg
  BY Sending
<1>2. hand' = [hand EXCEPT ![a] = IF a \in Msg THEN <<a>> ELSE Tail(@)]
  BY SentTo
<1>3. fate'[x] = v /\ \A m \in Msg \ {x} : fate'[m] = fate[m]
  BY <1>1 DEF LifeInv, TypeOK
<1>4. Kept(Family(queue, hand), fate)
  BY DEF LifeInv, MailInv
<1>5. CASE a \in Msg
  <2>1. x = a /\ fate[x] = "new"
    BY <1>5, Sending
  <2>2. \A c \in Loops : hand'[c] = hand[c]
    BY <1>2, <1>5, Actors DEF Loops, LifeInv, TypeOK
  <2>3. \A m \in Msg : fate'[m] = "held" <=> fate[m] = "held"
    BY <1>3, <2>1
  <2>4. Kept(Family(queue, hand'), fate')
    BY ONLY <1>4, <2>2, <2>3, SameQH
  <2>5. Fated({a})
    BY <1>3, <2>1 DEF Fated, Terminal
  <2> QED BY <2>4, <2>5 DEF MailInv
<1>6. CASE a \notin Msg
  <2>1. /\ a \in Loops /\ fate[x] = "held" /\ x \in Elems(hand[a])
        /\ NoDup(Tail(hand[a])) /\ Elems(Tail(hand[a])) = Elems(hand[a]) \ {x}
    BY <1>6, Sending
  <2>2. hand'[a] = Tail(hand[a]) /\ \A c \in Loops \ {a} : hand'[c] = hand[c]
    BY <1>2, <1>6, Sending, Actors DEF LifeInv, TypeOK
  <2>3. \A m \in Msg : fate'[m] = "held" <=> fate[m] = "held" /\ m # x
    BY <1>3
  <2>4. NoDup(hand'[a]) /\ Elems(hand'[a]) = Elems(hand[a]) \ {x}
    BY <2>1, <2>2
  <2> HIDE DEF x
  <2>5. Kept(Family(queue, hand'), fate')
    BY ONLY <1>4, <2>1, <2>2, <2>3, <2>4, LeaveH
  <2>6. Fated({a})
    BY <1>3, <2>1 DEF Fated, Terminal
  <2> QED BY <2>5, <2>6 DEF MailInv
<1> QED BY <1>5, <1>6

LEMMA SendMail ==
    ASSUME LifeInv, NEW a \in Senders, SendStep(a)
    PROVE  MailInv' /\ Fated({a})
<1>1. CASE Check(a)
  BY <1>1 DEF Check, mail, LifeInv, MailInv, Fated
<1>2. CASE Enqueue(a)
  <2>1. pc[a] \in SendPcs /\ Sent(a)
    BY <1>2 DEF Enqueue, SendPcs
  <2> DEFINE t == Append(queue[ptr[a]], Carried(a))
  <2>2. /\ queue' = [queue EXCEPT ![ptr[a]] = t]
        /\ fate' = [fate EXCEPT ![Carried(a)] = "held"]
    BY <1>2 DEF Enqueue
  <2> QED BY <2>1, <2>2, HeldMail
<1>3. CASE Type(a)
  <2>1. pc[a] \in SendPcs /\ Sent(a)
    BY <1>3 DEF Type, SendPcs
  <2>2. CASE HoldInSend(a)
    <3> DEFINE t == IF a \in Obj THEN <<Carried(a)>> \o queue[ptr[a]]
                                 ELSE Append(queue[ptr[a]], Carried(a))
    <3>1. /\ queue' = [queue EXCEPT ![ptr[a]] = t]
          /\ fate' = [fate EXCEPT ![Carried(a)] = "held"]
      BY <2>2, Sending, <2>1 DEF HoldInSend, LifeInv, TypeOK
    <3>2. t = Append(queue[ptr[a]], Carried(a)) \/ t = <<Carried(a)>> \o queue[ptr[a]]
      OBVIOUS
    <3> QED BY <2>1, <3>1, <3>2, HeldMail
  <2>3. CASE ~HoldInSend(a)
    <3>1. PICK v \in {"refused", "lost", "typed", "unsure"} :
              fate' = [fate EXCEPT ![Carried(a)] = v]
      BY <1>3, <2>3 DEF Type
    <3>2. UNCHANGED queue /\ v # "held" /\ v # "new"
      BY <1>3, <2>3 DEF Type
    <3> QED BY <2>1, <3>1, <3>2, ToldMail
  <2> QED BY <2>2, <2>3
<1> QED BY <1>1, <1>2, <1>3 DEF SendStep

LEMMA DrainMail ==
    ASSUME LifeInv, NEW o \in Obj, DrainStep(o)
    PROVE  MailInv' /\ Fated({})
<1>1. CASE DrainStart(o)
  BY <1>1 DEF DrainStart, mail, LifeInv, MailInv, Fated
<1>2. CASE DrainPop(o)
  <2>1. CASE queue[o] = <<>>
    BY <1>2, <2>1 DEF DrainPop, LifeInv, MailInv, Fated
  <2>2. CASE queue[o] # <<>>
    <3> DEFINE x == Head(queue[o])
    <3>1. /\ queue[o] \in Seq(Msg) /\ NoDup(queue[o])
      BY Typings, MailFacts DEF LifeInv
    <3>2. /\ x \in Msg /\ x \notin Elems(Tail(queue[o])) /\ NoDup(Tail(queue[o]))
          /\ Elems(queue[o]) = Elems(Tail(queue[o])) \cup {x}
      BY <2>2, <3>1, TailElems
    <3>3. o \in Loops /\ o \in Actor /\ hand[o] = <<>>
      BY <1>2, Actors DEF DrainPop, LifeInv, LocalInv, DrainAt
    <3>4. /\ queue'[o] = Tail(queue[o]) /\ \A p \in Obj \ {o} : queue'[p] = queue[p]
          /\ hand'[o] = <<x>> /\ \A c \in Loops \ {o} : hand'[c] = hand[c]
      BY <1>2, <2>2, <3>3, Actors DEF DrainPop, LifeInv, TypeOK
    <3>5. Elems(<<>>) = {} /\ Elems(<<x>>) = {x} /\ NoDup(<<x>>)
      BY DEF Elems, NoDup
    <3> HIDE DEF x
    <3>6. /\ NoDup(queue'[o]) /\ NoDup(hand'[o]) /\ Elems(queue'[o]) \cap Elems(hand'[o]) = {}
          /\ Elems(queue'[o]) \cup Elems(hand'[o]) = Elems(queue[o]) \cup Elems(hand[o])
      BY <3>2, <3>3, <3>4, <3>5
    <3>7. Kept(Family(queue, hand), fate) /\ \A m \in Msg : fate[m] = "held" <=> fate[m] = "held"
      BY DEF LifeInv, MailInv
    <3>8. Kept(Family(queue', hand'), fate)
      BY ONLY o \in Obj, <3>3, <3>4, <3>6, <3>7, CarryQH
    <3>9. fate' = fate
      BY <1>2 DEF DrainPop
    <3> QED BY <3>8, <3>9 DEF MailInv, Fated
  <2> QED BY <2>1, <2>2
<1> QED BY <1>1, <1>2 DEF DrainStep

\* What a loop takes of a whole queue, and what it puts back.
LEMMA TakeMail ==
    ASSUME LifeInv, NEW o \in Obj, NEW a \in Loops, hand[a] = <<>>,
           hand' = [hand EXCEPT ![a] = queue[o]], queue' = [queue EXCEPT ![o] = <<>>],
           UNCHANGED fate
    PROVE  MailInv' /\ Fated({})
<1>1. /\ queue'[o] = <<>> /\ \A p \in Obj \ {o} : queue'[p] = queue[p]
      /\ hand'[a] = queue[o] /\ \A c \in Loops \ {a} : hand'[c] = hand[c]
  BY Actors DEF LifeInv, TypeOK
<1>2. Elems(<<>>) = {} /\ NoDup(<<>>) /\ NoDup(queue[o])
  BY MailFacts DEF Elems, NoDup
<1>3. /\ NoDup(queue'[o]) /\ NoDup(hand'[a]) /\ Elems(queue'[o]) \cap Elems(hand'[a]) = {}
      /\ Elems(queue'[o]) \cup Elems(hand'[a]) = Elems(queue[o]) \cup Elems(hand[a])
  BY <1>1, <1>2
<1>4. Kept(Family(queue, hand), fate) /\ \A m \in Msg : fate[m] = "held" <=> fate[m] = "held"
  BY DEF LifeInv, MailInv
<1>5. Kept(Family(queue', hand'), fate)
  BY ONLY o \in Obj, a \in Loops, <1>1, <1>3, <1>4, CarryQH
<1> QED BY <1>5 DEF MailInv, Fated

LEMMA GiveMail ==
    ASSUME LifeInv, NEW o \in Obj, NEW a \in Loops,
           NEW t, queue' = [queue EXCEPT ![o] = t],
           t = queue[o] \o hand[a] \/ t = hand[a] \o queue[o],
           hand' = [hand EXCEPT ![a] = <<>>], UNCHANGED fate
    PROVE  MailInv' /\ Fated({})
<1>1. /\ queue'[o] = t /\ \A p \in Obj \ {o} : queue'[p] = queue[p]
      /\ hand'[a] = <<>> /\ \A c \in Loops \ {a} : hand'[c] = hand[c]
  BY Actors DEF LifeInv, TypeOK
<1>2. Elems(<<>>) = {} /\ NoDup(<<>>)
  BY DEF Elems, NoDup
<1>3. /\ queue[o] \in Seq(Msg) /\ hand[a] \in Seq(Msg) /\ NoDup(queue[o]) /\ NoDup(hand[a])
      /\ Elems(queue[o]) \cap Elems(hand[a]) = {}
  BY MailFacts, Typings, Actors DEF LifeInv
<1>4. Elems(t) = Elems(queue[o]) \cup Elems(hand[a]) /\ NoDup(t)
  <2> DEFINE s == queue[o]
             u == hand[a]
  <2>1. t = s \o u \/ t = u \o s
    OBVIOUS
  <2>2. s \in Seq(Msg) /\ u \in Seq(Msg) /\ NoDup(s) /\ NoDup(u) /\ Elems(s) \cap Elems(u) = {}
    BY <1>3
  <2> HIDE DEF s, u
  <2>3. Elems(u) \cap Elems(s) = {}
    BY <2>2
  <2> DEFINE su == s \o u
             us == u \o s
  <2>4. Elems(su) = Elems(s) \cup Elems(u) /\ NoDup(su)
    BY ONLY <2>2, <2>3, ConcatElems
  <2>5. Elems(us) = Elems(u) \cup Elems(s) /\ NoDup(us)
    BY ONLY <2>2, <2>3, ConcatElems
  <2>6. t = su \/ t = us
    BY <2>1
  <2> HIDE DEF su, us
  <2>7. Elems(t) = Elems(s) \cup Elems(u) /\ NoDup(t)
    BY ONLY <2>4, <2>5, <2>6
  <2> QED BY <2>7 DEF s, u
<1>5. /\ NoDup(queue'[o]) /\ NoDup(hand'[a]) /\ Elems(queue'[o]) \cap Elems(hand'[a]) = {}
      /\ Elems(queue'[o]) \cup Elems(hand'[a]) = Elems(queue[o]) \cup Elems(hand[a])
  BY <1>1, <1>2, <1>4
<1>6. Kept(Family(queue, hand), fate) /\ \A m \in Msg : fate[m] = "held" <=> fate[m] = "held"
  BY DEF LifeInv, MailInv
<1>7. Kept(Family(queue', hand'), fate)
  BY ONLY o \in Obj, a \in Loops, <1>1, <1>5, <1>6, CarryQH
<1> QED BY <1>7 DEF MailInv, Fated

\* What is reported of a pane: all its queue, which is emptied.
LEMMA ReportedMail ==
    ASSUME LifeInv, NEW o \in Obj, queue' = [queue EXCEPT ![o] = <<>>],
           fate' = [m \in Msg |-> IF m \in Elems(queue[o]) THEN "surfaced" ELSE fate[m]],
           UNCHANGED hand
    PROVE  MailInv' /\ Fated({})
<1>1. queue'[o] = <<>> /\ \A p \in Obj \ {o} : queue'[p] = queue[p]
  BY DEF LifeInv, TypeOK
<1>2. \A m \in Msg : fate'[m] = "held" <=> fate[m] = "held" /\ m \notin Elems(queue[o])
  OBVIOUS
<1>3. Kept(Family(queue, hand), fate)
  BY DEF LifeInv, MailInv
<1>4. Kept(Family(queue', hand), fate')
  BY ONLY o \in Obj, <1>1, <1>2, <1>3, LeaveQ
<1>5. \A m \in Msg : fate[m] \in Terminal \cup {"new"} => m \notin Elems(queue[o])
  BY MailFacts DEF Terminal
<1>6. Fated({})
  BY <1>5 DEF Fated
<1> QED BY <1>4, <1>6 DEF MailInv

LEMMA MailStays ==
    ASSUME LifeInv, UNCHANGED <<queue, fate, hand>>
    PROVE  MailInv' /\ Fated({})
BY DEF LifeInv, MailInv, Fated

LEMMA WakeMail ==
    ASSUME LifeInv, Wake
    PROVE  MailInv' /\ Fated({})
<1>1. /\ "wake" \in Loops
      /\ pc["wake"] # "idle" => ptr["wake"] \in Obj
      /\ pc["wake"] \in {"stale", "swap"} => hand["wake"] = <<>>
  BY Actors DEF LifeInv, LocalInv, WakeInv, Made, SendPcs
<1>2. CASE \E o \in Obj : WakeBegin(o)
  BY <1>2, MailStays DEF WakeBegin, mail
<1>3. CASE Resolve
  BY <1>3, MailStays DEF Resolve, mail
<1>4. CASE Stale
  <2>1. /\ hand' = [hand EXCEPT !["wake"] = queue[ptr["wake"]]] /\ hand["wake"] = <<>>
        /\ queue' = [queue EXCEPT ![ptr["wake"]] = <<>>]
        /\ ptr["wake"] \in Obj /\ UNCHANGED fate
    BY <1>1, <1>4 DEF Stale
  <2> QED BY <1>1, <2>1, TakeMail
<1>5. CASE Judge
  BY <1>5, MailStays DEF Judge, mail
<1>6. CASE Spawn
  BY <1>6, MailStays DEF Spawn, mail
<1>7. CASE Swap
  <2>1. CASE current = ptr["wake"]
    <3>1. /\ hand' = [hand EXCEPT !["wake"] = queue[ptr["wake"]]] /\ hand["wake"] = <<>>
          /\ queue' = [queue EXCEPT ![ptr["wake"]] = <<>>]
          /\ ptr["wake"] \in Obj /\ UNCHANGED fate
      BY <1>1, <1>7, <2>1 DEF Swap
    <3> QED BY <1>1, <3>1, TakeMail
  <2>2. CASE current # ptr["wake"]
    BY <1>7, <2>2, MailStays DEF Swap
  <2> QED BY <2>1, <2>2
<1>8. CASE WakeInit
  <2>1. CASE life[ptr["wake"]] # "live"
    <3> DEFINE t == queue[ptr["wake"]] \o hand["wake"]
    <3>1. /\ ptr["wake"] \in Obj /\ UNCHANGED fate
          /\ queue' = [queue EXCEPT ![ptr["wake"]] = t]
          /\ hand' = [hand EXCEPT !["wake"] = <<>>]
      BY <1>1, <1>8, <2>1 DEF WakeInit
    <3>2. t = queue[ptr["wake"]] \o hand["wake"] \/ t = hand["wake"] \o queue[ptr["wake"]]
      OBVIOUS
    <3> HIDE DEF t
    <3> QED BY <1>1, <3>1, <3>2, GiveMail
  <2>2. CASE life[ptr["wake"]] = "live"
    BY <1>8, <2>2, MailStays DEF WakeInit
  <2> QED BY <2>1, <2>2
<1>9. CASE TypeInHand
  BY <1>9, MailStays DEF TypeInHand
<1> QED BY <1>2, <1>3, <1>4, <1>5, <1>6, <1>7, <1>8, <1>9 DEF Wake

LEMMA RestartMail ==
    ASSUME LifeInv, RestartTake \/ RestartSpawn \/ RestartSwap
    PROVE  MailInv' /\ Fated({})
<1> DEFINE o == ptr["cmd"]
           n == new["cmd"]
<1>1. /\ "cmd" \in Loops
      /\ pc["cmd"] # "idle" => o \in Obj
      /\ pc["cmd"] = "take" => hand["cmd"] = <<>>
      /\ pc["cmd"] = "reswap" => n \in Obj /\ n # o
  BY Actors DEF LifeInv, LocalInv, CmdInv, Made
<1>2. CASE RestartTake
  <2>1. /\ hand' = [hand EXCEPT !["cmd"] = queue[o]] /\ hand["cmd"] = <<>>
        /\ queue' = [queue EXCEPT ![o] = <<>>] /\ o \in Obj /\ UNCHANGED fate
    BY <1>1, <1>2 DEF RestartTake
  <2> QED BY <1>1, <2>1, TakeMail
<1>3. CASE RestartSpawn
  <2>1. \E p \in Obj : queue' = [queue EXCEPT ![p] = hand["cmd"] \o queue[p]]
    <3>1. CASE queue' = [queue EXCEPT ![o] = hand["cmd"] \o @]
      <4>1. o \in Obj /\ queue' = [queue EXCEPT ![o] = hand["cmd"] \o queue[o]]
        BY <1>1, <1>3, <3>1 DEF RestartSpawn
      <4> QED BY <4>1
    <3>2. CASE \E np \in Obj : Spawned(np) /\ queue' = [queue EXCEPT ![np] = hand["cmd"]]
      <4>1. PICK p \in Obj : Spawned(p) /\ queue' = [queue EXCEPT ![p] = hand["cmd"]]
        BY <3>2
      <4>2. queue[p] = <<>>
        BY <4>1 DEF Spawned, Unmade, Made, LifeInv, LocalInv, NameInv
      <4>3. hand["cmd"] \in Seq(Msg)
        BY Typings, Actors DEF LifeInv
      <4>4. hand["cmd"] \o queue[p] = hand["cmd"]
        BY <4>2, <4>3, ConcatEmptySeq
      <4> QED BY <4>1, <4>4
    <3> QED BY <1>3, <3>1, <3>2 DEF RestartSpawn
  <2>2. PICK p \in Obj : queue' = [queue EXCEPT ![p] = hand["cmd"] \o queue[p]]
    BY <2>1
  <2> DEFINE t == hand["cmd"] \o queue[p]
  <2>3. /\ t = queue[p] \o hand["cmd"] \/ t = hand["cmd"] \o queue[p]
        /\ queue' = [queue EXCEPT ![p] = t]
    BY <2>2
  <2>4. hand' = [hand EXCEPT !["cmd"] = <<>>] /\ UNCHANGED fate
    BY <1>3 DEF RestartSpawn
  <2> HIDE DEF t
  <2> QED BY ONLY LifeInv, p \in Obj, <1>1, <2>3, <2>4, GiveMail
<1>4. CASE RestartSwap
  <2>1. CASE current = o
    BY <1>4, <2>1, MailStays DEF RestartSwap
  <2>2. CASE current # o
    <3>1. o \in Obj /\ n \in Obj /\ o # n /\ UNCHANGED <<hand, fate>>
      BY <1>1, <1>4 DEF RestartSwap
    <3>2. queue' = [queue EXCEPT ![o] = queue[n] \o @, ![n] = <<>>]
      BY <1>4, <2>2 DEF RestartSwap
    <3> DEFINE s == queue[n]
               u == queue[o]
               su == s \o u
    <3>3. /\ queue'[o] = su /\ queue'[n] = <<>>
          /\ \A p \in Obj \ {o, n} : queue'[p] = queue[p]
      BY <3>1, <3>2 DEF LifeInv, TypeOK
    <3>4. s \in Seq(Msg) /\ u \in Seq(Msg) /\ NoDup(s) /\ NoDup(u) /\ Elems(s) \cap Elems(u) = {}
      BY <3>1, MailFacts, Typings DEF LifeInv
    <3>5. s = queue[n] /\ u = queue[o]
      OBVIOUS
    <3>6. Elems(<<>>) = {} /\ NoDup(<<>>)
      BY DEF Elems, NoDup
    <3> HIDE DEF s, u
    <3>7. Elems(su) = Elems(s) \cup Elems(u) /\ NoDup(su)
      BY ONLY <3>4, ConcatElems
    <3> HIDE DEF su
    <3>8. /\ NoDup(queue'[o]) /\ NoDup(queue'[n]) /\ Elems(queue'[o]) \cap Elems(queue'[n]) = {}
          /\ Elems(queue'[o]) \cup Elems(queue'[n]) = Elems(queue[o]) \cup Elems(queue[n])
      BY ONLY <3>3, <3>5, <3>6, <3>7
    <3>9. Kept(Family(queue, hand), fate)
      BY DEF LifeInv, MailInv
    <3>10. Kept(Family(queue', hand), fate)
      BY ONLY <3>1, <3>3, <3>8, <3>9, CarryQQ
    <3> QED BY <3>1, <3>10 DEF MailInv, Fated
  <2> QED BY <2>1, <2>2
<1> QED BY <1>2, <1>3, <1>4

LEMMA OperateMail ==
    ASSUME LifeInv, Operate
    PROVE  MailInv' /\ Fated({})
<1> USE DEF mail, procs
<1>1. CASE RestartTake \/ RestartSpawn \/ RestartSwap
  BY <1>1, RestartMail
<1>2. CASE Remove
  <2>1. current \in Obj
    BY <1>2, Typings DEF Remove, LifeInv
  <2>2. /\ queue' = [queue EXCEPT ![current] = <<>>] /\ UNCHANGED hand
        /\ fate' = [m \in Msg |-> IF m \in Elems(queue[current]) THEN "surfaced" ELSE fate[m]]
    BY <1>2 DEF Remove
  <2> QED BY <2>1, <2>2, ReportedMail
<1>3. CASE RestartMark \/ Start \/ StartSwap
  BY <1>3, MailStays DEF RestartMark, Start, StartSwap
<1>4. CASE Stop \/ Add \/ ParkPick \/ Park \/ Rewake
  BY <1>4, MailStays DEF Stop, Add, ParkPick, Park, Rewake
<1> QED BY <1>1, <1>2, <1>3, <1>4 DEF Operate

LEMMA NextMail ==
    ASSUME LifeInv, [Next]_vars
    PROVE  MailInv' /\ \E a \in Actor : Fated({a})
<1>1. ASSUME NEW m \in Msg, Send(m) PROVE MailInv' /\ Fated({m})
  <2>1. /\ fate[m] = "new" /\ UNCHANGED hand
        /\ current # NoObj => current \in Obj
    BY <1>1, Typings DEF Send, LifeInv, LocalInv, SenderAt
  <2>2. CASE queue' = [queue EXCEPT ![current] = Append(@, m)]
             /\ fate' = [fate EXCEPT ![m] = "held"] /\ current # NoObj
    <3> DEFINE s == queue[current]
               t == Append(s, m)
    <3>1. s \in Seq(Msg) /\ NoDup(s) /\ m \notin Elems(s) /\ s = queue[current]
      BY <2>1, <2>2, Typings, MailFacts DEF LifeInv
    <3>2. queue'[current] = t /\ \A p \in Obj \ {current} : queue'[p] = queue[p]
      BY <2>1, <2>2 DEF LifeInv, TypeOK
    <3> HIDE DEF s
    <3>3. Elems(t) = Elems(s) \cup {m} /\ NoDup(t)
      BY <3>1, AppendElems
    <3> HIDE DEF t
    <3>4. fate'[m] = "held" /\ \A l \in Msg \ {m} : fate'[l] = fate[l]
      BY <2>2 DEF LifeInv, TypeOK
    <3>5. current \in Obj /\ fate[m] # "held" /\ Kept(Family(queue, hand), fate)
      BY <2>1, <2>2 DEF LifeInv, MailInv
    <3>6. Elems(queue'[current]) = Elems(queue[current]) \cup {m} /\ NoDup(queue'[current])
      BY <3>1, <3>2, <3>3
    <3>7. \A c \in Loops : hand[c] = hand[c]
      OBVIOUS
    <3>8. Kept(Family(queue', hand), fate')
      BY ONLY m \in Msg, <3>2, <3>4, <3>5, <3>6, <3>7, EnterQ
    <3>9. Fated({m})
      BY <2>1, <3>4 DEF Fated, Terminal
    <3> QED BY <2>1, <3>8, <3>9 DEF MailInv
  <2>3. CASE UNCHANGED queue /\ (UNCHANGED fate \/ fate' = [fate EXCEPT ![m] = "refused"])
    <3>1. \A l \in Msg : fate'[l] = fate[l] \/ (l = m /\ fate'[l] = "refused")
      BY <2>3 DEF LifeInv, TypeOK
    <3>2. \A l \in Msg : fate'[l] = "held" <=> fate[l] = "held"
      BY <2>1, <3>1
    <3>3. Kept(Family(queue, hand), fate) /\ \A c \in Loops : hand[c] = hand[c]
      BY DEF LifeInv, MailInv
    <3>4. Kept(Family(queue, hand), fate')
      BY ONLY <3>2, <3>3, SameQH
    <3>5. Fated({m})
      BY <2>1, <3>1 DEF Fated, Terminal
    <3> QED BY <2>1, <2>3, <3>4, <3>5 DEF MailInv
  <2> QED BY <1>1, <2>2, <2>3 DEF Send
<1>2. ASSUME NEW a \in Senders, SendStep(a) PROVE MailInv' /\ Fated({a})
  BY <1>2, SendMail
<1>3. ASSUME NEW o \in Obj, DrainStep(o) PROVE MailInv' /\ Fated({})
  BY <1>3, DrainMail
<1>4. ASSUME NEW o \in Obj, Teardown(o) \/ ChildExit(o) PROVE MailInv' /\ Fated({})
  BY <1>4, MailStays DEF Teardown, ChildExit, mail, procs
<1>5. ASSUME TickReports PROVE MailInv' /\ Fated({})
  <2>1. current \in Obj
    BY <1>5, Typings DEF TickReports, LifeInv
  <2>2. /\ queue' = [queue EXCEPT ![current] = <<>>] /\ UNCHANGED hand
        /\ fate' = [m \in Msg |-> IF m \in Elems(queue[current]) THEN "surfaced" ELSE fate[m]]
    BY <1>5 DEF TickReports, procs
  <2> QED BY <2>1, <2>2, ReportedMail
<1>6. ASSUME Wake PROVE MailInv' /\ Fated({})
  BY <1>6, WakeMail
<1>7. ASSUME Operate PROVE MailInv' /\ Fated({})
  BY <1>7, OperateMail
<1>8. ASSUME UNCHANGED vars PROVE MailInv' /\ Fated({})
  BY <1>8, MailStays DEF vars
<1>9. Fated({}) => \E a \in Actor : Fated({a})
  BY Actors DEF Fated
<1>10. \A a \in Msg \cup Senders : a \in Actor
  BY Actors DEF Senders
<1> QED BY <1>1, <1>2, <1>3, <1>4, <1>5, <1>6, <1>7, <1>8, <1>9, <1>10 DEF Next, Senders

-----------------------------------------------------------------------------
(* What each goroutine has, after every step. *)

\* A pane is made once, and once it is over it does not come back to life.
Ages == Made \subseteq Made' /\ Over \subseteq Over'

LEMMA NextAges ==
    ASSUME LifeInv, [Next]_vars
    PROVE  Ages
<1> SUFFICES ASSUME NEW o \in Obj, life[o] # "unmade"
             PROVE  life'[o] # "unmade" /\ (life[o] # "live" => life'[o] # "live")
  BY DEF Ages, Made, Over
<1> USE DEF panes, LifeInv, TypeOK
<1>1. UNCHANGED life => life'[o] = life[o]
  OBVIOUS
<1>2. ASSUME NEW p \in Obj, Spawned(p) PROVE life'[o] = life[o]
  BY <1>2 DEF Spawned, Unmade
<1>3. ASSUME NEW p \in Obj, NEW v \in {"dead", "parked"}, life' = [life EXCEPT ![p] = v]
      PROVE  life'[o] # "unmade" /\ (life[o] # "live" => life'[o] # "live")
  BY <1>3
<1>4. ASSUME NEW m \in Msg, Send(m) PROVE UNCHANGED life
  BY <1>4 DEF Send
<1>5. ASSUME NEW a \in Senders, SendStep(a) PROVE UNCHANGED life
  BY <1>5 DEF SendStep, Check, Enqueue, Type
<1>6. ASSUME NEW p \in Obj, DrainStep(p) \/ Teardown(p) PROVE UNCHANGED life
  BY <1>6 DEF DrainStep, DrainStart, DrainPop, Teardown
<1>7. ASSUME NEW p \in Obj, ChildExit(p) PROVE life' = [life EXCEPT ![p] = "dead"]
  BY <1>7 DEF ChildExit
<1>8. ASSUME TickReports PROVE UNCHANGED life
  BY <1>8 DEF TickReports
<1>9. CASE Wake
  <2>1. ASSUME (\E p \in Obj : WakeBegin(p)) \/ Resolve \/ Stale \/ Judge \/ TypeInHand
        PROVE  UNCHANGED life
    BY <2>1 DEF WakeBegin, Resolve, Stale, Judge, TypeInHand
  <2>2. ASSUME Spawn PROVE UNCHANGED life \/ \E p \in Obj : Spawned(p)
    BY <2>2 DEF Spawn
  <2>3. ASSUME Swap PROVE UNCHANGED life \/ life' = [life EXCEPT ![new["wake"]] = "dead"]
    BY <2>3 DEF Swap, Discard
  <2>4. ASSUME WakeInit PROVE UNCHANGED life \/ life' = [life EXCEPT ![ptr["wake"]] = "parked"]
    BY <2>4 DEF WakeInit
  <2>5. Swap => new["wake"] \in Obj
    BY DEF Swap, LocalInv, WakeInv, Made
  <2>6. WakeInit => ptr["wake"] \in Obj
    BY DEF WakeInit, LocalInv, WakeInv, Made
  <2> QED BY <1>1, <1>2, <1>3, <1>9, <2>1, <2>2, <2>3, <2>4, <2>5, <2>6 DEF Wake
<1>10. CASE Operate
  <2>1. ASSUME RestartMark \/ ParkPick \/ Rewake PROVE UNCHANGED life
    BY <2>1 DEF RestartMark, ParkPick, Rewake
  <2>2. ASSUME RestartTake
        PROVE  life' = [life EXCEPT ![ptr["cmd"]] = IF @ = "parked" THEN @ ELSE "dead"]
    BY <2>2 DEF RestartTake
  <2>3. ASSUME RestartSpawn \/ Start \/ Add PROVE UNCHANGED life \/ \E p \in Obj : Spawned(p)
    BY <2>3 DEF RestartSpawn, Start, Add
  <2>4. ASSUME RestartSwap \/ StartSwap
        PROVE  UNCHANGED life \/ life' = [life EXCEPT ![new["cmd"]] = "dead"]
    BY <2>4 DEF RestartSwap, StartSwap, Discard
  <2>5. ASSUME Stop PROVE life' = [life EXCEPT ![current] = "dead"]
    BY <2>5 DEF Stop
  <2>6. ASSUME Remove
        PROVE  life' = [life EXCEPT ![current] = IF @ = "live" THEN "dead" ELSE @]
    BY <2>6 DEF Remove
  <2>7. ASSUME Park PROVE life' = [life EXCEPT ![ptr["park"]] = "parked"]
    BY <2>7 DEF Park
  <2>8. RestartSwap \/ StartSwap => new["cmd"] \in Obj
    BY DEF RestartSwap, StartSwap, LocalInv, CmdInv, Made
  <2>9. Park => ptr["park"] \in Obj
    BY DEF Park, LocalInv, ParkInv, Made
  <2>10. Stop => current \in Obj
    BY Typings DEF Stop
  <2> QED BY <1>1, <1>2, <1>3, <1>10, <2>1, <2>2, <2>3, <2>4, <2>5, <2>6, <2>7, <2>8, <2>9, <2>10
          DEF Operate
<1>11. UNCHANGED vars => UNCHANGED life
  BY DEF vars
<1> QED BY <1>1, <1>2, <1>3, <1>4, <1>5, <1>6, <1>7, <1>8, <1>9, <1>10, <1>11 DEF Next, Senders

\* A goroutine that does not act keeps what it has.
Quiet(S) == \A b \in Actor \ S :
    pc'[b] = pc[b] /\ ptr'[b] = ptr[b] /\ new'[b] = new[b] /\ hand'[b] = hand[b]

LEMMA Others ==
    ASSUME LifeInv, Ages, NEW S, Quiet(S), Fated(S)
    PROVE  /\ \A m \in Msg \ S : SenderAt(m)'
           /\ \A o \in Obj \ S : DrainAt(o)'
           /\ "wake" \notin S /\ UNCHANGED inHand => WakeInv'
           /\ "cmd" \notin S => CmdInv'
           /\ "park" \notin S => ParkInv'
<1> USE DEF LifeInv, LocalInv, Quiet, Ages
<1>1. ASSUME NEW m \in Msg \ S PROVE SenderAt(m)'
  <2>1. pc'[m] = pc[m] /\ ptr'[m] = ptr[m] /\ new'[m] = new[m] /\ hand'[m] = hand[m]
    BY Actors
  <2>2. SenderAt(m) /\ (fate[m] = "new" => fate'[m] = "new")
    BY DEF Fated
  <2> QED BY <2>1, <2>2 DEF SenderAt
<1>2. ASSUME NEW o \in Obj \ S PROVE DrainAt(o)'
  <2>1. pc'[o] = pc[o] /\ ptr'[o] = ptr[o] /\ new'[o] = new[o] /\ hand'[o] = hand[o]
    BY Actors
  <2> QED BY <2>1 DEF DrainAt
<1>3. ASSUME "wake" \notin S, UNCHANGED inHand PROVE WakeInv'
  <2>1. /\ pc'["wake"] = pc["wake"] /\ ptr'["wake"] = ptr["wake"]
        /\ new'["wake"] = new["wake"] /\ hand'["wake"] = hand["wake"]
    BY <1>3, Actors
  <2> QED BY <1>3, <2>1 DEF WakeInv
<1>4. ASSUME "cmd" \notin S PROVE CmdInv'
  <2>1. /\ pc'["cmd"] = pc["cmd"] /\ ptr'["cmd"] = ptr["cmd"]
        /\ new'["cmd"] = new["cmd"] /\ hand'["cmd"] = hand["cmd"]
    BY <1>4, Actors
  <2> QED BY <2>1 DEF CmdInv
<1>5. ASSUME "park" \notin S PROVE ParkInv'
  <2>1. /\ pc'["park"] = pc["park"] /\ ptr'["park"] = ptr["park"]
        /\ hand'["park"] = hand["park"]
    BY <1>5, Actors
  <2> QED BY <2>1 DEF ParkInv
<1> QED BY <1>1, <1>2, <1>3, <1>4, <1>5

\* What is queued is queued on a pane that is made.
LEMMA NameKept ==
    ASSUME LifeInv, Ages, TypeOK', current' \in Made' \cup {NoObj},
           \A o \in Obj : o \notin Made => queue'[o] = queue[o] \/ queue'[o] = <<>> \/ o \in Made'
    PROVE  NameInv'
BY DEF NameInv, LifeInv, LocalInv, Ages

LEMMA Own ==
    ASSUME LifeInv, Ages, NEW a \in Actor, Quiet({a}), Fated({a}), NameInv',
           a \in Msg => SenderAt(a)',
           a \in Obj => DrainAt(a)',
           a = "wake" \/ inHand' # inHand => WakeInv',
           a = "cmd" => CmdInv',
           a = "park" => ParkInv'
    PROVE  LocalInv'
<1> DEFINE S == {a}
<1>1. Quiet(S) /\ Fated(S)
  OBVIOUS
<1>2. \A x : x # a => x \notin S
  OBVIOUS
<1> HIDE DEF S
<1>3. /\ \A m \in Msg \ S : SenderAt(m)'
      /\ \A o \in Obj \ S : DrainAt(o)'
      /\ "wake" \notin S /\ UNCHANGED inHand => WakeInv'
      /\ "cmd" \notin S => CmdInv'
      /\ "park" \notin S => ParkInv'
  BY <1>1, Others
<1>4. ASSUME NEW m \in Msg PROVE SenderAt(m)'
  BY <1>2, <1>3
<1>5. ASSUME NEW o \in Obj PROVE DrainAt(o)'
  BY <1>2, <1>3
<1>6. WakeInv' /\ CmdInv' /\ ParkInv'
  BY <1>2, <1>3
<1> QED BY <1>4, <1>5, <1>6 DEF LocalInv

LEMMA SendLocal ==
    ASSUME LifeInv, Ages, NEW a \in Senders, SendStep(a)
    PROVE  LocalInv'
<1> USE DEF panes, mail, procs
<1>1. pc[a] \in SendPcs /\ a \in Actor
  BY Sending DEF SendStep, Check, Enqueue, Type, SendPcs
<1>2. Fated({a})
  BY SendMail
<1>3. UNCHANGED <<current, life>> /\ Made' = Made
  BY DEF SendStep, Check, Enqueue, Type, Made
<1>4. ptr[a] \in Made /\ ptr[a] \in Obj
  BY <1>1, Sending
<1>5. TypeOK'
  BY SendTypes
<1>6. NameInv'
  <2>1. \A o \in Obj : o # ptr[a] => queue'[o] = queue[o]
    BY <1>4 DEF SendStep, Check, Enqueue, Type, HoldInSend, LifeInv, TypeOK
  <2>2. current' \in Made' \cup {NoObj}
    BY <1>3 DEF LifeInv, LocalInv, NameInv
  <2> QED BY <1>3, <1>4, <1>5, <2>1, <2>2, NameKept
<1>7. CASE Check(a)
  <2>1. /\ pc' = [pc EXCEPT ![a] = IF life[ptr[a]] = "parked" THEN "enqueue" ELSE "type"]
        /\ UNCHANGED <<ptr, new, hand, fate, inHand>> /\ pc[a] = "check"
    BY <1>7 DEF Check
  <2>2. Quiet({a}) /\ pc'[a] \in {"enqueue", "type"}
    BY <1>1, <2>1 DEF Quiet, LifeInv, TypeOK
  <2>3. a \in Msg => SenderAt(a)'
    BY <1>3, <2>1, <2>2 DEF SenderAt, SendPcs, LifeInv, LocalInv
  <2>4. a \in Obj => DrainAt(a)'
    BY <1>3, <2>1, <2>2 DEF DrainAt, SendPcs, LifeInv, LocalInv
  <2>5. a = "wake" => WakeInv'
    BY <1>3, <2>1, <2>2 DEF WakeInv, WakePcs, SendPcs, LifeInv, LocalInv
  <2> QED BY <1>1, <1>2, <1>6, <2>1, <2>2, <2>3, <2>4, <2>5, Own, Actors DEF Senders
<1>8. CASE Sent(a)
  <2>1. /\ hand' = [hand EXCEPT ![a] = IF a \in Msg THEN <<a>> ELSE Tail(@)]
        /\ \/ /\ a = "wake" /\ Len(hand[a]) > 1
              /\ pc' = [pc EXCEPT ![a] = IF new[a] = NoObj THEN "type" ELSE "check"]
              /\ ptr' = ptr /\ new' = new
           \/ /\ ~(a = "wake" /\ Len(hand[a]) > 1)
              /\ pc' = [pc EXCEPT ![a] = IF a \in Msg THEN "done" ELSE "idle"]
              /\ ptr' = [ptr EXCEPT ![a] = NoObj] /\ new' = [new EXCEPT ![a] = NoObj]
    BY <1>1, <1>8, SentTo
  <2>2. Quiet({a})
    BY <1>1, <2>1 DEF Quiet, LifeInv, TypeOK
  <2>3. ASSUME a \in Msg PROVE SenderAt(a)'
    <3>1. a # "wake"
      BY <2>3, Actors
    <3>2. pc'[a] = "done" /\ hand'[a] = <<a>> /\ new'[a] = NoObj
      BY <1>1, <2>1, <2>3, <3>1 DEF LifeInv, TypeOK
    <3> QED BY <3>2 DEF SenderAt, SendPcs
  <2>4. ASSUME a \in Obj PROVE DrainAt(a)'
    <3>1. a # "wake" /\ a \notin Msg
      BY <2>4, Actors
    <3>2. pc'[a] = "idle" /\ hand'[a] = Tail(hand[a]) /\ new'[a] = NoObj
      BY <1>1, <2>1, <3>1 DEF LifeInv, TypeOK
    <3>3. Len(hand[a]) = 1
      BY <1>1, <2>4 DEF LifeInv, LocalInv, DrainAt
    <3>4. Len(Tail(hand[a])) = 0 /\ Tail(hand[a]) \in Seq(Msg)
      BY <1>1, <3>1, <3>3, Sending
    <3>5. hand'[a] = <<>>
      BY <3>2, <3>4, EmptySeq
    <3> QED BY <3>2, <3>5 DEF DrainAt, SendPcs
  <2>5. ASSUME a = "wake" \/ inHand' # inHand PROVE WakeInv'
    <3>1. a = "wake"
      BY <2>5 DEF SendStep, Check, Enqueue, Type, TypedFromHand
    <3>2. "wake" \notin Msg /\ Tail(hand["wake"]) \in Seq(Msg)
          /\ Len(Tail(hand["wake"])) = Len(hand["wake"]) - 1 /\ Len(hand["wake"]) \in Nat \ {0}
      BY <1>1, <3>1, Sending, Actors
    <3>3. hand'["wake"] = Tail(hand["wake"])
      BY <1>1, <2>1, <3>1, <3>2 DEF LifeInv, TypeOK
    <3>4. CASE Len(hand["wake"]) > 1
      <4>1. /\ pc'["wake"] = IF new["wake"] = NoObj THEN "type" ELSE "check"
            /\ ptr'["wake"] = ptr["wake"] /\ new'["wake"] = new["wake"]
        BY <1>1, <2>1, <3>1, <3>4 DEF LifeInv, TypeOK
      <4>2. hand'["wake"] # <<>>
        <5> DEFINE n == Len(hand["wake"])
                   t == Tail(hand["wake"])
        <5>1. Len(t) = n - 1 /\ n \in Nat /\ n > 1 /\ hand'["wake"] = t
          BY <3>2, <3>3, <3>4
        <5> HIDE DEF n, t
        <5>2. Len(t) # 0
          BY ONLY <5>1
        <5> QED BY ONLY <5>1, <5>2, EmptySeq
      <4>3. ASSUME new["wake"] = NoObj PROVE inHand'[ptr["wake"]] = hand'["wake"]
        <5>1. inHand[ptr["wake"]] = hand["wake"] /\ hand["wake"] # <<>>
          BY <1>1, <3>1, <3>2, <4>3 DEF LifeInv, LocalInv, WakeInv, SendPcs
        <5>2. Type("wake")
          BY <1>1, <3>1, <4>3 DEF SendStep, Check, Enqueue, LifeInv, LocalInv, WakeInv
        <5>3. inHand' = [inHand EXCEPT ![ptr["wake"]] = IF @ = <<>> THEN @ ELSE Tail(@)]
          BY <4>3, <5>2 DEF Type, TypedFromHand
        <5>4. inHand'[ptr["wake"]] = Tail(hand["wake"])
          BY <1>4, <3>1, <5>1, <5>3 DEF LifeInv, TypeOK
        <5> QED BY <3>3, <5>4
      <4>4. WakeInv /\ ptr["wake"] \in Made
        BY <1>4, <3>1 DEF LifeInv, LocalInv
      <4> QED BY <1>3, <4>1, <4>2, <4>3, <4>4 DEF WakeInv, SendPcs, WakePcs
    <3>5. CASE ~(Len(hand["wake"]) > 1)
      <4>1. pc'["wake"] = "idle" /\ new'["wake"] = NoObj
        BY <1>1, <2>1, <3>1, <3>2, <3>5 DEF LifeInv, TypeOK
      <4>2. hand'["wake"] = <<>>
        BY <3>2, <3>3, <3>5
      <4> QED BY <4>1, <4>2 DEF WakeInv, SendPcs, WakePcs
    <3> QED BY <3>4, <3>5
  <2> QED BY <1>1, <1>2, <1>6, <2>2, <2>3, <2>4, <2>5, Own, Actors DEF Senders
<1> QED BY <1>7, <1>8 DEF SendStep, Enqueue, Type

LEMMA DrainLocal ==
    ASSUME LifeInv, Ages, NEW o \in Obj, DrainStep(o)
    PROVE  LocalInv'
<1> USE DEF panes, mail, procs
<1>1. Fated({}) /\ TypeOK' /\ o \in Actor /\ o \notin Msg /\ o \notin {"wake", "cmd", "park"}
  BY DrainMail, DrainTypes, Actors
<1>2. UNCHANGED <<current, life, inHand>> /\ Made' = Made
  BY DEF DrainStep, DrainStart, DrainPop, Made
<1>3. Fated({o})
  BY <1>1 DEF Fated
<1>4. NameInv'
  <2>1. o \notin Made => queue[o] = <<>>
    BY DEF LifeInv, LocalInv, NameInv
  <2>2. \A p \in Obj : p \notin Made => queue'[p] = queue[p] \/ queue'[p] = <<>>
    BY <2>1 DEF DrainStep, DrainStart, DrainPop, LifeInv, TypeOK
  <2>3. current' \in Made' \cup {NoObj}
    BY <1>2 DEF LifeInv, LocalInv, NameInv
  <2> QED BY <1>1, <2>2, <2>3, NameKept
<1>5. Quiet({o}) /\ DrainAt(o)'
  <2>1. DrainAt(o)
    BY DEF LifeInv, LocalInv
  <2>2. CASE DrainStart(o)
    <3>1. pc' = [pc EXCEPT ![o] = "pop"] /\ UNCHANGED <<ptr, new, hand>> /\ pc[o] = "idle"
      BY <2>2 DEF DrainStart, Goes
    <3>2. pc'[o] = "pop"
      BY <1>1, <3>1 DEF LifeInv, TypeOK
    <3> QED BY <2>1, <3>1, <3>2 DEF DrainAt, SendPcs, Quiet, LifeInv, TypeOK
  <2>3. CASE DrainPop(o) /\ queue[o] = <<>>
    <3>1. /\ pc' = [pc EXCEPT ![o] = "idle"] /\ pc[o] = "pop" /\ UNCHANGED hand
          /\ ptr' = [ptr EXCEPT ![o] = NoObj] /\ new' = [new EXCEPT ![o] = NoObj]
      BY <2>3 DEF DrainPop, Ends, EndsIn
    <3>2. pc'[o] = "idle" /\ new'[o] = NoObj
      BY <1>1, <3>1 DEF LifeInv, TypeOK
    <3> QED BY <2>1, <3>1, <3>2 DEF DrainAt, SendPcs, Quiet, LifeInv, TypeOK
  <2>4. CASE DrainPop(o) /\ queue[o] # <<>>
    <3>1. /\ pc' = [pc EXCEPT ![o] = "check"] /\ pc[o] = "pop" /\ UNCHANGED new
          /\ ptr' = [ptr EXCEPT ![o] = o]
          /\ hand' = [hand EXCEPT ![o] = <<Head(queue[o])>>]
      BY <2>4 DEF DrainPop, Goes
    <3>2. pc'[o] = "check" /\ ptr'[o] = o /\ hand'[o] = <<Head(queue[o])>>
      BY <1>1, <3>1 DEF LifeInv, TypeOK
    <3>3. o \in Made'
      BY <1>2, <2>4 DEF LifeInv, LocalInv, NameInv
    <3>4. Len(hand'[o]) = 1
      BY <3>2
    <3> QED BY <2>1, <3>1, <3>2, <3>3, <3>4 DEF DrainAt, SendPcs, Quiet, LifeInv, TypeOK
  <2> QED BY <2>2, <2>3, <2>4 DEF DrainStep
<1> QED BY <1>1, <1>2, <1>3, <1>4, <1>5, Own

LEMMA Watch ==
    ASSUME LifeInv, Ages, UNCHANGED <<procs, inHand>>, Fated({}), NameInv'
    PROVE  LocalInv'
<1>1. Quiet({})
  BY DEF Quiet, procs
<1>2. /\ \A m \in Msg \ {} : SenderAt(m)'
      /\ \A o \in Obj \ {} : DrainAt(o)'
      /\ WakeInv' /\ CmdInv' /\ ParkInv'
  BY <1>1, Others
<1> QED BY <1>2 DEF LocalInv

LEMMA WakeLocal ==
    ASSUME LifeInv, Ages, Wake
    PROVE  LocalInv'
<1> USE DEF panes, mail, procs, Goes, Ends, EndsIn
<1>1. /\ Fated({}) /\ TypeOK' /\ "wake" \in Actor /\ "wake" \notin Msg \cup Obj
      /\ "wake" # "cmd" /\ "wake" # "park"
  BY WakeMail, WakeTypes, Actors
<1>2. Fated({"wake"})
  BY <1>1 DEF Fated
<1>3. WakeInv /\ NameInv /\ TypeOK
  BY DEF LifeInv, LocalInv
<1>4. SUFFICES WakeInv' /\ NameInv'
  <2>1. Quiet({"wake"})
    <3> USE <1>1, <1>3 DEF Quiet, TypeOK
    <3>1. (\E o \in Obj : WakeBegin(o)) => Quiet({"wake"})
      BY DEF WakeBegin
    <3>2. Resolve => Quiet({"wake"})
      BY DEF Resolve
    <3>3. Stale => Quiet({"wake"})
      BY DEF Stale
    <3>4. Judge => Quiet({"wake"})
      BY DEF Judge
    <3>5. Spawn => Quiet({"wake"})
      BY DEF Spawn
    <3>6. Swap => Quiet({"wake"})
      BY DEF Swap
    <3>7. WakeInit => Quiet({"wake"})
      BY DEF WakeInit
    <3>8. TypeInHand => Quiet({"wake"})
      BY DEF TypeInHand
    <3> QED BY <3>1, <3>2, <3>3, <3>4, <3>5, <3>6, <3>7, <3>8 DEF Wake
  <2> QED BY <1>1, <1>2, <1>4, <2>1, Own
<1>5. ASSUME UNCHANGED <<current, life, queue>> PROVE NameInv'
  BY <1>3, <1>5 DEF NameInv, Made
<1>6. CASE \E o \in Obj : WakeBegin(o)
  <2>1. PICK o \in Obj : WakeBegin(o)
    BY <1>6
  <2>2. UNCHANGED <<current, life, queue, inHand, hand, new>>
    BY <2>1 DEF WakeBegin
  <2>3. pc["wake"] = "idle" /\ pc'["wake"] = "resolve" /\ ptr'["wake"] = o
    BY <1>1, <1>3, <2>1 DEF WakeBegin, TypeOK
  <2>4. o \in Made
    BY <1>3, <2>1 DEF WakeBegin, TypeOK, LifeInv, TriggerInv
  <2> QED BY <1>3, <1>5, <2>2, <2>3, <2>4 DEF WakeInv, SendPcs, WakePcs, Made
<1>7. CASE Resolve
  <2>1. UNCHANGED <<current, life, queue, inHand, hand>> /\ pc["wake"] = "resolve"
    BY <1>7 DEF Resolve
  <2>2. \/ pc'["wake"] = "idle" /\ new'["wake"] = NoObj
        \/ pc'["wake"] = "judge" /\ UNCHANGED <<ptr, new>>
        \/ /\ current # NoObj /\ new'["wake"] = current
           /\ pc'["wake"] = "stale" /\ UNCHANGED ptr
    BY <1>1, <1>3, <1>7 DEF Resolve, TypeOK
  <2> QED BY <1>3, <1>5, <2>1, <2>2 DEF WakeInv, SendPcs, WakePcs, Made, NameInv
<1>8. CASE Stale
  <2> DEFINE o == ptr["wake"]
  <2>1. pc["wake"] = "stale" /\ o \in Made /\ new["wake"] \in Made /\ o \in Obj
    BY <1>3, <1>8 DEF Stale, WakeInv, Made
  <2>2. UNCHANGED <<current, life, inHand>> /\ hand'["wake"] = queue[o]
        /\ \A p \in Obj : queue'[p] = queue[p] \/ queue'[p] = <<>>
    BY <1>1, <1>3, <1>8, <2>1 DEF Stale, TypeOK
  <2>3. \/ queue[o] = <<>> /\ pc'["wake"] = "idle" /\ new'["wake"] = NoObj
        \/ /\ queue[o] # <<>> /\ pc'["wake"] = "check"
           /\ ptr'["wake"] = new["wake"] /\ UNCHANGED new
    BY <1>1, <1>3, <1>8 DEF Stale, TypeOK
  <2>4. NameInv'
    BY <1>3, <2>2 DEF NameInv, Made
  <2>5. new["wake"] # NoObj
    BY <1>3, <2>1 DEF WakeInv
  <2> QED BY <2>1, <2>2, <2>3, <2>4, <2>5 DEF WakeInv, SendPcs, WakePcs, Made
<1>9. CASE Judge
  <2>1. /\ UNCHANGED <<current, life, queue, inHand, hand>> /\ pc["wake"] = "judge"
        /\ life[ptr["wake"]] = "parked"
    BY <1>9 DEF Judge
  <2>2. \/ pc'["wake"] = "idle" /\ new'["wake"] = NoObj
        \/ pc'["wake"] = "spawn" /\ UNCHANGED <<ptr, new>>
    BY <1>1, <1>3, <1>9 DEF Judge, TypeOK
  <2> QED BY <1>3, <1>5, <2>1, <2>2 DEF WakeInv, SendPcs, WakePcs, Made, Over
<1>10. CASE Spawn
  <2>1. /\ UNCHANGED <<current, queue, inHand, hand>> /\ pc["wake"] = "spawn"
        /\ ptr["wake"] \in Over /\ hand["wake"] = <<>>
    BY <1>3, <1>10 DEF Spawn, WakeInv, SendPcs
  <2>2. NameInv'
    BY <1>3, <2>1 DEF NameInv, Ages
  <2>3. CASE pc'["wake"] = "idle" /\ new'["wake"] = NoObj
    BY <2>1, <2>2, <2>3 DEF WakeInv, SendPcs
  <2>4. CASE \E np \in Obj : Spawned(np) /\ new' = [new EXCEPT !["wake"] = np]
                             /\ pc' = [pc EXCEPT !["wake"] = "swap"] /\ UNCHANGED ptr
    <3>1. PICK np \in Obj : Spawned(np) /\ new' = [new EXCEPT !["wake"] = np]
                            /\ pc' = [pc EXCEPT !["wake"] = "swap"] /\ UNCHANGED ptr
      BY <2>4
    <3>2. new'["wake"] = np /\ pc'["wake"] = "swap" /\ ptr'["wake"] = ptr["wake"]
      BY <1>1, <1>3, <3>1 DEF TypeOK
    <3>3. np \in Made' /\ np # NoObj
      BY <1>3, <3>1, Actors DEF Spawned, Made, TypeOK
    <3>4. ptr["wake"] \in Over' /\ ptr["wake"] \in Made'
      BY <2>1 DEF Ages, Over
    <3> QED BY <2>1, <2>2, <3>2, <3>3, <3>4 DEF WakeInv, SendPcs, WakePcs
  <2> QED BY <1>1, <1>3, <1>10, <2>3, <2>4 DEF Spawn, TypeOK
<1>11. CASE Swap
  <2>1. /\ pc["wake"] = "swap" /\ new["wake"] \in Made' /\ ptr["wake"] \in Obj
        /\ hand["wake"] = <<>> /\ new["wake"] \in Obj
    BY <1>3, <1>11 DEF Swap, WakeInv, SendPcs, Ages, Made
  <2>2. CASE current = ptr["wake"]
    <3>1. /\ current' = new["wake"] /\ hand'["wake"] = queue[current]
          /\ ptr'["wake"] = new["wake"] /\ new'["wake"] = NoObj /\ pc'["wake"] = "list"
          /\ \A p \in Obj : queue'[p] = queue[p] \/ queue'[p] = <<>>
      BY <1>1, <1>3, <1>11, <2>1, <2>2 DEF Swap, TypeOK
    <3>2. NameInv'
      BY <1>3, <2>1, <3>1 DEF NameInv, Ages
    <3> QED BY <2>1, <3>1, <3>2 DEF WakeInv, SendPcs, WakePcs
  <2>3. CASE current # ptr["wake"]
    <3>1. UNCHANGED <<current, hand, inHand, queue>> /\ pc'["wake"] = "idle" /\ new'["wake"] = NoObj
      BY <1>1, <1>3, <1>11, <2>3 DEF Swap, TypeOK
    <3>2. NameInv'
      BY <1>3, <3>1 DEF NameInv, Ages
    <3> QED BY <2>1, <3>1, <3>2 DEF WakeInv, SendPcs, WakePcs
  <2> QED BY <2>2, <2>3
<1>12. CASE WakeInit
  <2>1. /\ pc["wake"] = "init" /\ new["wake"] = NoObj /\ ptr["wake"] \in Made
        /\ ptr["wake"] \in Made' /\ ptr["wake"] \in Obj /\ UNCHANGED <<current, inHand>>
    BY <1>3, <1>12 DEF WakeInit, WakeInv, Ages, Made
  <2>2. NameInv'
    <3>1. \A p \in Obj : p # ptr["wake"] => queue'[p] = queue[p]
      BY <1>3, <1>12, <2>1 DEF WakeInit, TypeOK
    <3> QED BY <1>3, <2>1, <3>1 DEF NameInv, Ages
  <2>3. CASE pc' = [pc EXCEPT !["wake"] = "type"]
    <3>1. /\ pc'["wake"] = "type" /\ UNCHANGED <<ptr, new, hand>> /\ hand["wake"] # <<>>
      BY <1>1, <1>3, <1>12, <2>1, <2>3 DEF WakeInit, TypeOK
    <3> QED BY <1>3, <2>1, <2>2, <3>1 DEF WakeInv, SendPcs, WakePcs
  <2>4. CASE pc' # [pc EXCEPT !["wake"] = "type"]
    <3>1. pc'["wake"] = "idle" /\ new'["wake"] = NoObj /\ hand'["wake"] = <<>>
      BY <1>1, <1>3, <1>12, <2>1, <2>4 DEF WakeInit, TypeOK
    <3> QED BY <2>2, <3>1 DEF WakeInv, SendPcs, WakePcs
  <2> QED BY <2>3, <2>4
<1>13. CASE TypeInHand
  <2>1. /\ pc["wake"] = "list" /\ new["wake"] = NoObj /\ ptr["wake"] \in Made
        /\ ptr["wake"] \in Obj /\ UNCHANGED <<current, life, queue, hand, ptr, new>>
    BY <1>3, <1>13 DEF TypeInHand, WakeInv, Made
  <2>2. pc'["wake"] = "init" /\ inHand'[ptr["wake"]] = hand["wake"]
    BY <1>1, <1>3, <1>13, <2>1 DEF TypeInHand, TypeOK
  <2> QED BY <1>5, <2>1, <2>2 DEF WakeInv, SendPcs, WakePcs, Made
<1> QED BY <1>6, <1>7, <1>8, <1>9, <1>10, <1>11, <1>12, <1>13 DEF Wake

LEMMA OperateLocal ==
    ASSUME LifeInv, Ages, Operate
    PROVE  LocalInv'
<1> USE DEF panes, mail, procs, Goes, Ends, EndsIn
<1>1. /\ Fated({}) /\ TypeOK'
      /\ "cmd" \in Actor /\ "cmd" \notin Msg \cup Obj /\ "park" \in Actor /\ "park" \notin Msg \cup Obj
      /\ "wake" # "cmd" /\ "wake" # "park" /\ "cmd" # "park"
  BY OperateMail, OperateTypes, Actors
<1>2. Fated({"cmd"}) /\ Fated({"park"})
  BY <1>1 DEF Fated
<1>3. /\ CmdInv /\ ParkInv /\ NameInv /\ TypeOK
      /\ pc["cmd"] # "idle" => ptr["cmd"] \in Obj
      /\ pc["park"] # "idle" => ptr["park"] \in Obj
      /\ pc["cmd"] \in {"reswap", "startSwap"} => new["cmd"] \in Made' /\ new["cmd"] \in Obj
      /\ current # NoObj => current \in Obj
  BY Typings DEF LifeInv, LocalInv, CmdInv, ParkInv, Ages, Made
<1>4. ASSUME CmdInv', NameInv', Quiet({"cmd"}), UNCHANGED inHand PROVE LocalInv'
  BY <1>1, <1>2, <1>4, Own
<1>5. ASSUME ParkInv', NameInv', Quiet({"park"}), UNCHANGED inHand PROVE LocalInv'
  BY <1>1, <1>2, <1>5, Own
<1>6. ASSUME UNCHANGED <<current, queue>> PROVE NameInv'
  BY <1>3, <1>6 DEF NameInv, Ages
<1>7. CASE RestartMark
  <2>1. /\ UNCHANGED <<current, queue, life, inHand, new, hand>> /\ pc["cmd"] = "idle"
        /\ current \in Obj
    BY <1>3, <1>7 DEF RestartMark
  <2>2. pc'["cmd"] = "take" /\ ptr'["cmd"] = current /\ Quiet({"cmd"})
    BY <1>1, <1>3, <1>7 DEF RestartMark, Quiet, TypeOK
  <2>3. CmdInv'
    BY <1>3, <2>1, <2>2, Actors DEF CmdInv, CmdPcs, NameInv, Made
  <2> QED BY <1>4, <1>6, <2>1, <2>2, <2>3
<1>8. CASE RestartTake
  <2>1. /\ UNCHANGED <<current, inHand, ptr, new>> /\ pc["cmd"] = "take" /\ ptr["cmd"] \in Obj
    BY <1>3, <1>8 DEF RestartTake
  <2>2. /\ pc'["cmd"] = "respawn" /\ Quiet({"cmd"})
        /\ \A p \in Obj : queue'[p] = queue[p] \/ queue'[p] = <<>>
        /\ life'[ptr["cmd"]] # "live"
    BY <1>1, <1>3, <1>8, <2>1 DEF RestartTake, Quiet, TypeOK
  <2>3. NameInv'
    BY <1>3, <2>1, <2>2 DEF NameInv, Ages
  <2>4. ptr["cmd"] \in Over'
    BY <1>3, <2>1, <2>2 DEF CmdInv, Ages, Over
  <2>5. CmdInv'
    BY <1>3, <2>1, <2>2, <2>4 DEF CmdInv, CmdPcs, Over
  <2> QED BY <1>4, <2>1, <2>2, <2>3, <2>5
<1>9. CASE RestartSpawn
  <2>1. /\ UNCHANGED <<current, inHand>> /\ pc["cmd"] = "respawn" /\ ptr["cmd"] \in Obj
        /\ hand' = [hand EXCEPT !["cmd"] = <<>>]
        /\ ptr["cmd"] \in Made /\ ptr["cmd"] \in Over' /\ ptr["cmd"] \in Made'
    BY <1>3, <1>9 DEF RestartSpawn, CmdInv, Ages
  <2>2. hand'["cmd"] = <<>>
    BY <1>1, <1>3, <2>1 DEF TypeOK
  <2>3. CASE /\ queue' = [queue EXCEPT ![ptr["cmd"]] = hand["cmd"] \o @]
             /\ pc' = [pc EXCEPT !["cmd"] = "idle"]
             /\ ptr' = [ptr EXCEPT !["cmd"] = NoObj] /\ new' = [new EXCEPT !["cmd"] = NoObj]
    <3>1. pc'["cmd"] = "idle" /\ Quiet({"cmd"}) /\ \A p \in Obj : p # ptr["cmd"] => queue'[p] = queue[p]
      BY <1>1, <1>3, <2>1, <2>3 DEF Quiet, TypeOK
    <3>2. NameInv'
      BY <1>3, <2>1, <3>1 DEF NameInv, Ages
    <3>3. CmdInv'
      BY <2>2, <3>1 DEF CmdInv
    <3> QED BY <1>4, <2>1, <3>1, <3>2, <3>3
  <2>4. CASE \E np \in Obj : /\ Spawned(np) /\ queue' = [queue EXCEPT ![np] = hand["cmd"]]
                             /\ new' = [new EXCEPT !["cmd"] = np] /\ UNCHANGED ptr
                             /\ pc' = [pc EXCEPT !["cmd"] = "reswap"]
    <3>1. PICK np \in Obj : /\ Spawned(np) /\ queue' = [queue EXCEPT ![np] = hand["cmd"]]
                            /\ new' = [new EXCEPT !["cmd"] = np] /\ UNCHANGED ptr
                            /\ pc' = [pc EXCEPT !["cmd"] = "reswap"]
      BY <2>4
    <3>2. /\ pc'["cmd"] = "reswap" /\ new'["cmd"] = np /\ Quiet({"cmd"})
          /\ \A p \in Obj : p # np => queue'[p] = queue[p]
      BY <1>1, <1>3, <2>1, <3>1 DEF Quiet, TypeOK
    <3>3. np \in Made' /\ np \notin Made
      BY <1>3, <3>1 DEF Spawned, Unmade, Made, TypeOK
    <3>4. NameInv'
      BY <1>3, <2>1, <3>2, <3>3 DEF NameInv, Ages
    <3>5. CmdInv'
      BY <2>1, <2>2, <3>1, <3>2, <3>3 DEF CmdInv, CmdPcs
    <3> QED BY <1>4, <2>1, <3>2, <3>4, <3>5
  <2> QED BY <1>9, <2>3, <2>4 DEF RestartSpawn
<1>10. CASE RestartSwap
  <2>1. /\ pc["cmd"] = "reswap" /\ UNCHANGED <<inHand, hand>> /\ hand["cmd"] = <<>>
        /\ ptr["cmd"] \in Made' /\ new["cmd"] \in Made' /\ ptr["cmd"] \in Obj /\ new["cmd"] \in Obj
    BY <1>3, <1>10 DEF RestartSwap, CmdInv, Ages
  <2>2. pc'["cmd"] = "idle" /\ Quiet({"cmd"})
    BY <1>1, <1>3, <1>10 DEF RestartSwap, Quiet, TypeOK
  <2>3. /\ current' \in {current, new["cmd"]}
        /\ \A p \in Obj \ {ptr["cmd"], new["cmd"]} : queue'[p] = queue[p]
    BY <1>3, <1>10, <2>1 DEF RestartSwap, TypeOK
  <2>4. NameInv'
    BY <1>3, <2>1, <2>3 DEF NameInv, Ages
  <2>5. CmdInv'
    BY <2>1, <2>2 DEF CmdInv
  <2> QED BY <1>4, <2>1, <2>2, <2>4, <2>5
<1>11. CASE Start
  <2>1. /\ UNCHANGED <<current, queue, inHand, hand>> /\ pc["cmd"] = "idle"
        /\ current \in Obj /\ life[current] = "dead" /\ hand["cmd"] = <<>>
    BY <1>3, <1>11 DEF Start, CmdInv
  <2>2. PICK np \in Obj : Spawned(np) /\ new' = [new EXCEPT !["cmd"] = np]
    BY <1>11 DEF Start
  <2>3. /\ pc'["cmd"] = "startSwap" /\ ptr'["cmd"] = current /\ new'["cmd"] = np /\ Quiet({"cmd"})
    BY <1>1, <1>3, <1>11, <2>2 DEF Start, Quiet, TypeOK
  <2>4. /\ np \in Made' /\ np \notin Made
        /\ current \in Made /\ current \in Made' /\ current \in Over'
    BY <1>3, <2>1, <2>2 DEF Spawned, Unmade, Made, TypeOK, Ages, Over
  <2>5. CmdInv'
    BY <2>1, <2>3, <2>4 DEF CmdInv, CmdPcs
  <2> QED BY <1>4, <1>6, <2>1, <2>3, <2>5
<1>12. CASE StartSwap
  <2>1. /\ pc["cmd"] = "startSwap" /\ UNCHANGED <<inHand, hand, queue>> /\ hand["cmd"] = <<>>
        /\ new["cmd"] \in Made' /\ current' \in {current, new["cmd"]}
    BY <1>3, <1>12 DEF StartSwap, CmdInv
  <2>2. pc'["cmd"] = "idle" /\ Quiet({"cmd"})
    BY <1>1, <1>3, <1>12 DEF StartSwap, Quiet, TypeOK
  <2>3. NameInv'
    BY <1>3, <2>1 DEF NameInv, Ages
  <2>4. CmdInv'
    BY <2>1, <2>2 DEF CmdInv
  <2> QED BY <1>4, <2>1, <2>2, <2>3, <2>4
<1>13. CASE Stop \/ Rewake
  <2>1. UNCHANGED <<current, queue, inHand, procs>>
    BY <1>13 DEF Stop, Rewake
  <2> QED BY <1>1, <1>6, <2>1, Watch
<1>14. CASE Remove
  <2>1. UNCHANGED <<inHand, procs>> /\ current' = NoObj /\ current \in Obj
    BY <1>3, <1>14 DEF Remove
  <2>2. \A p \in Obj : queue'[p] = queue[p] \/ queue'[p] = <<>>
    BY <1>3, <1>14 DEF Remove, TypeOK
  <2>3. NameInv'
    BY <1>3, <2>1, <2>2 DEF NameInv, Ages
  <2> QED BY <1>1, <2>1, <2>3, Watch
<1>15. CASE Add
  <2>1. UNCHANGED <<inHand, procs, queue>>
    BY <1>15 DEF Add
  <2>2. PICK np \in Obj : Spawned(np) /\ current' = np
    BY <1>15 DEF Add
  <2>3. np \in Made'
    BY <1>3, <2>2 DEF Spawned, Made, TypeOK
  <2>4. NameInv'
    BY <1>3, <2>1, <2>2, <2>3 DEF NameInv, Ages
  <2> QED BY <1>1, <2>1, <2>4, Watch
<1>16. CASE ParkPick
  <2>1. UNCHANGED <<current, queue, inHand, hand, life>> /\ current \in Obj /\ life[current] = "live"
    BY <1>3, <1>16 DEF ParkPick
  <2>2. pc'["park"] = "park" /\ ptr'["park"] = current /\ Quiet({"park"})
    BY <1>1, <1>3, <1>16 DEF ParkPick, Quiet, TypeOK
  <2>3. ParkInv'
    BY <1>3, <2>1, <2>2 DEF ParkInv, Made
  <2> QED BY <1>5, <1>6, <2>1, <2>2, <2>3
<1>17. CASE Park
  <2>1. UNCHANGED <<current, queue, inHand, hand>>
    BY <1>17 DEF Park
  <2>2. pc'["park"] = "idle" /\ Quiet({"park"})
    BY <1>1, <1>3, <1>17 DEF Park, Quiet, TypeOK
  <2>3. ParkInv'
    BY <1>3, <2>1, <2>2 DEF ParkInv
  <2> QED BY <1>5, <1>6, <2>1, <2>2, <2>3
<1> QED BY <1>7, <1>8, <1>9, <1>10, <1>11, <1>12, <1>13, <1>14, <1>15, <1>16, <1>17 DEF Operate

LEMMA NextLocal ==
    ASSUME LifeInv, [Next]_vars
    PROVE  LocalInv'
<1>0. Ages
  BY NextAges
<1>1. ASSUME NEW m \in Msg, Send(m) PROVE LocalInv'
  <2>1. /\ pc[m] = "idle" /\ UNCHANGED <<life, current, inHand, new, hand>>
        /\ SenderAt(m) /\ NameInv /\ m \in Actor /\ m # "wake" /\ m # "cmd" /\ m # "park" /\ m \notin Obj
        /\ current # NoObj => current \in Obj
        /\ fate[m] = "new"
    BY <1>1, Actors, Typings DEF Send, panes, LifeInv, LocalInv, SenderAt
  <2>2. \/ pc' = [pc EXCEPT ![m] = "done"] /\ ptr' = ptr
        \/ /\ pc' = [pc EXCEPT ![m] = "check"] /\ current # NoObj
           /\ ptr' = [ptr EXCEPT ![m] = current]
    BY <1>1 DEF Send, Goes
  <2>3. Quiet({m})
    BY <2>1, <2>2 DEF Quiet, LifeInv, TypeOK
  <2>4. Fated({m})
    <3>1. UNCHANGED fate \/ \E v \in {"refused", "held"} : fate' = [fate EXCEPT ![m] = v]
      BY <1>1 DEF Send
    <3> QED BY <2>1, <3>1 DEF Fated, Terminal, LifeInv, TypeOK
  <2>5. SenderAt(m)'
    <3>1. CASE pc' = [pc EXCEPT ![m] = "done"] /\ ptr' = ptr
      <4>1. pc'[m] = "done"
        BY <2>1, <3>1 DEF LifeInv, TypeOK
      <4> QED BY <2>1, <4>1 DEF SenderAt, SendPcs
    <3>2. CASE ~(pc' = [pc EXCEPT ![m] = "done"] /\ ptr' = ptr)
      <4>1. pc'[m] = "check" /\ ptr'[m] = current /\ current \in Obj /\ fate' = fate
        BY <1>1, <2>1, <2>2, <3>2 DEF LifeInv, TypeOK, Send, Goes
      <4>2. current \in Made /\ Made' = Made
        BY <2>1, <4>1, Actors DEF NameInv, Made
      <4> QED BY <2>1, <4>1, <4>2 DEF SenderAt, SendPcs
    <3> QED BY <3>1, <3>2
  <2>6. NameInv'
    <3>1. Made' = Made
      BY <2>1 DEF Made
    <3>2. \A o \in Obj : o # current => queue'[o] = queue[o]
      BY <1>1 DEF Send, LifeInv, TypeOK
    <3>3. \A o \in Obj \ Made : o # current
      BY <2>1, Actors DEF NameInv
    <3> QED BY <2>1, <3>1, <3>2, <3>3 DEF NameInv
  <2> QED BY <1>0, <2>1, <2>3, <2>4, <2>5, <2>6, Own
<1>2. ASSUME NEW a \in Senders, SendStep(a) PROVE LocalInv'
  BY <1>0, <1>2, SendLocal
<1>3. ASSUME NEW o \in Obj, DrainStep(o) PROVE LocalInv'
  BY <1>0, <1>3, DrainLocal
<1>4. ASSUME NEW o \in Obj, Teardown(o) \/ ChildExit(o) PROVE LocalInv'
  <2>1. UNCHANGED <<procs, inHand, queue, current, fate>>
    BY <1>4 DEF Teardown, ChildExit, mail
  <2> QED BY <1>0, <2>1, Watch DEF Fated, LifeInv, LocalInv, NameInv, Ages
<1>5. CASE TickReports
  <2>1. UNCHANGED <<procs, inHand, current>> /\ current \in Obj
    BY <1>5, Typings DEF TickReports, panes, LifeInv
  <2>2. /\ queue' = [queue EXCEPT ![current] = <<>>] /\ UNCHANGED hand
        /\ fate' = [m \in Msg |-> IF m \in Elems(queue[current]) THEN "surfaced" ELSE fate[m]]
    BY <1>5 DEF TickReports, procs
  <2>3. Fated({})
    BY <2>1, <2>2, ReportedMail
  <2>4. NameInv'
    BY <1>0, <2>1, <2>2 DEF LifeInv, LocalInv, NameInv, Ages, TypeOK
  <2> QED BY <1>0, <2>1, <2>3, <2>4, Watch
<1>6. CASE Wake
  BY <1>0, <1>6, WakeLocal
<1>7. CASE Operate
  BY <1>0, <1>7, OperateLocal
<1>8. CASE UNCHANGED vars
  <2>1. UNCHANGED <<procs, inHand, queue, current, fate>>
    BY <1>8 DEF vars, procs
  <2> QED BY <1>0, <2>1, Watch DEF Fated, LifeInv, LocalInv, NameInv, Ages
<1> QED BY <1>1, <1>2, <1>3, <1>4, <1>5, <1>6, <1>7, <1>8 DEF Next, Senders

LEMMA NextTriggers ==
    ASSUME LifeInv, [Next]_vars
    PROVE  TriggerInv'
<1>1. Made \subseteq Made'
  BY NextAges DEF Ages
<1>2. ASSUME UNCHANGED wakes PROVE TriggerInv'
  BY <1>1, <1>2 DEF TriggerInv, LifeInv
<1>3. ASSUME NEW o \in Made, NEW n, wakes' = [wakes EXCEPT ![o] = n] PROVE TriggerInv'
  <2>1. \A p \in Obj : p # o => wakes'[p] = wakes[p]
    BY <1>3 DEF LifeInv, TypeOK
  <2> QED BY <1>1, <2>1 DEF TriggerInv, LifeInv
<1>4. ASSUME NEW o \in Made, Trigger(o) PROVE TriggerInv'
  <2> DEFINE n == IF wakes[o] < MaxWakes THEN wakes[o] + 1 ELSE wakes[o]
  <2>1. wakes' = [wakes EXCEPT ![o] = n]
    BY <1>4 DEF Trigger, LifeInv, TypeOK, Made
  <2> HIDE DEF n
  <2> QED BY <1>3, <2>1
<1>5. current # NoObj => current \in Made
  BY DEF LifeInv, LocalInv, NameInv
<1>6. ASSUME NEW m \in Msg, Send(m) PROVE TriggerInv'
  BY <1>2, <1>4, <1>5, <1>6 DEF Send
<1>7. ASSUME NEW a \in Senders, SendStep(a) PROVE TriggerInv'
  <2>1. CASE Enqueue(a)
    <3>1. ptr[a] \in Made
      BY <2>1, Sending DEF Enqueue, SendPcs
    <3> QED BY <1>4, <2>1, <3>1 DEF Enqueue
  <2> QED BY <1>2, <1>7, <2>1 DEF SendStep, Check, Type
<1>8. ASSUME NEW o \in Obj, DrainStep(o) \/ Teardown(o) \/ ChildExit(o) PROVE TriggerInv'
  BY <1>2, <1>8 DEF DrainStep, DrainStart, DrainPop, Teardown, ChildExit
<1>9. CASE TickReports
  BY <1>2, <1>9 DEF TickReports
<1>10. CASE Wake
  <2>1. ASSUME NEW o \in Obj, WakeBegin(o) PROVE TriggerInv'
    <3> DEFINE n == wakes[o] - 1
    <3>1. o \in Made /\ wakes' = [wakes EXCEPT ![o] = n]
      BY <2>1 DEF WakeBegin, LifeInv, TriggerInv, TypeOK
    <3> HIDE DEF n
    <3> QED BY <1>3, <3>1
  <2> QED BY <1>2, <1>10, <2>1 DEF Wake, Resolve, Stale, Judge, Spawn, Swap, TypeInHand,
              WakeInit
<1>11. CASE Operate
  <2>1. CASE Rewake
    BY <1>4, <1>5, <2>1 DEF Rewake
  <2> QED BY <1>2, <1>11, <2>1 DEF Operate, RestartMark, RestartTake, RestartSpawn, RestartSwap,
              Start, StartSwap, Stop, Remove, Add, ParkPick, Park
<1>12. CASE UNCHANGED vars
  BY <1>2, <1>12 DEF vars
<1> QED BY <1>6, <1>7, <1>8, <1>9, <1>10, <1>11, <1>12 DEF Next, Senders

LEMMA InitLife == Init => LifeInv
<1> SUFFICES ASSUME Init PROVE LifeInv
  OBVIOUS
<1> PICK o \in Obj :
        /\ current = o
        /\ life = [p \in Obj |-> IF p = o THEN "live" ELSE "unmade"]
        /\ term = [p \in Obj |-> IF p = o THEN "open" ELSE "gone"]
        /\ queue = [p \in Obj |-> <<>>] /\ inHand = [p \in Obj |-> <<>>]
        /\ atCeiling = [p \in Obj |-> FALSE]
        /\ fate = [m \in Msg |-> "new"]
        /\ pc = [a \in Actor |-> "idle"] /\ ptr = [a \in Actor |-> NoObj]
        /\ new = [a \in Actor |-> NoObj]
        /\ hand = [a \in Actor |-> IF a \in Msg THEN <<a>> ELSE <<>>]
        /\ wakes = [p \in Obj |-> 0] /\ cut = FALSE /\ acts = 0
  BY DEF Init
<1>1. \A a \in Actor : hand[a] \in Seq(Msg)
  OBVIOUS
<1>2. hand \in [Actor -> Seq(Msg)]
  BY <1>1
<1>3. queue \in [Obj -> Seq(Msg)] /\ inHand \in [Obj -> Seq(Msg)]
  OBVIOUS
<1>4. wakes \in [Obj -> 0 .. MaxWakes] /\ acts \in 0 .. MaxActs
  BY BoundsAssumption
<1>5. TypeOK
  BY <1>2, <1>3, <1>4 DEF TypeOK, Pcs, Lives, Terms, Fates, MayBe
<1>6. \A a \in Loops : hand[a] = <<>>
  BY Actors DEF Loops
<1>7. LocalInv
  <2>1. /\ \A m \in Msg : pc[m] = "idle" /\ new[m] = NoObj /\ hand[m] = <<m>> /\ fate[m] = "new"
        /\ \A a \in Loops : pc[a] = "idle" /\ new[a] = NoObj
        /\ \A p \in Obj : queue[p] = <<>>
    BY Actors
  <2>2. \A m \in Msg : SenderAt(m)
    BY <2>1 DEF SenderAt, SendPcs
  <2>3. \A p \in Obj : DrainAt(p)
    BY <1>6, <2>1, Actors DEF DrainAt, SendPcs
  <2>4. WakeInv /\ CmdInv /\ ParkInv
    BY <1>6, <2>1, Actors DEF WakeInv, CmdInv, ParkInv, SendPcs
  <2>5. NameInv
    BY <2>1 DEF NameInv, Made
  <2> QED BY <2>2, <2>3, <2>4, <2>5 DEF LocalInv
<1>8. TriggerInv
  BY DEF TriggerInv
<1>9. MailInv
  <2>1. /\ \A p \in Obj : Family(queue, hand)[Q(p)] = <<>>
        /\ \A a \in Loops : Family(queue, hand)[H(a)] = <<>>
    <3>1. \A p \in Obj : queue[p] = <<>>
      OBVIOUS
    <3>2. /\ \A p \in Obj : Family(queue, hand)[Q(p)] = queue[p]
          /\ \A a \in Loops : Family(queue, hand)[H(a)] = hand[a]
      BY ONLY InBox
    <3> QED BY ONLY <1>6, <3>1, <3>2
  <2>2. \A b \in Boxes : Family(queue, hand)[b] = <<>>
    BY <2>1, BoxNames
  <2>3. Elems(<<>>) = {} /\ NoDup(<<>>)
    BY DEF Elems, NoDup
  <2> QED BY <2>2, <2>3 DEF MailInv, Kept
<1> QED BY <1>5, <1>7, <1>8, <1>9 DEF LifeInv

LEMMA LifeInvariant == Spec => []LifeInv
<1>1. ASSUME LifeInv, [Next]_vars PROVE LifeInv'
  BY <1>1, NextTypes, NextLocal, NextTriggers, NextMail DEF LifeInv
<1> QED BY InitLife, <1>1, PTL DEF Spec

-----------------------------------------------------------------------------
\* The types of the state, whatever replaces a pane.
THEOREM LifeTypes == Spec => []TypeOK
<1>1. LifeInv => TypeOK
  BY DEF LifeInv
<1> QED BY <1>1, LifeInvariant, PTL

\* Whatever resumes, restarts, starts, stops or removes the pane, and whoever
\* holds the old pointer, a message told "held" is in exactly one queue or hand,
\* and a message with a verdict in none (queue_carry.go, resource.go).
THEOREM OnePlace == Spec => []MailInOnePlace
<1>1. ASSUME LifeInv PROVE MailInOnePlace
  <2>1. \A o \in Obj : NoDup(queue[o])
    BY <1>1, MailFacts
  <2> DEFINE f == Family(queue, hand)
  <2>2. Kept(f, fate)
    BY <1>1 DEF LifeInv, MailInv
  <2>3. /\ \A o \in Obj : f[Q(o)] = queue[o] /\ Q(o) \in Boxes
        /\ \A a \in Loops : f[H(a)] = hand[a] /\ H(a) \in Boxes
    BY InBox, BoxNames
  <2> HIDE DEF f
  <2>4. ASSUME NEW m \in Msg PROVE Cardinality(Places(m)) = IF fate[m] = "held" THEN 1 ELSE 0
    <3>1. CASE fate[m] = "held"
      <4>1. PICK b \in Boxes : m \in Elems(f[b])
        BY <2>2, <3>1 DEF Kept
      <4>2. \A c \in Boxes : m \in Elems(f[c]) => c = b
        BY <2>2, <4>1 DEF Kept
      <4>3. \E x : Places(m) = {x}
        <5>1. CASE \E o \in Obj : b = Q(o)
          <6>1. PICK o \in Obj : b = Q(o)
            BY <5>1
          <6>2. m \in Elems(queue[o]) /\ \A p \in Obj : m \in Elems(queue[p]) => p = o
            BY <2>3, <4>1, <4>2, <6>1, BoxNames
          <6>3. \A a \in Loops : m \notin Elems(hand[a])
            BY <2>3, <4>2, <6>1, BoxNames
          <6>4. Places(m) = {o}
            BY <6>2, <6>3 DEF Places
          <6> QED BY <6>4
        <5>2. CASE \E a \in Loops : b = H(a)
          <6>1. PICK a \in Loops : b = H(a)
            BY <5>2
          <6>2. m \in Elems(hand[a]) /\ \A c \in Loops : m \in Elems(hand[c]) => c = a
            BY <2>3, <4>1, <4>2, <6>1, BoxNames
          <6>3. \A p \in Obj : m \notin Elems(queue[p])
            BY <2>3, <4>2, <6>1, BoxNames
          <6>4. Places(m) = {<<a>>}
            BY <6>2, <6>3 DEF Places
          <6> QED BY <6>4
        <5> QED BY <5>1, <5>2, BoxNames
      <4> QED BY <3>1, <4>3, FS_Singleton
    <3>2. CASE fate[m] # "held"
      <4>1. \A b \in Boxes : m \notin Elems(f[b])
        BY <2>2, <3>2 DEF Kept
      <4>2. Places(m) = {}
        BY <2>3, <4>1 DEF Places
      <4> QED BY <3>2, <4>2, FS_EmptySet
    <3> QED BY <3>1, <3>2
  <2> QED BY <2>1, <2>4 DEF MailInOnePlace
<1> QED BY <1>1, LifeInvariant, PTL

\* What a crash costs: the one message of a drain, what a restart has in its
\* variable, what a stale wake hands over and, between the swap's DrainQueue and its
\* typeInHand, the mail of a wake; nothing else (resource.go, held_store.go).
THEOREM FileKept == Spec => []WakeKeepsFile
<1>1. ASSUME LifeInv PROVE WakeKeepsFile
  <2> SUFFICES ASSUME NEW m \in Msg, fate[m] = "held", m \notin Listed
               PROVE  \E a \in Loops \ {"park"} :
                         /\ m \in Elems(hand[a])
                         /\ a = "wake" => new["wake"] # NoObj \/ pc["wake"] = "list"
    BY Actors DEF WakeKeepsFile
  <2>1. PICK b \in Boxes : m \in Elems(Family(queue, hand)[b])
    BY <1>1 DEF LifeInv, MailInv, Kept
  <2>2. \A o \in Obj : m \notin Elems(queue[o]) /\ m \notin Elems(inHand[o])
    BY DEF Listed
  <2>3. PICK a \in Loops : m \in Elems(hand[a])
    BY <2>1, <2>2, BoxNames, InBox
  <2>4. a # "park"
    BY <1>1, <2>3 DEF LifeInv, LocalInv, ParkInv, Elems
  <2>5. a = "wake" => new["wake"] # NoObj \/ pc["wake"] = "list"
    <3> SUFFICES ASSUME a = "wake", new["wake"] = NoObj, pc["wake"] # "list" PROVE FALSE
      OBVIOUS
    <3>1. hand["wake"] # <<>>
      BY <2>3 DEF Elems
    <3>2. inHand[ptr["wake"]] = hand["wake"] /\ ptr["wake"] \in Obj
      BY <1>1, <3>1 DEF LifeInv, LocalInv, WakeInv, Made, SendPcs
    <3> QED BY <2>2, <2>3, <3>2
  <2> QED BY <2>3, <2>4, <2>5
<1> QED BY <1>1, LifeInvariant, PTL

\* A verdict is final: no other pane of the name sends, holds or reports again
\* what was typed, refused, reported or lost.
THEOREM VerdictsFinal == Spec => FateFinal
<1>1. ASSUME LifeInv, [Next]_vars
      PROVE  \A m \in Msg : fate[m] \in Terminal => fate'[m] = fate[m]
  BY <1>1, NextMail DEF Fated
<1> QED BY <1>1, LifeInvariant, PTL DEF Spec, FateFinal

-----------------------------------------------------------------------------
(* Who has a running child. *)

LEMMA LeakSame ==
    ASSUME NoChildLeaked,
           \A o \in Obj : life'[o] = "live" => life[o] = "live",
           \A o \in Obj : life'[o] = "live" /\ o = current => o = current',
           pc["wake"] = "swap" => pc'["wake"] = "swap" /\ new'["wake"] = new["wake"],
           pc["cmd"] \in {"reswap", "startSwap"} => pc'["cmd"] = pc["cmd"] /\ new'["cmd"] = new["cmd"]
    PROVE  NoChildLeaked'
BY DEF NoChildLeaked

LEMMA NextLeak ==
    ASSUME LifeInv, NoChildLeaked, [Next]_vars
    PROVE  NoChildLeaked'
<1> USE DEF panes, mail, procs, Goes, Ends, EndsIn
<1>1. /\ TypeOK /\ WakeInv /\ CmdInv /\ NameInv
      /\ "wake" \in Actor /\ "cmd" \in Actor /\ "park" \in Actor
      /\ "wake" # "cmd" /\ "park" # "cmd" /\ "park" # "wake"
      /\ current # NoObj => current \in Obj
  BY Actors, Typings DEF LifeInv, LocalInv
<1>2. ASSUME UNCHANGED <<current, life>>,
             \A a \in {"wake", "cmd"} : pc'[a] = pc[a] /\ new'[a] = new[a]
      PROVE  NoChildLeaked'
  BY <1>2, LeakSame
<1>3. ASSUME NEW m \in Msg, Send(m) PROVE NoChildLeaked'
  <2>1. m # "wake" /\ m # "cmd"
    BY Actors
  <2> QED BY <1>1, <1>2, <1>3, <2>1 DEF Send, TypeOK
<1>4. ASSUME NEW a \in Senders, SendStep(a) PROVE NoChildLeaked'
  <2>1. pc[a] \in SendPcs /\ a \in Actor /\ a # "cmd" /\ UNCHANGED <<current, life>>
    BY <1>4, Actors DEF SendStep, Check, Enqueue, Type, SendPcs, Senders
  <2>2. pc'["cmd"] = pc["cmd"] /\ new'["cmd"] = new["cmd"]
    BY <1>1, <1>4, <2>1 DEF SendStep, Check, Enqueue, Type, Sent, TypeOK
  <2>3. CASE a = "wake"
    BY <2>1, <2>2, <2>3, LeakSame DEF SendPcs
  <2>4. CASE a # "wake"
    <3>1. pc'["wake"] = pc["wake"] /\ new'["wake"] = new["wake"]
      BY <1>1, <1>4, <2>1, <2>4 DEF SendStep, Check, Enqueue, Type, Sent, TypeOK
    <3> QED BY <1>2, <2>1, <2>2, <3>1
  <2> QED BY <2>3, <2>4
<1>5. ASSUME NEW o \in Obj, DrainStep(o) PROVE NoChildLeaked'
  <2>1. o # "wake" /\ o # "cmd" /\ o \in Actor /\ UNCHANGED <<current, life>>
    BY <1>5, Actors DEF DrainStep, DrainStart, DrainPop
  <2> QED BY <1>1, <1>2, <1>5, <2>1 DEF DrainStep, DrainStart, DrainPop, TypeOK
<1>6. ASSUME NEW o \in Obj, Teardown(o) \/ ChildExit(o) PROVE NoChildLeaked'
  BY <1>1, <1>6, LeakSame DEF Teardown, ChildExit, TypeOK
<1>7. CASE TickReports
  BY <1>2, <1>7 DEF TickReports
<1>8. CASE Wake
  <2>1. CASE (\E o \in Obj : WakeBegin(o)) \/ Resolve \/ Stale \/ Judge
    <3>1. UNCHANGED <<current, life>> /\ pc["wake"] # "swap"
      BY <2>1 DEF WakeBegin, Resolve, Stale, Judge
    <3>2. pc'["cmd"] = pc["cmd"] /\ new'["cmd"] = new["cmd"]
      BY <1>1, <2>1 DEF WakeBegin, Resolve, Stale, Judge, TypeOK
    <3> QED BY <3>1, <3>2, LeakSame
  <2>2. CASE Spawn
    <3>1. UNCHANGED current /\ pc["wake"] = "spawn"
      BY <2>2 DEF Spawn
    <3>2. pc'["cmd"] = pc["cmd"] /\ new'["cmd"] = new["cmd"]
      BY <1>1, <2>2 DEF Spawn, TypeOK
    <3>3. CASE UNCHANGED life
      BY <3>1, <3>2, <3>3, LeakSame
    <3>4. CASE \E np \in Obj : Spawned(np) /\ new' = [new EXCEPT !["wake"] = np]
                               /\ pc' = [pc EXCEPT !["wake"] = "swap"]
      <4>1. PICK np \in Obj : Spawned(np) /\ new' = [new EXCEPT !["wake"] = np]
                              /\ pc' = [pc EXCEPT !["wake"] = "swap"]
        BY <3>4
      <4>2. /\ new'["wake"] = np /\ pc'["wake"] = "swap"
            /\ \A p \in Obj : p # np => life'[p] = life[p]
        BY <1>1, <4>1 DEF Spawned, TypeOK
      <4> QED BY <3>1, <3>2, <4>2 DEF NoChildLeaked
    <3> QED BY <2>2, <3>3, <3>4 DEF Spawn
  <2>3. CASE Swap
    <3>1. /\ ptr["wake"] \in Obj /\ life[ptr["wake"]] # "live" /\ pc["wake"] = "swap"
          /\ new["wake"] \in Obj
      BY <1>1, <2>3 DEF Swap, WakeInv, Over, Made
    <3>2. pc'["cmd"] = pc["cmd"] /\ new'["cmd"] = new["cmd"]
      BY <1>1, <2>3 DEF Swap, TypeOK
    <3>3. CASE current = ptr["wake"]
      BY <2>3, <3>1, <3>2, <3>3 DEF Swap, NoChildLeaked
    <3>4. CASE current # ptr["wake"]
      <4>1. /\ UNCHANGED current /\ life'[new["wake"]] = "dead"
            /\ \A p \in Obj : p # new["wake"] => life'[p] = life[p]
        BY <1>1, <2>3, <3>1, <3>4 DEF Swap, Discard, TypeOK
      <4> QED BY <3>2, <4>1 DEF NoChildLeaked
    <3> QED BY <3>3, <3>4
  <2>4. CASE WakeInit
    <3>1. UNCHANGED current /\ pc["wake"] = "init" /\ ptr["wake"] \in Obj
      BY <1>1, <2>4 DEF WakeInit, WakeInv, Made
    <3>2. pc'["cmd"] = pc["cmd"] /\ new'["cmd"] = new["cmd"]
      BY <1>1, <2>4 DEF WakeInit, TypeOK
    <3>3. \A p \in Obj : life'[p] = "live" => life[p] = "live"
      BY <1>1, <2>4, <3>1 DEF WakeInit, TypeOK
    <3> QED BY <3>1, <3>2, <3>3, LeakSame
  <2>5. CASE TypeInHand
    <3>1. UNCHANGED <<current, life, new>> /\ pc["wake"] = "list"
      BY <2>5 DEF TypeInHand
    <3>2. pc'["cmd"] = pc["cmd"]
      BY <1>1, <2>5 DEF TypeInHand, TypeOK
    <3> QED BY <3>1, <3>2, LeakSame
  <2> QED BY <1>8, <2>1, <2>2, <2>3, <2>4, <2>5 DEF Wake
<1>9. CASE Operate
  <2>1. CASE RestartMark \/ RestartTake
    <3>1. /\ UNCHANGED <<current, new>> /\ pc["cmd"] \in {"idle", "take"}
          /\ pc'["wake"] = pc["wake"]
      BY <1>1, <2>1 DEF RestartMark, RestartTake, TypeOK
    <3>2. \A p \in Obj : life'[p] = "live" => life[p] = "live"
      BY <1>1, <2>1 DEF RestartMark, RestartTake, TypeOK, CmdInv, Made
    <3> QED BY <3>1, <3>2, LeakSame
  <2>2. CASE RestartSpawn \/ Start
    <3>1. UNCHANGED current /\ pc["cmd"] \in {"idle", "respawn"}
      BY <2>2 DEF RestartSpawn, Start
    <3>2. pc'["wake"] = pc["wake"] /\ new'["wake"] = new["wake"]
      BY <1>1, <2>2 DEF RestartSpawn, Start, TypeOK
    <3>3. CASE UNCHANGED life
      BY <3>1, <3>2, <3>3, LeakSame
    <3>4. CASE \E np \in Obj : Spawned(np) /\ new' = [new EXCEPT !["cmd"] = np]
      <4>1. PICK np \in Obj : Spawned(np) /\ new' = [new EXCEPT !["cmd"] = np]
        BY <3>4
      <4>2. /\ new'["cmd"] = np /\ life'[np] = "live"
            /\ \A p \in Obj : p # np => life'[p] = life[p]
        BY <1>1, <4>1 DEF Spawned, TypeOK
      <4>3. CASE pc'["cmd"] \in {"reswap", "startSwap"}
        BY <3>1, <3>2, <4>2, <4>3 DEF NoChildLeaked
      <4>4. CASE pc'["cmd"] \notin {"reswap", "startSwap"}
        <5>1. UNCHANGED life
          BY <1>1, <2>2, <4>4 DEF RestartSpawn, Start, TypeOK
        <5> QED BY <3>3, <5>1
      <4> QED BY <4>3, <4>4
    <3> QED BY <2>2, <3>3, <3>4 DEF RestartSpawn, Start
  <2>3. CASE RestartSwap \/ StartSwap
    <3>1. /\ ptr["cmd"] \in Obj /\ life[ptr["cmd"]] # "live" /\ new["cmd"] \in Obj
          /\ pc["cmd"] \in {"reswap", "startSwap"}
      BY <1>1, <2>3 DEF RestartSwap, StartSwap, CmdInv, Over, Made
    <3>2. pc'["wake"] = pc["wake"] /\ new'["wake"] = new["wake"]
      BY <1>1, <2>3 DEF RestartSwap, StartSwap, TypeOK
    <3>3. CASE current = ptr["cmd"]
      BY <2>3, <3>1, <3>2, <3>3 DEF RestartSwap, StartSwap, NoChildLeaked
    <3>4. CASE current # ptr["cmd"]
      <4>1. /\ UNCHANGED current /\ life'[new["cmd"]] = "dead"
            /\ \A p \in Obj : p # new["cmd"] => life'[p] = life[p]
        BY <1>1, <2>3, <3>1, <3>4 DEF RestartSwap, StartSwap, Discard, TypeOK
      <4> QED BY <3>2, <4>1 DEF NoChildLeaked
    <3> QED BY <3>3, <3>4
  <2>4. CASE Stop \/ Remove
    <3>1. UNCHANGED <<pc, new>>
      BY <2>4 DEF Stop, Remove
    <3>2. /\ \A p \in Obj : life'[p] = "live" => life[p] = "live"
          /\ \A p \in Obj : life'[p] = "live" => p # current
      BY <1>1, <2>4 DEF Stop, Remove, TypeOK
    <3> QED BY <3>1, <3>2, LeakSame
  <2>5. CASE Add
    <3>1. current = NoObj /\ UNCHANGED <<pc, new>>
      BY <2>5 DEF Add
    <3>2. PICK np \in Obj : Spawned(np) /\ current' = np
      BY <2>5 DEF Add
    <3>3. \A p \in Obj : p # np => life'[p] = life[p]
      BY <1>1, <3>2 DEF Spawned, TypeOK
    <3> QED BY <3>1, <3>2, <3>3, Actors DEF NoChildLeaked
  <2>6. CASE ParkPick \/ Park
    <3>1. UNCHANGED current /\ pc'["wake"] = pc["wake"] /\ pc'["cmd"] = pc["cmd"]
          /\ new'["wake"] = new["wake"] /\ new'["cmd"] = new["cmd"]
      BY <1>1, <2>6 DEF ParkPick, Park, TypeOK
    <3>2. \A p \in Obj : life'[p] = "live" => life[p] = "live"
      BY <1>1, <2>6 DEF ParkPick, Park, TypeOK
    <3> QED BY <3>1, <3>2, LeakSame
  <2>7. CASE Rewake
    BY <1>2, <2>7 DEF Rewake
  <2> QED BY <1>9, <2>1, <2>2, <2>3, <2>4, <2>5, <2>6, <2>7 DEF Operate
<1>10. CASE UNCHANGED vars
  BY <1>2, <1>10 DEF vars
<1> QED BY <1>3, <1>4, <1>5, <1>6, <1>7, <1>8, <1>9, <1>10 DEF Next, Senders

\* The loser of a race leaves no process behind: a running child is that of the
\* pane under the name, or of one being swapped in (resource.go, ipc_lifecycle.go).
THEOREM NobodyLeaks == Spec => []NoChildLeaked
<1>1. Init => NoChildLeaked
  BY DEF Init, NoChildLeaked
<1>2. LifeInv /\ NoChildLeaked /\ [Next]_vars => NoChildLeaked'
  BY NextLeak
<1> QED BY <1>1, <1>2, LifeInvariant, PTL DEF Spec

-----------------------------------------------------------------------------
(* While nothing has cut in: the name has a pane, a pane that was replaced is *)
(* torn down, and nobody knows the one that is being swapped in.              *)

Unknown(o) == o \in Made /\ o = new["wake"] /\ pc["wake"] = "swap"
Sends(o) == \E a \in Actor : pc[a] \in SendPcs /\ ptr[a] = o

Uncut ==
    /\ pc["cmd"] = "idle" /\ current \in Made
    /\ pc["wake"] \in {"judge", "spawn", "swap"} => ptr["wake"] = current
    /\ \A o \in Made : life[o] = "parked" => term[o] \in {"tearing", "gone"}
    /\ pc["wake"] = "spawn" => life[ptr["wake"]] = "parked"
    /\ pc["wake"] = "swap" => term[ptr["wake"]] = "gone"
    /\ \A o \in Made \ {current} :
          IF Unknown(o) THEN queue[o] = <<>> /\ ~Sends(o) ELSE term[o] = "gone"

StrandInv == cut \/ Uncut

\* Terminals and flags go one way.
Closes == \A o \in Made :
    /\ term[o] = "gone" => term'[o] = "gone"
    /\ term[o] = "tearing" => term'[o] \in {"tearing", "gone"}
    /\ life[o] = "parked" => life'[o] = "parked"
    /\ life'[o] = "parked" => life[o] = "parked" \/ term'[o] \in {"tearing", "gone"}

\* The wake and the command are left alone.
LEMMA UncutSame ==
    ASSUME LifeInv, Uncut, Closes, UNCHANGED current, Made' = Made,
           pc'["cmd"] = "idle",
           pc'["wake"] = pc["wake"], ptr'["wake"] = ptr["wake"], new'["wake"] = new["wake"],
           \A o \in Made : Unknown(o) /\ o # current => queue'[o] = <<>> /\ (Sends(o)' => Sends(o))
    PROVE  Uncut'
<1>1. \A o \in Made : Unknown(o)' <=> Unknown(o)
  BY DEF Unknown
<1>2. pc["wake"] \in {"spawn", "swap"} => ptr["wake"] \in Made
  BY DEF LifeInv, LocalInv, WakeInv
<1>3. ASSUME NEW o \in Made \ {current}
      PROVE  IF Unknown(o)' THEN queue'[o] = <<>> /\ ~Sends(o)' ELSE term'[o] = "gone"
  BY <1>1 DEF Uncut, Closes
<1>4. \A o \in Made : life'[o] = "parked" => term'[o] \in {"tearing", "gone"}
  BY DEF Uncut, Closes
<1>5. /\ pc["wake"] = "spawn" => life'[ptr["wake"]] = "parked"
      /\ pc["wake"] = "swap" => term'[ptr["wake"]] = "gone"
  BY <1>2 DEF Uncut, Closes
<1> QED BY <1>3, <1>4, <1>5 DEF Uncut

\* The wake acts, before or after it has a pane to swap in.
LEMMA UncutWake ==
    ASSUME Uncut, UNCHANGED <<current, life, term>>, pc'["cmd"] = pc["cmd"],
           pc["wake"] # "swap", pc'["wake"] # "swap",
           pc'["wake"] \in {"judge", "spawn"} => ptr'["wake"] = current,
           pc'["wake"] = "spawn" => life[ptr'["wake"]] = "parked"
    PROVE  Uncut'
BY DEF Uncut, Unknown, Made

LEMMA SendUncut ==
    ASSUME LifeInv, Uncut, NEW a \in Senders, SendStep(a)
    PROVE  Uncut'
<1> USE DEF panes, mail, procs
<1>1. pc[a] \in SendPcs /\ a \in Actor /\ a # "cmd" /\ "wake" \in Actor /\ "cmd" \in Actor
  BY Sending, Actors DEF SendStep, Check, Enqueue, Type, SendPcs, Senders
<1>2. UNCHANGED <<current, life, term>> /\ Made' = Made
  BY DEF SendStep, Check, Enqueue, Type, Made
<1>3. pc'["cmd"] = "idle" /\ pc["cmd"] = "idle"
  <2>1. pc["cmd"] = "idle"
    BY DEF Uncut
  <2> QED BY <1>1, <2>1 DEF SendStep, Check, Enqueue, Type, Sent, Goes, EndsIn, LifeInv, TypeOK
<1>4. Closes
  BY <1>2 DEF Closes
<1>5. CASE a = "wake"
  <2>1. pc["wake"] # "swap" /\ pc'["wake"] \notin {"swap", "judge", "spawn"}
    BY <1>1, <1>5, Actors
       DEF SendStep, Check, Enqueue, Type, Sent, Goes, EndsIn, LifeInv, TypeOK, SendPcs
  <2> QED BY <1>2, <1>3, <2>1, UncutWake
<1>6. CASE a # "wake"
  <2>1. pc'["wake"] = pc["wake"] /\ ptr'["wake"] = ptr["wake"] /\ new'["wake"] = new["wake"]
    BY <1>1, <1>6 DEF SendStep, Check, Enqueue, Type, Sent, Goes, EndsIn, LifeInv, TypeOK
  <2>2. ASSUME NEW o \in Made, Unknown(o), o # current
        PROVE  queue'[o] = <<>> /\ (Sends(o)' => Sends(o))
    <3>1. queue[o] = <<>> /\ ~Sends(o)
      BY <2>2 DEF Uncut
    <3>2. ptr[a] # o
      BY <1>1, <3>1 DEF Sends
    <3>3. queue'[o] = queue[o]
      BY <3>2 DEF SendStep, Check, Enqueue, Type, HoldInSend, LifeInv, TypeOK, Made
    <3>4. \A b \in Actor : b # a => pc'[b] = pc[b] /\ ptr'[b] = ptr[b]
      BY <1>1 DEF SendStep, Check, Enqueue, Type, Sent, Goes, EndsIn, LifeInv, TypeOK
    <3>5. ptr'[a] = ptr[a] \/ pc'[a] \notin SendPcs
      BY <1>1, <1>6 DEF SendStep, Check, Enqueue, Type, Sent, Goes, EndsIn, LifeInv, TypeOK, SendPcs
    <3> QED BY <1>1, <3>1, <3>3, <3>4, <3>5 DEF Sends
  <2> QED BY <1>2, <1>3, <1>4, <2>1, <2>2, UncutSame
<1> QED BY <1>5, <1>6

LEMMA WakeUncut ==
    ASSUME LifeInv, Uncut, Wake, ~cut'
    PROVE  Uncut'
<1> USE DEF panes, mail, procs, Goes, Ends, EndsIn
<1>1. /\ TypeOK /\ WakeInv /\ "wake" \in Actor /\ "cmd" \in Actor /\ "wake" # "cmd"
      /\ current \in Made /\ current # NoObj /\ pc["cmd"] = "idle"
  BY Actors DEF LifeInv, LocalInv, Uncut, Made
<1>2. pc'["cmd"] = pc["cmd"]
  BY <1>1 DEF Wake, WakeBegin, Resolve, Stale, Judge, Spawn, Swap, TypeInHand, WakeInit, TypeOK
<1>3. CASE (\E o \in Obj : WakeBegin(o)) \/ Resolve \/ Stale
  <2>1. UNCHANGED <<current, life, term>> /\ pc["wake"] # "swap"
    BY <1>3 DEF WakeBegin, Resolve, Stale
  <2>2. /\ pc'["wake"] \notin {"swap", "spawn"}
        /\ pc'["wake"] = "judge" => ptr'["wake"] = current
    BY <1>1, <1>3 DEF WakeBegin, Resolve, Stale, TypeOK
  <2> QED BY <1>2, <2>1, <2>2, UncutWake
<1>4. CASE Judge
  <2>1. UNCHANGED <<current, life, term>> /\ pc["wake"] = "judge" /\ ptr["wake"] = current
        /\ life[current] = "parked"
    BY <1>4 DEF Judge, Uncut
  <2>2. pc'["wake"] = "idle" \/ (pc'["wake"] = "spawn" /\ ptr'["wake"] = current)
    BY <1>1, <1>4, <2>1 DEF Judge, TypeOK
  <2> QED BY <1>2, <2>1, <2>2, UncutWake
<1>5. CASE Spawn
  <2>1. /\ UNCHANGED <<current, queue>> /\ pc["wake"] = "spawn" /\ ptr["wake"] = current
        /\ life[current] = "parked"
    BY <1>5 DEF Spawn, Uncut
  <2>2. CASE UNCHANGED <<life, term>> /\ pc' = [pc EXCEPT !["wake"] = "idle"]
    <3>1. pc'["wake"] = "idle"
      BY <1>1, <2>2 DEF TypeOK
    <3> QED BY <1>2, <2>1, <2>2, <3>1, UncutWake
  <2>3. CASE \E np \in Obj : /\ Spawned(np) /\ new' = [new EXCEPT !["wake"] = np]
                             /\ pc' = [pc EXCEPT !["wake"] = "swap"] /\ UNCHANGED ptr
                             /\ cut' = (cut \/ term[current] = "tearing")
    <3>1. PICK np \in Obj : /\ Spawned(np) /\ new' = [new EXCEPT !["wake"] = np]
                            /\ pc' = [pc EXCEPT !["wake"] = "swap"] /\ UNCHANGED ptr
                            /\ cut' = (cut \/ term[current] = "tearing")
      BY <2>3
    <3>2. /\ new'["wake"] = np /\ pc'["wake"] = "swap" /\ np \notin Made
          /\ life'[np] = "live" /\ term'[np] = "open"
          /\ \A p \in Obj : p # np => life'[p] = life[p] /\ term'[p] = term[p]
      BY <1>1, <3>1 DEF Spawned, Unmade, Made, TypeOK
    <3>3. Made' = Made \cup {np} /\ np \in Made'
      BY <3>2 DEF Made
    <3>4. term[current] = "gone"
      BY <1>1, <2>1, <3>1 DEF Uncut
    <3>5. queue[np] = <<>>
      BY <3>2 DEF LifeInv, LocalInv, NameInv
    <3>6. ~Sends(np)'
      <4> SUFFICES ASSUME NEW a \in Actor, pc'[a] \in SendPcs PROVE ptr'[a] # np
        BY DEF Sends
      <4>1. a # "wake" /\ pc[a] \in SendPcs /\ ptr'[a] = ptr[a]
        BY <1>1, <3>1, <3>2 DEF TypeOK, SendPcs
      <4>2. ptr[a] \in Made
        <5>1. a \notin {"cmd", "park"}
          BY <1>1, <4>1 DEF SendPcs, LifeInv, LocalInv, ParkInv
        <5>2. a \in Senders
          BY <4>1, <5>1 DEF Actor, Senders
        <5> QED BY <4>1, <5>2, Sending
      <4> QED BY <3>2, <4>1, <4>2
    <3>7. ptr'["wake"] = current /\ pc'["cmd"] = "idle"
      BY <1>1, <1>2, <2>1, <3>1
    <3>8. ASSUME NEW o \in Made' \ {current}
          PROVE  IF Unknown(o)' THEN queue'[o] = <<>> /\ ~Sends(o)' ELSE term'[o] = "gone"
      <4>1. CASE o = np
        BY <2>1, <3>2, <3>3, <3>5, <3>6, <4>1 DEF Unknown
      <4>2. CASE o # np
        <5>1. o \in Made /\ ~Unknown(o) /\ ~Unknown(o)'
          BY <2>1, <3>2, <3>3, <4>2 DEF Unknown
        <5>2. term[o] = "gone" /\ o \in Obj
          BY <3>8, <5>1 DEF Uncut, Made
        <5> QED BY <3>2, <4>2, <5>1, <5>2
      <4> QED BY <4>1, <4>2
    <3>9. current \in Made' /\ term'[current] = "gone"
      BY <1>1, <3>2, <3>3, <3>4 DEF Made
    <3>10. \A o \in Made' : life'[o] = "parked" => term'[o] \in {"tearing", "gone"}
      <4> SUFFICES ASSUME NEW o \in Made', life'[o] = "parked" PROVE term'[o] \in {"tearing", "gone"}
        OBVIOUS
      <4>1. o # np /\ o \in Made /\ o \in Obj
        BY <3>2, <3>3 DEF Made
      <4> QED BY <3>2, <4>1 DEF Uncut
    <3> QED BY <2>1, <3>2, <3>7, <3>8, <3>9, <3>10 DEF Uncut
  <2> QED BY <1>5, <2>1, <2>2, <2>3 DEF Spawn
<1>6. CASE Swap
  <2>1. /\ pc["wake"] = "swap" /\ ptr["wake"] = current /\ term[current] = "gone"
        /\ new["wake"] \in Made /\ UNCHANGED <<life, term>> /\ current' = new["wake"]
    BY <1>1, <1>6 DEF Swap, Uncut, WakeInv
  <2>2. pc'["wake"] = "list"
    BY <1>1, <1>6, <2>1 DEF Swap, TypeOK
  <2>3. Made' = Made
    BY <2>1 DEF Made
  <2>4. ASSUME NEW o \in Made \ {new["wake"]} PROVE term'[o] = "gone" /\ ~Unknown(o)'
    BY <2>1, <2>2 DEF Uncut, Unknown
  <2> QED BY <1>1, <1>2, <2>1, <2>2, <2>3, <2>4 DEF Uncut
<1>7. CASE WakeInit
  <2>1. UNCHANGED <<current, life, term>> /\ pc["wake"] = "init"
    BY <1>7 DEF WakeInit
  <2>2. pc'["wake"] \notin {"swap", "judge", "spawn"}
    BY <1>1, <1>7 DEF WakeInit, TypeOK
  <2> QED BY <1>2, <2>1, <2>2, UncutWake
<1>8. CASE TypeInHand
  <2>1. UNCHANGED <<current, life, term>> /\ pc["wake"] = "list"
    BY <1>8 DEF TypeInHand
  <2>2. pc'["wake"] = "init"
    BY <1>1, <1>8 DEF TypeInHand, TypeOK
  <2> QED BY <1>2, <2>1, <2>2, UncutWake
<1> QED BY <1>3, <1>4, <1>5, <1>6, <1>7, <1>8 DEF Wake

LEMMA NextUncut ==
    ASSUME LifeInv, Uncut, [Next]_vars, ~cut'
    PROVE  Uncut'
<1> USE DEF panes, mail, procs, Goes, Ends, EndsIn
<1>1. /\ TypeOK /\ "wake" \in Actor /\ "cmd" \in Actor /\ "park" \in Actor
      /\ "wake" # "cmd" /\ "park" # "cmd" /\ "park" # "wake"
      /\ current \in Made /\ current \in Obj /\ current # NoObj /\ pc["cmd"] = "idle"
  BY Actors DEF LifeInv, LocalInv, Uncut, Made
<1>2. ASSUME UNCHANGED <<current, life, term, pc, ptr, new>>,
             \A o \in Made : queue[o] = <<>> => queue'[o] = <<>>
      PROVE  Uncut'
  <2>1. Closes /\ Made' = Made
    BY <1>2 DEF Closes, Made
  <2>2. \A o \in Made : Unknown(o) /\ o # current => queue'[o] = <<>> /\ (Sends(o)' => Sends(o))
    BY <1>2 DEF Uncut, Sends
  <2> QED BY <1>1, <1>2, <2>1, <2>2, UncutSame
<1>3. ASSUME UNCHANGED <<current, queue>>, Closes, Made' = Made,
             \A a \in Actor : \/ pc'[a] = pc[a] /\ ptr'[a] = ptr[a] /\ new'[a] = new[a]
                              \/ a = "park" /\ pc'[a] \notin SendPcs
      PROVE  Uncut'
  <2>1. \A o \in Made : Unknown(o) /\ o # current => queue'[o] = <<>> /\ (Sends(o)' => Sends(o))
    BY <1>3 DEF Uncut, Sends
  <2>2. /\ pc'["cmd"] = "idle"
        /\ pc'["wake"] = pc["wake"] /\ ptr'["wake"] = ptr["wake"] /\ new'["wake"] = new["wake"]
    BY <1>1, <1>3
  <2> QED BY <1>3, <2>1, <2>2, UncutSame
<1>4. ASSUME NEW m \in Msg, Send(m) PROVE Uncut'
  <2>1. UNCHANGED <<current, life, term, new>> /\ m # "wake" /\ m # "cmd" /\ m \in Actor
    BY <1>4, Actors DEF Send
  <2>2. /\ \A b \in Actor : b # m => pc'[b] = pc[b] /\ ptr'[b] = ptr[b]
        /\ pc'[m] \in SendPcs => ptr'[m] = current
        /\ \A o \in Obj : o # current => queue'[o] = queue[o]
    BY <1>1, <1>4, <2>1 DEF Send, TypeOK, SendPcs
  <2>3. Closes /\ Made' = Made
    BY <2>1 DEF Closes, Made
  <2>4. ASSUME NEW o \in Made, Unknown(o), o # current
        PROVE  queue'[o] = <<>> /\ (Sends(o)' => Sends(o))
    <3>1. queue[o] = <<>> /\ o \in Obj
      BY <2>4 DEF Uncut, Made
    <3> QED BY <2>2, <2>4, <3>1 DEF Sends
  <2> QED BY <1>1, <2>1, <2>2, <2>3, <2>4, UncutSame
<1>5. ASSUME NEW a \in Senders, SendStep(a) PROVE Uncut'
  BY <1>5, SendUncut
<1>6. ASSUME NEW p \in Obj, DrainStep(p) PROVE Uncut'
  <2>1. UNCHANGED <<current, life, term>> /\ p # "wake" /\ p # "cmd" /\ p \in Actor
    BY <1>6, Actors DEF DrainStep, DrainStart, DrainPop
  <2>2. /\ \A b \in Actor : b # p => pc'[b] = pc[b] /\ ptr'[b] = ptr[b] /\ new'[b] = new[b]
        /\ pc'[p] \in SendPcs => ptr'[p] = p /\ queue[p] # <<>>
        /\ \A o \in Obj : o # p => queue'[o] = queue[o]
        /\ queue[p] = <<>> => queue'[p] = <<>>
    BY <1>1, <1>6, <2>1 DEF DrainStep, DrainStart, DrainPop, TypeOK, SendPcs
  <2>3. Closes /\ Made' = Made
    BY <2>1 DEF Closes, Made
  <2>4. ASSUME NEW o \in Made, Unknown(o), o # current
        PROVE  queue'[o] = <<>> /\ (Sends(o)' => Sends(o))
    <3>1. queue[o] = <<>> /\ o \in Obj
      BY <2>4 DEF Uncut, Made
    <3> QED BY <2>2, <2>4, <3>1 DEF Sends
  <2> QED BY <1>1, <2>1, <2>2, <2>3, <2>4, UncutSame
<1>7. ASSUME NEW o \in Obj, Teardown(o) \/ ChildExit(o) PROVE Uncut'
  <2>1. UNCHANGED <<current, queue, pc, ptr, new>>
    BY <1>7 DEF Teardown, ChildExit
  <2>2. Closes /\ Made' = Made
    BY <1>1, <1>7 DEF Teardown, ChildExit, Closes, Made, TypeOK
  <2> QED BY <1>3, <2>1, <2>2
<1>8. CASE TickReports
  <2>1. UNCHANGED <<current, life, term, pc, ptr, new>>
    BY <1>8 DEF TickReports
  <2>2. \A o \in Made : queue[o] = <<>> => queue'[o] = <<>>
    BY <1>1, <1>8 DEF TickReports, TypeOK, Made
  <2> QED BY <1>2, <2>1, <2>2
<1>9. CASE Wake
  BY <1>9, WakeUncut
<1>10. CASE Operate
  <2>1. CASE RestartMark \/ Start \/ Remove \/ Add
    BY <1>1, <2>1 DEF RestartMark, Start, Remove, Add
  <2>2. CASE RestartTake \/ RestartSpawn \/ RestartSwap \/ StartSwap
    BY <1>1, <2>2 DEF RestartTake, RestartSpawn, RestartSwap, StartSwap
  <2>3. CASE Stop
    <3>1. UNCHANGED <<current, queue, pc, ptr, new>>
      BY <2>3 DEF Stop
    <3>2. Closes /\ Made' = Made
      BY <1>1, <2>3 DEF Stop, Closes, Made, TypeOK
    <3> QED BY <1>3, <3>1, <3>2
  <2>4. CASE ParkPick
    <3>1. UNCHANGED <<current, life, term, queue, new>>
      BY <2>4 DEF ParkPick
    <3>2. Closes /\ Made' = Made
      BY <3>1 DEF Closes, Made
    <3>3. \A a \in Actor : \/ pc'[a] = pc[a] /\ ptr'[a] = ptr[a] /\ new'[a] = new[a]
                           \/ a = "park" /\ pc'[a] \notin SendPcs
      BY <1>1, <2>4 DEF ParkPick, TypeOK, SendPcs
    <3> QED BY <1>3, <3>1, <3>2, <3>3
  <2>5. CASE Park
    <3>1. UNCHANGED <<current, queue>> /\ ptr["park"] \in Made /\ ptr["park"] \in Obj
      BY <2>5 DEF Park, LifeInv, LocalInv, ParkInv, Made
    <3>2. /\ life' = [life EXCEPT ![ptr["park"]] = "parked"]
          /\ term' = [term EXCEPT ![ptr["park"]] = IF @ = "gone" THEN @ ELSE "tearing"]
      BY <2>5 DEF Park, CloseOffMain
    <3>3. Made' = Made
      BY <1>1, <3>1, <3>2 DEF Made, TypeOK
    <3>4. Closes
      BY <1>1, <3>1, <3>2 DEF Closes, Made, TypeOK
    <3>5. \A a \in Actor : \/ pc'[a] = pc[a] /\ ptr'[a] = ptr[a] /\ new'[a] = new[a]
                           \/ a = "park" /\ pc'[a] \notin SendPcs
      BY <1>1, <2>5 DEF Park, TypeOK, SendPcs
    <3> QED BY <1>3, <3>1, <3>3, <3>4, <3>5
  <2>6. CASE Rewake
    BY <1>2, <2>6 DEF Rewake
  <2> QED BY <1>10, <2>1, <2>2, <2>3, <2>4, <2>5, <2>6 DEF Operate
<1>11. CASE UNCHANGED vars
  BY <1>2, <1>11 DEF vars
<1> QED BY <1>4, <1>5, <1>6, <1>7, <1>8, <1>9, <1>10, <1>11 DEF Next, Senders

\* Neither the wake nor the name changes, and no trigger is lost.
LEMMA ComesSame ==
    ASSUME LifeInv, NothingStranded, ~cut, UNCHANGED current,
           \A o \in Obj : wakes'[o] = wakes[o],
           pc'["wake"] = pc["wake"], ptr'["wake"] = ptr["wake"],
           \A o \in Obj \ {current} : queue'[o] # <<>> => queue[o] # <<>>
    PROVE  NothingStranded'
BY DEF NothingStranded

LEMMA SendComes ==
    ASSUME LifeInv, NothingStranded, Uncut, ~cut, NEW a \in Senders, SendStep(a)
    PROVE  NothingStranded'
<1> USE DEF panes, mail, procs
<1>1. pc[a] \in SendPcs /\ a \in Actor /\ ptr[a] \in Obj /\ ptr[a] \in Made /\ "wake" \in Actor
  BY Sending, Actors DEF SendStep, Check, Enqueue, Type, SendPcs
<1>2. UNCHANGED <<current, cut>>
  BY DEF SendStep, Check, Enqueue, Type
<1>3. \/ pc'["wake"] = pc["wake"] /\ ptr'["wake"] = ptr["wake"]
      \/ pc["wake"] \notin {"resolve", "stale"}
  <2>1. CASE a = "wake"
    BY <1>1, <2>1 DEF SendPcs
  <2>2. CASE a # "wake"
    BY <1>1, <2>2 DEF SendStep, Check, Enqueue, Type, Sent, Goes, EndsIn, LifeInv, TypeOK
  <2> QED BY <2>1, <2>2
<1>4. \A o \in Obj : wakes[o] > 0 => wakes'[o] > 0
  BY BoundsAssumption, <1>1 DEF SendStep, Check, Enqueue, Type, Trigger, LifeInv, TypeOK
<1>5. \A o \in Obj : o # ptr[a] => queue'[o] = queue[o]
  BY <1>1 DEF SendStep, Check, Enqueue, Type, HoldInSend, LifeInv, TypeOK
<1>6. ASSUME ptr[a] # current PROVE queue'[ptr[a]] = queue[ptr[a]] \/ wakes'[ptr[a]] > 0
  <2>1. CASE Check(a)
    BY <2>1 DEF Check
  <2>2. CASE Enqueue(a)
    BY <1>1, <2>2, BoundsAssumption DEF Enqueue, Trigger, LifeInv, TypeOK
  <2>3. CASE Type(a)
    <3>1. Sends(ptr[a])
      BY <1>1 DEF Sends
    <3>2. term[ptr[a]] = "gone"
      BY <1>1, <1>6, <3>1 DEF Uncut
    <3>3. UNCHANGED queue
      BY <2>3, <3>2 DEF Type
    <3> QED BY <3>3
  <2> QED BY <2>1, <2>2, <2>3 DEF SendStep
<1>7. ASSUME NEW o \in Obj \ {current}, queue'[o] # <<>>
      PROVE  \/ wakes'[o] > 0
             \/ ptr'["wake"] = o /\ pc'["wake"] \in {"resolve", "stale"}
  <2>1. CASE queue'[o] = queue[o]
    BY <1>3, <1>4, <1>7, <2>1 DEF NothingStranded
  <2>2. CASE queue'[o] # queue[o]
    BY <1>5, <1>6, <2>2, <1>7
  <2> QED BY <2>1, <2>2
<1> QED BY <1>2, <1>7 DEF NothingStranded

LEMMA NextComes ==
    ASSUME LifeInv, NothingStranded, StrandInv, [Next]_vars
    PROVE  NothingStranded'
<1> USE DEF panes, mail, procs, Goes, Ends, EndsIn
<1>1. CASE cut'
  BY <1>1 DEF NothingStranded
<1>2. CASE ~cut'
  <2>1. ~cut
    BY <1>2 DEF Next, Send, SendStep, Check, Enqueue, Type, DrainStep, DrainStart, DrainPop, Teardown,
          ChildExit, TickReports, Wake, WakeBegin, Resolve, Stale, Judge, Spawn, Swap, TypeInHand,
          WakeInit, Operate, RestartMark, RestartTake, RestartSpawn, RestartSwap, Start, StartSwap, Stop,
          Remove, Add, ParkPick, Park, Rewake, vars
  <2>2. /\ Uncut /\ TypeOK /\ "wake" \in Actor /\ "park" \in Actor /\ "park" # "wake"
        /\ current \in Made /\ current \in Obj /\ current # NoObj /\ pc["cmd"] = "idle"
    BY <2>1, Actors DEF StrandInv, Uncut, LifeInv, Made
  <2>3. ASSUME NEW m \in Msg, Send(m) PROVE NothingStranded'
    <3>1. UNCHANGED current /\ m # "wake"
      BY <2>3, Actors DEF Send
    <3>2. /\ pc'["wake"] = pc["wake"] /\ ptr'["wake"] = ptr["wake"]
          /\ \A o \in Obj : o # current => queue'[o] = queue[o] /\ wakes'[o] = wakes[o]
      BY <2>2, <2>3, <3>1 DEF Send, Trigger, TypeOK
    <3> QED BY <2>1, <3>1, <3>2 DEF NothingStranded
  <2>4. ASSUME NEW a \in Senders, SendStep(a) PROVE NothingStranded'
    BY <2>1, <2>2, <2>4, SendComes
  <2>5. ASSUME NEW p \in Obj, DrainStep(p) PROVE NothingStranded'
    <3>1. UNCHANGED <<current, wakes>> /\ p # "wake"
      BY <2>5, Actors DEF DrainStep, DrainStart, DrainPop
    <3>2. /\ pc'["wake"] = pc["wake"] /\ ptr'["wake"] = ptr["wake"]
          /\ \A o \in Obj : queue'[o] # <<>> => queue[o] # <<>>
      BY <2>2, <2>5, <3>1 DEF DrainStep, DrainStart, DrainPop, TypeOK
    <3> QED BY <2>1, <3>1, <3>2, ComesSame
  <2>6. ASSUME NEW o \in Obj, Teardown(o) \/ ChildExit(o) PROVE NothingStranded'
    BY <2>1, <2>6, ComesSame DEF Teardown, ChildExit
  <2>7. CASE TickReports
    <3>1. \A o \in Obj \ {current} : queue'[o] = queue[o]
      BY <2>2, <2>7 DEF TickReports, TypeOK
    <3> QED BY <2>1, <2>7, <3>1, ComesSame DEF TickReports
  <2>8. CASE Wake
    <3>1. ASSUME NEW p \in Obj, WakeBegin(p) PROVE NothingStranded'
      <4>1. /\ pc["wake"] = "idle" /\ pc'["wake"] = "resolve" /\ ptr'["wake"] = p
            /\ UNCHANGED <<current, queue>>
            /\ \A o \in Obj : o # p => wakes'[o] = wakes[o]
        BY <2>2, <3>1 DEF WakeBegin, TypeOK
      <4> QED BY <2>1, <4>1 DEF NothingStranded
    <3>2. CASE Resolve
      <4>1. UNCHANGED <<current, queue, wakes>> /\ pc["wake"] = "resolve"
        BY <3>2 DEF Resolve
      <4>2. current = ptr["wake"] \/ (pc'["wake"] = "stale" /\ ptr'["wake"] = ptr["wake"])
        BY <2>2, <3>2 DEF Resolve, TypeOK
      <4> QED BY <2>1, <4>1, <4>2 DEF NothingStranded
    <3>3. CASE Stale
      <4>1. UNCHANGED <<current, wakes>> /\ pc["wake"] = "stale" /\ ptr["wake"] \in Obj
        BY <3>3 DEF Stale, LifeInv, LocalInv, WakeInv, Made
      <4>2. /\ queue'[ptr["wake"]] = <<>>
            /\ \A o \in Obj : o # ptr["wake"] => queue'[o] = queue[o]
        BY <2>2, <3>3, <4>1 DEF Stale, TypeOK
      <4> QED BY <2>1, <4>1, <4>2 DEF NothingStranded
    <3>4. CASE Judge \/ Spawn
      <4>1. UNCHANGED <<current, queue, wakes>> /\ pc["wake"] \notin {"resolve", "stale"}
        BY <3>4 DEF Judge, Spawn
      <4> QED BY <2>1, <4>1 DEF NothingStranded
    <3>5. CASE Swap
      <4>1. /\ pc["wake"] = "swap" /\ ptr["wake"] = current /\ UNCHANGED wakes
            /\ current' = new["wake"]
        BY <2>2, <3>5 DEF Swap, Uncut
      <4>2. /\ queue'[current] = <<>>
            /\ \A o \in Obj : o # current => queue'[o] = queue[o]
        BY <2>2, <3>5, <4>1 DEF Swap, TypeOK
      <4> QED BY <2>1, <4>1, <4>2 DEF NothingStranded
    <3>6. CASE WakeInit
      <4>1. UNCHANGED <<current, queue, wakes>> /\ pc["wake"] = "init"
        BY <1>2, <3>6 DEF WakeInit
      <4> QED BY <2>1, <4>1 DEF NothingStranded
    <3>7. CASE TypeInHand
      <4>1. UNCHANGED <<current, queue, wakes>> /\ pc["wake"] = "list"
        BY <3>7 DEF TypeInHand
      <4> QED BY <2>1, <4>1 DEF NothingStranded
    <3> QED BY <2>8, <3>1, <3>2, <3>3, <3>4, <3>5, <3>6, <3>7 DEF Wake
  <2>9. CASE Operate
    <3>1. CASE RestartMark \/ Start \/ Remove \/ Add
      BY <1>2, <2>2, <3>1 DEF RestartMark, Start, Remove, Add
    <3>2. CASE RestartTake \/ RestartSpawn \/ RestartSwap \/ StartSwap
      BY <2>2, <3>2 DEF RestartTake, RestartSpawn, RestartSwap, StartSwap
    <3>3. CASE Stop
      BY <2>1, <3>3, ComesSame DEF Stop
    <3>4. CASE ParkPick \/ Park
      <4>1. UNCHANGED <<current, queue, wakes>>
        BY <3>4 DEF ParkPick, Park
      <4>2. pc'["wake"] = pc["wake"] /\ ptr'["wake"] = ptr["wake"]
        BY <2>2, <3>4 DEF ParkPick, Park, TypeOK
      <4> QED BY <2>1, <4>1, <4>2, ComesSame
    <3>5. CASE Rewake
      <4>1. /\ UNCHANGED <<current, queue, pc, ptr>>
            /\ \A o \in Obj \ {current} : wakes'[o] = wakes[o]
        BY <2>2, <3>5 DEF Rewake, Trigger, TypeOK
      <4> QED BY <2>1, <4>1 DEF NothingStranded
    <3> QED BY <2>9, <3>1, <3>2, <3>3, <3>4, <3>5 DEF Operate
  <2>10. CASE UNCHANGED vars
    BY <2>1, <2>10, ComesSame DEF vars
  <2> QED BY <2>3, <2>4, <2>5, <2>6, <2>7, <2>8, <2>9, <2>10 DEF Next, Senders
<1> QED BY <1>1, <1>2

\* A message queued on a pane that a resume replaced has a trigger on its way that
\* hands it over, unless a restart, a start, a removal, a child's early death or a
\* teardown that was not waited for has cut in (resource.go, ini-x23q).
THEOREM NobodyStrands == Spec => []NothingStranded
<1>1. Init => NothingStranded /\ StrandInv
  <2> SUFFICES ASSUME Init PROVE NothingStranded /\ Uncut
    BY DEF StrandInv
  <2>1. LifeInv
    BY InitLife
  <2> QED BY <2>1, Actors DEF Init, NothingStranded, Uncut, Unknown, Made
<1>2. LifeInv /\ StrandInv /\ [Next]_vars => StrandInv'
  <2> SUFFICES ASSUME LifeInv, StrandInv, [Next]_vars, ~cut' PROVE Uncut'
    BY DEF StrandInv
  <2>1. ~cut
    BY DEF Next, Send, SendStep, Check, Enqueue, Type, DrainStep, DrainStart, DrainPop, Teardown,
          ChildExit, TickReports, Wake, WakeBegin, Resolve, Stale, Judge, Spawn, Swap, TypeInHand,
          WakeInit, Operate, RestartMark, RestartTake, RestartSpawn, RestartSwap, Start, StartSwap, Stop,
          Remove, Add, ParkPick, Park, Rewake, vars
  <2> QED BY <2>1, NextUncut DEF StrandInv
<1>3. LifeInv /\ NothingStranded /\ StrandInv /\ [Next]_vars => NothingStranded'
  BY NextComes
<1> QED BY <1>1, <1>2, <1>3, LifeInvariant, PTL DEF Spec

=============================================================================
