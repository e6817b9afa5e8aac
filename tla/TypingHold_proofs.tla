-------------------------- MODULE TypingHold_proofs --------------------------
(* For any number of messages, any queue cap, quiet window and hold cap.       *)
EXTENDS TypingHold, SequenceTheorems, TLAPS

-----------------------------------------------------------------------------
(* The inductive invariant. *)

Busy == drain.at \in {"write", "clear"}
InQ(s)  == \E i \in DOMAIN q : q[i] = Body(s)
Held(s) == Busy /\ drain.it = Body(s)
Plain(it) == it \notin Bodies \cup {Paste}

\* The drain has something when it is busy, and is there when something is queued.
DrainInv ==
    /\ drain.at = "off" => drain = Idle
    /\ drain.at = "take" => drain = More
    /\ Busy => drain.it \in Items
    /\ drain.at = "off" => q = <<>>

\* The line: who has a turn, who waits for one, who has had it.
Standing(a, s) == ticket[a] # NoTicket /\ ticket[a] < ticket[s]
LineInv == \A s \in Sender :
    /\ ticket[s] # NoTicket => ticket[s] >= serving
    /\ pc[s] = "new" => ticket[s] = NoTicket /\ ahead[s] = {}
    /\ pc[s] = "line" => ticket[s] # NoTicket
    /\ pc[s] = "sleep" => ticket[s] = serving
    /\ pc[s] = "lock" \/ Locked(s) => ticket[s] \in {NoTicket, serving}
    /\ pc[s] = "done" => ticket[s] = NoTicket /\ ahead[s] = {}
    /\ \A t \in Sender : ticket[s] = ticket[t] /\ ticket[s] # NoTicket => s = t
    /\ \A a \in ahead[s] : pc[a] = "done" \/ Standing(a, s)

\* Where the body of a send is, by where the send is.
Early == {"new", "line", "sleep", "lock", "settle", "write"}
BodyInv(s) ==
    /\ pc[s] \in Early =>
          /\ out[s] = "none" /\ landed[s] = "notReached" /\ told[s] = "none"
          /\ ~InQ(s) /\ ~Held(s)
    /\ InQ(s) => pc[s] = "wait" /\ out[s] = "none" /\ landed[s] = "notReached" /\ ~Held(s)
    /\ Held(s) => /\ \/ out[s] = "none" /\ pc[s] = "wait"
                     \/ out[s] = "partial" /\ pc[s] = "done" /\ told[s] = "unconfirmed"
                  /\ landed[s] = IF drain.at = "write" THEN "notReached" ELSE drain.r
    /\ pc[s] = "wait" =>
          /\ told[s] = "none"
          /\ out[s] = "none" => InQ(s) \/ Held(s)
          /\ out[s] # "none" => landed[s] = out[s]
    /\ pc[s] \in {"body", "enter", "again"} =>
          out[s] = "written" /\ landed[s] = "written" /\ told[s] = "none"
    /\ pc[s] = "done" =>
          /\ told[s] = "deferred" => landed[s] = "notReached" /\ ~Held(s)
          /\ told[s] \in {"delivered", "notDelivered"} => landed[s] = "written"

\* A submit that is withheld or kept: its send is over, its body is in, and no line
\* has been said of it; a send under way has said none.
SubmitInv == \A s \in Sender :
    /\ pending = s => /\ pc[s] = "done" /\ told[s] = "unconfirmed"
                      /\ landed[s] = "written" /\ lines[s] = 0
    /\ pc[s] # "done" \/ told[s] = "delivered" => lines[s] = 0
    /\ lines[s] <= 1

\* A body is queued once.
Once == \A i, j \in DOMAIN q : q[i] = q[j] /\ q[i] \in Bodies => i = j

\* A wedge on an idle child is one of a full queue: something in it stays.
Stuck == wedged /\ ~closed /\ ~Busy => \E i \in DOMAIN q : q[i] \notin Bodies

\* The body of s is in and its send still holds sendMu.
Pressing == {"body", "enter", "again"}
After(s) == \/ pc[s] = "wait" /\ (Held(s) \/ out[s] = "written")
            \/ pc[s] \in Pressing

\* Nothing but keys and Enters comes between a body and its Enter.
OrderInv == \A s \in Sender :
    /\ pipe = Enter(s) => pc[s] \in {"enter", "again"}
    /\ \A i, j \in DOMAIN q : q[i] = Body(s) /\ i < j => Plain(q[j])
    /\ After(s) => /\ \A i \in DOMAIN q : Plain(q[i])
                   /\ drain.at = "write" => Plain(drain.it) \/ drain.it = Body(s)
    /\ \A j \in DOMAIN q : q[j] = Enter(s) =>
          /\ \A i \in DOMAIN q : i < j => Plain(q[i])
          /\ drain.at = "write" => Plain(drain.it)

HoldInv == TypeOK /\ DrainInv /\ LineInv /\ (\A s \in Sender : BodyInv(s)) /\ Once /\ Stuck

-----------------------------------------------------------------------------
(* Names, and what the operations do to a queue. *)

LEMMA Names ==
    /\ \A s, t \in Sender :
          /\ Body(s) = Body(t) => s = t
          /\ Enter(s) = Enter(t) => s = t
          /\ Body(s) # Enter(t)
    /\ \A s \in Sender :
          /\ Body(s) \in Bodies /\ Body(s) \in Items /\ Body(s)[2] = s /\ Body(s) # Paste
          /\ Enter(s) \in Items /\ Plain(Enter(s)) /\ ~Plain(Body(s)) /\ Enter(s) # Key
          /\ Enter(s) # NoItem
    /\ \A it \in Bodies : \E s \in Sender : it = Body(s)
    /\ Paste \in Items /\ Key \in Items /\ Paste \notin Bodies /\ Plain(Key) /\ ~Plain(Paste)
    /\ NoItem \notin Items /\ NoItem \notin Sender
<1>1. \A s, t \in Sender :
        /\ Body(s) = Body(t) => s = t
        /\ Enter(s) = Enter(t) => s = t
        /\ Body(s) # Enter(t)
  BY DEF Body, Enter
<1>2. \A s \in Sender : Body(s)[2] = s
  BY DEF Body
<1>3. \A s \in Sender : Body(s) # Paste /\ Body(s) # Key /\ Enter(s) # Paste /\ Enter(s) # Key
  BY DEF Body, Enter, Paste, Key
<1>4. Paste # Key
  BY DEF Paste, Key
<1> HIDE DEF Body, Enter, Paste, Key
<1>5. /\ \A s \in Sender : Body(s) \in Bodies /\ Body(s) \in Items /\ Enter(s) \in Items
      /\ \A it \in Bodies : \E s \in Sender : it = Body(s)
      /\ Paste \in Items /\ Key \in Items
  BY DEF Items, Bodies
<1>6. /\ Paste \notin Bodies /\ Key \notin Bodies
      /\ \A s \in Sender : Enter(s) \notin Bodies
  <2>1. Paste \notin Bodies /\ Key \notin Bodies
    BY <1>3, Zenon DEF Bodies
  <2>2. ASSUME NEW s \in Sender PROVE Enter(s) \notin Bodies
    <3>1. \A t \in Sender : Body(t) # Enter(s)
      BY <1>1, Zenon
    <3> QED BY <3>1, Zenon DEF Bodies
  <2> QED BY <2>1, <2>2
<1>7. /\ \A s \in Sender : Plain(Enter(s)) /\ ~Plain(Body(s))
      /\ Plain(Key) /\ ~Plain(Paste)
  BY <1>3, <1>4, <1>5, <1>6 DEF Plain
<1>8. \A s \in Sender : Enter(s) # NoItem
  BY <1>5, NoItemAssumption
<1> QED BY <1>1, <1>2, <1>3, <1>5, <1>6, <1>7, <1>8, NoItemAssumption

\* The queue of a later state is what is left of this one, in its order.
Shrinks == \E f \in [DOMAIN q' -> DOMAIN q] : \A i \in DOMAIN q' :
    q'[i] = q[f[i]] /\ \A j \in DOMAIN q' : i < j => f[i] < f[j]

\* Or this one with an item behind it.
Grows(it) == \A i \in DOMAIN q' :
    \/ i \in DOMAIN q /\ q'[i] = q[i]
    \/ i \notin DOMAIN q /\ q'[i] = it /\ \A j \in DOMAIN q' : j <= i

LEMMA PushGrows ==
    ASSUME InputTypeOK, NEW it \in Items, Push(it)
    PROVE  \/ /\ Fits /\ q' \in Seq(Items) /\ Len(q') <= Cap /\ Grows(it)
              /\ q' # <<>> /\ \A i \in DOMAIN q : i \in DOMAIN q' /\ q'[i] = q[i]
              /\ \E i \in DOMAIN q' : q'[i] = it
              /\ drain' = IF drain = Idle THEN More ELSE drain
              /\ UNCHANGED <<closed, wedged, out, landed>>
           \/ /\ ~Fits /\ wedged' = (wedged \/ ~closed)
              /\ UNCHANGED <<q, drain, closed, out, landed>>
<1>1. q \in Seq(Items) /\ Len(q) \in Nat /\ DOMAIN q = 1..Len(q) /\ Len(q) <= Cap /\ Cap \in Nat
  BY CapAssumption DEF InputTypeOK
<1>2. CASE Fits
  <2>1. q' = Append(q, it) /\ Len(q) < Cap
    BY <1>2 DEF Push, Fits
  <2>2. /\ q' \in Seq(Items) /\ Len(q') = Len(q) + 1 /\ DOMAIN q' = 1..(Len(q) + 1)
        /\ q'[Len(q) + 1] = it /\ \A i \in 1..Len(q) : q'[i] = q[i]
    BY <1>1, <2>1
  <2>3. Grows(it)
    <3>1. ASSUME NEW i \in 1..(Len(q) + 1)
          PROVE  \/ i \in 1..Len(q) /\ q'[i] = q[i]
                 \/ i \notin 1..Len(q) /\ q'[i] = it /\ \A j \in 1..(Len(q) + 1) : j <= i
      <4>1. i \in 1..Len(q) \/ i = Len(q) + 1
        BY <1>1
      <4> QED BY <4>1, <1>1, <2>2
    <3>2. DOMAIN q = 1..Len(q) /\ DOMAIN q' = 1..(Len(q) + 1)
      BY <1>1, <2>2
    <3> QED BY <3>1, <3>2 DEF Grows
  <2>4. q' # <<>> /\ Len(q') <= Cap /\ \A i \in DOMAIN q : i \in DOMAIN q' /\ q'[i] = q[i]
    BY <1>1, <2>1, <2>2
  <2>5. \E i \in DOMAIN q' : q'[i] = it
    <3>1. Len(q) + 1 \in DOMAIN q'
      BY <1>1, <2>2
    <3> QED BY <3>1, <2>2
  <2> QED BY <1>2, <2>2, <2>3, <2>4, <2>5 DEF Push
<1>3. CASE ~Fits
  BY <1>3 DEF Push
<1> QED BY <1>2, <1>3

LEMMA EmptyShrinks == q' = <<>> => Shrinks
<1> SUFFICES ASSUME q' = <<>> PROVE Shrinks
  OBVIOUS
<1>1. DOMAIN q' = {}
  OBVIOUS
<1>2. [i \in DOMAIN q' |-> i] \in [DOMAIN q' -> DOMAIN q]
  BY <1>1
<1> QED BY <1>1, <1>2 DEF Shrinks

LEMMA TailShrinks ==
    ASSUME q \in Seq(Items), q # <<>>, q' = Tail(q)
    PROVE  /\ Shrinks /\ q' \in Seq(Items) /\ Len(q') <= Len(q)
           /\ Head(q) = q[1] /\ 1 \in DOMAIN q
           /\ \A i \in DOMAIN q' : i + 1 \in DOMAIN q /\ q'[i] = q[i + 1] /\ 1 < i + 1
           /\ \A i \in DOMAIN q : i # 1 => i - 1 \in DOMAIN q' /\ q'[i - 1] = q[i]
<1>1. /\ Len(q) \in Nat /\ Len(q) > 0 /\ DOMAIN q = 1..Len(q)
      /\ q' \in Seq(Items) /\ Len(q') = Len(q) - 1 /\ DOMAIN q' = 1..(Len(q) - 1)
      /\ Head(q) = q[1] /\ \A i \in 1..(Len(q) - 1) : q'[i] = q[i + 1]
  OBVIOUS
<1>2. [i \in DOMAIN q' |-> i + 1] \in [DOMAIN q' -> DOMAIN q]
  BY <1>1
<1>3. Shrinks
  <2> DEFINE f == [i \in DOMAIN q' |-> i + 1]
  <2>1. \A i \in DOMAIN q' : q'[i] = q[f[i]] /\ \A j \in DOMAIN q' : i < j => f[i] < f[j]
    BY <1>1
  <2> HIDE DEF f
  <2> QED BY <1>2, <2>1 DEF Shrinks, f
<1>4. \A i \in DOMAIN q : i # 1 => i - 1 \in DOMAIN q' /\ q'[i - 1] = q[i]
  <2> SUFFICES ASSUME NEW i \in 1..Len(q), i # 1 PROVE i - 1 \in DOMAIN q' /\ q'[i - 1] = q[i]
    BY <1>1
  <2>1. i - 1 \in 1..(Len(q) - 1) /\ (i - 1) + 1 = i
    BY <1>1
  <2> QED BY <1>1, <2>1
<1> QED BY <1>1, <1>3, <1>4

LEMMA UnqueuedShrinks ==
    ASSUME q \in Seq(Items), NEW s \in Sender, InQ(s), Once, q' = Unqueued(s)
    PROVE  /\ Shrinks /\ q' \in Seq(Items) /\ Len(q') <= Len(q)
           /\ \A i \in DOMAIN q' : q'[i] # Body(s)
           /\ \A i \in DOMAIN q : q[i] # Body(s) => \E j \in DOMAIN q' : q'[j] = q[i]
<1> DEFINE k == CHOOSE i \in DOMAIN q : q[i] = Body(s)
<1>1. k \in DOMAIN q /\ q[k] = Body(s)
  BY DEF InQ
<1>2. q' = RemoveAt(q, k)
  BY DEF Unqueued
<1> HIDE DEF k
<1>3. Len(q) \in Nat /\ DOMAIN q = 1..Len(q) /\ k \in 1..Len(q)
  BY <1>1
<1>4. /\ SubSeq(q, 1, k - 1) \in Seq(Items) /\ Len(SubSeq(q, 1, k - 1)) = k - 1
      /\ \A i \in 1..(k - 1) : SubSeq(q, 1, k - 1)[i] = q[i]
  BY <1>3
<1>5. /\ SubSeq(q, k + 1, Len(q)) \in Seq(Items) /\ Len(SubSeq(q, k + 1, Len(q))) = Len(q) - k
      /\ \A i \in 1..(Len(q) - k) : SubSeq(q, k + 1, Len(q))[i] = q[i + k]
  <2>1. k + 1 \in Int /\ Len(q) \in Int /\ \A j \in (k + 1)..Len(q) : q[j] \in Items
    BY <1>3
  <2>2. Len(SubSeq(q, k + 1, Len(q))) = Len(q) - k /\ SubSeq(q, k + 1, Len(q)) \in Seq(Items)
    <3>1. Len(SubSeq(q, k + 1, Len(q))) = IF k + 1 <= Len(q) THEN Len(q) - (k + 1) + 1 ELSE 0
      BY <2>1, SubSeqProperties
    <3>2. SubSeq(q, k + 1, Len(q)) \in Seq(Items)
      BY <2>1, SubSeqProperties
    <3>3. Len(SubSeq(q, k + 1, Len(q))) = Len(q) - k
      <4>1. \A m \in Nat : \A n \in 1..m : m - (n + 1) + 1 = m - n /\ (n + 1 <= m \/ m - n = 0)
        OBVIOUS
      <4>2. Len(q) - (k + 1) + 1 = Len(q) - k /\ (k + 1 <= Len(q) \/ Len(q) - k = 0)
        BY <4>1, <1>3
      <4> QED BY <4>2, <3>1
    <3> QED BY <3>2, <3>3
  <2>3. ASSUME NEW i \in 1..(Len(q) - k) PROVE SubSeq(q, k + 1, Len(q))[i] = q[i + k]
    <3>1. i \in 1..(Len(q) - (k + 1) + 1) /\ (k + 1) + i - 1 = i + k
      BY <1>3
    <3>2. \A j \in 1..(Len(q) - (k + 1) + 1) : SubSeq(q, k + 1, Len(q))[j] = q[(k + 1) + j - 1]
      BY <2>1, SubSeqProperties
    <3> QED BY <3>1, <3>2
  <2> QED BY <2>2, <2>3
<1>6. /\ q' \in Seq(Items) /\ Len(q') = Len(q) - 1 /\ DOMAIN q' = 1..(Len(q) - 1)
      /\ \A i \in 1..(Len(q) - 1) : q'[i] = IF i < k THEN q[i] ELSE q[i + 1]
  <2> DEFINE a == SubSeq(q, 1, k - 1)
             b == SubSeq(q, k + 1, Len(q))
  <2>1. q' = a \o b
    BY <1>2 DEF RemoveAt
  <2>2. /\ a \in Seq(Items) /\ Len(a) = k - 1 /\ \A i \in 1..(k - 1) : a[i] = q[i]
        /\ b \in Seq(Items) /\ Len(b) = Len(q) - k /\ \A i \in 1..(Len(q) - k) : b[i] = q[i + k]
    BY <1>4, <1>5
  <2> HIDE DEF a, b
  <2>3. q' \in Seq(Items) /\ Len(q') = Len(q) - 1 /\ DOMAIN q' = 1..(Len(q) - 1)
    <3>1. q' \in Seq(Items) /\ Len(q') = Len(a) + Len(b)
      BY <2>1, <2>2, ConcatProperties
    <3>2. Len(q') = Len(q) - 1
      BY <3>1, <2>2, <1>3
    <3> QED BY <3>1, <3>2
  <2>4. ASSUME NEW i \in 1..(Len(q) - 1) PROVE q'[i] = IF i < k THEN q[i] ELSE q[i + 1]
    <3>1. CASE i < k
      <4>1. q'[i] = a[i] /\ i \in 1..(k - 1)
        BY <3>1, <1>3, <2>1, <2>2
      <4> QED BY <4>1, <3>1, <2>2
    <3>2. CASE ~(i < k)
      <4>1. q'[i] = b[i - (k - 1)] /\ i - (k - 1) \in 1..(Len(q) - k) /\ i - (k - 1) + k = i + 1
        BY <3>2, <1>3, <2>1, <2>2
      <4> QED BY <4>1, <3>2, <2>2
    <3> QED BY <3>1, <3>2
  <2> QED BY <2>3, <2>4
<1>7. Shrinks
  <2> DEFINE f == [i \in DOMAIN q' |-> IF i < k THEN i ELSE i + 1]
  <2>1. f \in [DOMAIN q' -> DOMAIN q]
    BY <1>3, <1>6
  <2>2. \A i \in DOMAIN q' : q'[i] = q[f[i]] /\ \A j \in DOMAIN q' : i < j => f[i] < f[j]
    BY <1>3, <1>6
  <2> QED BY <2>1, <2>2 DEF Shrinks
<1>8. \A i \in DOMAIN q' : q'[i] # Body(s)
  <2> SUFFICES ASSUME NEW i \in 1..(Len(q) - 1), q'[i] = Body(s) PROVE FALSE
    BY <1>6
  <2>1. CASE i < k
    <3>1. i \in 1..Len(q) /\ i # k /\ q[i] = Body(s)
      BY <2>1, <1>3, <1>6
    <3> QED BY <3>1, <1>1, <1>3, Names DEF Once
  <2>2. CASE ~(i < k)
    <3>1. i + 1 \in 1..Len(q) /\ i + 1 # k /\ q[i + 1] = Body(s)
      BY <2>2, <1>3, <1>6
    <3> QED BY <3>1, <1>1, <1>3, Names DEF Once
  <2> QED BY <2>1, <2>2
<1>9. \A i \in DOMAIN q : q[i] # Body(s) => \E j \in DOMAIN q' : q'[j] = q[i]
  <2> SUFFICES ASSUME NEW i \in 1..Len(q), q[i] # Body(s) PROVE \E j \in DOMAIN q' : q'[j] = q[i]
    BY <1>3
  <2>1. CASE i < k
    <3>1. i \in 1..(Len(q) - 1)
      BY <2>1, <1>3
    <3> QED BY <3>1, <2>1, <1>6
  <2>2. CASE ~(i < k)
    <3>1. i # k
      BY <1>1
    <3>2. i - 1 \in 1..(Len(q) - 1) /\ ~(i - 1 < k) /\ (i - 1) + 1 = i
      BY <3>1, <2>2, <1>3
    <3>3. q'[i - 1] = q[i]
      BY <3>2, <1>6
    <3> QED BY <3>2, <3>3, <1>6
  <2> QED BY <2>1, <2>2
<1> QED BY <1>3, <1>6, <1>7, <1>8, <1>9

LEMMA QueuedIs == \A s \in Sender : Body(s) \in ToSet(q) <=> InQ(s)
BY DEF ToSet, InQ

LEMMA PipedIs == Piped \subseteq Items /\ \A it \in Piped : Plain(it)
BY Names DEF Piped, Plain, Items

-----------------------------------------------------------------------------
(* The steps of the input: types and the drain. *)

LEMMA PushStays ==
    ASSUME InputTypeOK, DrainInv, NEW it \in Items, Push(it)
    PROVE  /\ InputTypeOK' /\ DrainInv'
           /\ Busy' = Busy /\ (Busy => drain' = drain)
           /\ UNCHANGED <<out, landed, closed>>
<1>1. More \in [at : {"off", "take", "write", "clear"}, it : Items \cup {NoItem},
                r : Outcomes \cup {"none"}] /\ More.at = "take" /\ Idle.at = "off"
  BY DEF More, Idle
<1>2. CASE Fits
  <2>1. /\ q' \in Seq(Items) /\ Len(q') <= Cap /\ q' # <<>>
        /\ drain' = IF drain = Idle THEN More ELSE drain
        /\ UNCHANGED <<closed, wedged, out, landed>>
    BY <1>2, PushGrows
  <2>2. InputTypeOK'
    BY <1>1, <2>1 DEF InputTypeOK
  <2>3. DrainInv'
    BY <1>1, <2>1 DEF DrainInv, Busy
  <2>4. Busy' = Busy /\ (Busy => drain' = drain)
    BY <1>1, <2>1 DEF Busy
  <2> QED BY <2>1, <2>2, <2>3, <2>4
<1>3. CASE ~Fits
  <2>1. UNCHANGED <<q, drain, closed, out, landed>> /\ wedged' = (wedged \/ ~closed)
    BY <1>3, PushGrows
  <2>2. wedged' \in BOOLEAN
    BY <2>1
  <2> QED BY <2>1, <2>2 DEF InputTypeOK, DrainInv, Busy
<1> QED BY <1>2, <1>3

\* A push leaves every other body where it is.
LEMMA PushBodies ==
    ASSUME InputTypeOK, DrainInv, NEW it \in Items, Push(it), NEW t \in Sender
    PROVE  /\ Held(t)' <=> Held(t)
           /\ Body(t) # it => (InQ(t)' <=> InQ(t))
           /\ Fits /\ Body(t) = it => InQ(t)'
           /\ ~Fits => (InQ(t)' <=> InQ(t))
<1>1. Held(t)' <=> Held(t)
  BY PushStays DEF Held
<1>2. CASE Fits
  BY <1>1, <1>2, PushGrows DEF InQ, Grows
<1>3. CASE ~Fits
  BY <1>1, <1>3, PushGrows DEF InQ
<1> QED BY <1>2, <1>3

LEMMA AbandonStays ==
    ASSUME InputTypeOK, DrainInv, Once, NEW s \in Sender, Abandon(s), Recallable(s)
    PROVE  /\ InputTypeOK' /\ DrainInv' /\ Shrinks /\ UNCHANGED <<drain, closed, landed>>
           /\ out' = [out EXCEPT ![s] = IF InQ(s) THEN "notReached" ELSE "partial"]
           /\ wedged' = (wedged \/ (Busy /\ ~closed))
           /\ InQ(s) \/ Held(s)
           /\ ~InQ(s)'
           /\ \A i \in DOMAIN q' : q'[i] # Body(s)
           /\ \A i \in DOMAIN q : q[i] # Body(s) => \E j \in DOMAIN q' : q'[j] = q[i]
<1>1. Current # NoItem <=> Busy
  BY Names DEF Current, Busy, DrainInv
<1>2. InQ(s) \/ Held(s)
  BY QueuedIs, Names DEF Recallable, Current, Held, Busy
<1>3. /\ q' = IF InQ(s) THEN Unqueued(s) ELSE q
      /\ out' = [out EXCEPT ![s] = IF InQ(s) THEN "notReached" ELSE "partial"]
      /\ wedged' = (wedged \/ (Busy /\ ~closed))
      /\ UNCHANGED <<drain, closed, landed>>
  BY <1>1, QueuedIs DEF Abandon
<1>4. q \in Seq(Items) /\ Len(q) <= Cap /\ Len(q) \in Nat /\ Cap \in Nat
  BY CapAssumption DEF InputTypeOK
<1>5. /\ q' \in Seq(Items) /\ Len(q') <= Cap /\ Shrinks
      /\ \A i \in DOMAIN q' : q'[i] # Body(s)
      /\ \A i \in DOMAIN q : q[i] # Body(s) => \E j \in DOMAIN q' : q'[j] = q[i]
      /\ q = <<>> => q' = <<>>
  <2>1. CASE InQ(s)
    <3>1. q # <<>>
      BY <2>1 DEF InQ
    <3>2. /\ Shrinks /\ q' \in Seq(Items) /\ Len(q') <= Len(q)
          /\ \A i \in DOMAIN q' : q'[i] # Body(s)
          /\ \A i \in DOMAIN q : q[i] # Body(s) => \E j \in DOMAIN q' : q'[j] = q[i]
      BY <2>1, <1>3, <1>4, UnqueuedShrinks
    <3> QED BY <3>1, <3>2, <1>4
  <2>2. CASE ~InQ(s)
    <3>1. q' = q
      BY <2>2, <1>3
    <3>2. Shrinks
      <4>1. [i \in DOMAIN q' |-> i] \in [DOMAIN q' -> DOMAIN q]
        BY <3>1
      <4> QED BY <3>1, <4>1 DEF Shrinks
    <3> QED BY <2>2, <3>1, <3>2, <1>4 DEF InQ
  <2> QED BY <2>1, <2>2
<1>6. InputTypeOK'
  BY <1>3, <1>5 DEF InputTypeOK, Outcomes
<1>7. DrainInv'
  BY <1>3, <1>5 DEF DrainInv, Busy
<1>8. ~InQ(s)'
  BY <1>5 DEF InQ
<1> QED BY <1>2, <1>3, <1>5, <1>6, <1>7, <1>8

LEMMA TakeStays ==
    ASSUME InputTypeOK, DrainInv, Take
    PROVE  /\ InputTypeOK' /\ DrainInv' /\ Shrinks /\ ~Busy
           /\ UNCHANGED <<closed, wedged, out, landed>>
           /\ \/ q = <<>> /\ q' = <<>> /\ drain' = Idle
              \/ /\ q # <<>> /\ q' = Tail(q) /\ drain'.at = "write" /\ drain'.it = Head(q)
                 /\ Head(q) = q[1] /\ q[1] \in Items /\ 1 \in DOMAIN q
                 /\ \A i \in DOMAIN q' : i + 1 \in DOMAIN q /\ q'[i] = q[i + 1] /\ 1 < i + 1
                 /\ \A i \in DOMAIN q : i # 1 => i - 1 \in DOMAIN q' /\ q'[i - 1] = q[i]
<1>1. UNCHANGED <<closed, wedged, out, landed>> /\ drain.at = "take"
  BY DEF Take
<1>2. q \in Seq(Items) /\ Len(q) <= Cap /\ Len(q) \in Nat /\ Cap \in Nat
  BY CapAssumption DEF InputTypeOK
<1>3. CASE q = <<>>
  <2>1. q' = <<>> /\ drain' = Idle
    BY <1>3 DEF Take
  <2>2. Shrinks
    BY <2>1, EmptyShrinks
  <2> QED BY <1>1, <1>2, <1>3, <2>1, <2>2 DEF InputTypeOK, DrainInv, Busy, Idle
<1>4. CASE q # <<>>
  <2>1. q' = Tail(q) /\ drain' = [More EXCEPT !.at = "write", !.it = Head(q)]
    BY <1>4 DEF Take
  <2>2. /\ Shrinks /\ q' \in Seq(Items) /\ Len(q') <= Len(q)
        /\ Head(q) = q[1] /\ 1 \in DOMAIN q
        /\ \A i \in DOMAIN q' : i + 1 \in DOMAIN q /\ q'[i] = q[i + 1] /\ 1 < i + 1
        /\ \A i \in DOMAIN q : i # 1 => i - 1 \in DOMAIN q' /\ q'[i - 1] = q[i]
    BY <1>2, <1>4, <2>1, TailShrinks
  <2>3. q[1] \in Items /\ Len(q') <= Cap
    BY <1>2, <2>2
  <2>4. drain' = [at |-> "write", it |-> q[1], r |-> "none"]
    BY <2>1, <2>2 DEF More, Idle
  <2>5. InputTypeOK'
    BY <1>1, <2>2, <2>3, <2>4 DEF InputTypeOK
  <2>6. DrainInv'
    BY <2>3, <2>4 DEF DrainInv, Busy
  <2>7. drain'.at = "write" /\ drain'.it = Head(q)
    BY <2>2, <2>4
  <2> QED BY <1>1, <1>4, <2>1, <2>2, <2>3, <2>5, <2>6, <2>7 DEF Busy
<1> QED BY <1>3, <1>4

LEMMA WriteEndsStays ==
    ASSUME InputTypeOK, DrainInv, WriteEnds
    PROVE  /\ InputTypeOK' /\ DrainInv' /\ UNCHANGED <<q, closed, wedged, out>>
           /\ drain.at = "write" /\ drain'.at = "clear" /\ drain'.it = drain.it
           /\ \A s \in Sender : landed'[s] = IF drain.it = Body(s) THEN drain'.r ELSE landed[s]
<1>1. drain.at = "write" /\ UNCHANGED <<q, closed, wedged, out>> /\ drain.it \in Items
  BY DEF WriteEnds, DrainInv, Busy
<1>2. CASE drain.it \in Bodies
  <2>1. PICK r \in Outcomes : /\ drain' = [drain EXCEPT !.at = "clear", !.r = r]
                              /\ landed' = [landed EXCEPT ![drain.it[2]] = r]
    BY <1>2 DEF WriteEnds
  <2>2. PICK b \in Sender : drain.it = Body(b)
    BY <1>2, Names
  <2>3. drain.it[2] = b
    BY <2>2, Names
  <2>4. landed' = [landed EXCEPT ![b] = r] /\ landed' \in [Sender -> Outcomes]
    BY <2>1, <2>3 DEF InputTypeOK
  <2>5. drain'.at = "clear" /\ drain'.it = drain.it /\ drain'.r = r
    BY <2>1 DEF InputTypeOK
  <2>6. \A s \in Sender : landed'[s] = IF drain.it = Body(s) THEN drain'.r ELSE landed[s]
    BY <2>2, <2>4, <2>5, Names DEF InputTypeOK
  <2>7. InputTypeOK'
    BY <1>1, <2>1, <2>4 DEF InputTypeOK
  <2>8. DrainInv'
    BY <1>1, <2>5 DEF DrainInv, Busy
  <2> QED BY <1>1, <2>5, <2>6, <2>7, <2>8
<1>3. CASE drain.it \notin Bodies
  <2>1. drain' = [drain EXCEPT !.at = "clear"] /\ UNCHANGED landed
    BY <1>3 DEF WriteEnds
  <2>2. drain'.at = "clear" /\ drain'.it = drain.it
    BY <2>1 DEF InputTypeOK
  <2>3. \A s \in Sender : drain.it # Body(s)
    BY <1>3, Names
  <2>4. InputTypeOK'
    BY <1>1, <2>1 DEF InputTypeOK
  <2>5. DrainInv'
    BY <1>1, <2>2 DEF DrainInv, Busy
  <2> QED BY <1>1, <2>1, <2>2, <2>3, <2>4, <2>5
<1> QED BY <1>2, <1>3

LEMMA UnwedgeStays ==
    ASSUME InputTypeOK, DrainInv, Unwedge, \A s \in Sender : Held(s) => drain.r = landed[s]
    PROVE  /\ InputTypeOK' /\ DrainInv' /\ UNCHANGED <<q, closed, landed>>
           /\ drain.at = "clear" /\ drain'.at = "take" /\ wedged' = FALSE
           /\ \A s \in Sender : out'[s] = IF Held(s) /\ out[s] = "none" THEN landed[s] ELSE out[s]
<1>1. /\ drain.at = "clear" /\ drain' = More /\ wedged' = FALSE /\ UNCHANGED <<q, closed, landed>>
      /\ out' = IF drain.it \in Bodies /\ out[drain.it[2]] = "none"
                  THEN [out EXCEPT ![drain.it[2]] = drain.r] ELSE out
  BY DEF Unwedge
<1>2. More.at = "take" /\ More \in [at : {"off", "take", "write", "clear"},
          it : Items \cup {NoItem}, r : Outcomes \cup {"none"}]
  BY DEF More, Idle
<1>3. /\ out' \in [Sender -> Outcomes \cup {"none"}]
      /\ \A s \in Sender : out'[s] = IF Held(s) /\ out[s] = "none" THEN landed[s] ELSE out[s]
  <2>1. CASE drain.it \in Bodies
    <3>1. PICK b \in Sender : drain.it = Body(b) /\ drain.it[2] = b
      BY <2>1, Names
    <3>2. Held(b) /\ drain.r = landed[b] /\ \A s \in Sender : Held(s) => s = b
      BY <1>1, <3>1, Names DEF Held, Busy
    <3>3. out' = IF out[b] = "none" THEN [out EXCEPT ![b] = landed[b]] ELSE out
      BY <1>1, <2>1, <3>1, <3>2
    <3> QED BY <3>2, <3>3 DEF InputTypeOK
  <2>2. CASE drain.it \notin Bodies
    <3>1. out' = out /\ \A s \in Sender : ~Held(s)
      BY <1>1, <2>2, Names DEF Held
    <3> QED BY <3>1 DEF InputTypeOK
  <2> QED BY <2>1, <2>2
<1>4. InputTypeOK'
  BY <1>1, <1>2, <1>3 DEF InputTypeOK
<1>5. DrainInv'
  BY <1>1, <1>2 DEF DrainInv, Busy
<1> QED BY <1>1, <1>2, <1>3, <1>4, <1>5

LEMMA CloseStays ==
    ASSUME InputTypeOK, DrainInv, CloseInput
    PROVE  /\ InputTypeOK' /\ DrainInv' /\ q' = <<>> /\ closed' /\ UNCHANGED <<drain, wedged, landed>>
           /\ \A s \in Sender : out'[s] = IF InQ(s) THEN "notReached" ELSE out[s]
<1>1. /\ q' = <<>> /\ closed' = TRUE /\ UNCHANGED <<drain, wedged, landed>>
      /\ out' = [s \in Sender |-> IF s \in {t \in Sender : Body(t) \in ToSet(q)}
                                    THEN "notReached" ELSE out[s]]
  BY DEF CloseInput
<1>2. /\ \A s \in Sender : out'[s] = IF InQ(s) THEN "notReached" ELSE out[s]
      /\ out' \in [Sender -> Outcomes \cup {"none"}]
  BY <1>1, QueuedIs DEF InputTypeOK, Outcomes
<1>3. Len(<<>>) <= Cap /\ <<>> \in Seq(Items)
  BY CapAssumption
<1> QED BY <1>1, <1>2, <1>3 DEF InputTypeOK, DrainInv, Busy

-----------------------------------------------------------------------------
(* Types. *)

LEMMA GoesTo ==
    ASSUME TypeOK, NEW s \in Sender, NEW p \in Pcs, Goes(s, p)
    PROVE  /\ pc' \in [Sender -> Pcs] /\ pc'[s] = p
           /\ \A t \in Sender \ {s} : pc'[t] = pc[t]
BY DEF TypeOK, Goes

Verdicts == {"delivered", "deferred", "unconfirmed", "notDelivered"}

\* A turn that is over: the counters move on, or start over when nobody waits.
LEMMA ServedSo ==
    ASSUME TypeOK, LineInv, NEW s \in Sender, ticket[s] \in {NoTicket, serving}, Served(s)
    PROVE  /\ next' \in Nat \ {0} /\ serving' \in 1 .. next' /\ ticket' \in [Sender -> 0 .. next' - 1]
           /\ ticket'[s] = NoTicket /\ \A t \in Sender \ {s} : ticket'[t] = ticket[t]
           /\ \A t \in Sender : ticket'[t] # NoTicket => ticket'[t] >= serving'
           /\ serving' = serving \/ (ticket[s] # NoTicket /\ \A t \in Sender \ {s} : ticket[t] # serving)
<1> USE DEF NoTicket
<1>1. next \in Nat \ {0} /\ serving \in 1 .. next /\ ticket \in [Sender -> 0 .. next - 1]
  BY DEF TypeOK
<1>2. \A t \in Sender : ticket[t] # NoTicket => ticket[t] >= serving
  BY DEF LineInv
<1>3. CASE ticket[s] = NoTicket
  <2>1. UNCHANGED lineVars
    BY <1>3 DEF Served
  <2> QED BY <2>1, <1>1, <1>2, <1>3 DEF lineVars
<1>4. CASE ticket[s] = serving /\ ticket[s] # NoTicket
  <2>1. /\ ticket' = [ticket EXCEPT ![s] = NoTicket]
        /\ serving' = IF serving + 1 = next THEN 1 ELSE serving + 1
        /\ next' = IF serving + 1 = next THEN 1 ELSE next
    BY <1>4 DEF Served
  <2>2. \A t \in Sender \ {s} : ticket[t] # serving
    BY <1>4 DEF LineInv
  <2>3. \A t \in Sender \ {s} : ticket[t] # NoTicket => ticket[t] >= serving + 1 /\ ticket[t] <= next - 1
    BY <1>1, <1>2, <2>2
  <2>4. ticket[s] <= next - 1
    BY <1>1
  <2>5. CASE serving + 1 = next
    <3>1. \A t \in Sender : ticket'[t] = NoTicket
      BY <1>1, <2>1, <2>3, <2>5
    <3> QED BY <1>1, <2>1, <2>2, <2>3, <2>5, <3>1, <1>4
  <2>6. CASE serving + 1 # next
    BY <1>1, <2>1, <2>2, <2>3, <2>4, <2>6, <1>4
  <2> QED BY <2>5, <2>6
<1> QED BY <1>3, <1>4

\* The end of a send: what it leaves for the others.
LEMMA EndsSo ==
    ASSUME TypeOK, LineInv, NEW s \in Sender, pc[s] = "lock" \/ Locked(s),
           NEW v \in Verdicts, Ends(s, v)
    PROVE  /\ pc' \in [Sender -> Pcs] /\ pc'[s] = "done" /\ \A t \in Sender \ {s} : pc'[t] = pc[t]
           /\ told' \in [Sender -> Verdicts \cup {"none"}]
           /\ told'[s] = v /\ \A t \in Sender \ {s} : told'[t] = told[t]
           /\ ahead' \in [Sender -> SUBSET Sender]
           /\ ahead'[s] = {} /\ \A t \in Sender \ {s} : ahead'[t] = ahead[t]
           /\ sendMu' = NoItem /\ Served(s) /\ ticket[s] \in {NoTicket, serving}
<1>1. /\ Goes(s, "done") /\ told' = [told EXCEPT ![s] = v] /\ ahead' = [ahead EXCEPT ![s] = {}]
      /\ sendMu' = NoItem /\ Served(s)
  BY DEF Ends
<1>2. "done" \in Pcs
  BY DEF Pcs
<1>3. ticket[s] \in {NoTicket, serving}
  BY DEF LineInv
<1>4. told \in [Sender -> Verdicts \cup {"none"}]
  BY DEF TypeOK, Verdicts
<1> QED BY <1>1, <1>2, <1>3, <1>4, GoesTo DEF TypeOK

\* The field of a withheld submit, and the lines said.
SubmitTyped == /\ pending \in Sender \cup {NoItem} /\ unknown \in BOOLEAN
               /\ eye \in Sender \cup {NoItem} /\ lines \in [Sender -> 0 .. 2]

LEMMA ReportedSo ==
    ASSUME TypeOK, NEW s \in Sender, Reported(s)
    PROVE  /\ lines' \in [Sender -> 0 .. 2] /\ (lines[s] = 0 => lines'[s] = 1)
           /\ \A t \in Sender \ {s} : lines'[t] = lines[t]
<1>1. lines \in [Sender -> 0 .. 2] /\ lines' = [lines EXCEPT ![s] = Lesser(@ + 1, 2)]
  BY DEF TypeOK, Reported
<1> QED BY <1>1 DEF Lesser

\* A submit that is resolved, by whom ever.
LEMMA ResolvesSo ==
    ASSUME TypeOK, NEW s \in Sender, SubmitsLate(s) \/ GivesUp(s)
    PROVE  /\ pending = s /\ pending' = NoItem /\ unknown' = FALSE /\ lines' \in [Sender -> 0 .. 2]
           /\ lines[s] = 0 => lines'[s] <= 1
           /\ \A t \in Sender \ {s} : lines'[t] = lines[t]
           /\ pipe' = pipe \/ (pipe = NoItem /\ pipe' = Key)
<1>1. pending = s /\ pending' = NoItem /\ unknown' = FALSE
  BY DEF SubmitsLate, GivesUp, Takes
<1>2. UNCHANGED lines \/ Reported(s)
  BY DEF SubmitsLate, GivesUp
<1>3. pipe' = pipe \/ (pipe = NoItem /\ pipe' = Key)
  BY DEF SubmitsLate, GivesUp
<1>4. lines \in [Sender -> 0 .. 2]
  BY DEF TypeOK
<1> QED BY <1>1, <1>2, <1>3, <1>4, ReportedSo

LEMMA LeaveTypes ==
    ASSUME TypeOK, LineInv, NEW s \in Sender, pc[s] = "lock" \/ Locked(s), InputTypeOK', SubmitTyped',
           NEW v \in Verdicts, Ends(s, v),
           sendMu \in {s, NoItem}, UNCHANGED <<quiet, waited, sleep, pipe>>
    PROVE  TypeOK'
<1>1. \A t \in Sender : ~Locked(t)'
  <2>1. \A t \in Sender \ {s} : ~Locked(t)
    BY Names DEF TypeOK
  <2>2. pc'[s] = "done" /\ \A t \in Sender \ {s} : pc'[t] = pc[t]
    BY EndsSo
  <2> QED BY <2>1, <2>2 DEF Locked, LockPcs
<1>2. \A t \in Sender : NoItem # t
  BY Names
<1>3. /\ pc' \in [Sender -> Pcs] /\ told' \in [Sender -> Verdicts \cup {"none"}]
      /\ ahead' \in [Sender -> SUBSET Sender] /\ sendMu' = NoItem
  BY EndsSo
<1>4. next' \in Nat \ {0} /\ serving' \in 1 .. next' /\ ticket' \in [Sender -> 0 .. next' - 1]
  BY EndsSo, ServedSo
<1>5. /\ quiet' \in 0 .. Quiet /\ waited' \in [Sender -> 0 .. Longest + 1]
      /\ sleep' \in [Sender -> 0 .. Lesser(Quiet, Longest)]
      /\ pipe' \in Piped \cup {NoItem}
  BY DEF TypeOK
<1> QED BY <1>1, <1>2, <1>3, <1>4, <1>5 DEF TypeOK, SubmitTyped, Verdicts

LEMMA TypeStays ==
    ASSUME TypeOK, DrainInv, LineInv, Once, \A s \in Sender : BodyInv(s), [Next]_vars
    PROVE  TypeOK' /\ DrainInv'
<1> USE DEF inputVars, holdVars, lineVars, submitVars
<1>types. /\ InputTypeOK /\ quiet \in 0 .. Quiet /\ waited \in [Sender -> 0 .. Longest + 1]
          /\ sleep \in [Sender -> 0 .. Lesser(Quiet, Longest)]
          /\ next \in Nat \ {0} /\ serving \in 1 .. next /\ ticket \in [Sender -> 0 .. next - 1]
          /\ pc \in [Sender -> Pcs] /\ sendMu \in Sender \cup {NoItem}
          /\ \A s \in Sender : sendMu = s <=> Locked(s)
          /\ pipe \in Piped \cup {NoItem}
          /\ ahead \in [Sender -> SUBSET Sender]
          /\ told \in [Sender -> {"none", "delivered", "deferred", "unconfirmed", "notDelivered"}]
          /\ SubmitTyped
  BY DEF TypeOK, SubmitTyped
<1>consts. Quiet \in Nat \ {0} /\ Longest \in Nat /\ Longest >= Quiet
  BY HoldAssumption
<1>pcs. /\ {"new", "line", "sleep", "lock", "done"} \cup LockPcs \subseteq Pcs
        /\ {"settle", "write", "wait", "body", "enter", "again"} = LockPcs
  BY DEF Pcs, LockPcs
<1>nobody. \A s \in Sender : s # NoItem
  BY Names
<1>0. ASSUME UNCHANGED inputVars PROVE InputTypeOK' /\ DrainInv'
  BY <1>0, <1>types DEF InputTypeOK, DrainInv, Busy
<1>lock. ASSUME NEW s \in Sender, NEW p \in Pcs, Goes(s, p), sendMu' = sendMu,
                p \in LockPcs <=> Locked(s)
         PROVE  /\ pc' \in [Sender -> Pcs]
                /\ \A t \in Sender : sendMu' = t <=> Locked(t)'
  BY <1>lock, <1>types, GoesTo DEF Locked
<1>submit. ASSUME UNCHANGED submitVars PROVE SubmitTyped'
  BY <1>submit, <1>types DEF SubmitTyped
<1>1. ASSUME NEW s \in Sender, Arrive(s) PROVE TypeOK' /\ DrainInv'
  <2>1. ahead' \in [Sender -> SUBSET Sender]
    BY <1>1, <1>types DEF Arrive
  <2>2. PICK p \in {"lock", "line"} : Goes(s, p)
    BY <1>1 DEF Arrive
  <2>3. /\ pc[s] = "new"
        /\ UNCHANGED <<inputVars, quiet, waited, sleep, sendMu, pipe, told, submitVars>>
    BY <1>1 DEF Arrive
  <2>4. next' \in Nat \ {0} /\ serving' \in 1 .. next' /\ ticket' \in [Sender -> 0 .. next' - 1]
    <3>1. CASE UNCHANGED lineVars
      BY <3>1, <1>types
    <3>2. CASE ticket' = [ticket EXCEPT ![s] = next] /\ next' = next + 1 /\ UNCHANGED serving
      <4>1. \A t \in Sender : ticket'[t] \in 0 .. next' - 1
        BY <3>2, <1>types
      <4> QED BY <3>2, <4>1, <1>types
    <3> QED BY <3>1, <3>2, <1>1 DEF Arrive
  <2>5. pc' \in [Sender -> Pcs] /\ \A t \in Sender : sendMu' = t <=> Locked(t)'
    BY <2>2, <2>3, <1>lock, <1>pcs DEF Locked
  <2> QED BY <2>1, <2>3, <2>4, <2>5, <1>0, <1>types, <1>submit DEF TypeOK, SubmitTyped
<1>2. ASSUME NEW s \in Sender, Look(s) PROVE TypeOK' /\ DrainInv'
  <2>1. PICK p \in {"lock", "sleep"} : Goes(s, p)
    BY <1>2 DEF Look, Out, Sleeps
  <2>2. /\ pc[s] \in {"line", "sleep"}
        /\ UNCHANGED <<inputVars, quiet, lineVars, sendMu, pipe, told, submitVars, ahead>>
    BY <1>2 DEF Look, Looks
  <2>3. pc' \in [Sender -> Pcs] /\ \A t \in Sender : sendMu' = t <=> Locked(t)'
    BY <2>1, <2>2, <1>lock, <1>pcs DEF Locked
  <2>4. waited' \in [Sender -> 0 .. Longest + 1] /\ sleep' \in [Sender -> 0 .. Lesser(Quiet, Longest)]
    <3>1. CASE Out(s)
      BY <3>1, <1>types, <1>consts DEF Out
    <3>2. CASE ~Out(s)
      <4>1. /\ ~(quiet >= Quiet) /\ ~(waited[s] >= Longest)
            /\ Sleeps(s, Lesser(Quiet - quiet, Longest - waited[s]))
        BY <3>2, <1>2 DEF Look
      <4>2. Lesser(Quiet - quiet, Longest - waited[s]) \in 0 .. Lesser(Quiet, Longest)
        BY <4>1, <1>types, <1>consts DEF Lesser
      <4> QED BY <4>1, <4>2, <1>types DEF Sleeps
    <3> QED BY <3>1, <3>2
  <2> QED BY <2>2, <2>3, <2>4, <1>0, <1>types, <1>submit DEF TypeOK, SubmitTyped
<1>3. ASSUME NEW s \in Sender, Lock(s) PROVE TypeOK' /\ DrainInv'
  <2>1. /\ pc[s] = "lock" /\ sendMu = NoItem
        /\ UNCHANGED <<inputVars, quiet, waited, sleep, pipe, submitVars>>
    BY <1>3 DEF Lock
  <2>2. CASE Ends(s, "deferred")
    BY <2>1, <2>2, <1>0, <1>submit, LeaveTypes DEF Verdicts
  <2>3. CASE ~Ends(s, "deferred")
    <3>1. PICK p \in {"write", "settle"} : sendMu' = s /\ Goes(s, p) /\ UNCHANGED <<lineVars, told, ahead>>
      BY <2>3, <1>3 DEF Lock
    <3>2. pc' \in [Sender -> Pcs] /\ pc'[s] = p /\ \A t \in Sender \ {s} : pc'[t] = pc[t]
      BY <3>1, <1>pcs, GoesTo
    <3>3. \A t \in Sender : sendMu' = t <=> Locked(t)'
      BY <2>1, <3>1, <3>2, <1>types, <1>nobody, <1>pcs DEF Locked
    <3> QED BY <2>1, <3>1, <3>2, <3>3, <1>0, <1>submit, <1>types DEF TypeOK, SubmitTyped
  <2> QED BY <2>2, <2>3
\* A send past its lock: on to its next step, or to its end.
<1>goes. ASSUME NEW s \in Sender, Locked(s), NEW p \in LockPcs, Goes(s, p), InputTypeOK', SubmitTyped',
                UNCHANGED <<quiet, waited, sleep, lineVars, sendMu, told, ahead>>,
                pipe' \in Piped \cup {NoItem}
         PROVE  TypeOK'
  <2>1. pc' \in [Sender -> Pcs] /\ \A t \in Sender : sendMu' = t <=> Locked(t)'
    BY <1>goes, <1>lock, <1>pcs
  <2> QED BY <1>goes, <2>1, <1>types DEF TypeOK, SubmitTyped
<1>ends. ASSUME NEW s \in Sender, Locked(s), NEW v \in Verdicts, Ends(s, v), InputTypeOK', SubmitTyped',
                UNCHANGED <<quiet, waited, sleep, pipe>>
         PROVE  TypeOK'
  BY <1>ends, <1>types, LeaveTypes
<1>4. ASSUME NEW s \in Sender, Settle(s) PROVE TypeOK' /\ DrainInv'
  <2>1. /\ pc[s] = "settle" /\ Goes(s, "write")
        /\ UNCHANGED <<inputVars, quiet, waited, sleep, lineVars, sendMu, told, eye, ahead>>
    BY <1>4 DEF Settle
  <2>2. SubmitTyped' /\ pipe' \in Piped \cup {NoItem}
    <3>1. CASE LeavesIt
      BY <3>1, <2>1, <1>types DEF LeavesIt, SubmitTyped
    <3>2. CASE ~LeavesIt
      <4>1. pending \in Sender /\ (SubmitsLate(pending) \/ GivesUp(pending))
        BY <3>2, <1>4, <1>types DEF Settle, SubmitTyped
      <4>2. /\ pending' = NoItem /\ unknown' = FALSE /\ lines' \in [Sender -> 0 .. 2]
            /\ pipe' = pipe \/ pipe' = Key
        BY <4>1, ResolvesSo
      <4> QED BY <2>1, <4>1, <4>2, <1>types DEF SubmitTyped, Piped
    <3> QED BY <3>1, <3>2
  <2>3. Locked(s)
    BY <2>1, <1>pcs DEF Locked
  <2> QED BY <2>1, <2>2, <2>3, <1>0, <1>goes, <1>pcs
<1>5. ASSUME NEW s \in Sender, WriteBody(s) PROVE TypeOK' /\ DrainInv'
  <2>1. /\ pc[s] = "write" /\ Push(Body(s))
        /\ UNCHANGED <<quiet, waited, sleep, pipe, submitVars>>
    BY <1>5 DEF WriteBody
  <2>2. InputTypeOK' /\ DrainInv'
    BY <2>1, <1>types, Names, PushStays
  <2>3. Locked(s)
    BY <2>1, <1>pcs DEF Locked
  <2>4. CASE Ends(s, "deferred")
    BY <2>1, <2>2, <2>3, <2>4, <1>submit, <1>ends DEF Verdicts
  <2>5. CASE ~Ends(s, "deferred")
    <3>1. Goes(s, "wait") /\ UNCHANGED <<sendMu, lineVars, told, ahead>>
      BY <2>5, <1>5 DEF WriteBody
    <3> QED BY <2>1, <2>2, <2>3, <3>1, <1>submit, <1>types, <1>goes, <1>pcs
  <2> QED BY <2>4, <2>5
<1>6. ASSUME NEW s \in Sender, Answer(s) PROVE TypeOK' /\ DrainInv'
  <2>1. pc[s] = "wait" /\ UNCHANGED <<quiet, waited, sleep, pipe, submitVars>>
    BY <1>6 DEF Answer
  <2>2. InputTypeOK' /\ DrainInv'
    BY <1>6, <1>0, <1>types, AbandonStays DEF Answer
  <2>3. Locked(s)
    BY <2>1, <1>pcs DEF Locked
  <2>4. CASE \E v \in Verdicts : Ends(s, v)
    BY <2>1, <2>2, <2>3, <2>4, <1>submit, <1>ends
  <2>5. CASE ~\E v \in Verdicts : Ends(s, v)
    <3>1. Goes(s, "body") /\ UNCHANGED <<sendMu, lineVars, told, ahead>>
      BY <2>5, <1>6 DEF Answer, Verdicts
    <3> QED BY <2>1, <2>2, <2>3, <3>1, <1>submit, <1>types, <1>goes, <1>pcs
  <2> QED BY <2>4, <2>5
<1>7. ASSUME NEW s \in Sender, Closes(s) \/ Withhold(s) PROVE TypeOK' /\ DrainInv'
  <2>1. /\ pc[s] = "body" /\ Ends(s, "unconfirmed")
        /\ UNCHANGED <<inputVars, quiet, waited, sleep, pipe>>
    BY <1>7 DEF Closes, Withhold
  <2>2. SubmitTyped'
    BY <1>7, <1>submit, <1>types DEF Closes, Withhold, SubmitTyped
  <2>3. Locked(s)
    BY <2>1, <1>pcs DEF Locked
  <2> QED BY <2>1, <2>2, <2>3, <1>0, <1>ends DEF Verdicts
<1>8. ASSUME NEW s \in Sender, PressEnter(s) \/ PressAgain(s) PROVE TypeOK' /\ DrainInv'
  <2>1. PICK p \in {"enter", "again"} :
          /\ pc[s] \in {"body", "enter"} /\ Goes(s, p) /\ pipe' = Enter(s)
          /\ UNCHANGED <<inputVars, quiet, waited, sleep, lineVars, sendMu, told, submitVars, ahead>>
    BY <1>8 DEF PressEnter, PressAgain, SubmitKey
  <2>2. Locked(s)
    BY <2>1, <1>pcs DEF Locked
  <2>3. pipe' \in Piped
    BY <2>1 DEF Piped
  <2> QED BY <2>1, <2>2, <2>3, <1>0, <1>submit, <1>goes, <1>pcs
<1>9. ASSUME NEW s \in Sender, Sent(s) PROVE TypeOK' /\ DrainInv'
  <2>1. PICK v \in Verdicts : /\ pc[s] \in {"enter", "again"} /\ Ends(s, v)
                              /\ UNCHANGED <<inputVars, quiet, waited, sleep, pipe>>
    BY <1>9 DEF Sent, Verdicts
  <2>2. SubmitTyped'
    <3>1. UNCHANGED submitVars \/ KeepUnknown(s) \/ (Reported(s) /\ UNCHANGED <<pending, unknown, eye>>)
      BY <1>9 DEF Sent
    <3>2. CASE KeepUnknown(s)
      BY <3>2, <1>types DEF KeepUnknown, SubmitTyped
    <3>3. CASE Reported(s) /\ UNCHANGED <<pending, unknown, eye>>
      BY <3>3, <1>types, ReportedSo DEF SubmitTyped
    <3> QED BY <3>1, <3>2, <3>3, <1>submit
  <2>3. Locked(s)
    BY <2>1, <1>pcs DEF Locked
  <2> QED BY <2>1, <2>2, <2>3, <1>0, <1>ends
<1>10. CASE Resolve
  <2>1. UNCHANGED <<inputVars, quiet, waited, pc, sleep, lineVars, sendMu, told, ahead>>
    BY <1>10 DEF Resolve, Hook, SweepReads, SweepReports
  <2>2. SubmitTyped' /\ pipe' \in Piped \cup {NoItem}
    <3>1. CASE SweepReads
      BY <3>1, <1>types DEF SweepReads, SubmitTyped
    <3>2. CASE SweepReports /\ LeavesIt
      BY <3>2, <1>types DEF SweepReports, LeavesIt, SubmitTyped
    <3>3. ASSUME NEW s \in Sender, SubmitsLate(s) \/ GivesUp(s), eye' \in {eye, NoItem}
          PROVE  SubmitTyped' /\ pipe' \in Piped \cup {NoItem}
      <4>1. /\ pending' = NoItem /\ unknown' = FALSE /\ lines' \in [Sender -> 0 .. 2]
            /\ pipe' = pipe \/ pipe' = Key
        BY <3>3, ResolvesSo
      <4> QED BY <4>1, <3>3, <1>types DEF SubmitTyped, Piped
    <3>4. CASE Hook
      BY <3>3, <3>4, <1>types DEF Hook, SubmitTyped
    <3>5. CASE SweepReports /\ ~LeavesIt
      BY <3>3, <3>5, <1>types DEF SweepReports, SubmitTyped
    <3> QED BY <3>1, <3>2, <3>4, <3>5, <1>10 DEF Resolve
  <2> QED BY <2>1, <2>2, <1>0, <1>types DEF TypeOK, Locked, SubmitTyped
<1>11. CASE OperatorKey
  <2>1. pipe' = Key /\ quiet' = 0
    BY <1>11 DEF OperatorKey
  <2>2. pipe' \in Piped /\ quiet' \in 0 .. Quiet
    BY <2>1, <1>consts DEF Piped
  <2> QED BY <1>11, <2>2, <1>0, <1>types DEF OperatorKey, TypeOK, Locked, SubmitTyped
<1>12. CASE ResponseLoop
  <2>1. Push(pipe) /\ pipe' = NoItem /\ pipe \in Items
    BY <1>12, <1>types, PipedIs DEF ResponseLoop
  <2>2. InputTypeOK' /\ DrainInv'
    BY <2>1, <1>types, PushStays
  <2> QED BY <1>12, <2>1, <2>2, <1>types DEF ResponseLoop, TypeOK, Locked, SubmitTyped
<1>13. CASE FlushPaste
  <2>1. InputTypeOK' /\ DrainInv'
    BY <1>13, <1>types, Names, PushStays DEF FlushPaste
  <2> QED BY <1>13, <2>1, <1>types DEF FlushPaste, TypeOK, Locked, SubmitTyped
<1>14. CASE MarkClosing
  <2>1. InputTypeOK' /\ DrainInv'
    BY <1>14, <1>types, CloseStays DEF MarkClosing
  <2> QED BY <1>14, <2>1, <1>types DEF MarkClosing, TypeOK, Locked, SubmitTyped
<1>15. CASE Passes
  <2>1. quiet' \in 0 .. Quiet
    BY <1>15, <1>types, <1>consts DEF Passes, Lesser
  <2>2. waited' \in [Sender -> 0 .. Longest + 1]
    BY <1>15, <1>types, <1>consts DEF Passes, Lesser
  <2>3. sleep' \in [Sender -> 0 .. Lesser(Quiet, Longest)]
    <3>1. Lesser(Quiet, Longest) \in Nat
      BY <1>consts DEF Lesser
    <3>2. \A s \in Sender : pc[s] = "sleep" => sleep[s] # 0
      BY <1>15 DEF Passes, Looks
    <3> QED BY <3>1, <3>2, <1>15, <1>types DEF Passes
  <2> QED BY <1>15, <2>1, <2>2, <2>3, <1>0, <1>types DEF Passes, TypeOK, Locked, SubmitTyped
<1>16. CASE Input
  <2>1. \A s \in Sender : drain.at = "clear" /\ Held(s) => drain.r = landed[s]
    BY DEF BodyInv
  <2>2. InputTypeOK' /\ DrainInv'
    <3>1. CASE Take
      BY <3>1, <1>types, TakeStays
    <3>2. CASE WriteEnds
      BY <3>2, <1>types, WriteEndsStays
    <3>3. CASE Unwedge
      BY <3>3, <2>1, <1>types, UnwedgeStays DEF Unwedge
    <3> QED BY <3>1, <3>2, <3>3, <1>16 DEF Input, DrainInput
  <2> QED BY <1>16, <2>2, <1>types DEF Input, TypeOK, Locked, SubmitTyped
<1>17. CASE UNCHANGED vars
  BY <1>17, <1>0, <1>types DEF vars, TypeOK, Locked, SubmitTyped
<1> QED BY <1>1, <1>2, <1>3, <1>4, <1>5, <1>6, <1>7, <1>8, <1>9, <1>10, <1>11, <1>12, <1>13, <1>14,
           <1>15, <1>16, <1>17
     DEF Next, Send, Presses

-----------------------------------------------------------------------------
(* The line. *)

\* A send that ends had the turn, or none.
LEMMA LineEnds ==
    ASSUME TypeOK, LineInv, NEW s \in Sender, pc[s] = "lock" \/ Locked(s),
           NEW v \in Verdicts, Ends(s, v)
    PROVE  LineInv'
<1> USE DEF NoTicket
<1>1. /\ pc'[s] = "done" /\ \A t \in Sender \ {s} : pc'[t] = pc[t]
      /\ ahead'[s] = {} /\ \A t \in Sender \ {s} : ahead'[t] = ahead[t]
      /\ ticket[s] \in {NoTicket, serving} /\ Served(s)
  BY EndsSo
<1>2. /\ ticket'[s] = NoTicket /\ \A t \in Sender \ {s} : ticket'[t] = ticket[t]
      /\ \A t \in Sender : ticket'[t] # NoTicket => ticket'[t] >= serving'
      /\ serving' = serving \/ (ticket[s] # NoTicket /\ \A t \in Sender \ {s} : ticket[t] # serving)
  BY <1>1, ServedSo
<1>types. /\ ahead \in [Sender -> SUBSET Sender] /\ \A t \in Sender : ticket[t] \in Nat
          /\ serving \in Nat /\ serving # NoTicket
  BY DEF TypeOK
<1> SUFFICES ASSUME NEW t \in Sender
             PROVE  /\ pc'[t] = "new" => ticket'[t] = NoTicket /\ ahead'[t] = {}
                    /\ pc'[t] = "line" => ticket'[t] # NoTicket
                    /\ pc'[t] = "sleep" => ticket'[t] = serving'
                    /\ (pc[t] = "lock" \/ Locked(t))' => ticket'[t] \in {NoTicket, serving'}
                    /\ pc'[t] = "done" => ticket'[t] = NoTicket /\ ahead'[t] = {}
                    /\ \A u \in Sender : ticket'[t] = ticket'[u] /\ ticket'[t] # NoTicket => t = u
                    /\ \A a \in ahead'[t] : pc'[a] = "done" \/ Standing(a, t)'
  BY <1>2 DEF LineInv
<1>3. CASE t = s
  BY <1>1, <1>2, <1>3 DEF Locked, LockPcs
<1>4. CASE t # s
  <2>1. pc'[t] = pc[t] /\ ahead'[t] = ahead[t] /\ Locked(t)' = Locked(t) /\ ticket'[t] = ticket[t]
    BY <1>1, <1>2, <1>4 DEF Locked
  <2>2. /\ pc[t] = "new" => ticket[t] = NoTicket /\ ahead[t] = {}
        /\ pc[t] = "line" => ticket[t] # NoTicket
        /\ pc[t] = "sleep" => ticket[t] = serving
        /\ pc[t] = "lock" \/ Locked(t) => ticket[t] \in {NoTicket, serving}
        /\ pc[t] = "done" => ticket[t] = NoTicket /\ ahead[t] = {}
    BY DEF LineInv
  <2>3. serving' = serving \/ ticket[t] # serving
    BY <1>2, <1>4
  <2>4. \A u \in Sender : ticket'[t] = ticket'[u] /\ ticket'[t] # NoTicket => t = u
    BY <1>2, <2>1 DEF LineInv
  <2>5. ASSUME NEW a \in ahead'[t] PROVE pc'[a] = "done" \/ Standing(a, t)'
    <3>1. a \in Sender /\ (pc[a] = "done" \/ Standing(a, t))
      BY <2>1, <2>5, <1>types DEF LineInv
    <3>2. CASE a = s
      BY <3>2, <1>1
    <3>3. CASE a # s
      BY <3>1, <3>3, <2>1, <1>1, <1>2 DEF Standing
    <3> QED BY <3>2, <3>3
  <2> QED BY <2>1, <2>2, <2>3, <2>4, <2>5
<1> QED BY <1>3, <1>4

\* A send that goes on past the line.
LEMMA LineGoes ==
    ASSUME TypeOK, LineInv, NEW s \in Sender, NEW p \in LockPcs,
           pc[s] = "lock" \/ Locked(s), Goes(s, p), UNCHANGED lineVars, UNCHANGED ahead
    PROVE  LineInv'
<1>1. p \in Pcs /\ p # "done" /\ p \notin {"new", "line", "sleep"} /\ pc[s] # "done"
  BY DEF Pcs, LockPcs, Locked
<1>2. pc'[s] = p /\ \A t \in Sender \ {s} : pc'[t] = pc[t]
  BY <1>1, GoesTo
<1>3. \A t \in Sender : \A a \in ahead[t] : a \in Sender
  BY DEF TypeOK
<1>4. \A a \in Sender : pc[a] = "done" => pc'[a] = "done"
  BY <1>1, <1>2
<1>5. \A t \in Sender : (pc[t] = "lock" \/ Locked(t))' => pc[t] = "lock" \/ Locked(t)
  BY <1>2 DEF Locked
<1> QED BY <1>1, <1>2, <1>3, <1>4, <1>5 DEF LineInv, lineVars, Standing

LEMMA LineStays == TypeOK /\ LineInv /\ [Next]_vars => LineInv'
<1> SUFFICES ASSUME TypeOK, LineInv, [Next]_vars PROVE LineInv'
  OBVIOUS
<1> USE DEF NoTicket, lineVars, holdVars
<1>types. /\ next \in Nat /\ serving \in 1 .. next /\ ticket \in [Sender -> 0 .. next - 1]
          /\ ahead \in [Sender -> SUBSET Sender] /\ pc \in [Sender -> Pcs]
  BY DEF TypeOK
<1>0. ASSUME UNCHANGED <<pc, ahead>>, UNCHANGED lineVars PROVE LineInv'
  BY <1>0 DEF LineInv, Locked, Standing
<1>1. ASSUME NEW s \in Sender, Arrive(s) PROVE LineInv'
  <2>1. pc[s] = "new" /\ ticket[s] = NoTicket
    BY <1>1 DEF Arrive, LineInv
  <2>2. /\ ahead'[s] = {a \in Sender : InLine(a)}
        /\ \A t \in Sender \ {s} : ahead'[t] = ahead[t]
    BY <1>1, <1>types DEF Arrive
  <2>3. \A a \in Sender : InLine(a) => ticket[a] # NoTicket /\ ticket[a] < next /\ next # serving
    BY <1>types DEF InLine
  <2>4. CASE Goes(s, "lock") /\ UNCHANGED lineVars /\ next = serving
    <3>1. pc'[s] = "lock" /\ \A t \in Sender \ {s} : pc'[t] = pc[t]
      BY <2>4, <1>types DEF Goes
    <3>2. ahead'[s] = {}
      BY <2>2, <2>3, <2>4
    <3>3. \A t \in Sender : \A a \in ahead'[t] : pc'[a] = "done" \/ Standing(a, t)'
      BY <2>1, <2>2, <2>4, <3>1, <3>2, <1>types DEF LineInv, Standing
    <3> QED BY <2>1, <2>2, <2>4, <3>1, <3>2, <3>3, <1>types DEF LineInv, Locked
  <2>5. CASE /\ ticket' = [ticket EXCEPT ![s] = next] /\ next' = next + 1
             /\ Goes(s, "line") /\ UNCHANGED serving
    <3>1. pc'[s] = "line" /\ \A t \in Sender \ {s} : pc'[t] = pc[t]
      BY <2>5, <1>types DEF Goes
    <3>2. ticket'[s] = next /\ \A t \in Sender \ {s} : ticket'[t] = ticket[t] /\ ticket[t] # next
      BY <2>5, <1>types
    <3>3. \A a \in ahead'[s] : Standing(a, s)'
      BY <2>1, <2>2, <2>3, <3>2 DEF Standing
    <3>4. ASSUME NEW t \in Sender \ {s}
          PROVE  \A a \in ahead'[t] : pc'[a] = "done" \/ Standing(a, t)'
      <4>1. \A a \in ahead[t] : a \in Sender /\ (pc[a] = "done" \/ Standing(a, t))
        BY <1>types DEF LineInv
      <4>2. \A a \in ahead[t] : a # s
        BY <4>1, <2>1 DEF Standing
      <4> QED BY <4>1, <4>2, <2>2, <3>1, <3>2 DEF Standing
    <3>5. \A t, u \in Sender : ticket'[t] = ticket'[u] /\ ticket'[t] # NoTicket => t = u
      BY <3>2 DEF LineInv
    <3>6. ASSUME NEW t \in Sender
          PROVE  /\ ticket'[t] # NoTicket => ticket'[t] >= serving'
                 /\ pc'[t] = "new" => ticket'[t] = NoTicket /\ ahead'[t] = {}
                 /\ pc'[t] = "line" => ticket'[t] # NoTicket
                 /\ pc'[t] = "sleep" => ticket'[t] = serving'
                 /\ (pc[t] = "lock" \/ Locked(t))' => ticket'[t] \in {NoTicket, serving'}
                 /\ pc'[t] = "done" => ticket'[t] = NoTicket /\ ahead'[t] = {}
      <4>1. CASE t = s
        BY <4>1, <3>1, <3>2, <2>5, <1>types DEF Locked, LockPcs
      <4>2. CASE t # s
        BY <4>2, <3>1, <3>2, <2>2, <2>5 DEF Locked, LineInv
      <4> QED BY <4>1, <4>2
    <3> QED BY <3>3, <3>4, <3>5, <3>6 DEF LineInv
  <2> QED BY <2>4, <2>5, <1>1 DEF Arrive
<1>2. ASSUME NEW s \in Sender, Look(s) PROVE LineInv'
  <2>1. PICK p \in {"lock", "sleep"} : Goes(s, p)
    BY <1>2 DEF Look, Out, Sleeps
  <2>2. pc'[s] = p /\ \A t \in Sender \ {s} : pc'[t] = pc[t]
    BY <2>1, <1>types DEF Goes
  <2>3. ticket[s] = serving
    BY <1>2 DEF Look, Looks, LineInv
  <2>4. UNCHANGED lineVars /\ UNCHANGED ahead /\ pc[s] \in {"line", "sleep"}
    BY <1>2 DEF Look, Looks
  <2>5. \A t \in Sender : \A a \in ahead'[t] : pc'[a] = "done" \/ Standing(a, t)'
    <3>1. \A t \in Sender : \A a \in ahead[t] : a \in Sender /\ (pc[a] = "done" \/ Standing(a, t))
      BY <1>types DEF LineInv
    <3> QED BY <3>1, <2>2, <2>4 DEF Standing
  <2> QED BY <2>2, <2>3, <2>4, <2>5 DEF LineInv, Locked, LockPcs
<1>3. ASSUME NEW s \in Sender, Lock(s) \/ Settle(s) \/ WriteBody(s) \/ Answer(s) \/ Closes(s)
                               \/ Withhold(s) \/ PressEnter(s) \/ PressAgain(s) \/ Sent(s)
      PROVE LineInv'
  <2>1. pc[s] = "lock" \/ Locked(s)
    BY <1>3 DEF Lock, Settle, WriteBody, Answer, Closes, Withhold, PressEnter, PressAgain, Sent,
                Locked, LockPcs
  <2>2. \/ \E v \in Verdicts : Ends(s, v)
        \/ /\ UNCHANGED lineVars /\ UNCHANGED ahead
           /\ \E p \in LockPcs : Goes(s, p)
    <3> USE DEF LockPcs, Verdicts
    <3>1. CASE Lock(s)
      BY <3>1 DEF Lock
    <3>2. CASE Settle(s) \/ PressEnter(s) \/ PressAgain(s)
      BY <3>2 DEF Settle, PressEnter, PressAgain
    <3>3. CASE WriteBody(s)
      BY <3>3 DEF WriteBody
    <3>4. CASE Answer(s)
      BY <3>4 DEF Answer
    <3>5. CASE Closes(s) \/ Withhold(s)
      BY <3>5 DEF Closes, Withhold
    <3>6. CASE Sent(s)
      BY <3>6 DEF Sent
    <3> QED BY <3>1, <3>2, <3>3, <3>4, <3>5, <3>6, <1>3
  <2> QED BY <2>1, <2>2, LineEnds, LineGoes
<1>4. CASE UNCHANGED <<pc, ahead>> /\ UNCHANGED lineVars
  BY <1>4, <1>0
<1> QED BY <1>1, <1>2, <1>3, <1>4
     DEF Next, Send, Presses, Resolve, Hook, SweepReads, SweepReports, Input, OperatorKey,
         ResponseLoop, FlushPaste, MarkClosing, Passes, vars

\* A message that arrived while another stood in the line is not written while
\* that one waits.
LEMMA LineKeepsOrder == LineInv /\ TypeOK => NothingOvertakes
<1> SUFFICES ASSUME LineInv, TypeOK, NEW s \in Sender, NEW a \in ahead[s], Locked(s), pc[a] # "done"
             PROVE  FALSE
  BY DEF NothingOvertakes
<1>1. a \in Sender /\ ticket[a] # NoTicket /\ ticket[a] < ticket[s]
  BY DEF LineInv, TypeOK, Standing
<1>2. /\ ticket[s] \in {NoTicket, serving} /\ ticket[a] >= serving
      /\ ticket[a] \in Nat /\ ticket[s] \in Nat /\ serving \in Nat
  BY <1>1 DEF LineInv, TypeOK
<1> QED BY <1>1, <1>2 DEF NoTicket

-----------------------------------------------------------------------------
(* The bodies. *)

\* A send whose place and input did not change in a way that concerns its body.
LEMMA BodySame ==
    ASSUME NEW t \in Sender, BodyInv(t),
           pc'[t] = pc[t] \/ (pc[t] \in Early /\ pc'[t] \in Early),
           told'[t] = told[t], out'[t] = out[t], landed'[t] = landed[t],
           InQ(t)' <=> InQ(t), Held(t)' <=> Held(t), Held(t) => drain' = drain
    PROVE  BodyInv(t)'
BY DEF BodyInv, Early

\* A send that ends before any of its body is queued.
LEMMA BodyUnsent ==
    ASSUME NEW s \in Sender, BodyInv(s), pc[s] \in Early, pc'[s] = "done", told'[s] = "deferred",
           out'[s] = out[s], landed'[s] = landed[s], InQ(s)' <=> InQ(s), Held(s)' <=> Held(s)
    PROVE  BodyInv(s)'
BY DEF BodyInv, Early

LEMMA BodyStays ==
    ASSUME TypeOK, DrainInv, LineInv, Once, \A t \in Sender : BodyInv(t), [Next]_vars, NEW t \in Sender
    PROVE  BodyInv(t)'
<1> USE DEF inputVars, holdVars
<1>types. /\ InputTypeOK /\ pc \in [Sender -> Pcs] /\ BodyInv(t) /\ pipe \in Piped \cup {NoItem}
          /\ told \in [Sender -> Verdicts \cup {"none"}]
          /\ out \in [Sender -> Outcomes \cup {"none"}] /\ landed \in [Sender -> Outcomes]
  <2>1. told \in [Sender -> Verdicts \cup {"none"}]
    BY DEF TypeOK, Verdicts
  <2> QED BY <2>1 DEF TypeOK, InputTypeOK
<1>0. UNCHANGED inputVars => UNCHANGED <<q, drain, out, landed>> /\ (InQ(t)' <=> InQ(t)) /\ (Held(t)' <=> Held(t))
  BY DEF InQ, Held, Busy
<1>other. ASSUME NEW s \in Sender, s # t, NEW v \in Verdicts, Ends(s, v)
          PROVE  pc'[t] = pc[t] /\ told'[t] = told[t]
  BY <1>other, <1>types DEF Ends, Goes
<1>goes. ASSUME NEW s \in Sender, NEW p \in Pcs, Goes(s, p)
         PROVE  pc'[t] = IF s = t THEN p ELSE pc[t]
  BY <1>goes, GoesTo
<1>pcs. Early \cup {"wait", "body", "enter", "again", "done"} \subseteq Pcs
  BY DEF Pcs, LockPcs, Early
<1>1. ASSUME NEW s \in Sender, Arrive(s) \/ Look(s) PROVE BodyInv(t)'
  <2>1. PICK p \in {"lock", "line", "sleep"} : Goes(s, p)
    BY <1>1 DEF Arrive, Look, Out, Sleeps
  <2>2. pc[s] \in Early /\ UNCHANGED inputVars /\ UNCHANGED told
    BY <1>1 DEF Arrive, Look, Looks, Early
  <2>3. pc'[t] = pc[t] \/ (pc[t] \in Early /\ pc'[t] \in Early)
    BY <2>1, <2>2, <1>goes, <1>pcs DEF Early
  <2> QED BY <2>2, <2>3, <1>0, <1>types, BodySame
<1>2. ASSUME NEW s \in Sender, Lock(s) PROVE BodyInv(t)'
  <2>1. pc[s] = "lock" /\ UNCHANGED inputVars
    BY <1>2 DEF Lock
  <2>2. CASE Ends(s, "deferred")
    <3>1. CASE s = t
      <4>1. pc'[t] = "done" /\ told'[t] = "deferred" /\ pc[t] \in Early
        BY <2>1, <2>2, <3>1, EndsSo DEF Early, Verdicts
      <4> QED BY <4>1, <2>1, <1>0, <1>types, BodyUnsent
    <3>2. CASE s # t
      BY <3>2, <2>1, <2>2, <1>other, <1>0, <1>types, BodySame DEF Verdicts
    <3> QED BY <3>1, <3>2
  <2>3. CASE ~Ends(s, "deferred")
    <3>1. PICK p \in {"write", "settle"} : Goes(s, p) /\ UNCHANGED told
      BY <2>3, <1>2 DEF Lock
    <3>2. pc'[t] = pc[t] \/ (pc[t] \in Early /\ pc'[t] \in Early)
      BY <2>1, <3>1, <1>goes, <1>pcs DEF Early
    <3> QED BY <2>1, <3>1, <3>2, <1>0, <1>types, BodySame
  <2> QED BY <2>2, <2>3
<1>3. ASSUME NEW s \in Sender, WriteBody(s) PROVE BodyInv(t)'
  <2>1. pc[s] = "write" /\ Push(Body(s)) /\ Body(s) \in Items
    BY <1>3, Names DEF WriteBody
  <2>2. /\ Held(t)' <=> Held(t)
        /\ s # t => (InQ(t)' <=> InQ(t))
        /\ Fits /\ s = t => InQ(t)'
        /\ ~Fits => (InQ(t)' <=> InQ(t))
    BY <2>1, <1>types, Names, PushBodies
  <2>3. UNCHANGED <<out, landed>> /\ (Held(t) => drain' = drain)
    BY <2>1, <1>types, PushStays DEF Held
  <2>4. CASE Fits
    <3>1. Goes(s, "wait") /\ UNCHANGED told
      BY <2>4, <1>3 DEF WriteBody
    <3>2. CASE s = t
      <4>1. pc'[t] = "wait" /\ InQ(t)' /\ pc[t] = "write"
        BY <2>1, <2>2, <2>4, <3>1, <3>2, <1>goes, <1>pcs
      <4> QED BY <4>1, <2>2, <2>3, <3>1, <1>types DEF BodyInv, Early
    <3>3. CASE s # t
      <4>1. pc'[t] = pc[t]
        BY <3>1, <3>3, <1>goes, <1>pcs
      <4> QED BY <4>1, <2>2, <2>3, <3>1, <3>3, <1>types, BodySame
    <3> QED BY <3>2, <3>3
  <2>5. CASE ~Fits
    <3>0. Ends(s, "deferred")
      BY <2>5, <1>3 DEF WriteBody
    <3>1. CASE s = t
      <4>1. pc'[t] = "done" /\ told'[t] = "deferred" /\ pc[t] \in Early
        BY <2>1, <3>0, <3>1, EndsSo DEF Early, Locked, LockPcs, Verdicts
      <4> QED BY <4>1, <2>2, <2>3, <2>5, <1>types, BodyUnsent
    <3>2. CASE s # t
      BY <3>0, <3>2, <2>2, <2>3, <1>other, <1>types, BodySame DEF Verdicts
    <3> QED BY <3>1, <3>2
  <2> QED BY <2>4, <2>5
<1>4. ASSUME NEW s \in Sender, Answer(s) PROVE BodyInv(t)'
  <2>0. pc[s] = "wait"
    BY <1>4 DEF Answer
  \* What the writer, or the sender giving up, made of its body.
  <2>1. /\ UNCHANGED <<drain, landed>> /\ (Held(t)' <=> Held(t))
        /\ s # t => out'[t] = out[t] /\ (InQ(t)' <=> InQ(t))
        /\ s = t => \/ out[t] # "none" /\ out'[t] = out[t] /\ ~InQ(t)' /\ ~Held(t)
                    \/ out'[t] = "notReached" /\ ~InQ(t)' /\ ~Held(t) /\ landed[t] = "notReached"
                    \/ out'[t] = "partial" /\ ~InQ(t)' /\ Held(t) /\ out[t] = "none"
    <3>1. CASE out[s] # "none" /\ UNCHANGED inputVars
      BY <3>1, <1>0, <1>types, <2>0 DEF BodyInv
    <3>2. CASE out[s] = "none" /\ Recallable(s) /\ Abandon(s)
      <4>1. /\ UNCHANGED <<drain, landed>> /\ Shrinks
            /\ out' = [out EXCEPT ![s] = IF InQ(s) THEN "notReached" ELSE "partial"]
            /\ InQ(s) \/ Held(s)
            /\ ~InQ(s)'
            /\ \A i \in DOMAIN q : q[i] # Body(s) => \E j \in DOMAIN q' : q'[j] = q[i]
        BY <3>2, <1>types, AbandonStays
      <4>2. Held(t)' <=> Held(t)
        BY <4>1 DEF Held, Busy
      <4>3. s # t => (InQ(t)' <=> InQ(t))
        <5> SUFFICES ASSUME s # t PROVE InQ(t)' <=> InQ(t)
          OBVIOUS
        <5>1. InQ(t) => InQ(t)'
          BY <4>1, Names DEF InQ
        <5>2. InQ(t)' => InQ(t)
          BY <4>1 DEF InQ, Shrinks
        <5> QED BY <5>1, <5>2
      <4>4. s = t => \/ out'[t] = "notReached" /\ ~Held(t) /\ landed[t] = "notReached"
                     \/ out'[t] = "partial" /\ Held(t) /\ out[t] = "none"
        BY <3>2, <4>1, <1>types DEF BodyInv
      <4> QED BY <4>1, <4>2, <4>3, <4>4, <1>types
    <3> QED BY <3>1, <3>2, <1>4 DEF Answer
  <2>2. CASE out'[s] = "written" /\ ~closed
    <3>1. Goes(s, "body") /\ UNCHANGED told
      BY <2>2, <1>4 DEF Answer
    <3>2. CASE s = t
      <4>1. pc'[t] = "body" /\ out'[t] = "written" /\ landed'[t] = "written" /\ ~InQ(t)' /\ ~Held(t)' /\ told'[t] = "none"
        BY <2>0, <2>1, <2>2, <3>1, <3>2, <1>goes, <1>pcs, <1>types DEF BodyInv
      <4> QED BY <4>1 DEF BodyInv, Early
    <3>3. CASE s # t
      <4>1. pc'[t] = pc[t]
        BY <3>1, <3>3, <1>goes, <1>pcs
      <4> QED BY <4>1, <2>1, <3>1, <3>3, <1>types, BodySame
    <3> QED BY <3>2, <3>3
  <2>3. CASE ~(out'[s] = "written" /\ ~closed)
    <3>1. Ends(s, IF out'[s] = "notReached" THEN "deferred" ELSE "unconfirmed")
      BY <2>3, <1>4 DEF Answer
    <3>2. CASE s = t
      <4>1. pc'[t] = "done" /\ told'[t] = IF out'[t] = "notReached" THEN "deferred" ELSE "unconfirmed"
        BY <2>0, <3>1, <3>2, EndsSo DEF Locked, LockPcs, Verdicts
      <4>2. landed'[t] = landed[t] /\ landed[t] \in Outcomes
        BY <2>1, <1>types
      <4> QED BY <4>1, <4>2, <2>0, <2>1, <2>3, <3>2, <1>types DEF BodyInv, Held, Early
    <3>3. CASE s # t
      BY <3>1, <3>3, <2>1, <1>other, <1>types, BodySame DEF Verdicts
    <3> QED BY <3>2, <3>3
  <2> QED BY <2>2, <2>3
<1>5. ASSUME NEW s \in Sender, Closes(s) \/ Withhold(s) \/ PressEnter(s) \/ PressAgain(s) \/ Sent(s)
      PROVE  BodyInv(t)'
  <2>1. UNCHANGED inputVars /\ pc[s] \in {"body", "enter", "again"}
    BY <1>5 DEF Closes, Withhold, PressEnter, PressAgain, Sent
  <2>2. CASE \E v \in Verdicts \ {"deferred"} : Ends(s, v)
    <3>1. CASE s = t
      <4>1. pc'[t] = "done" /\ told'[t] # "deferred"
        BY <2>1, <2>2, <3>1, EndsSo DEF Locked, LockPcs
      <4> QED BY <4>1, <2>1, <3>1, <1>0, <1>types DEF BodyInv, Early
    <3>2. CASE s # t
      BY <3>2, <2>1, <2>2, <1>other, <1>0, <1>types, BodySame
    <3> QED BY <3>1, <3>2
  <2>3. CASE \E p \in {"enter", "again"} : Goes(s, p) /\ UNCHANGED told
    <3>1. PICK p \in {"enter", "again"} : pc'[t] = IF s = t THEN p ELSE pc[t]
      BY <2>3, <1>goes, <1>pcs
    <3> QED BY <3>1, <2>1, <2>3, <1>0, <1>types DEF BodyInv, Early
  <2>4. CASE Closes(s) \/ Withhold(s)
    BY <2>2, <2>4 DEF Closes, Withhold, Verdicts
  <2>5. CASE PressEnter(s) \/ PressAgain(s)
    BY <2>3, <2>5 DEF PressEnter, PressAgain
  <2>6. CASE Sent(s)
    BY <2>2, <2>6 DEF Sent, Verdicts
  <2> QED BY <2>4, <2>5, <2>6, <1>5
<1>6. ASSUME NEW it \in Items, Plain(it) \/ it = Paste, Push(it), UNCHANGED <<pc, told>> PROVE BodyInv(t)'
  <2>1. Body(t) # it
    BY <1>6, Names
  <2> QED BY <1>6, <2>1, <1>types, PushBodies, PushStays, BodySame DEF Held
<1>7. CASE ResponseLoop
  <2>1. pipe \in Items /\ Plain(pipe)
    BY <1>7, <1>types, PipedIs DEF ResponseLoop
  <2> QED BY <1>7, <2>1, <1>6 DEF ResponseLoop
<1>8. CASE FlushPaste
  BY <1>8, <1>6, Names DEF FlushPaste
<1>9. CASE MarkClosing
  <2>1. /\ UNCHANGED <<drain, landed, pc, told>> /\ q' = <<>>
        /\ out'[t] = IF InQ(t) THEN "notReached" ELSE out[t]
    BY <1>9, <1>types, CloseStays DEF MarkClosing
  <2>2. ~InQ(t)' /\ (Held(t)' <=> Held(t))
    BY <2>1 DEF InQ, Held, Busy
  <2> QED BY <2>1, <2>2, <1>types DEF BodyInv, Held, Early
<1>10. CASE Input
  <2>0. UNCHANGED <<pc, told>>
    BY <1>10 DEF Input
  <2>1. CASE Take
    <3>1. /\ UNCHANGED <<out, landed>> /\ ~Busy
          /\ \/ q = <<>> /\ q' = <<>> /\ drain' = Idle
             \/ /\ q # <<>> /\ q' = Tail(q) /\ drain'.at = "write" /\ drain'.it = Head(q)
                /\ Head(q) = q[1] /\ q[1] \in Items /\ 1 \in DOMAIN q
                /\ \A i \in DOMAIN q' : i + 1 \in DOMAIN q /\ q'[i] = q[i + 1] /\ 1 < i + 1
                /\ \A i \in DOMAIN q : i # 1 => i - 1 \in DOMAIN q' /\ q'[i - 1] = q[i]
      BY <2>1, <1>types, TakeStays
    <3>2. CASE q = <<>>
      <4>1. q' = <<>> /\ drain' = Idle
        BY <3>1, <3>2
      <4>2. ~InQ(t)' /\ ~InQ(t) /\ ~Held(t) /\ ~Held(t)'
        BY <3>1, <3>2, <4>1 DEF InQ, Held, Busy, Idle
      <4> QED BY <2>0, <3>1, <4>2, <1>types, BodySame
    <3>3. CASE q # <<>> /\ q[1] = Body(t)
      <4>1. drain'.at = "write" /\ Held(t)' /\ InQ(t)
        BY <3>1, <3>3 DEF InQ, Held, Busy
      <4>2. ~InQ(t)'
        <5> SUFFICES ASSUME NEW i \in DOMAIN q', q'[i] = Body(t) PROVE FALSE
          BY DEF InQ
        <5>1. i + 1 \in DOMAIN q /\ q[i + 1] = Body(t) /\ 1 < i + 1 /\ 1 \in DOMAIN q /\ DOMAIN q \subseteq Nat
          BY <3>1, <3>3, <1>types DEF InputTypeOK
        <5>2. i + 1 = 1
          BY <5>1, <3>3, Names DEF Once
        <5> QED BY <5>1, <5>2
      <4> QED BY <2>0, <3>1, <4>1, <4>2, <1>types DEF BodyInv, Early
    <3>4. CASE q # <<>> /\ q[1] # Body(t)
      <4>1. ~Held(t) /\ ~Held(t)'
        BY <3>1, <3>4 DEF Held
      <4>2. InQ(t)' => InQ(t)
        BY <3>1, <3>4 DEF InQ
      <4>3. InQ(t) => InQ(t)'
        BY <3>1, <3>4 DEF InQ
      <4> QED BY <2>0, <3>1, <4>1, <4>2, <4>3, <1>types, BodySame
    <3> QED BY <3>2, <3>3, <3>4
  <2>2. CASE WriteEnds
    <3>1. /\ UNCHANGED <<q, out>> /\ drain.at = "write" /\ drain'.at = "clear" /\ drain'.it = drain.it
          /\ landed'[t] = IF drain.it = Body(t) THEN drain'.r ELSE landed[t]
      BY <2>2, <1>types, WriteEndsStays
    <3>2. (InQ(t)' <=> InQ(t)) /\ (Held(t)' <=> Held(t)) /\ (Held(t) <=> drain.it = Body(t))
      BY <3>1 DEF InQ, Held, Busy
    <3>3. CASE Held(t)
      BY <2>0, <3>1, <3>2, <3>3, <1>types DEF BodyInv, Early
    <3>4. CASE ~Held(t)
      BY <2>0, <3>1, <3>2, <3>4, <1>types, BodySame
    <3> QED BY <3>3, <3>4
  <2>3. CASE Unwedge
    <3>0. \A s \in Sender : Held(s) => drain.r = landed[s]
      BY <2>3 DEF Unwedge, BodyInv
    <3>1. /\ UNCHANGED <<q, landed>> /\ drain'.at = "take"
          /\ out'[t] = IF Held(t) /\ out[t] = "none" THEN landed[t] ELSE out[t]
      BY <2>3, <3>0, <1>types, UnwedgeStays
    <3>2. (InQ(t)' <=> InQ(t)) /\ ~Held(t)' /\ landed[t] \in Outcomes /\ landed[t] # "none"
      BY <3>1, <1>types DEF InQ, Held, Busy, Outcomes
    <3> QED BY <2>0, <3>1, <3>2, <1>types DEF BodyInv, Early
  <2> QED BY <2>1, <2>2, <2>3, <1>10 DEF Input, DrainInput
<1>11. ASSUME NEW s \in Sender, Settle(s) PROVE BodyInv(t)'
  <2>1. pc[s] = "settle" /\ Goes(s, "write") /\ UNCHANGED inputVars /\ UNCHANGED told
    BY <1>11 DEF Settle
  <2>2. pc'[t] = pc[t] \/ (pc[t] \in Early /\ pc'[t] \in Early)
    BY <2>1, <1>goes, <1>pcs DEF Early
  <2> QED BY <2>1, <2>2, <1>0, <1>types, BodySame
<1>12. CASE UNCHANGED inputVars /\ UNCHANGED <<pc, told>>
  BY <1>12, <1>0, <1>types, BodySame
<1> QED BY <1>1, <1>2, <1>3, <1>4, <1>5, <1>7, <1>8, <1>9, <1>10, <1>11, <1>12
     DEF Next, Send, Presses, Resolve, Hook, SweepReads, SweepReports, OperatorKey, Passes, vars

-----------------------------------------------------------------------------
(* The queue. *)

\* The one body that can be queued is that of the send that holds sendMu.
LEMMA OneBody ==
    ASSUME TypeOK, \A s \in Sender : BodyInv(s), NEW s \in Sender, InQ(s) \/ After(s)
    PROVE  sendMu = s /\ pc[s] \in {"wait"} \cup Pressing
<1>1. InQ(s) => pc[s] = "wait"
  BY DEF BodyInv
<1>2. After(s) => pc[s] \in {"wait"} \cup Pressing
  BY DEF After
<1> QED BY <1>1, <1>2 DEF TypeOK, Locked, LockPcs, Pressing

LEMMA OnceShrinks ==
    ASSUME InputTypeOK, InputTypeOK', Once, Shrinks
    PROVE  Once'
<1>1. PICK f \in [DOMAIN q' -> DOMAIN q] : \A i \in DOMAIN q' :
          q'[i] = q[f[i]] /\ \A j \in DOMAIN q' : i < j => f[i] < f[j]
  BY DEF Shrinks
<1>2. DOMAIN q \subseteq Nat /\ DOMAIN q' \subseteq Nat
  BY DEF InputTypeOK
<1> SUFFICES ASSUME NEW i \in DOMAIN q', NEW j \in DOMAIN q', q'[i] = q'[j], q'[i] \in Bodies
             PROVE  i = j
  BY DEF Once
<1>3. f[i] \in DOMAIN q /\ f[j] \in DOMAIN q /\ q[f[i]] = q[f[j]] /\ q[f[i]] \in Bodies
  BY <1>1
<1>4. f[i] = f[j] /\ f[i] \in Nat
  BY <1>2, <1>3 DEF Once
<1>5. ~(i < j) /\ ~(j < i)
  BY <1>1, <1>2, <1>4
<1> QED BY <1>2, <1>5

LEMMA SameShrinks == UNCHANGED q => Shrinks
<1> SUFFICES ASSUME UNCHANGED q PROVE Shrinks
  OBVIOUS
<1>1. [i \in DOMAIN q' |-> i] \in [DOMAIN q' -> DOMAIN q]
  OBVIOUS
<1> QED BY <1>1 DEF Shrinks

LEMMA OnceGrows ==
    ASSUME InputTypeOK, InputTypeOK', Once, NEW it \in Items, Push(it), \A s \in Sender : it = Body(s) => ~InQ(s)
    PROVE  Once'
<1>1. CASE ~Fits
  BY <1>1, PushGrows DEF Once
<1>2. CASE Fits
  <2>1. Grows(it) /\ DOMAIN q' \subseteq Nat /\ \A i \in DOMAIN q : i \in DOMAIN q' /\ q'[i] = q[i]
    BY <1>2, PushGrows DEF InputTypeOK
  <2>2. it \in Bodies => \A i \in DOMAIN q : q[i] # it
    BY Names DEF InQ
  <2> SUFFICES ASSUME NEW i \in DOMAIN q', NEW j \in DOMAIN q', q'[i] = q'[j], q'[i] \in Bodies
               PROVE  i = j
    BY DEF Once
  <2>3. CASE i \in DOMAIN q /\ j \in DOMAIN q
    BY <2>1, <2>3 DEF Once
  <2>4. CASE i \notin DOMAIN q /\ j \notin DOMAIN q
    <3>1. i <= j /\ j <= i
      BY <2>1, <2>4 DEF Grows
    <3> QED BY <3>1, <2>1
  <2>5. CASE ~(i \in DOMAIN q <=> j \in DOMAIN q)
    BY <2>1, <2>2, <2>5 DEF Grows
  <2> QED BY <2>3, <2>4, <2>5
<1> QED BY <1>1, <1>2

LEMMA StuckPush ==
    ASSUME TypeOK, DrainInv, Once, Stuck, \A s \in Sender : BodyInv(s), NEW it \in Items, Push(it)
    PROVE  Stuck'
<1>1. InputTypeOK
  BY DEF TypeOK
<1>2. Busy' = Busy /\ closed' = closed
  BY <1>1, PushStays
<1>3. CASE Fits
  BY <1>1, <1>2, <1>3, PushGrows DEF Stuck
<1>4. CASE ~Fits
  <2>1. UNCHANGED q
    BY <1>1, <1>4, PushGrows
  <2>2. CASE closed
    BY <2>2, <1>2 DEF Stuck
  <2>3. CASE ~closed
    <3>1. 1 \in DOMAIN q /\ 2 \in DOMAIN q
      BY <1>1, <1>4, <2>3, CapAssumption DEF Fits, InputTypeOK
    <3>2. ~(q[1] \in Bodies /\ q[2] \in Bodies)
      <4> SUFFICES ASSUME q[1] \in Bodies, q[2] \in Bodies PROVE FALSE
        OBVIOUS
      <4>1. PICK s \in Sender, t \in Sender : q[1] = Body(s) /\ q[2] = Body(t)
        BY Names
      <4>2. s = t
        BY <3>1, <4>1, OneBody DEF InQ
      <4> QED BY <3>1, <4>1, <4>2 DEF Once
    <3> QED BY <2>1, <3>1, <3>2 DEF Stuck
  <2> QED BY <2>2, <2>3
<1> QED BY <1>3, <1>4

LEMMA QueueStays ==
    ASSUME TypeOK, DrainInv, Once, Stuck, \A s \in Sender : BodyInv(s), [Next]_vars, InputTypeOK'
    PROVE  Once' /\ Stuck'
<1> USE DEF inputVars, holdVars
<1>types. InputTypeOK /\ pipe \in Piped \cup {NoItem}
  BY DEF TypeOK
<1>1. CASE UNCHANGED inputVars
  BY <1>1 DEF Once, Stuck, Busy
<1>2. ASSUME NEW s \in Sender, WriteBody(s) PROVE Once' /\ Stuck'
  <2>1. Push(Body(s)) /\ Body(s) \in Items /\ pc[s] = "write"
    BY <1>2, Names DEF WriteBody
  <2>2. \A t \in Sender : Body(s) = Body(t) => ~InQ(t)
    BY <2>1, Names DEF BodyInv, Early
  <2> QED BY <2>1, <2>2, <1>types, OnceGrows, StuckPush
<1>3. ASSUME NEW s \in Sender, Recallable(s), Abandon(s) PROVE Once' /\ Stuck'
  <2>1. /\ Shrinks /\ UNCHANGED <<drain, closed>> /\ wedged' = (wedged \/ (Busy /\ ~closed))
        /\ \A i \in DOMAIN q : q[i] # Body(s) => \E j \in DOMAIN q' : q'[j] = q[i]
    BY <1>3, <1>types, AbandonStays
  <2>2. Stuck'
    <3> SUFFICES ASSUME wedged', ~closed', ~Busy' PROVE \E i \in DOMAIN q' : q'[i] \notin Bodies
      BY DEF Stuck
    <3>1. wedged /\ ~closed /\ ~Busy
      BY <2>1 DEF Busy
    <3>2. PICK i \in DOMAIN q : q[i] \notin Bodies
      BY <3>1 DEF Stuck
    <3>3. q[i] # Body(s)
      BY <3>2, Names
    <3> QED BY <2>1, <3>2, <3>3
  <2> QED BY <2>1, <2>2, <1>types, OnceShrinks
<1>4. CASE ResponseLoop
  <2>1. pipe \in Items /\ Plain(pipe) /\ Push(pipe)
    BY <1>4, <1>types, PipedIs DEF ResponseLoop
  <2>2. \A s \in Sender : pipe # Body(s)
    BY <2>1, Names
  <2> QED BY <2>1, <2>2, <1>types, OnceGrows, StuckPush
<1>5. CASE FlushPaste
  <2>1. Paste \in Items /\ Push(Paste) /\ \A s \in Sender : Paste # Body(s)
    BY <1>5, Names DEF FlushPaste
  <2> QED BY <2>1, <1>types, OnceGrows, StuckPush
<1>6. CASE MarkClosing
  <2>1. q' = <<>> /\ closed'
    BY <1>6, <1>types, CloseStays DEF MarkClosing
  <2> QED BY <2>1, EmptyShrinks, <1>types, OnceShrinks DEF Stuck
<1>7. CASE Take
  <2>1. Shrinks /\ UNCHANGED <<closed, wedged>> /\ ~Busy /\ (q = <<>> \/ drain'.at = "write")
    BY <1>7, <1>types, TakeStays
  <2>2. q = <<>> => DOMAIN q = {}
    OBVIOUS
  <2> QED BY <2>1, <2>2, <1>types, OnceShrinks DEF Stuck, Busy
<1>8. CASE WriteEnds
  <2>1. UNCHANGED q /\ drain'.at = "clear"
    BY <1>8, <1>types, WriteEndsStays
  <2> QED BY <2>1 DEF Once, Stuck, Busy
<1>9. CASE Unwedge
  <2>1. UNCHANGED q /\ wedged' = FALSE
    BY <1>9 DEF Unwedge
  <2> QED BY <2>1 DEF Once, Stuck
<1> QED BY <1>1, <1>2, <1>3, <1>4, <1>5, <1>6, <1>7, <1>8, <1>9
     DEF Next, Send, Presses, Resolve, Arrive, Look, Lock, Settle, Answer, Closes, Withhold, PressEnter,
         PressAgain, Sent, Hook, SweepReads, SweepReports, OperatorKey, Passes, vars, Input, DrainInput

-----------------------------------------------------------------------------
(* What a sender is told, a wedge, and the type invariant, in every state. *)

LEMMA HoldInit == Init => HoldInv
<1> SUFFICES ASSUME Init PROVE HoldInv
  OBVIOUS
<1> USE DEF Init, InputInit
<1>1. /\ "new" \in Pcs /\ NoItem \notin Sender /\ "new" \notin LockPcs
      /\ Idle \in [at : {"off", "take", "write", "clear"}, it : Items \cup {NoItem},
                   r : Outcomes \cup {"none"}] /\ Idle.at = "off"
  BY Names DEF Pcs, LockPcs, Idle
<1>2. <<>> \in Seq(Items) /\ Len(<<>>) <= Cap /\ DOMAIN q = {}
  BY CapAssumption
<1>3. InputTypeOK
  BY <1>1, <1>2 DEF InputTypeOK, Outcomes
<1>4. /\ 0 \in 0 .. Lesser(Quiet, Longest) /\ Quiet \in 0 .. Quiet /\ 0 \in 0 .. Longest + 1
  BY HoldAssumption DEF Lesser
<1>5. TypeOK
  <2>1. /\ pc \in [Sender -> Pcs] /\ sendMu \in Sender \cup {NoItem}
        /\ \A s \in Sender : sendMu = s <=> Locked(s)
        /\ pipe \in Piped \cup {NoItem}
        /\ ahead \in [Sender -> SUBSET Sender]
    BY <1>1, <1>4 DEF Locked
  <2>2. /\ quiet \in 0 .. Quiet /\ waited \in [Sender -> 0 .. Longest + 1]
        /\ sleep \in [Sender -> 0 .. Lesser(Quiet, Longest)]
        /\ next \in Nat \ {0} /\ serving \in 1 .. next /\ ticket \in [Sender -> 0 .. next - 1]
    BY <1>4 DEF NoTicket
  <2>3. /\ told \in [Sender -> {"none", "delivered", "deferred", "unconfirmed", "notDelivered"}]
        /\ pending \in Sender \cup {NoItem} /\ unknown \in BOOLEAN
        /\ eye \in Sender \cup {NoItem} /\ lines \in [Sender -> 0 .. 2]
    <3>1. pending = NoItem /\ unknown = FALSE /\ eye = NoItem
      OBVIOUS
    <3>2. told = [s \in Sender |-> "none"] /\ lines = [s \in Sender |-> 0] /\ 0 \in 0 .. 2
      OBVIOUS
    <3> HIDE DEF Init, InputInit
    <3> QED BY <3>1, <3>2
  <2> QED BY <1>3, <2>1, <2>2, <2>3 DEF TypeOK
<1>6. DrainInv /\ LineInv /\ Once /\ Stuck
  BY <1>1, <1>2 DEF DrainInv, Busy, LineInv, Once, Stuck, Locked
<1>7. \A s \in Sender : BodyInv(s)
  BY <1>1, <1>2 DEF BodyInv, InQ, Held, Busy, Early
<1> QED BY <1>5, <1>6, <1>7 DEF HoldInv

LEMMA HoldStays == HoldInv /\ [Next]_vars => HoldInv'
<1> SUFFICES ASSUME HoldInv, [Next]_vars PROVE HoldInv'
  OBVIOUS
<1>1. TypeOK /\ DrainInv /\ LineInv /\ Once /\ Stuck /\ \A s \in Sender : BodyInv(s)
  BY DEF HoldInv
<1>2. TypeOK' /\ DrainInv'
  BY <1>1, TypeStays
<1>3. InputTypeOK'
  BY <1>2 DEF TypeOK
<1>4. \A s \in Sender : BodyInv(s)'
  BY <1>1, BodyStays
<1> QED BY <1>1, <1>2, <1>3, <1>4, LineStays, QueueStays DEF HoldInv

LEMMA HoldAlways == Spec => []HoldInv
BY HoldInit, HoldStays, PTL DEF Spec

\* Every variable has its type, and sendMu is held by the one send between its lock
\* and its end.
THEOREM HoldTypes == Spec => []TypeOK
<1>1. HoldInv => TypeOK
  BY DEF HoldInv
<1> QED BY <1>1, HoldAlways, PTL

-----------------------------------------------------------------------------
(* Withheld submits. *)

\* What is in the child stays in.
LEMMA WrittenLasts ==
    ASSUME HoldInv, [Next]_vars, NEW t \in Sender, landed[t] = "written"
    PROVE  landed'[t] = "written"
<1> USE DEF inputVars, holdVars
<1>0. DrainInv /\ BodyInv(t) /\ InputTypeOK
  BY DEF HoldInv, TypeOK
<1>1. CASE WriteEnds
  <2>1. drain.at = "write" /\ landed'[t] = IF drain.it = Body(t) THEN drain'.r ELSE landed[t]
    BY <1>1, <1>0, WriteEndsStays
  <2>2. drain.it # Body(t)
    BY <2>1, <1>0 DEF BodyInv, Held, Busy
  <2> QED BY <2>1, <2>2
<1>2. CASE UNCHANGED landed
  BY <1>2
<1>3. CASE UNCHANGED inputVars
  BY <1>3
<1>4. ASSUME NEW it, Push(it) PROVE UNCHANGED landed
  BY <1>4 DEF Push
<1> QED BY <1>1, <1>2, <1>3, <1>4
     DEF Next, Send, Presses, Resolve, Arrive, Look, Lock, Settle, WriteBody, Answer, Closes, Withhold,
         PressEnter, PressAgain, Sent, Hook, SweepReads, SweepReports, OperatorKey, ResponseLoop,
         FlushPaste, MarkClosing, CloseInput, Passes, vars, Input, DrainInput, Take, Unwedge, Abandon

\* A send that is over stays over, and so does its verdict.
LEMMA DoneLasts ==
    ASSUME TypeOK, [Next]_vars, NEW t \in Sender, pc[t] = "done"
    PROVE  pc'[t] = "done" /\ told'[t] = told[t]
<1> USE DEF inputVars, holdVars
<1>0. told \in [Sender -> Verdicts \cup {"none"}]
  BY DEF TypeOK, Verdicts
<1>1. ASSUME NEW s \in Sender, pc[s] # "done", NEW p \in Pcs, Goes(s, p),
             UNCHANGED told \/ \E v \in Verdicts : told' = [told EXCEPT ![s] = v]
      PROVE  pc'[t] = "done" /\ told'[t] = told[t]
  <2>1. t # s
    BY <1>1
  <2> QED BY <2>1, <1>0, <1>1, GoesTo
<1>2. ASSUME NEW s \in Sender, Arrive(s) \/ Send(s)
      PROVE  pc'[t] = "done" /\ told'[t] = told[t]
  <2>1. pc[s] # "done"
    BY <1>2 DEF Send, Presses, Arrive, Look, Looks, Lock, Settle, WriteBody, Answer, Closes, Withhold,
                PressEnter, PressAgain, Sent
  <2>2. /\ \E p \in Pcs : Goes(s, p)
        /\ UNCHANGED told \/ \E v \in Verdicts : told' = [told EXCEPT ![s] = v]
    <3> USE DEF Pcs, LockPcs, Verdicts
    <3>1. CASE Arrive(s) \/ Look(s)
      BY <3>1 DEF Arrive, Look, Out, Sleeps
    <3>2. CASE Lock(s) \/ WriteBody(s)
      BY <3>2 DEF Lock, WriteBody, Ends
    <3>3. CASE Answer(s)
      BY <3>3 DEF Answer, Ends
    <3>4. CASE Settle(s) \/ Closes(s) \/ Withhold(s) \/ PressEnter(s) \/ PressAgain(s)
      BY <3>4 DEF Settle, Closes, Withhold, PressEnter, PressAgain, Ends
    <3>5. CASE Sent(s)
      BY <3>5 DEF Sent, Ends
    <3> QED BY <3>1, <3>2, <3>3, <3>4, <3>5, <1>2 DEF Send, Presses
  <2> QED BY <1>1, <2>1, <2>2
<1>3. CASE UNCHANGED <<pc, told>>
  BY <1>3
<1> QED BY <1>2, <1>3 DEF Next, Resolve, Hook, SweepReads, SweepReports, OperatorKey, ResponseLoop,
     FlushPaste, MarkClosing, Passes, vars, Input

LEMMA SubmitInit == Init => SubmitInv
<1> SUFFICES ASSUME Init, NEW s \in Sender
             PROVE  pending # s /\ pc[s] = "new" /\ told[s] = "none" /\ lines[s] = 0
  BY DEF SubmitInv
<1> QED BY Names DEF Init

LEMMA SubmitStays == HoldInv /\ SubmitInv /\ [Next]_vars => SubmitInv'
<1> SUFFICES ASSUME HoldInv, SubmitInv, [Next]_vars PROVE SubmitInv'
  OBVIOUS
<1> USE DEF inputVars, holdVars, submitVars
<1>types. /\ TypeOK /\ LineInv /\ SubmitTyped /\ \A s \in Sender : BodyInv(s)
          /\ lines \in [Sender -> 0 .. 2]
  BY DEF HoldInv, TypeOK, SubmitTyped
<1>none. \A s \in Sender : s # NoItem
  BY Names
\* No line is said of a message whose send goes on, or that will be confirmed.
<1>less. \A t \in Sender : pc'[t] # "done" \/ told'[t] = "delivered" => lines[t] = 0
  BY <1>types, DoneLasts DEF SubmitInv
<1>stays. \A t \in Sender : pending = t => pc'[t] = "done" /\ told'[t] = "unconfirmed" /\ landed'[t] = "written"
  BY <1>types, DoneLasts, WrittenLasts DEF SubmitInv
<1>same. ASSUME pending' \in {pending, NoItem}, UNCHANGED lines PROVE SubmitInv'
  BY <1>same, <1>none, <1>less, <1>stays DEF SubmitInv
<1>resolved. ASSUME NEW s \in Sender, SubmitsLate(s) \/ GivesUp(s) PROVE SubmitInv'
  <2>1. /\ pending = s /\ pending' = NoItem
        /\ lines[s] = 0 => lines'[s] <= 1
        /\ \A t \in Sender \ {s} : lines'[t] = lines[t]
    BY <1>resolved, <1>types, ResolvesSo
  <2>2. lines[s] = 0 /\ pc'[s] = "done" /\ told'[s] = "unconfirmed"
    BY <2>1, <1>stays DEF SubmitInv
  <2>3. \A t \in Sender : pending' # t
    BY <2>1, <1>none
  <2> QED BY <2>1, <2>2, <2>3, <1>less DEF SubmitInv
\* A send that ends with its body in, and leaves it to be submitted later.
<1>kept. ASSUME NEW s \in Sender, pc[s] \in Pressing, Ends(s, "unconfirmed"), UNCHANGED lines,
                pending' \in {s, pending}
         PROVE  SubmitInv'
  <2>1. pc'[s] = "done" /\ told'[s] = "unconfirmed"
    BY <1>kept, <1>types, EndsSo DEF Locked, LockPcs, Pressing, Verdicts
  <2>2. landed'[s] = "written" /\ lines[s] = 0
    <3>1. landed[s] = "written" /\ pc[s] # "done"
      BY <1>kept, <1>types DEF BodyInv, Pressing
    <3> QED BY <3>1, WrittenLasts DEF SubmitInv
  <2> QED BY <2>1, <2>2, <1>kept, <1>less, <1>stays DEF SubmitInv
<1>1. ASSUME NEW s \in Sender, Settle(s) PROVE SubmitInv'
  <2>1. CASE LeavesIt
    BY <2>1, <1>same DEF LeavesIt
  <2>2. CASE ~LeavesIt
    BY <2>2, <1>1, <1>resolved, <1>types DEF Settle, SubmitTyped
  <2> QED BY <2>1, <2>2
<1>2. ASSUME NEW s \in Sender, Withhold(s) PROVE SubmitInv'
  BY <1>2, <1>kept DEF Withhold, Pressing
<1>3. ASSUME NEW s \in Sender, Sent(s) PROVE SubmitInv'
  <2>1. pc[s] \in {"enter", "again"}
    BY <1>3 DEF Sent
  <2>2. CASE UNCHANGED submitVars
    BY <2>2, <1>same
  <2>3. CASE Ends(s, "unconfirmed") /\ KeepUnknown(s)
    BY <2>1, <2>3, <1>kept DEF KeepUnknown, Pressing
  <2>4. CASE Ends(s, "notDelivered") /\ Reported(s) /\ UNCHANGED pending
    <3>1. pc'[s] = "done" /\ told'[s] = "notDelivered"
      BY <2>1, <2>4, <1>types, EndsSo DEF Locked, LockPcs, Verdicts
    <3>2. lines[s] = 0 /\ pending # s
      BY <2>1 DEF SubmitInv
    <3>3. lines'[s] = 1 /\ \A t \in Sender \ {s} : lines'[t] = lines[t]
      BY <2>4, <3>2, <1>types, ReportedSo
    <3>4. ASSUME NEW t \in Sender \ {s}
          PROVE  /\ pending' = t => /\ pc'[t] = "done" /\ told'[t] = "unconfirmed"
                                    /\ landed'[t] = "written" /\ lines'[t] = 0
                 /\ pc'[t] # "done" \/ told'[t] = "delivered" => lines'[t] = 0
                 /\ lines'[t] <= 1
      BY <2>4, <3>3, <1>less, <1>stays DEF SubmitInv
    <3> QED BY <2>4, <3>1, <3>2, <3>3, <3>4 DEF SubmitInv
  <2> QED BY <2>2, <2>3, <2>4, <1>3 DEF Sent
<1>4. CASE Hook
  BY <1>4, <1>resolved, <1>types DEF Hook, SubmitTyped
<1>5. CASE SweepReads
  BY <1>5, <1>same DEF SweepReads
<1>6. CASE SweepReports
  <2>1. CASE LeavesIt
    BY <2>1, <1>same DEF LeavesIt
  <2>2. CASE ~LeavesIt
    BY <2>2, <1>6, <1>resolved, <1>types DEF SweepReports, SubmitTyped
  <2> QED BY <2>1, <2>2
<1>7. CASE UNCHANGED <<pending, lines>>
  BY <1>7, <1>same
<1> QED BY <1>1, <1>2, <1>3, <1>4, <1>5, <1>6, <1>7
     DEF Next, Send, Presses, Resolve, Arrive, Look, Lock, WriteBody, Answer, Closes, PressEnter,
         PressAgain, OperatorKey, ResponseLoop, FlushPaste, MarkClosing, Passes, vars, Input

LEMMA SubmitAlways == Spec => []SubmitInv
BY SubmitInit, SubmitStays, HoldAlways, PTL DEF Spec

\* A message whose submit was withheld or kept is reported once at most, and one that
\* was confirmed or still waits is not, for any number of sends: the hook, the next
\* send and the sweep compare the field before they clear it.
THEOREM OneReportEach == Spec => []OneReport
<1>1. SubmitInv => OneReport
  BY DEF SubmitInv, OneReport
<1> QED BY <1>1, SubmitAlways, PTL

\* What a sender is told of its message is so and stays so, for any number of sends
\* and pastes, whenever its bound expires and wherever the pane closes.
THEOREM VerdictsTrue == Spec => []VerdictTrue
<1>1. HoldInv /\ SubmitInv => VerdictTrue
  <2> SUFFICES ASSUME HoldInv, SubmitInv, NEW s \in Sender
               PROVE  /\ told[s] = "deferred" => /\ landed[s] = "notReached" /\ Body(s) \notin ToSet(q)
                                                 /\ ~(drain.at = "write" /\ drain.it = Body(s))
                      /\ told[s] \in {"delivered", "notDelivered"} \/ pending = s => landed[s] = "written"
    BY DEF VerdictTrue
  <2>1. pc[s] \in Pcs /\ BodyInv(s)
    BY DEF HoldInv, TypeOK
  <2>2. told[s] # "none" => pc[s] = "done"
    BY <2>1 DEF BodyInv, Pcs, LockPcs, Early
  <2>3. pc[s] = "done" => ~InQ(s)
    BY <2>1 DEF BodyInv
  <2>4. Held(s) <=> Busy /\ drain.it = Body(s)
    BY DEF Held
  <2>5. pending = s => landed[s] = "written"
    BY DEF SubmitInv
  <2> QED BY <2>1, <2>2, <2>3, <2>4, <2>5, QueuedIs DEF BodyInv, Busy
<1> QED BY <1>1, HoldAlways, SubmitAlways, PTL

\* A wedge is over when a write ends: while one is marked there is a write to end.
THEOREM WedgesEnd == Spec => []WedgeEnds
<1>1. HoldInv => WedgeEnds
  <2> SUFFICES ASSUME HoldInv, wedged, ~closed PROVE Current # NoItem \/ (drain.at = "take" /\ q # <<>>)
    BY DEF WedgeEnds
  <2>1. DrainInv /\ Stuck /\ drain.at \in {"off", "take", "write", "clear"}
    BY DEF HoldInv, TypeOK, InputTypeOK
  <2>2. CASE Busy
    BY <2>1, <2>2, Names DEF Current, Busy, DrainInv
  <2>3. CASE ~Busy
    <3>1. q # <<>>
      BY <2>1, <2>3 DEF Stuck
    <3> QED BY <2>1, <2>3, <3>1 DEF DrainInv, Busy
  <2> QED BY <2>2, <2>3
<1> QED BY <1>1, HoldAlways, PTL

\* A message that arrived behind the line is written after those that stood in it.
THEOREM NobodyOvertakes == Spec => []NothingOvertakes
<1>1. HoldInv => NothingOvertakes
  BY LineKeepsOrder DEF HoldInv
<1> QED BY <1>1, HoldAlways, PTL

-----------------------------------------------------------------------------
(* The order of what lands. *)

\* A step that adds nothing to the queue, and nothing to the drain.
LEMMA OrderKept ==
    ASSUME InputTypeOK, OrderInv, Shrinks, drain'.at = "write" => drain' = drain,
           \A s \in Sender : After(s)' => After(s),
           \A s \in Sender : pipe' = Enter(s) => pc'[s] \in {"enter", "again"}
    PROVE  OrderInv'
<1>1. PICK f \in [DOMAIN q' -> DOMAIN q] : \A i \in DOMAIN q' :
          q'[i] = q[f[i]] /\ \A j \in DOMAIN q' : i < j => f[i] < f[j]
  BY DEF Shrinks
<1> SUFFICES ASSUME NEW s \in Sender
             PROVE  /\ \A i, j \in DOMAIN q' : q'[i] = Body(s) /\ i < j => Plain(q'[j])
                    /\ After(s)' => /\ \A i \in DOMAIN q' : Plain(q'[i])
                                    /\ drain'.at = "write" => Plain(drain'.it) \/ drain'.it = Body(s)
                    /\ \A j \in DOMAIN q' : q'[j] = Enter(s) =>
                          /\ \A i \in DOMAIN q' : i < j => Plain(q'[i])
                          /\ drain'.at = "write" => Plain(drain'.it)
  BY DEF OrderInv, Plain
<1>2. \A i \in DOMAIN q' : f[i] \in DOMAIN q /\ q'[i] = q[f[i]]
  BY <1>1
<1>3. ASSUME NEW i \in DOMAIN q', NEW j \in DOMAIN q', q'[i] = Body(s), i < j PROVE Plain(q'[j])
  <2>1. f[i] < f[j] /\ q[f[i]] = Body(s)
    BY <1>1, <1>3
  <2> QED BY <2>1, <1>2 DEF OrderInv
<1>4. ASSUME After(s)'
      PROVE  /\ \A i \in DOMAIN q' : Plain(q'[i])
             /\ drain'.at = "write" => Plain(drain'.it) \/ drain'.it = Body(s)
  <2>1. After(s)
    BY <1>4
  <2> QED BY <1>2, <2>1 DEF OrderInv
<1>5. ASSUME NEW j \in DOMAIN q', q'[j] = Enter(s)
      PROVE  /\ \A i \in DOMAIN q' : i < j => Plain(q'[i])
             /\ drain'.at = "write" => Plain(drain'.it)
  <2>1. f[j] \in DOMAIN q /\ q[f[j]] = Enter(s)
    BY <1>2, <1>5
  <2>2. drain.at = "write" => Plain(drain.it)
    BY <2>1 DEF OrderInv
  <2>3. ASSUME NEW i \in DOMAIN q', i < j PROVE Plain(q'[i])
    <3>1. f[i] < f[j]
      BY <1>1, <2>3
    <3> QED BY <3>1, <2>1, <1>2 DEF OrderInv
  <2> QED BY <2>2, <2>3
<1> QED BY <1>3, <1>4, <1>5

\* A push behind everything: a body or a paste when no other message is between its
\* body and its Enter, an Enter when its body has just gone in.
LEMMA OrderPush ==
    ASSUME InputTypeOK, DrainInv, OrderInv, NEW it \in Items, Push(it),
           Plain(it) \/ \A s \in Sender : ~InQ(s) /\ ~After(s),
           \A s \in Sender : it = Enter(s) => After(s) /\ ~Held(s),
           \A s \in Sender : After(s)' => After(s),
           \A s \in Sender : pipe' = Enter(s) => pc'[s] \in {"enter", "again"}
    PROVE  OrderInv'
<1>1. CASE ~Fits
  <2>1. UNCHANGED <<q, drain>>
    BY <1>1, PushGrows
  <2> QED BY <2>1, SameShrinks, OrderKept
<1>2. CASE Fits
  <2>1. /\ DOMAIN q' \subseteq Nat
        /\ \A i \in DOMAIN q' : \/ i \in DOMAIN q /\ q'[i] = q[i]
                                \/ i \notin DOMAIN q /\ q'[i] = it /\ \A j \in DOMAIN q' : j <= i
    BY <1>2, PushGrows DEF Grows, InputTypeOK
  <2>2. drain'.at = "write" => drain' = drain
    BY <1>2, PushGrows DEF More, Idle
  <2>3. \A i, j \in DOMAIN q' : i < j => i \in DOMAIN q /\ q'[i] = q[i]
    BY <2>1
  <2> SUFFICES ASSUME NEW s \in Sender
               PROVE  /\ \A i, j \in DOMAIN q' : q'[i] = Body(s) /\ i < j => Plain(q'[j])
                      /\ After(s)' => /\ \A i \in DOMAIN q' : Plain(q'[i])
                                      /\ drain'.at = "write" => Plain(drain'.it) \/ drain'.it = Body(s)
                      /\ \A j \in DOMAIN q' : q'[j] = Enter(s) =>
                            /\ \A i \in DOMAIN q' : i < j => Plain(q'[i])
                            /\ drain'.at = "write" => Plain(drain'.it)
    BY DEF OrderInv, Plain
  <2>4. ASSUME NEW i \in DOMAIN q', NEW j \in DOMAIN q', q'[i] = Body(s), i < j PROVE Plain(q'[j])
    <3>1. i \in DOMAIN q /\ q[i] = Body(s) /\ InQ(s)
      BY <2>3, <2>4 DEF InQ
    <3>2. Plain(it)
      BY <3>1
    <3> QED BY <2>1, <2>4, <3>1, <3>2 DEF OrderInv
  <2>5. ASSUME After(s)'
        PROVE  /\ \A i \in DOMAIN q' : Plain(q'[i])
               /\ drain'.at = "write" => Plain(drain'.it) \/ drain'.it = Body(s)
    <3>1. After(s) /\ Plain(it)
      BY <2>5
    <3> QED BY <3>1, <2>1, <2>2 DEF OrderInv
  <2>6. ASSUME NEW j \in DOMAIN q', q'[j] = Enter(s)
        PROVE  /\ \A i \in DOMAIN q' : i < j => Plain(q'[i])
               /\ drain'.at = "write" => Plain(drain'.it)
    <3>1. CASE j \in DOMAIN q /\ q'[j] = q[j]
      BY <2>2, <2>3, <2>6, <3>1 DEF OrderInv
    <3>2. CASE it = Enter(s)
      <4>1. After(s) /\ ~Held(s)
        BY <3>2
      <4>2. drain.at = "write" => drain.it # Body(s)
        BY <4>1 DEF Held, Busy
      <4> QED BY <2>2, <2>3, <4>1, <4>2 DEF OrderInv
    <3> QED BY <2>1, <2>6, <3>1, <3>2
  <2> QED BY <2>4, <2>5, <2>6
<1> QED BY <1>1, <1>2

\* The drain takes the first item.
LEMMA OrderTake ==
    ASSUME TypeOK, DrainInv, OrderInv, \A s \in Sender : BodyInv(s), Take, UNCHANGED <<pc, pipe>>
    PROVE  OrderInv'
<1>1. /\ InputTypeOK /\ Shrinks /\ ~Busy /\ UNCHANGED out
      /\ \/ q = <<>> /\ q' = <<>> /\ drain' = Idle
         \/ /\ q # <<>> /\ q' = Tail(q) /\ drain'.at = "write" /\ drain'.it = Head(q)
            /\ Head(q) = q[1] /\ q[1] \in Items /\ 1 \in DOMAIN q
            /\ \A i \in DOMAIN q' : i + 1 \in DOMAIN q /\ q'[i] = q[i + 1] /\ 1 < i + 1
            /\ \A i \in DOMAIN q : i # 1 => i - 1 \in DOMAIN q' /\ q'[i - 1] = q[i]
  BY TakeStays DEF TypeOK
<1>2. CASE q = <<>>
  <2>1. drain'.at = "off"
    BY <1>1, <1>2 DEF Idle
  <2>2. \A s \in Sender : After(s)' => After(s)
    BY <1>1, <2>1 DEF After, Held, Busy
  <2> QED BY <1>1, <2>1, <2>2, OrderKept DEF OrderInv
<1>3. CASE q # <<>>
  <2>1. /\ drain'.at = "write" /\ drain'.it = q[1] /\ 1 \in DOMAIN q
        /\ \A i \in DOMAIN q' : i + 1 \in DOMAIN q /\ q'[i] = q[i + 1] /\ 1 < i + 1
    BY <1>1, <1>3
  <2>2. DOMAIN q \subseteq Nat /\ DOMAIN q' \subseteq Nat
    BY <1>1 DEF InputTypeOK
  <2>3. \A i, j \in DOMAIN q' : i < j => i + 1 < j + 1
    BY <2>2
  <2> SUFFICES ASSUME NEW s \in Sender
               PROVE  /\ pipe' = Enter(s) => pc'[s] \in {"enter", "again"}
                      /\ \A i, j \in DOMAIN q' : q'[i] = Body(s) /\ i < j => Plain(q'[j])
                      /\ After(s)' => /\ \A i \in DOMAIN q' : Plain(q'[i])
                                      /\ drain'.at = "write" => Plain(drain'.it) \/ drain'.it = Body(s)
                      /\ \A j \in DOMAIN q' : q'[j] = Enter(s) =>
                            /\ \A i \in DOMAIN q' : i < j => Plain(q'[i])
                            /\ drain'.at = "write" => Plain(drain'.it)
    BY DEF OrderInv, Plain
  <2>4. ASSUME NEW i \in DOMAIN q', NEW j \in DOMAIN q', q'[i] = Body(s), i < j PROVE Plain(q'[j])
    BY <2>1, <2>3, <2>4 DEF OrderInv
  <2>5. ASSUME After(s)'
        PROVE  /\ \A i \in DOMAIN q' : Plain(q'[i])
               /\ drain'.at = "write" => Plain(drain'.it) \/ drain'.it = Body(s)
    <3>1. CASE After(s)
      BY <2>1, <3>1 DEF OrderInv
    <3>2. CASE ~After(s)
      <4>1. q[1] = Body(s)
        BY <3>2, <2>5, <2>1, <1>1 DEF After, Held
      <4>2. \A i \in DOMAIN q' : Plain(q'[i])
        BY <2>1, <4>1 DEF OrderInv
      <4> QED BY <2>1, <4>1, <4>2
    <3> QED BY <3>1, <3>2
  <2>6. ASSUME NEW j \in DOMAIN q', q'[j] = Enter(s)
        PROVE  /\ \A i \in DOMAIN q' : i < j => Plain(q'[i])
               /\ drain'.at = "write" => Plain(drain'.it)
    <3>1. j + 1 \in DOMAIN q /\ q[j + 1] = Enter(s) /\ 1 < j + 1
      BY <2>1, <2>6
    <3>2. \A i \in DOMAIN q : i < j + 1 => Plain(q[i])
      BY <3>1 DEF OrderInv
    <3> QED BY <2>1, <2>3, <3>1, <3>2
  <2> QED BY <2>4, <2>5, <2>6 DEF OrderInv
<1> QED BY <1>2, <1>3

LEMMA OrderStays == HoldInv /\ OrderInv /\ [Next]_vars => OrderInv'
<1> SUFFICES ASSUME HoldInv, OrderInv, [Next]_vars PROVE OrderInv'
  OBVIOUS
<1> USE DEF inputVars, holdVars
<1>types. /\ TypeOK /\ InputTypeOK /\ DrainInv /\ LineInv /\ Once /\ \A s \in Sender : BodyInv(s)
          /\ pc \in [Sender -> Pcs] /\ pipe \in Piped \cup {NoItem} /\ pending \in Sender \cup {NoItem}
          /\ \A s \in Sender : sendMu = s <=> Locked(s)
  BY DEF HoldInv, TypeOK
<1>names. /\ \A s \in Sender : Enter(s) # NoItem /\ Enter(s) # Key
          /\ \A s, t \in Sender : Enter(s) = Enter(t) => s = t
  BY Names
<1>0. UNCHANGED inputVars => /\ Shrinks /\ (drain'.at = "write" => drain' = drain)
                             /\ \A s \in Sender : (Held(s)' <=> Held(s)) /\ out'[s] = out[s]
  BY SameShrinks DEF Held, Busy
<1>pcs. Early \cup {"wait", "done"} \cup Pressing \subseteq Pcs
  BY DEF Pcs, LockPcs, Early, Pressing
\* A send that ends, or goes on elsewhere than to its Enter; no Enter goes into the pipe.
<1>goes. ASSUME NEW s \in Sender, NEW p \in Early \cup {"done"}, Goes(s, p),
                pc[s] \notin {"enter", "again"} \/ pipe # Enter(s), UNCHANGED inputVars,
                pipe' = pipe \/ pipe' = Key
         PROVE  OrderInv'
  <2>1. pc'[s] = p /\ \A t \in Sender \ {s} : pc'[t] = pc[t]
    BY <1>goes, <1>types, <1>pcs, GoesTo
  <2>2. p \notin {"wait"} \cup Pressing
    BY DEF Early, Pressing
  <2>3. \A t \in Sender : After(t)' => After(t)
    BY <1>goes, <2>1, <2>2, <1>0 DEF After
  <2>4. \A t \in Sender : pipe' = Enter(t) => pc'[t] \in {"enter", "again"}
    BY <1>goes, <2>1, <1>names DEF OrderInv
  <2> QED BY <1>goes, <1>0, <2>3, <2>4, <1>types, OrderKept
<1>1. ASSUME NEW s \in Sender, Arrive(s) \/ Look(s) \/ Lock(s) PROVE OrderInv'
  <2>1. PICK p \in Early \cup {"done"} : Goes(s, p)
    BY <1>1 DEF Arrive, Look, Lock, Out, Sleeps, Ends, Early
  <2>2. pc[s] \notin {"enter", "again"} /\ UNCHANGED inputVars /\ UNCHANGED pipe
    BY <1>1 DEF Arrive, Look, Looks, Lock
  <2> QED BY <2>1, <2>2, <1>goes
<1>2. ASSUME NEW s \in Sender, Settle(s) PROVE OrderInv'
  <2>1. pc[s] = "settle" /\ Goes(s, "write") /\ UNCHANGED inputVars
    BY <1>2 DEF Settle
  <2>2. pipe' = pipe \/ pipe' = Key
    BY <1>2, <1>types DEF Settle, LeavesIt, SubmitsLate, GivesUp
  <2> QED BY <2>1, <2>2, <1>goes DEF Early
<1>3. ASSUME NEW s \in Sender, WriteBody(s) PROVE OrderInv'
  <2>1. pc[s] = "write" /\ Push(Body(s)) /\ UNCHANGED pipe /\ Body(s) \in Items
    BY <1>3, Names DEF WriteBody
  <2>2. sendMu = s /\ \A t \in Sender : ~InQ(t) /\ ~After(t)
    <3>1. sendMu = s
      BY <2>1, <1>types DEF Locked, LockPcs
    <3>2. ASSUME NEW t \in Sender, InQ(t) \/ After(t) PROVE FALSE
      BY <2>1, <3>1, <3>2, <1>types, OneBody DEF Pressing
    <3> QED BY <3>1, <3>2
  <2>3. PICK p \in {"wait", "done"} : Goes(s, p)
    BY <1>3 DEF WriteBody, Ends
  <2>4. pc'[s] \in {"wait", "done"} /\ \A t \in Sender \ {s} : pc'[t] = pc[t]
    BY <2>3, <1>types, <1>pcs, GoesTo
  <2>5. \A t \in Sender : (Held(t)' <=> Held(t)) /\ out'[t] = out[t]
    BY <2>1, <1>types, PushBodies, PushStays
  <2>6. ~Held(s) /\ out[s] = "none"
    BY <2>1, <1>types DEF BodyInv, Early
  <2>7. \A t \in Sender : pipe' = Enter(t) => pc'[t] \in {"enter", "again"}
    BY <2>1, <2>4 DEF OrderInv
  <2>8. \A t \in Sender : After(t)' => After(t)
    BY <2>1, <2>4, <2>5, <2>6 DEF After, Pressing
  <2> QED BY <2>1, <2>2, <2>7, <2>8, <1>types, Names, OrderPush
<1>4. ASSUME NEW s \in Sender, Answer(s) PROVE OrderInv'
  <2>1. pc[s] = "wait" /\ UNCHANGED pipe
    BY <1>4 DEF Answer
  <2>2. /\ Shrinks /\ UNCHANGED drain /\ \A t \in Sender : Held(t)' <=> Held(t)
        /\ \A t \in Sender \ {s} : out'[t] = out[t]
        /\ out'[s] = "written" => out[s] = "written"
    <3>1. CASE UNCHANGED inputVars
      BY <3>1, <1>0
    <3>2. CASE Recallable(s) /\ Abandon(s)
      <4>1. /\ Shrinks /\ UNCHANGED drain
            /\ out' = [out EXCEPT ![s] = IF InQ(s) THEN "notReached" ELSE "partial"]
        BY <3>2, <1>types, AbandonStays
      <4> QED BY <4>1, <1>types DEF Held, Busy, InputTypeOK
    <3> QED BY <3>1, <3>2, <1>4 DEF Answer
  <2>3. \/ Goes(s, "body") /\ out'[s] = "written"
        \/ Goes(s, "done")
    BY <1>4 DEF Answer, Ends
  <2>4. /\ pc'[s] \in {"body", "done"} /\ \A t \in Sender \ {s} : pc'[t] = pc[t]
        /\ pc'[s] = "body" => out'[s] = "written"
    BY <2>3, <1>types, <1>pcs, GoesTo DEF Pressing
  <2>5. \A t \in Sender : pipe' = Enter(t) => pc'[t] \in {"enter", "again"}
    BY <2>1, <2>4 DEF OrderInv
  <2>6. \A t \in Sender : After(t)' => After(t)
    BY <2>1, <2>2, <2>4 DEF After, Pressing
  <2> QED BY <2>2, <2>5, <2>6, <1>types, OrderKept
<1>5. ASSUME NEW s \in Sender, Closes(s) \/ Withhold(s) \/ Sent(s) PROVE OrderInv'
  <2>1. /\ pc[s] = "body" \/ pipe # Enter(s)
        /\ Goes(s, "done") /\ UNCHANGED inputVars /\ UNCHANGED pipe
    BY <1>5 DEF Closes, Withhold, Sent, Ends
  <2> QED BY <2>1, <1>goes
<1>6. ASSUME NEW s \in Sender, PressEnter(s) \/ PressAgain(s) PROVE OrderInv'
  <2>1. PICK p \in {"enter", "again"} :
          /\ pc[s] \in {"body", "enter"} /\ Goes(s, p) /\ UNCHANGED inputVars
          /\ pipe = NoItem /\ pipe' = Enter(s)
    BY <1>6 DEF PressEnter, PressAgain, SubmitKey
  <2>2. pc'[s] = p /\ \A t \in Sender \ {s} : pc'[t] = pc[t]
    BY <2>1, <1>types, <1>pcs, GoesTo DEF Pressing
  <2>3. \A t \in Sender : After(t)' => After(t)
    BY <2>1, <2>2, <1>0 DEF After, Pressing
  <2>4. \A t \in Sender : pipe' = Enter(t) => pc'[t] \in {"enter", "again"}
    BY <2>1, <2>2, <1>names
  <2> QED BY <2>1, <2>3, <2>4, <1>0, <1>types, OrderKept
\* Beside the sends: nothing but a key goes into the pipe.
<1>7. ASSUME UNCHANGED inputVars, UNCHANGED pc, \A t \in Sender : pipe' = Enter(t) => pipe' = pipe
      PROVE  OrderInv'
  <2>1. \A t \in Sender : After(t)' => After(t)
    BY <1>7, <1>0 DEF After
  <2>2. \A t \in Sender : pipe' = Enter(t) => pc'[t] \in {"enter", "again"}
    BY <1>7 DEF OrderInv
  <2> QED BY <1>7, <2>1, <2>2, <1>0, <1>types, OrderKept
<1>8. CASE Resolve
  <2>1. UNCHANGED inputVars /\ UNCHANGED pc
    BY <1>8 DEF Resolve, Hook, SweepReads, SweepReports
  <2>2. pipe' = pipe \/ pipe' = Key
    BY <1>8, <1>types DEF Resolve, Hook, SweepReads, SweepReports, LeavesIt, SubmitsLate, GivesUp
  <2> QED BY <2>1, <2>2, <1>7, <1>names
<1>9. CASE OperatorKey
  <2>1. UNCHANGED inputVars /\ UNCHANGED pc /\ pipe' = Key
    BY <1>9 DEF OperatorKey
  <2> QED BY <2>1, <1>7, <1>names
<1>10. CASE ResponseLoop
  <2>1. Push(pipe) /\ pipe' = NoItem /\ UNCHANGED pc /\ pipe \in Items /\ Plain(pipe)
    BY <1>10, <1>types, PipedIs DEF ResponseLoop
  <2>2. \A t \in Sender : pipe' # Enter(t)
    BY <2>1, <1>names
  <2>3. \A t \in Sender : (Held(t)' <=> Held(t)) /\ out'[t] = out[t]
    BY <2>1, <1>types, PushBodies, PushStays
  <2>4. \A t \in Sender : After(t)' => After(t)
    BY <2>1, <2>3 DEF After
  <2>5. ASSUME NEW t \in Sender, pipe = Enter(t) PROVE After(t) /\ ~Held(t)
    <3>1. pc[t] \in {"enter", "again"}
      BY <2>5 DEF OrderInv
    <3>2. BodyInv(t)
      BY <1>types
    <3> QED BY <2>5, <3>1, <3>2 DEF After, BodyInv, Pressing
  <2> QED BY <2>1, <2>2, <2>4, <2>5, <1>types, OrderPush
<1>11. CASE FlushPaste
  <2>1. Push(Paste) /\ sendMu = NoItem /\ UNCHANGED <<pc, pipe>> /\ Paste \in Items
    BY <1>11, Names DEF FlushPaste
  <2>2. \A t \in Sender : ~InQ(t) /\ ~After(t)
    BY <2>1, <1>types, OneBody, Names
  <2>3. \A t \in Sender : (Held(t)' <=> Held(t)) /\ out'[t] = out[t]
    BY <2>1, <1>types, PushBodies, PushStays
  <2>4. \A t \in Sender : After(t)' => After(t)
    BY <2>1, <2>3 DEF After
  <2>5. \A t \in Sender : Paste # Enter(t)
    BY Names
  <2>6. \A t \in Sender : pipe' = Enter(t) => pc'[t] \in {"enter", "again"}
    BY <2>1 DEF OrderInv
  <2> QED BY <2>1, <2>2, <2>4, <2>5, <2>6, <1>types, OrderPush
<1>12. CASE MarkClosing
  <2>1. q' = <<>> /\ UNCHANGED <<drain, pc, pipe>> /\ \A t \in Sender : out'[t] = IF InQ(t) THEN "notReached" ELSE out[t]
    BY <1>12, <1>types, CloseStays DEF MarkClosing
  <2>2. \A t \in Sender : After(t)' => After(t)
    BY <2>1 DEF After, Held, Busy
  <2>3. \A t \in Sender : pipe' = Enter(t) => pc'[t] \in {"enter", "again"}
    BY <2>1 DEF OrderInv
  <2> QED BY <2>1, <2>2, <2>3, <1>types, EmptyShrinks, OrderKept
<1>13. CASE Input
  <2>0. UNCHANGED <<pc, pipe>> /\ \A t \in Sender : pipe' = Enter(t) => pc'[t] \in {"enter", "again"}
    BY <1>13 DEF Input, OrderInv
  <2>1. CASE Take
    BY <2>0, <2>1, <1>types, OrderTake
  <2>2. CASE WriteEnds
    <3>1. UNCHANGED <<q, out>> /\ drain.at = "write" /\ drain'.at = "clear" /\ drain'.it = drain.it
      BY <2>2, <1>types, WriteEndsStays
    <3>2. \A t \in Sender : After(t)' => After(t)
      BY <2>0, <3>1 DEF After, Held, Busy
    <3> QED BY <2>0, <3>1, <3>2, <1>types, SameShrinks, OrderKept
  <2>3. CASE Unwedge
    <3>0. \A s \in Sender : Held(s) => drain.r = landed[s]
      BY <2>3, <1>types DEF Unwedge, BodyInv
    <3>1. /\ UNCHANGED q /\ drain'.at = "take"
          /\ \A t \in Sender : out'[t] = IF Held(t) /\ out[t] = "none" THEN landed[t] ELSE out[t]
      BY <2>3, <3>0, <1>types, UnwedgeStays
    <3>2. \A t \in Sender : After(t)' => After(t)
      BY <2>0, <3>1 DEF After, Held, Busy
    <3> QED BY <2>0, <3>1, <3>2, <1>types, SameShrinks, OrderKept
  <2> QED BY <2>1, <2>2, <2>3, <1>13 DEF Input, DrainInput
<1>14. CASE UNCHANGED inputVars /\ UNCHANGED <<pc, pipe>>
  BY <1>14, <1>7
<1> QED BY <1>1, <1>2, <1>3, <1>4, <1>5, <1>6, <1>8, <1>9, <1>10, <1>11, <1>12, <1>13, <1>14
     DEF Next, Send, Presses, Passes, vars

\* No paste and no other message lands between a message's body and an Enter its send
\* presses itself.
THEOREM EnterFollowsBody == Spec => NothingBetween
<1>1. Init => OrderInv
  <2> SUFFICES ASSUME Init PROVE OrderInv
    OBVIOUS
  <2>1. DOMAIN q = {} /\ pipe = NoItem /\ \A s \in Sender : pc[s] = "new"
    BY DEF Init, InputInit
  <2>2. \A s \in Sender : ~After(s) /\ pipe # Enter(s)
    BY <2>1, Names DEF After, Pressing
  <2> QED BY <2>1, <2>2 DEF OrderInv
<1>2. ASSUME HoldInv, OrderInv, [Next]_vars, NEW it \in Bodies \cup {Paste}, NEW s \in Sender,
             Lands(it), it # Body(s)
      PROVE  ~(landed[s] = "written" /\ EnterToCome(s))
  <2> SUFFICES ASSUME landed[s] = "written", EnterToCome(s) PROVE FALSE
    OBVIOUS
  <2>1. drain.at = "write" /\ drain.it = it /\ ~Plain(it)
    BY <1>2 DEF Lands, Plain
  <2>2. BodyInv(s) /\ out[s] \in Outcomes \cup {"none"}
    BY <1>2 DEF HoldInv, TypeOK, InputTypeOK
  <2>3. After(s) \/ \E j \in DOMAIN q : q[j] = Enter(s)
    <3>1. CASE pc[s] = "wait"
      BY <2>2, <3>1 DEF BodyInv, After, Outcomes
    <3>2. CASE Enter(s) \in ToSet(q)
      BY <3>2 DEF ToSet
    <3>3. CASE pc[s] \in Pressing \/ pipe = Enter(s)
      BY <1>2, <3>3 DEF After, Pressing, OrderInv
    <3> QED BY <3>1, <3>2, <3>3 DEF EnterToCome, Pressing
  <2> QED BY <1>2, <2>1, <2>3 DEF OrderInv
<1>3. HoldInv /\ OrderInv /\ [Next]_vars =>
        [\A it \in Bodies \cup {Paste}, s \in Sender :
            Lands(it) /\ it # Body(s) => ~(landed[s] = "written" /\ EnterToCome(s))]_vars
  BY <1>2
<1> QED BY <1>1, <1>3, OrderStays, HoldAlways, PTL DEF Spec, NothingBetween
=============================================================================
