--------------------------- MODULE HeldMail_proofs ---------------------------
(***************************************************************************)
(* Proofs about HeldMail, for any messages, drains, cap and troubles: the  *)
(* types and where held mail is, the bounds and the promise, which need    *)
(* what the running drain has in its hand; and about HeldFile, the file    *)
(* beside the held mail, through any number of crashes and starts.         *)
(***************************************************************************)
EXTENDS HeldFile, Queue_proofs, WellFoundedInduction, TLAPS

\* Taking the overdue mail leaves the rest, once each.
LEMMA WithoutElems ==
    ASSUME NEW q \in Seq(Msg), NEW D, NEW k \in Without(q, D)
    PROVE  /\ k \in Seq(Msg)
           /\ Len(k) <= Len(q)
           /\ Elems(k) = Elems(q) \ D
           /\ NoDup(k)
<1>1. PICK n \in 0..Len(q) : k \in [1..n -> Elems(q)]
  BY DEF Without
<1>a. Elems(q) \subseteq Msg
  BY DEF Elems
<1>2. k \in Seq(Msg) /\ Len(k) = n /\ DOMAIN k = 1..n /\ Len(q) \in Nat
  BY <1>1, <1>a
<1>3. NoDup(k)
  <2>1. \A i, j \in 1..n : i < j => k[i] # k[j]
    BY <1>2 DEF Without
  <2> QED
    BY <1>2, <2>1 DEF NoDup
<1> QED
  BY <1>2, <1>3 DEF Without

-----------------------------------------------------------------------------
(* The types.  A drain has a message in its hand while it is sending it.    *)

HandsFull == \A d \in Drain : InFlight(d) => hand[d] \in Msg

TypeInv == TypeOK /\ HandsFull

\* What an actor inside the send path carries is a message.
LEMMA CarriedIsMsg ==
    ASSUME TypeInv, NEW a \in Actor, pc[a] \in SendPcs
    PROVE  Carried(a) \in Msg
BY DEF TypeInv, HandsFull, InFlight, Carried, Actor

\* The type of an actor's program counter after it moves.
LEMMA PcMoves ==
    ASSUME TypeInv, NEW a \in Actor, NEW s,
           a \in Msg => s \in MsgPcs, a \in Drain => s \in DrainPcs,
           pc' = [pc EXCEPT ![a] = s]
    PROVE  /\ pc' \in [Actor -> MsgPcs \cup DrainPcs]
           /\ \A m \in Msg : pc'[m] \in MsgPcs
           /\ \A d \in Drain : pc'[d] \in DrainPcs
BY DEF TypeInv, TypeOK, Actor

\* A drain that has just started has nothing in its hand.
LEMMA DrainStarts ==
    ASSUME TypeInv, StartDrain
    PROVE  /\ draining' \in BOOLEAN
           /\ pc' \in [Actor -> MsgPcs \cup DrainPcs]
           /\ \A m \in Msg : pc'[m] = pc[m]
           /\ \A d \in Drain : pc'[d] \in DrainPcs
           /\ \A d \in Drain : pc'[d] \in SendPcs \cup {"begin"} <=> InFlight(d)
<1>1. CASE draining
  BY <1>1 DEF StartDrain, TypeInv, TypeOK, InFlight
<1>2. CASE ~draining
  <2>1. PICK d \in Drain : pc[d] = "off" /\ pc' = [pc EXCEPT ![d] = "check"] /\ draining'
    BY <1>2 DEF StartDrain
  <2>2. d \in Actor /\ d \notin Msg
    BY ActorAssumption DEF Actor
  <2>3. \A e \in Actor : pc'[e] = IF e = d THEN "check" ELSE pc[e]
    BY <2>1, <2>2 DEF TypeInv, TypeOK
  <2> QED
    BY <2>1, <2>2, <2>3, ActorAssumption DEF TypeInv, TypeOK, Actor, InFlight, SendPcs, DrainPcs
<1> QED
  BY <1>1, <1>2

\* What a send that ends its walk in AfterSend leaves of the types.
LEMMA AfterSendMoves ==
    ASSUME TypeInv, NEW a \in Actor, pc' = [pc EXCEPT ![a] = AfterSend(a)], hand' = hand
    PROVE  /\ pc' \in [Actor -> MsgPcs \cup DrainPcs]
           /\ \A m \in Msg : pc'[m] \in MsgPcs
           /\ \A d \in Drain : pc'[d] \in DrainPcs
           /\ HandsFull'
<1>1. /\ a \in Msg => AfterSend(a) = "done"
      /\ a \in Drain => AfterSend(a) = "end"
  BY ActorAssumption DEF AfterSend
<1>2. /\ a \in Msg => AfterSend(a) \in MsgPcs
      /\ a \in Drain => AfterSend(a) \in DrainPcs
  BY <1>1 DEF MsgPcs, DrainPcs
<1>3. HandsFull'
  BY <1>1, ActorAssumption DEF HandsFull, TypeInv, TypeOK, InFlight, SendPcs, Actor
<1> QED
  BY <1>2, <1>3, PcMoves

\* A refused message, a message held as new mail, one put back at the front.
LEMMA HoldTypes ==
    ASSUME TypeInv, NEW a \in Actor, pc[a] \in SendPcs
    PROVE  /\ Refuse(a) => fate' \in [Msg -> Fates]
           /\ \A c \in Clocks : Enqueue(a, c) => /\ queue' \in Seq(Msg)
                                                 /\ fate' \in [Msg -> Fates]
                                                 /\ clock' \in [Msg -> Clocks]
           /\ HoldIfDND(a) => /\ queue' \in Seq(Msg)
                              /\ fate' \in [Msg -> Fates]
                              /\ clock' \in [Msg -> Clocks]
                              /\ redelivering' \in Msg \cup {NoMsg}
<1> DEFINE m == Carried(a)
<1>1. m \in Msg
  BY CarriedIsMsg
<1>2. /\ queue \in Seq(Msg) /\ fate \in [Msg -> Fates] /\ clock \in [Msg -> Clocks]
      /\ redelivering \in Msg \cup {NoMsg}
  BY DEF TypeInv, TypeOK
<1>3. Refuse(a) => fate' \in [Msg -> Fates]
  BY <1>2 DEF Refuse, Fates
<1>4. ASSUME NEW c \in Clocks, Enqueue(a, c)
      PROVE  queue' \in Seq(Msg) /\ fate' \in [Msg -> Fates] /\ clock' \in [Msg -> Clocks]
  <2>1. CASE Full
    BY <1>2, <1>3, <1>4, <2>1 DEF Enqueue
  <2>2. CASE ~Full
    <3>1. /\ queue' = Append(queue, m)
          /\ clock' = [clock EXCEPT ![m] = c]
          /\ fate' = [fate EXCEPT ![m] = "held"]
      BY <1>4, <2>2 DEF Enqueue
    <3> QED
      BY <1>1, <1>2, <3>1 DEF Fates
  <2> QED
    BY <2>1, <2>2
<1>5. ASSUME HoldIfDND(a)
      PROVE  /\ queue' \in Seq(Msg) /\ fate' \in [Msg -> Fates] /\ clock' \in [Msg -> Clocks]
             /\ redelivering' \in Msg \cup {NoMsg}
  <2>1. CASE IsRedelivery(m)
    <3>1. /\ queue' = <<m>> \o queue
          /\ clock' = [clock EXCEPT ![m] = clock[redelivering]]
          /\ fate' = [fate EXCEPT ![m] = "held"]
          /\ redelivering' = NoMsg
      BY <1>5, <2>1 DEF HoldIfDND
    <3>2. redelivering \in Msg
      BY <1>2, <2>1 DEF IsRedelivery
    <3> QED
      BY <1>1, <1>2, <3>1, <3>2 DEF Fates
  <2>2. CASE ~IsRedelivery(m)
    <3>1. Enqueue(a, "unarmed") /\ redelivering' = redelivering
      BY <1>5, <2>2 DEF HoldIfDND
    <3> QED
      BY <1>2, <1>4, <3>1 DEF Clocks
  <2> QED
    BY <2>1, <2>2
<1> QED
  BY <1>3, <1>4, <1>5

\* Every step of the send path keeps the types.
LEMMA SendStepTypes ==
    ASSUME TypeInv, NEW a \in Actor, SendStep(a)
    PROVE  TypeInv'
<1> DEFINE m == Carried(a)
<1>1. pc[a] \in SendPcs /\ m \in Msg
  BY CarriedIsMsg DEF SendStep, Gate1, Gate2, Gate, Lock, GuardNoPTY, GuardHold, GuardClear,
       WriteBody, WritePartial, WriteNotReached, PutBack, SendPcs
<1>2. ASSUME NEW s \in SendPcs, pc' = [pc EXCEPT ![a] = s], hand' = hand
      PROVE  /\ pc' \in [Actor -> MsgPcs \cup DrainPcs]
             /\ \A n \in Msg : pc'[n] \in MsgPcs
             /\ \A d \in Drain : pc'[d] \in DrainPcs
             /\ HandsFull'
  <2>1. HandsFull'
    BY <1>1, <1>2 DEF TypeInv, TypeOK, HandsFull, InFlight, Actor, SendPcs
  <2> QED
    BY <1>2, <2>1, PcMoves DEF MsgPcs, DrainPcs
<1>3. ASSUME NEW f \in Fates, fate' = [fate EXCEPT ![m] = f]
      PROVE  fate' \in [Msg -> Fates]
  BY <1>3 DEF TypeInv, TypeOK
<1>4. ASSUME HoldInSend(a), hand' = hand
      PROVE  /\ queue' \in Seq(Msg) /\ redelivering' \in Msg \cup {NoMsg}
             /\ clock' \in [Msg -> Clocks] /\ fate' \in [Msg -> Fates]
             /\ pc' \in [Actor -> MsgPcs \cup DrainPcs]
             /\ \A n \in Msg : pc'[n] \in MsgPcs
             /\ \A d \in Drain : pc'[d] \in DrainPcs
             /\ sendMu' \in Actor \cup {NoOne}
             /\ HandsFull'
  <2>1. CASE IsRedelivery(m)
    <3>1. /\ redelivering' = NoMsg
          /\ clock' = [clock EXCEPT ![m] = clock[redelivering]]
          /\ pc' = [pc EXCEPT ![a] = "putback"]
          /\ UNCHANGED <<queue, fate, sendMu>>
          /\ redelivering \in Msg
      BY <1>4, <2>1 DEF HoldInSend, IsRedelivery, TypeInv, TypeOK
    <3> QED
      BY <1>1, <1>2, <1>4, <3>1 DEF TypeInv, TypeOK, SendPcs
  <2>2. CASE ~IsRedelivery(m)
    <3>1. Enqueue(a, "running") /\ EndSend(a) /\ redelivering' = redelivering
      BY <1>4, <2>2 DEF HoldInSend
    <3> QED
      BY <1>1, <1>4, <3>1, HoldTypes, AfterSendMoves DEF EndSend, TypeInv, TypeOK, Clocks
  <2> QED
    BY <2>1, <2>2
<1>5. ASSUME NEW from \in SendPcs, NEW to \in SendPcs, Gate(a, from, to)
      PROVE  TypeInv'
  <2>0. UNCHANGED <<hand, sendMu, draining, hold, pane>>
    BY <1>5 DEF Gate
  <2>1. CASE Ruling(a) = "through"
    BY <1>1, <1>2, <1>5, <2>0, <2>1 DEF Gate, TypeInv, TypeOK, mail, hold, pane
  <2>2. CASE Ruling(a) = "refused"
    BY <1>1, <1>5, <2>0, <2>2, AfterSendMoves, HoldTypes DEF Gate, TypeInv, TypeOK, hold, pane
  <2>3. CASE Ruling(a) = "waits"
    BY <1>1, <1>5, <2>0, <2>3, AfterSendMoves, HoldTypes DEF Gate, TypeInv, TypeOK, hold, pane
  <2> QED
    BY <1>5, <2>1, <2>2, <2>3 DEF Gate
<1>6. CASE Gate1(a)
  BY <1>5, <1>6 DEF Gate1, SendPcs
<1>7. CASE Gate2(a)
  BY <1>5, <1>7 DEF Gate2, SendPcs
<1>8. CASE Lock(a)
  BY <1>1, <1>2, <1>8 DEF Lock, TypeInv, TypeOK, mail, hold, pane, SendPcs
<1>9. CASE GuardNoPTY(a)
  BY <1>1, <1>3, <1>9, AfterSendMoves DEF GuardNoPTY, EndSend, TypeInv, TypeOK, hold, pane, Fates
<1>10. CASE GuardHold(a)
  BY <1>4, <1>10 DEF GuardHold, TypeInv, TypeOK, hold, pane
<1>11. CASE GuardClear(a)
  BY <1>1, <1>2, <1>11 DEF GuardClear, TypeInv, TypeOK, mail, hold, pane, SendPcs
<1>12. CASE WriteBody(a)
  BY <1>1, <1>3, <1>12, AfterSendMoves DEF WriteBody, EndSend, TypeInv, TypeOK, hold, pane, Fates
<1>13. CASE WritePartial(a)
  BY <1>1, <1>3, <1>13, AfterSendMoves DEF WritePartial, WriteFails, EndSend, TypeInv, TypeOK, hold, Fates
<1>14. CASE WriteNotReached(a)
  BY <1>4, <1>14 DEF WriteNotReached, WriteFails, TypeInv, TypeOK, hold
<1>15. CASE PutBack(a)
  <2>1. queue' \in Seq(Msg)
    BY <1>1, <1>15 DEF PutBack, TypeInv, TypeOK
  <2> QED
    BY <1>1, <1>3, <1>15, <2>1, AfterSendMoves DEF PutBack, EndSend, TypeInv, TypeOK, hold, pane, Fates
<1> QED
  BY <1>6, <1>7, <1>8, <1>9, <1>10, <1>11, <1>12, <1>13, <1>14, <1>15 DEF SendStep

\* Every step of the drain keeps the types.
LEMMA DrainStepTypes ==
    ASSUME TypeInv, NEW d \in Drain, DrainStep(d)
    PROVE  TypeInv'
<1>0. d \in Actor /\ d \notin Msg
  BY ActorAssumption DEF Actor
<1>1. ASSUME NEW s \in DrainPcs \ (SendPcs \cup {"begin"}),
             pc' = [pc EXCEPT ![d] = s],
             \A e \in Drain \ {d} : hand'[e] = hand[e]
      PROVE  /\ pc' \in [Actor -> MsgPcs \cup DrainPcs]
             /\ \A n \in Msg : pc'[n] \in MsgPcs
             /\ \A e \in Drain : pc'[e] \in DrainPcs
             /\ HandsFull'
  <2>1. HandsFull'
    BY <1>0, <1>1 DEF TypeInv, TypeOK, HandsFull, InFlight, Actor
  <2> QED
    BY <1>0, <1>1, <2>1, PcMoves
<1>2. CASE DrainCheck(d)
  <2>1. PICK s \in {"return", "pop"} : pc' = [pc EXCEPT ![d] = s]
    BY <1>2 DEF DrainCheck
  <2> QED
    BY <1>1, <1>2, <2>1 DEF DrainCheck, TypeInv, TypeOK, mail, hold, pane, DrainPcs, SendPcs
<1>3. CASE DrainPop(d)
  <2>0. UNCHANGED <<redelivering, clock, fate, sendMu, draining, hold, pane>>
    BY <1>3 DEF DrainPop
  <2>1. CASE queue = <<>>
    BY <1>1, <1>3, <2>0, <2>1 DEF DrainPop, TypeInv, TypeOK, hold, pane, DrainPcs, SendPcs
  <2>2. CASE queue # <<>>
    <3>1. /\ pc' = [pc EXCEPT ![d] = "begin"]
          /\ hand' = [hand EXCEPT ![d] = Head(queue)]
          /\ queue' = Tail(queue)
      BY <1>3, <2>2 DEF DrainPop
    <3>2. Head(queue) \in Msg /\ Tail(queue) \in Seq(Msg)
      BY <2>2 DEF TypeInv, TypeOK
    <3>3. HandsFull' /\ hand' \in [Drain -> Msg \cup {NoMsg}]
      BY <1>0, <3>1, <3>2 DEF TypeInv, TypeOK, HandsFull, InFlight, Actor
    <3> QED
      BY <1>0, <2>0, <3>1, <3>2, <3>3, PcMoves DEF TypeInv, TypeOK, hold, pane, DrainPcs
  <2> QED
    BY <2>1, <2>2
<1>4. CASE DrainBegin(d)
  <2>1. /\ pc[d] = "begin" /\ redelivering' = hand[d] /\ pc' = [pc EXCEPT ![d] = "gate1"]
        /\ UNCHANGED <<queue, clock, fate, hand, sendMu, draining, hold, pane>>
    BY <1>4 DEF DrainBegin
  <2>2. hand[d] \in Msg
    BY <2>1 DEF TypeInv, HandsFull, InFlight
  <2>3. HandsFull'
    BY <1>0, <2>1, <2>2 DEF TypeInv, TypeOK, HandsFull, InFlight, Actor
  <2> QED
    BY <1>0, <2>1, <2>2, <2>3, PcMoves DEF TypeInv, TypeOK, hold, pane, DrainPcs, SendPcs
<1>5. CASE DrainEnd(d)
  <2>1. PICK s \in {"check", "return"} : pc' = [pc EXCEPT ![d] = s]
    BY <1>5 DEF DrainEnd
  <2>2. hand' \in [Drain -> Msg \cup {NoMsg}] /\ \A e \in Drain \ {d} : hand'[e] = hand[e]
    BY <1>5 DEF DrainEnd, TypeInv, TypeOK
  <2> QED
    BY <1>1, <1>5, <2>1, <2>2 DEF DrainEnd, TypeInv, TypeOK, hold, pane, DrainPcs, SendPcs
<1>6. CASE DrainReturn(d)
  BY <1>1, <1>6 DEF DrainReturn, TypeInv, TypeOK, mail, hold, pane, DrainPcs, SendPcs
<1> QED
  BY <1>2, <1>3, <1>4, <1>5, <1>6 DEF DrainStep

\* Every step of do-not-disturb and of the tick keeps the types.
LEMMA CtlStepTypes ==
    ASSUME TypeInv, TickStep \/ DNDOff \/ DNDOffDone \/ \E h \in DNDKinds : DNDOn(h)
    PROVE  TypeInv'
<1>1. ASSUME NEW c \in {"tick", "ipc"}, NEW i \in CtlPcs, EndDND(c, i)
      PROVE  TypeInv'
  BY <1>1 DEF EndDND, TypeInv, TypeOK, HandsFull, InFlight, run, pane, Holds, Clocks, CtlPcs
<1>2. ASSUME NEW c \in {"tick", "ipc"}, NEW i \in CtlPcs, EndDNDStart(c, i)
      PROVE  TypeInv'
  BY <1>2, DrainStarts DEF EndDNDStart, TypeInv, TypeOK, HandsFull, InFlight, mail, pane
<1>3. CASE \E h \in DNDKinds : DNDOn(h)
  BY <1>3, EnvAssumption DEF DNDOn, TypeInv, TypeOK, HandsFull, InFlight, mail, run, pane, Holds
<1>4. CASE DNDOff \/ TickEndDND
  BY <1>1, <1>4 DEF DNDOff, TickEndDND, CtlPcs
<1>5. CASE DNDOffDone \/ TickStart
  BY <1>2, <1>5 DEF DNDOffDone, TickStart, CtlPcs
<1>6. CASE TickRead \/ TickSkip
  BY <1>6 DEF TickRead, TickSkip, TypeInv, TypeOK, HandsFull, InFlight, mail, run, pane, CtlPcs
<1>7. CASE TickResolve
  <2>1. queue' \in Seq(Msg)
    BY <1>7, WithoutElems DEF TickResolve, TypeInv, TypeOK
  <2>2. fate' \in [Msg -> Fates]
    BY <1>7 DEF TickResolve, TypeInv, TypeOK, Fates
  <2> QED
    BY <1>7, <2>1, <2>2 DEF TickResolve, TypeInv, TypeOK, HandsFull, InFlight, run, pane, CtlPcs
<1>8. CASE TickReport
  <2>1. fate' \in [Msg -> Fates]
    BY <1>8 DEF TickReport, TypeInv, TypeOK, Fates
  <2> QED
    BY <1>8, <2>1 DEF TickReport, TypeInv, TypeOK, HandsFull, InFlight, run, pane, CtlPcs
<1>9. CASE TickDrain
  <2>1. CASE queue # <<>> /\ ~dialog
    BY <1>9, <2>1, DrainStarts DEF TickDrain, TypeInv, TypeOK, HandsFull, InFlight, mail, pane, CtlPcs
  <2>2. CASE ~(queue # <<>> /\ ~dialog)
    BY <1>9, <2>2 DEF TickDrain, TypeInv, TypeOK, HandsFull, InFlight, mail, pane, CtlPcs
  <2> QED
    BY <2>1, <2>2
<1> QED
  BY <1>3, <1>4, <1>5, <1>6, <1>7, <1>8, <1>9 DEF TickStep

\* Every step of the pane, every send begun and every deadline passed keeps them.
LEMMA PaneStepTypes ==
    ASSUME TypeInv, PaneStep \/ \E m \in Msg : Send(m) \/ DeadlinePasses(m)
    PROVE  TypeInv'
<1>1. ASSUME MaybeDrain, UNCHANGED <<mail, hand, sendMu, hold>>
      PROVE  /\ draining' \in BOOLEAN /\ HandsFull'
             /\ pc' \in [Actor -> MsgPcs \cup DrainPcs]
             /\ \A m \in Msg : pc'[m] \in MsgPcs
             /\ \A d \in Drain : pc'[d] \in DrainPcs
  BY <1>1, DrainStarts DEF MaybeDrain, TypeInv, TypeOK, HandsFull, InFlight
<1>2. CASE Output \/ Unwedge
  BY <1>1, <1>2 DEF Output, Unwedge, TypeInv, TypeOK, mail, hold, pane
<1>3. CASE DialogOpens \/ DialogCloses \/ Wedge \/ ChildExit \/ Stop
  BY <1>3 DEF DialogOpens, DialogCloses, Wedge, ChildExit, Stop, TypeInv, TypeOK, HandsFull,
       InFlight, mail, run, hold
<1>4. ASSUME NEW m \in Msg, DeadlinePasses(m)
      PROVE  TypeInv'
  BY <1>4 DEF DeadlinePasses, TypeInv, TypeOK, HandsFull, InFlight, run, hold, pane, Clocks
<1>5. ASSUME NEW m \in Msg, Send(m)
      PROVE  TypeInv'
  <2>1. PICK s \in {"gate1", "done"} : pc' = [pc EXCEPT ![m] = s]
    BY <1>5 DEF Send
  <2>5. UNCHANGED <<queue, redelivering, clock, hand, sendMu, draining, hold, pane>>
    BY <1>5 DEF Send
  <2>2. fate' \in [Msg -> Fates]
    BY <1>5 DEF Send, TypeInv, TypeOK, Fates
  <2>3. m \in Actor /\ m \notin Drain
    BY ActorAssumption DEF Actor
  <2>4. HandsFull'
    BY <2>1, <2>3, <2>5, ActorAssumption DEF TypeInv, TypeOK, HandsFull, InFlight, Actor
  <2>6. /\ pc' \in [Actor -> MsgPcs \cup DrainPcs]
        /\ \A n \in Msg : pc'[n] \in MsgPcs
        /\ \A d \in Drain : pc'[d] \in DrainPcs
    BY <2>1, <2>3, PcMoves DEF MsgPcs, SendPcs
  <2> QED
    BY <2>2, <2>4, <2>5, <2>6 DEF TypeInv, TypeOK, hold, pane
<1> QED
  BY <1>2, <1>3, <1>4, <1>5 DEF PaneStep

LEMMA InitTypes == Init => TypeInv
<1> SUFFICES ASSUME Init PROVE TypeInv
  OBVIOUS
<1>1. TypeOK
  <2>1. /\ pc \in [Actor -> MsgPcs \cup DrainPcs]
        /\ \A m \in Msg : pc[m] \in MsgPcs
        /\ \A d \in Drain : pc[d] \in DrainPcs
    BY ActorAssumption DEF Init, Actor, MsgPcs, DrainPcs
  <2>2. queue \in Seq(Msg) /\ hand \in [Drain -> Msg \cup {NoMsg}]
    BY DEF Init
  <2>3. /\ clock \in [Msg -> Clocks] /\ fate \in [Msg -> Fates]
        /\ ctl \in [{"tick", "ipc"} -> CtlPcs] /\ dnd \in Holds
    BY DEF Init, Clocks, Fates, CtlPcs, Holds
  <2> QED
    BY <2>1, <2>2, <2>3 DEF Init, TypeOK
<1>2. HandsFull
  BY ActorAssumption DEF Init, HandsFull, InFlight, SendPcs, Actor
<1> QED
  BY <1>1, <1>2 DEF TypeInv

LEMMA NextTypes == TypeInv /\ [Next]_vars => TypeInv'
<1> SUFFICES ASSUME TypeInv, [Next]_vars PROVE TypeInv'
  OBVIOUS
<1>1. CASE UNCHANGED vars
  BY <1>1 DEF vars, TypeInv, TypeOK, HandsFull, InFlight
<1>2. CASE Next
  BY <1>2, SendStepTypes, DrainStepTypes, CtlStepTypes, PaneStepTypes DEF Next
<1> QED
  BY <1>1, <1>2

\* Every variable keeps its type, whatever the messages, drains and troubles.
THEOREM TypeCorrect == Spec => []TypeOK
<1>1. TypeInv => TypeOK
  BY DEF TypeInv
<1> QED
  BY <1>1, InitTypes, NextTypes, PTL DEF Spec

-----------------------------------------------------------------------------
(* Held mail is kept.  A held message is on the queue or in one hand; each  *)
(* hand of a sending drain holds a held message of its own, off the queue;  *)
(* a sender with no verdict yet has a message nobody else has seen.         *)

QueueHeld     == NoDup(queue) /\ \A m \in Elems(queue) : fate[m] = "held"
HandsHeld     == \A d \in Drain : InFlight(d) => fate[hand[d]] = "held" /\ hand[d] \notin Elems(queue)
HandsApart    == \A d, e \in Drain : InFlight(d) /\ InFlight(e) /\ hand[d] = hand[e] => d = e
HeldSomewhere(G) == \A m \in Msg \ G : fate[m] = "held" =>
                       m \in Elems(queue) \/ \E d \in Drain : InFlight(d) /\ hand[d] = m
SendersNew    == \A m \in Msg : pc[m] \in SendPcs \cup {"idle"} => fate[m] = "new"

Kept(G)    == QueueHeld /\ HandsHeld /\ HandsApart /\ HeldSomewhere(G) /\ SendersNew
KeptInv(G) == TypeInv /\ Kept(G)

\* What an actor carries through the send path is its own: off the queue, in no
\* other drain's hand, and no sender's that still waits for a verdict.
LEMMA CarriedIsOwn ==
    ASSUME NEW G, KeptInv(G), NEW a \in Actor, pc[a] \in SendPcs
    PROVE  /\ Carried(a) \notin Elems(queue)
           /\ \A d \in Drain : InFlight(d) /\ d # a => hand[d] # Carried(a)
           /\ \A n \in Msg : pc[n] \in SendPcs \cup {"idle"} /\ n # a => n # Carried(a)
           /\ a \in Msg => fate[a] = "new"
           /\ a \in Drain => fate[Carried(a)] = "held" /\ Carried(a) = hand[a]
<1>1. CASE a \in Msg
  BY <1>1, ActorAssumption DEF KeptInv, Kept, QueueHeld, HandsHeld, SendersNew, Carried
<1>2. CASE a \in Drain
  <2>1. a \notin Msg /\ InFlight(a) /\ Carried(a) = hand[a]
    BY <1>2, ActorAssumption DEF InFlight, Carried
  <2> QED
    BY <1>2, <2>1 DEF KeptInv, Kept, HandsHeld, HandsApart, SendersNew
<1> QED
  BY <1>1, <1>2 DEF Actor

\* A step along the send path keeps the mail.
LEMMA WalkKeeps ==
    ASSUME NEW G, KeptInv(G), NEW a \in Actor, pc[a] \in SendPcs, NEW s \in SendPcs,
           pc' = [pc EXCEPT ![a] = s], UNCHANGED <<queue, fate, hand>>
    PROVE  Kept(G)'
<1>1. /\ \A d \in Drain : InFlight(d)' <=> InFlight(d)
      /\ \A m \in Msg : pc'[m] \in SendPcs \cup {"idle"} => pc[m] \in SendPcs \cup {"idle"}
  BY DEF KeptInv, TypeInv, TypeOK, InFlight, Actor
<1> QED
  BY <1>1 DEF KeptInv, Kept, QueueHeld, HandsHeld, HandsApart, HeldSomewhere, SendersNew

\* Where the drains and the senders are after a send has its verdict.
LEMMA AfterSendLeaves ==
    ASSUME NEW G, KeptInv(G), NEW a \in Actor, pc[a] \in SendPcs, pc' = [pc EXCEPT ![a] = AfterSend(a)]
    PROVE  /\ \A d \in Drain : InFlight(d)' <=> InFlight(d) /\ d # a
           /\ \A m \in Msg : pc'[m] \in SendPcs \cup {"idle"} <=>
                                pc[m] \in SendPcs \cup {"idle"} /\ m # a
<1>1. /\ a \in Msg => AfterSend(a) = "done"
      /\ a \in Drain => AfterSend(a) = "end"
  BY ActorAssumption DEF AfterSend
<1>2. \A b \in Actor : pc'[b] = IF b = a THEN AfterSend(a) ELSE pc[b]
  BY DEF KeptInv, TypeInv, TypeOK
<1> QED
  BY <1>1, <1>2, ActorAssumption DEF InFlight, Actor, SendPcs

\* A verdict that is not "held" takes the message out of the line.
LEMMA VerdictKeeps ==
    ASSUME NEW G, KeptInv(G), NEW a \in Actor, pc[a] \in SendPcs, pc' = [pc EXCEPT ![a] = AfterSend(a)],
           NEW f \in Fates \ {"held"}, fate' = [fate EXCEPT ![Carried(a)] = f],
           UNCHANGED <<queue, hand>>
    PROVE  Kept(G)'
<1> DEFINE m == Carried(a)
<1>1. \A n \in Msg : fate'[n] = IF n = m THEN f ELSE fate[n]
  BY DEF KeptInv, TypeInv, TypeOK
<1>2. Elems(queue) \subseteq Msg
  BY DEF KeptInv, TypeInv, TypeOK, Elems
<1>3. \A d \in Drain : InFlight(d) => hand[d] \in Msg
  BY DEF KeptInv, TypeInv, HandsFull
<1>a. /\ m \notin Elems(queue)
      /\ \A d \in Drain : InFlight(d) /\ d # a => hand[d] # m
      /\ \A n \in Msg : pc[n] \in SendPcs \cup {"idle"} /\ n # a => n # m
      /\ a \in Drain => m = hand[a]
      /\ a \in Msg => m = a
  BY CarriedIsOwn DEF Carried
<1>b. /\ \A d \in Drain : InFlight(d)' <=> InFlight(d) /\ d # a
      /\ \A n \in Msg : pc'[n] \in SendPcs \cup {"idle"} <=>
                           pc[n] \in SendPcs \cup {"idle"} /\ n # a
  BY AfterSendLeaves
<1>c. hand' = hand
  OBVIOUS
<1> HIDE DEF m
<1>4. QueueHeld'
  BY <1>1, <1>2, <1>a DEF QueueHeld, KeptInv, Kept
<1>5. HandsHeld'
  BY <1>1, <1>3, <1>a, <1>b, <1>c DEF HandsHeld, KeptInv, Kept
<1>6. HandsApart'
  BY <1>b, <1>c DEF HandsApart, KeptInv, Kept
<1>7. HeldSomewhere(G)'
  BY <1>1, <1>a, <1>b, <1>c DEF HeldSomewhere, KeptInv, Kept, Actor
<1>8. SendersNew'
  BY <1>1, <1>a, <1>b DEF SendersNew, KeptInv, Kept
<1> QED
  BY <1>4, <1>5, <1>6, <1>7, <1>8 DEF Kept

\* A message held, at either end of the queue, is kept.
LEMMA HoldKeeps ==
    ASSUME NEW G, KeptInv(G), NEW a \in Actor, pc[a] \in SendPcs, pc' = [pc EXCEPT ![a] = AfterSend(a)],
           fate' = [fate EXCEPT ![Carried(a)] = "held"],
           Elems(queue') = Elems(queue) \cup {Carried(a)}, NoDup(queue'),
           UNCHANGED hand
    PROVE  Kept(G)'
<1> DEFINE m == Carried(a)
<1>1. \A n \in Msg : fate'[n] = IF n = m THEN "held" ELSE fate[n]
  BY DEF KeptInv, TypeInv, TypeOK
<1>2. Elems(queue) \subseteq Msg /\ m \in Msg
  BY CarriedIsMsg DEF KeptInv, TypeInv, TypeOK, Elems
<1>3. \A d \in Drain : InFlight(d) => hand[d] \in Msg
  BY DEF KeptInv, TypeInv, HandsFull
<1>a. /\ m \notin Elems(queue)
      /\ \A d \in Drain : InFlight(d) /\ d # a => hand[d] # m
      /\ \A n \in Msg : pc[n] \in SendPcs \cup {"idle"} /\ n # a => n # m
      /\ a \in Drain => m = hand[a]
      /\ a \in Msg => m = a
  BY CarriedIsOwn DEF Carried
<1>b. /\ \A d \in Drain : InFlight(d)' <=> InFlight(d) /\ d # a
      /\ \A n \in Msg : pc'[n] \in SendPcs \cup {"idle"} <=>
                           pc[n] \in SendPcs \cup {"idle"} /\ n # a
  BY AfterSendLeaves
<1>c. hand' = hand /\ Elems(queue') = Elems(queue) \cup {m}
  OBVIOUS
<1> HIDE DEF m
<1>4. QueueHeld'
  BY <1>1, <1>2, <1>c DEF QueueHeld, KeptInv, Kept
<1>5. HandsHeld'
  BY <1>1, <1>3, <1>a, <1>b, <1>c DEF HandsHeld, KeptInv, Kept
<1>6. HandsApart'
  BY <1>b, <1>c DEF HandsApart, KeptInv, Kept
<1>7. HeldSomewhere(G)'
  BY <1>1, <1>a, <1>b, <1>c DEF HeldSomewhere, KeptInv, Kept, Actor
<1>8. SendersNew'
  BY <1>1, <1>a, <1>b DEF SendersNew, KeptInv, Kept
<1> QED
  BY <1>4, <1>5, <1>6, <1>7, <1>8 DEF Kept

\* Refusing, enqueueing and holding each keep the mail.
LEMMA HoldOrRefuseKeeps ==
    ASSUME NEW G, KeptInv(G), NEW a \in Actor, pc[a] \in SendPcs,
           pc' = [pc EXCEPT ![a] = AfterSend(a)], UNCHANGED hand
    PROVE  /\ Refuse(a) /\ queue' = queue => Kept(G)'
           /\ \A c \in Clocks : Enqueue(a, c) => Kept(G)'
           /\ HoldIfDND(a) => Kept(G)'
<1> DEFINE m == Carried(a)
<1>1. m \in Msg /\ m \notin Elems(queue) /\ queue \in Seq(Msg) /\ NoDup(queue)
  BY CarriedIsMsg, CarriedIsOwn DEF KeptInv, Kept, QueueHeld, TypeInv, TypeOK
<1>2. ASSUME Refuse(a), queue' = queue
      PROVE  Kept(G)'
  <2>1. CASE a \in Msg
    BY <1>2, <2>1, VerdictKeeps DEF Refuse, Fates
  <2>2. CASE a \notin Msg
    BY <1>2, <2>2, VerdictKeeps DEF Refuse, Fates
  <2> QED
    BY <2>1, <2>2
<1>3. ASSUME NEW c \in Clocks, Enqueue(a, c)
      PROVE  Kept(G)'
  <2>1. CASE Full
    BY <1>2, <1>3, <2>1 DEF Enqueue
  <2>2. CASE ~Full
    <3>1. queue' = Append(queue, m) /\ fate' = [fate EXCEPT ![m] = "held"]
      BY <1>3, <2>2 DEF Enqueue
    <3>2. Elems(queue') = Elems(queue) \cup {m} /\ NoDup(queue')
      BY <1>1, <3>1, AppendElems
    <3> QED
      BY <3>1, <3>2, HoldKeeps
  <2> QED
    BY <2>1, <2>2
<1>4. ASSUME HoldIfDND(a)
      PROVE  Kept(G)'
  <2>1. CASE IsRedelivery(m)
    <3>1. queue' = <<m>> \o queue /\ fate' = [fate EXCEPT ![m] = "held"]
      BY <1>4, <2>1 DEF HoldIfDND
    <3>2. Elems(queue') = Elems(queue) \cup {m} /\ NoDup(queue')
      BY <1>1, <3>1, FrontElems
    <3> QED
      BY <3>1, <3>2, HoldKeeps
  <2>2. CASE ~IsRedelivery(m)
    BY <1>3, <1>4, <2>2 DEF HoldIfDND, Clocks
  <2> QED
    BY <2>1, <2>2
<1> QED
  BY <1>2, <1>3, <1>4

\* Every step of the send path keeps the mail.
LEMMA SendStepKeeps ==
    ASSUME NEW G, KeptInv(G), NEW a \in Actor, SendStep(a)
    PROVE  Kept(G)'
<1> DEFINE m == Carried(a)
<1>1. pc[a] \in SendPcs
  BY DEF SendStep, Gate1, Gate2, Gate, Lock, GuardNoPTY, GuardHold, GuardClear,
       WriteBody, WritePartial, WriteNotReached, PutBack, SendPcs
<1>2. ASSUME HoldInSend(a), hand' = hand
      PROVE  Kept(G)'
  <2>1. CASE IsRedelivery(m)
    BY <1>1, <1>2, <2>1, WalkKeeps DEF HoldInSend, SendPcs
  <2>2. CASE ~IsRedelivery(m)
    BY <1>1, <1>2, <2>2, HoldOrRefuseKeeps DEF HoldInSend, EndSend, Clocks
  <2> QED
    BY <2>1, <2>2
<1>3. ASSUME NEW from \in SendPcs, NEW to \in SendPcs, Gate(a, from, to)
      PROVE  Kept(G)'
  <2>0. hand' = hand
    BY <1>3 DEF Gate
  <2>1. CASE Ruling(a) = "through"
    BY <1>1, <1>3, <2>0, <2>1, WalkKeeps DEF Gate, mail
  <2>2. CASE Ruling(a) = "refused"
    BY <1>1, <1>3, <2>0, <2>2, HoldOrRefuseKeeps DEF Gate
  <2>3. CASE Ruling(a) = "waits"
    BY <1>1, <1>3, <2>0, <2>3, HoldOrRefuseKeeps DEF Gate
  <2> QED
    BY <1>3, <2>1, <2>2, <2>3 DEF Gate
<1>4. CASE Gate1(a)
  BY <1>3, <1>4 DEF Gate1, SendPcs
<1>5. CASE Gate2(a)
  BY <1>3, <1>5 DEF Gate2, SendPcs
<1>6. CASE Lock(a)
  BY <1>1, <1>6, WalkKeeps DEF Lock, mail, SendPcs
<1>7. CASE GuardNoPTY(a)
  <2>1. PICK f \in {"refused", "lost"} : fate' = [fate EXCEPT ![m] = f]
    BY <1>7 DEF GuardNoPTY
  <2> QED
    BY <1>1, <1>7, <2>1, VerdictKeeps DEF GuardNoPTY, EndSend, Fates
<1>8. CASE GuardHold(a)
  BY <1>2, <1>8 DEF GuardHold
<1>9. CASE GuardClear(a)
  BY <1>1, <1>9, WalkKeeps DEF GuardClear, mail, SendPcs
<1>10. CASE WriteBody(a)
  BY <1>1, <1>10, VerdictKeeps DEF WriteBody, EndSend, Fates
<1>11. CASE WritePartial(a)
  BY <1>1, <1>11, VerdictKeeps DEF WritePartial, EndSend, Fates
<1>12. CASE WriteNotReached(a)
  BY <1>2, <1>12 DEF WriteNotReached
<1>13. CASE PutBack(a)
  <2>1. m \in Msg /\ m \notin Elems(queue) /\ queue \in Seq(Msg) /\ NoDup(queue)
    BY <1>1, CarriedIsMsg, CarriedIsOwn DEF KeptInv, Kept, QueueHeld, TypeInv, TypeOK
  <2>2. queue' = <<m>> \o queue /\ fate' = [fate EXCEPT ![m] = "held"]
    BY <1>13 DEF PutBack
  <2>3. Elems(queue') = Elems(queue) \cup {m} /\ NoDup(queue')
    BY <2>1, <2>2, FrontElems
  <2> QED
    BY <1>1, <1>13, <2>2, <2>3, HoldKeeps DEF PutBack, EndSend
<1> QED
  BY <1>4, <1>5, <1>6, <1>7, <1>8, <1>9, <1>10, <1>11, <1>12, <1>13 DEF SendStep

\* A step that leaves the queue, the fates and every sending hand keeps the mail.
LEMMA FrameKeeps ==
    ASSUME NEW G, KeptInv(G), UNCHANGED <<queue, fate>>,
           \A d \in Drain : InFlight(d)' <=> InFlight(d),
           \A d \in Drain : InFlight(d) => hand'[d] = hand[d],
           \A m \in Msg : pc'[m] \in SendPcs \cup {"idle"} => pc[m] \in SendPcs \cup {"idle"}
    PROVE  Kept(G)'
BY DEF KeptInv, Kept, QueueHeld, HandsHeld, HandsApart, HeldSomewhere, SendersNew

\* Every step of the drain keeps the mail.
LEMMA DrainStepKeeps ==
    ASSUME NEW G, KeptInv(G), NEW d \in Drain, DrainStep(d)
    PROVE  Kept(G)'
<1>0. /\ d \in Actor /\ d \notin Msg /\ Drain \subseteq Actor /\ Msg \subseteq Actor
      /\ pc \in [Actor -> MsgPcs \cup DrainPcs] /\ hand \in [Drain -> Msg \cup {NoMsg}]
      /\ queue \in Seq(Msg) /\ NoDup(queue)
  BY ActorAssumption DEF Actor, KeptInv, TypeInv, TypeOK, Kept, QueueHeld
<1>1. ASSUME NEW s, s \notin SendPcs \cup {"begin"}, pc[d] \notin SendPcs \cup {"begin"},
             pc' = [pc EXCEPT ![d] = s], UNCHANGED <<queue, fate>>,
             \A e \in Drain \ {d} : hand'[e] = hand[e]
      PROVE  Kept(G)'
  <2>1. /\ \A e \in Drain : InFlight(e)' <=> InFlight(e)
        /\ \A e \in Drain : InFlight(e) => hand'[e] = hand[e]
        /\ \A m \in Msg : pc'[m] = pc[m]
    BY <1>0, <1>1 DEF InFlight
  <2> QED
    BY <1>1, <2>1, FrameKeeps
<1>2. CASE DrainCheck(d)
  <2>1. PICK s \in {"return", "pop"} : pc' = [pc EXCEPT ![d] = s]
    BY <1>2 DEF DrainCheck
  <2> QED
    BY <1>1, <1>2, <2>1 DEF DrainCheck, mail, SendPcs
<1>3. CASE DrainPop(d) /\ queue = <<>>
  BY <1>1, <1>3 DEF DrainPop, SendPcs
<1>4. CASE DrainPop(d) /\ queue # <<>>
  <2> DEFINE m == Head(queue)
  <2>1. /\ pc[d] = "pop" /\ pc' = [pc EXCEPT ![d] = "begin"]
        /\ hand' = [hand EXCEPT ![d] = m] /\ queue' = Tail(queue) /\ fate' = fate
    BY <1>4 DEF DrainPop
  <2>2. /\ m \in Msg
        /\ Elems(queue) = Elems(queue') \cup {m} /\ m \notin Elems(queue') /\ NoDup(queue')
    BY <1>0, <1>4, <2>1, TailElems
  <2>3. /\ fate[m] = "held"
        /\ \A e \in Drain : InFlight(e) => hand[e] # m
    BY <2>2 DEF KeptInv, Kept, QueueHeld, HandsHeld
  <2>4. /\ \A e \in Drain : InFlight(e)' <=> InFlight(e) \/ e = d
        /\ ~InFlight(d)
        /\ \A e \in Drain : hand'[e] = IF e = d THEN m ELSE hand[e]
        /\ \A n \in Msg : pc'[n] = pc[n]
    BY <1>0, <2>1 DEF InFlight, SendPcs
  <2> HIDE DEF m
  <2>5. QueueHeld'
    BY <2>1, <2>2 DEF QueueHeld, KeptInv, Kept
  <2>6. HandsHeld'
    BY <2>1, <2>2, <2>3, <2>4 DEF HandsHeld, KeptInv, Kept
  <2>7. HandsApart'
    BY <2>3, <2>4 DEF HandsApart, KeptInv, Kept
  <2>8. HeldSomewhere(G)'
    <3> SUFFICES ASSUME NEW n \in Msg \ G, fate[n] = "held", n \notin Elems(queue')
                 PROVE  \E e \in Drain : InFlight(e)' /\ hand'[e] = n
      BY <2>1 DEF HeldSomewhere
    <3>1. CASE n = m
      BY <2>4, <3>1
    <3>2. CASE n # m
      <4>1. PICK e \in Drain : InFlight(e) /\ hand[e] = n
        BY <2>2, <3>2 DEF HeldSomewhere, KeptInv, Kept
      <4> QED
        BY <2>4, <4>1
    <3> QED
      BY <3>1, <3>2
  <2>9. SendersNew'
    BY <2>1, <2>4 DEF SendersNew, KeptInv, Kept
  <2> QED
    BY <2>5, <2>6, <2>7, <2>8, <2>9 DEF Kept
<1>5. CASE DrainBegin(d)
  <2>1. /\ pc[d] = "begin" /\ pc' = [pc EXCEPT ![d] = "gate1"]
        /\ UNCHANGED <<queue, fate, hand>>
    BY <1>5 DEF DrainBegin
  <2>2. /\ \A e \in Drain : InFlight(e)' <=> InFlight(e)
        /\ \A m \in Msg : pc'[m] = pc[m]
    BY <1>0, <2>1 DEF InFlight, SendPcs
  <2> QED
    BY <2>1, <2>2, FrameKeeps
<1>6. CASE DrainEnd(d)
  <2>1. PICK s \in {"check", "return"} : pc' = [pc EXCEPT ![d] = s]
    BY <1>6 DEF DrainEnd
  <2>2. \A e \in Drain \ {d} : hand'[e] = hand[e]
    BY <1>0, <1>6 DEF DrainEnd
  <2> QED
    BY <1>1, <1>6, <2>1, <2>2 DEF DrainEnd, SendPcs
<1>7. CASE DrainReturn(d)
  BY <1>1, <1>7 DEF DrainReturn, mail, SendPcs
<1> QED
  BY <1>2, <1>3, <1>4, <1>5, <1>6, <1>7 DEF DrainStep

\* Every step of do-not-disturb and of the tick keeps the mail.
LEMMA CtlStepKeeps ==
    ASSUME NEW G, KeptInv(G), TickStep \/ DNDOff \/ DNDOffDone \/ \E h \in DNDKinds : DNDOn(h)
    PROVE  Kept(G)'
<1>1. ASSUME UNCHANGED <<queue, fate, hand>>, pc' = pc \/ StartDrain
      PROVE  Kept(G)'
  <2>1. /\ \A d \in Drain : InFlight(d)' <=> InFlight(d)
        /\ \A m \in Msg : pc'[m] = pc[m]
    BY <1>1, DrainStarts DEF InFlight, KeptInv
  <2> QED
    BY <1>1, <2>1, FrameKeeps
<1>2. CASE TickResolve
  <2>1. /\ queue' \in Without(queue, GivenUp)
        /\ UNCHANGED <<hand, pc>>
        /\ fate' = [m \in Msg |-> IF m \in GivenUp THEN "overdue" ELSE fate[m]]
    BY <1>2 DEF TickResolve, run
  <2>2. Elems(queue') = Elems(queue) \ GivenUp /\ NoDup(queue') /\ Elems(queue) \subseteq Msg
    BY <2>1, WithoutElems DEF KeptInv, TypeInv, TypeOK, Elems
  <2>3. GivenUp \subseteq Elems(queue)
    BY DEF GivenUp
  <2>4. \A m \in GivenUp : fate[m] = "held"
    BY <2>3 DEF KeptInv, Kept, QueueHeld
  <2>5. QueueHeld'
    BY <2>1, <2>2 DEF KeptInv, Kept, QueueHeld
  <2>6. HandsHeld'
    BY <2>1, <2>2, <2>3 DEF KeptInv, Kept, TypeInv, HandsFull, HandsHeld, InFlight
  <2>7. HandsApart'
    BY <2>1 DEF KeptInv, Kept, HandsApart, InFlight
  <2>8. HeldSomewhere(G)'
    BY <2>1, <2>2 DEF KeptInv, Kept, HeldSomewhere, InFlight
  <2>9. SendersNew'
    BY <2>1, <2>4 DEF KeptInv, Kept, SendersNew
  <2> QED
    BY <2>5, <2>6, <2>7, <2>8, <2>9 DEF Kept
<1>3. CASE TickReport
  BY <1>3 DEF TickReport, run, KeptInv, TypeInv, TypeOK, HandsFull, Kept, QueueHeld, HandsHeld,
       HandsApart, HeldSomewhere, SendersNew, InFlight, Elems
<1> QED
  BY <1>1, <1>2, <1>3 DEF TickStep, TickRead, TickEndDND, TickStart, TickSkip, TickDrain, DNDOff,
       DNDOffDone, DNDOn, EndDND, EndDNDStart, mail, run

\* Every step of the pane, every send begun and every deadline passed keeps it.
LEMMA PaneStepKeeps ==
    ASSUME NEW G, KeptInv(G), PaneStep \/ \E m \in Msg : Send(m) \/ DeadlinePasses(m)
    PROVE  Kept(G)'
<1>1. ASSUME UNCHANGED <<queue, fate, hand>>, pc' = pc \/ StartDrain
      PROVE  Kept(G)'
  <2>1. /\ \A d \in Drain : InFlight(d)' <=> InFlight(d)
        /\ \A m \in Msg : pc'[m] = pc[m]
    BY <1>1, DrainStarts DEF InFlight, KeptInv
  <2> QED
    BY <1>1, <2>1, FrameKeeps
<1>2. CASE PaneStep
  BY <1>1, <1>2 DEF PaneStep, DialogOpens, DialogCloses, Output, Wedge, Unwedge, ChildExit, Stop,
       MaybeDrain, mail, run
<1>3. ASSUME NEW m \in Msg, DeadlinePasses(m)
      PROVE  Kept(G)'
  BY <1>1, <1>3 DEF DeadlinePasses, run
<1>4. ASSUME NEW m \in Msg, Send(m)
      PROVE  Kept(G)'
  <2>1. /\ pc[m] = "idle" /\ m \in Actor /\ m \notin Drain
        /\ pc \in [Actor -> MsgPcs \cup DrainPcs] /\ fate \in [Msg -> Fates]
        /\ fate[m] = "new"
        /\ UNCHANGED <<queue, hand>>
    BY <1>4, ActorAssumption DEF Send, Actor, KeptInv, TypeInv, TypeOK, Kept, SendersNew
  <2>2. \A d \in Drain : InFlight(d)' <=> InFlight(d)
    BY <1>4, <2>1 DEF Send, InFlight, Actor
  <2>3. CASE alive
    <3>1. pc' = [pc EXCEPT ![m] = "gate1"] /\ fate' = fate
      BY <1>4, <2>3 DEF Send
    <3>2. \A n \in Msg : pc'[n] \in SendPcs \cup {"idle"} => pc[n] \in SendPcs \cup {"idle"}
      BY <2>1, <3>1 DEF Actor
    <3> QED
      BY <2>1, <2>2, <3>1, <3>2, FrameKeeps
  <2>4. CASE ~alive
    <3>1. pc' = [pc EXCEPT ![m] = "done"] /\ fate' = [fate EXCEPT ![m] = "refused"]
      BY <1>4, <2>4 DEF Send
    <3>2. \A n \in Msg : fate'[n] = IF n = m THEN "refused" ELSE fate[n]
      BY <2>1, <3>1
    <3>3. Elems(queue) \subseteq Msg /\ m \notin Elems(queue)
      BY <2>1 DEF KeptInv, TypeInv, TypeOK, Kept, QueueHeld, Elems
    <3>4. \A d \in Drain : InFlight(d) => hand[d] \in Msg /\ hand[d] # m
      BY <2>1 DEF KeptInv, TypeInv, HandsFull, Kept, HandsHeld
    <3>5. QueueHeld'
      BY <2>1, <3>2, <3>3 DEF KeptInv, Kept, QueueHeld
    <3>6. HandsHeld'
      BY <2>1, <2>2, <3>2, <3>4 DEF KeptInv, Kept, HandsHeld
    <3>7. HandsApart'
      BY <2>1, <2>2 DEF KeptInv, Kept, HandsApart
    <3>8. HeldSomewhere(G)'
      BY <2>1, <2>2, <3>2 DEF KeptInv, Kept, HeldSomewhere
    <3>9. SendersNew'
      <4>1. \A n \in Msg : pc'[n] \in SendPcs \cup {"idle"} =>
               n # m /\ pc[n] \in SendPcs \cup {"idle"}
        BY <2>1, <3>1 DEF SendPcs, Actor
      <4> QED
        BY <3>2, <4>1 DEF KeptInv, Kept, SendersNew
    <3> QED
      BY <3>5, <3>6, <3>7, <3>8, <3>9 DEF Kept
  <2> QED
    BY <2>3, <2>4
<1> QED
  BY <1>2, <1>3, <1>4

LEMMA InitKeeps == Init => KeptInv({})
<1> SUFFICES ASSUME Init PROVE KeptInv({})
  OBVIOUS
<1>1. queue = <<>> /\ Elems(queue) = {} /\ NoDup(queue)
  BY DEF Init, Elems, NoDup
<1>2. \A d \in Drain : ~InFlight(d)
  BY ActorAssumption DEF Init, InFlight, SendPcs, Actor
<1>3. \A m \in Msg : fate[m] = "new"
  BY DEF Init
<1> QED
  BY <1>1, <1>2, <1>3, InitTypes DEF KeptInv, Kept, QueueHeld, HandsHeld, HandsApart,
       HeldSomewhere, SendersNew

LEMMA NextKeeps ==
    ASSUME NEW G, KeptInv(G), [Next]_vars
    PROVE  KeptInv(G)'
<1> SUFFICES Kept(G)'
  BY NextTypes DEF KeptInv
<1>1. CASE UNCHANGED vars
  BY <1>1 DEF vars, KeptInv, Kept, QueueHeld, HandsHeld, HandsApart, HeldSomewhere, SendersNew,
       InFlight
<1>2. CASE Next
  BY <1>2, SendStepKeeps, DrainStepKeeps, CtlStepKeeps, PaneStepKeeps DEF Next
<1> QED
  BY <1>1, <1>2

\* The invariant behind the next two theorems.
LEMMA KeptAlways == Spec => []KeptInv({})
<1>1. KeptInv({}) /\ [Next]_vars => KeptInv({})'
  BY NextKeeps
<1> QED
  BY InitKeeps, <1>1, PTL DEF Spec

\* A message told "held" is on the queue once or in the hand of a drain sending it,
\* and nothing else is there, whatever the senders, the drains and the tick do
\* and in whatever order (held_mail.go, "never silently dropped").
THEOREM HeldMailIsKept == Spec => []HeldMailKept
<1>1. KeptInv({}) => HeldMailKept
  <2> SUFFICES ASSUME KeptInv({}) PROVE HeldMailKept
    OBVIOUS
  <2>1. ASSUME NEW m \in Elems(queue) PROVE fate[m] = "held"
    BY <2>1 DEF KeptInv, Kept, QueueHeld
  <2> QED
    BY <2>1 DEF HeldMailKept, KeptInv, Kept, QueueHeld, HandsHeld, HeldSomewhere
<1> QED
  BY <1>1, KeptAlways, PTL

-----------------------------------------------------------------------------
(* A verdict is final.                                                      *)

FateStays == \A m \in Msg : fate[m] \in Terminal => fate'[m] = fate[m]

\* No step changes the verdict on a message that has one.
LEMMA NextFinal ==
    ASSUME NEW G, KeptInv(G), Next
    PROVE  FateStays
<1>0. fate \in [Msg -> Fates] /\ "held" \notin Terminal /\ "new" \notin Terminal /\ "overdue" \notin Terminal
  BY DEF KeptInv, TypeInv, TypeOK, Terminal
<1>1. ASSUME NEW a \in Actor, SendStep(a)
      PROVE  FateStays
  <2>1. pc[a] \in SendPcs
    BY <1>1 DEF SendStep, Gate1, Gate2, Gate, Lock, GuardNoPTY, GuardHold, GuardClear,
         WriteBody, WritePartial, WriteNotReached, PutBack, SendPcs
  <2>2. fate[Carried(a)] \notin Terminal
    BY <1>0, <2>1, CarriedIsOwn DEF Carried, Actor
  <2>3. ASSUME NEW f, fate' = [fate EXCEPT ![Carried(a)] = f]
        PROVE  FateStays
    BY <1>0, <2>2, <2>3 DEF FateStays
  <2>4. fate' = fate => FateStays
    BY DEF FateStays
  <2>5. fate' = fate \/ \E f \in Fates : fate' = [fate EXCEPT ![Carried(a)] = f]
    <3>1. /\ Refuse(a) => \E f \in Fates : fate' = [fate EXCEPT ![Carried(a)] = f]
          /\ \A c \in Clocks : Enqueue(a, c) => \E f \in Fates : fate' = [fate EXCEPT ![Carried(a)] = f]
      BY DEF Refuse, Enqueue, Fates
    <3>2. HoldIfDND(a) => \E f \in Fates : fate' = [fate EXCEPT ![Carried(a)] = f]
      BY <3>1 DEF HoldIfDND, Fates, Clocks
    <3>3. HoldInSend(a) => fate' = fate \/ \E f \in Fates : fate' = [fate EXCEPT ![Carried(a)] = f]
      BY <3>1 DEF HoldInSend, Clocks
    <3>4. CASE Gate1(a) \/ Gate2(a)
      BY <3>1, <3>2, <3>4 DEF Gate1, Gate2, Gate, mail
    <3>5. CASE GuardNoPTY(a)
      <4>1. PICK f \in {"refused", "lost"} : fate' = [fate EXCEPT ![Carried(a)] = f]
        BY <3>5 DEF GuardNoPTY
      <4> QED
        BY <4>1 DEF Fates
    <3>6. CASE ~(Gate1(a) \/ Gate2(a) \/ GuardNoPTY(a))
      BY <1>1, <3>3, <3>6 DEF SendStep, Lock, GuardHold, GuardClear, WriteBody, WritePartial,
           WriteNotReached, PutBack, mail, Fates
    <3> QED
      BY <3>4, <3>5, <3>6
  <2> QED
    BY <2>3, <2>4, <2>5
<1>2. CASE TickResolve
  <2>1. \A m \in GivenUp : fate[m] = "held"
    BY DEF GivenUp, KeptInv, Kept, QueueHeld
  <2> QED
    BY <1>0, <1>2, <2>1 DEF TickResolve, FateStays
<1>3. CASE TickReport
  BY <1>0, <1>3 DEF TickReport, FateStays
<1>4. ASSUME NEW m \in Msg, Send(m)
      PROVE  FateStays
  BY <1>0, <1>4 DEF Send, FateStays, KeptInv, Kept, SendersNew
<1>5. CASE UNCHANGED fate
  BY <1>5 DEF FateStays
<1> QED
  BY <1>1, <1>2, <1>3, <1>4, <1>5 DEF Next, DrainStep, DrainCheck, DrainPop, DrainBegin, DrainEnd,
       DrainReturn, TickStep, TickRead, TickEndDND, TickStart, TickSkip, TickDrain, DNDOn, DNDOff,
       DNDOffDone, EndDND, EndDNDStart, PaneStep, DialogOpens, DialogCloses, Output, Wedge, Unwedge,
       ChildExit, Stop, DeadlinePasses, mail

\* No message is typed after its sender was told it was not delivered, reported
\* after it was typed, or typed again after it may have arrived.
THEOREM FateIsFinal == Spec => FateFinal
<1>1. KeptInv({}) /\ [Next]_vars => [FateStays]_vars
  BY NextFinal
<1>2. Spec => [][FateStays]_vars
  BY <1>1, KeptAlways, PTL DEF Spec
<1> QED
  BY <1>2 DEF FateFinal, FateStays

-----------------------------------------------------------------------------
(* At most one message is lost with the terminal.  Only one drain is at     *)
(* work; the terminal goes after the process; a drain that has lost its     *)
(* message sees the dead process and pops no other.                         *)

SingleFlight == /\ \A d \in Drain : pc[d] # "off" => draining
                /\ \A d, e \in Drain : pc[d] # "off" /\ pc[e] # "off" => d = e
LossEndsDrains == \A m \in Msg : fate[m] = "lost" =>
                     ~pty /\ \A d \in Drain : pc[d] \in {"off", "check", "end", "return"}

LossInv == TypeInv /\ SingleFlight /\ (~pty => ~alive) /\ LossEndsDrains /\ LossBounded

\* A step that starts no drain and moves one actor that was already moving keeps
\* the drain single.
LEMMA OneMoves ==
    ASSUME TypeInv, SingleFlight, NEW a \in Actor, NEW s, a \in Drain => pc[a] # "off",
           pc' = [pc EXCEPT ![a] = s], draining' = draining
    PROVE  SingleFlight'
BY DEF SingleFlight, TypeInv, TypeOK, Actor

LEMMA StartIsSingle ==
    ASSUME TypeInv, SingleFlight, StartDrain
    PROVE  /\ SingleFlight'
           /\ \A d \in Drain : pc'[d] = pc[d] \/ pc'[d] = "check"
<1>1. CASE draining
  BY <1>1 DEF StartDrain, SingleFlight
<1>2. CASE ~draining
  <2>1. PICK d \in Drain : pc[d] = "off" /\ pc' = [pc EXCEPT ![d] = "check"] /\ draining'
    BY <1>2 DEF StartDrain
  <2>2. \A e \in Drain : pc'[e] = IF e = d THEN "check" ELSE pc[e]
    BY <2>1, ActorAssumption DEF TypeInv, TypeOK, Actor
  <2>3. \A e \in Drain : pc[e] = "off"
    BY <1>2 DEF SingleFlight
  <2> QED
    BY <2>1, <2>2, <2>3 DEF SingleFlight
<1> QED
  BY <1>1, <1>2

\* What a step of the send path does to the program counters.
LEMMA SendStepMoves ==
    ASSUME NEW a \in Actor, SendStep(a)
    PROVE  /\ pc[a] \in SendPcs /\ draining' = draining /\ UNCHANGED <<hand, alive, pty>>
           /\ \E s : pc' = [pc EXCEPT ![a] = s]
BY DEF SendStep, Gate1, Gate2, Gate, Lock, GuardNoPTY, GuardHold, GuardClear, WriteBody,
     WritePartial, WriteNotReached, PutBack, HoldInSend, EndSend, SendPcs, mail, pane

\* The drain stays single through every step.
LEMMA SingleFlightStays ==
    ASSUME TypeInv, SingleFlight, Next
    PROVE  SingleFlight'
<1>1. ASSUME NEW a \in Actor, SendStep(a)
      PROVE  SingleFlight'
  <2>1. /\ pc[a] \in SendPcs /\ draining' = draining
        /\ \E s : pc' = [pc EXCEPT ![a] = s]
    BY <1>1, SendStepMoves
  <2> QED
    BY <2>1, OneMoves DEF SendPcs
<1>2. ASSUME NEW d \in Drain, DrainStep(d)
      PROVE  SingleFlight'
  <2>0. d \in Actor
    BY DEF Actor
  <2>1. CASE DrainReturn(d)
    BY <2>0, <2>1 DEF DrainReturn, SingleFlight, TypeInv, TypeOK, Actor
  <2>2. CASE ~DrainReturn(d)
    <3>1. /\ pc[d] # "off" /\ draining' = draining
          /\ \E s : pc' = [pc EXCEPT ![d] = s]
      BY <1>2, <2>2 DEF DrainStep, DrainCheck, DrainPop, DrainBegin, DrainEnd
    <3> QED
      BY <2>0, <3>1, OneMoves
  <2> QED
    BY <2>1, <2>2
<1>3. CASE StartDrain
  BY <1>3, StartIsSingle
<1>4. CASE UNCHANGED <<pc, draining>>
  BY <1>4 DEF SingleFlight
<1>5. ASSUME NEW m \in Msg, Send(m)
      PROVE  SingleFlight'
  <2>1. m \in Actor /\ m \notin Drain /\ draining' = draining /\ \E s : pc' = [pc EXCEPT ![m] = s]
    BY <1>5, ActorAssumption DEF Send, Actor
  <2> QED
    BY <2>1, OneMoves
<1> QED
  BY <1>1, <1>2, <1>3, <1>4, <1>5 DEF Next, TickStep, TickRead, TickEndDND, TickStart, TickSkip,
     TickResolve, TickReport, TickDrain, DNDOn, DNDOff, DNDOffDone, EndDND, EndDNDStart, PaneStep,
     DialogOpens, DialogCloses, Output, Wedge, Unwedge, ChildExit, Stop, DeadlinePasses, MaybeDrain,
     run

\* Losses happen only where a drain finds the terminal gone.
LEMMA OnlyNoPTYLoses ==
    ASSUME TypeInv, Next, \A d \in Drain : ~GuardNoPTY(d)
    PROVE  \A m \in Msg : fate'[m] = "lost" => fate[m] = "lost"
<1> DEFINE NoLoss == \A m \in Msg : fate'[m] = "lost" => fate[m] = "lost"
<1>0. fate \in [Msg -> Fates]
  BY DEF TypeInv, TypeOK
<1>1. ASSUME NEW a \in Actor, SendStep(a)
      PROVE  NoLoss
  <2>1. ASSUME NEW f \in Fates \ {"lost"}, fate' = [fate EXCEPT ![Carried(a)] = f]
        PROVE  NoLoss
    BY <1>0, <2>1
  <2>2. fate' = fate \/ \E f \in Fates \ {"lost"} : fate' = [fate EXCEPT ![Carried(a)] = f]
    <3>1. /\ Refuse(a) => \E f \in Fates \ {"lost"} : fate' = [fate EXCEPT ![Carried(a)] = f]
          /\ \A c \in Clocks : Enqueue(a, c) =>
                \E f \in Fates \ {"lost"} : fate' = [fate EXCEPT ![Carried(a)] = f]
      BY DEF Refuse, Enqueue, Fates
    <3>2. HoldIfDND(a) => \E f \in Fates \ {"lost"} : fate' = [fate EXCEPT ![Carried(a)] = f]
      BY <3>1 DEF HoldIfDND, Fates, Clocks
    <3>3. HoldInSend(a) => fate' = fate \/
             \E f \in Fates \ {"lost"} : fate' = [fate EXCEPT ![Carried(a)] = f]
      BY <3>1 DEF HoldInSend, Clocks
    <3>4. CASE Gate1(a) \/ Gate2(a)
      BY <3>1, <3>2, <3>4 DEF Gate1, Gate2, Gate, mail
    <3>5. CASE GuardNoPTY(a)
      BY <3>5 DEF GuardNoPTY, Actor, Fates
    <3>6. CASE ~(Gate1(a) \/ Gate2(a) \/ GuardNoPTY(a))
      BY <1>1, <3>3, <3>6 DEF SendStep, Lock, GuardHold, GuardClear, WriteBody, WritePartial,
           WriteNotReached, PutBack, mail, Fates
    <3> QED
      BY <3>4, <3>5, <3>6
  <2> QED
    BY <2>1, <2>2
<1>2. CASE TickResolve \/ TickReport
  BY <1>2 DEF TickResolve, TickReport
<1>3. ASSUME NEW m \in Msg, Send(m)
      PROVE  NoLoss
  BY <1>0, <1>3 DEF Send
<1>4. CASE UNCHANGED fate
  BY <1>4
<1> QED
  BY <1>1, <1>2, <1>3, <1>4 DEF Next, DrainStep, DrainCheck, DrainPop, DrainBegin, DrainEnd,
       DrainReturn, TickStep, TickRead, TickEndDND, TickStart, TickSkip, TickDrain, DNDOn, DNDOff,
       DNDOffDone, EndDND, EndDNDStart, PaneStep, DialogOpens, DialogCloses, Output, Wedge, Unwedge,
       ChildExit, Stop, DeadlinePasses, mail

\* The terminal and the process never come back in this module.
LEMMA GoneStaysGone ==
    ASSUME Next
    PROVE  (pty' => pty) /\ (alive' => alive) /\ ((~pty => ~alive) => (~pty' => ~alive'))
<1>1. ASSUME NEW a \in Actor, SendStep(a)
      PROVE  UNCHANGED <<alive, pty>>
  BY <1>1, SendStepMoves
<1> QED
  BY <1>1 DEF Next, Send, DrainStep, DrainCheck, DrainPop, DrainBegin, DrainEnd, DrainReturn, TickStep,
     TickRead, TickEndDND, TickStart, TickSkip, TickResolve, TickReport, TickDrain, DNDOn, DNDOff,
     DNDOffDone, EndDND, EndDNDStart, PaneStep, DialogOpens, DialogCloses, Output, Wedge, Unwedge,
     ChildExit, Stop, DeadlinePasses, pane

\* Once a message is lost no drain pops another.
LEMMA LossStays ==
    ASSUME LossInv, Next
    PROVE  LossEndsDrains' /\ LossBounded'
<1> DEFINE Over == {"off", "check", "end", "return"}
<1>0. /\ pc \in [Actor -> MsgPcs \cup DrainPcs] /\ fate \in [Msg -> Fates]
      /\ Drain \subseteq Actor /\ Msg \cap Drain = {}
      /\ SingleFlight
  BY ActorAssumption DEF LossInv, TypeInv, TypeOK, Actor
<1>1. ASSUME NEW d \in Drain, GuardNoPTY(d)
      PROVE  LossEndsDrains' /\ LossBounded'
    \* the first loss: this drain is the only one, and its send is over
  <2>1. /\ pc[d] = "guard" /\ ~pty' /\ pc' = [pc EXCEPT ![d] = "end"]
        /\ fate' = [fate EXCEPT ![Carried(d)] = "lost"]
    BY <1>0, <1>1 DEF GuardNoPTY, EndSend, AfterSend, pane
  <2>2. \A m \in Msg : fate[m] # "lost"
    BY <2>1 DEF LossInv, LossEndsDrains
  <2>3. \A e \in Drain : e # d => pc[e] = "off"
    BY <1>0, <2>1 DEF SingleFlight
  <2>4. \A e \in Drain : pc'[e] \in Over
    BY <1>0, <2>1, <2>3
  <2>5. \A m \in Msg : fate'[m] = "lost" => m = Carried(d)
    BY <1>0, <2>1, <2>2
  <2> QED
    BY <2>1, <2>4, <2>5 DEF LossEndsDrains, LossBounded
<1>2. ASSUME \A d \in Drain : ~GuardNoPTY(d)
      PROVE  LossEndsDrains' /\ LossBounded'
  <2>1. \A m \in Msg : fate'[m] = "lost" => fate[m] = "lost"
    BY <1>2, OnlyNoPTYLoses DEF LossInv
  <2>2. LossBounded'
    BY <2>1 DEF LossBounded, LossInv
  <2>3. ASSUME NEW m \in Msg, fate[m] = "lost"
        PROVE  ~pty' /\ \A d \in Drain : pc'[d] \in Over
    <3>1. ~pty /\ ~alive /\ \A d \in Drain : pc[d] \in Over
      BY <2>3 DEF LossInv, LossEndsDrains
    <3>2. ~pty'
      BY <3>1, GoneStaysGone
    <3>3. ASSUME NEW a \in Actor, SendStep(a)
          PROVE  \A d \in Drain : pc'[d] \in Over
      <4>1. a \notin Drain /\ \E s : pc' = [pc EXCEPT ![a] = s]
        BY <3>1, <3>3, SendStepMoves DEF SendPcs
      <4> QED
        BY <1>0, <3>1, <4>1
    <3>4. ASSUME NEW e \in Drain, DrainStep(e)
          PROVE  \A d \in Drain : pc'[d] \in Over
      BY <1>0, <3>1, <3>4 DEF DrainStep, DrainCheck, DrainPop, DrainBegin, DrainEnd, DrainReturn
    <3>5. CASE StartDrain
      BY <3>1, <3>2, <3>5, StartIsSingle DEF LossInv
    <3>6. CASE UNCHANGED pc
      BY <3>1, <3>2, <3>6
    <3>7. ASSUME NEW n \in Msg, Send(n)
          PROVE  \A d \in Drain : pc'[d] \in Over
      <4>1. \E s : pc' = [pc EXCEPT ![n] = s]
        BY <3>7 DEF Send
      <4> QED
        BY <1>0, <3>1, <4>1
    <3> QED
      BY <3>2, <3>3, <3>4, <3>5, <3>6, <3>7 DEF Next, TickStep, TickRead, TickEndDND, TickStart,
         TickSkip, TickResolve, TickReport, TickDrain, DNDOn, DNDOff, DNDOffDone, EndDND, EndDNDStart,
         PaneStep, DialogOpens, DialogCloses, Output, Wedge, Unwedge, ChildExit, Stop, DeadlinePasses,
         MaybeDrain, run
  <2>4. LossEndsDrains'
    BY <2>1, <2>3 DEF LossEndsDrains
  <2> QED
    BY <2>2, <2>4
<1> QED
  BY <1>1, <1>2

\* What bounds the loss holds in every state of a run.
LEMMA LossAlways == Spec => []LossInv
<1>1. Init => LossInv
  <2> SUFFICES ASSUME Init PROVE LossInv
    OBVIOUS
  <2>1. SingleFlight
    BY ActorAssumption DEF Init, SingleFlight, Actor
  <2> QED
    BY <2>1, InitTypes DEF Init, LossInv, LossEndsDrains, LossBounded
<1>2. LossInv /\ [Next]_vars => LossInv'
  <2> SUFFICES ASSUME LossInv, [Next]_vars PROVE LossInv'
    OBVIOUS
  <2>1. CASE Next
    BY <2>1, NextTypes, SingleFlightStays, GoneStaysGone, LossStays DEF LossInv
  <2>2. CASE UNCHANGED vars
    <3>1. TypeInv'
      BY <2>2, NextTypes DEF LossInv
    <3> QED
      BY <2>2, <3>1 DEF vars, LossInv, SingleFlight, LossEndsDrains, LossBounded
  <2> QED
    BY <2>1, <2>2
<1> QED
  BY <1>1, <1>2, PTL DEF Spec

\* A stop, or the agent's death, under a drain costs the message in flight at most,
\* however many were queued behind it (resource.go, PopQueuedMessage).
THEOREM LossIsBounded == Spec => []LossBounded
<1>1. LossInv => LossBounded
  BY DEF LossInv
<1> QED
  BY <1>1, LossAlways, PTL

-----------------------------------------------------------------------------
(* While no two messages have the same text: the mark is the sending        *)
(* drain's own message and no sender takes it, so what the drain sends is   *)
(* never enqueued as new mail, and each put back has a slot kept for it.    *)

TextsDiffer == \A m, n \in Msg : Text[m] = Text[n] => m = n

MarkIsOld    == redelivering # NoMsg => fate[redelivering] # "new"
MarkIsOwn    == \A d \in Drain : pc[d] \in SendPcs \ {"putback"} => redelivering = hand[d]
NoSenderBack == \A m \in Msg : pc[m] # "putback"
SlotKept     == Len(queue) <= IF \E d \in Drain : InFlight(d) THEN MaxQueue ELSE MaxQueue + 1

Room       == MarkIsOld /\ MarkIsOwn /\ NoSenderBack /\ SlotKept /\ NothingHeldDropped
RoomInv(G) == KeptInv(G) /\ SingleFlight /\ Room

\* What of the types the steps below use.
LEMMA RoomTypes ==
    ASSUME NEW G, RoomInv(G)
    PROVE  /\ queue \in Seq(Msg) /\ Len(queue) \in Nat /\ MaxQueue \in Nat
           /\ fate \in [Msg -> Fates] /\ redelivering \in Msg \cup {NoMsg}
           /\ pc \in [Actor -> MsgPcs \cup DrainPcs] /\ hand \in [Drain -> Msg \cup {NoMsg}]
           /\ Drain \subseteq Actor /\ Msg \subseteq Actor /\ Msg \cap Drain = {}
           /\ NoMsg \notin Msg
BY ActorAssumption, MsgAssumption, CapAssumption DEF RoomInv, KeptInv, TypeInv, TypeOK, Actor

\* The mark is recognised in the hands of the drain that set it and nowhere else.
LEMMA MarkRecognised ==
    ASSUME TextsDiffer, NEW G, RoomInv(G), NEW a \in Actor, pc[a] \in SendPcs
    PROVE  /\ a \in Msg => ~IsRedelivery(Carried(a)) /\ Carried(a) = a
           /\ a \in Drain /\ pc[a] # "putback" => IsRedelivery(Carried(a)) /\ redelivering = Carried(a)
<1>1. ASSUME a \in Msg
      PROVE  ~IsRedelivery(a)
  <2>1. fate[a] = "new"
    BY <1>1 DEF RoomInv, KeptInv, Kept, SendersNew
  <2> QED
    BY <1>1, <2>1, RoomTypes DEF RoomInv, Room, MarkIsOld, IsRedelivery, TextsDiffer
<1>2. ASSUME a \in Drain, pc[a] # "putback"
      PROVE  redelivering = hand[a] /\ hand[a] # NoMsg
  BY <1>2, RoomTypes DEF RoomInv, Room, MarkIsOwn, KeptInv, TypeInv, HandsFull, InFlight
<1> QED
  BY <1>1, <1>2, RoomTypes DEF Carried, IsRedelivery

\* A drain that sends is the only one not off.
LEMMA OthersOff ==
    ASSUME NEW G, RoomInv(G), NEW d \in Drain, pc[d] # "off"
    PROVE  \A e \in Drain : e # d => pc[e] = "off" /\ ~InFlight(e)
BY DEF RoomInv, SingleFlight, InFlight, SendPcs

\* A sender's step leaves the mark and, at the cap, the queue alone.
LEMMA SenderRoom ==
    ASSUME TextsDiffer, NEW G, RoomInv(G), NEW a \in Msg, SendStep(a)
    PROVE  Room'
<1> DEFINE Same == UNCHANGED <<redelivering, hand>>
           Grows == \/ queue' = queue
                    \/ queue' = Append(queue, a) /\ Len(queue) < MaxQueue
           Fate == fate' = fate \/ \E f \in Fates \ {"dropped", "new"} : fate' = [fate EXCEPT ![a] = f]
           Moves == \E s : pc' = [pc EXCEPT ![a] = s] /\ s # "putback"
<1>0. pc[a] \in SendPcs /\ a \in Actor /\ a \notin Drain
  BY RoomTypes, SendStepMoves DEF Actor
<1>1. ~IsRedelivery(a) /\ Carried(a) = a
  BY <1>0, MarkRecognised
<1>2. pc[a] # "putback"
  BY DEF RoomInv, Room, NoSenderBack
<1>3. AfterSend(a) = "done"
  BY DEF AfterSend
<1>4. /\ Refuse(a) /\ queue' = queue => Grows /\ Fate
      /\ \A c \in Clocks : Enqueue(a, c) => Grows /\ Fate
  <2>1. Refuse(a) => Fate
    BY <1>1 DEF Refuse, Fates
  <2>2. ASSUME NEW c \in Clocks, Enqueue(a, c)
        PROVE  Grows /\ Fate
    BY <1>1, <2>1, <2>2, RoomTypes DEF Enqueue, Full, Fates
  <2> QED
    BY <2>1, <2>2
<1>5. HoldIfDND(a) => Grows /\ Fate /\ redelivering' = redelivering
  BY <1>1, <1>4 DEF HoldIfDND, Clocks
<1>6. HoldInSend(a) => Grows /\ Fate /\ Moves /\ redelivering' = redelivering
  BY <1>1, <1>3, <1>4 DEF HoldInSend, EndSend, Clocks
<1>7. Same /\ Grows /\ Fate /\ Moves
  <2>1. CASE Gate1(a) \/ Gate2(a)
    <3>1. PICK from \in {"gate1", "gate2"}, to \in {"gate2", "lock"} : Gate(a, from, to)
      BY <2>1 DEF Gate1, Gate2
    <3>2. CASE Ruling(a) = "through"
      BY <3>1, <3>2 DEF Gate, mail
    <3>3. CASE Ruling(a) = "refused"
      BY <1>3, <1>4, <3>1, <3>3 DEF Gate
    <3>4. CASE Ruling(a) = "waits"
      BY <1>3, <1>5, <3>1, <3>4 DEF Gate
    <3> QED
      BY <3>1, <3>2, <3>3, <3>4 DEF Gate
  <2>2. CASE GuardNoPTY(a)
    BY <1>1, <1>3, <2>2 DEF GuardNoPTY, EndSend, Fates
  <2>3. CASE Lock(a) \/ GuardClear(a)
    BY <2>3 DEF Lock, GuardClear, mail
  <2>4. CASE GuardHold(a) \/ WriteNotReached(a)
    BY <1>6, <2>4 DEF GuardHold, WriteNotReached
  <2>5. CASE WriteBody(a) \/ WritePartial(a)
    BY <1>1, <1>3, <2>5 DEF WriteBody, WritePartial, EndSend, Fates
  <2>6. CASE PutBack(a)
    BY <1>2, <2>6 DEF PutBack
  <2> QED
    BY <2>1, <2>2, <2>3, <2>4, <2>5, <2>6 DEF SendStep
<1>8. \A d \in Drain : pc'[d] = pc[d]
  BY <1>0, <1>7, RoomTypes
<1>9. MarkIsOld'
  BY <1>7, RoomTypes DEF RoomInv, Room, MarkIsOld
<1>10. MarkIsOwn'
  BY <1>7, <1>8 DEF RoomInv, Room, MarkIsOwn
<1>11. NoSenderBack'
  BY <1>7, RoomTypes DEF RoomInv, Room, NoSenderBack
<1>12. SlotKept'
  <2>1. \A d \in Drain : InFlight(d)' <=> InFlight(d)
    BY <1>8 DEF InFlight
  <2>2. \/ Len(queue') = Len(queue)
        \/ Len(queue') = Len(queue) + 1 /\ Len(queue) < MaxQueue
    <3>1. CASE queue' = queue
      BY <3>1
    <3>2. CASE queue' = Append(queue, a) /\ Len(queue) < MaxQueue
      BY <3>2, RoomTypes, AppendElems
    <3> QED
      BY <1>7, <3>1, <3>2
  <2> QED
    BY <2>1, <2>2, RoomTypes DEF RoomInv, Room, SlotKept
<1>13. NothingHeldDropped'
  BY <1>7, RoomTypes DEF RoomInv, Room, NothingHeldDropped
<1> QED
  BY <1>9, <1>10, <1>11, <1>12, <1>13 DEF Room

\* A sending drain's step puts its message back at the front, or is done with it.
LEMMA DrainSendRoom ==
    ASSUME TextsDiffer, NEW G, RoomInv(G), NEW d \in Drain, SendStep(d)
    PROVE  Room'
<1> DEFINE m == hand[d]
<1>0. /\ pc[d] \in SendPcs /\ hand' = hand /\ d \in Actor /\ d \notin Msg
      /\ Carried(d) = m /\ m \in Msg /\ InFlight(d) /\ AfterSend(d) = "end"
  <2>1. pc[d] \in SendPcs /\ hand' = hand
    BY RoomTypes, SendStepMoves
  <2> QED
    BY <2>1, RoomTypes DEF Carried, InFlight, AfterSend, RoomInv, KeptInv, TypeInv, HandsFull
<1>1. \A e \in Drain : e # d => pc[e] = "off"
  BY <1>0, OthersOff DEF SendPcs
<1>2. Len(queue) <= MaxQueue
  BY <1>0 DEF RoomInv, Room, SlotKept
<1>3. ASSUME pc' = [pc EXCEPT ![d] = "end"], NEW f \in Fates \ {"dropped", "new"},
             fate' = [fate EXCEPT ![m] = f],
             queue' = queue \/ queue' = <<m>> \o queue,
             redelivering' \in {redelivering, NoMsg}
      PROVE  Room'
  <2>1. \A e \in Drain : pc'[e] = IF e = d THEN "end" ELSE "off"
    BY <1>1, <1>3, RoomTypes
  <2>2. \A e \in Drain : ~InFlight(e)'
    BY <2>1 DEF InFlight, SendPcs
  <2>3. Len(queue') <= MaxQueue + 1
    BY <1>0, <1>2, <1>3, RoomTypes
  <2>4. SlotKept'
    BY <2>2, <2>3 DEF SlotKept
  <2>5. MarkIsOld'
    BY <1>0, <1>3, RoomTypes DEF RoomInv, Room, MarkIsOld
  <2>6. MarkIsOwn'
    BY <2>1 DEF MarkIsOwn, SendPcs
  <2>7. NoSenderBack'
    BY <1>0, <1>3, RoomTypes DEF RoomInv, Room, NoSenderBack
  <2>8. NothingHeldDropped'
    BY <1>0, <1>3, RoomTypes DEF RoomInv, Room, NothingHeldDropped
  <2> QED
    BY <2>4, <2>5, <2>6, <2>7, <2>8 DEF Room
<1>4. ASSUME NEW s \in SendPcs, pc' = [pc EXCEPT ![d] = s], UNCHANGED <<queue, fate>>,
             \/ redelivering' = redelivering /\ pc[d] # "putback"
             \/ redelivering' = NoMsg /\ s = "putback"
      PROVE  Room'
  <2>1. \A e \in Drain : pc'[e] = IF e = d THEN s ELSE "off"
    BY <1>1, <1>4, RoomTypes
  <2>2. \A e \in Drain : InFlight(e)' <=> InFlight(e)
    BY <1>0, <1>1, <2>1 DEF InFlight
  <2>3. SlotKept'
    BY <1>4, <2>2 DEF RoomInv, Room, SlotKept
  <2>4. MarkIsOld'
    BY <1>4 DEF RoomInv, Room, MarkIsOld
  <2>5. MarkIsOwn'
    BY <1>0, <1>4, <2>1 DEF RoomInv, Room, MarkIsOwn, SendPcs
  <2>6. NoSenderBack' /\ NothingHeldDropped'
    BY <1>0, <1>4, RoomTypes DEF RoomInv, Room, NoSenderBack, NothingHeldDropped
  <2> QED
    BY <2>3, <2>4, <2>5, <2>6 DEF Room
<1>5. ASSUME pc[d] # "putback"
      PROVE  IsRedelivery(m) /\ redelivering = m
  BY <1>0, <1>5, MarkRecognised
<1>6. ASSUME NEW from \in SendPcs \ {"putback"}, NEW to \in SendPcs, Gate(d, from, to)
      PROVE  Room'
  <2>0. pc[d] # "putback"
    BY <1>6 DEF Gate
  <2>1. CASE Ruling(d) = "through"
    <3>1. /\ pc' = [pc EXCEPT ![d] = to]
          /\ UNCHANGED <<queue, fate>> /\ redelivering' = redelivering
      BY <1>6, <2>1 DEF Gate, mail
    <3> QED
      BY <1>4, <2>0, <3>1
  <2>2. CASE Ruling(d) = "refused"
    BY <2>2, RoomTypes DEF Ruling
  <2>3. CASE Ruling(d) = "waits"
    <3>1. HoldIfDND(d) /\ pc' = [pc EXCEPT ![d] = "end"]
      BY <1>0, <1>6, <2>3 DEF Gate
    <3>2. /\ queue' = <<m>> \o queue /\ redelivering' = NoMsg
          /\ fate' = [fate EXCEPT ![m] = "held"]
      BY <1>0, <1>5, <2>0, <3>1 DEF HoldIfDND
    <3> QED
      BY <1>3, <3>1, <3>2 DEF Fates
  <2> QED
    BY <1>6, <2>1, <2>2, <2>3 DEF Gate
<1>7. ASSUME HoldInSend(d), pc[d] # "putback"
      PROVE  Room'
  <2>1. /\ pc' = [pc EXCEPT ![d] = "putback"] /\ redelivering' = NoMsg
        /\ UNCHANGED <<queue, fate>>
    BY <1>0, <1>5, <1>7 DEF HoldInSend
  <2> QED
    BY <1>4, <2>1 DEF SendPcs
<1>8. CASE Gate1(d) \/ Gate2(d)
  BY <1>6, <1>8 DEF Gate1, Gate2, SendPcs
<1>9. CASE Lock(d) \/ GuardClear(d)
  <2>1. /\ pc[d] # "putback" /\ \E s \in {"guard", "write"} : pc' = [pc EXCEPT ![d] = s]
        /\ UNCHANGED <<queue, fate>> /\ redelivering' = redelivering
    BY <1>9 DEF Lock, GuardClear, mail
  <2>2. PICK s \in {"guard", "write"} : pc' = [pc EXCEPT ![d] = s]
    BY <2>1
  <2> QED
    BY <1>4, <2>1, <2>2 DEF SendPcs
<1>10. CASE GuardNoPTY(d)
  <2>1. /\ pc' = [pc EXCEPT ![d] = "end"] /\ fate' = [fate EXCEPT ![m] = "lost"]
        /\ UNCHANGED <<queue, redelivering>>
    BY <1>0, <1>10 DEF GuardNoPTY, EndSend
  <2> QED
    BY <1>3, <2>1 DEF Fates
<1>11. CASE GuardHold(d) \/ WriteNotReached(d)
  BY <1>7, <1>11 DEF GuardHold, WriteNotReached
<1>12. CASE WriteBody(d) \/ WritePartial(d)
  <2>1. /\ pc' = [pc EXCEPT ![d] = "end"] /\ queue' = queue
        /\ redelivering' \in {redelivering, NoMsg}
        /\ \E f \in {"typed", "unsure"} : fate' = [fate EXCEPT ![m] = f]
    BY <1>0, <1>12 DEF WriteBody, WritePartial, EndSend
  <2>2. PICK f \in {"typed", "unsure"} : fate' = [fate EXCEPT ![m] = f]
    BY <2>1
  <2> QED
    BY <1>3, <2>1, <2>2 DEF Fates
<1>13. CASE PutBack(d)
  <2>1. /\ pc' = [pc EXCEPT ![d] = "end"] /\ fate' = [fate EXCEPT ![m] = "held"]
        /\ queue' = <<m>> \o queue /\ redelivering' = redelivering
    BY <1>0, <1>13 DEF PutBack, EndSend
  <2> QED
    BY <1>3, <2>1 DEF Fates
<1> QED
  BY <1>8, <1>9, <1>10, <1>11, <1>12, <1>13 DEF SendStep

\* A step that puts nothing in the queue, takes no mark and sends no drain off.
LEMMA FrameRoom ==
    ASSUME NEW G, RoomInv(G), Len(queue') <= Len(queue), UNCHANGED redelivering, Len(queue') \in Nat,
           \A m \in Msg : fate'[m] \in {"new", "dropped"} => fate'[m] = fate[m],
           \A d \in Drain : InFlight(d)' <=> InFlight(d),
           \A d \in Drain : pc'[d] \in SendPcs => pc'[d] = pc[d] /\ hand'[d] = hand[d],
           \A m \in Msg : pc'[m] = "putback" => pc[m] = "putback"
    PROVE  Room'
<1>1. MarkIsOld' /\ NothingHeldDropped'
  BY RoomTypes DEF RoomInv, Room, MarkIsOld, NothingHeldDropped
<1>2. MarkIsOwn'
  BY DEF RoomInv, Room, MarkIsOwn
<1>3. NoSenderBack'
  BY DEF RoomInv, Room, NoSenderBack
<1>4. SlotKept'
  BY RoomTypes DEF RoomInv, Room, SlotKept
<1> QED
  BY <1>1, <1>2, <1>3, <1>4 DEF Room

\* Every step of the drain itself keeps the slot.
LEMMA DrainRoom ==
    ASSUME NEW G, RoomInv(G), NEW d \in Drain, DrainStep(d)
    PROVE  Room'
<1>0. /\ pc[d] # "off" /\ pc[d] \notin SendPcs /\ d \in Actor
      /\ \A m \in Msg : pc'[m] = pc[m]
      /\ \A e \in Drain : e # d => pc[e] = "off" /\ pc'[e] = "off"
  <2>1. pc[d] # "off" /\ pc[d] \notin SendPcs /\ \E s : pc' = [pc EXCEPT ![d] = s]
    BY DEF DrainStep, DrainCheck, DrainPop, DrainBegin, DrainEnd, DrainReturn, SendPcs
  <2> QED
    BY <2>1, OthersOff, RoomTypes
<1>1. ASSUME NEW s, s \notin SendPcs \cup {"begin"}, pc' = [pc EXCEPT ![d] = s], pc[d] # "begin",
             UNCHANGED <<queue, fate>>, redelivering' \in {redelivering, NoMsg}
      PROVE  Room'
  <2>1. /\ \A e \in Drain : ~InFlight(e) /\ ~InFlight(e)'
        /\ \A e \in Drain : pc'[e] \notin SendPcs
    BY <1>0, <1>1, RoomTypes DEF InFlight, SendPcs
  <2>2. MarkIsOld' /\ MarkIsOwn' /\ NoSenderBack' /\ NothingHeldDropped'
    BY <1>0, <1>1, <2>1 DEF RoomInv, Room, MarkIsOld, MarkIsOwn, NoSenderBack, NothingHeldDropped
  <2>3. SlotKept'
    BY <1>1, <2>1 DEF RoomInv, Room, SlotKept
  <2> QED
    BY <2>2, <2>3 DEF Room
<1>2. CASE DrainCheck(d)
  <2>1. PICK s \in {"return", "pop"} : pc' = [pc EXCEPT ![d] = s]
    BY <1>2 DEF DrainCheck
  <2>2. UNCHANGED <<queue, fate, redelivering>> /\ pc[d] # "begin"
    BY <1>2 DEF DrainCheck, mail
  <2> QED
    BY <1>1, <2>1, <2>2 DEF SendPcs
<1>3. CASE DrainPop(d) /\ queue = <<>>
  <2>1. /\ UNCHANGED <<queue, fate, redelivering>> /\ pc[d] # "begin"
        /\ pc' = [pc EXCEPT ![d] = "return"]
    BY <1>3 DEF DrainPop
  <2> QED
    BY <1>1, <2>1 DEF SendPcs
<1>4. CASE DrainPop(d) /\ queue # <<>>
  <2>1. /\ UNCHANGED <<fate, redelivering>> /\ pc[d] = "pop" /\ queue' = Tail(queue)
        /\ pc' = [pc EXCEPT ![d] = "begin"]
    BY <1>4 DEF DrainPop
  <2>2. \A e \in Drain : ~InFlight(e)
    BY <1>0, <2>1 DEF InFlight, SendPcs
  <2>3. Len(queue) <= MaxQueue + 1
    BY <2>2 DEF RoomInv, Room, SlotKept
  <2>4. Len(queue') <= MaxQueue /\ Len(queue') \in Nat
    BY <1>4, <2>1, <2>3, RoomTypes
  <2>5. SlotKept'
    BY <2>4, RoomTypes DEF SlotKept
  <2>6. MarkIsOld' /\ MarkIsOwn' /\ NoSenderBack' /\ NothingHeldDropped'
    BY <1>0, <2>1, RoomTypes DEF RoomInv, Room, MarkIsOld, MarkIsOwn, NoSenderBack,
         NothingHeldDropped, SendPcs
  <2> QED
    BY <2>5, <2>6 DEF Room
<1>5. CASE DrainBegin(d)
  <2>1. /\ UNCHANGED <<queue, fate, hand>> /\ pc[d] = "begin" /\ redelivering' = hand[d]
        /\ pc' = [pc EXCEPT ![d] = "gate1"]
    BY <1>5 DEF DrainBegin
  <2>2. hand[d] \in Msg /\ fate[hand[d]] = "held"
    BY <2>1 DEF RoomInv, KeptInv, TypeInv, HandsFull, Kept, HandsHeld, InFlight
  <2>3. \A e \in Drain : InFlight(e)' <=> InFlight(e)
    BY <1>0, <2>1, RoomTypes DEF InFlight, SendPcs
  <2>4. SlotKept'
    BY <2>1, <2>3 DEF RoomInv, Room, SlotKept
  <2>5. MarkIsOld' /\ NoSenderBack' /\ NothingHeldDropped'
    BY <1>0, <2>1, <2>2 DEF RoomInv, Room, MarkIsOld, NoSenderBack, NothingHeldDropped
  <2>6. MarkIsOwn'
    BY <1>0, <2>1, RoomTypes DEF MarkIsOwn, SendPcs
  <2> QED
    BY <2>4, <2>5, <2>6 DEF Room
<1>6. CASE DrainEnd(d)
  <2>1. PICK s \in {"check", "return"} : pc' = [pc EXCEPT ![d] = s]
    BY <1>6 DEF DrainEnd
  <2>2. UNCHANGED <<queue, fate>> /\ redelivering' = NoMsg /\ pc[d] # "begin"
    BY <1>6 DEF DrainEnd
  <2> QED
    BY <1>1, <2>1, <2>2 DEF SendPcs
<1>7. CASE DrainReturn(d)
  <2>1. /\ UNCHANGED <<queue, fate, redelivering>> /\ pc[d] # "begin"
        /\ pc' = [pc EXCEPT ![d] = "off"]
    BY <1>7 DEF DrainReturn, mail
  <2> QED
    BY <1>1, <2>1 DEF SendPcs
<1> QED
  BY <1>2, <1>3, <1>4, <1>5, <1>6, <1>7 DEF DrainStep

LEMMA NextRoom ==
    ASSUME TextsDiffer, NEW G, RoomInv(G), Next
    PROVE  Room'
<1>1. ASSUME NEW a \in Actor, SendStep(a)
      PROVE  Room'
  BY <1>1, SenderRoom, DrainSendRoom DEF Actor
<1>2. ASSUME NEW d \in Drain, DrainStep(d)
      PROVE  Room'
  BY <1>2, DrainRoom
<1>3. ASSUME UNCHANGED <<queue, redelivering, fate, hand>>, UNCHANGED pc \/ StartDrain
      PROVE  Room'
  <2>1. /\ \A d \in Drain : InFlight(d)' <=> InFlight(d)
        /\ \A m \in Msg : pc'[m] = pc[m]
        /\ \A d \in Drain : pc'[d] = pc[d] \/ pc'[d] = "check"
    BY <1>3, DrainStarts, StartIsSingle DEF InFlight, RoomInv, KeptInv
  <2> QED
    BY <1>3, <2>1, FrameRoom, RoomTypes DEF SendPcs
<1>4. CASE TickResolve
  <2>1. /\ queue' \in Without(queue, GivenUp) /\ UNCHANGED <<redelivering, hand, pc>>
        /\ fate' = [m \in Msg |-> IF m \in GivenUp THEN "overdue" ELSE fate[m]]
    BY <1>4 DEF TickResolve, run
  <2>2. Len(queue') <= Len(queue) /\ Len(queue') \in Nat
    BY <2>1, WithoutElems, RoomTypes
  <2> QED
    BY <2>1, <2>2, FrameRoom DEF InFlight
<1>5. CASE TickReport
  <2>1. /\ UNCHANGED <<queue, redelivering, hand, pc>>
        /\ fate' = [m \in Msg |-> IF fate[m] = "overdue" THEN "surfaced" ELSE fate[m]]
    BY <1>5 DEF TickReport, run
  <2> QED
    BY <2>1, FrameRoom, RoomTypes DEF InFlight
<1>6. ASSUME NEW m \in Msg, Send(m)
      PROVE  Room'
  <2>1. /\ UNCHANGED <<queue, redelivering, hand>>
        /\ \E s \in {"gate1", "done"} : pc' = [pc EXCEPT ![m] = s]
        /\ fate' = fate \/ fate' = [fate EXCEPT ![m] = "refused"]
    BY <1>6 DEF Send
  <2>2. \A d \in Drain : pc'[d] = pc[d]
    BY <2>1, RoomTypes
  <2>3. /\ \A n \in Msg : pc'[n] = "putback" => pc[n] = "putback"
        /\ \A n \in Msg : fate'[n] \in {"new", "dropped"} => fate'[n] = fate[n]
    BY <2>1, RoomTypes
  <2> QED
    BY <2>1, <2>2, <2>3, FrameRoom, RoomTypes DEF InFlight
<1> QED
  BY <1>1, <1>2, <1>3, <1>4, <1>5, <1>6 DEF Next, TickStep, TickRead, TickEndDND, TickStart, TickSkip,
     TickDrain, DNDOn, DNDOff, DNDOffDone, EndDND, EndDNDStart, PaneStep, DialogOpens, DialogCloses,
     Output, Wedge, Unwedge, ChildExit, Stop, DeadlinePasses, MaybeDrain, mail, run

LEMMA RoomAlways ==
    ASSUME TextsDiffer
    PROVE  Spec => []RoomInv({})
<1>1. Init => RoomInv({})
  <2> SUFFICES ASSUME Init PROVE RoomInv({})
    OBVIOUS
  <2>1. SingleFlight
    BY ActorAssumption DEF Init, SingleFlight, Actor
  <2>2. \A d \in Drain : pc[d] = "off"
    BY ActorAssumption DEF Init, Actor
  <2>3. queue = <<>> /\ Len(queue) = 0 /\ MaxQueue \in Nat
    BY CapAssumption DEF Init
  <2>4. SlotKept
    BY <2>3 DEF SlotKept
  <2>5. MarkIsOld /\ MarkIsOwn /\ NothingHeldDropped
    BY <2>2 DEF Init, MarkIsOld, MarkIsOwn, NothingHeldDropped, SendPcs
  <2>6. NoSenderBack
    BY DEF Init, NoSenderBack, Actor
  <2> QED
    BY <2>1, <2>4, <2>5, <2>6, InitKeeps DEF RoomInv, Room
<1>2. RoomInv({}) /\ [Next]_vars => RoomInv({})'
  <2> SUFFICES ASSUME RoomInv({}), [Next]_vars PROVE RoomInv({})'
    OBVIOUS
  <2>1. CASE Next
    BY <2>1, NextKeeps, SingleFlightStays, NextRoom DEF RoomInv, KeptInv
  <2>2. CASE UNCHANGED vars
    <3>1. KeptInv({})'
      BY <2>2, NextKeeps DEF RoomInv
    <3> QED
      BY <2>2, <3>1 DEF vars, RoomInv, SingleFlight, Room, MarkIsOld, MarkIsOwn, NoSenderBack,
           SlotKept, NothingHeldDropped, InFlight
  <2> QED
    BY <2>1, <2>2
<1> QED
  BY <1>1, <1>2, PTL DEF Spec

\* No message the drain sends is refused for want of room, while no two messages
\* have the same text ("nothing held is ever dropped", queue_cap.go).
THEOREM NothingHeldIsDropped ==
    ASSUME TextsDiffer
    PROVE  Spec => []NothingHeldDropped
<1>1. RoomInv({}) => NothingHeldDropped
  BY DEF RoomInv, Room
<1> QED
  BY <1>1, RoomAlways, PTL

\* A queue passes its cap by the one message put back and by no more, while no two
\* messages have the same text (queue_cap.go, held_mail.go requeueFront).
THEOREM QueueIsBounded ==
    ASSUME TextsDiffer
    PROVE  Spec => []QueueBounded
<1>1. RoomInv({}) => QueueBounded
  <2> SUFFICES ASSUME RoomInv({}) PROVE QueueBounded
    OBVIOUS
  <2> QED
    BY RoomTypes DEF RoomInv, Room, SlotKept, QueueBounded
<1> QED
  BY <1>1, RoomAlways, PTL

-----------------------------------------------------------------------------
(* The queue, the hand of the one drain and the tick's overdue mail keep    *)
(* the promised line: the line is the queue with the hand of the sending    *)
(* drain ahead of it, and every step moves it as MailPromise allows.        *)

\* A message added behind the hand is added to the end of the line.
LEMMA FrontAppend ==
    ASSUME NEW S, NEW s \in Seq(S), NEW x \in S, NEW y \in S
    PROVE  <<x>> \o Append(s, y) = Append(<<x>> \o s, y)
<1> DEFINE l == <<x>> \o Append(s, y)
           r == Append(<<x>> \o s, y)
<1>1. Append(s, y) \in Seq(S) /\ <<x>> \o s \in Seq(S)
  BY FrontElems
<1>2. l \in Seq(S) /\ r \in Seq(S) /\ Len(l) = Len(s) + 2 /\ Len(r) = Len(s) + 2 /\ Len(s) \in Nat
  BY <1>1
<1>3. \A i \in 1..(Len(s) + 2) : l[i] = r[i]
  BY <1>1, <1>2
<1> HIDE DEF l, r
<1>4. l = r
  BY <1>2, <1>3
<1> QED
  BY <1>4 DEF l, r

\* The line, now and after a step, while the drain is single.
LEMMA HeldNowIs ==
    ASSUME SingleFlight
    PROVE  /\ (\A d \in Drain : ~InFlight(d)) => HeldNow = queue
           /\ \A d \in Drain : InFlight(d) => HeldNow = <<hand[d]>> \o queue
<1>1. ASSUME \A d \in Drain : ~InFlight(d)
      PROVE  HeldNow = queue
  BY <1>1 DEF HeldNow
<1>2. ASSUME NEW d \in Drain, InFlight(d)
      PROVE  HeldNow = <<hand[d]>> \o queue
  <2>1. {e \in Drain : InFlight(e)} = {d}
    BY <1>2 DEF SingleFlight, InFlight, SendPcs
  <2>2. HeldNow = <<hand[CHOOSE e \in {d} : TRUE]>> \o queue
    BY <2>1, Zenon DEF HeldNow
  <2>3. (CHOOSE e \in {d} : TRUE) = d
    OBVIOUS
  <2> QED
    BY <2>2, <2>3
<1> QED
  BY <1>1, <1>2

LEMMA HeldNowNext ==
    ASSUME SingleFlight'
    PROVE  /\ (\A d \in Drain : ~InFlight(d)') => HeldNow' = queue'
           /\ \A d \in Drain : InFlight(d)' => HeldNow' = <<hand'[d]>> \o queue'
<1>1. ASSUME \A d \in Drain : ~InFlight(d)'
      PROVE  HeldNow' = queue'
  BY <1>1 DEF HeldNow
<1>2. ASSUME NEW d \in Drain, InFlight(d)'
      PROVE  HeldNow' = <<hand'[d]>> \o queue'
  <2>1. {e \in Drain : InFlight(e)'} = {d}
    BY <1>2 DEF SingleFlight, InFlight, SendPcs
  <2>2. HeldNow' = <<hand'[CHOOSE e \in {d} : TRUE]>> \o queue'
    BY <2>1, Zenon DEF HeldNow
  <2>3. (CHOOSE e \in {d} : TRUE) = d
    OBVIOUS
  <2> QED
    BY <2>2, <2>3
<1> QED
  BY <1>1, <1>2

\* What has become of each message, now and after a step that gives one a fate.
LEMMA FateMoves ==
    ASSUME NEW G, RoomInv(G), NEW m \in Msg, NEW f \in Fates \ {"overdue"},
           fate' = [fate EXCEPT ![m] = f]
    PROVE  FateNow' = [FateNow EXCEPT ![m] = f]
BY RoomTypes DEF FateNow

\* A step that leaves the queue, the hand in use and the fates leaves the line.
LEMMA LineSame ==
    ASSUME SingleFlight, SingleFlight', queue' = queue, FateNow' = FateNow,
           \A d \in Drain : InFlight(d)' <=> InFlight(d),
           \A d \in Drain : InFlight(d) => hand'[d] = hand[d]
    PROVE  UNCHANGED Promise!promise
<1>1. HeldNow' = HeldNow
  <2>1. CASE \A d \in Drain : ~InFlight(d)
    BY <2>1, HeldNowIs, HeldNowNext
  <2>2. ASSUME NEW d \in Drain, InFlight(d)
        PROVE  HeldNow' = HeldNow
    BY <2>2, HeldNowIs, HeldNowNext
  <2> QED
    BY <2>1, <2>2
<1> QED
  BY <1>1 DEF Promise!promise

\* A set of numbers has a least one.
LEMMA Least ==
    ASSUME NEW T, T \subseteq Nat, T # {}
    PROVE  \E x \in T : \A y \in T : x <= y
<1> DEFINE R == OpToRel(<, Nat)
<1>1. IsWellFoundedOn(R, Nat)
  BY NatLessThanWellFounded
<1>2. \A x, y \in Nat : x < y => <<x, y>> \in R
  BY DEF OpToRel
<1> HIDE DEF R
<1>3. \E x \in T : \A y \in T : ~(<<y, x>> \in R)
  BY <1>1, WFMin
<1>4. PICK x \in T : \A y \in T : ~(<<y, x>> \in R)
  BY <1>3
<1>5. ASSUME NEW y \in T PROVE x <= y
  <2>1. x \in Nat /\ y \in Nat
    OBVIOUS
  <2>2. ~(y < x)
    BY <1>2, <1>4, <2>1
  <2> QED BY <2>1, <2>2
<1> QED BY <1>5

\* Taking nothing off a queue that has each message once leaves it.
LEMMA WithoutNothing ==
    ASSUME NEW q \in Seq(Msg), NoDup(q), NEW k \in Without(q, {})
    PROVE  k = q
<1> DEFINE l == Len(q)
<1>1. l \in Nat /\ DOMAIN q = 1 .. l /\ \A i, j \in 1 .. l : q[i] = q[j] => i = j
  BY DEF NoDup
<1>2. PICK n \in 0 .. l : k \in [1 .. n -> Elems(q)]
  BY DEF Without
<1>a. DOMAIN k = 1 .. n /\ Elems(k) = Elems(q)
  <2>1. Elems(k) = Elems(q) \ {}
    BY Zenon DEF Without
  <2> QED BY <1>2, <2>1
<1>b. \A j \in 1 .. l : \E x \in 1 .. n : k[x] = q[j]
  <2> SUFFICES ASSUME NEW j \in 1 .. l PROVE \E x \in 1 .. n : k[x] = q[j]
    OBVIOUS
  <2>1. q[j] \in Elems(q)
    BY ONLY <1>1 DEF Elems
  <2>2. q[j] \in Elems(k)
    BY ONLY <1>a, <2>1
  <2> QED BY ONLY <1>a, <2>2 DEF Elems
<1>3. \A i, j \in 1 .. n : i < j =>
          \E x, y \in 1 .. l : x < y /\ q[x] = k[i] /\ q[y] = k[j] /\ k[i] # k[j]
  <2>1. \A i, j \in DOMAIN k : i < j =>
            \E x, y \in DOMAIN q : x < y /\ q[x] = k[i] /\ q[y] = k[j] /\ k[i] # k[j]
    BY Zenon DEF Without
  <2> QED BY ONLY <1>1, <1>a, <2>1
<1> HIDE DEF l
<1>4. \A i \in 1 .. n : k[i] = q[i]
  <2> DEFINE Bad == {i \in 1 .. n : k[i] # q[i]}
  <2> SUFFICES ASSUME Bad # {} PROVE FALSE
    OBVIOUS
  <2>a. Bad \subseteq Nat
    BY <1>2
  <2> HIDE DEF Bad
  <2>1. PICK i \in Bad : \A j \in Bad : i <= j
    BY <2>a, Least
  <2>2. /\ i \in 1 .. n /\ i \in 1 .. l /\ k[i] # q[i]
        /\ \A j \in 1 .. n : j < i => k[j] = q[j]
    BY <1>1, <1>2, <2>1 DEF Bad
  <2>3. PICK x \in 1 .. n : k[x] = q[i]
    BY <1>b, <2>2
  <2>4. x \in 1 .. l /\ ~(x < i) /\ x # i
    BY <1>1, <1>2, <2>2, <2>3
  <2>5. i < x
    BY <1>1, <1>2, <2>2, <2>3, <2>4
  <2>6. PICK y, z \in 1 .. l : y < z /\ q[y] = k[i] /\ q[z] = k[x]
    BY <1>3, <2>2, <2>5
  <2>7. z = i
    BY <1>1, <2>2, <2>3, <2>6
  <2>8. y \in 1 .. n /\ y < i /\ k[y] = k[i]
    BY <1>1, <1>2, <2>2, <2>6, <2>7
  <2> QED BY <1>3, <2>2, <2>8
<1>5. n = l
  <2> SUFFICES ASSUME n # l PROVE FALSE
    OBVIOUS
  <2>1. n + 1 \in 1 .. l
    BY <1>1, <1>2
  <2>2. PICK x \in 1 .. n : k[x] = q[n + 1]
    BY <1>b, <2>1
  <2>3. x \in 1 .. l /\ q[x] = q[n + 1] /\ x # n + 1
    BY <1>1, <1>2, <1>4, <2>2
  <2> QED BY <1>1, <2>1, <2>3
<1>6. q = [i \in 1 .. l |-> q[i]] /\ k = [i \in 1 .. n |-> k[i]]
  BY <1>2, <1>a DEF l
<1> QED BY ONLY <1>4, <1>5, <1>6

\* A sender's step: its message goes to the agent, is refused, joins the line, or
\* nothing changes.
LEMMA SenderPromise ==
    ASSUME TextsDiffer, NEW G, RoomInv(G), SingleFlight', NEW a \in Msg, SendStep(a)
    PROVE  [Promise!Next]_(Promise!promise)
<1> DEFINE Told  == queue' = queue /\ \E f \in {"typed", "unsure", "refused"} : fate' = [fate EXCEPT ![a] = f]
           Joins == queue' = Append(queue, a) /\ fate' = [fate EXCEPT ![a] = "held"]
           Walks == UNCHANGED <<queue, fate>>
<1>0. /\ pc[a] \in SendPcs /\ hand' = hand /\ a \in Actor /\ a \notin Drain
      /\ \E s : pc' = [pc EXCEPT ![a] = s]
  BY RoomTypes, SendStepMoves DEF Actor
<1>1. ~IsRedelivery(a) /\ Carried(a) = a
  BY <1>0, MarkRecognised
<1>2. pc[a] # "putback"
  BY DEF RoomInv, Room, NoSenderBack
<1>3. fate[a] = "new" /\ SingleFlight
  BY <1>0 DEF RoomInv, KeptInv, Kept, SendersNew
<1>4. /\ Refuse(a) /\ queue' = queue => Told
      /\ \A c \in Clocks : Enqueue(a, c) => Told \/ Joins
  BY <1>1 DEF Refuse, Enqueue
<1>5. (HoldIfDND(a) => Told \/ Joins) /\ (HoldInSend(a) => Told \/ Joins)
  BY <1>1, <1>4 DEF HoldIfDND, HoldInSend, Clocks
<1>6. Told \/ Joins \/ Walks
  <2>1. CASE Gate1(a) \/ Gate2(a)
    <3>1. PICK from \in {"gate1", "gate2"}, to \in {"gate2", "lock"} : Gate(a, from, to)
      BY <2>1 DEF Gate1, Gate2
    <3> QED
      BY <1>4, <1>5, <3>1 DEF Gate, mail
  <2>2. CASE GuardNoPTY(a) \/ WriteBody(a) \/ WritePartial(a)
    BY <1>1, <2>2 DEF GuardNoPTY, WriteBody, WritePartial
  <2>3. CASE Lock(a) \/ GuardClear(a)
    BY <2>3 DEF Lock, GuardClear, mail
  <2>4. CASE GuardHold(a) \/ WriteNotReached(a)
    BY <1>5, <2>4 DEF GuardHold, WriteNotReached
  <2>5. CASE PutBack(a)
    BY <1>2, <2>5 DEF PutBack
  <2> QED
    BY <2>1, <2>2, <2>3, <2>4, <2>5 DEF SendStep
<1>7. \A d \in Drain : InFlight(d)' <=> InFlight(d)
  BY <1>0, RoomTypes DEF InFlight
<1>8. FateNow[a] = "new"
  BY <1>3 DEF FateNow
<1>9. CASE Walks
  <2>1. FateNow' = FateNow
    BY <1>9 DEF FateNow
  <2> QED
    BY <1>0, <1>3, <1>7, <1>9, <2>1, LineSame
<1>10. CASE Told
  <2>1. PICK f \in {"typed", "unsure", "refused"} : fate' = [fate EXCEPT ![a] = f]
    BY <1>10
  <2>2. FateNow' = [FateNow EXCEPT ![a] = f]
    BY <2>1, FateMoves DEF Fates
  <2>3. HeldNow' = HeldNow
    <3>1. CASE \A d \in Drain : ~InFlight(d)
      BY <1>3, <1>7, <1>10, <3>1, HeldNowIs, HeldNowNext
    <3>2. ASSUME NEW d \in Drain, InFlight(d)
          PROVE  HeldNow' = HeldNow
      BY <1>0, <1>3, <1>7, <1>10, <3>2, HeldNowIs, HeldNowNext
    <3> QED
      BY <3>1, <3>2
  <2>4. Promise!Direct(a)
    BY <1>8, <2>2, <2>3 DEF Promise!Direct
  <2> QED
    BY <2>4 DEF Promise!Next
<1>11. CASE Joins
  <2>1. FateNow' = [FateNow EXCEPT ![a] = "held"]
    BY <1>11, FateMoves DEF Fates
  <2>2. HeldNow' = Append(HeldNow, a)
    <3>1. CASE \A d \in Drain : ~InFlight(d)
      BY <1>3, <1>7, <1>11, <3>1, HeldNowIs, HeldNowNext
    <3>2. ASSUME NEW d \in Drain, InFlight(d)
          PROVE  HeldNow' = Append(HeldNow, a)
      <4>1. HeldNow = <<hand[d]>> \o queue /\ HeldNow' = <<hand[d]>> \o Append(queue, a)
        BY <1>0, <1>3, <1>7, <1>11, <3>2, HeldNowIs, HeldNowNext
      <4>2. hand[d] \in Msg /\ queue \in Seq(Msg)
        BY <3>2 DEF RoomInv, KeptInv, TypeInv, TypeOK, HandsFull
      <4> QED
        BY ONLY <4>1, <4>2, a \in Msg, FrontAppend
    <3> QED
      BY <3>1, <3>2
  <2>3. Promise!Accept(a)
    BY <1>8, <2>1, <2>2 DEF Promise!Accept
  <2> QED
    BY <2>3 DEF Promise!Next
<1> QED
  BY <1>6, <1>9, <1>10, <1>11

\* The sending drain's step: the head of the line is typed, possibly typed or
\* lost, or nothing changes.
LEMMA DrainSendPromise ==
    ASSUME TextsDiffer, NEW G, RoomInv(G), LossInv, SingleFlight', NEW d \in Drain, SendStep(d)
    PROVE  [Promise!Next]_(Promise!promise)
<1> DEFINE m == hand[d]
           Back == /\ queue' = <<m>> \o queue /\ fate' = [fate EXCEPT ![m] = "held"]
                   /\ pc' = [pc EXCEPT ![d] = "end"]
           Gone(f) == /\ queue' = queue /\ fate' = [fate EXCEPT ![m] = f]
                      /\ pc' = [pc EXCEPT ![d] = "end"]
           Walks == UNCHANGED <<queue, fate>> /\ \E s \in SendPcs : pc' = [pc EXCEPT ![d] = s]
<1>0. /\ pc[d] \in SendPcs /\ hand' = hand /\ d \in Actor /\ d \notin Msg
      /\ Carried(d) = m /\ m \in Msg /\ InFlight(d) /\ AfterSend(d) = "end"
  <2>1. pc[d] \in SendPcs /\ hand' = hand
    BY RoomTypes, SendStepMoves
  <2> QED
    BY <2>1, RoomTypes DEF Carried, InFlight, AfterSend, RoomInv, KeptInv, TypeInv, HandsFull
<1>1. \A e \in Drain : e # d => pc[e] = "off" /\ ~InFlight(e)
  BY <1>0, OthersOff DEF SendPcs
<1>2. pc[d] # "putback" => IsRedelivery(m) /\ redelivering = m
  BY <1>0, MarkRecognised
<1>3. /\ SingleFlight /\ queue \in Seq(Msg) /\ fate[m] = "held" /\ FateNow[m] = "held"
      /\ FateNow \in [Msg -> Fates]
  BY <1>0, RoomTypes DEF RoomInv, KeptInv, Kept, HandsHeld, FateNow, Fates
<1>4. HeldNow = <<m>> \o queue
  BY <1>0, <1>3, HeldNowIs
<1>5. /\ HeldNow # <<>> /\ Head(HeldNow) = m /\ Tail(HeldNow) = queue
  BY <1>0, <1>3, <1>4, FrontElems
<1>6. ASSUME pc' = [pc EXCEPT ![d] = "end"]
      PROVE  HeldNow' = queue'
  <2>1. \A e \in Drain : ~InFlight(e)'
    BY <1>1, <1>6, RoomTypes DEF InFlight, SendPcs
  <2> QED
    BY <2>1, HeldNowNext
<1>7. CASE Back
  <2>1. FateNow' = [FateNow EXCEPT ![m] = "held"]
    BY <1>0, <1>7, FateMoves DEF Fates
  <2>2. FateNow' = FateNow
    BY <1>3, <2>1
  <2> QED
    BY <1>4, <1>6, <1>7, <2>2 DEF Promise!promise
<1>8. ASSUME NEW f \in {"typed", "unsure"}, Gone(f)
      PROVE  Promise!Next
  <2>1. FateNow' = [FateNow EXCEPT ![m] = f]
    BY <1>0, <1>8, FateMoves DEF Fates
  <2>2. HeldNow' = queue
    BY <1>6, <1>8
  <2>3. Promise!Deliver
    BY <1>5, <2>1, <2>2 DEF Promise!Deliver
  <2> QED
    BY <2>3 DEF Promise!Next
<1>9. ASSUME Gone("lost")
      PROVE  Promise!Next
  <2>1. FateNow' = [FateNow EXCEPT ![m] = "lost"]
    BY <1>0, <1>9, FateMoves DEF Fates
  <2>2. HeldNow' = queue
    BY <1>6, <1>9
  <2>3. \A n \in Msg : FateNow[n] # "lost"
    BY <1>0 DEF LossInv, LossEndsDrains, FateNow, SendPcs
  <2>4. Promise!Lose
    BY <1>5, <2>1, <2>2, <2>3 DEF Promise!Lose
  <2> QED
    BY <2>4 DEF Promise!Next
<1>10. CASE Walks
  <2>1. FateNow' = FateNow
    BY <1>10 DEF FateNow
  <2>2. \A e \in Drain : InFlight(e)' <=> InFlight(e)
    BY <1>0, <1>10, RoomTypes DEF InFlight
  <2> QED
    BY <1>0, <1>3, <1>10, <2>1, <2>2, LineSame
<1>11. Back \/ Walks \/ Gone("typed") \/ Gone("unsure") \/ Gone("lost")
  <2>1. ASSUME NEW from \in SendPcs \ {"putback"}, NEW to \in SendPcs, Gate(d, from, to)
        PROVE  Back \/ Walks
    <3>0. pc[d] # "putback"
      BY <2>1 DEF Gate
    <3>1. CASE Ruling(d) = "through"
      BY <2>1, <3>1 DEF Gate, mail
    <3>2. CASE Ruling(d) = "refused"
      BY <3>2, RoomTypes DEF Ruling
    <3>3. CASE Ruling(d) = "waits"
      BY <1>0, <1>2, <2>1, <3>0, <3>3 DEF Gate, HoldIfDND
    <3> QED
      BY <2>1, <3>1, <3>2, <3>3 DEF Gate
  <2>2. CASE Gate1(d) \/ Gate2(d)
    BY <2>1, <2>2 DEF Gate1, Gate2, SendPcs
  <2>3. CASE Lock(d) \/ GuardClear(d)
    BY <2>3 DEF Lock, GuardClear, mail, SendPcs
  <2>4. CASE GuardNoPTY(d)
    BY <1>0, <2>4 DEF GuardNoPTY, EndSend
  <2>5. CASE GuardHold(d) \/ WriteNotReached(d)
    <3>1. HoldInSend(d) /\ pc[d] # "putback"
      BY <2>5 DEF GuardHold, WriteNotReached
    <3> QED
      BY <1>0, <1>2, <3>1 DEF HoldInSend, SendPcs
  <2>6. CASE WriteBody(d) \/ WritePartial(d)
    BY <1>0, <2>6 DEF WriteBody, WritePartial, EndSend
  <2>7. CASE PutBack(d)
    BY <1>0, <2>7 DEF PutBack, EndSend
  <2> QED
    BY <2>2, <2>3, <2>4, <2>5, <2>6, <2>7 DEF SendStep
<1> QED
  BY <1>7, <1>8, <1>9, <1>10, <1>11

\* The order of a line: what is left of it stands as it stood.
InOrder(k, q) == \A i, j \in DOMAIN k : i < j =>
                    \E x, y \in DOMAIN q : x < y /\ q[x] = k[i] /\ q[y] = k[j]

\* What is left of a queue, and of that queue behind a message not on it.
LEMMA FrontWithout ==
    ASSUME NEW q \in Seq(Msg), NEW D, D \subseteq Elems(q), NEW k \in Without(q, D),
           NEW h \in Msg, h \notin Elems(q)
    PROVE  /\ Elems(<<h>> \o k) = Elems(<<h>> \o q) \ D
           /\ InOrder(k, q) /\ InOrder(<<h>> \o k, <<h>> \o q)
<1> DEFINE l == <<h>> \o q
           r == <<h>> \o k
<1>1. k \in Seq(Msg) /\ Elems(k) = Elems(q) \ D
  BY WithoutElems
<1>2. Elems(r) = Elems(l) \ D
  <2>1. Elems(l) = Elems(q) \cup {h} /\ Elems(r) = Elems(k) \cup {h}
    BY <1>1, FrontElems
  <2> QED
    BY ONLY <1>1, <2>1, h \notin Elems(q), D \subseteq Elems(q)
<1>3. InOrder(k, q)
  BY DEF Without, InOrder
<1>4. /\ Len(k) \in Nat /\ Len(q) \in Nat /\ DOMAIN k = 1..Len(k) /\ DOMAIN q = 1..Len(q)
      /\ DOMAIN l = 1..(Len(q) + 1) /\ DOMAIN r = 1..(Len(k) + 1)
      /\ l[1] = h /\ r[1] = h
      /\ \A i \in 1..Len(q) : l[i + 1] = q[i]
      /\ \A i \in 1..Len(k) : r[i + 1] = k[i]
  BY <1>1
<1> HIDE DEF l, r
<1>5. InOrder(r, l)
  <2> SUFFICES ASSUME NEW i \in DOMAIN r, NEW j \in DOMAIN r, i < j
               PROVE  \E x, y \in DOMAIN l : x < y /\ l[x] = r[i] /\ l[y] = r[j]
    BY DEF InOrder
  <2>1. j - 1 \in 1..Len(k) /\ r[j] = k[j - 1]
    <3>1. j - 1 \in 1..Len(k) /\ (j - 1) + 1 = j
      BY <1>4
    <3> QED
      BY <1>4, <3>1
  <2>2. CASE i = 1
    <3>1. k[j - 1] \in Elems(q)
      BY <1>1, <1>4, <2>1 DEF Elems
    <3>2. PICK y \in 1..Len(q) : q[y] = k[j - 1]
      BY <1>4, <3>1 DEF Elems
    <3>3. l[1] = r[i] /\ l[y + 1] = r[j] /\ 1 < y + 1 /\ y + 1 \in DOMAIN l /\ 1 \in DOMAIN l
      BY <1>4, <2>1, <2>2, <3>2
    <3> QED
      BY <3>3
  <2>3. CASE i # 1
    <3>1. i - 1 \in 1..Len(k) /\ (i - 1) + 1 = i /\ i - 1 < j - 1
      BY <1>4, <2>3
    <3>2. r[i] = k[i - 1]
      BY <1>4, <3>1
    <3>3. PICK x \in 1..Len(q), y \in 1..Len(q) : x < y /\ q[x] = k[i - 1] /\ q[y] = k[j - 1]
      BY <1>3, <1>4, <2>1, <3>1 DEF InOrder
    <3>4. /\ l[x + 1] = r[i] /\ l[y + 1] = r[j] /\ x + 1 < y + 1
          /\ x + 1 \in DOMAIN l /\ y + 1 \in DOMAIN l
      BY <1>4, <2>1, <3>2, <3>3
    <3> QED
      BY <3>4
  <2> QED
    BY <2>2, <2>3
<1> QED
  BY <1>2, <1>3, <1>5 DEF l, r

\* The tick gives up on overdue mail, or nothing changes.
LEMMA ResolvePromise ==
    ASSUME NEW G, RoomInv(G), SingleFlight', TickResolve
    PROVE  [Promise!Next]_(Promise!promise)
<1> DEFINE D == GivenUp
<1>0. /\ queue' \in Without(queue, D) /\ UNCHANGED <<pc, hand>>
      /\ fate' = [m \in Msg |-> IF m \in D THEN "overdue" ELSE fate[m]]
  BY DEF TickResolve, run
<1>1. /\ queue \in Seq(Msg) /\ NoDup(queue) /\ SingleFlight
      /\ D \subseteq Elems(queue) /\ Elems(queue) \subseteq Msg
  BY RoomTypes DEF RoomInv, KeptInv, Kept, QueueHeld, GivenUp, Elems
<1>2. \A d \in Drain : InFlight(d)' <=> InFlight(d)
  BY <1>0 DEF InFlight
<1>3. FateNow' = [m \in Msg |-> IF m \in D THEN "surfaced" ELSE FateNow[m]]
  BY <1>0 DEF FateNow
<1> HIDE DEF D
<1>4. CASE D = {}
  <2>1. queue' = queue
    BY ONLY <1>0, <1>1, <1>4, WithoutNothing
  <2>2. FateNow' = FateNow
    BY <1>3, <1>4 DEF FateNow
  <2> QED
    BY <1>0, <1>1, <1>2, <2>1, <2>2, LineSame
<1>5. CASE D # {}
  <2>1. Elems(HeldNow') = Elems(HeldNow) \ D /\ InOrder(HeldNow', HeldNow) /\ D \subseteq Elems(HeldNow)
    <3>1. CASE \A d \in Drain : ~InFlight(d)
      <4>1. HeldNow = queue /\ HeldNow' = queue'
        BY <1>1, <1>2, <3>1, HeldNowIs, HeldNowNext
      <4>2. Elems(queue') = Elems(queue) \ D
        BY ONLY <1>0, <1>1, WithoutElems
      <4>3. InOrder(queue', queue)
        BY <1>0 DEF Without, InOrder
      <4> QED
        BY <1>1, <4>1, <4>2, <4>3
    <3>2. ASSUME NEW d \in Drain, InFlight(d)
          PROVE  /\ Elems(HeldNow') = Elems(HeldNow) \ D /\ InOrder(HeldNow', HeldNow)
                 /\ D \subseteq Elems(HeldNow)
      <4>1. HeldNow = <<hand[d]>> \o queue /\ HeldNow' = <<hand[d]>> \o queue'
        BY <1>0, <1>1, <1>2, <3>2, HeldNowIs, HeldNowNext
      <4>2. hand[d] \in Msg /\ hand[d] \notin Elems(queue)
        BY <3>2 DEF RoomInv, KeptInv, TypeInv, HandsFull, Kept, HandsHeld
      <4>3. /\ Elems(<<hand[d]>> \o queue') = Elems(<<hand[d]>> \o queue) \ D
            /\ InOrder(<<hand[d]>> \o queue', <<hand[d]>> \o queue)
        BY ONLY <1>0, <1>1, <4>2, FrontWithout
      <4>4. Elems(<<hand[d]>> \o queue) = Elems(queue) \cup {hand[d]}
        BY ONLY <1>1, <4>2, FrontElems
      <4> QED
        BY <1>1, <4>1, <4>3, <4>4
    <3> QED
      BY <3>1, <3>2
  <2>2. Promise!GiveUp(D)
    BY <1>3, <1>5, <2>1 DEF Promise!GiveUp, Elems, InOrder
  <2>3. D \in SUBSET Msg
    BY <1>1
  <2> QED
    BY <2>2, <2>3 DEF Promise!Next
<1> QED
  BY <1>4, <1>5

\* The drain's own steps leave the line as it is: what it pops is ahead of the rest.
LEMMA DrainPromise ==
    ASSUME NEW G, RoomInv(G), SingleFlight', NEW d \in Drain, DrainStep(d)
    PROVE  UNCHANGED Promise!promise
<1>0. /\ SingleFlight /\ queue \in Seq(Msg) /\ NoDup(queue)
      /\ d \in Actor /\ pc \in [Actor -> MsgPcs \cup DrainPcs] /\ Drain \subseteq Actor
      /\ hand \in [Drain -> Msg \cup {NoMsg}]
  BY RoomTypes DEF RoomInv, KeptInv, Kept, QueueHeld
<1>1. FateNow' = FateNow
  BY DEF DrainStep, DrainCheck, DrainPop, DrainBegin, DrainEnd, DrainReturn, FateNow, mail
<1>2. CASE DrainPop(d) /\ queue # <<>>
  <2>1. /\ pc[d] = "pop" /\ pc' = [pc EXCEPT ![d] = "begin"]
        /\ hand' = [hand EXCEPT ![d] = Head(queue)] /\ queue' = Tail(queue)
    BY <1>2 DEF DrainPop
  <2>2. HeldNow = queue
    BY <1>0, <2>1, OthersOff, HeldNowIs DEF InFlight, SendPcs
  <2>3. HeldNow' = <<Head(queue)>> \o Tail(queue)
    BY <1>0, <2>1, HeldNowNext DEF InFlight
  <2>4. <<Head(queue)>> \o Tail(queue) = queue
    BY ONLY <1>0, <1>2, TailElems
  <2> QED
    BY <1>1, <2>2, <2>3, <2>4 DEF Promise!promise
<1>3. CASE ~(DrainPop(d) /\ queue # <<>>)
  <2>1. queue' = queue
    BY <1>3 DEF DrainStep, DrainCheck, DrainPop, DrainBegin, DrainEnd, DrainReturn, mail
  <2>2. \A e \in Drain : InFlight(e)' <=> InFlight(e)
    BY <1>0, <1>3 DEF DrainStep, DrainCheck, DrainPop, DrainBegin, DrainEnd, DrainReturn, InFlight, SendPcs
  <2>3. \A e \in Drain : InFlight(e) => hand'[e] = hand[e]
    BY <1>0, <1>3 DEF DrainStep, DrainCheck, DrainPop, DrainBegin, DrainEnd, DrainReturn, InFlight, SendPcs
  <2> QED
    BY <1>0, <1>1, <2>1, <2>2, <2>3, LineSame
<1> QED
  BY <1>2, <1>3

LEMMA NextPromise ==
    ASSUME TextsDiffer, NEW G, RoomInv(G), LossInv, Next
    PROVE  [Promise!Next]_(Promise!promise)
<1>0. SingleFlight /\ SingleFlight'
  BY SingleFlightStays DEF RoomInv, KeptInv
<1>1. ASSUME NEW a \in Actor, SendStep(a)
      PROVE  [Promise!Next]_(Promise!promise)
  BY <1>0, <1>1, SenderPromise, DrainSendPromise DEF Actor
<1>2. ASSUME NEW d \in Drain, DrainStep(d)
      PROVE  [Promise!Next]_(Promise!promise)
  BY <1>0, <1>2, DrainPromise
<1>3. CASE TickResolve
  BY <1>0, <1>3, ResolvePromise
<1>4. CASE TickReport
  <2>1. /\ UNCHANGED <<queue, hand, pc>>
        /\ fate' = [m \in Msg |-> IF fate[m] = "overdue" THEN "surfaced" ELSE fate[m]]
    BY <1>4 DEF TickReport, run
  <2>2. FateNow' = FateNow
    BY <2>1 DEF FateNow
  <2> QED
    BY <1>0, <2>1, <2>2, LineSame DEF InFlight
<1>5. ASSUME NEW m \in Msg, Send(m)
      PROVE  [Promise!Next]_(Promise!promise)
  <2>1. /\ UNCHANGED <<queue, hand>>
        /\ \E s \in {"gate1", "done"} : pc' = [pc EXCEPT ![m] = s]
    BY <1>5 DEF Send
  <2>2. \A d \in Drain : InFlight(d)' <=> InFlight(d)
    BY <2>1, RoomTypes DEF InFlight
  <2>3. CASE fate' = fate
    <3>1. FateNow' = FateNow
      BY <2>3 DEF FateNow
    <3> QED
      BY <1>0, <2>1, <2>2, <3>1, LineSame
  <2>4. CASE fate' = [fate EXCEPT ![m] = "refused"]
    <3>1. FateNow' = [FateNow EXCEPT ![m] = "refused"]
      BY <2>4, FateMoves DEF Fates
    <3>2. FateNow[m] = "new"
      BY <1>5 DEF Send, RoomInv, KeptInv, Kept, SendersNew, FateNow
    <3>3. HeldNow' = HeldNow
      <4>1. CASE \A d \in Drain : ~InFlight(d)
        BY <1>0, <2>1, <2>2, <4>1, HeldNowIs, HeldNowNext
      <4>2. ASSUME NEW d \in Drain, InFlight(d)
            PROVE  HeldNow' = HeldNow
        BY <1>0, <2>1, <2>2, <4>2, HeldNowIs, HeldNowNext
      <4> QED
        BY <4>1, <4>2
    <3>4. Promise!Direct(m)
      BY <3>1, <3>2, <3>3 DEF Promise!Direct
    <3> QED
      BY <3>4 DEF Promise!Next
  <2> QED
    BY <1>5, <2>3, <2>4 DEF Send
<1>6. ASSUME UNCHANGED <<queue, fate, hand>>, UNCHANGED pc \/ StartDrain
      PROVE  [Promise!Next]_(Promise!promise)
  <2>1. \A d \in Drain : InFlight(d)' <=> InFlight(d)
    BY <1>6, DrainStarts DEF InFlight, RoomInv, KeptInv
  <2>2. FateNow' = FateNow
    BY <1>6 DEF FateNow
  <2> QED
    BY <1>0, <1>6, <2>1, <2>2, LineSame
<1> QED
  BY <1>1, <1>2, <1>3, <1>4, <1>5, <1>6 DEF Next, TickStep, TickRead, TickEndDND, TickStart,
     TickSkip, TickDrain, DNDOn, DNDOff, DNDOffDone, EndDND, EndDNDStart, PaneStep, DialogOpens,
     DialogCloses, Output, Wedge, Unwedge, ChildExit, Stop, DeadlinePasses, MaybeDrain, mail, run

\* The senders, the drain, do-not-disturb and the tick together are the line the
\* sender of a held message was promised: first in, first out, nothing typed twice
\* and nothing silently gone, while no two messages have the same text (held_mail.go,
\* pane.go takeRedelivery and requeueFront).
THEOREM MailPromiseKept ==
    ASSUME TextsDiffer
    PROVE  Spec => PromiseKept
<1>1. Init => Promise!Init
  <2> SUFFICES ASSUME Init PROVE Promise!Init
    OBVIOUS
  <2>1. SingleFlight /\ queue = <<>> /\ \A d \in Drain : ~InFlight(d)
    BY ActorAssumption DEF Init, SingleFlight, InFlight, Actor, SendPcs
  <2>2. HeldNow = <<>>
    BY <2>1, HeldNowIs
  <2>3. FateNow = [m \in Msg |-> "new"]
    BY DEF Init, FateNow
  <2> QED
    BY <2>2, <2>3 DEF Promise!Init
<1>2. RoomInv({}) /\ LossInv /\ [Next]_vars => [Promise!Next]_(Promise!promise)
  <2> SUFFICES ASSUME RoomInv({}), LossInv, [Next]_vars PROVE [Promise!Next]_(Promise!promise)
    OBVIOUS
  <2>1. CASE Next
    BY <2>1, NextPromise
  <2>2. CASE UNCHANGED vars
    BY <2>2 DEF vars, Promise!promise, HeldNow, FateNow, InFlight
  <2> QED
    BY <2>1, <2>2
<1> QED
  BY <1>1, <1>2, RoomAlways, LossAlways, PTL DEF Spec, PromiseKept, Promise!Spec

-----------------------------------------------------------------------------
(* The file: HeldFile. *)

-----------------------------------------------------------------------------
(* The inductive invariant. *)

Mails == [typing : Msg \cup {NoMsg}, rest : Seq(Msg)]

FileTypes ==
    /\ file \in Mails /\ hook \in [Goroutine -> HookPcs] /\ seen \in [Goroutine -> Mails]
    /\ overlap \in BOOLEAN /\ up \in BOOLEAN /\ gone \subseteq Msg

\* A past snapshot has each message once, and none nobody has sent.
Past(s) == /\ NoDup(s.rest)
           /\ \A m \in Msg : pc[m] = "idle" => m \notin Elems(s.rest)
PastInv == Past(file) /\ \A g \in Goroutine : Past(seen[g])

\* What memory may have lost of the held mail: while the process is down, all.
Lost == IF up THEN gone ELSE Msg

\* Down, nothing runs and nothing is in memory; what was held is saved or gone.
DownInv ==
    ~up => /\ queue = <<>> /\ redelivering = NoMsg /\ ~draining /\ sendMu = NoOne
           /\ \A d \in Drain : pc[d] = "off"
           /\ \A m \in Msg : pc[m] \in {"idle", "done"}
           /\ \A g \in Goroutine : hook[g] = "idle"
           /\ {m \in Msg : fate[m] = "held"} \subseteq Saved \cup gone

\* Until two hooks have run at once: at most one goroutine is in its hook, what it
\* carries is the held mail, and with nobody in one so is the file.
FollowInv ==
    up /\ ~overlap =>
        /\ \A g, h \in Goroutine : hook[g] # "idle" /\ hook[h] # "idle" => g = h
        /\ \A g \in Goroutine : hook[g] \in {"snapped", "snappedInSend"} => seen[g] = Snapshot
        /\ Written => file = Snapshot

\* Until then, what the file has is still on the queue, or is with the goroutine
\* that took it off and is in its hook; so no message in it has a verdict.
Waits(m) ==
    \/ m \in Elems(queue)
    \/ \E d \in Drain : pc[d] = "begin" /\ hand[d] = m /\ hook[d] # "idle"
    \/ fate[m] = "overdue" /\ ctl["tick"] = "report" /\ hook["tick"] # "idle"
RestWaits == up /\ ~overlap => \A m \in Elems(file.rest) : Waits(m)
RestUntold == ~up /\ ~overlap => \A m \in Elems(file.rest) : fate[m] \in {"held", "overdue"}

FileInv == /\ FileTypes /\ KeptInv(Lost) /\ PastInv /\ DownInv
           /\ FollowInv /\ RestWaits /\ RestUntold

\* Further, if no two messages have one text.
MarkInv == SingleFlight /\ Room

-----------------------------------------------------------------------------
(* A tick that takes nothing leaves the queue as it is. *)

LEMMA TickTakesNothing ==
    ASSUME KeptInv(Lost), ~TickTakes, TickResolve
    PROVE  queue' = queue /\ fate' = fate
<1>1. queue \in Seq(Msg) /\ NoDup(queue) /\ fate = [m \in Msg |-> fate[m]]
  BY DEF KeptInv, TypeInv, TypeOK, Kept, QueueHeld
<1>2. GivenUp = {}
  BY <1>1 DEF TickTakes, GivenUp, Elems
<1> QED BY <1>1, <1>2, WithoutNothing DEF TickResolve

-----------------------------------------------------------------------------
(* The steps of a running process: a section without a hook, one with a     *)
(* hook, and what the pane, the operator and the clock do.                  *)

QuietStep(g) ==
    \/ g \in Msg /\ Send(g)
    \/ g \in Actor /\ ActorQuiet(g)
    \/ g \in Drain /\ (DrainCheck(g) \/ DrainReturn(g))
    \/ g = "ipc" /\ dnd # "off" /\ DNDOff
    \/ g = "tick" /\ (TickRead \/ TickSkip \/ TickReport \/ TickDrain)
    \/ g = "tick" /\ dnd # "off" /\ TickEndDND
    \/ g = "tick" /\ ~TickTakes /\ TickResolve

ChangeStep(g) ==
    \/ g \in Actor /\ ActorChanging(g)
    \/ g \in Drain /\ (DrainPop(g) \/ DrainBegin(g) \/ DrainEnd(g))
    \/ g = "ipc" /\ (DNDOffDone \/ DNDOff)
    \/ g = "tick" /\ (TickStart \/ TickEndDND)
    \/ g = "tick" /\ TickTakes /\ TickResolve

Outside ==
    \/ \E h \in DNDKinds : DNDOn(h)
    \/ \E m \in Msg : DeadlinePasses(m)
    \/ DialogOpens \/ DialogCloses \/ Output \/ Wedge \/ Unwedge \/ ChildExit \/ Stop

Hooked(g) ==
    /\ hook' = [hook EXCEPT ![g] = IF sendMu = g THEN "changedInSend" ELSE "changed"]
    /\ overlap' = (overlap \/ \E h \in Goroutine : hook[h] # "idle")
    /\ UNCHANGED <<file, seen, up, crashes, gone>>

LEMMA RunningSteps ==
    ASSUME Running
    PROVE  /\ up
           /\ \/ /\ UNCHANGED fileVars
                 /\ Outside \/ \E g \in Goroutine : hook[g] = "idle" /\ QuietStep(g)
              \/ \E g \in Goroutine : hook[g] = "idle" /\ ChangeStep(g) /\ Hooked(g)
<1>1. ASSUME NEW m \in Msg, Quiet(m, Send(m))
      PROVE  m \in Goroutine /\ up /\ UNCHANGED fileVars /\ hook[m] = "idle" /\ QuietStep(m)
  BY <1>1 DEF Quiet, QuietStep, Goroutine, Actor
<1>2. ASSUME NEW a \in Actor, Quiet(a, ActorQuiet(a))
      PROVE  a \in Goroutine /\ up /\ UNCHANGED fileVars /\ hook[a] = "idle" /\ QuietStep(a)
  BY <1>2 DEF Quiet, QuietStep, Goroutine
<1>3. ASSUME NEW a \in Actor, Changing(a, ActorChanging(a))
      PROVE  a \in Goroutine /\ up /\ hook[a] = "idle" /\ ChangeStep(a) /\ Hooked(a)
  BY <1>3 DEF Changing, ChangeStep, Hooked, Goroutine
<1>4. ASSUME NEW d \in Drain, Quiet(d, DrainCheck(d) \/ DrainReturn(d))
      PROVE  d \in Goroutine /\ up /\ UNCHANGED fileVars /\ hook[d] = "idle" /\ QuietStep(d)
  BY <1>4 DEF Quiet, QuietStep, Goroutine, Actor
<1>5. ASSUME NEW d \in Drain, Changing(d, DrainPop(d) \/ DrainBegin(d) \/ DrainEnd(d))
      PROVE  d \in Goroutine /\ up /\ hook[d] = "idle" /\ ChangeStep(d) /\ Hooked(d)
  BY <1>5 DEF Changing, ChangeStep, Hooked, Goroutine, Actor
<1>6. ASSUME CtlQuiet
      PROVE  /\ up /\ UNCHANGED fileVars
             /\ \E g \in Goroutine : hook[g] = "idle" /\ QuietStep(g)
  BY <1>6 DEF CtlQuiet, Quiet, QuietStep, Goroutine
<1>7. ASSUME CtlChanging
      PROVE  up /\ \E g \in Goroutine : hook[g] = "idle" /\ ChangeStep(g) /\ Hooked(g)
  BY <1>7 DEF CtlChanging, Changing, ChangeStep, Hooked, Goroutine
<1>8. ASSUME up, UNCHANGED fileVars,
             \/ \E h \in DNDKinds : DNDOn(h)
             \/ \E m \in Msg : DeadlinePasses(m)
             \/ DialogOpens \/ DialogCloses \/ Output \/ Wedge \/ Unwedge \/ ChildExit
             \/ SendMuFree /\ Stop
      PROVE  up /\ UNCHANGED fileVars /\ Outside
  BY <1>8 DEF Outside
<1> QED BY <1>1, <1>2, <1>3, <1>4, <1>5, <1>6, <1>7, <1>8 DEF Running

\* Each is a step of HeldMail.
LEMMA RunningIsNext ==
    ASSUME \/ Outside
           \/ \E g \in Goroutine : QuietStep(g) \/ ChangeStep(g)
    PROVE  Next
<1>1. CASE Outside
  BY <1>1 DEF Outside, Next, PaneStep
<1>2. ASSUME NEW a \in Actor, ActorQuiet(a) \/ ActorChanging(a) PROVE Next
  BY <1>2 DEF ActorQuiet, ActorChanging, Next, SendStep
<1>3. ASSUME NEW g \in Goroutine, QuietStep(g) PROVE Next
  BY <1>2, <1>3 DEF QuietStep, Next, DrainStep, TickStep
<1>4. ASSUME NEW g \in Goroutine, ChangeStep(g) PROVE Next
  BY <1>2, <1>4 DEF ChangeStep, Next, DrainStep, TickStep
<1> QED BY <1>1, <1>3, <1>4

\* What the file follows is left alone by all but the sections with a hook.
LEMMA QuietLeaves ==
    ASSUME KeptInv(Lost), Outside \/ \E g \in Goroutine : QuietStep(g)
    PROVE  UNCHANGED <<queue, redelivering>>
<1>1. CASE Outside
  BY <1>1 DEF Outside, DNDOn, DeadlinePasses, DialogOpens, DialogCloses, Output, Wedge, Unwedge,
     ChildExit, Stop, mail
<1>2. ASSUME NEW g \in Goroutine, QuietStep(g) PROVE UNCHANGED <<queue, redelivering>>
  <2>1. CASE g \in Actor /\ ActorQuiet(g)
    BY <2>1 DEF ActorQuiet, Gate1, Gate2, Gate, Lock, GuardNoPTY, GuardClear, WriteBody, mail
  <2>2. CASE ~TickTakes /\ TickResolve
    BY <2>2, TickTakesNothing DEF TickResolve
  <2> QED BY <1>2, <2>1, <2>2 DEF QuietStep, Send, DrainCheck, DrainReturn, DNDOff, TickRead, TickSkip,
              TickReport, TickDrain, TickEndDND, EndDND, mail
<1> QED BY <1>1, <1>2

-----------------------------------------------------------------------------
(* What the file has of a message that was taken off the queue: nobody goes *)
(* on with it while the hook of the goroutine that took it is not done.     *)

\* A message in the file keeps waiting while goroutines out of their hooks move.
LEMMA QuietWaits ==
    ASSUME KeptInv(Lost), UNCHANGED hook, NEW m \in Msg, Waits(m),
           Outside \/ \E g \in Goroutine : hook[g] = "idle" /\ QuietStep(g)
    PROVE  Waits(m)'
<1>1. UNCHANGED <<queue, redelivering>>
  BY QuietLeaves
<1>2. /\ pc \in [Actor -> MsgPcs \cup DrainPcs] /\ fate \in [Msg -> Fates]
      /\ hand \in [Drain -> Msg \cup {NoMsg}] /\ ctl \in [{"tick", "ipc"} -> CtlPcs]
      /\ Drain \subseteq Actor /\ Msg \cap Drain = {}
  BY ActorAssumption DEF KeptInv, TypeInv, TypeOK, Actor
<1>3. CASE m \in Elems(queue)
  BY <1>1, <1>3 DEF Waits
<1>4. ASSUME NEW d \in Drain, pc[d] = "begin", hand[d] = m, hook[d] # "idle"
      PROVE  Waits(m)'
  <2>1. ASSUME UNCHANGED <<hand, pc>> PROVE Waits(m)'
    BY <1>4, <2>1 DEF Waits
  <2>2. ASSUME StartDrain, UNCHANGED hand PROVE Waits(m)'
    BY <1>2, <1>4, <2>2 DEF Waits, StartDrain
  <2>3. ASSUME NEW a \in Actor, a # d, NEW s, pc' = [pc EXCEPT ![a] = s], UNCHANGED hand
        PROVE  Waits(m)'
    BY <1>2, <1>4, <2>3 DEF Waits
  <2>4. CASE Outside
    BY <2>1, <2>2, <2>4 DEF Outside, DNDOn, DeadlinePasses, DialogOpens, DialogCloses, Output, Wedge,
       Unwedge, ChildExit, Stop, MaybeDrain, run
  <2>5. ASSUME NEW g \in Goroutine, hook[g] = "idle", QuietStep(g) PROVE Waits(m)'
    <3>1. g # d
      BY <1>4, <2>5
    <3>2. CASE g \in Msg /\ Send(g)
      <4>1. hand' = hand /\ \E s : pc' = [pc EXCEPT ![g] = s]
        BY <3>2 DEF Send
      <4> QED BY <2>3, <3>1, <3>2, <4>1 DEF Actor
    <3>3. CASE g \in Actor /\ ActorQuiet(g)
      <4>1. hand' = hand /\ \E s : pc' = [pc EXCEPT ![g] = s]
        BY <3>3, SendStepMoves DEF ActorQuiet, SendStep
      <4> QED BY <2>3, <3>1, <3>3, <4>1
    <3>4. CASE g \in Drain /\ (DrainCheck(g) \/ DrainReturn(g))
      <4>1. hand' = hand /\ \E s : pc' = [pc EXCEPT ![g] = s]
        BY <3>4 DEF DrainCheck, DrainReturn
      <4> QED BY <1>2, <2>3, <3>1, <3>4, <4>1
    <3>5. CASE DNDOff \/ TickRead \/ TickSkip \/ TickReport \/ TickDrain \/ TickEndDND \/ TickResolve
      BY <2>1, <2>2, <3>5 DEF DNDOff, TickRead, TickSkip, TickReport, TickDrain, TickEndDND, EndDND,
         TickResolve, run
    <3> QED BY <2>5, <3>2, <3>3, <3>4, <3>5 DEF QuietStep
  <2> QED BY <2>4, <2>5
<1>5. ASSUME fate[m] = "overdue", ctl["tick"] = "report", hook["tick"] # "idle"
      PROVE  Waits(m)'
  <2>1. ASSUME UNCHANGED fate, ctl'["tick"] = "report" PROVE Waits(m)'
    BY <1>5, <2>1 DEF Waits
  <2>2. CASE Outside
    BY <1>5, <2>1, <2>2 DEF Outside, DNDOn, DeadlinePasses, DialogOpens, DialogCloses, Output, Wedge,
       Unwedge, ChildExit, Stop, mail, hold
  <2>3. ASSUME NEW g \in Goroutine, hook[g] = "idle", QuietStep(g) PROVE Waits(m)'
    <3>1. g # "tick"
      BY <1>5, <2>3
    <3>2. CASE g \in Msg /\ Send(g)
      <4>1. UNCHANGED ctl /\ (fate' = fate \/ fate' = [fate EXCEPT ![g] = "refused"]) /\ fate[g] = "new"
        BY <3>2 DEF Send, hold, KeptInv, Kept, SendersNew
      <4>2. g # m
        BY <1>5, <4>1
      <4> QED BY <1>2, <1>5, <4>1, <4>2 DEF Waits
    <3>3. CASE g \in Actor /\ ActorQuiet(g)
      <4>1. UNCHANGED ctl /\ (fate' = fate \/ \E f : fate' = [fate EXCEPT ![Carried(g)] = f])
            /\ pc[g] \in SendPcs
        BY <3>3 DEF ActorQuiet, Gate1, Gate2, Gate, Lock, GuardNoPTY, GuardClear, WriteBody, mail, hold,
           SendPcs
      <4>2. Carried(g) # m
        BY <1>5, <3>3, <4>1, CarriedIsOwn DEF Actor, Carried
      <4> QED BY <1>2, <1>5, <4>1, <4>2 DEF Waits
    <3>4. CASE g \in Drain /\ (DrainCheck(g) \/ DrainReturn(g))
      BY <1>5, <2>1, <3>4 DEF DrainCheck, DrainReturn, mail, hold
    <3>5. CASE DNDOff
      BY <1>2, <1>5, <2>1, <3>5 DEF DNDOff, EndDND
    <3> QED BY <2>3, <3>1, <3>2, <3>3, <3>4, <3>5 DEF QuietStep
  <2> QED BY <2>2, <2>3
<1> QED BY <1>3, <1>4, <1>5 DEF Waits

\* One that is on the queue waits on after a section with a hook.
LEMMA ChangeWaits ==
    ASSUME KeptInv(Lost), NEW m \in Elems(queue), NEW g \in Goroutine, ChangeStep(g),
           hook'[g] # "idle"
    PROVE  Waits(m)'
<1>1. /\ queue \in Seq(Msg) /\ NoDup(queue) /\ m \in Msg
      /\ pc \in [Actor -> MsgPcs \cup DrainPcs]
      /\ hand \in [Drain -> Msg \cup {NoMsg}] /\ ctl \in [{"tick", "ipc"} -> CtlPcs]
      /\ Drain \subseteq Actor
  BY DEF KeptInv, TypeInv, TypeOK, Kept, QueueHeld, Actor, Elems
<1>2. ASSUME UNCHANGED queue PROVE Waits(m)'
  BY <1>2 DEF Waits
<1>3. CASE g \in Actor /\ ActorChanging(g)
  <2> DEFINE c == Carried(g)
  <2>1. pc[g] \in SendPcs
    BY <1>3 DEF ActorChanging, Gate1, Gate2, Gate, GuardHold, PutBack, WritePartial, WriteNotReached,
       SendPcs
  <2>2. c \in Msg
    BY <1>3, <2>1, CarriedIsMsg DEF KeptInv
  <2>3. queue' \in {queue, Append(queue, c), <<c>> \o queue}
    <3>1. /\ \A t \in Clocks : Enqueue(g, t) => queue' \in {queue, Append(queue, c)}
          /\ "unarmed" \in Clocks /\ "running" \in Clocks
      BY DEF Enqueue, Clocks
    <3>2. HoldIfDND(g) \/ HoldInSend(g) => queue' \in {queue, Append(queue, c), <<c>> \o queue}
      BY <3>1 DEF HoldIfDND, HoldInSend
    <3> HIDE DEF c
    <3>3. PutBack(g) => queue' = <<c>> \o queue
      BY DEF PutBack, c
    <3> QED BY <1>3, <3>2, <3>3 DEF ActorChanging, Gate1, Gate2, Gate, mail, GuardHold, WritePartial,
                WriteNotReached
  <2> HIDE DEF c
  <2>4. m \in Elems(queue')
    <3>1. Elems(Append(queue, c)) = Elems(queue) \cup {c}
      BY ONLY <1>1, <2>2, AppendElems
    <3>2. Elems(<<c>> \o queue) = Elems(queue) \cup {c}
      BY ONLY <1>1, <2>2, FrontElems
    <3> DEFINE app == Append(queue, c)
               front == <<c>> \o queue
    <3>3. /\ queue' \in {queue, app, front} /\ Elems(app) = Elems(queue) \cup {c}
          /\ Elems(front) = Elems(queue) \cup {c} /\ m \in Elems(queue)
      BY <2>3, <3>1, <3>2
    <3> HIDE DEF app, front
    <3> QED BY ONLY <3>3
  <2> QED BY <2>4 DEF Waits
<1>4. CASE g \in Drain /\ DrainPop(g)
  <2>1. CASE queue = <<>>
    BY <1>2, <1>4, <2>1 DEF DrainPop
  <2>2. CASE queue # <<>>
    <3>1. pc'[g] = "begin" /\ hand'[g] = Head(queue) /\ queue' = Tail(queue)
      BY <1>1, <1>4, <2>2 DEF DrainPop
    <3>a. Elems(queue) = Elems(Tail(queue)) \cup {Head(queue)}
      BY ONLY <1>1, <2>2, TailElems
    <3>2. m = Head(queue) \/ m \in Elems(queue')
      BY <3>1, <3>a
    <3> QED BY <1>4, <3>1, <3>2 DEF Waits
  <2> QED BY <2>1, <2>2
<1>5. CASE g \in Drain /\ (DrainBegin(g) \/ DrainEnd(g))
  BY <1>2, <1>5 DEF DrainBegin, DrainEnd
<1>6. CASE DNDOffDone \/ DNDOff \/ TickStart \/ TickEndDND
  BY <1>2, <1>6 DEF DNDOffDone, DNDOff, TickStart, TickEndDND, EndDND, EndDNDStart, mail
<1>7. CASE g = "tick" /\ TickResolve
  <2>1. /\ queue' \in Without(queue, GivenUp) /\ ctl'["tick"] = "report"
        /\ fate' = [n \in Msg |-> IF n \in GivenUp THEN "overdue" ELSE fate[n]]
    BY <1>1, <1>7 DEF TickResolve
  <2>2. m \in Elems(queue') \/ fate'[m] = "overdue"
    BY <1>1, <2>1, WithoutElems
  <2> QED BY <1>7, <2>1, <2>2 DEF Waits
<1> QED BY <1>3, <1>4, <1>5, <1>6, <1>7 DEF ChangeStep


-----------------------------------------------------------------------------
(* The steps of a running process keep the invariant. *)

\* A message is sent once.
LEMMA SentOnce ==
    ASSUME TypeInv, Next
    PROVE  \A m \in Msg : pc'[m] = "idle" => pc[m] = "idle"
<1>a. pc \in [Actor -> MsgPcs \cup DrainPcs] /\ Msg \subseteq Actor /\ Drain \subseteq Actor
      /\ Msg \cap Drain = {}
  BY ActorAssumption DEF TypeInv, TypeOK, Actor
<1>1. ASSUME NEW a \in Actor, SendStep(a), NEW m \in Msg, pc'[m] = "idle" PROVE pc[m] = "idle"
  <2>1. PICK s : pc' = [pc EXCEPT ![a] = s]
    BY <1>1, SendStepMoves
  <2>2. a # m => pc'[m] = pc[m]
    BY <1>a, <2>1
  <2>3. a = m => pc'[a] \in {"done"} \cup SendPcs
    <3> SUFFICES ASSUME a = m PROVE pc'[a] \in {"done"} \cup SendPcs
      OBVIOUS
    <3> QED BY <1>a, <1>1 DEF SendStep, Gate1, Gate2, Gate, Lock, GuardNoPTY, GuardHold, GuardClear,
             WriteBody, WritePartial, WriteNotReached, PutBack, HoldInSend, EndSend, AfterSend, SendPcs
  <2> QED BY <1>1, <2>2, <2>3 DEF SendPcs
<1>2. StartDrain => \A m \in Msg : pc'[m] = pc[m]
  BY DrainStarts
<1>3. ASSUME NEW d \in Drain, DrainStep(d) PROVE \A m \in Msg : pc'[m] = pc[m]
  <2>1. PICK s : pc' = [pc EXCEPT ![d] = s]
    BY <1>3 DEF DrainStep, DrainCheck, DrainPop, DrainBegin, DrainEnd, DrainReturn
  <2> QED BY <1>a, <2>1
<1>4. ASSUME NEW n \in Msg, Send(n) PROVE \A m \in Msg : pc'[m] = "idle" => pc[m] = "idle"
  BY <1>a, <1>4 DEF Send
<1> QED BY <1>1, <1>2, <1>3, <1>4 DEF Next, TickStep, TickRead, TickEndDND, TickStart, TickSkip,
     TickResolve, TickReport, TickDrain, DNDOn, DNDOff, DNDOffDone, EndDND, EndDNDStart, PaneStep,
     DialogOpens, DialogCloses, Output, Wedge, Unwedge, ChildExit, Stop, DeadlinePasses, MaybeDrain,
     mail, run

LEMMA RunningKeeps ==
    ASSUME FileInv, Running
    PROVE  FileInv' /\ Next
<1>1. Next
  BY RunningSteps, RunningIsNext
<1>2. up /\ up' /\ UNCHANGED <<file, seen, gone>>
  BY RunningSteps DEF Hooked, fileVars
<1>3. FileTypes'
  <2>1. CASE UNCHANGED fileVars
    BY <2>1 DEF fileVars, FileInv, FileTypes
  <2>2. ASSUME NEW g \in Goroutine, Hooked(g) PROVE FileTypes'
    BY <2>2 DEF Hooked, FileInv, FileTypes, HookPcs
  <2> QED BY <2>1, <2>2, RunningSteps
<1>4. KeptInv(Lost)'
  <2>1. PICK L : L = Lost
    OBVIOUS
  <2>2. KeptInv(L)
    BY <2>1 DEF FileInv
  <2>3. KeptInv(L)'
    BY <1>1, <2>2, NextKeeps
  <2>4. Lost' = L
    BY <1>2, <2>1 DEF Lost
  <2> QED BY <2>3, <2>4
<1>5. PastInv'
  <2>1. \A m \in Msg : pc'[m] = "idle" => pc[m] = "idle"
    BY <1>1, SentOnce DEF FileInv, KeptInv
  <2> QED BY <1>2, <2>1 DEF FileInv, PastInv, Past
<1>6. DownInv' /\ RestUntold'
  BY <1>2 DEF DownInv, RestUntold
<1>7. ASSUME UNCHANGED fileVars, Outside \/ \E g \in Goroutine : hook[g] = "idle" /\ QuietStep(g)
      PROVE  FollowInv' /\ RestWaits'
  <2>1. UNCHANGED <<queue, redelivering>>
    BY <1>7, QuietLeaves DEF FileInv
  <2>2. FollowInv'
    BY <1>7, <2>1 DEF fileVars, FileInv, FollowInv, Written, Snapshot
  <2>3. RestWaits'
    <3>1. ASSUME NEW m \in Msg, Waits(m) PROVE Waits(m)'
      BY <1>7, <3>1, QuietWaits DEF FileInv, fileVars
    <3>2. Elems(file.rest) \subseteq Msg
      BY DEF FileInv, FileTypes, Mails, Elems
    <3> QED BY <1>7, <3>1, <3>2 DEF RestWaits, FileInv, fileVars
  <2> QED BY <2>2, <2>3
<1>8. ASSUME NEW g \in Goroutine, ChangeStep(g), Hooked(g)
      PROVE  FollowInv' /\ RestWaits'
  <2> SUFFICES ASSUME ~overlap' PROVE FollowInv' /\ RestWaits'
    BY DEF FollowInv, RestWaits
  <2>1. ~overlap /\ \A h \in Goroutine : hook[h] = "idle"
    BY <1>8 DEF Hooked
  <2>2. /\ hook'[g] \in {"changed", "changedInSend"}
        /\ \A h \in Goroutine : h # g => hook'[h] = "idle"
    BY <1>8, <2>1 DEF Hooked, FileInv, FileTypes
  <2>3. FollowInv'
    BY <2>2 DEF FollowInv, Written
  <2>4. file.rest = queue
    BY <1>2, <2>1 DEF FileInv, FollowInv, Written, Snapshot
  <2>5. \A m \in Elems(queue) : Waits(m)'
    BY <1>8, <2>2, ChangeWaits DEF FileInv
  <2>6. RestWaits'
    BY <1>2, <2>4, <2>5 DEF RestWaits
  <2> QED BY <2>3, <2>6
<1>9. FollowInv' /\ RestWaits'
  BY <1>7, <1>8, RunningSteps
<1> QED BY <1>1, <1>3, <1>4, <1>5, <1>6, <1>9 DEF FileInv

\* A step that leaves the held mail alone leaves what was proved of it.
LEMMA StillKept ==
    ASSUME FileInv, UNCHANGED <<vars, up, gone>>
    PROVE  KeptInv(Lost)'
<1>1. PICK L : L = Lost
  OBVIOUS
<1>2. KeptInv(L)'
  <2>1. KeptInv(L)
    BY <1>1 DEF FileInv
  <2> QED BY <2>1, NextKeeps
<1>3. Lost' = L
  BY <1>1 DEF Lost
<1> QED BY <1>2, <1>3

LEMMA SnapshotKeeps ==
    ASSUME FileInv, NEW g \in Goroutine, TakeSnapshot(g)
    PROVE  FileInv'
<1>1. /\ UNCHANGED <<vars, file, overlap, up, gone>>
      /\ hook[g] \in {"changed", "changedInSend"} /\ hook'[g] \in {"snapped", "snappedInSend"}
      /\ hook' \in [Goroutine -> HookPcs] /\ \A h \in Goroutine : h # g => hook'[h] = hook[h]
      /\ \A h \in Goroutine : seen'[h] = IF h = g THEN Snapshot ELSE seen[h]
      /\ seen' = [seen EXCEPT ![g] = Snapshot]
  BY DEF TakeSnapshot, FileInv, FileTypes, HookPcs
<1>2. up
  BY <1>1 DEF FileInv, DownInv
<1>3. Snapshot \in Mails /\ Past(Snapshot)
  <2>1. \A m \in Msg : pc[m] = "idle" => fate[m] = "new"
    BY DEF FileInv, KeptInv, Kept, SendersNew
  <2>2. NoDup(queue) /\ \A m \in Elems(queue) : fate[m] = "held"
    BY DEF FileInv, KeptInv, Kept, QueueHeld
  <2> QED BY <2>1, <2>2 DEF Snapshot, Mails, FileInv, KeptInv, TypeInv, TypeOK, Past
<1>4. FileTypes'
  BY <1>1, <1>3 DEF FileInv, FileTypes
<1>5. KeptInv(Lost)'
  BY <1>1, StillKept
<1>6. PastInv'
  <2>1. ASSUME NEW s, Past(s) PROVE /\ NoDup(s.rest)
                                    /\ \A m \in Msg : pc'[m] = "idle" => m \notin Elems(s.rest)
    BY <1>1, <2>1 DEF Past, vars
  <2> QED BY <1>1, <1>3, <2>1 DEF FileInv, PastInv, Past
<1>7. DownInv' /\ RestUntold'
  BY <1>1, <1>2 DEF DownInv, RestUntold
<1>8. FollowInv'
  <2>1. Snapshot' = Snapshot
    BY <1>1 DEF Snapshot, vars
  <2> QED BY <1>1, <1>2, <2>1 DEF FileInv, FollowInv, Written
<1>9. RestWaits'
  <2>1. ASSUME NEW m, Waits(m) PROVE Waits(m)'
    <3>1. \A h \in Goroutine : hook[h] # "idle" => hook'[h] # "idle"
      BY <1>1
    <3>2. "tick" \in Goroutine /\ Drain \subseteq Goroutine
      BY DEF Goroutine, Actor
    <3> QED BY <1>1, <2>1, <3>1, <3>2 DEF Waits, vars
  <2> QED BY <1>1, <2>1 DEF FileInv, RestWaits
<1> QED BY <1>4, <1>5, <1>6, <1>7, <1>8, <1>9 DEF FileInv

LEMMA WriteKeeps ==
    ASSUME FileInv, NEW g \in Goroutine, WriteFile(g)
    PROVE  FileInv'
<1>1. /\ UNCHANGED <<vars, overlap, up, gone>> /\ file' = seen[g]
      /\ hook[g] \in {"snapped", "snappedInSend"} /\ hook'[g] = "idle"
      /\ hook' \in [Goroutine -> HookPcs] /\ \A h \in Goroutine : h # g => hook'[h] = hook[h]
      /\ \A h \in Goroutine : seen'[h] = IF h = g THEN NoMail ELSE seen[h]
      /\ seen' = [seen EXCEPT ![g] = NoMail]
  BY DEF WriteFile, FileInv, FileTypes, HookPcs
<1>2. up
  BY <1>1 DEF FileInv, DownInv
<1>3. NoMail \in Mails /\ Past(NoMail)
  BY DEF NoMail, Mails, Past, NoDup, Elems
<1>4. FileTypes'
  BY <1>1, <1>3 DEF FileInv, FileTypes
<1>5. KeptInv(Lost)'
  BY <1>1, StillKept
<1>6. PastInv'
  <2>1. ASSUME NEW s, Past(s) PROVE /\ NoDup(s.rest)
                                    /\ \A m \in Msg : pc'[m] = "idle" => m \notin Elems(s.rest)
    BY <1>1, <2>1 DEF Past, vars
  <2> QED BY <1>1, <1>3, <2>1 DEF FileInv, PastInv, Past
<1>7. DownInv' /\ RestUntold'
  BY <1>1, <1>2 DEF DownInv, RestUntold
<1>8. ASSUME ~overlap
      PROVE  seen[g] = Snapshot /\ \A h \in Goroutine : hook'[h] = "idle"
  BY <1>1, <1>2, <1>8 DEF FileInv, FollowInv
<1>9. FollowInv'
  <2>1. Snapshot' = Snapshot
    BY <1>1 DEF Snapshot, vars
  <2> QED BY <1>1, <1>2, <1>8, <2>1 DEF FollowInv, Written
<1>10. RestWaits'
  BY <1>1, <1>8 DEF RestWaits, Waits, Snapshot, vars
<1> QED BY <1>4, <1>5, <1>6, <1>7, <1>9, <1>10 DEF FileInv

-----------------------------------------------------------------------------
(* A crash, and the start after it. *)

\* What the next start puts back of the file is the oldest of it, once each.
LEMMA PutBackOnStart ==
    ASSUME FileTypes, NoDup(file.rest)
    PROVE  /\ KeptOnStart \in Seq(Msg) /\ NoDup(KeptOnStart)
           /\ Len(KeptOnStart) \in Nat /\ Len(KeptOnStart) <= MaxQueue
           /\ Elems(KeptOnStart) \subseteq Elems(file.rest) /\ Elems(KeptOnStart) \subseteq Msg
<1> DEFINE r == file.rest
           n == IF Len(r) < MaxQueue THEN Len(r) ELSE MaxQueue
<1>1. r \in Seq(Msg) /\ Len(r) \in Nat /\ MaxQueue \in Nat /\ NoDup(r)
  BY CapAssumption DEF FileTypes, Mails
<1>2. KeptOnStart = SubSeq(r, 1, n)
  BY DEF KeptOnStart
<1>3. n \in Nat /\ n <= Len(r) /\ n <= MaxQueue
  BY <1>1
<1> HIDE DEF r, n
<1>4. /\ SubSeq(r, 1, n) \in Seq(Msg) /\ Len(SubSeq(r, 1, n)) = n
      /\ DOMAIN SubSeq(r, 1, n) = 1 .. n /\ DOMAIN r = 1 .. Len(r)
      /\ \A i \in 1 .. n : SubSeq(r, 1, n)[i] = r[i] /\ i \in 1 .. Len(r)
  BY <1>1, <1>3
<1>5. NoDup(SubSeq(r, 1, n))
  BY <1>1, <1>4 DEF NoDup
<1>6. Elems(SubSeq(r, 1, n)) \subseteq Elems(r) /\ Elems(r) \subseteq Msg
  BY <1>1, <1>4 DEF Elems
<1> QED BY <1>2, <1>3, <1>4, <1>5, <1>6 DEF r

LEMMA CrashKeeps ==
    ASSUME FileInv, Crash
    PROVE  FileInv' /\ FateStays
<1>a. /\ fate \in [Msg -> Fates] /\ pc \in [Actor -> MsgPcs \cup DrainPcs]
      /\ Msg \cap Drain = {} /\ Actor = Msg \cup Drain
  BY ActorAssumption DEF FileInv, KeptInv, TypeInv, TypeOK, Actor
<1>1. /\ up /\ ~up' /\ UNCHANGED <<file, overlap>> /\ queue' = <<>> /\ redelivering' = NoMsg
      /\ sendMu' = NoOne /\ ~draining'
      /\ \A m \in Msg : fate'[m] = IF Unanswered(m) THEN "refused" ELSE fate[m]
      /\ \A d \in Drain : pc'[d] = "off"
      /\ \A m \in Msg : pc'[m] = IF pc[m] = "idle" THEN "idle" ELSE "done"
      /\ \A g \in Goroutine : hook'[g] = "idle"
      /\ gone' = gone \cup {m \in Msg : fate'[m] \in {"held", "overdue"} /\ m \notin Saved}
  BY <1>a DEF Crash
<1>2. fate' \in [Msg -> Fates] /\ FateStays
  <2>1. fate' \in [Msg -> Fates]
    BY <1>a DEF Crash, Fates
  <2>2. FateStays
    BY <1>1 DEF FateStays, Unanswered, Terminal
  <2> QED BY <2>1, <2>2
<1>3. \A d \in Drain : ~InFlight(d)'
  BY <1>1 DEF InFlight, SendPcs
<1>4. KeptInv(Lost)'
  <2>1. TypeOK'
    <3>1. clock' \in [Msg -> Clocks] /\ hand' \in [Drain -> Msg \cup {NoMsg}]
      BY DEF Crash, Clocks
    <3>2. /\ pc' \in [Actor -> MsgPcs \cup DrainPcs]
          /\ \A m \in Msg : pc'[m] \in MsgPcs
          /\ \A d \in Drain : pc'[d] \in DrainPcs
      BY <1>a, <1>1 DEF Crash, MsgPcs, DrainPcs
    <3>3. /\ dnd' \in Holds /\ ctl' \in [{"tick", "ipc"} -> CtlPcs]
          /\ dialog' \in BOOLEAN /\ stuck' \in BOOLEAN /\ alive' \in BOOLEAN /\ pty' \in BOOLEAN
      BY DEF Crash, Holds, CtlPcs
    <3>4. queue' \in Seq(Msg)
      BY <1>1
    <3>5. /\ redelivering' \in Msg \cup {NoMsg} /\ sendMu' \in Actor \cup {NoOne}
          /\ draining' \in BOOLEAN
      BY DEF Crash
    <3> QED BY <1>2, <3>1, <3>2, <3>3, <3>4, <3>5 DEF TypeOK
  <2>2. QueueHeld'
    BY <1>1 DEF QueueHeld, NoDup, Elems
  <2>3. HandsFull' /\ HandsHeld' /\ HandsApart'
    BY <1>3 DEF HandsFull, HandsHeld, HandsApart
  <2>4. HeldSomewhere(Lost)'
    BY <1>1 DEF HeldSomewhere, Lost
  <2>5. SendersNew'
    <3>1. \A m \in Msg : pc[m] = "idle" => fate[m] = "new"
      BY DEF FileInv, KeptInv, Kept, SendersNew
    <3> QED BY <1>1, <3>1 DEF SendersNew, Unanswered, SendPcs
  <2> QED BY <2>1, <2>2, <2>3, <2>4, <2>5 DEF KeptInv, TypeInv, Kept
<1>5. FileTypes'
  <2>1. hook' \in [Goroutine -> HookPcs] /\ seen' \in [Goroutine -> Mails]
    BY DEF Crash, HookPcs, NoMail, Mails
  <2>2. gone' \subseteq Msg
    BY <1>1 DEF FileInv, FileTypes
  <2>3. file' \in Mails /\ overlap' \in BOOLEAN /\ up' \in BOOLEAN
    BY <1>1 DEF FileInv, FileTypes, Crash
  <2> QED BY <2>1, <2>2, <2>3 DEF FileTypes
<1>6. PastInv'
  <2>1. \A m \in Msg : pc'[m] = "idle" => pc[m] = "idle"
    BY <1>1
  <2>2. \A g \in Goroutine : seen'[g] = NoMail
    BY DEF Crash
  <2> QED BY <1>1, <2>1, <2>2 DEF FileInv, PastInv, Past, NoMail, NoDup, Elems
<1>7. DownInv'
  <2>1. Saved' = Saved
    BY <1>1 DEF Saved
  <2>2. {m \in Msg : fate'[m] = "held"} \subseteq Saved' \cup gone'
    BY <1>1, <2>1
  <2> QED BY <1>1, <2>2 DEF DownInv
<1>8. FollowInv' /\ RestWaits'
  BY <1>1 DEF FollowInv, RestWaits
<1>9. RestUntold'
  <2> SUFFICES ASSUME ~overlap, NEW m \in Elems(file.rest)
               PROVE  fate'[m] \in {"held", "overdue"}
    BY <1>1 DEF RestUntold
  <2>1. m \in Msg /\ m \in Saved
    BY DEF FileInv, FileTypes, Mails, Elems, Saved
  <2>2. fate[m] \in {"held", "overdue"}
    BY <1>1 DEF FileInv, RestWaits, Waits, KeptInv, Kept, QueueHeld, HandsHeld, InFlight
  <2> QED BY <1>1, <2>1, <2>2 DEF Unanswered
<1> QED BY <1>2, <1>4, <1>5, <1>6, <1>7, <1>8, <1>9 DEF FileInv

\* What a start makes of each message.
LEMMA LoadFates ==
    ASSUME FileInv, Load
    PROVE  /\ fate' \in [Msg -> Fates]
           /\ \A m \in Elems(KeptOnStart) : fate'[m] = "held"
           /\ \A m \in Msg : /\ fate'[m] = "held" => m \in Elems(KeptOnStart) \/ m \in gone
                             /\ fate'[m] = "dropped" => fate[m] = "dropped"
                             /\ m \notin Elems(file.rest) /\ fate[m] # "held" => fate'[m] = fate[m]
<1>1. /\ fate \in [Msg -> Fates] /\ ~up
      /\ Elems(KeptOnStart) \subseteq Elems(file.rest) /\ Elems(KeptOnStart) \subseteq Msg
  BY PutBackOnStart DEF FileInv, PastInv, Past, KeptInv, TypeInv, TypeOK, Load
<1>2. fate' = [m \in Msg |->
                  IF m \in Elems(KeptOnStart) THEN "held"
                  ELSE IF m = file.typing /\ fate[m] = "held" THEN "unsure"
                  ELSE IF m \in Saved /\ fate[m] = "held" THEN "surfaced"
                  ELSE fate[m]]
  BY DEF Load
<1>3. \A m \in Msg : fate[m] = "held" => m \in Saved \/ m \in gone
  BY <1>1 DEF FileInv, DownInv
<1>4. fate' \in [Msg -> Fates]
  BY <1>1, <1>2 DEF Fates
<1> QED BY <1>1, <1>2, <1>3, <1>4

LEMMA LoadKeeps ==
    ASSUME FileInv, Load
    PROVE  FileInv' /\ (~overlap => FateStays)
<1>a. /\ fate \in [Msg -> Fates] /\ pc \in [Actor -> MsgPcs \cup DrainPcs]
      /\ TypeInv /\ ~up /\ up' /\ UNCHANGED <<redelivering, gone, hook, seen>>
      /\ redelivering = NoMsg /\ queue' = KeptOnStart
      /\ file' = [typing |-> NoMsg, rest |-> KeptOnStart]
      /\ \A d \in Drain : pc[d] = "off"
      /\ \A g \in Goroutine : hook[g] = "idle"
  BY DEF FileInv, KeptInv, TypeInv, TypeOK, Load, DownInv
<1>1. /\ KeptOnStart \in Seq(Msg) /\ NoDup(KeptOnStart)
      /\ Elems(KeptOnStart) \subseteq Elems(file.rest) /\ Elems(KeptOnStart) \subseteq Msg
  BY PutBackOnStart DEF FileInv, PastInv, Past
<1>2. /\ draining' \in BOOLEAN /\ pc' \in [Actor -> MsgPcs \cup DrainPcs]
      /\ \A m \in Msg : pc'[m] = pc[m] /\ pc'[m] \in MsgPcs
      /\ \A d \in Drain : pc'[d] \in DrainPcs /\ ~InFlight(d)'
  <2>1. CASE UNCHANGED <<pc, draining>>
    BY <1>a, <2>1 DEF TypeInv, TypeOK, InFlight, SendPcs
  <2>2. CASE StartDrain
    <3>1. \A d \in Drain : pc'[d] \in SendPcs \cup {"begin"} <=> InFlight(d)
      BY <1>a, <2>2, DrainStarts
    <3> QED BY <1>a, <2>2, <3>1, DrainStarts DEF InFlight, SendPcs, TypeInv, TypeOK
  <2> QED BY <2>1, <2>2 DEF Load
<1>3. \A m \in Msg : pc[m] = "idle" => fate[m] = "new" /\ m \notin Elems(file.rest)
  BY DEF FileInv, KeptInv, Kept, SendersNew, PastInv, Past
<1>4. KeptInv(Lost)'
  <2>1. TypeOK'
    <3>1. clock' \in [Msg -> Clocks]
      BY DEF Load, Clocks, FileInv, KeptInv, TypeInv, TypeOK
    <3>2. UNCHANGED <<hand, sendMu, hold, pane>>
      BY DEF Load
    <3> QED BY <1>a, <1>1, <1>2, <3>1, <3>2, LoadFates DEF TypeInv, TypeOK, hold, pane
  <2>2. QueueHeld'
    BY <1>a, <1>1, LoadFates DEF QueueHeld
  <2>3. HandsFull' /\ HandsHeld' /\ HandsApart'
    BY <1>2 DEF HandsFull, HandsHeld, HandsApart
  <2>4. HeldSomewhere(Lost)'
    BY <1>a, LoadFates DEF HeldSomewhere, Lost
  <2>5. SendersNew'
    <3>1. \A m \in Msg : pc[m] \in {"idle", "done"}
      BY <1>a DEF FileInv, DownInv
    <3> QED BY <1>2, <1>3, <3>1, LoadFates DEF SendersNew, SendPcs
  <2> QED BY <2>1, <2>2, <2>3, <2>4, <2>5 DEF KeptInv, TypeInv, Kept
<1>5. FileTypes'
  <2>1. overlap' = FALSE
    BY DEF Load
  <2> QED BY <1>a, <1>1, <2>1 DEF FileInv, FileTypes, Mails
<1>6. PastInv'
  BY <1>a, <1>1, <1>2, <1>3 DEF FileInv, PastInv, Past
<1>7. DownInv' /\ RestUntold'
  BY <1>a DEF DownInv, RestUntold
<1>8. FollowInv'
  BY <1>a DEF FollowInv, Written, Snapshot
<1>9. RestWaits'
  BY <1>a DEF RestWaits, Waits
<1>10. ~overlap => FateStays
  <2>1. ~overlap => \A m \in Elems(file.rest) : fate[m] \notin Terminal
    BY <1>a DEF FileInv, RestUntold, Terminal
  <2>2. \A m \in Msg : fate[m] \in Terminal => fate[m] # "held"
    BY DEF Terminal
  <2> QED BY <2>1, <2>2, LoadFates DEF FateStays
<1> QED BY <1>4, <1>5, <1>6, <1>7, <1>8, <1>9, <1>10 DEF FileInv

-----------------------------------------------------------------------------
(* The invariant, and what it says of the file. *)

LEMMA FileInitKeeps == FileInit => FileInv
<1> SUFFICES ASSUME FileInit PROVE FileInv
  OBVIOUS
<1>1. /\ Init /\ up /\ ~overlap /\ file = NoMail /\ queue = <<>> /\ redelivering = NoMsg
      /\ hook = [g \in Goroutine |-> "idle"] /\ seen = [g \in Goroutine |-> NoMail] /\ gone = {}
  BY DEF FileInit, Init
<1>2. KeptInv({}) /\ Lost = {}
  BY <1>1, InitKeeps DEF Lost
<1>3. FileTypes
  <2>1. NoMail \in Mails
    BY DEF NoMail, Mails
  <2>2. hook \in [Goroutine -> HookPcs] /\ seen \in [Goroutine -> Mails]
    BY <1>1, <2>1 DEF HookPcs
  <2>3. overlap = FALSE /\ up = TRUE /\ gone = {}
    BY DEF FileInit
  <2> QED BY <1>1, <2>1, <2>2, <2>3 DEF FileTypes
<1>4. PastInv
  BY <1>1 DEF PastInv, Past, NoMail, NoDup, Elems
<1>5. FollowInv
  BY <1>1 DEF FollowInv, Snapshot, NoMail
<1>6. DownInv /\ RestUntold
  BY <1>1 DEF DownInv, RestUntold
<1>7. RestWaits
  BY <1>1 DEF RestWaits, NoMail, Elems
<1> QED BY <1>2, <1>3, <1>4, <1>5, <1>6, <1>7 DEF FileInv

LEMMA FileNextKeeps == FileInv /\ [FileNext]_allVars => FileInv'
<1> SUFFICES ASSUME FileInv, [FileNext]_allVars PROVE FileInv'
  OBVIOUS
<1>1. CASE UNCHANGED allVars
  <2>1. UNCHANGED <<vars, up, gone>> /\ UNCHANGED fileVars
    BY <1>1 DEF allVars, fileVars
  <2>2. KeptInv(Lost)'
    BY <2>1, StillKept
  <2>3. Snapshot' = Snapshot /\ \A m : Waits(m)' = Waits(m)
    BY <2>1 DEF Snapshot, Waits, vars, fileVars
  <2>4. FileTypes' /\ PastInv'
    BY <2>1 DEF FileInv, FileTypes, PastInv, Past, fileVars, vars
  <2>5. DownInv'
    BY <2>1 DEF FileInv, DownInv, Saved, fileVars, vars
  <2>6. FollowInv'
    BY <2>1, <2>3 DEF FileInv, FollowInv, Written, fileVars
  <2>7. RestWaits'
    BY <2>1, <2>3 DEF FileInv, RestWaits, fileVars
  <2>8. RestUntold'
    BY <2>1 DEF FileInv, RestUntold, fileVars, vars
  <2> QED BY <2>2, <2>4, <2>5, <2>6, <2>7, <2>8 DEF FileInv
<1>2. CASE FileNext
  BY <1>2, RunningKeeps, SnapshotKeeps, WriteKeeps, CrashKeeps, LoadKeeps DEF FileNext
<1> QED BY <1>1, <1>2

LEMMA FileAlways == FileSpec => []FileInv
BY FileInitKeeps, FileNextKeeps, PTL DEF FileSpec

\* Whenever nobody is in a hook and no two have run at once, held.yaml is the pane's
\* held mail: every section that changes the queue or the mark has its hook
\* (held_store.go, heldChanged).
THEOREM FileFollowsMail == FileSpec => []FileFollows
<1>1. FileInv => FileFollows
  BY DEF FileInv, FollowInv, FileFollows, Written
<1> QED BY <1>1, FileAlways, PTL

\* A start never puts back a message whose sender has its verdict, through any
\* number of crashes, while no two hooks have run at once (requeueHeld).
THEOREM NothingComesBack == FileSpec => NothingTypedTwice
<1>1. FileInv /\ [FileNext]_allVars => [~overlap => FateStays]_allVars
  <2> SUFFICES ASSUME FileInv, FileNext, ~overlap PROVE FateStays
    OBVIOUS
  <2>1. CASE Running
    BY <2>1, RunningKeeps, NextFinal DEF FileInv
  <2>2. CASE \E g \in Goroutine : TakeSnapshot(g) \/ WriteFile(g)
    BY <2>2 DEF TakeSnapshot, WriteFile, FateStays, vars
  <2> QED BY <2>1, <2>2, CrashKeeps, LoadKeeps DEF FileNext
<1>2. FileSpec => [][~overlap => FateStays]_allVars
  BY <1>1, FileAlways, PTL DEF FileSpec
<1> QED BY <1>2 DEF NothingTypedTwice, FateStays

-----------------------------------------------------------------------------
(* What a crash costs, while no two messages have the same text: the mark    *)
(* is then the message of the drain that set it, so the file has it.         *)

\* A crash, and the start after it, leave one drain and room for what it sends.
LEMMA CrashMark ==
    ASSUME FileInv, MarkInv, Crash
    PROVE  MarkInv'
<1>1. /\ queue' = <<>> /\ redelivering' = NoMsg
      /\ \A d \in Drain : pc'[d] = "off"
      /\ \A m \in Msg : pc'[m] \in {"idle", "done"} /\ fate'[m] \in {"refused", fate[m]}
  BY ActorAssumption DEF Crash, Actor
<1>2. Len(queue') = 0 /\ MaxQueue \in Nat
  BY <1>1, CapAssumption
<1>3. SingleFlight'
  BY <1>1 DEF SingleFlight
<1>4. SlotKept'
  BY <1>2 DEF SlotKept
<1>5. NothingHeldDropped'
  BY <1>1 DEF MarkInv, Room, NothingHeldDropped
<1> QED BY <1>1, <1>3, <1>4, <1>5 DEF MarkInv, Room, MarkIsOld, MarkIsOwn, NoSenderBack, SendPcs

LEMMA LoadMark ==
    ASSUME FileInv, MarkInv, Load
    PROVE  MarkInv'
<1>1. TypeInv /\ redelivering' = NoMsg /\ queue' = KeptOnStart
  BY DEF Load, FileInv, KeptInv, DownInv
<1>2. /\ \A d \in Drain : pc[d] = "off"
      /\ \A m \in Msg : pc[m] \in {"idle", "done"}
  BY DEF Load, FileInv, DownInv
<1>3. /\ SingleFlight'
      /\ \A d \in Drain : pc'[d] \in {"off", "check"}
      /\ \A m \in Msg : pc'[m] = pc[m]
  <2>1. CASE UNCHANGED <<pc, draining>>
    BY <1>2, <2>1 DEF MarkInv, SingleFlight
  <2>2. CASE StartDrain
    BY <1>1, <1>2, <2>2, StartIsSingle, DrainStarts DEF MarkInv
  <2> QED BY <2>1, <2>2 DEF Load
<1>4. SlotKept'
  <2>1. Len(queue') \in Nat /\ Len(queue') <= MaxQueue /\ MaxQueue \in Nat
    BY <1>1, PutBackOnStart, CapAssumption DEF FileInv, PastInv, Past
  <2> QED BY <2>1 DEF SlotKept
<1>5. NothingHeldDropped'
  BY LoadFates DEF MarkInv, Room, NothingHeldDropped
<1> QED BY <1>1, <1>2, <1>3, <1>4, <1>5 DEF MarkInv, Room, MarkIsOld, MarkIsOwn, NoSenderBack, SendPcs

LEMMA MarkNextKeeps ==
    ASSUME TextsDiffer, FileInv, MarkInv, [FileNext]_allVars
    PROVE  MarkInv'
<1>1. CASE Running
  <2>1. Next
    BY <1>1, RunningKeeps
  <2>2. PICK L : RoomInv(L)
    BY DEF FileInv, MarkInv, RoomInv
  <2>3. TypeInv /\ SingleFlight
    BY DEF FileInv, MarkInv, KeptInv
  <2> QED BY <2>1, <2>2, <2>3, SingleFlightStays, NextRoom DEF MarkInv
<1>2. CASE UNCHANGED vars
  BY <1>2 DEF vars, MarkInv, SingleFlight, Room, MarkIsOld, MarkIsOwn, NoSenderBack, SlotKept,
     NothingHeldDropped, InFlight
<1> QED BY <1>1, <1>2, CrashMark, LoadMark DEF FileNext, TakeSnapshot, WriteFile, allVars

\* A crash while nobody writes the file costs at most the message between two
\* sections of the drain, while no two hooks have run at once and no two messages
\* have the same text (operator-guide.md, "survives a restart of window 1").
THEOREM CrashIsCheap ==
    ASSUME TextsDiffer
    PROVE  FileSpec => []CrashCostsInHand
<1>1. FileInit => FileInv /\ MarkInv
  <2> SUFFICES ASSUME FileInit PROVE MarkInv
    BY FileInitKeeps
  <2>1. /\ Init /\ \A d \in Drain : pc[d] = "off"
        /\ \A m \in Msg : pc[m] = "idle" /\ fate[m] = "new"
    BY ActorAssumption DEF FileInit, Init, Actor
  <2>2. queue = <<>> /\ redelivering = NoMsg /\ Len(queue) = 0 /\ MaxQueue \in Nat
    BY <2>1, CapAssumption DEF Init
  <2>3. SlotKept
    BY <2>2 DEF SlotKept
  <2> QED BY <2>1, <2>2, <2>3 DEF MarkInv, SingleFlight, Room, MarkIsOld, MarkIsOwn, NoSenderBack,
              NothingHeldDropped, SendPcs
<1>2. FileInv /\ MarkInv /\ [FileNext]_allVars => FileInv' /\ MarkInv'
  BY FileNextKeeps, MarkNextKeeps
<1>3. FileInv /\ MarkInv => CrashCostsInHand
  <2> SUFFICES ASSUME FileInv, MarkInv, Written, ~overlap, NEW m \in Msg, fate[m] = "held", m \notin gone
               PROVE  m \in Saved \cup AtRisk
    BY DEF CrashCostsInHand
  <2>1. file = Snapshot /\ Lost = gone
    BY DEF FileInv, FollowInv, Written, Lost
  <2>2. CASE m \in Elems(queue)
    BY <2>1, <2>2 DEF Saved, Snapshot
  <2>3. ASSUME NEW d \in Drain, InFlight(d), hand[d] = m
        PROVE  m \in Saved \cup AtRisk
    <3>1. CASE pc[d] \in {"begin", "putback"}
      BY <2>3, <3>1 DEF AtRisk
    <3>2. CASE pc[d] \in SendPcs \ {"putback"}
      <4>1. redelivering = m
        BY <2>3, <3>2 DEF MarkInv, Room, MarkIsOwn
      <4> QED BY <2>1, <4>1, MsgAssumption DEF Saved, Snapshot
    <3> QED BY <2>3, <3>1, <3>2 DEF InFlight
  <2> QED BY <2>1, <2>2, <2>3 DEF FileInv, KeptInv, Kept, HeldSomewhere
<1> QED BY <1>1, <1>2, <1>3, PTL DEF FileSpec
==============================================================================
