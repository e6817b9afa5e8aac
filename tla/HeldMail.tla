------------------------------ MODULE HeldMail ------------------------------
(***************************************************************************)
(* The held mail of one pane: every message the fleet has accepted for an  *)
(* agent and not yet typed into its terminal.                              *)
(*                                                                         *)
(* A message is held on the pane's queue while the agent is in             *)
(* do-not-disturb, shows a dialog, or has stopped reading its input.       *)
(* Three kinds of goroutine work on the queue at once:                     *)
(*   - a sender per message (internal/tui/pane.go, ipc.go), which passes   *)
(*     the do-not-disturb gate twice, takes sendMu, and types or holds;    *)
(*   - the drain (resource.go), single-flight, which pops one message at a *)
(*     time and hands it to the same send path;                            *)
(*   - the once-a-second maintenance tick (maintenance.go) and the "dnd"   *)
(*     IPC action (dnd.go), which end do-not-disturb, give up on overdue   *)
(*     mail and start drains.                                              *)
(* Each action is one critical section of p.mu, or of sendMu where the     *)
(* code holds nothing else.  The pane is neither suspended nor replaced    *)
(* here (resume mail has a path of its own).  The held file is HeldFile.   *)
(***************************************************************************)
EXTENDS Queue, FiniteSets

CONSTANTS
    Msg,        \* one message each, sent once, by a goroutine of its own
    Drain,      \* goroutines a drain can run on
    Text,       \* Text[m]: what m types; takeRedelivery compares only this
    Origin,     \* Origin[m]: whose send it is
    MaxQueue,   \* maxMessageQueue (500 in the code)
    Troubles,   \* what may go wrong with the pane in this instance
    DNDKinds,   \* the do-not-disturb holds used in this instance
    NoMsg,      \* a nil redelivering, an empty hand
    NoOne       \* sendMu free

Origins == {"agent", "operator", "superUrgent", "urgent"}

ASSUME MsgAssumption  == IsFiniteSet(Msg) /\ NoMsg \notin Msg
ASSUME ActorAssumption == /\ Msg \cap Drain = {}
                          /\ NoOne \notin Msg \cup Drain
                          /\ NoMsg \notin Drain
ASSUME TextAssumption == Origin \in [Msg -> Origins] /\ DOMAIN Text = Msg
ASSUME CapAssumption  == MaxQueue \in Nat \ {0}
ASSUME EnvAssumption  == /\ Troubles \subseteq {"dialog", "stuck", "exit", "stop"}
                         /\ DNDKinds \subseteq {"turn", "timer", "untilOff"}

Actor == Msg \cup Drain

VARIABLES
    queue,         \* Pane.messageQueue
    redelivering,  \* Pane.redelivering: the drain's message, until claimed
    clock,         \* clock[m]: the dialog deadline of m, from Time or Released
    fate,          \* fate[m]: what has become of m (history)
    pc, hand,      \* where each goroutine is; the drain's local message
    sendMu,        \* who holds Pane.sendMu
    draining,      \* Pane.modalDraining
    dnd,           \* dnd, dndUntil and dndUntilOff as the one hold they name
    ctl,           \* where the tick and the dnd IPC action are
    dialog, stuck, \* paneHasModal; inputWedged
    alive, pty     \* IsAlive; hasPTY

mail == <<queue, redelivering, clock, fate>>
run  == <<pc, hand, sendMu, draining>>
hold == <<dnd, ctl>>
pane == <<dialog, stuck, alive, pty>>
vars == <<queue, redelivering, clock, fate, pc, hand, sendMu, draining,
          dnd, ctl, dialog, stuck, alive, pty>>

Holds    == {"off", "turn", "timer", "untilOff"}
Clocks   == {"unarmed", "running", "due"}
Fates    == {"new", "held", "overdue", "typed", "unsure", "surfaced", "refused", "lost", "dropped"}
Terminal == Fates \ {"new", "held", "overdue"}
SendPcs  == {"gate1", "gate2", "lock", "guard", "write", "putback"}
Locked   == {"guard", "write", "putback"}
MsgPcs   == {"idle", "done"} \cup SendPcs
DrainPcs == {"off", "check", "pop", "begin", "end", "return"} \cup SendPcs
CtlPcs   == {"read", "end", "start", "resolve", "report", "drain"}


Init ==
    /\ queue = <<>> /\ redelivering = NoMsg
    /\ clock = [m \in Msg |-> "unarmed"]
    /\ fate = [m \in Msg |-> "new"]
    /\ pc = [a \in Actor |-> IF a \in Msg THEN "idle" ELSE "off"]
    /\ hand = [d \in Drain |-> NoMsg]
    /\ sendMu = NoOne /\ draining = FALSE
    /\ dnd = "off" /\ ctl = [c \in {"tick", "ipc"} |-> "read"]
    /\ dialog = FALSE /\ stuck = FALSE /\ alive = TRUE /\ pty = TRUE

-----------------------------------------------------------------------------
(* The send path, shared by a sender and by the drain. *)

\* The message an actor is sending.
Carried(a) == IF a \in Msg THEN a ELSE hand[a]

\* Where an actor goes when its send has a verdict.
AfterSend(a) == IF a \in Msg THEN "done" ELSE "end"

\* Seeded bug: the cap is off by one.
FullLate == Len(queue) > MaxQueue

\* queueLimitLocked: the count half of the cap (the byte half refuses alike).
Full == Len(queue) >= MaxQueue

\* Seeded bug: the mark is never recognised, so a re-hold is new mail.
IsRedeliveryNever(m) == FALSE

\* takeRedelivery and holdIfDND recognise the drain's message by its content.
IsRedelivery(m) == redelivering # NoMsg /\ Text[redelivering] = Text[m]

\* A refused message: its sender is told.  The drain drops SendText's answer.
Refuse(a) == fate' = [fate EXCEPT ![Carried(a)] =
                         IF a \in Msg THEN "refused" ELSE "dropped"]

\* enqueueOrRefuse: append as new mail with the given clock, or refuse.
Enqueue(a, c) ==
    LET m == Carried(a) IN
    IF Full
      THEN Refuse(a) /\ UNCHANGED <<queue, clock>>
      ELSE /\ queue' = Append(queue, m)
           /\ clock' = [clock EXCEPT ![m] = c]
           /\ fate' = [fate EXCEPT ![m] = "held"]

\* dndOrigin: how do-not-disturb rules on a send.  A drain's origin is empty.
Ruling(a) ==
    IF dnd = "off" THEN "through"
    ELSE IF a \in Drain THEN "waits"
    ELSE CASE Origin[a] \in {"operator", "superUrgent"} -> "through"
           [] Origin[a] = "urgent"                      -> "refused"
           [] OTHER                                     -> "waits"

\* holdIfDND: the drain's own message goes back to the front with its clock;
\* any other is held with no deadline until do-not-disturb ends.  A sender whose
\* text equals the drain's takes the drain's mark: its own message stands in
\* the queue for the record put back.
HoldIfDND(a) ==
    LET m == Carried(a) IN
    IF IsRedelivery(m)
      THEN /\ queue' = <<m>> \o queue
           /\ clock' = [clock EXCEPT ![m] = clock[redelivering]]
           /\ fate' = [fate EXCEPT ![m] = "held"]
           /\ redelivering' = NoMsg
      ELSE Enqueue(a, "unarmed") /\ UNCHANGED redelivering

\* dndGate, before and after the send's waits (startup, the operator's typing).
Gate(a, from, to) ==
    /\ pc[a] = from
    /\ \/ /\ Ruling(a) = "through"
          /\ pc' = [pc EXCEPT ![a] = to]
          /\ UNCHANGED mail
       \/ /\ Ruling(a) = "refused"
          /\ Refuse(a)
          /\ pc' = [pc EXCEPT ![a] = AfterSend(a)]
          /\ UNCHANGED <<queue, redelivering, clock>>
       \/ /\ Ruling(a) = "waits"
          /\ HoldIfDND(a)
          /\ pc' = [pc EXCEPT ![a] = AfterSend(a)]
    /\ UNCHANGED <<hand, sendMu, draining, hold, pane>>

Gate1(a) == Gate(a, "gate1", "gate2")
Gate2(a) == Gate(a, "gate2", "lock")

Lock(a) ==
    /\ pc[a] = "lock" /\ sendMu = NoOne
    /\ sendMu' = a
    /\ pc' = [pc EXCEPT ![a] = "guard"]
    /\ UNCHANGED <<mail, hand, draining, hold, pane>>

\* The send is over: sendMu is let go.
EndSend(a) ==
    /\ sendMu' = NoOne
    /\ pc' = [pc EXCEPT ![a] = AfterSend(a)]

\* The hold inside the send (an open dialog, holdForStuckInput): the drain's
\* message is claimed back, to be put at the front in a section of its own.
HoldInSend(a) ==
    LET m == Carried(a) IN
    IF IsRedelivery(m)
      THEN /\ redelivering' = NoMsg
           /\ clock' = [clock EXCEPT ![m] = clock[redelivering]]
           /\ pc' = [pc EXCEPT ![a] = "putback"]
           /\ UNCHANGED <<queue, fate, sendMu>>
      ELSE /\ Enqueue(a, "running")
           /\ EndSend(a)
           /\ UNCHANGED redelivering

\* Seeded bug (the defect of ini-1898): a re-held message goes to the back.
PutBackLast(a) ==
    /\ pc[a] = "putback"
    /\ queue' = Append(queue, Carried(a))
    /\ fate' = [fate EXCEPT ![Carried(a)] = "held"]
    /\ EndSend(a)
    /\ UNCHANGED <<redelivering, clock, hand, draining, hold, pane>>

\* requeueFront: at the head, never trimmed.
PutBack(a) ==
    /\ pc[a] = "putback"
    /\ queue' = <<Carried(a)>> \o queue
    /\ fate' = [fate EXCEPT ![Carried(a)] = "held"]
    /\ EndSend(a)
    /\ UNCHANGED <<redelivering, clock, hand, draining, hold, pane>>

\* The head of sendPaneTextLocked: no PTY, an open dialog, stuck input.  With
\* no PTY a sender is told "not delivered"; the drain's message is gone.
GuardNoPTY(a) ==
    /\ pc[a] = "guard" /\ ~pty
    /\ fate' = [fate EXCEPT ![Carried(a)] = IF a \in Msg THEN "refused" ELSE "lost"]
    /\ EndSend(a)
    /\ UNCHANGED <<queue, redelivering, clock, hand, draining, hold, pane>>

GuardHold(a) ==
    /\ pc[a] = "guard" /\ pty /\ (dialog \/ stuck)
    /\ HoldInSend(a)
    /\ UNCHANGED <<hand, draining, hold, pane>>

GuardClear(a) ==
    /\ pc[a] = "guard" /\ pty /\ ~dialog /\ ~stuck
    /\ pc' = [pc EXCEPT ![a] = "write"]
    /\ UNCHANGED <<mail, hand, sendMu, draining, hold, pane>>

\* writeBody returned childWritten: the body is in the child's terminal, and
\* whatever the submit does it is never resent.
WriteBody(a) ==
    /\ pc[a] = "write"
    /\ fate' = [fate EXCEPT ![Carried(a)] = "typed"]
    /\ EndSend(a)
    /\ UNCHANGED <<queue, redelivering, clock, hand, draining, hold, pane>>

\* What a write can do other than finish: its bound expires, and the pane may be
\* marked wedged; or the child is gone, and it fails.
WriteFails ==
    /\ "stuck" \in Troubles \/ ~alive
    /\ stuck' \in IF "stuck" \in Troubles THEN {stuck, TRUE} ELSE {stuck}

\* childPartial, endStuckSend: not put back, and the mark is discarded.
WritePartial(a) ==
    /\ pc[a] = "write" /\ WriteFails
    /\ fate' = [fate EXCEPT ![Carried(a)] = "unsure"]
    /\ redelivering' = IF IsRedelivery(Carried(a)) THEN NoMsg ELSE redelivering
    /\ EndSend(a)
    /\ UNCHANGED <<queue, clock, hand, draining, hold, dialog, alive, pty>>

\* childNotReached: the bound expired with the body still queued, or the write
\* failed with nothing written.
WriteNotReached(a) ==
    /\ pc[a] = "write" /\ WriteFails
    /\ HoldInSend(a)
    /\ UNCHANGED <<hand, draining, hold, dialog, alive, pty>>

SendStep(a) ==
    \/ Gate1(a) \/ Gate2(a) \/ Lock(a)
    \/ GuardNoPTY(a) \/ GuardHold(a) \/ GuardClear(a)
    \/ WriteBody(a) \/ WritePartial(a) \/ WriteNotReached(a)
    \/ PutBack(a)

\* handleIPCSend: an agent whose process is gone refuses before the send path.
Send(m) ==
    /\ pc[m] = "idle"
    /\ IF alive
         THEN pc' = [pc EXCEPT ![m] = "gate1"] /\ UNCHANGED fate
         ELSE pc' = [pc EXCEPT ![m] = "done"] /\ fate' = [fate EXCEPT ![m] = "refused"]
    /\ UNCHANGED <<queue, redelivering, clock, hand, sendMu, draining, hold, pane>>

-----------------------------------------------------------------------------
(* The drain. *)

\* startModalDrain: single-flight.
StartDrain ==
    IF draining
      THEN UNCHANGED <<pc, draining>>
      ELSE /\ draining' = TRUE
           /\ \E d \in Drain : pc[d] = "off" /\ pc' = [pc EXCEPT ![d] = "check"]

\* maybeDrainModalQueue.
MaybeDrain ==
    IF queue # <<>> /\ dnd = "off" /\ ~dialog
      THEN StartDrain
      ELSE UNCHANGED <<pc, draining>>

\* Seeded bug: the loop does not look at the process again.
DrainCheckBlind(d) ==
    /\ pc[d] = "check"
    /\ pc' = [pc EXCEPT ![d] = IF dialog \/ dnd # "off" THEN "return" ELSE "pop"]
    /\ UNCHANGED <<mail, hand, sendMu, draining, hold, pane>>

DrainCheck(d) ==
    /\ pc[d] = "check"
    /\ pc' = [pc EXCEPT ![d] = IF dialog \/ ~alive \/ dnd # "off" THEN "return" ELSE "pop"]
    /\ UNCHANGED <<mail, hand, sendMu, draining, hold, pane>>

\* Seeded bug: the head is read and left on the queue.
DrainPopPeeks(d) ==
    /\ pc[d] = "pop"
    /\ IF queue = <<>>
         THEN pc' = [pc EXCEPT ![d] = "return"] /\ UNCHANGED hand
         ELSE /\ pc' = [pc EXCEPT ![d] = "begin"]
              /\ hand' = [hand EXCEPT ![d] = Head(queue)]
    /\ UNCHANGED <<queue, redelivering, clock, fate, sendMu, draining, hold, pane>>

\* PopQueuedMessage.
DrainPop(d) ==
    /\ pc[d] = "pop"
    /\ IF queue = <<>>
         THEN /\ pc' = [pc EXCEPT ![d] = "return"]
              /\ UNCHANGED <<queue, hand>>
         ELSE /\ pc' = [pc EXCEPT ![d] = "begin"]
              /\ hand' = [hand EXCEPT ![d] = Head(queue)]
              /\ queue' = Tail(queue)
    /\ UNCHANGED <<redelivering, clock, fate, sendMu, draining, hold, pane>>

\* beginRedelivery, then SendText.
DrainBegin(d) ==
    /\ pc[d] = "begin"
    /\ redelivering' = hand[d]
    /\ pc' = [pc EXCEPT ![d] = "gate1"]
    /\ UNCHANGED <<queue, clock, fate, hand, sendMu, draining, hold, pane>>

\* endRedelivery: the mark still set means the send path kept the message.
DrainEnd(d) ==
    /\ pc[d] = "end"
    /\ pc' = [pc EXCEPT ![d] = IF redelivering # NoMsg THEN "check" ELSE "return"]
    /\ redelivering' = NoMsg
    /\ hand' = [hand EXCEPT ![d] = NoMsg]
    /\ UNCHANGED <<queue, clock, fate, sendMu, draining, hold, pane>>

\* The deferred clear of modalDraining, after drainModalQueue has returned.
DrainReturn(d) ==
    /\ pc[d] = "return"
    /\ pc' = [pc EXCEPT ![d] = "off"]
    /\ draining' = FALSE
    /\ UNCHANGED <<mail, hand, sendMu, hold, pane>>

DrainStep(d) == \/ DrainCheck(d) \/ DrainPop(d) \/ DrainBegin(d)
                \/ DrainEnd(d) \/ DrainReturn(d)

-----------------------------------------------------------------------------
(* Do-not-disturb and the maintenance tick. *)

\* startDNDHold: a plain hold keeps the one in force.
DNDOn(h) ==
    /\ dnd' = IF h = "turn" /\ dnd # "off" THEN dnd ELSE h
    /\ UNCHANGED <<mail, run, ctl, pane>>

\* endDND: everything queued is released, its deadline counted from now.  The
\* drain is started in a section of its own.
EndDND(c, idle) ==
    /\ dnd' = "off"
    /\ IF dnd # "off"
         THEN /\ clock' = [m \in Msg |-> IF m \in Elems(queue) THEN "running" ELSE clock[m]]
              /\ ctl' = [ctl EXCEPT ![c] = "start"]
         ELSE ctl' = [ctl EXCEPT ![c] = idle] /\ UNCHANGED clock
    /\ UNCHANGED <<queue, redelivering, fate, run, pane>>

EndDNDStart(c, idle) ==
    /\ ctl[c] = "start"
    /\ StartDrain
    /\ ctl' = [ctl EXCEPT ![c] = idle]
    /\ UNCHANGED <<mail, hand, sendMu, dnd, pane>>

DNDOff     == ctl["ipc"] = "read" /\ EndDND("ipc", "read")
DNDOffDone == EndDNDStart("ipc", "read")

\* endDNDIfDue: the hold is read under p.mu, let go, and then judged: a timer
\* that has passed, or a turn that has ended.
TickRead ==
    /\ ctl["tick"] = "read"
    /\ \/ ctl' = [ctl EXCEPT !["tick"] = "resolve"]
       \/ /\ dnd \in {"turn", "timer"}
          /\ ctl' = [ctl EXCEPT !["tick"] = "end"]
    /\ UNCHANGED <<mail, run, dnd, pane>>

TickEndDND == ctl["tick"] = "end" /\ EndDND("tick", "resolve")
TickStart  == EndDNDStart("tick", "resolve")

\* tryScreenRows failed: a held screen lock costs the pane the rest of the tick.
TickSkip ==
    /\ ctl["tick"] = "resolve"
    /\ ctl' = [ctl EXCEPT !["tick"] = "read"]
    /\ UNCHANGED <<mail, run, dnd, pane>>

\* The overdue mail resolveHeldMail gives up on: all of a dead pane's; on a live
\* one out of do-not-disturb, what has waited out its deadline.
GivenUp ==
    IF ~alive THEN Elems(queue)
    ELSE IF dnd # "off" THEN {}
    ELSE {m \in Elems(queue) : clock[m] = "due"}

\* Seeded bug: the given-up messages are reported and stay queued.
WithoutTaking(q, D) == {q}

\* takeQueued: q without the messages of D, the rest in order.  A queue never
\* holds a message twice, so there is exactly one such sequence.
Without(q, D) ==
    {k \in UNION {[1..n -> Elems(q)] : n \in 0..Len(q)} :
        /\ Elems(k) = Elems(q) \ D
        /\ \A i, j \in DOMAIN k : i < j =>
              \E x, y \in DOMAIN q : x < y /\ q[x] = k[i] /\ q[y] = k[j] /\ k[i] # k[j]}

\* resolveHeldMail: the overdue mail is taken off the queue, and then reported to
\* the operator, each message once (surfaceHeldMail).
TickResolve ==
    /\ ctl["tick"] = "resolve"
    /\ queue' \in Without(queue, GivenUp)
    /\ fate' = [m \in Msg |-> IF m \in GivenUp THEN "overdue" ELSE fate[m]]
    /\ ctl' = [ctl EXCEPT !["tick"] = "report"]
    /\ UNCHANGED <<redelivering, clock, run, dnd, pane>>

TickReport ==
    /\ ctl["tick"] = "report"
    /\ fate' = [m \in Msg |-> IF fate[m] = "overdue" THEN "surfaced" ELSE fate[m]]
    /\ ctl' = [ctl EXCEPT !["tick"] = "drain"]
    /\ UNCHANGED <<queue, redelivering, clock, run, dnd, pane>>

\* Seeded bug: no drain from the tick, only from output and from dnd off.
TickDrainNever ==
    /\ ctl["tick"] = "drain"
    /\ ctl' = [ctl EXCEPT !["tick"] = "read"]
    /\ UNCHANGED <<mail, run, dnd, pane>>

TickDrain ==
    /\ ctl["tick"] = "drain"
    /\ IF queue # <<>> /\ ~dialog THEN StartDrain ELSE UNCHANGED <<pc, draining>>
    /\ ctl' = [ctl EXCEPT !["tick"] = "read"]
    /\ UNCHANGED <<mail, hand, sendMu, dnd, pane>>

TickStep == \/ TickRead \/ TickEndDND \/ TickStart
            \/ TickSkip \/ TickResolve \/ TickReport \/ TickDrain

-----------------------------------------------------------------------------
(* The pane: its child's screen, input and life. *)

DialogOpens  == "dialog" \in Troubles /\ alive /\ ~dialog /\ dialog' = TRUE
                /\ UNCHANGED <<mail, run, hold, stuck, alive, pty>>
DialogCloses == dialog /\ dialog' = FALSE
                /\ UNCHANGED <<mail, run, hold, stuck, alive, pty>>

\* readLoop, after output that changes nothing else.
Output ==
    /\ alive
    /\ MaybeDrain
    /\ UNCHANGED <<mail, hand, sendMu, hold, pane>>

\* The input queue fills with keys; drainInput, when the stuck write returns.
Wedge   == "stuck" \in Troubles /\ ~stuck /\ stuck' = TRUE
           /\ UNCHANGED <<mail, run, hold, dialog, alive, pty>>
Unwedge ==
    /\ stuck /\ stuck' = FALSE
    /\ MaybeDrain
    /\ UNCHANGED <<mail, hand, sendMu, hold, dialog, alive, pty>>

\* The child exits by itself; handleIPCStop, which waits for sendMu.
ChildExit == "exit" \in Troubles /\ alive /\ alive' = FALSE
             /\ UNCHANGED <<mail, run, hold, dialog, stuck, pty>>
Stop ==
    /\ "stop" \in Troubles /\ alive /\ sendMu = NoOne
    /\ alive' = FALSE /\ pty' = FALSE
    /\ UNCHANGED <<mail, run, hold, dialog, stuck>>

\* Time: the ten minutes of a deadline pass.
DeadlinePasses(m) ==
    /\ clock[m] = "running" /\ fate[m] = "held"
    /\ clock' = [clock EXCEPT ![m] = "due"]
    /\ UNCHANGED <<queue, redelivering, fate, run, hold, pane>>

PaneStep == DialogOpens \/ DialogCloses \/ Output \/ Wedge \/ Unwedge \/ ChildExit \/ Stop

Next ==
    \/ \E m \in Msg : Send(m) \/ DeadlinePasses(m)
    \/ \E a \in Actor : SendStep(a)
    \/ \E d \in Drain : DrainStep(d)
    \/ \E h \in DNDKinds : DNDOn(h)
    \/ DNDOff \/ DNDOffDone
    \/ TickStep
    \/ PaneStep

Spec == Init /\ [][Next]_vars

(***************************************************************************)
(* Fairness.  Goroutines run; Go's mutex hands itself to a waiter that has *)
(* waited long enough; the tick comes every second and the screen lock is  *)
(* not held at every one of them; a pane that keeps reading its input does *)
(* not time out every write.                                               *)
(***************************************************************************)
Fairness ==
    /\ \A a \in Actor : WF_vars(SendStep(a))
    /\ \A d \in Drain : WF_vars(DrainStep(d)) /\ SF_vars(Lock(d)) /\ SF_vars(WriteBody(d))
    /\ WF_vars(TickStep) /\ SF_vars(TickResolve)
    /\ WF_vars(DNDOffDone)

FairSpec == Spec /\ Fairness

-----------------------------------------------------------------------------
(* Properties. *)

\* Every variable has its type.
TypeOK ==
    /\ queue \in Seq(Msg) /\ redelivering \in Msg \cup {NoMsg}
    /\ clock \in [Msg -> Clocks] /\ fate \in [Msg -> Fates]
    /\ pc \in [Actor -> MsgPcs \cup DrainPcs]
    /\ \A m \in Msg : pc[m] \in MsgPcs
    /\ \A d \in Drain : pc[d] \in DrainPcs
    /\ hand \in [Drain -> Msg \cup {NoMsg}]
    /\ sendMu \in Actor \cup {NoOne} /\ draining \in BOOLEAN
    /\ dnd \in Holds /\ ctl \in [{"tick", "ipc"} -> CtlPcs]
    /\ dialog \in BOOLEAN /\ stuck \in BOOLEAN
    /\ alive \in BOOLEAN /\ pty \in BOOLEAN

\* A drain between its pop and the verdict on what it popped.
InFlight(d) == pc[d] \in SendPcs \cup {"begin"}

\* A message told "held" is in exactly one place: once on the queue, or in the
\* hand of one drain that has not finished sending it.  Nothing else is there.
\* (held_mail.go: "never silently dropped"; queue_cap.go: "nothing held is ever
\* dropped".)
HeldMailKept ==
    /\ NoDup(queue)
    /\ \A d \in Drain : InFlight(d) => hand[d] \notin Elems(queue)
    /\ \A m \in Msg : fate[m] = "held" <=>
          m \in Elems(queue) \cup {hand[d] : d \in {e \in Drain : InFlight(e)}}

\* A message the drain sends is never refused for want of room: nothing held is
\* dropped (queue_cap.go:7).  True while no two messages have the same text.
NothingHeldDropped == \A m \in Msg : fate[m] # "dropped"

\* A stop or a death under a drain costs at most the message in flight, however
\* many were queued (resource.go, PopQueuedMessage).
LossBounded == \A m, n \in Msg : fate[m] = "lost" /\ fate[n] = "lost" => m = n

\* Putting a message back is the only way past the cap, and by one message.
QueueBounded == Len(queue) <= MaxQueue + 1

\* What became of a message never changes: none is typed after it was reported
\* as not delivered, or reported after it was typed, or typed after its sender
\* was told it may have arrived.
FateFinal == [][\A m \in Msg : fate[m] \in Terminal => fate'[m] = fate[m]]_vars

\* The line a sender was promised: the drain's message ahead of the queue.
HeldNow ==
    LET flying == {d \in Drain : InFlight(d)} IN
    IF flying = {} THEN queue ELSE <<hand[CHOOSE d \in flying : TRUE]>> \o queue

\* Mail taken off the queue to be reported has left the line.
FateNow == [m \in Msg |-> IF fate[m] = "overdue" THEN "surfaced" ELSE fate[m]]

Promise == INSTANCE MailPromise WITH held <- HeldNow, fate <- FateNow

\* The queue, the drain and the tick together implement the promised line: in
\* order, nothing twice, nothing silently gone.
PromiseKept == Promise!Spec

\* A held message is typed or reported once the pane stays out of dialogs,
\* do-not-disturb and stuck input, or its process is gone.
Calm == ~dialog /\ ~stuck /\ dnd = "off"
HeldMailMoves ==
    (<>[]Calm \/ <>[](~alive)) =>
        \A m \in Msg : fate[m] = "held" ~> fate[m] \in Terminal
=============================================================================
