------------------------------ MODULE HeldFile ------------------------------
(***************************************************************************)
(* The held file (internal/tui/held_store.go) beside the held mail of      *)
(* HeldMail: what a crash leaves on disk, and what the next start makes of *)
(* it.                                                                     *)
(*                                                                         *)
(* Every section that changes a queue ends with the deferred heldChanged:  *)
(* the goroutine takes a snapshot under p.mu, lets it go, and only then    *)
(* takes the writer's lock and rewrites the file.  So a goroutine between  *)
(* its snapshot and its write can be overtaken.  Each HeldMail action of a *)
(* goroutine is composed here with its hook, and the goroutine does        *)
(* nothing else until the hook is done.                                    *)
(***************************************************************************)
EXTENDS HeldMail

CONSTANT MaxCrashes   \* how many times the process may die in this instance

Goroutine == Actor \cup {"tick", "ipc"}

\* A pane's held mail as the file has it: the message being typed, then the rest.
Snapshot == [typing |-> redelivering, rest |-> queue]
NoMail   == [typing |-> NoMsg, rest |-> <<>>]

VARIABLES
    file,      \* held.yaml; NoMail when there is none
    hook,      \* where each goroutine is in heldChanged
    seen,      \* the snapshot it carries to the writer
    overlap,   \* two hooks have run at once since the start (history)
    up,        \* the process runs and has read its file back
    crashes,
    gone       \* messages no start will ever see (history)

fileVars == <<file, hook, seen, overlap, up, crashes, gone>>
allVars  == <<vars, fileVars>>

HookPcs == {"idle", "changed", "changedInSend", "snapped", "snappedInSend"}
InSend(g) == hook[g] \in {"changedInSend", "snappedInSend"}

FileInit ==
    /\ Init
    /\ file = NoMail
    /\ hook = [g \in Goroutine |-> "idle"]
    /\ seen = [g \in Goroutine |-> NoMail]
    /\ overlap = FALSE /\ up = TRUE /\ crashes = 0 /\ gone = {}

\* A step of g that touches no queue.
Quiet(g, A) ==
    /\ up /\ hook[g] = "idle" /\ A
    /\ UNCHANGED fileVars

\* Seeded bug: a hold inside the send (requeueFront, enqueueOrRefuse) has no hook.
ChangingOutsideSend(g, A) ==
    /\ up /\ hook[g] = "idle" /\ A
    /\ hook' = IF sendMu = g THEN hook ELSE [hook EXCEPT ![g] = "changed"]
    /\ overlap' = (overlap \/ \E h \in Goroutine : hook[h] # "idle")
    /\ UNCHANGED <<file, seen, up, crashes, gone>>

\* A step of g that ends with heldChanged; sendMu is let go only after the hook.
Changing(g, A) ==
    /\ up /\ hook[g] = "idle" /\ A
    /\ hook' = [hook EXCEPT ![g] = IF sendMu = g THEN "changedInSend" ELSE "changed"]
    /\ overlap' = (overlap \/ \E h \in Goroutine : hook[h] # "idle")
    /\ UNCHANGED <<file, seen, up, crashes, gone>>

\* heldSnapshot, under p.mu.
TakeSnapshot(g) ==
    /\ hook[g] \in {"changed", "changedInSend"}
    /\ seen' = [seen EXCEPT ![g] = Snapshot]
    /\ hook' = [hook EXCEPT ![g] = IF InSend(g) THEN "snappedInSend" ELSE "snapped"]
    /\ UNCHANGED <<vars, file, overlap, up, crashes, gone>>

\* Seeded bug: the write drops the entry being typed.
WriteFileRestOnly(g) ==
    /\ hook[g] \in {"snapped", "snappedInSend"}
    /\ file' = [seen[g] EXCEPT !.typing = NoMsg]
    /\ hook' = [hook EXCEPT ![g] = "idle"]
    /\ seen' = [seen EXCEPT ![g] = NoMail]
    /\ UNCHANGED <<vars, overlap, up, crashes, gone>>

\* heldWriter.update: the snapshot brought here replaces the file (atomic rename).
WriteFile(g) ==
    /\ hook[g] \in {"snapped", "snappedInSend"}
    /\ file' = seen[g]
    /\ hook' = [hook EXCEPT ![g] = "idle"]
    /\ seen' = [seen EXCEPT ![g] = NoMail]
    /\ UNCHANGED <<vars, overlap, up, crashes, gone>>

\* sendMu, while its last holder is still in the hook of its held message.
SendMuFree == \A g \in Goroutine : ~InSend(g)

\* resolveHeldMail returns before takeQueued when there is nothing to judge.
TickTakes == queue # <<>> /\ (~alive \/ dnd = "off")

ActorQuiet(a) ==
    \/ Ruling(a) = "through" /\ (Gate1(a) \/ Gate2(a))
    \/ SendMuFree /\ Lock(a)
    \/ GuardNoPTY(a) \/ GuardClear(a) \/ WriteBody(a)

ActorChanging(a) ==
    \/ Ruling(a) # "through" /\ (Gate1(a) \/ Gate2(a))
    \/ GuardHold(a) \/ PutBack(a) \/ WritePartial(a) \/ WriteNotReached(a)

\* endDND's hook runs when endDND returns, after it has started the drain.
CtlQuiet ==
    \/ Quiet("ipc", dnd # "off" /\ DNDOff)
    \/ Quiet("tick", TickRead \/ TickSkip \/ TickReport \/ TickDrain)
    \/ Quiet("tick", dnd # "off" /\ TickEndDND)
    \/ Quiet("tick", ~TickTakes /\ TickResolve)
CtlChanging ==
    \/ Changing("ipc", DNDOffDone)
    \/ Changing("ipc", dnd = "off" /\ DNDOff)
    \/ Changing("tick", TickStart)
    \/ Changing("tick", dnd = "off" /\ TickEndDND)
    \/ Changing("tick", TickTakes /\ TickResolve)

Running ==
    \/ \E m \in Msg : Quiet(m, Send(m))
    \/ \E a \in Actor : Quiet(a, ActorQuiet(a)) \/ Changing(a, ActorChanging(a))
    \/ \E d \in Drain :
          \/ Quiet(d, DrainCheck(d) \/ DrainReturn(d))
          \/ Changing(d, DrainPop(d) \/ DrainBegin(d) \/ DrainEnd(d))
    \/ CtlQuiet
    \/ CtlChanging
    \/ /\ up
       /\ \/ \E h \in DNDKinds : DNDOn(h)
          \/ \E m \in Msg : DeadlinePasses(m)
          \/ DialogOpens \/ DialogCloses \/ Output \/ Wedge \/ Unwedge \/ ChildExit
          \/ SendMuFree /\ Stop
       /\ UNCHANGED fileVars

-----------------------------------------------------------------------------
(* The process dies and starts again. *)

Saved == Elems(file.rest) \cup ({file.typing} \ {NoMsg})

\* Everything in memory goes.  A sender with no answer yet gets an error: one
\* still sending, or still in the hook of its own hold (its message may be saved
\* all the same, by another goroutine's write).
Unanswered(m) ==
    \/ fate[m] = "new" /\ pc[m] # "idle"
    \/ fate[m] = "held" /\ hook[m] # "idle" /\ m \notin Saved
Crash ==
    /\ up /\ crashes < MaxCrashes
    /\ crashes' = crashes + 1 /\ up' = FALSE
    /\ queue' = <<>> /\ redelivering' = NoMsg
    /\ clock' = [m \in Msg |-> "unarmed"]
    /\ fate' = [m \in Msg |-> IF Unanswered(m) THEN "refused" ELSE fate[m]]
    /\ pc' = [a \in Actor |-> IF a \in Drain THEN "off"
                              ELSE IF pc[a] = "idle" THEN "idle" ELSE "done"]
    /\ hand' = [d \in Drain |-> NoMsg] /\ sendMu' = NoOne /\ draining' = FALSE
    /\ dnd' = "off" /\ ctl' = [c \in {"tick", "ipc"} |-> "read"]
    /\ dialog' = FALSE /\ stuck' = FALSE /\ alive' = TRUE /\ pty' = TRUE
    /\ hook' = [g \in Goroutine |-> "idle"]
    /\ seen' = [g \in Goroutine |-> NoMail]
    /\ gone' = gone \cup {m \in Msg : fate'[m] \in {"held", "overdue"} /\ m \notin Saved}
    /\ UNCHANGED <<file, overlap>>

\* Seeded bug: an entry marked typing goes back on the queue with the rest.
KeptOnStartAll ==
    LET all == IF file.typing = NoMsg THEN file.rest ELSE <<file.typing>> \o file.rest IN
    SubSeq(all, 1, IF Len(all) < MaxQueue THEN Len(all) ELSE MaxQueue)

\* requeueHeld: the oldest that fit under the cap go back; one marked typing never.
KeptOnStart ==
    SubSeq(file.rest, 1, IF Len(file.rest) < MaxQueue THEN Len(file.rest) ELSE MaxQueue)

\* loadHeldMail, before the main loop serves a send: the rest are said to their
\* senders, the kept wait with a deadline from now, and a drain is started.  Its
\* first message waits for the child to settle (awaitStartupSettled), so
\* held.start() has rewritten the file by then.
Load ==
    /\ ~up /\ up' = TRUE
    /\ queue' = KeptOnStart
    /\ clock' = [m \in Msg |-> IF m \in Elems(KeptOnStart) THEN "running" ELSE clock[m]]
    /\ fate' = [m \in Msg |->
                  IF m \in Elems(KeptOnStart) THEN "held"
                  ELSE IF m = file.typing /\ fate[m] = "held" THEN "unsure"
                  ELSE IF m \in Saved /\ fate[m] = "held" THEN "surfaced"
                  ELSE fate[m]]
    /\ file' = [typing |-> NoMsg, rest |-> KeptOnStart]
    /\ IF KeptOnStart = <<>> THEN UNCHANGED <<pc, draining>> ELSE StartDrain
    /\ overlap' = FALSE
    /\ UNCHANGED <<redelivering, hand, sendMu, hold, pane, hook, seen, crashes, gone>>

FileNext ==
    \/ Running
    \/ \E g \in Goroutine : TakeSnapshot(g) \/ WriteFile(g)
    \/ Crash
    \/ Load

FileSpec == FileInit /\ [][FileNext]_allVars

-----------------------------------------------------------------------------
(* Properties. *)

Written == up /\ \A g \in Goroutine : hook[g] = "idle"

\* While no two hooks have run at once, the file is the pane's held mail whenever
\* nobody is writing it: no section that changes a queue forgets its hook.
FileFollows == Written /\ ~overlap => file = Snapshot

\* While no two hooks have run at once, a crash costs at most the message between
\* two sections of the drain: popped and not yet marked, or claimed back and not
\* yet requeued.
AtRisk == {hand[d] : d \in {e \in Drain : pc[e] \in {"begin", "putback"}}}
CrashCostsInHand ==
    Written /\ ~overlap => {m \in Msg : fate[m] = "held"} \subseteq Saved \cup AtRisk \cup gone

\* A start never puts back a message that was typed, or whose sender was already
\* told what became of it, unless two hooks had run at once.
NothingTypedTwice ==
    [][~overlap => \A m \in Msg : fate[m] \in Terminal => fate'[m] = fate[m]]_allVars

\* "A message told it is held ... survives a restart of window 1, an upgrade's stop
\* and start, and a crash" (operator-guide.md:444); "Writes are serialized, so the
\* file always holds the latest state of every pane" (held_store.go:150).  Read when
\* nobody is writing the file, and leaving out the message in a drain's hands.
HeldSurvivesCrash ==
    Written => {m \in Msg : fate[m] = "held"} \subseteq Saved \cup AtRisk \cup gone
=============================================================================
