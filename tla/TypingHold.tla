----------------------------- MODULE TypingHold -----------------------------
(***************************************************************************)
(* Messages to a pane the operator types in (internal/tui/typing_hold.go,  *)
(* Pane.deliverClean and what follows it), over the pane's input.  A       *)
(* message waits for a quiet gap, at most the cap, in a line of tickets;   *)
(* then it takes sendMu, has its body written, and presses Enter, or keeps *)
(* its Enter back and leaves the body in the composer: pendingSubmit, which *)
(* the next send, the pane's output and the sweep may each resolve.  Keys, *)
(* pastes and the emulator's replies go on the same queue, keys and Enter  *)
(* through the emulator's pipe.  What the screen shows is a choice.  Ages  *)
(* stop counting once they are past what they are compared with, so        *)
(* nothing bounds the operator's typing.                                   *)
(***************************************************************************)
EXTENDS PaneInput

CONSTANTS
    Quiet, Longest  \* typing_hold: the quiet window and the cap

ASSUME HoldAssumption == Quiet \in Nat \ {0} /\ Longest \in Nat /\ Longest >= Quiet

VARIABLES
    quiet,     \* time since the operator's last key, Quiet if never
    waited,    \* waited[s]: time since s arrived, up to Longest + 1
    pc,        \* where each send is
    sleep,     \* sleep[s]: what is left of the wait in clk.After
    ticket, next, serving, \* holdLine
    sendMu,    \* Pane.sendMu: the send that holds it
    pipe,      \* what responseLoop has read and not yet queued
    told,      \* the verdict of each send
    pending,   \* Pane.pendingSubmit: whose body waits in the composer for its Enter
    unknown,   \* it was kept after an unknown outcome (fromUnknown)
    eye,       \* the pendingSubmit that the sweep has read
    lines,     \* history: lines[s], the final lines on a submit of s: submitted late,
               \* or not delivered
    ahead      \* history: ahead[s], the messages in the line when s arrived

lineVars == <<ticket, next, serving>>
submitVars == <<pending, unknown, eye, lines>>
holdVars == <<quiet, waited, pc, sleep, ticket, next, serving, sendMu, pipe, told,
              pending, unknown, eye, lines, ahead>>
vars     == <<q, drain, closed, wedged, out, landed, quiet, waited, pc, sleep, ticket, next,
              serving, sendMu, pipe, told, pending, unknown, eye, lines, ahead>>

NoTicket == 0

Init ==
    /\ InputInit
    /\ quiet = Quiet /\ waited = [s \in Sender |-> 0] /\ pc = [s \in Sender |-> "new"]
    /\ sleep = [s \in Sender |-> 0]
    /\ ticket = [s \in Sender |-> NoTicket] /\ next = 1 /\ serving = 1
    /\ sendMu = NoItem /\ pipe = NoItem
    /\ told = [s \in Sender |-> "none"] /\ ahead = [s \in Sender |-> {}]
    /\ pending = NoItem /\ unknown = FALSE /\ eye = NoItem
    /\ lines = [s \in Sender |-> 0]

\* Where a send is, where it holds sendMu, and what goes through the emulator.
LockPcs == {"settle", "write", "wait", "body", "enter", "again"}
Pcs == {"new", "line", "sleep", "lock", "done"} \cup LockPcs
Piped == {Enter(s) : s \in Sender} \cup {Key}
Locked(s) == pc[s] \in LockPcs

Goes(s, p) == pc' = [pc EXCEPT ![s] = p]
Lesser(a, b) == IF a < b THEN a ELSE b

-----------------------------------------------------------------------------
(* waitTypingHold *)

InLine(s) == ticket[s] # NoTicket /\ ticket[s] >= serving

\* Seeded bug: a pane that is quiet takes a message at once, line or no line.
ArriveQuiet(s) ==
    /\ pc[s] = "new" /\ ~closed
    /\ ahead' = [ahead EXCEPT ![s] = {a \in Sender : InLine(a)}]
    /\ IF quiet >= Quiet
         THEN Goes(s, "lock") /\ UNCHANGED lineVars
         ELSE /\ ticket' = [ticket EXCEPT ![s] = next]
              /\ next' = next + 1
              /\ Goes(s, "line") /\ UNCHANGED serving
    /\ UNCHANGED <<inputVars, quiet, waited, sleep, sendMu, pipe, told, submitVars>>

\* A message nobody types at and no line is in front of goes on; others take a ticket.
Arrive(s) ==
    /\ pc[s] = "new" /\ ~closed
    /\ ahead' = [ahead EXCEPT ![s] = {a \in Sender : InLine(a)}]
    /\ IF next = serving /\ quiet >= Quiet
         THEN Goes(s, "lock") /\ UNCHANGED lineVars
         ELSE /\ ticket' = [ticket EXCEPT ![s] = next]
              /\ next' = next + 1
              /\ Goes(s, "line") /\ UNCHANGED serving
    /\ UNCHANGED <<inputVars, quiet, waited, sleep, sendMu, pipe, told, submitVars>>

\* Its turn has come, or its wait is over: it looks whether the operator types.
Looks(s) == (pc[s] = "line" /\ serving = ticket[s]) \/ (pc[s] = "sleep" /\ sleep[s] = 0)

\* The hold is over; its age is not looked at again.
Out(s) == /\ Goes(s, "lock")
          /\ waited' = [waited EXCEPT ![s] = 0]
          /\ UNCHANGED sleep
Sleeps(s, d) == /\ Goes(s, "sleep")
                /\ sleep' = [sleep EXCEPT ![s] = d]
                /\ UNCHANGED waited

\* Seeded bug: the cap is not looked at.
LookNoCap(s) ==
    /\ Looks(s)
    /\ IF closed \/ quiet >= Quiet
         THEN Out(s)
         ELSE Sleeps(s, Quiet - quiet)
    /\ UNCHANGED <<inputVars, quiet, lineVars, sendMu, pipe, told, submitVars, ahead>>

Look(s) ==
    /\ Looks(s)
    /\ IF closed \/ quiet >= Quiet \/ waited[s] >= Longest
         THEN Out(s)
         ELSE Sleeps(s, Lesser(Quiet - quiet, Longest - waited[s]))
    /\ UNCHANGED <<inputVars, quiet, lineVars, sendMu, pipe, told, submitVars, ahead>>

-----------------------------------------------------------------------------
(* sendPaneTextLocked, from the guard on a stuck input *)

\* Its turn in the line is over.  Only the distance of the counters matters: an empty
\* line starts over.
Served(s) ==
    IF ticket[s] = NoTicket
      THEN UNCHANGED lineVars
      ELSE /\ ticket' = [ticket EXCEPT ![s] = NoTicket]
           /\ serving' = IF serving + 1 = next THEN 1 ELSE serving + 1
           /\ next' = IF serving + 1 = next THEN 1 ELSE next

\* The end of a send: its verdict, sendMu, and its turn.
Ends(s, verdict) ==
    /\ Goes(s, "done")
    /\ told' = [told EXCEPT ![s] = verdict]
    /\ sendMu' = NoItem
    /\ Served(s)
    /\ ahead' = [ahead EXCEPT ![s] = {}]

\* sendMu is taken and the guards are passed.  inputWedged: the message is held,
\* none of it written.
Lock(s) ==
    /\ pc[s] = "lock" /\ sendMu = NoItem
    /\ IF wedged \/ closed
         THEN Ends(s, "deferred")
         ELSE /\ sendMu' = s /\ Goes(s, IF pending = NoItem THEN "write" ELSE "settle")
              /\ UNCHANGED <<lineVars, told, ahead>>
    /\ UNCHANGED <<inputVars, quiet, waited, sleep, pipe, submitVars>>

\* One more final line on a submit (counted up to two).
Reported(s) == lines' = [lines EXCEPT ![s] = Lesser(@ + 1, 2)]

\* takePendingSubmit: whoever compares and clears it resolves it; s is submitted late,
\* by an Enter that is one key among others by now, or it is reported not delivered (a
\* kept one ends quietly).
Takes(s) == pending = s /\ pending' = NoItem /\ unknown' = FALSE
SubmitsLate(s) == Takes(s) /\ Reported(s) /\ pipe = NoItem /\ pipe' = Key
GivesUp(s) == Takes(s) /\ (IF unknown THEN UNCHANGED lines ELSE Reported(s)) /\ UNCHANGED pipe
LeavesIt   == UNCHANGED <<pending, unknown, lines, pipe>>

\* settlePendingSubmit: the next send submits the one before it when its text is in
\* the box, or gives it up; under a dialog that has just opened it leaves it.
Settle(s) ==
    /\ pc[s] = "settle" /\ Goes(s, "write")
    /\ \/ pending # NoItem /\ (SubmitsLate(pending) \/ GivesUp(pending))
       \/ LeavesIt
    /\ UNCHANGED <<inputVars, quiet, waited, sleep, lineVars, sendMu, told, eye, ahead>>

\* writeInputWait queues the body, or it is dropped and the message held.
WriteBody(s) ==
    /\ pc[s] = "write"
    /\ Push(Body(s))
    /\ IF Fits THEN Goes(s, "wait") /\ UNCHANGED <<sendMu, lineVars, told, ahead>>
               ELSE Ends(s, "deferred")
    /\ UNCHANGED <<quiet, waited, sleep, pipe, submitVars>>

\* The write ended, or the bound or a close did and it is abandoned.  None of it
\* written, the message is held; some of it, it is never resent (endStuckSend); all
\* of it, nothing is submitted when the pane is closing by now.
Answer(s) ==
    /\ pc[s] = "wait"
    /\ \/ out[s] # "none" /\ UNCHANGED inputVars
       \/ out[s] = "none" /\ Recallable(s) /\ Abandon(s)
    /\ IF out'[s] = "written" /\ ~closed
         THEN Goes(s, "body") /\ UNCHANGED <<sendMu, lineVars, told, ahead>>
         ELSE Ends(s, IF out'[s] = "notReached" THEN "deferred" ELSE "unconfirmed")
    /\ UNCHANGED <<quiet, waited, sleep, pipe, submitVars>>

\* The pane closed before the send looked (or after, and the Enter is dropped).
Closes(s) ==
    /\ pc[s] = "body" /\ closed
    /\ Ends(s, "unconfirmed")
    /\ UNCHANGED <<inputVars, quiet, waited, sleep, pipe, submitVars>>

\* composerAcceptedBody saw no sign of the body: withholdSubmit keeps the Enter back
\* (over one that is withheld already) and the send ends.
Withhold(s) ==
    /\ pc[s] = "body"
    /\ pending' = s /\ unknown' = FALSE
    /\ Ends(s, "unconfirmed")
    /\ UNCHANGED <<inputVars, quiet, waited, sleep, pipe, eye, lines>>

\* Enter goes into the emulator's pipe when its reader has taken what was in it.
SubmitKey(s) == pipe = NoItem /\ pipe' = Enter(s)

PressEnter(s) ==
    /\ pc[s] = "body" /\ Goes(s, "enter")
    /\ SubmitKey(s)
    /\ UNCHANGED <<inputVars, quiet, waited, sleep, lineVars, sendMu, told, submitVars,
                   ahead>>

\* The box still holds the body and no dialog is open: one more Enter.
PressAgain(s) ==
    /\ pc[s] = "enter" /\ Goes(s, "again")
    /\ SubmitKey(s)
    /\ UNCHANGED <<inputVars, quiet, waited, sleep, lineVars, sendMu, told, submitVars,
                   ahead>>

\* keepUnknownSubmit keeps it for one later Enter, unless one is withheld.
KeepUnknown(s) ==
    /\ IF pending = NoItem THEN pending' = s /\ unknown' = TRUE
                           ELSE UNCHANGED <<pending, unknown>>
    /\ UNCHANGED <<eye, lines>>

\* confirmAndRetrySubmit is back once the Enter was queued (or dropped), with what
\* the screen showed: the box cleared; nothing to tell; the body still in it, under a
\* dialog or after the second Enter.
Sent(s) ==
    /\ pc[s] \in {"enter", "again"} /\ pipe # Enter(s)
    /\ \/ Ends(s, "delivered") /\ UNCHANGED submitVars
       \/ Ends(s, "unconfirmed") /\ KeepUnknown(s)
       \/ pc[s] = "enter" /\ Ends(s, "unconfirmed") /\ UNCHANGED submitVars
       \/ /\ pc[s] = "again" /\ Ends(s, "notDelivered")
          /\ Reported(s) /\ UNCHANGED <<pending, unknown, eye>>
    /\ UNCHANGED <<inputVars, quiet, waited, sleep, pipe>>

Presses(s) == Settle(s) \/ PressEnter(s) \/ PressAgain(s)
Send(s) == \/ Look(s) \/ Lock(s) \/ WriteBody(s) \/ Answer(s) \/ Closes(s)
           \/ Withhold(s) \/ Presses(s) \/ Sent(s)

-----------------------------------------------------------------------------
(* Withheld submits, beside the sends *)

\* maybeRetryWithheldSubmit, on the pane's output or from the tick, when no send is
\* under way: one whose text is in the box is submitted, one whose text is not is given
\* up; else it waits.  (It reads the field first; a reading that is stale takes nothing.)
Hook ==
    /\ sendMu = NoItem /\ pending # NoItem
    /\ SubmitsLate(pending) \/ GivesUp(pending)
    /\ UNCHANGED <<inputVars, quiet, waited, pc, sleep, lineVars, sendMu, told, eye, ahead>>

\* sweepWithheldSubmits reads the field under p.mu and lets it go; it is past its
\* deadline.
SweepReads ==
    /\ eye = NoItem /\ pending # NoItem /\ ~unknown
    /\ eye' = pending
    /\ UNCHANGED <<inputVars, quiet, waited, pc, sleep, lineVars, sendMu, pipe, told,
                   pending, unknown, lines, ahead>>

\* Seeded bug: it reports what it has read, and clears the field.
SweepClears ==
    /\ eye # NoItem /\ eye' = NoItem
    /\ pending' = NoItem /\ unknown' = FALSE /\ Reported(eye) /\ UNCHANGED pipe
    /\ UNCHANGED <<inputVars, quiet, waited, pc, sleep, lineVars, sendMu, told, ahead>>

\* surfaceUndeliveredSubmit, with no lock but p.mu: given up, if it is there still.
SweepReports ==
    /\ eye # NoItem /\ eye' = NoItem
    /\ IF pending = eye THEN GivesUp(eye) ELSE LeavesIt
    /\ UNCHANGED <<inputVars, quiet, waited, pc, sleep, lineVars, sendMu, told, ahead>>

Resolve == Hook \/ SweepReads \/ SweepReports

-----------------------------------------------------------------------------
(* The operator, the emulator and the clock *)

\* A key goes through the emulator (its replies to the child stand in its place).
OperatorKey ==
    /\ ~closed /\ pipe = NoItem
    /\ quiet' = 0 /\ pipe' = Key
    /\ UNCHANGED <<inputVars, waited, pc, sleep, lineVars, sendMu, told, submitVars, ahead>>

\* responseLoop queues what it read.
ResponseLoop ==
    /\ pipe # NoItem /\ pipe' = NoItem
    /\ Push(pipe)
    /\ UNCHANGED <<quiet, waited, pc, sleep, lineVars, sendMu, told, submitVars, ahead>>

\* Bound: one paste of the operator's is queued at a time.
OnePaste == Paste \notin ToSet(q)

\* Seeded bug: the paste is queued at once, on the main goroutine.
FlushPasteAtOnce ==
    /\ OnePaste /\ ~closed
    /\ Push(Paste)
    /\ UNCHANGED <<quiet, waited, pc, sleep, lineVars, sendMu, pipe, told, submitVars, ahead>>

\* FlushPaste queues a paste in one piece, when no send is between its body and
\* its Enter.
FlushPaste ==
    /\ OnePaste
    /\ sendMu = NoItem
    /\ Push(Paste)
    /\ UNCHANGED <<quiet, waited, pc, sleep, lineVars, sendMu, pipe, told, submitVars, ahead>>

MarkClosing ==
    /\ CloseInput
    /\ UNCHANGED holdVars

\* Time passes, but not past a wait that is over, and while it matters to a message.
Passes ==
    /\ \A s \in Sender : ~Looks(s)
    /\ \E s \in Sender : pc[s] \in {"new", "line", "sleep"}
    /\ quiet' = Lesser(quiet + 1, Quiet)
    /\ waited' = [s \in Sender |-> IF pc[s] \in {"line", "sleep"} THEN Lesser(waited[s] + 1, Longest + 1)
                                                                 ELSE waited[s]]
    /\ sleep' = [s \in Sender |-> IF pc[s] = "sleep" THEN sleep[s] - 1 ELSE 0]
    /\ UNCHANGED <<inputVars, pc, lineVars, sendMu, pipe, told, submitVars, ahead>>

Input == DrainInput /\ UNCHANGED holdVars

Next == \/ \E s \in Sender : Arrive(s) \/ Send(s)
        \/ Resolve \/ Input \/ OperatorKey \/ ResponseLoop \/ FlushPaste \/ MarkClosing \/ Passes

Spec == Init /\ [][Next]_vars

\* Goroutines run, timers fire, and who waits to write to the emulator's pipe gets
\* to (its mutex hands itself on); nothing is asked of the child or the operator.
FairSpec == Spec /\ WF_vars(Passes) /\ WF_vars(ResponseLoop)
                 /\ WF_vars(DrainSteps /\ UNCHANGED holdVars)
                 /\ \A s \in Sender : WF_vars(Send(s)) /\ SF_vars(Presses(s))

-----------------------------------------------------------------------------
\* The type invariant; sendMu is held by the one send past its lock.
TypeOK ==
    /\ InputTypeOK
    /\ quiet \in 0 .. Quiet /\ waited \in [Sender -> 0 .. Longest + 1]
    /\ sleep \in [Sender -> 0 .. Lesser(Quiet, Longest)]
    /\ next \in Nat \ {0} /\ serving \in 1 .. next
    /\ ticket \in [Sender -> 0 .. next - 1]
    /\ pc \in [Sender -> Pcs] /\ sendMu \in Sender \cup {NoItem}
    /\ \A s \in Sender : sendMu = s <=> Locked(s)
    /\ pipe \in Piped \cup {NoItem}
    /\ told \in [Sender -> {"none", "delivered", "deferred", "unconfirmed", "notDelivered"}]
    /\ pending \in Sender \cup {NoItem} /\ unknown \in BOOLEAN
    /\ eye \in Sender \cup {NoItem} /\ lines \in [Sender -> 0 .. 2]
    /\ ahead \in [Sender -> SUBSET Sender]

\* What a sender is told is so and stays so (pane_input.go: a body none of which
\* reached the writer is held, one any of which did is never resent): nothing of a
\* deferred message is in the terminal or on its way; all of one that was submitted,
\* or whose submit is withheld, is in.
VerdictTrue == \A s \in Sender :
    /\ told[s] = "deferred" =>
          landed[s] = "notReached" /\ Body(s) \notin ToSet(q) /\ ~(drain.at = "write" /\ drain.it = Body(s))
    /\ told[s] \in {"delivered", "notDelivered"} \/ pending = s => landed[s] = "written"

\* One message, one report (ipc.go, takePendingSubmit, settlePendingSubmit): a submit
\* that was withheld or kept is submitted late or reported not delivered, never both and
\* never twice, whoever resolves it; a confirmed one is neither.
OneReport == \A s \in Sender :
    /\ lines[s] <= 1
    /\ told[s] = "delivered" \/ pending = s => lines[s] = 0

\* A wedge is over when a write ends (pane_input.go, drainInput): while one is
\* marked there is a write to end, so held mail is not held for good.
WedgeEnds == wedged /\ ~closed => Current # NoItem \/ (drain.at = "take" /\ q # <<>>)

\* Nothing overtakes a held message (typing_hold.go): a message that arrived while
\* another stood in the line is not written while that one still waits.
NothingOvertakes == \A s \in Sender : \A a \in ahead[s] :
    Locked(s) => pc[a] = "done"

\* No paste and no other body lands between a send's body and the Enter it presses
\* itself (pane.go, FlushPaste).  A withheld or kept submit is not promised this: its
\* body waits in the composer with sendMu free, and its Enter follows what came in
\* between.
EnterToCome(s) == \/ pc[s] \in {"wait", "body", "enter", "again"}
                  \/ pipe = Enter(s) \/ Enter(s) \in ToSet(q)
Lands(it) == drain.at = "write" /\ drain'.at = "clear" /\ drain.it = it
NothingBetween ==
    [][\A it \in Bodies \cup {Paste}, s \in Sender :
          Lands(it) /\ it # Body(s) => ~(landed[s] = "written" /\ EnterToCome(s))]_vars

\* Every message on its way goes in or is held, and the line is empty again, although
\* the operator never stops typing and the child never reads (typing_hold.go,
\* pane_input.go).
OnItsWay(s) == pc[s] \notin {"new", "done"}
LineMoves == (\E s \in Sender : OnItsWay(s)) ~> (\A s \in Sender : ~OnItsWay(s))
=============================================================================
