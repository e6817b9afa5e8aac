----------------------------- MODULE PaneInput -----------------------------
(***************************************************************************)
(* The input of one pane (internal/tui/pane_input.go): everything for the  *)
(* child goes on one queue and one goroutine writes it, since a write to a *)
(* child that does not read never returns.  A push never blocks: past the  *)
(* cap it drops and marks the pane wedged.  A send waits for its own write *)
(* until its bound and then abandons it.  A write that is not answered is  *)
(* a step the child never takes.                                           *)
(***************************************************************************)
EXTENDS Naturals, Sequences, SequencesExt

CONSTANTS
    Sender,   \* messages being sent, each with a body the sender waits for
    Cap,      \* inputQueueCap
    NoItem

\* More than one item fits: a body and something else.
ASSUME CapAssumption == Cap \in Nat /\ Cap >= 2

VARIABLES
    q,        \* paneInput.q
    drain,    \* the goroutine in drainInput, and the item it has taken
    closed,   \* paneInput.closed
    wedged,   \* paneInput.wedged
    out,      \* out[s]: what became of the body of s (done, then n and err), or
              \* what abandonInput made of it
    landed    \* history: how much of the body of s reached the child

inputVars == <<q, drain, closed, wedged, out, landed>>

Body(s)  == <<"body", s>>
Enter(s) == <<"enter", s>>
Paste    == <<"paste", NoItem>>
Key      == <<"key", NoItem>>
Items    == {Body(s) : s \in Sender} \cup {Enter(s) : s \in Sender} \cup {Paste, Key}
Outcomes == {"written", "notReached", "partial"}
Bodies   == {Body(s) : s \in Sender}

ASSUME NoItemAssumption == NoItem \notin Items \cup Sender

Idle == [at |-> "off", it |-> NoItem, r |-> "none"]
More == [Idle EXCEPT !.at = "take"]

InputInit ==
    /\ q = <<>> /\ drain = Idle /\ closed = FALSE /\ wedged = FALSE
    /\ out = [s \in Sender |-> "none"]
    /\ landed = [s \in Sender |-> "notReached"]

\* paneInput.current: the write in progress.
Current == IF drain.at \in {"write", "clear"} THEN drain.it ELSE NoItem

\* pushInput takes an item, or drops it.
Fits == ~closed /\ Len(q) < Cap
Push(it) ==
    IF Fits
      THEN /\ q' = Append(q, it)
           /\ drain' = IF drain = Idle THEN More ELSE drain
           /\ UNCHANGED <<closed, wedged, out, landed>>
      ELSE /\ wedged' = (wedged \/ ~closed)
           /\ UNCHANGED <<q, drain, closed, out, landed>>

\* abandonInput: still queued, the item is taken back, and only a write ahead of
\* it is a wedge; in the drain, it cannot be recalled.  (A write that ended as
\* the bound did is waited for: the sender goes on waiting.)
\* Seeded bugs: the item taken back stays on the queue; or marks a wedge always.
AbandonLeaves(s) ==
    /\ UNCHANGED <<q, drain, closed, landed>>
    /\ out' = [out EXCEPT ![s] = IF Body(s) \in ToSet(q) THEN "notReached" ELSE "partial"]
    /\ wedged' = (wedged \/ ~closed)

\* The queue without the body of s.
Unqueued(s) == RemoveAt(q, CHOOSE i \in DOMAIN q : q[i] = Body(s))

AbandonMarks(s) ==
    LET queued == Body(s) \in ToSet(q) IN
    /\ q' = IF queued THEN Unqueued(s) ELSE q
    /\ out' = [out EXCEPT ![s] = IF queued THEN "notReached" ELSE "partial"]
    /\ wedged' = (wedged \/ ~closed)
    /\ UNCHANGED <<drain, closed, landed>>

Recallable(s) == Body(s) \in ToSet(q) \/ Current = Body(s)
Abandon(s) ==
    LET queued == Body(s) \in ToSet(q) IN
    /\ q' = IF queued THEN Unqueued(s) ELSE q
    /\ out' = [out EXCEPT ![s] = IF queued THEN "notReached" ELSE "partial"]
    /\ wedged' = (wedged \/ (Current # NoItem /\ ~closed))
    /\ UNCHANGED <<drain, closed, landed>>

-----------------------------------------------------------------------------
(* drainInput *)

Take ==
    /\ drain.at = "take"
    /\ IF q = <<>> THEN drain' = Idle /\ UNCHANGED q
                   ELSE drain' = [More EXCEPT !.at = "write", !.it = Head(q)] /\ q' = Tail(q)
    /\ UNCHANGED <<closed, wedged, out, landed>>

\* writeChild returns: all of it went in, or an error after none or some of it.
WriteEnds ==
    /\ drain.at = "write"
    /\ IF drain.it \in Bodies
         THEN \E r \in Outcomes :
                /\ drain' = [drain EXCEPT !.at = "clear", !.r = r]
                /\ landed' = [landed EXCEPT ![drain.it[2]] = r]
         ELSE drain' = [drain EXCEPT !.at = "clear"] /\ UNCHANGED landed
    /\ UNCHANGED <<q, closed, wedged, out>>

\* current is nil again and a wedge is over (held mail is then drained: HeldMail);
\* then done is closed.  Until it is, who waits for this write can only go on
\* waiting; who gave up keeps what he was told.
Unwedge ==
    /\ drain.at = "clear"
    /\ drain' = More
    /\ wedged' = FALSE
    /\ out' = IF drain.it \in Bodies /\ out[drain.it[2]] = "none"
                THEN [out EXCEPT ![drain.it[2]] = drain.r] ELSE out
    /\ UNCHANGED <<q, closed, landed>>

\* closeInput: what is queued is dropped, and those who wait for it released.
CloseInput ==
    LET dropped == {s \in Sender : Body(s) \in ToSet(q)} IN
    /\ ~closed /\ closed' = TRUE
    /\ q' = <<>>
    /\ out' = [s \in Sender |-> IF s \in dropped THEN "notReached" ELSE out[s]]
    /\ UNCHANGED <<drain, wedged, landed>>

DrainInput == Take \/ WriteEnds \/ Unwedge

\* The steps of the drain that do not wait for the child.
DrainSteps == Take \/ Unwedge

InputTypeOK ==
    /\ q \in Seq(Items) /\ Len(q) <= Cap
    /\ drain \in [at : {"off", "take", "write", "clear"}, it : Items \cup {NoItem},
                  r : Outcomes \cup {"none"}]
    /\ closed \in BOOLEAN /\ wedged \in BOOLEAN
    /\ out \in [Sender -> Outcomes \cup {"none"}]
    /\ landed \in [Sender -> Outcomes]
=============================================================================
