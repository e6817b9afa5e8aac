----------------------------- MODULE CeilingGate -----------------------------
(***************************************************************************)
(* The machine ceiling: the gate every start and wake of an agent asks     *)
(* (internal/machine/gate.go), the reading that steps it once a minute off *)
(* the main goroutine, and the wake of the mail it held, one agent at a    *)
(* time (internal/tui/machine_ceiling.go).  The figure modelled is awake   *)
(* sessions, this rig's and the others'; free memory and load engage the   *)
(* gate the same way.  What a resume does beside the gate is in PaneLife.  *)
(* initech reads the machine once before its first agent, so that a gate   *)
(* with no reading, which admits, is asked by nobody.                      *)
(***************************************************************************)
EXTENDS Naturals, FiniteSets

CONSTANTS
    Agent,      \* this rig's agents
    NoAgent,    \* nobody
    Sessions,   \* Ceiling.Sessions
    MaxOthers,  \* bound on the other rigs' awake sessions
    Insistent,  \* bound: the agents sent to again while mail waits
    Troubles    \* what may go wrong in this instance

ASSUME AgentAssumption    == IsFiniteSet(Agent) /\ NoAgent \notin Agent /\ Insistent \subseteq Agent
ASSUME SessionsAssumption == Sessions \in Nat \ {0} /\ MaxOthers \in Nat

VARIABLES
    st,        \* st[a]: parked, being started or woken, or up
    pc,        \* pc[a]: the holder of a's resume lock, between its steps
    trigger,   \* trigger[a]: a send's wake waits for the lock
    mail,      \* mail[a]: the parked pane holds mail
    held,      \* held[a]: Pane.ceilingHeld
    told,      \* told[a]: its mail was refused, and what will wake it (history)
    engaged, under, last, admitted,   \* machine.Gate
    busy,      \* ceilingState.busy and where the step is
    sight,     \* the panes the step saw awake on the main goroutine
    waking, todo, at,   \* ceilingState.waking and its loop
    mine,      \* the resume under at's lock is the loop's own
    others,    \* the other rigs' awake sessions, as their files said last
    missed     \* history: it did not count an agent let through before it

gate   == <<engaged, under, last, admitted>>
agents == <<st, pc, trigger, mail, held, told>>
step   == <<busy, sight, others, missed>>
loop   == <<waking, todo, at, mine>>
vars   == <<st, pc, trigger, mail, held, told, engaged, under, last, admitted,
            busy, sight, waking, todo, at, mine, others, missed>>

Unread == Sessions + MaxOthers + Cardinality(Agent) + 1   \* AwakeOK is false

\* tui.Run: the reading before the first agent, none of ours awake, then the
\* gate asked for each agent the last run did not leave parked; they are up.
Init ==
    \E boot \in SUBSET Agent :
    /\ others \in 0 .. MaxOthers
    /\ \/ last = others /\ admitted = Cardinality(boot) /\ missed = FALSE
          /\ (boot = {} \/ others + Cardinality(boot) <= Sessions)
       \/ last = Unread /\ admitted = 0 /\ missed = TRUE /\ "unread" \in Troubles
    /\ engaged = (last # Unread /\ last >= Sessions) /\ under = FALSE
    /\ st = [a \in Agent |-> IF a \in boot THEN "up" ELSE "parked"]
    /\ pc = [a \in Agent |-> "idle"] /\ trigger = [a \in Agent |-> FALSE]
    /\ mail = [a \in Agent |-> FALSE] /\ held = [a \in Agent |-> FALSE]
    /\ told = [a \in Agent |-> "no"]
    /\ busy = "no" /\ sight = {}
    /\ waking = FALSE /\ todo = {} /\ at = NoAgent /\ mine = FALSE

-----------------------------------------------------------------------------
(* gate.go *)

ReadOK == last # Unread
Over(n) == ReadOK /\ n >= Sessions

\* Seeded bug: what was let through since the reading is not counted.
AdmitsUncounted == ~engaged /\ ~Over(last)

\* Admit: not engaged, and the last reading with those let through since is
\* under.
Admits == ~engaged /\ ~Over(last + admitted)

Counted == admitted' = IF ReadOK THEN admitted + 1 ELSE admitted

\* Seeded bug: the minute under the ceiling starts over at every reading.
StepStartsOver(n) ==
    LET over == n # Unread /\ n >= Sessions IN
    /\ last' = n /\ admitted' = 0
    /\ engaged' = (over \/ engaged)
    /\ under' = FALSE

\* Step: n is the reading, Unread when the process table was.
Step(n) ==
    LET over == n # Unread /\ n >= Sessions IN
    /\ last' = n /\ admitted' = 0
    /\ engaged' = (over \/ (engaged /\ ~under))
    /\ under' = (engaged /\ ~over /\ ~under)

\* This step cleared the gate: engaged, and under for a whole minute.
Clears(n) == engaged /\ under /\ (n = Unread \/ n < Sessions)

-----------------------------------------------------------------------------
(* An agent: resumePaneDrain and admitAgent. *)

\* handleIPCSend to a suspended agent: queued, and a wake asked for.
Send(a) ==
    /\ st[a] = "parked" /\ ~mail[a]
    /\ mail' = [mail EXCEPT ![a] = TRUE]
    /\ trigger' = [trigger EXCEPT ![a] = TRUE]
    /\ UNCHANGED <<st, pc, held, told, gate, step, loop>>

\* A second message asks again.
SendAgain(a) ==
    /\ a \in Insistent /\ st[a] = "parked" /\ mail[a]
    /\ trigger' = [trigger EXCEPT ![a] = TRUE]
    /\ UNCHANGED <<st, pc, mail, held, told, gate, step, loop>>

\* A resume takes the lock: the wake loop's, or a send's.
Takes(a, looped) ==
    /\ pc[a] = "idle"
    /\ \/ looped /\ at = a /\ mine' = TRUE /\ UNCHANGED trigger
       \/ /\ ~looped /\ trigger[a]
          /\ trigger' = [trigger EXCEPT ![a] = FALSE]
          /\ UNCHANGED mine

\* The gate lets it through: a process will be started.
Admit(a, looped) ==
    /\ st[a] = "parked" /\ Takes(a, looped) /\ Admits /\ Counted
    /\ st' = [st EXCEPT ![a] = "starting"]
    /\ pc' = [pc EXCEPT ![a] = "admitted"]
    /\ told' = [told EXCEPT ![a] = "no"]
    /\ UNCHANGED <<mail, held, engaged, under, last, step, waking, todo, at>>

\* setCeilingNote(""), a section of the pane's lock after the gate's.
NoteGone(a) ==
    /\ pc[a] = "admitted"
    /\ pc' = [pc EXCEPT ![a] = "idle"]
    /\ held' = [held EXCEPT ![a] = FALSE]
    /\ UNCHANGED <<st, trigger, mail, told, gate, step, loop>>

\* The gate refuses: because it is engaged, or by the count alone.
Refuse(a, looped) ==
    /\ st[a] = "parked" /\ Takes(a, looped) /\ ~Admits
    /\ pc' = [pc EXCEPT ![a] = IF engaged THEN "engaged" ELSE "short"]
    /\ UNCHANGED <<st, mail, held, told, gate, step, waking, todo, at>>

\* What the refused mail waits for: the clear of the gate that refused it, which
\* may be gone by ("late"), or another trigger ("short").
Waits(a) == IF pc[a] = "engaged" /\ ~engaged /\ busy # "cleared" THEN "late" ELSE pc[a]

\* The refusal is told, and ends the loop when it was the loop's, which leaves
\* those after it waiting for the same thing.
Refusal(a) ==
    LET ends == at = a /\ mine IN
    /\ pc[a] \in {"engaged", "short"}
    /\ pc' = [pc EXCEPT ![a] = "idle"]
    /\ told' = [b \in Agent |-> IF (b = a /\ mail[a]) \/ (ends /\ b \in todo /\ told[b] # "no")
                                 THEN Waits(a) ELSE told[b]]
    /\ IF ends THEN todo' = {} /\ at' = NoAgent /\ mine' = FALSE
               ELSE UNCHANGED <<todo, at, mine>>
    /\ UNCHANGED <<st, trigger, mail, gate, step, waking>>

\* Seeded bug: the refusal does not mark the mail as held by the ceiling.
MarkForgets(a) == Refusal(a) /\ UNCHANGED held

\* setCeilingNote(words), a section of the pane's lock after the gate's: a clear
\* and its list of marked panes can fall between the two.
Mark(a) ==
    /\ Refusal(a)
    /\ held' = [held EXCEPT ![a] = @ \/ mail[a]]

\* The successor is swapped in and its child runs: it counts from here.
Up(a) ==
    /\ st[a] = "starting" /\ pc[a] = "idle"
    /\ st' = [st EXCEPT ![a] = "up"]
    /\ pc' = [pc EXCEPT ![a] = "deliver"]
    /\ UNCHANGED <<trigger, mail, held, told, gate, step, loop>>

\* The resume is over; the loop goes on to the next if it was its own.
LoopOn(a) ==
    IF at = a /\ mine THEN at' = NoAgent /\ mine' = FALSE /\ UNCHANGED <<waking, todo>>
                      ELSE UNCHANGED loop

\* The mail is typed and the lock let go.
Deliver(a) ==
    /\ pc[a] = "deliver"
    /\ mail' = [mail EXCEPT ![a] = FALSE]
    /\ pc' = [pc EXCEPT ![a] = "idle"]
    /\ LoopOn(a)
    /\ UNCHANGED <<st, trigger, held, told, gate, step>>

\* The child died: parked again with its mail, on a new pane, and the operator
\* told; no refusal is marked on it.
BootFails(a) ==
    /\ "boot" \in Troubles /\ st[a] = "starting" /\ pc[a] = "idle"
    /\ st' = [st EXCEPT ![a] = "parked"]
    /\ LoopOn(a)
    /\ UNCHANGED <<pc, trigger, mail, held, told, gate, step>>

\* A resume that had to wait for another finds the agent awake.
FindsAwake(a, looped) ==
    /\ st[a] = "up" /\ pc[a] = "idle"
    /\ \/ looped /\ at = a /\ at' = NoAgent /\ UNCHANGED trigger
       \/ /\ ~looped /\ trigger[a] /\ UNCHANGED at
          /\ trigger' = [trigger EXCEPT ![a] = FALSE]
    /\ UNCHANGED <<st, pc, mail, held, told, gate, step, waking, todo, mine>>

\* Suspended by the operator or by memory pressure.
Park(a) ==
    /\ "park" \in Troubles /\ st[a] = "up" /\ pc[a] = "idle"
    /\ st' = [st EXCEPT ![a] = "parked"]
    /\ UNCHANGED <<pc, trigger, mail, held, told, gate, step, loop>>

-----------------------------------------------------------------------------
(* refreshMachineCeiling, stepCeiling, wakeCeilingHeld *)

\* The tick, on the main goroutine: which panes are alive and not suspended.
\* A wake of held mail that outlasts the minute is "long".
ReadBegin ==
    /\ busy = "no" /\ (waking => "long" \in Troubles)
    /\ sight' = {a \in Agent : st[a] = "up"}
    /\ busy' = "read"
    /\ UNCHANGED <<agents, gate, loop, others, missed>>

\* The process table and the other rigs' files, read later; the gate steps.
ReadEnd ==
    LET awake == {a \in sight : st[a] = "up"} IN
    /\ busy = "read"
    /\ others' \in 0 .. MaxOthers /\ ("others" \in Troubles \/ others' = others)
    /\ \E n \in {Cardinality(awake) + others'} \cup (IF "unread" \in Troubles THEN {Unread} ELSE {}) :
          /\ Step(n)
          /\ busy' = IF Clears(n) THEN "cleared" ELSE "no"
          /\ missed' = (n = Unread \/ \E a \in Agent : st[a] # "parked" /\ a \notin awake)
    /\ sight' = {}
    /\ UNCHANGED <<agents, loop>>

\* wakeCeilingHeld: nothing while one runs; else the panes holding such mail.
WakeHeld ==
    /\ busy = "cleared" /\ busy' = "no"
    /\ IF waking
         THEN /\ told' = [a \in Agent |-> IF told[a] = "engaged" /\ a \notin todo \cup {at}
                                          THEN "late" ELSE told[a]]
              /\ UNCHANGED <<held, loop>>
         ELSE /\ waking' = TRUE
              /\ todo' = {a \in Agent : held[a] /\ st[a] # "up" /\ mail[a]}
              /\ held' = [a \in Agent |-> a \in todo']
              /\ UNCHANGED <<at, mine, told>>
    /\ UNCHANGED <<st, pc, trigger, mail, gate, sight, others, missed>>

\* The loop takes the next (in any order here); one awake needs nothing.
LoopTakes(a) ==
    /\ waking /\ at = NoAgent /\ a \in todo
    /\ todo' = todo \ {a}
    /\ at' = IF st[a] = "up" THEN NoAgent ELSE a
    /\ UNCHANGED <<agents, gate, step, waking, mine>>

LoopEnds ==
    /\ waking /\ at = NoAgent /\ todo = {}
    /\ waking' = FALSE
    /\ UNCHANGED <<agents, gate, step, todo, at, mine>>

\* A resume at its turn for the lock.
Turn(a, looped) == Admit(a, looped) \/ Refuse(a, looped) \/ FindsAwake(a, looped)
Going(a) == NoteGone(a) \/ Mark(a) \/ Up(a) \/ Deliver(a)
Reading  == ReadBegin \/ ReadEnd \/ WakeHeld
Loop     == (\E a \in Agent : LoopTakes(a)) \/ LoopEnds

Next == \/ \E a \in Agent : \/ Turn(a, TRUE) \/ Turn(a, FALSE) \/ Going(a)
                            \/ Send(a) \/ SendAgain(a) \/ BootFails(a) \/ Park(a)
        \/ Reading \/ Loop

Spec == Init /\ [][Next]_vars

\* The tick comes every minute, resumes and the loop go on, and a mutex is not
\* kept from one who waits by those who come after (sync.Mutex hands it over).
FairSpec == Spec /\ WF_vars(Reading) /\ WF_vars(Loop)
                 /\ SF_vars(\E a \in Agent : Turn(a, TRUE))
                 /\ \A a \in Agent : WF_vars(Going(a) \/ Turn(a, FALSE))

-----------------------------------------------------------------------------
Running == {a \in Agent : st[a] # "parked"}

\* The type invariant of the state above; what was let through since a reading
\* is never more than the ceiling.
TypeOK ==
    /\ st \in [Agent -> {"parked", "starting", "up"}]
    /\ pc \in [Agent -> {"idle", "admitted", "engaged", "short", "deliver"}]
    /\ trigger \in [Agent -> BOOLEAN] /\ mail \in [Agent -> BOOLEAN]
    /\ held \in [Agent -> BOOLEAN] /\ told \in [Agent -> {"no", "engaged", "short", "late"}]
    /\ engaged \in BOOLEAN /\ under \in BOOLEAN
    /\ last \in 0 .. Unread /\ admitted \in 0 .. Sessions
    /\ busy \in {"no", "read", "cleared"} /\ sight \subseteq Agent
    /\ waking \in BOOLEAN /\ todo \subseteq Agent /\ at \in Agent \cup {NoAgent}
    /\ mine \in BOOLEAN
    /\ others \in 0 .. MaxOthers /\ missed \in BOOLEAN

\* A burst of wakes between two readings never carries the machine past the
\* ceiling (gate.go, Gate.admitted), when the last reading counted every agent
\* let through before it.
BurstWithinCeiling ==
    [][~missed /\ Cardinality(Running') > Cardinality(Running)
          => Cardinality(Running') + others <= Sessions]_vars

\* Mail the ceiling refused is never off the list the next clear makes: once its
\* sender is told, it is in a parked pane that is marked, through every clear, wake
\* and refusal of another; and while the clear of the gate that refused it is to
\* come ("engaged"), the gate is engaged, its clear has not been acted on yet, or
\* the loop has the agent before it (machine_ceiling.go, wakeCeilingHeld).
RefusedMailKept ==
    \A a \in Agent :
        /\ told[a] # "no" => st[a] = "parked" /\ mail[a] /\ held[a]
        /\ told[a] = "engaged" => engaged \/ busy = "cleared" \/ a \in todo \cup {at}

\* The machine is under its ceiling from some time on.
SomeRoom == <>[](others + Cardinality(Running) < Sessions)

\* Mail that waits for a clear does not wait for ever on a machine that stays under
\* (machine_ceiling.go, wakeCeilingHeld): its agent is let through, or the loop that
\* had it ends at a refusal by the count ("short"), or the one clear went by while
\* the refusal was being marked or another loop ran ("late").  That the last two
\* wait on is no part of it: DeferredMailWoken is what the sender was promised.
ClearReachesMail == SomeRoom => \A a \in Agent : told[a] = "engaged" ~> told[a] # "engaged"

\* What the sender is told (gate.go, Deferred): "will wake and deliver when it
\* is under".
DeferredMailWoken == SomeRoom => \A a \in Agent : told[a] # "no" ~> told[a] = "no"
=============================================================================
