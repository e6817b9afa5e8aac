------------------------------ MODULE BeadWork ------------------------------
(***************************************************************************)
(* One bead, and the commands that move it: "initech deliver"              *)
(* (cmd/deliver.go), which writes under a lock file of the bead            *)
(* (cmd/deliver_lock.go), and "initech assign" (cmd/assign.go), which      *)
(* takes no lock.  Each command is a process of its own; what they share   *)
(* is the tracker (bd) and a file.  One action is one bd call or one file  *)
(* system call: the commands interleave anywhere in between.               *)
(*                                                                         *)
(* Whoever runs bd by hand (the operator, super with "bd close") is the    *)
(* action ByHand.  Messages, ribbons and comments follow the write and     *)
(* are left out.                                                           *)
(***************************************************************************)
EXTENDS Lifecycle, FiniteSets

CONSTANTS
    Call,       \* command processes, one command each
    Agent,      \* agents of the fleet
    Family,     \* Family[a]: the role family of a
    NoAgent,    \* an empty assignee, or no recorded implementer
    NoCall,     \* no lock file
    Commands,   \* the commands of this instance
    Troubles    \* what may go wrong in this instance

ASSUME CallAssumption  == NoCall \notin Call
ASSUME AgentAssumption == NoAgent \notin Agent /\ Family \in [Agent -> {"eng", "qa", "other"}]
ASSUME WorkAssumption  == /\ Commands \subseteq {"deliver", "assign", "byHand"}
                          /\ Troubles \subseteq {"crash", "slow", "bd"}

Holder == Agent \cup {NoAgent}

VARIABLES
    status, assignee, implementer,   \* the bead in bd
    pc,        \* where each command is
    cmd,       \* who runs it, and for what
    seen,      \* the status and the assignee it read
    plan,      \* the transition it means to write
    lock,      \* who made the lock file that exists
    old,       \* that file is past staleLockTTL
    robbed,    \* a live holder's lock file was removed by another (history)
    passed     \* deliveries past their compare when a write without the lock came (history)

bead == <<status, assignee, implementer>>
file == <<lock, old, robbed>>
own  == <<cmd, seen, plan>>
vars == <<status, assignee, implementer, pc, cmd, seen, plan, lock, old, robbed, passed>>

Verdict == {"none", "PASS", "FAIL"}
Command == [who : Holder, verdict : Verdict, move : BOOLEAN]
Op      == {"keep", "clear", "implementer", "target"}
Plan    == [status : Status, op : Op, rec : BOOLEAN, to : Holder]
NoCommand == [who |-> NoAgent, verdict |-> "none", move |-> FALSE]
Unseen  == [status |-> "open", assignee |-> NoAgent]
NoPlan  == [status |-> "open", op |-> "keep", rec |-> FALSE, to |-> NoAgent]

\* The compare and the write, from the lock's creation to its release.
InLock == {"reread", "write", "release"}
Pcs    == {"idle", "show", "record", "acquire", "takeOver", "look", "dispatch", "done"} \cup InLock

Init ==
    /\ \/ status = "open" /\ assignee = NoAgent /\ implementer = NoAgent
       \/ status = "in_progress" /\ assignee \in Agent /\ implementer \in {NoAgent, assignee}
    /\ pc = [c \in Call |-> "idle"]
    /\ cmd = [c \in Call |-> NoCommand]
    /\ seen = [c \in Call |-> Unseen]
    /\ plan = [c \in Call |-> NoPlan]
    /\ lock = NoCall /\ old = FALSE /\ robbed = FALSE /\ passed = {}

Goto(c, p) == pc' = [pc EXCEPT ![c] = p]

\* The process is gone, and all it knew.
End(c) ==
    /\ Goto(c, "done")
    /\ cmd' = [cmd EXCEPT ![c] = NoCommand]
    /\ seen' = [seen EXCEPT ![c] = Unseen]
    /\ plan' = [plan EXCEPT ![c] = NoPlan]

-----------------------------------------------------------------------------
(* initech deliver *)

\* validateDeliverFlags: a QA role gives a verdict, the others succeed or fail.
Verdicts(a) == IF Family[a] = "qa" THEN {"PASS", "FAIL"} ELSE {"none", "FAIL"}

RunDeliver(c) ==
    /\ "deliver" \in Commands /\ pc[c] = "idle"
    /\ \E a \in Agent : \E v \in Verdicts(a) :
          cmd' = [cmd EXCEPT ![c] = [who |-> a, verdict |-> v, move |-> FALSE]]
    /\ Goto(c, "show")
    /\ UNCHANGED <<bead, seen, plan, file, passed>>

\* The refusals before any write: a side state, someone else's bead, nothing to do.
Refused(c) ==
    \/ status \in Side
    \/ assignee \notin {NoAgent, cmd[c].who}
    \/ Deliver(Family[cmd[c].who], status, cmd[c].verdict) = {}

\* bd show: what the bead is decides what will be written.
Show(c) ==
    /\ pc[c] = "show"
    /\ \/ Refused(c) /\ End(c)
       \/ /\ ~Refused(c)
          /\ seen' = [seen EXCEPT ![c] = [status |-> status, assignee |-> assignee]]
          /\ \E t \in Deliver(Family[cmd[c].who], status, cmd[c].verdict) :
                /\ plan' = [plan EXCEPT ![c] = [status |-> t.status, op |-> t.op,
                                                rec |-> t.rec, to |-> NoAgent]]
                /\ Goto(c, IF t.op = "implementer" THEN "record" ELSE "acquire")
          /\ UNCHANGED cmd
    /\ UNCHANGED <<bead, file, passed>>

\* A second bd show, for the implementer; on an error the bead goes to nobody.
ReadImplementer(c) ==
    /\ pc[c] = "record"
    /\ \E to \in {implementer} \cup (IF "bd" \in Troubles THEN {NoAgent} ELSE {}) :
          plan' = [plan EXCEPT ![c].to = to]
    /\ Goto(c, "acquire")
    /\ UNCHANGED <<bead, cmd, seen, file, passed>>

-----------------------------------------------------------------------------
(* acquireDeliverLock *)

\* Seeded bug: the file is created without O_EXCL.
CreateLockNotExcl(c) ==
    /\ pc[c] = "acquire"
    /\ lock' = c /\ old' = FALSE
    /\ Goto(c, "reread")
    /\ UNCHANGED <<bead, own, robbed, passed>>

\* O_CREATE|O_EXCL succeeds.
CreateLock(c) ==
    /\ pc[c] = "acquire" /\ lock = NoCall
    /\ lock' = c /\ old' = FALSE
    /\ Goto(c, "reread")
    /\ UNCHANGED <<bead, own, robbed, passed>>

\* It exists, and its age says it was abandoned.
FindStale(c) ==
    /\ pc[c] = "acquire" /\ lock # NoCall /\ old
    /\ Goto(c, "takeOver")
    /\ UNCHANGED <<bead, own, file, passed>>

\* The lock file goes, whosever it is.
RemoveFile(c) ==
    /\ lock' = NoCall /\ old' = FALSE
    /\ robbed' = (robbed \/ \E h \in Call \ {c} : lock = h /\ pc[h] \in InLock)

\* os.Remove of the abandoned file, by name; then round the loop.
TakeOver(c) ==
    /\ pc[c] = "takeOver"
    /\ RemoveFile(c)
    /\ Goto(c, "acquire")
    /\ UNCHANGED <<bead, own, passed>>

\* lockWaitTimeout.
TimeOut(c) ==
    /\ pc[c] = "acquire" /\ lock # NoCall
    /\ End(c)
    /\ UNCHANGED <<bead, file, passed>>

-----------------------------------------------------------------------------
(* compareAndSetBeadWrite *)

\* Seeded bug: the status is read again and not compared.
RereadOnly(c) ==
    /\ pc[c] = "reread"
    /\ Goto(c, "write")
    /\ UNCHANGED <<bead, own, file, passed>>

\* Only the status is compared with what was seen.
Reread(c) ==
    /\ pc[c] = "reread"
    /\ Goto(c, IF status = seen[c].status THEN "write" ELSE "release")
    /\ UNCHANGED <<bead, own, file, passed>>

\* A bd call fails inside the lock: the deferred release runs all the same.
BdFails(c) ==
    /\ "bd" \in Troubles /\ pc[c] \in {"reread", "write"}
    /\ Goto(c, "release")
    /\ UNCHANGED <<bead, own, file, passed>>

\* One bd update for all the transition asked for.
WriteBead(c) ==
    /\ pc[c] = "write"
    /\ status' = plan[c].status
    /\ assignee' = IF plan[c].op = "keep" THEN assignee ELSE plan[c].to
    /\ implementer' = IF plan[c].rec THEN cmd[c].who ELSE implementer
    /\ Goto(c, "release")
    /\ UNCHANGED <<own, file, passed>>

Release(c) ==
    /\ pc[c] = "release"
    /\ RemoveFile(c)
    /\ End(c)
    /\ passed' = passed \ {c}
    /\ UNCHANGED bead

DeliverStep(c) ==
    \/ Show(c) \/ ReadImplementer(c)
    \/ CreateLock(c) \/ FindStale(c) \/ TakeOver(c) \/ TimeOut(c)
    \/ Reread(c) \/ BdFails(c) \/ WriteBead(c) \/ Release(c)

-----------------------------------------------------------------------------
(* initech assign, and bd by hand: no lock. *)

\* A write that does not take the lock falls between a delivery's compare and write.
Unlocked == passed' = passed \cup {c \in Call : pc[c] = "write"}

RunAssign(c) ==
    /\ "assign" \in Commands /\ pc[c] = "idle"
    /\ \E a \in Agent, mv \in BOOLEAN :
          cmd' = [cmd EXCEPT ![c] = [who |-> a, verdict |-> "none", move |-> mv]]
    /\ Goto(c, "look")
    /\ UNCHANGED <<bead, seen, plan, file, passed>>

\* classifyAssign: in progress or in QA with another agent.
WithAnother(a) == status \in {"in_progress", "in_qa"} /\ assignee \notin {NoAgent, a}

\* bd show and classifyAssign: closed, a fold-in, another's without --move; or dispatched.
Look(c) ==
    LET a == cmd[c].who
        t == Dispatch(Family[a])
        nothing == \/ status = "closed"
                   \/ assignee = a /\ status = t.status
                   \/ WithAnother(a) /\ ~cmd[c].move
    IN
    /\ pc[c] = "look"
    /\ \/ nothing /\ End(c)
       \/ /\ ~nothing
          /\ plan' = [plan EXCEPT ![c] = [status |-> t.status, op |-> t.op, rec |-> t.rec, to |-> a]]
          /\ Goto(c, "dispatch")
          /\ UNCHANGED <<cmd, seen>>
    /\ UNCHANGED <<bead, file, passed>>

\* bdDispatch: status, assignee and implementer in one update, whatever they are now.
DispatchBead(c) ==
    /\ pc[c] = "dispatch"
    /\ status' = plan[c].status
    /\ assignee' = plan[c].to
    /\ implementer' = IF plan[c].rec THEN plan[c].to ELSE implementer
    /\ End(c)
    /\ Unlocked
    /\ UNCHANGED file

\* Someone closes, parks or reopens the bead.
ByHand ==
    /\ "byHand" \in Commands
    /\ \E s \in {"closed", "blocked", "open"} : s # status /\ status' = s
    /\ Unlocked
    /\ UNCHANGED <<assignee, implementer, pc, own, file>>

-----------------------------------------------------------------------------
(* What goes wrong. *)

\* The process dies: a lock file it made stays.  One that gives up on a bd call that
\* failed outside the lock ends the same way.
Crash(c) ==
    /\ "crash" \in Troubles /\ pc[c] \notin {"idle", "done"}
    /\ End(c)
    /\ passed' = passed \ {c}
    /\ UNCHANGED <<bead, file>>

\* A lock file is 30 seconds old: its maker is dead, or (slow) still in a bd call.
LockAges ==
    /\ lock # NoCall /\ ~old
    /\ "slow" \in Troubles \/ pc[lock] \notin InLock
    /\ old' = TRUE
    /\ UNCHANGED <<bead, pc, own, lock, robbed, passed>>

Next ==
    \/ \E c \in Call : RunDeliver(c) \/ RunAssign(c)
    \/ \E c \in Call : DeliverStep(c) \/ Look(c) \/ DispatchBead(c) \/ Crash(c)
    \/ ByHand
    \/ LockAges

Spec == Init /\ [][Next]_vars

-----------------------------------------------------------------------------
(* Properties. *)

\* A delivery from its decision to its end.
Delivering(c) == pc[c] \in {"record", "acquire", "takeOver"} \cup InLock

\* Every variable has its type, and a delivery that got past the refusals was
\* entitled to: it saw no side state and nobody else's bead (deliver.go, step 1).
TypeOK ==
    /\ status \in Status /\ assignee \in Holder /\ implementer \in Holder
    /\ pc \in [Call -> Pcs] /\ cmd \in [Call -> Command]
    /\ seen \in [Call -> [status : Status, assignee : Holder]]
    /\ plan \in [Call -> Plan]
    /\ lock \in Call \cup {NoCall} /\ old \in BOOLEAN /\ robbed \in BOOLEAN
    /\ passed \subseteq Call
    /\ \A c \in Call : Delivering(c) =>
          seen[c].status \notin Side /\ seen[c].assignee \in {NoAgent, cmd[c].who}

\* At most one delivery is between its re-read and its release, however many wait,
\* time out or die, until a live holder's file has been taken for an abandoned one.
LockExclusive ==
    ~robbed => \A c, d \in Call : pc[c] \in InLock /\ pc[d] \in InLock => c = d

\* A delivery writes on the status it decided from: of several that read one status
\* one writes and the others are refused.  Not so once a holder was robbed, or for a
\* delivery in whose write a command without the lock came first.
DeliverCompares ==
    [][\A c \in Call : WriteBead(c) /\ ~robbed /\ c \notin passed =>
          status = seen[c].status]_vars
=============================================================================
