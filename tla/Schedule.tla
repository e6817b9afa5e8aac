------------------------------ MODULE Schedule ------------------------------
(***************************************************************************)
(* The rig's schedule (internal/tui/schedule_run.go, ipc_schedule.go,      *)
(* internal/schedule): the jobs in memory and in schedule.yaml, the tick   *)
(* that claims what is due, a goroutine per run, the cron commands, and    *)
(* whoever edits the file by hand.  A reload is four steps: it stats the   *)
(* file, compares under the lock, reads with no lock (an owner check may   *)
(* wait for the main goroutine), and installs under the lock.  A unit of   *)
(* the clock is a due time of every job at a time of day.                  *)
(***************************************************************************)
EXTENDS Naturals, FiniteSets, Functions

CONSTANTS
    Job,        \* ids a job can have
    Cmd,        \* cron commands, one run each
    Every,      \* Every[j]: the interval of a job, 0 for a time of day
    Reasons,    \* why a delivery fails
    MaxTime,    \* bound on the clock
    MaxFaults,  \* bound on edits by hand, failed saves and crashes, together
    Faults      \* those of this instance: "edit", "break", "save", "crash"

ASSUME TimeAssumption == MaxTime \in Nat /\ Every \in [Job -> Nat]
ASSUME BoundAssumption == MaxFaults \in Nat
ASSUME NameAssumption == "tick" \notin Cmd /\ {"none", "ok"} \cap Reasons = {}

Reader == Cmd \cup {"tick"}

VARIABLES
    clock, started,     \* now; when this process started
    disk, broken, mt,   \* schedule.yaml: what it says, that it does not parse, ModTime
    mem, seen, loadErr, \* rigScheduler.file, modTime, loadErr (that there is one)
    inFlight, run,      \* rigScheduler.inFlight; run[j]: the goroutine in fire
    pc, op, stat, got,  \* a reader: where it is, its command, fi, what it read
    owed,               \* lines to super on their way
    faults,
    runs,               \* history: runs[j][d], how often j ran for the due time d
    said, outcome,      \* history: lines said since j delivered; its last outcome
    kept, byHand,       \* history: the jobs the commands left; those edited by hand
    stale, unsaved, cut \* history: an old read was installed, a save failed, a
                        \* crash took a line to super

file    == <<disk, broken, mt>>
memory  == <<mem, seen, loadErr>>
readers == <<pc, op, stat, got>>
fired   == <<inFlight, run, owed>>
told    == <<said, outcome>>
truth   == <<kept, byHand>>
written == <<disk, broken, mt, seen, unsaved, faults>>
vars == <<clock, started, disk, broken, mt, mem, seen, loadErr, inFlight, run, pc, op,
          stat, got, owed, faults, runs, said, outcome, kept, byHand, stale,
          unsaved, cut>>

\* A schedule: its jobs (base is the later of Created and LastRun, told is Told)
\* and the ids given so far (NextID).
Empty   == [jobs |-> <<>>, used |-> {}]
Jobs(s) == DOMAIN s.jobs
NoRun   == [at |-> "no", due |-> 0, why |-> "ok"]
NoRead  == [ok |-> TRUE, sched |-> Empty]

Init ==
    /\ \E J \in SUBSET Job :
          /\ disk = [jobs |-> [j \in J |-> [base |-> 0, told |-> "none"]], used |-> J]
          /\ mt = IF J = {} THEN 0 ELSE 1
          /\ kept = J
    /\ broken = FALSE /\ clock = 0 /\ started = 0
    /\ mem = Empty /\ seen = 0 /\ loadErr = FALSE
    /\ inFlight = {} /\ run = [j \in Job |-> NoRun] /\ owed = {}
    /\ pc = [r \in Reader |-> "idle"] /\ op = [c \in Cmd |-> <<>>]
    /\ stat = [r \in Reader |-> 0] /\ got = [r \in Reader |-> NoRead]
    /\ faults = 0
    /\ runs = [j \in Job |-> [d \in 1 .. MaxTime |-> 0]]
    /\ said = {} /\ outcome = [j \in Job |-> "ok"] /\ byHand = {}
    /\ stale = FALSE /\ unsaved = FALSE /\ cut = FALSE

-----------------------------------------------------------------------------
(* schedule.go *)

Later(a, b) == IF a > b THEN a ELSE b

\* Job.Check: the due time a run claims, and whether it is due now.
Due(j)   == IF Every[j] = 0 THEN clock ELSE Later(mem.jobs[j].base, started) + Every[j]
Fires(j) == IF Every[j] = 0 THEN clock > mem.jobs[j].base ELSE clock >= Due(j)

\* File.Add gives a fresh id; File.Remove (the owner's, or super's).
Added(s, j)   == [jobs |-> [k \in Jobs(s) \cup {j} |->
                               IF k = j THEN [base |-> clock, told |-> "none"] ELSE s.jobs[k]],
                  used |-> s.used \cup {j}]
Removed(s, j) == [s EXCEPT !.jobs = Restrict(s.jobs, Jobs(s) \ {j})]

\* A fault of this instance happens.
Fault(f) == f \in Faults /\ faults < MaxFaults /\ faults' = faults + 1

\* schedule.Save and the Stat after it; or the write fails.
Save(s) ==
    \/ /\ disk' = s /\ broken' = FALSE
       /\ mt' = mt + 1 /\ seen' = mt + 1
       /\ UNCHANGED <<unsaved, faults>>
    \/ /\ Fault("save")
       /\ unsaved' = TRUE
       /\ UNCHANGED <<file, seen>>

-----------------------------------------------------------------------------
(* reloadIfChanged, in the tick and in every command *)

Goes(r, p) == pc' = [pc EXCEPT ![r] = p]

\* os.Stat: no file, and what is held stands.
Stat(r) ==
    /\ pc[r] = "idle"
    /\ IF r = "tick" THEN UNCHANGED op
         ELSE \E k \in {"add", "remove", "list"}, j \in Job : op' = [op EXCEPT ![r] = <<k, j>>]
    /\ stat' = [stat EXCEPT ![r] = mt]
    /\ Goes(r, IF mt = 0 THEN "act" ELSE "compare")
    /\ UNCHANGED <<clock, started, file, memory, fired, got, faults, runs, told,
                   truth, stale, unsaved, cut>>

Compare(r) ==
    /\ pc[r] = "compare"
    /\ LET held == stat[r] = seen IN
          /\ Goes(r, IF held THEN "act" ELSE "load")
          /\ stat' = IF held THEN [stat EXCEPT ![r] = 0] ELSE stat
    /\ UNCHANGED <<clock, started, file, memory, fired, op, got, faults, runs, told, truth,
                   stale, unsaved, cut>>

\* schedule.Load and checkOwners, with no lock held.
Load(r) ==
    /\ pc[r] = "load"
    /\ got' = [got EXCEPT ![r] = [ok |-> ~broken, sched |-> disk]]
    /\ Goes(r, "install")
    /\ UNCHANGED <<clock, started, file, memory, fired, op, stat, faults, runs, told,
                   truth, stale, unsaved, cut>>

\* A job running now keeps the last run it claimed.
Merged(s) ==
    [s EXCEPT !.jobs = [j \in Jobs(s) |->
        IF j \in inFlight \cap Jobs(mem) THEN [s.jobs[j] EXCEPT !.base = mem.jobs[j].base]
                                         ELSE s.jobs[j]]]

\* A file refused keeps the last good schedule.
Install(r) ==
    /\ pc[r] = "install"
    /\ seen' = stat[r]
    /\ loadErr' = ~got[r].ok
    /\ IF got[r].ok
         THEN mem' = Merged(got[r].sched) /\ stale' = (stale \/ got[r].sched # disk)
         ELSE UNCHANGED <<mem, stale>>
    /\ got' = [got EXCEPT ![r] = NoRead]
    /\ stat' = [stat EXCEPT ![r] = 0]
    /\ Goes(r, "act")
    /\ UNCHANGED <<clock, started, file, fired, op, faults, runs, told, truth,
                   unsaved, cut>>

-----------------------------------------------------------------------------
(* The tick: what is due is claimed, saved, and started. *)

\* Seeded bug: the last run is written with the result, after the delivery.
ClaimUnsaved ==
    LET due == {j \in Jobs(mem) \ inFlight : Fires(j)} IN
    /\ pc["tick"] = "act"
    /\ Goes("tick", "idle")
    /\ mem' = [mem EXCEPT !.jobs = [j \in Jobs(mem) |->
                  IF j \in due THEN [mem.jobs[j] EXCEPT !.base = Due(j)] ELSE mem.jobs[j]]]
    /\ inFlight' = inFlight \cup due
    /\ run' = [j \in Job |-> IF j \in due THEN [at |-> "deliver", due |-> Due(j), why |-> "ok"]
                                          ELSE run[j]]
    /\ UNCHANGED <<clock, started, loadErr, owed, op, stat, got, runs, told, truth, stale,
                   cut, written>>

Claim ==
    LET due == {j \in Jobs(mem) \ inFlight : Fires(j)}
        s   == [mem EXCEPT !.jobs = [j \in Jobs(mem) |->
                   IF j \in due THEN [mem.jobs[j] EXCEPT !.base = Due(j)] ELSE mem.jobs[j]]] IN
    /\ pc["tick"] = "act"
    /\ Goes("tick", "idle")
    /\ mem' = s
    /\ inFlight' = inFlight \cup due
    /\ run' = [j \in Job |-> IF j \in due THEN [at |-> "deliver", due |-> Due(j), why |-> "ok"]
                                          ELSE run[j]]
    /\ IF due = {} THEN UNCHANGED written ELSE Save(s)
    /\ UNCHANGED <<clock, started, loadErr, owed, op, stat, got, runs, told, truth, stale,
                   cut>>

\* fire: the job's command is run and its text delivered, or refused for a reason.
Deliver(j) ==
    /\ run[j].at = "deliver"
    /\ \E w \in Reasons \cup {"ok"} : run' = [run EXCEPT ![j].at = "record", ![j].why = w]
    /\ runs' = [runs EXCEPT ![j][run[j].due] = IF @ < 2 THEN @ + 1 ELSE @]
    /\ UNCHANGED <<clock, started, file, memory, inFlight, owed, readers, faults, told,
                   truth, stale, unsaved, cut>>

\* What the line to super and Told become, by the outcome of a run.
\* Seeded bugs: every failure is said; the first is not.
NewsAlways(j) == TRUE
NewsNever(j) == FALSE
News(j) == j \in Jobs(mem) => mem.jobs[j].told # run[j].why
ToldNow(j) == IF run[j].why = "ok" THEN "none" ELSE run[j].why

\* Seeded bug: the run of a job removed meanwhile stays in flight.
RecordLeavesFlight(j) ==
    LET w == run[j].why IN
    /\ run[j].at = "record" /\ j \in Jobs(mem)
    /\ run' = [run EXCEPT ![j] = NoRun]
    /\ outcome' = [outcome EXCEPT ![j] = w]
    /\ said' = IF w = "ok" THEN said \ ({j} \X Reasons) ELSE said
    /\ owed' = IF w # "ok" /\ News(j) THEN owed \cup {<<j, w>>} ELSE owed
    /\ mem' = [mem EXCEPT !.jobs[j].told = ToldNow(j)]
    /\ Save(mem')
    /\ UNCHANGED <<clock, started, loadErr, inFlight, readers, runs, truth, stale, cut>>

\* Seeded bug: the run records on the job it claimed, there or not.
RecordPutsBack(j) ==
    LET w == run[j].why IN
    /\ run[j].at = "record"
    /\ run' = [run EXCEPT ![j] = NoRun]
    /\ inFlight' = inFlight \ {j}
    /\ outcome' = [outcome EXCEPT ![j] = w]
    /\ said' = IF w = "ok" THEN said \ ({j} \X Reasons) ELSE said
    /\ owed' = IF w # "ok" /\ News(j) THEN owed \cup {<<j, w>>} ELSE owed
    /\ mem' = [Added(mem, j) EXCEPT !.jobs[j] = [base |-> run[j].due, told |-> ToldNow(j)]]
    /\ Save(mem')
    /\ UNCHANGED <<clock, started, loadErr, readers, runs, truth, stale, cut>>

\* What became of it is recorded, if the job is still there.
Record(j) ==
    LET w == run[j].why
        s == [mem EXCEPT !.jobs[j].told = ToldNow(j)] IN
    /\ run[j].at = "record"
    /\ run' = [run EXCEPT ![j] = NoRun]
    /\ inFlight' = inFlight \ {j}
    /\ outcome' = [outcome EXCEPT ![j] = w]
    /\ said' = IF w = "ok" THEN said \ ({j} \X Reasons) ELSE said
    /\ owed' = IF w # "ok" /\ News(j) THEN owed \cup {<<j, w>>} ELSE owed
    /\ IF j \in Jobs(mem) THEN mem' = s /\ Save(s)
                          ELSE UNCHANGED <<mem, written>>
    /\ UNCHANGED <<clock, started, loadErr, readers, runs, truth, stale, cut>>

\* tellSuper, after the lock is let go.
Tell(j, w) ==
    /\ <<j, w>> \in owed
    /\ owed' = owed \ {<<j, w>>}
    /\ said' = said \cup {<<j, w>>}
    /\ UNCHANGED <<clock, started, file, memory, inFlight, run, readers, faults, runs,
                   outcome, truth, stale, unsaved, cut>>

-----------------------------------------------------------------------------
(* change: cron add and cron remove, under the lock after their own reload;  *)
(* snapshot (cron list) changes nothing.  A command whose save fails answers *)
(* an error and has changed the memory.                                      *)

Ends(c) == pc' = [pc EXCEPT ![c] = "done"] /\ op' = [op EXCEPT ![c] = <<>>]

Answers(c) ==
    /\ c \in Cmd /\ pc[c] = "act"
    /\ op[c][1] = "list" \/ loadErr
         \/ (op[c][1] = "add" /\ op[c][2] \in mem.used)
         \/ (op[c][1] = "remove" /\ op[c][2] \notin Jobs(mem))
    /\ Ends(c)
    /\ UNCHANGED <<clock, started, file, memory, fired, stat, got, faults, runs, told,
                   truth, stale, unsaved, cut>>

Change(c) ==
    LET j == op[c][2]
        s == IF op[c][1] = "add" THEN Added(mem, j) ELSE Removed(mem, j) IN
    /\ c \in Cmd /\ pc[c] = "act" /\ ~loadErr
    /\ \/ op[c][1] = "add" /\ j \notin mem.used
       \/ op[c][1] = "remove" /\ j \in Jobs(mem)
    /\ mem' = s /\ Save(s)
    /\ kept' = IF op[c][1] = "add" THEN kept \cup {j} ELSE kept \ {j}
    /\ Ends(c)
    /\ UNCHANGED <<clock, started, loadErr, fired, stat, got, runs, told, byHand, stale, cut>>

-----------------------------------------------------------------------------
Passes ==
    /\ clock < MaxTime
    /\ clock' = clock + 1
    /\ UNCHANGED <<started, file, memory, fired, readers, faults, runs, told, truth,
                   stale, unsaved, cut>>

\* By hand: a job is taken out, or put in; the file is broken, or put right.
Edit ==
    /\ \/ Fault("break") /\ broken' = TRUE /\ UNCHANGED <<disk, byHand>>
       \/ Fault("edit") /\ broken' = FALSE /\ \E j \in Job :
             /\ byHand' = byHand \cup {j}
             /\ disk' = IF j \in Jobs(disk) THEN Removed(disk, j) ELSE Added(disk, j)
    /\ mt' = mt + 1
    /\ UNCHANGED <<clock, started, memory, fired, readers, runs, told, kept, stale, unsaved, cut>>

\* Window 1 stops anywhere and starts again with what is on the disk.
Crash ==
    /\ Fault("crash")
    /\ mem' = Empty /\ seen' = 0 /\ loadErr' = FALSE
    /\ inFlight' = {} /\ run' = [j \in Job |-> NoRun] /\ owed' = {}
    /\ pc' = [r \in Reader |-> IF r = "tick" \/ pc[r] = "idle" THEN "idle" ELSE "done"]
    /\ op' = [c \in Cmd |-> <<>>]
    /\ stat' = [r \in Reader |-> 0] /\ got' = [r \in Reader |-> NoRead]
    /\ started' = clock
    /\ cut' = (cut \/ owed # {})
    /\ UNCHANGED <<clock, file, runs, told, truth, stale, unsaved>>

Reload(r) == Stat(r) \/ Compare(r) \/ Load(r) \/ Install(r)
Tick      == Reload("tick") \/ Claim
Fire(j)   == Deliver(j) \/ Record(j)

Next == \/ \E c \in Cmd : Reload(c) \/ Answers(c) \/ Change(c)
        \/ Tick \/ \E j \in Job : Fire(j) \/ \E w \in Reasons : Tell(j, w)
        \/ Passes \/ Edit \/ Crash

Spec == Init /\ [][Next]_vars

\* The tick comes every second, its steps and the runs' go on, the clock does.
FairSpec == Spec /\ WF_vars(Tick) /\ \A j \in Job : WF_vars(Fire(j))

-----------------------------------------------------------------------------
Scheds == {s \in [jobs : UNION {[J -> [base : 0 .. MaxTime, told : Reasons \cup {"none"}]]
                                  : J \in SUBSET Job},
                  used : SUBSET Job] : TRUE}

\* The type invariant of the state above; what is in flight has a goroutine.
TypeOK ==
    /\ clock \in 0 .. MaxTime /\ started \in 0 .. clock
    /\ disk \in Scheds /\ mem \in Scheds /\ broken \in BOOLEAN /\ loadErr \in BOOLEAN
    /\ mt \in Nat /\ seen \in 0 .. mt
    /\ inFlight = {j \in Job : run[j].at # "no"}
    /\ run \in [Job -> [at : {"no", "deliver", "record"}, due : 0 .. MaxTime,
                        why : Reasons \cup {"ok"}]]
    /\ pc \in [Reader -> {"idle", "compare", "load", "install", "act", "done"}]
    /\ stat \in [Reader -> 0 .. mt] /\ owed \subseteq Job \X Reasons
    /\ said \subseteq Job \X Reasons /\ outcome \in [Job -> Reasons \cup {"ok"}]

\* A job never runs twice for one due time, even across a restart
\* (operator-guide.md, Schedules), unless a read was installed after the file had
\* been written again, or a save failed: the claim is on the disk before the run.
OncePerDue == stale \/ unsaved \/ \A j \in Job, d \in 1 .. MaxTime : runs[j][d] <= 1

\* The file holds what the commands answered, through every reload, run and
\* restart (schedule_run.go, change); with the same exceptions, and but for the
\* jobs somebody edited by hand.
CommandsKept ==
    stale \/ unsaved \/ \A j \in Job \ byHand : j \in Jobs(disk) <=> j \in kept

\* A failure that the file says super was told of was said, or is about to be;
\* a crash costs only the lines on their way (schedule_run.go, fire).
SuperHears ==
    stale \/ unsaved \/ cut \/
    \A j \in Jobs(disk) \ byHand :
        disk.jobs[j].told # "none" => <<j, disk.jobs[j].told>> \in owed \cup said

\* A failure is said once until the job delivers or fails for another reason,
\* also across a restart (operator-guide.md).
SaidOnce ==
    [][~stale' /\ ~unsaved' =>
         \A e \in owed' \ owed : 
             e[1] \in byHand \/ e[1] \notin Jobs(mem) \/ outcome[e[1]] # e[2]]_vars

\* A job that is due runs, or is not there any more.
DueRuns == \A j \in Job :
    (j \in Jobs(mem) /\ Fires(j)) ~> (j \notin Jobs(mem) \/ ~Fires(j))
=============================================================================
