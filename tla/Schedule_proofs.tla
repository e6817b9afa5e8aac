-------------------------- MODULE Schedule_proofs --------------------------
(***************************************************************************)
(* Proofs about Schedule: the due times, the file, and the lines to super, *)
(* for any jobs, intervals, commands, reasons and faults, through reloads, *)
(* failed reads, edits by hand, crashes and starts.                        *)
(***************************************************************************)
EXTENDS Schedule, TLAPS

-----------------------------------------------------------------------------
(* The inductive invariant. *)

Ops     == {"add", "remove", "list"} \X Job
Entry   == [base : 0 .. MaxTime, told : Reasons \cup {"none"}]
Reading == {"compare", "load", "install"}

\* The types of the rest: a command between its steps has its request, a reader
\* with a file to read has its time, a run has a due time, and an id in a schedule
\* was given.
RestTypes ==
    /\ op \in [Cmd -> Ops \cup {<<>>}]
    /\ got \in [Reader -> [ok : BOOLEAN, sched : Scheds]]
    /\ runs \in [Job -> [1 .. MaxTime -> 0 .. 2]]
    /\ kept \subseteq Job /\ byHand \subseteq Job
    /\ stale \in BOOLEAN /\ unsaved \in BOOLEAN /\ cut \in BOOLEAN
    /\ \A c \in Cmd : pc[c] \in Reading \cup {"act"} => op[c] \in Ops
    /\ \A r \in Reader : pc[r] \in Reading => stat[r] # 0
    /\ \A j \in Job : run[j].at # "no" => run[j].due # 0
    /\ Jobs(mem) \subseteq mem.used /\ Jobs(disk) \subseteq disk.used
    /\ \A r \in Reader : Jobs(got[r].sched) \subseteq got[r].sched.used

Types == TypeOK /\ RestTypes

\* No old read was installed and no save failed.
Sound == ~stale /\ ~unsaved

\* A due time that was run, or is about to be, is claimed: in memory and in the
\* file the job's last run is no earlier.
Claims(j, d)   == run[j].at = "deliver" /\ run[j].due = d
Below(d, s, j) == j \in Jobs(s) => d <= s.jobs[j].base

RanInv ==
    \A j \in Job, d \in 1 .. MaxTime :
        /\ runs[j][d] <= 1
        /\ Claims(j, d) => runs[j][d] = 0
        /\ runs[j][d] # 0 \/ Claims(j, d) => d <= clock /\ Below(d, mem, j) /\ Below(d, disk, j)

\* The jobs nobody edited by hand: in the schedule s when the commands left them,
\* and known to it once they have run.
Holds(s) == \A j \in Job \ byHand : j \in Jobs(s) <=> j \in kept
Given(s) == \A j \in Job \ byHand : outcome[j] # "ok" \/ run[j].at # "no" => j \in s.used

\* The process has started and read nothing yet: it changes nothing before it has.
Unloaded == /\ mem = Empty /\ mt # 0 /\ \A j \in Job : run[j].at = "no"
            /\ loadErr \/ (seen = 0 /\ \A c \in Cmd : pc[c] # "act")

KeptInv == /\ mt = 0 => kept = {} /\ disk = Empty /\ byHand = {}
           /\ Holds(disk) /\ Given(disk)
           /\ (Holds(mem) /\ Given(mem)) \/ Unloaded

\* The failure a job ended with is the one its schedule says super was told of,
\* and that line was said or is on its way.
ToldLast(s) == \A j \in Jobs(s) \ byHand : outcome[j] # "ok" => s.jobs[j].told = outcome[j]
Heard(s)    == \A j \in Jobs(s) \ byHand :
                  s.jobs[j].told # "none" => <<j, s.jobs[j].told>> \in owed \cup said

SaidInv  == ToldLast(disk) /\ ToldLast(mem)
HearsInv == cut \/ (Heard(disk) /\ Heard(mem))

Promises    == Sound => RanInv /\ KeptInv /\ SaidInv /\ HearsInv
ScheduleInv == Types /\ Promises

-----------------------------------------------------------------------------
(* Schedules: what the operators on them return. *)

\* A schedule is its jobs, each with a base and what super was told, and the ids
\* given.
LEMMA SchedIs ==
    ASSUME NEW s \in Scheds
    PROVE  /\ DOMAIN s.jobs \subseteq Job /\ s.used \subseteq Job
           /\ s.jobs = [j \in DOMAIN s.jobs |-> s.jobs[j]]
           /\ s = [jobs |-> s.jobs, used |-> s.used]
           /\ \A j \in DOMAIN s.jobs :
                 /\ s.jobs[j] \in Entry
                 /\ s.jobs[j].base \in 0 .. MaxTime
                 /\ s.jobs[j].told \in Reasons \cup {"none"}
<1>1. /\ s \in [jobs : UNION {[J -> Entry] : J \in SUBSET Job}, used : SUBSET Job]
    BY DEF Scheds, Entry
<1>2. PICK J \in SUBSET Job : s.jobs \in [J -> Entry]
    BY <1>1
<1>3. DOMAIN s.jobs = J /\ \A j \in J : s.jobs[j] \in Entry
    BY <1>2
<1> QED
    BY <1>1, <1>2, <1>3 DEF Entry

LEMMA EntryIs ==
    ASSUME NEW e \in Entry
    PROVE  /\ e.base \in 0 .. MaxTime /\ e.told \in Reasons \cup {"none"}
           /\ e = [base |-> e.base, told |-> e.told]
BY DEF Entry

LEMMA WithJobs ==
    ASSUME NEW s \in Scheds, NEW f
    PROVE  [s EXCEPT !.jobs = f] = [jobs |-> f, used |-> s.used]
<1>1. s = [jobs |-> s.jobs, used |-> s.used]
    BY SchedIs
<1> QED BY <1>1

LEMMA IsSched ==
    ASSUME NEW J \in SUBSET Job, NEW f \in [J -> Entry], NEW U \in SUBSET Job
    PROVE  [jobs |-> f, used |-> U] \in Scheds
BY DEF Scheds, Entry

LEMMA EmptySched == Empty \in Scheds /\ DOMAIN Empty.jobs = {} /\ Empty.used = {}
<1>1. <<>> \in [{} -> Entry] /\ DOMAIN <<>> = {}
    OBVIOUS
<1>2. [jobs |-> <<>>, used |-> {}] \in Scheds
    BY <1>1, IsSched
<1> QED BY <1>1, <1>2 DEF Empty

\* File.Add: the job starts from now, with nothing told; the others stand.
LEMMA AddedIs ==
    ASSUME NEW s \in Scheds, NEW j \in Job, clock \in 0 .. MaxTime
    PROVE  /\ Added(s, j) \in Scheds
           /\ DOMAIN Added(s, j).jobs = DOMAIN s.jobs \cup {j}
           /\ Added(s, j).used = s.used \cup {j}
           /\ Added(s, j).jobs[j].base = clock /\ Added(s, j).jobs[j].told = "none"
           /\ \A k \in DOMAIN s.jobs : k # j => Added(s, j).jobs[k] = s.jobs[k]
<1> DEFINE J == DOMAIN s.jobs \cup {j}
           f == [k \in J |-> IF k = j THEN [base |-> clock, told |-> "none"] ELSE s.jobs[k]]
<1>1. Added(s, j) = [jobs |-> f, used |-> s.used \cup {j}]
    BY DEF Added, Jobs
<1>2. J \in SUBSET Job /\ f \in [J -> Entry] /\ s.used \cup {j} \in SUBSET Job
    BY SchedIs DEF Entry
<1>3. Added(s, j) \in Scheds
  <2> HIDE DEF J, f
  <2> QED BY <1>1, <1>2, IsSched
<1> QED
    BY <1>1, <1>3

\* File.Remove: the others stand, and the id stays given.
LEMMA RemovedIs ==
    ASSUME NEW s \in Scheds, NEW j
    PROVE  /\ Removed(s, j) \in Scheds
           /\ DOMAIN Removed(s, j).jobs = DOMAIN s.jobs \ {j}
           /\ Removed(s, j).used = s.used
           /\ \A k \in DOMAIN s.jobs : k # j => Removed(s, j).jobs[k] = s.jobs[k]
<1> DEFINE J == DOMAIN s.jobs \ {j}
           f == [k \in J |-> s.jobs[k]]
<1>1. Removed(s, j) = [jobs |-> f, used |-> s.used]
  <2>1. Removed(s, j) = [s EXCEPT !.jobs = f]
      BY DEF Removed, Restrict, Jobs
  <2> HIDE DEF f
  <2> QED BY <2>1, WithJobs
<1>2. J \in SUBSET Job /\ f \in [J -> Entry] /\ s.used \in SUBSET Job
    BY SchedIs
<1>3. Removed(s, j) \in Scheds
  <2> HIDE DEF J, f
  <2> QED BY <1>1, <1>2, IsSched
<1> QED
    BY <1>1, <1>3

\* A file read keeps its jobs and what was told; of one running now, the base is
\* memory's.
LEMMA MergedIs ==
    ASSUME NEW s \in Scheds, mem \in Scheds
    PROVE  /\ Merged(s) \in Scheds
           /\ DOMAIN Merged(s).jobs = DOMAIN s.jobs
           /\ Merged(s).used = s.used
           /\ \A j \in DOMAIN s.jobs :
                 /\ Merged(s).jobs[j].told = s.jobs[j].told
                 /\ \/ Merged(s).jobs[j].base = s.jobs[j].base
                    \/ j \in DOMAIN mem.jobs /\ Merged(s).jobs[j].base = mem.jobs[j].base
<1> DEFINE J == DOMAIN s.jobs
           f == [j \in J |-> IF j \in inFlight \cap DOMAIN mem.jobs
                             THEN [s.jobs[j] EXCEPT !.base = mem.jobs[j].base]
                             ELSE s.jobs[j]]
<1>1. Merged(s) = [jobs |-> f, used |-> s.used]
  <2>1. Merged(s) = [s EXCEPT !.jobs = f]
      BY DEF Merged, Jobs
  <2> HIDE DEF f
  <2> QED BY <2>1, WithJobs
<1>2. ASSUME NEW j \in J
      PROVE  /\ f[j] \in Entry /\ f[j].told = s.jobs[j].told
             /\ f[j].base = s.jobs[j].base
                  \/ (j \in DOMAIN mem.jobs /\ f[j].base = mem.jobs[j].base)
  <2>1. /\ s.jobs[j].base \in 0 .. MaxTime /\ s.jobs[j].told \in Reasons \cup {"none"}
        /\ s.jobs[j] = [base |-> s.jobs[j].base, told |-> s.jobs[j].told]
    <3>1. s.jobs[j] \in Entry
        BY SchedIs
    <3> HIDE DEF J, f
    <3> QED BY <3>1, EntryIs
  <2>2. CASE j \in inFlight \cap DOMAIN mem.jobs
    <3>1. mem.jobs[j].base \in 0 .. MaxTime
        BY <2>2, SchedIs
    <3>2. f[j] = [base |-> mem.jobs[j].base, told |-> s.jobs[j].told]
        BY <2>1, <2>2
    <3> QED BY <2>1, <2>2, <3>1, <3>2 DEF Entry
  <2>3. CASE j \notin inFlight \cap DOMAIN mem.jobs
      BY <2>3, SchedIs
  <2> QED BY <2>2, <2>3
<1>3. J \in SUBSET Job /\ f \in [J -> Entry] /\ s.used \in SUBSET Job
    BY <1>2, SchedIs
<1>4. Merged(s) \in Scheds
  <2> HIDE DEF J, f
  <2> QED BY <1>1, <1>3, IsSched
<1>5. DOMAIN Merged(s).jobs = J /\ Merged(s).used = s.used /\ Merged(s).jobs = f
    BY <1>1
<1> QED
    BY <1>2, <1>4, <1>5

\* The jobs a tick claims, and the schedule with their runs claimed.
Ready   == {j \in Jobs(mem) \ inFlight : Fires(j)}
Claimed == [mem EXCEPT !.jobs = [j \in Jobs(mem) |->
               IF j \in Ready THEN [mem.jobs[j] EXCEPT !.base = Due(j)] ELSE mem.jobs[j]]]

\* Job.Check: a due time claimed is later than the last run, and has come.
LEMMA ReadyDue ==
    ASSUME TypeOK, NEW j \in Ready
    PROVE  /\ j \in Job /\ j \in DOMAIN mem.jobs /\ run[j].at = "no"
           /\ Due(j) \in 1 .. MaxTime /\ Due(j) <= clock /\ mem.jobs[j].base < Due(j)
<1>1. j \in DOMAIN mem.jobs /\ j \notin inFlight /\ Fires(j)
    BY DEF Ready, Jobs
<1>2. mem \in Scheds /\ clock \in 0 .. MaxTime /\ started \in 0 .. clock
    BY DEF TypeOK
<1>3. j \in Job /\ mem.jobs[j].base \in 0 .. MaxTime
    BY <1>1, <1>2, SchedIs
<1>4. run[j].at = "no"
    BY <1>1, <1>3 DEF TypeOK
<1>5. Every[j] \in Nat /\ MaxTime \in Nat
    BY <1>3, TimeAssumption
<1>6. CASE Every[j] = 0
    BY <1>1, <1>2, <1>3, <1>4, <1>5, <1>6 DEF Fires, Due
<1>7. CASE Every[j] # 0
  <2>1. Later(mem.jobs[j].base, started) >= mem.jobs[j].base
        /\ Later(mem.jobs[j].base, started) \in Nat
      BY <1>2, <1>3 DEF Later
  <2> QED BY <2>1, <1>1, <1>2, <1>3, <1>4, <1>5, <1>7 DEF Fires, Due
<1> QED BY <1>1, <1>3, <1>4, <1>6, <1>7

LEMMA ClaimedIs ==
    ASSUME TypeOK
    PROVE  /\ Claimed \in Scheds
           /\ DOMAIN Claimed.jobs = DOMAIN mem.jobs
           /\ Claimed.used = mem.used
           /\ \A j \in DOMAIN mem.jobs :
                 /\ Claimed.jobs[j].told = mem.jobs[j].told
                 /\ Claimed.jobs[j].base = IF j \in Ready THEN Due(j) ELSE mem.jobs[j].base
<1> DEFINE J == DOMAIN mem.jobs
           f == [j \in J |-> IF j \in Ready THEN [mem.jobs[j] EXCEPT !.base = Due(j)]
                                           ELSE mem.jobs[j]]
<1>1. mem \in Scheds
    BY DEF TypeOK
<1>2. Claimed = [jobs |-> f, used |-> mem.used]
  <2>1. Claimed = [mem EXCEPT !.jobs = f]
      BY DEF Claimed, Jobs
  <2> HIDE DEF f
  <2> QED BY <1>1, <2>1, WithJobs
<1>3. ASSUME NEW j \in J
      PROVE  /\ f[j] \in Entry /\ f[j].told = mem.jobs[j].told
             /\ f[j].base = IF j \in Ready THEN Due(j) ELSE mem.jobs[j].base
  <2>1. mem.jobs[j] \in Entry
      BY <1>1, SchedIs
  <2>2. /\ mem.jobs[j].base \in 0 .. MaxTime /\ mem.jobs[j].told \in Reasons \cup {"none"}
        /\ mem.jobs[j] = [base |-> mem.jobs[j].base, told |-> mem.jobs[j].told]
    <3> HIDE DEF J, f
    <3> QED BY <2>1, EntryIs
  <2>3. CASE j \in Ready
    <3>1. Due(j) \in 0 .. MaxTime
        BY <2>3, ReadyDue, TimeAssumption
    <3>2. f[j] = [base |-> Due(j), told |-> mem.jobs[j].told]
        BY <2>2, <2>3
    <3> QED BY <2>2, <2>3, <3>1, <3>2 DEF Entry
  <2>4. CASE j \notin Ready
      BY <2>1, <2>4
  <2> QED BY <2>3, <2>4
<1>4. J \in SUBSET Job /\ f \in [J -> Entry] /\ mem.used \in SUBSET Job
    BY <1>1, <1>3, SchedIs
<1>5. Claimed \in Scheds
  <2> HIDE DEF J, f
  <2> QED BY <1>2, <1>4, IsSched
<1>6. DOMAIN Claimed.jobs = J /\ Claimed.used = mem.used /\ Claimed.jobs = f
    BY <1>2
<1> QED
    BY <1>3, <1>5, <1>6

\* The schedule with the outcome of j's run recorded.
Recorded(j) == [mem EXCEPT !.jobs[j].told = ToldNow(j)]

LEMMA RecordedIs ==
    ASSUME TypeOK, NEW j \in DOMAIN mem.jobs
    PROVE  /\ Recorded(j) \in Scheds
           /\ DOMAIN Recorded(j).jobs = DOMAIN mem.jobs
           /\ Recorded(j).used = mem.used
           /\ Recorded(j).jobs[j].told = ToldNow(j)
           /\ Recorded(j).jobs[j].base = mem.jobs[j].base
           /\ \A k \in DOMAIN mem.jobs : k # j => Recorded(j).jobs[k] = mem.jobs[k]
<1> DEFINE J == DOMAIN mem.jobs
           f == [mem.jobs EXCEPT ![j].told = ToldNow(j)]
<1>1. mem \in Scheds /\ j \in Job
    BY SchedIs DEF TypeOK
<1>2. Recorded(j) = [jobs |-> f, used |-> mem.used]
  <2>1. Recorded(j) = [mem EXCEPT !.jobs = f]
      BY DEF Recorded
  <2> HIDE DEF f
  <2> QED BY <1>1, <2>1, WithJobs
<1>3. ToldNow(j) \in Reasons \cup {"none"}
    BY <1>1 DEF ToldNow, TypeOK
<1>4. /\ mem.jobs = [k \in J |-> mem.jobs[k]]
      /\ \A k \in J : mem.jobs[k] \in Entry
    BY <1>1, SchedIs
<1>5. /\ mem.jobs[j].base \in 0 .. MaxTime
      /\ mem.jobs[j] = [base |-> mem.jobs[j].base, told |-> mem.jobs[j].told]
  <2>1. mem.jobs[j] \in Entry
      BY <1>4
  <2> HIDE DEF J, f
  <2> QED BY <2>1, EntryIs
<1>6. f[j] = [base |-> mem.jobs[j].base, told |-> ToldNow(j)]
    BY <1>4, <1>5
<1>7. DOMAIN f = J /\ \A k \in J : k # j => f[k] = mem.jobs[k]
    BY <1>4
<1>8. f \in [J -> Entry]
  <2>1. f[j] \in Entry
      BY <1>3, <1>5, <1>6 DEF Entry
  <2>2. f = [k \in J |-> f[k]]
      BY <1>4
  <2>3. \A k \in J : f[k] \in Entry
      BY <1>4, <1>7, <2>1
  <2> HIDE DEF J, f
  <2> QED BY <2>2, <2>3
<1>9. Recorded(j) \in Scheds
  <2>1. J \in SUBSET Job /\ mem.used \in SUBSET Job
      BY <1>1, SchedIs
  <2> HIDE DEF J, f
  <2> QED BY <1>2, <1>8, <2>1, IsSched
<1> QED
    BY <1>2, <1>6, <1>7, <1>9

\* A save writes the schedule, or is a failure that is remembered.
LEMMA SaveIs ==
    ASSUME TypeOK, NEW s \in Scheds, Save(s)
    PROVE  /\ (unsaved' = unsaved /\ disk' = s /\ mt' = mt + 1 /\ seen' = mt + 1)
                \/ (unsaved' = TRUE /\ UNCHANGED <<disk, mt, seen>>)
           /\ disk' \in Scheds /\ broken' \in BOOLEAN
           /\ mt' \in Nat /\ mt' >= mt /\ seen' \in 0 .. mt'
<1>1. mt \in Nat /\ seen \in 0 .. mt /\ disk \in Scheds /\ broken \in BOOLEAN
    BY DEF TypeOK
<1>2. \/ disk' = s /\ broken' = FALSE /\ mt' = mt + 1 /\ seen' = mt + 1 /\ unsaved' = unsaved
      \/ unsaved' = TRUE /\ UNCHANGED <<disk, broken, mt, seen>>
    BY DEF Save, file
<1>3. CASE disk' = s /\ broken' = FALSE /\ mt' = mt + 1 /\ seen' = mt + 1 /\ unsaved' = unsaved
  <2>1. mt' \in Nat /\ mt' >= mt /\ seen' \in 0 .. mt'
      BY <1>1, <1>3
  <2>2. disk' \in Scheds
      BY <1>3
  <2>3. broken' \in BOOLEAN
      BY <1>3
  <2> QED BY <1>3, <2>1, <2>2, <2>3
<1>4. CASE unsaved' = TRUE /\ UNCHANGED <<disk, broken, mt, seen>>
    BY <1>1, <1>4
<1> QED BY <1>2, <1>3, <1>4

-----------------------------------------------------------------------------
(* The types: at the start, and after every step. *)

LEMMA TypesInit == Init => Types
<1> SUFFICES ASSUME Init PROVE Types
    OBVIOUS
<1>1. PICK J \in SUBSET Job :
         /\ disk = [jobs |-> [j \in J |-> [base |-> 0, told |-> "none"]], used |-> J]
         /\ mt = (IF J = {} THEN 0 ELSE 1) /\ kept = J
    BY DEF Init
<1>2. MaxTime \in Nat
    BY TimeAssumption
<1>3. disk \in Scheds /\ DOMAIN disk.jobs = J /\ disk.used = J
  <2> DEFINE f == [j \in J |-> [base |-> 0, told |-> "none"]]
  <2>1. f \in [J -> Entry] /\ DOMAIN f = J
      BY <1>2 DEF Entry
  <2>2. disk = [jobs |-> f, used |-> J]
      BY <1>1
  <2> HIDE DEF f
  <2> QED BY <2>1, <2>2, IsSched
<1>4. Empty \in Scheds /\ DOMAIN Empty.jobs = {}
    BY EmptySched
<1>5. TypeOK
  <2>1. mt \in Nat /\ 0 \in 0 .. mt
      BY <1>1
  <2>2. /\ clock \in 0 .. MaxTime /\ started \in 0 .. clock /\ broken \in BOOLEAN
        /\ loadErr \in BOOLEAN /\ mem \in Scheds /\ seen \in 0 .. mt
    <3>1. /\ clock = 0 /\ started = 0 /\ broken = FALSE /\ loadErr = FALSE /\ mem = Empty
          /\ seen = 0
        BY DEF Init
    <3>2. /\ clock \in 0 .. MaxTime /\ started \in 0 .. clock /\ seen \in 0 .. mt
        BY <1>2, <2>1, <3>1
    <3>3. broken \in BOOLEAN /\ loadErr \in BOOLEAN
        BY <3>1
    <3> QED BY <1>4, <3>1, <3>2, <3>3
  <2>3. run \in [Job -> [at : {"no", "deliver", "record"}, due : 0 .. MaxTime,
                         why : Reasons \cup {"ok"}]]
        /\ inFlight = {j \in Job : run[j].at # "no"}
      BY <1>2 DEF Init, NoRun
  <2>4. pc \in [Reader -> {"idle", "compare", "load", "install", "act", "done"}]
      BY DEF Init
  <2>5. stat \in [Reader -> 0 .. mt]
      BY <2>1 DEF Init
  <2>6. owed \subseteq Job \X Reasons /\ said \subseteq Job \X Reasons
        /\ outcome \in [Job -> Reasons \cup {"ok"}]
      BY DEF Init
  <2> QED BY <1>3, <2>1, <2>2, <2>3, <2>4, <2>5, <2>6 DEF TypeOK
<1>6. RestTypes
  <2>1. op \in [Cmd -> Ops \cup {<<>>}] /\ kept \subseteq Job /\ byHand \subseteq Job
        /\ stale \in BOOLEAN /\ unsaved \in BOOLEAN /\ cut \in BOOLEAN
      BY <1>1 DEF Init
  <2>2. /\ got \in [Reader -> [ok : BOOLEAN, sched : Scheds]]
        /\ \A r \in Reader : DOMAIN got[r].sched.jobs \subseteq got[r].sched.used
      BY <1>4 DEF Init, NoRead
  <2>3. runs \in [Job -> [1 .. MaxTime -> 0 .. 2]]
      BY DEF Init
  <2>4. \A r \in Reader : pc[r] = "idle"
      BY DEF Init
  <2>5. \A j \in Job : run[j].at = "no"
      BY DEF Init, NoRun
  <2>6. DOMAIN mem.jobs \subseteq mem.used /\ DOMAIN disk.jobs \subseteq disk.used
      BY <1>3, <1>4 DEF Init
  <2> QED BY <2>1, <2>2, <2>3, <2>4, <2>5, <2>6 DEF RestTypes, Reading, Reader, Jobs
<1> QED BY <1>5, <1>6 DEF Types

\* A reader's step that touches no schedule.
LEMMA StatTypes ==
    ASSUME Types, NEW r \in Reader, Stat(r)
    PROVE  Types'
<1> USE DEF Types
<1>1. /\ UNCHANGED <<clock, started, disk, broken, mt, mem, seen, loadErr, inFlight, run, owed,
                     got, runs, said, outcome, kept, byHand, stale, unsaved, cut>>
      /\ stat' = [stat EXCEPT ![r] = mt]
      /\ pc' = [pc EXCEPT ![r] = IF mt = 0 THEN "act" ELSE "compare"]
    BY DEF Stat, Goes, file, memory, fired, told, truth
<1>2. /\ r = "tick" => op' = op
      /\ r # "tick" => r \in Cmd /\ \E o \in Ops : op' = [op EXCEPT ![r] = o]
    BY DEF Stat, Ops, Reader
<1>3. mt \in 0 .. mt
    BY DEF TypeOK
<1>4. TypeOK'
    BY <1>1, <1>3 DEF TypeOK
<1>5. op' \in [Cmd -> Ops \cup {<<>>}]
    BY <1>2 DEF RestTypes
<1>6. \A c \in Cmd : pc'[c] \in Reading \cup {"act"} => op'[c] \in Ops
  <2> SUFFICES ASSUME NEW c \in Cmd, pc'[c] \in Reading \cup {"act"} PROVE op'[c] \in Ops
      OBVIOUS
  <2>1. c \in Reader /\ c # "tick"
      BY NameAssumption DEF Reader
  <2>2. CASE c = r
      BY <1>2, <2>1, <2>2 DEF RestTypes
  <2>3. CASE c # r
      BY <1>1, <1>2, <2>1, <2>3 DEF RestTypes, TypeOK
  <2> QED BY <2>2, <2>3
<1>7. \A q \in Reader : pc'[q] \in Reading => stat'[q] # 0
    BY <1>1 DEF RestTypes, TypeOK, Reading
<1> QED
    BY <1>1, <1>4, <1>5, <1>6, <1>7 DEF RestTypes

LEMMA CompareTypes ==
    ASSUME Types, NEW r \in Reader, Compare(r)
    PROVE  Types'
<1> USE DEF Types
<1>1. /\ UNCHANGED <<clock, started, disk, broken, mt, mem, seen, loadErr, inFlight, run, owed,
                     op, got, runs, said, outcome, kept, byHand, stale, unsaved, cut>>
      /\ pc[r] = "compare"
      /\ pc' = [pc EXCEPT ![r] = IF stat[r] = seen THEN "act" ELSE "load"]
      /\ stat' = IF stat[r] = seen THEN [stat EXCEPT ![r] = 0] ELSE stat
    BY DEF Compare, Goes, file, memory, fired, told, truth
<1>2. 0 \in 0 .. mt
    BY DEF TypeOK
<1>3. TypeOK'
    BY <1>1, <1>2 DEF TypeOK
<1>4. \A c \in Cmd : pc'[c] \in Reading \cup {"act"} => op'[c] \in Ops
    BY <1>1 DEF RestTypes, TypeOK, Reading, Reader
<1>5. \A q \in Reader : pc'[q] \in Reading => stat'[q] # 0
    BY <1>1 DEF RestTypes, TypeOK, Reading
<1> QED
    BY <1>1, <1>3, <1>4, <1>5 DEF RestTypes

LEMMA LoadTypes ==
    ASSUME Types, NEW r \in Reader, Load(r)
    PROVE  Types'
<1> USE DEF Types
<1>1. /\ UNCHANGED <<clock, started, disk, broken, mt, mem, seen, loadErr, inFlight, run, owed,
                     op, stat, runs, said, outcome, kept, byHand, stale, unsaved, cut>>
      /\ pc[r] = "load" /\ pc' = [pc EXCEPT ![r] = "install"]
      /\ got' = [got EXCEPT ![r] = [ok |-> ~broken, sched |-> disk]]
    BY DEF Load, Goes, file, memory, fired, told, truth
<1>2. TypeOK'
    BY <1>1 DEF TypeOK
<1>3. \A c \in Cmd : pc'[c] \in Reading \cup {"act"} => op'[c] \in Ops
    BY <1>1 DEF RestTypes, TypeOK, Reading, Reader
<1>4. \A q \in Reader : pc'[q] \in Reading => stat'[q] # 0
    BY <1>1 DEF RestTypes, TypeOK, Reading
<1>5. got' \in [Reader -> [ok : BOOLEAN, sched : Scheds]]
    BY <1>1 DEF RestTypes, TypeOK
<1>6. \A q \in Reader : Jobs(got'[q].sched) \subseteq got'[q].sched.used
    BY <1>1 DEF RestTypes, Jobs
<1> QED
    BY <1>1, <1>2, <1>3, <1>4, <1>5, <1>6 DEF RestTypes, Jobs

LEMMA InstallTypes ==
    ASSUME Types, NEW r \in Reader, Install(r)
    PROVE  Types'
<1> USE DEF Types
<1>1. /\ UNCHANGED <<clock, started, disk, broken, mt, inFlight, run, owed, op, runs, said,
                     outcome, kept, byHand, unsaved, cut>>
      /\ pc[r] = "install" /\ pc' = [pc EXCEPT ![r] = "act"]
      /\ got' = [got EXCEPT ![r] = NoRead] /\ stat' = [stat EXCEPT ![r] = 0]
      /\ seen' = stat[r] /\ loadErr' = ~got[r].ok
    BY DEF Install, Goes, file, fired, told, truth
<1>2. got[r].sched \in Scheds /\ mem \in Scheds
      /\ DOMAIN got[r].sched.jobs \subseteq got[r].sched.used
    BY DEF RestTypes, TypeOK, Jobs
<1>3. mem' \in Scheds /\ DOMAIN mem'.jobs \subseteq mem'.used /\ stale' \in BOOLEAN
  <2>1. CASE got[r].ok
    <3>1. mem' = Merged(got[r].sched) /\ stale' \in BOOLEAN
        BY <2>1 DEF Install, RestTypes
    <3> QED BY <3>1, <1>2, MergedIs
  <2>2. CASE ~got[r].ok
      BY <2>2 DEF Install, RestTypes, TypeOK, Jobs
  <2> QED BY <2>1, <2>2
<1>4. TypeOK'
  <2>1. 0 \in 0 .. mt /\ stat[r] \in 0 .. mt
      BY DEF TypeOK
  <2>2. loadErr' \in BOOLEAN
      BY <1>1
  <2> QED BY <1>1, <1>3, <2>1, <2>2 DEF TypeOK
<1>5. \A c \in Cmd : pc'[c] \in Reading \cup {"act"} => op'[c] \in Ops
    BY <1>1 DEF RestTypes, TypeOK, Reading, Reader
<1>6. \A q \in Reader : pc'[q] \in Reading => stat'[q] # 0
    BY <1>1 DEF RestTypes, TypeOK, Reading
<1>7. /\ got' \in [Reader -> [ok : BOOLEAN, sched : Scheds]]
      /\ \A q \in Reader : DOMAIN got'[q].sched.jobs \subseteq got'[q].sched.used
    BY <1>1, EmptySched DEF RestTypes, NoRead, Jobs
<1> QED
    BY <1>1, <1>3, <1>4, <1>5, <1>6, <1>7 DEF RestTypes, Jobs

\* The step of a tick or of a command that writes: types of what a save leaves.
LEMMA SaveTypes ==
    ASSUME Types, NEW s \in Scheds, DOMAIN s.jobs \subseteq s.used, Save(s)
    PROVE  /\ disk' \in Scheds /\ DOMAIN disk'.jobs \subseteq disk'.used
           /\ broken' \in BOOLEAN /\ unsaved' \in BOOLEAN
           /\ mt' \in Nat /\ seen' \in 0 .. mt'
           /\ \A n \in 0 .. mt : n \in 0 .. mt'
<1>1. TypeOK /\ mt \in Nat /\ unsaved \in BOOLEAN /\ DOMAIN disk.jobs \subseteq disk.used
    BY DEF Types, TypeOK, RestTypes, Jobs
<1>2. /\ (unsaved' = unsaved /\ disk' = s /\ mt' = mt + 1 /\ seen' = mt + 1)
           \/ (unsaved' = TRUE /\ UNCHANGED <<disk, mt, seen>>)
      /\ disk' \in Scheds /\ broken' \in BOOLEAN
      /\ mt' \in Nat /\ mt' >= mt /\ seen' \in 0 .. mt'
    BY ONLY <1>1, SaveIs, Save(s), s \in Scheds
<1>3. DOMAIN disk'.jobs \subseteq disk'.used /\ unsaved' \in BOOLEAN
    BY <1>1, <1>2
<1>4. \A n \in 0 .. mt : n \in 0 .. mt'
    BY <1>1, <1>2
<1> QED BY <1>2, <1>3, <1>4

LEMMA ClaimTypes ==
    ASSUME Types, Claim
    PROVE  Types'
<1> USE DEF Types
<1>1. /\ UNCHANGED <<clock, started, loadErr, owed, op, stat, got, runs, said, outcome, kept,
                     byHand, stale, cut>>
      /\ pc["tick"] = "act" /\ pc' = [pc EXCEPT !["tick"] = "idle"]
      /\ mem' = Claimed
      /\ inFlight' = inFlight \cup Ready
      /\ run' = [j \in Job |-> IF j \in Ready THEN [at |-> "deliver", due |-> Due(j), why |-> "ok"]
                                             ELSE run[j]]
      /\ IF Ready = {} THEN UNCHANGED <<disk, broken, mt, seen, unsaved>> ELSE Save(Claimed)
    BY DEF Claim, Claimed, Ready, Goes, told, truth, written
<1>2. Claimed \in Scheds /\ DOMAIN Claimed.jobs \subseteq Claimed.used
    BY ClaimedIs DEF RestTypes, Jobs
<1>3. /\ disk' \in Scheds /\ DOMAIN disk'.jobs \subseteq disk'.used
      /\ broken' \in BOOLEAN /\ unsaved' \in BOOLEAN
      /\ mt' \in Nat /\ seen' \in 0 .. mt'
      /\ \A n \in 0 .. mt : n \in 0 .. mt'
  <2>1. CASE Ready = {}
      BY <1>1, <2>1 DEF TypeOK, RestTypes, Jobs
  <2>2. CASE Ready # {}
    <3>1. Save(Claimed)
        BY <1>1, <2>2
    <3> HIDE DEF Types
    <3> QED BY <3>1, <1>2, SaveTypes
  <2> QED BY <2>1, <2>2
<1>4. ASSUME NEW j \in Ready
      PROVE  j \in Job /\ Due(j) \in 0 .. MaxTime /\ Due(j) # 0
    BY ReadyDue, TimeAssumption
<1>5. /\ run' \in [Job -> [at : {"no", "deliver", "record"}, due : 0 .. MaxTime,
                           why : Reasons \cup {"ok"}]]
      /\ \A j \in Job : run'[j].at # "no" => run'[j].due # 0
  <2> SUFFICES ASSUME NEW j \in Job
               PROVE  /\ run'[j] \in [at : {"no", "deliver", "record"}, due : 0 .. MaxTime,
                                      why : Reasons \cup {"ok"}]
                      /\ run'[j].at # "no" => run'[j].due # 0
      BY <1>1
  <2>1. CASE j \in Ready
    <3>1. run'[j] = [at |-> "deliver", due |-> Due(j), why |-> "ok"]
        BY <1>1, <2>1
    <3> QED BY <3>1, <2>1, <1>4
  <2>2. CASE j \notin Ready
      BY <1>1, <2>2 DEF TypeOK, RestTypes
  <2> QED BY <2>1, <2>2
<1>6. inFlight' = {j \in Job : run'[j].at # "no"}
  <2>1. inFlight = {j \in Job : run[j].at # "no"}
      BY DEF TypeOK
  <2>2. \A j \in Job : run'[j].at = IF j \in Ready THEN "deliver" ELSE run[j].at
      BY <1>1
  <2> QED BY <1>1, <1>4, <2>1, <2>2
<1>7. TypeOK'
  <2>1. stat' \in [Reader -> 0 .. mt']
    <3>1. stat \in [Reader -> 0 .. mt]
        BY DEF TypeOK
    <3> QED BY <3>1, <1>1, <1>3
  <2>2. pc' \in [Reader -> {"idle", "compare", "load", "install", "act", "done"}]
      BY <1>1 DEF TypeOK
  <2> QED BY <1>1, <1>2, <1>3, <1>5, <1>6, <2>1, <2>2 DEF TypeOK
<1>8. /\ \A c \in Cmd : pc'[c] \in Reading \cup {"act"} => op'[c] \in Ops
      /\ \A q \in Reader : pc'[q] \in Reading => stat'[q] # 0
    BY <1>1, NameAssumption DEF RestTypes, TypeOK, Reading, Reader
<1> QED
    BY <1>1, <1>2, <1>3, <1>5, <1>7, <1>8 DEF RestTypes, Jobs

LEMMA DeliverTypes ==
    ASSUME Types, NEW j \in Job, Deliver(j)
    PROVE  Types'
<1> USE DEF Types
<1>1. PICK w \in Reasons \cup {"ok"} : run' = [run EXCEPT ![j].at = "record", ![j].why = w]
    BY DEF Deliver
<1>2. /\ UNCHANGED <<clock, started, disk, broken, mt, mem, seen, loadErr, inFlight, owed,
                     pc, op, stat, got, said, outcome, kept, byHand, stale, unsaved, cut>>
      /\ run[j].at = "deliver"
      /\ runs' = [runs EXCEPT ![j][run[j].due] = IF @ < 2 THEN @ + 1 ELSE @]
    BY DEF Deliver, file, memory, readers, told, truth
<1>3. run' \in [Job -> [at : {"no", "deliver", "record"}, due : 0 .. MaxTime,
                        why : Reasons \cup {"ok"}]]
  <2>1. run[j].due \in 0 .. MaxTime /\ DOMAIN run = Job
        /\ run[j] = [at |-> run[j].at, due |-> run[j].due, why |-> run[j].why]
      BY DEF TypeOK
  <2>2. DOMAIN run' = Job /\ run' = [k \in Job |-> run'[k]]
      BY <1>1, <2>1
  <2>3. \A k \in Job : k # j => run'[k] = run[k]
      BY <1>1, <2>1
  <2>4. run'[j] = [[run[j] EXCEPT !.at = "record"] EXCEPT !.why = w]
      BY <1>1, <2>1
  <2>5. run'[j] = [at |-> "record", due |-> run[j].due, why |-> w]
      BY <2>1, <2>4
  <2>6. \A k \in Job : run'[k] \in [at : {"no", "deliver", "record"}, due : 0 .. MaxTime,
                                   why : Reasons \cup {"ok"}]
      BY <2>1, <2>3, <2>5 DEF TypeOK
  <2> HIDE DEF Types
  <2> QED BY ONLY <2>2, <2>6
<1>4. /\ \A k \in Job : run'[k].at # "no" <=> run[k].at # "no"
      /\ \A k \in Job : run'[k].due = run[k].due
    BY <1>1, <1>2 DEF TypeOK
<1>5. TypeOK'
    BY <1>2, <1>3, <1>4 DEF TypeOK
<1>6. runs' \in [Job -> [1 .. MaxTime -> 0 .. 2]]
  <2>1. runs[j] \in [1 .. MaxTime -> 0 .. 2] /\ run[j].due \in 1 .. MaxTime
      BY <1>2, TimeAssumption DEF RestTypes, TypeOK
  <2>2. ASSUME NEW f \in [1 .. MaxTime -> 0 .. 2], NEW d \in 1 .. MaxTime
        PROVE  [f EXCEPT ![d] = IF @ < 2 THEN @ + 1 ELSE @] \in [1 .. MaxTime -> 0 .. 2]
    <3>1. (IF f[d] < 2 THEN f[d] + 1 ELSE f[d]) \in 0 .. 2
        BY <2>2
    <3> QED BY <3>1
  <2> QED BY <1>2, <2>1, <2>2 DEF RestTypes
<1> QED
    BY <1>2, <1>4, <1>5, <1>6 DEF RestTypes, Jobs

LEMMA RecordTypes ==
    ASSUME Types, NEW j \in Job, Record(j)
    PROVE  Types'
<1> USE DEF Types
<1>1. /\ UNCHANGED <<clock, started, loadErr, pc, op, stat, got, runs, kept, byHand, stale, cut>>
      /\ run[j].at = "record" /\ run' = [run EXCEPT ![j] = NoRun]
      /\ inFlight' = inFlight \ {j}
      /\ outcome' = [outcome EXCEPT ![j] = run[j].why]
      /\ said' \subseteq said /\ owed' \subseteq owed \cup {<<j, run[j].why>>}
      /\ run[j].why = "ok" => owed' = owed
      /\ IF j \in DOMAIN mem.jobs THEN mem' = Recorded(j) /\ Save(Recorded(j))
                                  ELSE UNCHANGED <<mem, disk, broken, mt, seen, unsaved>>
    BY DEF Record, Recorded, readers, truth, written, Jobs
<1>2. run[j].why \in Reasons \cup {"ok"}
    BY DEF TypeOK
<1>3. /\ mem' \in Scheds /\ DOMAIN mem'.jobs \subseteq mem'.used
      /\ disk' \in Scheds /\ DOMAIN disk'.jobs \subseteq disk'.used
      /\ broken' \in BOOLEAN /\ unsaved' \in BOOLEAN
      /\ mt' \in Nat /\ seen' \in 0 .. mt'
      /\ \A n \in 0 .. mt : n \in 0 .. mt'
  <2>1. CASE j \in DOMAIN mem.jobs
    <3>1. mem' = Recorded(j) /\ Save(Recorded(j))
        BY <1>1, <2>1
    <3>2. Recorded(j) \in Scheds /\ DOMAIN Recorded(j).jobs \subseteq Recorded(j).used
        BY <2>1, RecordedIs DEF RestTypes, Jobs
    <3> HIDE DEF Types
    <3> QED BY <3>1, <3>2, SaveTypes
  <2>2. CASE j \notin DOMAIN mem.jobs
      BY <1>1, <2>2 DEF TypeOK, RestTypes, Jobs
  <2> QED BY <2>1, <2>2
<1>4. /\ run' \in [Job -> [at : {"no", "deliver", "record"}, due : 0 .. MaxTime,
                           why : Reasons \cup {"ok"}]]
      /\ \A k \in Job : run'[k].at # "no" => k # j /\ run'[k] = run[k]
      /\ \A k \in Job : k # j => run'[k] = run[k]
    BY <1>1, TimeAssumption DEF NoRun, TypeOK
<1>5. inFlight' = {k \in Job : run'[k].at # "no"}
    BY <1>1, <1>4 DEF TypeOK
<1>6. TypeOK'
  <2>1. stat' \in [Reader -> 0 .. mt']
    <3>1. stat \in [Reader -> 0 .. mt]
        BY DEF TypeOK
    <3> QED BY <3>1, <1>1, <1>3
  <2>2. said' \subseteq Job \X Reasons /\ owed' \subseteq Job \X Reasons
    <3>1. said \subseteq Job \X Reasons /\ owed \subseteq Job \X Reasons
        BY DEF TypeOK
    <3>2. CASE run[j].why = "ok"
        BY <3>1, <3>2, <1>1
    <3>3. CASE run[j].why \in Reasons
        BY <3>1, <3>3, <1>1
    <3> QED BY <3>2, <3>3, <1>2
  <2>3. outcome' \in [Job -> Reasons \cup {"ok"}]
      BY <1>1, <1>2 DEF TypeOK
  <2> QED BY <1>1, <1>3, <1>4, <1>5, <2>1, <2>2, <2>3 DEF TypeOK
<1> QED
    BY <1>1, <1>3, <1>4, <1>6 DEF RestTypes, Jobs

LEMMA TellTypes ==
    ASSUME Types, NEW j \in Job, NEW w \in Reasons, Tell(j, w)
    PROVE  Types'
<1>1. /\ UNCHANGED <<clock, started, disk, broken, mt, mem, seen, loadErr, inFlight, run, pc, op,
                     stat, got, runs, outcome, kept, byHand, stale, unsaved, cut>>
      /\ owed' = owed \ {<<j, w>>} /\ said' = said \cup {<<j, w>>}
    BY DEF Tell, file, memory, readers, truth
<1> QED BY <1>1 DEF Types, TypeOK, RestTypes, Jobs

LEMMA AnswersTypes ==
    ASSUME Types, NEW c \in Cmd, Answers(c)
    PROVE  Types'
<1> USE DEF Types
<1>1. /\ UNCHANGED <<clock, started, disk, broken, mt, mem, seen, loadErr, inFlight, run, owed,
                     stat, got, runs, said, outcome, kept, byHand, stale, unsaved, cut>>
      /\ pc' = [pc EXCEPT ![c] = "done"] /\ op' = [op EXCEPT ![c] = <<>>]
    BY DEF Answers, Ends, file, memory, fired, told, truth
<1>2. TypeOK'
    BY <1>1 DEF TypeOK
<1>3. /\ op' \in [Cmd -> Ops \cup {<<>>}]
      /\ \A b \in Cmd : pc'[b] \in Reading \cup {"act"} => op'[b] \in Ops
      /\ \A q \in Reader : pc'[q] \in Reading => stat'[q] # 0
    BY <1>1 DEF RestTypes, TypeOK, Reading, Reader
<1> QED
    BY <1>1, <1>2, <1>3 DEF RestTypes, Jobs

\* What a change makes of the schedule in memory.
Changed(c) == IF op[c][1] = "add" THEN Added(mem, op[c][2]) ELSE Removed(mem, op[c][2])

LEMMA ChangedIs ==
    ASSUME Types, NEW c \in Cmd, pc[c] = "act"
    PROVE  /\ op[c][2] \in Job
           /\ Changed(c) \in Scheds
           /\ DOMAIN Changed(c).jobs \subseteq Changed(c).used
           /\ mem.used \subseteq Changed(c).used
           /\ \A k \in DOMAIN Changed(c).jobs :
                 \/ k \in DOMAIN mem.jobs /\ Changed(c).jobs[k] = mem.jobs[k]
                 \/ /\ k = op[c][2] /\ Changed(c).jobs[k].base = clock
                    /\ Changed(c).jobs[k].told = "none" /\ op[c][1] = "add"
           /\ op[c][1] = "add" =>
                 DOMAIN Changed(c).jobs = DOMAIN mem.jobs \cup {op[c][2]}
           /\ op[c][1] # "add" => DOMAIN Changed(c).jobs = DOMAIN mem.jobs \ {op[c][2]}
<1>1. op[c] \in Ops
    BY DEF Types, RestTypes
<1>2. op[c][2] \in Job
    BY <1>1 DEF Ops
<1>3. mem \in Scheds /\ clock \in 0 .. MaxTime /\ DOMAIN mem.jobs \subseteq mem.used
    BY DEF Types, TypeOK, RestTypes, Jobs
<1>4. CASE op[c][1] = "add"
  <2>1. Changed(c) = Added(mem, op[c][2])
      BY <1>4 DEF Changed
  <2> QED BY <1>2, <1>3, <1>4, <2>1, AddedIs
<1>5. CASE op[c][1] # "add"
  <2>1. Changed(c) = Removed(mem, op[c][2])
      BY <1>5 DEF Changed
  <2> QED BY <1>2, <1>3, <1>5, <2>1, RemovedIs
<1> QED BY <1>4, <1>5

LEMMA ChangeTypes ==
    ASSUME Types, NEW c \in Cmd, Change(c)
    PROVE  Types'
<1>1. /\ UNCHANGED <<clock, started, loadErr, inFlight, run, owed, stat, got, runs, said,
                     outcome, byHand, stale, cut>>
      /\ pc[c] = "act" /\ mem' = Changed(c) /\ Save(Changed(c))
      /\ kept' = IF op[c][1] = "add" THEN kept \cup {op[c][2]} ELSE kept \ {op[c][2]}
      /\ pc' = [pc EXCEPT ![c] = "done"] /\ op' = [op EXCEPT ![c] = <<>>]
    BY DEF Change, Changed, Ends, fired, told
<1>2. /\ op[c][2] \in Job /\ Changed(c) \in Scheds
      /\ DOMAIN Changed(c).jobs \subseteq Changed(c).used
    BY <1>1, ChangedIs
<1>3. /\ disk' \in Scheds /\ DOMAIN disk'.jobs \subseteq disk'.used
      /\ broken' \in BOOLEAN /\ unsaved' \in BOOLEAN
      /\ mt' \in Nat /\ seen' \in 0 .. mt'
      /\ \A n \in 0 .. mt : n \in 0 .. mt'
    BY <1>1, <1>2, SaveTypes
<1>4. TypeOK'
  <2>1. stat' \in [Reader -> 0 .. mt']
    <3>1. stat \in [Reader -> 0 .. mt]
        BY DEF Types, TypeOK
    <3> QED BY <3>1, <1>1, <1>3
  <2>2. pc' \in [Reader -> {"idle", "compare", "load", "install", "act", "done"}]
      BY <1>1 DEF Types, TypeOK
  <2> QED BY <1>1, <1>2, <1>3, <2>1, <2>2 DEF Types, TypeOK
<1>5. /\ op' \in [Cmd -> Ops \cup {<<>>}] /\ kept' \subseteq Job
      /\ \A b \in Cmd : pc'[b] \in Reading \cup {"act"} => op'[b] \in Ops
      /\ \A q \in Reader : pc'[q] \in Reading => stat'[q] # 0
    BY <1>1, <1>2 DEF Types, RestTypes, TypeOK, Reading, Reader
<1> QED
    BY <1>1, <1>2, <1>3, <1>4, <1>5 DEF Types, RestTypes, Jobs

LEMMA PassesTypes ==
    ASSUME Types, Passes
    PROVE  Types'
<1>1. /\ UNCHANGED <<started, disk, broken, mt, mem, seen, loadErr, inFlight, run, owed, pc, op,
                     stat, got, runs, said, outcome, kept, byHand, stale, unsaved, cut>>
      /\ clock < MaxTime /\ clock' = clock + 1
    BY DEF Passes, file, memory, fired, readers, told, truth
<1>2. clock' \in 0 .. MaxTime /\ started \in 0 .. clock'
    BY <1>1, TimeAssumption DEF Types, TypeOK
<1> QED BY <1>1, <1>2 DEF Types, TypeOK, RestTypes, Jobs

\* An edit by hand takes one job out, or puts one in.
EditedTo(j) == IF j \in Jobs(disk) THEN Removed(disk, j) ELSE Added(disk, j)

LEMMA EditedIs ==
    ASSUME Types, NEW j \in Job
    PROVE  /\ EditedTo(j) \in Scheds
           /\ DOMAIN EditedTo(j).jobs \subseteq EditedTo(j).used
           /\ disk.used \subseteq EditedTo(j).used
           /\ \A k \in Job : k # j => (k \in DOMAIN EditedTo(j).jobs <=> k \in DOMAIN disk.jobs)
           /\ \A k \in DOMAIN EditedTo(j).jobs :
                 \/ k \in DOMAIN disk.jobs /\ EditedTo(j).jobs[k] = disk.jobs[k]
                 \/ k = j /\ EditedTo(j).jobs[k].base = clock
<1>1. disk \in Scheds /\ clock \in 0 .. MaxTime /\ DOMAIN disk.jobs \subseteq disk.used
    BY DEF Types, TypeOK, RestTypes, Jobs
<1>2. CASE j \in DOMAIN disk.jobs
  <2>1. EditedTo(j) = Removed(disk, j)
      BY <1>2 DEF EditedTo, Jobs
  <2> QED BY <1>1, <2>1, RemovedIs
<1>3. CASE j \notin DOMAIN disk.jobs
  <2>1. EditedTo(j) = Added(disk, j)
      BY <1>3 DEF EditedTo, Jobs
  <2> QED BY <1>1, <2>1, AddedIs
<1> QED BY <1>2, <1>3

\* What an edit does, to the file alone.
LEMMA EditIs ==
    ASSUME Edit
    PROVE  /\ UNCHANGED <<clock, started, mem, seen, loadErr, inFlight, run, owed, pc, op, stat,
                          got, runs, said, outcome, kept, stale, unsaved, cut>>
           /\ mt' = mt + 1 /\ broken' \in BOOLEAN
           /\ \/ UNCHANGED <<disk, byHand>>
              \/ \E j \in Job : disk' = EditedTo(j) /\ byHand' = byHand \cup {j}
<1>1. UNCHANGED <<clock, started, mem, seen, loadErr, inFlight, run, owed, pc, op, stat,
                  got, runs, said, outcome, kept, stale, unsaved, cut>> /\ mt' = mt + 1
    BY DEF Edit, memory, fired, readers, told
<1>2. broken' \in BOOLEAN
  <2>1. broken' = TRUE \/ broken' = FALSE
      BY DEF Edit
  <2> QED BY <2>1
<1>3. \/ UNCHANGED <<disk, byHand>>
      \/ \E j \in Job : disk' = EditedTo(j) /\ byHand' = byHand \cup {j}
    BY DEF Edit, EditedTo
<1> QED BY <1>1, <1>2, <1>3

LEMMA EditTypes ==
    ASSUME Types, Edit
    PROVE  Types'
<1>1. /\ mt \in Nat /\ mt' = mt + 1
      /\ \A n \in 0 .. mt : n \in 0 .. mt'
    BY EditIs DEF Types, TypeOK
<1>2. disk' \in Scheds /\ DOMAIN disk'.jobs \subseteq disk'.used /\ byHand' \subseteq Job
  <2>1. CASE UNCHANGED <<disk, byHand>>
      BY <2>1 DEF Types, TypeOK, RestTypes, Jobs
  <2>2. ASSUME NEW j \in Job, disk' = EditedTo(j), byHand' = byHand \cup {j}
        PROVE  disk' \in Scheds /\ DOMAIN disk'.jobs \subseteq disk'.used /\ byHand' \subseteq Job
      BY <2>2, EditedIs DEF Types, RestTypes
  <2> QED BY <2>1, <2>2, EditIs
<1>3. stat' \in [Reader -> 0 .. mt']
  <2>1. stat \in [Reader -> 0 .. mt]
      BY DEF Types, TypeOK
  <2> QED BY <2>1, <1>1, EditIs
<1>4. TypeOK'
    BY <1>1, <1>2, <1>3, EditIs DEF Types, TypeOK
<1> QED
    BY <1>2, <1>4, EditIs DEF Types, RestTypes, Jobs

LEMMA CrashTypes ==
    ASSUME Types, Crash
    PROVE  Types'
<1>1. /\ UNCHANGED <<clock, disk, broken, mt, runs, said, outcome, kept, byHand, stale, unsaved>>
      /\ mem' = Empty /\ seen' = 0 /\ loadErr' = FALSE
      /\ inFlight' = {} /\ run' = [j \in Job |-> NoRun] /\ owed' = {}
      /\ pc' = [r \in Reader |-> IF r = "tick" \/ pc[r] = "idle" THEN "idle" ELSE "done"]
      /\ op' = [c \in Cmd |-> <<>>]
      /\ stat' = [r \in Reader |-> 0] /\ got' = [r \in Reader |-> NoRead]
      /\ started' = clock /\ cut' = (cut \/ owed # {})
    BY DEF Crash, file, told, truth
<1>2. /\ 0 \in 0 .. mt /\ started' \in 0 .. clock' /\ 0 \in 0 .. MaxTime
    BY <1>1, TimeAssumption DEF Types, TypeOK
<1>3. /\ run' \in [Job -> [at : {"no", "deliver", "record"}, due : 0 .. MaxTime,
                           why : Reasons \cup {"ok"}]]
      /\ \A j \in Job : run'[j].at = "no"
    BY <1>1, <1>2 DEF NoRun
<1>4. loadErr' \in BOOLEAN
    BY <1>1
<1>5. TypeOK'
    BY <1>1, <1>2, <1>3, <1>4, EmptySched DEF Types, TypeOK
<1>6. /\ got' \in [Reader -> [ok : BOOLEAN, sched : Scheds]]
      /\ \A r \in Reader : DOMAIN got'[r].sched.jobs \subseteq got'[r].sched.used
      /\ DOMAIN mem'.jobs \subseteq mem'.used
    BY <1>1, EmptySched DEF NoRead
<1>7. /\ \A r \in Reader : pc'[r] \notin Reading \cup {"act"}
      /\ op' \in [Cmd -> Ops \cup {<<>>}] /\ cut' \in BOOLEAN
    BY <1>1 DEF Reading
<1> QED
    BY <1>1, <1>3, <1>5, <1>6, <1>7 DEF Types, RestTypes, Jobs, Reader

\* Every step keeps the types.
LEMMA TypesNext == Types /\ [Next]_vars => Types'
<1> SUFFICES ASSUME Types, [Next]_vars PROVE Types'
    OBVIOUS
<1>1. ASSUME NEW r \in Reader, Reload(r) PROVE Types'
    BY <1>1, StatTypes, CompareTypes, LoadTypes, InstallTypes DEF Reload
<1>2. ASSUME NEW c \in Cmd, Reload(c) \/ Answers(c) \/ Change(c) PROVE Types'
    BY <1>1, <1>2, AnswersTypes, ChangeTypes DEF Reader
<1>3. CASE Tick
    BY <1>1, <1>3, ClaimTypes DEF Tick, Reader
<1>4. ASSUME NEW j \in Job, Fire(j) PROVE Types'
    BY <1>4, DeliverTypes, RecordTypes DEF Fire
<1>5. ASSUME NEW j \in Job, NEW w \in Reasons, Tell(j, w) PROVE Types'
    BY <1>5, TellTypes
<1>6. CASE UNCHANGED vars
    BY <1>6 DEF vars, Types, TypeOK, RestTypes, Jobs
<1> QED
    BY <1>2, <1>3, <1>4, <1>5, <1>6, PassesTypes, EditTypes, CrashTypes DEF Next

-----------------------------------------------------------------------------
(* The promises: at the start, and after every step. *)

LEMMA PromisesInit == Init => Promises
<1> SUFFICES ASSUME Init PROVE Promises
    OBVIOUS
<1>1. PICK J \in SUBSET Job :
         /\ disk = [jobs |-> [j \in J |-> [base |-> 0, told |-> "none"]], used |-> J]
         /\ mt = (IF J = {} THEN 0 ELSE 1) /\ kept = J
    BY DEF Init
<1>2. /\ mem = Empty /\ seen = 0 /\ \A j \in Job : run[j].at = "no"
      /\ owed = {} /\ said = {} /\ byHand = {} /\ \A j \in Job : outcome[j] = "ok"
      /\ \A j \in Job, d \in 1 .. MaxTime : runs[j][d] = 0
    BY DEF Init, NoRun
<1>3. \A c \in Cmd : pc[c] # "act"
    BY DEF Init, Reader
<1>4. DOMAIN disk.jobs = J /\ \A j \in J : disk.jobs[j].told = "none"
    BY <1>1
<1>5. RanInv
    BY <1>2 DEF RanInv, Claims
<1>6. KeptInv
  <2>1. J = {} => disk = Empty
      BY <1>1 DEF Empty
  <2>2. mt = 0 <=> J = {}
      BY <1>1
  <2>3. Holds(disk) /\ Given(disk) /\ Given(mem)
      BY <1>1, <1>2, <1>4 DEF Holds, Given, Jobs
  <2>4. CASE J = {}
    <3>1. Holds(mem)
        BY <2>4, <1>1, <1>2, EmptySched DEF Holds, Jobs
    <3> QED BY <2>1, <2>2, <2>3, <2>4, <3>1, <1>1, <1>2 DEF KeptInv
  <2>5. CASE J # {}
    <3>1. Unloaded
        BY <2>2, <2>5, <1>2, <1>3 DEF Unloaded
    <3> QED BY <2>2, <2>3, <2>5, <3>1 DEF KeptInv
  <2> QED BY <2>4, <2>5
<1>7. SaidInv /\ HearsInv
    BY <1>2, <1>4, EmptySched DEF SaidInv, HearsInv, ToldLast, Heard, Jobs
<1> QED
    BY <1>5, <1>6, <1>7 DEF Promises

\* A step that touches none of what the promises are about.
LEMMA PromisesFrame ==
    ASSUME Promises, Unloaded => Unloaded',
           UNCHANGED <<clock, disk, mem, run, owed, runs, said, outcome, kept, byHand, mt,
                       stale, unsaved, cut>>
    PROVE  Promises'
<1> SUFFICES ASSUME Sound' PROVE (RanInv /\ KeptInv /\ SaidInv /\ HearsInv)'
    BY DEF Promises
<1>1. RanInv /\ KeptInv /\ SaidInv /\ HearsInv
    BY DEF Promises, Sound
<1>2. RanInv'
    BY <1>1 DEF RanInv, Claims, Below, Jobs
<1>3. KeptInv'
    BY <1>1 DEF KeptInv, Holds, Given, Jobs, Empty
<1>4. SaidInv' /\ HearsInv'
    BY <1>1 DEF SaidInv, HearsInv, ToldLast, Heard, Jobs
<1> QED BY <1>2, <1>3, <1>4

\* A reader that has read nothing yet does not act: it goes to the file first.
LEMMA StatPromises ==
    ASSUME ScheduleInv, NEW r \in Reader, Stat(r)
    PROVE  Promises'
<1>1. Unloaded => Unloaded'
    BY DEF Stat, Goes, file, memory, fired, told, truth, Unloaded, ScheduleInv, Types, TypeOK,
       Reader, Empty
<1> QED
    BY <1>1, PromisesFrame DEF ScheduleInv, Stat, file, memory, fired, told, truth

LEMMA ComparePromises ==
    ASSUME ScheduleInv, NEW r \in Reader, Compare(r)
    PROVE  Promises'
<1>1. stat[r] # 0
    BY DEF Compare, Reading, ScheduleInv, Types, RestTypes
<1>2. Unloaded => Unloaded'
    BY <1>1 DEF Compare, Goes, file, memory, fired, told, truth, Unloaded, ScheduleInv, Types,
       TypeOK, Reader, Empty
<1> QED
    BY <1>2, PromisesFrame DEF ScheduleInv, Compare, file, memory, fired, told, truth

LEMMA LoadPromises ==
    ASSUME ScheduleInv, NEW r \in Reader, Load(r)
    PROVE  Promises'
<1>1. Unloaded => Unloaded'
    BY DEF Load, Goes, file, memory, fired, told, truth, Unloaded, ScheduleInv, Types, TypeOK,
       Reader, Empty
<1> QED
    BY <1>1, PromisesFrame DEF ScheduleInv, Load, file, memory, fired, told, truth

LEMMA AnswersPromises ==
    ASSUME ScheduleInv, NEW c \in Cmd, Answers(c)
    PROVE  Promises'
<1>1. Unloaded => Unloaded'
    BY DEF Answers, Ends, file, memory, fired, told, truth, Unloaded, ScheduleInv, Types, TypeOK,
       Reader, Empty
<1> QED
    BY <1>1, PromisesFrame DEF ScheduleInv, Answers, file, memory, fired, told, truth

LEMMA PassesPromises ==
    ASSUME ScheduleInv, Passes
    PROVE  Promises'
<1> SUFFICES ASSUME Sound' PROVE (RanInv /\ KeptInv /\ SaidInv /\ HearsInv)'
    BY DEF Promises
<1>1. UNCHANGED <<disk, mem, seen, loadErr, run, owed, runs, said, outcome, kept, byHand, mt, pc,
                  stale, unsaved, cut>> /\ clock' = clock + 1 /\ clock \in Nat
    BY DEF Passes, file, memory, fired, readers, told, truth, ScheduleInv, Types, TypeOK
<1>2. RanInv /\ KeptInv /\ SaidInv /\ HearsInv
    BY <1>1 DEF ScheduleInv, Promises, Sound
<1>3. RanInv'
  <2> SUFFICES ASSUME NEW j \in Job, NEW d \in 1 .. MaxTime
               PROVE  /\ runs'[j][d] <= 1
                      /\ Claims(j, d)' => runs'[j][d] = 0
                      /\ runs'[j][d] # 0 \/ Claims(j, d)' =>
                           d <= clock' /\ Below(d, mem, j)' /\ Below(d, disk, j)'
      BY DEF RanInv
  <2>1. Claims(j, d)' <=> Claims(j, d)
      BY <1>1 DEF Claims
  <2>2. d <= clock => d <= clock'
      BY <1>1, TimeAssumption
  <2> QED BY <1>1, <1>2, <2>1, <2>2 DEF RanInv, Below, Jobs
<1>4. KeptInv'
    BY <1>1, <1>2 DEF KeptInv, Holds, Given, Unloaded, Jobs, Empty
<1>5. SaidInv' /\ HearsInv'
    BY <1>1, <1>2 DEF SaidInv, HearsInv, ToldLast, Heard, Jobs
<1> QED BY <1>3, <1>4, <1>5

\* A read installed is the file as it is; one refused leaves memory as it was.
LEMMA InstallPromises ==
    ASSUME ScheduleInv, NEW r \in Reader, Install(r)
    PROVE  Promises'
<1> SUFFICES ASSUME Sound' PROVE (RanInv /\ KeptInv /\ SaidInv /\ HearsInv)'
    BY DEF Promises
<1>1. /\ UNCHANGED <<clock, disk, mt, run, owed, runs, said, outcome, kept, byHand, unsaved, cut>>
      /\ seen' = stat[r] /\ loadErr' = ~got[r].ok
      /\ pc' = [pc EXCEPT ![r] = "act"] /\ got[r].ok \in BOOLEAN
    BY DEF Install, Goes, file, fired, told, truth, ScheduleInv, Types, RestTypes
<1>2. mem \in Scheds /\ disk \in Scheds
    BY DEF ScheduleInv, Types, TypeOK
<1>3. \/ ~got[r].ok /\ mem' = mem /\ stale' = stale
      \/ got[r].ok /\ mem' = Merged(disk) /\ ~stale
    BY DEF Install, Sound
<1>4. RanInv /\ KeptInv /\ SaidInv /\ HearsInv
    BY <1>1, <1>3 DEF ScheduleInv, Promises, Sound
<1>5. CASE ~got[r].ok /\ mem' = mem /\ stale' = stale
  <2>1. loadErr' = TRUE
      BY <1>1, <1>5
  <2>2. RanInv'
      BY <1>1, <1>4, <1>5 DEF RanInv, Claims, Below, Jobs
  <2>3. KeptInv'
      BY <1>1, <1>4, <1>5, <2>1 DEF KeptInv, Holds, Given, Unloaded, Jobs, Empty
  <2>4. SaidInv' /\ HearsInv'
      BY <1>1, <1>4, <1>5 DEF SaidInv, HearsInv, ToldLast, Heard, Jobs
  <2> QED BY <2>2, <2>3, <2>4
<1>6. CASE got[r].ok /\ mem' = Merged(disk) /\ ~stale
  <2>1. /\ DOMAIN mem'.jobs = DOMAIN disk.jobs /\ mem'.used = disk.used
        /\ \A j \in DOMAIN disk.jobs :
              /\ mem'.jobs[j].told = disk.jobs[j].told
              /\ \/ mem'.jobs[j].base = disk.jobs[j].base
                 \/ j \in DOMAIN mem.jobs /\ mem'.jobs[j].base = mem.jobs[j].base
      BY <1>2, <1>6, MergedIs
  <2>2. RanInv'
    <3> SUFFICES ASSUME NEW j \in Job, NEW d \in 1 .. MaxTime
                 PROVE  /\ runs'[j][d] <= 1
                        /\ Claims(j, d)' => runs'[j][d] = 0
                        /\ runs'[j][d] # 0 \/ Claims(j, d)' =>
                             d <= clock' /\ Below(d, mem, j)' /\ Below(d, disk, j)'
        BY DEF RanInv
    <3>1. Claims(j, d)' <=> Claims(j, d)
        BY <1>1 DEF Claims
    <3>2. Below(d, mem, j) /\ Below(d, disk, j) => Below(d, mem, j)' /\ Below(d, disk, j)'
        BY <1>1, <2>1 DEF Below, Jobs
    <3> QED BY <1>1, <1>4, <3>1, <3>2 DEF RanInv
  <2>3. KeptInv'
    <3>1. Holds(disk)' /\ Given(disk)' /\ Holds(mem)' /\ Given(mem)'
        BY <1>1, <1>4, <2>1 DEF KeptInv, Holds, Given, Jobs
    <3> QED BY <1>1, <1>4, <3>1 DEF KeptInv, Empty
  <2>4. SaidInv' /\ HearsInv'
      BY <1>1, <1>4, <2>1 DEF SaidInv, HearsInv, ToldLast, Heard, Jobs
  <2> QED BY <2>2, <2>3, <2>4
<1> QED BY <1>3, <1>5, <1>6

\* A run for a due time that was claimed and not run before.
LEMMA DeliverPromises ==
    ASSUME ScheduleInv, NEW j \in Job, Deliver(j)
    PROVE  Promises'
<1> SUFFICES ASSUME Sound' PROVE (RanInv /\ KeptInv /\ SaidInv /\ HearsInv)'
    BY DEF Promises
<1>1. /\ UNCHANGED <<clock, disk, mem, seen, loadErr, pc, owed, said, outcome, kept, byHand, mt,
                     stale, unsaved, cut>>
      /\ run[j].at = "deliver"
      /\ runs' = [runs EXCEPT ![j][run[j].due] = IF @ < 2 THEN @ + 1 ELSE @]
    BY DEF Deliver, file, memory, readers, told, truth
<1>2. RanInv /\ KeptInv /\ SaidInv /\ HearsInv
    BY <1>1 DEF ScheduleInv, Promises, Sound
<1>3. PICK w \in Reasons \cup {"ok"} : run' = [run EXCEPT ![j].at = "record", ![j].why = w]
    BY DEF Deliver
<1>4. /\ run'[j].at = "record" /\ \A k \in Job : k # j => run'[k] = run[k]
      /\ \A k \in Job : run'[k].at # "no" <=> run[k].at # "no"
  <2>1. DOMAIN run = Job /\ run[j] = [at |-> run[j].at, due |-> run[j].due, why |-> run[j].why]
      BY DEF ScheduleInv, Types, TypeOK
  <2>2. run'[j] = [[run[j] EXCEPT !.at = "record"] EXCEPT !.why = w]
      BY <1>3, <2>1
  <2>3. run'[j].at = "record"
      BY <2>1, <2>2
  <2>4. \A k \in Job : k # j => run'[k] = run[k]
      BY <1>3, <2>1
  <2> QED BY <1>1, <2>3, <2>4
<1>5. run[j].due \in 1 .. MaxTime /\ DOMAIN runs = Job /\ DOMAIN runs[j] = 1 .. MaxTime
    BY <1>1, TimeAssumption DEF ScheduleInv, Types, TypeOK, RestTypes
<1>6. /\ runs[j][run[j].due] = 0
      /\ runs'[j][run[j].due] = 1
      /\ \A k \in Job, d \in 1 .. MaxTime :
            k # j \/ d # run[j].due => runs'[k][d] = runs[k][d]
  <2>1. Claims(j, run[j].due)
      BY <1>1 DEF Claims
  <2>2. runs[j][run[j].due] = 0
      BY <1>2, <1>5, <2>1 DEF RanInv
  <2>3. runs'[j] = [runs[j] EXCEPT ![run[j].due] = 1]
      BY <1>1, <1>5, <2>2
  <2>4. \A k \in Job : k # j => runs'[k] = runs[k]
      BY <1>1, <1>5
  <2> QED BY <1>5, <2>2, <2>3, <2>4
<1>7. RanInv'
  <2> SUFFICES ASSUME NEW k \in Job, NEW d \in 1 .. MaxTime
               PROVE  /\ runs'[k][d] <= 1
                      /\ Claims(k, d)' => runs'[k][d] = 0
                      /\ runs'[k][d] # 0 \/ Claims(k, d)' =>
                           d <= clock' /\ Below(d, mem, k)' /\ Below(d, disk, k)'
      BY DEF RanInv
  <2>1. (Below(d, mem, k)' <=> Below(d, mem, k)) /\ (Below(d, disk, k)' <=> Below(d, disk, k))
      BY <1>1 DEF Below, Jobs
  <2>2. Claims(k, d)' => k # j /\ Claims(k, d)
      BY <1>4 DEF Claims
  <2>3. CASE k = j /\ d = run[j].due
    <3>1. Claims(k, d)
        BY <1>1, <2>3 DEF Claims
    <3> QED BY <1>1, <1>2, <1>6, <2>1, <2>2, <2>3, <3>1 DEF RanInv
  <2>4. CASE ~(k = j /\ d = run[j].due)
      BY <1>1, <1>2, <1>6, <2>1, <2>2, <2>4 DEF RanInv
  <2> QED BY <2>3, <2>4
<1>8. KeptInv'
    BY <1>1, <1>2, <1>4 DEF KeptInv, Holds, Given, Unloaded, Jobs, Empty
<1>9. SaidInv' /\ HearsInv'
    BY <1>1, <1>2 DEF SaidInv, HearsInv, ToldLast, Heard, Jobs
<1> QED BY <1>7, <1>8, <1>9

LEMMA TellPromises ==
    ASSUME ScheduleInv, NEW j \in Job, NEW w \in Reasons, Tell(j, w)
    PROVE  Promises'
<1> SUFFICES ASSUME Sound' PROVE (RanInv /\ KeptInv /\ SaidInv /\ HearsInv)'
    BY DEF Promises
<1>1. /\ UNCHANGED <<clock, disk, mem, seen, loadErr, pc, run, runs, outcome, kept, byHand, mt,
                     stale, unsaved, cut>>
      /\ owed' = owed \ {<<j, w>>} /\ said' = said \cup {<<j, w>>}
    BY DEF Tell, file, memory, readers, truth
<1>2. RanInv /\ KeptInv /\ SaidInv /\ HearsInv
    BY <1>1 DEF ScheduleInv, Promises, Sound
<1>3. RanInv'
    BY <1>1, <1>2 DEF RanInv, Claims, Below, Jobs
<1>4. KeptInv'
    BY <1>1, <1>2 DEF KeptInv, Holds, Given, Unloaded, Jobs, Empty
<1>5. SaidInv'
    BY <1>1, <1>2 DEF SaidInv, ToldLast, Jobs
<1>6. HearsInv'
    BY <1>1, <1>2 DEF HearsInv, Heard, Jobs
<1> QED BY <1>3, <1>4, <1>5, <1>6

\* A crash leaves what the file says, and nothing running.
LEMMA CrashPromises ==
    ASSUME ScheduleInv, Crash
    PROVE  Promises'
<1> SUFFICES ASSUME Sound' PROVE (RanInv /\ KeptInv /\ SaidInv /\ HearsInv)'
    BY DEF Promises
<1>1. /\ UNCHANGED <<clock, disk, mt, runs, said, outcome, kept, byHand, stale, unsaved>>
      /\ mem' = Empty /\ seen' = 0 /\ run' = [j \in Job |-> NoRun] /\ owed' = {}
      /\ pc' = [r \in Reader |-> IF r = "tick" \/ pc[r] = "idle" THEN "idle" ELSE "done"]
      /\ cut' = (cut \/ owed # {})
    BY DEF Crash, file, told, truth
<1>2. RanInv /\ KeptInv /\ SaidInv /\ HearsInv
    BY <1>1 DEF ScheduleInv, Promises, Sound
<1>3. /\ \A j \in Job : run'[j].at = "no"
      /\ \A c \in Cmd : pc'[c] # "act"
      /\ DOMAIN mem'.jobs = {}
    BY <1>1, EmptySched DEF NoRun, Reader
<1>4. RanInv'
    BY <1>1, <1>2, <1>3 DEF RanInv, Claims, Below, Jobs
<1>5. KeptInv'
  <2>1. Holds(disk)' /\ Given(disk)'
      BY <1>1, <1>2, <1>3 DEF KeptInv, Holds, Given, Jobs
  <2>2. CASE mt = 0
    <3>1. kept = {} /\ \A j \in Job \ byHand : outcome[j] = "ok"
        BY <1>2, <2>2, EmptySched DEF KeptInv, Given
    <3>2. Holds(mem)' /\ Given(mem)'
        BY <1>1, <1>3, <3>1 DEF Holds, Given, Jobs
    <3> QED BY <1>1, <1>2, <2>1, <3>2 DEF KeptInv, Empty
  <2>3. CASE mt # 0
    <3>1. Unloaded'
        BY <1>1, <1>3, <2>3 DEF Unloaded, Empty
    <3> QED BY <1>1, <2>1, <2>3, <3>1 DEF KeptInv
  <2> QED BY <2>2, <2>3
<1>6. SaidInv'
    BY <1>1, <1>2, <1>3 DEF SaidInv, ToldLast, Jobs
<1>7. HearsInv'
    BY <1>1, <1>2, <1>3 DEF HearsInv, Heard, Jobs
<1> QED BY <1>4, <1>5, <1>6, <1>7

\* What is saved when a save that succeeded ends a step.
LEMMA SavedIs ==
    ASSUME Types, NEW s \in Scheds, Save(s), ~unsaved'
    PROVE  ~unsaved /\ disk' = s /\ mt' # 0 /\ mt \in Nat
<1>1. TypeOK /\ mt \in Nat
    BY DEF Types, TypeOK
<1>2. (unsaved' = unsaved /\ disk' = s /\ mt' = mt + 1) \/ unsaved' = TRUE
    BY ONLY <1>1, SaveIs, Save(s), s \in Scheds
<1> QED BY <1>1, <1>2

\* A tick with nothing due changes nothing.
LEMMA NothingReady ==
    ASSUME TypeOK, Ready = {}
    PROVE  Claimed = mem
<1>1. mem \in Scheds
    BY DEF TypeOK
<1>2. /\ mem.jobs = [j \in DOMAIN mem.jobs |-> mem.jobs[j]]
      /\ mem = [jobs |-> mem.jobs, used |-> mem.used]
    BY <1>1, SchedIs
<1>3. [j \in Jobs(mem) |-> IF j \in Ready THEN [mem.jobs[j] EXCEPT !.base = Due(j)]
                                           ELSE mem.jobs[j]] = mem.jobs
    BY <1>2 DEF Jobs
<1>4. Claimed = [mem EXCEPT !.jobs = mem.jobs]
    BY <1>3 DEF Claimed
<1> QED BY <1>1, <1>2, <1>4, WithJobs

\* What is due is claimed in memory and in the file before it runs.
LEMMA ClaimPromises ==
    ASSUME ScheduleInv, Claim
    PROVE  Promises'
<1> SUFFICES ASSUME Sound' PROVE (RanInv /\ KeptInv /\ SaidInv /\ HearsInv)'
    BY DEF Promises
<1>1. /\ UNCHANGED <<clock, loadErr, owed, runs, said, outcome, kept, byHand, stale, cut>>
      /\ pc' = [pc EXCEPT !["tick"] = "idle"]
      /\ mem' = Claimed
      /\ run' = [j \in Job |-> IF j \in Ready THEN [at |-> "deliver", due |-> Due(j), why |-> "ok"]
                                             ELSE run[j]]
      /\ IF Ready = {} THEN UNCHANGED <<disk, mt, seen, unsaved>> ELSE Save(Claimed)
    BY DEF Claim, Claimed, Ready, Goes, told, truth, written
<1>2. Types /\ TypeOK
    BY DEF ScheduleInv, Types
<1>3. CASE Ready = {}
  <2>1. mem' = mem
      BY <1>1, <1>2, <1>3, NothingReady
  <2>2. run' = run
      BY <1>1, <1>2, <1>3 DEF TypeOK
  <2>3. Unloaded => Unloaded'
      BY <1>1, <1>2, <1>3, <2>1, <2>2, NameAssumption DEF Unloaded, TypeOK, Reader, Empty
  <2>4. Promises'
      BY <1>1, <1>3, <2>1, <2>2, <2>3, PromisesFrame DEF ScheduleInv
  <2> QED BY <2>4 DEF Promises
<1>4. CASE Ready # {}
  <2>1. Claimed \in Scheds
      BY <1>2, ClaimedIs
  <2>2. ~unsaved /\ disk' = Claimed /\ mt' # 0
    <3>1. Save(Claimed) /\ ~unsaved'
        BY <1>1, <1>4 DEF Sound
    <3> QED BY ONLY <3>1, <2>1, <1>2, SavedIs
  <2>3. RanInv /\ KeptInv /\ SaidInv /\ HearsInv
      BY <1>1, <2>2 DEF ScheduleInv, Promises, Sound
  <2>4. /\ DOMAIN Claimed.jobs = DOMAIN mem.jobs /\ Claimed.used = mem.used
        /\ \A j \in DOMAIN mem.jobs :
              /\ Claimed.jobs[j].told = mem.jobs[j].told
              /\ Claimed.jobs[j].base = IF j \in Ready THEN Due(j) ELSE mem.jobs[j].base
      BY <1>2, ClaimedIs
  <2>5. \A j \in Ready : /\ j \in Job /\ j \in DOMAIN mem.jobs /\ run[j].at = "no"
                         /\ Due(j) \in 1 .. MaxTime /\ Due(j) <= clock
                         /\ mem.jobs[j].base < Due(j)
      BY <1>2, ReadyDue
  <2>6. \A j \in DOMAIN mem.jobs : mem.jobs[j].base \in Nat
    <3>1. mem \in Scheds
        BY <1>2 DEF TypeOK
    <3>2. \A j \in DOMAIN mem.jobs : mem.jobs[j].base \in 0 .. MaxTime
        BY <3>1, SchedIs
    <3> QED BY <3>2
  <2>7. RanInv'
    <3> SUFFICES ASSUME NEW j \in Job, NEW d \in 1 .. MaxTime
                 PROVE  /\ runs'[j][d] <= 1
                        /\ Claims(j, d)' => runs'[j][d] = 0
                        /\ runs'[j][d] # 0 \/ Claims(j, d)' =>
                             d <= clock' /\ Below(d, mem, j)' /\ Below(d, disk, j)'
        BY DEF RanInv
    <3>1. Claims(j, d)' <=> IF j \in Ready THEN d = Due(j) ELSE Claims(j, d)
        BY <1>1 DEF Claims
    <3>2. d <= clock /\ Below(d, mem, j)' => Below(d, disk, j)'
        BY <1>1, <2>2 DEF Below, Jobs
    <3>3. Below(d, mem, j) => Below(d, mem, j)'
      <4>1. CASE j \in Ready
          BY <4>1, <1>1, <2>4, <2>5, <2>6 DEF Below, Jobs
      <4>2. CASE j \notin Ready
          BY <4>2, <1>1, <2>4 DEF Below, Jobs
      <4> QED BY <4>1, <4>2
    <3>4. ASSUME j \in Ready, d = Due(j)
          PROVE  runs[j][d] = 0 /\ d <= clock /\ Below(d, mem, j)'
      <4>1. ~Below(d, mem, j)
          BY <3>4, <2>5, <2>6 DEF Below, Jobs
      <4>2. runs[j][d] = 0
          BY <4>1, <2>3 DEF RanInv
      <4>3. Below(d, mem, j)'
          BY <3>4, <1>1, <2>4, <2>5 DEF Below, Jobs
      <4> QED BY <3>4, <2>5, <4>2, <4>3
    <3>5. CASE j \in Ready /\ d = Due(j)
        BY <3>1, <3>2, <3>4, <3>5, <1>1
    <3>6. CASE ~(j \in Ready /\ d = Due(j))
        BY <3>1, <3>2, <3>3, <3>6, <1>1, <2>3 DEF RanInv
    <3> QED BY <3>5, <3>6
  <2>8. KeptInv'
    <3>1. Holds(mem) /\ Given(mem)
      <4>1. ~Unloaded
          BY <1>4, <2>5, EmptySched DEF Unloaded
      <4> QED BY <4>1, <2>3 DEF KeptInv
    <3>2. Holds(mem)' /\ Holds(disk)'
        BY <3>1, <1>1, <2>2, <2>4 DEF Holds, Jobs
    <3>3. \A j \in Ready : j \in mem.used
        BY <2>5 DEF ScheduleInv, Types, RestTypes, Jobs
    <3>4. \A j \in Job : run'[j].at # "no" => run[j].at # "no" \/ j \in Ready
        BY <1>1
    <3>5. Given(mem)' /\ Given(disk)'
        BY <3>1, <3>3, <3>4, <1>1, <2>2, <2>4 DEF Given
    <3> QED BY <2>2, <3>2, <3>5 DEF KeptInv
  <2>9. SaidInv' /\ HearsInv'
      BY <1>1, <2>2, <2>3, <2>4 DEF SaidInv, HearsInv, ToldLast, Heard, Jobs
  <2> QED BY <2>7, <2>8, <2>9
<1> QED BY <1>3, <1>4

\* A run recorded: the job's told is its last outcome, in memory and in the file.
LEMMA RecordPromises ==
    ASSUME ScheduleInv, NEW j \in Job, Record(j)
    PROVE  Promises'
<1> SUFFICES ASSUME Sound' PROVE (RanInv /\ KeptInv /\ SaidInv /\ HearsInv)'
    BY DEF Promises
<1> DEFINE w == run[j].why
<1>1. /\ UNCHANGED <<clock, loadErr, pc, runs, kept, byHand, stale, cut>>
      /\ run[j].at = "record" /\ run' = [run EXCEPT ![j] = NoRun]
      /\ outcome' = [outcome EXCEPT ![j] = w]
      /\ said' = IF w = "ok" THEN said \ ({j} \X Reasons) ELSE said
      /\ owed' = IF w # "ok" /\ News(j) THEN owed \cup {<<j, w>>} ELSE owed
      /\ IF j \in DOMAIN mem.jobs THEN mem' = Recorded(j) /\ Save(Recorded(j))
                                  ELSE UNCHANGED <<mem, disk, mt, seen, unsaved>>
    BY DEF Record, Recorded, readers, truth, written, Jobs
<1>2. Types /\ TypeOK
    BY DEF ScheduleInv, Types
<1>3. /\ w \in Reasons \cup {"ok"} /\ DOMAIN run = Job /\ DOMAIN outcome = Job
      /\ "none" \notin Reasons /\ "ok" \notin Reasons
    BY <1>2, NameAssumption DEF TypeOK
<1>4. /\ run'[j].at = "no" /\ \A k \in Job : k # j => run'[k] = run[k]
      /\ outcome'[j] = w /\ \A k \in Job : k # j => outcome'[k] = outcome[k]
    BY <1>1, <1>3 DEF NoRun
<1>5. CASE j \in DOMAIN mem.jobs
  <2>1. Recorded(j) \in Scheds
      BY <1>2, <1>5, RecordedIs
  <2>2. ~unsaved /\ disk' = Recorded(j) /\ mt' # 0
    <3>1. Save(Recorded(j)) /\ ~unsaved'
        BY <1>1, <1>5 DEF Sound
    <3> QED BY ONLY <3>1, <2>1, <1>2, SavedIs
  <2>3. RanInv /\ KeptInv /\ SaidInv /\ HearsInv
      BY <1>1, <2>2 DEF ScheduleInv, Promises, Sound
  <2>4. /\ mem' = Recorded(j) /\ DOMAIN Recorded(j).jobs = DOMAIN mem.jobs
        /\ Recorded(j).used = mem.used
        /\ Recorded(j).jobs[j].told = ToldNow(j)
        /\ Recorded(j).jobs[j].base = mem.jobs[j].base
        /\ \A k \in DOMAIN mem.jobs : k # j => Recorded(j).jobs[k] = mem.jobs[k]
      BY <1>1, <1>2, <1>5, RecordedIs
  <2>5. ToldNow(j) = IF w = "ok" THEN "none" ELSE w
      BY DEF ToldNow
  <2>6. RanInv'
    <3> SUFFICES ASSUME NEW k \in Job, NEW d \in 1 .. MaxTime
                 PROVE  /\ runs'[k][d] <= 1
                        /\ Claims(k, d)' => runs'[k][d] = 0
                        /\ runs'[k][d] # 0 \/ Claims(k, d)' =>
                             d <= clock' /\ Below(d, mem, k)' /\ Below(d, disk, k)'
        BY DEF RanInv
    <3>1. Claims(k, d)' => Claims(k, d)
        BY <1>4 DEF Claims
    <3>2. Below(d, mem, k) => Below(d, mem, k)' /\ Below(d, disk, k)'
        BY <2>2, <2>4 DEF Below, Jobs
    <3> QED BY <1>1, <2>3, <3>1, <3>2 DEF RanInv
  <2>7. KeptInv'
    <3>1. Holds(mem) /\ Given(mem)
        BY <1>5, <2>3, EmptySched DEF KeptInv, Unloaded
    <3>2. Holds(mem)' /\ Holds(disk)'
        BY <3>1, <1>1, <2>2, <2>4 DEF Holds, Jobs
    <3>3. Given(mem)' /\ Given(disk)'
        BY <3>1, <1>1, <1>4, <2>2, <2>4 DEF Given
    <3> QED BY <2>2, <3>2, <3>3 DEF KeptInv
  <2>8. SaidInv'
    <3>1. ASSUME NEW k \in DOMAIN mem.jobs, k \notin byHand, outcome'[k] # "ok"
          PROVE  Recorded(j).jobs[k].told = outcome'[k]
      <4>1. k \in Job
          BY <1>2, SchedIs DEF TypeOK
      <4>2. CASE k = j
          BY <3>1, <4>2, <1>4, <2>4, <2>5
      <4>3. CASE k # j
          BY <3>1, <4>1, <4>3, <1>4, <2>3, <2>4 DEF SaidInv, ToldLast, Jobs
      <4> QED BY <4>2, <4>3
    <3> QED BY <3>1, <1>1, <2>2, <2>4 DEF SaidInv, ToldLast, Jobs
  <2>9. HearsInv'
    <3> SUFFICES ASSUME ~cut PROVE Heard(disk)' /\ Heard(mem)'
        BY <1>1 DEF HearsInv
    <3>1. ASSUME NEW k \in DOMAIN mem.jobs, k \notin byHand, Recorded(j).jobs[k].told # "none"
          PROVE  <<k, Recorded(j).jobs[k].told>> \in owed' \cup said'
      <4>1. Heard(mem)
          BY <2>3 DEF HearsInv
      <4>2. CASE k = j
        <5>1. w # "ok" /\ Recorded(j).jobs[k].told = w
            BY <3>1, <4>2, <2>4, <2>5
        <5>2. CASE News(j)
            BY <4>2, <5>1, <5>2, <1>1
        <5>3. CASE ~News(j)
          <6>1. mem.jobs[j].told = w
              BY <5>3 DEF News
          <6>2. <<j, w>> \in owed \cup said
              BY <3>1, <4>1, <4>2, <5>1, <6>1, <1>3, <1>5 DEF Heard, Jobs
          <6> QED BY <4>2, <5>1, <6>2, <1>1
        <5> QED BY <5>2, <5>3
      <4>3. CASE k # j
        <5>1. <<k, mem.jobs[k].told>> \in owed \cup said
            BY <3>1, <4>1, <4>3, <2>4 DEF Heard, Jobs
        <5>2. <<k, mem.jobs[k].told>> \notin {j} \X Reasons
            BY <4>3
        <5> QED BY <4>3, <5>1, <5>2, <1>1, <2>4
      <4> QED BY <4>2, <4>3
    <3> QED BY <3>1, <1>1, <2>2, <2>4 DEF Heard, Jobs
  <2> QED BY <2>6, <2>7, <2>8, <2>9
<1>6. CASE j \notin DOMAIN mem.jobs
  <2>1. UNCHANGED <<mem, disk, mt, seen, unsaved>>
      BY <1>1, <1>6
  <2>2. RanInv /\ KeptInv /\ SaidInv /\ HearsInv
      BY <1>1, <2>1 DEF ScheduleInv, Promises, Sound
  <2>3. Holds(mem) /\ Given(mem) /\ Holds(disk) /\ Given(disk)
      BY <1>1, <2>2 DEF KeptInv, Unloaded
  <2>4. j \in byHand \/ j \notin DOMAIN disk.jobs
      BY <1>6, <2>3 DEF Holds, Jobs
  <2>5. RanInv'
    <3>1. \A k \in Job, d \in 1 .. MaxTime : Claims(k, d)' => Claims(k, d)
        BY <1>4 DEF Claims
    <3> QED BY <1>1, <2>1, <2>2, <3>1 DEF RanInv, Below, Jobs
  <2>6. KeptInv'
    <3>1. Holds(mem)' /\ Holds(disk)'
        BY <1>1, <2>1, <2>3 DEF Holds, Jobs
    <3>2. Given(mem)' /\ Given(disk)'
        BY <1>1, <1>4, <2>1, <2>3 DEF Given
    <3> QED BY <1>1, <2>1, <2>2, <3>1, <3>2 DEF KeptInv, Empty
  <2>7. DOMAIN mem.jobs \subseteq Job /\ DOMAIN disk.jobs \subseteq Job
      BY <1>2, SchedIs DEF TypeOK
  <2>8. SaidInv'
      BY <1>1, <1>4, <1>6, <2>1, <2>2, <2>4, <2>7 DEF SaidInv, ToldLast, Jobs
  <2>9. HearsInv'
    <3>1. \A k, x : <<k, x>> \in owed \cup said /\ k # j => <<k, x>> \in owed' \cup said'
        BY <1>1
    <3> QED BY <3>1, <1>1, <1>6, <2>1, <2>2, <2>4, <2>7 DEF HearsInv, Heard, Jobs
  <2> QED BY <2>5, <2>6, <2>8, <2>9
<1> QED BY <1>5, <1>6

\* A command changes the schedule it has read, and the file with it.
LEMMA ChangePromises ==
    ASSUME ScheduleInv, NEW c \in Cmd, Change(c)
    PROVE  Promises'
<1> SUFFICES ASSUME Sound' PROVE (RanInv /\ KeptInv /\ SaidInv /\ HearsInv)'
    BY DEF Promises
<1> DEFINE j == op[c][2]
<1>1. /\ UNCHANGED <<clock, loadErr, run, owed, runs, said, outcome, byHand, stale, cut>>
      /\ pc[c] = "act" /\ ~loadErr /\ mem' = Changed(c) /\ Save(Changed(c))
      /\ kept' = IF op[c][1] = "add" THEN kept \cup {j} ELSE kept \ {j}
      /\ op[c][1] = "add" => j \notin mem.used
    BY DEF Change, Changed, fired, told
<1>2. Types /\ DOMAIN mem.jobs \subseteq mem.used
    BY DEF ScheduleInv, Types, RestTypes, Jobs
<1>3. /\ j \in Job /\ Changed(c) \in Scheds
      /\ mem.used \subseteq Changed(c).used
      /\ \A k \in DOMAIN Changed(c).jobs :
            \/ k \in DOMAIN mem.jobs /\ Changed(c).jobs[k] = mem.jobs[k]
            \/ /\ k = j /\ Changed(c).jobs[k].base = clock
               /\ Changed(c).jobs[k].told = "none" /\ op[c][1] = "add"
      /\ op[c][1] = "add" => DOMAIN Changed(c).jobs = DOMAIN mem.jobs \cup {j}
      /\ op[c][1] # "add" => DOMAIN Changed(c).jobs = DOMAIN mem.jobs \ {j}
    BY <1>1, <1>2, ChangedIs
<1>4. ~unsaved /\ disk' = Changed(c) /\ mt' # 0
  <2>1. Save(Changed(c)) /\ ~unsaved'
      BY <1>1 DEF Sound
  <2> QED BY ONLY <2>1, <1>2, <1>3, SavedIs
<1>5. RanInv /\ KeptInv /\ SaidInv /\ HearsInv
    BY <1>1, <1>4 DEF ScheduleInv, Promises, Sound
<1>6. Holds(mem) /\ Given(mem)
    BY <1>1, <1>5 DEF KeptInv, Unloaded
<1> HIDE DEF j
<1>7. RanInv'
  <2> SUFFICES ASSUME NEW k \in Job, NEW d \in 1 .. MaxTime
               PROVE  /\ runs'[k][d] <= 1
                      /\ Claims(k, d)' => runs'[k][d] = 0
                      /\ runs'[k][d] # 0 \/ Claims(k, d)' =>
                           d <= clock' /\ Below(d, mem, k)' /\ Below(d, disk, k)'
      BY DEF RanInv
  <2>1. Claims(k, d)' <=> Claims(k, d)
      BY <1>1 DEF Claims
  <2>2. d <= clock /\ Below(d, mem, k) => Below(d, mem, k)' /\ Below(d, disk, k)'
      BY <1>1, <1>3, <1>4 DEF Below, Jobs
  <2> QED BY <1>1, <1>5, <2>1, <2>2 DEF RanInv
<1>8. KeptInv'
  <2>1. Holds(mem)' /\ Holds(disk)'
      BY <1>1, <1>3, <1>4, <1>6 DEF Holds, Jobs
  <2>2. Given(mem)' /\ Given(disk)'
      BY <1>1, <1>3, <1>4, <1>6 DEF Given
  <2> QED BY <1>4, <2>1, <2>2 DEF KeptInv
<1>9. SaidInv'
  <2>1. ASSUME NEW k \in DOMAIN Changed(c).jobs, k \notin byHand, outcome[k] # "ok"
        PROVE  Changed(c).jobs[k].told = outcome[k]
    <3>1. k \in Job
        BY <1>3, SchedIs
    <3>2. k \in mem.used
        BY <2>1, <3>1, <1>6 DEF Given
    <3>3. k \in DOMAIN mem.jobs /\ Changed(c).jobs[k] = mem.jobs[k]
        BY <3>2, <1>1, <1>3
    <3> QED BY <2>1, <3>3, <1>5 DEF SaidInv, ToldLast, Jobs
  <2> QED BY <2>1, <1>1, <1>4 DEF SaidInv, ToldLast, Jobs
<1>10. HearsInv'
    BY <1>1, <1>3, <1>4, <1>5 DEF HearsInv, Heard, Jobs
<1> QED BY <1>7, <1>8, <1>9, <1>10

\* An edit by hand touches one job, and the promises are no longer about it.
LEMMA EditPromises ==
    ASSUME ScheduleInv, Edit
    PROVE  Promises'
<1> SUFFICES ASSUME Sound' PROVE (RanInv /\ KeptInv /\ SaidInv /\ HearsInv)'
    BY DEF Promises
<1>1. /\ UNCHANGED <<clock, mem, seen, loadErr, run, owed, pc, runs, said, outcome, kept, stale,
                     unsaved, cut>>
      /\ \/ UNCHANGED <<disk, byHand>>
         \/ \E j \in Job : disk' = EditedTo(j) /\ byHand' = byHand \cup {j}
    BY EditIs
<1>2. mt' # 0
    BY EditIs DEF ScheduleInv, Types, TypeOK
<1>3. RanInv /\ KeptInv /\ SaidInv /\ HearsInv
    BY <1>1 DEF ScheduleInv, Promises, Sound
<1>4. /\ byHand \subseteq byHand'
      /\ \A k \in Job \ byHand' : k \in DOMAIN disk'.jobs <=> k \in DOMAIN disk.jobs
      /\ disk.used \subseteq disk'.used
      /\ DOMAIN disk'.jobs \subseteq Job
      /\ \A k \in DOMAIN disk'.jobs :
            \/ k \in DOMAIN disk.jobs /\ disk'.jobs[k] = disk.jobs[k]
            \/ k \in byHand' /\ disk'.jobs[k].base = clock
  <2>1. CASE UNCHANGED <<disk, byHand>>
    <3>1. DOMAIN disk.jobs \subseteq Job
        BY SchedIs DEF ScheduleInv, Types, TypeOK
    <3> QED BY <2>1, <3>1
  <2>2. CASE \E j \in Job : disk' = EditedTo(j) /\ byHand' = byHand \cup {j}
    <3>1. PICK j \in Job : disk' = EditedTo(j) /\ byHand' = byHand \cup {j}
        BY <2>2
    <3>2. /\ EditedTo(j) \in Scheds
          /\ disk.used \subseteq EditedTo(j).used
          /\ \A k \in Job : k # j => (k \in DOMAIN EditedTo(j).jobs <=> k \in DOMAIN disk.jobs)
          /\ \A k \in DOMAIN EditedTo(j).jobs :
                 \/ k \in DOMAIN disk.jobs /\ EditedTo(j).jobs[k] = disk.jobs[k]
                 \/ k = j /\ EditedTo(j).jobs[k].base = clock
        BY EditedIs DEF ScheduleInv
    <3>3. DOMAIN EditedTo(j).jobs \subseteq Job
        BY <3>2, SchedIs
    <3> QED BY <3>1, <3>2, <3>3
  <2> QED BY <2>1, <2>2, <1>1
<1>5. RanInv'
  <2> SUFFICES ASSUME NEW k \in Job, NEW d \in 1 .. MaxTime
               PROVE  /\ runs'[k][d] <= 1
                      /\ Claims(k, d)' => runs'[k][d] = 0
                      /\ runs'[k][d] # 0 \/ Claims(k, d)' =>
                           d <= clock' /\ Below(d, mem, k)' /\ Below(d, disk, k)'
      BY DEF RanInv
  <2>1. (Claims(k, d)' <=> Claims(k, d)) /\ (Below(d, mem, k)' <=> Below(d, mem, k))
      BY <1>1 DEF Claims, Below, Jobs
  <2>2. d <= clock /\ Below(d, disk, k) => Below(d, disk, k)'
      BY <1>4 DEF Below, Jobs
  <2> QED BY <1>1, <1>3, <2>1, <2>2 DEF RanInv
<1>6. KeptInv'
  <2>1. Holds(disk)' /\ Given(disk)'
      BY <1>1, <1>3, <1>4 DEF KeptInv, Holds, Given, Jobs
  <2>2. (Holds(mem) /\ Given(mem))' \/ Unloaded'
    <3>1. CASE Unloaded
        BY <3>1, <1>1, <1>2 DEF Unloaded, Empty
    <3>2. CASE Holds(mem) /\ Given(mem)
        BY <3>2, <1>1, <1>4 DEF Holds, Given, Jobs
    <3> QED BY <3>1, <3>2, <1>3 DEF KeptInv
  <2> QED BY <1>2, <2>1, <2>2 DEF KeptInv
<1>7. SaidInv'
    BY <1>1, <1>3, <1>4 DEF SaidInv, ToldLast, Jobs
<1>8. HearsInv'
    BY <1>1, <1>3, <1>4 DEF HearsInv, Heard, Jobs
<1> QED BY <1>5, <1>6, <1>7, <1>8

-----------------------------------------------------------------------------
(* Every step. *)

LEMMA PromisesNext == ScheduleInv /\ [Next]_vars => Promises'
<1> SUFFICES ASSUME ScheduleInv, [Next]_vars PROVE Promises'
    OBVIOUS
<1>1. ASSUME NEW r \in Reader, Reload(r) PROVE Promises'
    BY <1>1, StatPromises, ComparePromises, LoadPromises, InstallPromises DEF Reload
<1>2. ASSUME NEW c \in Cmd, Reload(c) \/ Answers(c) \/ Change(c) PROVE Promises'
    BY <1>1, <1>2, AnswersPromises, ChangePromises DEF Reader
<1>3. CASE Tick
    BY <1>1, <1>3, ClaimPromises DEF Tick, Reader
<1>4. ASSUME NEW j \in Job, Fire(j) PROVE Promises'
    BY <1>4, DeliverPromises, RecordPromises DEF Fire
<1>5. ASSUME NEW j \in Job, NEW w \in Reasons, Tell(j, w) PROVE Promises'
    BY <1>5, TellPromises
<1>6. CASE UNCHANGED vars
    BY <1>6, PromisesFrame DEF vars, ScheduleInv, Unloaded, Empty
<1> QED
    BY <1>2, <1>3, <1>4, <1>5, <1>6, PassesPromises, EditPromises, CrashPromises DEF Next

LEMMA ScheduleNext == ScheduleInv /\ [Next]_vars => ScheduleInv'
BY TypesNext, PromisesNext DEF ScheduleInv

LEMMA ScheduleAlways == Spec => []ScheduleInv
<1>1. Init => ScheduleInv
    BY TypesInit, PromisesInit DEF ScheduleInv
<1> QED BY <1>1, ScheduleNext, PTL DEF Spec

\* Only the record of a run has a line said, and it is news.
LEMMA SaidOnceStep ==
    ScheduleInv /\ [Next]_vars =>
        [~stale' /\ ~unsaved' =>
            \A e \in owed' \ owed :
                e[1] \in byHand \/ e[1] \notin Jobs(mem) \/ outcome[e[1]] # e[2]]_vars
<1> SUFFICES ASSUME ScheduleInv, [Next]_vars, ~stale', ~unsaved', NEW e \in owed' \ owed
             PROVE  e[1] \in byHand \/ e[1] \notin Jobs(mem) \/ outcome[e[1]] # e[2]
    OBVIOUS
<1>1. ASSUME owed' \subseteq owed PROVE FALSE
    BY <1>1
<1>2. ASSUME NEW j \in Job, Record(j)
      PROVE  e[1] \in byHand \/ e[1] \notin Jobs(mem) \/ outcome[e[1]] # e[2]
  <2>1. e = <<j, run[j].why>> /\ run[j].why # "ok" /\ News(j) /\ ~stale
      BY <1>2 DEF Record
  <2>2. ASSUME j \in Jobs(mem), j \notin byHand, outcome[j] = run[j].why PROVE FALSE
    <3>1. mem.jobs[j].told # run[j].why
        BY <2>1, <2>2 DEF News
    <3>2. ~unsaved
      <4>1. Recorded(j) \in Scheds /\ Save(Recorded(j)) /\ Types
          BY <1>2, <2>2, RecordedIs DEF Record, Recorded, Jobs, ScheduleInv, Types
      <4> QED BY <4>1, SavedIs
    <3>3. SaidInv
        BY <2>1, <3>2 DEF ScheduleInv, Promises, Sound
    <3> QED BY <2>1, <2>2, <3>1, <3>3 DEF SaidInv, ToldLast
  <2> QED BY <2>1, <2>2
<1>3. ASSUME NEW r \in Reader, Reload(r) PROVE FALSE
    BY <1>3 DEF Reload, Stat, Compare, Load, Install, fired
<1>4. ASSUME NEW c \in Cmd, Reload(c) \/ Answers(c) \/ Change(c) PROVE FALSE
    BY <1>3, <1>4 DEF Reader, Answers, Change, fired
<1>5. CASE Tick
    BY <1>3, <1>5 DEF Tick, Claim, Reader
<1>6. ASSUME NEW j \in Job, Fire(j)
      PROVE  e[1] \in byHand \/ e[1] \notin Jobs(mem) \/ outcome[e[1]] # e[2]
    BY <1>2, <1>6 DEF Fire, Deliver
<1>7. ASSUME NEW j \in Job, NEW w \in Reasons, Tell(j, w) PROVE FALSE
    BY <1>7 DEF Tell
<1>8. CASE Passes \/ Edit \/ Crash
    BY <1>8 DEF Passes, Edit, Crash, fired
<1>9. CASE UNCHANGED vars
    BY <1>9 DEF vars
<1> QED
    BY <1>4, <1>5, <1>6, <1>7, <1>8, <1>9 DEF Next

-----------------------------------------------------------------------------
\* Each variable keeps its type, and what is in flight has a goroutine.
THEOREM ScheduleTypes == Spec => []TypeOK
<1>1. ScheduleInv => TypeOK
    BY DEF ScheduleInv, Types
<1> QED BY <1>1, ScheduleAlways, PTL

\* A job runs at most once for one due time, through any reloads, crashes and
\* starts, unless an old read was installed or a save failed (schedule_run.go, tick).
THEOREM RunsOncePerDue == Spec => []OncePerDue
<1>1. ScheduleInv => OncePerDue
    BY DEF ScheduleInv, Promises, Sound, RanInv, OncePerDue
<1> QED BY <1>1, ScheduleAlways, PTL

\* The file holds what the commands answered (schedule_run.go, change).
THEOREM FileKeepsCommands == Spec => []CommandsKept
<1>1. ScheduleInv => CommandsKept
    BY DEF ScheduleInv, Promises, Sound, KeptInv, Holds, CommandsKept
<1> QED BY <1>1, ScheduleAlways, PTL

\* What the file says super was told was said, or is on its way (fire).
THEOREM SuperIsTold == Spec => []SuperHears
<1>1. ScheduleInv => SuperHears
    BY DEF ScheduleInv, Promises, Sound, HearsInv, Heard, SuperHears
<1> QED BY <1>1, ScheduleAlways, PTL

\* A failure is said once until the job ends otherwise (fire, Told).
THEOREM FailureSaidOnce == Spec => SaidOnce
<1> QED BY SaidOnceStep, ScheduleAlways, PTL DEF Spec, SaidOnce
=============================================================================
