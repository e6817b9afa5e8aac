------------------------- MODULE CeilingGate_proofs -------------------------
(***************************************************************************)
(* Proofs about CeilingGate: what the gate lets through between two        *)
(* readings, and the mail it refuses, for any agents, ceiling, other rigs  *)
(* and troubles.                                                           *)
(***************************************************************************)
EXTENDS CeilingGate, FiniteSetTheorems, TLAPS

-----------------------------------------------------------------------------
(* The inductive invariant. *)

\* A resume holds its lock from the gate's answer until the mail is in: what it
\* was let through to start is starting, what it was refused is parked, and what it
\* types to is up.
DeliverInv ==
    \A a \in Agent : /\ pc[a] = "deliver" => st[a] = "up"
                     /\ pc[a] = "admitted" => st[a] = "starting"
                     /\ pc[a] \in {"engaged", "short"} => st[a] = "parked"

\* The reading and what was let through since cover every agent that runs.
CountInv == ~missed => /\ last # Unread
                       /\ Cardinality(Running) + others <= last + admitted

CeilingInv == TypeOK /\ DeliverInv /\ CountInv /\ RefusedMailKept

-----------------------------------------------------------------------------
(* Counting agents. *)

\* A set of agents is finite, and no larger than all of them.
LEMMA CountAgents ==
    ASSUME NEW S \in SUBSET Agent
    PROVE  IsFiniteSet(S) /\ Cardinality(S) \in Nat /\ Cardinality(S) <= Cardinality(Agent)
BY AgentAssumption, FS_Subset, FS_CardinalityType

LEMMA CountAll == Cardinality(Agent) \in Nat
BY AgentAssumption, FS_CardinalityType

\* A reading that was made is below the figure that stands for none.
LEMMA ReadingBelow ==
    ASSUME NEW S \in SUBSET Agent, NEW o \in 0 .. MaxOthers
    PROVE  /\ Cardinality(S) + o \in 0 .. Unread
           /\ Cardinality(S) + o # Unread
           /\ Unread \in Nat
BY CountAgents, CountAll, SessionsAssumption DEF Unread

-----------------------------------------------------------------------------
(* The invariant holds at the start. *)

LEMMA CeilingInit == Init => CeilingInv
<1> SUFFICES ASSUME Init PROVE CeilingInv
    OBVIOUS
<1>1. PICK boot \in SUBSET Agent :
        /\ others \in 0 .. MaxOthers
        /\ \/ last = others /\ admitted = Cardinality(boot) /\ missed = FALSE
              /\ (boot = {} \/ others + Cardinality(boot) <= Sessions)
           \/ last = Unread /\ admitted = 0 /\ missed = TRUE
        /\ engaged = (last # Unread /\ last >= Sessions) /\ under = FALSE
        /\ st = [a \in Agent |-> IF a \in boot THEN "up" ELSE "parked"]
    BY DEF Init
<1>2. /\ pc = [a \in Agent |-> "idle"] /\ trigger = [a \in Agent |-> FALSE]
      /\ mail = [a \in Agent |-> FALSE] /\ held = [a \in Agent |-> FALSE]
      /\ told = [a \in Agent |-> "no"]
      /\ busy = "no" /\ sight = {}
      /\ waking = FALSE /\ todo = {} /\ at = NoAgent /\ mine = FALSE
    BY DEF Init
<1>3. Running = boot
    BY <1>1 DEF Running
<1>4. /\ Cardinality(boot) \in Nat /\ Unread \in Nat /\ others < Unread
    BY <1>1, CountAgents, CountAll, SessionsAssumption DEF Unread
<1>5. Cardinality({}) = 0
    BY FS_EmptySet
<1>6. last \in 0 .. Unread /\ admitted \in 0 .. Sessions
    BY <1>1, <1>4, <1>5, SessionsAssumption
<1>7. TypeOK
    BY <1>1, <1>2, <1>6 DEF TypeOK
<1>8. DeliverInv /\ RefusedMailKept
    BY <1>2 DEF DeliverInv, RefusedMailKept
<1>9. CountInv
    BY <1>1, <1>3, <1>4 DEF CountInv
<1> QED
    BY <1>7, <1>8, <1>9 DEF CeilingInv

-----------------------------------------------------------------------------
(* The agents' steps. *)

\* Every step but a reading's and the gate's leave lets nobody through: it changes
\* neither the last reading nor what was admitted since, and no fewer are parked.
NoneLetThrough ==
    UNCHANGED <<last, admitted, others, missed>> /\ Running' \subseteq Running

LEMMA NoneLetThroughCounts ==
    ASSUME CeilingInv, NoneLetThrough
    PROVE  CountInv' /\ Cardinality(Running)' <= Cardinality(Running)
<1>1. /\ IsFiniteSet(Running) /\ Cardinality(Running) \in Nat
      /\ Cardinality(Running)' \in Nat /\ Cardinality(Running)' <= Cardinality(Running)
    BY CountAgents, FS_Subset, FS_CardinalityType DEF NoneLetThrough, Running
<1>2. last \in Nat /\ admitted \in Nat /\ others \in Nat
    BY DEF CeilingInv, TypeOK
<1> QED
    BY <1>1, <1>2 DEF CeilingInv, CountInv, NoneLetThrough, Unread

\* Taking the lock touches who waits for it and whose resume it is.
LEMMA TakesLock ==
    ASSUME TypeOK, NEW a \in Agent, NEW looped \in BOOLEAN, Takes(a, looped)
    PROVE  pc[a] = "idle" /\ trigger' \in [Agent -> BOOLEAN] /\ mine' \in BOOLEAN
BY DEF Takes, TypeOK

\* An agent let through: below the ceiling with it, by the last reading.
LEMMA AdmitCounts ==
    ASSUME CeilingInv, NEW a \in Agent, NEW looped \in BOOLEAN, Admit(a, looped)
    PROVE  CeilingInv' /\ (~missed => Cardinality(Running)' + others <= Sessions)
<1> USE DEF CeilingInv
<1>1. /\ st[a] = "parked" /\ st' = [st EXCEPT ![a] = "starting"]
      /\ pc' = [pc EXCEPT ![a] = "admitted"] /\ told' = [told EXCEPT ![a] = "no"]
      /\ UNCHANGED <<mail, held, engaged, under, last, busy, sight, others, missed,
                     waking, todo, at>>
    BY DEF Admit, step
<1>2. trigger' \in [Agent -> BOOLEAN] /\ mine' \in BOOLEAN
    BY TakesLock DEF Admit
<1>3. Running' = Running \cup {a} /\ a \notin Running
    BY <1>1 DEF Running, TypeOK
<1>4. IsFiniteSet(Running) /\ Cardinality(Running) \in Nat
    BY CountAgents DEF Running
<1>5. Cardinality(Running)' = Cardinality(Running) + 1
  <2>1. Cardinality(Running \cup {a}) = Cardinality(Running) + 1
      BY <1>3, <1>4, FS_AddElement
  <2> QED BY <2>1, <1>3
<1>6. /\ last # Unread => last + admitted < Sessions /\ admitted' = admitted + 1
      /\ last = Unread => admitted' = admitted
    BY SessionsAssumption, ReadingBelow DEF Admit, Admits, Over, ReadOK, Counted, TypeOK
<1>7. last \in Nat /\ admitted \in 0 .. Sessions /\ others \in Nat
    BY DEF TypeOK
<1>8. admitted' \in 0 .. Sessions
    BY <1>6, <1>7, SessionsAssumption
<1>9. TypeOK'
    BY <1>1, <1>2, <1>8 DEF TypeOK, Unread
<1>10. CountInv'
    BY <1>1, <1>4, <1>5, <1>6, <1>7 DEF CountInv, Unread
<1>11. DeliverInv' /\ RefusedMailKept'
    BY <1>1 DEF TypeOK, DeliverInv, RefusedMailKept
<1>12. ~missed => Cardinality(Running)' + others <= Sessions
    BY <1>4, <1>5, <1>6, <1>7, SessionsAssumption DEF CountInv
<1> QED
    BY <1>9, <1>10, <1>11, <1>12

\* The gate's refusal by itself tells nobody and marks nothing.
LEMMA RefuseKeeps ==
    ASSUME CeilingInv, NEW a \in Agent, NEW looped \in BOOLEAN, Refuse(a, looped)
    PROVE  TypeOK' /\ DeliverInv' /\ RefusedMailKept' /\ NoneLetThrough
<1> USE DEF CeilingInv
<1>1. /\ st[a] = "parked"
      /\ pc' = [pc EXCEPT ![a] = IF engaged THEN "engaged" ELSE "short"]
      /\ UNCHANGED <<st, mail, held, told, engaged, under, last, admitted, busy, sight,
                     others, missed, waking, todo, at>>
    BY DEF Refuse, gate, step
<1>2. trigger' \in [Agent -> BOOLEAN] /\ mine' \in BOOLEAN
    BY TakesLock DEF Refuse
<1> QED
    BY <1>1, <1>2 DEF TypeOK, DeliverInv, RefusedMailKept, NoneLetThrough, Running, Unread

\* What is told at the mark is so: the mail is parked and marked, and a clear that
\* is waited for is still to come, whatever happened since the gate answered.
LEMMA MarkKeeps ==
    ASSUME CeilingInv, NEW a \in Agent, Mark(a)
    PROVE  TypeOK' /\ DeliverInv' /\ RefusedMailKept' /\ NoneLetThrough
<1> USE DEF CeilingInv
<1> DEFINE ends == at = a /\ mine
<1>1. /\ pc[a] \in {"engaged", "short"} /\ pc' = [pc EXCEPT ![a] = "idle"]
      /\ UNCHANGED <<st, trigger, mail, engaged, under, last, admitted, busy, sight, others,
                     missed, waking>>
      /\ held' = [held EXCEPT ![a] = @ \/ mail[a]]
    BY DEF Mark, Refusal, gate, step
<1>2. told' = [b \in Agent |->
         IF (b = a /\ mail[a]) \/ (ends /\ b \in todo /\ told[b] # "no")
         THEN Waits(a) ELSE told[b]]
    BY DEF Mark, Refusal
<1>3. \/ ends /\ todo' = {} /\ at' = NoAgent /\ mine' = FALSE
      \/ ~ends /\ UNCHANGED <<todo, at, mine>>
    BY DEF Mark, Refusal
<1>4. /\ Waits(a) \in {"engaged", "short", "late"}
      /\ Waits(a) = "engaged" => engaged \/ busy = "cleared"
    BY <1>1 DEF Waits
<1>5. st[a] = "parked"
    BY <1>1 DEF DeliverInv
<1>6. TypeOK'
  <2>1. told' \in [Agent -> {"no", "engaged", "short", "late"}]
      BY <1>2, <1>4 DEF TypeOK
  <2>2. held' \in [Agent -> BOOLEAN] /\ pc' \in [Agent -> {"idle", "admitted", "engaged", "short", "deliver"}]
      BY <1>1 DEF TypeOK
  <2>3. todo' \subseteq Agent /\ at' \in Agent \cup {NoAgent} /\ mine' \in BOOLEAN
      BY <1>3 DEF TypeOK
  <2> QED BY <1>1, <2>1, <2>2, <2>3 DEF TypeOK, Unread
<1>7. RefusedMailKept'
  <2> SUFFICES ASSUME NEW b \in Agent
               PROVE  /\ told'[b] # "no" => st'[b] = "parked" /\ mail'[b] /\ held'[b]
                      /\ told'[b] = "engaged" => engaged' \/ busy' = "cleared"
                                                   \/ b \in todo' \cup {at'}
      BY DEF RefusedMailKept
  <2>1. /\ told[b] # "no" => st[b] = "parked" /\ mail[b] /\ held[b]
        /\ told[b] = "engaged" => engaged \/ busy = "cleared" \/ b \in todo \cup {at}
      BY DEF RefusedMailKept
  <2>2. held[b] => held'[b]
      BY <1>1 DEF TypeOK
  <2>3. CASE b = a /\ mail[a]
      BY <2>3, <1>1, <1>2, <1>4, <1>5 DEF TypeOK
  <2>4. CASE ~(b = a /\ mail[a])
    <3>1. told'[b] # "no" => told[b] # "no"
        BY <2>4, <1>2
    <3>2. told'[b] = "engaged" => \/ engaged \/ busy = "cleared"
                                  \/ told[b] = "engaged" /\ ~(ends /\ b \in todo)
        BY <2>4, <1>2, <1>4
    <3>3. b = a => told[b] = "no"
        BY <2>4, <2>1
    <3> HIDE DEF ends
    <3> QED BY <3>1, <3>2, <3>3, <2>1, <2>2, <1>1, <1>3 DEF ends
  <2> QED BY <2>3, <2>4
<1>8. DeliverInv' /\ NoneLetThrough
    BY <1>1 DEF DeliverInv, NoneLetThrough, Running
<1> QED BY <1>6, <1>7, <1>8

\* The steps of an agent that ask nothing of the gate.
Beside(a) == \/ NoteGone(a) \/ Up(a) \/ Deliver(a) \/ Send(a) \/ SendAgain(a)
             \/ BootFails(a) \/ Park(a) \/ \E looped \in BOOLEAN : FindsAwake(a, looped)

LEMMA BesideKeeps ==
    ASSUME CeilingInv, NEW a \in Agent, Beside(a)
    PROVE  TypeOK' /\ DeliverInv' /\ RefusedMailKept' /\ NoneLetThrough
<1> USE DEF CeilingInv
<1>1. UNCHANGED <<told, gate, step, waking, todo>>
    BY DEF Beside, NoteGone, Up, Deliver, Send, SendAgain, BootFails, Park, FindsAwake, LoopOn,
       loop
<1>2. CASE Up(a)
    BY <1>1, <1>2 DEF Up, TypeOK, DeliverInv, RefusedMailKept, NoneLetThrough, Running, Unread,
       gate, step, loop
<1>3. CASE Deliver(a)
  <2>1. /\ st[a] = "up" /\ told[a] = "no" /\ (at' = at \/ (at = a /\ at' = NoAgent))
        /\ mail' = [mail EXCEPT ![a] = FALSE] /\ pc' = [pc EXCEPT ![a] = "idle"]
        /\ mine' \in BOOLEAN /\ UNCHANGED <<st, trigger, held>>
      BY <1>3 DEF Deliver, DeliverInv, RefusedMailKept, LoopOn, loop, TypeOK
  <2> QED
      BY <1>1, <2>1 DEF TypeOK, DeliverInv, RefusedMailKept, NoneLetThrough, Running, Unread,
         gate, step
<1>4. CASE Send(a) \/ SendAgain(a)
  <2>1. /\ mail' \in [Agent -> BOOLEAN] /\ trigger' \in [Agent -> BOOLEAN]
        /\ \A b \in Agent : mail[b] => mail'[b]
        /\ UNCHANGED <<st, pc, held>> /\ UNCHANGED <<at, mine>>
      BY <1>4 DEF Send, SendAgain, TypeOK, loop
  <2> QED
      BY <1>1, <2>1 DEF TypeOK, DeliverInv, RefusedMailKept, NoneLetThrough, Running, Unread,
         gate, step
<1>5. CASE BootFails(a)
  <2>1. /\ st[a] = "starting" /\ told[a] = "no" /\ (at' = at \/ (at = a /\ at' = NoAgent))
        /\ pc[a] = "idle" /\ mine' \in BOOLEAN
        /\ st' = [st EXCEPT ![a] = "parked"] /\ UNCHANGED <<pc, trigger, mail, held>>
      BY <1>5 DEF BootFails, RefusedMailKept, LoopOn, loop, TypeOK
  <2> QED
      BY <1>1, <2>1 DEF TypeOK, DeliverInv, RefusedMailKept, NoneLetThrough, Running, Unread,
         gate, step
<1>6. CASE Park(a)
    BY <1>1, <1>6 DEF Park, TypeOK, DeliverInv, RefusedMailKept, NoneLetThrough, Running, Unread,
       gate, step, loop
<1>7. CASE NoteGone(a)
  <2>1. /\ pc[a] = "admitted" /\ st[a] = "starting" /\ told[a] = "no"
        /\ pc' = [pc EXCEPT ![a] = "idle"] /\ held' = [held EXCEPT ![a] = FALSE]
        /\ UNCHANGED <<st, trigger, mail, at, mine>>
      BY <1>7 DEF NoteGone, DeliverInv, RefusedMailKept, loop
  <2> QED
      BY <1>1, <2>1 DEF TypeOK, DeliverInv, RefusedMailKept, NoneLetThrough, Running, Unread,
         gate, step
<1>8. ASSUME NEW looped \in BOOLEAN, FindsAwake(a, looped)
      PROVE  TypeOK' /\ DeliverInv' /\ RefusedMailKept' /\ NoneLetThrough
  <2>1. /\ st[a] = "up" /\ told[a] = "no" /\ (at' = at \/ (at = a /\ at' = NoAgent))
        /\ trigger' \in [Agent -> BOOLEAN] /\ UNCHANGED <<st, pc, mail, held, mine>>
      BY <1>8 DEF FindsAwake, RefusedMailKept, TypeOK
  <2> QED
      BY <1>1, <2>1 DEF TypeOK, DeliverInv, RefusedMailKept, NoneLetThrough, Running, Unread,
         gate, step
<1> QED
    BY <1>2, <1>3, <1>4, <1>5, <1>6, <1>7, <1>8 DEF Beside

-----------------------------------------------------------------------------
(* The reading, the wake of what was held, and its loop. *)

\* What was read counts every agent it was meant to: the bound starts over.
LEMMA ReadEndKeeps ==
    ASSUME CeilingInv, ReadEnd
    PROVE  CeilingInv' /\ Running' = Running
<1> USE DEF CeilingInv
<1> DEFINE awake == {a \in sight : st[a] = "up"}
<1>1. PICK n \in {Cardinality(awake) + others'} \cup {Unread} :
         /\ Step(n)
         /\ busy' = IF Clears(n) THEN "cleared" ELSE "no"
         /\ missed' = (n = Unread \/ \E a \in Agent : st[a] # "parked" /\ a \notin awake)
    BY DEF ReadEnd
<1>2. UNCHANGED <<st, pc, trigger, mail, held, told, waking, todo, at, mine>>
      /\ others' \in 0 .. MaxOthers /\ sight' = {}
    BY DEF ReadEnd, agents, loop
<1>3. awake \in SUBSET Agent
    BY DEF TypeOK
<1>4. /\ n \in 0 .. Unread /\ Unread \in Nat
      /\ n # Unread => n = Cardinality(awake) + others'
    BY <1>1, <1>2, <1>3, ReadingBelow
<1> HIDE DEF awake
<1>5. last' = n /\ admitted' = 0 /\ engaged' \in BOOLEAN /\ under' \in BOOLEAN
    BY <1>1 DEF Step, TypeOK
<1>6. TypeOK'
    BY <1>1, <1>2, <1>4, <1>5, SessionsAssumption DEF TypeOK, Unread
<1>7. CountInv'
  <2> SUFFICES ASSUME ~missed' PROVE n # Unread /\ Cardinality(Running)' + others' <= n
      BY <1>4, <1>5 DEF CountInv, Unread
  <2>1. n # Unread /\ Running' \subseteq awake
      BY <1>1, <1>2 DEF Running
  <2>2. Cardinality(Running') <= Cardinality(awake) /\ Cardinality(awake) \in Nat
        /\ Cardinality(Running') \in Nat
      BY <2>1, <1>3, CountAgents, FS_Subset, FS_CardinalityType
  <2> QED
      BY <2>1, <2>2, <1>2, <1>4 DEF TypeOK
<1>8. engaged => engaged' \/ busy' = "cleared"
  <2>1. engaged' = ((n # Unread /\ n >= Sessions) \/ (engaged /\ ~under))
      BY <1>1 DEF Step
  <2>2. n \in Nat /\ Sessions \in Nat
      BY <1>4, SessionsAssumption
  <2>3. CASE n # Unread /\ n >= Sessions
      BY <2>1, <2>3
  <2>4. CASE n = Unread \/ n < Sessions
      BY <1>1, <2>1, <2>4 DEF Clears
  <2> QED BY <2>2, <2>3, <2>4
<1>9. busy = "read" /\ Running' = Running /\ DeliverInv'
    BY <1>2 DEF DeliverInv, Running, ReadEnd
<1>10. RefusedMailKept'
    BY <1>2, <1>8, <1>9 DEF RefusedMailKept
<1> QED
    BY <1>6, <1>7, <1>9, <1>10

\* What a clear wakes is all the gate refused; with a loop running, what that loop
\* does not have waits for another reason from now on.
LEMMA WakeHeldKeeps ==
    ASSUME CeilingInv, WakeHeld
    PROVE  TypeOK' /\ DeliverInv' /\ RefusedMailKept' /\ NoneLetThrough
<1> USE DEF CeilingInv
<1>1. /\ busy = "cleared" /\ busy' = "no"
      /\ UNCHANGED <<st, pc, trigger, mail, engaged, under, last, admitted, sight, others,
                     missed>>
    BY DEF WakeHeld, gate
<1>2. CASE waking
  <2>1. /\ told' = [a \in Agent |-> IF told[a] = "engaged" /\ a \notin todo \cup {at}
                                    THEN "late" ELSE told[a]]
        /\ UNCHANGED <<held, waking, todo, at, mine>>
      BY <1>2 DEF WakeHeld, loop
  <2>2. told' \in [Agent -> {"no", "engaged", "short", "late"}]
      BY <2>1 DEF TypeOK
  <2> QED
      BY <1>1, <2>1, <2>2 DEF TypeOK, DeliverInv, RefusedMailKept, NoneLetThrough, Running, Unread
<1>3. CASE ~waking
  <2>1. /\ waking' = TRUE
        /\ todo' = {a \in Agent : held[a] /\ st[a] # "up" /\ mail[a]}
        /\ held' = [a \in Agent |-> a \in todo'] /\ UNCHANGED <<at, mine, told>>
      BY <1>3 DEF WakeHeld
  <2> QED
      BY <1>1, <2>1 DEF TypeOK, DeliverInv, RefusedMailKept, NoneLetThrough, Running, Unread
<1> QED BY <1>2, <1>3

\* The loop passes over an agent only when it is up, and so has no refused mail.
LEMMA LoopKeeps ==
    ASSUME CeilingInv, Loop \/ ReadBegin
    PROVE  TypeOK' /\ DeliverInv' /\ RefusedMailKept' /\ NoneLetThrough
<1> USE DEF CeilingInv
<1>1. ASSUME NEW a \in Agent, LoopTakes(a)
      PROVE  TypeOK' /\ DeliverInv' /\ RefusedMailKept' /\ NoneLetThrough
  <2>1. /\ at = NoAgent /\ todo' = todo \ {a} /\ at' = IF st[a] = "up" THEN NoAgent ELSE a
        /\ UNCHANGED <<st, pc, trigger, mail, held, told, engaged, under, last, admitted,
                       busy, sight, others, missed, waking, mine>>
      BY <1>1 DEF LoopTakes, agents, gate, step
  <2>2. NoAgent \notin Agent
      BY AgentAssumption
  <2> QED
      BY <2>1, <2>2 DEF TypeOK, DeliverInv, RefusedMailKept, NoneLetThrough, Running, Unread
<1>2. CASE LoopEnds
    BY <1>2 DEF LoopEnds, agents, gate, step, TypeOK, DeliverInv, RefusedMailKept,
       NoneLetThrough, Running, Unread
<1>3. CASE ReadBegin
  <2>1. /\ busy = "no" /\ busy' = "read" /\ sight' \subseteq Agent
        /\ UNCHANGED <<st, pc, trigger, mail, held, told, engaged, under, last, admitted,
                       others, missed, waking, todo, at, mine>>
      BY <1>3 DEF ReadBegin, agents, gate, loop
  <2> QED
      BY <2>1 DEF TypeOK, DeliverInv, RefusedMailKept, NoneLetThrough, Running, Unread
<1> QED BY <1>1, <1>2, <1>3 DEF Loop

-----------------------------------------------------------------------------
(* Every step. *)

\* A step keeps the invariant; if more agents run after it, it was an admission.
LEMMA CeilingNext ==
    ASSUME CeilingInv, [Next]_vars
    PROVE  /\ CeilingInv'
           /\ ~missed /\ Cardinality(Running') > Cardinality(Running)
                => Cardinality(Running') + others <= Sessions
<1> DEFINE Burst == ~missed /\ Cardinality(Running') > Cardinality(Running)
                      => Cardinality(Running') + others <= Sessions
<1>1. Cardinality(Running) \in Nat
    BY CountAgents DEF Running
<1>2. ASSUME TypeOK' /\ DeliverInv' /\ RefusedMailKept' /\ NoneLetThrough
      PROVE  CeilingInv' /\ Burst
  <2>1. CountInv' /\ Cardinality(Running)' <= Cardinality(Running)
      BY <1>2, NoneLetThroughCounts
  <2>2. Cardinality(Running') \in Nat
      BY <1>2, <1>1, CountAgents DEF NoneLetThrough, Running
  <2> QED
      BY <1>2, <1>1, <2>1, <2>2 DEF CeilingInv
<1>3. ASSUME NEW a \in Agent,
             (\E looped \in BOOLEAN : Turn(a, looped)) \/ Mark(a) \/ Beside(a)
      PROVE  CeilingInv' /\ Burst
  <2>1. ASSUME NEW looped \in BOOLEAN, Admit(a, looped) PROVE CeilingInv' /\ Burst
      BY <2>1, AdmitCounts DEF Running
  <2>2. ASSUME NEW looped \in BOOLEAN, Refuse(a, looped) PROVE CeilingInv' /\ Burst
      BY <2>2, RefuseKeeps, <1>2
  <2>3. CASE Mark(a)
      BY <2>3, MarkKeeps, <1>2
  <2>4. CASE Beside(a)
      BY <2>4, BesideKeeps, <1>2
  <2> QED
      BY <1>3, <2>1, <2>2, <2>3, <2>4 DEF Turn, Beside
<1>4. CASE ReadEnd
    BY <1>4, <1>1, ReadEndKeeps
<1>5. CASE WakeHeld
    BY <1>5, <1>2, WakeHeldKeeps
<1>6. CASE Loop \/ ReadBegin
    BY <1>6, <1>2, LoopKeeps
<1>7. CASE UNCHANGED vars
    BY <1>7, <1>2 DEF vars, CeilingInv, TypeOK, DeliverInv, RefusedMailKept, NoneLetThrough,
       Running, Unread
<1> QED
  <2>1. ASSUME NEW a \in Agent,
               \/ Turn(a, TRUE) \/ Turn(a, FALSE) \/ Going(a)
               \/ Send(a) \/ SendAgain(a) \/ BootFails(a) \/ Park(a)
        PROVE  (\E looped \in BOOLEAN : Turn(a, looped)) \/ Mark(a) \/ Beside(a)
      BY <2>1 DEF Going, Beside
  <2> QED
      BY <2>1, <1>3, <1>4, <1>5, <1>6, <1>7 DEF Next, Reading

-----------------------------------------------------------------------------
\* Each variable keeps its type, and what is let through between two readings
\* never exceeds the ceiling (gate.go, Gate.admitted), whatever the instance.
THEOREM CeilingTypes == Spec => []TypeOK
<1>1. CeilingInv => TypeOK
    BY DEF CeilingInv
<1> QED
    BY <1>1, CeilingInit, CeilingNext, PTL DEF Spec

\* Mail the ceiling refused is marked from when its sender is told, through every
\* clear and wake, so that the next clear lists it; and what is said to wait for the
\* gate's clear has it still to come (machine_ceiling.go, wakeCeilingHeld).
THEOREM RefusedMailIsKept == Spec => []RefusedMailKept
<1>1. CeilingInv => RefusedMailKept
    BY DEF CeilingInv
<1> QED
    BY <1>1, CeilingInit, CeilingNext, PTL DEF Spec

\* A burst of starts and wakes between two readings never carries the machine past
\* the ceiling (gate.go, Gate.Admit), for any number of agents and any ceiling.
THEOREM BurstStaysWithin == Spec => BurstWithinCeiling
<1>1. CeilingInv /\ [Next]_vars =>
        [~missed /\ Cardinality(Running') > Cardinality(Running)
            => Cardinality(Running') + others <= Sessions]_vars
    BY CeilingNext
<1> QED
    BY <1>1, CeilingInit, CeilingNext, PTL DEF Spec, BurstWithinCeiling
=============================================================================
