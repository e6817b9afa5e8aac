--------------------------- MODULE BeadWork_proofs ---------------------------
(* For any number of commands and agents, and any configured lifecycle.        *)
EXTENDS BeadWork, TLAPS

\* What the chain holds is a status.
LEMMA ChainInSeq == Chain \in Seq(Status)
<1> DEFINE first == CHOOSE i \in DOMAIN Custom : Custom[i] = "qa_passed"
<1>1. Custom \in Seq(Status)
  <2>1. \A i \in 1..Len(Custom) : Custom[i] \in Status
    <3>1. Entry \subseteq Status
      BY DEF Status
    <3>2. DOMAIN Custom = 1..Len(Custom)
      BY CustomAssumption
    <3> QED BY <3>1, <3>2 DEF Entry
  <2>2. Custom \in [1..Len(Custom) -> Status] /\ Len(Custom) \in Nat
    BY <2>1, CustomAssumption
  <2> QED BY <2>2
<1>2. {"open", "in_progress", "closed"} \subseteq Status
  BY DEF Status
<1>3. <<"open", "in_progress">> \in Seq(Status)
  BY <1>2
<1>4. CASE "qa_passed" \in Entry
  <2>1. first \in DOMAIN Custom
    BY <1>4 DEF Entry
  <2>2. Chain = <<"open", "in_progress">> \o SubSeq(Custom, 1, first)
    BY <1>4 DEF Chain
  <2> HIDE DEF first
  <2>3. first \in 1..Len(Custom)
    BY <2>1, <1>1
  <2>4. SubSeq(Custom, 1, first) \in Seq(Status)
    BY <2>3, <1>1
  <2> QED BY <2>2, <2>4, <1>3
<1>5. CASE "qa_passed" \notin Entry
  <2>1. Chain = <<"open", "in_progress">> \o Append(Custom, "closed")
    BY <1>5 DEF Chain
  <2>2. Append(Custom, "closed") \in Seq(Status)
    BY <1>1, <1>2
  <2> QED BY <2>1, <2>2, <1>3
<1> QED BY <1>4, <1>5

LEMMA ChainStatus == \A i \in DOMAIN Chain : Chain[i] \in Status
BY ChainInSeq

\* A transition of the table is one that can be planned.
LEMMA DeliverPlans ==
    ASSUME NEW f, NEW s, NEW v, NEW t \in Deliver(f, s, v)
    PROVE  t.status \in Status /\ t.op \in Op /\ t.rec \in BOOLEAN
<1>1. NextState(s) \subseteq Status /\ PrevState(s) \subseteq Status
  <2>1. Len(Chain) \in Nat /\ DOMAIN Chain = 1..Len(Chain)
    BY ChainInSeq
  <2> QED BY <2>1, ChainStatus DEF NextState, PrevState
<1>2. {"in_progress", "qa_passed", "ready_for_qa"} \subseteq Status
  BY DEF Status
<1>3. \A u \in Status, op \in Op, r \in BOOLEAN : LET x == Transition(u, op, r) IN
         x.status \in Status /\ x.op \in Op /\ x.rec \in BOOLEAN
  BY DEF Transition
<1>4. {"implementer", "keep", "clear"} \subseteq Op
  BY DEF Op
<1>5. \/ t \in {Transition("in_progress", "implementer", FALSE), Transition("qa_passed", "keep", FALSE),
              Transition("ready_for_qa", "clear", TRUE)}
      \/ \E u \in NextState(s) \cup PrevState(s) : t = Transition(u, "keep", FALSE)
  <2> HIDE DEF Transition, NextState, PrevState
  <2> QED BY DEF Deliver
<1> QED BY <1>1, <1>2, <1>3, <1>4, <1>5

-----------------------------------------------------------------------------
(* Types. *)

LEMMA DispatchPlans ==
    ASSUME NEW f
    PROVE  /\ Dispatch(f).status \in Status /\ Dispatch(f).op \in Op
           /\ Dispatch(f).rec \in BOOLEAN
BY DEF Dispatch, Transition, Op, Status

LEMMA EndTypes ==
    ASSUME TypeOK, NEW c \in Call, End(c)
    PROVE  /\ pc' \in [Call -> Pcs] /\ cmd' \in [Call -> Command]
           /\ seen' \in [Call -> [status : Status, assignee : Holder]]
           /\ plan' \in [Call -> Plan]
           /\ \A d \in Call : Delivering(d)' => Delivering(d) /\ d # c
           /\ \A d \in Call \ {c} : seen'[d] = seen[d] /\ cmd'[d] = cmd[d]
<1>1. NoCommand \in Command /\ NoPlan \in Plan /\ Unseen \in [status : Status, assignee : Holder]
  BY DEF NoCommand, NoPlan, Unseen, Command, Plan, Holder, Verdict, Op, Status
<1>2. /\ pc' = [pc EXCEPT ![c] = "done"] /\ cmd' = [cmd EXCEPT ![c] = NoCommand]
      /\ seen' = [seen EXCEPT ![c] = Unseen] /\ plan' = [plan EXCEPT ![c] = NoPlan]
  BY DEF End, Goto
<1>3. "done" \in Pcs
  BY DEF Pcs
<1>4. pc'[c] = "done" /\ \A d \in Call \ {c} : pc'[d] = pc[d]
  BY <1>2 DEF TypeOK
<1>5. ~Delivering(c)'
  BY <1>4 DEF Delivering, InLock
<1> QED BY <1>1, <1>2, <1>3, <1>4, <1>5 DEF TypeOK, Delivering

\* Past the refusals, a delivery keeps what it saw.
Entitled == \A c \in Call : Delivering(c) =>
    seen[c].status \notin Side /\ seen[c].assignee \in {NoAgent, cmd[c].who}

LEMMA GotoTypes ==
    ASSUME TypeOK, NEW c \in Call, NEW p \in Pcs, Goto(c, p)
    PROVE  /\ pc' \in [Call -> Pcs] /\ pc'[c] = p
           /\ \A d \in Call \ {c} : pc'[d] = pc[d]
BY DEF TypeOK, Goto

\* A step of a delivery under way, or of a command that is none.
LEMMA StaysEntitled ==
    ASSUME TypeOK, NEW c \in Call, NEW p \in Pcs, Goto(c, p), UNCHANGED <<cmd, seen>>,
           Delivering(c) \/ p \in {"look", "dispatch", "show"}
    PROVE  Entitled'
<1>1. \A d \in Call : Delivering(d)' => Delivering(d)
  BY GotoTypes DEF Delivering, InLock
<1> QED BY <1>1 DEF TypeOK, Entitled

LEMMA TypeStays == TypeOK /\ [Next]_vars => TypeOK'
<1> SUFFICES ASSUME TypeOK, [Next]_vars PROVE TypeOK'
  OBVIOUS
<1> USE DEF bead, file, own
<1>types. /\ status \in Status /\ assignee \in Holder /\ implementer \in Holder
          /\ pc \in [Call -> Pcs] /\ cmd \in [Call -> Command]
          /\ seen \in [Call -> [status : Status, assignee : Holder]]
          /\ plan \in [Call -> Plan]
          /\ lock \in Call \cup {NoCall} /\ old \in BOOLEAN /\ robbed \in BOOLEAN
          /\ passed \subseteq Call
  BY DEF TypeOK
<1>pcs. {"idle", "show", "record", "acquire", "takeOver", "look", "dispatch", "done",
         "reread", "write", "release"} \subseteq Pcs
  BY DEF Pcs, InLock
<1>1. ASSUME NEW c \in Call, RunDeliver(c) PROVE TypeOK'
  <2>1. cmd' \in [Call -> Command] /\ \A d \in Call \ {c} : cmd'[d] = cmd[d]
    <3>1. PICK a \in Agent : \E v \in Verdicts(a) :
             cmd' = [cmd EXCEPT ![c] = [who |-> a, verdict |-> v, move |-> FALSE]]
      BY <1>1 DEF RunDeliver
    <3>2. \A v \in Verdicts(a) : [who |-> a, verdict |-> v, move |-> FALSE] \in Command
      BY DEF Command, Verdicts, Verdict, Holder
    <3> QED BY <3>1, <3>2, <1>types
  <2>2. pc' \in [Call -> Pcs] /\ pc'[c] = "show" /\ \A d \in Call \ {c} : pc'[d] = pc[d]
    BY <1>1, <1>pcs, GotoTypes DEF RunDeliver
  <2>3. Entitled'
    BY <1>1, <2>1, <2>2 DEF RunDeliver, TypeOK, Entitled, Delivering, InLock
  <2> QED BY <1>1, <1>types, <2>1, <2>2, <2>3 DEF RunDeliver, TypeOK, Entitled
<1>2. ASSUME NEW c \in Call, RunAssign(c) PROVE TypeOK'
  <2>1. cmd' \in [Call -> Command] /\ \A d \in Call \ {c} : cmd'[d] = cmd[d]
    <3>1. PICK a \in Agent, mv \in BOOLEAN :
             cmd' = [cmd EXCEPT ![c] = [who |-> a, verdict |-> "none", move |-> mv]]
      BY <1>2 DEF RunAssign
    <3>2. [who |-> a, verdict |-> "none", move |-> mv] \in Command
      BY DEF Command, Verdict, Holder
    <3> QED BY <3>1, <3>2, <1>types
  <2>2. pc' \in [Call -> Pcs] /\ pc'[c] = "look" /\ \A d \in Call \ {c} : pc'[d] = pc[d]
    BY <1>2, <1>pcs, GotoTypes DEF RunAssign
  <2>3. Entitled'
    BY <1>2, <2>1, <2>2 DEF RunAssign, TypeOK, Entitled, Delivering, InLock
  <2> QED BY <1>2, <1>types, <2>1, <2>2, <2>3 DEF RunAssign, TypeOK, Entitled
<1>3. ASSUME NEW c \in Call, Show(c), ~Refused(c) PROVE TypeOK'
  <2>1. PICK t \in Deliver(Family[cmd[c].who], status, cmd[c].verdict) :
           /\ plan' = [plan EXCEPT ![c] = [status |-> t.status, op |-> t.op,
                                           rec |-> t.rec, to |-> NoAgent]]
           /\ Goto(c, IF t.op = "implementer" THEN "record" ELSE "acquire")
    BY <1>3 DEF Show
  <2>2. [status |-> t.status, op |-> t.op, rec |-> t.rec, to |-> NoAgent] \in Plan
    BY DeliverPlans DEF Plan, Holder
  <2>3. pc' \in [Call -> Pcs] /\ \A d \in Call \ {c} : pc'[d] = pc[d]
    BY <2>1, <1>pcs, GotoTypes
  <2>4. seen' = [seen EXCEPT ![c] = [status |-> status, assignee |-> assignee]] /\ cmd' = cmd
    BY <1>3 DEF Show
  <2>5. status \notin Side /\ assignee \in {NoAgent, cmd[c].who}
    BY <1>3 DEF Refused
  <2>6. Entitled'
    BY <2>3, <2>4, <2>5, <1>types DEF TypeOK, Entitled, Delivering
  <2> QED BY <1>3, <1>types, <2>1, <2>2, <2>3, <2>4, <2>6 DEF Show, TypeOK, Entitled
<1>4. ASSUME NEW c \in Call, End(c), UNCHANGED bead, lock' \in Call \cup {NoCall},
             old' \in BOOLEAN, robbed' \in BOOLEAN, passed' \subseteq Call
      PROVE  TypeOK'
  BY <1>4, <1>types, EndTypes DEF TypeOK
<1>5. ASSUME NEW c \in Call, ReadImplementer(c) PROVE TypeOK'
  <2>1. PICK to \in Holder : plan' = [plan EXCEPT ![c].to = to]
    BY <1>5, <1>types DEF ReadImplementer, Holder
  <2>2. plan' \in [Call -> Plan]
    BY <2>1, <1>types DEF Plan
  <2>3. Goto(c, "acquire") /\ Delivering(c) /\ UNCHANGED <<cmd, seen>>
    BY <1>5 DEF ReadImplementer, Delivering
  <2> QED BY <1>5, <1>types, <1>pcs, <2>2, <2>3, GotoTypes, StaysEntitled
          DEF ReadImplementer, TypeOK, Entitled
\* The steps of a delivery that move it and change no more than the bead and the file.
<1>6. ASSUME NEW c \in Call, NEW p \in Pcs, Goto(c, p), Delivering(c), UNCHANGED <<own, passed>>,
             status' \in Status, assignee' \in Holder, implementer' \in Holder,
             lock' \in Call \cup {NoCall}, old' \in BOOLEAN, robbed' \in BOOLEAN
      PROVE  TypeOK'
  BY <1>6, <1>types, GotoTypes, StaysEntitled DEF TypeOK, Entitled
<1>7. ASSUME NEW c \in Call, CreateLock(c) \/ FindStale(c) \/ TakeOver(c) PROVE TypeOK'
  BY <1>7, <1>6, <1>types, <1>pcs DEF CreateLock, FindStale, TakeOver, RemoveFile, Delivering
<1>8. ASSUME NEW c \in Call, Reread(c) \/ BdFails(c) PROVE TypeOK'
  BY <1>8, <1>6, <1>types, <1>pcs DEF Reread, BdFails, Delivering, InLock
<1>9. ASSUME NEW c \in Call, WriteBead(c) PROVE TypeOK'
  <2>1. plan[c].status \in Status /\ plan[c].to \in Holder /\ cmd[c].who \in Holder
    BY <1>types DEF Plan, Command
  <2> QED BY <1>9, <2>1, <1>6, <1>types, <1>pcs DEF WriteBead, Delivering, InLock
<1>10. ASSUME NEW c \in Call, Look(c), ~End(c) PROVE TypeOK'
  <2> DEFINE t == Dispatch(Family[cmd[c].who])
  <2>1. /\ plan' = [plan EXCEPT ![c] = [status |-> t.status, op |-> t.op, rec |-> t.rec,
                                        to |-> cmd[c].who]]
        /\ Goto(c, "dispatch") /\ UNCHANGED <<cmd, seen>>
    BY <1>10 DEF Look
  <2>2. [status |-> t.status, op |-> t.op, rec |-> t.rec, to |-> cmd[c].who] \in Plan
    BY DispatchPlans, <1>types DEF Plan, Command
  <2>3. plan' \in [Call -> Plan]
    BY <2>1, <2>2, <1>types
  <2>4. UNCHANGED <<bead, file, passed>>
    BY <1>10 DEF Look
  <2> HIDE DEF t
  <2> QED BY <1>types, <1>pcs, <2>1, <2>3, <2>4, GotoTypes, StaysEntitled DEF TypeOK, Entitled
<1>11. ASSUME NEW c \in Call, DispatchBead(c) PROVE TypeOK'
  <2>1. plan[c].status \in Status /\ plan[c].to \in Holder
    BY <1>types DEF Plan
  <2> QED BY <1>11, <2>1, <1>types, EndTypes DEF DispatchBead, Unlocked, TypeOK
<1>12. CASE ByHand \/ LockAges
  <2>1. {"closed", "blocked", "open"} \subseteq Status
    BY DEF Status, Side
  <2> QED BY <1>12, <2>1, <1>types DEF ByHand, LockAges, Unlocked, TypeOK, Delivering
<1>13. ASSUME NEW c \in Call, (Show(c) \/ Look(c)) /\ End(c) PROVE TypeOK'
  BY <1>13, <1>4, <1>types DEF Show, Look
<1>14. ASSUME NEW c \in Call, TimeOut(c) \/ Release(c) \/ Crash(c) PROVE TypeOK'
  BY <1>14, <1>4, <1>types DEF TimeOut, Release, Crash, RemoveFile
<1>15. CASE UNCHANGED vars
  BY <1>15 DEF vars, TypeOK, Delivering
<1>16. ASSUME NEW c \in Call, Show(c) PROVE TypeOK'
  BY <1>16, <1>3, <1>13 DEF Show
<1> QED
  BY <1>1, <1>2, <1>5, <1>7, <1>8, <1>9, <1>10, <1>11, <1>12, <1>13, <1>14, <1>15, <1>16
  DEF Next, DeliverStep

\* Every variable keeps its type, and no delivery goes on from a side state or from a
\* bead it saw in another's hands.
THEOREM TypeCorrect == Spec => []TypeOK
<1>1. Init => TypeOK
  <2> SUFFICES ASSUME Init PROVE TypeOK
    OBVIOUS
  <2>1. {"open", "in_progress"} \subseteq Status /\ "idle" \in Pcs
    BY DEF Status, Pcs
  <2>2. NoCommand \in Command /\ NoPlan \in Plan /\ Unseen \in [status : Status, assignee : Holder]
    BY DEF NoCommand, NoPlan, Unseen, Command, Plan, Holder, Verdict, Op, Status
  <2> QED BY <2>1, <2>2 DEF Init, TypeOK, Holder, Delivering, InLock
<1> QED BY <1>1, TypeStays, PTL DEF Spec

-----------------------------------------------------------------------------
(* The lock. *)

\* Until a holder is robbed, whoever is past the lock made the file there is.
LockOwned == ~robbed => \A c \in Call : pc[c] \in InLock => lock = c

LEMMA OwnedStays == TypeOK /\ LockOwned /\ [Next]_vars => LockOwned'
<1> SUFFICES ASSUME TypeOK, LockOwned, [Next]_vars, ~robbed' PROVE LockOwned'
  BY DEF LockOwned
<1> USE DEF bead, file, own
<1>types. pc \in [Call -> Pcs] /\ NoCall \notin Call
  BY CallAssumption DEF TypeOK
<1>1. ASSUME NEW c \in Call, CreateLock(c) PROVE LockOwned'
  BY <1>1, <1>types DEF CreateLock, Goto, LockOwned
\* The file goes: nobody but c can have been past the lock with it.
<1>2. ASSUME NEW c \in Call, RemoveFile(c), pc' = [pc EXCEPT ![c] = pc'[c]],
             pc'[c] \in {"acquire", "done"}
      PROVE  LockOwned'
  <2>1. \A d \in Call \ {c} : pc'[d] = pc[d] /\ pc[d] \notin InLock
    BY <1>2, <1>types DEF RemoveFile, LockOwned
  <2> QED BY <1>2, <2>1, <1>types DEF LockOwned, InLock
<1>3. ASSUME NEW c \in Call, TakeOver(c) \/ Release(c) PROVE LockOwned'
  BY <1>3, <1>2, <1>types DEF TakeOver, Release, Goto, End
\* Nobody gets past the lock in any other step.
<1>4. ASSUME UNCHANGED <<lock, robbed>>, \A d \in Call : pc'[d] \in InLock => pc[d] \in InLock
      PROVE  LockOwned'
  BY <1>4 DEF LockOwned
<1>5. ASSUME NEW c \in Call, NEW p, Goto(c, p), UNCHANGED <<lock, robbed>>,
             p \in InLock => pc[c] \in InLock
      PROVE  LockOwned'
  BY <1>5, <1>4, <1>types DEF Goto
<1>6. ASSUME NEW c \in Call, End(c), UNCHANGED <<lock, robbed>> PROVE LockOwned'
  BY <1>6, <1>5 DEF End, InLock
<1>7. ASSUME NEW c \in Call, RunDeliver(c) \/ RunAssign(c) \/ ReadImplementer(c) \/ FindStale(c)
      PROVE  LockOwned'
  BY <1>7, <1>5 DEF RunDeliver, RunAssign, ReadImplementer, FindStale, InLock
<1>8. ASSUME NEW c \in Call, Reread(c) \/ BdFails(c) \/ WriteBead(c) PROVE LockOwned'
  BY <1>8, <1>5 DEF Reread, BdFails, WriteBead, InLock
<1>9. ASSUME NEW c \in Call, Show(c) PROVE LockOwned'
  <2>1. End(c) \/ \E p \in {"record", "acquire"} : Goto(c, p)
    BY <1>9 DEF Show
  <2> QED BY <1>9, <2>1, <1>5, <1>6 DEF Show, InLock
<1>10. ASSUME NEW c \in Call, Look(c) PROVE LockOwned'
  BY <1>10, <1>5, <1>6 DEF Look, InLock
<1>11. ASSUME NEW c \in Call, TimeOut(c) \/ DispatchBead(c) \/ Crash(c) PROVE LockOwned'
  BY <1>11, <1>6 DEF TimeOut, DispatchBead, Crash
<1>12. CASE ByHand \/ LockAges \/ UNCHANGED vars
  BY <1>12, <1>4 DEF ByHand, LockAges, vars
<1> QED BY <1>1, <1>3, <1>7, <1>8, <1>9, <1>10, <1>11, <1>12 DEF Next, DeliverStep

LEMMA OwnedAlways == Spec => [](TypeOK /\ LockOwned)
<1>1. Init => LockOwned
  BY DEF Init, LockOwned, InLock
<1> QED BY <1>1, OwnedStays, TypeStays, TypeCorrect, PTL DEF Spec

\* Any number of deliveries of one bead exclude one another in the re-read and the
\* write, through time-outs and deaths, until a live holder is robbed of its file.
THEOREM LockIsExclusive == Spec => []LockExclusive
<1>1. LockOwned => LockExclusive
  BY DEF LockOwned, LockExclusive
<1> QED BY <1>1, OwnedAlways, PTL

\* A delivery past its compare still sees the status it compared.
Compared == ~robbed => \A c \in Call :
    pc[c] = "write" /\ c \notin passed => status = seen[c].status

LEMMA RobbedForGood == [Next]_vars /\ robbed => robbed'
BY DEF Next, RunDeliver, RunAssign, DeliverStep, Show, ReadImplementer, CreateLock, FindStale,
       TakeOver, TimeOut, Reread, BdFails, WriteBead, Release, RemoveFile, Look, DispatchBead,
       ByHand, Crash, LockAges, vars, file

LEMMA ComparedStays ==
    TypeOK /\ LockOwned /\ Compared /\ [Next]_vars => Compared'
<1> SUFFICES ASSUME TypeOK, LockOwned, Compared, [Next]_vars, ~robbed' PROVE Compared'
  BY DEF Compared
<1> USE DEF bead, file, own
<1>types. /\ pc \in [Call -> Pcs] /\ seen \in [Call -> [status : Status, assignee : Holder]]
          /\ passed \subseteq Call
  BY DEF TypeOK
<1>free. ~robbed
  BY RobbedForGood
\* A step of c that neither writes the bead nor compares: c is not about to write after it.
<1>1. ASSUME NEW c \in Call, NEW p, Goto(c, p), p # "write", UNCHANGED status,
             passed' \in {passed, passed \ {c}},
             \A d \in Call \ {c} : seen'[d] = seen[d]
      PROVE  Compared'
  BY <1>1, <1>types, <1>free DEF Goto, Compared
<1>2. ASSUME NEW c \in Call, End(c), UNCHANGED status, passed' \in {passed, passed \ {c}}
      PROVE  Compared'
  BY <1>2, <1>1, <1>types DEF End
<1>3. ASSUME NEW c \in Call, WriteBead(c) PROVE Compared'
  <2>1. \A d \in Call \ {c} : pc[d] \notin InLock
    BY <1>3 DEF WriteBead, LockOwned, InLock
  <2>2. pc' = [pc EXCEPT ![c] = "release"]
    BY <1>3 DEF WriteBead, Goto
  <2> QED BY <2>1, <2>2, <1>types DEF Compared, InLock
<1>4. ASSUME NEW c \in Call, Reread(c) PROVE Compared'
  BY <1>4, <1>types DEF Reread, Goto, Compared
<1>5. ASSUME NEW c \in Call, RunDeliver(c) \/ RunAssign(c) \/ ReadImplementer(c) \/ FindStale(c)
                             \/ CreateLock(c) \/ BdFails(c)
      PROVE  Compared'
  BY <1>5, <1>1, <1>types DEF RunDeliver, RunAssign, ReadImplementer, FindStale, CreateLock, BdFails
<1>6. ASSUME NEW c \in Call, TakeOver(c) \/ Release(c) PROVE Compared'
  BY <1>6, <1>1, <1>2, <1>types DEF TakeOver, Release
<1>7. ASSUME NEW c \in Call, TimeOut(c) \/ Crash(c) PROVE Compared'
  BY <1>7, <1>2 DEF TimeOut, Crash
<1>8. ASSUME NEW c \in Call, Show(c) PROVE Compared'
  <2>1. CASE End(c)
    BY <2>1, <1>8, <1>2 DEF Show
  <2>2. CASE ~End(c)
    <3>1. PICK p \in {"record", "acquire"} : Goto(c, p)
      BY <2>2, <1>8 DEF Show
    <3>2. seen' = [seen EXCEPT ![c] = [status |-> status, assignee |-> assignee]]
      BY <2>2, <1>8 DEF Show
    <3>3. \A d \in Call \ {c} : seen'[d] = seen[d]
      BY <3>2, <1>types
    <3>4. UNCHANGED <<status, passed, robbed>>
      BY <1>8 DEF Show
    <3> QED BY <3>1, <3>3, <3>4, <1>1
  <2> QED BY <2>1, <2>2
<1>9. ASSUME NEW c \in Call, Look(c) PROVE Compared'
  BY <1>9, <1>1, <1>2, <1>types DEF Look
\* A write without the lock marks every delivery past its compare.
<1>10. ASSUME NEW c \in Call, DispatchBead(c) PROVE Compared'
  BY <1>10, <1>types DEF DispatchBead, Unlocked, End, Goto, Compared
<1>11. CASE ByHand
  BY <1>11, <1>types DEF ByHand, Unlocked, Compared
<1>12. CASE LockAges \/ UNCHANGED vars
  BY <1>12 DEF LockAges, vars, Compared
<1> QED BY <1>3, <1>4, <1>5, <1>6, <1>7, <1>8, <1>9, <1>10, <1>11, <1>12 DEF Next, DeliverStep

\* A delivery writes only on the status it decided from, as long as nobody wrote
\* without the lock in between and no holder was robbed.
THEOREM DeliveriesCompare == Spec => DeliverCompares
<1>1. Init => Compared
  BY DEF Init, Compared
<1>2. Compared /\ [Next]_vars =>
        [\A c \in Call : WriteBead(c) /\ ~robbed /\ c \notin passed => status = seen[c].status]_vars
  BY DEF Compared, WriteBead
<1> QED BY <1>1, <1>2, ComparedStays, OwnedAlways, PTL DEF Spec, DeliverCompares
=============================================================================
