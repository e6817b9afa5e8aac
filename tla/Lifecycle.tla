----------------------------- MODULE Lifecycle -----------------------------
(***************************************************************************)
(* The lifecycle of a bead (a piece of work), internal/lifecycle: the      *)
(* chain of statuses configured in bd's status.custom, and the table that  *)
(* says what a dispatch or a delivery writes.                              *)
(***************************************************************************)
EXTENDS Naturals, Sequences

CONSTANT Custom   \* status.custom, in the operator's order

ASSUME CustomAssumption ==
    /\ Custom \in Seq(STRING)
    /\ \A i, j \in DOMAIN Custom : Custom[i] = Custom[j] => i = j
    /\ \A i \in DOMAIN Custom :
          Custom[i] \notin {"open", "in_progress", "closed", "blocked", "deferred"}

Entry == {Custom[i] : i \in DOMAIN Custom}

\* Parse: the chain runs up to qa_passed, and what follows it is a side state; with
\* no qa_passed it runs to closed.
Chain ==
    <<"open", "in_progress">> \o
    IF "qa_passed" \in Entry
      THEN SubSeq(Custom, 1, CHOOSE i \in DOMAIN Custom : Custom[i] = "qa_passed")
      ELSE Append(Custom, "closed")

OnChain(s) == \E i \in DOMAIN Chain : Chain[i] = s
Side == {"blocked", "deferred"} \cup {s \in Entry : ~OnChain(s)}
Status == {"open", "in_progress", "closed", "ready_for_qa", "in_qa", "qa_passed"} \cup Side \cup Entry

\* NextState and PrevState: the one neighbour, or none.
NextState(s) == {Chain[i + 1] : i \in {j \in DOMAIN Chain : Chain[j] = s /\ j < Len(Chain)}}
PrevState(s) == {Chain[i - 1] : i \in {j \in DOMAIN Chain : Chain[j] = s /\ j > 1}}

\* atOrBefore
AtOrBefore(s, t) == \E i, j \in DOMAIN Chain : Chain[i] = s /\ Chain[j] = t /\ i <= j

\* A row's answer: the status, what becomes of the assignee, whether the caller is
\* recorded as the implementer.
Transition(s, op, rec) == [status |-> s, op |-> op, rec |-> rec]

\* Dispatch, by the target's role family.
Dispatch(family) ==
    IF family = "qa" THEN Transition("in_qa", "target", FALSE)
                     ELSE Transition("in_progress", "target", TRUE)

\* Deliver, by the caller's role family, the status and the verdict: the one
\* transition, or none.
Deliver(family, s, verdict) ==
    IF family = "qa" /\ verdict = "FAIL"
      THEN {Transition("in_progress", "implementer", FALSE)}
    ELSE IF family = "qa" /\ verdict = "PASS" /\ AtOrBefore(s, "in_qa")
      THEN {Transition("qa_passed", "keep", FALSE)}
    ELSE IF family # "qa" /\ verdict = "none" /\ s = "in_progress"
      THEN {Transition("ready_for_qa", "clear", TRUE)}
    ELSE LET walk == IF verdict = "FAIL" THEN PrevState(s) ELSE NextState(s) IN
         {Transition(t, "keep", FALSE) :
             t \in {u \in walk : ~(family = "qa" /\ u = "ready_for_qa")}}
=============================================================================
