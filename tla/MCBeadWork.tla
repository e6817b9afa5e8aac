----------------------------- MODULE MCBeadWork -----------------------------
(* Small instances of BeadWork: the lifecycle the code's tests configure, two *)
(* engineers and a QA role.                                                   *)
EXTENDS BeadWork, TLC

CONSTANTS c1, c2, c3, eng1, eng2, qa1

Sym == Permutations(Call)
UsualCustom == <<"ready_for_qa", "in_qa", "qa_passed", "ready_to_ship">>
RoleOf == [a \in Agent |-> IF a = qa1 THEN "qa" ELSE "eng"]
=============================================================================
