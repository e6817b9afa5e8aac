----------------------------- MODULE MCHeldFile -----------------------------
(* Small instances of HeldFile: two senders and one crash. *)
EXTENDS HeldFile, TLC

CONSTANTS m1, m2

Sym == Permutations(Msg)
DistinctTexts == [m \in Msg |-> m]
FromAgents    == [m \in Msg |-> "agent"]

\* The properties speak of a start up to its first two hooks at once: what follows
\* one is not explored.
NoOverlapYet == ~overlap
=============================================================================
