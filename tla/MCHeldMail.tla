----------------------------- MODULE MCHeldMail -----------------------------
(* Small instances of HeldMail: three senders, two goroutines a drain could  *)
(* run on (one too many, if single-flight holds), a cap the queue can reach. *)
EXTENDS HeldMail, TLC

CONSTANTS m1, m2, m3

DrainSym == Permutations(Drain)
Sym == Permutations(Msg) \cup DrainSym

\* Each message has a body of its own.
DistinctTexts == [m \in Msg |-> m]

\* All from agents; or the second marked urgent by one who may not break a hold.
FromAgents     == [m \in Msg |-> "agent"]
AgentAndUrgent == [m \in Msg |-> IF m = m2 THEN "urgent" ELSE "agent"]
=============================================================================
