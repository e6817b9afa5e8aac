----------------------------- MODULE MailPromise -----------------------------
(***************************************************************************)
(* What the fleet promises the sender of a held message: a first-in        *)
(* first-out line that loses nothing in silence.  A message goes to the    *)
(* agent at once, is refused, or joins the line.  One in the line leaves   *)
(* it once: typed, when everything ahead of it has left; possibly typed,   *)
(* and never typed again; or given up on and reported to the operator.     *)
(* The one exception the code states is the message in flight when the     *)
(* terminal is closed under it (resource.go, PopQueuedMessage).            *)
(***************************************************************************)
EXTENDS Naturals, Sequences

CONSTANT Msg

VARIABLES held, fate

promise == <<held, fate>>

Init == held = <<>> /\ fate = [m \in Msg |-> "new"]

\* A message that never waits: typed, possibly typed, or refused to its sender.
Direct(m) ==
    /\ fate[m] = "new"
    /\ \E f \in {"typed", "unsure", "refused"} : fate' = [fate EXCEPT ![m] = f]
    /\ UNCHANGED held

Accept(m) ==
    /\ fate[m] = "new"
    /\ fate' = [fate EXCEPT ![m] = "held"]
    /\ held' = Append(held, m)

Deliver ==
    /\ held # <<>>
    /\ \E f \in {"typed", "unsure"} : fate' = [fate EXCEPT ![Head(held)] = f]
    /\ held' = Tail(held)

\* The terminal is gone: at most one message goes with it.
Lose ==
    /\ held # <<>>
    /\ \A m \in Msg : fate[m] # "lost"
    /\ fate' = [fate EXCEPT ![Head(held)] = "lost"]
    /\ held' = Tail(held)

\* The messages of D are reported; the others keep their order.
GiveUp(D) ==
    /\ D # {}
    /\ D \subseteq {held[i] : i \in DOMAIN held}
    /\ fate' = [m \in Msg |-> IF m \in D THEN "surfaced" ELSE fate[m]]
    /\ {held'[i] : i \in DOMAIN held'} = {held[i] : i \in DOMAIN held} \ D
    /\ \A i, j \in DOMAIN held' : i < j =>
          \E x, y \in DOMAIN held : x < y /\ held[x] = held'[i] /\ held[y] = held'[j]

Next ==
    \/ \E m \in Msg : Direct(m) \/ Accept(m)
    \/ Deliver
    \/ Lose
    \/ \E D \in SUBSET Msg : GiveUp(D)

Spec == Init /\ [][Next]_promise
=============================================================================
