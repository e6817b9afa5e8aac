-------------------------------- MODULE Queue --------------------------------
(* What the queues of this project say about a sequence. *)
EXTENDS Naturals, Sequences

\* The elements on a queue.
Elems(s) == {s[i] : i \in DOMAIN s}

\* Nothing is on it twice.
NoDup(s) == \A i, j \in DOMAIN s : s[i] = s[j] => i = j
=============================================================================
