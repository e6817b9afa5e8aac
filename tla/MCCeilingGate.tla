---------------------------- MODULE MCCeilingGate ----------------------------
(* Small instances of CeilingGate: two agents, a ceiling of two, and one      *)
(* other session, so that this rig alone, the others' sessions, and both      *)
(* reach it.  One agent is sent to again while its mail waits, which is where *)
(* a send's wake meets the loop's.  No symmetry: the runs check liveness.     *)
EXTENDS CeilingGate

AllTroubles == {"others", "park", "boot", "unread", "long"}
=============================================================================
