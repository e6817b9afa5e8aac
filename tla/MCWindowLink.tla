---------------------------- MODULE MCWindowLink ----------------------------
(* Small instances of WindowLink. *)
EXTENDS WindowLink

CONSTANTS a1, a2

OneAtStart == <<a1>>
=============================================================================
