---------------------------- MODULE MCTypingHold ----------------------------
(* The instance of TypingHold: two messages, a short line and a short wait.  *)
EXTENDS TypingHold

CONSTANTS s1, s2
=============================================================================
