----------------------------- MODULE MCPaneLife -----------------------------
(* Small instances of PaneLife: two messages, three panes of one name (two  *)
(* replacements), one trigger waiting for the resume lock beside its holder. *)
EXTENDS PaneLife, TLC

Sym == Permutations(Msg) \cup Permutations(Obj)
=============================================================================
