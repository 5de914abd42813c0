----------------------------- MODULE MCPaneTails -----------------------------
(* Panes and callers are interchangeable; the runs without liveness say so. *)
EXTENDS PaneTails, TLC

TailSymmetry == Permutations(Panes) \cup Permutations(Callers)
=============================================================================
