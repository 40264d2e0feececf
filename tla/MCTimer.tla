------------------------------ MODULE MCTimer ------------------------------
(* Three timers, one of which is also stopped, changed and recreated, and a *)
(* tick counter that wraps after eight ticks.                               *)
EXTENDS Timer

CONSTANTS t1, t2, t3

\* Only t1 is told from the others.
MCSymmetry == Permutations({t2, t3})
=============================================================================
