----------------------------- MODULE MCJobQueue -----------------------------
(* JobQueue for TLC.  Jobs of the same kind of client and slots are        *)
(* interchangeable: the code orders slots by index only to break ties of   *)
(* the abstracted score.                                                   *)
EXTENDS JobQueue, TLC

Symmetry ==
    Permutations(Flaky) \cup Permutations(Jobs \ Flaky) \cup Permutations(Slots)
=============================================================================
