---------------------------- MODULE MCToolMemory ----------------------------
(* Instances of ToolMemory for TLC.  Ids are random: interchangeable.      *)
EXTENDS ToolMemory, TLC

CONSTANTS ls, cat, rm, f1

MCTexts == {ls, cat, rm}
MCBlockBytes == (ls :> 2) @@ (cat :> 3) @@ (rm :> 1)
MCContent == (f1 :> <<rm, cat, rm>>)
Symmetry == Permutations(Ids)
=============================================================================
