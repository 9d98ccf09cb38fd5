---------------------------- MODULE MCDistSession ----------------------------
(***************************************************************************)
(* Instances of DistSession: prompts that extend and contradict each other.*)
(***************************************************************************)
EXTENDS DistSession, TLC

CONSTANTS a, b

TwoPrompts == {<<a, b>>, <<b, a>>}
OnePayload == {<<b>>}
=============================================================================
