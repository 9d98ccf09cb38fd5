------------------------- MODULE MCLiveContinuation -------------------------
(* Instances of LiveContinuation for TLC: two users u and v, an answer a,  *)
(* a tool call c, its output o, reasoning r, and x for what one spelling   *)
(* of a call has and another lacks.                                        *)
EXTENDS LiveContinuation, TLC

MCTexts == {<<"u">>, <<"v", "v", "v", "v">>, <<"u", "a", "u">>, <<"u", "c", "o">>}
MCSuffix == <<"o">>
MCAnswers == {<<"r", "a">>}
LongAnswers == {<<"r", "r", "r", "a">>}
MCCalls == {<<"r", "c">>, <<"x", "c">>}
MCRendered == <<"r", "c">> :> <<"r", "c", "x">> @@ <<"x", "c">> :> <<"c">>
MCTokens == {"u", "v", "a", "c", "o", "r", "x"}
MCHidden == {"r", "x"}
=============================================================================
