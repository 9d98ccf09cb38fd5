------------------------------ MODULE MCKVStore ------------------------------
(***************************************************************************)
(* Instances of KVStore: a text, an extension of it and an unrelated one,  *)
(* and configurations that differ in one of model, quantization, context.  *)
(***************************************************************************)
EXTENDS KVStore, TLC

CONSTANTS t1, t2, t3, m1, m2

TwoTexts == {t1, t2}
ThreeTexts == {t1, t2, t3}

(* t2 extends t1.                                                          *)
TwoPrefixes == (t1 :> {t1}) @@ (t2 :> {t1, t2})
ThreePrefixes == TwoPrefixes @@ (t3 :> {t3})

(* Any two of the three fit in a budget of 8, all three do not; t2 with    *)
(* its largest tool map does not fit by the headroom of 1%.                *)
TwoSizes == (t1 :> 3) @@ (t2 :> 5)
ThreeSizes == TwoSizes @@ (t3 :> 2)

Setting(m, q, n) == [model |-> m, quant |-> q, ctx |-> n]
Quants == {Setting(m1, 2, 1), Setting(m1, 4, 1)}
Contexts == {Setting(m1, 2, 1), Setting(m1, 2, 2)}
Models == Contexts \cup {Setting(m2, 2, 1)}
All == Models \cup Quants
=============================================================================
