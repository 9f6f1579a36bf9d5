----------------------------- MODULE MCConfigSync -----------------------------
(* Instance for TLC: each of two workers serves one operator. *)
EXTENDS ConfigSync, TLC

CONSTANTS w1, w2, s1, s2, k, a, b

OneEach == s1 :> w1 @@ s2 :> w2
OneRow == {k :> a}

ASSUME ConfigAssumption
=============================================================================
