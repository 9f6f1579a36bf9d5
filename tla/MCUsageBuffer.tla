---------------------------- MODULE MCUsageBuffer ----------------------------
(* Small instances of UsageBuffer: three requests, two workers. *)
EXTENDS UsageBuffer, TLC

CONSTANTS w1, w2, r1, r2, r3, u1, u2

MCRecords == {r1, r2, r3}
MCSymmetry == Permutations(Workers)

TwoUsers == (r1 :> u1) @@ (r2 :> u1) @@ (r3 :> u2)
OneUser == [r \in MCRecords |-> u1]

(* In tenths of a cent: below, at and above half a cent. *)
Tenths == (r1 :> 4) @@ (r2 :> 7) @@ (r3 :> 15)
=============================================================================
