------------------------- MODULE MCCreditMigration -------------------------
(* Instance for TLC: a user with a balance and a full pack, or in debt and  *)
(* with a pack too full to be valid; the pack may expire meanwhile.         *)
EXTENDS CreditMigration, TLC

CONSTANTS u1, q1, r1, r2


MCOwner == [q \in Packs |-> u1]
MCOriginal == [q \in Packs |-> 2]
MCExpiry == [q \in Packs |-> 1]
MCOpenings ==
  {[balance |-> [u \in Users |-> b], left |-> [q \in Packs |-> l]] :
     <<b, l>> \in {<<1, 2>>, <<-1, 3>>}}
=============================================================================
