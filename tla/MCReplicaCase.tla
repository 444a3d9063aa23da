---------------------------- MODULE MCReplicaCase ----------------------------
EXTENDS ReplicaCase

CONSTANTS m1, m2, m3

ThreeMongods == <<m1, m2, m3>>

Case(s, d, c, p) == [support |-> s, seed |-> d, clone |-> c, panics |-> p]

(* Every support level, with and without a seed, a clone and a panic; together
   they would be too many for three mongods, which it takes to depose a primary
   that has an entry nobody else has. *)
SomeCases == {Case("Full", FALSE, TRUE, FALSE), Case("XFail", TRUE, FALSE, FALSE),
              Case("MongoOnly", FALSE, FALSE, FALSE), Case("Full", FALSE, FALSE, TRUE),
              Case("Deviates", FALSE, FALSE, FALSE)}
=============================================================================
