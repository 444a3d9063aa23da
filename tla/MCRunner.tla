------------------------------ MODULE MCRunner ------------------------------
(***************************************************************************)
(* Small instances of Runner for TLC.                                      *)
(***************************************************************************)
EXTENDS Runner, TLC

Symmetry == Permutations(Workers)

Conf(scenario, mode, operations, duration) ==
  [scenario |-> scenario, mode |-> mode, operations |-> operations,
   duration |-> duration, keepData |-> FALSE, dumbo |-> TRUE]

\* The paths through main: rejected and refused configurations, a run limited
\* by its duration only, one that keeps its data, a caller's own scenario.
LifecycleConfigs ==
  {Conf("blind-inc", "none", 0, FALSE),
   Conf("whole-document-divergent", "none", 2, FALSE),
   [Conf("blind-inc", "fieldTouched", 2, FALSE) EXCEPT !.dumbo = FALSE],
   [Conf("identical-set", "none", 2, FALSE) EXCEPT !.keepData = TRUE],
   Conf("blind-inc", "documentTouched", 0, TRUE),
   Conf("cas", "none", 2, FALSE),
   Conf("custom", "none", 3, TRUE)}

\* Every scenario, in modes with different oracles.
AtomicConfigs ==
  LifecycleConfigs \cup
  {Conf("cas", "none", 3, FALSE),
   Conf("cas", "documentDivergent", 2, FALSE),
   Conf("uuid-cas", "documentTouched", 3, FALSE),
   Conf("divergent-cas", "fieldTouched", 2, FALSE),
   Conf("whole-document-convergent", "documentDivergent", 2, FALSE),
   Conf("whole-document-divergent", "documentDivergent", 2, FALSE),
   Conf("blind-inc", "none", 3, FALSE),
   Conf("disjoint-set", "none", 3, FALSE),
   Conf("same-set", "none", 2, FALSE),
   Conf("identical-set", "documentTouched", 2, FALSE)}

\* A correct outcome, one Record refuses for its kind, one for its flag.
SomeCustomOutcomes ==
  {PlainOutcome("matched", FALSE, FALSE),
   PlainOutcome("unknown", FALSE, TRUE),
   PlainOutcome("noMatch", TRUE, FALSE)}

NoCustomOutcomes == {}

-----------------------------------------------------------------------------
(* A defective server: scenarios whose oracle is put to the test, and the  *)
(* documents the server answers with. Generations reach one past the       *)
(* operations of the run, and below the seed.                              *)

ChainConfigs ==
  {Conf("cas", "none", 3, FALSE),
   Conf("cas", "fieldDivergent", 3, FALSE),
   Conf("whole-document-convergent", "documentDivergent", 2, FALSE),
   Conf("whole-document-divergent", "documentDivergent", 2, FALSE)}

GarbageChains ==
  {[Seed EXCEPT !.gen = g, !.value = g, !.fields = [w \in Workers |-> s]] :
     g \in -1 .. 3, s \in {0, 1}}

MarkConfigs ==
  {Conf("uuid-cas", "none", 2, FALSE), Conf("divergent-cas", "none", 2, FALSE)}

GarbageMarks ==
  {[Seed EXCEPT !.gen = g, !.value = v, !.token = v] : g \in 0 .. 2, v \in 0 .. 3}

StoreConfigs ==
  {Conf("blind-inc", "none", 3, FALSE), Conf("disjoint-set", "none", 3, FALSE)}

GarbageFields ==
  {[Seed EXCEPT !.gen = g, !.fields = f] : g \in 0 .. 3, f \in [Workers -> 0 .. 3]}

NoGarbage == {}

Answers == GarbageChains \cup GarbageMarks \cup GarbageFields
DefectiveConfigs == ChainConfigs \cup MarkConfigs \cup StoreConfigs

\* The server of a run answers with the documents that matter to its scenario.
Answering(garbage) == INSTANCE Runner WITH Garbage <- garbage

DefectiveNext ==
  \/ cfg \in ChainConfigs /\ Answering(GarbageChains)!Next
  \/ cfg \in MarkConfigs /\ Answering(GarbageMarks)!Next
  \/ cfg \in StoreConfigs /\ Answering(GarbageFields)!Next

DefectiveSpec == Init /\ [][DefectiveNext]_vars

UUIDConfig == {Conf("uuid-cas", "none", 2, FALSE)}

-----------------------------------------------------------------------------
(* Small runs of every shape, for liveness.                                *)

LiveConfigs ==
  {Conf("cas", "none", 2, FALSE),
   Conf("blind-inc", "none", 0, TRUE),
   Conf("custom", "none", 2, FALSE),
   Conf("same-set", "none", 0, FALSE)}

=============================================================================
