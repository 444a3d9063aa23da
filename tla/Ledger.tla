------------------------------- MODULE Ledger -------------------------------
(***************************************************************************)
(* The accounting of a concurrency run (concurrency/ledger.go): the        *)
(* aggregate ledger, which counts terminal outcomes, and the causal        *)
(* ledger, which remembers for each generation a compare-and-set observed  *)
(* how often an operation based on it was acknowledged as matched.         *)
(*                                                                         *)
(* Both are values here: the runner holds them in two variables and        *)
(* replaces them in one step, as Ledger.Record does under accountingMu.    *)
(* Latency buckets and error texts are left out.                           *)
(***************************************************************************)
EXTENDS Integers, Sequences, FiniteSets

CONSTANTS
  CounterCap,      \* the uint8 per-generation counter saturates here (255)
  MaxErrorSamples  \* findings and error samples retained at most (20)

ASSUME LedgerAssumption == /\ CounterCap \in Nat \ {0}
                           /\ MaxErrorSamples \in Nat

OutcomeKind == {"matched", "noMatch", "rejected", "indeterminate"}

(***************************************************************************)
(* An outcome as Scenario.Execute returns it. `cas` says whether the       *)
(* pointer Outcome.CAS is set; only then are `observed`, `proposed` and    *)
(* `bound` (MaximumObservedGeneration) meaningful. "unknown" stands for    *)
(* any kind that is not one of the four.                                   *)
(***************************************************************************)
Outcome ==
  [kind : OutcomeKind \cup {"unknown"}, modified : BOOLEAN, err : BOOLEAN,
   sequence : Nat, cas : BOOLEAN, observed : Int, proposed : Int, bound : Int]

PlainOutcome(kind, modified, err) ==
  [kind |-> kind, modified |-> modified, err |-> err, sequence |-> 0,
   cas |-> FALSE, observed |-> 0, proposed |-> 0, bound |-> 0]

-----------------------------------------------------------------------------
(* The aggregate counters.                                                 *)

Totals ==
  [attempts : Nat, matched : Nat, noMatch : Nat, modified : Nat,
   rejected : Nat, indeterminate : Nat, errorSamples : Nat]

EmptyTotals ==
  [attempts |-> 0, matched |-> 0, noMatch |-> 0, modified |-> 0,
   rejected |-> 0, indeterminate |-> 0, errorSamples |-> 0]

One(b) == IF b THEN 1 ELSE 0

\* Record refuses an unknown kind, and Modified on anything but a match.
Recordable(o) ==
  /\ o.kind \in OutcomeKind
  /\ o.modified => o.kind = "matched"

\* The counters after a recordable outcome.
Tally(t, o) ==
  [attempts      |-> t.attempts + 1,
   matched       |-> t.matched + One(o.kind = "matched"),
   noMatch       |-> t.noMatch + One(o.kind = "noMatch"),
   modified      |-> t.modified + One(o.modified),
   rejected      |-> t.rejected + One(o.kind = "rejected"),
   indeterminate |-> t.indeterminate + One(o.kind = "indeterminate"),
   errorSamples  |-> IF o.err /\ t.errorSamples < MaxErrorSamples
                     THEN t.errorSamples + 1 ELSE t.errorSamples]

\* LedgerSnapshot.Validate.
Balanced(t) ==
  /\ t.attempts = t.matched + t.noMatch + t.rejected + t.indeterminate
  /\ t.modified \in 0 .. t.matched

-----------------------------------------------------------------------------
(* The causal ledger. observedCounts and observedFirst are slices in the   *)
(* code: here functions on an initial segment of the generations.          *)

Finding == [reason : {"invalidEdge", "duplicateMatch"}, observed : Int,
            first : Nat, competing : Nat]

\* A causal ledger whose slices have one length, at most n.
CausalOK(c, n) ==
  /\ c \in [matchedEdges : Nat, duplicates : Nat, invalidEdges : Nat,
            highestObserved : Nat, observedCounts : {c.observedCounts},
            observedFirst : {c.observedFirst}, matchedOperations : SUBSET Nat,
            findings : Seq(Finding)]
  /\ \E k \in 0 .. n : /\ c.observedCounts \in [0 .. k - 1 -> 0 .. CounterCap]
                       /\ c.observedFirst \in [0 .. k - 1 -> Nat]

EmptyCausal ==
  [matchedEdges |-> 0, duplicates |-> 0, invalidEdges |-> 0,
   highestObserved |-> 0,
   observedCounts |-> [g \in {} |-> 0], observedFirst |-> [g \in {} |-> 0],
   matchedOperations |-> {}, findings |-> << >>]

\* Seeded defect: the bound on the observed generation is not consulted.
UnboundedEdge(o) ==
  \/ o.observed < 0
  \/ o.proposed # o.observed + 1

\* causalLedger.record: the edge is not one a correct run can produce.
InvalidEdge(o) ==
  \/ o.observed < 0
  \/ o.proposed # o.observed + 1
  \/ o.observed > o.bound

\* The slice, lengthened with zeros until it has slot g.
Grown(slice, g) ==
  [i \in DOMAIN slice \cup 0 .. g |-> IF i \in DOMAIN slice THEN slice[i] ELSE 0]

RetainFinding(findings, f) ==
  IF Len(findings) < MaxErrorSamples THEN Append(findings, f) ELSE findings

RecordInvalid(c, o) ==
  [matchedEdges |-> c.matchedEdges + 1,
   duplicates |-> c.duplicates,
   invalidEdges |-> c.invalidEdges + 1,
   highestObserved |-> c.highestObserved,
   observedCounts |-> c.observedCounts,
   observedFirst |-> c.observedFirst,
   matchedOperations |-> c.matchedOperations,
   findings |-> RetainFinding(c.findings, [reason |-> "invalidEdge",
                  observed |-> o.observed, first |-> 0, competing |-> o.sequence])]

\* Seeded defect: a repeated generation is compared with the latest one only.
RecordEdgeLatest(c, o) ==
  LET g == o.observed
      counts == Grown(c.observedCounts, g)
      seen == g = c.highestObserved /\ counts[g] > 0
  IN  [c EXCEPT !.matchedEdges = @ + 1,
                !.duplicates = @ + One(seen),
                !.highestObserved = IF g > @ THEN g ELSE @,
                !.observedCounts = [counts EXCEPT ![g] = 1],
                !.observedFirst = [Grown(@, g) EXCEPT ![g] = o.sequence],
                !.matchedOperations = @ \cup {o.sequence}]

\* Seeded defect: the uint8 counter wraps around instead of saturating.
RecordEdgeWrapping(c, o) ==
  LET g == o.observed
      counts == Grown(c.observedCounts, g)
      first == Grown(c.observedFirst, g)
      seen == counts[g] > 0
  IN  [c EXCEPT !.matchedEdges = @ + 1,
                !.duplicates = @ + One(seen),
                !.highestObserved = IF g > @ THEN g ELSE @,
                !.observedCounts = [counts EXCEPT ![g] = (@ + 1) % (CounterCap + 1)],
                !.observedFirst = first,
                !.matchedOperations = @ \cup {o.sequence}]

\* An edge that is valid on its own: count it for its generation.
RecordEdge(c, o) ==
  LET g == o.observed
      counts == Grown(c.observedCounts, g)
      first == Grown(c.observedFirst, g)
      seen == counts[g] > 0
  IN  [matchedEdges |-> c.matchedEdges + 1,
       duplicates |-> c.duplicates + One(seen),
       invalidEdges |-> c.invalidEdges,
       highestObserved |-> IF g > c.highestObserved THEN g ELSE c.highestObserved,
       observedCounts |-> [counts EXCEPT ![g] = IF @ < CounterCap THEN @ + 1 ELSE @],
       observedFirst |-> IF seen THEN first ELSE [first EXCEPT ![g] = o.sequence],
       matchedOperations |-> c.matchedOperations \cup ({o.sequence} \ {0}),
       findings |-> IF seen
                    THEN RetainFinding(c.findings, [reason |-> "duplicateMatch",
                           observed |-> g, first |-> first[g], competing |-> o.sequence])
                    ELSE c.findings]

\* The causal half of Record: only matched compare-and-set outcomes count.
RecordCausal(c, o) ==
  IF ~(o.cas /\ o.kind = "matched") THEN c
  ELSE IF InvalidEdge(o) THEN RecordInvalid(c, o) ELSE RecordEdge(c, o)

\* The generations with a non-zero counter; snapshot() reports their number.
Observed(c) == {g \in DOMAIN c.observedCounts : c.observedCounts[g] > 0}

UniqueObserved(c) == Cardinality(Observed(c))

\* Seeded defect: any issued operation passes for a matched one.
OperationIssued(c, sequence) == sequence > 0

\* CASSnapshot.OperationMatched: the bit of a valid matched edge.
OperationMatched(c, sequence) == sequence > 0 /\ sequence \in c.matchedOperations

=============================================================================
