------------------------------- MODULE Oracle -------------------------------
(***************************************************************************)
(* What the scenarios write and what they conclude (concurrency/           *)
(* scenarios.go, scenario.go, report.go, cmd/concurrency/main.go): the     *)
(* update each scenario sends, the checks its Verify evaluates on the      *)
(* settled document, the ledger and the causal ledger, and the verdict     *)
(* and exit code that follow.                                              *)
(*                                                                         *)
(* The contended document of every scenario is abstracted to one record:   *)
(*   gen    - version, applied or generation: the compare-and-set counter  *)
(*   value  - lastOperation, value or state                                *)
(*   token  - the UUID, named by the sequence it is derived from           *)
(*            (uuidToken is injective on the sequences of a run); a        *)
(*            negative token is binary data that is no UUID                *)
(*   fields - worker_<id>, 0 when the field is absent                      *)
(*   intact - the padding payload is still what Setup stored               *)
(***************************************************************************)
EXTENDS Ledger

MergeModes == {"none", "documentTouched", "fieldTouched", "fieldDivergent",
               "documentDivergent"}

CASScenarios == {"cas", "uuid-cas", "divergent-cas",
                 "whole-document-convergent", "whole-document-divergent"}

SetScenarios == {"blind-inc", "disjoint-set", "same-set", "identical-set"}

\* "custom" stands for a Scenario a caller of Run supplies.
Scenarios == CASScenarios \cup SetScenarios \cup {"custom"}

\* Config.Validate and newScenario, as far as the modelled settings go.
ValidConfig(cfg) ==
  /\ cfg.duration \/ cfg.operations > 0
  /\ cfg.scenario \in {"whole-document-convergent", "whole-document-divergent"}
       => cfg.mode = "documentDivergent"

-----------------------------------------------------------------------------
(* The scenarios' documents and updates.                                   *)

\* Setup: the document every scenario inserts before the workers start.
SeedDocument(workers) ==
  [gen |-> 0, value |-> 0, token |-> 0,
   fields |-> [w \in workers |-> 0], intact |-> TRUE]

\* Execute starts with a read in the compare-and-set scenarios.
ReadsFirst(scenario) == scenario \in CASScenarios

\* The filter of UpdateOne: command c was built from an observed document.
Filter(scenario, d, c) ==
  /\ scenario \in CASScenarios => d.gen = c.gen
  /\ scenario = "uuid-cas" => d.token = c.token

\* The modification of UpdateOne, applied to a document the filter selected.
Modification(scenario, d, c) ==
  CASE scenario \in {"cas", "blind-inc"} -> [d EXCEPT !.gen = @ + 1]
    [] scenario = "uuid-cas" ->
         [d EXCEPT !.gen = @ + 1, !.token = c.sequence, !.value = c.sequence]
    [] scenario = "divergent-cas" ->
         [d EXCEPT !.gen = @ + 1, !.value = c.sequence]
    [] scenario = "whole-document-convergent" ->
         [d EXCEPT !.gen = c.gen + 1, !.value = c.gen + 1]
    [] scenario = "whole-document-divergent" ->
         [d EXCEPT !.gen = c.gen + 1, !.value = c.gen + 1,
                   !.fields[c.worker] = c.sequence]
    [] scenario = "disjoint-set" -> [d EXCEPT !.fields[c.worker] = c.sequence]
    [] scenario = "same-set" -> [d EXCEPT !.value = c.sequence]
    [] OTHER -> [d EXCEPT !.value = 1]

\* What the driver hands to UpdateOutcome. "ambiguous" stands for a
\* cancellation, a deadline, a network error, a write-concern-only error and
\* any other error that is neither a CommandError nor a WriteException.
Replies == {"modified", "matchedOnly", "noMatch", "commandError", "ambiguous"}

\* Seeded defect: an error that carries a command response is a rejection
\* even when it is labelled as a network or write concern error.
ErrorsAreRejections(reply) ==
  CASE reply \in {"ambiguous", "commandError"} ->
         PlainOutcome("rejected", FALSE, TRUE)
    [] reply = "noMatch" -> PlainOutcome("noMatch", FALSE, FALSE)
    [] OTHER -> PlainOutcome("matched", reply = "modified", FALSE)

UpdateOutcome(reply) ==
  CASE reply = "ambiguous" -> PlainOutcome("indeterminate", FALSE, TRUE)
    [] reply = "commandError" -> PlainOutcome("rejected", FALSE, TRUE)
    [] reply = "noMatch" -> PlainOutcome("noMatch", FALSE, FALSE)
    [] OTHER -> PlainOutcome("matched", reply = "modified", FALSE)

\* The outcome Execute returns: UpdateOutcome with the causal fields.
UpdateResult(scenario, reply, sequence, observed) ==
  IF scenario \in CASScenarios
  THEN [UpdateOutcome(reply) EXCEPT !.sequence = sequence, !.cas = TRUE,
          !.observed = observed, !.proposed = observed + 1]
  ELSE UpdateOutcome(reply)

-----------------------------------------------------------------------------
(* Checks. A skipped check does not count against the run.                 *)

Check(name, passed, skipped) ==
  [name |-> name, passed |-> passed, skipped |-> skipped]

Checks == [name : STRING, passed : BOOLEAN, skipped : BOOLEAN]

ChecksPassed(checks) == \A c \in checks : ~c.skipped => c.passed

Unknowable(t) == t.indeterminate > 0

EveryMatchModified(t) ==
  Check("everyMatchModified", t.modified = t.matched, FALSE)

AllAcknowledgedWritesMatched(t) ==
  Check("allAcknowledgedWritesMatched",
        t.matched = t.attempts - t.rejected - t.indeterminate, FALSE)

MatchedEdgesAreSuccessive(t, c) ==
  Check("matchedEdgesAreSuccessive",
        c.invalidEdges = 0 /\ c.matchedEdges = t.matched, FALSE)

PayloadRetained(d) == Check("payloadRetained", d.intact, FALSE)

\* counterChecks: the strict single-winner chain.
CounterChecks(version, t, c) ==
  {Check("storedVersionEqualsMatched", version = t.matched, Unknowable(t)),
   EveryMatchModified(t),
   Check("oneMatchPerObservedGeneration", c.duplicates = 0, FALSE),
   MatchedEdgesAreSuccessive(t, c),
   Check("matchedEdgesFormCompleteChain",
         version = 0 \/ c.highestObserved = version - 1, Unknowable(t))}

\* fieldDivergentCounterChecks: operations on one generation may coalesce.
FieldDivergentCounterChecks(version, t, c) ==
  {Check("storedVersionEqualsUniqueObservedChain",
         version = UniqueObserved(c), Unknowable(t)),
   EveryMatchModified(t),
   MatchedEdgesAreSuccessive(t, c),
   Check("observedGenerationsFormCompleteChain",
         version = 0 \/ c.highestObserved = version - 1, Unknowable(t))}

StrictCASClientOutcomeChecks(t) ==
  {Check("refusedCASReturnsNoMatch", t.rejected = 0, FALSE),
   Check("everyConclusiveCASAttemptHasCommandResult",
         t.matched + t.noMatch = t.attempts - t.indeterminate, FALSE)}

CASChecks(mode, d, t, c) ==
  (IF mode \in {"fieldDivergent", "documentDivergent"}
     THEN FieldDivergentCounterChecks(d.gen, t, c) ELSE CounterChecks(d.gen, t, c))
  \cup (IF mode \in {"documentDivergent", "documentTouched"}
          THEN StrictCASClientOutcomeChecks(t) ELSE {})
  \cup {PayloadRetained(d)}

UUIDChecks(mode, d, t, c) ==
  {Check("storedAppliedEqualsMatched", d.gen = t.matched, Unknowable(t)),
   EveryMatchModified(t),
   Check("finalTokenIsUUID", d.token >= 0, FALSE),
   Check("finalTokenMatchesIssuedOperation",
         /\ d.token = d.value
         /\ d.value \in 1 .. t.attempts
         /\ OperationMatched(c, d.value), Unknowable(t)),
   Check("oneMatchPerObservedGeneration", c.duplicates = 0, FALSE),
   Check("matchedEdgesFormCompleteChain",
         /\ c.invalidEdges = 0
         /\ c.matchedEdges = t.matched
         /\ d.gen = 0 \/ c.highestObserved = d.gen - 1, Unknowable(t))}
  \cup (IF mode \in {"documentTouched", "documentDivergent"}
          THEN StrictCASClientOutcomeChecks(t) ELSE {})
  \cup {PayloadRetained(d)}

DivergentCASChecks(mode, d, t, c) ==
  CounterChecks(d.gen, t, c)
  \cup (IF mode \in {"documentTouched", "documentDivergent"}
          THEN StrictCASClientOutcomeChecks(t) ELSE {})
  \cup {Check("finalValueBelongsToAcceptedOperation",
              d.value \in 1 .. t.attempts /\ OperationMatched(c, d.value),
              Unknowable(t)),
        PayloadRetained(d)}

WorkerFields(d) == {w \in DOMAIN d.fields : d.fields[w] # 0}

WholeDocumentChecks(scenario, d, t, c) ==
  {Check("wholeDocumentShapeIsValid", d.value = d.gen /\ d.intact, FALSE)}
  \cup (IF scenario = "whole-document-divergent"
        THEN CounterChecks(d.gen, t, c)
             \cup {Check("workerFieldsBelongToMatchedOperations",
                         /\ t.matched = 0 \/ WorkerFields(d) # {}
                         /\ \A w \in WorkerFields(d) : OperationMatched(c, d.fields[w]),
                         Unknowable(t))}
        ELSE FieldDivergentCounterChecks(d.gen, t, c)
             \cup {Check("convergentWholeDocumentIsExact", WorkerFields(d) = {}, FALSE)})
  \cup StrictCASClientOutcomeChecks(t)

BlindIncrementChecks(mode, d, t) ==
  (IF mode \in {"fieldDivergent", "documentDivergent"}
     THEN {Check("storedVersionDoesNotExceedMatched",
                 d.gen \in 0 .. t.matched, Unknowable(t))}
     ELSE {Check("storedVersionEqualsMatched", d.gen = t.matched, Unknowable(t))})
  \cup {EveryMatchModified(t), AllAcknowledgedWritesMatched(t)}
  \cup (IF mode = "documentTouched"
          THEN {Check("hotDocumentRetriesDoNotExhaust", t.rejected = 0, FALSE)} ELSE {})
  \cup {PayloadRetained(d)}

\* One check per worker, each named for its field; the name is left out.
DisjointSetChecks(d, t, acknowledged) ==
  {AllAcknowledgedWritesMatched(t), PayloadRetained(d)}
  \cup {Check("fieldRetainsLastAcknowledgement",
              d.fields[w] = acknowledged[w], Unknowable(t)) : w \in DOMAIN acknowledged}

SameSetChecks(d, t) ==
  {AllAcknowledgedWritesMatched(t),
   Check("finalValueWasIssued", d.value \in 1 .. t.attempts, Unknowable(t)),
   PayloadRetained(d)}

IdenticalSetChecks(d, t) ==
  {AllAcknowledgedWritesMatched(t),
   Check("convergentValueRetained", d.value = 1, FALSE),
   PayloadRetained(d)}

\* Scenario.Verify on the document it read.
VerifyChecks(cfg, d, t, c, acknowledged) ==
  CASE cfg.scenario = "cas" -> CASChecks(cfg.mode, d, t, c)
    [] cfg.scenario = "uuid-cas" -> UUIDChecks(cfg.mode, d, t, c)
    [] cfg.scenario = "divergent-cas" -> DivergentCASChecks(cfg.mode, d, t, c)
    [] cfg.scenario \in {"whole-document-convergent", "whole-document-divergent"} ->
         WholeDocumentChecks(cfg.scenario, d, t, c)
    [] cfg.scenario = "blind-inc" -> BlindIncrementChecks(cfg.mode, d, t)
    [] cfg.scenario = "disjoint-set" -> DisjointSetChecks(d, t, acknowledged)
    [] cfg.scenario = "same-set" -> SameSetChecks(d, t)
    [] cfg.scenario = "identical-set" -> IdenticalSetChecks(d, t)
    [] OTHER -> {Check("customCheck", TRUE, FALSE)}

\* hotDocumentProgressChecks. Time is abstracted: `steady` says whether the
\* first and last match were near the ends of the run, which takes a match.
HotDocumentProgressChecks(cfg, steady) ==
  IF cfg.mode = "documentTouched" /\ cfg.scenario \in {"blind-inc", "identical-set"}
  THEN {Check("hotDocumentMakesProgressThroughRun", steady, FALSE)}
  ELSE {}

-----------------------------------------------------------------------------
(* Verdict, exit code and the fate of the run's database.                  *)

\* LifecycleResult.Verdict.
Verdict(runError, t, checks, truncated) ==
  IF runError \/ ~Balanced(t) \/ checks = {} \/ ~ChecksPassed(checks)
  THEN "failed"
  ELSE IF truncated \/ t.indeterminate > 0 THEN "inconclusive" ELSE "conclusivePass"

ResultExitCode(runError, verdict) ==
  IF runError \/ verdict = "failed" THEN 1
  ELSE IF verdict = "inconclusive" THEN 3 ELSE 0

\* Seeded defect: only an explicit request or an error keeps the evidence.
PreserveOnError(cfg, truncated, runError, verdict) == cfg.keepData \/ runError

\* main: whether the run's database outlives the process.
Preserve(cfg, truncated, runError, verdict) ==
  cfg.keepData \/ truncated \/ runError \/ verdict # "conclusivePass"

=============================================================================
