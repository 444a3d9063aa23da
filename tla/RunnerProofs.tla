---------------------------- MODULE RunnerProofs ----------------------------
(***************************************************************************)
(* What holds of Runner for every number of workers and operations, every  *)
(* configuration and every server, in four parts, each resting on those    *)
(* before it: accounting, the compare-and-set chain, the verdict, and no   *)
(* false alarm.                                                            *)
(*                                                                         *)
(* Accounting: states are well typed and the causal tracker bounded; and   *)
(* the runner accounts for every operation: reserveOperation hands out     *)
(* each number once, and none is lost between the atomic counter, the      *)
(* workers and the ledger.                                                 *)
(***************************************************************************)
EXTENDS Runner, FiniteSetTheorems, TLAPS

-----------------------------------------------------------------------------
(* Types of the operators the model is built from.                         *)

\* The documents the runner starts from are documents.
LEMMA SeedType == Seed \in Document /\ NoDocument \in Document
<1>1. Seed \in Document
  BY DEF Seed, SeedDocument, Document
<1>2. QED
  BY <1>1 DEF NoDocument, Document

\* An outcome without causal fields is an outcome.
LEMMA PlainOutcomeType ==
  ASSUME NEW kind \in OutcomeKind \cup {"unknown"}, NEW m \in BOOLEAN, NEW e \in BOOLEAN
  PROVE  PlainOutcome(kind, m, e) \in Outcome
  BY DEF PlainOutcome, Outcome

\* Every scenario's update turns a document into a document.
LEMMA ModificationType ==
  ASSUME NEW s \in Scenarios, NEW d \in Document, NEW c \in Command
  PROVE  Modification(s, d, c) \in Document
<1>1. /\ d.gen + 1 \in Int /\ c.gen + 1 \in Int /\ c.sequence \in Int
      /\ c.worker \in Workers
  BY DEF Document, Command
<1>2. [d.fields EXCEPT ![c.worker] = c.sequence] \in [Workers -> Int]
  BY <1>1 DEF Document
<1>4. CASE s \in {"cas", "blind-inc"}
  BY <1>1, <1>4 DEF Modification, Document
<1>5. CASE s = "uuid-cas"
  BY <1>1, <1>5 DEF Modification, Document
<1>6. CASE s = "divergent-cas"
  BY <1>1, <1>6 DEF Modification, Document
<1>7. CASE s = "whole-document-convergent"
  BY <1>1, <1>7 DEF Modification, Document
<1>8. CASE s = "whole-document-divergent"
  BY <1>1, <1>2, <1>8 DEF Modification, Document
<1>9. CASE s = "disjoint-set"
  BY <1>1, <1>2, <1>9 DEF Modification, Document
<1>10. CASE s = "same-set"
  BY <1>1, <1>10 DEF Modification, Document
<1>11. CASE s \in {"identical-set", "custom"}
  BY <1>11 DEF Modification, Document
<1>12. QED
  BY <1>4, <1>5, <1>6, <1>7, <1>8, <1>9, <1>10, <1>11
     DEF Scenarios, CASScenarios, SetScenarios

\* What Execute makes of a reply is an outcome, and Record accepts it.
LEMMA UpdateResultType ==
  ASSUME NEW s \in Scenarios, NEW r \in Replies, NEW n \in Nat, NEW g \in Int
  PROVE  UpdateResult(s, r, n, g) \in Outcome
<1>1. UpdateOutcome(r) \in Outcome
  <2>1. CASE r = "ambiguous"
    BY <2>1 DEF UpdateOutcome, PlainOutcome, Outcome, OutcomeKind
  <2>2. CASE r = "commandError"
    BY <2>2 DEF UpdateOutcome, PlainOutcome, Outcome, OutcomeKind
  <2>3. CASE r = "noMatch"
    BY <2>3 DEF UpdateOutcome, PlainOutcome, Outcome, OutcomeKind
  <2>4. CASE r \in {"modified", "matchedOnly"}
    BY <2>4 DEF UpdateOutcome, PlainOutcome, Outcome, OutcomeKind
  <2>5. QED
    BY <2>1, <2>2, <2>3, <2>4 DEF Replies
<1> DEFINE u == UpdateOutcome(r)
           u1 == [u EXCEPT !.sequence = n]
           u2 == [u1 EXCEPT !.cas = TRUE]
           u3 == [u2 EXCEPT !.observed = g]
           u4 == [u3 EXCEPT !.proposed = g + 1]
<1>2. u1 \in Outcome
  BY <1>1 DEF Outcome
<1>3. u2 \in Outcome
  <2> HIDE DEF u1
  <2> QED BY <1>2 DEF Outcome
<1>4. u3 \in Outcome
  <2> HIDE DEF u2
  <2> QED BY <1>3 DEF Outcome
<1>5. u4 \in Outcome
  <2> HIDE DEF u3
  <2> QED BY <1>4 DEF Outcome
<1>6. UpdateResult(s, r, n, g) = IF s \in CASScenarios THEN u4 ELSE u
  BY Zenon DEF UpdateResult
<1>7. QED
  BY <1>1, <1>5, <1>6

\* Ledger.Record keeps the aggregate counters natural numbers.
LEMMA TallyType ==
  ASSUME NEW t \in Totals, NEW o \in Outcome
  PROVE  Tally(t, o) \in Totals
  BY LedgerAssumption DEF Tally, Totals, One, Outcome

\* A causal ledger within n slots is within every larger number of slots.
LEMMA CausalMonotone ==
  ASSUME NEW c, NEW n \in Nat, NEW m \in Nat, n <= m, CausalOK(c, n)
  PROVE  CausalOK(c, m)
  BY DEF CausalOK

\* Growing a slice of k slots to reach slot g leaves the longer of the two
\* lengths, and only values the slice had, or zeros.
LEMMA GrownType ==
  ASSUME NEW S, 0 \in S, NEW k \in Nat, NEW g \in Nat, NEW f \in [0 .. k - 1 -> S]
  PROVE  Grown(f, g) \in [0 .. (IF g < k THEN k ELSE g + 1) - 1 -> S]
<1>1. DOMAIN f \cup 0 .. g = 0 .. (IF g < k THEN k ELSE g + 1) - 1
  OBVIOUS
<1>2. QED
  BY <1>1 DEF Grown

\* Retaining a finding keeps the sequence of findings one.
LEMMA RetainFindingType ==
  ASSUME NEW fs \in Seq(Finding), NEW f \in Finding
  PROVE  RetainFinding(fs, f) \in Seq(Finding)
  BY DEF RetainFinding

\* Recording an outcome whose observed generation is bounded by the issued
\* operations leaves the causal ledger within that many slots.
LEMMA RecordCausalType ==
  ASSUME NEW n \in Nat, NEW c, CausalOK(c, n), NEW o \in Outcome,
         o.cas => o.bound < n
  PROVE  CausalOK(RecordCausal(c, o), n)
<1>1. CASE ~(o.cas /\ o.kind = "matched")
  BY <1>1 DEF RecordCausal
<1>2. CASE o.cas /\ o.kind = "matched" /\ InvalidEdge(o)
  <2>1. RecordCausal(c, o) = RecordInvalid(c, o)
    BY <1>2 DEF RecordCausal
  <2>2. [reason |-> "invalidEdge", observed |-> o.observed, first |-> 0,
         competing |-> o.sequence] \in Finding
    BY DEF Finding, Outcome
  <2>3. RecordInvalid(c, o).findings \in Seq(Finding)
    BY <2>2, RetainFindingType DEF RecordInvalid, CausalOK
  <2>4. RecordInvalid(c, o) \in
          [matchedEdges : Nat, duplicates : Nat, invalidEdges : Nat,
           highestObserved : Nat, observedCounts : {c.observedCounts},
           observedFirst : {c.observedFirst}, matchedOperations : SUBSET Nat,
           findings : Seq(Finding)]
    BY <2>3 DEF RecordInvalid, CausalOK
  <2>5. /\ RecordInvalid(c, o).observedCounts = c.observedCounts
        /\ RecordInvalid(c, o).observedFirst = c.observedFirst
    BY DEF RecordInvalid
  <2>6. QED
    BY <2>1, <2>4, <2>5 DEF CausalOK
<1>3. CASE o.cas /\ o.kind = "matched" /\ ~InvalidEdge(o)
  <2> DEFINE g == o.observed
             counts == Grown(c.observedCounts, g)
             first == Grown(c.observedFirst, g)
             r == RecordEdge(c, o)
  <2>1. RecordCausal(c, o) = r
    BY <1>3 DEF RecordCausal
  <2>2. g \in Nat /\ g < n
    BY <1>3 DEF InvalidEdge, Outcome
  <2>3. PICK k \in 0 .. n : /\ c.observedCounts \in [0 .. k - 1 -> 0 .. CounterCap]
                            /\ c.observedFirst \in [0 .. k - 1 -> Nat]
    BY DEF CausalOK
  <2> DEFINE l == IF g < k THEN k ELSE g + 1
  <2>4. l \in 0 .. n /\ g \in 0 .. l - 1
    BY <2>2
  <2>5. counts \in [0 .. l - 1 -> 0 .. CounterCap]
    <3>1. k \in Nat /\ 0 \in 0 .. CounterCap
      BY LedgerAssumption
    <3>2. QED
      BY <2>2, <2>3, <3>1, GrownType, Zenon
  <2>6. first \in [0 .. l - 1 -> Nat]
    <3>1. k \in Nat /\ 0 \in Nat
      OBVIOUS
    <3>2. QED
      BY <2>2, <2>3, <3>1, GrownType, Zenon
  <2> HIDE DEF l, counts, first
  <2>7. [counts EXCEPT ![g] = IF @ < CounterCap THEN @ + 1 ELSE @]
          \in [0 .. l - 1 -> 0 .. CounterCap]
    BY <2>4, <2>5, LedgerAssumption
  <2>8. [first EXCEPT ![g] = o.sequence] \in [0 .. l - 1 -> Nat]
    BY <2>4, <2>6 DEF Outcome
  <2>9. [reason |-> "duplicateMatch", observed |-> g, first |-> first[g],
         competing |-> o.sequence] \in Finding
    BY <2>2, <2>4, <2>6 DEF Finding, Outcome
  <2>10. /\ r.observedCounts \in [0 .. l - 1 -> 0 .. CounterCap]
         /\ r.observedFirst \in [0 .. l - 1 -> Nat]
    BY <2>6, <2>7, <2>8 DEF RecordEdge, counts, first
  <2>11. r.findings \in Seq(Finding)
    BY <2>9, RetainFindingType DEF RecordEdge, CausalOK, counts, first
  <2>12. r \in [matchedEdges : Nat, duplicates : Nat, invalidEdges : Nat,
                highestObserved : Nat, observedCounts : {r.observedCounts},
                observedFirst : {r.observedFirst}, matchedOperations : SUBSET Nat,
                findings : Seq(Finding)]
    <3>1. r = [matchedEdges |-> r.matchedEdges, duplicates |-> r.duplicates,
               invalidEdges |-> r.invalidEdges, highestObserved |-> r.highestObserved,
               observedCounts |-> r.observedCounts, observedFirst |-> r.observedFirst,
               matchedOperations |-> r.matchedOperations, findings |-> r.findings]
      BY DEF RecordEdge
    <3>2. /\ r.matchedEdges = c.matchedEdges + 1 /\ r.invalidEdges = c.invalidEdges
          /\ r.duplicates = c.duplicates + One(counts[g] > 0)
          /\ r.highestObserved = IF g > c.highestObserved THEN g ELSE c.highestObserved
          /\ r.matchedOperations = c.matchedOperations \cup ({o.sequence} \ {0})
      BY DEF RecordEdge, counts
    <3>3. One(counts[g] > 0) \in {0, 1}
      BY DEF One
    <3>4. /\ c.matchedEdges \in Nat /\ c.invalidEdges \in Nat /\ c.duplicates \in Nat
          /\ c.highestObserved \in Nat /\ c.matchedOperations \subseteq Nat
          /\ o.sequence \in Nat
      BY DEF CausalOK, Outcome
    <3> HIDE DEF r
    <3>5. /\ r.matchedEdges \in Nat /\ r.invalidEdges \in Nat /\ r.duplicates \in Nat
          /\ r.highestObserved \in Nat /\ r.matchedOperations \in SUBSET Nat
      BY <2>2, <3>2, <3>4, <3>3
    <3>6. QED
      BY <2>11, <3>1, <3>5
  <2> HIDE DEF r
  <2>13. QED
    BY <2>1, <2>4, <2>10, <2>12 DEF CausalOK
<1>4. QED
  BY <1>1, <1>2, <1>3

-----------------------------------------------------------------------------
(* Type correctness. The bound on an observed generation is read from      *)
(* `issued` before Record uses it: it has to be still valid then.          *)

BoundIsCurrent ==
  \A w \in Workers : pc[w] = "record" /\ outcome[w].cas => outcome[w].bound < issued

TypeInv == TypeOK /\ BoundIsCurrent

USE DEF workerVars, ledgerVars, serverVars, resultVars

\* The initial states have the declared types.
LEMMA TypeInit == Init => TypeInv
<1> SUFFICES ASSUME Init PROVE TypeInv
  OBVIOUS
<1>1. CausalOK(EmptyCausal, 0)
  <2>1. EmptyCausal.observedCounts \in [0 .. 0 - 1 -> 0 .. CounterCap]
    BY DEF EmptyCausal
  <2>2. EmptyCausal.observedFirst \in [0 .. 0 - 1 -> Nat]
    BY DEF EmptyCausal
  <2>3. EmptyCausal \in
          [matchedEdges : Nat, duplicates : Nat, invalidEdges : Nat,
           highestObserved : Nat, observedCounts : {EmptyCausal.observedCounts},
           observedFirst : {EmptyCausal.observedFirst}, matchedOperations : SUBSET Nat,
           findings : Seq(Finding)]
    BY DEF EmptyCausal
  <2>4. QED
    BY <2>1, <2>2, <2>3 DEF CausalOK
<1>2. EmptyTotals \in Totals
  BY DEF EmptyTotals, Totals
<1>3. NoOutcome \in Outcome
  BY PlainOutcomeType DEF NoOutcome
<1>4. TypeOK
  <2>1. CausalOK(causal, issued) /\ totals \in Totals
    BY <1>1, <1>2 DEF Init
  <2>2. doc \in Document /\ verified \in Document
    BY SeedType DEF Init
  <2>3. /\ outcome \in [Workers -> Outcome]
        /\ observed \in [Workers -> [gen : Int, token : Int]]
    BY <1>3 DEF Init, NoObservation
  <2>4. QED
    BY <2>1, <2>2, <2>3 DEF Init, TypeOK, Phases, Steps
<1>5. BoundIsCurrent
  BY DEF Init, BoundIsCurrent
<1>6. QED
  BY <1>4, <1>5 DEF TypeInv

\* Every step keeps the types, and keeps a bound that was read valid.
LEMMA TypeNext == TypeInv /\ [Next]_vars => TypeInv'
<1> SUFFICES ASSUME TypeInv, [Next]_vars PROVE TypeInv'
  OBVIOUS
<1> USE DEF TypeInv
<1>d. Served \subseteq Document
  BY RunnerAssumption DEF Served, TypeOK
<1>s. cfg.scenario \in Scenarios
  BY RunnerAssumption DEF TypeOK, Config
<1>o. NoOutcome \in Outcome
  BY PlainOutcomeType DEF NoOutcome
<1>1. CASE RejectConfig
  BY <1>1
     DEF TypeOK, BoundIsCurrent, RejectConfig, Exit, Phases
<1>2. CASE PreflightFails
  BY <1>2
     DEF TypeOK, BoundIsCurrent, PreflightFails, Exit, Phases
<1>3. CASE Preflight
  BY <1>3
     DEF TypeOK, BoundIsCurrent, Preflight, Phases
<1>4. CASE Setup
  BY <1>4, SeedType
     DEF TypeOK, BoundIsCurrent, Setup, Phases
<1>5. CASE SetupFails
  BY <1>5
     DEF TypeOK, BoundIsCurrent, SetupFails, Phases
<1>6. CASE Drain
  BY <1>6
     DEF TypeOK, BoundIsCurrent, Drain, Phases
<1>7. CASE Verify
  BY <1>7, <1>d
     DEF TypeOK, BoundIsCurrent, Verify, Phases, Served
<1>8. CASE VerifyFails
  BY <1>8
     DEF TypeOK, BoundIsCurrent, VerifyFails, Phases
<1>9. CASE Report
  BY <1>9
     DEF TypeOK, BoundIsCurrent, Report, Phases, Exit, Finalize, ResultExitCode
<1>10. CASE ReportFails
  BY <1>10
     DEF TypeOK, BoundIsCurrent, ReportFails, Phases, Exit, Finalize
<1>11. CASE Interrupt
  BY <1>11
     DEF TypeOK, BoundIsCurrent, Interrupt
<1>12. CASE DeadlinePasses
  BY <1>12
     DEF TypeOK, BoundIsCurrent, DeadlinePasses
<1>13. CASE Exited
  BY <1>13
     DEF TypeOK, BoundIsCurrent, Exited, vars
<1>14. ASSUME NEW w \in Workers, Admit(w) PROVE TypeInv'
  BY <1>14
     DEF TypeOK, BoundIsCurrent, Admit, Goto, Steps
<1>15. ASSUME NEW w \in Workers, ReserveUnlimited(w) PROVE TypeInv'
  <2>1. issued' \in Nat /\ issued <= issued'
    BY <1>15 DEF TypeOK, ReserveUnlimited
  <2>2. CausalOK(causal', issued')
    BY <1>15, <2>1, CausalMonotone DEF TypeOK, ReserveUnlimited
  <2>3. BoundIsCurrent'
    BY <1>15, <2>1 DEF TypeOK, BoundIsCurrent, Outcome, ReserveUnlimited, Goto
  <2>4. QED
    BY <1>15, <2>1, <2>2, <2>3 DEF TypeOK, ReserveUnlimited, Goto, Steps
<1>16. ASSUME NEW w \in Workers, LoadIssued(w) PROVE TypeInv'
  <2>1. pc' \in [Workers -> Steps] /\ loaded' \in [Workers -> Nat]
    BY <1>16 DEF TypeOK, LoadIssued, Goto, Steps
  <2>2. BoundIsCurrent'
    BY <1>16 DEF TypeOK, BoundIsCurrent, LoadIssued, Goto
  <2>3. QED
    BY <1>16, <2>1, <2>2 DEF TypeOK, LoadIssued
<1>17. ASSUME NEW w \in Workers, SwapIssued(w) PROVE TypeInv'
  <2>1. issued' \in Nat /\ issued <= issued'
    BY <1>17 DEF TypeOK, SwapIssued
  <2>2. CausalOK(causal', issued')
    BY <1>17, <2>1, CausalMonotone DEF TypeOK, SwapIssued
  <2>3. BoundIsCurrent'
    <3>1. outcome' = outcome /\ \A v \in Workers : pc'[v] = "record" => pc[v] = "record"
      BY <1>17 DEF TypeOK, SwapIssued, Goto
    <3>2. \A v \in Workers : outcome[v].bound \in Int
      BY DEF TypeOK, Outcome
    <3>3. QED
      BY <2>1, <3>1, <3>2 DEF TypeOK, BoundIsCurrent
  <2>4. /\ pc' \in [Workers -> Steps]
        /\ sequence' \in [Workers -> Nat] /\ loaded' \in [Workers -> Nat]
    BY <1>17, <2>1 DEF TypeOK, SwapIssued, Goto, Steps
  <2>5. QED
    BY <1>17, <2>1, <2>2, <2>3, <2>4 DEF TypeOK, SwapIssued
<1>18. ASSUME NEW w \in Workers, FindOne(w) PROVE TypeInv'
  BY <1>18, <1>d
     DEF TypeOK, BoundIsCurrent, FindOne, Goto, Steps, Served, Document
<1>19. ASSUME NEW w \in Workers, FindOneError(w) PROVE TypeInv'
  BY <1>19, PlainOutcomeType
     DEF TypeOK, BoundIsCurrent, FindOneError, ReadFails, Returns, Goto, Steps, OutcomeKind
<1>20. ASSUME NEW w \in Workers, FindOneCancelled(w) PROVE TypeInv'
  BY <1>20, PlainOutcomeType
     DEF TypeOK, BoundIsCurrent, FindOneCancelled, ReadFails, Returns, Goto, Steps, OutcomeKind
<1>21. ASSUME NEW w \in Workers, DelayCancelled(w) PROVE TypeInv'
  BY <1>21, PlainOutcomeType
     DEF TypeOK, BoundIsCurrent, DelayCancelled, ReadFails, Returns, Goto, Steps, OutcomeKind
<1>22. ASSUME NEW w \in Workers, SendUpdate(w) PROVE TypeInv'
  BY <1>22
     DEF TypeOK, BoundIsCurrent, SendUpdate, Goto, Steps, Command
<1>23. ASSUME NEW w \in Workers, CustomExecute(w) PROVE TypeInv'
  BY <1>23, RunnerAssumption
     DEF TypeOK, BoundIsCurrent, CustomExecute, Returns, Goto, Steps
<1>24. ASSUME NEW w \in Workers, BoundGeneration(w) PROVE TypeInv'
  BY <1>24
     DEF TypeOK, BoundIsCurrent, BoundGeneration, Goto, Steps, Outcome
<1>25. ASSUME NEW w \in Workers, Record(w) PROVE TypeInv'
  <2>1. CausalOK(causal', issued')
    BY <1>25, RecordCausalType DEF Record, TypeOK, BoundIsCurrent
  <2>2. totals' \in Totals
    BY <1>25, TallyType DEF Record, TypeOK
  <2>3. outcome' \in [Workers -> Outcome]
    BY <1>25, <1>o DEF Record, Forget, TypeOK
  <2>4. /\ pc' \in [Workers -> Steps] /\ pc'[w] # "record"
        /\ \A v \in Workers \ {w} : pc'[v] = pc[v] /\ outcome'[v] = outcome[v]
    BY <1>25 DEF Record, Forget, Goto, TypeOK, Steps
  <2>5. BoundIsCurrent'
    BY <1>25, <2>4 DEF Record, BoundIsCurrent
  <2>6. observed' \in [Workers -> [gen : Int, token : Int]]
    BY <1>25 DEF Record, Forget, NoObservation, TypeOK
  <2>7. sequence' \in [Workers -> Nat] /\ stop' \in BOOLEAN
    BY <1>25 DEF Record, Forget, TypeOK
  <2>8. QED
    BY <1>25, <2>1, <2>2, <2>3, <2>4, <2>5, <2>6, <2>7 DEF TypeOK, Record
<1>26. ASSUME NEW w \in Workers, NEW r \in Replies, UpdateReturns(w, r) PROVE TypeInv'
  <2>1. UpdateResult(cfg.scenario, r, sequence[w], observed[w].gen) \in Outcome
    BY <1>s, UpdateResultType DEF TypeOK
  <2>2. acknowledged' \in [Workers -> Nat]
    BY <1>26 DEF UpdateReturns, Acknowledge, TypeOK
  <2>3. QED
    BY <1>26, <2>1, <2>2
       DEF TypeOK, BoundIsCurrent, UpdateReturns, Returns, Goto, Steps
<1>27. ASSUME NEW w \in Workers, UpdateAnswered(w) PROVE TypeInv'
  BY <1>27, <1>26 DEF UpdateAnswered, TypeOK, Replies
<1>28. ASSUME NEW w \in Workers, UpdateError(w) PROVE TypeInv'
  BY <1>28, <1>26 DEF UpdateError, TypeOK, Replies
<1>29. ASSUME NEW w \in Workers, UpdateCancelled(w) PROVE TypeInv'
  BY <1>29, <1>26 DEF UpdateCancelled, TypeOK, Replies
<1>30. ASSUME NEW c \in commands, ServerApply(c) PROVE TypeInv'
  BY <1>30, ModificationType, <1>s
     DEF TypeOK, BoundIsCurrent, ServerApply, ServerFrame, Answer, Replies
<1>31. ASSUME NEW c \in commands, ServerRefuses(c) PROVE TypeInv'
  BY <1>31
     DEF TypeOK, BoundIsCurrent, ServerRefuses, ServerFrame, Answer, Replies
<1>32. ASSUME NEW c \in commands, ServerLoses(c) PROVE TypeInv'
  BY <1>32
     DEF TypeOK, BoundIsCurrent, ServerLoses, ServerFrame
<1>33. ASSUME NEW c \in commands, ServerMisanswers(c) PROVE TypeInv'
  <2>1. reply' \in [Workers -> Replies \cup {"none"}]
    BY <1>33 DEF TypeOK, ServerMisanswers, Answer
  <2>2. QED
    BY <1>33, <2>1 DEF TypeOK, BoundIsCurrent, ServerMisanswers, ServerFrame
<1>34. CASE UNCHANGED vars
  BY <1>34 DEF vars, TypeOK, BoundIsCurrent
<1>35. QED
  BY <1>1, <1>2, <1>3, <1>4, <1>5, <1>6, <1>7, <1>8, <1>9, <1>10, <1>11, <1>12, <1>13, <1>14, <1>15, <1>16, <1>17, <1>18, <1>19, <1>20, <1>21, <1>22, <1>23, <1>24, <1>25, <1>27, <1>28, <1>29, <1>30, <1>31, <1>32, <1>33, <1>34
     DEF Next, Lifecycle, Proceed, Network, Server

(***************************************************************************)
(* Every behaviour of the runner is type correct, whatever the server      *)
(* answers: in particular the causal ledger's slices never have more slots *)
(* than operations were issued.                                            *)
(***************************************************************************)
THEOREM TypeCorrect == SafetySpec => []TypeOK
<1>1. TypeInv => TypeOK
  BY DEF TypeInv
<1>2. QED
  BY TypeInit, TypeNext, <1>1, PTL DEF SafetySpec

\* The causal tracker stays within the operations issued, whatever generation
\* a defective server claims: the bound read before Record is never stale.
THEOREM TrackerIsBounded == SafetySpec => []TrackerBounded
<1>1. TypeInv => TrackerBounded
  BY DEF TypeInv, TypeOK, CausalOK, TrackerBounded
<1>2. QED
  BY TypeInit, TypeNext, <1>1, PTL DEF SafetySpec

-----------------------------------------------------------------------------
(* Accounting: the inductive invariant. A worker holds a number exactly from the swap  *)
(* that reserved it to the Record that spends it; a number loaded for a    *)
(* swap is still below the limit; a number is in a command only once its   *)
(* worker has sent it.                                                     *)

Holding == {"execute", "delay", "update", "returned", "record"}

NumbersHeld ==
  \A w \in Workers : /\ sequence[w] # 0 <=> pc[w] \in Holding
                     /\ sequence[w] <= issued

LoadedBelowLimit ==
  \A w \in Workers : pc[w] = "reserve" => loaded[w] < cfg.operations

CommandsSent ==
  \A c \in commands :
    /\ c.sequence \in 1 .. issued
    /\ \A w \in Workers : pc[w] \in {"execute", "delay"} => sequence[w] # c.sequence

AccountingInv ==
  /\ TypeInv
  /\ NumbersHeld
  /\ LoadedBelowLimit
  /\ CommandsSent
  /\ SequencesUnique
  /\ Accounted

-----------------------------------------------------------------------------

\* No worker executes anything at the start, and no counter has moved.
LEMMA AccountingInit == Init => AccountingInv
<1> SUFFICES ASSUME Init PROVE AccountingInv
  OBVIOUS
<1>1. TypeInv
  BY TypeInit
<1>2. Executing = {}
  BY DEF Init, Executing
<1>3. Balanced(totals)
  BY DEF Init, Balanced, EmptyTotals
<1>4. Accounted
  BY <1>2, <1>3, FS_EmptySet DEF Accounted, Init, EmptyTotals
<1>5. SequencesUnique
  <2>1. cfg.operations \in Nat
    BY <1>1, RunnerAssumption DEF TypeInv, TypeOK, Config
  <2>2. QED
    BY <1>2, <2>1 DEF SequencesUnique, Init
<1>6. NumbersHeld /\ LoadedBelowLimit /\ CommandsSent
  BY DEF NumbersHeld, LoadedBelowLimit, CommandsSent, Init, Holding
<1>7. QED
  BY <1>1, <1>3, <1>4, <1>5, <1>6 DEF AccountingInv

\* The accounting depends on these variables only; commands may disappear.
LEMMA AccountingFrame ==
  ASSUME AccountingInv, TypeInv',
         UNCHANGED <<cfg, issued, pc, loaded, sequence, totals, stop>>,
         commands' \subseteq commands
  PROVE  AccountingInv'
<1>1. Executing' = Executing
  BY DEF Executing
<1>2. Accounted'
  BY <1>1 DEF AccountingInv, Accounted
<1>3. SequencesUnique'
  BY <1>1 DEF AccountingInv, SequencesUnique
<1>4. NumbersHeld' /\ LoadedBelowLimit' /\ CommandsSent'
  BY DEF AccountingInv, NumbersHeld, LoadedBelowLimit, CommandsSent
<1>5. QED
  BY <1>2, <1>3, <1>4 DEF AccountingInv

\* A worker moves within its operation, or between two operations: the numbers
\* stay where they are.
LEMMA AccountingMove ==
  ASSUME AccountingInv, TypeInv', NEW w \in Workers, NEW to \in Steps,
         pc' = [pc EXCEPT ![w] = to],
         UNCHANGED <<cfg, issued, sequence, totals, stop, commands>>,
         pc[w] \in Holding <=> to \in Holding,
         to \in {"execute", "delay"} => pc[w] \in {"execute", "delay"},
         \A v \in Workers : loaded'[v] # loaded[v] => v = w,
         to = "reserve" => loaded'[w] < cfg.operations
  PROVE  AccountingInv'
<1> USE DEF AccountingInv
<1>1. Executing' = Executing
  BY DEF Executing
<1>2. Accounted'
  BY <1>1 DEF Accounted
<1>3. SequencesUnique'
  BY <1>1 DEF SequencesUnique
<1>4. pc \in [Workers -> Steps]
  BY DEF TypeInv, TypeOK
<1>5. NumbersHeld'
  BY <1>4 DEF NumbersHeld
<1>6. LoadedBelowLimit'
  BY <1>4 DEF LoadedBelowLimit
<1>7. CommandsSent'
  BY <1>4 DEF CommandsSent
<1>8. QED
  BY <1>2, <1>3, <1>5, <1>6, <1>7

\* Balanced counters stay balanced when an outcome Record accepts is added.
LEMMA TallyBalanced ==
  ASSUME NEW t \in Totals, NEW o \in Outcome, Balanced(t), Recordable(o)
  PROVE  Balanced(Tally(t, o)) /\ Tally(t, o).attempts = t.attempts + 1
  BY DEF Balanced, Tally, Recordable, One, Totals, Outcome, OutcomeKind

\* A worker takes the next number from the counter.
LEMMA AccountingReserve ==
  ASSUME AccountingInv, TypeInv', NEW w \in Workers,
         pc[w] \in {"load", "reserve"},
         cfg.operations > 0 => issued < cfg.operations,
         pc' = [pc EXCEPT ![w] = "execute"],
         issued' = issued + 1,
         sequence' = [sequence EXCEPT ![w] = issued + 1],
         \A v \in Workers : loaded'[v] # loaded[v] => v = w,
         UNCHANGED <<cfg, totals, stop, commands>>
  PROVE  AccountingInv'
<1> USE DEF AccountingInv
<1>1. /\ pc \in [Workers -> Steps] /\ sequence \in [Workers -> Nat]
      /\ issued \in Nat /\ cfg.operations \in Nat /\ totals \in Totals
      /\ commands \subseteq Command
  BY RunnerAssumption DEF TypeInv, TypeOK, Config
<1>2. sequence[w] = 0
  BY DEF NumbersHeld, Holding
<1>3. Executing' = Executing \cup {w} /\ w \notin Executing
  BY <1>1, <1>2 DEF Executing
<1>4. Cardinality(Executing') = Cardinality(Executing) + 1 /\ Cardinality(Executing) \in Nat
  <2>1. IsFiniteSet(Executing)
    BY RunnerAssumption, FS_Subset DEF Executing
  <2>2. QED
    BY <1>3, <2>1, FS_AddElement, FS_CardinalityType
<1>5. Accounted'
  BY <1>1, <1>4 DEF Accounted, Totals
<1>6. SequencesUnique'
  <2>1. \A v \in Workers : v # w => sequence'[v] = sequence[v] /\ sequence[v] < sequence'[w]
    BY <1>1 DEF NumbersHeld
  <2>2. \A u, v \in Executing' : u # v => sequence'[u] # sequence'[v]
    BY <1>1, <1>3, <2>1 DEF SequencesUnique, Executing
  <2>3. QED
    BY <1>1, <2>2 DEF SequencesUnique
<1>7. NumbersHeld'
  BY <1>1 DEF NumbersHeld, Holding
<1>8. LoadedBelowLimit'
  BY <1>1 DEF LoadedBelowLimit
<1>9. CommandsSent'
  BY <1>1 DEF CommandsSent, Command
<1>10. QED
  BY <1>5, <1>6, <1>7, <1>8, <1>9

\* The update leaves with the number its worker holds.
LEMMA AccountingSend ==
  ASSUME AccountingInv, TypeInv', NEW w \in Workers, SendUpdate(w)
  PROVE  AccountingInv'
<1> USE DEF AccountingInv
<1>1. /\ pc \in [Workers -> Steps] /\ sequence \in [Workers -> Nat]
      /\ issued \in Nat /\ commands \subseteq Command
  BY DEF TypeInv, TypeOK
<1>2. /\ pc[w] \in {"execute", "delay"}
      /\ pc' = [pc EXCEPT ![w] = "update"]
      /\ UNCHANGED <<cfg, issued, loaded, sequence, totals, stop>>
      /\ commands' = commands \cup {[sequence |-> sequence[w], worker |-> w,
                        gen |-> observed[w].gen, token |-> observed[w].token]}
  BY DEF SendUpdate, Goto
<1>3. Executing' = Executing /\ w \in Executing
  BY <1>2 DEF Executing, NumbersHeld, Holding
<1>4. Accounted'
  BY <1>2, <1>3 DEF Accounted
<1>5. \A c \in commands : c.sequence # sequence[w]
  BY <1>2 DEF CommandsSent
<1>6. SequencesUnique'
  BY <1>2, <1>3, <1>5 DEF SequencesUnique
<1>7. NumbersHeld' /\ LoadedBelowLimit'
  BY <1>1, <1>2 DEF NumbersHeld, LoadedBelowLimit, Holding
<1>8. CommandsSent'
  <2>1. sequence[w] \in 1 .. issued
    BY <1>1, <1>3 DEF NumbersHeld, Executing
  <2>2. \A v \in Workers : pc'[v] \in {"execute", "delay"} =>
          /\ pc[v] = pc'[v]
          /\ sequence[v] # sequence[w]
    BY <1>1, <1>2, <1>3 DEF SequencesUnique, NumbersHeld, Holding, Executing
  <2>3. QED
    BY <1>1, <1>2, <2>1, <2>2 DEF CommandsSent
<1>9. QED
  BY <1>4, <1>6, <1>7, <1>8

\* The number a worker held is spent, on the ledger or on a record error.
LEMMA AccountingRecord ==
  ASSUME AccountingInv, TypeInv', NEW w \in Workers, Record(w)
  PROVE  AccountingInv'
<1> USE DEF AccountingInv
<1>1. /\ pc \in [Workers -> Steps] /\ sequence \in [Workers -> Nat]
      /\ issued \in Nat /\ totals \in Totals /\ outcome \in [Workers -> Outcome]
      /\ stop \in BOOLEAN
  BY DEF TypeInv, TypeOK
<1>2. /\ pc[w] = "record"
      /\ sequence' = [sequence EXCEPT ![w] = 0]
      /\ UNCHANGED <<cfg, issued, loaded, commands>>
  BY DEF Record, Forget
<1>3. \E to \in {"done", "admit"} : pc' = [pc EXCEPT ![w] = to]
  BY DEF Record, Goto
<1>4. Executing' = Executing \ {w} /\ w \in Executing
  BY <1>1, <1>2 DEF Executing, NumbersHeld, Holding
<1>5. Cardinality(Executing') = Cardinality(Executing) - 1 /\ Cardinality(Executing) \in Nat
  <2>1. IsFiniteSet(Executing)
    BY RunnerAssumption, FS_Subset DEF Executing
  <2>2. QED
    BY <1>4, <2>1, FS_RemoveElement, FS_CardinalityType
<1>6. Accounted'
  <2>1. CASE Recordable(outcome[w])
    <3>1. totals' = Tally(totals, outcome[w]) /\ stop' = stop
      BY <2>1 DEF Record
    <3>2. Balanced(totals') /\ totals'.attempts = totals.attempts + 1
      BY <1>1, <2>1, <3>1, TallyBalanced DEF Accounted
    <3>3. QED
      BY <1>1, <1>2, <1>5, <3>1, <3>2 DEF Accounted, Totals
  <2>2. CASE ~Recordable(outcome[w])
    <3>1. totals' = totals /\ stop'
      BY <2>2 DEF Record
    <3>2. QED
      BY <1>1, <1>2, <1>5, <3>1 DEF Accounted, Totals
  <2>3. QED
    BY <2>1, <2>2
<1>7. SequencesUnique'
  BY <1>1, <1>2, <1>4 DEF SequencesUnique
<1>8. NumbersHeld' /\ LoadedBelowLimit' /\ CommandsSent'
  BY <1>1, <1>2, <1>3 DEF NumbersHeld, LoadedBelowLimit, CommandsSent, Holding
<1>9. QED
  BY <1>6, <1>7, <1>8

-----------------------------------------------------------------------------

\* Every step of the runner, the server and the environment keeps the books.
LEMMA AccountingNext == AccountingInv /\ [Next]_vars => AccountingInv'
<1> SUFFICES ASSUME AccountingInv, [Next]_vars PROVE AccountingInv'
  OBVIOUS
<1>1. TypeInv'
  BY TypeNext DEF AccountingInv
<1>2. pc \in [Workers -> Steps] /\ cfg.operations \in Nat /\ issued \in Nat
  BY RunnerAssumption DEF AccountingInv, TypeInv, TypeOK, Config
<1>3. CASE Lifecycle
  BY <1>1, <1>3, AccountingFrame
     DEF Lifecycle, RejectConfig, Preflight, PreflightFails, Setup, SetupFails,
         Drain, Verify, VerifyFails, Report, ReportFails
<1>4. CASE Interrupt \/ DeadlinePasses \/ Exited \/ UNCHANGED vars
  BY <1>1, <1>4, AccountingFrame DEF Interrupt, DeadlinePasses, Exited, vars
<1>5. ASSUME NEW c \in commands, Server(c) PROVE AccountingInv'
  BY <1>1, <1>5, AccountingFrame
     DEF Server, ServerApply, ServerRefuses, ServerLoses, ServerMisanswers, ServerFrame
<1>6. ASSUME NEW w \in Workers, Admit(w) PROVE AccountingInv'
  <2>1. \E to \in {"done", "load"} : pc' = [pc EXCEPT ![w] = to]
    BY <1>6 DEF Admit, Goto
  <2>2. QED
    BY <1>1, <1>2, <1>6, <2>1, AccountingMove DEF Admit, Holding, Steps
<1>7. ASSUME NEW w \in Workers, LoadIssued(w) PROVE AccountingInv'
  <2>1. CASE issued >= cfg.operations
    BY <1>1, <1>2, <1>7, <2>1, AccountingMove DEF LoadIssued, Goto, Holding, Steps
  <2>2. CASE ~(issued >= cfg.operations)
    <3>1. /\ loaded' = [loaded EXCEPT ![w] = issued]
          /\ pc' = [pc EXCEPT ![w] = "reserve"] /\ pc[w] = "load"
          /\ UNCHANGED <<cfg, issued, sequence, totals, stop, commands>>
      BY <1>7, <2>2 DEF LoadIssued, Goto
    <3>2. loaded'[w] < cfg.operations /\ \A v \in Workers : loaded'[v] # loaded[v] => v = w
      BY <1>2, <2>2, <3>1 DEF AccountingInv, TypeInv, TypeOK
    <3>3. QED
      BY <1>1, <3>1, <3>2, AccountingMove DEF Holding, Steps
  <2>3. QED
    BY <2>1, <2>2
<1>8. ASSUME NEW w \in Workers, FindOne(w) PROVE AccountingInv'
  BY <1>1, <1>8, AccountingMove
     DEF FindOne, Goto, Holding, Steps
<1>9. ASSUME NEW w \in Workers, FindOneError(w) PROVE AccountingInv'
  BY <1>1, <1>9, AccountingMove
     DEF FindOneError, ReadFails, Returns, Goto, Holding, Steps
<1>10. ASSUME NEW w \in Workers, FindOneCancelled(w) PROVE AccountingInv'
  BY <1>1, <1>10, AccountingMove
     DEF FindOneCancelled, ReadFails, Returns, Goto, Holding, Steps
<1>11. ASSUME NEW w \in Workers, DelayCancelled(w) PROVE AccountingInv'
  BY <1>1, <1>11, AccountingMove
     DEF DelayCancelled, ReadFails, Returns, Goto, Holding, Steps
<1>12. ASSUME NEW w \in Workers, UpdateAnswered(w) PROVE AccountingInv'
  BY <1>1, <1>12, AccountingMove
     DEF UpdateAnswered, UpdateReturns, Returns, Goto, Holding, Steps
<1>13. ASSUME NEW w \in Workers, UpdateError(w) PROVE AccountingInv'
  BY <1>1, <1>13, AccountingMove
     DEF UpdateError, UpdateReturns, Returns, Goto, Holding, Steps
<1>14. ASSUME NEW w \in Workers, UpdateCancelled(w) PROVE AccountingInv'
  BY <1>1, <1>14, AccountingMove
     DEF UpdateCancelled, UpdateReturns, Returns, Goto, Holding, Steps
<1>15. ASSUME NEW w \in Workers, CustomExecute(w) PROVE AccountingInv'
  BY <1>1, <1>15, AccountingMove
     DEF CustomExecute, Returns, Goto, Holding, Steps
<1>16. ASSUME NEW w \in Workers, BoundGeneration(w) PROVE AccountingInv'
  BY <1>1, <1>16, AccountingMove
     DEF BoundGeneration, Goto, Holding, Steps
<1>17. ASSUME NEW w \in Workers, ReserveUnlimited(w) PROVE AccountingInv'
  <2>1. /\ pc[w] = "load" /\ pc' = [pc EXCEPT ![w] = "execute"]
        /\ issued' = issued + 1 /\ sequence' = [sequence EXCEPT ![w] = issued + 1]
        /\ UNCHANGED <<cfg, loaded, totals, stop, commands>>
    BY <1>17 DEF ReserveUnlimited, Goto
  <2>2. ~(cfg.operations > 0)
    BY <1>2, <1>17 DEF ReserveUnlimited
  <2>3. QED
    BY <1>1, <2>1, <2>2, AccountingReserve
<1>18. ASSUME NEW w \in Workers, SwapIssued(w) PROVE AccountingInv'
  <2>1. \A v \in Workers : loaded'[v] # loaded[v] => v = w
    BY <1>18 DEF SwapIssued, AccountingInv, TypeInv, TypeOK
  <2>2. CASE issued = loaded[w]
    <3>1. issued < cfg.operations
      BY <1>18, <2>2 DEF SwapIssued, AccountingInv, LoadedBelowLimit
    <3>2. QED
      BY <1>1, <1>18, <2>1, <2>2, <3>1, AccountingReserve DEF SwapIssued, Goto
  <2>3. CASE issued # loaded[w]
    BY <1>1, <1>18, <2>1, <2>3, AccountingMove DEF SwapIssued, Goto, Holding, Steps
  <2>4. QED
    BY <2>2, <2>3
<1>19. ASSUME NEW w \in Workers, SendUpdate(w) \/ Record(w) PROVE AccountingInv'
  BY <1>1, <1>19, AccountingSend, AccountingRecord
<1>20. QED
  BY <1>3, <1>4, <1>5, <1>6, <1>7, <1>8, <1>9, <1>10, <1>11, <1>12, <1>13, <1>14, <1>15, <1>16, <1>17, <1>18, <1>19
     DEF Next, Proceed, Network

(***************************************************************************)
(* reserveOperation never hands out a number twice and never overshoots    *)
(* the limit, and no operation is lost between the counter and the ledger. *)
(***************************************************************************)
THEOREM OperationsAccounted == SafetySpec => []Accounted
<1>1. AccountingInv => Accounted
  BY DEF AccountingInv
<1>2. QED
  BY AccountingInit, AccountingNext, <1>1, PTL DEF SafetySpec

\* reserveOperation hands out every number once and never passes the limit,
\* in spite of the race between its load and its swap.
THEOREM ReservationsUnique == SafetySpec => []SequencesUnique
<1>1. AccountingInv => SequencesUnique
  BY DEF AccountingInv
<1>2. QED
  BY AccountingInit, AccountingNext, <1>1, PTL DEF SafetySpec

-----------------------------------------------------------------------------
(***************************************************************************)
(* The chain                                                               *)
(*                                                                         *)
(* Soundness of the compare-and-set oracles: what a conclusive pass proves *)
(* about the updates the server acknowledged, for every number of workers  *)
(* and operations and for a server that may answer anything.               *)
(***************************************************************************)

-----------------------------------------------------------------------------
(* The inductive invariant ties the history of acknowledged updates to the *)
(* causal ledger. An acknowledged update is pending while its worker still *)
(* holds its number, and recorded from then on.                            *)

Chained == cfg.scenario \in CASScenarios

Returned(w) == pc[w] \in {"returned", "record"}

Recorded == {a \in acked : sequence[a.worker] # a.sequence}

Mark(w) == [sequence |-> sequence[w], worker |-> w, observed |-> outcome[w].observed]

\* Acknowledged updates have numbers of their own; a number still held belongs
\* to the worker that sent the update and has its answer.
AckedNumbered ==
  /\ IsFiniteSet(acked)
  /\ \A a \in acked :
       /\ a.sequence \in 1 .. issued
       /\ \A w \in Workers : sequence[w] = a.sequence => w = a.worker /\ Returned(w)
  /\ \A a, b \in acked : a.sequence = b.sequence => a = b

\* What Execute returned agrees with the history.
OutcomeAcked ==
  \A w \in Workers : Chained /\ Returned(w) =>
    /\ Recordable(outcome[w])
    /\ IF outcome[w].cas /\ outcome[w].kind = "matched"
       THEN Mark(w) \in acked /\ outcome[w].sequence = sequence[w]
       ELSE \A a \in acked : a.sequence # sequence[w]

\* The causal ledger agrees with the recorded updates.
LedgerCausal ==
  /\ Chained => causal.matchedEdges = Cardinality(Recorded)
  /\ Chained /\ causal.invalidEdges = 0 =>
       Observed(causal) = {a.observed : a \in Recorded}
  /\ Chained /\ causal.invalidEdges = 0 /\ causal.duplicates = 0 =>
       \A a, b \in Recorded : a.observed = b.observed => a = b
  /\ \A g \in Observed(causal) : g <= causal.highestObserved
  /\ Chained => \A s \in causal.matchedOperations : \E a \in acked : a.sequence = s

ChainInv == AccountingInv /\ AckedNumbered /\ OutcomeAcked /\ LedgerCausal

-----------------------------------------------------------------------------
(* The causal ledger's operators.                                          *)

\* A generation is observed from its first matched edge on, and a later edge
\* for it counts as a duplicate: saturation of the counter loses neither.
LEMMA RecordEdgeObserved ==
  ASSUME NEW n \in Nat, NEW c, CausalOK(c, n), NEW o \in Outcome, o.observed \in Nat
  PROVE  LET r == RecordEdge(c, o)
             g == o.observed
         IN  /\ Observed(r) = Observed(c) \cup {g}
             /\ r.matchedEdges = c.matchedEdges + 1
             /\ r.invalidEdges = c.invalidEdges
             /\ g \in Observed(c) => r.duplicates = c.duplicates + 1
             /\ g \notin Observed(c) => r.duplicates = c.duplicates
             /\ r.highestObserved = IF g > c.highestObserved THEN g ELSE c.highestObserved
             /\ r.matchedOperations = c.matchedOperations \cup ({o.sequence} \ {0})
<1> DEFINE g == o.observed
           r == RecordEdge(c, o)
           counts == Grown(c.observedCounts, g)
<1>1. PICK k \in 0 .. n : c.observedCounts \in [0 .. k - 1 -> 0 .. CounterCap]
  BY DEF CausalOK
<1>2. /\ DOMAIN counts = DOMAIN c.observedCounts \cup 0 .. g
      /\ \A i \in DOMAIN counts : counts[i] =
           IF i \in DOMAIN c.observedCounts THEN c.observedCounts[i] ELSE 0
  BY DEF Grown
<1>3. \A i \in DOMAIN counts : counts[i] \in 0 .. CounterCap
  BY <1>1, <1>2, LedgerAssumption
<1>4. g \in DOMAIN counts
  BY <1>2
<1>5. counts[g] > 0 <=> g \in Observed(c)
  BY <1>1, <1>2, <1>4 DEF Observed
<1> HIDE DEF counts
<1>6. r.observedCounts = [counts EXCEPT ![g] = IF @ < CounterCap THEN @ + 1 ELSE @]
  BY DEF RecordEdge, counts
<1>7. /\ DOMAIN r.observedCounts = DOMAIN counts
      /\ \A i \in DOMAIN counts : i # g => r.observedCounts[i] = counts[i]
      /\ r.observedCounts[g] > 0
  <2>1. (IF counts[g] < CounterCap THEN counts[g] + 1 ELSE counts[g]) > 0
    BY <1>3, <1>4, LedgerAssumption
  <2>2. QED
    BY <1>2, <1>4, <1>6, <2>1 DEF counts, Grown
<1>8. Observed(r) = Observed(c) \cup {g}
  <2> HIDE DEF r
  <2>1. \A i \in DOMAIN counts : i # g => (counts[i] > 0 <=> i \in Observed(c))
    BY <1>1, <1>2 DEF Observed
  <2>2. \A i \in Observed(c) : i \in DOMAIN counts
    BY <1>2 DEF Observed
  <2>3. QED
    BY <1>4, <1>7, <2>1, <2>2 DEF Observed
<1>9. /\ r.matchedEdges = c.matchedEdges + 1
      /\ r.invalidEdges = c.invalidEdges
      /\ r.highestObserved = IF g > c.highestObserved THEN g ELSE c.highestObserved
      /\ r.matchedOperations = c.matchedOperations \cup ({o.sequence} \ {0})
      /\ r.duplicates = c.duplicates + One(counts[g] > 0)
  BY DEF RecordEdge, counts
<1>10. c.duplicates \in Nat
  BY DEF CausalOK
<1>11. /\ g \in Observed(c) => r.duplicates = c.duplicates + 1
       /\ g \notin Observed(c) => r.duplicates = c.duplicates
  BY <1>5, <1>9, <1>10 DEF One
<1>12. QED
  BY <1>8, <1>9, <1>11

\* An edge no correct run produces is counted and leaves the chain alone.
LEMMA RecordInvalidObserved ==
  ASSUME NEW n \in Nat, NEW c, CausalOK(c, n), NEW o \in Outcome
  PROVE  LET r == RecordInvalid(c, o)
         IN  /\ Observed(r) = Observed(c)
             /\ r.matchedEdges = c.matchedEdges + 1
             /\ r.invalidEdges = c.invalidEdges + 1
             /\ r.highestObserved = c.highestObserved
             /\ r.matchedOperations = c.matchedOperations
  BY DEF RecordInvalid, Observed

\* The outcome of a compare-and-set update: matched exactly on a matched reply.
LEMMA UpdateResultFields ==
  ASSUME NEW s \in CASScenarios, NEW r \in Replies, NEW n \in Nat, NEW g \in Int
  PROVE  LET u == UpdateResult(s, r, n, g)
         IN  /\ Recordable(u)
             /\ u.cas
             /\ u.kind = "matched" <=> r \in {"modified", "matchedOnly"}
             /\ u.sequence = n
             /\ u.observed = g
<1> DEFINE v == UpdateOutcome(r)
<1>1. /\ v \in Outcome
      /\ v.kind \in OutcomeKind
      /\ v.modified => v.kind = "matched"
      /\ v.kind = "matched" <=> r \in {"modified", "matchedOnly"}
  <2>1. CASE r = "ambiguous"
    BY <2>1 DEF UpdateOutcome, PlainOutcome, Outcome, OutcomeKind
  <2>2. CASE r = "commandError"
    BY <2>2 DEF UpdateOutcome, PlainOutcome, Outcome, OutcomeKind
  <2>3. CASE r = "noMatch"
    BY <2>3 DEF UpdateOutcome, PlainOutcome, Outcome, OutcomeKind
  <2>4. CASE r \in {"modified", "matchedOnly"}
    BY <2>4 DEF UpdateOutcome, PlainOutcome, Outcome, OutcomeKind
  <2>5. QED
    BY <2>1, <2>2, <2>3, <2>4 DEF Replies
<1> HIDE DEF v
<1> DEFINE v1 == [v EXCEPT !.sequence = n]
           v2 == [v1 EXCEPT !.cas = TRUE]
           v3 == [v2 EXCEPT !.observed = g]
           v4 == [v3 EXCEPT !.proposed = g + 1]
<1>2. v1 \in Outcome /\ v1.kind = v.kind /\ v1.modified = v.modified /\ v1.sequence = n
  BY <1>1 DEF Outcome
<1> HIDE DEF v1
<1>3. /\ v2 \in Outcome /\ v2.kind = v.kind /\ v2.modified = v.modified
      /\ v2.sequence = n /\ v2.cas
  BY <1>2 DEF Outcome
<1> HIDE DEF v2
<1>4. /\ v3 \in Outcome /\ v3.kind = v.kind /\ v3.modified = v.modified
      /\ v3.sequence = n /\ v3.cas /\ v3.observed = g
  BY <1>3 DEF Outcome
<1> HIDE DEF v3
<1>5. /\ v4.kind = v.kind /\ v4.modified = v.modified
      /\ v4.sequence = n /\ v4.cas /\ v4.observed = g
  BY <1>4 DEF Outcome
<1>6. UpdateResult(s, r, n, g) = v4
  BY Zenon DEF UpdateResult, v, v1, v2, v3
<1> HIDE DEF v4
<1>7. QED
  BY <1>1, <1>5, <1>6 DEF Recordable

-----------------------------------------------------------------------------
(* Preservation.                                                           *)

\* No update is acknowledged and nothing is observed at the start.
LEMMA ChainInit == Init => ChainInv
<1> SUFFICES ASSUME Init PROVE ChainInv
  OBVIOUS
<1>1. acked = {} /\ Recorded = {}
  BY DEF Init, Recorded
<1>2. AckedNumbered
  BY <1>1, FS_EmptySet DEF AckedNumbered
<1>3. OutcomeAcked
  BY DEF Init, OutcomeAcked, Returned
<1>4. Observed(causal) = {}
  BY DEF Init, EmptyCausal, Observed
<1>5. causal.matchedEdges = 0 /\ causal.matchedOperations = {}
  BY DEF Init, EmptyCausal
<1>6. LedgerCausal
  BY <1>1, <1>4, <1>5, FS_EmptySet DEF LedgerCausal
<1>7. QED
  BY <1>2, <1>3, <1>6, AccountingInit DEF ChainInv

\* The chain depends on these variables only.
LEMMA ChainFrame ==
  ASSUME ChainInv, AccountingInv',
         UNCHANGED <<cfg, issued, pc, sequence, outcome, causal, acked>>
  PROVE  ChainInv'
<1>1. AckedNumbered'
  BY DEF ChainInv, AckedNumbered, Returned
<1>2. OutcomeAcked'
  BY DEF ChainInv, OutcomeAcked, Returned, Chained, Mark
<1>3. Recorded' = Recorded /\ (Chained' <=> Chained)
  BY DEF Recorded, Chained
<1>4. LedgerCausal'
  BY <1>3 DEF ChainInv, LedgerCausal
<1>5. QED
  BY <1>1, <1>2, <1>4 DEF ChainInv

\* A worker moves before its operation's answer is there, or between two
\* operations.
LEMMA ChainMove ==
  ASSUME ChainInv, AccountingInv', NEW w \in Workers, NEW to \in Steps,
         pc' = [pc EXCEPT ![w] = to],
         ~Returned(w), to \notin {"returned", "record"},
         UNCHANGED <<cfg, issued, sequence, outcome, causal, acked>>
  PROVE  ChainInv'
<1>1. pc \in [Workers -> Steps]
  BY DEF ChainInv, AccountingInv, TypeInv, TypeOK
<1>2. \A v \in Workers : Returned(v)' <=> Returned(v)
  BY <1>1 DEF Returned
<1>3. AckedNumbered'
  BY <1>2 DEF ChainInv, AckedNumbered
<1>4. OutcomeAcked'
  BY <1>2 DEF ChainInv, OutcomeAcked, Chained, Mark
<1>5. Recorded' = Recorded /\ (Chained' <=> Chained)
  BY DEF Recorded, Chained
<1>6. LedgerCausal'
  BY <1>5 DEF ChainInv, LedgerCausal
<1>7. QED
  BY <1>3, <1>4, <1>6 DEF ChainInv

\* A worker takes a number no acknowledged update has.
LEMMA ChainReserve ==
  ASSUME ChainInv, AccountingInv', NEW w \in Workers,
         pc[w] \in {"load", "reserve"},
         pc' = [pc EXCEPT ![w] = "execute"],
         issued' = issued + 1,
         sequence' = [sequence EXCEPT ![w] = issued + 1],
         UNCHANGED <<cfg, outcome, causal, acked>>
  PROVE  ChainInv'
<1>1. /\ pc \in [Workers -> Steps] /\ sequence \in [Workers -> Nat] /\ issued \in Nat
      /\ acked \subseteq [sequence : Nat, worker : Workers, observed : Int]
  BY DEF ChainInv, AccountingInv, TypeInv, TypeOK
<1>2. sequence[w] = 0 /\ \A v \in Workers : sequence[v] <= issued
  BY DEF ChainInv, AccountingInv, NumbersHeld, Holding
<1>3. /\ \A v \in Workers : v # w => sequence'[v] = sequence[v]
      /\ sequence'[w] = issued + 1
      /\ \A v \in Workers : Returned(v)' <=> Returned(v)
      /\ ~Returned(w)
  BY <1>1 DEF Returned
<1>4. \A a \in acked : a.sequence \in 1 .. issued /\ a.sequence # sequence'[w]
                       /\ a.sequence # sequence[w]
  BY <1>1, <1>2, <1>3 DEF ChainInv, AckedNumbered
<1>5. AckedNumbered'
  BY <1>1, <1>3, <1>4 DEF ChainInv, AckedNumbered
<1>6. OutcomeAcked'
  BY <1>3 DEF ChainInv, OutcomeAcked, Chained, Mark
<1>7. Recorded' = Recorded /\ (Chained' <=> Chained)
  BY <1>1, <1>3, <1>4 DEF Recorded, Chained
<1>8. LedgerCausal'
  BY <1>7 DEF ChainInv, LedgerCausal
<1>9. QED
  BY <1>5, <1>6, <1>8 DEF ChainInv

\* Execute returns without a matched update.
LEMMA ChainReturn ==
  ASSUME ChainInv, AccountingInv', NEW w \in Workers,
         pc[w] \in {"execute", "delay", "update"},
         pc' = [pc EXCEPT ![w] = "returned"],
         \A v \in Workers : v # w => outcome'[v] = outcome[v],
         Chained => /\ Recordable(outcome'[w])
                    /\ ~(outcome'[w].cas /\ outcome'[w].kind = "matched"),
         UNCHANGED <<cfg, issued, sequence, causal, acked>>
  PROVE  ChainInv'
<1>1. /\ pc \in [Workers -> Steps] /\ outcome \in [Workers -> Outcome]
      /\ acked \subseteq [sequence : Nat, worker : Workers, observed : Int]
  BY DEF ChainInv, AccountingInv, TypeInv, TypeOK
<1>2. /\ \A v \in Workers : v # w => (Returned(v)' <=> Returned(v)) /\ outcome'[v] = outcome[v]
      /\ Returned(w)' /\ ~Returned(w)
  BY <1>1 DEF Returned
<1>3. \A a \in acked : a.sequence # sequence[w]
  BY <1>2 DEF ChainInv, AckedNumbered
<1>4. AckedNumbered'
  BY <1>2, <1>3 DEF ChainInv, AckedNumbered
<1>5. OutcomeAcked'
  BY <1>2, <1>3 DEF ChainInv, OutcomeAcked, Chained, Mark
<1>6. Recorded' = Recorded /\ (Chained' <=> Chained)
  BY DEF Recorded, Chained
<1>7. LedgerCausal'
  BY <1>6 DEF ChainInv, LedgerCausal
<1>8. QED
  BY <1>4, <1>5, <1>7 DEF ChainInv
\* The server acknowledges an update as matched: it joins the history, pending.
LEMMA ChainAck ==
  ASSUME ChainInv, AccountingInv', NEW w \in Workers,
         NEW r \in {"modified", "matchedOnly"}, UpdateReturns(w, r)
  PROVE  ChainInv'
<1> DEFINE x == [sequence |-> sequence[w], worker |-> w, observed |-> observed[w].gen]
           o == UpdateResult(cfg.scenario, r, sequence[w], observed[w].gen)
<1>1. /\ pc \in [Workers -> Steps] /\ outcome \in [Workers -> Outcome]
      /\ sequence \in [Workers -> Nat] /\ issued \in Nat
      /\ observed \in [Workers -> [gen : Int, token : Int]]
      /\ acked \subseteq [sequence : Nat, worker : Workers, observed : Int]
  BY DEF ChainInv, AccountingInv, TypeInv, TypeOK
<1>2. /\ pc[w] = "update"
      /\ pc' = [pc EXCEPT ![w] = "returned"]
      /\ outcome' = [outcome EXCEPT ![w] = o]
      /\ acked' = acked \cup {x}
      /\ UNCHANGED <<cfg, issued, sequence, causal>>
  BY DEF UpdateReturns, Returns, Goto
<1>3. /\ \A v \in Workers : v # w => (Returned(v)' <=> Returned(v)) /\ outcome'[v] = outcome[v]
      /\ outcome'[w] = o
      /\ Returned(w)' /\ ~Returned(w)
  <2> HIDE DEF o
  <2> QED BY <1>1, <1>2 DEF Returned
<1>4. /\ sequence[w] \in 1 .. issued
      /\ \A v \in Workers : sequence[v] = sequence[w] => v = w
  BY <1>1, <1>2 DEF ChainInv, AccountingInv, NumbersHeld, Holding, SequencesUnique, Executing
<1>5. \A a \in acked : a.sequence # sequence[w]
  BY <1>3 DEF ChainInv, AckedNumbered
<1>6. AckedNumbered'
  <2>1. IsFiniteSet(acked')
    BY <1>2, FS_AddElement DEF ChainInv, AckedNumbered
  <2>2. \A a \in acked' : a.sequence \in 1 .. issued
    BY <1>2, <1>4 DEF ChainInv, AckedNumbered
  <2>3. \A a \in acked' : \A v \in Workers :
          sequence[v] = a.sequence => v = a.worker /\ Returned(v)'
    BY <1>2, <1>3, <1>4, <1>5 DEF ChainInv, AckedNumbered
  <2>4. \A a, b \in acked' : a.sequence = b.sequence => a = b
    BY <1>2, <1>5 DEF ChainInv, AckedNumbered
  <2>5. QED
    BY <1>2, <2>1, <2>2, <2>3, <2>4 DEF AckedNumbered
<1>7. OutcomeAcked'
  <2> HIDE DEF o
  <2>1. ASSUME NEW v \in Workers, v # w, Chained', Returned(v)'
        PROVE  /\ Recordable(outcome'[v])
               /\ IF outcome'[v].cas /\ outcome'[v].kind = "matched"
                  THEN Mark(v)' \in acked' /\ outcome'[v].sequence = sequence'[v]
                  ELSE \A a \in acked' : a.sequence # sequence'[v]
    BY <1>2, <1>3, <1>4, <2>1 DEF ChainInv, OutcomeAcked, Chained, Mark
  <2>2. Chained' => /\ Recordable(o) /\ o.cas /\ o.kind = "matched"
                    /\ o.sequence = sequence[w] /\ o.observed = observed[w].gen
    BY <1>1, <1>2, UpdateResultFields DEF Chained, o, Replies
  <2>3. Chained' => Mark(w)' = x
    BY <1>2, <1>3, <2>2 DEF Mark
  <2>4. QED
    BY <1>2, <1>3, <2>1, <2>2, <2>3 DEF OutcomeAcked
<1>8. Recorded' = Recorded /\ (Chained' <=> Chained)
  BY <1>2 DEF Recorded, Chained
<1>9. LedgerCausal'
  BY <1>2, <1>8 DEF ChainInv, LedgerCausal
<1>10. QED
  BY <1>6, <1>7, <1>9 DEF ChainInv

\* The runner sets the bound of an outcome and nothing else of it.
LEMMA ChainBound ==
  ASSUME ChainInv, AccountingInv', NEW w \in Workers, BoundGeneration(w)
  PROVE  ChainInv'
<1>1. /\ pc \in [Workers -> Steps] /\ outcome \in [Workers -> Outcome]
  BY DEF ChainInv, AccountingInv, TypeInv, TypeOK
<1>2. /\ pc[w] = "returned" /\ pc' = [pc EXCEPT ![w] = "record"]
      /\ UNCHANGED <<cfg, issued, sequence, causal, acked>>
  BY DEF BoundGeneration, Goto
<1>3. \A v \in Workers : Returned(v)' <=> Returned(v)
  BY <1>1, <1>2 DEF Returned
<1>4. \A v \in Workers :
        /\ outcome'[v].kind = outcome[v].kind /\ outcome'[v].modified = outcome[v].modified
        /\ outcome'[v].cas = outcome[v].cas /\ outcome'[v].observed = outcome[v].observed
        /\ outcome'[v].sequence = outcome[v].sequence
  BY <1>1 DEF BoundGeneration, Outcome
<1>5. AckedNumbered'
  BY <1>2, <1>3 DEF ChainInv, AckedNumbered
<1>6. OutcomeAcked'
  BY <1>2, <1>3, <1>4 DEF ChainInv, OutcomeAcked, Chained, Mark, Recordable
<1>7. Recorded' = Recorded /\ (Chained' <=> Chained)
  BY <1>2 DEF Recorded, Chained
<1>8. LedgerCausal'
  BY <1>2, <1>7 DEF ChainInv, LedgerCausal
<1>9. QED
  BY <1>5, <1>6, <1>8 DEF ChainInv

\* Record turns a pending update into a recorded one and counts its edge.
LEMMA ChainRecord ==
  ASSUME ChainInv, AccountingInv', NEW w \in Workers, Record(w)
  PROVE  ChainInv'
<1> DEFINE o == outcome[w]
           x == Mark(w)
<1>1. /\ pc \in [Workers -> Steps] /\ outcome \in [Workers -> Outcome]
      /\ sequence \in [Workers -> Nat] /\ issued \in Nat /\ CausalOK(causal, issued)
      /\ acked \subseteq [sequence : Nat, worker : Workers, observed : Int]
      /\ o \in Outcome
  BY DEF ChainInv, AccountingInv, TypeInv, TypeOK
<1>2. /\ pc[w] = "record"
      /\ sequence' = [sequence EXCEPT ![w] = 0]
      /\ outcome' = [outcome EXCEPT ![w] = NoOutcome]
      /\ UNCHANGED <<cfg, issued, acked>>
  BY DEF Record, Forget
<1>3. \E to \in {"done", "admit"} : pc' = [pc EXCEPT ![w] = to]
  BY DEF Record, Goto
<1>4. /\ \A v \in Workers : v # w => /\ Returned(v)' <=> Returned(v)
                                     /\ outcome'[v] = outcome[v]
                                     /\ sequence'[v] = sequence[v]
      /\ sequence'[w] = 0 /\ ~Returned(w)' /\ Returned(w)
  BY <1>1, <1>2, <1>3 DEF Returned
<1>5. AckedNumbered'
  BY <1>1, <1>2, <1>4 DEF ChainInv, AckedNumbered
<1>6. OutcomeAcked'
  BY <1>2, <1>4 DEF ChainInv, OutcomeAcked, Chained, Mark
<1>7. Chained' <=> Chained
  BY <1>2 DEF Chained
<1>8. sequence[w] # 0
  BY <1>2 DEF ChainInv, AccountingInv, NumbersHeld, Holding
<1>9. CASE ~Chained
  <2>1. \A g \in Observed(causal') : g <= causal'.highestObserved
    <3>1. causal' \in {causal, RecordInvalid(causal, o), RecordEdge(causal, o)}
      BY DEF Record, RecordCausal
    <3>2. CASE causal' = causal
      BY <3>2 DEF ChainInv, LedgerCausal
    <3>3. CASE causal' = RecordInvalid(causal, o)
      BY <1>1, <3>3, RecordInvalidObserved DEF ChainInv, LedgerCausal
    <3>4. CASE causal' = RecordEdge(causal, o) /\ o.observed \in Nat
      <4>1. Observed(causal') = Observed(causal) \cup {o.observed}
        BY <1>1, <3>4, RecordEdgeObserved
      <4>2. causal'.highestObserved =
              IF o.observed > causal.highestObserved THEN o.observed ELSE causal.highestObserved
        BY <1>1, <3>4, RecordEdgeObserved
      <4>3. /\ causal.highestObserved \in Nat
            /\ \A g \in Observed(causal) : g \in Int
        BY <1>1 DEF CausalOK, Observed
      <4>4. QED
        BY <3>4, <4>1, <4>2, <4>3 DEF ChainInv, LedgerCausal
    <3>5. causal' = RecordEdge(causal, o) => causal' = causal \/ o.observed \in Nat
                                             \/ causal' = RecordInvalid(causal, o)
      BY <1>1 DEF Record, RecordCausal, InvalidEdge, Outcome
    <3>6. QED
      BY <3>1, <3>2, <3>3, <3>4, <3>5
  <2>2. QED
    BY <1>5, <1>6, <1>7, <1>9, <2>1 DEF ChainInv, LedgerCausal
<1>10. CASE Chained
  <2>1. Recordable(o) /\ causal' = RecordCausal(causal, o)
    BY <1>4, <1>10 DEF ChainInv, OutcomeAcked, Record
  <2>2. CASE ~(o.cas /\ o.kind = "matched")
    <3>1. causal' = causal
      BY <2>1, <2>2 DEF RecordCausal
    <3>2. \A a \in acked : a.sequence # sequence[w]
      BY <1>4, <1>10, <2>2 DEF ChainInv, OutcomeAcked
    <3>3. Recorded' = Recorded
      BY <1>1, <1>2, <1>4, <3>2 DEF Recorded, ChainInv, AckedNumbered
    <3>4. LedgerCausal'
      BY <1>2, <1>7, <3>1, <3>3 DEF ChainInv, LedgerCausal
    <3>5. QED
      BY <1>5, <1>6, <3>4 DEF ChainInv
  <2>3. CASE o.cas /\ o.kind = "matched"
    <3>1. x \in acked /\ o.sequence = sequence[w]
      BY <1>4, <1>10, <2>3 DEF ChainInv, OutcomeAcked
    <3>2. /\ x.sequence = sequence[w] /\ x.worker = w /\ x.observed = o.observed
      BY DEF Mark
    <3>3. x \notin Recorded
      BY <3>2 DEF Recorded
    <3>4. Recorded' = Recorded \cup {x}
      <4> HIDE DEF x
      <4>1. \A a \in acked : a # x => a.sequence # sequence[w]
        BY <3>1, <3>2 DEF ChainInv, AckedNumbered
      <4>2. \A a \in acked : a.worker \in Workers /\ a.sequence # 0
        BY <1>1 DEF ChainInv, AckedNumbered
      <4>3. \A a \in acked : a # x =>
              (sequence'[a.worker] # a.sequence <=> sequence[a.worker] # a.sequence)
        BY <1>4, <4>1, <4>2
      <4>4. sequence'[x.worker] # x.sequence
        BY <1>4, <1>8, <3>2
      <4>5. QED
        BY <1>2, <3>1, <4>3, <4>4 DEF Recorded
    <3>5. /\ IsFiniteSet(Recorded) /\ Cardinality(Recorded) \in Nat
          /\ Cardinality(Recorded') = Cardinality(Recorded) + 1
      <4>1. IsFiniteSet(Recorded)
        BY FS_Subset DEF ChainInv, AckedNumbered, Recorded
      <4>2. QED
        BY <3>3, <3>4, <4>1, FS_AddElement, FS_CardinalityType
    <3> HIDE DEF x
    <3>6. CASE InvalidEdge(o)
      <4>1. causal' = RecordInvalid(causal, o)
        BY <2>1, <2>3, <3>6 DEF RecordCausal
      <4>2. /\ Observed(causal') = Observed(causal)
            /\ causal'.matchedEdges = causal.matchedEdges + 1
            /\ causal'.invalidEdges = causal.invalidEdges + 1
            /\ causal'.highestObserved = causal.highestObserved
            /\ causal'.matchedOperations = causal.matchedOperations
        BY <1>1, <4>1, RecordInvalidObserved
      <4>3. causal.invalidEdges \in Nat
        BY <1>1 DEF CausalOK
      <4>4. LedgerCausal'
        BY <1>2, <1>10, <3>5, <4>2, <4>3 DEF ChainInv, LedgerCausal
      <4>5. QED
        BY <1>5, <1>6, <4>4 DEF ChainInv
    <3>7. CASE ~InvalidEdge(o)
      <4>1. causal' = RecordEdge(causal, o)
        BY <2>1, <2>3, <3>7 DEF RecordCausal
      <4>2. o.observed \in Nat
        BY <1>1, <3>7 DEF InvalidEdge, Outcome
      <4>3. /\ Observed(causal') = Observed(causal) \cup {o.observed}
            /\ causal'.matchedEdges = causal.matchedEdges + 1
            /\ causal'.invalidEdges = causal.invalidEdges
            /\ o.observed \in Observed(causal) => causal'.duplicates = causal.duplicates + 1
            /\ o.observed \notin Observed(causal) => causal'.duplicates = causal.duplicates
            /\ causal'.highestObserved = IF o.observed > causal.highestObserved
                                         THEN o.observed ELSE causal.highestObserved
            /\ causal'.matchedOperations =
                 causal.matchedOperations \cup ({o.sequence} \ {0})
        BY <1>1, <4>1, <4>2, RecordEdgeObserved
      <4>4. /\ causal.duplicates \in Nat /\ causal.highestObserved \in Nat
            /\ \A g \in Observed(causal) : g \in Int
        BY <1>1 DEF CausalOK, Observed
      <4>5. causal'.matchedEdges = Cardinality(Recorded')
        BY <1>10, <3>5, <4>3 DEF ChainInv, LedgerCausal
      <4>6. causal'.invalidEdges = 0 =>
              Observed(causal') = {a.observed : a \in Recorded'}
        BY <1>10, <3>2, <3>4, <4>3 DEF ChainInv, LedgerCausal
      <4>7. causal'.invalidEdges = 0 /\ causal'.duplicates = 0 =>
              \A a, b \in Recorded' : a.observed = b.observed => a = b
        <5> SUFFICES ASSUME causal'.invalidEdges = 0, causal'.duplicates = 0
                     PROVE  \A a, b \in Recorded' : a.observed = b.observed => a = b
          OBVIOUS
        <5>1. causal.invalidEdges = 0 /\ causal.duplicates = 0
              /\ o.observed \notin Observed(causal)
          BY <4>3, <4>4
        <5>2. \A a \in Recorded : a.observed # x.observed
          BY <1>10, <3>2, <5>1 DEF ChainInv, LedgerCausal
        <5>3. QED
          BY <1>10, <3>4, <5>1, <5>2 DEF ChainInv, LedgerCausal
      <4>8. \A g \in Observed(causal') : g <= causal'.highestObserved
        BY <4>2, <4>3, <4>4 DEF ChainInv, LedgerCausal
      <4>9. \A s \in causal'.matchedOperations : \E a \in acked' : a.sequence = s
        BY <1>2, <1>10, <3>1, <3>2, <4>3 DEF ChainInv, LedgerCausal
      <4>10. LedgerCausal'
        BY <4>5, <4>6, <4>7, <4>8, <4>9 DEF LedgerCausal
      <4>11. QED
        BY <1>5, <1>6, <4>10 DEF ChainInv
    <3>8. QED
      BY <3>6, <3>7
  <2>4. QED
    BY <2>2, <2>3
<1>11. QED
  BY <1>9, <1>10
\* Every step of the runner, the server and the environment keeps the history
\* and the causal ledger in agreement.
LEMMA ChainNext == ChainInv /\ [Next]_vars => ChainInv'
<1> SUFFICES ASSUME ChainInv, [Next]_vars PROVE ChainInv'
  OBVIOUS
<1>1. AccountingInv'
  BY AccountingNext DEF ChainInv
<1>o. outcome \in [Workers -> Outcome]
  BY DEF ChainInv, AccountingInv, TypeInv, TypeOK
<1>2. CASE Lifecycle
  BY <1>1, <1>2, ChainFrame
     DEF Lifecycle, RejectConfig, Preflight, PreflightFails, Setup, SetupFails,
         Drain, Verify, VerifyFails, Report, ReportFails
<1>3. CASE Interrupt \/ DeadlinePasses \/ Exited \/ UNCHANGED vars
  BY <1>1, <1>3, ChainFrame DEF Interrupt, DeadlinePasses, Exited, vars
<1>4. ASSUME NEW c \in commands, Server(c) PROVE ChainInv'
  BY <1>1, <1>4, ChainFrame
     DEF Server, ServerApply, ServerRefuses, ServerLoses, ServerMisanswers, ServerFrame
<1>5. ASSUME NEW w \in Workers, Admit(w) PROVE ChainInv'
  <2>1. \E to \in {"done", "load"} : pc' = [pc EXCEPT ![w] = to]
    BY <1>5 DEF Admit, Goto
  <2>2. QED
    BY <1>1, <1>5, <2>1, ChainMove DEF Admit, Returned, Steps
<1>6. ASSUME NEW w \in Workers, LoadIssued(w) PROVE ChainInv'
  <2>1. \E to \in {"done", "reserve"} : pc' = [pc EXCEPT ![w] = to]
    BY <1>6 DEF LoadIssued, Goto
  <2>2. QED
    BY <1>1, <1>6, <2>1, ChainMove DEF LoadIssued, Returned, Steps
<1>7. ASSUME NEW w \in Workers, FindOne(w) \/ SendUpdate(w) PROVE ChainInv'
  BY <1>1, <1>7, ChainMove DEF FindOne, SendUpdate, Goto, Returned, Steps
<1>8. ASSUME NEW w \in Workers, ReserveUnlimited(w) PROVE ChainInv'
  BY <1>1, <1>8, ChainReserve DEF ReserveUnlimited, Goto
<1>9. ASSUME NEW w \in Workers, SwapIssued(w) PROVE ChainInv'
  <2>1. CASE issued = loaded[w]
    BY <1>1, <1>9, <2>1, ChainReserve DEF SwapIssued, Goto
  <2>2. CASE issued # loaded[w]
    BY <1>1, <1>9, <2>2, ChainMove DEF SwapIssued, Goto, Returned, Steps
  <2>3. QED
    BY <2>1, <2>2
<1>10. ASSUME NEW w \in Workers,
              FindOneError(w) \/ FindOneCancelled(w) \/ DelayCancelled(w)
       PROVE  ChainInv'
  <2> DEFINE o == PlainOutcome("indeterminate", FALSE, TRUE)
  <2>1. /\ pc[w] \in {"execute", "delay"}
        /\ pc' = [pc EXCEPT ![w] = "returned"]
        /\ outcome' = [outcome EXCEPT ![w] = o]
        /\ UNCHANGED <<cfg, issued, sequence, causal, acked>>
    BY <1>10 DEF FindOneError, FindOneCancelled, DelayCancelled, ReadFails, Returns, Goto
  <2>2. Recordable(o) /\ ~(o.cas /\ o.kind = "matched")
    BY DEF PlainOutcome, Recordable, OutcomeKind
  <2> HIDE DEF o
  <2>3. outcome'[w] = o /\ \A v \in Workers : v # w => outcome'[v] = outcome[v]
    BY <2>1, <1>o
  <2>4. QED
    BY <1>1, <2>1, <2>2, <2>3, ChainReturn
<1>11. ASSUME NEW w \in Workers, CustomExecute(w) PROVE ChainInv'
  <2>1. PICK o \in CustomOutcomes : Returns(w, o)
    BY <1>11 DEF CustomExecute
  <2>2. ~Chained
    BY <1>11 DEF CustomExecute, Chained, CASScenarios
  <2>3. \A v \in Workers : v # w => outcome'[v] = outcome[v]
    BY <2>1, <1>o DEF Returns
  <2>4. QED
    BY <1>1, <1>11, <2>1, <2>2, <2>3, ChainReturn DEF CustomExecute, Returns, Goto
<1>12. ASSUME NEW w \in Workers, NEW r \in Replies, UpdateReturns(w, r) PROVE ChainInv'
  <2>1. CASE r \in {"modified", "matchedOnly"}
    BY <1>1, <1>12, <2>1, ChainAck
  <2>2. CASE r \notin {"modified", "matchedOnly"}
    <3> DEFINE o == UpdateResult(cfg.scenario, r, sequence[w], observed[w].gen)
    <3>1. /\ pc[w] = "update"
          /\ pc' = [pc EXCEPT ![w] = "returned"]
          /\ outcome' = [outcome EXCEPT ![w] = o]
          /\ UNCHANGED <<cfg, issued, sequence, causal, acked>>
      BY <1>12, <2>2 DEF UpdateReturns, Returns, Goto
    <3>2. sequence[w] \in Nat /\ observed[w].gen \in Int
      BY DEF ChainInv, AccountingInv, TypeInv, TypeOK
    <3>3. Chained => Recordable(o) /\ ~(o.cas /\ o.kind = "matched")
      BY <2>2, <3>2, UpdateResultFields DEF Chained
    <3> HIDE DEF o
    <3>4. outcome'[w] = o /\ \A v \in Workers : v # w => outcome'[v] = outcome[v]
      BY <3>1, <1>o
    <3>5. QED
      BY <1>1, <3>1, <3>3, <3>4, ChainReturn
  <2>3. QED
    BY <2>1, <2>2
<1>13. ASSUME NEW w \in Workers, UpdateAnswered(w) \/ UpdateError(w) \/ UpdateCancelled(w)
       PROVE  ChainInv'
  <2>1. reply[w] \in Replies \cup {"none"}
    BY DEF ChainInv, AccountingInv, TypeInv, TypeOK
  <2>2. QED
    BY <1>12, <1>13, <2>1 DEF UpdateAnswered, UpdateError, UpdateCancelled, Replies
<1>14. ASSUME NEW w \in Workers, BoundGeneration(w) \/ Record(w) PROVE ChainInv'
  BY <1>1, <1>14, ChainBound, ChainRecord
<1>15. QED
  BY <1>2, <1>3, <1>4, <1>5, <1>6, <1>7, <1>8, <1>9, <1>10, <1>11, <1>13, <1>14
     DEF Next, Proceed, Network

-----------------------------------------------------------------------------
(* The checks are about a ledger that no longer changes.                   *)

AllDone == \A w \in Workers : pc[w] = "done"

SettledInv ==
  /\ phase = "drained" => AllDone
  /\ checks # {} =>
       /\ AllDone
       /\ VerifyChecks(cfg, verified, totals, causal, acknowledged) \subseteq checks

\* No checks have been evaluated at the start.
LEMMA SettledInit == Init => SettledInv
  BY DEF Init, SettledInv

\* Once the workers are done nothing the checks were computed from changes.
LEMMA SettledNext == TypeInv /\ SettledInv /\ [Next]_vars => SettledInv'
<1> SUFFICES ASSUME TypeInv, SettledInv, [Next]_vars PROVE SettledInv'
  OBVIOUS
<1>1. CASE Verify
  <2>1. AllDone'
    BY <1>1 DEF Verify, SettledInv, AllDone
  <2>2. VerifyChecks(cfg, verified, totals, causal, acknowledged)' \subseteq checks'
    BY <1>1 DEF Verify
  <2>3. QED
    BY <1>1, <2>1, <2>2 DEF Verify, SettledInv
<1>2. CASE \/ RejectConfig \/ Preflight \/ PreflightFails \/ Setup \/ SetupFails
           \/ VerifyFails \/ Report \/ ReportFails
  BY <1>2 DEF RejectConfig, Preflight, PreflightFails, Setup, SetupFails, VerifyFails,
              Report, ReportFails, Exit, SettledInv, AllDone
<1>3. CASE Drain
  BY <1>3 DEF Drain, SettledInv, AllDone
<1>4. CASE Interrupt \/ DeadlinePasses \/ Exited \/ UNCHANGED vars
  BY <1>4 DEF Interrupt, DeadlinePasses, Exited, vars, SettledInv, AllDone
<1>5. ASSUME NEW c \in commands, Server(c) PROVE SettledInv'
  BY <1>5 DEF Server, ServerApply, ServerRefuses, ServerLoses, ServerMisanswers,
              ServerFrame, SettledInv, AllDone
<1>6. ASSUME NEW w \in Workers, Proceed(w) \/ Network(w) PROVE SettledInv'
  <2>1. pc[w] # "done" /\ phase' = phase /\ checks' = checks
    BY <1>6 DEF Proceed, Network, Admit, ReserveUnlimited, LoadIssued, SwapIssued, FindOne,
                FindOneError, FindOneCancelled, DelayCancelled, ReadFails, SendUpdate,
                UpdateAnswered, UpdateError, UpdateCancelled, UpdateReturns,
                CustomExecute, BoundGeneration, Record
  <2>2. QED
    BY <2>1 DEF SettledInv, AllDone
<1>7. QED
  BY <1>1, <1>2, <1>3, <1>4, <1>5, <1>6 DEF Next, Lifecycle
-----------------------------------------------------------------------------
(* What the checks amount to on a conclusive run.                          *)

\* A conclusive pass: the checks were evaluated, each of them was passed or
\* skipped, and nothing was unknowable.
LEMMA ConcludedFacts ==
  ASSUME TypeInv, SettledInv, Concluded
  PROVE  /\ AllDone
         /\ ~Unknowable(totals)
         /\ \A k \in VerifyChecks(cfg, verified, totals, causal, acknowledged) :
              ~k.skipped => k.passed
<1>1. /\ checks # {} /\ ChecksPassed(checks) /\ ~(totals.indeterminate > 0)
  BY DEF Concluded, RunVerdict, Verdict
<1>2. QED
  BY <1>1 DEF SettledInv, Unknowable, ChecksPassed

\* The aggregate facts behind a single-winner chain.
SingleChain(v) ==
  /\ v = totals.matched
  /\ causal.duplicates = 0
  /\ causal.invalidEdges = 0
  /\ causal.matchedEdges = totals.matched
  /\ v = 0 \/ causal.highestObserved = v - 1

\* counterChecks, passed and not skipped, states exactly those facts.
LEMMA CounterChecksFacts ==
  ASSUME NEW v, NEW S, CounterChecks(v, totals, causal) \subseteq S,
         ~Unknowable(totals), \A k \in S : ~k.skipped => k.passed
  PROVE  SingleChain(v)
<1>1. /\ Check("storedVersionEqualsMatched", v = totals.matched, Unknowable(totals)) \in S
      /\ Check("oneMatchPerObservedGeneration", causal.duplicates = 0, FALSE) \in S
      /\ MatchedEdgesAreSuccessive(totals, causal) \in S
      /\ Check("matchedEdgesFormCompleteChain",
               v = 0 \/ causal.highestObserved = v - 1, Unknowable(totals)) \in S
  BY DEF CounterChecks
<1>2. QED
  BY <1>1 DEF SingleChain, Check, MatchedEdgesAreSuccessive

\* So do the checks of every single-winner scenario.
LEMMA SingleWinnerFacts ==
  ASSUME TypeInv, SettledInv, Concluded, SingleWinner
  PROVE  SingleChain(verified.gen)
<1> DEFINE S == VerifyChecks(cfg, verified, totals, causal, acknowledged)
<1>1. ~Unknowable(totals) /\ \A k \in S : ~k.skipped => k.passed
  BY ConcludedFacts
<1>2. CASE cfg.scenario = "cas" /\ cfg.mode \notin {"fieldDivergent", "documentDivergent"}
  <2>1. CounterChecks(verified.gen, totals, causal) \subseteq S
    BY <1>2 DEF VerifyChecks, CASChecks
  <2> HIDE DEF S
  <2>2. QED
    BY <1>1, <2>1, CounterChecksFacts
<1>3. CASE cfg.scenario = "divergent-cas"
  <2>1. CounterChecks(verified.gen, totals, causal) \subseteq S
    BY <1>3 DEF VerifyChecks, DivergentCASChecks
  <2> HIDE DEF S
  <2>2. QED
    BY <1>1, <2>1, CounterChecksFacts
<1>4. CASE cfg.scenario = "whole-document-divergent"
  <2>1. CounterChecks(verified.gen, totals, causal) \subseteq S
    BY <1>4 DEF VerifyChecks, WholeDocumentChecks
  <2> HIDE DEF S
  <2>2. QED
    BY <1>1, <2>1, CounterChecksFacts
<1>5. CASE cfg.scenario = "uuid-cas"
  <2>1. S = UUIDChecks(cfg.mode, verified, totals, causal)
    BY <1>5 DEF VerifyChecks
  <2>2. /\ Check("storedAppliedEqualsMatched", verified.gen = totals.matched,
                 Unknowable(totals)) \in S
        /\ Check("oneMatchPerObservedGeneration", causal.duplicates = 0, FALSE) \in S
        /\ Check("matchedEdgesFormCompleteChain",
                 /\ causal.invalidEdges = 0
                 /\ causal.matchedEdges = totals.matched
                 /\ verified.gen = 0 \/ causal.highestObserved = verified.gen - 1,
                 Unknowable(totals)) \in S
    BY <2>1 DEF UUIDChecks
  <2> HIDE DEF S
  <2>3. QED
    BY <1>1, <2>2 DEF SingleChain, Check
<1>6. QED
  BY <1>2, <1>3, <1>4, <1>5 DEF SingleWinner

\* When the workers are done every acknowledged update is recorded.
LEMMA AllRecorded ==
  ASSUME ChainInv, AllDone
  PROVE  Recorded = acked /\ IsFiniteSet(acked)
<1>1. \A w \in Workers : sequence[w] = 0
  BY DEF ChainInv, AccountingInv, NumbersHeld, Holding, AllDone
<1>2. \A a \in acked : a.worker \in Workers /\ a.sequence # 0
  BY DEF ChainInv, AckedNumbered, AccountingInv, TypeInv, TypeOK
<1>3. QED
  BY <1>1, <1>2 DEF Recorded, ChainInv, AckedNumbered

\* Pigeonhole: v updates with v different bases below v use every base.
LEMMA BasesCover ==
  ASSUME NEW v \in Nat, NEW A, IsFiniteSet(A), Cardinality(A) = v,
         \A a \in A : a.observed \in 0 .. v - 1,
         \A a, b \in A : a.observed = b.observed => a = b
  PROVE  \A g \in 0 .. v - 1 : \E a \in A : a.observed = g
<1> SUFFICES ASSUME NEW g \in 0 .. v - 1, \A a \in A : a.observed # g
             PROVE  FALSE
  OBVIOUS
<1> DEFINE T == (0 .. v - 1) \ {g}
           f == [a \in A |-> a.observed]
<1>1. IsFiniteSet(0 .. v - 1) /\ Cardinality(0 .. v - 1) = v
  BY FS_Interval
<1>2. IsFiniteSet(T) /\ Cardinality(T) < Cardinality(A)
  BY <1>1, FS_RemoveElement
<1>3. f \in [A -> T]
  OBVIOUS
<1>4. \E a, b \in A : a # b /\ f[a] = f[b]
  <2> HIDE DEF T, f
  <2> QED BY <1>2, <1>3, FS_PigeonHole
<1>5. QED
  BY <1>4

(***************************************************************************)
(* A conclusive pass of a single-winner scenario proves one complete chain *)
(* of acknowledged updates from the seed to the stored counter, whatever   *)
(* the server did.                                                         *)
(***************************************************************************)
THEOREM ChainProved == SafetySpec => []ChainIsProved
<1>1. ChainInv /\ SettledInv => ChainIsProved
  <2> SUFFICES ASSUME ChainInv, SettledInv, Concluded, SingleWinner
               PROVE  CompleteChain(verified.gen)
    BY DEF ChainIsProved
  <2> DEFINE v == verified.gen
  <2>1. TypeInv
    BY DEF ChainInv, AccountingInv
  <2>2. SingleChain(v) /\ AllDone
    BY <2>1, SingleWinnerFacts, ConcludedFacts
  <2>3. Chained
    BY DEF SingleWinner, Chained, CASScenarios
  <2>4. Recorded = acked /\ IsFiniteSet(acked)
    BY <2>2, AllRecorded
  <2>5. v \in Nat /\ Cardinality(acked) = v
    BY <2>1, <2>2, <2>3, <2>4
       DEF SingleChain, ChainInv, LedgerCausal, TypeInv, TypeOK, Totals
  <2> HIDE DEF v
  <2>6. Observed(causal) = {a.observed : a \in acked}
    BY <2>2, <2>3, <2>4 DEF SingleChain, ChainInv, LedgerCausal
  <2>7. \A a, b \in acked : a.observed = b.observed => a = b
    BY <2>2, <2>3, <2>4 DEF SingleChain, ChainInv, LedgerCausal
  <2>8. \A a \in acked : a.observed \in 0 .. v - 1
    <3>1. \A g \in Observed(causal) : g \in Nat /\ g <= causal.highestObserved
      BY <2>1 DEF TypeInv, TypeOK, CausalOK, Observed, ChainInv, LedgerCausal
    <3>2. CASE v = 0
      BY <2>4, <2>5, <3>2, FS_EmptySet
    <3>3. CASE v # 0
      BY <2>2, <2>5, <2>6, <3>1, <3>3 DEF SingleChain
    <3>4. QED
      BY <3>2, <3>3
  <2>9. \A g \in 0 .. v - 1 : \E a \in acked : a.observed = g
    BY <2>4, <2>5, <2>7, <2>8, BasesCover
  <2>10. QED
    BY <2>7, <2>8, <2>9 DEF CompleteChain, v
<1>2. Init => ChainInv /\ SettledInv
  BY ChainInit, SettledInit
<1>3. ChainInv /\ SettledInv /\ [Next]_vars => (ChainInv /\ SettledInv)'
  BY ChainNext, SettledNext DEF ChainInv, AccountingInv
<1>4. QED
  BY <1>1, <1>2, <1>3, PTL DEF SafetySpec

(***************************************************************************)
(* Where convergent updates may coalesce, a conclusive pass proves that    *)
(* the acknowledged bases are exactly the generations below the counter.   *)
(***************************************************************************)
THEOREM CoalescedChainProved == SafetySpec => []CoalescedChainIsProved
<1>1. ChainInv /\ SettledInv => CoalescedChainIsProved
  <2> SUFFICES ASSUME ChainInv, SettledInv, Concluded, ~SingleWinner,
                      cfg.scenario \in {"cas", "whole-document-convergent"}
               PROVE  {a.observed : a \in acked} = 0 .. verified.gen - 1
    BY DEF CoalescedChainIsProved
  <2> DEFINE v == verified.gen
             S == VerifyChecks(cfg, verified, totals, causal, acknowledged)
  <2>1. TypeInv /\ AllDone /\ ~Unknowable(totals) /\ \A k \in S : ~k.skipped => k.passed
    BY ConcludedFacts DEF ChainInv, AccountingInv
  <2>2. FieldDivergentCounterChecks(v, totals, causal) \subseteq S
    <3>1. CASE cfg.scenario = "cas"
      BY <3>1 DEF VerifyChecks, CASChecks, SingleWinner
    <3>2. CASE cfg.scenario = "whole-document-convergent"
      BY <3>2 DEF VerifyChecks, WholeDocumentChecks
    <3>3. QED
      BY <3>1, <3>2
  <2> HIDE DEF S
  <2>3. /\ v = UniqueObserved(causal)
        /\ causal.invalidEdges = 0
        /\ v = 0 \/ causal.highestObserved = v - 1
    <3>1. /\ Check("storedVersionEqualsUniqueObservedChain",
                   v = UniqueObserved(causal), Unknowable(totals)) \in S
          /\ MatchedEdgesAreSuccessive(totals, causal) \in S
          /\ Check("observedGenerationsFormCompleteChain",
                   v = 0 \/ causal.highestObserved = v - 1, Unknowable(totals)) \in S
      BY <2>2 DEF FieldDivergentCounterChecks
    <3> HIDE DEF v
    <3>2. QED
      BY <2>1, <3>1 DEF Check, MatchedEdgesAreSuccessive
  <2>4. Chained /\ Recorded = acked
    BY <2>1, AllRecorded DEF Chained, CASScenarios
  <2>5. Observed(causal) = {a.observed : a \in acked}
    BY <2>3, <2>4 DEF ChainInv, LedgerCausal
  <2>6. \A g \in Observed(causal) : g \in Nat /\ g <= causal.highestObserved
    BY <2>1 DEF TypeInv, TypeOK, CausalOK, Observed, ChainInv, LedgerCausal
  <2>7. IsFiniteSet(Observed(causal))
    <3>1. causal.highestObserved \in Nat
      BY <2>1 DEF TypeInv, TypeOK, CausalOK
    <3>2. QED
      BY <2>6, <3>1, FS_BoundedSetOfNaturals
  <2>8. v \in Nat /\ Cardinality(Observed(causal)) = v
    BY <2>3, <2>7, FS_CardinalityType DEF UniqueObserved
  <2> HIDE DEF v
  <2>9. Observed(causal) \subseteq 0 .. v - 1
    <3>1. CASE v = 0
      BY <2>7, <2>8, <3>1, FS_EmptySet
    <3>2. CASE v # 0
      BY <2>3, <2>6, <2>8, <3>2
    <3>3. QED
      BY <3>1, <3>2
  <2>10. Observed(causal) = 0 .. v - 1
    <3>1. IsFiniteSet(0 .. v - 1) /\ Cardinality(0 .. v - 1) = v
      BY <2>8, FS_Interval
    <3>2. QED
      BY <2>8, <2>9, <3>1, FS_Subset
  <2>11. QED
    BY <2>5, <2>10 DEF v
<1>2. Init => ChainInv /\ SettledInv
  BY ChainInit, SettledInit
<1>3. ChainInv /\ SettledInv /\ [Next]_vars => (ChainInv /\ SettledInv)'
  BY ChainNext, SettledNext DEF ChainInv, AccountingInv
<1>4. QED
  BY <1>1, <1>2, <1>3, PTL DEF SafetySpec

(***************************************************************************)
(* A conclusive pass of uuid-cas or divergent-cas proves that the mark in  *)
(* the document is the sequence of an acknowledged update.                 *)
(***************************************************************************)
THEOREM FinalMarkProved == SafetySpec => []FinalMarkIsAcknowledged
<1>1. ChainInv /\ SettledInv => FinalMarkIsAcknowledged
  <2> SUFFICES ASSUME ChainInv, SettledInv, Concluded,
                      cfg.scenario \in {"uuid-cas", "divergent-cas"}
               PROVE  \E a \in acked : a.sequence = verified.value
    BY DEF FinalMarkIsAcknowledged
  <2> DEFINE S == VerifyChecks(cfg, verified, totals, causal, acknowledged)
  <2>1. ~Unknowable(totals) /\ \A k \in S : ~k.skipped => k.passed
    BY ConcludedFacts DEF ChainInv, AccountingInv
  <2>2. OperationMatched(causal, verified.value)
    <3>1. CASE cfg.scenario = "uuid-cas"
      <4>1. Check("finalTokenMatchesIssuedOperation",
                  /\ verified.token = verified.value
                  /\ verified.value \in 1 .. totals.attempts
                  /\ OperationMatched(causal, verified.value), Unknowable(totals)) \in S
        BY <3>1 DEF VerifyChecks, UUIDChecks
      <4> HIDE DEF S
      <4>2. QED
        BY <2>1, <4>1 DEF Check
    <3>2. CASE cfg.scenario = "divergent-cas"
      <4>1. Check("finalValueBelongsToAcceptedOperation",
                  /\ verified.value \in 1 .. totals.attempts
                  /\ OperationMatched(causal, verified.value), Unknowable(totals)) \in S
        BY <3>2 DEF VerifyChecks, DivergentCASChecks
      <4> HIDE DEF S
      <4>2. QED
        BY <2>1, <4>1 DEF Check
    <3>3. QED
      BY <3>1, <3>2
  <2>3. Chained
    BY DEF Chained, CASScenarios
  <2>4. QED
    BY <2>2, <2>3 DEF OperationMatched, ChainInv, LedgerCausal
<1>2. Init => ChainInv /\ SettledInv
  BY ChainInit, SettledInit
<1>3. ChainInv /\ SettledInv /\ [Next]_vars => (ChainInv /\ SettledInv)'
  BY ChainNext, SettledNext DEF ChainInv, AccountingInv
<1>4. QED
  BY <1>1, <1>2, <1>3, PTL DEF SafetySpec

-----------------------------------------------------------------------------
(***************************************************************************)
(* The verdict                                                             *)
(*                                                                         *)
(* What the verdict of a run is worth: what a conclusive pass says about   *)
(* the writes the server acknowledged and about the commands still on      *)
(* their way, and when the evidence of a run may be destroyed. For every   *)
(* number of workers, every configuration, every failure and every server. *)
(***************************************************************************)

-----------------------------------------------------------------------------
(* The evidence of a run. Outside the running phase no worker can move, so *)
(* what the verdict is computed from stands still; before the process ends *)
(* nothing has been dropped, and before Verify there are no checks.        *)

WorkersStill ==
  phase # "running" => \A w \in Workers : pc[w] \in {"admit", "done"}

NothingFinal ==
  /\ phase # "exited" => exitCode = -1 /\ database # "dropped"
  /\ phase \notin {"reporting", "exited"} => checks = {}

StopIsFatal ==
  stop => \/ phase = "running"
          \/ phase \in {"reporting", "exited"} /\ runError

EvidenceInv == WorkersStill /\ NothingFinal /\ StopIsFatal /\ EvidencePreserved

-----------------------------------------------------------------------------
(* Commands on their way. One without a client that waits for its answer   *)
(* has left an outcome nobody can prove, recorded or about to be.          *)

ReplyAwaited == \A w \in Workers : reply[w] # "none" => pc[w] = "update"

Unproven(w) ==
  Returned(w) /\ outcome[w].kind = "indeterminate" /\ ~outcome[w].modified

CommandsOpen ==
  \A c \in commands :
    \/ Awaited(c)
    \/ totals.indeterminate > 0
    \/ \E w \in Workers : Unproven(w)

\* The document Verify read is the one stored, unless a write is unproven.
DocumentRead ==
  ~Defective /\ checks # {} /\ totals.indeterminate = 0 => doc = verified

OpenInv == ReplyAwaited /\ CommandsOpen /\ DocumentRead

-----------------------------------------------------------------------------
(* Acknowledged writes, in every built-in scenario. The aggregate ledger   *)
(* counts the recorded ones; the numbers a worker has acknowledged grow,   *)
(* so the one disjointSetScenario remembers is the greatest.               *)

BuiltIn == cfg.scenario # "custom"

MatchedIsAcked ==
  \A w \in Workers : BuiltIn /\ Returned(w) =>
    /\ Recordable(outcome[w])
    /\ outcome[w].kind = "matched" <=> \E a \in acked : a.sequence = sequence[w]

MatchedCounted == BuiltIn => totals.matched = Cardinality(Recorded)

NumbersGrow ==
  \A a \in acked : sequence[a.worker] # 0 => a.sequence <= sequence[a.worker]

AckedBy(w) == {a.sequence : a \in {b \in acked : b.worker = w}}

\* The last number acknowledged to w, or zero.
LastAcked(w, n) ==
  IF AckedBy(w) = {} THEN n = 0
  ELSE n \in AckedBy(w) /\ \A s \in AckedBy(w) : s <= n

AcknowledgedLast ==
  cfg.scenario = "disjoint-set" => \A w \in Workers : LastAcked(w, acknowledged[w])

StoredInv == MatchedIsAcked /\ MatchedCounted /\ NumbersGrow /\ AcknowledgedLast

-----------------------------------------------------------------------------
(* The evidence.                                                           *)

\* Before anything has happened there is nothing to preserve.
LEMMA EvidenceInit == Init => EvidenceInv
  BY DEF Init, EvidenceInv, WorkersStill, NothingFinal, StopIsFatal, EvidencePreserved,
         Concluded, RunVerdict, Verdict

\* A run whose result has an error, or no checks, has not passed.
LEMMA NotConcluded == runError \/ checks = {} => ~Concluded
  BY DEF Concluded, RunVerdict, Verdict

\* The verdict is a function of the error, the counters, the checks and the
\* truncation.
LEMMA VerdictFrame ==
  ASSUME UNCHANGED <<runError, totals, checks, truncated>>
  PROVE  RunVerdict' = RunVerdict /\ (Concluded' <=> Concluded)
  BY DEF Concluded, RunVerdict

\* A worker moves only while the run is running, and touches neither the phase
\* nor the result.
LEMMA WorkerStep ==
  ASSUME EvidenceInv, NEW w \in Workers, Proceed(w) \/ Network(w)
  PROVE  /\ phase = "running" /\ pc[w] # "done"
         /\ UNCHANGED <<cfg, phase, truncated, runError, verified, checks, database,
                        exitCode, interrupted, doc>>
<1>1. /\ pc[w] # "done"
      /\ pc[w] = "admit" => phase = "running"
      /\ UNCHANGED <<cfg, phase, truncated, runError, verified, checks, database,
                     exitCode, interrupted, doc>>
  BY DEF Proceed, Network, Admit, ReserveUnlimited, LoadIssued, SwapIssued, FindOne,
         FindOneError, FindOneCancelled, DelayCancelled, ReadFails, SendUpdate,
         UpdateAnswered, UpdateError, UpdateCancelled, UpdateReturns,
         CustomExecute, BoundGeneration, Record
<1>2. QED
  BY <1>1 DEF EvidenceInv, WorkersStill

\* The database outlives every step that does not end a conclusive pass.
LEMMA EvidenceNext == EvidenceInv /\ [Next]_vars => EvidenceInv'
<1> SUFFICES ASSUME EvidenceInv, [Next]_vars PROVE EvidenceInv'
  OBVIOUS
<1> USE DEF EvidenceInv
<1>1. CASE RejectConfig \/ PreflightFails
  <2>1. /\ phase = "start" /\ phase' = "exited" /\ exitCode' \in {1, 2}
        /\ UNCHANGED <<pc, stop, database, checks, runError>>
    BY <1>1 DEF RejectConfig, PreflightFails, Exit
  <2>2. ~stop /\ database # "dropped"
    BY <2>1 DEF StopIsFatal, NothingFinal
  <2>3. QED
    BY <2>1, <2>2 DEF WorkersStill, NothingFinal, StopIsFatal, EvidencePreserved
<1>2. CASE Preflight \/ Setup \/ SetupFails
  <2>1. /\ phase \in {"start", "setup"} /\ phase' \in {"setup", "running", "reporting"}
        /\ database' \in {database, "absent", "present"}
        /\ UNCHANGED <<pc, stop, exitCode, checks>>
    BY <1>2 DEF Preflight, Setup, SetupFails
  <2>2. ~stop /\ exitCode = -1 /\ database # "dropped" /\ checks = {}
    BY <2>1 DEF StopIsFatal, NothingFinal
  <2>3. QED
    BY <2>1, <2>2 DEF WorkersStill, NothingFinal, StopIsFatal, EvidencePreserved
<1>3. CASE Drain
  <2>1. /\ phase = "running" /\ \A w \in Workers : pc[w] = "done"
        /\ stop => runError' /\ phase' = "reporting"
        /\ phase' \in {"drained", "reporting"}
        /\ UNCHANGED <<pc, stop, database, exitCode, checks>>
    BY <1>3 DEF Drain
  <2>2. exitCode = -1 /\ database # "dropped" /\ checks = {}
    BY <2>1 DEF NothingFinal
  <2>3. ~Concluded'
    BY <2>1, <2>2 DEF Concluded, RunVerdict, Verdict
  <2>4. QED
    BY <2>1, <2>2, <2>3 DEF WorkersStill, NothingFinal, StopIsFatal, EvidencePreserved
<1>4. CASE Verify \/ VerifyFails
  <2>1. /\ phase = "drained" /\ phase' = "reporting"
        /\ UNCHANGED <<pc, stop, database, exitCode>>
    BY <1>4 DEF Verify, VerifyFails
  <2>2. ~stop /\ exitCode = -1 /\ database # "dropped"
    BY <2>1 DEF StopIsFatal, NothingFinal
  <2>3. QED
    BY <2>1, <2>2 DEF WorkersStill, NothingFinal, StopIsFatal, EvidencePreserved
<1>5. CASE Report
  <2>1. /\ phase = "reporting" /\ phase' = "exited"
        /\ exitCode' = ResultExitCode(runError, RunVerdict)
        /\ \/ ~Preserve(cfg, truncated, runError, RunVerdict) /\ database' = "dropped"
           \/ database' = database
        /\ UNCHANGED <<cfg, pc, stop, runError, totals, checks, truncated>>
    BY <1>5 DEF Report, Exit, Finalize
  <2>2. Concluded' <=> Concluded
    BY <2>1, VerdictFrame
  <2>3. /\ database # "dropped"
        /\ stop => runError
    BY <2>1 DEF NothingFinal, StopIsFatal
  <2>4. runError => ~Concluded
    BY NotConcluded
  <2>5. exitCode' = 0 <=> Concluded
    BY <2>1, <2>4 DEF ResultExitCode, Concluded, RunVerdict, Verdict
  <2>6. database' = "dropped" => Concluded /\ ~cfg.keepData
    BY <2>1, <2>3 DEF Preserve, Concluded
  <2>7. runError => exitCode' = 1
    BY <2>1 DEF ResultExitCode
  <2>8. EvidencePreserved'
    BY <2>1, <2>2, <2>3, <2>4, <2>5, <2>6, <2>7 DEF EvidencePreserved
  <2>9. QED
    BY <2>1, <2>3, <2>8 DEF WorkersStill, NothingFinal, StopIsFatal
<1>6. CASE ReportFails
  <2>1. /\ phase = "reporting" /\ phase' = "exited" /\ exitCode' = 1
        /\ UNCHANGED <<cfg, pc, stop, runError, totals, checks, truncated, database>>
    BY <1>6 DEF ReportFails, Exit, Finalize
  <2>2. database # "dropped" /\ (stop => runError)
    BY <2>1 DEF NothingFinal, StopIsFatal
  <2>3. Concluded' => ~runError
    BY <2>1, VerdictFrame, NotConcluded
  <2>4. QED
    BY <2>1, <2>2, <2>3 DEF WorkersStill, NothingFinal, StopIsFatal, EvidencePreserved
<1>7. ASSUME UNCHANGED <<cfg, phase, pc, stop, totals, truncated, runError, checks,
                         database, exitCode>>
      PROVE  EvidenceInv'
  BY <1>7, VerdictFrame DEF WorkersStill, NothingFinal, StopIsFatal, EvidencePreserved
<1>8. CASE Interrupt \/ DeadlinePasses \/ Exited \/ UNCHANGED vars
  BY <1>7, <1>8 DEF Interrupt, DeadlinePasses, Exited, vars
<1>9. ASSUME NEW c \in commands, Server(c) PROVE EvidenceInv'
  BY <1>7, <1>9 DEF Server, ServerApply, ServerRefuses, ServerLoses, ServerMisanswers,
                    ServerFrame
<1>10. ASSUME NEW w \in Workers, Proceed(w) \/ Network(w) PROVE EvidenceInv'
  <2>1. /\ phase = "running"
        /\ UNCHANGED <<cfg, phase, truncated, runError, checks, database, exitCode>>
    BY <1>10, WorkerStep
  <2>2. exitCode = -1 /\ database # "dropped" /\ checks = {}
    BY <2>1 DEF NothingFinal
  <2>3. ~Concluded'
    BY <2>1, <2>2 DEF Concluded, RunVerdict, Verdict
  <2>4. QED
    BY <2>1, <2>2, <2>3 DEF WorkersStill, NothingFinal, StopIsFatal, EvidencePreserved
<1>11. QED
  BY <1>1, <1>2, <1>3, <1>4, <1>5, <1>6, <1>8, <1>9, <1>10 DEF Next, Lifecycle

(***************************************************************************)
(* main drops the database only after a conclusive pass of a run not asked *)
(* to keep it, status 0 means such a pass, and an outcome that could not   *)
(* be recorded ends with status 1 and the evidence in place.               *)
(***************************************************************************)
THEOREM EvidenceKept == SafetySpec => []EvidencePreserved
<1>1. EvidenceInv => EvidencePreserved
  BY DEF EvidenceInv
<1>2. QED
  BY EvidenceInit, EvidenceNext, <1>1, PTL DEF SafetySpec

-----------------------------------------------------------------------------
(* The commands on their way.                                              *)

\* What the other invariants say in the state a step starts from.
SettledRun == AccountingInv /\ EvidenceInv /\ SettledInv

\* Nothing is on its way at the start.
LEMMA OpenInit == Init => OpenInv
  BY DEF Init, OpenInv, ReplyAwaited, CommandsOpen, DocumentRead

\* The open commands depend on these variables only.
LEMMA OpenFrame ==
  ASSUME OpenInv, DocumentRead',
         UNCHANGED <<pc, sequence, outcome, totals, commands, reply>>
  PROVE  OpenInv'
<1>1. \A c \in commands : Awaited(c)' <=> Awaited(c)
  BY DEF Awaited
<1>2. \A w \in Workers : Unproven(w)' <=> Unproven(w)
  BY DEF Unproven, Returned
<1>3. QED
  BY <1>1, <1>2 DEF OpenInv, ReplyAwaited, CommandsOpen

\* A worker without an update on its way, and without an outcome, moves: it
\* loses neither.
LEMMA OpenMove ==
  ASSUME AccountingInv, OpenInv, DocumentRead', NEW w \in Workers, NEW to \in Steps,
         pc[w] \notin {"update", "returned", "record"}, to # "update",
         pc' = [pc EXCEPT ![w] = to],
         \A v \in Workers : v # w => sequence'[v] = sequence[v] /\ outcome'[v] = outcome[v],
         UNCHANGED <<totals, commands, reply>>
  PROVE  OpenInv'
<1>1. pc \in [Workers -> Steps] /\ commands \subseteq Command
  BY DEF AccountingInv, TypeInv, TypeOK
<1>2. \A c \in commands : Awaited(c) => Awaited(c)'
  BY <1>1 DEF Awaited, Command
<1>3. \A v \in Workers : Unproven(v) => Unproven(v)'
  BY <1>1 DEF Unproven, Returned
<1>4. ReplyAwaited'
  BY <1>1 DEF OpenInv, ReplyAwaited
<1>5. QED
  BY <1>2, <1>3, <1>4 DEF OpenInv, CommandsOpen

\* The command that leaves has a client that waits for it.
LEMMA OpenSend ==
  ASSUME AccountingInv, OpenInv, DocumentRead', NEW w \in Workers, SendUpdate(w)
  PROVE  OpenInv'
<1> PICK n : n = [sequence |-> sequence[w], worker |-> w,
                  gen |-> observed[w].gen, token |-> observed[w].token]
  OBVIOUS
<1>1. pc \in [Workers -> Steps] /\ commands \subseteq Command
  BY DEF AccountingInv, TypeInv, TypeOK
<1>2. /\ pc[w] \in {"delay", "execute"} /\ pc' = [pc EXCEPT ![w] = "update"]
      /\ commands' = commands \cup {n}
      /\ UNCHANGED <<sequence, outcome, totals, reply>>
  BY DEF SendUpdate, Goto
<1>3. Awaited(n)'
  BY <1>1, <1>2 DEF Awaited, OpenInv, ReplyAwaited
<1>4. \A c \in commands : Awaited(c) => Awaited(c)'
  BY <1>1, <1>2 DEF Awaited, Command
<1>5. \A v \in Workers : Unproven(v) => Unproven(v)'
  BY <1>1, <1>2 DEF Unproven, Returned
<1>6. ReplyAwaited'
  BY <1>1, <1>2 DEF OpenInv, ReplyAwaited
<1>7. CommandsOpen'
  <2> SUFFICES ASSUME NEW c \in commands',
                      ~(totals'.indeterminate > 0), \A v \in Workers : ~Unproven(v)'
               PROVE  Awaited(c)'
    BY DEF CommandsOpen
  <2>1. c \in commands => Awaited(c)
    BY <1>2, <1>5 DEF OpenInv, CommandsOpen
  <2>2. QED
    BY <1>2, <1>3, <1>4, <2>1
<1>8. QED
  BY <1>6, <1>7 DEF OpenInv

\* UpdateOne returns: with an answer there is no command left, and without one
\* the outcome is indeterminate.
LEMMA OpenReturn ==
  ASSUME AccountingInv, OpenInv, DocumentRead', NEW w \in Workers, NEW r \in Replies,
         UpdateReturns(w, r), r = "ambiguous" \/ reply[w] # "none"
  PROVE  OpenInv'
<1> DEFINE o == UpdateResult(cfg.scenario, r, sequence[w], observed[w].gen)
<1>1. /\ pc \in [Workers -> Steps] /\ commands \subseteq Command
      /\ reply \in [Workers -> Replies \cup {"none"}] /\ outcome \in [Workers -> Outcome]
      /\ sequence[w] \in Nat /\ observed[w].gen \in Int
  BY DEF AccountingInv, TypeInv, TypeOK
<1>2. /\ pc[w] = "update" /\ pc' = [pc EXCEPT ![w] = "returned"]
      /\ reply' = [reply EXCEPT ![w] = "none"]
      /\ outcome' = [outcome EXCEPT ![w] = o]
      /\ UNCHANGED <<sequence, totals, commands>>
  BY DEF UpdateReturns, Returns, Goto
<1>3. r = "ambiguous" => o.kind = "indeterminate" /\ ~o.modified
  BY DEF UpdateResult, UpdateOutcome, PlainOutcome
<1> HIDE DEF o
<1>4. r = "ambiguous" => Unproven(w)'
  BY <1>1, <1>2, <1>3 DEF Unproven, Returned
<1>5. reply[w] # "none" => \A c \in commands : Awaited(c) => Awaited(c)'
  BY <1>1, <1>2 DEF Awaited, Command
<1>6. \A v \in Workers : Unproven(v) => Unproven(v)'
  BY <1>1, <1>2 DEF Unproven, Returned
<1>7. ReplyAwaited'
  BY <1>1, <1>2 DEF OpenInv, ReplyAwaited
<1>8. CommandsOpen'
  BY <1>2, <1>4, <1>5, <1>6 DEF OpenInv, CommandsOpen
<1>9. QED
  BY <1>7, <1>8 DEF OpenInv

\* An indeterminate outcome passes from its worker to the ledger.
LEMMA OpenRecord ==
  ASSUME AccountingInv, OpenInv, DocumentRead', NEW w \in Workers,
         BoundGeneration(w) \/ Record(w)
  PROVE  OpenInv'
<1>1. /\ pc \in [Workers -> Steps] /\ commands \subseteq Command
      /\ outcome \in [Workers -> Outcome] /\ totals \in Totals
      /\ sequence \in [Workers -> Nat]
  BY DEF AccountingInv, TypeInv, TypeOK
<1>2. /\ pc[w] \in {"returned", "record"} /\ UNCHANGED <<commands, reply>>
      /\ \E to \in {"record", "done", "admit"} : pc' = [pc EXCEPT ![w] = to]
      /\ \A v \in Workers : v # w => sequence'[v] = sequence[v] /\ outcome'[v] = outcome[v]
  BY <1>1 DEF BoundGeneration, Record, Forget, Goto
<1>3. \A c \in commands : Awaited(c) => Awaited(c)'
  BY <1>1, <1>2 DEF Awaited, Command
<1>4. \A v \in Workers : v # w /\ Unproven(v) => Unproven(v)'
  BY <1>1, <1>2 DEF Unproven, Returned
<1>5. ReplyAwaited'
  BY <1>1, <1>2 DEF OpenInv, ReplyAwaited
<1>6. CASE BoundGeneration(w)
  <2>1. /\ outcome'[w].kind = outcome[w].kind /\ outcome'[w].modified = outcome[w].modified
        /\ pc' = [pc EXCEPT ![w] = "record"] /\ totals' = totals
    BY <1>1, <1>6 DEF BoundGeneration, Outcome, Goto
  <2>2. Unproven(w) => Unproven(w)'
    BY <1>1, <2>1 DEF Unproven, Returned
  <2>3. QED
    BY <1>2, <1>3, <1>4, <1>5, <2>1, <2>2 DEF OpenInv, CommandsOpen
<1>7. CASE Record(w)
  <2>1. /\ totals'.indeterminate >= totals.indeterminate
        /\ totals.indeterminate \in Nat /\ totals'.indeterminate \in Nat
    BY <1>1, <1>7 DEF Record, Tally, One, Totals
  <2>2. Unproven(w) => totals'.indeterminate > 0
    BY <1>1, <1>7 DEF Unproven, Record, Recordable, OutcomeKind, Tally, One, Totals
  <2>3. QED
    BY <1>2, <1>3, <1>4, <1>5, <2>1, <2>2 DEF OpenInv, CommandsOpen
<1>8. QED
  BY <1>6, <1>7

\* An answered command is gone, and no other command has its number.
LEMMA OpenServer ==
  ASSUME AccountingInv, OpenInv, DocumentRead', NEW c \in commands, Server(c)
  PROVE  OpenInv'
<1>1. /\ commands \subseteq Command /\ commands' = commands \ {c}
      /\ reply \in [Workers -> Replies \cup {"none"}]
      /\ \/ reply' = reply
         \/ Awaited(c) /\ \E r \in Replies : reply' = [reply EXCEPT ![c.worker] = r]
      /\ UNCHANGED <<pc, sequence, outcome, totals>>
  BY DEF AccountingInv, TypeInv, TypeOK, Server, ServerApply, ServerRefuses, ServerLoses,
         ServerMisanswers, ServerFrame, Answer, Replies
<1>2. \A d \in commands : d # c => d.sequence # c.sequence
  BY DEF AccountingInv, SequencesUnique
<1>3. \A d \in commands' : Awaited(d) => Awaited(d)'
  BY <1>1, <1>2 DEF Awaited, Command
<1>4. \A v \in Workers : Unproven(v)' <=> Unproven(v)
  BY <1>1 DEF Unproven, Returned
<1>5. ReplyAwaited'
  BY <1>1 DEF OpenInv, ReplyAwaited, Awaited, Command
<1>6. QED
  BY <1>1, <1>3, <1>4, <1>5 DEF OpenInv, CommandsOpen

\* After the last worker a command that is left means an indeterminate outcome.
LEMMA LeftIsUnproven ==
  ASSUME AccountingInv, OpenInv, AllDone, commands # {}
  PROVE  totals.indeterminate > 0
<1>1. commands \subseteq Command
  BY DEF AccountingInv, TypeInv, TypeOK
<1>2. (\A c \in commands : ~Awaited(c)) /\ (\A w \in Workers : ~Unproven(w))
  BY <1>1 DEF AllDone, Awaited, Unproven, Returned, Command
<1>3. QED
  BY <1>2 DEF OpenInv, CommandsOpen

\* The stored document moves after Verify only through an unproven write.
LEMMA DocumentReadNext ==
  ASSUME SettledRun, OpenInv, [Next]_vars
  PROVE  DocumentRead'
<1> USE DEF SettledRun
<1>1. CASE Verify
  <2>1. ~Defective => verified' = doc /\ doc' = doc
    BY <1>1 DEF Verify, Served
  <2>2. QED
    BY <2>1 DEF DocumentRead
<1>2. CASE Setup
  <2>1. phase = "setup" /\ checks' = checks
    BY <1>2 DEF Setup
  <2>2. QED
    BY <2>1 DEF EvidenceInv, NothingFinal, DocumentRead
<1>3. ASSUME UNCHANGED <<doc, verified, checks, totals>> PROVE DocumentRead'
  BY <1>3 DEF OpenInv, DocumentRead
<1>4. CASE \/ RejectConfig \/ Preflight \/ PreflightFails \/ SetupFails \/ Drain
           \/ VerifyFails \/ Report \/ ReportFails
  BY <1>3, <1>4 DEF RejectConfig, Preflight, PreflightFails, SetupFails, Drain,
                    VerifyFails, Report, ReportFails
<1>5. CASE Interrupt \/ DeadlinePasses \/ Exited \/ UNCHANGED vars
  BY <1>3, <1>5 DEF Interrupt, DeadlinePasses, Exited, vars
<1>6. ASSUME NEW c \in commands, Server(c) PROVE DocumentRead'
  <2>1. UNCHANGED <<verified, checks, totals>>
    BY <1>6 DEF Server, ServerApply, ServerRefuses, ServerLoses, ServerMisanswers,
                ServerFrame
  <2>2. CASE checks = {}
    BY <2>1, <2>2 DEF DocumentRead
  <2>3. CASE checks # {}
    <3>1. totals.indeterminate > 0 /\ totals.indeterminate \in Nat
      BY <1>6, <2>3, LeftIsUnproven
         DEF SettledInv, AccountingInv, TypeInv, TypeOK, Totals
    <3>2. QED
      BY <2>1, <3>1 DEF DocumentRead
  <2>4. QED
    BY <2>2, <2>3
<1>7. ASSUME NEW w \in Workers, Proceed(w) \/ Network(w) PROVE DocumentRead'
  <2>1. phase = "running" /\ checks' = checks
    BY <1>7, WorkerStep
  <2>2. QED
    BY <2>1 DEF EvidenceInv, NothingFinal, DocumentRead
<1>8. QED
  BY <1>1, <1>2, <1>4, <1>5, <1>6, <1>7 DEF Next, Lifecycle

\* Every step keeps track of the commands on their way.
LEMMA OpenNext == SettledRun /\ OpenInv /\ [Next]_vars => OpenInv'
<1> SUFFICES ASSUME SettledRun, OpenInv, [Next]_vars PROVE OpenInv'
  OBVIOUS
<1>1. DocumentRead' /\ AccountingInv
  BY DocumentReadNext DEF SettledRun
<1>2. /\ outcome \in [Workers -> Outcome] /\ sequence \in [Workers -> Nat]
      /\ reply \in [Workers -> Replies \cup {"none"}]
  BY <1>1 DEF AccountingInv, TypeInv, TypeOK
<1>3. CASE Lifecycle
  BY <1>1, <1>3, OpenFrame
     DEF Lifecycle, RejectConfig, Preflight, PreflightFails, Setup, SetupFails,
         Drain, Verify, VerifyFails, Report, ReportFails
<1>4. CASE Interrupt \/ DeadlinePasses \/ Exited \/ UNCHANGED vars
  BY <1>1, <1>4, OpenFrame DEF Interrupt, DeadlinePasses, Exited, vars
<1>5. ASSUME NEW c \in commands, Server(c) PROVE OpenInv'
  BY <1>1, <1>5, OpenServer
<1>6. ASSUME NEW w \in Workers,
             Admit(w) \/ ReserveUnlimited(w) \/ LoadIssued(w) \/ SwapIssued(w) \/ FindOne(w)
      PROVE  OpenInv'
  <2>1. /\ pc[w] \in {"admit", "load", "reserve", "execute"}
        /\ \E to \in {"done", "load", "reserve", "execute", "delay"} :
             pc' = [pc EXCEPT ![w] = to]
        /\ UNCHANGED <<outcome, totals, commands, reply>>
    BY <1>6 DEF Admit, ReserveUnlimited, LoadIssued, SwapIssued, FindOne, Goto
  <2>2. \A v \in Workers : v # w => sequence'[v] = sequence[v]
    BY <1>2, <1>6 DEF Admit, ReserveUnlimited, LoadIssued, SwapIssued, FindOne
  <2>3. QED
    BY <1>1, <2>1, <2>2, OpenMove DEF Steps
<1>7. ASSUME NEW w \in Workers,
             FindOneError(w) \/ FindOneCancelled(w) \/ DelayCancelled(w) \/ CustomExecute(w)
      PROVE  OpenInv'
  <2>1. /\ pc[w] \in {"execute", "delay"}
        /\ pc' = [pc EXCEPT ![w] = "returned"]
        /\ UNCHANGED <<sequence, totals, commands, reply>>
        /\ \E o : outcome' = [outcome EXCEPT ![w] = o]
    BY <1>7 DEF FindOneError, FindOneCancelled, DelayCancelled, CustomExecute, ReadFails,
                Returns, Goto
  <2>2. \A v \in Workers : v # w => outcome'[v] = outcome[v]
    BY <1>2, <2>1
  <2>3. QED
    BY <1>1, <2>1, <2>2, OpenMove DEF Steps
<1>8. ASSUME NEW w \in Workers, SendUpdate(w) PROVE OpenInv'
  BY <1>1, <1>8, OpenSend
<1>9. ASSUME NEW w \in Workers, UpdateAnswered(w) PROVE OpenInv'
  <2>1. reply[w] \in Replies /\ reply[w] # "none" /\ UpdateReturns(w, reply[w])
    BY <1>2, <1>9 DEF UpdateAnswered
  <2>2. QED
    BY <1>1, <2>1, OpenReturn
<1>10. ASSUME NEW w \in Workers, UpdateError(w) \/ UpdateCancelled(w) PROVE OpenInv'
  <2>1. "ambiguous" \in Replies /\ UpdateReturns(w, "ambiguous")
    BY <1>10 DEF UpdateError, UpdateCancelled, Replies
  <2>2. QED
    BY <1>1, <2>1, OpenReturn
<1>11. ASSUME NEW w \in Workers, BoundGeneration(w) \/ Record(w) PROVE OpenInv'
  BY <1>1, <1>11, OpenRecord
<1>12. QED
  BY <1>3, <1>4, <1>5, <1>6, <1>7, <1>8, <1>9, <1>10, <1>11 DEF Next, Proceed, Network

\* The invariants of a run, together, hold at the start and in every step.
LEMMA SettledRunInit == Init => SettledRun
  BY AccountingInit, EvidenceInit, SettledInit DEF SettledRun

LEMMA SettledRunNext == SettledRun /\ [Next]_vars => SettledRun'
  BY AccountingNext, EvidenceNext, SettledNext DEF SettledRun, AccountingInv

(***************************************************************************)
(* A conclusive pass is about a settled server: no command of the run is   *)
(* on its way, the stored document is the one Verify read, no worker holds *)
(* an operation and nothing was cut short.                                 *)
(***************************************************************************)
THEOREM ConclusionSettled == SafetySpec => []ConclusionIsSettled
<1>1. SettledRun /\ OpenInv => ConclusionIsSettled
  <2> SUFFICES ASSUME SettledRun, OpenInv, Concluded
               PROVE  /\ commands = {} /\ Executing = {} /\ ~truncated
                      /\ ~Defective => doc = verified
    BY DEF ConclusionIsSettled
  <2>1. AccountingInv /\ TypeInv /\ SettledInv
    BY DEF SettledRun, AccountingInv
  <2>2. checks # {} /\ ~truncated /\ ~(totals.indeterminate > 0)
    BY DEF Concluded, RunVerdict, Verdict
  <2>3. AllDone /\ totals.indeterminate = 0
    BY <2>1, <2>2 DEF SettledInv, TypeInv, TypeOK, Totals
  <2>4. commands = {}
    BY <2>1, <2>2, <2>3, LeftIsUnproven
  <2>5. Executing = {}
    BY <2>1, <2>3 DEF AccountingInv, NumbersHeld, Holding, AllDone, Executing
  <2>6. ~Defective => doc = verified
    BY <2>2, <2>3 DEF OpenInv, DocumentRead
  <2>7. QED
    BY <2>2, <2>4, <2>5, <2>6
<1>2. Init => SettledRun /\ OpenInv
  BY SettledRunInit, OpenInit
<1>3. SettledRun /\ OpenInv /\ [Next]_vars => (SettledRun /\ OpenInv)'
  BY SettledRunNext, OpenNext
<1>4. QED
  BY <1>1, <1>2, <1>3, PTL DEF SafetySpec

-----------------------------------------------------------------------------
(* The acknowledged writes.                                                *)

\* An outcome of UpdateOne can be recorded, and is a match exactly when the
\* server said so, in every scenario.
LEMMA UpdateResultKind ==
  ASSUME NEW s, NEW r \in Replies, NEW n \in Nat, NEW g \in Int
  PROVE  LET u == UpdateResult(s, r, n, g)
         IN  /\ Recordable(u)
             /\ u.kind = "matched" <=> r \in {"modified", "matchedOnly"}
<1>1. CASE s \in CASScenarios
  BY <1>1, UpdateResultFields
<1>2. CASE s \notin CASScenarios
  <2>1. UpdateResult(s, r, n, g) = UpdateOutcome(r)
    BY <1>2, Zenon DEF UpdateResult
  <2>2. /\ Recordable(UpdateOutcome(r))
        /\ UpdateOutcome(r).kind = "matched" <=> r \in {"modified", "matchedOnly"}
    <3>1. CASE r = "ambiguous"
      BY <3>1 DEF UpdateOutcome, PlainOutcome, Recordable, OutcomeKind
    <3>2. CASE r = "commandError"
      BY <3>2 DEF UpdateOutcome, PlainOutcome, Recordable, OutcomeKind
    <3>3. CASE r = "noMatch"
      BY <3>3 DEF UpdateOutcome, PlainOutcome, Recordable, OutcomeKind
    <3>4. CASE r \in {"modified", "matchedOnly"}
      BY <3>4 DEF UpdateOutcome, PlainOutcome, Recordable, OutcomeKind
    <3>5. QED
      BY <3>1, <3>2, <3>3, <3>4 DEF Replies
  <2>3. QED
    BY <2>1, <2>2
<1>3. QED
  BY <1>1, <1>2

\* Nothing is acknowledged at the start.
LEMMA StoredInit == Init => StoredInv
<1> SUFFICES ASSUME Init PROVE StoredInv
  OBVIOUS
<1>1. acked = {} /\ Recorded = {} /\ \A w \in Workers : AckedBy(w) = {}
  BY DEF Init, Recorded, AckedBy
<1>2. MatchedCounted
  BY <1>1, FS_EmptySet DEF Init, MatchedCounted, EmptyTotals
<1>3. MatchedIsAcked /\ NumbersGrow
  BY <1>1 DEF Init, MatchedIsAcked, NumbersGrow, Returned
<1>4. AcknowledgedLast
  BY <1>1 DEF Init, AcknowledgedLast, LastAcked
<1>5. QED
  BY <1>2, <1>3, <1>4 DEF StoredInv

\* The sets the invariant is about depend on the history and on the numbers
\* the workers hold.
LEMMA AckedFrame ==
  ASSUME acked' = acked
  PROVE  /\ \A w \in Workers : AckedBy(w)' = AckedBy(w)
         /\ acknowledged' = acknowledged /\ cfg' = cfg =>
              (AcknowledgedLast' <=> AcknowledgedLast)
<1>1. \A w \in Workers : AckedBy(w)' = AckedBy(w)
  BY DEF AckedBy
<1>2. QED
  BY <1>1 DEF AcknowledgedLast, LastAcked

\* Nothing the invariant is about changes.
LEMMA StoredFrame ==
  ASSUME StoredInv,
         UNCHANGED <<cfg, pc, sequence, outcome, totals, acknowledged, acked>>
  PROVE  StoredInv'
<1>1. AcknowledgedLast'
  BY AckedFrame DEF StoredInv
<1>2. Recorded' = Recorded
  BY DEF Recorded
<1>3. QED
  BY <1>1, <1>2
     DEF StoredInv, MatchedIsAcked, MatchedCounted, NumbersGrow, Returned, BuiltIn

\* A worker moves before its operation's answer is there, or between two
\* operations, perhaps with the next number, greater than all before it.
LEMMA StoredMove ==
  ASSUME ChainInv, StoredInv, NEW w \in Workers, NEW to \in Steps,
         pc' = [pc EXCEPT ![w] = to],
         ~Returned(w), to \notin {"returned", "record"},
         \/ sequence' = sequence
         \/ sequence[w] = 0 /\ sequence' = [sequence EXCEPT ![w] = issued + 1],
         UNCHANGED <<cfg, outcome, totals, acknowledged, acked>>
  PROVE  StoredInv'
<1>1. /\ pc \in [Workers -> Steps] /\ sequence \in [Workers -> Nat] /\ issued \in Nat
      /\ acked \subseteq [sequence : Nat, worker : Workers, observed : Int]
  BY DEF ChainInv, AccountingInv, TypeInv, TypeOK
<1>2. /\ \A v \in Workers : Returned(v)' <=> Returned(v)
      /\ \A v \in Workers : v # w => sequence'[v] = sequence[v]
      /\ \/ sequence'[w] = sequence[w]
         \/ sequence[w] = 0 /\ sequence'[w] = issued + 1
  BY <1>1 DEF Returned
<1>3. \A a \in acked : a.sequence \in 1 .. issued /\ a.worker \in Workers
  BY <1>1 DEF ChainInv, AckedNumbered
<1>4. MatchedIsAcked'
  BY <1>2 DEF StoredInv, MatchedIsAcked, BuiltIn
<1>5. Recorded' = Recorded
  BY <1>1, <1>2, <1>3 DEF Recorded
<1>6. NumbersGrow'
  BY <1>1, <1>2, <1>3 DEF StoredInv, NumbersGrow
<1>7. AcknowledgedLast'
  BY AckedFrame DEF StoredInv
<1>8. QED
  BY <1>4, <1>5, <1>6, <1>7 DEF StoredInv, MatchedCounted, BuiltIn

\* Execute returns without an acknowledged write, and a built-in scenario says
\* so. A caller's scenario may say anything.
LEMMA StoredReturn ==
  ASSUME ChainInv, StoredInv, NEW w \in Workers,
         pc[w] \in {"execute", "delay", "update"},
         pc' = [pc EXCEPT ![w] = "returned"],
         \A v \in Workers : v # w => outcome'[v] = outcome[v],
         BuiltIn => Recordable(outcome'[w]) /\ outcome'[w].kind # "matched",
         UNCHANGED <<cfg, sequence, totals, acknowledged, acked>>
  PROVE  StoredInv'
<1>1. pc \in [Workers -> Steps]
  BY DEF ChainInv, AccountingInv, TypeInv, TypeOK
<1>2. /\ \A v \in Workers : v # w => (Returned(v)' <=> Returned(v))
      /\ ~Returned(w)
  BY <1>1 DEF Returned
<1>3. \A a \in acked : a.sequence # sequence[w]
  BY <1>2 DEF ChainInv, AckedNumbered
<1>4. MatchedIsAcked'
  BY <1>2, <1>3 DEF StoredInv, MatchedIsAcked, BuiltIn
<1>5. Recorded' = Recorded /\ NumbersGrow'
  BY DEF Recorded, StoredInv, NumbersGrow
<1>6. AcknowledgedLast'
  BY AckedFrame DEF StoredInv
<1>7. QED
  BY <1>4, <1>5, <1>6 DEF StoredInv, MatchedCounted, BuiltIn

\* The server acknowledges a write: it joins the history with a number greater
\* than those its worker had acknowledged before.
LEMMA StoredAck ==
  ASSUME ChainInv, StoredInv, NEW w \in Workers,
         NEW r \in {"modified", "matchedOnly"}, UpdateReturns(w, r)
  PROVE  StoredInv'
<1> PICK x : x = [sequence |-> sequence[w], worker |-> w, observed |-> observed[w].gen]
  OBVIOUS
<1> PICK o : o = UpdateResult(cfg.scenario, r, sequence[w], observed[w].gen)
  OBVIOUS
<1>1. /\ pc \in [Workers -> Steps] /\ outcome \in [Workers -> Outcome]
      /\ sequence \in [Workers -> Nat] /\ issued \in Nat
      /\ observed \in [Workers -> [gen : Int, token : Int]]
      /\ acknowledged \in [Workers -> Nat]
      /\ acked \subseteq [sequence : Nat, worker : Workers, observed : Int]
  BY DEF ChainInv, AccountingInv, TypeInv, TypeOK
<1>2. /\ pc[w] = "update" /\ pc' = [pc EXCEPT ![w] = "returned"]
      /\ outcome' = [outcome EXCEPT ![w] = o]
      /\ acked' = acked \cup {x}
      /\ UNCHANGED <<cfg, sequence, totals>>
  <2>1. acked' = acked \cup {a \in {x} : r \in {"modified", "matchedOnly"}}
    BY Zenon DEF UpdateReturns
  <2>2. acked' = acked \cup {x}
    BY <2>1
  <2>3. QED
    BY <2>2 DEF UpdateReturns, Returns, Goto
<1>3. Recordable(o) /\ o.kind = "matched"
  <2>1. r \in Replies /\ sequence[w] \in Nat /\ observed[w].gen \in Int
    BY <1>1 DEF Replies
  <2>2. QED
    BY <2>1, UpdateResultKind
<1>4. acknowledged' = IF cfg.scenario = "disjoint-set"
                      THEN [acknowledged EXCEPT ![w] = sequence[w]] ELSE acknowledged
  BY <1>3 DEF UpdateReturns, Acknowledge
<1>5. /\ sequence[w] \in Nat \ {0}
      /\ \A v \in Workers : sequence[v] = sequence[w] => v = w
  BY <1>1, <1>2 DEF ChainInv, AccountingInv, NumbersHeld, Holding, SequencesUnique, Executing
<1>6. \A v \in Workers : v # w => (Returned(v)' <=> Returned(v)) /\ outcome'[v] = outcome[v]
  BY <1>1, <1>2 DEF Returned
<1>7. MatchedIsAcked'
  <2>1. outcome'[w] = o /\ x.sequence = sequence[w]
    BY <1>1, <1>2
  <2>2. QED
    BY <1>2, <1>3, <1>5, <1>6, <2>1 DEF StoredInv, MatchedIsAcked, BuiltIn
<1>8. Recorded' = Recorded
  BY <1>2 DEF Recorded
<1>9. NumbersGrow'
  BY <1>1, <1>2 DEF StoredInv, NumbersGrow
<1>10. AcknowledgedLast'
  <2> SUFFICES ASSUME cfg.scenario = "disjoint-set", NEW v \in Workers
               PROVE  LastAcked(v, acknowledged[v])'
    BY <1>2 DEF AcknowledgedLast
  <2>1. LastAcked(v, acknowledged[v])
    BY DEF StoredInv, AcknowledgedLast
  <2>2. CASE v # w
    <3>1. AckedBy(v)' = AckedBy(v)
      BY <1>2, <2>2 DEF AckedBy
    <3>2. acknowledged'[v] = acknowledged[v]
      BY <1>1, <1>4, <2>2
    <3>3. QED
      BY <2>1, <3>1, <3>2 DEF LastAcked
  <2>3. CASE v = w
    <3>1. AckedBy(w)' = AckedBy(w) \cup {sequence[w]}
      BY <1>2 DEF AckedBy
    <3>2. acknowledged'[w] = sequence[w]
      BY <1>1, <1>4
    <3>3. \A s \in AckedBy(w) : s <= sequence[w]
      BY <1>5 DEF StoredInv, NumbersGrow, AckedBy
    <3>4. QED
      BY <1>5, <2>3, <3>1, <3>2, <3>3 DEF LastAcked
  <2>4. QED
    BY <2>2, <2>3
<1>11. QED
  BY <1>2, <1>7, <1>8, <1>9, <1>10 DEF StoredInv, MatchedCounted, BuiltIn

\* The runner sets the bound of an outcome and nothing else of it.
LEMMA StoredBound ==
  ASSUME ChainInv, StoredInv, NEW w \in Workers, BoundGeneration(w)
  PROVE  StoredInv'
<1>1. pc \in [Workers -> Steps] /\ outcome \in [Workers -> Outcome]
  BY DEF ChainInv, AccountingInv, TypeInv, TypeOK
<1>2. /\ pc[w] = "returned" /\ pc' = [pc EXCEPT ![w] = "record"]
      /\ UNCHANGED <<cfg, sequence, totals, acknowledged, acked>>
  BY DEF BoundGeneration, Goto
<1>3. \A v \in Workers : Returned(v)' <=> Returned(v)
  BY <1>1, <1>2 DEF Returned
<1>4. \A v \in Workers : /\ outcome'[v].kind = outcome[v].kind
                         /\ outcome'[v].modified = outcome[v].modified
  BY <1>1 DEF BoundGeneration, Outcome
<1>5. MatchedIsAcked'
  BY <1>2, <1>3, <1>4 DEF StoredInv, MatchedIsAcked, BuiltIn, Recordable
<1>6. Recorded' = Recorded /\ NumbersGrow'
  BY <1>2 DEF Recorded, StoredInv, NumbersGrow
<1>7. AcknowledgedLast'
  BY <1>2, AckedFrame DEF StoredInv
<1>8. QED
  BY <1>2, <1>5, <1>6, <1>7 DEF StoredInv, MatchedCounted, BuiltIn

\* Record counts a match exactly when its worker holds an acknowledged write.
LEMMA StoredRecord ==
  ASSUME ChainInv, StoredInv, NEW w \in Workers, Record(w)
  PROVE  StoredInv'
<1>1. /\ pc \in [Workers -> Steps] /\ sequence \in [Workers -> Nat]
      /\ totals \in Totals /\ outcome \in [Workers -> Outcome]
      /\ acked \subseteq [sequence : Nat, worker : Workers, observed : Int]
      /\ IsFiniteSet(acked)
  BY DEF ChainInv, AccountingInv, TypeInv, TypeOK, AckedNumbered
<1>2. /\ pc[w] = "record" /\ Returned(w)
      /\ \E to \in {"done", "admit"} : pc' = [pc EXCEPT ![w] = to]
      /\ sequence' = [sequence EXCEPT ![w] = 0]
      /\ outcome' = [outcome EXCEPT ![w] = NoOutcome]
      /\ UNCHANGED <<cfg, acknowledged, acked>>
  BY DEF Record, Forget, Goto, Returned
<1>3. /\ \A v \in Workers : v # w => (Returned(v)' <=> Returned(v)) /\ outcome'[v] = outcome[v]
                                     /\ sequence'[v] = sequence[v]
      /\ ~Returned(w)'
      /\ sequence'[w] = 0
  BY <1>1, <1>2 DEF Returned
<1>4. MatchedIsAcked'
  BY <1>2, <1>3 DEF StoredInv, MatchedIsAcked, BuiltIn
<1>5. NumbersGrow'
  BY <1>1, <1>2, <1>3 DEF StoredInv, NumbersGrow
<1>6. AcknowledgedLast'
  BY <1>2, AckedFrame DEF StoredInv
<1>7. MatchedCounted'
  <2> SUFFICES ASSUME BuiltIn
               PROVE  totals'.matched = Cardinality(Recorded')
    BY <1>2 DEF MatchedCounted, BuiltIn
  <2>1. /\ Recordable(outcome[w])
        /\ outcome[w].kind = "matched" <=> \E a \in acked : a.sequence = sequence[w]
    BY <1>2 DEF StoredInv, MatchedIsAcked
  <2>2. totals'.matched = totals.matched + One(outcome[w].kind = "matched")
    BY <2>1 DEF Record, Tally
  <2>3. totals.matched = Cardinality(Recorded) /\ totals.matched \in Nat
    BY <1>1 DEF StoredInv, MatchedCounted, Totals
  <2>4. \A a \in acked : a.sequence # 0 /\ a.worker \in Workers
    BY <1>1 DEF ChainInv, AckedNumbered
  <2>5. CASE outcome[w].kind = "matched"
    <3>1. PICK a \in acked : a.sequence = sequence[w]
      BY <2>1, <2>5
    <3>2. a.worker = w /\ \A b \in acked : b.sequence = sequence[w] => b = a
      BY <3>1 DEF ChainInv, AckedNumbered
    <3>3. Recorded' = Recorded \cup {a} /\ a \notin Recorded
      BY <1>1, <1>2, <1>3, <2>4, <3>1, <3>2 DEF Recorded
    <3>4. IsFiniteSet(Recorded)
      BY <1>1, FS_Subset DEF Recorded
    <3>5. Cardinality(Recorded') = Cardinality(Recorded) + 1
      BY <3>3, <3>4, FS_AddElement
    <3>6. QED
      BY <2>2, <2>3, <2>5, <3>5 DEF One
  <2>6. CASE outcome[w].kind # "matched"
    <3>1. \A a \in acked : a.sequence # sequence[w]
      BY <2>1, <2>6
    <3>2. Recorded' = Recorded
      BY <1>1, <1>2, <1>3, <2>4, <3>1 DEF Recorded
    <3>3. QED
      BY <2>2, <2>3, <2>6, <3>2 DEF One
  <2>7. QED
    BY <2>5, <2>6
<1>8. QED
  BY <1>4, <1>5, <1>6, <1>7 DEF StoredInv

\* Every step keeps the counters and the history together.
LEMMA StoredNext == ChainInv /\ StoredInv /\ [Next]_vars => StoredInv'
<1> SUFFICES ASSUME ChainInv, StoredInv, [Next]_vars PROVE StoredInv'
  OBVIOUS
<1>1. /\ outcome \in [Workers -> Outcome] /\ sequence \in [Workers -> Nat]
      /\ observed \in [Workers -> [gen : Int, token : Int]]
      /\ reply \in [Workers -> Replies \cup {"none"}]
  BY DEF ChainInv, AccountingInv, TypeInv, TypeOK
<1>2. CASE Lifecycle
  BY <1>2, StoredFrame
     DEF Lifecycle, RejectConfig, Preflight, PreflightFails, Setup, SetupFails,
         Drain, Verify, VerifyFails, Report, ReportFails
<1>3. CASE Interrupt \/ DeadlinePasses \/ Exited \/ UNCHANGED vars
  BY <1>3, StoredFrame DEF Interrupt, DeadlinePasses, Exited, vars
<1>4. ASSUME NEW c \in commands, Server(c) PROVE StoredInv'
  BY <1>4, StoredFrame
     DEF Server, ServerApply, ServerRefuses, ServerLoses, ServerMisanswers, ServerFrame
<1>5. ASSUME NEW w \in Workers,
             \/ Admit(w) \/ ReserveUnlimited(w) \/ LoadIssued(w) \/ SwapIssued(w)
             \/ FindOne(w) \/ SendUpdate(w)
      PROVE  StoredInv'
  <2>1. /\ pc[w] \in {"admit", "load", "reserve", "execute", "delay"}
        /\ \E to \in {"done", "load", "reserve", "execute", "delay", "update"} :
             pc' = [pc EXCEPT ![w] = to]
        /\ UNCHANGED <<cfg, outcome, totals, acknowledged, acked>>
        /\ \/ sequence' = sequence
           \/ /\ pc[w] \in {"load", "reserve"}
              /\ sequence' = [sequence EXCEPT ![w] = issued + 1]
    BY <1>5 DEF Admit, ReserveUnlimited, LoadIssued, SwapIssued, FindOne, SendUpdate, Goto
  <2>2. pc[w] \in {"load", "reserve"} => sequence[w] = 0
    BY DEF ChainInv, AccountingInv, NumbersHeld, Holding
  <2>3. ~Returned(w)
    BY <2>1 DEF Returned
  <2>4. QED
    BY <2>1, <2>2, <2>3, StoredMove DEF Steps
<1>6. ASSUME NEW w \in Workers, FindOneError(w) \/ FindOneCancelled(w) \/ DelayCancelled(w)
      PROVE  StoredInv'
  <2>1. /\ pc[w] \in {"execute", "delay"}
        /\ pc' = [pc EXCEPT ![w] = "returned"]
        /\ UNCHANGED <<cfg, sequence, totals, acknowledged, acked>>
        /\ outcome' = [outcome EXCEPT ![w] = PlainOutcome("indeterminate", FALSE, TRUE)]
    BY <1>6 DEF FindOneError, FindOneCancelled, DelayCancelled, ReadFails, Returns, Goto
  <2>2. /\ \A v \in Workers : v # w => outcome'[v] = outcome[v]
        /\ outcome'[w] = PlainOutcome("indeterminate", FALSE, TRUE)
    BY <1>1, <2>1
  <2>3. Recordable(outcome'[w]) /\ outcome'[w].kind # "matched"
    BY <2>2 DEF Recordable, PlainOutcome, OutcomeKind
  <2>4. QED
    BY <2>1, <2>2, <2>3, StoredReturn
<1>7. ASSUME NEW w \in Workers, CustomExecute(w) PROVE StoredInv'
  <2>1. /\ pc[w] = "execute" /\ ~BuiltIn
        /\ pc' = [pc EXCEPT ![w] = "returned"]
        /\ UNCHANGED <<cfg, sequence, totals, acknowledged, acked>>
        /\ \E o : outcome' = [outcome EXCEPT ![w] = o]
    BY <1>7 DEF CustomExecute, Returns, Goto, BuiltIn
  <2>2. \A v \in Workers : v # w => outcome'[v] = outcome[v]
    BY <1>1, <2>1
  <2>3. QED
    BY <2>1, <2>2, StoredReturn
<1>8. ASSUME NEW w \in Workers, NEW r \in Replies, UpdateReturns(w, r) PROVE StoredInv'
  <2>1. CASE r \in {"modified", "matchedOnly"}
    BY <1>8, <2>1, StoredAck
  <2>2. CASE r \notin {"modified", "matchedOnly"}
    <3> PICK o : o = UpdateResult(cfg.scenario, r, sequence[w], observed[w].gen)
      OBVIOUS
    <3>1. Recordable(o) /\ o.kind # "matched"
      BY <1>1, <2>2, UpdateResultKind
    <3>2. /\ pc[w] = "update" /\ pc' = [pc EXCEPT ![w] = "returned"]
          /\ outcome' = [outcome EXCEPT ![w] = o]
          /\ acked' = acked
          /\ UNCHANGED <<cfg, sequence, totals>>
      BY <1>8, <2>2 DEF UpdateReturns, Returns, Goto
    <3>3. acknowledged' = acknowledged
      BY <1>8, <3>1 DEF UpdateReturns, Acknowledge
    <3>4. outcome'[w] = o /\ \A v \in Workers : v # w => outcome'[v] = outcome[v]
      BY <1>1, <3>2
    <3>5. QED
      BY <3>1, <3>2, <3>3, <3>4, StoredReturn
  <2>3. QED
    BY <2>1, <2>2
<1>9. ASSUME NEW w \in Workers, UpdateAnswered(w) \/ UpdateError(w) \/ UpdateCancelled(w)
      PROVE  StoredInv'
  <2>1. \E r \in Replies : UpdateReturns(w, r)
    BY <1>1, <1>9 DEF UpdateAnswered, UpdateError, UpdateCancelled, Replies
  <2>2. QED
    BY <1>8, <2>1
<1>10. ASSUME NEW w \in Workers, BoundGeneration(w) \/ Record(w) PROVE StoredInv'
  BY <1>10, StoredBound, StoredRecord
<1>11. QED
  BY <1>2, <1>3, <1>4, <1>5, <1>6, <1>7, <1>9, <1>10 DEF Next, Proceed, Network

(***************************************************************************)
(* A conclusive pass of blind-inc proves that every acknowledged increment *)
(* is in the stored counter once, and one of disjoint-set that each        *)
(* worker's field holds the last number acknowledged to it, whatever the   *)
(* server did.                                                             *)
(***************************************************************************)
THEOREM AcknowledgedStored == SafetySpec => []AcknowledgedWritesAreStored
<1> DEFINE Inv == ChainInv /\ SettledInv /\ StoredInv
<1>1. Inv => AcknowledgedWritesAreStored
  <2> SUFFICES ASSUME ChainInv, SettledInv, StoredInv, Concluded
               PROVE  /\ cfg.scenario = "blind-inc"
                           /\ cfg.mode \notin {"fieldDivergent", "documentDivergent"}
                         => verified.gen = Cardinality(acked)
                      /\ cfg.scenario = "disjoint-set" =>
                           \A w \in Workers : LastAcked(w, verified.fields[w])
    BY DEF AcknowledgedWritesAreStored, LastAcked, AckedBy
  <2> DEFINE S == VerifyChecks(cfg, verified, totals, causal, acknowledged)
  <2>1. AllDone /\ ~Unknowable(totals) /\ \A k \in S : ~k.skipped => k.passed
    BY ConcludedFacts DEF ChainInv, AccountingInv
  <2>2. ASSUME cfg.scenario = "blind-inc",
               cfg.mode \notin {"fieldDivergent", "documentDivergent"}
        PROVE  verified.gen = Cardinality(acked)
    <3>1. Check("storedVersionEqualsMatched", verified.gen = totals.matched,
                Unknowable(totals)) \in S
      BY <2>2 DEF VerifyChecks, BlindIncrementChecks
    <3> HIDE DEF S
    <3>2. verified.gen = totals.matched
      BY <2>1, <3>1 DEF Check
    <3>3. Recorded = acked
      BY <2>1, AllRecorded
    <3>4. QED
      BY <2>2, <3>2, <3>3 DEF StoredInv, MatchedCounted, BuiltIn
  <2>3. ASSUME cfg.scenario = "disjoint-set", NEW w \in Workers
        PROVE  LastAcked(w, verified.fields[w])
    <3>1. DOMAIN acknowledged = Workers
      BY DEF ChainInv, AccountingInv, TypeInv, TypeOK
    <3>2. Check("fieldRetainsLastAcknowledgement", verified.fields[w] = acknowledged[w],
                Unknowable(totals)) \in S
      BY <2>3, <3>1 DEF VerifyChecks, DisjointSetChecks
    <3> HIDE DEF S
    <3>3. verified.fields[w] = acknowledged[w]
      BY <2>1, <3>2 DEF Check
    <3>4. QED
      BY <2>3, <3>3 DEF StoredInv, AcknowledgedLast
  <2>4. QED
    BY <2>2, <2>3
<1>2. Init => Inv
  BY ChainInit, SettledInit, StoredInit
<1>3. Inv /\ [Next]_vars => Inv'
  BY ChainNext, SettledNext, StoredNext DEF ChainInv, AccountingInv
<1>4. QED
  BY <1>1, <1>2, <1>3, PTL DEF SafetySpec

-----------------------------------------------------------------------------
(***************************************************************************)
(* No false alarm                                                          *)
(*                                                                         *)
(* Against a server that applies every update atomically, no hard check of *)
(* any scenario fails, in any mode, for any number of workers and          *)
(* operations and whatever is lost, delayed, refused or interrupted.       *)
(***************************************************************************)

-----------------------------------------------------------------------------
(* The inductive invariant. It speaks of the writes the server granted:    *)
(* the acknowledged ones and those whose answer waits for its worker. An   *)
(* update that returns moves its write from one half to the other, so that *)
(* only the server changes the whole.                                      *)

Matching == {"modified", "matchedOnly"}

Sent(w) == [sequence |-> sequence[w], worker |-> w, observed |-> observed[w].gen]

Answered == {w \in Workers : reply[w] \in Matching}

Granted == acked \cup {Sent(w) : w \in Answered}

\* A write may have happened that nobody acknowledged.
Unsettled == totals.indeterminate > 0 \/ \E w \in Workers : Unproven(w)

\* The scenarios whose every match moves the counter.
Counting == cfg.scenario \in CASScenarios \cup {"blind-inc"}

-----------------------------------------------------------------------------
(* The document and the granted writes.                                    *)

CounterTrue == Counting => Unsettled \/ doc.gen = Cardinality(Granted)

BasesTrue ==
  Chained => /\ \A a \in Granted : a.observed \in 0 .. doc.gen - 1
             /\ \A a, b \in Granted : a.observed = b.observed => a = b

MarkTrue ==
  /\ cfg.scenario \in {"uuid-cas", "divergent-cas"} =>
       \/ Unsettled
       \/ doc.gen = 0
       \/ \E a \in Granted : a.sequence = doc.value
  /\ cfg.scenario = "uuid-cas" => doc.token = doc.value /\ doc.token \in Nat

WholeTrue ==
  /\ cfg.scenario \in {"whole-document-convergent", "whole-document-divergent"} =>
       doc.value = doc.gen
  /\ cfg.scenario = "whole-document-convergent" => \A w \in Workers : doc.fields[w] = 0
  /\ cfg.scenario = "whole-document-divergent" =>
       /\ doc.gen = 0 \/ \E w \in Workers : doc.fields[w] # 0
       /\ \/ Unsettled
          \/ \A w \in Workers :
               doc.fields[w] # 0 => \E a \in Granted : a.sequence = doc.fields[w]

GrantedTo(w) == {a.sequence : a \in {b \in Granted : b.worker = w}}

LastGranted(w, n) ==
  IF GrantedTo(w) = {} THEN n = 0
  ELSE n \in GrantedTo(w) /\ \A s \in GrantedTo(w) : s <= n

ValueTrue ==
  /\ cfg.scenario = "disjoint-set" =>
       Unsettled \/ \A w \in Workers : LastGranted(w, doc.fields[w])
  /\ cfg.scenario = "same-set" => Granted = {} \/ doc.value \in 1 .. issued
  /\ cfg.scenario = "identical-set" => Granted = {} \/ doc.value = 1

DocumentTrue == CounterTrue /\ BasesTrue /\ MarkTrue /\ WholeTrue /\ ValueTrue

-----------------------------------------------------------------------------
(* What else the document needs: a run that was set up, commands that      *)
(* carry what their worker observed, and room below the issued operations  *)
(* for every update that has not been applied yet.                         *)

Prepared ==
  /\ phase \in {"start", "setup"} => doc = NoDocument /\ commands = {} /\ acked = {}
  /\ phase \notin {"start", "exited"} => ValidConfig(cfg)
  /\ phase \in {"running", "drained"} => doc.intact

CommandsTrue == \A c \in commands : Awaited(c) => c.gen = observed[c.worker].gen

Preparing == {w \in Workers : pc[w] \in {"execute", "delay"}}

RoomLeft ==
  /\ IsFiniteSet(commands)
  /\ doc.gen \in Nat
  /\ doc.gen + Cardinality(commands) + Cardinality(Preparing) <= issued

-----------------------------------------------------------------------------
(* The outcomes an atomic server can cause, and what becomes of them in    *)
(* the aggregate and in the causal ledger.                                 *)

KindPossible(kind, modified) ==
  /\ kind = "matched" /\ Counting => modified
  /\ kind = "rejected" => cfg.mode \notin ReplayingModes
  /\ kind = "noMatch" => Chained

KindsTrue ==
  BuiltIn =>
    /\ \A w \in Workers : /\ reply[w] = "matchedOnly" => ~Counting
                          /\ reply[w] = "commandError" => cfg.mode \notin ReplayingModes
                          /\ reply[w] = "noMatch" => Chained
    /\ \A w \in Workers :
         Returned(w) => KindPossible(outcome[w].kind, outcome[w].modified)
    /\ Counting => totals.modified = totals.matched
    /\ cfg.mode \in ReplayingModes => totals.rejected = 0
    /\ ~Chained => totals.noMatch = 0

CausalTrue ==
  Chained =>
    /\ causal.invalidEdges = 0
    /\ causal.duplicates = 0
    /\ causal.highestObserved = 0 \/ causal.highestObserved \in Observed(causal)
    /\ \A a \in Recorded : a.sequence \in causal.matchedOperations
    /\ \A w \in Workers :
         Returned(w) /\ outcome[w].cas /\ outcome[w].kind = "matched" =>
           /\ outcome[w].proposed = outcome[w].observed + 1
           /\ pc[w] = "record" => outcome[w].observed <= outcome[w].bound

RunInv == ChainInv /\ SettledRun /\ OpenInv /\ StoredInv

ServerInv == Prepared /\ CommandsTrue /\ RoomLeft /\ DocumentTrue
LedgerInv == KindsTrue /\ CausalTrue

-----------------------------------------------------------------------------
(* The invariants proved so far, together.                                 *)

\* They hold at the start.
LEMMA RunInit == Init => RunInv
  BY ChainInit, SettledRunInit, OpenInit, StoredInit DEF RunInv

\* They hold after every step.
LEMMA RunNext == RunInv /\ [Next]_vars => RunInv'
  BY ChainNext, SettledRunNext, OpenNext, StoredNext DEF RunInv

\* The types they carry.
LEMMA RunTypes ==
  ASSUME RunInv
  PROVE  /\ TypeInv /\ AccountingInv
         /\ cfg \in Config /\ phase \in Phases /\ issued \in Nat /\ stop \in BOOLEAN
         /\ pc \in [Workers -> Steps] /\ sequence \in [Workers -> Nat]
         /\ observed \in [Workers -> [gen : Int, token : Int]]
         /\ outcome \in [Workers -> Outcome] /\ totals \in Totals
         /\ CausalOK(causal, issued) /\ acknowledged \in [Workers -> Nat]
         /\ doc \in Document /\ commands \subseteq Command
         /\ reply \in [Workers -> Replies \cup {"none"}]
         /\ acked \subseteq [sequence : Nat, worker : Workers, observed : Int]
  BY RunnerAssumption DEF RunInv, ChainInv, AccountingInv, TypeInv, TypeOK

-----------------------------------------------------------------------------
(* The granted writes.                                                     *)

\* There are finitely many of them, each with the number of an operation.
LEMMA GrantedType ==
  ASSUME RunInv
  PROVE  /\ IsFiniteSet(Granted)
         /\ Granted \subseteq [sequence : Nat, worker : Workers, observed : Int]
         /\ \A a \in Granted : a.sequence \in 1 .. issued
<1>1. IsFiniteSet(acked) /\ \A a \in acked : a.sequence \in 1 .. issued
  BY DEF RunInv, ChainInv, AckedNumbered
<1>2. IsFiniteSet({Sent(w) : w \in Answered})
  <2>1. IsFiniteSet(Answered)
    BY RunnerAssumption, FS_Subset DEF Answered
  <2> DEFINE T == {Sent(w) : w \in Answered}
             f == [w \in Answered |-> Sent(w)]
  <2>2. f \in Surjection(Answered, T)
    BY DEF Surjection
  <2>3. QED
    BY <2>1, <2>2, FS_Surjection
<1>3. IsFiniteSet(Granted)
  BY <1>1, <1>2, FS_Union DEF Granted
<1>4. \A w \in Answered : /\ Sent(w) \in [sequence : Nat, worker : Workers, observed : Int]
                          /\ Sent(w).sequence \in 1 .. issued
  <2> SUFFICES ASSUME NEW w \in Answered
               PROVE  /\ Sent(w) \in [sequence : Nat, worker : Workers, observed : Int]
                      /\ Sent(w).sequence \in 1 .. issued
    OBVIOUS
  <2>1. w \in Workers /\ pc[w] = "update"
    BY DEF Answered, Matching, RunInv, OpenInv, ReplyAwaited
  <2>2. sequence[w] \in 1 .. issued
    BY <2>1, RunTypes DEF AccountingInv, NumbersHeld, Holding
  <2>3. QED
    BY <2>1, <2>2, RunTypes DEF Sent
<1>5. QED
  BY <1>1, <1>3, <1>4, RunTypes DEF Granted

\* A worker whose answer is not a match, or not there, changes nothing about
\* the granted writes by moving.
LEMMA GrantedSame ==
  ASSUME NEW w \in Workers, reply[w] \notin Matching,
         \A v \in Workers : v # w => sequence'[v] = sequence[v] /\ observed'[v] = observed[v],
         UNCHANGED <<acked, reply>>
  PROVE  Granted' = Granted
<1>1. Answered' = Answered /\ w \notin Answered
  BY DEF Answered
<1>2. \A v \in Answered : Sent(v)' = Sent(v)
  BY <1>1 DEF Sent, Answered
<1>3. QED
  BY <1>1, <1>2 DEF Granted

\* What is known about the document survives every step that leaves it alone,
\* unless a granted write is given up, and then nothing is known any more.
LEMMA DocumentFrame ==
  ASSUME RunInv, RunInv', DocumentTrue, cfg' = cfg, issued <= issued',
         UNCHANGED <<doc.gen, doc.value, doc.token, doc.fields>>,
         Granted' \subseteq Granted, Unsettled => Unsettled',
         Unsettled' \/ Granted' = Granted
  PROVE  DocumentTrue'
<1>1. issued \in Nat /\ issued' \in Nat
  BY RunTypes DEF RunInv, ChainInv, AccountingInv, TypeInv, TypeOK
<1>2. CounterTrue' /\ BasesTrue' /\ MarkTrue' /\ WholeTrue'
  BY DEF DocumentTrue, CounterTrue, BasesTrue, MarkTrue, WholeTrue, Counting, Chained
<1>3. Unsettled' \/ \A w \in Workers : LastGranted(w, doc.fields[w])' <=> LastGranted(w, doc.fields[w])
  <2> SUFFICES ASSUME Granted' = Granted, NEW w \in Workers
               PROVE  LastGranted(w, doc.fields[w])' <=> LastGranted(w, doc.fields[w])
    OBVIOUS
  <2>1. GrantedTo(w)' = GrantedTo(w)
    BY DEF GrantedTo
  <2>2. QED
    BY <2>1 DEF LastGranted
<1>4. ValueTrue'
  BY <1>1, <1>3 DEF DocumentTrue, ValueTrue
<1>5. QED
  BY <1>2, <1>4 DEF DocumentTrue

\* A worker's step: the answer it takes moves into the history, and an answer
\* it does not wait for leaves an unproven outcome.
LEMMA WorkerGrants ==
  ASSUME RunInv, NEW w \in Workers, Proceed(w) \/ Network(w)
  PROVE  /\ Granted' \subseteq Granted
         /\ Unsettled => Unsettled'
         /\ Unsettled' \/ Granted' = Granted
         /\ issued <= issued'
<1> USE RunTypes
<1>1. ReplyAwaited
  BY DEF RunInv, OpenInv
<1>2. ASSUME \/ Admit(w) \/ ReserveUnlimited(w) \/ LoadIssued(w) \/ SwapIssued(w) \/ FindOne(w)
             \/ SendUpdate(w)
      PROVE  Granted' = Granted /\ (Unsettled => Unsettled') /\ issued <= issued'
  <2>1. /\ pc[w] \in {"admit", "load", "reserve", "execute", "delay"}
        /\ \E to \in Steps : pc' = [pc EXCEPT ![w] = to]
        /\ UNCHANGED <<outcome, totals, reply, acked>>
        /\ \A v \in Workers : v # w => sequence'[v] = sequence[v] /\ observed'[v] = observed[v]
        /\ issued <= issued'
    BY <1>2 DEF Admit, ReserveUnlimited, LoadIssued, SwapIssued, FindOne, SendUpdate, Goto,
                Steps
  <2>2. reply[w] \notin Matching
    BY <1>1, <2>1 DEF ReplyAwaited, Matching
  <2>3. Granted' = Granted
    BY <2>1, <2>2, GrantedSame
  <2>4. \A v \in Workers : Unproven(v) => Unproven(v)'
    BY <2>1 DEF Unproven, Returned
  <2>5. QED
    BY <2>1, <2>3, <2>4 DEF Unsettled
<1>3. ASSUME \/ FindOneError(w) \/ FindOneCancelled(w) \/ DelayCancelled(w) \/ CustomExecute(w)
      PROVE  Granted' = Granted /\ (Unsettled => Unsettled') /\ issued <= issued'
  <2>1. /\ pc[w] \in {"execute", "delay"}
        /\ pc' = [pc EXCEPT ![w] = "returned"]
        /\ UNCHANGED <<sequence, observed, totals, reply, acked, issued>>
        /\ \E o : outcome' = [outcome EXCEPT ![w] = o]
    BY <1>3 DEF FindOneError, FindOneCancelled, DelayCancelled, CustomExecute, ReadFails,
                Returns, Goto
  <2>2. reply[w] \notin Matching
    BY <1>1, <2>1 DEF ReplyAwaited, Matching
  <2>3. Granted' = Granted
    BY <2>1, <2>2, GrantedSame
  <2>4. \A v \in Workers : Unproven(v) => Unproven(v)'
    BY <2>1 DEF Unproven, Returned
  <2>5. QED
    BY <2>1, <2>3, <2>4 DEF Unsettled
<1>4. ASSUME BoundGeneration(w) \/ Record(w)
      PROVE  Granted' = Granted /\ (Unsettled => Unsettled') /\ issued <= issued'
  <2>1. /\ pc[w] \in {"returned", "record"}
        /\ \E to \in {"record", "done", "admit"} : pc' = [pc EXCEPT ![w] = to]
        /\ \A v \in Workers : v # w => /\ sequence'[v] = sequence[v]
                                       /\ observed'[v] = observed[v]
                                       /\ outcome'[v] = outcome[v]
        /\ UNCHANGED <<acked, reply, issued>>
    BY <1>4 DEF BoundGeneration, Record, Forget, Goto
  <2>2. reply[w] \notin Matching
    BY <1>1, <2>1 DEF ReplyAwaited, Matching
  <2>3. Granted' = Granted
    BY <2>1, <2>2, GrantedSame
  <2>4. \A v \in Workers : v # w /\ Unproven(v) => Unproven(v)'
    BY <2>1 DEF Unproven, Returned
  <2>5. CASE BoundGeneration(w)
    <3>1. /\ outcome'[w].kind = outcome[w].kind /\ outcome'[w].modified = outcome[w].modified
          /\ pc' = [pc EXCEPT ![w] = "record"] /\ totals' = totals
      BY <2>5 DEF BoundGeneration, Outcome, Goto
    <3>2. Unproven(w) => Unproven(w)'
      BY <3>1 DEF Unproven, Returned
    <3>3. QED
      BY <2>1, <2>3, <2>4, <3>1, <3>2 DEF Unsettled
  <2>6. CASE Record(w)
    <3>1. /\ totals'.indeterminate >= totals.indeterminate
          /\ totals.indeterminate \in Nat /\ totals'.indeterminate \in Nat
      BY <2>6 DEF Record, Tally, One, Totals
    <3>2. Unproven(w) => totals'.indeterminate > 0
      BY <2>6 DEF Unproven, Record, Recordable, OutcomeKind, Tally, One, Totals
    <3>3. QED
      BY <2>1, <2>3, <2>4, <3>1, <3>2 DEF Unsettled
  <2>7. QED
    BY <1>4, <2>5, <2>6
<1>5. ASSUME UpdateAnswered(w)
      PROVE  Granted' = Granted /\ (Unsettled => Unsettled') /\ issued <= issued'
  <2> PICK x : x = Sent(w)
    OBVIOUS
  <2>1. /\ pc[w] = "update" /\ pc' = [pc EXCEPT ![w] = "returned"]
        /\ reply' = [reply EXCEPT ![w] = "none"]
        /\ \E o : outcome' = [outcome EXCEPT ![w] = o]
        /\ UNCHANGED <<sequence, observed, totals, issued>>
    BY <1>5 DEF UpdateAnswered, UpdateReturns, Returns, Goto
  <2>2. acked' = acked \cup {a \in {x} : reply[w] \in Matching}
    BY <1>5, Zenon DEF UpdateAnswered, UpdateReturns, Matching, Sent
  <2>3. Answered' = Answered \ {w} /\ (w \in Answered <=> reply[w] \in Matching)
    BY <2>1 DEF Answered, Matching
  <2>4. \A v \in Workers : Sent(v)' = Sent(v)
    BY <2>1 DEF Sent
  <2>5. Granted' = Granted
    BY <2>2, <2>3, <2>4 DEF Granted, Answered
  <2>6. \A v \in Workers : Unproven(v) => Unproven(v)'
    BY <2>1 DEF Unproven, Returned
  <2>7. QED
    BY <2>1, <2>5, <2>6 DEF Unsettled
<1>6. ASSUME UpdateError(w) \/ UpdateCancelled(w)
      PROVE  Granted' \subseteq Granted /\ Unsettled' /\ issued <= issued'
  <2> PICK o : o = UpdateResult(cfg.scenario, "ambiguous", sequence[w], observed[w].gen)
    OBVIOUS
  <2>1. o.kind = "indeterminate" /\ ~o.modified
    BY DEF UpdateResult, UpdateOutcome, PlainOutcome
  <2>2. /\ pc[w] = "update" /\ pc' = [pc EXCEPT ![w] = "returned"]
        /\ reply' = [reply EXCEPT ![w] = "none"]
        /\ outcome' = [outcome EXCEPT ![w] = o]
        /\ acked' = acked
        /\ UNCHANGED <<sequence, observed, totals, issued>>
    BY <1>6 DEF UpdateError, UpdateCancelled, UpdateReturns, Returns, Goto
  <2>3. Answered' \subseteq Answered
    BY <2>2 DEF Answered, Matching
  <2>4. \A v \in Workers : Sent(v)' = Sent(v)
    BY <2>2 DEF Sent
  <2>5. Granted' \subseteq Granted
    BY <2>2, <2>3, <2>4 DEF Granted, Answered
  <2>6. Unproven(w)'
    BY <2>1, <2>2 DEF Unproven, Returned
  <2>7. QED
    BY <2>2, <2>5, <2>6 DEF Unsettled
<1>7. QED
  BY <1>2, <1>3, <1>4, <1>5, <1>6 DEF Proceed, Network

-----------------------------------------------------------------------------
(* The server applies an update.                                           *)

\* Every match of a counting scenario adds one to the counter, and no update
\* touches the payload.
LEMMA ModificationGen ==
  ASSUME NEW s \in Scenarios, NEW d \in Document, NEW c \in Command,
         Filter(s, d, c)
  PROVE  /\ Modification(s, d, c).intact = d.intact
         /\ Modification(s, d, c).gen =
              IF s \in CASScenarios \cup {"blind-inc"} THEN d.gen + 1 ELSE d.gen
<1>1. CASE s \in {"cas", "blind-inc"}
  BY <1>1 DEF Modification, Document, CASScenarios
<1>2. CASE s = "uuid-cas"
  BY <1>2 DEF Modification, Document, CASScenarios
<1>3. CASE s = "divergent-cas"
  BY <1>3 DEF Modification, Document, CASScenarios
<1>4. CASE s = "whole-document-convergent"
  BY <1>4 DEF Modification, Document, CASScenarios, Filter
<1>5. CASE s = "whole-document-divergent"
  BY <1>5 DEF Modification, Document, CASScenarios, Filter
<1>6. CASE s = "disjoint-set"
  BY <1>6 DEF Modification, Document, CASScenarios
<1>7. CASE s = "same-set"
  BY <1>7 DEF Modification, Document, CASScenarios
<1>8. CASE s \in {"identical-set", "custom"}
  BY <1>8 DEF Modification, Document, CASScenarios
<1>9. QED
  BY <1>1, <1>2, <1>3, <1>4, <1>5, <1>6, <1>7, <1>8
     DEF Scenarios, CASScenarios, SetScenarios

\* What each scenario leaves in the document besides the counter.
LEMMA ModificationMarks ==
  ASSUME NEW s \in Scenarios, NEW d \in Document, NEW c \in Command, Filter(s, d, c)
  PROVE  LET m == Modification(s, d, c)
         IN  /\ s = "uuid-cas" => m.value = c.sequence /\ m.token = c.sequence
             /\ s = "divergent-cas" => m.value = c.sequence
             /\ s = "whole-document-convergent" =>
                  m.value = m.gen /\ m.fields = d.fields
             /\ s = "whole-document-divergent" =>
                  /\ m.value = m.gen
                  /\ m.fields = [d.fields EXCEPT ![c.worker] = c.sequence]
             /\ s = "disjoint-set" =>
                  m.fields = [d.fields EXCEPT ![c.worker] = c.sequence]
             /\ s = "same-set" => m.value = c.sequence
             /\ s = "identical-set" => m.value = 1
<1>1. CASE s = "uuid-cas"
  BY <1>1 DEF Modification, Document
<1>2. CASE s = "divergent-cas"
  BY <1>2 DEF Modification, Document
<1>3. CASE s = "whole-document-convergent"
  BY <1>3 DEF Modification, Document
<1>4. CASE s = "whole-document-divergent"
  BY <1>4 DEF Modification, Document
<1>5. CASE s = "disjoint-set"
  BY <1>5 DEF Modification, Document
<1>6. CASE s = "same-set"
  BY <1>6 DEF Modification, Document
<1>7. CASE s = "identical-set"
  BY <1>7 DEF Modification, Document
<1>8. QED
  BY <1>1, <1>2, <1>3, <1>4, <1>5, <1>6, <1>7

\* The write of a command.
Write(c) == [sequence |-> c.sequence, worker |-> c.worker, observed |-> c.gen]

\* A command that is answered as a match is granted; one whose client is gone
\* has left an unproven outcome, and its write is granted to nobody.
LEMMA AnswerGrants ==
  ASSUME RunInv, CommandsTrue, NEW c \in commands, ServerFrame, NEW r \in Replies, Answer(c, r)
  PROVE  /\ Unsettled' <=> Unsettled
         /\ \/ r \notin Matching /\ Granted' = Granted
            \/ r \in Matching /\ ~Awaited(c) /\ Unsettled /\ Granted' = Granted
            \/ /\ r \in Matching /\ Awaited(c)
               /\ Write(c) \notin Granted /\ Granted' = Granted \cup {Write(c)}
<1> USE RunTypes
<1>1. c.worker \in Workers /\ UNCHANGED <<pc, outcome, totals, sequence, observed, acked>>
  BY DEF Command, ServerFrame
<1>2. Unsettled' <=> Unsettled
  BY <1>1 DEF Unsettled, Unproven, Returned
<1>3. \A v \in Workers : Sent(v)' = Sent(v)
  BY <1>1 DEF Sent
<1>4. CASE ~Awaited(c)
  <2>1. reply' = reply
    BY <1>4 DEF Answer
  <2>2. Granted' = Granted
    BY <1>1, <1>3, <2>1 DEF Granted, Answered
  <2>3. Unsettled
    BY <1>4 DEF RunInv, OpenInv, CommandsOpen, Unsettled
  <2>4. QED
    BY <1>2, <1>4, <2>2, <2>3
<1>5. CASE Awaited(c)
  <2>1. /\ reply' = [reply EXCEPT ![c.worker] = r]
        /\ pc[c.worker] = "update" /\ sequence[c.worker] = c.sequence /\ reply[c.worker] = "none"
        /\ c.gen = observed[c.worker].gen
    BY <1>5 DEF Answer, Awaited, CommandsTrue
  <2>2. Write(c) = Sent(c.worker) /\ c.worker \notin Answered
    BY <2>1 DEF Write, Sent, Answered, Matching
  <2>3. Answered' = IF r \in Matching THEN Answered \cup {c.worker} ELSE Answered
    BY <1>1, <2>1 DEF Answered, Matching
  <2>4. Write(c) \notin Granted
    <3>1. Write(c) \notin acked
      BY <1>1, <2>1 DEF RunInv, ChainInv, AckedNumbered, Returned, Write
    <3>2. \A v \in Answered : Sent(v) # Write(c)
      BY <2>2 DEF Sent, Write
    <3>3. QED
      BY <3>1, <3>2 DEF Granted
  <2>5. r \in Matching => Granted' = Granted \cup {Write(c)}
    BY <1>1, <1>3, <2>2, <2>3 DEF Granted, Answered
  <2>6. r \notin Matching => Granted' = Granted
    BY <1>1, <1>3, <2>3 DEF Granted, Answered
  <2>7. QED
    BY <1>2, <1>5, <2>4, <2>5, <2>6
<1>6. QED
  BY <1>4, <1>5

\* The server matches a command: the document and the granted writes move
\* together.
LEMMA DocumentApply ==
  ASSUME RunInv, ServerInv, NEW c \in commands, UNCHANGED <<cfg, issued>>,
         Filter(cfg.scenario, doc, c),
         doc' = Modification(cfg.scenario, doc, c),
         Unsettled' <=> Unsettled,
         \/ Unsettled /\ Granted' = Granted
         \/ /\ Awaited(c) /\ Write(c) \notin Granted
            /\ Granted' = Granted \cup {Write(c)}
  PROVE  DocumentTrue'
<1> USE RunTypes
<1> DEFINE x == Write(c)
<1>1. /\ c \in Command /\ c.worker \in Workers /\ c.sequence \in 1 .. issued /\ c.gen \in Int
      /\ cfg.scenario \in Scenarios
      /\ x.sequence = c.sequence /\ x.worker = c.worker /\ x.observed = c.gen
  BY DEF Command, Config, AccountingInv, CommandsSent, Write
<1>2. doc.gen \in Nat /\ doc'.gen = IF Counting THEN doc.gen + 1 ELSE doc.gen
  BY <1>1, ModificationGen DEF ServerInv, RoomLeft, Counting
<1>3. Chained => Counting /\ c.gen = doc.gen
  BY DEF Chained, Counting, Filter
<1>4. /\ Granted' = Granted \/ Granted' = Granted \cup {x}
      /\ ~Unsettled => x \notin Granted /\ Granted' = Granted \cup {x}
      /\ (Counting' <=> Counting) /\ (Chained' <=> Chained)
  BY DEF Counting, Chained
<1> HIDE DEF x
<1>5. CounterTrue'
  <2> SUFFICES ASSUME Counting, ~Unsettled PROVE doc'.gen = Cardinality(Granted')
    BY <1>4 DEF CounterTrue
  <2>1. doc.gen = Cardinality(Granted)
    BY DEF ServerInv, DocumentTrue, CounterTrue
  <2>2. Cardinality(Granted') = Cardinality(Granted) + 1
    BY <1>4, GrantedType, FS_AddElement
  <2>3. QED
    BY <1>2, <2>1, <2>2
<1>6. BasesTrue'
  <2> SUFFICES ASSUME Chained
               PROVE  /\ \A a \in Granted' : a.observed \in 0 .. doc'.gen - 1
                      /\ \A a, b \in Granted' : a.observed = b.observed => a = b
    BY <1>4 DEF BasesTrue
  <2>1. /\ \A a \in Granted : a.observed \in 0 .. doc.gen - 1
        /\ \A a, b \in Granted : a.observed = b.observed => a = b
    BY DEF ServerInv, DocumentTrue, BasesTrue
  <2>2. x.observed = doc.gen /\ doc'.gen = doc.gen + 1
    BY <1>1, <1>2, <1>3
  <2>3. QED
    BY <1>2, <1>4, <2>1, <2>2
<1>7. MarkTrue'
  <2>1. CASE cfg.scenario = "uuid-cas"
    <3>1. doc'.value = c.sequence /\ doc'.token = c.sequence
      BY <1>1, <2>1, ModificationMarks
    <3>2. Unsettled \/ \E a \in Granted' : a.sequence = c.sequence
      BY <1>1, <1>4
    <3>3. QED
      BY <1>1, <3>1, <3>2 DEF MarkTrue
  <2>2. CASE cfg.scenario = "divergent-cas"
    <3>1. doc'.value = c.sequence
      BY <1>1, <2>2, ModificationMarks
    <3>2. Unsettled \/ \E a \in Granted' : a.sequence = c.sequence
      BY <1>1, <1>4
    <3>3. QED
      BY <2>2, <3>1, <3>2 DEF MarkTrue
  <2>3. QED
    BY <2>1, <2>2 DEF MarkTrue
<1>8. WholeTrue'
  <2>1. CASE cfg.scenario = "whole-document-convergent"
    <3>1. doc'.value = doc'.gen /\ doc'.fields = doc.fields
      BY <1>1, <2>1, ModificationMarks
    <3>2. \A w \in Workers : doc.fields[w] = 0
      BY <2>1 DEF ServerInv, DocumentTrue, WholeTrue
    <3>3. cfg' = cfg
      BY <1>1
    <3>4. QED
      BY <2>1, <3>1, <3>2, <3>3 DEF WholeTrue
  <2>2. CASE cfg.scenario = "whole-document-divergent"
    <3>1. /\ doc'.value = doc'.gen
          /\ doc'.fields = [doc.fields EXCEPT ![c.worker] = c.sequence]
          /\ doc.fields \in [Workers -> Int]
      BY <1>1, <2>2, ModificationMarks DEF Document
    <3>2. doc'.fields[c.worker] = c.sequence /\ c.sequence # 0
      BY <1>1, <3>1
    <3>3. Unsettled \/ \A w \in Workers :
            doc'.fields[w] # 0 => \E a \in Granted' : a.sequence = doc'.fields[w]
      BY <1>1, <1>4, <2>2, <3>1 DEF ServerInv, DocumentTrue, WholeTrue
    <3>4. QED
      BY <1>1, <2>2, <3>1, <3>2, <3>3 DEF WholeTrue
  <2>3. QED
    BY <2>1, <2>2 DEF WholeTrue
<1>9. ValueTrue'
  <2>1. CASE cfg.scenario = "disjoint-set"
    <3> SUFFICES ASSUME ~Unsettled, NEW w \in Workers PROVE LastGranted(w, doc.fields[w])'
      BY <2>1 DEF ValueTrue
    <3>1. /\ Granted' = Granted \cup {x} /\ Awaited(c)
          /\ LastGranted(w, doc.fields[w])
      BY <2>1 DEF x, ServerInv, DocumentTrue, ValueTrue
    <3>2. /\ doc'.fields = [doc.fields EXCEPT ![c.worker] = c.sequence]
          /\ doc.fields \in [Workers -> Int]
      BY <1>1, <2>1, ModificationMarks DEF Document
    <3>3. CASE w # c.worker
      <4>1. GrantedTo(w)' = GrantedTo(w) /\ doc'.fields[w] = doc.fields[w]
        BY <1>1, <3>1, <3>2, <3>3 DEF GrantedTo
      <4>2. QED
        BY <3>1, <4>1 DEF LastGranted
    <3>4. CASE w = c.worker
      <4>1. GrantedTo(w)' = GrantedTo(w) \cup {c.sequence} /\ doc'.fields[w] = c.sequence
        BY <1>1, <3>1, <3>2, <3>4 DEF GrantedTo
      <4>2. \A a \in Granted : a.worker = w => a.sequence <= c.sequence
        <5>1. w \notin Answered /\ sequence[w] = c.sequence
          BY <3>1, <3>4 DEF Awaited, Answered, Matching
        <5>2. \A a \in acked : a.worker = w => a.sequence <= c.sequence
          BY <1>1, <5>1 DEF RunInv, StoredInv, NumbersGrow
        <5>3. QED
          BY <5>1, <5>2 DEF Granted, Sent
      <4>3. \A n \in GrantedTo(w) : n <= c.sequence
        BY <4>2 DEF GrantedTo
      <4>4. QED
        BY <1>1, <4>1, <4>3 DEF LastGranted
    <3>5. QED
      BY <3>3, <3>4
  <2>2. CASE cfg.scenario = "same-set"
    <3>1. doc'.value = c.sequence
      BY <1>1, <2>2, ModificationMarks
    <3>2. c.sequence \in 1 .. issued' /\ cfg' = cfg
      BY <1>1
    <3>3. QED
      BY <2>2, <3>1, <3>2 DEF ValueTrue
  <2>3. CASE cfg.scenario = "identical-set"
    BY <1>1, <2>3, ModificationMarks DEF ValueTrue
  <2>4. QED
    BY <2>1, <2>2, <2>3 DEF ValueTrue
<1>10. QED
  BY <1>5, <1>6, <1>7, <1>8, <1>9 DEF DocumentTrue

-----------------------------------------------------------------------------
(* Preservation of what is known about the server.                         *)

\* The run starts without a document, and nothing has been granted.
LEMMA ServerInit == Init => ServerInv
<1> SUFFICES ASSUME Init PROVE ServerInv
  OBVIOUS
<1>1. /\ doc = NoDocument /\ doc.gen = 0 /\ doc.value = 0 /\ doc.token = 0
      /\ \A w \in Workers : doc.fields[w] = 0
  BY DEF Init, NoDocument, Seed, SeedDocument
<1>2. Granted = {} /\ \A w \in Workers : GrantedTo(w) = {}
  BY DEF Init, Granted, Answered, Matching, GrantedTo
<1>3. DocumentTrue
  BY <1>1, <1>2, FS_EmptySet
     DEF DocumentTrue, CounterTrue, BasesTrue, MarkTrue, WholeTrue, ValueTrue, LastGranted
<1>4. Preparing = {} /\ commands = {} /\ issued = 0 /\ acked = {} /\ phase = "start"
  BY DEF Init, Preparing
<1>5. RoomLeft
  BY <1>1, <1>4, FS_EmptySet DEF RoomLeft
<1>6. Prepared /\ CommandsTrue
  BY <1>1, <1>4 DEF Prepared, CommandsTrue
<1>7. QED
  BY <1>3, <1>5, <1>6 DEF ServerInv

\* The sizes RoomLeft is about.
LEMMA RoomTypes ==
  ASSUME RunInv, RoomLeft
  PROVE  /\ Cardinality(commands) \in Nat /\ IsFiniteSet(Preparing)
         /\ Cardinality(Preparing) \in Nat /\ issued \in Nat /\ doc.gen \in Nat
<1>1. IsFiniteSet(Preparing)
  BY RunnerAssumption, FS_Subset DEF Preparing
<1>2. QED
  BY <1>1, RunTypes, FS_CardinalityType DEF RoomLeft

\* What main does before and after the workers.
LEMMA ServerLifecycle ==
  ASSUME RunInv, RunInv', ServerInv, Lifecycle
  PROVE  ServerInv'
<1> USE RunTypes
<1>1. /\ UNCHANGED <<cfg, issued, pc, sequence, observed, outcome, totals, commands, reply, acked>>
  BY DEF Lifecycle, RejectConfig, Preflight, PreflightFails, Setup, SetupFails, Drain,
         Verify, VerifyFails, Report, ReportFails
<1>2. UNCHANGED <<Granted, Preparing>> /\ (Unsettled' <=> Unsettled)
  BY <1>1 DEF Granted, Answered, Sent, Preparing, Unsettled, Unproven, Returned
<1>3. /\ doc' = doc \/ (Setup /\ doc = NoDocument /\ doc' = Seed)
      /\ Prepared'
  <2>1. CASE Setup
    <3>1. /\ phase = "setup" /\ doc' = Seed /\ phase' = "running" /\ cfg' = cfg
      BY <2>1 DEF Setup
    <3>2. QED
      BY <2>1, <3>1 DEF ServerInv, Prepared, Seed, SeedDocument, ValidConfig
  <2>2. CASE RejectConfig \/ PreflightFails
    BY <2>2 DEF RejectConfig, PreflightFails, Exit, ServerInv, Prepared
  <2>3. CASE Preflight
    BY <2>3 DEF Preflight, ServerInv, Prepared, ValidConfig
  <2>4. CASE SetupFails \/ Drain \/ Verify \/ VerifyFails
    BY <2>4 DEF SetupFails, Drain, Verify, VerifyFails, ServerInv, Prepared, ValidConfig
  <2>5. CASE Report \/ ReportFails
    BY <2>5 DEF Report, ReportFails, Exit, ServerInv, Prepared
  <2>6. QED
    BY <2>1, <2>2, <2>3, <2>4, <2>5 DEF Lifecycle
<1>4. UNCHANGED <<doc.gen, doc.value, doc.token, doc.fields>>
  BY <1>3 DEF NoDocument, Seed, SeedDocument
<1>5. DocumentTrue'
  BY <1>1, <1>2, <1>4, DocumentFrame DEF ServerInv
<1>6. RoomLeft'
  BY <1>1, <1>2, <1>4 DEF ServerInv, RoomLeft
<1>7. CommandsTrue'
  BY <1>1 DEF ServerInv, CommandsTrue, Awaited
<1>8. QED
  BY <1>3, <1>5, <1>6, <1>7 DEF ServerInv

\* A worker's step keeps room for the updates still to come.
LEMMA RoomWorker ==
  ASSUME RunInv, RoomLeft, NEW w \in Workers, Proceed(w) \/ Network(w)
  PROVE  RoomLeft'
<1> USE RunTypes, RoomTypes
<1>1. doc' = doc
  BY WorkerStep DEF RunInv, SettledRun
<1>2. CASE issued' = issued + 1 /\ pc[w] \in {"load", "reserve"}
           /\ pc' = [pc EXCEPT ![w] = "execute"] /\ commands' = commands
  <2>1. Preparing' = Preparing \cup {w} /\ w \notin Preparing
    BY <1>2 DEF Preparing
  <2>2. Cardinality(Preparing') = Cardinality(Preparing) + 1
    BY <2>1, FS_AddElement
  <2>3. QED
    BY <1>1, <1>2, <2>2 DEF RoomLeft
<1>3. CASE SendUpdate(w)
  <2> PICK n : n = [sequence |-> sequence[w], worker |-> w,
                    gen |-> observed[w].gen, token |-> observed[w].token]
    OBVIOUS
  <2>1. /\ pc[w] \in {"delay", "execute"} /\ pc' = [pc EXCEPT ![w] = "update"]
        /\ commands' = commands \cup {n} /\ issued' = issued
    BY <1>3 DEF SendUpdate, Goto
  <2>2. n \notin commands
    BY <2>1 DEF AccountingInv, CommandsSent
  <2>3. Preparing' = Preparing \ {w} /\ w \in Preparing
    BY <2>1 DEF Preparing
  <2>4. Cardinality(Preparing') = Cardinality(Preparing) - 1
    BY <2>3, FS_RemoveElement
  <2>5. Cardinality(commands') = Cardinality(commands) + 1 /\ IsFiniteSet(commands')
    <3>1. IsFiniteSet(commands)
      BY DEF RoomLeft
    <3>2. QED
      BY <2>1, <2>2, <3>1, FS_AddElement
  <2>6. QED
    BY <1>1, <2>1, <2>4, <2>5 DEF RoomLeft
<1>4. CASE /\ UNCHANGED <<issued, commands>>
           /\ \A v \in Workers : v # w => pc'[v] = pc[v]
           /\ pc'[w] \in {"execute", "delay"} => pc[w] \in {"execute", "delay"}
  <2>1. Preparing' \subseteq Preparing
    BY <1>4 DEF Preparing
  <2>2. IsFiniteSet(Preparing') /\ Cardinality(Preparing') <= Cardinality(Preparing)
    BY <2>1, FS_Subset
  <2>3. Cardinality(Preparing') \in Nat
    BY <2>2, FS_CardinalityType
  <2>4. QED
    BY <1>1, <1>4, <2>2, <2>3 DEF RoomLeft
<1>5. CASE ReserveUnlimited(w) \/ SwapIssued(w)
  BY <1>2, <1>4, <1>5 DEF ReserveUnlimited, SwapIssued, Goto
<1>6. CASE \/ Admit(w) \/ LoadIssued(w) \/ FindOne(w) \/ FindOneError(w) \/ FindOneCancelled(w)
           \/ DelayCancelled(w) \/ CustomExecute(w)
  BY <1>4, <1>6 DEF Admit, LoadIssued, FindOne, FindOneError, FindOneCancelled,
     DelayCancelled, CustomExecute, ReadFails, Returns, Goto
<1>7. CASE \/ UpdateAnswered(w) \/ UpdateError(w) \/ UpdateCancelled(w)
           \/ BoundGeneration(w) \/ Record(w)
  <2>1. /\ UNCHANGED <<issued, commands>>
        /\ \E to \in {"returned", "record", "done", "admit"} : pc' = [pc EXCEPT ![w] = to]
    BY <1>7 DEF UpdateAnswered, UpdateError, UpdateCancelled, UpdateReturns, Returns,
                BoundGeneration, Record, Goto
  <2>2. QED
    BY <1>4, <2>1
<1>8. QED
  BY <1>3, <1>5, <1>6, <1>7 DEF Proceed, Network

\* While a worker waits for its answer its command says what it observed.
LEMMA CommandsWorker ==
  ASSUME RunInv, CommandsTrue, NEW w \in Workers, Proceed(w) \/ Network(w)
  PROVE  CommandsTrue'
<1> USE RunTypes
<1>1. CASE SendUpdate(w)
  <2> PICK n : n = [sequence |-> sequence[w], worker |-> w,
                    gen |-> observed[w].gen, token |-> observed[w].token]
    OBVIOUS
  <2>1. /\ pc[w] \in {"delay", "execute"} /\ pc' = [pc EXCEPT ![w] = "update"]
        /\ commands' = commands \cup {n} /\ UNCHANGED <<sequence, observed, reply>>
    BY <1>1 DEF SendUpdate, Goto
  <2>2. \A c \in commands : c.sequence # sequence[w]
    BY <2>1 DEF AccountingInv, CommandsSent
  <2>3. QED
    BY <2>1, <2>2 DEF CommandsTrue, Awaited, Command
<1>2. CASE /\ commands' = commands /\ pc'[w] # "update"
           /\ \A v \in Workers : v # w => /\ pc'[v] = pc[v] /\ sequence'[v] = sequence[v]
                                          /\ observed'[v] = observed[v] /\ reply'[v] = reply[v]
  BY <1>2 DEF CommandsTrue, Awaited, Command
<1>3. CASE \/ Admit(w) \/ ReserveUnlimited(w) \/ LoadIssued(w) \/ SwapIssued(w) \/ FindOne(w)
  BY <1>2, <1>3 DEF Admit, ReserveUnlimited, LoadIssued, SwapIssued, FindOne, Goto
<1>4. CASE \/ FindOneError(w) \/ FindOneCancelled(w) \/ DelayCancelled(w) \/ CustomExecute(w)
  BY <1>2, <1>4 DEF FindOneError, FindOneCancelled, DelayCancelled, CustomExecute,
     ReadFails, Returns, Goto
<1>5. CASE \/ UpdateAnswered(w) \/ UpdateError(w) \/ UpdateCancelled(w)
  <2>1. /\ pc' = [pc EXCEPT ![w] = "returned"] /\ reply' = [reply EXCEPT ![w] = "none"]
        /\ UNCHANGED <<commands, sequence, observed>>
    BY <1>5 DEF UpdateAnswered, UpdateError, UpdateCancelled, UpdateReturns, Returns, Goto
  <2>2. QED
    BY <1>2, <2>1
<1>6. CASE BoundGeneration(w) \/ Record(w)
  <2>1. /\ \E to \in {"record", "done", "admit"} : pc' = [pc EXCEPT ![w] = to]
        /\ UNCHANGED <<commands, reply>>
        /\ \A v \in Workers : v # w => sequence'[v] = sequence[v] /\ observed'[v] = observed[v]
    BY <1>6 DEF BoundGeneration, Record, Forget, Goto
  <2>2. QED
    BY <1>2, <2>1
<1>7. QED
  BY <1>1, <1>3, <1>4, <1>5, <1>6 DEF Proceed, Network

\* A worker's step leaves the document alone.
LEMMA ServerWorker ==
  ASSUME RunInv, RunInv', ServerInv, NEW w \in Workers, Proceed(w) \/ Network(w)
  PROVE  ServerInv'
<1>1. phase = "running" /\ UNCHANGED <<cfg, phase, doc>>
  BY WorkerStep DEF RunInv, SettledRun
<1>2. DocumentTrue'
  BY <1>1, WorkerGrants, DocumentFrame DEF ServerInv
<1>3. RoomLeft' /\ CommandsTrue'
  BY RoomWorker, CommandsWorker DEF ServerInv
<1>4. Prepared'
  BY <1>1 DEF ServerInv, Prepared, ValidConfig
<1>5. QED
  BY <1>2, <1>3, <1>4 DEF ServerInv

\* The server takes a command: there is room for it, and the document is still
\* the sum of the granted writes.
LEMMA ServerStep ==
  ASSUME RunInv, RunInv', ServerInv, ~Defective, NEW c \in commands, Server(c)
  PROVE  ServerInv'
<1> USE RunTypes
<1>1. /\ commands' = commands \ {c} /\ ServerFrame /\ c \in Command
      /\ phase \notin {"start", "setup"}
  BY DEF Server, ServerApply, ServerRefuses, ServerLoses, ServerMisanswers, ServerInv, Prepared
<1>2. /\ UNCHANGED <<cfg, phase, issued, pc, sequence, observed, outcome, totals, acked>>
      /\ Preparing' = Preparing
  BY <1>1 DEF ServerFrame, Preparing
<1>3. CommandsTrue'
  <2>1. \A d \in commands' : Awaited(d)' => Awaited(d)
    <3>1. reply' = reply \/ (Awaited(c) /\ \E r : reply' = [reply EXCEPT ![c.worker] = r])
      BY DEF Server, ServerApply, ServerRefuses, ServerLoses, ServerMisanswers, Answer
    <3>2. QED
      BY <1>1, <1>2, <3>1 DEF Awaited, Command
  <2>2. QED
    BY <1>1, <1>2, <2>1 DEF ServerInv, CommandsTrue
<1>4. Cardinality(commands') = Cardinality(commands) - 1 /\ IsFiniteSet(commands')
  BY <1>1, FS_RemoveElement DEF ServerInv, RoomLeft
<1>5. ASSUME doc' = doc PROVE Prepared' /\ RoomLeft'
  BY <1>1, <1>2, <1>4, <1>5, RoomTypes DEF ServerInv, Prepared, RoomLeft, ValidConfig
<1>6. ASSUME doc' = doc, Granted' = Granted, Unsettled' <=> Unsettled PROVE ServerInv'
  BY <1>2, <1>3, <1>5, <1>6, DocumentFrame DEF ServerInv
<1>7. CASE ServerApply(c) /\ Filter(cfg.scenario, doc, c)
  <2> PICK r : r = IF Modification(cfg.scenario, doc, c) = doc
                   THEN "matchedOnly" ELSE "modified"
    OBVIOUS
  <2>1. /\ doc' = Modification(cfg.scenario, doc, c) /\ Answer(c, r)
        /\ r \in Replies /\ r \in Matching
    BY <1>7 DEF ServerApply, Replies, Matching
  <2>2. /\ Unsettled' <=> Unsettled
        /\ \/ Unsettled /\ Granted' = Granted
           \/ /\ Awaited(c) /\ Write(c) \notin Granted
              /\ Granted' = Granted \cup {Write(c)}
    BY <1>1, <2>1, AnswerGrants DEF ServerInv
  <2>3. DocumentTrue'
    BY <1>2, <1>7, <2>1, <2>2, DocumentApply
  <2>4. cfg.scenario \in Scenarios
    BY DEF Config
  <2>5. doc'.intact = doc.intact /\ doc'.gen \in {doc.gen, doc.gen + 1}
    BY <1>1, <1>7, <2>1, <2>4, ModificationGen
  <2>6. RoomLeft'
    BY <1>2, <1>4, <2>5, RoomTypes DEF ServerInv, RoomLeft
  <2>7. Prepared'
    BY <1>1, <1>2, <2>5 DEF ServerInv, Prepared, ValidConfig
  <2>8. QED
    BY <1>3, <2>3, <2>6, <2>7 DEF ServerInv
<1>8. CASE ServerApply(c) /\ ~Filter(cfg.scenario, doc, c)
  <2>1. doc' = doc /\ Answer(c, "noMatch") /\ "noMatch" \in Replies /\ "noMatch" \notin Matching
    BY <1>8 DEF ServerApply, Replies, Matching
  <2>2. Granted' = Granted /\ (Unsettled' <=> Unsettled)
    BY <1>1, <2>1, AnswerGrants DEF ServerInv
  <2>3. QED
    BY <1>6, <2>1, <2>2
<1>9. CASE ServerRefuses(c)
  <2>1. /\ doc' = doc /\ Answer(c, "commandError")
        /\ "commandError" \in Replies /\ "commandError" \notin Matching
    BY <1>9 DEF ServerRefuses, Replies, Matching
  <2>2. Granted' = Granted /\ (Unsettled' <=> Unsettled)
    BY <1>1, <2>1, AnswerGrants DEF ServerInv
  <2>3. QED
    BY <1>6, <2>1, <2>2
<1>10. CASE ServerLoses(c)
  <2>1. doc' = doc /\ reply' = reply
    BY <1>10 DEF ServerLoses
  <2>2. Granted' = Granted /\ (Unsettled' <=> Unsettled)
    BY <1>2, <2>1 DEF Granted, Answered, Sent, Unsettled, Unproven, Returned
  <2>3. QED
    BY <1>6, <2>1, <2>2
<1>11. QED
  BY <1>7, <1>8, <1>9, <1>10 DEF Server, ServerMisanswers

\* Every step against an atomic server keeps what is known about it.
LEMMA ServerNext ==
  ASSUME RunInv, ServerInv, ~Defective, [Next]_vars
  PROVE  ServerInv'
<1>1. RunInv'
  BY RunNext
<1>2. CASE Interrupt \/ DeadlinePasses \/ Exited \/ UNCHANGED vars
  <2>1. UNCHANGED <<cfg, phase, issued, pc, sequence, observed, outcome, totals, doc,
                    commands, reply, acked>>
    BY <1>2 DEF Interrupt, DeadlinePasses, Exited, vars
  <2>2. UNCHANGED <<Granted, Preparing>> /\ (Unsettled' <=> Unsettled)
    BY <2>1 DEF Granted, Answered, Sent, Preparing, Unsettled, Unproven, Returned
  <2>3. DocumentTrue'
    BY <1>1, <2>1, <2>2, RunTypes, DocumentFrame DEF ServerInv
  <2>4. QED
    BY <2>1, <2>2, <2>3
       DEF ServerInv, Prepared, RoomLeft, CommandsTrue, Awaited, ValidConfig
<1>3. QED
  BY <1>1, <1>2, ServerLifecycle, ServerWorker, ServerStep DEF Next

-----------------------------------------------------------------------------
(* The outcomes and the aggregate ledger.                                  *)

\* The kind of an outcome names the reply it was made from, and a compare-and-
\* set outcome proposes the generation after the one observed.
LEMMA UpdateResultReply ==
  ASSUME NEW s, NEW r \in Replies, NEW n \in Nat, NEW g \in Int
  PROVE  LET u == UpdateResult(s, r, n, g)
         IN  /\ u.kind = "matched" /\ ~u.modified => r = "matchedOnly"
             /\ u.kind = "rejected" => r = "commandError"
             /\ u.kind = "noMatch" => r = "noMatch"
             /\ s \in CASScenarios => u.proposed = u.observed + 1
<1> PICK u : u = UpdateOutcome(r)
  OBVIOUS
<1>1. /\ u \in Outcome
      /\ u.kind = "matched" /\ ~u.modified => r = "matchedOnly"
      /\ u.kind = "rejected" => r = "commandError"
      /\ u.kind = "noMatch" => r = "noMatch"
  <2>1. CASE r = "ambiguous"
    BY <2>1 DEF UpdateOutcome, PlainOutcome, Outcome, OutcomeKind
  <2>2. CASE r = "commandError"
    BY <2>2 DEF UpdateOutcome, PlainOutcome, Outcome, OutcomeKind
  <2>3. CASE r = "noMatch"
    BY <2>3 DEF UpdateOutcome, PlainOutcome, Outcome, OutcomeKind
  <2>4. CASE r = "modified"
    <3>1. u = PlainOutcome("matched", r = "modified", FALSE)
      BY <2>4 DEF UpdateOutcome
    <3>2. (r = "modified") = TRUE
      BY <2>4
    <3>3. u = PlainOutcome("matched", TRUE, FALSE)
      BY <3>1, <3>2, Zenon
    <3>4. QED
      BY <3>3 DEF PlainOutcome, Outcome, OutcomeKind
  <2>5. CASE r = "matchedOnly"
    BY <2>5 DEF UpdateOutcome, PlainOutcome, Outcome, OutcomeKind
  <2>6. QED
    BY <2>1, <2>2, <2>3, <2>4, <2>5 DEF Replies
<1>2. UpdateResult(s, r, n, g) =
        IF s \in CASScenarios
        THEN [u EXCEPT !.sequence = n, !.cas = TRUE, !.observed = g, !.proposed = g + 1]
        ELSE u
  BY Zenon DEF UpdateResult
<1>3. QED
  BY <1>1, <1>2 DEF Outcome

\* At the start no outcome exists.
LEMMA KindsInit == Init => KindsTrue
  BY DEF Init, KindsTrue, EmptyTotals, Returned

\* The kinds depend on these variables only.
LEMMA KindsFrame ==
  ASSUME KindsTrue, UNCHANGED <<cfg, totals>>,
         \A v \in Workers : reply'[v] = reply[v] \/ reply'[v] = "none",
         \A v \in Workers :
           \/ Returned(v)' => Returned(v) /\ outcome'[v] = outcome[v]
           \/ BuiltIn /\ Returned(v)' => KindPossible(outcome'[v].kind, outcome'[v].modified)
  PROVE  KindsTrue'
  BY DEF KindsTrue, KindPossible, BuiltIn, Counting, Chained

\* A worker's outcome is one its server's answer can cause.
LEMMA KindsWorker ==
  ASSUME RunInv, KindsTrue, NEW w \in Workers, Proceed(w) \/ Network(w)
  PROVE  KindsTrue'
<1> USE RunTypes
<1>1. CASE \/ Admit(w) \/ ReserveUnlimited(w) \/ LoadIssued(w) \/ SwapIssued(w) \/ FindOne(w)
           \/ SendUpdate(w)
  <2>1. /\ \E to \in {"done", "load", "reserve", "execute", "delay", "update"} :
             pc' = [pc EXCEPT ![w] = to]
        /\ UNCHANGED <<cfg, outcome, totals, reply>>
    BY <1>1 DEF Admit, ReserveUnlimited, LoadIssued, SwapIssued, FindOne, SendUpdate, Goto
  <2>2. \A v \in Workers : Returned(v)' => Returned(v)
    BY <2>1 DEF Returned
  <2>3. QED
    BY <2>1, <2>2, KindsFrame
<1>2. CASE FindOneError(w) \/ FindOneCancelled(w) \/ DelayCancelled(w)
  <2>1. /\ pc' = [pc EXCEPT ![w] = "returned"]
        /\ UNCHANGED <<cfg, totals, reply>>
        /\ outcome' = [outcome EXCEPT ![w] = PlainOutcome("indeterminate", FALSE, TRUE)]
    BY <1>2 DEF FindOneError, FindOneCancelled, DelayCancelled, ReadFails, Returns, Goto
  <2>2. KindPossible(outcome'[w].kind, outcome'[w].modified)
    BY <2>1 DEF KindPossible, PlainOutcome
  <2>3. \A v \in Workers : v # w => (Returned(v)' => Returned(v)) /\ outcome'[v] = outcome[v]
    BY <2>1 DEF Returned
  <2>4. QED
    BY <2>1, <2>2, <2>3, KindsFrame
<1>3. CASE CustomExecute(w)
  BY <1>3 DEF CustomExecute, KindsTrue, BuiltIn
<1>4. ASSUME NEW r \in Replies, UpdateReturns(w, r), r = "ambiguous" \/ r = reply[w]
      PROVE  KindsTrue'
  <2> PICK o : o = UpdateResult(cfg.scenario, r, sequence[w], observed[w].gen)
    OBVIOUS
  <2>1. /\ pc' = [pc EXCEPT ![w] = "returned"] /\ outcome' = [outcome EXCEPT ![w] = o]
        /\ reply' = [reply EXCEPT ![w] = "none"]
        /\ UNCHANGED <<cfg, totals>>
    BY <1>4 DEF UpdateReturns, Returns, Goto
  <2>2. /\ o.kind = "matched" /\ ~o.modified => r = "matchedOnly"
        /\ o.kind = "rejected" => r = "commandError"
        /\ o.kind = "noMatch" => r = "noMatch"
    BY UpdateResultReply
  <2>3. BuiltIn => KindPossible(o.kind, o.modified)
    BY <1>4, <2>2 DEF KindsTrue, KindPossible
  <2>4. \A v \in Workers : v # w => (Returned(v)' => Returned(v)) /\ outcome'[v] = outcome[v]
    BY <2>1 DEF Returned
  <2>5. outcome'[w] = o /\ KindPossible(o.kind, o.modified)' = KindPossible(o.kind, o.modified)
    BY <2>1 DEF KindPossible, Counting, Chained
  <2>6. QED
    BY <2>1, <2>3, <2>4, <2>5, KindsFrame
<1>5. CASE UpdateAnswered(w) \/ UpdateError(w) \/ UpdateCancelled(w)
  <2>1. \E r \in Replies : UpdateReturns(w, r) /\ (r = "ambiguous" \/ r = reply[w])
    BY <1>5 DEF UpdateAnswered, UpdateError, UpdateCancelled, Replies
  <2>2. QED
    BY <1>4, <2>1
<1>6. CASE BoundGeneration(w)
  <2>1. /\ pc[w] = "returned" /\ pc' = [pc EXCEPT ![w] = "record"]
        /\ UNCHANGED <<cfg, totals, reply>>
        /\ \A v \in Workers : /\ outcome'[v].kind = outcome[v].kind
                              /\ outcome'[v].modified = outcome[v].modified
    BY <1>6 DEF BoundGeneration, Goto, Outcome
  <2>2. \A v \in Workers : Returned(v)' <=> Returned(v)
    BY <2>1 DEF Returned
  <2>3. QED
    BY <2>1, <2>2 DEF KindsTrue, KindPossible, BuiltIn, Counting, Chained
<1>7. CASE Record(w)
  <2>1. /\ pc[w] = "record" /\ \E to \in {"done", "admit"} : pc' = [pc EXCEPT ![w] = to]
        /\ outcome' = [outcome EXCEPT ![w] = NoOutcome]
        /\ UNCHANGED <<cfg, reply>>
    BY <1>7 DEF Record, Forget, Goto
  <2>2. \A v \in Workers : Returned(v)' => Returned(v) /\ outcome'[v] = outcome[v]
    BY <2>1 DEF Returned
  <2>3. BuiltIn => /\ Recordable(outcome[w])
                   /\ KindPossible(outcome[w].kind, outcome[w].modified)
                   /\ totals' = Tally(totals, outcome[w])
    BY <1>7, <2>1 DEF RunInv, StoredInv, MatchedIsAcked, Returned, Record, KindsTrue
  <2>4. BuiltIn =>
          /\ Counting /\ totals.modified = totals.matched => totals'.modified = totals'.matched
          /\ cfg.mode \in ReplayingModes => totals'.rejected = totals.rejected
          /\ ~Chained => totals'.noMatch = totals.noMatch
    BY <2>3 DEF KindPossible, Recordable, Tally, One, Totals
  <2>5. QED
    BY <2>1, <2>2, <2>4 DEF KindsTrue, KindPossible, BuiltIn, Counting, Chained
<1>8. QED
  BY <1>1, <1>2, <1>3, <1>5, <1>6, <1>7 DEF Proceed, Network

\* The answers of an atomic server: a match of a counting scenario modifies the
\* document, a replaying mode refuses nothing, and only a compare-and-set
\* filter can fail.
LEMMA KindsServer ==
  ASSUME RunInv, KindsTrue, ~Defective, NEW c \in commands, Server(c)
  PROVE  KindsTrue'
<1> USE RunTypes
<1>1. ServerFrame /\ c \in Command /\ cfg.scenario \in Scenarios
  BY DEF Server, ServerApply, ServerRefuses, ServerLoses, ServerMisanswers, Config
<1>2. UNCHANGED <<cfg, pc, outcome, totals>>
  BY <1>1 DEF ServerFrame
<1>3. ASSUME NEW r, reply' = reply \/ reply' = [reply EXCEPT ![c.worker] = r],
             BuiltIn => /\ r = "matchedOnly" => ~Counting
                        /\ r = "commandError" => cfg.mode \notin ReplayingModes
                        /\ r = "noMatch" => Chained
      PROVE  KindsTrue'
  <2>1. \A v \in Workers : reply'[v] = reply[v] \/ reply'[v] = r
    BY <1>3
  <2>2. QED
    BY <1>2, <1>3, <2>1 DEF KindsTrue, KindPossible, BuiltIn, Counting, Chained, Returned
<1>4. CASE ServerApply(c)
  <2> PICK m : m = Modification(cfg.scenario, doc, c)
    OBVIOUS
  <2>1. CASE Filter(cfg.scenario, doc, c)
    <3>1. Counting => m.gen = doc.gen + 1 /\ doc.gen \in Int
      BY <1>1, <2>1, ModificationGen DEF Counting, Document
    <3>2. Counting => m # doc
      BY <3>1
    <3> PICK r : r = IF m = doc THEN "matchedOnly" ELSE "modified"
      OBVIOUS
    <3>3. Answer(c, r)
      BY <1>4, <2>1 DEF ServerApply
    <3>4. QED
      BY <1>3, <3>2, <3>3 DEF Answer
  <2>2. CASE ~Filter(cfg.scenario, doc, c)
    <3>1. Answer(c, "noMatch") /\ Chained
      BY <1>4, <2>2 DEF ServerApply, Filter, Chained, CASScenarios
    <3>2. QED
      BY <1>3, <3>1 DEF Answer
  <2>3. QED
    BY <2>1, <2>2
<1>5. CASE ServerRefuses(c)
  <2>1. Answer(c, "commandError") /\ cfg.mode \notin ReplayingModes
    BY <1>5 DEF ServerRefuses
  <2>2. QED
    BY <1>3, <2>1 DEF Answer
<1>6. CASE ServerLoses(c)
  <2>1. reply' = reply
    BY <1>6 DEF ServerLoses
  <2>2. QED
    BY <1>2, <2>1, KindsFrame DEF Returned
<1>7. QED
  BY <1>4, <1>5, <1>6 DEF Server, ServerMisanswers

\* Every step against an atomic server keeps to the possible outcomes.
LEMMA KindsNext ==
  ASSUME RunInv, KindsTrue, ~Defective, [Next]_vars
  PROVE  KindsTrue'
<1>1. CASE Lifecycle
  <2>1. UNCHANGED <<cfg, totals, reply, pc, outcome>>
    BY <1>1 DEF Lifecycle, RejectConfig, Preflight, PreflightFails, Setup, SetupFails,
       Drain, Verify, VerifyFails, Report, ReportFails
  <2>2. QED
    BY <2>1, KindsFrame DEF Returned
<1>2. CASE Interrupt \/ DeadlinePasses \/ Exited \/ UNCHANGED vars
  <2>1. UNCHANGED <<cfg, totals, reply, pc, outcome>>
    BY <1>2 DEF Interrupt, DeadlinePasses, Exited, vars
  <2>2. QED
    BY <2>1, KindsFrame DEF Returned
<1>3. QED
  BY <1>1, <1>2, KindsWorker, KindsServer DEF Next

-----------------------------------------------------------------------------
(* The causal ledger.                                                      *)

\* At the start the ledger is empty.
LEMMA CausalInit == Init => CausalTrue
<1> SUFFICES ASSUME Init PROVE CausalTrue
  OBVIOUS
<1>1. Recorded = {} /\ causal = EmptyCausal /\ \A w \in Workers : ~Returned(w)
  BY DEF Init, Recorded, Returned
<1>2. QED
  BY <1>1 DEF CausalTrue, EmptyCausal

\* What the causal ledger is about changes with a Record only: an update that
\* returns is pending, and a new number is nobody's.
LEMMA RecordedSame ==
  ASSUME RunInv, NEW w \in Workers,
         \/ sequence' = sequence
         \/ sequence[w] = 0 /\ sequence' = [sequence EXCEPT ![w] = issued + 1],
         \/ acked' = acked
         \/ sequence' = sequence /\ acked' = acked \cup {Sent(w)}
  PROVE  Recorded' = Recorded
<1> USE RunTypes
<1>1. \A a \in acked : a.sequence \in 1 .. issued /\ a.worker \in Workers
  BY DEF RunInv, ChainInv, AckedNumbered
<1>2. CASE sequence' = sequence /\ acked' = acked
  BY <1>2 DEF Recorded
<1>3. CASE sequence' = sequence /\ acked' = acked \cup {Sent(w)}
  BY <1>3 DEF Recorded, Sent
<1>4. CASE sequence[w] = 0 /\ sequence' = [sequence EXCEPT ![w] = issued + 1] /\ acked' = acked
  BY <1>1, <1>4 DEF Recorded
<1>5. QED
  BY <1>2, <1>3, <1>4

\* The ledger is not touched, and new outcomes are not recorded yet.
LEMMA CausalFrame ==
  ASSUME CausalTrue, UNCHANGED <<cfg, causal, Recorded>>,
         \A v \in Workers :
           \/ Returned(v)' => Returned(v) /\ outcome'[v] = outcome[v] /\ pc'[v] = pc[v]
           \/ Chained => /\ pc'[v] # "record"
                         /\ \/ ~(outcome'[v].cas /\ outcome'[v].kind = "matched")
                            \/ outcome'[v].proposed = outcome'[v].observed + 1
  PROVE  CausalTrue'
  BY DEF CausalTrue, Chained

\* A worker's step before the outcome is there.
LEMMA CausalMove ==
  ASSUME RunInv, CausalTrue, NEW w \in Workers,
         \/ Admit(w) \/ ReserveUnlimited(w) \/ LoadIssued(w) \/ SwapIssued(w) \/ FindOne(w)
         \/ SendUpdate(w)
  PROVE  CausalTrue'
<1> USE RunTypes
<1>1. /\ pc[w] \in {"admit", "load", "reserve", "execute", "delay"}
      /\ \E to \in {"done", "load", "reserve", "execute", "delay", "update"} :
           pc' = [pc EXCEPT ![w] = to]
      /\ UNCHANGED <<cfg, outcome, causal, acked>>
      /\ \/ sequence' = sequence
         \/ pc[w] \in {"load", "reserve"} /\ sequence' = [sequence EXCEPT ![w] = issued + 1]
  BY DEF Admit, ReserveUnlimited, LoadIssued, SwapIssued, FindOne, SendUpdate, Goto
<1>2. pc[w] \in {"load", "reserve"} => sequence[w] = 0
  BY DEF AccountingInv, NumbersHeld, Holding
<1>3. Recorded' = Recorded
  BY <1>1, <1>2, RecordedSame
<1>4. \A v \in Workers : Returned(v)' => Returned(v) /\ outcome'[v] = outcome[v] /\ pc'[v] = pc[v]
  BY <1>1 DEF Returned
<1>5. QED
  BY <1>1, <1>3, <1>4, CausalFrame

\* A worker gets its outcome.
LEMMA CausalReturn ==
  ASSUME RunInv, CausalTrue, NEW w \in Workers,
         \/ FindOneError(w) \/ FindOneCancelled(w) \/ DelayCancelled(w) \/ CustomExecute(w)
         \/ UpdateAnswered(w) \/ UpdateError(w) \/ UpdateCancelled(w)
  PROVE  CausalTrue'
<1> USE RunTypes
<1>1. ASSUME NEW o, pc' = [pc EXCEPT ![w] = "returned"], outcome' = [outcome EXCEPT ![w] = o],
             UNCHANGED <<cfg, causal, sequence>>,
             acked' = acked \/ acked' = acked \cup {Sent(w)},
             Chained => o.proposed = o.observed + 1 \/ ~(o.cas /\ o.kind = "matched")
      PROVE  CausalTrue'
  <2>1. Recorded' = Recorded
    BY <1>1, RecordedSame
  <2>2. \A v \in Workers : v # w =>
          (Returned(v)' => Returned(v) /\ outcome'[v] = outcome[v] /\ pc'[v] = pc[v])
    BY <1>1 DEF Returned
  <2>3. outcome'[w] = o /\ pc'[w] # "record"
    BY <1>1
  <2>4. QED
    BY <1>1, <2>1, <2>2, <2>3, CausalFrame
<1>2. CASE FindOneError(w) \/ FindOneCancelled(w) \/ DelayCancelled(w)
  <2> PICK o : o = PlainOutcome("indeterminate", FALSE, TRUE)
    OBVIOUS
  <2>1. /\ pc' = [pc EXCEPT ![w] = "returned"] /\ outcome' = [outcome EXCEPT ![w] = o]
        /\ UNCHANGED <<cfg, causal, sequence, acked>>
    BY <1>2 DEF FindOneError, FindOneCancelled, DelayCancelled, ReadFails, Returns, Goto
  <2>2. ~o.cas
    BY DEF PlainOutcome
  <2>3. QED
    BY <1>1, <2>1, <2>2
<1>3. CASE CustomExecute(w)
  <2>1. ~Chained /\ cfg' = cfg
    BY <1>3 DEF CustomExecute, Chained, CASScenarios
  <2>2. QED
    BY <2>1 DEF CausalTrue, Chained
<1>4. ASSUME NEW r \in Replies, UpdateReturns(w, r) PROVE CausalTrue'
  <2> PICK o : o = UpdateResult(cfg.scenario, r, sequence[w], observed[w].gen)
    OBVIOUS
  <2> PICK x : x = Sent(w)
    OBVIOUS
  <2>1. /\ pc' = [pc EXCEPT ![w] = "returned"] /\ outcome' = [outcome EXCEPT ![w] = o]
        /\ UNCHANGED <<cfg, causal, sequence>>
    BY <1>4 DEF UpdateReturns, Returns, Goto
  <2>2. acked' = acked \cup {a \in {x} : r \in {"modified", "matchedOnly"}}
    BY <1>4, Zenon DEF UpdateReturns, Sent
  <2>3. acked' = acked \/ acked' = acked \cup {x}
    BY <2>2
  <2>4. Chained => o.proposed = o.observed + 1
    BY UpdateResultReply DEF Chained
  <2>5. QED
    BY <1>1, <2>1, <2>3, <2>4
<1>5. CASE UpdateAnswered(w) \/ UpdateError(w) \/ UpdateCancelled(w)
  <2>1. \E r \in Replies : UpdateReturns(w, r)
    BY <1>5 DEF UpdateAnswered, UpdateError, UpdateCancelled, Replies
  <2>2. QED
    BY <1>4, <2>1
<1>6. QED
  BY <1>2, <1>3, <1>5

\* The bound the runner sets admits every match of an atomic server: an
\* observed generation counts updates applied before, all of them issued.
LEMMA CausalBound ==
  ASSUME RunInv, ServerInv, CausalTrue, NEW w \in Workers, BoundGeneration(w)
  PROVE  CausalTrue'
<1> USE RunTypes
<1>1. /\ pc[w] = "returned" /\ pc' = [pc EXCEPT ![w] = "record"]
      /\ UNCHANGED <<cfg, causal, sequence, acked>>
      /\ outcome' = IF outcome[w].cas THEN [outcome EXCEPT ![w].bound = issued - 1] ELSE outcome
  BY DEF BoundGeneration, Goto
<1>2. Recorded' = Recorded
  BY <1>1 DEF Recorded
<1>3. \A v \in Workers : Returned(v)' <=> Returned(v)
  BY <1>1 DEF Returned
<1>4. \A v \in Workers : v # w => outcome'[v] = outcome[v] /\ pc'[v] = pc[v]
  BY <1>1
<1>5. ASSUME Chained, outcome'[w].cas, outcome'[w].kind = "matched"
      PROVE  /\ outcome'[w].proposed = outcome'[w].observed + 1
             /\ outcome'[w].observed <= outcome'[w].bound
  <2>1. /\ outcome[w].cas /\ outcome[w].kind = "matched" /\ Returned(w)
        /\ outcome'[w].proposed = outcome[w].proposed
        /\ outcome'[w].observed = outcome[w].observed
        /\ outcome'[w].bound = issued - 1
    BY <1>1, <1>5 DEF Outcome, Returned
  <2>2. Mark(w) \in Granted
    BY <1>5, <2>1 DEF RunInv, ChainInv, OutcomeAcked, Granted
  <2>3. outcome[w].observed \in 0 .. doc.gen - 1
    BY <1>5, <2>2 DEF ServerInv, DocumentTrue, BasesTrue, Mark
  <2>4. doc.gen <= issued /\ doc.gen \in Nat
    BY RoomTypes DEF ServerInv, RoomLeft
  <2>5. QED
    BY <1>5, <2>1, <2>3, <2>4 DEF CausalTrue
<1>6. QED
  BY <1>1, <1>2, <1>3, <1>4, <1>5 DEF CausalTrue, Chained

\* Record counts a valid edge from a generation no recorded update had.
LEMMA CausalRecord ==
  ASSUME RunInv, ServerInv, CausalTrue, NEW w \in Workers, Record(w)
  PROVE  CausalTrue'
<1> USE RunTypes
<1> SUFFICES ASSUME Chained PROVE CausalTrue'
  BY DEF CausalTrue, Chained, Record
<1> PICK o : o = outcome[w]
  OBVIOUS
<1>1. /\ pc[w] = "record" /\ Returned(w)
      /\ \E to \in {"done", "admit"} : pc' = [pc EXCEPT ![w] = to]
      /\ sequence' = [sequence EXCEPT ![w] = 0]
      /\ outcome' = [outcome EXCEPT ![w] = NoOutcome]
      /\ UNCHANGED <<cfg, acked>>
  BY DEF Record, Forget, Goto, Returned
<1>2. o \in Outcome /\ Recordable(o) /\ causal' = RecordCausal(causal, o)
  BY <1>1 DEF Record, RunInv, ChainInv, OutcomeAcked
<1>3. /\ \A v \in Workers : Returned(v)' => /\ Returned(v) /\ outcome'[v] = outcome[v]
                                            /\ pc'[v] = pc[v]
      /\ \A v \in Workers : v # w => sequence'[v] = sequence[v]
      /\ sequence'[w] = 0
  BY <1>1 DEF Returned
<1>4. \A a \in acked : a.sequence \in 1 .. issued /\ a.worker \in Workers
  BY DEF RunInv, ChainInv, AckedNumbered
<1>5. CASE ~(o.cas /\ o.kind = "matched")
  <2>1. causal' = causal
    BY <1>2, <1>5 DEF RecordCausal
  <2>2. \A a \in acked : a.sequence # sequence[w]
    BY <1>1, <1>5 DEF RunInv, ChainInv, OutcomeAcked
  <2>3. Recorded' = Recorded
    BY <1>1, <1>3, <1>4, <2>2 DEF Recorded
  <2>4. QED
    BY <1>1, <1>3, <2>1, <2>3, CausalFrame
<1>6. CASE o.cas /\ o.kind = "matched"
  <2> PICK x : x = Mark(w)
    OBVIOUS
  <2>1. /\ x \in acked /\ x \in Granted /\ o.sequence = sequence[w]
        /\ x.sequence = sequence[w] /\ x.worker = w /\ x.observed = o.observed
    BY <1>1, <1>6 DEF RunInv, ChainInv, OutcomeAcked, Granted, Mark
  <2>2. o.observed \in Nat
    BY <2>1, RoomTypes DEF ServerInv, DocumentTrue, BasesTrue
  <2>3. ~InvalidEdge(o)
    BY <1>1, <1>6, <2>2 DEF CausalTrue, InvalidEdge, Outcome
  <2>4. causal' = RecordEdge(causal, o)
    BY <1>2, <1>6, <2>3 DEF RecordCausal
  <2>5. x \notin Recorded
    BY <2>1 DEF Recorded
  <2>6. Recorded' = Recorded \cup {x}
    <3>1. \A a \in acked : a # x => a.sequence # sequence[w]
      BY <2>1 DEF RunInv, ChainInv, AckedNumbered
    <3>2. QED
      BY <1>1, <1>3, <1>4, <2>1, <3>1 DEF Recorded
  <2>7. o.observed \notin Observed(causal)
    <3>1. Observed(causal) = {a.observed : a \in Recorded}
      BY DEF CausalTrue, RunInv, ChainInv, LedgerCausal
    <3>2. \A a \in Recorded : a.observed # x.observed
      BY <2>1, <2>5 DEF ServerInv, DocumentTrue, BasesTrue, Granted, Recorded
    <3>3. QED
      BY <2>1, <3>1, <3>2
  <2>8. /\ Observed(causal') = Observed(causal) \cup {o.observed}
        /\ causal'.invalidEdges = causal.invalidEdges
        /\ causal'.duplicates = causal.duplicates
        /\ causal'.highestObserved = IF o.observed > causal.highestObserved
                                     THEN o.observed ELSE causal.highestObserved
        /\ causal'.matchedOperations = causal.matchedOperations \cup ({o.sequence} \ {0})
    BY <1>2, <2>2, <2>4, <2>7, RecordEdgeObserved
  <2>9. \A a \in Recorded' : a.sequence \in causal'.matchedOperations
    BY <1>4, <2>1, <2>6, <2>8 DEF CausalTrue
  <2>10. causal'.highestObserved = 0 \/ causal'.highestObserved \in Observed(causal')
    BY <2>8 DEF CausalTrue
  <2>11. QED
    BY <1>3, <2>8, <2>9, <2>10 DEF CausalTrue
<1>7. QED
  BY <1>5, <1>6

\* Every step against an atomic server keeps the causal ledger clean.
LEMMA CausalNext ==
  ASSUME RunInv, ServerInv, CausalTrue, [Next]_vars
  PROVE  CausalTrue'
<1>1. ASSUME UNCHANGED <<cfg, causal, pc, sequence, outcome, acked>> PROVE CausalTrue'
  <2>1. Recorded' = Recorded
    BY <1>1 DEF Recorded
  <2>2. QED
    BY <1>1, <2>1, CausalFrame DEF Returned
<1>2. CASE Lifecycle
  BY <1>1, <1>2 DEF Lifecycle, RejectConfig, Preflight, PreflightFails, Setup, SetupFails,
       Drain, Verify, VerifyFails, Report, ReportFails
<1>3. CASE Interrupt \/ DeadlinePasses \/ Exited \/ UNCHANGED vars
  BY <1>1, <1>3 DEF Interrupt, DeadlinePasses, Exited, vars
<1>4. ASSUME NEW c \in commands, Server(c) PROVE CausalTrue'
  BY <1>1, <1>4
     DEF Server, ServerApply, ServerRefuses, ServerLoses, ServerMisanswers, ServerFrame
<1>5. ASSUME NEW w \in Workers, Proceed(w) \/ Network(w) PROVE CausalTrue'
  BY <1>5, CausalMove, CausalReturn, CausalBound, CausalRecord DEF Proceed, Network
<1>6. QED
  BY <1>2, <1>3, <1>4, <1>5 DEF Next

-----------------------------------------------------------------------------
(* The checks. Verify runs when the workers are done: every granted write  *)
(* is acknowledged and recorded, and what is unknowable is in the totals.  *)

\* What is in hand when Verify evaluates the checks.
AtVerify ==
  /\ ValidConfig(cfg) /\ doc.intact
  /\ Granted = acked /\ Recorded = acked /\ IsFiniteSet(acked)
  /\ Unsettled => Unknowable(totals)
  /\ issued = totals.attempts /\ Balanced(totals)

\* It follows from the invariants once the workers are drained.
LEMMA VerifyFacts ==
  ASSUME RunInv, ServerInv, phase = "drained"
  PROVE  AtVerify
<1> USE RunTypes
<1>1. AllDone
  BY DEF RunInv, SettledRun, SettledInv
<1>2. Recorded = acked /\ IsFiniteSet(acked)
  BY <1>1, AllRecorded DEF RunInv
<1>3. \A w \in Workers : sequence[w] = 0 /\ reply[w] = "none" /\ ~Unproven(w)
  BY <1>1 DEF AccountingInv, NumbersHeld, Holding, AllDone, RunInv, OpenInv,
              ReplyAwaited, Unproven, Returned
<1>4. Answered = {} /\ Executing = {}
  BY <1>3 DEF Answered, Executing, Matching
<1>5. Granted = acked
  BY <1>4 DEF Granted
<1>6. ~stop
  BY DEF RunInv, SettledRun, EvidenceInv, StopIsFatal
<1>7. issued = totals.attempts /\ Balanced(totals)
  BY <1>4, <1>6, FS_EmptySet DEF AccountingInv, Accounted, Totals
<1>8. Unsettled => Unknowable(totals)
  BY <1>3 DEF Unsettled, Unknowable
<1>9. ValidConfig(cfg) /\ doc.intact
  BY DEF ServerInv, Prepared
<1>10. QED
  BY <1>2, <1>5, <1>7, <1>8, <1>9 DEF AtVerify

\* The causal ledger of a compare-and-set scenario, and the document.
ChainClean ==
  /\ causal.invalidEdges = 0 /\ causal.duplicates = 0
  /\ causal.matchedEdges = totals.matched
  /\ totals.modified = totals.matched
  /\ ~Unknowable(totals) =>
       /\ doc.gen = totals.matched
       /\ doc.gen = UniqueObserved(causal)
       /\ doc.gen = 0 \/ causal.highestObserved = doc.gen - 1

\* The bases of the granted writes fill the generations below the counter.
LEMMA ChainVerified ==
  ASSUME RunInv, ServerInv, LedgerInv, AtVerify, Chained
  PROVE  ChainClean
<1> USE RunTypes DEF AtVerify
<1> DEFINE v == doc.gen
<1>1. /\ causal.invalidEdges = 0 /\ causal.duplicates = 0
      /\ causal.matchedEdges = Cardinality(acked)
      /\ Observed(causal) = {a.observed : a \in acked}
      /\ \A g \in Observed(causal) : g <= causal.highestObserved
      /\ causal.highestObserved = 0 \/ causal.highestObserved \in Observed(causal)
  BY DEF LedgerInv, CausalTrue, RunInv, ChainInv, LedgerCausal
<1>2. totals.matched = Cardinality(acked) /\ totals.modified = totals.matched
  BY DEF RunInv, StoredInv, MatchedCounted, BuiltIn, Chained, CASScenarios, LedgerInv,
         KindsTrue, Counting
<1>3. v \in Nat
  BY RoomTypes DEF ServerInv, RoomLeft
<1>4. /\ \A a \in acked : a.observed \in 0 .. v - 1
      /\ \A a, b \in acked : a.observed = b.observed => a = b
  BY DEF ServerInv, DocumentTrue, BasesTrue
<1>5. ASSUME ~Unknowable(totals)
      PROVE  /\ v = totals.matched
             /\ v = UniqueObserved(causal)
             /\ v = 0 \/ causal.highestObserved = v - 1
  <2>1. v = Cardinality(acked)
    BY <1>5 DEF ServerInv, DocumentTrue, CounterTrue, Counting, Chained
  <2> HIDE DEF v
  <2>2. \A g \in 0 .. v - 1 : \E a \in acked : a.observed = g
    BY <1>3, <1>4, <2>1, BasesCover
  <2>3. Observed(causal) = 0 .. v - 1
    BY <1>1, <1>4, <2>2
  <2>4. UniqueObserved(causal) = v
    BY <1>3, <2>3, FS_Interval DEF UniqueObserved
  <2>5. v = 0 \/ causal.highestObserved = v - 1
    <3>1. PICK h \in Nat : h = causal.highestObserved
      BY DEF CausalOK
    <3>2. /\ \A g \in 0 .. v - 1 : g <= h
          /\ h = 0 \/ h \in 0 .. v - 1
      BY <1>1, <2>3, <3>1
    <3>3. v # 0 => v - 1 \in 0 .. v - 1
      BY <1>3
    <3>4. ASSUME v # 0 PROVE h = v - 1
      <4>1. v - 1 <= h
        BY <3>2, <3>3, <3>4
      <4>2. h = 0 \/ h <= v - 1
        BY <1>3, <3>2
      <4>3. QED
        BY <1>3, <3>4, <4>1, <4>2
    <3>5. QED
      BY <3>1, <3>4
  <2>6. QED
    BY <1>2, <2>1, <2>4, <2>5
<1>6. QED
  BY <1>1, <1>2, <1>5 DEF ChainClean

\* No definitive refusal in the modes that replay.
LEMMA StrictVerified ==
  ASSUME RunInv, LedgerInv, AtVerify, BuiltIn, cfg.mode \in ReplayingModes
  PROVE  /\ totals.rejected = 0
         /\ totals.matched + totals.noMatch = totals.attempts - totals.indeterminate
<1>1. totals.rejected = 0
  BY DEF LedgerInv, KindsTrue
<1>2. QED
  BY <1>1, RunTypes DEF AtVerify, Balanced, Totals

\* A check that raises no false alarm.
Harmless(c) ==
  ~c.passed /\ ~c.skipped =>
    \/ c.name = "hotDocumentMakesProgressThroughRun"
    \/ c.name \in MarkChecks /\ totals.matched = 0

\* One that passed or was skipped does not.
LEMMA CheckHarmless ==
  ASSUME NEW n, NEW p, NEW s, p \/ s
  PROVE  Harmless(Check(n, p, s))
  BY Zenon DEF Check, Harmless

\* The counter checks, strict and coalescing.
LEMMA CounterHarmless ==
  ASSUME ChainClean
  PROVE  /\ \A k \in CounterChecks(doc.gen, totals, causal) : Harmless(k)
         /\ \A k \in FieldDivergentCounterChecks(doc.gen, totals, causal) : Harmless(k)
<1>1. Harmless(Check("storedVersionEqualsMatched", doc.gen = totals.matched,
                     Unknowable(totals)))
  BY CheckHarmless DEF ChainClean
<1>2. Harmless(EveryMatchModified(totals))
  BY CheckHarmless DEF ChainClean, EveryMatchModified
<1>3. Harmless(Check("oneMatchPerObservedGeneration", causal.duplicates = 0, FALSE))
  BY CheckHarmless DEF ChainClean
<1>4. Harmless(MatchedEdgesAreSuccessive(totals, causal))
  BY CheckHarmless DEF ChainClean, MatchedEdgesAreSuccessive
<1>5. Harmless(Check("matchedEdgesFormCompleteChain",
                     doc.gen = 0 \/ causal.highestObserved = doc.gen - 1,
                     Unknowable(totals)))
  BY CheckHarmless DEF ChainClean
<1>6. Harmless(Check("storedVersionEqualsUniqueObservedChain",
                     doc.gen = UniqueObserved(causal), Unknowable(totals)))
  BY CheckHarmless DEF ChainClean
<1>7. Harmless(Check("observedGenerationsFormCompleteChain",
                     doc.gen = 0 \/ causal.highestObserved = doc.gen - 1,
                     Unknowable(totals)))
  BY CheckHarmless DEF ChainClean
<1>8. \A k \in CounterChecks(doc.gen, totals, causal) : Harmless(k)
  BY <1>1, <1>2, <1>3, <1>4, <1>5, Zenon DEF CounterChecks
<1>9. \A k \in FieldDivergentCounterChecks(doc.gen, totals, causal) : Harmless(k)
  BY <1>2, <1>4, <1>6, <1>7, Zenon DEF FieldDivergentCounterChecks
<1>10. QED
  BY <1>8, <1>9

\* The client's outcomes in the modes that replay.
LEMMA StrictHarmless ==
  ASSUME RunInv, LedgerInv, AtVerify, BuiltIn, cfg.mode \in ReplayingModes
  PROVE  \A k \in StrictCASClientOutcomeChecks(totals) : Harmless(k)
<1>1. Harmless(Check("refusedCASReturnsNoMatch", totals.rejected = 0, FALSE))
  BY StrictVerified, CheckHarmless
<1>2. Harmless(Check("everyConclusiveCASAttemptHasCommandResult",
                     totals.matched + totals.noMatch =
                       totals.attempts - totals.indeterminate, FALSE))
  BY StrictVerified, CheckHarmless
<1>3. QED
  BY <1>1, <1>2, Zenon DEF StrictCASClientOutcomeChecks

\* The padding.
LEMMA PayloadHarmless == AtVerify => Harmless(PayloadRetained(doc))
  BY DEF AtVerify, PayloadRetained, Check, Harmless

\* Every acknowledged write matched in the scenarios without a filter.
LEMMA MatchedHarmless ==
  ASSUME RunInv, LedgerInv, AtVerify, BuiltIn, ~Chained
  PROVE  Harmless(AllAcknowledgedWritesMatched(totals))
<1>1. totals.noMatch = 0
  BY DEF LedgerInv, KindsTrue
<1>2. totals.matched = totals.attempts - totals.rejected - totals.indeterminate
  BY <1>1, RunTypes DEF AtVerify, Balanced, Totals
<1>3. QED
  BY <1>2 DEF AllAcknowledgedWritesMatched, Check, Harmless

\* Verify of cas.
LEMMA CASHarmless ==
  ASSUME RunInv, ServerInv, LedgerInv, AtVerify, cfg.scenario = "cas"
  PROVE  \A k \in CASChecks(cfg.mode, doc, totals, causal) : Harmless(k)
<1>1. Chained /\ BuiltIn
  BY DEF Chained, CASScenarios, BuiltIn
<1>2. ChainClean
  BY <1>1, ChainVerified
<1>3. cfg.mode \in {"documentDivergent", "documentTouched"} =>
        \A k \in StrictCASClientOutcomeChecks(totals) : Harmless(k)
  BY <1>1, StrictHarmless DEF ReplayingModes
<1>4. QED
  BY <1>2, <1>3, CounterHarmless, PayloadHarmless, Zenon DEF CASChecks

\* The mark in the document is that of a recorded match, when there is one.
LEMMA MarkVerified ==
  ASSUME RunInv, ServerInv, LedgerInv, AtVerify,
         cfg.scenario \in {"uuid-cas", "divergent-cas"},
         ~Unknowable(totals), totals.matched # 0
  PROVE  doc.value \in 1 .. totals.attempts /\ OperationMatched(causal, doc.value)
<1>1. Chained
  BY DEF Chained, CASScenarios
<1>2. doc.gen # 0
  BY <1>1, ChainVerified DEF ChainClean
<1>3. PICK a \in Granted : a.sequence = doc.value
  BY <1>2 DEF ServerInv, DocumentTrue, MarkTrue, AtVerify
<1>4. a.sequence \in 1 .. issued /\ a \in Recorded
  BY GrantedType DEF AtVerify
<1>5. a.sequence \in causal.matchedOperations
  BY <1>1, <1>4 DEF LedgerInv, CausalTrue
<1>6. QED
  BY <1>3, <1>4, <1>5, RunTypes DEF AtVerify, OperationMatched

\* Verify of uuid-cas.
LEMMA UUIDHarmless ==
  ASSUME RunInv, ServerInv, LedgerInv, AtVerify, cfg.scenario = "uuid-cas"
  PROVE  \A k \in UUIDChecks(cfg.mode, doc, totals, causal) : Harmless(k)
<1>1. Chained /\ BuiltIn
  BY DEF Chained, CASScenarios, BuiltIn
<1>2. ChainClean
  BY <1>1, ChainVerified
<1>3. cfg.mode \in {"documentTouched", "documentDivergent"} =>
        \A k \in StrictCASClientOutcomeChecks(totals) : Harmless(k)
  BY <1>1, StrictHarmless DEF ReplayingModes
<1>4. doc.token = doc.value /\ doc.token \in Nat
  BY DEF ServerInv, DocumentTrue, MarkTrue
<1>5. doc.token >= 0
  BY <1>4
<1>6. Harmless(Check("finalTokenMatchesIssuedOperation",
                     /\ doc.token = doc.value
                     /\ doc.value \in 1 .. totals.attempts
                     /\ OperationMatched(causal, doc.value), Unknowable(totals)))
  <2>1. CASE totals.matched = 0
    BY <2>1, Zenon DEF Harmless, Check, MarkChecks
  <2>2. CASE Unknowable(totals)
    BY <2>2, CheckHarmless
  <2>3. CASE totals.matched # 0 /\ ~Unknowable(totals)
    <3>1. doc.value \in 1 .. totals.attempts /\ OperationMatched(causal, doc.value)
      BY <2>3, MarkVerified
    <3>2. QED
      BY <1>4, <3>1, CheckHarmless, Zenon
  <2>4. QED
    BY <2>1, <2>2, <2>3
<1>7. Harmless(Check("storedAppliedEqualsMatched", doc.gen = totals.matched,
                     Unknowable(totals)))
  BY <1>2, CheckHarmless DEF ChainClean
<1>8. Harmless(EveryMatchModified(totals))
  BY <1>2, CheckHarmless DEF ChainClean, EveryMatchModified
<1>9. Harmless(Check("finalTokenIsUUID", doc.token >= 0, FALSE))
  BY <1>5, CheckHarmless
<1>10. Harmless(Check("oneMatchPerObservedGeneration", causal.duplicates = 0, FALSE))
  BY <1>2, CheckHarmless DEF ChainClean
<1>11. Harmless(Check("matchedEdgesFormCompleteChain",
                      /\ causal.invalidEdges = 0
                      /\ causal.matchedEdges = totals.matched
                      /\ doc.gen = 0 \/ causal.highestObserved = doc.gen - 1,
                      Unknowable(totals)))
  BY <1>2, CheckHarmless, Zenon DEF ChainClean
<1>12. QED
  BY <1>3, <1>6, <1>7, <1>8, <1>9, <1>10, <1>11, PayloadHarmless, Zenon DEF UUIDChecks

\* Verify of divergent-cas.
LEMMA DivergentHarmless ==
  ASSUME RunInv, ServerInv, LedgerInv, AtVerify, cfg.scenario = "divergent-cas"
  PROVE  \A k \in DivergentCASChecks(cfg.mode, doc, totals, causal) : Harmless(k)
<1>1. Chained /\ BuiltIn
  BY DEF Chained, CASScenarios, BuiltIn
<1>2. ChainClean
  BY <1>1, ChainVerified
<1>3. cfg.mode \in {"documentTouched", "documentDivergent"} =>
        \A k \in StrictCASClientOutcomeChecks(totals) : Harmless(k)
  BY <1>1, StrictHarmless DEF ReplayingModes
<1>4. Harmless(Check("finalValueBelongsToAcceptedOperation",
                     doc.value \in 1 .. totals.attempts
                       /\ OperationMatched(causal, doc.value), Unknowable(totals)))
  <2>1. CASE totals.matched = 0
    BY <2>1, Zenon DEF Harmless, Check, MarkChecks
  <2>2. CASE Unknowable(totals)
    BY <2>2, CheckHarmless
  <2>3. CASE totals.matched # 0 /\ ~Unknowable(totals)
    <3>1. doc.value \in 1 .. totals.attempts /\ OperationMatched(causal, doc.value)
      BY <2>3, MarkVerified
    <3>2. QED
      BY <3>1, CheckHarmless, Zenon
  <2>4. QED
    BY <2>1, <2>2, <2>3
<1>5. QED
  BY <1>2, <1>3, <1>4, CounterHarmless, PayloadHarmless, Zenon DEF DivergentCASChecks

\* Verify of the whole-document scenarios.
LEMMA WholeHarmless ==
  ASSUME RunInv, ServerInv, LedgerInv, AtVerify,
         cfg.scenario \in {"whole-document-convergent", "whole-document-divergent"}
  PROVE  \A k \in WholeDocumentChecks(cfg.scenario, doc, totals, causal) : Harmless(k)
<1> USE RunTypes
<1>1. Chained /\ BuiltIn
  BY DEF Chained, CASScenarios, BuiltIn
<1>2. ChainClean
  BY <1>1, ChainVerified
<1>3. \A k \in StrictCASClientOutcomeChecks(totals) : Harmless(k)
  <2>1. cfg.mode \in ReplayingModes
    BY DEF AtVerify, ValidConfig, ReplayingModes
  <2>2. QED
    BY <1>1, <2>1, StrictHarmless
<1>4. Harmless(Check("wholeDocumentShapeIsValid", doc.value = doc.gen /\ doc.intact, FALSE))
  <2>1. doc.value = doc.gen /\ doc.intact
    BY DEF ServerInv, DocumentTrue, WholeTrue, AtVerify
  <2>2. QED
    BY <2>1, CheckHarmless
<1>5. DOMAIN doc.fields = Workers
  BY DEF Document
<1>6. CASE cfg.scenario = "whole-document-convergent"
  <2>1. WorkerFields(doc) = {}
    BY <1>5, <1>6 DEF ServerInv, DocumentTrue, WholeTrue, WorkerFields
  <2>2. Harmless(Check("convergentWholeDocumentIsExact", WorkerFields(doc) = {}, FALSE))
    BY <2>1, CheckHarmless
  <2>3. cfg.scenario # "whole-document-divergent"
    BY <1>6
  <2>4. QED
    BY <1>2, <1>3, <1>4, <2>2, <2>3, CounterHarmless, Zenon DEF WholeDocumentChecks
<1>7. CASE cfg.scenario = "whole-document-divergent"
  <2>1. ASSUME ~Unknowable(totals)
        PROVE  /\ totals.matched = 0 \/ WorkerFields(doc) # {}
               /\ \A w \in WorkerFields(doc) : OperationMatched(causal, doc.fields[w])
    <3>1. doc.gen = totals.matched
      BY <1>2, <2>1 DEF ChainClean
    <3>2. totals.matched = 0 \/ WorkerFields(doc) # {}
      BY <1>5, <1>7, <3>1 DEF ServerInv, DocumentTrue, WholeTrue, WorkerFields
    <3>3. ASSUME NEW w \in WorkerFields(doc)
          PROVE  OperationMatched(causal, doc.fields[w])
      <4>1. PICK a \in Granted : a.sequence = doc.fields[w]
        BY <1>5, <1>7, <2>1
           DEF ServerInv, DocumentTrue, WholeTrue, WorkerFields, AtVerify
      <4>2. a.sequence \in 1 .. issued /\ a \in Recorded
        BY GrantedType DEF AtVerify
      <4>3. a.sequence \in causal.matchedOperations
        BY <1>1, <4>2 DEF LedgerInv, CausalTrue
      <4>4. QED
        BY <4>1, <4>2, <4>3 DEF OperationMatched
    <3>4. QED
      BY <3>2, <3>3
  <2>2. Harmless(Check("workerFieldsBelongToMatchedOperations",
                       /\ totals.matched = 0 \/ WorkerFields(doc) # {}
                       /\ \A w \in WorkerFields(doc) :
                            OperationMatched(causal, doc.fields[w]),
                       Unknowable(totals)))
    BY <2>1, CheckHarmless, Zenon
  <2>3. QED
    BY <1>2, <1>3, <1>4, <1>7, <2>2, CounterHarmless, Zenon DEF WholeDocumentChecks
<1>8. QED
  BY <1>6, <1>7

\* Verify of blind-inc.
LEMMA BlindHarmless ==
  ASSUME RunInv, ServerInv, LedgerInv, AtVerify, cfg.scenario = "blind-inc"
  PROVE  \A k \in BlindIncrementChecks(cfg.mode, doc, totals) : Harmless(k)
<1>1. ~Chained /\ BuiltIn /\ Counting
  BY DEF Chained, CASScenarios, BuiltIn, Counting
<1>2. totals.matched = Cardinality(acked) /\ totals.modified = totals.matched
  BY <1>1 DEF RunInv, StoredInv, MatchedCounted, AtVerify, LedgerInv, KindsTrue
<1>3. ~Unknowable(totals) => doc.gen = totals.matched
  BY <1>1, <1>2 DEF ServerInv, DocumentTrue, CounterTrue, AtVerify
<1>4. ~Unknowable(totals) => doc.gen \in 0 .. totals.matched
  BY <1>3, RunTypes DEF Totals
<1>5. Harmless(Check("storedVersionDoesNotExceedMatched", doc.gen \in 0 .. totals.matched,
                     Unknowable(totals)))
  BY <1>4, CheckHarmless, Zenon
<1>6. Harmless(Check("storedVersionEqualsMatched", doc.gen = totals.matched,
                     Unknowable(totals)))
  BY <1>3, CheckHarmless, Zenon
<1>7. Harmless(EveryMatchModified(totals))
  BY <1>2, CheckHarmless DEF EveryMatchModified
<1>8. cfg.mode = "documentTouched" =>
        Harmless(Check("hotDocumentRetriesDoNotExhaust", totals.rejected = 0, FALSE))
  <2>1. cfg.mode = "documentTouched" => totals.rejected = 0
    BY <1>1, StrictVerified DEF ReplayingModes
  <2>2. QED
    BY <2>1, CheckHarmless, Zenon
<1>9. Harmless(AllAcknowledgedWritesMatched(totals))
  BY <1>1, MatchedHarmless
<1>10. QED
  BY <1>5, <1>6, <1>7, <1>8, <1>9, PayloadHarmless, Zenon DEF BlindIncrementChecks

\* Verify of disjoint-set: the server's last granted number is the one the
\* scenario remembers as acknowledged.
LEMMA DisjointHarmless ==
  ASSUME RunInv, ServerInv, LedgerInv, AtVerify, cfg.scenario = "disjoint-set"
  PROVE  \A k \in DisjointSetChecks(doc, totals, acknowledged) : Harmless(k)
<1> USE RunTypes
<1>1. ~Chained /\ BuiltIn
  BY DEF Chained, CASScenarios, BuiltIn
<1>2. ASSUME NEW w \in Workers, ~Unknowable(totals)
      PROVE  doc.fields[w] = acknowledged[w]
  <2>1. LastGranted(w, doc.fields[w]) /\ LastAcked(w, acknowledged[w])
    BY <1>2 DEF ServerInv, DocumentTrue, ValueTrue, AtVerify, RunInv, StoredInv,
                AcknowledgedLast
  <2>2. GrantedTo(w) = AckedBy(w)
    BY DEF AtVerify, GrantedTo, AckedBy
  <2>3. doc.fields[w] \in Int /\ acknowledged[w] \in Nat
    BY DEF Document
  <2>4. PICK x \in Int, y \in Int : x = doc.fields[w] /\ y = acknowledged[w]
    BY <2>3
  <2>5. IF AckedBy(w) = {} THEN x = 0
        ELSE x \in AckedBy(w) /\ \A s \in AckedBy(w) : s <= x
    BY <2>1, <2>2, <2>4, Zenon DEF LastGranted
  <2>6. IF AckedBy(w) = {} THEN y = 0
        ELSE y \in AckedBy(w) /\ \A s \in AckedBy(w) : s <= y
    BY <2>1, <2>4, Zenon DEF LastAcked
  <2>7. x = y
    BY <2>4, <2>5, <2>6
  <2>8. QED
    BY <2>4, <2>7
<1>3. \A w \in Workers : Harmless(Check("fieldRetainsLastAcknowledgement",
                                    doc.fields[w] = acknowledged[w], Unknowable(totals)))
  BY <1>2, CheckHarmless, Zenon
<1>4. DOMAIN acknowledged = Workers
  OBVIOUS
<1>5. Harmless(AllAcknowledgedWritesMatched(totals))
  BY <1>1, MatchedHarmless
<1>6. QED
  BY <1>3, <1>4, <1>5, PayloadHarmless, Zenon DEF DisjointSetChecks

\* Verify of same-set and identical-set.
LEMMA ValueHarmless ==
  ASSUME RunInv, ServerInv, LedgerInv, AtVerify
  PROVE  /\ cfg.scenario = "same-set" =>
              \A k \in SameSetChecks(doc, totals) : Harmless(k)
         /\ cfg.scenario = "identical-set" =>
              \A k \in IdenticalSetChecks(doc, totals) : Harmless(k)
<1>1. ASSUME cfg.scenario \in {"same-set", "identical-set"}
      PROVE  /\ Harmless(AllAcknowledgedWritesMatched(totals))
             /\ totals.matched # 0 => Granted # {}
  <2>1. ~Chained /\ BuiltIn
    BY <1>1 DEF Chained, CASScenarios, BuiltIn
  <2>2. totals.matched = Cardinality(acked)
    BY <2>1 DEF RunInv, StoredInv, MatchedCounted, AtVerify
  <2>3. QED
    BY <2>1, <2>2, MatchedHarmless, FS_EmptySet DEF AtVerify
<1>2. ASSUME cfg.scenario = "same-set"
      PROVE  \A k \in SameSetChecks(doc, totals) : Harmless(k)
  <2>1. totals.matched # 0 => doc.value \in 1 .. totals.attempts
    BY <1>1, <1>2 DEF ServerInv, DocumentTrue, ValueTrue, AtVerify
  <2>2. Harmless(Check("finalValueWasIssued", doc.value \in 1 .. totals.attempts,
                       Unknowable(totals)))
    BY <2>1, Zenon DEF Harmless, Check, MarkChecks
  <2>3. QED
    BY <1>1, <1>2, <2>2, PayloadHarmless, Zenon DEF SameSetChecks
<1>3. ASSUME cfg.scenario = "identical-set"
      PROVE  \A k \in IdenticalSetChecks(doc, totals) : Harmless(k)
  <2>1. totals.matched # 0 => doc.value = 1
    BY <1>1, <1>3 DEF ServerInv, DocumentTrue, ValueTrue
  <2>2. Harmless(Check("convergentValueRetained", doc.value = 1, FALSE))
    BY <2>1, Zenon DEF Harmless, Check, MarkChecks
  <2>3. QED
    BY <1>1, <1>3, <2>2, PayloadHarmless, Zenon DEF IdenticalSetChecks
<1>4. QED
  BY <1>2, <1>3

\* Whatever the scenario, what Verify evaluates raises no false alarm.
LEMMA VerifyHarmless ==
  ASSUME RunInv, ServerInv, LedgerInv, phase = "drained", NEW steady
  PROVE  \A k \in VerifyChecks(cfg, doc, totals, causal, acknowledged)
                    \cup HotDocumentProgressChecks(cfg, steady) : Harmless(k)
<1>1. AtVerify
  BY VerifyFacts
<1>2. \A k \in HotDocumentProgressChecks(cfg, steady) : Harmless(k)
  <2>1. Harmless(Check("hotDocumentMakesProgressThroughRun", steady, FALSE))
    BY DEF Harmless, Check
  <2>2. QED
    BY <2>1 DEF HotDocumentProgressChecks
<1> DEFINE S == VerifyChecks(cfg, doc, totals, causal, acknowledged)
<1>3. \A k \in S : Harmless(k)
  <2>1. CASE cfg.scenario = "cas"
    <3>1. S = CASChecks(cfg.mode, doc, totals, causal)
      BY <2>1 DEF VerifyChecks
    <3>2. QED
      BY <1>1, <2>1, <3>1, CASHarmless
  <2>2. CASE cfg.scenario = "uuid-cas"
    <3>1. S = UUIDChecks(cfg.mode, doc, totals, causal)
      BY <2>2 DEF VerifyChecks
    <3>2. QED
      BY <1>1, <2>2, <3>1, UUIDHarmless
  <2>3. CASE cfg.scenario = "divergent-cas"
    <3>1. S = DivergentCASChecks(cfg.mode, doc, totals, causal)
      BY <2>3 DEF VerifyChecks
    <3>2. QED
      BY <1>1, <2>3, <3>1, DivergentHarmless
  <2>4. CASE cfg.scenario \in {"whole-document-convergent", "whole-document-divergent"}
    <3>1. S = WholeDocumentChecks(cfg.scenario, doc, totals, causal)
      BY <2>4 DEF VerifyChecks
    <3>2. QED
      BY <1>1, <2>4, <3>1, WholeHarmless
  <2>5. CASE cfg.scenario = "blind-inc"
    <3>1. S = BlindIncrementChecks(cfg.mode, doc, totals)
      BY <2>5 DEF VerifyChecks
    <3>2. QED
      BY <1>1, <2>5, <3>1, BlindHarmless
  <2>6. CASE cfg.scenario = "disjoint-set"
    <3>1. S = DisjointSetChecks(doc, totals, acknowledged)
      BY <2>6 DEF VerifyChecks
    <3>2. QED
      BY <1>1, <2>6, <3>1, DisjointHarmless
  <2>7. CASE cfg.scenario = "same-set"
    <3>1. S = SameSetChecks(doc, totals)
      BY <2>7 DEF VerifyChecks
    <3>2. QED
      BY <1>1, <2>7, <3>1, ValueHarmless
  <2>8. CASE cfg.scenario = "identical-set"
    <3>1. S = IdenticalSetChecks(doc, totals)
      BY <2>8 DEF VerifyChecks
    <3>2. QED
      BY <1>1, <2>8, <3>1, ValueHarmless
  <2>9. CASE cfg.scenario = "custom"
    <3>1. S = {Check("customCheck", TRUE, FALSE)}
      BY <2>9 DEF VerifyChecks
    <3>2. QED
      BY <3>1, CheckHarmless, Zenon
  <2>10. cfg.scenario \in Scenarios
    BY RunTypes DEF Config
  <2>11. QED
    BY <2>1, <2>2, <2>3, <2>4, <2>5, <2>6, <2>7, <2>8, <2>9, <2>10
       DEF Scenarios, CASScenarios, SetScenarios
<1> HIDE DEF S
<1>4. \A k \in S \cup HotDocumentProgressChecks(cfg, steady) : Harmless(k)
  BY <1>2, <1>3
<1>5. QED
  BY <1>4 DEF S

\* The checks and the totals they are about change together, in Verify only.
LEMMA AlarmNext ==
  ASSUME RunInv, ~Defective => ServerInv /\ LedgerInv, NoFalseAlarm, [Next]_vars
  PROVE  NoFalseAlarm'
<1> SUFFICES ASSUME ~Defective, NEW k \in checks'
             PROVE  Harmless(k)'
  BY DEF NoFalseAlarm, Harmless
<1>1. ASSUME UNCHANGED <<checks, totals>> PROVE Harmless(k)'
  BY <1>1 DEF NoFalseAlarm, Harmless
<1>2. CASE Verify
  <2>1. PICK steady \in BOOLEAN :
          checks' = VerifyChecks(cfg, doc, totals, causal, acknowledged)
                      \cup HotDocumentProgressChecks(cfg, steady)
    BY <1>2 DEF Verify, Served
  <2>2. phase = "drained" /\ totals' = totals
    BY <1>2 DEF Verify
  <2>3. Harmless(k)
    BY <2>1, <2>2, VerifyHarmless
  <2>4. QED
    BY <2>2, <2>3 DEF Harmless
<1>3. CASE Lifecycle /\ ~Verify
  BY <1>1, <1>3 DEF Lifecycle, RejectConfig, Preflight, PreflightFails, Setup, SetupFails,
       Drain, VerifyFails, Report, ReportFails
<1>4. CASE Interrupt \/ DeadlinePasses \/ Exited \/ UNCHANGED vars
  BY <1>1, <1>4 DEF Interrupt, DeadlinePasses, Exited, vars
<1>5. ASSUME NEW c \in commands, Server(c) PROVE Harmless(k)'
  BY <1>1, <1>5
     DEF Server, ServerApply, ServerRefuses, ServerLoses, ServerMisanswers, ServerFrame
<1>6. ASSUME NEW w \in Workers, Proceed(w) \/ Network(w) PROVE Harmless(k)'
  <2>1. EvidenceInv
    BY DEF RunInv, SettledRun
  <2>2. phase = "running" /\ checks' = checks
    BY <1>6, <2>1, WorkerStep
  <2>3. checks' = {}
    BY <2>1, <2>2 DEF EvidenceInv, NothingFinal
  <2>4. QED
    BY <2>3
<1>7. QED
  BY <1>2, <1>3, <1>4, <1>5, <1>6 DEF Next

(***************************************************************************)
(* Against a server that applies every update atomically no hard check of  *)
(* Scenario.Verify fails, in any scenario and mode, for any number of      *)
(* workers and operations, whatever is lost, refused, late or interrupted. *)
(* The exceptions are the two NoFalseAlarm names.                          *)
(***************************************************************************)
THEOREM NoAlarmIsFalse == SafetySpec => []NoFalseAlarm
<1> DEFINE Inv == /\ RunInv
                  /\ ~Defective => ServerInv /\ LedgerInv
                  /\ NoFalseAlarm
<1>1. Init => Inv
  BY RunInit, ServerInit, KindsInit, CausalInit DEF LedgerInv, NoFalseAlarm, Init
<1>2. Inv /\ [Next]_vars => Inv'
  <2> SUFFICES ASSUME Inv, [Next]_vars PROVE Inv'
    OBVIOUS
  <2>1. RunInv'
    BY RunNext
  <2>2. ~Defective => ServerInv' /\ LedgerInv'
    BY ServerNext, KindsNext, CausalNext DEF LedgerInv
  <2>3. NoFalseAlarm'
    BY AlarmNext
  <2>4. QED
    BY <2>1, <2>2, <2>3
<1>3. QED
  BY <1>1, <1>2, PTL DEF SafetySpec
=============================================================================
