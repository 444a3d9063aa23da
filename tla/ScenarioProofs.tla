--------------------------- MODULE ScenarioProofs ---------------------------
(***************************************************************************)
(* What holds of the campaign scripts for every suite of cases, number of  *)
(* bursts and number of iterations, and of the transaction scenario for    *)
(* every number of workers and operations: the tally of weekend-loop.sh    *)
(* fits the reports its iterations wrote, and the checks of                *)
(* txn-commit-race judge the server right.                                 *)
(***************************************************************************)
EXTENDS Campaign, Transaction, FiniteSetTheorems, TLAPS

-----------------------------------------------------------------------------
(* Campaign: the invariant                                                 *)

Report == Verdicts \cup {"?", None}
Judgement == {"PASS", "FAIL", "xfail", "XPASS", "ERROR", "SKIP", None}

(* The iterations that have been tallied *)
Over == IF pc \in {"loop", "stopped"} THEN iter ELSE iter - 1

(* Every iteration that is over is in the tally once. *)
Tallied ==
  /\ Over \in Nat
  /\ failedIters \subseteq 1 .. Over
  /\ passes + Cardinality(failedIters) = Over

(* A case that wrote a report has been judged by it, not by an older one: the codes
   that come with a report are verdicts. *)
JudgedByItsReport ==
  \A c \in Case : wrote[c] # None =>
    /\ Expect[c] # "skip"
    /\ results[c] = Classify(c, 1, wrote[c])

(* The suite's exit code is that of the judgements it made. *)
SuiteIsItsCases == pc \in {"burst", "classify"} /\ rcSuite = 0 => SuiteExit(results) = 0

(* Until the first burst has run the phase has no report, no burst goes on after a
   failed report or a catch, and a phase that ended with a catch has no report against
   it, and one with a failed report ended with a catch. *)
BurstIsItsReport ==
  /\ pc \in {"suite", "burst"} => ~caught /\ wrote[Burst] # "failed"
  /\ pc = "suite" \/ (pc = "burst" /\ next = 1) => wrote[Burst] = None
  /\ pc = "classify" => /\ wrote[Burst] = "failed" => caught /\ rcBurst = 1
                        /\ caught => wrote[Burst] \in {"failed", None}

(* A catch that was tallied was tallied as a failure. *)
CatchFails == pc \in {"loop", "stopped"} /\ iter > 0 /\ rcBurst = 1 => iter \in failedIters

CInv == TypeOK /\ Tallied /\ JudgedByItsReport /\ SuiteIsItsCases /\ BurstIsItsReport /\ CatchFails


-----------------------------------------------------------------------------
(* The constants and the command's runs                                    *)

LEMMA Places ==
  /\ Len(Order) \in Nat /\ \A i \in Nat : 1 <= i /\ i <= Len(Order) => Order[i] \in Case
  /\ Max({Len(Order), BURST_COUNT}) \in Nat
  /\ Len(Order) <= Max({Len(Order), BURST_COUNT})
  /\ BURST_COUNT <= Max({Len(Order), BURST_COUNT})
<1>1. Order \in Seq(Case) /\ Len(Order) \in Nat /\ BURST_COUNT \in Nat
  BY CasesAssumption, BoundsAssumption
<1>2. \A i \in Nat : 1 <= i /\ i <= Len(Order) => Order[i] \in Case
  BY <1>1
<1>3. \A m, n \in Nat : \E x \in {m, n} : \A y \in {m, n} : x >= y
  OBVIOUS
<1>4. \A m, n \in Nat : Max({m, n}) \in {m, n} /\ \A y \in {m, n} : Max({m, n}) >= y
  BY <1>3 DEF Max
<1>5. \A m, n \in Nat : Max({m, n}) \in Nat /\ m <= Max({m, n}) /\ n <= Max({m, n})
  BY <1>4
<1>6. QED
  BY <1>1, <1>2, <1>5

LEMMA TypeParts ==
  ASSUME TypeOK
  PROVE  /\ pc \in {"loop", "suite", "burst", "classify", "stopped"}
         /\ reports \in [Names -> Report] /\ wrote \in [Names -> Report]
         /\ results \in [Case -> Judgement]
         /\ next \in Nat /\ 1 <= next /\ next <= Max({Len(Order), BURST_COUNT}) + 1
         /\ iter \in Nat /\ passes \in Nat
         /\ Burst \in Names /\ Case \subseteq Names /\ \A c \in Case : c # Burst
<1>1. next \in 1 .. Max({Len(Order), BURST_COUNT}) + 1 /\ iter \in 0 .. MaxIterations /\ passes \in 0 .. iter
  BY DEF TypeOK
<1>2. next \in Nat /\ 1 <= next /\ next <= Max({Len(Order), BURST_COUNT}) + 1 /\ iter \in Nat
  BY <1>1, Places, BoundsAssumption
<1>3. passes \in Nat
  BY <1>1, <1>2
<1>4. QED
  BY <1>2, <1>3, CasesAssumption DEF TypeOK, Report, Judgement, Names

\* A case has one of the judgements whatever its run came to; one that came with a
\* report is judged by the report alone.
LEMMA RunTypes ==
  ASSUME NEW r \in Runs
  PROVE  /\ r.report \in Report
         /\ r.report # None => r.code \in {0, 1, 3}
         /\ r.code = 0 => r.report = "conclusivePass"
         /\ r.report = "failed" => r.code = 1
<1>1. CASE r \in {[code |-> 0, report |-> "conclusivePass"], [code |-> 3, report |-> "inconclusive"]}
  BY <1>1 DEF Report, Verdicts
<1>2. CASE r \in {[code |-> 1, report |-> v] : v \in Verdicts \cup {"?", None}}
  BY <1>2 DEF Report
<1>3. CASE r \in {[code |-> k, report |-> None] : k \in {2, 137, 143}}
  BY <1>3 DEF Report, None
<1>4. QED
  BY <1>1, <1>2, <1>3 DEF Runs

LEMMA ClassifyTypes ==
  ASSUME NEW c \in Case, NEW v \in Report, NEW k
  PROVE  /\ Classify(c, k, v) \in Judgement
         /\ k \in {0, 1, 3} => Classify(c, k, v) = Classify(c, 1, v)
<1>1. Classify(c, k, v) \in Judgement
  <2>1. CASE k \notin {0, 1, 3} \/ v = None
    BY <2>1 DEF Classify, Judgement
  <2>2. CASE k \in {0, 1, 3} /\ v # None /\ Expect[c] = "pass"
    BY <2>2 DEF Classify, Judgement
  <2>3. CASE k \in {0, 1, 3} /\ v # None /\ Expect[c] # "pass"
    BY <2>3 DEF Classify, Judgement
  <2>4. QED
    BY <2>1, <2>2, <2>3
<1>2. k \in {0, 1, 3} => Classify(c, k, v) = Classify(c, 1, v)
  BY DEF Classify
<1>3. QED
  BY <1>1, <1>2

\* What a run leaves under its name.
LEMMA KeepTypes ==
  ASSUME TypeOK, NEW n \in Names, NEW r \in Runs, Keep(n, r)
  PROVE  /\ reports' \in [Names -> Report] /\ wrote' \in [Names -> Report]
         /\ wrote'[n] = r.report /\ \A m \in Names \ {n} : wrote'[m] = wrote[m]
         /\ Left(n, r) \in Report
         /\ r.report # None => Left(n, r) = r.report
<1>1. reports \in [Names -> Report] /\ wrote \in [Names -> Report] /\ r.report \in Report
  BY TypeParts, RunTypes
<1>2. Left(n, r) \in Report /\ (r.report # None => Left(n, r) = r.report)
  BY <1>1 DEF Left
<1>3. QED
  BY <1>1, <1>2 DEF Keep

-----------------------------------------------------------------------------
(* The steps                                                               *)

LEMMA InitHolds ==
  ASSUME Init
  PROVE  CInv
<1> USE DEF Init
<1>1. TypeOK
  <2>1. next \in 1 .. Max({Len(Order), BURST_COUNT}) + 1
    BY Places
  <2>2. iter \in 0 .. MaxIterations /\ passes \in 0 .. iter /\ failedIters \subseteq 1 .. iter
    BY BoundsAssumption
  <2>3. QED
    BY <2>1, <2>2 DEF TypeOK
<1>2. Tallied
  BY FS_EmptySet DEF Tallied, Over
<1>3. JudgedByItsReport /\ SuiteIsItsCases /\ BurstIsItsReport /\ CatchFails
  BY DEF JudgedByItsReport, SuiteIsItsCases, BurstIsItsReport, CatchFails, Names
<1>4. QED
  BY <1>1, <1>2, <1>3 DEF CInv

\* The tally is untouched while an iteration is under way.
LEMMA SameTally ==
  ASSUME Tallied, UNCHANGED tallies, Over' = Over
  PROVE  Tallied'
  BY DEF Tallied, tallies

LEMMA StartIterationHolds ==
  ASSUME CInv, StartIteration
  PROVE  CInv'
<1> USE DEF CInv
<1>1. /\ pc = "loop" /\ iter < MaxIterations /\ iter' = iter + 1 /\ pc' = "suite" /\ next' = 1
      /\ results' = [c \in Case |-> None] /\ wrote' = [n \in Names |-> None] /\ caught' = FALSE
      /\ UNCHANGED <<stop, reports, rcSuite, rcBurst, passes, failedIters>>
  BY DEF StartIteration
<1>2. iter \in 0 .. MaxIterations /\ passes \in 0 .. iter /\ failedIters \subseteq 1 .. iter
  BY DEF TypeOK
<1>3. /\ iter' \in 0 .. MaxIterations /\ passes' \in 0 .. iter' /\ failedIters' \subseteq 1 .. iter'
      /\ next' \in 1 .. Max({Len(Order), BURST_COUNT}) + 1
  BY <1>1, <1>2, Places, BoundsAssumption
<1>4. TypeOK'
  BY <1>1, <1>3 DEF TypeOK, Verdicts
<1>5. Tallied'
  <2>1. Over' = Over
    BY <1>1, <1>2, BoundsAssumption DEF Over
  <2>2. QED
    BY <1>1, <2>1 DEF Tallied
<1>6. JudgedByItsReport' /\ SuiteIsItsCases' /\ BurstIsItsReport' /\ CatchFails'
  BY <1>1 DEF JudgedByItsReport, SuiteIsItsCases, BurstIsItsReport, CatchFails, Names, None
<1>7. QED
  BY <1>4, <1>5, <1>6

LEMMA SkipCaseHolds ==
  ASSUME CInv, SkipCase
  PROVE  CInv'
<1> USE DEF CInv
<1> DEFINE c == Order[next]
<1>1. /\ pc = "suite" /\ next <= Len(Order) /\ Expect[c] = "skip"
      /\ results' = [results EXCEPT ![c] = "SKIP"] /\ next' = next + 1
      /\ UNCHANGED <<pc, stop, reports, wrote, caught, rcSuite, rcBurst, iter, passes, failedIters>>
  BY DEF SkipCase, tallies
<1>2. /\ next \in Nat /\ 1 <= next /\ c \in Case /\ results \in [Case -> Judgement]
  BY <1>1, TypeParts, Places
<1> HIDE DEF c
<1>3. next' \in 1 .. Max({Len(Order), BURST_COUNT}) + 1
  BY <1>1, <1>2, Places
<1>4. results' \in [Case -> Judgement] /\ \A d \in Case \ {c} : results'[d] = results[d]
  BY <1>1, <1>2 DEF Judgement
<1>5. TypeOK'
  BY <1>1, <1>3, <1>4 DEF TypeOK, Judgement
<1>6. Tallied'
  BY <1>1, SameTally DEF Over, tallies
<1>7. JudgedByItsReport'
  <2> SUFFICES ASSUME NEW d \in Case, wrote[d] # None
               PROVE  Expect[d] # "skip" /\ results'[d] = Classify(d, 1, wrote[d])
    BY <1>1 DEF JudgedByItsReport
  <2>1. Expect[d] # "skip" /\ results[d] = Classify(d, 1, wrote[d])
    BY DEF JudgedByItsReport
  <2>2. d # c
    BY <1>1, <2>1
  <2>3. QED
    BY <1>4, <2>1, <2>2
<1>8. SuiteIsItsCases' /\ BurstIsItsReport' /\ CatchFails'
  BY <1>1 DEF SuiteIsItsCases, BurstIsItsReport, CatchFails
<1>9. QED
  BY <1>5, <1>6, <1>7, <1>8

LEMMA RunCaseHolds ==
  ASSUME CInv, RunCase
  PROVE  CInv'
<1> USE DEF CInv
<1> DEFINE c == Order[next]
<1>0. PICK r \in Runs : Keep(c, r) /\ results' = [results EXCEPT ![c] = Classify(c, r.code, Left(c, r))]
  BY DEF RunCase
<1>1. /\ pc = "suite" /\ next <= Len(Order) /\ Expect[c] # "skip" /\ next' = next + 1
      /\ UNCHANGED <<pc, stop, caught, rcSuite, rcBurst, iter, passes, failedIters>>
  BY DEF RunCase, tallies
<1>2. /\ next \in Nat /\ 1 <= next /\ c \in Case /\ c \in Names /\ c # Burst /\ Burst \in Names
      /\ Case \subseteq Names /\ results \in [Case -> Judgement]
  BY <1>1, TypeParts, Places
<1> HIDE DEF c
<1>3. next' \in 1 .. Max({Len(Order), BURST_COUNT}) + 1
  BY <1>1, <1>2, Places
<1>4. /\ reports' \in [Names -> Report] /\ wrote' \in [Names -> Report]
      /\ wrote'[c] = r.report /\ \A m \in Names \ {c} : wrote'[m] = wrote[m]
      /\ Left(c, r) \in Report
      /\ r.report # None => Left(c, r) = r.report
  BY <1>0, <1>2, KeepTypes
<1>5. /\ Classify(c, r.code, Left(c, r)) \in Judgement
      /\ r.report # None => Classify(c, r.code, Left(c, r)) = Classify(c, 1, r.report)
  <2>1. Classify(c, r.code, Left(c, r)) \in Judgement
    BY <1>2, <1>4, ClassifyTypes
  <2>2. r.code \in {0, 1, 3} => Classify(c, r.code, Left(c, r)) = Classify(c, 1, Left(c, r))
    BY <1>2, <1>4, ClassifyTypes
  <2>3. QED
    BY <1>4, <2>1, <2>2, RunTypes
<1>6. /\ results' \in [Case -> Judgement] /\ \A d \in Case \ {c} : results'[d] = results[d]
      /\ results'[c] = Classify(c, r.code, Left(c, r))
  BY <1>0, <1>2, <1>5
<1>7. TypeOK'
  BY <1>1, <1>3, <1>4, <1>6 DEF TypeOK, Judgement, Report
<1>8. Tallied'
  BY <1>1, SameTally DEF Over, tallies
<1>9. JudgedByItsReport'
  <2> SUFFICES ASSUME NEW d \in Case, wrote'[d] # None
               PROVE  Expect[d] # "skip" /\ results'[d] = Classify(d, 1, wrote'[d])
    BY DEF JudgedByItsReport
  <2>1. CASE d = c
    BY <1>1, <1>4, <1>5, <1>6, <2>1
  <2>2. CASE d # c
    <3>1. wrote'[d] = wrote[d] /\ results'[d] = results[d]
      BY <1>2, <1>4, <1>6, <2>2
    <3>2. QED
      BY <3>1 DEF JudgedByItsReport
  <2>3. QED
    BY <2>1, <2>2
<1>10. SuiteIsItsCases' /\ CatchFails'
  BY <1>1 DEF SuiteIsItsCases, CatchFails
<1>11. BurstIsItsReport'
  BY <1>1, <1>2, <1>4 DEF BurstIsItsReport
<1>12. QED
  BY <1>7, <1>8, <1>9, <1>10, <1>11


\* The end of suite.sh, by itself or by a failure, leaves the judgements as they are.
LEMMA AfterSuiteHolds ==
  ASSUME CInv, pc = "suite", NEW rc \in {0, 1, 124}, AfterSuite(rc),
         UNCHANGED <<stop, reports, results, wrote, caught, tallies>>,
         rc = 0 => SuiteExit(results) = 0
  PROVE  CInv'
<1> USE DEF CInv
<1>1. /\ rcSuite' = rc /\ rcBurst' = 0 /\ next' = 1 /\ pc' \in {"burst", "classify"}
      /\ UNCHANGED <<iter, passes, failedIters>>
  BY DEF AfterSuite, tallies
<1>2. next' \in 1 .. Max({Len(Order), BURST_COUNT}) + 1
  BY <1>1, Places
<1>3. TypeOK'
  BY <1>1, <1>2 DEF TypeOK
<1>4. Tallied'
  BY <1>1, SameTally DEF Over
<1>5. JudgedByItsReport'
  BY DEF JudgedByItsReport
<1>6. SuiteIsItsCases'
  BY <1>1 DEF SuiteIsItsCases
<1>7. BurstIsItsReport' /\ CatchFails'
  BY <1>1 DEF BurstIsItsReport, CatchFails
<1>8. QED
  BY <1>3, <1>4, <1>5, <1>6, <1>7

LEMMA EndSuiteHolds ==
  ASSUME CInv, EndSuite \/ SuiteDies
  PROVE  CInv'
<1>1. CASE EndSuite
  <2>1. SuiteExit(results) \in {0, 1, 124}
    BY DEF SuiteExit
  <2>2. QED
    BY <1>1, <2>1, AfterSuiteHolds DEF EndSuite
<1>2. CASE SuiteDies
  <2>1. PICK rc \in {1, 124} : AfterSuite(rc)
    BY <1>2 DEF SuiteDies
  <2>2. rc \in {0, 1, 124} /\ rc # 0
    OBVIOUS
  <2>3. QED
    BY <1>2, <2>1, <2>2, AfterSuiteHolds DEF SuiteDies
<1>3. QED
  BY <1>1, <1>2

\* A step of the burst phase touches no case.
LEMMA BurstStep ==
  ASSUME CInv, pc = "burst", pc' \in {"burst", "classify"}, rcBurst' \in {0, 1, 124}, caught' \in BOOLEAN,
         UNCHANGED <<stop, results, rcSuite, tallies>>,
         next' \in 1 .. Max({Len(Order), BURST_COUNT}) + 1,
         reports' \in [Names -> Report], wrote' \in [Names -> Report],
         \A c \in Case : wrote'[c] = wrote[c],
         BurstIsItsReport'
  PROVE  CInv'
<1> USE DEF CInv
<1>1. UNCHANGED <<iter, passes, failedIters>>
  BY DEF tallies
<1>2. TypeOK'
  BY <1>1 DEF TypeOK, Report
<1>3. Tallied'
  BY <1>1, SameTally DEF Over
<1>4. JudgedByItsReport'
  BY DEF JudgedByItsReport
<1>5. SuiteIsItsCases' /\ CatchFails'
  BY DEF SuiteIsItsCases, CatchFails
<1>6. QED
  BY <1>2, <1>3, <1>4, <1>5

LEMMA RunBurstHolds ==
  ASSUME CInv, RunBurst
  PROVE  CInv'
<1>t. TypeOK /\ BurstIsItsReport
  BY DEF CInv
<1>1. /\ pc = "burst" /\ next <= BURST_COUNT /\ BURST_COUNT \in Nat
      /\ UNCHANGED <<stop, results, rcSuite, tallies>>
  BY BoundsAssumption DEF RunBurst, MoreBursts
<1>2. /\ next \in Nat /\ 1 <= next /\ Burst \in Names /\ Case \subseteq Names
      /\ (\A c \in Case : c # Burst) /\ rcBurst \in {0, 1, 124} /\ caught \in BOOLEAN
  BY <1>t, TypeParts DEF TypeOK
<1>3. PICK r \in Runs :
        /\ Keep(Burst, r)
        /\ \/ r.code = 0 /\ next' = next + 1 /\ UNCHANGED <<pc, caught, rcBurst>>
           \/ /\ r.code # 0 /\ next' = next
              /\ caught' = Caught(r.code, Left(Burst, r))
              /\ EndBurst(IF caught' THEN 1 ELSE 0)
  BY DEF RunBurst
<1>4. /\ reports' \in [Names -> Report] /\ wrote' \in [Names -> Report]
      /\ wrote'[Burst] = r.report /\ \A m \in Names \ {Burst} : wrote'[m] = wrote[m]
      /\ r.report # None => Left(Burst, r) = r.report
  BY <1>t, <1>2, <1>3, KeepTypes
<1>5. \A c \in Case : wrote'[c] = wrote[c]
  BY <1>2, <1>4
<1>6. CASE r.code = 0
  <2>1. next' = next + 1 /\ pc' = "burst" /\ rcBurst' = rcBurst /\ caught' = caught
    BY <1>1, <1>3, <1>6
  <2>2. next' # 1 /\ next' \in 1 .. Max({Len(Order), BURST_COUNT}) + 1
    BY <1>1, <1>2, <2>1, Places
  <2>3. BurstIsItsReport'
    BY <1>t, <1>1, <1>4, <1>6, <2>1, <2>2, RunTypes DEF BurstIsItsReport
  <2>4. QED
    BY <1>1, <1>2, <1>4, <1>5, <2>1, <2>2, <2>3, BurstStep
<1>7. CASE r.code # 0
  <2>1. /\ next' = next /\ pc' = "classify" /\ caught' = Caught(r.code, Left(Burst, r))
        /\ rcBurst' = IF caught' THEN 1 ELSE 0
    BY <1>3, <1>7 DEF EndBurst
  <2>2. next' \in 1 .. Max({Len(Order), BURST_COUNT}) + 1 /\ rcBurst' \in {0, 1, 124}
        /\ caught' \in BOOLEAN
    BY <1>1, <1>2, <2>1, Places DEF Caught
  <2>3. /\ wrote'[Burst] = "failed" => caught' /\ rcBurst' = 1
        /\ caught' => wrote'[Burst] \in {"failed", None}
    BY <1>4, <2>1, RunTypes DEF Caught, None
  <2>4. BurstIsItsReport'
    BY <2>1, <2>3 DEF BurstIsItsReport
  <2>5. QED
    BY <1>1, <1>4, <1>5, <2>1, <2>2, <2>4, BurstStep
<1>8. QED
  BY <1>6, <1>7

LEMMA EndBurstHolds ==
  ASSUME CInv, BurstsDone \/ BurstTimeout \/ BurstDies
  PROVE  CInv'
<1>1. /\ pc = "burst" /\ pc' = "classify" /\ rcBurst' \in {0, 1, 124}
      /\ UNCHANGED <<stop, reports, next, results, wrote, caught, rcSuite, tallies>>
  BY DEF BurstsDone, BurstTimeout, BurstDies, EndBurst
<1>2. /\ TypeOK /\ BurstIsItsReport
      /\ next \in 1 .. Max({Len(Order), BURST_COUNT}) + 1 /\ caught \in BOOLEAN
      /\ reports \in [Names -> Report] /\ wrote \in [Names -> Report]
  BY DEF CInv, TypeOK, Report
<1>3. BurstIsItsReport'
  BY <1>1, <1>2 DEF BurstIsItsReport
<1>4. QED
  BY <1>1, <1>2, <1>3, BurstStep

\* The iteration under way enters the tally, on one side of it.
LEMMA EndIterationHolds ==
  ASSUME CInv, EndIteration
  PROVE  CInv'
<1> USE DEF CInv
<1>1. /\ pc = "classify" /\ pc' \in {"loop", "stopped"}
      /\ UNCHANGED <<stop, reports, next, results, wrote, caught, rcSuite, rcBurst, iter>>
      /\ \/ Passed(rcSuite, rcBurst) /\ passes' = passes + 1 /\ failedIters' = failedIters
         \/ ~Passed(rcSuite, rcBurst) /\ passes' = passes /\ failedIters' = failedIters \cup {iter}
  BY DEF EndIteration
<1>2. /\ iter \in Nat /\ passes \in Nat /\ iter - 1 \in Nat /\ failedIters \subseteq 1 .. iter - 1
      /\ passes + Cardinality(failedIters) = iter - 1
  BY <1>1, TypeParts DEF Tallied, Over
<1>3. IsFiniteSet(failedIters) /\ Cardinality(failedIters) \in Nat /\ iter \notin failedIters
  <2>1. IsFiniteSet(1 .. iter - 1)
    BY <1>2, FS_Interval
  <2>2. IsFiniteSet(failedIters)
    BY <1>2, <2>1, FS_Subset
  <2>3. iter \notin 1 .. iter - 1
    BY <1>2
  <2>4. QED
    BY <1>2, <2>2, <2>3, FS_CardinalityType
<1>4. Cardinality(failedIters \cup {iter}) = Cardinality(failedIters) + 1
  BY <1>3, FS_AddElement
<1>5. passes' + Cardinality(failedIters') = iter /\ passes' \in 0 .. iter /\ failedIters' \subseteq 1 .. iter
  <2>1. CASE Passed(rcSuite, rcBurst)
    <3>1. passes' = passes + 1 /\ failedIters' = failedIters
      BY <1>1, <2>1
    <3>2. (passes + 1) + Cardinality(failedIters) = iter /\ passes + 1 \in 0 .. iter
      BY <1>2, <1>3
    <3>3. failedIters \subseteq 1 .. iter
      BY <1>2
    <3>4. QED
      BY <3>1, <3>2, <3>3
  <2>2. CASE ~Passed(rcSuite, rcBurst)
    <3>1. passes' = passes /\ failedIters' = failedIters \cup {iter}
      BY <1>1, <2>2
    <3>2. passes + (Cardinality(failedIters) + 1) = iter
      BY <1>2, <1>3
    <3>3. passes \in 0 .. iter /\ failedIters \cup {iter} \subseteq 1 .. iter
      BY <1>2, <1>3
    <3>4. QED
      BY <1>4, <3>1, <3>2, <3>3
  <2>3. QED
    BY <2>1, <2>2
<1>6. TypeOK'
  BY <1>1, <1>5 DEF TypeOK
<1>7. Tallied'
  BY <1>1, <1>2, <1>5 DEF Tallied, Over
<1>8. JudgedByItsReport' /\ SuiteIsItsCases' /\ BurstIsItsReport'
  BY <1>1 DEF JudgedByItsReport, SuiteIsItsCases, BurstIsItsReport
<1>9. CatchFails'
  BY <1>1 DEF CatchFails, Passed
<1>10. QED
  BY <1>6, <1>7, <1>8, <1>9

LEMMA InterruptHolds ==
  ASSUME CInv, Interrupt
  PROVE  CInv'
<1> USE DEF CInv
<1>1. /\ pc \in {"loop", "suite", "burst"} /\ stop' = TRUE
      /\ pc' = IF pc = "loop" THEN "stopped" ELSE pc
      /\ UNCHANGED <<reports, next, results, wrote, caught, rcSuite, rcBurst, iter, passes, failedIters>>
  BY DEF Interrupt, tallies
<1>2. TypeOK'
  BY <1>1 DEF TypeOK
<1>3. Tallied'
  BY <1>1, SameTally DEF Over, tallies
<1>4. JudgedByItsReport' /\ SuiteIsItsCases' /\ BurstIsItsReport' /\ CatchFails'
  BY <1>1 DEF JudgedByItsReport, SuiteIsItsCases, BurstIsItsReport, CatchFails
<1>5. QED
  BY <1>2, <1>3, <1>4

\* Every step keeps the invariant.
LEMMA StepHolds ==
  ASSUME CInv, [Next]_vars
  PROVE  CInv'
<1>1. CASE UNCHANGED vars
  BY <1>1 DEF vars, CInv, TypeOK, Tallied, Over, JudgedByItsReport, SuiteIsItsCases, BurstIsItsReport, CatchFails
<1>2. QED
  BY <1>1, StartIterationHolds, SkipCaseHolds, RunCaseHolds, EndSuiteHolds, RunBurstHolds, EndBurstHolds,
     EndIterationHolds, InterruptHolds DEF Next, Stopped

-----------------------------------------------------------------------------
(* The theorems                                                            *)

\* A suite that exits with 0 after a case's report has a report that agrees with what
\* the case is expected to do.
LEMMA ExitZero ==
  ASSUME CInv, SuiteExit(results) = 0, NEW c \in Case, wrote[c] # None
  PROVE  \/ wrote[c] = "conclusivePass" /\ (Expect[c] = "pass" \/ ~STRICT_XPASS)
         \/ wrote[c] = "failed" /\ Expect[c] = "xfail"
<1>1. results[c] \notin {"FAIL", "ERROR"} /\ (STRICT_XPASS => results[c] # "XPASS")
  BY DEF SuiteExit
<1>2. Expect[c] # "skip" /\ results[c] = Classify(c, 1, wrote[c])
  BY DEF CInv, JudgedByItsReport
<1>3. Expect[c] \in {"pass", "xfail", "skip"}
  BY CasesAssumption
<1>4. CASE Expect[c] = "pass"
  BY <1>1, <1>2, <1>4 DEF Classify
<1>5. CASE Expect[c] = "xfail"
  <2>1. results[c] = CASE wrote[c] = "conclusivePass" -> "XPASS"
                       [] wrote[c] = "failed" -> "xfail"
                       [] OTHER -> "ERROR"
    BY <1>2, <1>5 DEF Classify
  <2>2. wrote[c] = "conclusivePass" \/ wrote[c] = "failed"
    BY <1>1, <2>1
  <2>3. wrote[c] = "conclusivePass" => results[c] = "XPASS"
    BY <2>1
  <2>4. QED
    BY <1>1, <1>5, <2>2, <2>3
<1>6. QED
  BY <1>2, <1>3, <1>4, <1>5

\* The scripts' state is well typed: in particular the tally never counts an iteration
\* that has not begun.
THEOREM CampaignTypes == Spec => []TypeOK
<1>1. Init => CInv
  BY InitHolds
<1>2. CInv /\ [Next]_vars => CInv'
  BY StepHolds
<1>3. CInv => TypeOK
  BY DEF CInv
<1>4. QED
  BY <1>1, <1>2, <1>3, PTL DEF Spec

\* weekend-loop.sh tallies every iteration once, a caught burst as a failure, and
\* neither a suite's exit code nor a catch contradicts a report of the iteration, and a
\* failed report of a burst is a catch: for any cases, expectations and number of bursts, and whatever earlier iterations left
\* in RESULTS_DIR.
THEOREM TallyIsTrue == Spec => []TallyFitsReports
<1>1. Init => CInv
  BY InitHolds
<1>2. CInv /\ [Next]_vars => CInv'
  BY StepHolds
<1>3. CInv => TallyFitsReports
  <2> SUFFICES ASSUME CInv PROVE TallyFitsReports
    OBVIOUS
  <2>1. passes + Cardinality(failedIters) = IF pc \in {"loop", "stopped"} THEN iter ELSE iter - 1
    BY DEF CInv, Tallied, Over
  <2>2. pc \in {"loop", "stopped"} /\ iter > 0 /\ rcBurst = 1 => iter \in failedIters
    BY DEF CInv, CatchFails
  <2>3. ASSUME pc = "classify", rcSuite = 0, NEW c \in Case, wrote[c] # None
        PROVE  \/ wrote[c] = "conclusivePass" /\ (Expect[c] = "pass" \/ ~STRICT_XPASS)
               \/ wrote[c] = "failed" /\ Expect[c] = "xfail"
    <3>1. SuiteExit(results) = 0
      BY <2>3 DEF CInv, SuiteIsItsCases
    <3>2. QED
      BY <2>3, <3>1, ExitZero
  <2>4. pc = "classify" => /\ wrote[Burst] = "failed" => caught /\ rcBurst = 1
                           /\ caught => wrote[Burst] \in {"failed", None}
    BY DEF CInv, BurstIsItsReport
  <2>5. QED
    BY <2>1, <2>2, <2>3, <2>4 DEF TallyFitsReports
<1>4. QED
  BY <1>1, <1>2, <1>3, PTL DEF Spec

-----------------------------------------------------------------------------
(* Transactions: the invariant                                             *)

Busy(w) == txn[w].step # "idle"
Whole(op) == Batch(op) \subseteq stored
Absent(op) == \A d \in Batch(op) : d \notin stored

(* A busy worker holds an operation of its own that has no outcome yet, and an
   operation without an outcome is held by some worker or not begun. *)
OwnOperation(w) == Busy(w) => txn[w].op \in 1 .. attempts /\ outcomes[txn[w].op] = "unrecorded"
HeldOnce ==
  /\ \A w \in Workers : OwnOperation(w) /\ (~Busy(w) => txn[w] = Idle)
  /\ \A v, w \in Workers : Busy(v) /\ Busy(w) /\ txn[v].op = txn[w].op => v = w
NoneForgotten ==
  \A op \in Operations : /\ op > attempts => outcomes[op] = "unrecorded"
                         /\ op <= attempts /\ outcomes[op] = "unrecorded" =>
                              \E w \in Workers : Busy(w) /\ txn[w].op = op

(* What a correct server holds: every batch whole or not at all, an acknowledged one
   whole, a rejected one not at all; so does the worker that is about to say so, and
   one that has not committed has left nothing. Nor does it hold any other document. *)
Fits(op, kind) == (kind = "matched" => Whole(op)) /\ (kind = "rejected" => Absent(op))
FitsWorker(t) ==
  /\ Fits(t.op, t.step)
  /\ t.step = "insert" => ~t.committed /\ Absent(t.op)
  /\ t.step = "commit" => IF t.committed THEN Whole(t.op) ELSE Absent(t.op)
ServerCorrect ==
  defect = "none" =>
    /\ \A op \in 1 .. attempts : (Whole(op) \/ Absent(op)) /\ Fits(op, outcomes[op])
    /\ \A w \in Workers : Busy(w) => FitsWorker(txn[w])

NoStray == invalid \in Nat /\ (defect = "none" => invalid = 0)

(* Verify is the last step, taken when no worker is busy. *)
AfterVerify == Verified => TransactionsJudgedRight /\ \A w \in Workers : ~Busy(w)

TInv == TxnTypeOK /\ HeldOnce /\ NoneForgotten /\ ServerCorrect /\ NoStray /\ AfterVerify

-----------------------------------------------------------------------------
(* Types                                                                   *)

Step == {"idle", "insert", "commit"} \cup Kinds
Txn == [op : 0 .. MaxOperations, staged : 0 .. transactionBatchSize, step : Step,
        committed : BOOLEAN]

(* The step is w's: the other workers' transactions stay. *)
OnlyWorker(w) ==
  txn' \in [Workers -> Txn] /\ \A v \in Workers : v # w => txn'[v] = txn[v]

LEMMA BatchIs == \A op : Batch(op) = {<<op, 0>>, <<op, 1>>}
BY DEF Batch, Members, transactionBatchSize

LEMMA InBatches ==
  ASSUME NEW n \in Nat, NEW op \in 1 .. n
  PROVE  Batch(op) \subseteq UNION {Batch(o) : o \in 1 .. n}
OBVIOUS

(* What a step of one worker leaves of the types: it may store a part of its batch. *)
LEMMA WorkerTypes ==
  ASSUME TxnTypeOK, NEW w \in Workers, NEW t \in Txn,
         t.step = "insert" => t.staged < transactionBatchSize,
         OnlyWorker(w), txn'[w] = t,
         attempts' \in attempts .. MaxOperations,
         stored' \subseteq AllBatches \cup Batch(t.op), t.op \in 0 .. attempts',
         t.op = 0 => stored' = stored,
         outcomes' \in [Operations -> Kinds], invalid' \in Nat,
         faults' \in 0 .. MaxFaults, UNCHANGED <<defect, passed, cancelled>>
  PROVE  TxnTypeOK'
<1>1. attempts \in Nat /\ attempts' \in Nat /\ attempts <= attempts' /\ attempts' \in 0 .. MaxOperations
  BY LimitsAssumption DEF TxnTypeOK
<1>2. stored' \subseteq AllBatches'
  <2>1. AllBatches \subseteq AllBatches'
    BY <1>1 DEF AllBatches, Batch
  <2>2. CASE t.op = 0
    BY <2>1, <2>2 DEF TxnTypeOK
  <2>3. CASE t.op # 0
    <3>1. t.op \in 1 .. attempts'
      BY <1>1, <2>3
    <3>2. Batch(t.op) \subseteq UNION {Batch(o) : o \in 1 .. attempts'}
      BY <1>1, <3>1, InBatches
    <3> QED BY <2>1, <3>2 DEF AllBatches, Batch
  <2> QED BY <2>2, <2>3
<1>3. txn' \in [Workers -> Txn]
  BY DEF OnlyWorker
<1>4. \A v \in Workers : txn'[v].step = "insert" => txn'[v].staged < transactionBatchSize
  BY DEF TxnTypeOK, OnlyWorker
<1> QED
  BY <1>1, <1>2, <1>3, <1>4 DEF TxnTypeOK, Txn, Step, Verified, AllChecks

LEMMA TxnInitHolds == TxnInit => TInv
<1> SUFFICES ASSUME TxnInit PROVE TInv
  OBVIOUS
<1>0. attempts = 0 /\ MaxOperations \in Nat /\ MaxFaults \in Nat
  BY LimitsAssumption DEF TxnInit
<1>1. TxnTypeOK
  <2>1. Idle \in Txn /\ Idle.step = "idle"
    BY <1>0 DEF Idle, Txn, Step, transactionBatchSize
  <2>2. txn \in [Workers -> Txn] /\ \A w \in Workers : txn[w].step = "idle"
    BY <2>1 DEF TxnInit
  <2>3. outcomes \in [Operations -> Kinds]
    BY DEF TxnInit, Kinds
  <2>4. defect \in Defects /\ stored = {} /\ invalid = 0 /\ ~Verified /\ cancelled = FALSE /\ faults = 0
    BY DEF TxnInit, Verified
  <2>5. attempts \in 0 .. MaxOperations /\ faults \in 0 .. MaxFaults
    BY <1>0, <2>4
  <2>6. \A w \in Workers : txn[w].step # "insert"
    BY <2>2
  <2> QED BY <2>2, <2>3, <2>4, <2>5, <2>6 DEF TxnTypeOK, Txn, Step
<1>2. HeldOnce /\ AfterVerify /\ NoStray
  BY DEF TxnInit, NoStray, HeldOnce, OwnOperation, Busy, Idle, AfterVerify, Verified
<1>3. NoneForgotten
  <2>1. \A op \in Operations : outcomes[op] = "unrecorded"
    BY DEF TxnInit
  <2>2. \A op \in Operations : ~(op <= attempts)
    BY <1>0 DEF Operations
  <2> QED BY <2>1, <2>2 DEF NoneForgotten
<1>4. ServerCorrect
  <2>1. \A w \in Workers : ~Busy(w)
    BY DEF TxnInit, Busy, Idle
  <2>2. 1 .. attempts = {}
    BY <1>0
  <2> QED BY <2>1, <2>2 DEF ServerCorrect
<1> QED BY <1>1, <1>2, <1>3, <1>4 DEF TInv


-----------------------------------------------------------------------------
(* Steps of one worker                                                     *)

(* A step that gives worker w the state t, stores part of its batch or nothing, and
   records no outcome keeps what is said of the others. *)
LEMMA OthersKeep ==
  ASSUME TInv, NEW w \in Workers, Busy(w), NEW t \in Txn, t.op = txn[w].op, t.step # "idle",
         OnlyWorker(w), txn'[w] = t, UNCHANGED <<attempts, outcomes, defect>>
  PROVE  /\ HeldOnce' /\ NoneForgotten'
         /\ t.op \in 1 .. attempts
<1>2. txn'[w] = t /\ \A v \in Workers : v # w => txn'[v] = txn[v]
  BY DEF OnlyWorker
<1>3. \A v \in Workers : (Busy(v)' <=> Busy(v)) /\ txn'[v].op = txn[v].op
  BY <1>2 DEF Busy
<1>4. HeldOnce'
  <2>1. \A v \in Workers : OwnOperation(v)'
    BY <1>3 DEF TInv, HeldOnce, OwnOperation
  <2>2. \A v \in Workers : ~Busy(v)' => txn'[v] = Idle
    BY <1>2, <1>3 DEF TInv, HeldOnce
  <2>3. \A u, v \in Workers : Busy(u)' /\ Busy(v)' /\ txn'[u].op = txn'[v].op => u = v
    BY <1>3 DEF TInv, HeldOnce
  <2> QED BY <2>1, <2>2, <2>3 DEF HeldOnce
<1>5. NoneForgotten'
  BY <1>3 DEF TInv, NoneForgotten
<1>6. t.op \in 1 .. attempts
  BY DEF TInv, HeldOnce, OwnOperation
<1> QED BY <1>4, <1>5, <1>6

(* On a correct server such a step changes the batch of w's operation only. *)
LEMMA ServerKeeps ==
  ASSUME TInv, NEW w \in Workers, Busy(w), NEW t \in Txn, t.op = txn[w].op, t.step # "idle",
         OnlyWorker(w), txn'[w] = t, UNCHANGED <<attempts, outcomes, defect>>,
         defect = "none",
         stored' = stored \/ stored' = stored \cup Batch(t.op),
         FitsWorker(t)'
  PROVE  ServerCorrect'
<1>2. txn'[w] = t /\ \A v \in Workers : v # w => txn'[v] = txn[v]
  BY DEF OnlyWorker
<1>3. t.op \in 1 .. attempts /\ outcomes[t.op] = "unrecorded"
  BY DEF TInv, HeldOnce, OwnOperation
<1>4. \A op : op # t.op => (Whole(op)' <=> Whole(op)) /\ (Absent(op)' <=> Absent(op))
  BY BatchIs DEF Whole, Absent, Batch
<1>5. Whole(t.op)' \/ Absent(t.op)'
  <2>1. CASE stored' = stored
    BY <1>3, <2>1 DEF TInv, ServerCorrect, Whole, Absent, Batch
  <2>2. CASE stored' = stored \cup Batch(t.op)
    BY <2>2 DEF Whole, Batch
  <2> QED BY <2>1, <2>2
<1>6. \A op \in 1 .. attempts' : (Whole(op)' \/ Absent(op)') /\ Fits(op, outcomes[op])'
  BY <1>3, <1>4, <1>5 DEF TInv, ServerCorrect, Fits
<1>7. \A v \in Workers : Busy(v)' => FitsWorker(txn[v])'
  <2>1. ASSUME NEW v \in Workers, v # w, Busy(v)' PROVE FitsWorker(txn[v])'
    <3>1. txn'[v] = txn[v] /\ Busy(v)
      BY <1>2, <2>1 DEF Busy
    <3>2. txn[v].op # t.op
      BY <2>1, <3>1 DEF TInv, HeldOnce
    <3>3. FitsWorker(txn[v])
      BY <3>1 DEF TInv, ServerCorrect
    <3> QED BY <1>4, <3>1, <3>2, <3>3 DEF FitsWorker, Fits
  <2>2. FitsWorker(txn[w])'
    BY <1>2 DEF FitsWorker, Fits
  <2> QED BY <2>1, <2>2
<1> QED BY <1>6, <1>7 DEF ServerCorrect

(* A busy worker has not been verified. *)
LEMMA NotVerified ==
  ASSUME TInv, NEW w \in Workers, Busy(w), UNCHANGED passed
  PROVE  ~Verified /\ AfterVerify'
BY DEF TInv, AfterVerify, Verified


LEMMA BeginHolds ==
  ASSUME TInv, NEW w \in Workers, Begin(w)
  PROVE  TInv'
<1> DEFINE t == [op |-> attempts + 1, step |-> "insert", staged |-> 0, committed |-> FALSE]
<1>a. attempts \in Nat /\ attempts' = attempts + 1
  BY LimitsAssumption DEF TInv, TxnTypeOK, Begin
<1>0. /\ attempts \in Nat /\ attempts' \in Nat /\ attempts' = attempts + 1
      /\ MaxOperations \in Nat /\ attempts + 1 \in Operations /\ attempts + 1 > attempts
  BY LimitsAssumption DEF TInv, TxnTypeOK, Begin, Operations
<1>1. /\ txn' = [txn EXCEPT ![w] = t] /\ ~Busy(w) /\ ~Verified
      /\ UNCHANGED <<defect, stored, invalid, outcomes, passed, cancelled, faults>>
  BY <1>a DEF Begin, Busy, Verified
<1>2. t \in Txn /\ txn \in [Workers -> Txn]
  BY <1>0, LimitsAssumption DEF TInv, TxnTypeOK, Txn, Step, transactionBatchSize, Operations
<1> HIDE DEF t
<1>3. t.op = attempts + 1 /\ t.step = "insert" /\ t.staged = 0 /\ ~t.committed
  BY DEF t
<1>4. txn'[w] = t /\ \A v \in Workers : v # w => txn'[v] = txn[v]
  BY <1>1, <1>2
<1>5. TxnTypeOK'
  <2>1. attempts' \in attempts .. MaxOperations /\ t.op \in 0 .. attempts' /\ t.op # 0
    BY <1>0, <1>3 DEF Operations
  <2>2. stored' \subseteq AllBatches \cup Batch(t.op) /\ outcomes' \in [Operations -> Kinds]
        /\ faults' \in 0 .. MaxFaults /\ invalid' \in Nat
    BY <1>1 DEF TInv, TxnTypeOK
  <2>3. t.staged < transactionBatchSize
    BY <1>3 DEF transactionBatchSize
  <2>4. OnlyWorker(w) /\ txn'[w] = t
    BY <1>1, <1>2, <1>4 DEF OnlyWorker
  <2> QED BY <1>1, <1>2, <2>1, <2>2, <2>3, <2>4, WorkerTypes DEF TInv
<1>6. outcomes[attempts + 1] = "unrecorded"
  BY <1>0 DEF TInv, NoneForgotten
<1>7. \A v \in Workers : Busy(v) => v # w /\ Busy(v)' /\ txn[v].op \in 1 .. attempts
  BY <1>1, <1>4 DEF TInv, HeldOnce, OwnOperation, Busy
<1>8. \A v \in Workers : Busy(v)' /\ v # w => Busy(v)
  BY <1>4 DEF Busy
<1>9. HeldOnce'
  <2>1. \A v \in Workers : OwnOperation(v)'
    <3>1. ASSUME NEW v \in Workers, v # w, Busy(v)' PROVE OwnOperation(v)'
      <4>1. txn[v].op \in 1 .. attempts /\ outcomes[txn[v].op] = "unrecorded"
        BY <1>8, <3>1 DEF TInv, HeldOnce, OwnOperation
      <4>2. txn[v].op \in 1 .. attempts'
        BY <1>a, <4>1
      <4> QED BY <1>1, <1>4, <3>1, <4>1, <4>2 DEF OwnOperation
    <3>2. OwnOperation(w)'
      <4>1. t.op \in 1 .. attempts'
        BY <1>0, <1>3
      <4>2. outcomes'[t.op] = "unrecorded"
        BY <1>1, <1>3, <1>6
      <4> QED BY <1>4, <4>1, <4>2 DEF OwnOperation
    <3> QED BY <3>1, <3>2 DEF OwnOperation
  <2>2. \A v \in Workers : ~Busy(v)' => txn'[v] = Idle
    BY <1>3, <1>4 DEF TInv, HeldOnce, Busy
  <2>3. \A v \in Workers : v # w /\ Busy(v)' => txn'[v].op # txn'[w].op
    BY <1>0, <1>3, <1>4, <1>7, <1>8
  <2>4. \A u, v \in Workers : u # w /\ v # w /\ Busy(u)' /\ Busy(v)' /\ txn'[u].op = txn'[v].op => u = v
    BY <1>4, <1>8 DEF TInv, HeldOnce
  <2> QED BY <2>1, <2>2, <2>3, <2>4 DEF HeldOnce
<1>10. NoneForgotten'
  <2>1. \A op \in Operations : op > attempts' => outcomes'[op] = "unrecorded"
    <3>1. \A op \in Operations : op > attempts' => op > attempts
      BY <1>0 DEF Operations
    <3> QED BY <1>1, <3>1 DEF TInv, NoneForgotten
  <2>2. ASSUME NEW op \in Operations, op <= attempts', outcomes'[op] = "unrecorded"
        PROVE  \E v \in Workers : Busy(v)' /\ txn'[v].op = op
    <3>1. CASE op = attempts + 1
      BY <1>3, <1>4, <3>1 DEF Busy
    <3>2. CASE op <= attempts
      <4>1. PICK v \in Workers : Busy(v) /\ txn[v].op = op
        BY <1>1, <2>2, <3>2 DEF TInv, NoneForgotten
      <4> QED BY <1>4, <1>7, <4>1
    <3>3. op \in Int
      BY LimitsAssumption DEF Operations
    <3> QED BY <1>a, <2>2, <3>1, <3>2, <3>3
  <2> QED BY <2>1, <2>2 DEF NoneForgotten
<1>11. ServerCorrect'
  <2> SUFFICES ASSUME defect' = "none"
               PROVE  /\ \A op \in 1 .. attempts' : (Whole(op)' \/ Absent(op)') /\ Fits(op, outcomes[op])'
                      /\ \A v \in Workers : Busy(v)' => FitsWorker(txn[v])'
    BY DEF ServerCorrect
  <2>1. \A op : (Whole(op)' <=> Whole(op)) /\ (Absent(op)' <=> Absent(op))
    BY <1>1 DEF Whole, Absent, Batch
  <2>2. Absent(attempts + 1)
    <3>1. ASSUME NEW d \in Batch(attempts + 1), d \in stored PROVE FALSE
      <4>1. d[1] = attempts + 1
        BY BatchIs
      <4>2. PICK op \in 1 .. attempts : d \in Batch(op)
        BY <3>1 DEF TInv, TxnTypeOK, AllBatches
      <4>3. d[1] = op
        BY <4>2, BatchIs
      <4> QED BY <1>0, <4>1, <4>3
    <3> QED BY <3>1 DEF Absent
  <2>3. \A op \in 1 .. attempts' : (Whole(op) \/ Absent(op)) /\ Fits(op, outcomes[op])
    <3>1. Fits(attempts + 1, outcomes[attempts + 1])
      BY <1>6 DEF Fits
    <3>2. \A op \in 1 .. attempts' : op \in 1 .. attempts \/ op = attempts + 1
      BY <1>0
    <3> QED BY <1>1, <2>2, <3>1, <3>2 DEF TInv, ServerCorrect
  <2>4. \A v \in Workers : Busy(v)' => FitsWorker(txn[v])'
    <3>1. ASSUME NEW v \in Workers, v # w, Busy(v)' PROVE FitsWorker(txn[v])'
      <4>1. FitsWorker(txn[v]) /\ txn'[v] = txn[v]
        BY <1>1, <1>4, <1>8, <3>1 DEF TInv, ServerCorrect
      <4> QED BY <2>1, <4>1 DEF FitsWorker, Fits
    <3>2. FitsWorker(txn[w])'
      BY <1>3, <1>4, <2>1, <2>2 DEF FitsWorker, Fits
    <3> QED BY <3>1, <3>2
  <2> QED BY <1>1, <2>1, <2>3, <2>4 DEF Fits
<1>12. AfterVerify' /\ NoStray'
  BY <1>1 DEF TInv, NoStray, AfterVerify, Verified
<1> QED BY <1>5, <1>9, <1>10, <1>11, <1>12 DEF TInv


(* A step of a busy worker that stays busy keeps the invariant when it stores
   nothing but documents of its batch, and on a correct server what the worker's new
   state says of that batch is true. *)
LEMMA WorkerStep ==
  ASSUME TInv, NEW w \in Workers, Busy(w), OnlyWorker(w),
         txn'[w].op = txn[w].op, txn'[w].step # "idle",
         txn'[w].step = "insert" => txn'[w].staged < transactionBatchSize,
         UNCHANGED <<attempts, outcomes, defect, passed, cancelled>>, faults' \in 0 .. MaxFaults,
         NoStray', stored' \subseteq stored \cup Batch(txn[w].op),
         defect = "none" => /\ stored' = stored \/ stored' = stored \cup Batch(txn[w].op)
                            /\ FitsWorker(txn[w])'
  PROVE  TInv'
<1> DEFINE t == txn'[w]
<1>1. t \in Txn /\ t.op = txn[w].op /\ t.step # "idle"
  BY DEF OnlyWorker
<1> HIDE DEF t
<1>3. HeldOnce' /\ NoneForgotten' /\ t.op \in 1 .. attempts
  BY <1>1, OthersKeep DEF t
<1>4. TxnTypeOK'
  <2>1. attempts \in Nat /\ attempts' \in attempts .. MaxOperations
    BY LimitsAssumption DEF TInv, TxnTypeOK
  <2>2. t.op \in 0 .. attempts' /\ t.op # 0
    BY <1>3, <2>1
  <2>3. stored' \subseteq AllBatches \cup Batch(t.op) /\ outcomes' \in [Operations -> Kinds]
        /\ invalid' \in Nat
    BY <1>1 DEF TInv, TxnTypeOK, NoStray
  <2>4. t.step = "insert" => t.staged < transactionBatchSize
    BY DEF t
  <2> QED BY <1>1, <2>1, <2>2, <2>3, <2>4, WorkerTypes DEF TInv, t
<1>5. ServerCorrect'
  <2>1. CASE defect # "none"
    BY <2>1 DEF ServerCorrect
  <2>2. CASE defect = "none"
    BY <1>1, <2>2, ServerKeeps DEF t
  <2> QED BY <2>1, <2>2
<1>6. AfterVerify'
  BY NotVerified
<1> QED BY <1>3, <1>4, <1>5, <1>6 DEF TInv

(* What the steps below read of a busy worker's state *)
LEMMA WorkerFacts ==
  ASSUME TInv, NEW w \in Workers
  PROVE  /\ txn \in [Workers -> Txn]
         /\ txn[w].op \in 0 .. MaxOperations /\ txn[w].staged \in {0, 1, 2}
         /\ txn[w].step \in Step /\ txn[w].committed \in BOOLEAN
         /\ txn[w].step = "insert" => txn[w].staged \in {0, 1}
         /\ faults \in 0 .. MaxFaults
         /\ defect = "none" /\ Busy(w) => FitsWorker(txn[w])
<1>1. txn \in [Workers -> Txn]
  BY DEF TInv, TxnTypeOK, Txn, Step
<1>2. 0 .. transactionBatchSize = {0, 1, 2}
  BY DEF transactionBatchSize
<1>3. txn[w] \in Txn
  BY <1>1
<1>4. txn[w].staged \in {0, 1, 2}
  BY <1>2, <1>3 DEF Txn
<1>5. txn[w].step = "insert" => txn[w].staged \in {0, 1}
  BY <1>4 DEF TInv, TxnTypeOK, transactionBatchSize
<1> QED BY <1>1, <1>3, <1>4, <1>5 DEF TInv, TxnTypeOK, ServerCorrect, Txn

LEMMA SameFit ==
  ASSUME stored' = stored, NEW op
  PROVE  (Whole(op)' <=> Whole(op)) /\ (Absent(op)' <=> Absent(op))
BY DEF Whole, Absent, Batch

LEMMA InsertHolds ==
  ASSUME TInv, NEW w \in Workers, InsertOne(w)
  PROVE  TInv'
<1>1. txn \in [Workers -> Txn] /\ txn[w].step = "insert" /\ Busy(w)
  BY WorkerFacts DEF InsertOne, Busy
<1>2. txn[w].staged \in {0, 1} /\ faults \in 0 .. MaxFaults
  BY <1>1, WorkerFacts
<1> DEFINE s == IF txn[w].staged + 1 = transactionBatchSize THEN "commit" ELSE "insert"
<1>3. txn' = [txn EXCEPT ![w].staged = txn[w].staged + 1, ![w].step = s]
  BY DEF InsertOne
<1>4. s \in {"commit", "insert"} /\ (s = "insert" => txn[w].staged + 1 < transactionBatchSize)
      /\ txn[w].staged + 1 \in 0 .. transactionBatchSize
  BY <1>2 DEF transactionBatchSize
<1> HIDE DEF s
<1>5. /\ OnlyWorker(w) /\ txn'[w].op = txn[w].op /\ txn'[w].committed = txn[w].committed
      /\ txn'[w].staged = txn[w].staged + 1 /\ txn'[w].step = s
  BY <1>1, <1>3, <1>4 DEF OnlyWorker, Txn, Step
<1>6. defect = "none" => FitsWorker(txn[w])'
  <2> SUFFICES ASSUME defect = "none" PROVE FitsWorker(txn[w])'
    OBVIOUS
  <2>1. ~txn[w].committed /\ Absent(txn[w].op)
    BY <1>1, WorkerFacts DEF FitsWorker
  <2>2. Absent(txn[w].op)'
    BY <2>1, SameFit, <1>5 DEF InsertOne, Absent
  <2> QED BY <1>4, <1>5, <2>1, <2>2 DEF FitsWorker, Fits, Absent
<1>7. UNCHANGED <<defect, attempts, stored, outcomes, passed, cancelled, faults>> /\ NoStray'
  BY DEF InsertOne, TInv, NoStray
<1> QED BY <1>1, <1>2, <1>4, <1>5, <1>6, <1>7, WorkerStep


LEMMA AbortsHolds ==
  ASSUME TInv, NEW w \in Workers, Aborts(w)
  PROVE  TInv'
<1>1. /\ txn \in [Workers -> Txn] /\ txn[w].step \in {"insert", "commit"} /\ Busy(w)
      /\ ~txn[w].committed /\ faults' \in 0 .. MaxFaults
      /\ UNCHANGED <<defect, attempts, outcomes, passed, cancelled>>
  BY WorkerFacts, LimitsAssumption DEF Aborts, Busy, Fault
<1>2. /\ OnlyWorker(w) /\ txn'[w].op = txn[w].op /\ ~txn'[w].committed
      /\ txn'[w].step \in {"insert", "rejected"} /\ (txn'[w].step = "insert" => txn'[w].staged = 0)
  <2>1. CASE txn' = [txn EXCEPT ![w].step = "insert", ![w].staged = 0]
    <3>1. 0 \in 0 .. transactionBatchSize
      BY DEF transactionBatchSize
    <3>2. OnlyWorker(w)
      BY <1>1, <2>1, <3>1 DEF OnlyWorker, Txn, Step
    <3> QED BY <1>1, <2>1, <3>2 DEF Txn
  <2>2. CASE RecordIn(w, "rejected")
    BY <1>1, <2>2 DEF OnlyWorker, RecordIn, Txn, Step, Kinds
  <2> QED BY <2>1, <2>2 DEF Aborts
<1>3. stored' \subseteq stored \cup Batch(txn[w].op) /\ NoStray'
  BY BatchIs DEF Aborts, TInv, NoStray
<1>4. defect = "none" => stored' = stored /\ FitsWorker(txn[w])'
  <2> SUFFICES ASSUME defect = "none" PROVE stored' = stored /\ FitsWorker(txn[w])'
    OBVIOUS
  <2>1. stored' = stored
    BY DEF Aborts
  <2>2. Absent(txn[w].op)
    BY <1>1, WorkerFacts DEF FitsWorker
  <2>3. \A d \in Batch(txn'[w].op) : d \notin stored'
    BY <1>2, <2>1, <2>2 DEF Absent
  <2> QED BY <1>2, <2>1, <2>3 DEF FitsWorker, Fits, Absent, Batch
<1>5. txn'[w].step # "idle" /\ (txn'[w].step = "insert" => txn'[w].staged < transactionBatchSize)
  BY <1>2 DEF transactionBatchSize
<1> QED BY <1>1, <1>2, <1>3, <1>4, <1>5, WorkerStep

(* What committing leaves in the store: on a correct server the whole batch. *)
LEMMA CommittedIs ==
  ASSUME NEW w \in Workers
  PROVE  /\ Committed(w) \subseteq stored \cup Batch(txn[w].op)
         /\ defect = "none" => Committed(w) = stored \cup Batch(txn[w].op)
BY BatchIs DEF Committed

LEMMA StraysKept ==
  ASSUME TInv, UNCHANGED defect, UNCHANGED invalid \/ \E w \in Workers : Stores(w)
  PROVE  NoStray'
BY DEF TInv, NoStray, Stores

LEMMA CommitHolds ==
  ASSUME TInv, NEW w \in Workers, Commit(w)
  PROVE  TInv'
<1>1. /\ txn \in [Workers -> Txn] /\ txn[w].step = "commit" /\ Busy(w)
      /\ stored' = Committed(w)
      /\ UNCHANGED <<defect, attempts, outcomes, passed, cancelled>>
  BY WorkerFacts DEF Commit, Stores, Busy
<1>2. /\ OnlyWorker(w) /\ txn'[w].op = txn[w].op /\ faults' \in 0 .. MaxFaults
      /\ txn'[w].step = "matched" \/ (txn'[w].step = "commit" /\ txn'[w].committed)
  <2>1. CASE RecordIn(w, "matched") /\ UNCHANGED faults
    <3>1. faults' \in 0 .. MaxFaults
      BY <2>1, WorkerFacts
    <3> QED BY <1>1, <2>1, <3>1 DEF OnlyWorker, RecordIn, Txn, Step, Kinds
  <2>2. CASE Fault /\ txn' = [txn EXCEPT ![w].committed = TRUE]
    <3>1. faults' \in 0 .. MaxFaults
      BY <2>2, WorkerFacts, LimitsAssumption DEF Fault
    <3> QED BY <1>1, <2>2, <3>1 DEF OnlyWorker, Txn, Step
  <2> QED BY <2>1, <2>2 DEF Commit
<1>3. stored' \subseteq stored \cup Batch(txn[w].op) /\ NoStray'
  BY <1>1, CommittedIs, StraysKept DEF Commit
<1>4. defect = "none" => stored' = stored \cup Batch(txn[w].op) /\ FitsWorker(txn[w])'
  <2> SUFFICES ASSUME defect = "none"
               PROVE  stored' = stored \cup Batch(txn[w].op) /\ FitsWorker(txn[w])'
    OBVIOUS
  <2>1. stored' = stored \cup Batch(txn[w].op)
    BY <1>1, CommittedIs
  <2>2. Batch(txn'[w].op) \subseteq stored'
    BY <1>2, <2>1
  <2> QED BY <1>2, <2>1, <2>2 DEF FitsWorker, Fits, Whole, Batch
<1>5. txn'[w].step # "idle" /\ txn'[w].step # "insert"
  BY <1>2
<1> QED BY <1>1, <1>2, <1>3, <1>4, <1>5, WorkerStep

LEMMA InterruptedHolds ==
  ASSUME TInv, NEW w \in Workers, Interrupted(w)
  PROVE  TInv'
<1>1. /\ txn \in [Workers -> Txn] /\ Busy(w) /\ txn' = [txn EXCEPT ![w].step = "indeterminate"]
      /\ UNCHANGED <<defect, attempts, outcomes, passed, cancelled, faults>>
      /\ stored' = stored \/ stored' = Committed(w)
  BY WorkerFacts DEF Interrupted, Stores, RecordIn, Busy
<1>2. OnlyWorker(w) /\ txn'[w].op = txn[w].op /\ txn'[w].step = "indeterminate"
  BY <1>1 DEF OnlyWorker, Txn, Step, Kinds
<1>3. stored' \subseteq stored \cup Batch(txn[w].op) /\ NoStray'
  BY <1>1, CommittedIs, StraysKept DEF Interrupted
<1>4. defect = "none" => /\ stored' = stored \/ stored' = stored \cup Batch(txn[w].op)
                         /\ FitsWorker(txn[w])'
  BY <1>1, <1>2, CommittedIs DEF FitsWorker, Fits
<1>5. faults' \in 0 .. MaxFaults /\ txn'[w].step # "idle" /\ txn'[w].step # "insert"
  BY <1>1, <1>2, WorkerFacts
<1> QED BY <1>1, <1>2, <1>3, <1>4, <1>5, WorkerStep

LEMMA RecordHolds ==
  ASSUME TInv, NEW w \in Workers, Record(w)
  PROVE  TInv'
<1> DEFINE o == txn[w].op
<1> DEFINE kind == txn[w].step
<1>1. /\ txn \in [Workers -> Txn] /\ kind \in Kinds \ {"unrecorded"} /\ Busy(w)
      /\ outcomes' = [outcomes EXCEPT ![o] = kind] /\ txn' = [txn EXCEPT ![w] = Idle]
      /\ UNCHANGED <<defect, attempts, stored, invalid, passed, cancelled, faults>>
  BY WorkerFacts DEF Record, Recorded, Busy, Kinds
<1>2. /\ attempts \in Nat /\ MaxOperations \in Nat /\ attempts <= MaxOperations
      /\ outcomes \in [Operations -> Kinds] /\ o \in 1 .. attempts
  BY <1>1, LimitsAssumption DEF TInv, TxnTypeOK, HeldOnce, OwnOperation
<1>3. o \in Operations
  BY <1>2 DEF Operations
<1>4. /\ outcomes'[o] = kind /\ outcomes' \in [Operations -> Kinds]
      /\ \A op \in Operations : op # o => outcomes'[op] = outcomes[op]
  BY <1>1, <1>2, <1>3
<1>5. Idle \in Txn /\ Idle.step = "idle" /\ Idle.op = 0
  BY LimitsAssumption DEF Idle, Txn, Step, transactionBatchSize
<1>6. OnlyWorker(w) /\ txn'[w] = Idle
  BY <1>1, <1>5 DEF OnlyWorker
<1> HIDE DEF kind, o
<1>7. TxnTypeOK'
  <2>1. attempts' \in attempts .. MaxOperations /\ Idle.op \in 0 .. attempts'
    BY <1>1, <1>2, <1>5
  <2>2. stored' \subseteq AllBatches \cup Batch(Idle.op) /\ faults' \in 0 .. MaxFaults /\ invalid' \in Nat
    BY <1>1 DEF TInv, TxnTypeOK
  <2> QED BY <1>1, <1>4, <1>5, <1>6, <2>1, <2>2, WorkerTypes DEF TInv
<1>8. \A v \in Workers : Busy(v)' <=> Busy(v) /\ v # w
  BY <1>5, <1>6 DEF Busy, OnlyWorker
<1>9. HeldOnce'
  <2>1. ASSUME NEW v \in Workers, Busy(v)' PROVE OwnOperation(v)'
    <3>1. v # w /\ Busy(v) /\ txn'[v] = txn[v]
      BY <1>6, <1>8, <2>1 DEF OnlyWorker
    <3>2. txn[v].op \in 1 .. attempts /\ outcomes[txn[v].op] = "unrecorded" /\ txn[v].op # o
      BY <1>1, <3>1 DEF TInv, HeldOnce, OwnOperation, o
    <3>3. txn[v].op \in Operations
      BY <1>2, <3>2 DEF Operations
    <3> QED BY <1>1, <1>4, <3>1, <3>2, <3>3 DEF OwnOperation
  <2>2. \A v \in Workers : ~Busy(v)' => txn'[v] = Idle
    BY <1>6, <1>8 DEF TInv, HeldOnce, OnlyWorker
  <2>3. \A u, v \in Workers : Busy(u)' /\ Busy(v)' /\ txn'[u].op = txn'[v].op => u = v
    BY <1>6, <1>8 DEF TInv, HeldOnce, OnlyWorker
  <2> QED BY <2>1, <2>2, <2>3 DEF HeldOnce, OwnOperation
<1>10. NoneForgotten'
  <2>1. \A op \in Operations : op > attempts' => outcomes'[op] = "unrecorded"
    <3>1. ~(o > attempts)
      BY <1>2
    <3> QED BY <1>1, <1>4, <3>1 DEF TInv, NoneForgotten
  <2>2. ASSUME NEW op \in Operations, op <= attempts', outcomes'[op] = "unrecorded"
        PROVE  \E v \in Workers : Busy(v)' /\ txn'[v].op = op
    <3>1. op # o /\ outcomes[op] = "unrecorded" /\ op <= attempts
      BY <1>1, <1>4, <2>2
    <3>2. PICK v \in Workers : Busy(v) /\ txn[v].op = op
      BY <3>1 DEF TInv, NoneForgotten
    <3>3. v # w
      BY <3>1, <3>2 DEF o
    <3> QED BY <1>6, <1>8, <3>2, <3>3 DEF OnlyWorker
  <2> QED BY <2>1, <2>2 DEF NoneForgotten
<1>11. ServerCorrect'
  <2> SUFFICES ASSUME defect = "none"
               PROVE  /\ \A op \in 1 .. attempts' :
                           (Whole(op)' \/ Absent(op)') /\ Fits(op, outcomes[op])'
                      /\ \A v \in Workers : Busy(v)' => FitsWorker(txn[v])'
    BY <1>1 DEF ServerCorrect
  <2>1. \A op : (Whole(op)' <=> Whole(op)) /\ (Absent(op)' <=> Absent(op))
    BY <1>1 DEF Whole, Absent, Batch
  <2>2. ASSUME NEW op \in 1 .. attempts PROVE (Whole(op) \/ Absent(op)) /\ Fits(op, outcomes'[op])
    <3>1. CASE op = o
      BY <1>1, <1>4, <3>1 DEF TInv, ServerCorrect, FitsWorker, o, kind
    <3>2. CASE op # o
      <4>1. op \in Operations
        BY <1>2 DEF Operations
      <4> QED BY <1>4, <3>2, <4>1 DEF TInv, ServerCorrect
    <3> QED BY <3>1, <3>2
  <2>3. ASSUME NEW v \in Workers, Busy(v)' PROVE FitsWorker(txn[v])'
    <3>1. FitsWorker(txn[v]) /\ txn'[v] = txn[v]
      BY <1>6, <1>8, <2>3 DEF TInv, ServerCorrect, OnlyWorker
    <3> QED BY <2>1, <3>1 DEF FitsWorker, Fits
  <2> QED BY <1>1, <2>1, <2>2, <2>3 DEF Fits
<1>12. AfterVerify' /\ NoStray'
  BY <1>1, NotVerified DEF TInv, NoStray
<1> QED BY <1>7, <1>9, <1>10, <1>11, <1>12 DEF TInv


-----------------------------------------------------------------------------
(* Verify                                                                  *)

LEMMA TwoElements ==
  ASSUME NEW x, NEW y, x # y
  PROVE  IsFiniteSet({x, y}) /\ Cardinality({x, y}) = 2
<1>1. IsFiniteSet({x}) /\ Cardinality({x}) = 1
  BY FS_Singleton
<1>2. IsFiniteSet({x} \cup {y}) /\ Cardinality({x} \cup {y}) = Cardinality({x}) + 1
  <2>1. y \notin {x}
    OBVIOUS
  <2> QED BY <1>1, <2>1, FS_AddElement, Zenon
<1>3. {x} \cup {y} = {x, y}
  OBVIOUS
<1>4. Cardinality({x, y}) = 1 + 1
  BY <1>1, <1>2, <1>3
<1> QED BY <1>2, <1>3, <1>4

LEMMA BatchSize == \A op : IsFiniteSet(Batch(op)) /\ Cardinality(Batch(op)) = 2
<1>1. ASSUME NEW op PROVE IsFiniteSet(Batch(op)) /\ Cardinality(Batch(op)) = 2
  <2>1. <<op, 0>> # <<op, 1>> /\ Batch(op) = {<<op, 0>>, <<op, 1>>}
    BY BatchIs
  <2> QED BY <2>1, TwoElements, Zenon
<1> QED BY <1>1

(* storedByOperation counts the documents of one batch. *)
LEMMA StoredOf ==
  ASSUME TxnTypeOK, NEW op
  PROVE  /\ {d \in stored : d[1] = op} = stored \cap Batch(op)
         /\ Whole(op) <=> storedByOperation(op) = 2
         /\ Absent(op) <=> storedByOperation(op) = 0
<1>1. ASSUME NEW d \in stored PROVE d[1] = op <=> d \in Batch(op)
  <2>1. PICK o \in 1 .. attempts : d \in Batch(o)
    BY DEF TxnTypeOK, AllBatches
  <2>2. d = <<o, 0>> \/ d = <<o, 1>>
    BY <2>1, BatchIs
  <2> QED BY <2>2, BatchIs
<1>2. {d \in stored : d[1] = op} = stored \cap Batch(op)
  BY <1>1
<1>3. storedByOperation(op) = Cardinality(stored \cap Batch(op))
  BY <1>2 DEF storedByOperation
<1>4. stored \cap Batch(op) \in SUBSET Batch(op) /\ IsFiniteSet(Batch(op)) /\ Cardinality(Batch(op)) = 2
  BY BatchSize
<1>5. IsFiniteSet(stored \cap Batch(op))
      /\ (Cardinality(Batch(op)) = Cardinality(stored \cap Batch(op)) => Batch(op) = stored \cap Batch(op))
  BY <1>4, FS_Subset
<1>6. Whole(op) <=> storedByOperation(op) = 2
  <2>1. Whole(op) <=> Batch(op) = stored \cap Batch(op)
    BY DEF Whole
  <2>2. Batch(op) = stored \cap Batch(op) => Cardinality(stored \cap Batch(op)) = 2
    BY <1>4
  <2> QED BY <1>3, <1>4, <1>5, <2>1, <2>2
<1>7. Absent(op) <=> storedByOperation(op) = 0
  <2>1. Absent(op) <=> stored \cap Batch(op) = {}
    BY DEF Absent
  <2> QED BY <1>3, <1>5, <2>1, FS_EmptySet
<1> QED BY <1>2, <1>6, <1>7

(* The operations with one outcome, which Count counts *)
With(kind) == {op \in 1 .. attempts : outcomes[op] = kind}

LEMMA CountIs ==
  ASSUME attempts \in Nat, NEW kind
  PROVE  /\ IsFiniteSet(With(kind)) /\ Count(kind) = Cardinality(With(kind)) /\ Count(kind) \in Nat
         /\ Count(kind) = 0 => With(kind) = {}
         /\ Count(kind) = attempts => With(kind) = 1 .. attempts
<1>1. IsFiniteSet(1 .. attempts) /\ Cardinality(1 .. attempts) = attempts
  BY FS_Interval
<1>2. With(kind) \in SUBSET (1 .. attempts)
  BY DEF With
<1>3. Count(kind) = Cardinality(With(kind))
  BY DEF Count, With
<1>4. IsFiniteSet(With(kind)) /\ (Cardinality(1 .. attempts) = Cardinality(With(kind)) => With(kind) = 1 .. attempts)
  BY <1>1, <1>2, FS_Subset
<1> QED BY <1>1, <1>3, <1>4, FS_EmptySet, FS_CardinalityType

(* Every operation has an outcome when no worker is busy. *)
LEMMA AllRecordedThen ==
  ASSUME TInv, \A w \in Workers : ~Busy(w)
  PROVE  \A op \in 1 .. attempts : outcomes[op] \in {"matched", "rejected", "indeterminate"}
<1>1. attempts \in Nat /\ MaxOperations \in Nat /\ attempts <= MaxOperations
  BY LimitsAssumption DEF TInv, TxnTypeOK
<1>2. ASSUME NEW op \in 1 .. attempts
      PROVE  outcomes[op] \in {"matched", "rejected", "indeterminate"}
  <2>1. op \in Operations /\ op <= attempts
    BY <1>1 DEF Operations
  <2>2. outcomes[op] # "unrecorded" /\ outcomes[op] \in Kinds
    BY <2>1 DEF TInv, NoneForgotten, TxnTypeOK
  <2> QED BY <2>2 DEF Kinds
<1> QED BY <1>2

(* Without an indeterminate outcome a correct server stores two documents for each
   acknowledged operation and no other. *)
LEMMA StoredIsMatched ==
  ASSUME TInv, defect = "none",
         \A op \in 1 .. attempts : outcomes[op] \in {"matched", "rejected"}
  PROVE  Cardinality(stored) = Count("matched") * transactionBatchSize
<1> DEFINE M == With("matched")
<1>1. attempts \in Nat
  BY LimitsAssumption DEF TInv, TxnTypeOK
<1>2. IsFiniteSet(M) /\ Count("matched") = Cardinality(M)
  BY <1>1, CountIs
<1>3. IsFiniteSet(Members) /\ Cardinality(Members) = transactionBatchSize
  <2>1. Members = {0, 1}
    BY DEF Members, transactionBatchSize
  <2>2. IsFiniteSet({0, 1}) /\ Cardinality({0, 1}) = 2
    <3>1. 0 # 1
      OBVIOUS
    <3> QED BY <3>1, TwoElements, Zenon
  <2> QED BY <2>1, <2>2 DEF transactionBatchSize
<1>4. stored \subseteq M \X Members
  <2>1. ASSUME NEW d \in stored PROVE d \in M \X Members
    <3>1. PICK op \in 1 .. attempts : d \in Batch(op)
      BY DEF TInv, TxnTypeOK, AllBatches
    <3>2. ~Absent(op)
      BY <3>1 DEF Absent
    <3>3. outcomes[op] = "matched"
      BY <3>2 DEF TInv, ServerCorrect, Fits
    <3>4. op \in M
      BY <3>3 DEF With
    <3> HIDE DEF M
    <3> QED BY <3>1, <3>4 DEF Batch
  <2> QED BY <2>1
<1>5. M \X Members \subseteq stored
  <2>1. ASSUME NEW op \in M, NEW m \in Members PROVE <<op, m>> \in stored
    <3>1. Whole(op)
      BY DEF TInv, ServerCorrect, Fits, With
    <3> QED BY <3>1 DEF Whole, Batch
  <2> QED BY <2>1
<1>6. stored = M \X Members
  BY <1>4, <1>5
<1> HIDE DEF M
<1> QED BY <1>2, <1>3, <1>6, FS_Product


LEMMA VerifyHolds ==
  ASSUME TInv, Verify
  PROVE  TInv'
<1>1. /\ passed' = Checks /\ \A w \in Workers : ~Busy(w)
      /\ UNCHANGED <<defect, attempts, txn, stored, invalid, outcomes, cancelled, faults>>
  BY DEF Verify, Busy, Idle
<1>2. passed' \subseteq AllChecks
  BY <1>1 DEF Checks, AllChecks
<1>3. attempts \in Nat /\ TxnTypeOK
  BY LimitsAssumption DEF TInv, TxnTypeOK
<1>4. \A op \in 1 .. attempts : outcomes[op] \in {"matched", "rejected", "indeterminate"}
  BY <1>1, AllRecordedThen
<1>5. defect = "none" => "atomic" \in Checks
  <2> SUFFICES ASSUME defect = "none" PROVE "atomic" \in Checks
    OBVIOUS
  <2>1. \A op \in 1 .. attempts : ~Partial(op)
    BY <1>3, StoredOf DEF TInv, ServerCorrect, Partial, transactionBatchSize
  <2>2. invalid = 0
    BY DEF TInv, NoStray
  <2> QED BY <2>1, <2>2 DEF Checks
<1>6. defect = "none" /\ Count("indeterminate") = 0 => {"durable", "unacknowledged"} \subseteq Checks
  <2> SUFFICES ASSUME defect = "none", Count("indeterminate") = 0
               PROVE  "durable" \in Checks /\ "unacknowledged" \in Checks
    OBVIOUS
  <2>1. With("indeterminate") = {}
    BY <1>3, CountIs
  <2>2. \A op \in 1 .. attempts : outcomes[op] \in {"matched", "rejected"}
    BY <1>4, <2>1 DEF With
  <2>3. Cardinality(stored) + invalid = Count("matched") * transactionBatchSize
    <3>1. Cardinality(stored) = Count("matched") * transactionBatchSize /\ invalid = 0
      BY <2>2, StoredIsMatched DEF TInv, NoStray
    <3>2. Count("matched") \in Nat
      BY <1>3, CountIs
    <3> QED BY <3>1, <3>2 DEF transactionBatchSize
  <2>4. \A op \in 1 .. attempts : outcomes[op] = "matched" => ~Missing(op)
    BY <1>3, StoredOf DEF TInv, ServerCorrect, Fits, Missing, transactionBatchSize
  <2>5. "durable" \in Checks
    BY <2>3, <2>4 DEF Checks
  <2>6. \A op \in 1 .. attempts : /\ outcomes[op] # "unrecorded"
                                  /\ outcomes[op] \in {"rejected", "indeterminate"}
                                       => storedByOperation(op) = 0
    BY <1>3, <2>2, StoredOf DEF TInv, ServerCorrect, Fits
  <2>7. "unacknowledged" \in Checks
    BY <2>6 DEF Checks
  <2> QED BY <2>5, <2>7
<1>7. Checks = AllChecks => stored = AllBatches /\ invalid = 0
  <2> SUFFICES ASSUME Checks = AllChecks PROVE stored = AllBatches /\ invalid = 0
    OBVIOUS
  <2>0. invalid = 0
    <3>1. "atomic" \in Checks
      BY DEF AllChecks
    <3> QED BY <3>1 DEF Checks
  <2>1. Count("matched") = attempts
    <3>1. "eventually" \in Checks
      BY DEF AllChecks
    <3> QED BY <3>1 DEF Checks
  <2>2. \A op \in 1 .. attempts : outcomes[op] = "matched" => ~Missing(op)
    <3>1. "durable" \in Checks
      BY DEF AllChecks
    <3> QED BY <3>1 DEF Checks
  <2>3. \A op \in 1 .. attempts : outcomes[op] = "matched"
    BY <1>3, <2>1, CountIs DEF With
  <2>4. \A op \in 1 .. attempts : Whole(op)
    BY <1>3, <2>2, <2>3, StoredOf DEF Missing, transactionBatchSize
  <2> QED BY <1>3, <2>0, <2>4 DEF TxnTypeOK, AllBatches, Whole
<1>8. Count("indeterminate")' = Count("indeterminate") /\ AllBatches' = AllBatches
  BY <1>1 DEF Count, AllBatches, Batch
<1>9. TransactionsJudgedRight'
  BY <1>1, <1>5, <1>6, <1>7, <1>8 DEF TransactionsJudgedRight, AllChecks
<1>10. AfterVerify'
  BY <1>1, <1>9 DEF AfterVerify, Busy
<1>11. TxnTypeOK'
  BY <1>1, <1>2, <1>3, <1>8 DEF TxnTypeOK, Verified, AllChecks
<1>12. HeldOnce' /\ NoneForgotten'
  BY <1>1 DEF TInv, HeldOnce, OwnOperation, NoneForgotten, Busy
<1>13. ServerCorrect' /\ NoStray'
  BY <1>1 DEF TInv, NoStray, ServerCorrect, Busy, Whole, Absent, Fits, Batch
<1> QED BY <1>10, <1>11, <1>12, <1>13 DEF TInv

LEMMA CancelHolds ==
  ASSUME TInv, Cancel \/ UNCHANGED txnVars
  PROVE  TInv'
<1>1. UNCHANGED <<defect, attempts, txn, stored, invalid, outcomes, passed>>
  BY DEF Cancel, txnVars
<1>2. cancelled' \in BOOLEAN /\ faults' \in 0 .. MaxFaults
  <2>1. cancelled \in BOOLEAN /\ faults \in 0 .. MaxFaults
    BY DEF TInv, TxnTypeOK
  <2>2. CASE Cancel
    <3>1. cancelled' = TRUE
      BY <2>2 DEF Cancel
    <3>2. faults' \in 0 .. MaxFaults
      BY <2>1, <2>2, LimitsAssumption DEF Cancel, Fault
    <3> QED BY <3>1, <3>2
  <2>3. CASE UNCHANGED txnVars
    BY <2>1, <2>3 DEF txnVars
  <2> QED BY <2>2, <2>3
<1>3. AllBatches' = AllBatches /\ Count("indeterminate")' = Count("indeterminate")
  BY <1>1 DEF AllBatches, Batch, Count
<1>4. TxnTypeOK'
  BY <1>1, <1>2, <1>3 DEF TInv, TxnTypeOK, Verified, AllChecks
<1>5. HeldOnce' /\ NoneForgotten'
  BY <1>1 DEF TInv, HeldOnce, OwnOperation, NoneForgotten, Busy
<1>6. ServerCorrect'
  <2>1. \A op : (Whole(op)' <=> Whole(op)) /\ (Absent(op)' <=> Absent(op))
    BY <1>1 DEF Whole, Absent, Batch
  <2> QED BY <1>1, <2>1 DEF TInv, ServerCorrect, Busy, Fits, FitsWorker
<1>7. AfterVerify' /\ NoStray'
  BY <1>1, <1>3 DEF TInv, NoStray, AfterVerify, TransactionsJudgedRight, Verified, Busy, AllChecks
<1> QED BY <1>4, <1>5, <1>6, <1>7 DEF TInv

LEMMA TxnStepHolds == TInv /\ [TxnNext]_txnVars => TInv'
<1>1. ASSUME TInv, TxnNext PROVE TInv'
  BY <1>1, BeginHolds, InsertHolds, AbortsHolds, CommitHolds, InterruptedHolds, RecordHolds,
     VerifyHolds, CancelHolds DEF TxnNext, Ended, Nothing
<1>2. ASSUME TInv, UNCHANGED txnVars PROVE TInv'
  BY <1>2, CancelHolds
<1> QED BY <1>1, <1>2

(* The state of txn-commit-race is well typed: in particular nothing is stored but
   documents of operations that were begun. *)
THEOREM TransactionTypes == TxnSpec => []TxnTypeOK
<1>1. TInv => TxnTypeOK
  BY DEF TInv
<1> QED BY <1>1, TxnInitHolds, TxnStepHolds, PTL DEF TxnSpec

(* The checks of transactionCommitRaceScenario.Verify are right for any number of
   workers and operations: they do not accuse a correct server whose outcomes are
   certain, and together they pass only if the server holds exactly the batches of
   the operations, whatever it did before. *)
THEOREM TransactionsSound == TxnSpec => []TransactionsJudgedRight
<1>1. TInv => TransactionsJudgedRight
  BY DEF TInv, AfterVerify, TransactionsJudgedRight
<1> QED BY <1>1, TxnInitHolds, TxnStepHolds, PTL DEF TxnSpec
=============================================================================
