------------------------------ MODULE Campaign ------------------------------
(***************************************************************************)
(* The campaign scripts (scripts/concurrency): weekend-loop.sh repeats     *)
(* suite.sh and burst.sh, which run the concurrency command through run.sh *)
(* and read the verdict from the JSON report it writes. Reports stay in    *)
(* RESULTS_DIR under the case's name from one iteration to the next. The   *)
(* command is given by what Runner says of its exit code and its report.   *)
(***************************************************************************)
EXTENDS Integers, Sequences, FiniteSets, FiniteSetsExt

CONSTANTS
  Case,           \* the names of the suite's cases
  Order,          \* CASES, a sequence of them
  Expect,         \* case -> "pass", "xfail" or "skip"
  BURST_COUNT,    \* bursts per iteration; 0 skips the phase
  STRICT_XPASS,   \* whether an unexpected pass fails the suite
  MaxIterations   \* bound: the loop goes on until it is stopped

None == "none"
Burst == "burst"   \* the report burst-<scenario>-<mode>.json

(* Every line of CASES names a case, none of which is named like a burst's report,
   and has an expectation; the phase has a number of bursts. *)
ASSUME CasesAssumption ==
  /\ Order \in Seq(Case) /\ Burst \notin Case
  /\ Expect \in [Case -> {"pass", "xfail", "skip"}]
ASSUME BoundsAssumption ==
  BURST_COUNT \in Nat /\ STRICT_XPASS \in BOOLEAN /\ MaxIterations \in Nat

Verdicts == {"conclusivePass", "failed", "inconclusive"}

VARIABLES
  pc,        \* "loop", "suite", "burst", "classify" or "stopped"
  stop,      \* Ctrl-C arrived
  reports,   \* RESULTS_DIR: name -> verdict of the report there, "?" unreadable, or None
  next,      \* position in Order, then the number of the burst
  results,   \* case -> what this suite made of it
  wrote,     \* name -> what its latest run of this iteration wrote, None if nothing
  caught,    \* burst.sh announced and archived a catch in this iteration
  rcSuite, rcBurst,
  iter, passes, failedIters

vars == <<pc, stop, reports, next, results, wrote, caught, rcSuite, rcBurst, iter, passes,
          failedIters>>
tallies == <<iter, passes, failedIters>>

Names == Case \cup {Burst}

Init ==
  /\ pc = "loop"
  /\ stop = FALSE
  /\ reports = [n \in Names |-> None]
  /\ next = 1
  /\ results = [c \in Case |-> None]
  /\ wrote = [n \in Names |-> None]
  /\ caught = FALSE
  /\ rcSuite = 0 /\ rcBurst = 0
  /\ iter = 0 /\ passes = 0
  /\ failedIters = {}

(***************************************************************************)
(* run.sh ends with the command's exit code. An error of the run gives 1   *)
(* with any verdict; 1 and no report at all when the server could not be   *)
(* asked for its identity or the report not created, and when run.sh       *)
(* itself gives up (die); 2 for flags; 143 and 137 when it is killed. A    *)
(* report that could not be written to its end is unreadable.              *)
(***************************************************************************)
Runs == {[code |-> 0, report |-> "conclusivePass"], [code |-> 3, report |-> "inconclusive"]}
          \cup {[code |-> 1, report |-> v] : v \in Verdicts \cup {"?", None}}
          \cup {[code |-> k, report |-> None] : k \in {2, 137, 143}}

Left(name, r) == IF r.report = None THEN reports[name] ELSE r.report

Keep(name, r) ==
  /\ reports' = [reports EXCEPT ![name] = Left(name, r)]
  /\ wrote' = [wrote EXCEPT ![name] = r.report]

(***************************************************************************)
(* suite.sh                                                                *)
(***************************************************************************)
Classify(case, code, verdict) ==
  IF code \notin {0, 1, 3} \/ verdict = None THEN "ERROR"
  ELSE IF Expect[case] = "pass"
  THEN IF verdict = "conclusivePass" THEN "PASS" ELSE "FAIL"
  ELSE CASE verdict = "conclusivePass" -> "XPASS"
         [] verdict = "failed" -> "xfail"
         [] OTHER -> "ERROR"

StartIteration ==
  /\ pc = "loop" /\ ~stop /\ iter < MaxIterations
  /\ iter' = iter + 1
  /\ pc' = "suite"
  /\ next' = 1
  /\ results' = [c \in Case |-> None]
  /\ wrote' = [n \in Names |-> None]
  /\ caught' = FALSE
  /\ UNCHANGED <<stop, reports, rcSuite, rcBurst, passes, failedIters>>

SkipCase ==
  /\ pc = "suite" /\ next <= Len(Order)
  /\ Expect[Order[next]] = "skip"
  /\ results' = [results EXCEPT ![Order[next]] = "SKIP"]
  /\ next' = next + 1
  /\ UNCHANGED <<pc, stop, reports, wrote, caught, rcSuite, rcBurst, tallies>>

RunCase ==
  /\ pc = "suite" /\ next <= Len(Order)
  /\ Expect[Order[next]] # "skip"
  /\ \E r \in Runs :
       /\ Keep(Order[next], r)
       /\ results' = [results EXCEPT ![Order[next]] =
                        Classify(Order[next], r.code, Left(Order[next], r))]
  /\ next' = next + 1
  /\ UNCHANGED <<pc, stop, caught, rcSuite, rcBurst, tallies>>

AfterSuite(rc) ==
  /\ rcSuite' = rc
  /\ rcBurst' = 0
  /\ next' = 1
  /\ pc' = IF BURST_COUNT # 0 /\ ~stop THEN "burst" ELSE "classify"

SuiteExit(res) ==
  IF \/ \E c \in Case : res[c] \in {"FAIL", "ERROR"}
     \/ STRICT_XPASS /\ \E c \in Case : res[c] = "XPASS"
  THEN 1 ELSE 0

EndSuite ==
  /\ pc = "suite" /\ next > Len(Order)
  /\ AfterSuite(SuiteExit(results))
  /\ UNCHANGED <<stop, reports, results, wrote, caught, tallies>>

(* A server that does not start makes suite.sh die; a pass that takes too long is
   killed by timeout. *)
SuiteDies ==
  /\ pc = "suite"
  /\ \E rc \in {1, 124} : AfterSuite(rc)
  /\ UNCHANGED <<stop, reports, results, wrote, caught, tallies>>

(***************************************************************************)
(* burst.sh                                                                *)
(***************************************************************************)
EndBurst(rc) == rcBurst' = rc /\ pc' = "classify"

MoreBursts(i) == i <= BURST_COUNT

Caught(code, verdict) == code = 1 /\ verdict = "failed"

RunBurst ==
  /\ pc = "burst" /\ MoreBursts(next)
  /\ \E r \in Runs :
       /\ Keep(Burst, r)
       /\ \/ r.code = 0 /\ next' = next + 1 /\ UNCHANGED <<pc, caught, rcBurst>>
          \/ /\ r.code # 0 /\ next' = next
             /\ caught' = Caught(r.code, Left(Burst, r))
             /\ EndBurst(IF caught' THEN 1 ELSE 0)
  /\ UNCHANGED <<stop, results, rcSuite, tallies>>

(* All bursts were clean, or a signal to burst.sh itself ended the series. *)
BurstsDone ==
  /\ pc = "burst" /\ (stop \/ ~MoreBursts(next))
  /\ EndBurst(0)
  /\ UNCHANGED <<stop, reports, next, results, wrote, caught, rcSuite, tallies>>

(* The phase takes too long *)
BurstTimeout ==
  /\ pc = "burst"
  /\ EndBurst(124)
  /\ UNCHANGED <<stop, reports, next, results, wrote, caught, rcSuite, tallies>>

(* The server or the build fails before the first burst: die *)
BurstDies ==
  /\ pc = "burst" /\ next = 1
  /\ EndBurst(1)
  /\ UNCHANGED <<stop, reports, next, results, wrote, caught, rcSuite, tallies>>

(***************************************************************************)
(* weekend-loop.sh                                                         *)
(***************************************************************************)
OnlyTheSuite(suite, burst) == suite = 0  \* Seeded defect: a caught burst does not fail the pass.
Passed(suite, burst) == suite = 0 /\ burst # 1

EndIteration ==
  /\ pc = "classify"
  /\ IF Passed(rcSuite, rcBurst)
     THEN passes' = passes + 1 /\ failedIters' = failedIters
     ELSE passes' = passes /\ failedIters' = failedIters \cup {iter}
  /\ pc' = IF stop THEN "stopped" ELSE "loop"
  /\ UNCHANGED <<stop, reports, next, results, wrote, caught, rcSuite, rcBurst, iter>>

(* Ctrl-C: timeout runs its script in a process group of its own, so a pass goes on
   and the loop notes the signal when the script has ended. *)
Interrupt ==
  /\ pc \in {"loop", "suite", "burst"} /\ ~stop
  /\ stop' = TRUE
  /\ pc' = IF pc = "loop" THEN "stopped" ELSE pc
  /\ UNCHANGED <<reports, next, results, wrote, caught, rcSuite, rcBurst, tallies>>

Stopped == pc = "stopped" /\ UNCHANGED vars

Next ==
  \/ StartIteration \/ SkipCase \/ RunCase \/ EndSuite \/ SuiteDies
  \/ RunBurst \/ BurstsDone \/ BurstTimeout \/ BurstDies
  \/ EndIteration \/ Interrupt \/ Stopped

Spec == Init /\ [][Next]_vars
-----------------------------------------------------------------------------
TypeOK ==
  /\ pc \in {"loop", "suite", "burst", "classify", "stopped"}
  /\ stop \in BOOLEAN /\ caught \in BOOLEAN
  /\ reports \in [Names -> Verdicts \cup {"?", None}]
  /\ wrote \in [Names -> Verdicts \cup {"?", None}]
  /\ results \in [Case -> {"PASS", "FAIL", "xfail", "XPASS", "ERROR", "SKIP", None}]
  /\ rcSuite \in {0, 1, 124} /\ rcBurst \in {0, 1, 124}
  /\ next \in 1 .. Max({Len(Order), BURST_COUNT}) + 1
  /\ iter \in 0 .. MaxIterations /\ passes \in 0 .. iter /\ failedIters \subseteq 1 .. iter

(* Every iteration is tallied once, as passed or as failed, and one whose burst
   phase ended with 1 is among the failed. Whatever the iterations before it left
   behind, a suite that passed has no report of its own run of a case against it,
   and the burst phase announces a catch when a burst reported a failed verdict, and
   never when its last burst reported another one. Of a run that wrote no report this
   says nothing: the scripts read an older file in its place, which is the subject of
   the next two properties. *)
TallyFitsReports ==
  /\ passes + Cardinality(failedIters) = IF pc \in {"loop", "stopped"} THEN iter ELSE iter - 1
  /\ pc \in {"loop", "stopped"} /\ iter > 0 /\ rcBurst = 1 => iter \in failedIters
  /\ pc = "classify" /\ rcSuite = 0 =>
       \A c \in Case : wrote[c] # None /\ Expect[c] # "skip" =>
         \/ wrote[c] = "conclusivePass" /\ (Expect[c] = "pass" \/ ~STRICT_XPASS)
         \/ wrote[c] = "failed" /\ Expect[c] = "xfail"
  /\ pc = "classify" => /\ wrote[Burst] = "failed" => caught /\ rcBurst = 1
                        /\ caught => wrote[Burst] \in {"failed", None}

(* "A run that did not produce a report produced no evidence. It must never be
   classified": a case is classified by a report of this run only. *)
NoReportNoEvidence ==
  \A c \in Case : results[c] \in {"PASS", "FAIL", "xfail", "XPASS"} => wrote[c] # None

(* "A CATCH is only a conclusive failed verdict -- the harness proved a write the
   client was told failed is stored on the server" (burst.sh): a catch is announced
   over a failed verdict of the burst that has just run. *)
CatchIsAVerdict == caught => wrote[Burst] = "failed"
=============================================================================
