------------------------------- MODULE Runner -------------------------------
(***************************************************************************)
(* One run of the concurrency command: cmd/concurrency/main.go around      *)
(* RunWithFixture (concurrency/runner.go). Worker goroutines reserve       *)
(* operations from one atomic counter, execute a scenario's operation      *)
(* against a server and record its outcome; once they are drained the      *)
(* settled document is verified, a verdict is reported, and the database   *)
(* is dropped or preserved as evidence.                                    *)
(*                                                                         *)
(* The server is external and modelled by what the driver lets the runner  *)
(* see. An update is a command on its way until the server applies,        *)
(* refuses or loses it, and the client may stop waiting at any moment      *)
(* before the reply: a command whose client is gone can still be applied.  *)
(* A defective server answers reads and updates arbitrarily.               *)
(***************************************************************************)
EXTENDS Oracle

CONSTANTS
  Workers,        \* the worker goroutines
  Configs,        \* the configurations a behaviour starts from
  MaxIssued,      \* bound on operations when the run has no operation limit
  Faults,         \* which of the failures below the environment may cause
  Defective,      \* the server answers arbitrarily
  Garbage,        \* the documents a defective server may answer with
  CustomOutcomes  \* what a caller-supplied scenario's Execute may return

FaultKinds == {"preflight", "setup", "network", "refusal", "verify", "report",
               "drop", "interrupt"}

Config == [scenario : Scenarios, mode : MergeModes, operations : Nat,
           duration : BOOLEAN, keepData : BOOLEAN, dumbo : BOOLEAN]

Document == [gen : Int, value : Int, token : Int, fields : [Workers -> Int],
             intact : BOOLEAN]

ASSUME RunnerAssumption ==
  /\ IsFiniteSet(Workers) /\ Workers # {}
  /\ Configs \subseteq Config
  /\ MaxIssued \in Nat
  /\ Faults \subseteq FaultKinds
  /\ Defective \in BOOLEAN
  /\ Garbage \subseteq Document
  /\ CustomOutcomes \subseteq Outcome

VARIABLES
  cfg,          \* the configuration, fixed for the run
  phase,        \* where main and RunWithFixture are
  interrupted,  \* the signal context is cancelled
  expired,      \* the deadline has passed
  stop,         \* the stop channel is closed and recordErr is set
  issued,       \* the atomic counter of reserved operations
  pc,           \* where each worker is in its loop
  loaded,       \* the value of issued a worker read in reserveOperation
  sequence,     \* the operation a worker executes, 0 between operations
  observed,     \* what the operation's read returned
  outcome,      \* what Execute returned
  totals,       \* the aggregate ledger
  causal,       \* the causal ledger
  acknowledged, \* disjointSetScenario.acknowledged
  doc,          \* the server's document
  commands,     \* updates on their way to the server
  reply,        \* the server's answer to each worker's update
  acked,        \* history: the updates acknowledged as matched
  truncated,    \* LifecycleResult.Truncated
  runError,     \* LifecycleResult.RunError is set
  verified,     \* the document Verify read
  checks,       \* LifecycleResult.Checks
  database,     \* the run's database: absent, present or dropped
  exitCode      \* the exit status of the process, -1 while it runs

workerVars == <<pc, loaded, sequence, observed, outcome>>
ledgerVars == <<totals, causal, acknowledged>>
serverVars == <<doc, commands, reply>>
resultVars == <<truncated, runError, verified, checks, database, exitCode>>
vars == <<cfg, phase, interrupted, expired, stop, issued, workerVars,
          ledgerVars, serverVars, acked, resultVars>>

Phases == {"start", "setup", "running", "drained", "reporting", "exited"}
Steps == {"admit", "load", "reserve", "execute", "delay", "update",
          "returned", "record", "done"}

Seed == SeedDocument(Workers)
NoDocument == [Seed EXCEPT !.intact = FALSE]
NoOutcome == PlainOutcome("unknown", FALSE, FALSE)
NoObservation == [gen |-> 0, token |-> 0]
Command == [sequence : Nat, worker : Workers, gen : Int, token : Int]

Init ==
  /\ cfg \in Configs
  /\ phase = "start"
  /\ interrupted = FALSE
  /\ expired = FALSE
  /\ stop = FALSE
  /\ issued = 0
  /\ pc = [w \in Workers |-> "admit"]
  /\ loaded = [w \in Workers |-> 0]
  /\ sequence = [w \in Workers |-> 0]
  /\ observed = [w \in Workers |-> NoObservation]
  /\ outcome = [w \in Workers |-> NoOutcome]
  /\ totals = EmptyTotals
  /\ causal = EmptyCausal
  /\ acknowledged = [w \in Workers |-> 0]
  /\ doc = NoDocument
  /\ commands = {}
  /\ reply = [w \in Workers |-> "none"]
  /\ acked = {}
  /\ truncated = FALSE
  /\ runError = FALSE
  /\ verified = NoDocument
  /\ checks = {}
  /\ database = "absent"
  /\ exitCode = -1

Goto(w, to) == pc' = [pc EXCEPT ![w] = to]

-----------------------------------------------------------------------------
(* Before the workers start.                                               *)

Exit(code) == phase' = "exited" /\ exitCode' = code

\* main rejects the configuration or the scenario before anything else.
RejectConfig ==
  /\ phase = "start"
  /\ ~ValidConfig(cfg)
  /\ Exit(2)
  /\ UNCHANGED <<cfg, interrupted, expired, stop, issued, workerVars, ledgerVars,
                 serverVars, acked, truncated, runError, verified, checks, database>>

\* Connecting, Ping or Identity fails, or a merge mode meets a server that is
\* not DumboDB: no Product, no report, nothing to finalize.
PreflightFails ==
  /\ phase = "start"
  /\ ValidConfig(cfg)
  /\ "preflight" \in Faults \/ interrupted \/ (cfg.mode # "none" /\ ~cfg.dumbo)
  /\ Exit(1)
  /\ UNCHANGED <<cfg, interrupted, expired, stop, issued, workerVars, ledgerVars,
                 serverVars, acked, truncated, runError, verified, checks, database>>

Preflight ==
  /\ phase = "start"
  /\ ValidConfig(cfg)
  /\ cfg.mode = "none" \/ cfg.dumbo
  /\ phase' = "setup"
  /\ UNCHANGED <<cfg, interrupted, expired, stop, issued, workerVars, ledgerVars,
                 serverVars, acked, resultVars>>

\* Creating the collection and inserting the seed document. The deadline is
\* set here, after Setup.
Setup ==
  /\ phase = "setup"
  /\ database' = "present"
  /\ doc' = Seed
  /\ phase' = "running"
  /\ UNCHANGED <<cfg, interrupted, expired, stop, issued, workerVars, ledgerVars,
                 commands, reply, acked, truncated, runError, verified, checks,
                 exitCode>>

\* CreateCollection or Setup fails, before or after the database exists.
SetupFails ==
  /\ phase = "setup"
  /\ "setup" \in Faults \/ interrupted
  /\ \E d \in {"absent", "present"} : database' = d
  /\ runError' = TRUE
  /\ phase' = "reporting"
  /\ UNCHANGED <<cfg, interrupted, expired, stop, issued, workerVars, ledgerVars,
                 serverVars, acked, truncated, verified, checks, exitCode>>

-----------------------------------------------------------------------------
(* The worker loop.                                                        *)

\* Bound of the model: without an operation limit only the deadline ends a
\* run, so at MaxIssued operations the workers wait for it to pass.
WithinBound ==
  cfg.operations > 0 \/ issued + Cardinality({v \in Workers : pc[v] = "load"}) < MaxIssued

\* Seeded defect: the deadline is not looked at.
AdmitIgnoringDeadline(w) ==
  /\ phase = "running"
  /\ pc[w] = "admit"
  /\ \/ /\ interrupted \/ stop
        /\ Goto(w, "done")
     \/ /\ ~(interrupted \/ stop)
        /\ WithinBound
        /\ Goto(w, "load")
  /\ UNCHANGED <<cfg, phase, interrupted, expired, stop, issued, loaded, sequence,
                 observed, outcome, ledgerVars, serverVars, acked, resultVars>>

\* Top of the loop: the select on ctx.Done and stop, then the deadline.
Admit(w) ==
  /\ phase = "running"
  /\ pc[w] = "admit"
  /\ \/ /\ interrupted \/ stop \/ expired
        /\ Goto(w, "done")
     \/ /\ ~(interrupted \/ stop \/ expired)
        /\ WithinBound
        /\ Goto(w, "load")
  /\ UNCHANGED <<cfg, phase, interrupted, expired, stop, issued, loaded, sequence,
                 observed, outcome, ledgerVars, serverVars, acked, resultVars>>

\* reserveOperation without a limit: one atomic Add.
ReserveUnlimited(w) ==
  /\ pc[w] = "load"
  /\ cfg.operations <= 0
  /\ issued' = issued + 1
  /\ sequence' = [sequence EXCEPT ![w] = issued + 1]
  /\ Goto(w, "execute")
  /\ UNCHANGED <<cfg, phase, interrupted, expired, stop, loaded, observed, outcome,
                 ledgerVars, serverVars, acked, resultVars>>

\* reserveOperation with a limit: the load of its compare-and-swap loop.
LoadIssued(w) ==
  /\ pc[w] = "load"
  /\ cfg.operations > 0
  /\ IF issued >= cfg.operations
       THEN Goto(w, "done") /\ UNCHANGED loaded
       ELSE Goto(w, "reserve") /\ loaded' = [loaded EXCEPT ![w] = issued]
  /\ UNCHANGED <<cfg, phase, interrupted, expired, stop, issued, sequence, observed,
                 outcome, ledgerVars, serverVars, acked, resultVars>>

\* Seeded defect: the counter is stored without comparing it first.
StoreIssued(w) ==
  /\ pc[w] = "reserve"
  /\ issued' = loaded[w] + 1
  /\ sequence' = [sequence EXCEPT ![w] = loaded[w] + 1]
  /\ Goto(w, "execute")
  /\ loaded' = [loaded EXCEPT ![w] = 0]
  /\ UNCHANGED <<cfg, phase, interrupted, expired, stop, observed, outcome,
                 ledgerVars, serverVars, acked, resultVars>>

\* Seeded defect: a worker that lost the race takes its reservation back.
SwapOrRelease(w) ==
  /\ pc[w] = "reserve"
  /\ IF issued = loaded[w]
       THEN /\ issued' = issued + 1
            /\ sequence' = [sequence EXCEPT ![w] = issued + 1]
            /\ Goto(w, "execute")
       ELSE /\ issued' = issued - 1
            /\ Goto(w, "load")
            /\ UNCHANGED sequence
  /\ loaded' = [loaded EXCEPT ![w] = 0]
  /\ UNCHANGED <<cfg, phase, interrupted, expired, stop, observed, outcome,
                 ledgerVars, serverVars, acked, resultVars>>

\* The compare-and-swap itself; a worker that lost the race loads again.
SwapIssued(w) ==
  /\ pc[w] = "reserve"
  /\ IF issued = loaded[w]
       THEN /\ issued' = issued + 1
            /\ sequence' = [sequence EXCEPT ![w] = issued + 1]
            /\ Goto(w, "execute")
       ELSE /\ Goto(w, "load")
            /\ UNCHANGED <<issued, sequence>>
  /\ loaded' = [loaded EXCEPT ![w] = 0]
  /\ UNCHANGED <<cfg, phase, interrupted, expired, stop, observed, outcome,
                 ledgerVars, serverVars, acked, resultVars>>

\* Execute returns to the loop.
Returns(w, o) == outcome' = [outcome EXCEPT ![w] = o] /\ Goto(w, "returned")

\* What a read returns: the document, or anything from a defective server.
Served == IF Defective THEN Garbage ELSE {doc}

\* Execute of a compare-and-set scenario: FindOne.
FindOne(w) ==
  /\ pc[w] = "execute"
  /\ ReadsFirst(cfg.scenario)
  /\ \E d \in Served :
       observed' = [observed EXCEPT ![w] = [gen |-> d.gen, token |-> d.token]]
  /\ Goto(w, "delay")
  /\ UNCHANGED <<cfg, phase, interrupted, expired, stop, issued, loaded, sequence,
                 outcome, ledgerVars, serverVars, acked, resultVars>>

\* FindOne or the delay after it fails: an outcome without causal fields.
ReadFails(w, because) ==
  /\ because
  /\ Returns(w, PlainOutcome("indeterminate", FALSE, TRUE))
  /\ UNCHANGED <<cfg, phase, interrupted, expired, stop, issued, loaded, sequence,
                 observed, ledgerVars, serverVars, acked, resultVars>>

FindOneError(w) ==
  /\ pc[w] = "execute" /\ ReadsFirst(cfg.scenario)
  /\ ReadFails(w, "network" \in Faults)

FindOneCancelled(w) ==
  /\ pc[w] = "execute" /\ ReadsFirst(cfg.scenario)
  /\ ReadFails(w, interrupted)

\* waitCASDelay returns the context's error.
DelayCancelled(w) ==
  /\ pc[w] = "delay"
  /\ ReadFails(w, interrupted)

\* UpdateOne leaves for the server, after the read and the delay in the
\* compare-and-set scenarios and at once in the others.
SendUpdate(w) ==
  /\ \/ pc[w] = "delay"
     \/ pc[w] = "execute" /\ cfg.scenario \in SetScenarios
  /\ commands' = commands \cup
       {[sequence |-> sequence[w], worker |-> w,
         gen |-> observed[w].gen, token |-> observed[w].token]}
  /\ Goto(w, "update")
  /\ UNCHANGED <<cfg, phase, interrupted, expired, stop, issued, loaded, sequence,
                 observed, outcome, ledgerVars, doc, reply, acked, resultVars>>

\* Seeded defect: the sequence is remembered whatever the server answered.
AcknowledgeAnyAnswer(w, o) ==
  IF cfg.scenario = "disjoint-set"
  THEN [acknowledged EXCEPT ![w] = sequence[w]]
  ELSE acknowledged

\* disjointSetScenario remembers the last sequence a worker saw matched.
Acknowledge(w, o) ==
  IF cfg.scenario = "disjoint-set" /\ o.kind = "matched"
  THEN [acknowledged EXCEPT ![w] = sequence[w]]
  ELSE acknowledged

\* UpdateOne returns: with the server's reply, or with an error that leaves
\* open whether the command is applied.
UpdateReturns(w, r) ==
  LET o == UpdateResult(cfg.scenario, r, sequence[w], observed[w].gen)
  IN  /\ pc[w] = "update"
      /\ Returns(w, o)
      /\ acknowledged' = Acknowledge(w, o)
      /\ acked' = acked \cup
           {a \in {[sequence |-> sequence[w], worker |-> w, observed |-> observed[w].gen]} :
              r \in {"modified", "matchedOnly"}}
      /\ reply' = [reply EXCEPT ![w] = "none"]
      /\ UNCHANGED <<cfg, phase, interrupted, expired, stop, issued, loaded, sequence,
                     observed, totals, causal, doc, commands, resultVars>>

UpdateAnswered(w) == reply[w] # "none" /\ UpdateReturns(w, reply[w])

UpdateError(w) == "network" \in Faults /\ UpdateReturns(w, "ambiguous")

\* Seeded defect: the update is sent with a context of its own.
UpdateDetached(w) == interrupted /\ reply[w] # "none" /\ UpdateReturns(w, "ambiguous")

\* The driver returns when the context is cancelled, also without an answer.
UpdateCancelled(w) == interrupted /\ UpdateReturns(w, "ambiguous")

\* Execute of a scenario supplied by the caller: any outcome at all.
CustomExecute(w) ==
  /\ pc[w] = "execute"
  /\ cfg.scenario = "custom"
  /\ \E o \in CustomOutcomes : Returns(w, o)
  /\ UNCHANGED <<cfg, phase, interrupted, expired, stop, issued, loaded, sequence,
                 observed, ledgerVars, serverVars, acked, resultVars>>

\* Seeded defect: the bound misses the operation that has just returned.
BoundBelow(w) ==
  /\ pc[w] = "returned"
  /\ outcome' = IF outcome[w].cas
                THEN [outcome EXCEPT ![w].bound = issued - 2] ELSE outcome
  /\ Goto(w, "record")
  /\ UNCHANGED <<cfg, phase, interrupted, expired, stop, issued, loaded, sequence,
                 observed, ledgerVars, serverVars, acked, resultVars>>

\* The runner bounds the observed generation by the operations issued so far.
BoundGeneration(w) ==
  /\ pc[w] = "returned"
  /\ outcome' = IF outcome[w].cas
                THEN [outcome EXCEPT ![w].bound = issued - 1] ELSE outcome
  /\ Goto(w, "record")
  /\ UNCHANGED <<cfg, phase, interrupted, expired, stop, issued, loaded, sequence,
                 observed, ledgerVars, serverVars, acked, resultVars>>

\* The locals of one iteration go out of scope.
Forget(w) ==
  /\ sequence' = [sequence EXCEPT ![w] = 0]
  /\ observed' = [observed EXCEPT ![w] = NoObservation]
  /\ outcome' = [outcome EXCEPT ![w] = NoOutcome]

\* Seeded defect: the worker that cannot record gives up quietly.
RecordOrGiveUp(w) ==
  /\ pc[w] = "record"
  /\ IF Recordable(outcome[w])
       THEN /\ totals' = Tally(totals, outcome[w])
            /\ causal' = RecordCausal(causal, outcome[w])
            /\ Goto(w, IF interrupted THEN "done" ELSE "admit")
       ELSE /\ Goto(w, "done")
            /\ UNCHANGED <<totals, causal>>
  /\ Forget(w)
  /\ UNCHANGED <<cfg, phase, interrupted, expired, issued, loaded, acknowledged, stop,
                 serverVars, acked, resultVars>>

\* Ledger.Record, and the loop's reaction to it: an outcome that cannot be
\* recorded closes the stop channel (once) and ends the worker.
Record(w) ==
  /\ pc[w] = "record"
  /\ IF Recordable(outcome[w])
       THEN /\ totals' = Tally(totals, outcome[w])
            /\ causal' = RecordCausal(causal, outcome[w])
            /\ Goto(w, IF interrupted THEN "done" ELSE "admit")
            /\ UNCHANGED stop
       ELSE /\ stop' = TRUE
            /\ Goto(w, "done")
            /\ UNCHANGED <<totals, causal>>
  /\ Forget(w)
  /\ UNCHANGED <<cfg, phase, interrupted, expired, issued, loaded, acknowledged,
                 serverVars, acked, resultVars>>

-----------------------------------------------------------------------------
(* The server and the driver's connection to it (external).                *)

\* The client of a command still waits for its answer.
Awaited(c) == /\ pc[c.worker] = "update"
              /\ sequence[c.worker] = c.sequence
              /\ reply[c.worker] = "none"

Answer(c, r) == reply' = IF Awaited(c) THEN [reply EXCEPT ![c.worker] = r] ELSE reply

ServerFrame ==
  UNCHANGED <<cfg, phase, interrupted, expired, stop, issued, workerVars, ledgerVars,
              acked, resultVars>>

\* One atomic single-document update.
ServerApply(c) ==
  /\ ~Defective
  /\ commands' = commands \ {c}
  /\ IF Filter(cfg.scenario, doc, c)
       THEN /\ doc' = Modification(cfg.scenario, doc, c)
            /\ Answer(c, IF Modification(cfg.scenario, doc, c) = doc
                         THEN "matchedOnly" ELSE "modified")
       ELSE Answer(c, "noMatch") /\ UNCHANGED doc
  /\ ServerFrame

\* The modes whose contract is that a refused write is replayed, not reported.
ReplayingModes == {"documentTouched", "documentDivergent"}

\* A definitive error: the command is not applied.
ServerRefuses(c) ==
  /\ ~Defective
  /\ "refusal" \in Faults
  /\ cfg.mode \notin ReplayingModes
  /\ commands' = commands \ {c}
  /\ Answer(c, "commandError")
  /\ UNCHANGED doc
  /\ ServerFrame

\* A command whose client stopped waiting never reaches the server.
ServerLoses(c) ==
  /\ ~Awaited(c)
  /\ commands' = commands \ {c}
  /\ UNCHANGED <<doc, reply>>
  /\ ServerFrame

\* A defective server answers whatever it likes; what it stores is seen
\* through its arbitrary reads.
ServerMisanswers(c) ==
  /\ Defective
  /\ commands' = commands \ {c}
  /\ \E r \in Replies \ {"ambiguous"} : Answer(c, r)
  /\ UNCHANGED doc
  /\ ServerFrame

-----------------------------------------------------------------------------
(* Signals and time.                                                       *)

Interrupt ==
  /\ "interrupt" \in Faults
  /\ phase # "exited"
  /\ ~interrupted
  /\ interrupted' = TRUE
  /\ UNCHANGED <<cfg, phase, expired, stop, issued, workerVars, ledgerVars,
                 serverVars, acked, resultVars>>

DeadlinePasses ==
  /\ phase = "running"
  /\ cfg.duration
  /\ ~expired
  /\ expired' = TRUE
  /\ UNCHANGED <<cfg, phase, interrupted, stop, issued, workerVars, ledgerVars,
                 serverVars, acked, resultVars>>

-----------------------------------------------------------------------------
(* After the workers.                                                      *)

\* workers.Wait returns; Truncated is read from the context, the record
\* error, the reserved/recorded comparison and Validate end the run early.
Drain ==
  /\ phase = "running"
  /\ \A w \in Workers : pc[w] = "done"
  /\ truncated' = interrupted
  /\ runError' = (stop \/ issued # totals.attempts \/ ~Balanced(totals))
  /\ phase' = IF runError' THEN "reporting" ELSE "drained"
  /\ UNCHANGED <<cfg, interrupted, expired, stop, issued, workerVars, ledgerVars,
                 serverVars, acked, verified, checks, database, exitCode>>

\* Scenario.Verify with its own context, then the progress checks.
Verify ==
  /\ phase = "drained"
  /\ \E d \in Served, steady \in BOOLEAN :
       /\ steady => totals.matched > 0
       /\ verified' = d
       /\ checks' = VerifyChecks(cfg, d, totals, causal, acknowledged)
                      \cup HotDocumentProgressChecks(cfg, steady)
  /\ phase' = "reporting"
  /\ UNCHANGED <<cfg, interrupted, expired, stop, issued, workerVars, ledgerVars,
                 serverVars, acked, truncated, runError, database, exitCode>>

\* The final state cannot be read within the verification context.
VerifyFails ==
  /\ phase = "drained"
  /\ "verify" \in Faults
  /\ runError' = TRUE
  /\ phase' = "reporting"
  /\ UNCHANGED <<cfg, interrupted, expired, stop, issued, workerVars, ledgerVars,
                 serverVars, acked, truncated, verified, checks, database, exitCode>>

RunVerdict == Verdict(runError, totals, checks, truncated)

\* Finalize: DropDatabase may fail, Disconnect follows either way.
Finalize(preserve) ==
  \/ /\ ~preserve
     /\ database' = "dropped"
  \/ /\ preserve \/ "drop" \in Faults
     /\ UNCHANGED database

\* The report is written and the process ends with the verdict's status.
Report ==
  /\ phase = "reporting"
  /\ Finalize(Preserve(cfg, truncated, runError, RunVerdict))
  /\ Exit(ResultExitCode(runError, RunVerdict))
  /\ UNCHANGED <<cfg, interrupted, expired, stop, issued, workerVars, ledgerVars,
                 serverVars, acked, truncated, runError, verified, checks>>

\* The report cannot be written: the database is kept, the status is 1.
ReportFails ==
  /\ phase = "reporting"
  /\ "report" \in Faults
  /\ Finalize(TRUE)
  /\ Exit(1)
  /\ UNCHANGED <<cfg, interrupted, expired, stop, issued, workerVars, ledgerVars,
                 serverVars, acked, truncated, runError, verified, checks>>

\* The process is gone; a command it left behind may still reach the server.
Exited == phase = "exited" /\ commands = {} /\ UNCHANGED vars

-----------------------------------------------------------------------------

Lifecycle ==
  \/ RejectConfig \/ Preflight \/ PreflightFails \/ Setup \/ SetupFails
  \/ Drain \/ Verify \/ VerifyFails \/ Report \/ ReportFails

\* What a goroutine does on its own once it holds what it waits for.
Proceed(w) ==
  \/ Admit(w) \/ ReserveUnlimited(w) \/ LoadIssued(w) \/ SwapIssued(w)
  \/ FindOneCancelled(w) \/ DelayCancelled(w) \/ SendUpdate(w)
  \/ UpdateAnswered(w) \/ UpdateCancelled(w) \/ CustomExecute(w)
  \/ BoundGeneration(w) \/ Record(w)

\* What it does when the network answers, or fails.
Network(w) == FindOne(w) \/ FindOneError(w) \/ UpdateError(w)

Server(c) ==
  ServerApply(c) \/ ServerRefuses(c) \/ ServerLoses(c) \/ ServerMisanswers(c)

Next ==
  \/ Lifecycle
  \/ \E w \in Workers : Proceed(w) \/ Network(w)
  \/ \E c \in commands : Server(c)
  \/ Interrupt
  \/ DeadlinePasses
  \/ Exited

SafetySpec == Init /\ [][Next]_vars

(***************************************************************************)
(* The Go scheduler runs every goroutine that can run, time passes, and    *)
(* the 30 second contexts of Verify and Finalize end. Preflight, Setup and *)
(* the operations have no timeout of their own: only the cancelled context *)
(* ends a wait for a server that does not answer.                          *)
(***************************************************************************)
Fairness ==
  /\ WF_vars(RejectConfig)
  /\ WF_vars(interrupted /\ (Preflight \/ PreflightFails \/ Setup \/ SetupFails))
  /\ WF_vars(Drain \/ Verify \/ VerifyFails \/ Report \/ ReportFails)
  /\ WF_vars(DeadlinePasses)
  /\ \A w \in Workers : WF_vars(Proceed(w))

Spec == SafetySpec /\ Fairness

\* A server that answers everything it is asked, sooner or later.
ServerResponds ==
  /\ WF_vars(Preflight \/ PreflightFails \/ Setup \/ SetupFails)
  /\ \A w \in Workers : WF_vars(FindOne(w))
  /\ WF_vars(\E c \in commands : Server(c))

-----------------------------------------------------------------------------
(* Properties.                                                             *)

\* Every variable of the run keeps its type: what main, RunWithFixture and the
\* ledger hold at any moment is one of the values declared for it.
TypeOK ==
  /\ cfg \in Configs
  /\ phase \in Phases
  /\ interrupted \in BOOLEAN /\ expired \in BOOLEAN /\ stop \in BOOLEAN
  /\ issued \in Nat
  /\ pc \in [Workers -> Steps]
  /\ loaded \in [Workers -> Nat]
  /\ sequence \in [Workers -> Nat]
  /\ observed \in [Workers -> [gen : Int, token : Int]]
  /\ outcome \in [Workers -> Outcome]
  /\ totals \in Totals
  /\ CausalOK(causal, issued)
  /\ acknowledged \in [Workers -> Nat]
  /\ doc \in Document
  /\ commands \subseteq Command
  /\ reply \in [Workers -> Replies \cup {"none"}]
  /\ acked \subseteq [sequence : Nat, worker : Workers, observed : Int]
  /\ truncated \in BOOLEAN /\ runError \in BOOLEAN
  /\ verified \in Document
  /\ database \in {"absent", "present", "dropped"}
  /\ exitCode \in {-1, 0, 1, 2, 3}

\* The workers with an operation reserved and not yet recorded.
Executing == {w \in Workers : sequence[w] # 0}

(***************************************************************************)
(* The runner loses no operation: what was reserved is recorded or is in   *)
(* the hands of a worker, the counters balance in every state, and an      *)
(* operation that could not be recorded leaves the two counts apart for    *)
(* good, so that the comparison after workers.Wait also sees it.           *)
(***************************************************************************)
Accounted ==
  /\ Balanced(totals)
  /\ ~stop => issued = totals.attempts + Cardinality(Executing)
  /\ stop => issued > totals.attempts + Cardinality(Executing)

(***************************************************************************)
(* reserveOperation hands out each sequence number once, in spite of the   *)
(* race between its load and its compare-and-swap, and never overshoots    *)
(* the configured limit (TestReserveOperationDoesNotOvershoot). A command  *)
(* left behind by an earlier operation still has a number of its own.      *)
(***************************************************************************)
SequencesUnique ==
  /\ cfg.operations > 0 => issued <= cfg.operations
  /\ \A v, w \in Executing : v # w => sequence[v] # sequence[w]
  /\ \A c, d \in commands : c # d => c.sequence # d.sequence

(***************************************************************************)
(* Against a server that applies every update atomically no hard check     *)
(* ever fails, whatever is interleaved, lost, delayed or interrupted: the  *)
(* bound on observed generations, the skipping of conservation checks and  *)
(* the causal ledger raise no false alarm. Two exceptions, both stated:    *)
(* the checks that look for a matched operation's mark in the document,    *)
(* when nothing matched at all, and the progress check, which is a matter  *)
(* of time.                                                                *)
(***************************************************************************)
MarkChecks == {"finalTokenMatchesIssuedOperation", "finalValueWasIssued",
               "finalValueBelongsToAcceptedOperation", "convergentValueRetained"}

NoFalseAlarm ==
  ~Defective =>
    \A c \in checks : ~c.passed /\ ~c.skipped =>
      \/ c.name = "hotDocumentMakesProgressThroughRun"
      \/ c.name \in MarkChecks /\ totals.matched = 0

Concluded == RunVerdict = "conclusivePass"

(***************************************************************************)
(* A conclusive pass is about a settled server: no command of the run is   *)
(* still on its way, so the document cannot change after Verify read it,   *)
(* no worker holds an operation, and nothing was cut short. Outcomes the   *)
(* client cannot prove must therefore never be counted as proven.          *)
(***************************************************************************)
ConclusionIsSettled ==
  Concluded => /\ commands = {}
               /\ ~Defective => doc = verified
               /\ Executing = {}
               /\ ~truncated

(***************************************************************************)
(* The run's database is dropped only after a conclusive pass of a run     *)
(* that was not asked to keep its data: a failed, interrupted or           *)
(* inconclusive run keeps its evidence, and status 0 means a conclusive    *)
(* pass was reported. An outcome that cannot be recorded is fatal: status  *)
(* 1 and the database kept, although the other workers went on until they  *)
(* saw the stop channel.                                                   *)
(***************************************************************************)
EvidencePreserved ==
  /\ database = "dropped" => Concluded /\ ~cfg.keepData /\ exitCode = 0
  /\ exitCode = 0 => Concluded
  /\ stop => exitCode \in {-1, 1} /\ database # "dropped" /\ ~Concluded

(***************************************************************************)
(* The causal tracker never has more slots than operations were issued,    *)
(* whatever generation a defective server claims was observed.             *)
(***************************************************************************)
TrackerBounded ==
  /\ DOMAIN causal.observedCounts \subseteq 0 .. issued - 1
  /\ DOMAIN causal.observedFirst = DOMAIN causal.observedCounts

(***************************************************************************)
(* Soundness of the oracles against a server that may do anything.         *)
(***************************************************************************)

SingleWinner ==
  \/ cfg.scenario = "cas" /\ cfg.mode \notin {"fieldDivergent", "documentDivergent"}
  \/ cfg.scenario \in {"uuid-cas", "divergent-cas", "whole-document-divergent"}

\* Every generation below v was the base of exactly one acknowledged update,
\* and no acknowledged update had any other base.
CompleteChain(v) ==
  /\ \A a \in acked : a.observed \in 0 .. v - 1
  /\ \A g \in 0 .. v - 1 : \E a \in acked : a.observed = g
  /\ \A a, b \in acked : a.observed = b.observed => a = b

(***************************************************************************)
(* A conclusive pass of a single-winner compare-and-set scenario proves    *)
(* that the acknowledged updates form one complete chain from the seed to  *)
(* the stored counter ("every integer generation from initial through      *)
(* final has one matched edge"): aggregate counts, the duplicate counter   *)
(* and the highest observed generation suffice for it.                     *)
(***************************************************************************)
ChainIsProved == Concluded /\ SingleWinner => CompleteChain(verified.gen)

(***************************************************************************)
(* Where convergent updates may coalesce, a conclusive pass proves that    *)
(* the generations acknowledged as observed are those below the stored     *)
(* counter: no gap, none outside the chain.                                *)
(***************************************************************************)
CoalescedChainIsProved ==
  Concluded /\ cfg.scenario \in {"cas", "whole-document-convergent"} /\ ~SingleWinner
    => {a.observed : a \in acked} = 0 .. verified.gen - 1

(***************************************************************************)
(* A conclusive pass of the unconditional scenarios proves that every      *)
(* acknowledged increment is counted once, and that each worker's field    *)
(* holds the last sequence acknowledged to that worker, or is absent.      *)
(***************************************************************************)
AcknowledgedWritesAreStored ==
  Concluded =>
    /\ cfg.scenario = "blind-inc" /\ cfg.mode \notin {"fieldDivergent", "documentDivergent"}
         => verified.gen = Cardinality(acked)
    /\ cfg.scenario = "disjoint-set" =>
         \A w \in Workers :
           LET mine == {a.sequence : a \in {b \in acked : b.worker = w}}
           IN  IF mine = {} THEN verified.fields[w] = 0
               ELSE verified.fields[w] \in mine /\ \A s \in mine : s <= verified.fields[w]

(***************************************************************************)
(* A conclusive pass of uuid-cas and divergent-cas proves that the mark in *)
(* the document was left by an acknowledged update.                        *)
(***************************************************************************)
FinalMarkIsAcknowledged ==
  Concluded /\ cfg.scenario \in {"uuid-cas", "divergent-cas"}
    => \E a \in acked : a.sequence = verified.value

(***************************************************************************)
(* What a document claims beyond the code; see the finding.                *)
(***************************************************************************)

\* concurrency-correctness-model.md: "final token equals the matched proposal
\* for the final generation" - the token is that of the last link of the chain.
FinalTokenClosesChain ==
  Concluded /\ cfg.scenario = "uuid-cas" /\ verified.gen > 0
    => \E a \in acked : a.sequence = verified.value /\ a.observed = verified.gen - 1

(***************************************************************************)
(* Liveness.                                                               *)
(***************************************************************************)

\* With a server that handles its commands the run ends: the workers drain
\* at the limit, the deadline or the stop channel, and nobody waits for
\* anybody.
RunEnds == ServerResponds => <>(phase = "exited")

\* An interrupt ends the run even if the server never answers again.
InterruptEndsRun == interrupted ~> phase = "exited"
=============================================================================
