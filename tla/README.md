# A TLA+ model of the DumboDB parity-testing harness

The repository tests DumboDB against MongoDB. Its verdicts are only worth what
its own logic is worth: a lost operation, a check that cannot fail or a check
that fails on a correct server makes a green or a red run meaningless. This
project models that logic, checks it with TLC on small instances and proves its
most important properties with TLAPS for all instances.

The deepest part is the concurrency-correctness command (`concurrency/`,
`cmd/concurrency/`), whose safety properties are all proved. So are those of the
replication harness and its workload, the server processes, the wire client and
the recording proxy, the transaction scenario, the storage measurement, the
performance gate (not its arithmetic), the parity suite (not its comparison) and the
campaign scripts. The merge matrix and the comparisons have models that are checked
only.

## 1. Inventory

| Component | State | Operations | Interacts with | What is hard | What makes it correct |
|---|---|---|---|---|---|
| Ledger (`concurrency/ledger.go`) | counters, per-generation counts and first winners, matched bits, findings | `Record`, `Snapshot`, `Validate`, `OperationMatched` | called by every worker under a mutex, read by `Verify` | saturation of a `uint8`, growth driven by server answers | counts balance; the causal ledger proves the chain; memory is bounded |
| Scenarios and oracles (`scenarios.go`, `scenario.go`, `report.go`) | last acknowledgement per worker | `Setup`, `Execute`, `Verify`, `Verdict` | driver, ledger | stale reads, ambiguous errors, checks skipped or not | no false alarm on a correct server; a pass proves what the documents say |
| Runner and command (`runner.go`, `config.go`, `main.go`) | reservation counter, stop channel, deadline, context, result | reserve, execute, record, drain, verify, report, finalize | all of the above | races in the reservation, interrupts, record errors, late commands | every operation accounted for; evidence kept; the run ends |
| Transaction scenario (`transaction_scenario.go`) | outcome per operation | batches in a transaction, visit of all documents | driver sessions | lost commit replies | batches atomic and durable |
| Merge matrix (`field_divergent_matrix.go`) | last merge response | branch, commit, merge, compare | DumboDB branch commands | rows x modes; errors read as conflicts | each row's expectation is the mode's three-way merge |
| Replica set (`harness/replicaset.go`, `dumbomember.go`, `failover.go`, `replicasettls.go`) | member list, processes, client pool, configuration | start, initiate, join, reconfigure, kill, restart, step down, tear down | mongod and dumbodb processes | elections between two reads, partial joins, lost reconfigurations, cleanup order | the list and the configuration agree; no process is left behind |
| Convergence and grading (`converge.go`, `replicacase.go`) | watermark, samples, captured states | wait, control, grade | replica set | stale primary, watermark across terms, rollback | a subject is never blamed for a fault of the control; a pass is earned |
| State comparison (`statecompare.go`, `negativecontrol.go`) | captured states | capture, diff, corrupt | replica cases | what may differ and what may not | no divergence exactly when the states are the same |
| Replication workload (`workload.go`) | coverage counters, workers | run, record | primary, replica cases | workers deleting each other's documents, failed and lost calls | what is counted as having reached the oplog did |
| Server processes (`servers.go`, `setup.go`, `restart.go`, `tlslab.go`) | spawned processes, ports, data directories | provision, restart, refuse, stop | every test | half-started servers, port races, refused restarts | everything started is stopped; a restart keeps its data |
| Pair tests (`pair.go`, `auth_pair.go`, `compare.go`, `report.go`) | summary counts, shared clients | run on both servers, compare, grade | shared clients | normalisation before comparison, a server that crashes half-way | a grade agrees with the test's own failure |
| Performance gate (`benchmarks/cmd/perfgate`) | samples per benchmark, two servers | shard, calibrate, sample, confirm, judge | servers | restarts in mid-run, selection of suspects | each benchmark in one shard; paired samples; a rank test that is exact but for ties |
| Storage measurements (`storage/`) | last size | collect, measure until settled | backends | a compaction beside the measurement | the least size seen is reported |
| Wire client (`wire/conn.go`) | request ids, last reply, traffic totals | send, read, exhaust | a server | malformed replies, deadlines in mid-message | a reply belongs to its request; totals add up |
| Wire proxy (`cmd/wirecompress`) | pending requests, recorded messages, label | pump in both directions, record, group | client and server sockets | a reply that overtakes its registration | each reply is named for its request |
| Campaign scripts (`scripts/concurrency`) | reports on disk, tallies | loop, suite, burst | the command | reports and exit codes that mean several things | a pass is a pass of this iteration |
| TLS and auth fixtures, run statistics, benchmarks, data generators | files, flags, data | generate | servers | - | see section 7 |

`PROJECT.json` lists every component with its status, and under `hazards` what
is hard to test in each, at its line.

## 2. Modules

    Ledger  <-  Oracle  <-  Runner  <-  MCRunner (TLC instances)
                               ^
                          RunnerProofs

* **Ledger** - the two ledgers as values and pure operators: `Tally` and
  `Recordable` are `Ledger.Record`, `RecordEdge`/`RecordInvalid` are
  `causalLedger.record`, `Balanced` is `Validate`, `UniqueObserved` and
  `OperationMatched` are what the snapshot offers. `Record` and the causal
  record run under `accountingMu`, so one step replaces both values. Slices are
  functions on `0 .. k-1`; the bit set is a set. The constants `CounterCap` (255
  in the code) and `MaxErrorSamples` (20) are parameters. Latency buckets, error
  texts and the worker numbers in findings are left out.
* **Oracle** - the scenarios: what each writes (`SeedDocument`, `Filter`,
  `Modification`), how an answer becomes an outcome (`UpdateOutcome`,
  `UpdateResult`), each check of each `Verify`, the verdict, the exit status and
  the decision to keep the database. One record stands for the contended
  document of every scenario. A UUID is the sequence it is derived from
  (`uuidToken` is a hash of it); a negative token is data that is no UUID.
* **Runner** - the state machine. `Workers` goroutines go through `admit`,
  `load`/`reserve` (the compare-and-swap loop of `reserveOperation`, in two
  steps), `execute`, `delay`, `update`, `returned`, `record`; around them `main`
  and `RunWithFixture` go through `start`, `setup`, `running`, `drained`,
  `reporting`, `exited`. `acked` is a history variable: the updates a worker saw
  acknowledged as matched. It is read by properties only.

  The server is not part of the repository and is modelled by what the driver
  shows of it. An update is a command on its way until the server applies it
  (`ServerApply`, atomically), refuses it (`ServerRefuses`) or, once its client
  is gone, loses it (`ServerLoses`); a client whose context is cancelled, or
  whose connection fails, stops waiting (`UpdateCancelled`, `UpdateError`) and
  leaves the command behind, which may be applied at any later time, also after
  the process has exited. With `Defective` the server answers reads with any
  document in `Garbage` and updates with any reply: the oracles are then tested
  as detectors. `documentTouched` and `documentDivergent` are the modes in which
  the server's contract is to replay a refused write, so there it does not
  answer with a refusal. `"custom"` is a `Scenario` that a caller of `Run`
  supplies; its outcomes come from `CustomOutcomes` and may be unrecordable.

  Abstractions: the random delay is an interleaving; `Verify`'s two reads
  (document and payload) are one, as nothing of the run writes the payload; the
  driver's own retry of a write is part of the command's flight; preflight and
  setup may succeed or fail after an interrupt. The one second of grace after an
  interrupt gives no guarantee and is therefore no restriction.
* **MCRunner** - configurations, outcomes and garbage documents for TLC.

The other components are modules of their own.

    OpTime <- ConvergeSpec            what a wait promises
       ^---- Converge                 implements ConvergeSpec (KeepsPromise)
       ^---- ReplicaCase              uses a wait by that promise
    PerfStats <- PerfGate             Compare, the comparison MCJudgement gives PairTest
    ReplicaSet    StateCompare    Workload    Processes
    WireConn      WireProxy       Settle
    Transaction   MergeMatrix     Campaign

    ConvergeProofs, ReplicaCaseProofs, ReplicaSetProofs, ProcessesProofs:
        each extends the module it is named after
    JudgementProofs:  Workload, Settle, PerfGate, PairTest
    ScenarioProofs:   Campaign, Transaction
    WireProofs:       WireConn, WireProxy

MCConverge and MCReplicaCase instantiate one component each. The others are instantiated in groups: **MCJudgement** (PairTest, Workload,
PerfGate, Settle, PerfStats, Compare, StateCompare),
**MCServers** (ReplicaSet, Processes), **MCScenarios** (MergeMatrix, Transaction,
Campaign) and **MCWire** (WireConn, WireProxy). The members of a group share no state and do not call each other, so
the group is their sum and not their product: the variable `part` (`tool` in
MCWire) says of which component a behaviour is. A group extends the components
there are theorems about, so that TLC evaluates their assumptions and checks the
very properties the theorems state; these stay in an initial state while another
component runs. The others are instantiated, their variables stay 0 meanwhile, and
a property of the group is the component's own property in its part. MCPerfStats,
MCCompare and MCStateCompare hold the reference definitions the pure operators are
compared with.

* **ConvergeSpec, Converge** - `WaitConverged`. The abstract module has one
  watermark and the members' highest positions since the wait began; the
  detailed one has every round trip (who is primary, how far it is, each member
  of each pass, the diagnosis after the deadline) with elections and rollback in
  between. The mapping hides the passes and the samples.
* **ReplicaCase** - `ReplicaTest`: seed, join, concurrent clone, workload,
  control, grade. The set is external: logs, elections by majority, rollback,
  members that are not SECONDARY for a while. A write is acknowledged when a
  majority has the entry that the primary wrote for it, and only by that primary
  in that term: one that steps down fails the writes it still owes a reply, and
  is no longer PRIMARY when asked. `Watermark` is two calls, as in the code: one
  finds the primary, the next asks that member for its position, and the set may
  elect another in between. From there on the wait is used by its promise. A
  capture is the log a member holds, or fails and ends the test; a case of the
  level Deviates, which `gradeSubject` does not know, ends in a fatal error.
* **ReplicaSet** - starting or adopting a set, bootstrap of users, joining and
  leaving of DumboDB members, stop, start, kill, step-down, reconfiguration with
  read, change and write as three steps, cleanups last one first. A
  reconfiguration whose client gave up may be applied late or never.
* **StateCompare** - capture, diff and the corruptions as operators on typed
  values; MCStateCompare holds the reference equality.
* **Workload** - the workers of `Workload.Run`, the vocabulary by kind, the
  coverage and the tests' judgement of it. The server is external and keeps the
  ids and collection names only. `changes` is a history variable: the attempts
  that did change the server. An operation whose command fails without a result
  and that reads the result all the same ends the process (`panicked`);
  `UpdateMany` and `DeleteMany` do get a result when the server answered with an
  error of the write, and then record a failure.
* **Processes** - `freePort` with its probe, `startProc`, `waitPort`, refusal,
  restart and stop of four kinds of servers in one test binary, beside other
  programs that take ports. Which kinds the servers are is chosen in `Init`.
* **Compare, PairTest** - the normalisation and comparison of responses and
  errors; the cases of every support level and the authentication cases over
  clients made once, with crashes and deadlines; grading, summary. `CompareResponses`
  is a parameter of PairTest that says whether two answers match; MCJudgement gives it
  the operator of Compare on the responses that the answers stand for. An error of the
  driver for a server that cannot be reached names that server (`Unreachable`), or is
  the one of an operation under way: labelled a network error, or about the deadline,
  and the same for both servers (`NetworkError`). Both drops of a
  case's cleanup share one deadline, and a MongoDB that is down may use it up before
  DumboDB's turn.
* **PerfStats, PerfGate** - median, rank test, `judge`, shards; calibration,
  rounds, replacement of servers, confirmation, verdicts, exit code. A benchmark
  that takes too long leaves its server `busy`, or dead; `stop()` is steps of its
  own (SIGTERM, the wait or SIGKILL, removal of the directory), also for the
  deferred stops of a round, and `born` is the round a server was started for. Every list of
  names is kept sorted in the code, so a round goes through the shard's benchmarks
  in order and skips those it does not sample. Times are whole numbers, a p-value is
  a pair of counts.
* **WireConn, WireProxy** - the client and the recording proxy. Byte layouts are
  abstracted to sizes, codecs left out. `Unknown` is the empty command name.
* **Transaction, MergeMatrix** - the two scenarios that do not use the causal
  ledger. The driver's `WithTransaction` and the server's three-way merge are
  external. A transaction's documents are those of its batch; documents that belong
  to no operation are counted (`invalid`), and one of the defective servers stores
  such documents.
* **Settle** - `settledDirBytes` beside a compaction that may keep a collection
  from removing files; the files that may go are the sum of their bytes, of which
  a collection beside a compaction leaves any part.
* **Campaign** - `weekend-loop.sh`, `suite.sh`, `burst.sh`, `run.sh`. A run of
  the command is one of the pairs of exit code and report that `main` produces;
  `wrote` is a history variable, what this iteration's run really wrote, and
  `caught` says that this iteration's bursts ended with a CAUGHT.

## 3. Runs

Each run asks one question; its invariants and temporal properties are the parts
of the answer. State counts are of distinct states.

| Run | Instance | Shows |
|---|---|---|
| `lifecycle` (MCRunner, 1.4 million) | three workers, two or three operations, every scenario, every failure, an interrupt anywhere, a correct server | `TypeOK`, `Accounted`, `SequencesUnique`; `EvidencePreserved`: no database is dropped unless a written report says it was a conclusive pass; `NoFalseAlarm`; `ConclusionIsSettled`: no pass is concluded over a document a late command can still change |
| `defective_server` (MCRunner, 1.7 million) | two workers; the server answers reads with any document, updates with any reply; generations from -1 to one past the limit | `ChainIsProved`, `CoalescedChainIsProved`, `FinalMarkIsAcknowledged`, `AcknowledgedWritesAreStored`: what a conclusive pass proves all the same; `TrackerBounded` |
| `run_ends` (MCRunner, 17 thousand) | two workers, runs limited by operations and by time | `RunEnds`, `InterruptEndsRun` |
| `converge` (MCConverge, 340 thousand) | two members, three positions in two terms, every list of addresses | `KeepsPromise`: the refinement of ConvergeSpec; `SlowMeansAdvanced`; `WaitEnds` |
| `replica_case` (MCReplicaCase, 1.3 million) | three mongods, so that a deposed primary holds entries that roll back; one election, also between the two calls of `Watermark`; captures that fail; cases of every support level; a busy member; a subject that may lose writes | `NoFalseDivergence`, `ControlMatches`, `GradeIsEarned`, `CaseEnds` |
| `servers` (MCServers, 2.7 million) | own and adopted sets, two mongods, three joining members, four operations, each step failing, another client, late and lost reconfigurations; two servers of different kinds, the two that restart and each of them beside one that does not, three ports, a foreign program that takes ports, one restart | `ViewIsCurrent`, `LeftBehindIsReported`, `NoLostReconfig`; `PortsNeverShared`, `NothingLeaks` |
| `judgement` (MCJudgement, 3.2 million) | four cases of all support levels and two authentication cases, two faults anywhere; two workers over every ordered pair of the 21 kinds of operation with failed commands, lost replies and cancellation; two benchmarks over three rounds with every failure; all lists of up to three samples, five benchmarks in three shards; sizes on both sides of both tolerances; all pairs of small responses, errors and server states; the seeded corpus corrupted once and twice | `SuiteIsSound` (`GreenIsEarned` and `DatabasesDropped`); `CompleteOrError`, `CountedOpsAreJudgedRight`; `VerdictsAreSound`, `CleanServer`; `ArithmeticIsRight`; `LeastIsReported`; `CompareIsExact`; `DiffIsExact` |
| `scenarios` (MCScenarios, 590 thousand) | 27 rows, four server modes, two workers, two faults; three transactions, a correct and four defective servers, three faults; three iterations of the loop, a case of each expectation, three bursts | `MatrixIsSound`: no row accuses a correct server, passes on a lost reply or fits two modes; `TransactionsJudgedRight`; `TallyFitsReports` |
| `wire` (MCWire, 2.9 million) | three commands of three forms and two of any form, one fault anywhere; one workload beside a streaming monitor, one broken connection | `ReplyIsMine`, `TrafficAddsUp`; `RecordIsTrue` |
| `uuid_final_token` (MCRunner), `stale_report`, `stale_catch` (MCScenarios) | as above | what a document or a comment claims and the code does not do; see section 5 |

**Bounds.** They are the smallest in which the case a property is about occurs.
Two workers are enough for a race in the reservation, for a duplicate match of
one generation and for a command left behind by one worker while another goes
on; the third adds one that neither wins nor fails. Three operations give a
chain with an inner link, a duplicate plus a gap, and a saturated counter
(`CounterCap = 1`, `MaxErrorSamples = 1`, so that both limits are met).
`MaxIssued` bounds runs without an operation limit. Elsewhere one or two faults
are enough since each is taken at every point, and there are as many iterations,
commands or terms as stale data needs to be made, kept and read. Symmetry is used
over workers and over joining members, in safety runs only. In `defective_server`
each scenario is answered with the documents its oracle could mistake. That a
member asked for the watermark is deposed and has rolled entries back takes a second
election in `replica_case`; the run has one, the theorem has any number.

Each property of a passing run has a seeded defect (a definition next to the one
it stands in for, marked "Seeded defect") that makes TLC report it violated.

Two exceptions are stated in Runner's `NoFalseAlarm` itself: the checks that look
for a mark in the document when nothing matched, and the progress check, which is
about wall-clock time (the model lets it come out either way).

### Fairness

`run_ends`: `Fairness` asks only for what the Go runtime and the code's own
timeouts give: goroutines that can run do, time passes the deadline, the contexts
of `Verify` and `Finalize` end after 30 seconds. Preflight, `Setup` and the
operations have no timeout: nothing is assumed of them except after a
cancellation, which the driver honours. Under that, an interrupt ends the run
even if the server is silent (`InterruptEndsRun`). That the run ends by itself
needs a server that answers, and `RunEnds` says so: its premise is
`ServerResponds`. Without it a hung server holds the run past its deadline,
because the deadline is only looked at between operations.

`converge` and `replica_case` ask for less: the harness's own goroutines take
their next step (a call on a member returns because its context ends) and the
deadline of a wait passes; members and elections may stop for ever.

## 4. Proofs

The theorems are about `SafetySpec` (`Spec`, `TxnSpec`, `ProxySpec`, `SettleSpec`,
`GateSpec`, `PairSpec`, `ProcSpec` where a module states no fairness) and hold for every value of
the constants that satisfies the named assumptions of the module. The assumptions type the constants
and exclude what the code excludes: `CounterCap` is positive, there is a worker and
there are finitely many, a set has a mongod, no name is used for two things, a
workload's operations are of the vocabulary and its command has a name, a suite's
cases are pass, xfail or skip, there is at least one measuring pass, a shard lists
no benchmark twice, a parity suite has cases. One is about code: the comparison of
PairTest says Match of equal answers and no others (`CompareAssumption`), where an
answer is a value, a refusal, the error of a driver that cannot reach its server, which
names the server and carries no label, or the labelled network error of an operation
under way, which is equal for both servers: `CompareErrors` counts labels as structure
and then ignores the texts. TLC evaluates the assumption in `judgement` for the operator
of Compare, on every pair of answers of the model.

* **RunnerProofs**, the lifecycle - `TypeCorrect` and `TrackerIsBounded`. The inductive
  invariant is `TypeOK /\ BoundIsCurrent`: the bound a worker holds between
  `BoundGeneration` and `Record` is below the current reservation count. That is
  what keeps the slices within it, since the count only grows.
  `OperationsAccounted` and `ReservationsUnique`: `Accounted` alone is not
  inductive; that a worker at `execute`..`record` holds a number, that others hold
  none (`NumbersHeld`), that a loaded count is below the limit
  (`LoadedBelowLimit`) and that a command on its way has a number that was issued
  and not given to another operation (`CommandsSent`) are needed.
* **RunnerProofs**, the chains - `ChainProved`, `CoalescedChainProved`, `FinalMarkProved`.
  `LedgerCausal` relates the causal ledger to the history of acknowledged
  updates: which generations have a positive count, what the duplicate counter,
  the edge counter and the matched set say about it. `SettledInv` says that the
  checks were computed from a ledger that no longer changes. From these, the
  checks of a conclusive pass leave `matched` bases, pairwise different, in
  `0 .. version-1` with `version = matched`: by the pigeonhole principle they
  cover the range.
* **RunnerProofs**, the verdict - `EvidenceKept`: outside the running phase no worker moves
  (`WorkersStill`), so the verdict the drop is decided by is the one of the
  report. `ConclusionSettled`: a command that nobody waits for has left an
  indeterminate outcome, recorded or about to be (`CommandsOpen`), and such an
  outcome forbids a conclusive pass; so after one nothing is on its way and the
  document is the one that was read. `AcknowledgedStored`: the ledger counts the
  recorded acknowledgements (`MatchedCounted`) and the numbers of one worker grow
  (`NumbersGrow`), so the one `disjoint-set` remembers is its last.
* **RunnerProofs**, the alarms - `NoAlarmIsFalse`, over all scenarios. The invariant speaks of
  the writes the server granted: those acknowledged and those whose answer still
  waits for its worker. An update that returns moves its write from one half to
  the other, so only the server changes the whole. `DocumentTrue` relates the
  stored document to the granted writes, scenario by scenario; `CommandsTrue` says
  what a command on its way may still do, `CausalTrue` and `KindsTrue` relate the
  ledgers to the granted writes; each check of each `Verify` follows from them.
* **ConvergeProofs** - `PromiseKept`: `Converge` implements `ConvergeSpec`, every
  step being an abstract step or a stutter. The invariant says that if all
  addresses polled in this pass counted, each was at or past the watermark at some
  time since it was set (`Counted`), which survives a rollback. `SlowAdvanced`
  rests on the first sample being no lower than the lowest position (`Remembered`)
  and on `OpTime.Compare` being a strict total order (`LessOrder`).
* **ProcessesProofs** - `PortsDistinct`: whoever holds a port has it from the set
  of issued ports, which never gives one out twice (`PortsInv`). `NothingLeaked`:
  a process exists from its spawn to its stop (`ProcessInv`), and without one
  nothing is on disk that the kind's cleanup would not remove (`DirInv`).
* **ReplicaSetProofs** - `NoReconfigLost`: a configuration on its way is based on
  the current one or too old to be accepted, and one that is accepted outdates
  all others (`ConfigInv`). `ViewCurrent`: while the test goes on no reply was
  lost, so list and configuration agree (`ViewInv`); the id `nextMemberID` picks
  is above all ids because every set of members has a highest one
  (`HighestExists`; stated for all subsets, since it must survive removals).
  `LeftBehindReported`: a member is gone for good, or reported, or still in the
  list of cleanups (`GoneInv`, `HostsInv`).
* **ReplicaCaseProofs** - `PassEarned`, `DivergenceReal`, `ControlSound`, for any
  number of mongods and elections. `SetInv` is what the logs of such a set have in
  common: terms do not decrease, logs that agree on the term of a place agree up
  to it, a primary has every entry of its term. `Chosen` entries are those a
  majority has and every log that reaches as far; no step takes that from them
  (`Kept`): an elected member reaches as far as a majority, two majorities meet
  (`MajoritiesMeet`), and a rolled back suffix contains none, since the primary
  has them all (`PrimaryHas`). An acknowledged write is `Chosen`
  (`CommittedIsBacked`), so the member `Watermark` finds to be the primary has them
  all, and keeps them if it is deposed before it is asked for its position and
  rolls other entries back (`WaitInv`). Its position is therefore not before any of
  them (`BackedIsDue`), a member past it has them all and keeps
  them until it is captured (`PastIsSure`, `SureInv`). A capture of a stock member is then exactly the
  writes of the case, one of the subject these without what it lost
  (`CaptureInv`).
* **JudgementProofs**, the workload - `NilIsComplete`, `CountsAreTheTruth`. `WInv`
  follows each worker through its list: where it stands fits the calls it made
  (`Steps`), what it is about to record is what its operation did (`Truth`), `ran`
  of an operation is the number of recorded places that hold it (`Tally`), and an
  operation that reports its changes is counted as it ended, a failed attempt with
  or without a change of the server (`Counted`). `Run`
  returns nil when every worker is through (`Finished`); every operation has then
  run once for each place it has in the list, worker and pass, which is counted by
  a bijection between the recorded places and pairs of pass and place.
* **JudgementProofs**, the settled size - `LeastReported`. `SettleInv`: the size
  reported is the least of the readings so far (`LeastIsKept`), no reading is below
  the live bytes and one without leftovers is equal to them (`LiveIsFloor`).
* **JudgementProofs**, the performance gate - `GateVerdictsAreSound`,
  `GateServersAreClean`. `SamplesPaired` says how many samples each build of a
  benchmark that did not fail has at every point of a round: as many as there were
  rounds, one more once its place in the list is past, and between its two runs one
  more on the build that goes first in this round. `RoundsCounted` fixes the rounds
  still to come in either pass, `OthersAcquitted` that whoever the second pass does
  not sample is no regression and stays none, and `HeadFailuresKept` that a failed
  run on head is recorded and keeps its benchmark in the report. `judge` is opaque
  in these proofs, except that an error on head comes first: the verdicts are sound
  for any test of two lists. A server that is at abandoned work or has been told to
  end is one perfgate is stopping, and while it stops one it runs nothing; any other
  that is up was started for the round (`ServersStopped`).
* **JudgementProofs**, the parity suite - `SuitesAreSound`.
  `PairInv` follows a case through its steps: it runs only on servers it is prepared
  for (`Prepared`: the admin users are there once the shared clients are ready, the
  Setups of a compared case succeeded), the answers graded are those recorded
  (`AnswersKnown`), and after a crash of DumboDB a case over the shared clients goes no
  further than the ping (`CrashNoticed`). A network error is recorded only of a case
  that is over its deadline or of a server that has crashed (`Explained`), so two equal ones are of a
  case that nobody could answer (`Unserved`). A case about to be cleaned up without a
  failure has therefore earned its grade (`AllEarned`) and keeps it, since nothing is
  recorded of a case ahead or over (`NothingAhead`). That a failed case with a result
  makes the summary red is counted in the summary's list (`FailuresAreCounted`).
* **ScenarioProofs**, the campaign - `TallyIsTrue`. The tally is about the
  iterations that are over (`Tallied`), a case is judged by the report it left
  (`JudgedByItsReport`), the suite by its cases, and a catch makes its iteration fail
  (`CatchFails`). A burst with a failed report is a catch, and one with another report
  is none (`BurstIsItsReport`); of a burst without a report the theorem says nothing,
  since `stale_catch` shows that it may be announced as one.
* **ScenarioProofs**, the transactions - `TransactionsSound`. An operation is held
  by one worker or recorded (`HeldOnce`, `NoneForgotten`); a correct server holds a
  batch whole or not at all, whole if it was acknowledged and not at all if it was
  rejected (`ServerCorrect`). That a pass is earned, by whatever server, is a
  counting argument: all outcomes are matches, every matched batch is whole, so all
  batches are stored; the check of the other documents leaves none (`NoStray` for the
  correct server).
* **WireProofs**, the client - `RepliesAreMine`: as long as no call failed the
  stream between two commands is empty or ends, and within one it holds the replies
  to this command from where the reader is (`Tidy`); the history agrees
  (`Remembers`). `TotalsAddUp`: every total is the sum over the messages sent and
  read so far (`RequestTotals`, `ReplyTotals`). The sums are recursive functions;
  their one step is proved by induction in a form that takes a set instead of a
  predicate (`LeastOfNaturals`, `SetInduction`).
* **WireProofs**, the proxy - `RecordsAreTrue`. What arrived in a direction is what
  was recorded and the one message its pump holds (`InOrder`). The order in which
  pumps register and look up is open, so the invariant is about numbers: requests
  of a connection are numbered in order (`RequestsNumbered`), the replies on the
  workload's connection answer the request of their own number (`AnswersMatch`,
  from counting the answers given: `FirstsCounted`), and a registered command is
  that of the request with its number (`PendingIsRight`). A lookup that comes too
  early finds nothing, one that finds something finds the right command
  (`RightCommand`), so a record is rightly named or has no name (`AllNamed`).

Four models were corrected because of a proof. `Committed` in ReplicaCase
counted any majority that holds a write: an entry of an earlier term, copied to a
majority and then rolled back, passed for acknowledged. With three elections (the
run has one) `ControlMatches` was violated. A primary that steps down does not
acknowledge, and the definition now says so. Removing a member from the list
removed every occurrence of it where `removeMember` removes the first. PairTest let
the cleanup drop the databases of every running server, where a dead MongoDB can use
up the deadline both drops share; `DatabasesDropped` now claims no more than the code
does. And some
CASE expressions, in Converge, Campaign, Compare, PerfGate and StateCompare, had
arms that overlap: TLA+ leaves open which one is taken, the code's `if` chain does
not. Others were only written differently so that they can be reasoned about: the
leftovers of Settle were a set of sizes to be summed, what PerfGate samples was a
list selected from a list (the prover cannot expand `SelectSeq`) and is now a set, records updated field by
field in Workload and Transaction are written out, and the empty string, which the
prover's translation cannot tell from others, has a name (`Unknown`,
`"unrecorded"`).

Left to TLC:

* liveness (`RunEnds`, `InterruptEndsRun`, `WaitEnds`, `CaseEnds`), which is out of
  the prover's reach;
* `CompareIsExact`, `DiffIsExact`, `ArithmeticIsRight`: `Compare` and `StateCompare`
  recurse over nested values, `PerfStats` counts ranks recursively, and what such a
  definition computes needs induction over data;
* `MatrixIsSound`: MergeMatrix is a table of 27 rows, and the property a statement
  about that finite data, which TLC evaluates completely.

## 5. Disagreements between documents and code

Three are runs that expect a violation, quoted in `PROJECT.json`:

* `uuid_final_token`: `docs/concurrency-correctness-model.md` wants the final
  token of uuid-cas to be the proposal matched for the final generation; the code
  accepts any acknowledged operation's token.
* `stale_report`: `suite.sh` says that a run without a report is no evidence;
  reports are never removed, and one left by an earlier iteration classifies it.
* `stale_catch`: `burst.sh` says that a catch is only a conclusive failed verdict and a
  runner error is none; when the command writes no report, the failed one of an earlier
  iteration makes it a catch.

The others were met while modelling. The models follow the code, and the
properties leave room for exactly what the code does, so no run shows them:

* same-set: `docs/concurrency-correctness.md:144` wants the final value to
  identify an acknowledged write; the code accepts any issued sequence
  (`scenarios.go:799`).
* An interruption before the first match fails a uuid-cas run with status 1
  instead of making it inconclusive (`scenarios.go:148`); identical-set counts a
  run of only indeterminate operations as failed when none was applied
  (`scenarios.go:553`).
* `ReplicaTest`: the subject is in the list `AnySecondary` looks through and can
  become its own reference (`replicacase.go:185`); after a failover the control
  can compare a member with itself (`replicacase.go:191`).
* perfgate says "base failed" of a benchmark that head may never have run
  (`perfgate/main.go:406`).
* `slowerPValue` rounds half a win up (`perfgate/stats.go:43`), so that ties make p
  smaller: one tied sample on each side gives 1/2. Its comment calls ties approximate
  (`perfgate/stats.go:21`). `ArithmeticIsRight` asks for exactness without ties and, with
  them, for a p between those of a head that wins and of one that loses them all.
* Two errors with labels match whatever their texts (`compare.go:148`), and equal errors
  about a deadline match as well (`compare_test.go:93`): a FULL case is green when both
  servers failed with the driver's network error. `GreenIsEarned` admits it where the
  case's deadline was over or both servers had crashed.
* The diff of states ignores the order of the keys of a compound index; `DiffIsExact` does
  not cover it, no compound index being in its bounds.
* `normalize` makes an ObjectID equal to the string of its hex digits
  (`compare.go:290`).
* A foreign listener on an issued port, or the probe of another `freePort` call,
  passes for the server that exited (`tlslab.go:617`, `servers.go:375`); a refused
  restart removes the data directory (`tlslab.go:234`).
* A checksummed command with a compressor is missing from two traffic totals
  (`conn.go:257`); `TrafficAddsUp` names the exception.
* The proxy registers, records and labels a message after it forwarded it
  (`proxy.go:142`, `proxy.go:149`), and the snapshot does not wait for the pumps.
* A MongoDB-only case that errors counts as a divergence (`pair.go:111`); an XFail
  case fails when its Setup does (`pair.go:136`).
* The cleanup that "drops both databases" (`setup.go:129`) tries MongoDB first, under
  the deadline of both (`setup.go:157`): after a crash of MongoDB the database on
  DumboDB may stay.
* An applied merge whose reply is lost is recorded as rejected
  (`field_divergent_matrix.go:217`); an indeterminate commit that took effect
  fails txn-commit-race (`transaction_scenario.go:107`).
* A workload operation that found nothing to change and reports no count passes
  for one that reached the oplog (`workload.go:433`); an update or delete of one
  document that fails, or any that fails without a result, dereferences it
  (`workload.go:488`).
* Two readings during a compaction count as a settled store (`metrics.go:94`).
* A server that does not start is logged by `weekend-loop.sh` as a caught defect
  (`burst.sh:58`).

## 6. Plan

1. A server that merges behind the commands of `Runner`, mode by mode, so that the
   mode-specific oracles are checked against more than an atomic server.
2. The comparison without recursion over values (a normal form by paths), so that
   `CompareIsExact` can be proved.

## 7. Not modelled

* Run statistics: confidence intervals in floating point that no decision reads.
* Benchmarks, their comparison and the data generators: timed loops, formatting
  and deterministic data; no shared state, no decision.
* The contents of certificates, key files, user documents and server flags.
* `server.sh`, `doctor.sh` and the reproduction scripts; the storage backends'
  single commands; report layouts and logging everywhere.
* The servers themselves, the driver and the kernel's ports are external: they
  are modelled only as far as the harness sees them.
