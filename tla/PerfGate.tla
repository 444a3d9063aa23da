------------------------------ MODULE PerfGate ------------------------------
(***************************************************************************)
(* perfgate (benchmarks/cmd/perfgate/main.go, server.go): calibrate every  *)
(* benchmark, sample it round by round on fresh servers of both builds,    *)
(* sample suspected regressions again, judge, and exit with 0, 1 or 2.     *)
(* One run of a benchmark is one step; its result is the environment's. A  *)
(* run that takes too long leaves its server at work, and stop() takes it  *)
(* down in steps.                                                          *)
(***************************************************************************)
EXTENDS PerfStats

CONSTANTS Benches,         \* the shard's benchmarks, in order
          Times,           \* the times a run can take
          Samples,         \* -samples
          ConfirmSamples,  \* -confirm-samples
          MaxCrashes       \* bound: servers that die while idle

(* assignShard returns a list without repetitions, and rounds are counted. *)
ASSUME BenchesAssumption == Benches \in Seq(Range(Benches)) /\ IsInjective(Benches)
ASSUME RoundsAssumption == {Samples, ConfirmSamples, MaxCrashes} \subseteq Nat

VARIABLES phase,    \* "calibrate", "calibrated", "open", "sample", "closing", "done"
          stage,    \* "first" or "confirm"
          round,    \* *round, 0 while calibrating
          left,     \* rounds left in this call of sampleRounds
          sampled,  \* what this call samples
          todo,     \* what is left of the benchmarks in this round
          turn,     \* which build of the order is next
          results,  \* results, kept says whether it is in the map
          server,   \* what each target's port serves
          born,     \* the round in whose directory it was started
          stopping, \* the targets whose stop() is called
          timedOut, \* the client of the running benchmark was killed
          exit,     \* os.Exit
          crashes,
          headRuns  \* history: how head's runs of a benchmark ended

serverVars == <<server, born, stopping, timedOut>>
gateVars == <<phase, stage, round, left, sampled, todo, turn, results, serverVars, exit,
              crashes, headRuns>>

Builds == {"base", "head"}
Listed == Range(Benches)

(* "busy": still executing work whose client was killed; "ending": told to terminate
   and still there; "dead": gone, its directory left *)
ServerStates == {"none", "up", "busy", "ending", "dead"}
Outcomes == {"ok", "skip", "error", "timeout", "crash"}

BenchResult == [kept : BOOLEAN, base : Seq(Times), head : Seq(Times),
                baseError : BOOLEAN, headError : BOOLEAN]

Fresh == [kept |-> FALSE, base |-> << >>, head |-> << >>,
          baseError |-> FALSE, headError |-> FALSE]

GateInit ==
  /\ phase = "calibrate" /\ stage = "first" /\ round = 0 /\ left = Samples
  /\ sampled = Listed /\ todo = Benches /\ turn = 1
  /\ results = [b \in Listed |-> Fresh]
  /\ server = [t \in Builds |-> "none"] /\ born = [t \in Builds |-> 0]
  /\ stopping = {} /\ timedOut = FALSE /\ exit = -1 /\ crashes = 0
  /\ headRuns = [b \in Listed |-> {}]

Failed(r) == r.baseError \/ r.headError
ServerAlive(t) == server[t] \in {"up", "busy", "ending"}

Order == IF round % 2 = 0 THEN <<"head", "base">> ELSE <<"base", "head">>

(* sampleRound goes through the names it is given, in order, and leaves out those
   that failed. *)
Skipped(b) == b \notin sampled \/ Failed(results[b])

(* The build that runs the next benchmark, when perfgate is not about to stop one *)
Target == IF phase = "sample" THEN Order[turn] ELSE IF turn = 1 THEN "base" ELSE "head"

Due ==
  /\ phase \in {"calibrate", "sample"} /\ todo # << >> /\ stopping = {}
  /\ phase = "sample" => ~(turn = 1 /\ Skipped(Head(todo)))

(* ensure: a server that is not alive is replaced by one with an empty directory. *)
Restart ==
  /\ Due /\ ~timedOut /\ ~ServerAlive(Target)
  /\ server' = [server EXCEPT ![Target] = "up"]
  /\ born' = [born EXCEPT ![Target] = round]
  /\ UNCHANGED <<phase, stage, round, left, sampled, todo, turn, results, stopping, timedOut,
                 exit, crashes, headRuns>>

(* A server that cannot be started is fatal; what runs is stopped on the way out. *)
CannotStart ==
  /\ \/ Due /\ ~timedOut /\ ~ServerAlive(Target)
        /\ server' = [server EXCEPT ![Target] = "none"]
     \/ phase = "open" /\ left > 0 /\ UNCHANGED server
     \/ phase = "open" /\ left > 0 /\ server' = [server EXCEPT !["base"] = "up"]
  /\ phase' = "done" /\ exit' = 2 /\ stopping' = Builds
  /\ UNCHANGED <<stage, round, left, sampled, todo, turn, results, born, timedOut, crashes,
                 headRuns>>

(* runBenchmark kills the client when its time is over, and target.run stops the server. *)
TimesOutKept ==  \* Seeded defect: a timed-out server is kept.
  /\ Due /\ ~timedOut /\ ServerAlive(Target)
  /\ timedOut' = TRUE /\ UNCHANGED stopping
  /\ \E s \in {"busy", "dead"} : server' = [server EXCEPT ![Target] = s]
  /\ UNCHANGED <<phase, stage, round, left, sampled, todo, turn, results, born, exit,
                 crashes, headRuns>>

TimesOut ==
  /\ Due /\ ~timedOut /\ ServerAlive(Target)
  /\ timedOut' = TRUE /\ stopping' = {Target}
  /\ \E s \in {"busy", "dead"} : server' = [server EXCEPT ![Target] = s]
  /\ UNCHANGED <<phase, stage, round, left, sampled, todo, turn, results, born, exit,
                 crashes, headRuns>>

-----------------------------------------------------------------------------
(* stop(), head's first: SIGTERM, the wait for the end, after 15 seconds SIGKILL and the
   wait again, and the directory is removed. *)
Stopping == IF "head" \in stopping THEN "head" ELSE "base"

Terminate ==
  /\ stopping # {} /\ server[Stopping] \in {"up", "busy"}
  /\ server' = [server EXCEPT ![Stopping] = "ending"]
  /\ UNCHANGED <<phase, stage, round, left, sampled, todo, turn, results, born, stopping,
                 timedOut, exit, crashes, headRuns>>

Exited ==
  /\ stopping # {} /\ server[Stopping] = "ending"
  /\ server' = [server EXCEPT ![Stopping] = "dead"]
  /\ UNCHANGED <<phase, stage, round, left, sampled, todo, turn, results, born, stopping,
                 timedOut, exit, crashes, headRuns>>

RemoveDir ==
  /\ stopping # {} /\ server[Stopping] \in {"dead", "none"}
  /\ server' = [server EXCEPT ![Stopping] = "none"]
  /\ stopping' = stopping \ {Stopping}
  /\ UNCHANGED <<phase, stage, round, left, sampled, todo, turn, results, born, timedOut,
                 exit, crashes, headRuns>>

-----------------------------------------------------------------------------
(* runBenchmark is over, on t: a server that is down when its client has failed is
   noticed by the next ensure. *)
Ran(t, b, o) ==
  /\ IF timedOut THEN o = "timeout" ELSE o # "timeout" /\ ServerAlive(t)
  /\ timedOut' = FALSE
  /\ server' = IF o = "crash" THEN [server EXCEPT ![t] = "dead"] ELSE server
  /\ headRuns' = IF t = "head" THEN [headRuns EXCEPT ![b] = @ \cup {o}]
                 ELSE headRuns
  /\ UNCHANGED <<born, stopping>>

(* calibrateIterations: base first; head only when base fails. *)
Calibrate(o) ==
  LET b == Head(todo)
      t == Target
      fails == o \in {"error", "timeout", "crash"}
      more == turn = 1 /\ fails
  IN /\ phase = "calibrate" /\ Due
     /\ Ran(t, b, o)
     /\ results' = [results EXCEPT
          ![b].kept = ~more /\ o # "skip",
          ![b].baseError = @ \/ (t = "base" /\ fails),
          ![b].headError = @ \/ (t = "head" /\ fails)]
     /\ turn' = IF more THEN 2 ELSE 1
     /\ todo' = IF more THEN todo ELSE Tail(todo)
     /\ UNCHANGED <<phase, stage, round, left, sampled, exit, crashes>>

Kept == {b \in Listed : results[b].kept}

(* The deferred stops, after calibration and after a round *)
Close ==
  /\ phase \in {"calibrate", "sample"} /\ todo = << >>
  /\ phase' = IF phase = "calibrate" THEN "calibrated" ELSE "closing"
  /\ stopping' = Builds
  /\ UNCHANGED <<stage, round, left, sampled, todo, turn, results, server, born, timedOut, exit,
                 crashes, headRuns>>

Calibrated ==
  /\ phase = "calibrated" /\ stopping = {}
  /\ sampled' = Kept
  /\ round' = 1
  /\ phase' = "open"
  /\ UNCHANGED <<stage, left, todo, turn, results, serverVars, exit, crashes, headRuns>>

(* sampleRound *)
OpenRound ==
  /\ phase = "open" /\ left > 0
  /\ server' = [t \in Builds |-> "up"] /\ born' = [t \in Builds |-> round]
  /\ todo' = Benches /\ turn' = 1 /\ phase' = "sample"
  /\ UNCHANGED <<stage, round, left, sampled, results, stopping, timedOut, exit, crashes,
                 headRuns>>

Skip ==
  /\ phase = "sample" /\ todo # << >> /\ turn = 1
  /\ Skipped(Head(todo))
  /\ todo' = Tail(todo)
  /\ UNCHANGED <<phase, stage, round, left, sampled, turn, results, serverVars, exit,
                 crashes, headRuns>>

(* After a failure the other build is not run; it may have been run before. *)
NextTurn(o) ==
  LET on == o = "ok" /\ turn = 1
  IN /\ turn' = IF on THEN 2 ELSE 1
     /\ todo' = IF on THEN todo ELSE Tail(todo)

RecordSample(t, b, o, time) ==
  IF o = "ok"
  THEN IF t = "base" THEN [results EXCEPT ![b].base = Append(@, time)]
       ELSE [results EXCEPT ![b].head = Append(@, time)]
  ELSE IF t = "base" THEN [results EXCEPT ![b].baseError = TRUE]
       ELSE [results EXCEPT ![b].headError = TRUE]

Sample(o, time) ==
  LET b == Head(todo)
      t == Target
  IN /\ phase = "sample" /\ Due
     /\ Ran(t, b, o)
     /\ results' = RecordSample(t, b, o, time)
     /\ NextTurn(o)
     /\ UNCHANGED <<phase, stage, round, left, sampled, exit, crashes>>

(* judge: an error on head counts before one on base. *)
JudgeBaseFirst(r) ==  \* Seeded defect: a failing base hides a failing head.
  IF r.baseError THEN "base failed"
  ELSE IF r.headError THEN "HEAD FAILED" ELSE Judgement(r.base, r.head)

Judge(r) ==
  IF r.headError THEN "HEAD FAILED"
  ELSE IF r.baseError THEN "base failed" ELSE Judgement(r.base, r.head)

Regressed == \E b \in Kept : Judge(results[b]) \in {"REGRESSION", "HEAD FAILED"}

Suspects == {b \in sampled : Judge(results[b]) = "REGRESSION"}

EndRound ==
  /\ phase = "closing" /\ stopping = {}
  /\ round' = round + 1 /\ left' = left - 1
  /\ phase' = "open"
  /\ UNCHANGED <<stage, sampled, todo, turn, results, serverVars, exit, crashes, headRuns>>

(* When the rounds are over the suspects have some more, or the report is written,
   which may fail. *)
Confirming == stage = "first" /\ Suspects # {} /\ ConfirmSamples > 0

Confirm ==
  /\ phase = "open" /\ left = 0 /\ Confirming
  /\ stage' = "confirm" /\ sampled' = Suspects /\ left' = ConfirmSamples
  /\ UNCHANGED <<phase, round, todo, turn, results, serverVars, exit, crashes, headRuns>>

Report ==
  /\ phase = "open" /\ left = 0 /\ ~Confirming
  /\ phase' = "done" /\ exit' \in {IF Regressed THEN 1 ELSE 0, 2}
  /\ UNCHANGED <<stage, round, left, sampled, todo, turn, results, serverVars, crashes, headRuns>>

(* A server dies between two runs. *)
Crash(t) ==
  /\ server[t] = "up" /\ crashes < MaxCrashes
  /\ server' = [server EXCEPT ![t] = "dead"]
  /\ crashes' = crashes + 1
  /\ UNCHANGED <<phase, stage, round, left, sampled, todo, turn, results, born, stopping,
                 timedOut, exit, headRuns>>

GateDone == phase = "done" /\ stopping = {} /\ UNCHANGED gateVars

GateNext ==
  \/ \E o \in Outcomes : Calibrate(o)
  \/ \E o \in Outcomes, time \in Times : Sample(o, time)
  \/ Restart \/ CannotStart \/ TimesOut \/ Terminate \/ Exited \/ RemoveDir
  \/ Close \/ Calibrated \/ OpenRound \/ Skip \/ EndRound \/ Confirm \/ Report
  \/ \E t \in Builds : Crash(t)
  \/ GateDone

GateSpec == GateInit /\ [][GateNext]_gateVars

GateTypeOK ==
  /\ phase \in {"calibrate", "calibrated", "open", "sample", "closing", "done"}
  /\ stage \in {"first", "confirm"} /\ round \in Nat /\ left \in Nat
  /\ sampled \subseteq Listed /\ todo \in Seq(Listed) /\ turn \in {1, 2}
  /\ results \in [Listed -> BenchResult]
  /\ server \in [Builds -> ServerStates] /\ born \in [Builds -> Nat]
  /\ stopping \subseteq Builds /\ timedOut \in BOOLEAN /\ exit \in {-1, 0, 1, 2}
  /\ crashes \in 0 .. MaxCrashes /\ headRuns \in [Listed -> SUBSET Outcomes]

(* The verdicts of perfgate are sound. The two lists that judge compares hold one
   sample of every round: a failure on one build never leaves the other with a
   sample more, unless the benchmark is out of the comparison. A regression is only
   reported on the samples of both passes together. The exit status is 0 only if no
   run on head failed, in calibration or in any round, whatever happened on base.
   No server outlives the round it was started for. *)
VerdictsAreSound ==
  /\ phase \in {"open", "done"} /\ exit # 2 =>
       \A b \in Kept : ~Failed(results[b]) =>
         /\ Len(results[b].base) = Len(results[b].head)
         /\ (stage = "first" \/ b \in sampled) =>
              Len(results[b].head) = IF round = 0 THEN 0 ELSE round - 1
  /\ phase = "done" /\ exit # 2 =>
       \A b \in Kept : Judge(results[b]) = "REGRESSION" =>
         Len(results[b].head) = Samples + ConfirmSamples
  /\ exit = 0 => \A b \in Listed : headRuns[b] \cap {"error", "timeout", "crash"} = {}
  /\ phase = "open" \/ (phase = "done" /\ stopping = {}) => \A t \in Builds : server[t] = "none"

(* What a sample says about the build alone: its server was started for this round, on
   an empty directory, and neither executes work that was abandoned nor is being stopped. *)
Clean(t) == server[t] = "up" /\ born[t] = round

(* A sample is taken only from a clean server, although a benchmark that took too long
   leaves its server at work, servers die between and during runs, and stop() gives up the
   port and the directory only when the old process is gone. *)
CleanServer ==
  [][\A b \in Listed : /\ results'[b].base # results[b].base => Clean("base")
                       /\ results'[b].head # results[b].head => Clean("head")]_gateVars
=============================================================================
