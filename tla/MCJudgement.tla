---------------------------- MODULE MCJudgement ----------------------------
(***************************************************************************)
(* How the harness judges, each part on its own: a suite of pair tests,    *)
(* the coverage of a replication workload, the settled size of a store and *)
(* the performance gate, whose modules this one extends, the gate's        *)
(* arithmetic, the comparison of two responses and of two servers' states. *)
(* They share no state, so a behaviour is of one of them, and the first    *)
(* four stay in an initial state in the others'; the arithmetic and the    *)
(* comparisons judge an input and have no steps, except for the            *)
(* corruptions of the negative control.                                    *)
(***************************************************************************)
EXTENDS Workload, Settle, PerfGate, PairTest

CONSTANTS w1, w2  \* the goroutines of a workload

VARIABLES
  part,   \* "pairs", "workload", "gate", "settle", "statistics", "responses",
          \* "states" or "control"
  input

judgeVars == <<part, input, vars, pairVars, gateVars, storeVars>>

Pair(support, setup) == [support |-> support, auth |-> FALSE, setup |-> setup]
Auth(support) == [support |-> support, auth |-> TRUE, setup |-> FALSE]

(* Every support level, with and without Setup, over both kinds of clients; and two
   cases over the clients with credentials, whose bootstrap is the first one's. *)
Mixed == <<Pair("Full", TRUE), Pair("XFail", FALSE), Auth("Deviates"), Pair("MongoOnly", TRUE)>>
Auths == <<Auth("Full"), Auth("Deviates")>>

PairSuites == {Mixed, Auths}

(* Every ordered pair of operations, equal ones included: the fuzz tests' lists
   repeat names. *)
OperationPairs == StandardVocabulary \X StandardVocabulary

TwoBenches == <<"Find", "Insert">>

Statistics == INSTANCE MCPerfStats WITH
  MaxSamples <- 3, MaxTime <- 3, MaxBenches <- 5, MaxShards <- 3

Responses == INSTANCE MCCompare WITH IgnoredFields <- {"operationTime"}, MillisTolerance <- 5

(* CompareResponses on the answers of PairTest: a string, a command error, or an error of
   the driver, whose message names the server and which may be a command error without
   a code that is labelled *)
ResultOf(a) == Responses!Str(IF a.kind = "value" THEN a.of ELSE "nil")
ErrorOf(a, s) ==
  CASE a.kind = "value" -> Responses!None
    [] a.kind = "refused" -> [Responses!None EXCEPT !.kind = "command", !.codes = <<1>>]
    [] a.kind = "network" -> [Responses!None EXCEPT !.kind = "command", !.codes = <<0>>,
                                                    !.labels = <<"NetworkError">>, !.msg = s]
    [] a.kind = "unreachable" -> [Responses!None EXCEPT !.kind = "other", !.msg = s]
Compared(m, d) == Responses!CompareResponses(ResultOf(m), ErrorOf(m, "mongo"),
                                             ResultOf(d), ErrorOf(d, "dumbo"))

States == INSTANCE MCStateCompare

-----------------------------------------------------------------------------
NoTests == cases = Auths /\ admin = {} /\ PairInit
NoWork == ops = <<"insertOne", "insertMany">> /\ Init
NoStore == live = 0 /\ garbage = 0 /\ compacting = "over" /\ SettleInit

NoSuite == NoTests /\ NoWork

JudgeInit ==
  \/ part = "pairs" /\ PairInit /\ input = 0 /\ NoWork /\ GateInit /\ NoStore
  \/ part = "workload" /\ Init /\ input = 0 /\ NoTests /\ GateInit /\ NoStore
  \/ part = "gate" /\ GateInit /\ input = 0 /\ NoSuite /\ NoStore
  \/ part = "settle" /\ SettleInit /\ input = 0 /\ NoSuite /\ GateInit
  \/ part = "statistics" /\ Statistics!Init /\ NoSuite /\ GateInit /\ NoStore
  \/ part = "responses" /\ Responses!Init /\ NoSuite /\ GateInit /\ NoStore
  \/ part = "states" /\ States!PairInit /\ NoSuite /\ GateInit /\ NoStore
  \/ part = "control" /\ States!ControlInit /\ NoSuite /\ GateInit /\ NoStore

Judged == part \in {"statistics", "responses", "states", "control"} /\ UNCHANGED judgeVars

JudgeNext ==
  \/ part = "pairs" /\ PairNext /\ UNCHANGED <<part, input, vars, gateVars, storeVars>>
  \/ part = "workload" /\ Next /\ UNCHANGED <<part, input, pairVars, gateVars, storeVars>>
  \/ part = "gate" /\ GateNext /\ UNCHANGED <<part, input, pairVars, vars, storeVars>>
  \/ part = "settle" /\ SettleNext /\ UNCHANGED <<part, input, pairVars, vars, gateVars>>
  \/ part = "control" /\ States!Control /\ UNCHANGED <<part, pairVars, vars, gateVars, storeVars>>
  \/ Judged

JudgeSpec == JudgeInit /\ [][JudgeNext]_judgeVars

-----------------------------------------------------------------------------
(* PerfStats: the rank test is exact but for ties, where it stays between the exact values
   of head winning and losing them; the verdict is fair, the shards a partition. *)
ArithmeticIsRight == part = "statistics" => Statistics!ArithmeticIsRight

(* Compare: responses and errors match exactly when they are the same. *)
CompareIsExact == part = "responses" => Responses!CompareIsExact

(* StateCompare: a divergence is reported exactly when there is one. *)
DiffIsExact == part \in {"states", "control"} => States!DiffIsExact
=============================================================================
