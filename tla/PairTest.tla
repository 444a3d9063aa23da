------------------------------ MODULE PairTest ------------------------------
(***************************************************************************)
(* The parity suite: PairTest (harness/pair.go) and AuthPairTest           *)
(* (harness/auth_pair.go) run one case after the other against MongoDB and *)
(* DumboDB over clients made once (setup.go, auth.go), grade what the two  *)
(* servers answered with Compare, and the summary (report.go) counts the   *)
(* grades. Servers may crash and deadlines pass at any point.              *)
(***************************************************************************)
EXTENDS Integers, Sequences, FiniteSets

CONSTANTS Suites,                \* lists of cases
          CompareAnswers(_, _),  \* CompareResponses: does it say Match?
          MaxFaults              \* bound on crashes, expired deadlines and lost replies

Servers == {"mongo", "dumbo"}
Supports == {"Full", "MongoOnly", "XFail", "Deviates"}
Statuses == {"Pass", "Fail", "Skip", "XFail", "XPass", "Deviate"}

(* What Run returns: a result, an error of the server or, when the server is down or the
   deadline over, an error of the driver. One for a server that was not selected has a
   message that names the address; one for an operation already under way has the label
   NetworkError, or a text about the deadline, and is the same for both servers. *)
Value(v) == [kind |-> "value", of |-> v]
Refused == [kind |-> "refused", of |-> "server"]
Unreachable(s) == [kind |-> "unreachable", of |-> s]
NetworkError == [kind |-> "network", of |-> "driver"]
Answers == {Value("a"), Value("b"), Refused}
AnswersOf(s) == Answers \cup {NetworkError, Unreachable(s)}

(* A suite has cases; the Setup of an authentication case is a part of its Run. *)
ASSUME SuitesAssumption ==
  \A s \in Suites :
    /\ s \in Seq([support : Supports, auth : BOOLEAN, setup : BOOLEAN]) /\ s # << >>
    /\ \A c \in DOMAIN s : s[c].auth => ~s[c].setup
ASSUME FaultsAssumption == MaxFaults \in Nat

(* The comparison tells these answers apart. *)
ASSUME CompareAssumption ==
  \A m \in AnswersOf("mongo"), d \in AnswersOf("dumbo") : CompareAnswers(m, d) <=> m = d

VARIABLES cases,     \* the suite
          up,        \* the servers that run
          clients,   \* per kind of client: "unset", "ready", "error"
          admin,     \* the servers that have the admin user
          dbs,       \* databases left on the servers: [server, case]
          at,        \* the case that runs
          step,      \* its next step
          expired,   \* its context is over
          answer,    \* what Run returned, per server
          failed,    \* the cases whose test failed (t.Errorf, t.Fatalf)
          summary,   \* the status of each case that returned one
          faults,
          setups,    \* history: cases and servers whose Setup succeeded
          tested,    \* history: the answers of each case
          crashed,   \* history: the case during which DumboDB crashed, 0 for none
          late       \* history: the cases whose context was over before they were

pairVars == <<cases, up, clients, admin, dbs, at, step, expired, answer, failed, summary,
              faults, setups, tested, crashed, late>>

NoAnswer == [s \in Servers |-> Unreachable(s)]

Case == cases[at]
SettingUp == [mongo |-> "setup mongo", dumbo |-> "setup dumbo"]
Running == [mongo |-> "run mongo", dumbo |-> "run dumbo"]
Booting == [mongo |-> "boot mongo", dumbo |-> "boot dumbo"]
Reachable(s) == s \in up /\ ~expired

PairInit ==
  /\ cases \in Suites /\ up = Servers
  /\ clients = [k \in {"pair", "auth"} |-> "unset"]
  /\ admin \in SUBSET Servers /\ dbs = {}
  /\ at = 1 /\ step = "clients" /\ expired = FALSE /\ answer = NoAnswer
  /\ failed = {} /\ summary = << >> /\ faults = 0 /\ setups = {} /\ tested = {}
  /\ crashed = 0 /\ late = {}

Fault == faults < MaxFaults /\ faults' = faults + 1

(* t.Fatalf: the test fails, the deferred cleanup runs, no result is returned. *)
Fatal == failed' = failed \cup {at} /\ step' = "cleanup" /\ UNCHANGED summary

Returns(status) ==
  summary' = Append(summary, [case |-> at, status |-> status]) /\ step' = "cleanup"

-----------------------------------------------------------------------------
(* GetClients: the first call connects to both servers, and its outcome is
   everyone's. *)
GetClients ==
  \/ clients["pair"] # "unset" /\ UNCHANGED clients
  \/ /\ clients["pair"] = "unset"
     /\ clients' = [clients EXCEPT !["pair"] =
          IF \A s \in Servers : Reachable(s) THEN "ready" ELSE "error"]

Clients ==
  /\ step = "clients" /\ ~Case.auth
  /\ GetClients
  /\ IF clients'["pair"] = "ready" THEN step' = "alloc" /\ UNCHANGED <<failed, summary>>
     ELSE Fatal
  /\ UNCHANGED <<cases, up, admin, dbs, at, expired, answer, faults, setups, tested, crashed, late>>

(* TestDBForTopology's ping of DumboDB, with a deadline of its own *)
PingDumboDB == "dumbo" \in up

Alloc ==
  /\ step = "alloc"
  /\ IF PingDumboDB
     THEN /\ step' = IF Case.setup THEN "setup mongo" ELSE "run mongo"
          /\ UNCHANGED <<failed, summary>>
     ELSE Fatal
  /\ UNCHANGED <<cases, up, clients, admin, dbs, at, expired, answer, faults, setups, tested,
                 crashed, late>>

(* GetAuthClients: the first call bootstraps and connects as the admin, MongoDB
   first; its outcome is everyone's. *)
AuthClients ==
  /\ step = "clients" /\ Case.auth
  /\ CASE clients["auth"] = "unset" -> step' = "boot mongo" /\ UNCHANGED <<failed, summary>>
       [] clients["auth"] = "ready" -> step' = "run mongo" /\ UNCHANGED <<failed, summary>>
       [] clients["auth"] = "error" -> Fatal
  /\ UNCHANGED <<cases, up, clients, admin, dbs, at, expired, answer, faults, setups, tested,
                 crashed, late>>

(* bootstrapAdmin and connect: the user is created, or was there already; or
   createUser fails, its reply perhaps lost after it took effect. *)
Boot(s) ==
  /\ step = Booting[s]
  /\ \E created \in {"ok", "lost", "refused"} :
       /\ IF created = "ok" THEN UNCHANGED faults
          ELSE Fault /\ Reachable(s) /\ s \notin admin
       /\ admin' = IF Reachable(s) /\ created # "refused" THEN admin \cup {s} ELSE admin
       /\ IF Reachable(s) /\ created = "ok"
          THEN /\ step' = IF s = "mongo" THEN "boot dumbo" ELSE "run mongo"
               /\ clients' = IF s = "mongo" THEN clients ELSE [clients EXCEPT !["auth"] = "ready"]
               /\ UNCHANGED <<failed, summary>>
          ELSE Fatal /\ clients' = [clients EXCEPT !["auth"] = "error"]
  /\ UNCHANGED <<cases, up, dbs, at, expired, answer, setups, tested, crashed, late>>

-----------------------------------------------------------------------------
(* setup: MongoDB first, then DumboDB unless the case is MongoDB's alone. A
   failed Setup fails the test and is returned as StatusFail. *)
SetupUnchecked(s, ok) ==  \* Seeded defect: a failed Setup flows into the comparison.
  /\ setups' = IF ok THEN setups \cup {[case |-> at, server |-> s]} ELSE setups
  /\ UNCHANGED <<failed, summary>>
  /\ step' = IF s = "mongo" /\ Case.support # "MongoOnly" THEN "setup dumbo" ELSE "run mongo"

SetupEnds(s, ok) ==
  /\ setups' = IF ok THEN setups \cup {[case |-> at, server |-> s]} ELSE setups
  /\ IF ok THEN /\ UNCHANGED <<failed, summary>>
                /\ step' = IF s = "mongo" /\ Case.support # "MongoOnly"
                           THEN "setup dumbo" ELSE "run mongo"
     ELSE failed' = failed \cup {at} /\ Returns("Fail")

Setup(s) ==
  /\ step = SettingUp[s]
  /\ \E ok \in BOOLEAN :
       /\ ok => Reachable(s)
       /\ SetupEnds(s, ok)
  /\ dbs' = IF Reachable(s) THEN dbs \cup {[server |-> s, case |-> at]} ELSE dbs
  /\ UNCHANGED <<cases, up, clients, admin, at, expired, answer, faults, tested, crashed, late>>

(* Run on one server; an auth case may give up in its own Setup, by Fatalf. *)
Runs(s, next) ==
  /\ step = Running[s]
  /\ \/ /\ \E a \in AnswersOf(s) :
             /\ Reachable(s) <=> a \in Answers
             /\ answer' = [answer EXCEPT ![s] = a]
             /\ tested' = tested \cup {[case |-> at, server |-> s, got |-> a]}
        /\ step' = next
        /\ dbs' = IF Reachable(s) /\ ~Case.auth
                  THEN dbs \cup {[server |-> s, case |-> at]} ELSE dbs
        /\ UNCHANGED <<failed, summary>>
     \/ /\ Case.auth /\ Fatal
        /\ UNCHANGED <<answer, tested, dbs>>
  /\ UNCHANGED <<cases, up, clients, admin, at, expired, faults, setups, crashed, late>>

RunMongo == Runs("mongo", IF Case.support = "MongoOnly" THEN "grade" ELSE "run dumbo")
RunDumbo == Runs("dumbo", "grade")

Matches == CompareAnswers(answer["mongo"], answer["dumbo"])

(* MongoExpect wants "a", DumboExpect "b": what they do not find fails the test. *)
Expected == answer["mongo"] = Value("a") /\ answer["dumbo"] = Value("b")

Red(status) == Returns(status) /\ failed' = failed \cup {at}
Green(status) == Returns(status) /\ UNCHANGED failed

GradeXFail == IF Matches THEN Red("XPass") ELSE Green("XFail")

GradeDeviates == IF Expected THEN Green("Deviate") ELSE Red("Fail")

(* A MongoDB-only case that errors is StatusFail, and only logged. *)
GradeMongoOnly == Green(IF answer["mongo"].kind = "value" THEN "Skip" ELSE "Fail")

Grade ==
  /\ step = "grade"
  /\ CASE Case.support = "Full" -> IF Matches THEN Green("Pass") ELSE Red("Fail")
       [] Case.support = "XFail" -> GradeXFail
       [] Case.support = "Deviates" -> GradeDeviates
       [] Case.support = "MongoOnly" -> GradeMongoOnly
  /\ UNCHANGED <<cases, up, clients, admin, dbs, at, expired, answer, faults, setups, tested,
                 crashed, late>>

(* The deferred cleanup: both drops share a deadline that is not the case's. MongoDB's
   is the first, and a MongoDB that is down may use the deadline up. *)
Dropped(spent) ==
  {d \in dbs : ~(d.case = at /\ d.server \in up /\ (d.server = "dumbo" => ~spent))}

Cleanup ==
  /\ step = "cleanup"
  /\ \E spent \in BOOLEAN : (spent => "mongo" \notin up) /\ dbs' = Dropped(spent)
  /\ at' = at + 1 /\ expired' = FALSE /\ answer' = NoAnswer
  /\ step' = IF at = Len(cases) THEN "done" ELSE "clients"
  /\ UNCHANGED <<cases, up, clients, admin, failed, summary, faults, setups, tested, crashed, late>>

(* The environment: a server dies; the context of the running case is over. *)
ServerCrash(s) ==
  /\ s \in up /\ step # "done" /\ Fault
  /\ up' = up \ {s}
  /\ crashed' = IF s = "dumbo" THEN at ELSE crashed
  /\ UNCHANGED <<cases, clients, admin, dbs, at, step, expired, answer, failed, summary,
                 setups, tested, late>>

Expire ==
  /\ ~expired /\ step # "done" /\ Fault
  /\ expired' = TRUE /\ late' = late \cup {at}
  /\ UNCHANGED <<cases, up, clients, admin, dbs, at, step, answer, failed, summary, setups,
                 tested, crashed>>

SuiteDone == step = "done" /\ UNCHANGED pairVars

PairNext ==
  \/ Clients \/ AuthClients \/ Alloc \/ RunMongo \/ RunDumbo \/ Grade \/ Cleanup
  \/ Expire \/ SuiteDone
  \/ \E s \in Servers : Boot(s) \/ Setup(s) \/ ServerCrash(s)

PairSpec == PairInit /\ [][PairNext]_pairVars

-----------------------------------------------------------------------------
(* Summary.Add and HasUnexpectedFailures *)
CountOf(status) == Cardinality({i \in DOMAIN summary : summary[i].status = status})

HasUnexpectedFailures == CountOf("Fail") > 0 \/ CountOf("XPass") > 0

CaseSteps == {"clients", "boot mongo", "boot dumbo", "alloc", "setup mongo", "setup dumbo",
          "run mongo", "run dumbo", "grade", "cleanup", "done"}

TestResult == [case : DOMAIN cases, status : Statuses]

PairTypeOK ==
  /\ cases \in Suites /\ up \subseteq Servers /\ admin \subseteq Servers
  /\ clients \in [{"pair", "auth"} -> {"unset", "ready", "error"}]
  /\ dbs \subseteq [server : Servers, case : DOMAIN cases]
  /\ at \in 1 .. Len(cases) + 1 /\ step \in CaseSteps /\ expired \in BOOLEAN
  /\ answer \in [Servers -> AnswersOf("mongo") \cup AnswersOf("dumbo")]
  /\ failed \subseteq DOMAIN cases
  /\ summary \in Seq(TestResult)
  /\ faults \in 0 .. MaxFaults /\ setups \subseteq [case : DOMAIN cases, server : Servers]
  /\ tested \subseteq [case : DOMAIN cases, server : Servers,
                       got : AnswersOf("mongo") \cup AnswersOf("dumbo")]
  /\ crashed \in 0 .. Len(cases) /\ late \subseteq DOMAIN cases

CasesOver == 1 .. at - 1
Got(c, s) == {a \in AnswersOf(s) : [case |-> c, server |-> s, got |-> a] \in tested}

(* Nobody answered a case: it ran out of time, or both servers had crashed by its end. *)
Unserved(c) == c \in late \/ (up = {} /\ crashed <= c)

(* What a case that compares the servers is green for: its preconditions held on both
   and both answered as its support level demands. *)
ComparedAsMeant(c) ==
  LET support == cases[c].support
      m == Got(c, "mongo")
      d == Got(c, "dumbo")
  IN /\ cases[c].setup => \A s \in Servers : [case |-> c, server |-> s] \in setups
     /\ cases[c].auth => admin = Servers
     /\ Cardinality(m) = 1 /\ Cardinality(d) = 1
     /\ support = "Full" => m = d /\ (m \subseteq Answers \/ Unserved(c))
     /\ support = "XFail" => m # d
     /\ support = "Deviates" => m = {Value("a")} /\ d = {Value("b")}

Earned(c) ==
  /\ crashed # 0 /\ c > crashed => cases[c].auth
  /\ cases[c].support # "MongoOnly" => ComparedAsMeant(c)

(* A green case has earned it: its preconditions held on every server it compares
   and both servers answered as its support level demands, although a case goes
   on after a deadline or a crash and clients are shared by the whole suite. A FULL
   case whose two errors are network errors of the driver is green without an answer:
   then its own deadline was over or both servers had crashed, and a server that is
   alone in failing never is taken for one that answers. A MongoDB-only case compares
   nothing. Once DumboDB has crashed no later case over
   the shared clients is green, whatever its support level: a crash is never
   graded as the divergence an XFail case expects. A green summary has earned it
   too: no test failed that returned a result. *)
GreenIsEarned ==
  /\ \A c \in CasesOver \ failed : Earned(c)
  /\ ~HasUnexpectedFailures => \A i \in DOMAIN summary : summary[i].case \notin failed

(* While MongoDB runs, a case leaves no database on a server that runs, although its
   own context may be over when it ends and DumboDB may be down. *)
DatabasesDropped ==
  "mongo" \in up => \A d \in dbs : d.server \in up => d.case \notin CasesOver

(* A green case and a green summary have earned it (GreenIsEarned), and a case leaves
   nothing behind for the later ones (DatabasesDropped). *)
SuiteIsSound == GreenIsEarned /\ DatabasesDropped
=============================================================================
