----------------------------- MODULE ReplicaCase -----------------------------
(***************************************************************************)
(* One replication case: ReplicaTest (harness/replicacase.go). A set of    *)
(* stock mongods is started and seeded, DumboDB joins it as the subject, a *)
(* workload runs on the primary; then a stock secondary, the reference, is *)
(* held against the primary (the control), and the subject against the     *)
(* reference (the grade).                                                  *)
(*                                                                         *)
(* The set is external: logs of entries that the members copy from their   *)
(* primary, elections by a majority of the mongods, rollback of what the   *)
(* new primary does not have, members that are not SECONDARY for a while.  *)
(* A write is acknowledged when a majority has it (the default write       *)
(* concern), by the primary that took it and in the same term: a primary   *)
(* that steps down fails the writes it has not acknowledged yet.           *)
(* WaitConverged is used by its promise, ConvergeSpec.                     *)
(***************************************************************************)
EXTENDS OpTime, Integers, Sequences, SequencesExt, FiniteSets

CONSTANTS
  Mongods,    \* the stock members, as a sequence: rs.Members before the join
  Subject,    \* the DumboDB member, last in rs.Members
  Cases,      \* the cases a behaviour starts from
  MaxTerm,    \* bound on elections
  MayBeBusy   \* a mongod may leave SECONDARY for a while

Support == {"Full", "XFail", "Deviates", "MongoOnly"}
Stock == Range(Mongods)
Members == Stock \cup {Subject}

ASSUME ReplicaCaseAssumption ==
  /\ Mongods \in Seq(Stock) /\ Mongods # << >>
  /\ Subject \notin Stock
  /\ Cases \subseteq [support : Support, seed : BOOLEAN, clone : BOOLEAN,
                      panics : BOOLEAN]
  /\ MaxTerm \in Nat \ {0}
  /\ MayBeBusy \in BOOLEAN

VARIABLES
  \* The set.
  log, role, term, lost,
  \* The test: its case, its place, the members it holds on to, the current
  \* WaitConverged (the member whose position it asks for, the watermark, who
  \* was past it), the goroutine of DuringClone, what it captured, its result.
  tc, pc, primary, reference, asked, watermark, reached, clone, captured,
  status, fatal, errored,
  \* History: the writes the test saw acknowledged.
  acked

setVars == <<log, role, term, lost>>
waitVars == <<asked, watermark, reached>>
vars == <<setVars, tc, pc, primary, reference, waitVars, clone, captured,
          status, fatal, errored, acked>>

Writes == {"seed", "clone", "load"}
Entry == [t : 1 .. MaxTerm, v : Writes \cup {"noop"}]
Roles == {"PRIMARY", "SECONDARY", "STARTUP2", "RECOVERING", "OUT"}
Captures == {"primary", "reference", "subject"}
Unset == "unset"

TypeOK ==
  /\ \A m \in Members : log[m] \in Seq(Entry)
  /\ role \in [Members -> Roles]
  /\ term \in 1 .. MaxTerm
  /\ lost \subseteq Writes
  /\ tc \in Cases
  /\ primary \in Members \cup {Unset}
  /\ reference \in Members \cup {Unset}
  /\ asked \in Members \cup {Unset}
  /\ reached \subseteq Members
  /\ clone \in {"none", "writing", "waiting", "ok", "error"}
  /\ captured \in [Captures -> (SUBSET Writes) \cup {{Unset}}]
  /\ status \in {Unset, "PASS", "FAIL", "XPASS", "XFAIL", "SKIP"}
  /\ fatal \in {Unset, "harness", "not converged", "mismatch"}
  /\ errored \in BOOLEAN
  /\ acked \subseteq Writes

Init ==
  /\ log = [m \in Members |->
              IF m = Subject THEN << >> ELSE <<[t |-> 1, v |-> "noop"]>>]
  /\ role = [m \in Members |-> IF m = Subject THEN "OUT"
                               ELSE IF m = Mongods[1] THEN "PRIMARY"
                               ELSE "SECONDARY"]
  /\ term = 1 /\ lost = {}
  /\ tc \in Cases
  /\ pc = "seed"
  /\ primary = Unset /\ reference = Unset
  /\ asked = Unset /\ watermark = NoProgress /\ reached = {}
  /\ clone = "none"
  /\ captured = [c \in Captures |-> {Unset}]
  /\ status = Unset /\ fatal = Unset /\ errored = FALSE
  /\ acked = {}

(***************************************************************************)
(* The set.                                                                *)
(***************************************************************************)
Position(l) == IF l = << >> THEN NoProgress
               ELSE [t |-> Last(l).t, s |-> Len(l), i |-> 0]

Leaders == {m \in Stock : role[m] = "PRIMARY"}

Majority(Q) == 2 * Cardinality(Q) > Cardinality(Stock)

Holds(m, v) == \E k \in DOMAIN log[m] : log[m][k].v = v

(* A majority has the entry of v that the primary wrote in this term. *)
Committed(v) ==
  \E k \in DOMAIN log[primary] :
    /\ log[primary][k] = [t |-> term, v |-> v]
    /\ Majority({m \in Stock : k \in DOMAIN log[m] /\ log[m][k] = log[primary][k]})

Data(m) == {v \in Writes : Holds(m, v)} \ (IF m = Subject THEN lost ELSE {})

Past(w) == {m \in Members : AtLeast(Position(log'[m]), w)}

Waits == {"seedWait", "controlWait", "gradeWait"}

(* The set's own steps; the current wait sees every position a member takes. *)
SetStep ==
  /\ pc # "done"
  /\ reached' = IF pc \in Waits THEN reached \cup Past(watermark) ELSE reached
  /\ UNCHANGED <<tc, pc, primary, reference, asked, watermark, clone, captured,
                 status, fatal, errored, acked>>

Replicate(m) ==
  /\ role[m] \in {"SECONDARY", "STARTUP2"}
  /\ \E p \in Leaders :
       /\ IsStrictPrefix(log[m], log[p])
       /\ LET e == log[p][Len(log[m]) + 1]
          IN /\ log' = [log EXCEPT ![m] = Append(@, e)]
             /\ \/ UNCHANGED lost
                \/ m = Subject /\ lost' = lost \cup ({e.v} \ {"noop"})
  /\ UNCHANGED <<role, term>>
  /\ SetStep

RollBack(m) ==
  /\ \E p \in Leaders :
       /\ m # p /\ log[m] # << >> /\ ~IsPrefix(log[m], log[p])
       /\ log' = [log EXCEPT ![m] = Front(@)]
  /\ UNCHANGED <<role, term, lost>>
  /\ SetStep

(* A member that is initially synced becomes a secondary. *)
Synced ==
  /\ role[Subject] = "STARTUP2" /\ log[Subject] # << >>
  /\ role' = [role EXCEPT ![Subject] = "SECONDARY"]
  /\ UNCHANGED <<log, term, lost>>
  /\ SetStep

Elect(m) ==
  /\ term < MaxTerm
  /\ m \in Stock /\ role[m] = "SECONDARY"
  /\ Majority({q \in Stock : AtLeast(Position(log[m]), Position(log[q]))})
  /\ term' = term + 1
  /\ log' = [log EXCEPT ![m] = Append(@, [t |-> term + 1, v |-> "noop"])]
  /\ role' = [k \in Members |-> IF k = m THEN "PRIMARY"
                                ELSE IF role[k] = "PRIMARY" THEN "SECONDARY"
                                ELSE role[k]]
  /\ UNCHANGED lost
  /\ SetStep

Busy(m) ==
  /\ m \in Stock /\ role[m] = "SECONDARY" /\ MayBeBusy
  /\ role' = [role EXCEPT ![m] = "RECOVERING"]
  /\ UNCHANGED <<log, term, lost>>
  /\ SetStep

Ready(m) ==
  /\ role[m] = "RECOVERING"
  /\ role' = [role EXCEPT ![m] = "SECONDARY"]
  /\ UNCHANGED <<log, term, lost>>
  /\ SetStep

(***************************************************************************)
(* Steps of the test. Go(p) continues at p, Fatal(r) is t.Fatalf.          *)
(***************************************************************************)
Go(p) == pc' = p /\ UNCHANGED <<status, fatal, errored>>

Fatal(r) == pc' = "done" /\ fatal' = r /\ errored' = TRUE /\ UNCHANGED status

(* rs.Primary and AnySecondary: the first of rs.Members in that state; the
   call may also fail or find none. *)
MemberOrder == Append(Mongods, Subject)

FirstIn(R) ==
  LET is == {k \in DOMAIN MemberOrder : role[MemberOrder[k]] \in R}
  IN MemberOrder[CHOOSE k \in is : \A j \in is : k <= j]

SomeIn(R) == \E m \in Members : role[m] \in R

(* A write of the test through its direct client to member m. *)
WriteTo(m, v) ==
  /\ role[m] = "PRIMARY"
  /\ log' = [log EXCEPT ![m] = Append(@, [t |-> term, v |-> v])]
  /\ UNCHANGED <<role, term, lost>>

Seed ==
  /\ pc = "seed"
  /\ \/ /\ SomeIn({"PRIMARY"})
        /\ primary' = FirstIn({"PRIMARY"})
        /\ \/ tc.seed /\ WriteTo(primary', "seed") /\ Go("seedAck")
           \/ ~tc.seed /\ Go("join") /\ UNCHANGED setVars
     \/ Fatal("harness") /\ UNCHANGED <<primary, setVars>>
  /\ UNCHANGED <<tc, reference, waitVars, clone, captured, acked>>

(* The reply to a write of the test itself, or none: the member stepped down
   or the case's context ended. *)
Acknowledge(v, here, next) ==
  /\ pc = here
  /\ \/ role[primary] = "PRIMARY" /\ Committed(v) /\ acked' = acked \cup {v}
        /\ Go(next)
     \/ Fatal("harness") /\ UNCHANGED acked
  /\ UNCHANGED <<setVars, tc, primary, reference, waitVars, clone,
                 captured>>

SeedAcknowledged == Acknowledge("seed", "seedAck", "seedMark")

(* WaitConverged, three times: after the seed, in the control, before the
   grade. A wait that fails ends the test or, before the grade, fails it. *)
Grade(failed) ==
  \/ tc.support = "Deviates" /\ Fatal("harness")
  \/ /\ tc.support # "Deviates"
     /\ pc' = "finish"
     /\ status' = CASE tc.support = "Full" /\ failed -> "FAIL"
                    [] tc.support = "Full" /\ ~failed -> "PASS"
                    [] tc.support = "XFail" /\ failed -> "XFAIL"
                    [] OTHER -> "XPASS"
     /\ errored' = (errored \/ status' \in {"FAIL", "XPASS"})
     /\ UNCHANGED fatal

WaitFails ==
  \/ pc \in {"seedMark", "seedRead", "seedWait"} /\ Fatal("harness")
  \/ pc \in {"controlMark", "controlRead", "controlWait"} /\ Fatal("not converged")
  \/ pc \in {"gradeMark", "gradeRead", "gradeWait"} /\ Grade(TRUE)

(* Watermark makes two calls. The first finds the member that is primary; *)
FindPrimary(here, there) ==
  /\ pc = here
  /\ \/ SomeIn({"PRIMARY"}) /\ asked' = FirstIn({"PRIMARY"}) /\ Go(there)
     \/ WaitFails /\ UNCHANGED asked
  /\ UNCHANGED <<setVars, tc, primary, reference, watermark, reached, clone,
                 captured, acked>>

(* the second asks that member, whatever it is by now, for its position. *)
ReadWatermark(here, there) ==
  /\ pc = here
  /\ \/ /\ Position(log[asked]) # NoProgress
        /\ watermark' = Position(log[asked])
        /\ UNCHANGED setVars
        /\ reached' = Past(watermark')
        /\ Go(there)
     \/ WaitFails /\ UNCHANGED <<setVars, watermark, reached>>
  /\ asked' = Unset
  /\ UNCHANGED <<tc, primary, reference, clone, captured, acked>>

(* The wait succeeds once the addresses have all been past the watermark. *)
EndWait(here, addrs, next) ==
  /\ pc = here
  /\ \/ addrs \subseteq reached /\ Go(next)
     \/ WaitFails
  /\ UNCHANGED <<setVars, tc, primary, reference, waitVars, clone, captured,
                 acked>>

SeedMark == FindPrimary("seedMark", "seedRead")
SeedWait == ReadWatermark("seedRead", "seedWait")
SeedSettled == EndWait("seedWait", {primary}, "join")

(* JoinDumboDB, unless the case is for MongoDB only. *)
Join ==
  /\ pc = "join"
  /\ \/ /\ IF tc.support = "MongoOnly" THEN UNCHANGED role
           ELSE role' = [role EXCEPT ![Subject] = "STARTUP2"]
        /\ Go("lookup")
     \/ Fatal("harness") /\ UNCHANGED role
  /\ UNCHANGED <<log, term, lost, tc, primary, reference, waitVars, clone, captured, acked>>

(* The primary the workload and the control will use. *)
LookUp ==
  /\ pc = "lookup"
  /\ \/ /\ SomeIn({"PRIMARY"})
        /\ primary' = FirstIn({"PRIMARY"})
        /\ Go("await")
     \/ Fatal("harness") /\ UNCHANGED primary
  /\ UNCHANGED <<setVars, tc, reference, waitVars, clone, captured,
                 acked>>

AwaitSubjectSendsNothing ==  \* Seeded defect: no clone, nothing sent.
  /\ pc = "await"
  /\ clone' = IF tc.clone THEN "writing" ELSE "none"
  /\ Go("load")
  /\ UNCHANGED <<setVars, tc, primary, reference, waitVars, captured,
                 acked>>

(* With DuringClone, start its goroutine while the subject clones (or not any
   more); without, wait until the subject is a secondary. *)
AwaitSubject ==
  /\ pc = "await"
  /\ \/ tc.clone /\ clone' = "writing" /\ Go("load")
     \/ /\ ~tc.clone /\ clone' = "ok"
        /\ \/ tc.support = "MongoOnly" /\ Go("load")
           \/ role[Subject] = "SECONDARY" /\ Go("load")
           \/ tc.support = "XFail" /\ Go("load")
           \/ tc.support \in {"Full", "Deviates"} /\ Fatal("harness")
  /\ UNCHANGED <<setVars, tc, primary, reference, waitVars, captured,
                 acked>>

(* The goroutine of DuringClone. *)
CloneWrite ==
  /\ clone = "writing"
  /\ \/ WriteTo(primary, "clone") /\ clone' = "waiting"
     \/ clone' = "error" /\ UNCHANGED setVars
  /\ UNCHANGED <<tc, pc, primary, reference, waitVars, captured,
                 status, fatal, errored, acked>>

CloneReply ==
  /\ clone = "waiting"
  /\ \/ /\ role[primary] = "PRIMARY" /\ Committed("clone")
        /\ clone' = "ok" /\ acked' = acked \cup {"clone"}
     \/ clone' = "error" /\ UNCHANGED acked
  /\ UNCHANGED <<setVars, tc, pc, primary, reference, waitVars,
                 captured, status, fatal, errored>>

Workload ==
  /\ pc = "load"
  /\ \/ WriteTo(primary, "load") /\ Go("loadAck")
     \/ Fatal("harness") /\ UNCHANGED setVars
  /\ UNCHANGED <<tc, primary, reference, waitVars, clone, captured,
                 acked>>

WorkloadAcknowledged == Acknowledge("load", "loadAck", "cloneDone")

CloneForgotten ==  \* Seeded defect: the control does not wait for the clone.
  /\ pc = "cloneDone"
  /\ Go("reference")
  /\ UNCHANGED <<setVars, tc, primary, reference, waitVars, clone,
                 captured, acked>>

(* <-cloneDone *)
CloneDone ==
  /\ pc = "cloneDone"
  /\ \/ clone = "ok" /\ Go("reference")
     \/ clone = "error" /\ Fatal("harness")
  /\ UNCHANGED <<setVars, tc, primary, reference, waitVars, clone,
                 captured, acked>>

PickReference ==
  /\ pc = "reference"
  /\ \/ /\ SomeIn({"SECONDARY"})
        /\ reference' = FirstIn({"SECONDARY"})
        /\ Go("controlMark")
     \/ Fatal("harness") /\ UNCHANGED reference
  /\ UNCHANGED <<setVars, tc, primary, waitVars, clone, captured,
                 acked>>

(***************************************************************************)
(* runControl                                                              *)
(***************************************************************************)
ControlMark == FindPrimary("controlMark", "controlRead")
ControlWait == ReadWatermark("controlRead", "controlWait")
ControlConverged ==
  EndWait("controlWait", {primary, reference}, "capturePrimary")

Capture(here, which, m, next) ==
  /\ pc = here
  /\ \/ captured' = [captured EXCEPT ![which] = Data(m)] /\ Go(next)
     \/ Fatal("harness") /\ UNCHANGED captured
  /\ UNCHANGED <<setVars, tc, primary, reference, waitVars, clone,
                 acked>>

CapturePrimary ==
  Capture("capturePrimary", "primary", primary, "captureReference")
CaptureReference ==
  Capture("captureReference", "reference", reference, "control")

Control ==
  /\ pc = "control"
  /\ \/ captured["primary"] # captured["reference"] /\ Fatal("mismatch")
     \/ /\ captured["primary"] = captured["reference"]
        /\ IF tc.support = "MongoOnly"
           THEN /\ status' = "SKIP" /\ pc' = "finish"
                /\ UNCHANGED <<fatal, errored>>
           ELSE Go("stamp")
  /\ UNCHANGED <<setVars, tc, primary, reference, waitVars, clone,
                 captured, acked>>

(***************************************************************************)
(* Grading                                                                 *)
(***************************************************************************)

(* A subject that does not tell its commit fails the test, not the grade. *)
Stamp ==
  /\ pc = "stamp"
  /\ errored' \in {errored, TRUE}
  /\ pc' = "gradeMark"
  /\ UNCHANGED <<setVars, tc, primary, reference, waitVars, clone,
                 captured, status, fatal, acked>>

GradeWaitSkipped ==  \* Seeded defect: the subject is captured as it is.
  /\ pc = "gradeRead"
  /\ Go("captureSubject")
  /\ UNCHANGED <<setVars, tc, primary, reference, waitVars, clone, captured,
                 acked>>

GradeMark == FindPrimary("gradeMark", "gradeRead")
GradeWait == ReadWatermark("gradeRead", "gradeWait")
SubjectConverged == EndWait("gradeWait", {Subject}, "captureSubject")

CaptureSubject == Capture("captureSubject", "subject", Subject, "grade")

GradeIgnoresMissing ==  \* Seeded defect: only what the subject has is compared.
  /\ pc = "grade"
  /\ Grade(~(captured["subject"] \subseteq captured["reference"]))
  /\ UNCHANGED <<setVars, tc, primary, reference, waitVars, clone,
                 captured, acked>>

GradeSubject ==
  /\ pc = "grade"
  /\ Grade(captured["subject"] # captured["reference"])
  /\ UNCHANGED <<setVars, tc, primary, reference, waitVars, clone,
                 captured, acked>>

(* finish: an Assert that panics makes the case a failed one. *)
Finish ==
  /\ pc = "finish"
  /\ pc' = "done"
  /\ status' = IF tc.panics THEN "FAIL" ELSE status
  /\ errored' = (errored \/ tc.panics)
  /\ UNCHANGED <<setVars, tc, primary, reference, waitVars, clone,
                 captured, fatal, acked>>

TestStep ==
  \/ Seed \/ SeedAcknowledged \/ SeedMark \/ SeedWait \/ SeedSettled
  \/ Join \/ LookUp \/ AwaitSubject \/ Workload \/ WorkloadAcknowledged
  \/ CloneDone \/ PickReference
  \/ ControlMark \/ ControlWait \/ ControlConverged
  \/ CapturePrimary \/ CaptureReference \/ Control
  \/ Stamp \/ GradeMark \/ GradeWait \/ SubjectConverged
  \/ CaptureSubject \/ GradeSubject \/ Finish

CloneStep == CloneWrite \/ CloneReply

Over == pc = "done" /\ clone \notin {"writing", "waiting"} /\ UNCHANGED vars

Next ==
  \/ TestStep \/ CloneStep \/ Over \/ Synced
  \/ \E m \in Members : Replicate(m) \/ RollBack(m) \/ Ready(m)
  \/ \E m \in Stock : Elect(m) \/ Busy(m)

SafetySpec == Init /\ [][Next]_vars

(* Every wait of the test has a deadline, and a goroutine that can go on does;
   nothing is asked of the set. *)
Spec == SafetySpec /\ WF_vars(TestStep) /\ WF_vars(CloneStep)

(***************************************************************************)
(* Properties.                                                             *)
(***************************************************************************)

(* A case that passed captured a subject with every write the test saw
   acknowledged, whatever elections, rollbacks and defects came between. The grade
   and the test agree: a failed grade is a failed test, an Assert that panics is
   one, and a case that ended without a grade ended in a fatal error. *)
GradeIsEarned ==
  pc = "done" => /\ status = "PASS" => acked \subseteq captured["subject"]
                 /\ (fatal # Unset) = (status = Unset)
                 /\ status \in {"FAIL", "XPASS"} => errored
                 /\ tc.panics /\ status # Unset => status = "FAIL"

(* A subject that applies what it replicates is never found to diverge: a case
   fails only because the subject did not converge in time or its Assert
   panicked. The captures are of different moments, the watermark is the
   position of a member that may have been deposed, and have rolled entries
   back, since it was found to be the primary. *)
NoFalseDivergence ==
  (lost = {} /\ captured["subject"] # {Unset}) =>
     captured["subject"] = captured["reference"]

(* The control never finds two members with different data when every member
   applies what it replicates, although `primary` was looked up before the
   workload and may be deposed and rolled back since. *)
ControlMatches == lost = {} => fatal # "mismatch"

(* The case ends, and the goroutine of DuringClone with it, whatever the set
   does: no wait is without a deadline and the clone's channel has a buffer. *)
CaseEnds == <>[](pc = "done" /\ clone \notin {"writing", "waiting"})
=============================================================================
