----------------------------- MODULE ReplicaSet -----------------------------
(***************************************************************************)
(* A test's dealings with one replica set: StartReplicaSet or an adopted   *)
(* set (harness/replicaset.go, replicasettls.go), DumboDB members joining, *)
(* leaving, stopping and coming back (dumbomember.go), killed mongods and  *)
(* step-downs (failover.go), and the cleanups that run, last one first,    *)
(* when the test ends or fails.                                            *)
(*                                                                         *)
(* The set itself is external: a configuration with a version, accepted    *)
(* only from a higher version and with distinct ids, and a primary that    *)
(* comes and goes. In an adopted set other clients change the              *)
(* configuration too. A reconfiguration whose client gave up may have been *)
(* applied, or be applied later, or never.                                 *)
(***************************************************************************)
EXTENDS Integers, Sequences, SequencesExt, FiniteSets, Functions

CONSTANTS
  Mongods,    \* the hosts of the mongods, as a sequence
  Dumbos,     \* the hosts of DumboDB members a test may join
  Foreign,    \* a host another client may add to an adopted set
  Starts,     \* how a test begins: own or adopted set, with a keyfile or not
  MaxOps,     \* bound on the operations of a test
  None

ASSUME ReplicaSetAssumption ==
  /\ Mongods \in Seq(Range(Mongods)) /\ Mongods # << >> /\ IsInjective(Mongods)
  /\ Range(Mongods) \cap Dumbos = {} /\ Foreign \notin Range(Mongods) \cup Dumbos
  /\ "stop" \notin Dumbos
  /\ Starts \subseteq [own : BOOLEAN, keyFile : BOOLEAN]
  /\ MaxOps \in Nat

VARIABLES
  \* The set and the machine.
  config,     \* its version and the id of each configured host
  leader,     \* the primary, or None
  alive,      \* the hosts whose process runs
  dirs,       \* the hosts whose data directory exists
  user,       \* the bootstrap user exists: clients must authenticate
  inFlight,   \* configurations sent by clients that gave up on the reply
  \* The harness.
  start,      \* how this test begins
  members,    \* rs.Members: hosts in order
  idOf,       \* Member.ID of each host that has one
  proc,       \* hosts whose process the harness holds on to
  pool,       \* rs.pool: for each pooled host, whether its client has credentials
  cred,       \* rs.cred is set
  cleanups,   \* what t.Cleanup registered
  op,         \* the operation being executed
  ops,        \* how many were
  \* History.
  asked,      \* hosts the harness asked the set to remove
  unready,    \* mongods that were started and did not become ready
  killed,     \* mongods that KillMember killed
  reported    \* hosts whose removal failed and was logged

set == <<config, leader, alive, dirs, user, inFlight>>
history == <<asked, unready, killed, reported>>
vars == <<set, start, members, idOf, proc, pool, cred, cleanups, op, ops,
          history>>

Stock == Range(Mongods)
Hosts == Stock \cup Dumbos \cup {Foreign}

Op(kind, host, step) ==
  [kind |-> kind, host |-> host, step |-> step, copy |-> config]
Idle == Op("idle", None, "")

InitialIds == [h \in Stock |-> (CHOOSE k \in DOMAIN Mongods : Mongods[k] = h) - 1]

TypeOK ==
  /\ config.version \in Nat /\ DOMAIN config.ids \subseteq Hosts
  /\ leader \in Stock \cup {None}
  /\ alive \subseteq Hosts /\ dirs \subseteq Hosts
  /\ start \in Starts
  /\ IsInjective(members) /\ Range(members) \subseteq Hosts
  /\ Range(members) \subseteq DOMAIN idOf
  /\ proc \subseteq Hosts
  /\ DOMAIN pool \subseteq Hosts /\ \A h \in DOMAIN pool : pool[h] \in BOOLEAN
  /\ user \in BOOLEAN /\ cred \in BOOLEAN
  /\ Range(cleanups) \subseteq Dumbos \cup {"stop"}
  /\ ops \in 0 .. MaxOps

(* An own set has nothing yet; an adopted one runs, and adoptReplicaSet takes
   its members from replSetGetStatus. *)
Init ==
  /\ start \in Starts
  /\ config = [version |-> 1,
               ids |-> IF start.own THEN << >> ELSE InitialIds]
  /\ leader = IF start.own THEN None ELSE Mongods[1]
  /\ alive = IF start.own THEN {} ELSE Stock
  /\ dirs = alive /\ user = FALSE /\ inFlight = {}
  /\ members = IF start.own THEN << >> ELSE Mongods
  /\ idOf = IF start.own THEN << >> ELSE InitialIds
  /\ proc = {} /\ pool = << >> /\ cred = FALSE
  /\ cleanups = IF start.own THEN <<"stop">> ELSE << >>
  /\ op = IF start.own THEN Op("start", Mongods[1], "spawn") ELSE Idle
  /\ ops = 0
  /\ asked = {} /\ unready = {} /\ killed = {} /\ reported = {}

(***************************************************************************)
(* The set.                                                                *)
(***************************************************************************)
Acceptable(c) == c.version > config.version /\ IsInjective(c.ids)

Elect ==
  /\ config.ids # << >>
  /\ leader' \in (Stock \cap alive) \ {leader}
  /\ UNCHANGED <<config, alive, dirs, user, inFlight, start, members, idOf,
                 proc, pool, cred, cleanups, op, ops, history>>

OtherClientAdds ==
  /\ ~start.own /\ Foreign \notin DOMAIN config.ids
  /\ config' = [version |-> config.version + 1,
                ids |-> [h \in DOMAIN config.ids \cup {Foreign} |->
                           IF h = Foreign
                           THEN CHOOSE i \in 0 .. Cardinality(Hosts) :
                                  i \notin Range(config.ids)
                           ELSE config.ids[h]]]
  /\ UNCHANGED <<leader, alive, dirs, user, inFlight, start, members, idOf,
                 proc, pool, cred, cleanups, op, ops, history>>

LateReconfig ==
  \E c \in inFlight :
    /\ inFlight' = inFlight \ {c}
    /\ config' = IF Acceptable(c) THEN c ELSE config
    /\ UNCHANGED <<leader, alive, dirs, user, start, members, idOf, proc, pool,
                   cred, cleanups, op, ops, history>>

(***************************************************************************)
(* Starting an own set: spawnMongod for each member, then initiate.        *)
(***************************************************************************)
Fatal == op' = Op("cleanup", None, "")

SpawnMongod ==
  /\ op.step = "spawn"
  /\ LET h == op.host
         k == Len(members) + 1
     IN \/ /\ alive' = alive \cup {h} /\ dirs' = dirs \cup {h}
           /\ members' = Append(members, h)
           /\ idOf' = [g \in DOMAIN idOf \cup {h} |->
                         IF g = h THEN k - 1 ELSE idOf[g]]
           /\ proc' = proc \cup {h}
           /\ op' = IF k < Len(Mongods) THEN Op("start", Mongods[k + 1], "spawn")
                    ELSE Op("start", None, "initiate")
           /\ UNCHANGED unready
        \/ /\ alive' = alive \cup {h} /\ dirs' = dirs \cup {h}
           /\ unready' = unready \cup {h}
           /\ Fatal
           /\ UNCHANGED <<members, idOf, proc>>
        \/ /\ Fatal
           /\ UNCHANGED <<alive, dirs, members, idOf, proc, unready>>
  /\ UNCHANGED <<config, leader, user, inFlight, start, pool, cred, cleanups,
                 ops, asked, killed, reported>>

(* rs.client: a client that is not in the pool is dialed with the credentials
   the set has now. *)
Dialed(S) == [h \in DOMAIN pool \cup S |->
                IF h \in DOMAIN pool THEN pool[h] ELSE cred]

Initiate ==
  /\ op.step = "initiate"
  /\ \/ /\ config' = [version |-> 1, ids |-> idOf]
        /\ op' = Op("start", None, "elected")
     \/ Fatal /\ UNCHANGED config
  /\ UNCHANGED <<leader, alive, dirs, user, inFlight, start, members, idOf,
                 proc, pool, cred, cleanups, ops, history>>

(* WaitForPrimary polls through the pool. *)
AwaitPrimary ==
  /\ op.step = "elected"
  /\ \/ leader # None /\ op' = Op("start", None, "bootstrap")
     \/ Fatal
  /\ \E h \in Stock : pool' = Dialed({h})
  /\ UNCHANGED <<set, start, members, idOf, proc, cred, cleanups, ops, history>>

(* bootstrapRoot: only with a keyfile; the pool is closed once the user
   exists. *)
Bootstrap ==
  /\ op.step = "bootstrap"
  /\ \/ /\ ~start.keyFile
        /\ op' = Op("start", None, "steady")
        /\ UNCHANGED <<user, cred, pool>>
     \/ /\ start.keyFile /\ leader # None
        /\ user' = TRUE /\ cred' = TRUE /\ pool' = << >>
        /\ op' = Op("start", None, "steady")
     \/ Fatal /\ user' \in {user, start.keyFile} /\ UNCHANGED <<cred, pool>>
  /\ UNCHANGED <<config, leader, alive, dirs, inFlight, start, members, idOf,
                 proc, cleanups, ops, history>>

(* WaitForSteadyState: the listed members are one primary and secondaries. *)
SteadyState ==
  /\ op.step = "steady"
  /\ \/ leader # None /\ op' = Idle
     \/ Fatal
  /\ pool' = Dialed(Stock)
  /\ UNCHANGED <<set, start, members, idOf, proc, cred, cleanups, ops, history>>

(***************************************************************************)
(* Operations of the test.                                                 *)
(***************************************************************************)
Begin == op.kind = "idle" /\ ops < MaxOps /\ ops' = ops + 1

NextMemberIDByCount ==  \* Seeded defect: the number of members.
  Len(members)

(* nextMemberID: the highest id in the local list, plus one. *)
NextMemberID ==
  1 + CHOOSE i \in {idOf[h] : h \in Range(members)} :
        \A h \in Range(members) : idOf[h] <= i

(* JoinDumboDBWith: directory, member, cleanup, launch, reconfiguration. *)
JoinDumboDB(d) ==
  /\ Begin
  /\ d \notin DOMAIN idOf
  /\ dirs' = dirs \cup {d}
  /\ idOf' = [h \in DOMAIN idOf \cup {d} |->
                IF h = d THEN NextMemberID ELSE idOf[h]]
  /\ cleanups' = Append(cleanups, d)
  /\ op' = Op("join", d, "launch")
  /\ UNCHANGED <<config, leader, alive, user, inFlight, start, members, proc,
                 pool, cred, history>>

(* launch: the process is known before it is awaited. *)
Launch ==
  /\ op.step = "launch"
  /\ \/ /\ alive' = alive \cup {op.host}
        /\ proc' = proc \cup {op.host}
        /\ \/ op' = IF op.kind = "join" THEN [op EXCEPT !.step = "config"]
                    ELSE Idle
           \/ Fatal
     \/ Fatal /\ UNCHANGED <<alive, proc>>
  /\ UNCHANGED <<config, leader, dirs, user, inFlight, start, members, idOf,
                 pool, cred, cleanups, ops, history>>

AddMember(d) ==
  /\ Begin
  /\ d \in DOMAIN idOf /\ d \notin Range(members)
  /\ op' = Op("add", d, "config")
  /\ UNCHANGED <<set, start, members, idOf, proc, pool, cred, cleanups, history>>

RemoveMember(d) ==
  /\ Begin
  /\ d \in Range(members)
  /\ op' = Op("remove", d, "config")
  /\ asked' = asked \cup {d}
  /\ UNCHANGED <<set, start, members, idOf, proc, pool, cred, cleanups, unready,
                 killed, reported>>

(* DumboMember.Stop and Kill, and Start, which refuses a running member. *)
StopDumbo(d) ==
  /\ Begin
  /\ d \in Range(members) \cap proc
  /\ alive' = alive \ {d} /\ proc' = proc \ {d}
  /\ op' = Idle
  /\ UNCHANGED <<config, leader, dirs, user, inFlight, start, members, idOf,
                 pool, cred, cleanups, history>>

StartDumbo(d) ==
  /\ Begin
  /\ d \in Range(members)
  /\ op' = IF d \in proc THEN Op("cleanup", None, "") ELSE Op("launch", d, "launch")
  /\ UNCHANGED <<set, start, members, idOf, proc, pool, cred, cleanups, history>>

(* KillMember: SIGKILL, the directory stays, the pooled client is dropped. *)
KillMember(h) ==
  /\ Begin
  /\ h \in Stock \cap Range(members) \cap proc
  /\ alive' = alive \ {h} /\ proc' = proc \ {h}
  /\ leader' = IF leader = h THEN None ELSE leader
  /\ pool' = [g \in DOMAIN pool \ {h} |-> pool[g]]
  /\ killed' = killed \cup {h}
  /\ op' = Idle
  /\ UNCHANGED <<config, dirs, user, inFlight, start, members, idOf, cred,
                 cleanups, asked, unready, reported>>

(* StepDownPrimary, then WaitForNewPrimary. *)
StepDown ==
  /\ Begin
  /\ leader # None
  /\ leader' = None
  /\ op' = Op("stepdown", leader, "new primary")
  /\ UNCHANGED <<config, alive, dirs, user, inFlight, start, members, idOf,
                 proc, pool, cred, cleanups, history>>

NewPrimary ==
  /\ op.step = "new primary"
  /\ \/ leader \notin {None, op.host} /\ op' = Idle
     \/ Fatal
  /\ UNCHANGED <<set, start, members, idOf, proc, pool, cred, cleanups, ops,
                 history>>

(***************************************************************************)
(* Reconfig: read the configuration at the primary, change a copy, look    *)
(* for the primary again and send the copy.                                *)
(***************************************************************************)
Added(c, d) == [h \in DOMAIN c.ids \cup {d} |->
                  IF h = d THEN idOf[d] ELSE c.ids[h]]
Removed(c, d) == [h \in DOMAIN c.ids \ {d} |-> c.ids[h]]

Fails ==
  IF op.kind = "teardown"
  THEN /\ op' = [op EXCEPT !.step = "kill"]
       /\ reported' = reported \cup {op.host}
  ELSE Fatal /\ UNCHANGED reported

ReadConfig ==
  /\ op.step = "config"
  /\ \/ /\ leader # None
        /\ ~(op.kind \in {"join", "add"} /\ op.host \in DOMAIN config.ids)
        /\ op' = [op EXCEPT !.step = "send",
                    !.copy = [version |-> config.version + 1,
                              ids |-> IF op.kind \in {"join", "add"}
                                      THEN Added(config, op.host)
                                      ELSE Removed(config, op.host)]]
        /\ UNCHANGED reported
     \/ Fails
  /\ pool' = IF leader = None THEN pool ELSE Dialed({leader})
  /\ UNCHANGED <<set, start, members, idOf, proc, cred, cleanups, ops, asked,
                 unready, killed>>

Succeeds ==
  /\ members' = IF op.kind \in {"join", "add"} THEN Append(members, op.host)
                ELSE RemoveFirst(members, op.host)
  /\ op' = IF op.kind = "teardown" THEN [op EXCEPT !.step = "kill"] ELSE Idle
  /\ UNCHANGED reported

SentAnyway ==  \* Seeded defect: the version is made to fit when sending.
  [op.copy EXCEPT !.version = config.version + 1]

Sent == op.copy

SendConfig ==
  /\ op.step = "send"
  /\ \/ /\ leader # None /\ Acceptable(Sent)
        /\ config' = Sent
        /\ \/ Succeeds
           \/ Fails /\ UNCHANGED members
        /\ UNCHANGED inFlight
     \/ /\ leader # None /\ inFlight' = inFlight \cup {Sent}
        /\ Fails /\ UNCHANGED <<config, members>>
     \/ Fails /\ UNCHANGED <<config, members, inFlight>>
  /\ UNCHANGED <<leader, alive, dirs, user, start, idOf, proc, pool, cred,
                 cleanups, ops, asked, unready, killed>>

(***************************************************************************)
(* The end of the test: cleanups, the last registered one first.           *)
(***************************************************************************)
EndTest ==
  /\ op.kind = "idle"
  /\ Fatal
  /\ UNCHANGED <<set, start, members, idOf, proc, pool, cred, cleanups, ops,
                 history>>

TeardownIfListed ==  \* Seeded defect: only a listed member is removed.
  /\ op.kind = "cleanup" /\ cleanups # << >> /\ Last(cleanups) # "stop"
  /\ LET d == Last(cleanups)
         remove == ~start.own /\ d \in Range(members)
     IN /\ op' = Op("teardown", d, IF remove THEN "config" ELSE "kill")
        /\ asked' = asked \cup {d}
  /\ UNCHANGED <<set, start, members, idOf, proc, pool, cred, cleanups, ops,
                 unready, killed, reported>>

(* DumboMember.teardown: in an adopted set the member is removed first. *)
Teardown ==
  /\ op.kind = "cleanup" /\ cleanups # << >> /\ Last(cleanups) # "stop"
  /\ op' = Op("teardown", Last(cleanups), IF start.own THEN "kill" ELSE "config")
  /\ asked' = IF start.own THEN asked ELSE asked \cup {Last(cleanups)}
  /\ UNCHANGED <<set, start, members, idOf, proc, pool, cred, cleanups, ops,
                 unready, killed, reported>>

TeardownKill ==
  /\ op.kind = "teardown" /\ op.step = "kill"
  /\ alive' = IF op.host \in proc THEN alive \ {op.host} ELSE alive
  /\ proc' = proc \ {op.host}
  /\ dirs' = dirs \ {op.host}
  /\ cleanups' = Front(cleanups)
  /\ op' = Op("cleanup", None, "")
  /\ UNCHANGED <<config, leader, user, inFlight, start, members, idOf, pool,
                 cred, ops, history>>

(* rs.stop: close the pool, stop the listed members that have a process, with
   their directories. *)
StopSet ==
  /\ op.kind = "cleanup" /\ cleanups = <<"stop">>
  /\ LET running == Range(members) \cap proc
     IN /\ alive' = alive \ running /\ dirs' = dirs \ running
        /\ proc' = proc \ running
        /\ leader' = IF leader \in running THEN None ELSE leader
  /\ pool' = << >> /\ cleanups' = << >>
  /\ UNCHANGED <<config, user, inFlight, start, members, idOf, cred, op, ops,
                 history>>

Ended == op.kind = "cleanup" /\ cleanups = << >>

Over == Ended /\ UNCHANGED vars

Next ==
  \/ SpawnMongod \/ Initiate \/ AwaitPrimary \/ Bootstrap \/ SteadyState
  \/ \E d \in Dumbos : \/ JoinDumboDB(d) \/ AddMember(d) \/ RemoveMember(d)
                       \/ StopDumbo(d) \/ StartDumbo(d)
  \/ Launch \/ (\E h \in Stock : KillMember(h)) \/ StepDown \/ NewPrimary
  \/ ReadConfig \/ SendConfig
  \/ EndTest \/ Teardown \/ TeardownKill \/ StopSet \/ Over
  \/ Elect \/ OtherClientAdds \/ LateReconfig

Spec == Init /\ [][Next]_vars

(***************************************************************************)
(* Properties.                                                             *)
(***************************************************************************)

(* No configuration the harness sends drops a host it was not asked to remove,
   although others reconfigure between its read and its send, a primary is
   looked up twice, and an abandoned request may be applied at any time. *)
NoLostReconfig ==
  [][DOMAIN config.ids \ DOMAIN config'.ids \subseteq asked']_vars

(* Once the cleanups have run, a DumboDB host is in the configuration of an
   adopted set only if its removal failed and was logged - also when the reply to
   the join was lost, and whatever an abandoned request still does. Nothing the
   harness started still runs except a mongod that did not become ready, and no
   directory is left except its and those of mongods that KillMember killed. *)
LeftBehindIsReported ==
  Ended => /\ ~start.own => Dumbos \cap DOMAIN config.ids \subseteq reported
           /\ (IF start.own THEN alive ELSE alive \ Stock) \subseteq unready
           /\ (IF start.own THEN dirs ELSE dirs \ Stock)
                \subseteq unready \cup killed

(* What the harness remembers of the set is right. Between operations rs.Members
   lists exactly the configured hosts of the harness, in particular after leaving
   and coming back; in a set of its own the id it picks is never taken; and once
   the bootstrap user exists every pooled client carries credentials
   (bootstrapRoot: "so that every later dial carries the credentials"). *)
ViewIsCurrent ==
  /\ op.kind = "idle" => Range(members) = DOMAIN config.ids \ {Foreign}
  /\ (start.own /\ op.kind = "join" /\ op.step = "send") => IsInjective(op.copy.ids)
  /\ (user /\ op.kind \notin {"start", "cleanup"}) => \A h \in DOMAIN pool : pool[h]
=============================================================================
