----------------------------- MODULE MCServers ------------------------------
(***************************************************************************)
(* What a test starts: a replica set with members that join and leave, and *)
(* the server processes of a test binary. This module extends both. They   *)
(* share no state, so a behaviour is of one of them, and the other stays   *)
(* in an initial state.                                                    *)
(***************************************************************************)
EXTENDS ReplicaSet, Processes, TLC

CONSTANTS m1, m2, d1, d2, d3
TwoMongods == <<m1, m2>>
AllStarts == {[own |-> TRUE, keyFile |-> k] : k \in BOOLEAN} \cup {[own |-> FALSE, keyFile |-> FALSE]}
Symmetry == Permutations(Dumbos)

(* Two servers of different kinds compete with another program for three ports: the two
   kinds that restart, together and each beside one that does not. Launchers differ in
   name only, and meet nowhere but at the ports. *)
Both(first, second) == [l \in Launchers |-> IF l = "a" THEN first ELSE second]
MixedKinds == {Both("tls", "restart"), Both("tls", "shared"), Both("restart", "ephemeral")}

VARIABLE part  \* "set" or "processes"

serverVars == <<part, vars, procVars>>

(* The part that does not run has one initial state only. *)
ServersInit ==
  /\ part \in {"set", "processes"}
  /\ Init /\ (part = "processes" => start = [own |-> FALSE, keyFile |-> FALSE])
  /\ ProcInit /\ (part = "set" => Kind = Both("tls", "restart"))

ServersNext == \/ part = "set" /\ Next /\ UNCHANGED <<part, procVars>>
               \/ part = "processes" /\ ProcNext /\ UNCHANGED <<part, vars>>

ServersSpec == ServersInit /\ [][ServersNext]_serverVars
=============================================================================
