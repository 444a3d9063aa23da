----------------------------- MODULE Processes -----------------------------
(***************************************************************************)
(* Starting servers: freePort, startProc, waitPort and stop                *)
(* (harness/servers.go), the servers of the suite and of a single test     *)
(* ("shared", "ephemeral"), the pairs that keep their data over a restart  *)
(* ("restart", harness/restart.go) and the servers whose refusal to start  *)
(* is a result ("tls", harness/tlslab.go). A launcher is one such server;  *)
(* launchers of one test binary run in parallel and share issuedPorts.     *)
(***************************************************************************)
EXTENDS Naturals, FiniteSets

CONSTANTS Launchers,
          Kinds,            \* the choices of a kind for every launcher
          Ports,
          MaxTries,         \* bound on freePort's attempts, 100 in the code
          MaxForeign,       \* bound: ports taken by other programs
          MaxRestarts       \* bound: restarts of a launcher

VARIABLES Kind,      \* the servers this test binary starts; never changes
          holder,    \* who is bound to a port
          issued,    \* issuedPorts
          pc, port, tries,
          process,   \* the server process: "none", "starting", "listening", "exited"
          why,       \* why it exited
          dir,       \* its data directory: "none", "empty", "data"
          restarts, foreign,
          wrote,     \* history: the test stored something
          dialed     \* history: whom the successful dial reached

procVars == <<Kind, holder, issued, pc, port, tries, process, why, dir, restarts, foreign,
              wrote, dialed>>

NoPort == 0
Outsiders == {"none", "probe", "foreign", "mute"}

ASSUME ProcessesAssumption ==
  /\ Kinds \subseteq [Launchers -> {"shared", "ephemeral", "restart", "tls"}]
  /\ Launchers \cap Outsiders = {}

Accepting(p) == holder[p] \notin {"none", "mute"}
TLS(l) == Kind[l] = "tls"

ProcInit ==
  /\ Kind \in Kinds
  /\ holder = [p \in Ports |-> "none"] /\ issued = {} /\ foreign = 0
  /\ pc = [l \in Launchers |-> "alloc"] /\ port = [l \in Launchers |-> NoPort]
  /\ tries = [l \in Launchers |-> 0] /\ process = [l \in Launchers |-> "none"]
  /\ why = [l \in Launchers |-> "none"] /\ dir = [l \in Launchers |-> "none"]
  /\ restarts = [l \in Launchers |-> 0]
  /\ wrote = [l \in Launchers |-> FALSE] /\ dialed = [l \in Launchers |-> "none"]

Goto(l, to) == pc' = [pc EXCEPT ![l] = to]

(* freePort, under issuedPortsMu: the kernel picks a port nobody is bound to and
   the probe listens on it, *)
Probe(l, p) ==
  /\ pc[l] = "alloc" /\ \A k \in Launchers : pc[k] # "probing"
  /\ holder[p] = "none"
  /\ holder' = [holder EXCEPT ![p] = "probe"]
  /\ port' = [port EXCEPT ![l] = p]
  /\ Goto(l, "probing")
  /\ UNCHANGED <<issued, tries, process, why, dir, restarts, foreign, wrote, dialed>>

NoFreePort(l) ==
  /\ pc[l] = "alloc" /\ \A p \in Ports : holder[p] # "none"
  /\ Goto(l, "fatal")
  /\ UNCHANGED <<holder, issued, port, tries, process, why, dir, restarts, foreign,
                 wrote, dialed>>

(* closes it, and asks for another one if this was issued before. *)
KeepForgetful(l) == TRUE  \* Seeded defect: issued ports are not remembered.

Keep(l) == port[l] \notin issued

Issue(l) == issued \cup {port[l]}

EndProbe(l) ==
  /\ pc[l] = "probing"
  /\ holder' = [holder EXCEPT ![port[l]] = "none"]
  /\ IF Keep(l)
     THEN /\ issued' = Issue(l)
          /\ dir' = [dir EXCEPT ![l] = IF @ = "none" THEN "empty" ELSE @]
          /\ Goto(l, "spawn") /\ UNCHANGED <<port, tries>>
     ELSE /\ port' = [port EXCEPT ![l] = NoPort]
          /\ tries' = [tries EXCEPT ![l] = @ + 1]
          /\ Goto(l, IF tries[l] + 1 < MaxTries THEN "alloc" ELSE "fatal")
          /\ UNCHANGED <<issued, dir>>
  /\ UNCHANGED <<process, why, restarts, foreign, wrote, dialed>>

(* startProc. A restart of a "tls" server whose directory was removed starts on
   an empty one, or not at all. *)
Spawn(l) ==
  /\ pc[l] = "spawn"
  /\ process' = [process EXCEPT ![l] = "starting"]
  /\ why' = [why EXCEPT ![l] = "none"]
  /\ dir' = [dir EXCEPT ![l] = IF @ = "none" THEN "empty" ELSE @]
  /\ Goto(l, "wait")
  /\ UNCHANGED <<holder, issued, port, tries, restarts, foreign, wrote, dialed>>

CannotSpawn(l) ==
  /\ pc[l] = "spawn"
  /\ dir' = [dir EXCEPT ![l] = IF Kind[l] = "shared" THEN "none" ELSE @]
  /\ Goto(l, "fatal")
  /\ UNCHANGED <<holder, issued, port, tries, process, why, restarts, foreign, wrote,
                 dialed>>

(***************************************************************************)
(* The server process: it binds its port or exits because it cannot, it    *)
(* rejects its configuration, it crashes.                                  *)
(***************************************************************************)
Bind(l) ==
  /\ process[l] = "starting"
  /\ IF holder[port[l]] = "none"
     THEN /\ holder' = [holder EXCEPT ![port[l]] = l]
          /\ process' = [process EXCEPT ![l] = "listening"]
          /\ UNCHANGED why
     ELSE /\ process' = [process EXCEPT ![l] = "exited"]
          /\ why' = [why EXCEPT ![l] = "inuse"]
          /\ UNCHANGED holder
  /\ UNCHANGED <<issued, pc, port, tries, dir, restarts, foreign, wrote, dialed>>

Released(l) == [p \in Ports |-> IF holder[p] = l THEN "none" ELSE holder[p]]

Die(l, reason) ==
  /\ process[l] \in {"starting", "listening"}
  /\ reason = "config" => TLS(l) /\ process[l] = "starting"
  /\ process' = [process EXCEPT ![l] = "exited"]
  /\ why' = [why EXCEPT ![l] = reason]
  /\ holder' = Released(l)
  /\ UNCHANGED <<issued, pc, port, tries, dir, restarts, foreign, wrote, dialed>>

(* Another program takes a free port, listening or not, and leaves it. *)
TakeForeign(p, as) ==
  /\ holder[p] = "none" /\ foreign < MaxForeign
  /\ holder' = [holder EXCEPT ![p] = as]
  /\ foreign' = foreign + 1
  /\ UNCHANGED <<issued, pc, port, tries, process, why, dir, restarts, wrote, dialed>>

LeaveForeign(p) ==
  /\ holder[p] \in {"foreign", "mute"}
  /\ holder' = [holder EXCEPT ![p] = "none"]
  /\ UNCHANGED <<issued, pc, port, tries, process, why, dir, restarts, foreign, wrote,
                 dialed>>

(***************************************************************************)
(* waitPort: a dial succeeds whoever listens.                              *)
(***************************************************************************)
Dial(l) ==
  /\ pc[l] = "wait" /\ Accepting(port[l])
  /\ dialed' = [dialed EXCEPT ![l] = holder[port[l]]]
  /\ Goto(l, "ready")
  /\ UNCHANGED <<holder, issued, port, tries, process, why, dir, restarts, foreign,
                 wrote>>

(* waitListeningOrExit: the process has exited and a last look finds nobody; or
   the deadline has passed. A "tls" server is then refused, and stop removes its
   directory, unless its log says that the address was taken. *)
GaveUp(l) == IF TLS(l) /\ why[l] # "inuse" THEN "refused" ELSE "fatal"

NoAnswer(l) ==
  /\ pc[l] = "wait"
  /\ Goto(l, GaveUp(l))
  /\ IF GaveUp(l) = "refused"
     THEN /\ process' = [process EXCEPT ![l] = "none"] /\ holder' = Released(l)
          /\ dir' = [dir EXCEPT ![l] = "none"]
     ELSE UNCHANGED <<process, holder, dir>>
  /\ UNCHANGED <<issued, port, tries, why, restarts, foreign, wrote, dialed>>

SeeExit(l) ==
  /\ TLS(l) /\ pc[l] = "wait" /\ process[l] = "exited" /\ ~Accepting(port[l])
  /\ NoAnswer(l)

Timeout(l) == NoAnswer(l)

(***************************************************************************)
(* The test.                                                               *)
(***************************************************************************)
Store(l) ==
  /\ pc[l] = "ready" /\ holder[port[l]] = l
  /\ dir' = [dir EXCEPT ![l] = "data"]
  /\ wrote' = [wrote EXCEPT ![l] = TRUE]
  /\ UNCHANGED <<holder, issued, pc, port, tries, process, why, restarts, foreign,
                 dialed>>

(* Restart of a "restart" pair: a graceful shutdown, then a new port. *)
KeptDir(l) == dir[l]

Stopped(l) ==
  /\ restarts[l] < MaxRestarts /\ restarts' = [restarts EXCEPT ![l] = @ + 1]
  /\ process' = [process EXCEPT ![l] = "none"] /\ holder' = Released(l)
  /\ dialed' = [dialed EXCEPT ![l] = "none"]

RestartPair(l) ==
  /\ Kind[l] = "restart" /\ pc[l] = "ready"
  /\ Stopped(l)
  /\ dir' = [dir EXCEPT ![l] = KeptDir(l)]
  /\ Goto(l, "alloc")
  /\ UNCHANGED <<issued, port, tries, why, foreign, wrote>>

(* Restart of a "tls" server, also of one that was refused: the process is killed
   and started again on the same port and directory. *)
RestartTLS(l) ==
  /\ TLS(l) /\ pc[l] \in {"ready", "refused"}
  /\ Stopped(l)
  /\ Goto(l, "spawn")
  /\ UNCHANGED <<issued, port, tries, why, dir, foreign, wrote>>

(* The registered cleanup, TeardownServers or Stop: also after a fatal error. An
   "ephemeral" server owns its directory only once it was started. *)
CleanupReady(l) == pc[l] = "ready"  \* Seeded defect: the process is registered when it is ready.

CleanupStops(l) == process[l] # "none"

Cleanup(l) ==
  /\ pc[l] \in {"ready", "refused", "fatal"}
  /\ Goto(l, "over")
  /\ IF CleanupStops(l)
     THEN /\ process' = [process EXCEPT ![l] = "none"] /\ holder' = Released(l)
          /\ dir' = [dir EXCEPT ![l] = "none"]
     ELSE /\ dir' = [dir EXCEPT ![l] = IF Kind[l] \in {"tls", "restart"} THEN "none" ELSE @]
          /\ UNCHANGED <<process, holder>>
  /\ UNCHANGED <<issued, port, tries, why, restarts, foreign, wrote, dialed>>

AllOver == (\A l \in Launchers : pc[l] = "over") /\ UNCHANGED procVars

Harness(l) == \/ \E p \in Ports : Probe(l, p)
              \/ NoFreePort(l) \/ EndProbe(l) \/ Spawn(l) \/ CannotSpawn(l) \/ Dial(l)
              \/ SeeExit(l) \/ Timeout(l)

Step == \/ \E l \in Launchers : \/ Harness(l) \/ Bind(l) \/ Store(l) \/ RestartPair(l)
                                \/ RestartTLS(l) \/ Cleanup(l)
                                \/ \E r \in {"config", "crash"} : Die(l, r)
        \/ \E p \in Ports : LeaveForeign(p) \/ \E as \in {"foreign", "mute"} : TakeForeign(p, as)
        \/ AllOver

ProcNext == Step /\ UNCHANGED Kind

ProcSpec == ProcInit /\ [][ProcNext]_procVars

ProcTypeOK ==
  /\ Kind \in Kinds
  /\ holder \in [Ports -> Outsiders \cup Launchers]
  /\ issued \subseteq Ports /\ port \in [Launchers -> Ports \cup {NoPort}]
  /\ pc \in [Launchers -> {"alloc", "probing", "spawn", "wait", "ready", "refused",
                           "fatal", "over"}]
  /\ process \in [Launchers -> {"none", "starting", "listening", "exited"}]
  /\ dir \in [Launchers -> {"none", "empty", "data"}]
  /\ \A l \in Launchers : pc[l] \in {"spawn", "wait", "ready"} => port[l] \in issued

(* No two servers of a test binary are ever handed the same port, whatever was
   free in between; and StartFailed, which tests read as "the server rejected this
   configuration", is never reported for one that only found its port taken. *)
PortsNeverShared ==
  /\ \A l, k \in Launchers :
       l # k /\ pc[l] \in {"spawn", "wait", "ready"} /\ pc[k] \in {"spawn", "wait", "ready"}
         => port[l] # port[k]
  /\ \A l \in Launchers : pc[l] = "refused" => why[l] # "inuse"

(* When a test or the suite is over none of its processes runs, in whatever state
   it failed, and no directory is left of a server that had been started; until
   then what a test stored is there after every restart of a "restart" pair. *)
NothingLeaks ==
  \A l \in Launchers :
    IF pc[l] = "over"
    THEN /\ process[l] = "none" /\ \A p \in Ports : holder[p] # l
         /\ dir[l] # "none" => Kind[l] = "ephemeral" /\ ~wrote[l]
    ELSE Kind[l] = "restart" /\ wrote[l] => dir[l] = "data"
=============================================================================
