-------------------------- MODULE ProcessesProofs ---------------------------
(***************************************************************************)
(* The servers of a test binary: no two are handed the same port, and none *)
(* is left running, for any number of launchers, ports, attempts and       *)
(* restarts, and whatever other programs do with the ports.                *)
(***************************************************************************)
EXTENDS Processes, TLAPS

-----------------------------------------------------------------------------
(* The inductive invariants.                                               *)

\* A launcher is of one of the four kinds, and no outsider is a launcher.
LaunchersKnown ==
  /\ Kind \in [Launchers -> {"shared", "ephemeral", "restart", "tls"}]
  /\ Launchers \cap Outsiders = {}

Fields ==
  /\ DOMAIN holder = Ports
  /\ pc \in [Launchers -> {"alloc", "probing", "spawn", "wait", "ready", "refused",
                           "fatal", "over"}]
  /\ process \in [Launchers -> {"none", "starting", "listening", "exited"}]
  /\ DOMAIN port = Launchers /\ DOMAIN why = Launchers
  /\ DOMAIN dir = Launchers /\ DOMAIN wrote = Launchers

\* The launchers a port was issued to; a refused server may be restarted on it.
Holding(l) == pc[l] \in {"spawn", "wait", "ready", "refused"}

PortsInv ==
  /\ \A l \in Launchers : Holding(l) => port[l] \in issued
  /\ \A l, k \in Launchers : l # k /\ Holding(l) /\ Holding(k) => port[l] # port[k]
  /\ \A l \in Launchers : pc[l] = "refused" => why[l] # "inuse" /\ process[l] = "none"

\* A process exists from Spawn until it is stopped, and only a listening one
\* is bound to a port.
ProcessInv ==
  \A l \in Launchers :
    /\ pc[l] \in {"alloc", "probing", "spawn", "refused", "over"} => process[l] = "none"
    /\ pc[l] \in {"wait", "ready"} => process[l] # "none"
    /\ \A p \in Ports : holder[p] = l => process[l] = "listening"

\* Without a process, what a cleanup would not remove was never used.
DirInv ==
  \A l \in Launchers :
    /\ pc[l] # "over" /\ Kind[l] = "restart" /\ wrote[l] => dir[l] = "data"
    /\ Kind[l] \in {"shared", "ephemeral"} /\ process[l] = "none" => ~wrote[l] \/ dir[l] = "none"
    /\ Kind[l] \in {"shared", "ephemeral"} /\ pc[l] \in {"alloc", "probing", "spawn"} => ~wrote[l]
    /\ Kind[l] = "shared" /\ process[l] = "none" /\ pc[l] # "spawn" => dir[l] = "none"
    /\ pc[l] = "over" /\ Kind[l] \in {"restart", "tls"} => dir[l] = "none"

ServersInv == LaunchersKnown /\ Fields /\ PortsInv /\ ProcessInv /\ DirInv

-----------------------------------------------------------------------------
\* ProcInit: nothing was issued and nothing runs.
LEMMA ServersInit == ProcInit => ServersInv
<1> SUFFICES ASSUME ProcInit  PROVE ServersInv
  OBVIOUS
<1>0. LaunchersKnown  BY ProcessesAssumption DEF ProcInit, LaunchersKnown
<1>1. Fields  BY DEF ProcInit, Fields
<1>2. PortsInv  BY DEF ProcInit, Holding, PortsInv
<1>3. ProcessInv  BY <1>0 DEF ProcInit, LaunchersKnown, Outsiders, ProcessInv
<1>4. DirInv  BY DEF ProcInit, DirInv
<1> QED  BY <1>0, <1>1, <1>2, <1>3, <1>4 DEF ServersInv

\* The kinds do not change.
LEMMA KnownStays == LaunchersKnown /\ UNCHANGED Kind => LaunchersKnown'
  BY DEF LaunchersKnown, Outsiders

\* The probe listens on a port nobody is bound to, for one launcher at a time.
LEMMA ProbeKeeps ==
  ASSUME ServersInv, UNCHANGED Kind, NEW l \in Launchers, NEW p \in Ports, Probe(l, p)
  PROVE  ServersInv'
<1> USE DEF Probe, Goto
<1>1. Fields'  BY DEF ServersInv, Fields
<1>2. PortsInv'  BY DEF ServersInv, Fields, Holding, PortsInv, ProcessInv
<1>3. ProcessInv'
  BY DEF ServersInv, LaunchersKnown, Outsiders, Fields, Holding, PortsInv, ProcessInv
<1>4. DirInv'  BY DEF ServersInv, LaunchersKnown, Fields, ProcessInv, DirInv
<1> QED  BY <1>1, <1>2, <1>3, <1>4, KnownStays DEF ServersInv

\* freePort finds no port at all.
LEMMA NoFreePortKeeps ==
  ASSUME ServersInv, UNCHANGED Kind, NEW l \in Launchers, NoFreePort(l)
  PROVE  ServersInv'
<1> USE DEF NoFreePort, Goto
<1>1. Fields'  BY DEF ServersInv, Fields
<1>2. PortsInv'  BY DEF ServersInv, Fields, Holding, PortsInv, ProcessInv
<1>3. ProcessInv'
  BY DEF ServersInv, LaunchersKnown, Outsiders, Fields, Holding, PortsInv, ProcessInv
<1>4. DirInv'  BY DEF ServersInv, LaunchersKnown, Fields, ProcessInv, DirInv
<1> QED  BY <1>1, <1>2, <1>3, <1>4, KnownStays DEF ServersInv

\* A port that was never issued is kept: nobody else can be holding it.
LEMMA EndProbeKeeps ==
  ASSUME ServersInv, UNCHANGED Kind, NEW l \in Launchers, EndProbe(l)
  PROVE  ServersInv'
<1> USE DEF EndProbe, Keep, Issue, Goto
<1>1. Fields'  BY DEF ServersInv, Fields
<1>2. PortsInv'  BY DEF ServersInv, Fields, Holding, PortsInv, ProcessInv
<1>3. ProcessInv'
  BY DEF ServersInv, LaunchersKnown, Outsiders, Fields, Holding, PortsInv, ProcessInv
<1>4. DirInv'  BY DEF ServersInv, LaunchersKnown, Fields, ProcessInv, DirInv
<1> QED  BY <1>1, <1>2, <1>3, <1>4, KnownStays DEF ServersInv

\* startProc, on the directory that is there.
LEMMA SpawnKeeps ==
  ASSUME ServersInv, UNCHANGED Kind, NEW l \in Launchers, Spawn(l)
  PROVE  ServersInv'
<1> USE DEF Spawn, Goto
<1>1. Fields'  BY DEF ServersInv, Fields
<1>2. PortsInv'  BY DEF ServersInv, Fields, Holding, PortsInv, ProcessInv
<1>3. ProcessInv'
  BY DEF ServersInv, LaunchersKnown, Outsiders, Fields, Holding, PortsInv, ProcessInv
<1>4. DirInv'  BY DEF ServersInv, LaunchersKnown, Fields, ProcessInv, DirInv
<1> QED  BY <1>1, <1>2, <1>3, <1>4, KnownStays DEF ServersInv

\* startProc fails: no process, and a shared server's directory is removed.
LEMMA CannotSpawnKeeps ==
  ASSUME ServersInv, UNCHANGED Kind, NEW l \in Launchers, CannotSpawn(l)
  PROVE  ServersInv'
<1> USE DEF CannotSpawn, Goto
<1>1. Fields'  BY DEF ServersInv, Fields
<1>2. PortsInv'  BY DEF ServersInv, Fields, Holding, PortsInv, ProcessInv
<1>3. ProcessInv'
  BY DEF ServersInv, LaunchersKnown, Outsiders, Fields, Holding, PortsInv, ProcessInv
<1>4. DirInv'  BY DEF ServersInv, LaunchersKnown, Fields, ProcessInv, DirInv
<1> QED  BY <1>1, <1>2, <1>3, <1>4, KnownStays DEF ServersInv

\* The server binds its port, or exits because somebody is on it.
LEMMA BindKeeps ==
  ASSUME ServersInv, UNCHANGED Kind, NEW l \in Launchers, Bind(l)
  PROVE  ServersInv'
<1> USE DEF Bind
<1>1. Fields'  BY DEF ServersInv, Fields
<1>2. PortsInv'  BY DEF ServersInv, Fields, Holding, PortsInv, ProcessInv
<1>3. ProcessInv'
  BY DEF ServersInv, LaunchersKnown, Outsiders, Fields, Holding, PortsInv, ProcessInv
<1>4. DirInv'  BY DEF ServersInv, LaunchersKnown, Fields, ProcessInv, DirInv
<1> QED  BY <1>1, <1>2, <1>3, <1>4, KnownStays DEF ServersInv

\* A server that exits lets go of its port.
LEMMA DieKeeps ==
  ASSUME ServersInv, UNCHANGED Kind, NEW l \in Launchers, NEW r \in {"config", "crash"}, Die(l, r)
  PROVE  ServersInv'
<1> USE DEF Die, Released
<1>1. Fields'  BY DEF ServersInv, Fields
<1>2. PortsInv'  BY DEF ServersInv, Fields, Holding, PortsInv, ProcessInv
<1>3. ProcessInv'
  BY DEF ServersInv, LaunchersKnown, Outsiders, Fields, Holding, PortsInv, ProcessInv
<1>4. DirInv'  BY DEF ServersInv, LaunchersKnown, Fields, ProcessInv, DirInv
<1> QED  BY <1>1, <1>2, <1>3, <1>4, KnownStays DEF ServersInv

\* A dial only moves the launcher on.
LEMMA DialKeeps ==
  ASSUME ServersInv, UNCHANGED Kind, NEW l \in Launchers, Dial(l)
  PROVE  ServersInv'
<1> USE DEF Dial, Goto
<1>1. Fields'  BY DEF ServersInv, Fields
<1>2. PortsInv'  BY DEF ServersInv, Fields, Holding, PortsInv, ProcessInv
<1>3. ProcessInv'
  BY DEF ServersInv, LaunchersKnown, Outsiders, Fields, Holding, PortsInv, ProcessInv
<1>4. DirInv'  BY DEF ServersInv, LaunchersKnown, Fields, ProcessInv, DirInv
<1> QED  BY <1>1, <1>2, <1>3, <1>4, KnownStays DEF ServersInv

\* Refusal stops the process; only a reason other than a taken port is a refusal.
LEMMA NoAnswerKeeps ==
  ASSUME ServersInv, UNCHANGED Kind, NEW l \in Launchers, NoAnswer(l)
  PROVE  ServersInv'
<1> USE DEF NoAnswer, GaveUp, Released, TLS, Goto
<1>1. Fields'  BY DEF ServersInv, Fields
<1>2. PortsInv'  BY DEF ServersInv, Fields, Holding, PortsInv, ProcessInv
<1>3. ProcessInv'
  BY DEF ServersInv, LaunchersKnown, Outsiders, Fields, Holding, PortsInv, ProcessInv
<1>4. DirInv'  BY DEF ServersInv, LaunchersKnown, Fields, ProcessInv, DirInv
<1> QED  BY <1>1, <1>2, <1>3, <1>4, KnownStays DEF ServersInv

\* A stored document is in the directory of a running server.
LEMMA StoreKeeps ==
  ASSUME ServersInv, UNCHANGED Kind, NEW l \in Launchers, Store(l)
  PROVE  ServersInv'
<1> USE DEF Store
<1>1. Fields'  BY DEF ServersInv, Fields
<1>2. PortsInv'  BY DEF ServersInv, Fields, Holding, PortsInv, ProcessInv
<1>3. ProcessInv'
  BY DEF ServersInv, LaunchersKnown, Outsiders, Fields, Holding, PortsInv, ProcessInv
<1>4. DirInv'  BY DEF ServersInv, LaunchersKnown, Fields, ProcessInv, DirInv
<1> QED  BY <1>1, <1>2, <1>3, <1>4, KnownStays DEF ServersInv

\* A restarted pair keeps its directory and asks for a new port.
LEMMA RestartPairKeeps ==
  ASSUME ServersInv, UNCHANGED Kind, NEW l \in Launchers, RestartPair(l)
  PROVE  ServersInv'
<1> USE DEF RestartPair, Stopped, KeptDir, Released, Goto
<1>1. Fields'  BY DEF ServersInv, Fields
<1>2. PortsInv'  BY DEF ServersInv, Fields, Holding, PortsInv, ProcessInv
<1>3. ProcessInv'
  BY DEF ServersInv, LaunchersKnown, Outsiders, Fields, Holding, PortsInv, ProcessInv
<1>4. DirInv'  BY DEF ServersInv, LaunchersKnown, Fields, ProcessInv, DirInv
<1> QED  BY <1>1, <1>2, <1>3, <1>4, KnownStays DEF ServersInv

\* A restarted TLS server keeps its port, which is still issued to it alone.
LEMMA RestartTLSKeeps ==
  ASSUME ServersInv, UNCHANGED Kind, NEW l \in Launchers, RestartTLS(l)
  PROVE  ServersInv'
<1> USE DEF RestartTLS, Stopped, Released, TLS, Goto
<1>1. Fields'  BY DEF ServersInv, Fields
<1>2. PortsInv'  BY DEF ServersInv, Fields, Holding, PortsInv, ProcessInv
<1>3. ProcessInv'
  BY DEF ServersInv, LaunchersKnown, Outsiders, Fields, Holding, PortsInv, ProcessInv
<1>4. DirInv'  BY DEF ServersInv, LaunchersKnown, Fields, ProcessInv, DirInv
<1> QED  BY <1>1, <1>2, <1>3, <1>4, KnownStays DEF ServersInv

\* The cleanup stops whatever process there is.
LEMMA CleanupKeeps ==
  ASSUME ServersInv, UNCHANGED Kind, NEW l \in Launchers, Cleanup(l)
  PROVE  ServersInv'
<1> USE DEF Cleanup, CleanupStops, Released, Goto
<1>1. Fields'  BY DEF ServersInv, Fields
<1>2. PortsInv'  BY DEF ServersInv, Fields, Holding, PortsInv, ProcessInv
<1>3. ProcessInv'
  BY DEF ServersInv, LaunchersKnown, Outsiders, Fields, Holding, PortsInv, ProcessInv
<1>4. DirInv'  BY DEF ServersInv, LaunchersKnown, Fields, ProcessInv, DirInv
<1> QED  BY <1>1, <1>2, <1>3, <1>4, KnownStays DEF ServersInv

\* Other programs come and go on ports no launcher is bound to.
LEMMA ForeignKeeps ==
  ASSUME ServersInv, UNCHANGED Kind, NEW p \in Ports,
         LeaveForeign(p) \/ \E as \in {"foreign", "mute"} : TakeForeign(p, as)
  PROVE  ServersInv'
<1> USE DEF LeaveForeign, TakeForeign
<1>1. Fields'  BY DEF ServersInv, Fields
<1>2. PortsInv'  BY DEF ServersInv, Holding, PortsInv
<1>3. ProcessInv'
  BY DEF ServersInv, LaunchersKnown, Outsiders, Fields, ProcessInv
<1>4. DirInv'  BY DEF ServersInv, DirInv
<1> QED  BY <1>1, <1>2, <1>3, <1>4, KnownStays DEF ServersInv

\* Every step preserves the invariant.
LEMMA ServersNext == ServersInv /\ [ProcNext]_procVars => ServersInv'
<1> SUFFICES ASSUME ServersInv, [ProcNext]_procVars  PROVE ServersInv'
  OBVIOUS
<1>1. ASSUME NEW l \in Launchers, Harness(l), UNCHANGED Kind  PROVE ServersInv'
  BY <1>1, ProbeKeeps, NoFreePortKeeps, EndProbeKeeps, SpawnKeeps, CannotSpawnKeeps,
     DialKeeps, NoAnswerKeeps DEF Harness, SeeExit, Timeout
<1>2. ASSUME NEW l \in Launchers,
             \/ Bind(l) \/ Store(l) \/ RestartPair(l) \/ RestartTLS(l) \/ Cleanup(l)
             \/ \E r \in {"config", "crash"} : Die(l, r),
             UNCHANGED Kind
      PROVE  ServersInv'
  BY <1>2, BindKeeps, StoreKeeps, RestartPairKeeps, RestartTLSKeeps, CleanupKeeps, DieKeeps
<1>3. CASE UNCHANGED procVars
  BY <1>3, KnownStays
     DEF ServersInv, procVars, Fields, Holding, PortsInv, ProcessInv, DirInv
<1> QED  BY <1>1, <1>2, <1>3, ForeignKeeps DEF ProcNext, Step, AllOver

-----------------------------------------------------------------------------
(* PortsNeverShared: no two servers of a test binary are ever handed the same port,
   although the probe of freePort closes its listener before the server binds and
   anybody may take the port in between; and StartFailed is never reported for a
   server that only found its port taken. *)
THEOREM PortsDistinct == ProcSpec => []PortsNeverShared
<1>1. ServersInv => PortsNeverShared
  BY DEF ServersInv, PortsInv, Holding, PortsNeverShared
<1> QED  BY <1>1, ServersInit, ServersNext, PTL DEF ProcSpec

(* NothingLeaks: in whatever state a test fails, once it is over no process of it
   runs or is bound to a port and no directory is left of a server that was started;
   until then a "restart" pair keeps what was stored. *)
THEOREM NothingLeaked == ProcSpec => []NothingLeaks
<1>1. ServersInv => NothingLeaks
  BY DEF ServersInv, LaunchersKnown, ProcessInv, DirInv, NothingLeaks
<1> QED  BY <1>1, ServersInit, ServersNext, PTL DEF ProcSpec
=============================================================================
