---------------------------- MODULE ConvergeSpec ----------------------------
(***************************************************************************)
(* What ReplicaSet.WaitConverged (harness/converge.go) promises its        *)
(* callers, whatever the members do meanwhile: a wait that succeeds fixed  *)
(* one watermark, which some member had applied, and every member it was   *)
(* asked about has been at or past it since the wait began.                *)
(***************************************************************************)
EXTENDS OpTime

CONSTANTS Members,   \* the addresses of the set
          OpTimes    \* the positions a member may report

VARIABLES optime,    \* the position each member has applied
          phase,     \* "idle", "waiting", "converged" or "failed"
          watermark, \* the position waited for
          watched,   \* the members asked about
          reached    \* the members at or past it at some time since then

vars == <<optime, phase, watermark, watched, reached>>

Past(w) == {m \in Members : AtLeast(optime'[m], w)}

Init ==
  /\ optime \in [Members -> OpTimes]
  /\ phase = "idle"
  /\ watermark \in OpTimes
  /\ watched \in SUBSET Members
  /\ reached = {}

(* The members apply, elect and roll back as they like. *)
Move ==
  /\ optime' \in [Members -> OpTimes]
  /\ reached' = IF phase = "waiting"
                THEN reached \cup Past(watermark) ELSE reached
  /\ UNCHANGED <<phase, watermark, watched>>

Begin ==
  /\ phase = "idle" /\ phase' = "waiting"
  /\ watermark' \in {optime[m] : m \in Members}
  /\ ~IsZero(watermark')
  /\ reached' = Past(watermark')
  /\ UNCHANGED <<optime, watched>>

Converge ==
  /\ phase = "waiting" /\ phase' = "converged"
  /\ watched \subseteq reached
  /\ UNCHANGED <<optime, watermark, watched, reached>>

Fail ==
  /\ phase \in {"idle", "waiting"} /\ phase' = "failed"
  /\ UNCHANGED <<optime, watermark, watched, reached>>

Next == Move \/ Begin \/ Converge \/ Fail

Spec == Init /\ [][Next]_vars
=============================================================================
