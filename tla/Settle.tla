------------------------------- MODULE Settle -------------------------------
(***************************************************************************)
(* The measurement of a store's size on disk (storage/metrics.go):         *)
(* settledDirBytes collects garbage and measures until a further pass no   *)
(* longer shrinks the store by more than a tolerance. The store is         *)
(* external: its live bytes, the bytes of files that are no longer needed, *)
(* and a compaction that may run beside the measurement; while it does, a  *)
(* collection may leave any part of those files behind.                    *)
(***************************************************************************)
EXTENDS Integers, FiniteSets, FiniteSetsExt

CONSTANTS
  maxPasses,   \* StorageBytes passes 4
  Lives,       \* the live sizes a store may have
  Leftovers    \* the sizes of files a compaction or a collection may leave

(* Sizes are byte counts, and there is at least one pass. *)
ASSUME SizesAssumption == Lives \subseteq Nat /\ Leftovers \subseteq Nat /\ maxPasses \in Nat \ {0}

VARIABLES
  live,        \* bytes that stay
  garbage,     \* bytes of files that may go
  compacting,  \* "before", "running" or "over"
  pc,          \* "gc", "measure", "settled", "unsettled" or "failed"
  pass, prev,  \* settledDirBytes
  seen,        \* every size measured so far
  collected    \* some pass left nothing behind

storeVars == <<live, garbage, compacting, pc, pass, prev, seen, collected>>
store == <<live, garbage, compacting>>

dirBytes == live + garbage

SettleInit ==
  /\ live \in Lives
  /\ garbage \in Leftovers
  /\ compacting \in {"before", "running", "over"}
  /\ pc = "gc"
  /\ pass = 0
  /\ prev = -1
  /\ seen = {}
  /\ collected = FALSE

(* A compaction begins by writing files beside those it will replace. *)
StartCompaction ==
  /\ compacting = "before"
  /\ compacting' = "running"
  /\ \E n \in Leftovers : garbage' = garbage + n
  /\ UNCHANGED <<live, pc, pass, prev, seen, collected>>

EndCompaction ==
  /\ compacting = "running"
  /\ compacting' = "over"
  /\ UNCHANGED <<live, garbage, pc, pass, prev, seen, collected>>

Left == IF compacting = "running" THEN {n \in Leftovers \cup {garbage} : n <= garbage} ELSE {0}

Collect ==
  /\ pc = "gc"
  /\ garbage' \in Left
  /\ pc' = "measure"
  /\ UNCHANGED <<live, compacting, pass, prev, seen, collected>>

(* gc or the walk fails: a file may be gone when the walk reaches it. *)
Fail ==
  /\ pc \in {"gc", "measure"}
  /\ pc' = "failed"
  /\ UNCHANGED <<store, pass, prev, seen, collected>>

Tolerance(p) == IF p \div 1000 < 64 THEN 64 ELSE p \div 1000

Latest(p, cur) == cur  \* Seeded defect: the confirming pass may report more than the first.
Smaller(p, cur) == IF cur < p THEN cur ELSE p

Stable(p, cur) == p >= 0 /\ cur >= p - Tolerance(p)

LastPass(n) == n + 1 = maxPasses

Measure ==
  LET cur == dirBytes
  IN /\ pc = "measure"
     /\ seen' = seen \cup {cur}
     /\ collected' = (collected \/ garbage = 0)
     /\ IF Stable(prev, cur)
        THEN prev' = Smaller(prev, cur) /\ pc' = "settled" /\ pass' = pass
        ELSE /\ prev' = cur
             /\ pass' = pass + 1
             /\ pc' = IF LastPass(pass) THEN "unsettled" ELSE "gc"
     /\ UNCHANGED store

Measured == pc \in {"settled", "unsettled", "failed"} /\ UNCHANGED storeVars

SettleNext == StartCompaction \/ EndCompaction \/ Collect \/ Fail \/ Measure \/ Measured

SettleSpec == SettleInit /\ [][SettleNext]_storeVars

SettleTypeOK ==
  /\ live \in Lives /\ garbage \in Nat
  /\ compacting \in {"before", "running", "over"}
  /\ pc \in {"gc", "measure", "settled", "unsettled", "failed"}
  /\ pass \in 0 .. maxPasses
  /\ prev \in Int /\ seen \subseteq Nat /\ collected \in BOOLEAN
-----------------------------------------------------------------------------
Reported == pc \in {"settled", "unsettled"}

(* The size reported is the least that any pass measured, after a confirming pass,
   and exactly the live size once one pass left nothing behind: neither a transient
   first reading nor a store that grew between two passes is compared with the
   budget, whatever the compaction does. *)
LeastIsReported ==
  /\ Reported => prev = Min(seen)
  /\ Reported /\ collected => prev = live
  /\ pc = "settled" => pass >= 1
=============================================================================
