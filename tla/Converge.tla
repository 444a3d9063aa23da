------------------------------ MODULE Converge ------------------------------
(***************************************************************************)
(* ReplicaSet.WaitConverged (harness/converge.go): ask who is primary, ask *)
(* that member how far it is, then poll every member in turn, pass after   *)
(* pass, until all of one pass are past that watermark or the deadline is  *)
(* over; then say for each member why it did not get there. Every call is  *)
(* a round trip, and the members go on between any two of them: they       *)
(* apply, stop answering, elect another primary and roll back.             *)
(***************************************************************************)
EXTENDS OpTime, Sequences

CONSTANTS Members,     \* the addresses of the set
          MemberList,  \* rs.Members, in order
          WatchLists,  \* the addresses callers pass
          OpTimes      \* the positions a member may report

ASSUME ConvergeAssumption ==
  /\ Members # {}
  /\ MemberList \in Seq(Members) /\ MemberList # << >>
  /\ WatchLists \subseteq Seq(Members)
  /\ OpTimes \subseteq [t : Nat, s : Nat, i : Nat]

VARIABLES
  optime,    \* the position each member has applied
  leader,    \* the member that is primary, or "none"
  addrs,     \* the addresses waited for
  pc,        \* where WaitConverged is
  primary,   \* what Primary returned
  watermark, \* the position waited for
  index,     \* the address polled next in this pass
  caughtUp,  \* how many addresses of this pass were past the watermark
  samples,   \* the last sample of each member, as far as it has one
  expired,   \* the deadline is over
  reached,   \* history: the members past the watermark since the wait began
  lowest     \* history: the lowest position of each member since then

vars == <<optime, leader, addrs, pc, primary, watermark, index, caughtUp,
          samples, expired, reached, lowest>>

Sample == [err : BOOLEAN, applied : OpTimes \cup {NoProgress},
           first : OpTimes \cup {NoProgress}]

TypeOK ==
  /\ optime \in [Members -> OpTimes]
  /\ leader \in Members \cup {"none"}
  /\ addrs \in Seq(Members)
  /\ pc \in {"start", "progress", "pass", "poll", "converged", "failed"}
  /\ primary \in Members \cup {"none"}
  /\ watermark \in OpTimes
  /\ index \in 1 .. Len(addrs) + 1
  /\ caughtUp \in 0 .. Len(addrs)
  /\ DOMAIN samples \subseteq Members
  /\ \A m \in DOMAIN samples : samples[m] \in Sample
  /\ expired \in BOOLEAN
  /\ reached \subseteq Members
  /\ lowest \in [Members -> OpTimes]

Init ==
  /\ optime \in [Members -> OpTimes]
  /\ leader \in Members \cup {"none"}
  /\ addrs \in WatchLists
  /\ pc = "start" /\ primary = "none" /\ index = 1 /\ caughtUp = 0
  /\ watermark \in OpTimes
  /\ samples = << >>
  /\ expired = FALSE
  /\ reached = {}
  /\ lowest = optime

Waiting == pc \in {"pass", "poll"}

Past(w) == {m \in Members : AtLeast(optime'[m], w)}

(***************************************************************************)
(* The wait.                                                               *)
(***************************************************************************)

(* No address given means every member; then Watermark asks for the primary. *)
FindPrimary ==
  /\ pc = "start"
  /\ addrs' = IF addrs = << >> THEN MemberList ELSE addrs
  /\ primary' = leader
  /\ \/ leader # "none" /\ pc' = "progress"
     \/ pc' = "failed"
  /\ UNCHANGED <<optime, leader, watermark, index, caughtUp, samples, expired,
                 reached, lowest>>

(* Watermark: the position of that member now, primary or not. *)
ReadWatermark ==
  /\ pc = "progress"
  /\ UNCHANGED <<optime, leader, addrs, primary, index, caughtUp, samples,
                 expired>>
  /\ \/ /\ ~IsZero(optime[primary])
        /\ watermark' = optime[primary]
        /\ reached' = Past(watermark')
        /\ lowest' = optime
        /\ pc' = "pass"
     \/ pc' = "failed" /\ UNCHANGED <<watermark, reached, lowest>>

StartPass ==
  /\ pc = "pass" /\ ~expired
  /\ pc' = "poll" /\ index' = 1 /\ caughtUp' = 0
  /\ UNCHANGED <<optime, leader, addrs, primary, watermark, samples, expired,
                 reached, lowest>>

(* The first position seen, where a poll without one does not count. *)
FirstSeenOrFailed(m, applied) ==  \* Seeded defect: it does count.
  IF m \in DOMAIN samples THEN samples[m].first ELSE applied

FirstSeen(m, applied) ==
  IF m \in DOMAIN samples /\ ~IsZero(samples[m].first)
  THEN samples[m].first ELSE applied

Record(m, err, applied) ==
  [k \in DOMAIN samples \cup {m} |->
     IF k = m THEN [err |-> err, applied |-> applied,
                    first |-> FirstSeen(m, applied)]
     ELSE samples[k]]

Poll ==
  /\ pc = "poll" /\ index <= Len(addrs)
  /\ \E err \in BOOLEAN :
       LET m == addrs[index]
           applied == IF err THEN NoProgress ELSE optime[m]
       IN /\ samples' = Record(m, err, applied)
          /\ caughtUp' = IF ~err /\ AtLeast(applied, watermark)
                         THEN caughtUp + 1 ELSE caughtUp
  /\ index' = index + 1
  /\ UNCHANGED <<optime, leader, addrs, pc, primary, watermark, expired,
                 reached, lowest>>

EndPassOne ==  \* Seeded defect: one member that caught up is enough.
  /\ pc = "poll" /\ index > Len(addrs)
  /\ pc' = IF caughtUp > 0 THEN "converged" ELSE "pass"
  /\ UNCHANGED <<optime, leader, addrs, primary, watermark, index, caughtUp,
                 samples, expired, reached, lowest>>

EndPass ==
  /\ pc = "poll" /\ index > Len(addrs)
  /\ pc' = IF caughtUp = Len(addrs) THEN "converged" ELSE "pass"
  /\ UNCHANGED <<optime, leader, addrs, primary, watermark, index, caughtUp,
                 samples, expired, reached, lowest>>

TimeOutDuringPass ==  \* Seeded defect: only a pass in progress can time out.
  /\ pc = "poll" /\ expired /\ index > Len(addrs)
  /\ pc' = "failed"
  /\ UNCHANGED <<optime, leader, addrs, primary, watermark, index, caughtUp,
                 samples, expired, reached, lowest>>

TimeOut ==
  /\ pc = "pass" /\ expired
  /\ pc' = "failed"
  /\ UNCHANGED <<optime, leader, addrs, primary, watermark, index, caughtUp,
                 samples, expired, reached, lowest>>

Expire ==
  /\ Waiting /\ ~expired
  /\ expired' = TRUE
  /\ UNCHANGED <<optime, leader, addrs, pc, primary, watermark, index, caughtUp,
                 samples, reached, lowest>>

(***************************************************************************)
(* The members.                                                            *)
(***************************************************************************)
Lower(a, b) == IF Less(a, b) THEN a ELSE b

MemberMoves(m) ==
  /\ pc \notin {"converged", "failed"}
  /\ \E o \in OpTimes \ {optime[m]} :
       /\ optime' = [optime EXCEPT ![m] = o]
       /\ lowest' = [lowest EXCEPT ![m] = Lower(@, o)]
  /\ reached' = IF Waiting THEN reached \cup Past(watermark) ELSE reached
  /\ UNCHANGED <<leader, addrs, pc, primary, watermark, index, caughtUp,
                 samples, expired>>

Election ==
  /\ pc \in {"start", "progress"}
  /\ leader' \in (Members \cup {"none"}) \ {leader}
  /\ UNCHANGED <<optime, addrs, pc, primary, watermark, index, caughtUp,
                 samples, expired, reached, lowest>>

Done == pc \in {"converged", "failed"} /\ UNCHANGED vars

WaitStep ==
  \/ FindPrimary \/ ReadWatermark \/ StartPass \/ Poll \/ EndPass \/ TimeOut

Next ==
  WaitStep \/ Expire \/ (\E m \in Members : MemberMoves(m)) \/ Election \/ Done

SafetySpec == Init /\ [][Next]_vars

(* Every call has a deadline of its own (pollBudget, the context), so the
   waiting goroutine always goes on, and time passes. *)
Spec == SafetySpec /\ WF_vars(WaitStep) /\ WF_vars(Expire)

(* What convergenceTimeout says of a member: the first that is true. *)
Diagnosis(m) ==
  IF m \notin DOMAIN samples THEN "never sampled"
  ELSE IF samples[m].err THEN "silent"
  ELSE IF IsZero(samples[m].applied) THEN "no progress"
  ELSE IF AtLeast(samples[m].applied, watermark) THEN "in another pass"
  ELSE IF Less(samples[m].first, samples[m].applied) THEN "slow" ELSE "stuck"

(***************************************************************************)
(* Properties.                                                             *)
(***************************************************************************)
Entries(list) == {list[k] : k \in DOMAIN list}

Phase == CASE pc \in {"start", "progress"} -> "idle"
           [] Waiting -> "waiting"
           [] OTHER -> pc

Promise == INSTANCE ConvergeSpec WITH
  phase <- Phase,
  watched <- IF addrs = << >> THEN Entries(MemberList) ELSE Entries(addrs)

(* WaitConverged keeps the promise of ConvergeSpec: it fixes one watermark,
   applied by the member it took for the primary, and reports convergence only
   if every address it was given was at or past it since then, however the
   members move between the polls. *)
KeepsPromise == Promise!Spec

(* "it advanced from ... while waiting, so it is slow rather than stuck"
   (convergenceTimeout): a member is called slow only if its last position is
   past the lowest it had while waiting, failed polls notwithstanding. *)
SlowMeansAdvanced ==
  pc = "failed" =>
    \A m \in DOMAIN samples :
      Diagnosis(m) = "slow" => Less(lowest[m], samples[m].applied)

(* A wait that has begun ends, whether the members answer or not. *)
WaitEnds == Waiting ~> (pc \in {"converged", "failed"})
=============================================================================
