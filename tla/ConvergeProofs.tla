--------------------------- MODULE ConvergeProofs ---------------------------
(***************************************************************************)
(* WaitConverged keeps the promise of ConvergeSpec and its diagnosis of a  *)
(* slow member is true, for any number of members, addresses and log       *)
(* positions.                                                              *)
(***************************************************************************)
EXTENDS Converge, TLAPS

-----------------------------------------------------------------------------
(* The order of log positions.                                             *)

Positions == [t : Nat, s : Nat, i : Nat]

\* OpTime.Compare is a strict total order: what is not before b and before c
\* makes b before c.
LEMMA LessOrder ==
  ASSUME NEW a \in Positions, NEW b \in Positions, NEW c \in Positions
  PROVE  /\ ~Less(a, a)
         /\ AtLeast(a, b) /\ Less(a, c) => Less(b, c)
         /\ AtLeast(a, Lower(b, a)) /\ AtLeast(b, Lower(b, a))
         /\ AtLeast(a, b) => AtLeast(a, Lower(b, c))
  BY DEF Positions, Less, AtLeast, Lower

-----------------------------------------------------------------------------
(* The inductive invariant.                                                *)

Types ==
  /\ optime \in [Members -> OpTimes]
  /\ leader \in Members \cup {"none"}
  /\ addrs \in Seq(Members)
  /\ pc \in {"start", "progress", "pass", "poll", "converged", "failed"}
  /\ watermark \in OpTimes
  /\ index \in Nat /\ caughtUp \in Nat
  /\ lowest \in [Members -> OpTimes]
  /\ reached \subseteq Members

\* Where the wait has got to.
Asked ==
  /\ pc = "progress" => primary \in Members
  /\ pc # "start" => addrs # << >>
  /\ pc \in {"start", "progress"} => samples = << >>

\* A member past the watermark is known to be, and so is every address this
\* pass has polled if all of them counted.
Counted ==
  /\ Waiting => \A m \in Members : AtLeast(optime[m], watermark) => m \in reached
  /\ pc = "poll" =>
       /\ index >= 1 /\ index <= Len(addrs) + 1 /\ caughtUp <= index - 1
       /\ caughtUp = index - 1 => \A k \in 1 .. index - 1 : addrs[k] \in reached

\* The first position remembered of a member is one it had, and a member with
\* a position has a first one.
Remembered ==
  /\ \A m \in Members : AtLeast(optime[m], lowest[m])
  /\ DOMAIN samples \subseteq Members
  /\ \A m \in DOMAIN samples :
       /\ samples[m].first \in Positions /\ samples[m].applied \in Positions
       /\ ~IsZero(samples[m].applied) => ~IsZero(samples[m].first)
       /\ ~IsZero(samples[m].first) => AtLeast(samples[m].first, lowest[m])

ConvergeInv == Types /\ Asked /\ Counted /\ Remembered

\* It holds before anything was asked.
LEMMA ConvergeInit == Init => ConvergeInv
<1> SUFFICES ASSUME Init PROVE ConvergeInv
  OBVIOUS
<1> USE ConvergeAssumption DEF Init
<1>1. Types
  BY DEF Types
<1>2. Asked /\ Counted
  BY DEF Asked, Counted, Waiting
<1>3. Remembered
  BY LessOrder DEF Remembered, AtLeast, Positions
<1>4. QED
  BY <1>1, <1>2, <1>3 DEF ConvergeInv

\* Past the first questions only a poll and the members change what it says.
LEMMA ConvergeFrame ==
  ASSUME ConvergeInv,
         UNCHANGED <<optime, addrs, watermark, index, caughtUp, samples, reached, lowest>>,
         leader' \in Members \cup {"none"}, primary' = primary,
         \/ pc' = pc
         \/ pc = "poll" /\ pc' \in {"pass", "converged"}
         \/ pc \in {"progress", "pass"} /\ pc' = "failed"
  PROVE  ConvergeInv'
  BY DEF ConvergeInv, Types, Asked, Counted, Remembered, Waiting

\* The addresses are fixed and the primary is looked up.
LEMMA InvFindPrimary ==
  ASSUME ConvergeInv, FindPrimary
  PROVE  ConvergeInv'
<1> USE ConvergeAssumption DEF ConvergeInv, FindPrimary
<1>1. pc = "start" /\ pc' \in {"progress", "failed"} /\ samples' = samples
  OBVIOUS
<1>2. Types'
  BY <1>1 DEF Types
<1>3. Asked'
  <2>1. addrs' # << >> /\ (pc' = "progress" => primary' \in Members)
    BY DEF Types
  <2>2. QED
    BY <1>1, <2>1 DEF Asked
<1>4. Counted'
  BY <1>1 DEF Counted, Waiting
<1>5. Remembered'
  BY DEF Remembered
<1>6. QED
  BY <1>2, <1>3, <1>4, <1>5

\* One watermark is fixed, and who is past it is known.
LEMMA InvReadWatermark ==
  ASSUME ConvergeInv, ReadWatermark
  PROVE  ConvergeInv'
<1>1. CASE pc' = "failed"
  <2>1. CASE watermark' = watermark /\ reached' = reached /\ lowest' = lowest
    BY <1>1, <2>1, ConvergeFrame DEF ReadWatermark, ConvergeInv, Types
  <2>2. QED
    BY <1>1, <2>1 DEF ReadWatermark
<1>2. CASE pc' # "failed"
  <2>1. /\ pc = "progress" /\ pc' = "pass" /\ watermark' = optime[primary]
        /\ reached' = Past(watermark') /\ lowest' = optime
        /\ UNCHANGED <<optime, leader, addrs, primary, index, caughtUp, samples>>
    BY <1>2 DEF ReadWatermark
  <2>2. primary \in Members /\ samples = << >>
    BY <2>1 DEF ConvergeInv, Asked
  <2>3. Types'
    BY <2>1, <2>2 DEF ConvergeInv, Types, Past
  <2>4. Asked'
    BY <2>1 DEF ConvergeInv, Asked
  <2>5. Counted'
    BY <2>1 DEF Counted, Past
  <2>6. Remembered'
    <3>1. \A m \in Members : optime[m] \in Positions
      BY ConvergeAssumption DEF ConvergeInv, Types, Positions
    <3>2. \A m \in Members : AtLeast(optime[m], optime[m])
      BY <3>1, LessOrder DEF AtLeast
    <3>3. DOMAIN samples = {}
      BY <2>2
    <3>4. QED
      BY <2>1, <3>2, <3>3 DEF Remembered
  <2>7. QED
    BY <2>3, <2>4, <2>5, <2>6 DEF ConvergeInv
<1>3. QED
  BY <1>1, <1>2

\* A pass begins with nothing counted.
LEMMA InvStartPass ==
  ASSUME ConvergeInv, StartPass
  PROVE  ConvergeInv'
<1>1. Types' /\ Asked' /\ Remembered'
  BY DEF ConvergeInv, Types, Asked, Remembered, StartPass
<1>2. Counted'
  BY DEF ConvergeInv, Types, Counted, Waiting, StartPass
<1>3. QED
  BY <1>1, <1>2 DEF ConvergeInv

\* A poll counts a member that is past the watermark now, and remembers the
\* first position it got.
LEMMA InvPoll ==
  ASSUME ConvergeInv, Poll
  PROVE  ConvergeInv'
<1> PICK m : m = addrs[index]
  OBVIOUS
<1>1. PICK err, applied :
        /\ applied = IF err THEN NoProgress ELSE optime[m]
        /\ samples' = Record(m, err, applied)
        /\ caughtUp' = IF ~err /\ AtLeast(applied, watermark) THEN caughtUp + 1 ELSE caughtUp
  BY DEF Poll
<1>2. /\ pc = "poll" /\ index <= Len(addrs) /\ index' = index + 1
      /\ UNCHANGED <<optime, leader, addrs, pc, primary, watermark, reached, lowest>>
  BY DEF Poll
<1>3. m \in Members /\ index \in 1 .. Len(addrs)
  BY <1>2 DEF ConvergeInv, Types, Counted
<1>4. Types' /\ Asked'
  BY <1>1, <1>2 DEF ConvergeInv, Types, Asked
<1>5. Counted'
  <2>1. \/ caughtUp' = caughtUp
        \/ caughtUp' = caughtUp + 1 /\ m \in reached
    <3>1. AtLeast(optime[m], watermark) => m \in reached
      BY <1>2, <1>3 DEF ConvergeInv, Counted, Waiting
    <3>2. QED
      BY <1>1, <3>1
  <2>2. caughtUp' <= index' - 1
    BY <1>2, <2>1 DEF ConvergeInv, Counted, Types
  <2>3. ASSUME caughtUp' = index' - 1
        PROVE  \A k \in 1 .. index' - 1 : addrs[k] \in reached
    <3>1. caughtUp = index - 1 /\ m \in reached
      BY <1>2, <2>1, <2>3 DEF ConvergeInv, Counted, Types
    <3>2. \A k \in 1 .. index - 1 : addrs[k] \in reached
      BY <1>2, <3>1 DEF ConvergeInv, Counted
    <3>3. \A k \in 1 .. index' - 1 : k = index \/ k \in 1 .. index - 1
      BY <1>2, <1>3
    <3>4. QED
      BY <3>1, <3>2, <3>3
  <2>4. index' >= 1 /\ index' <= Len(addrs) + 1
    BY <1>2, <1>3 DEF ConvergeInv, Types
  <2>5. QED
    BY <1>2, <2>2, <2>3, <2>4 DEF ConvergeInv, Counted, Waiting
<1>6. Remembered'
  <2>1. applied \in Positions /\ (~IsZero(applied) => applied = optime[m])
    BY <1>1, <1>3, ConvergeAssumption
       DEF ConvergeInv, Types, Positions, NoProgress, IsZero
  <2>2. AtLeast(optime[m], lowest[m]) /\ optime[m] \in Positions
    BY <1>3, ConvergeAssumption DEF ConvergeInv, Types, Positions, Remembered
  <2>3. /\ DOMAIN samples' = DOMAIN samples \cup {m}
        /\ \A k \in DOMAIN samples : k # m => samples'[k] = samples[k]
        /\ samples'[m].applied = applied
        /\ samples'[m].first = FirstSeen(m, applied)
    BY <1>1 DEF Record
  <2>4. LET f == FirstSeen(m, applied)
        IN  /\ f \in Positions
            /\ ~IsZero(applied) => ~IsZero(f)
            /\ ~IsZero(f) => AtLeast(f, lowest[m])
    BY <2>1, <2>2 DEF FirstSeen, ConvergeInv, Remembered
  <2>5. QED
    BY <1>2, <1>3, <2>1, <2>3, <2>4 DEF ConvergeInv, Remembered
<1>7. QED
  BY <1>4, <1>5, <1>6 DEF ConvergeInv

\* A member moves: its lowest position and who is past the watermark follow.
LEMMA InvMember ==
  ASSUME ConvergeInv, NEW m \in Members, MemberMoves(m)
  PROVE  ConvergeInv'
<1>1. PICK o \in OpTimes : /\ optime' = [optime EXCEPT ![m] = o]
                           /\ lowest' = [lowest EXCEPT ![m] = Lower(lowest[m], o)]
  BY DEF MemberMoves
<1>2. /\ reached' = IF Waiting THEN reached \cup Past(watermark) ELSE reached
      /\ UNCHANGED <<leader, addrs, pc, primary, watermark, index, caughtUp, samples>>
  BY DEF MemberMoves
<1>3. Types'
  BY <1>1, <1>2 DEF ConvergeInv, Types, Lower, Past
<1>4. Asked'
  BY <1>2 DEF ConvergeInv, Asked
<1>5. Counted'
  BY <1>2 DEF ConvergeInv, Counted, Waiting, Past
<1>6. Remembered'
  <2>1. /\ o \in Positions /\ lowest[m] \in Positions
        /\ \A k \in Members : k # m => optime'[k] = optime[k] /\ lowest'[k] = lowest[k]
        /\ optime'[m] = o /\ lowest'[m] = Lower(lowest[m], o)
    BY <1>1, ConvergeAssumption DEF ConvergeInv, Types, Positions
  <2>2. AtLeast(o, Lower(lowest[m], o))
    BY <2>1, LessOrder
  <2>3. \A p \in Positions : AtLeast(p, lowest[m]) => AtLeast(p, Lower(lowest[m], o))
    BY <2>1, LessOrder
  <2>4. QED
    BY <1>2, <2>1, <2>2, <2>3 DEF ConvergeInv, Remembered
<1>7. QED
  BY <1>3, <1>4, <1>5, <1>6 DEF ConvergeInv

\* Every step keeps the invariant.
LEMMA ConvergeNext == ConvergeInv /\ [Next]_vars => ConvergeInv'
<1> SUFFICES ASSUME ConvergeInv, [Next]_vars PROVE ConvergeInv'
  OBVIOUS
<1>1. leader \in Members \cup {"none"}
  BY DEF ConvergeInv, Types
<1>2. CASE EndPass \/ TimeOut \/ Expire \/ Election \/ Done \/ UNCHANGED vars
  BY <1>1, <1>2, ConvergeFrame DEF EndPass, TimeOut, Expire, Election, Done, vars
<1>3. QED
  BY <1>2, InvFindPrimary, InvReadWatermark, InvStartPass, InvPoll, InvMember
     DEF Next, WaitStep

(***************************************************************************)
(* convergenceTimeout calls a member slow only if its last position is     *)
(* past the lowest one it had while waiting: polls that failed or found no *)
(* position do not count as a first position.                              *)
(***************************************************************************)
THEOREM SlowAdvanced == SafetySpec => []SlowMeansAdvanced
<1>1. ConvergeInv => SlowMeansAdvanced
  <2> SUFFICES ASSUME ConvergeInv, NEW m \in DOMAIN samples, Diagnosis(m) = "slow"
               PROVE  Less(lowest[m], samples[m].applied)
    BY DEF SlowMeansAdvanced
  <2>1. ~IsZero(samples[m].applied) /\ Less(samples[m].first, samples[m].applied)
    BY DEF Diagnosis
  <2>2. /\ m \in Members /\ lowest[m] \in Positions
        /\ samples[m].first \in Positions /\ samples[m].applied \in Positions
        /\ AtLeast(samples[m].first, lowest[m])
    BY <2>1, ConvergeAssumption DEF ConvergeInv, Types, Remembered, Positions
  <2>3. QED
    BY <2>1, <2>2, LessOrder
<1>2. QED
  BY <1>1, ConvergeInit, ConvergeNext, PTL DEF SafetySpec

(***************************************************************************)
(* WaitConverged implements ConvergeSpec: one watermark, which some member *)
(* had applied, and convergence reported only if every address asked about *)
(* was at or past it since, however members move between the polls.        *)
(***************************************************************************)
THEOREM PromiseKept == SafetySpec => KeepsPromise
<1> DEFINE watched == IF addrs = << >> THEN Entries(MemberList) ELSE Entries(addrs)
<1>1. Init => Promise!Init
  <2> SUFFICES ASSUME Init PROVE Promise!Init
    OBVIOUS
  <2>1. Phase = "idle"
    BY DEF Init, Phase, Waiting
  <2>2. watched \in SUBSET Members
    BY ConvergeAssumption DEF Init, Entries
  <2>3. QED
    BY <2>1, <2>2 DEF Init, Promise!Init
<1>2. ConvergeInv /\ [Next]_vars => [Promise!Next]_(Promise!vars)
  <2> SUFFICES ASSUME ConvergeInv, [Next]_vars PROVE [Promise!Next]_(Promise!vars)
    OBVIOUS
  <2>1. ASSUME Phase' = Phase, watched' = watched, UNCHANGED <<optime, watermark, reached>>
        PROVE  Promise!Next \/ UNCHANGED Promise!vars
    BY <2>1 DEF Promise!vars
  <2>2. ASSUME Phase \in {"idle", "waiting"}, Phase' = "failed", watched' = watched,
               UNCHANGED <<optime, watermark, reached>>
        PROVE  Promise!Next
    BY <2>2 DEF Promise!Next, Promise!Fail
  <2>3. CASE FindPrimary
    <3>1. watched' = watched /\ UNCHANGED <<optime, watermark, reached>>
      BY <2>3, ConvergeAssumption DEF FindPrimary
    <3>2. Phase = "idle" /\ Phase' \in {"idle", "failed"}
      BY <2>3 DEF FindPrimary, Phase, Waiting
    <3>3. QED
      BY <2>1, <2>2, <3>1, <3>2
  <2>4. CASE ReadWatermark
    <3>1. watched' = watched /\ optime' = optime /\ pc = "progress"
      BY <2>4 DEF ReadWatermark
    <3>2. Phase = "idle"
      BY <3>1 DEF Phase, Waiting
    <3>3. CASE pc' = "failed" /\ UNCHANGED <<watermark, reached, lowest>>
      BY <2>2, <3>1, <3>2, <3>3 DEF Phase, Waiting
    <3>4. CASE /\ ~IsZero(optime[primary]) /\ watermark' = optime[primary]
               /\ reached' = Past(watermark') /\ pc' = "pass"
      <4>1. primary \in Members
        BY <3>1 DEF ConvergeInv, Asked
      <4>2. Phase' = "waiting"
        BY <3>4 DEF Phase, Waiting
      <4>3. Promise!Begin
        BY <3>1, <3>2, <3>4, <4>1, <4>2 
           DEF Promise!Begin, Promise!Past, Past, Promise!AtLeast, Promise!Less, AtLeast,
               Less, Promise!IsZero, IsZero
      <4>4. QED
        BY <4>3 DEF Promise!Next
    <3>5. QED
      BY <2>4, <3>3, <3>4 DEF ReadWatermark
  <2>5. CASE StartPass \/ Poll \/ Expire \/ Election \/ Done \/ UNCHANGED vars
    <3>1. watched' = watched /\ UNCHANGED <<optime, watermark, reached>>
      BY <2>5 DEF StartPass, Poll, Expire, Election, Done, vars
    <3>2. Phase' = Phase
      BY <2>5 DEF StartPass, Poll, Expire, Election, Done, vars, Phase, Waiting
    <3>3. QED
      BY <2>1, <3>1, <3>2
  <2>6. CASE EndPass
    <3>1. watched' = watched /\ UNCHANGED <<optime, watermark, reached>> /\ pc = "poll"
      BY <2>6 DEF EndPass
    <3>2. Phase = "waiting"
      BY <3>1 DEF Phase, Waiting
    <3>3. CASE pc' = "pass"
      <4>1. Phase' = "waiting"
        BY <3>3 DEF Phase, Waiting
      <4>2. QED
        BY <2>1, <3>1, <3>2, <4>1
    <3>4. CASE pc' = "converged" /\ caughtUp = Len(addrs)
      <4>1. index = Len(addrs) + 1 /\ addrs # << >>
        BY <2>6, <3>1 DEF EndPass, ConvergeInv, Types, Counted, Asked
      <4>2. \A k \in 1 .. Len(addrs) : addrs[k] \in reached
        BY <3>1, <3>4, <4>1 DEF ConvergeInv, Types, Counted
      <4>3. watched \subseteq reached
        BY <4>1, <4>2 DEF Entries, ConvergeInv, Types
      <4>4. Phase' = "converged"
        BY <3>4 DEF Phase, Waiting
      <4>5. Promise!Converge
        BY <3>1, <3>2, <4>3, <4>4 DEF Promise!Converge
      <4>6. QED
        BY <4>5 DEF Promise!Next
    <3>5. QED
      BY <2>6, <3>3, <3>4 DEF EndPass
  <2>7. CASE TimeOut
    <3>1. watched' = watched /\ UNCHANGED <<optime, watermark, reached>>
      BY <2>7 DEF TimeOut
    <3>2. Phase = "waiting" /\ Phase' = "failed"
      BY <2>7 DEF TimeOut, Phase, Waiting
    <3>3. QED
      BY <2>2, <3>1, <3>2
  <2>8. ASSUME NEW m \in Members, MemberMoves(m) PROVE Promise!Next
    <3>1. watched' = watched /\ pc' = pc /\ watermark' = watermark
      BY <2>8 DEF MemberMoves
    <3>2. Phase' = Phase /\ (Phase = "waiting" <=> Waiting)
      BY <3>1 DEF Phase, Waiting, ConvergeInv, Types
    <3>3. optime' \in [Members -> OpTimes]
      BY <2>8 DEF MemberMoves, ConvergeInv, Types
    <3>4. reached' = IF Phase = "waiting" THEN reached \cup Past(watermark) ELSE reached
      BY <2>8, <3>2 DEF MemberMoves
    <3>5. Promise!Move
      BY <3>1, <3>2, <3>3, <3>4 
         DEF Promise!Move, Promise!Past, Past, Promise!AtLeast, Promise!Less, AtLeast, Less
    <3>6. QED
      BY <3>5 DEF Promise!Next
  <2>9. QED
    BY <2>3, <2>4, <2>5, <2>6, <2>7, <2>8 DEF Next, WaitStep
<1>3. QED
  BY <1>1, <1>2, ConvergeInit, ConvergeNext, PTL DEF SafetySpec, KeepsPromise, Promise!Spec

=============================================================================
