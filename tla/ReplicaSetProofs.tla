-------------------------- MODULE ReplicaSetProofs --------------------------
(***************************************************************************)
(* The replica set harness: no reconfiguration drops a member nobody asked *)
(* to remove, nothing is left behind unreported, and the harness's view of *)
(* the set is right; for any number of mongods, DumboDB members and        *)
(* operations, with lost replies, late reconfigurations and elections.     *)
(***************************************************************************)
EXTENDS ReplicaSet, SequenceTheorems, TLAPS

Ours == Stock \cup Dumbos

\* The test is over or has failed.
Ending == op.kind \in {"cleanup", "teardown"}

\* The set is up and the test goes on.
Running == op.kind \notin {"start", "cleanup", "teardown"}

-----------------------------------------------------------------------------
(* The inductive invariants.                                               *)

IsOp == op = [kind |-> op.kind, host |-> op.host, step |-> op.step, copy |-> op.copy]

OpInv ==
  /\ IsOp
  /\ \/ op.kind \in {"idle", "cleanup"} /\ op.step = ""
     \/ op.kind = "stepdown" /\ op.step = "new primary"
     \/ op.kind = "start"
        /\ op.step \in {"spawn", "initiate", "elected", "bootstrap", "steady"}
     \/ op.kind = "join" /\ op.step \in {"launch", "config", "send"}
     \/ op.kind = "launch" /\ op.step = "launch"
     \/ op.kind \in {"add", "remove"} /\ op.step \in {"config", "send"}
     \/ op.kind = "teardown" /\ op.step \in {"config", "send", "kill"}
  /\ op.kind \in {"join", "launch", "add", "remove", "teardown"} => op.host \in Dumbos
  /\ op.kind = "teardown" => cleanups # << >> /\ op.host = Last(cleanups)

\* The local list, the ids and the registered cleanups.
ListInv ==
  /\ members \in Seq(Ours) /\ IsInjective(members)
  /\ Range(members) \subseteq DOMAIN idOf /\ DOMAIN idOf \subseteq Ours
  /\ op.kind \in {"join", "launch", "add"} => op.host \in DOMAIN idOf
  /\ op.kind \in {"join", "add"} => op.host \notin Range(members)
  /\ cleanups \in Seq(Dumbos \cup {"stop"})
  /\ start.own => cleanups = << >> \/ cleanups[1] = "stop"
  /\ start.own /\ ~Ending => cleanups # << >>
  /\ ~Ending => DOMAIN idOf \cap Dumbos \subseteq Range(cleanups)

\* StartReplicaSet spawns the mongods in order.
StartInv ==
  op.kind = "start" =>
    /\ start.own /\ cleanups = <<"stop">> /\ inFlight = {}
    /\ DOMAIN idOf = Range(members) /\ Len(members) <= Len(Mongods)
    /\ \A k \in 1 .. Len(members) : members[k] = Mongods[k] /\ idOf[Mongods[k]] = k - 1
    /\ IF op.step = "spawn"
       THEN Len(members) < Len(Mongods) /\ op.host = Mongods[Len(members) + 1]
       ELSE Len(members) = Len(Mongods)
    /\ IF op.step \in {"spawn", "initiate"} THEN DOMAIN config.ids = {} ELSE config.ids = idOf

\* A configuration on its way is based on the current one or too old.
ConfigInv ==
  /\ config.version \in Nat
  /\ \A c \in inFlight :
       /\ c.version \in Nat /\ c.version <= config.version + 1
       /\ c.version > config.version => DOMAIN config.ids \ DOMAIN c.ids \subseteq asked
  /\ op.step = "send" =>
       /\ op.copy.version \in Nat /\ op.copy.version <= config.version + 1
       /\ op.copy.version > config.version =>
            op.copy.ids = IF op.kind \in {"join", "add"} THEN Added(config, op.host)
                          ELSE Removed(config, op.host)
  /\ op.kind \in {"remove", "teardown"} /\ op.step \in {"config", "send"} => op.host \in asked

\* While the test goes on no reply was lost, and the local list is the set's.
ViewInv ==
  Running => /\ inFlight = {}
             /\ Range(members) = DOMAIN config.ids \ {Foreign}
             /\ Stock \cap Range(members) # {}

\* Any members, of those in R, have one with the highest id.
Highest(R, f) ==
  \A S \in SUBSET R : S # {} => \E t \in S : \A h \in S : f[h] <= f[t]

HighestExists == Highest(Range(members), idOf)

\* In an own set the ids are those the harness gave.
IdsInv ==
  start.own =>
    /\ ~Ending => HighestExists /\ \A h \in DOMAIN idOf : idOf[h] \in Nat
    /\ Running => /\ Foreign \notin DOMAIN config.ids /\ IsInjective(config.ids)
                  /\ \A h \in Range(members) : config.ids[h] = idOf[h]
    /\ op.kind = "join" => \A h \in Range(members) : idOf[h] < idOf[op.host]
    /\ op.kind = "join" /\ op.step = "send" => IsInjective(op.copy.ids)

CredInv ==
  /\ cred => \A h \in DOMAIN pool : pool[h] = TRUE
  /\ user => cred \/ (op.kind = "cleanup" /\ Range(cleanups) \subseteq {"stop"})

\* d is not configured, and no request on its way can configure it.
Gone(d) ==
  /\ d \notin DOMAIN config.ids
  /\ \A c \in inFlight : c.version > config.version => d \notin DOMAIN c.ids

GoneInv ==
  ~start.own => \A d \in Dumbos :
    \/ Gone(d) \/ d \in reported
    \/ d \in Range(cleanups) /\ ~(op.kind = "teardown" /\ op.step = "kill" /\ op.host = d)

\* What runs and what is on disk is still to be cleaned up, or excused.
HostsInv ==
  /\ alive \subseteq Ours /\ dirs \subseteq Ours
  /\ \A d \in Dumbos : /\ d \in alive => d \in proc /\ d \in Range(cleanups)
                       /\ d \in dirs => d \in Range(cleanups)
  /\ start.own => \A h \in Stock :
       \/ h \in unready
       \/ h \in proc /\ h \in Range(members) /\ cleanups # << >>
       \/ h \notin alive /\ (h \in dirs => h \in killed)

SetInv == /\ OpInv /\ ListInv /\ StartInv /\ ConfigInv /\ ViewInv /\ IdsInv /\ CredInv
          /\ GoneInv /\ HostsInv

-----------------------------------------------------------------------------
(* Facts about lists.                                                      *)

\* Appending to a list.
LEMMA AppendFacts ==
  ASSUME NEW S, NEW s \in Seq(S), NEW x \in S
  PROVE  /\ Append(s, x) \in Seq(S) /\ Append(s, x) # << >>
         /\ Range(Append(s, x)) = Range(s) \cup {x}
         /\ s # << >> => Append(s, x)[1] = s[1]
         /\ IsInjective(s) /\ x \notin Range(s) => IsInjective(Append(s, x))
<1>1. Append(s, x) \in Seq(S) /\ Len(Append(s, x)) = Len(s) + 1
      /\ Append(s, x)[Len(s) + 1] = x /\ \A i \in 1 .. Len(s) : Append(s, x)[i] = s[i]
  OBVIOUS
<1>2. DOMAIN s = 1 .. Len(s) /\ DOMAIN Append(s, x) = 1 .. Len(s) + 1 /\ Len(s) \in Nat
  BY <1>1
<1>3. Range(Append(s, x)) = Range(s) \cup {x}
  <2>1. ASSUME NEW y \in Range(Append(s, x))  PROVE y \in Range(s) \cup {x}
    <3>1. PICK i \in 1 .. Len(s) + 1 : y = Append(s, x)[i]  BY <1>2, <2>1 DEF Range
    <3>2. CASE i = Len(s) + 1  BY <3>1, <3>2, <1>1
    <3>3. CASE i \in 1 .. Len(s)  BY <3>1, <3>3, <1>1, <1>2 DEF Range
    <3> QED  BY <3>2, <3>3, <1>2
  <2>2. ASSUME NEW y \in Range(s)  PROVE y \in Range(Append(s, x))
    <3>1. PICK i \in 1 .. Len(s) : y = s[i]  BY <1>2, <2>2 DEF Range
    <3> QED  BY <3>1, <1>1, <1>2 DEF Range
  <2>3. x \in Range(Append(s, x))  BY <1>1, <1>2 DEF Range
  <2> QED  BY <2>1, <2>2, <2>3
<1>4. ASSUME IsInjective(s), x \notin Range(s)  PROVE IsInjective(Append(s, x))
  BY <1>1, <1>2, <1>4 DEF IsInjective, Range
<1> QED  BY <1>1, <1>2, <1>3, <1>4

\* A list without its last element.
LEMMA FrontFacts ==
  ASSUME NEW S, NEW s \in Seq(S), s # << >>
  PROVE  /\ Front(s) \in Seq(S) /\ Last(s) \in S
         /\ Range(Front(s)) \subseteq Range(s)
         /\ \A x \in Range(s) : x = Last(s) \/ x \in Range(Front(s))
         /\ s[1] # Last(s) => Front(s) # << >>
         /\ Front(s) # << >> => Front(s)[1] = s[1]
<1>1. Len(s) \in Nat \ {0} /\ DOMAIN s = 1 .. Len(s)
  OBVIOUS
<1>2. Front(s) \in Seq(S) /\ Len(Front(s)) = Len(s) - 1
      /\ \A i \in 1 .. Len(s) - 1 : Front(s)[i] = s[i]
  BY <1>1 DEF Front
<1>3. DOMAIN Front(s) = 1 .. Len(s) - 1  BY <1>1, <1>2
<1>4. Last(s) \in S  BY <1>1 DEF Last
<1>5. Range(Front(s)) \subseteq Range(s)  BY <1>1, <1>2, <1>3 DEF Range
<1>6. ASSUME NEW x \in Range(s)  PROVE x = Last(s) \/ x \in Range(Front(s))
  <2>1. PICK i \in 1 .. Len(s) : x = s[i]  BY <1>1, <1>6 DEF Range
  <2>2. CASE i = Len(s)  BY <2>1, <2>2 DEF Last
  <2>3. CASE i \in 1 .. Len(s) - 1  BY <2>1, <2>3, <1>2, <1>3 DEF Range
  <2>4. i = Len(s) \/ i \in 1 .. Len(s) - 1  OBVIOUS
  <2> QED  BY <2>2, <2>3, <2>4
<1>7. s[1] # Last(s) => Front(s) # << >>  BY <1>1, <1>2 DEF Last
<1>8. Front(s) # << >> => Front(s)[1] = s[1]  BY <1>1, <1>2
<1> QED  BY <1>2, <1>4, <1>5, <1>6, <1>7, <1>8

\* A list without the first, and only, occurrence of an element.
LEMMA RemoveFacts ==
  ASSUME NEW S, NEW s \in Seq(S), IsInjective(s), NEW x
  PROVE  /\ RemoveFirst(s, x) \in Seq(S) /\ IsInjective(RemoveFirst(s, x))
         /\ Range(RemoveFirst(s, x)) = Range(s) \ {x}
<1> DEFINE n == Len(s)
           I == {i \in 1 .. Len(s) : s[i] = x}
<1>1. n \in Nat /\ DOMAIN s = 1 .. n  OBVIOUS
<1>2. CASE x \notin Range(s)
  <2>1. RemoveFirst(s, x) = s  BY <1>1, <1>2 DEF RemoveFirst, Range
  <2> QED  BY <2>1, <1>2
<1>3. CASE x \in Range(s)
  <2>1. PICK k \in 1 .. n : s[k] = x  BY <1>1, <1>3 DEF Range
  <2>2. I = {k}  BY <1>1, <2>1 DEF IsInjective
  <2>3. Min(I) = k
    <3>1. \E y \in I : \A z \in I : y =< z  BY <1>1, <2>2
    <3> QED  BY <2>2, <3>1 DEF Min
  <2>4. SelectInSeq(s, LAMBDA v : v = x) = k
    BY <2>2, <2>3 DEF SelectInSeq
  <2>5. RemoveFirst(s, x) = SubSeq(s, 1, k - 1) \o SubSeq(s, k + 1, n)
    BY <2>1, <2>4 DEF RemoveFirst, RemoveAt
  <2> DEFINE r == SubSeq(s, 1, k - 1) \o SubSeq(s, k + 1, n)
  <2>6. r \in Seq(S) /\ Len(r) = n - 1
        /\ \A i \in 1 .. n - 1 : r[i] = IF i < k THEN s[i] ELSE s[i + 1]
    <3> DEFINE a == SubSeq(s, 1, k - 1)
               b == SubSeq(s, k + 1, n)
    <3>1. a \in Seq(S) /\ Len(a) = k - 1 /\ \A i \in 1 .. k - 1 : a[i] = s[i]
      <4>1. \A i \in 1 .. k - 1 : s[i] \in S  BY <1>1, <2>1
      <4> QED  BY <1>1, <2>1, <4>1, SubSeqProperties
    <3>2. b \in Seq(S) /\ Len(b) = n - k /\ \A i \in 1 .. n - k : b[i] = s[k + i]
      <4>1. \A i \in k + 1 .. n : s[i] \in S  BY <1>1, <2>1
      <4>2. k + 1 \in Int /\ n \in Int /\ k <= n  BY <1>1, <2>1
      <4>3. /\ b \in Seq(S) /\ Len(b) = IF k + 1 <= n THEN n - (k + 1) + 1 ELSE 0
            /\ \A i \in 1 .. n - (k + 1) + 1 : b[i] = s[(k + 1) + i - 1]
        BY <4>1, <4>2, SubSeqProperties
      <4> HIDE DEF b, n
      <4>4. Len(b) = n - k  BY <4>2, <4>3, <2>1
      <4>5. ASSUME NEW i \in 1 .. n - k  PROVE b[i] = s[k + i]
        <5>1. i \in 1 .. n - (k + 1) + 1 /\ (k + 1) + i - 1 = k + i  BY <4>2, <2>1
        <5> QED  BY <4>3, <5>1
      <4> QED  BY <4>3, <4>4, <4>5
    <3> HIDE DEF a, b
    <3>3. a \o b \in Seq(S) /\ Len(a \o b) = n - 1
          /\ \A i \in 1 .. n - 1 : (a \o b)[i] = IF i <= k - 1 THEN a[i] ELSE b[i - (k - 1)]
      <4>1. /\ a \o b \in Seq(S) /\ Len(a \o b) = Len(a) + Len(b)
            /\ \A i \in 1 .. Len(a) + Len(b) :
                 (a \o b)[i] = IF i <= Len(a) THEN a[i] ELSE b[i - Len(a)]
        BY <3>1, <3>2, ConcatProperties
      <4> HIDE DEF n
      <4>2. Len(a) + Len(b) = n - 1  BY <1>1, <2>1, <3>1, <3>2
      <4> QED  BY <3>1, <4>1, <4>2
    <3>4. ASSUME NEW i \in 1 .. n - 1
          PROVE  (a \o b)[i] = IF i < k THEN s[i] ELSE s[i + 1]
      <4>1. CASE i < k  BY <1>1, <2>1, <3>1, <3>3, <4>1
      <4>2. CASE ~(i < k)
        <5>1. (a \o b)[i] = b[i - (k - 1)] /\ i - (k - 1) \in 1 .. n - k
          BY <1>1, <2>1, <3>3, <4>2
        <5>2. b[i - (k - 1)] = s[k + (i - (k - 1))]  BY <3>2, <5>1
        <5> QED  BY <1>1, <2>1, <4>2, <5>1, <5>2
      <4> QED  BY <4>1, <4>2
    <3> QED  BY <3>3, <3>4 DEF a, b
  <2> HIDE DEF r
  <2>7. DOMAIN r = 1 .. n - 1  BY <1>1, <2>1, <2>6
  <2>8. IsInjective(r)
    <3>1. SUFFICES ASSUME NEW i \in 1 .. n - 1, NEW j \in 1 .. n - 1, r[i] = r[j]
                   PROVE  i = j
      BY <2>7 DEF IsInjective
    <3> DEFINE at(m) == IF m < k THEN m ELSE m + 1
    <3>2. \A m \in 1 .. n - 1 : at(m) \in 1 .. n /\ r[m] = s[at(m)]
      BY <1>1, <2>1, <2>6
    <3>3. s[at(i)] = s[at(j)]  BY <3>1, <3>2
    <3> HIDE DEF at
    <3>4. at(i) = at(j)  BY <1>1, <3>2, <3>3 DEF IsInjective
    <3> QED  BY <1>1, <2>1, <3>4 DEF at
  <2>9. ASSUME NEW y \in Range(r)  PROVE y \in Range(s) \ {x}
    <3>1. PICK i \in 1 .. n - 1 : y = r[i]  BY <2>7, <2>9 DEF Range
    <3>2. CASE i < k  BY <1>1, <2>1, <2>6, <3>1, <3>2 DEF Range, IsInjective
    <3>3. CASE ~(i < k)  BY <1>1, <2>1, <2>6, <3>1, <3>3 DEF Range, IsInjective
    <3> QED  BY <3>2, <3>3
  <2>10. ASSUME NEW y \in Range(s) \ {x}  PROVE y \in Range(r)
    <3>1. PICK i \in 1 .. n : y = s[i]  BY <1>1, <2>10 DEF Range
    <3>2. CASE i < k  BY <1>1, <2>1, <2>6, <2>7, <3>1, <3>2 DEF Range
    <3>3. CASE i > k
      <4>1. i - 1 \in 1 .. n - 1 /\ r[i - 1] = y  BY <1>1, <2>1, <2>6, <3>1, <3>3
      <4> QED  BY <4>1, <2>7 DEF Range
    <3> QED  BY <1>1, <2>1, <2>10, <3>1, <3>2, <3>3
  <2> QED  BY <2>5, <2>6, <2>8, <2>9, <2>10 DEF r
<1> QED  BY <1>2, <1>3

\* The kinds of hosts are apart, and none is called "stop".
LEMMA ConstFacts == /\ Stock \cap Dumbos = {} /\ Foreign \notin Ours
                    /\ "stop" \notin Dumbos /\ Stock \subseteq Ours /\ Dumbos \subseteq Ours
  BY ReplicaSetAssumption DEF Stock, Ours

\* One more member: the highest of some members is the highest of the old ones
\* or the new one.
LEMMA HighestExtends ==
  ASSUME NEW R, NEW f, NEW x, \A g \in R \cup {x} : f[g] \in Nat, Highest(R, f)
  PROVE  Highest(R \cup {x}, f)
<1> USE DEF Highest
<1> TAKE S \in SUBSET (R \cup {x})
<1> HAVE S # {}
<1>1. CASE S \subseteq {x}  BY <1>1
<1>2. CASE S \ {x} # {}
  <2>1. PICK t \in S \ {x} : \A g \in S \ {x} : f[g] <= f[t]
    <3>1. S \ {x} \in SUBSET R  OBVIOUS
    <3> QED  BY <1>2, <3>1
  <2>2. CASE x \in S /\ f[t] <= f[x]  BY <2>1, <2>2
  <2>3. CASE ~(x \in S /\ f[t] <= f[x])  BY <2>1, <2>3
  <2> QED  BY <2>2, <2>3
<1> QED  BY <1>1, <1>2

-----------------------------------------------------------------------------
(* Frames: what the actions have in common.                                *)

\* A new operation.
LEMMA OpFields ==
  ASSUME NEW k, NEW h, NEW s, op' = Op(k, h, s)
  PROVE  IsOp' /\ op'.kind = k /\ op'.host = h /\ op'.step = s
  BY DEF Op, IsOp

\* The next step of the operation.
LEMMA StepFields ==
  ASSUME IsOp, NEW s, op' = [op EXCEPT !.step = s]
  PROVE  IsOp' /\ op'.kind = op.kind /\ op'.host = op.host /\ op'.step = s /\ op'.copy = op.copy
  BY DEF IsOp

\* A fatal error leads to the cleanups; what was lost is of no concern any more.
LEMMA FatalFrame ==
  ASSUME SetInv, Fatal, CredInv', HostsInv',
         UNCHANGED <<config, inFlight, start, members, idOf, cleanups, asked, reported>>
  PROVE  SetInv'
<1>1. IsOp' /\ op'.kind = "cleanup" /\ op'.step = ""  BY OpFields DEF Fatal
<1>2. OpInv'  BY <1>1 DEF OpInv
<1>3. ListInv'  BY <1>1 DEF SetInv, ListInv, Ending
<1>4. StartInv' /\ ViewInv'  BY <1>1 DEF StartInv, ViewInv, Running
<1>5. ConfigInv'  BY <1>1 DEF SetInv, ConfigInv
<1>6. IdsInv'  BY <1>1 DEF IdsInv, Running, Ending
<1>7. GoneInv'  BY <1>1 DEF SetInv, GoneInv, Gone
<1> QED  BY <1>2, <1>3, <1>4, <1>5, <1>6, <1>7 DEF SetInv

\* An operation begins or ends, before it has read a configuration.
LEMMA RunningFrame ==
  ASSUME SetInv, Running, CredInv', HostsInv', NEW k, NEW h, NEW s, op' = Op(k, h, s),
         \/ k = "idle" /\ s = ""
         \/ k = "stepdown" /\ s = "new primary"
         \/ k = "launch" /\ s = "launch" /\ h \in Dumbos \cap DOMAIN idOf
         \/ k = "add" /\ s = "config" /\ h \in (Dumbos \cap DOMAIN idOf) \ Range(members)
         \/ k = "remove" /\ s = "config" /\ h \in Dumbos \cap asked',
         asked \subseteq asked',
         UNCHANGED <<config, inFlight, start, members, idOf, cleanups, reported>>
  PROVE  SetInv'
<1>1. IsOp' /\ op'.kind = k /\ op'.step = s /\ op'.host = h  BY OpFields
<1>2. OpInv'  BY <1>1 DEF OpInv
<1>3. ListInv'  BY <1>1 DEF SetInv, ListInv, Ending, Running
<1>4. StartInv'  BY <1>1 DEF StartInv
<1>5. ViewInv'  BY <1>1 DEF SetInv, ViewInv, Running
<1>6. ConfigInv'
  <2>1. inFlight' = {}  BY DEF SetInv, ViewInv
  <2> QED  BY <1>1, <2>1 DEF SetInv, ConfigInv
<1>7. IdsInv'  BY <1>1 DEF SetInv, IdsInv, HighestExists, Running, Ending
<1>8. GoneInv'
  <2>1. ~(op.kind = "teardown") /\ ~(op'.kind = "teardown")  BY <1>1 DEF Running
  <2> QED  BY <2>1 DEF SetInv, GoneInv, Gone
<1> QED  BY <1>2, <1>3, <1>4, <1>5, <1>6, <1>7, <1>8 DEF SetInv

\* The next phase of StartReplicaSet, once the set is initiated.
LEMMA StartFrame ==
  ASSUME SetInv, op.kind = "start", op.step \in {"elected", "bootstrap"},
         CredInv', HostsInv', NEW s \in {"bootstrap", "steady"}, op' = Op("start", None, s),
         UNCHANGED <<config, inFlight, start, members, idOf, cleanups, asked, reported>>
  PROVE  SetInv'
<1>1. IsOp' /\ op'.kind = "start" /\ op'.step = s  BY OpFields
<1>2. OpInv'  BY <1>1 DEF OpInv
<1>3. ListInv'  BY <1>1 DEF SetInv, ListInv, Ending
<1>4. StartInv'  BY <1>1 DEF SetInv, StartInv
<1>5. ViewInv'  BY <1>1 DEF ViewInv, Running
<1>6. ConfigInv'  BY <1>1 DEF SetInv, ConfigInv
<1>7. IdsInv'  BY <1>1 DEF SetInv, IdsInv, HighestExists, Running, Ending
<1>8. GoneInv'  BY <1>1 DEF SetInv, GoneInv, Gone
<1> QED  BY <1>2, <1>3, <1>4, <1>5, <1>6, <1>7, <1>8 DEF SetInv

\* The pool keeps its credentials, and a new client gets those the set has.
LEMMA DialFacts ==
  ASSUME SetInv, NEW S, pool' = Dialed(S) \/ pool' = pool, cred' = cred,
         user' => user, cleanups' = cleanups, op'.kind = op.kind \/ cred \/ op.kind # "cleanup"
  PROVE  CredInv'
  BY DEF SetInv, CredInv, Dialed

-----------------------------------------------------------------------------
(* Starting an own set.                                                    *)

\* What was spawned runs on behalf of the member list, or is not ready.
LEMMA SpawnKeeps ==
  ASSUME SetInv, SpawnMongod
  PROVE  SetInv'
<1> DEFINE h == op.host
           n == Len(members)
<1>0. /\ op.kind = "start" /\ start.own /\ cleanups = <<"stop">> /\ inFlight = {}
      /\ DOMAIN idOf = Range(members) /\ n < Len(Mongods) /\ h = Mongods[n + 1]
      /\ \A k \in 1 .. n : members[k] = Mongods[k] /\ idOf[Mongods[k]] = k - 1
      /\ DOMAIN config.ids = {}
  BY DEF SpawnMongod, SetInv, OpInv, StartInv
<1>u. UNCHANGED <<config, leader, user, inFlight, start, pool, cred, cleanups, asked, killed,
                  reported>>
  BY DEF SpawnMongod
<1>n. n \in Nat /\ members \in Seq(Ours) /\ n + 1 \in 1 .. Len(Mongods) /\ Len(Mongods) \in Nat
  BY <1>0, ReplicaSetAssumption DEF SetInv, ListInv
<1>h. h \in Stock /\ h \in Ours /\ h \notin Range(members)
  <2>1. h \in Stock  BY <1>0, <1>n, ReplicaSetAssumption DEF Stock, Range
  <2>2. ASSUME h \in Range(members)  PROVE FALSE
    <3>1. PICK k \in 1 .. n : h = members[k]  BY <1>n, <2>2 DEF Range
    <3>2. Mongods[k] = Mongods[n + 1] /\ DOMAIN Mongods = 1 .. Len(Mongods)
      BY <1>0, <3>1, ReplicaSetAssumption
    <3> QED  BY <1>n, <3>2, ReplicaSetAssumption DEF IsInjective
  <2> QED  BY <2>1, <2>2, ConstFacts
<1>1. CASE /\ Fatal /\ UNCHANGED <<members, idOf, proc>>
           /\ \/ alive' = alive \cup {h} /\ dirs' = dirs \cup {h} /\ unready' = unready \cup {h}
              \/ UNCHANGED <<alive, dirs, unready>>
  <2>1. CredInv'
    <3>1. op'.kind = "cleanup"  BY <1>1, OpFields DEF Fatal
    <3> QED  BY <1>0, <1>u, <3>1 DEF SetInv, CredInv
  <2>2. HostsInv'  BY <1>0, <1>u, <1>1, <1>h, ConstFacts DEF SetInv, HostsInv
  <2> QED  BY <1>u, <1>1, <2>1, <2>2, FatalFrame
<1>2. CASE /\ alive' = alive \cup {h} /\ dirs' = dirs \cup {h}
           /\ members' = Append(members, h)
           /\ idOf' = [g \in DOMAIN idOf \cup {h} |-> IF g = h THEN n + 1 - 1 ELSE idOf[g]]
           /\ proc' = proc \cup {h}
           /\ op' = IF n + 1 < Len(Mongods) THEN Op("start", Mongods[n + 1 + 1], "spawn")
                    ELSE Op("start", None, "initiate")
           /\ UNCHANGED unready
  <2>1. /\ members' \in Seq(Ours) /\ Range(members') = Range(members) \cup {h}
        /\ IsInjective(members') /\ Len(members') = n + 1
        /\ members'[n + 1] = h /\ \A k \in 1 .. n : members'[k] = members[k]
    BY <1>n, <1>h, <1>2, AppendFacts DEF SetInv, ListInv
  <2>2. /\ IsOp' /\ op'.kind = "start"
        /\ IF n + 1 < Len(Mongods) THEN op'.step = "spawn" /\ op'.host = Mongods[n + 1 + 1]
           ELSE op'.step = "initiate"
    BY <1>2, OpFields
  <2>3. DOMAIN idOf' = DOMAIN idOf \cup {h} /\ idOf'[h] = n
        /\ \A g \in DOMAIN idOf : idOf'[g] = idOf[g]
    BY <1>0, <1>2, <1>h, <1>n
  <2>4. OpInv'  BY <2>2 DEF OpInv
  <2>5. ListInv'
    BY <1>0, <1>u, <1>h, <2>1, <2>2, <2>3, ConstFacts DEF SetInv, ListInv, Ending
  <2>6. StartInv'
    <3>1. ASSUME NEW k \in 1 .. n + 1
          PROVE  members'[k] = Mongods[k] /\ idOf'[Mongods[k]] = k - 1
      <4>1. CASE k = n + 1  BY <1>0, <1>n, <2>1, <2>3, <4>1
      <4>2. CASE k \in 1 .. n
        <5>1. members'[k] = Mongods[k] /\ members[k] \in Range(members)
          BY <1>0, <1>n, <2>1, <4>2 DEF Range
        <5> QED  BY <1>0, <2>3, <4>2, <5>1
      <4> QED  BY <1>n, <4>1, <4>2
    <3> QED  BY <1>0, <1>u, <1>n, <2>1, <2>2, <2>3, <3>1 DEF StartInv
  <2>7. ConfigInv'  BY <1>0, <1>u, <2>2 DEF SetInv, ConfigInv
  <2>8. ViewInv'  BY <2>2 DEF ViewInv, Running
  <2>9. HighestExists'
    <3>1. \A g \in Range(members) \cup {h} : idOf'[g] \in Nat
      BY <1>0, <1>n, <2>3 DEF SetInv, IdsInv, Ending
    <3>2. Highest(Range(members), idOf')
      <4>1. HighestExists  BY <1>0 DEF SetInv, IdsInv, Ending
      <4> QED  BY <1>0, <2>3, <4>1 DEF HighestExists, Highest
    <3>3. Highest(Range(members) \cup {h}, idOf')  BY <3>1, <3>2, HighestExtends
    <3> QED  BY <2>1, <3>3 DEF HighestExists
  <2>10. IdsInv'
    <3>1. \A g \in DOMAIN idOf' : idOf'[g] \in Nat
      BY <1>0, <1>n, <2>3 DEF SetInv, IdsInv, Ending
    <3> QED  BY <2>2, <2>9, <3>1 DEF IdsInv, Running
  <2>11. CredInv'  BY <1>0, <1>u, <2>2 DEF SetInv, CredInv
  <2>12. GoneInv'  BY <1>0, <1>u DEF GoneInv
  <2>13. HostsInv'
    BY <1>0, <1>u, <1>2, <1>h, <2>1, ConstFacts DEF SetInv, HostsInv
  <2> QED
    BY <2>4, <2>5, <2>6, <2>7, <2>8, <2>10, <2>11, <2>12, <2>13 DEF SetInv
<1> QED  BY <1>1, <1>2, <1>u DEF SpawnMongod

\* The initial configuration is the list of the spawned members.
LEMMA InitiateKeeps ==
  ASSUME SetInv, Initiate
  PROVE  SetInv'
<1>0. /\ op.kind = "start" /\ start.own /\ cleanups = <<"stop">> /\ inFlight = {}
      /\ op.step = "initiate"
  BY DEF Initiate, SetInv, OpInv, StartInv
<1>u. UNCHANGED <<leader, alive, dirs, user, inFlight, start, members, idOf, proc, pool, cred,
                  cleanups, ops, asked, unready, killed, reported>>
  BY DEF Initiate, history
<1>c. op'.kind \in {"start", "cleanup"} => CredInv'
  BY <1>0, <1>u DEF SetInv, CredInv
<1>h. HostsInv'  BY <1>u DEF SetInv, HostsInv
<1>1. CASE Fatal /\ UNCHANGED config
  <2>1. CredInv'  BY <1>1, <1>c, OpFields DEF Fatal
  <2> QED  BY <1>u, <1>1, <1>h, <2>1, FatalFrame
<1>2. CASE config' = [version |-> 1, ids |-> idOf] /\ op' = Op("start", None, "elected")
  <2>1. IsOp' /\ op'.kind = "start" /\ op'.step = "elected"  BY <1>2, OpFields
  <2>2. config'.version = 1 /\ config'.ids = idOf  BY <1>2
  <2>3. OpInv'  BY <2>1 DEF OpInv
  <2>4. ListInv'  BY <1>0, <1>u, <2>1 DEF SetInv, ListInv, Ending
  <2>5. StartInv'  BY <1>0, <1>u, <2>1, <2>2 DEF SetInv, StartInv
  <2>6. ConfigInv'  BY <1>0, <1>u, <2>1, <2>2 DEF ConfigInv
  <2>7. ViewInv'  BY <2>1 DEF ViewInv, Running
  <2>8. IdsInv'  BY <1>0, <1>u, <2>1 DEF SetInv, IdsInv, HighestExists, Running, Ending
  <2>9. CredInv'  BY <1>c, <2>1
  <2>10. GoneInv'  BY <1>0, <1>u DEF GoneInv
  <2> QED  BY <1>h, <2>3, <2>4, <2>5, <2>6, <2>7, <2>8, <2>9, <2>10 DEF SetInv
<1> QED  BY <1>1, <1>2 DEF Initiate

\* WaitForPrimary.
LEMMA AwaitPrimaryKeeps ==
  ASSUME SetInv, AwaitPrimary
  PROVE  SetInv'
<1>0. op.kind = "start" /\ op.step = "elected" /\ start.own
  BY DEF AwaitPrimary, SetInv, OpInv, StartInv
<1>u. /\ UNCHANGED <<config, leader, alive, dirs, user, inFlight, start, members, idOf, proc,
                     cred, cleanups, ops, asked, unready, killed, reported>>
      /\ \E h \in Stock : pool' = Dialed({h})
  BY DEF AwaitPrimary, set, history
<1>c. CredInv'  BY <1>0, <1>u, DialFacts
<1>h. HostsInv'  BY <1>u DEF SetInv, HostsInv
<1> QED  BY <1>0, <1>u, <1>c, <1>h, FatalFrame, StartFrame DEF AwaitPrimary

\* bootstrapRoot: the pool is emptied when the credentials are set; a failure
\* leaves at most a user, and only the stop of the set to be done.
LEMMA BootstrapKeeps ==
  ASSUME SetInv, Bootstrap
  PROVE  SetInv'
<1>0. op.kind = "start" /\ op.step = "bootstrap" /\ start.own /\ cleanups = <<"stop">>
  BY DEF Bootstrap, SetInv, OpInv, StartInv
<1>u. UNCHANGED <<config, leader, alive, dirs, inFlight, start, members, idOf, proc,
                     cleanups, ops, asked, unready, killed, reported>>
  BY DEF Bootstrap, history
<1>h. HostsInv'  BY <1>u DEF SetInv, HostsInv
<1>1. CASE op' = Op("start", None, "steady") /\ UNCHANGED <<user, cred, pool>>
  <2>1. CredInv'  BY <1>0, <1>u, <1>1 DEF SetInv, CredInv
  <2> QED  BY <1>0, <1>u, <1>h, <1>1, <2>1, StartFrame
<1>2. CASE cred' = TRUE /\ pool' = << >> /\ op' = Op("start", None, "steady")
  <2>1. CredInv'  BY <1>2 DEF CredInv
  <2> QED  BY <1>0, <1>u, <1>h, <1>2, <2>1, StartFrame
<1>3. CASE Fatal /\ UNCHANGED <<cred, pool>>
  <2>1. op'.kind = "cleanup"  BY <1>3, OpFields DEF Fatal
  <2>2. Range(cleanups') \subseteq {"stop"}  BY <1>0, <1>u DEF Range
  <2>3. CredInv'  BY <1>3, <2>1, <2>2 DEF SetInv, CredInv
  <2> QED  BY <1>u, <1>h, <1>3, <2>3, FatalFrame
<1> QED  BY <1>1, <1>2, <1>3 DEF Bootstrap

\* WaitForSteadyState, after which the set is the test's.
LEMMA SteadyStateKeeps ==
  ASSUME SetInv, SteadyState
  PROVE  SetInv'
<1>0. /\ op.kind = "start" /\ start.own /\ op.step = "steady" /\ inFlight = {}
      /\ config.ids = idOf /\ DOMAIN idOf = Range(members) /\ Len(members) = Len(Mongods)
      /\ \A k \in 1 .. Len(members) : members[k] = Mongods[k] /\ idOf[Mongods[k]] = k - 1
  BY DEF SteadyState, SetInv, OpInv, StartInv
<1>u. /\ UNCHANGED <<config, leader, alive, dirs, user, inFlight, start, members, idOf, proc,
                     cred, cleanups, ops, asked, unready, killed, reported>>
      /\ pool' = Dialed(Stock)
  BY DEF SteadyState, set, history
<1>c. CredInv'  BY <1>0, <1>u, DialFacts
<1>h. HostsInv'  BY <1>u DEF SetInv, HostsInv
<1>1. CASE Fatal  BY <1>u, <1>c, <1>h, <1>1, FatalFrame
<1>2. CASE op' = Idle
  <2>1. IsOp' /\ op'.kind = "idle" /\ op'.step = ""  BY <1>2, OpFields DEF Idle
  <2>2. OpInv'  BY <2>1 DEF OpInv
  <2>3. ListInv'  BY <1>0, <1>u, <2>1 DEF SetInv, ListInv, Ending
  <2>4. StartInv'  BY <2>1 DEF StartInv
  <2>5. ConfigInv'  BY <1>u, <2>1 DEF SetInv, ConfigInv
  <2>6. ViewInv'
    <3>1. Foreign \notin DOMAIN idOf  BY ConstFacts DEF SetInv, ListInv
    <3>2. Mongods[1] \in Stock \cap Range(members)
      <4>1. Len(Mongods) \in Nat \ {0} /\ DOMAIN Mongods = 1 .. Len(Mongods)
        BY ReplicaSetAssumption
      <4>2. members \in Seq(Ours)  BY DEF SetInv, ListInv
      <4>3. 1 \in DOMAIN members /\ members[1] = Mongods[1]  BY <1>0, <4>1, <4>2
      <4> QED  BY <4>1, <4>3 DEF Stock, Range
    <3> QED  BY <1>0, <1>u, <3>1, <3>2 DEF ViewInv
  <2>7. IdsInv'
    <3>1. Foreign \notin DOMAIN idOf  BY ConstFacts DEF SetInv, ListInv
    <3>2. IsInjective(idOf)
      <4>1. members \in Seq(Ours)  BY DEF SetInv, ListInv
      <4>2. SUFFICES ASSUME NEW a \in Range(members), NEW b \in Range(members), idOf[a] = idOf[b]
                     PROVE  a = b
        BY <1>0 DEF IsInjective
      <4>3. PICK i \in 1 .. Len(members) : a = members[i]  BY <4>1 DEF Range
      <4>4. PICK j \in 1 .. Len(members) : b = members[j]  BY <4>1 DEF Range
      <4>5. i - 1 = j - 1  BY <1>0, <4>2, <4>3, <4>4
      <4> QED  BY <4>3, <4>4, <4>5
    <3>3. HighestExists' /\ \A h \in DOMAIN idOf : idOf[h] \in Nat
      BY <1>0, <1>u DEF SetInv, IdsInv, HighestExists, Ending
    <3> QED  BY <1>0, <1>u, <2>1, <3>1, <3>2, <3>3 DEF IdsInv
  <2>8. GoneInv'  BY <1>0, <1>u DEF GoneInv
  <2> QED  BY <1>c, <1>h, <2>2, <2>3, <2>4, <2>5, <2>6, <2>7, <2>8 DEF SetInv
<1> QED  BY <1>1, <1>2 DEF SteadyState

-----------------------------------------------------------------------------
(* Operations of the test.                                                 *)

\* nextMemberID gives an id above those of all listed members.
LEMMA NextIsAbove ==
  ASSUME SetInv, start.own, Running
  PROVE  NextMemberID \in Nat /\ \A h \in Range(members) : idOf[h] < NextMemberID
<1>1. Range(members) # {} /\ HighestExists /\ \A h \in Range(members) : idOf[h] \in Nat
  BY DEF SetInv, ViewInv, IdsInv, ListInv, Running, Ending
<1>2. PICK t \in Range(members) : \A h \in Range(members) : idOf[h] <= idOf[t]
  BY <1>1 DEF HighestExists, Highest
<1> DEFINE Ids == {idOf[h] : h \in Range(members)}
           top == CHOOSE i \in Ids : \A h \in Range(members) : idOf[h] <= i
<1>3. top \in Ids /\ \A h \in Range(members) : idOf[h] <= top  BY <1>2
<1>4. NextMemberID = 1 + top  BY DEF NextMemberID
<1>5. top \in Nat  BY <1>1, <1>3
<1> HIDE DEF top
<1> QED  BY <1>1, <1>3, <1>4, <1>5

\* JoinDumboDBWith: the cleanup is registered before anything is launched.
LEMMA JoinKeeps ==
  ASSUME SetInv, NEW d \in Dumbos, JoinDumboDB(d)
  PROVE  SetInv'
<1>0. op.kind = "idle" /\ Running /\ d \notin DOMAIN idOf /\ inFlight = {}
  BY DEF JoinDumboDB, Begin, Running, SetInv, ViewInv
<1>u. /\ UNCHANGED <<config, leader, alive, user, inFlight, start, members, proc, pool, cred,
                     asked, unready, killed, reported>>
      /\ dirs' = dirs \cup {d} /\ cleanups' = Append(cleanups, d)
  BY DEF JoinDumboDB, history
<1>1. IsOp' /\ op'.kind = "join" /\ op'.step = "launch" /\ op'.host = d
  BY OpFields DEF JoinDumboDB
<1>2. /\ DOMAIN idOf' = DOMAIN idOf \cup {d} /\ idOf'[d] = NextMemberID
      /\ \A h \in DOMAIN idOf : idOf'[h] = idOf[h]
  BY <1>0 DEF JoinDumboDB
<1>3. /\ cleanups' \in Seq(Dumbos \cup {"stop"}) /\ cleanups' # << >>
      /\ Range(cleanups') = Range(cleanups) \cup {d}
      /\ cleanups # << >> => cleanups'[1] = cleanups[1]
  BY <1>u, AppendFacts DEF SetInv, ListInv
<1>4. Range(members) \subseteq DOMAIN idOf  BY DEF SetInv, ListInv
<1>5. OpInv'  BY <1>1 DEF OpInv
<1>6. ListInv'
  <2>1. start.own => cleanups # << >>
    BY <1>0 DEF SetInv, ListInv, Running, Ending
  <2> QED
    BY <1>0, <1>u, <1>1, <1>2, <1>3, <1>4, <2>1, ConstFacts DEF SetInv, ListInv, Ending, Running
<1>7. StartInv'  BY <1>1 DEF StartInv
<1>8. ConfigInv'  BY <1>0, <1>u, <1>1 DEF SetInv, ConfigInv
<1>9. ViewInv'  BY <1>0, <1>u, <1>1 DEF SetInv, ViewInv, Running
<1>10. IdsInv'
  <2>1. SUFFICES ASSUME start.own  PROVE IdsInv'
    BY <1>u DEF IdsInv
  <2>2. NextMemberID \in Nat /\ \A h \in Range(members) : idOf[h] < NextMemberID
    BY <1>0, <2>1, NextIsAbove
  <2>3. HighestExists'
    BY <1>0, <1>u, <1>2, <1>4, <2>1 DEF SetInv, IdsInv, HighestExists, Highest, Ending, Running
  <2> QED
    BY <1>0, <1>u, <1>1, <1>2, <1>4, <2>1, <2>2, <2>3 DEF SetInv, IdsInv, Ending, Running
<1>11. CredInv'  BY <1>0, <1>u DEF SetInv, CredInv
<1>12. GoneInv'  BY <1>0, <1>u, <1>1, <1>3 DEF SetInv, GoneInv, Gone
<1>13. HostsInv'  BY <1>0, <1>u, <1>3, ConstFacts DEF SetInv, HostsInv
<1> QED
  BY <1>5, <1>6, <1>7, <1>8, <1>9, <1>10, <1>11, <1>12, <1>13 DEF SetInv

\* AddMember of a member that had left.
LEMMA AddKeeps ==
  ASSUME SetInv, NEW d \in Dumbos, AddMember(d)
  PROVE  SetInv'
<1>1. /\ Running /\ op.kind = "idle" /\ d \in DOMAIN idOf /\ d \notin Range(members)
      /\ UNCHANGED <<set, start, members, idOf, proc, pool, cred, cleanups, history>>
      /\ op' = Op("add", d, "config")
  BY DEF AddMember, Begin, Running
<1>2. CredInv'  BY <1>1 DEF SetInv, CredInv, set
<1>3. HostsInv'  BY <1>1 DEF SetInv, HostsInv, set, history
<1> QED  BY <1>1, <1>2, <1>3, RunningFrame DEF set, history

\* RemoveMember.
LEMMA RemoveKeeps ==
  ASSUME SetInv, NEW d \in Dumbos, RemoveMember(d)
  PROVE  SetInv'
<1>1. /\ Running /\ op.kind = "idle" /\ asked' = asked \cup {d}
      /\ UNCHANGED <<set, start, members, idOf, proc, pool, cred, cleanups, unready, killed,
                     reported>>
      /\ op' = Op("remove", d, "config")
  BY DEF RemoveMember, Begin, Running
<1>2. CredInv'  BY <1>1 DEF SetInv, CredInv, set
<1>3. HostsInv'  BY <1>1 DEF SetInv, HostsInv, set
<1> QED  BY <1>1, <1>2, <1>3, RunningFrame DEF set

\* DumboMember.Stop and Kill.
LEMMA StopKeeps ==
  ASSUME SetInv, NEW d \in Dumbos, StopDumbo(d)
  PROVE  SetInv'
<1>1. /\ Running /\ op.kind = "idle"
      /\ alive' = alive \ {d} /\ proc' = proc \ {d}
      /\ UNCHANGED <<config, dirs, user, inFlight, start, members, idOf, pool, cred, cleanups,
                     asked, unready, killed, reported>>
      /\ op' = Op("idle", None, "")
  BY DEF StopDumbo, Begin, Running, Idle, history
<1>2. CredInv'  BY <1>1 DEF SetInv, CredInv
<1>3. HostsInv'  BY <1>1, ConstFacts DEF SetInv, HostsInv
<1> QED  BY <1>1, <1>2, <1>3, RunningFrame

\* DumboMember.Start.
LEMMA StartKeeps ==
  ASSUME SetInv, NEW d \in Dumbos, StartDumbo(d)
  PROVE  SetInv'
<1>1. /\ Running /\ op.kind = "idle" /\ d \in DOMAIN idOf
      /\ UNCHANGED <<set, start, members, idOf, proc, pool, cred, cleanups, history>>
      /\ Fatal \/ op' = Op("launch", d, "launch")
  BY DEF StartDumbo, Begin, Running, Fatal, SetInv, ListInv
<1>2. CredInv'  BY <1>1 DEF SetInv, CredInv, set
<1>3. HostsInv'  BY <1>1 DEF SetInv, HostsInv, set, history
<1> QED  BY <1>1, <1>2, <1>3, RunningFrame, FatalFrame DEF set, history

\* launch: the process is recorded, and the member's cleanup is registered.
LEMMA LaunchKeeps ==
  ASSUME SetInv, Launch
  PROVE  SetInv'
<1>0. op.step = "launch" /\ op.kind \in {"join", "launch"} /\ Running
  BY DEF Launch, SetInv, OpInv, Running
<1>h. op.host \in Dumbos /\ op.host \in DOMAIN idOf /\ op.host \in Range(cleanups)
  BY <1>0 DEF SetInv, OpInv, ListInv, Running, Ending
<1>u. UNCHANGED <<config, leader, dirs, user, inFlight, start, members, idOf, pool, cred,
                  cleanups, ops, asked, unready, killed, reported>>
  BY DEF Launch, history
<1>c. CredInv'  BY <1>0, <1>u DEF SetInv, CredInv
<1>1. HostsInv'
  <2>1. \/ alive' = alive \cup {op.host} /\ proc' = proc \cup {op.host}
        \/ UNCHANGED <<alive, proc>>
    BY DEF Launch
  <2> QED  BY <1>u, <1>h, <2>1, ConstFacts DEF SetInv, HostsInv
<1>2. CASE Fatal  BY <1>u, <1>c, <1>1, <1>2, FatalFrame
<1>3. CASE op' = Op("idle", None, "")  BY <1>0, <1>u, <1>c, <1>1, <1>3, RunningFrame
<1>4. CASE op.kind = "join" /\ op' = [op EXCEPT !.step = "config"]
  <2>1. IsOp' /\ op'.kind = "join" /\ op'.host = op.host /\ op'.step = "config"
    BY <1>4, StepFields DEF SetInv, OpInv
  <2>2. OpInv'  BY <1>h, <2>1 DEF OpInv
  <2>3. ListInv'  BY <1>u, <1>4, <2>1 DEF SetInv, ListInv, Ending
  <2>4. StartInv'  BY <2>1 DEF StartInv
  <2>5. ViewInv'  BY <1>0, <1>u DEF SetInv, ViewInv
  <2>6. ConfigInv'  BY <1>u, <2>1 DEF SetInv, ConfigInv
  <2>7. IdsInv'
    BY <1>0, <1>u, <1>4, <2>1 DEF SetInv, IdsInv, HighestExists, Running, Ending
  <2>8. GoneInv'  BY <1>u, <1>4, <2>1 DEF SetInv, GoneInv, Gone
  <2> QED  BY <1>c, <1>1, <2>2, <2>3, <2>4, <2>5, <2>6, <2>7, <2>8 DEF SetInv
<1> QED  BY <1>0, <1>2, <1>3, <1>4 DEF Launch, Idle

\* KillMember: the directory stays, and is excused.
LEMMA KillKeeps ==
  ASSUME SetInv, NEW h \in Stock, KillMember(h)
  PROVE  SetInv'
<1>1. /\ Running /\ op.kind = "idle"
      /\ alive' = alive \ {h} /\ proc' = proc \ {h} /\ killed' = killed \cup {h}
      /\ pool' = [g \in DOMAIN pool \ {h} |-> pool[g]]
      /\ UNCHANGED <<config, dirs, user, inFlight, start, members, idOf, cred, cleanups,
                     asked, unready, reported>>
      /\ op' = Op("idle", None, "")
  BY DEF KillMember, Begin, Running, Idle
<1>2. CredInv'  BY <1>1 DEF SetInv, CredInv
<1>3. HostsInv'  BY <1>1, ConstFacts DEF SetInv, HostsInv
<1> QED  BY <1>1, <1>2, <1>3, RunningFrame

\* StepDownPrimary and WaitForNewPrimary.
LEMMA StepDownKeeps ==
  ASSUME SetInv, StepDown \/ NewPrimary
  PROVE  SetInv'
<1>1. /\ Running /\ op.kind # "cleanup"
      /\ UNCHANGED <<config, alive, dirs, user, inFlight, start, members, idOf, proc, pool,
                     cred, cleanups, asked, unready, killed, reported>>
      /\ \/ op' = Op("stepdown", leader, "new primary")
         \/ op' = Op("idle", None, "")
         \/ Fatal
  BY DEF StepDown, NewPrimary, Begin, Running, Idle, SetInv, OpInv, set, history
<1>2. CredInv'  BY <1>1 DEF SetInv, CredInv
<1>3. HostsInv'  BY <1>1 DEF SetInv, HostsInv
<1>4. CASE Fatal  BY <1>1, <1>2, <1>3, <1>4, FatalFrame
<1>5. CASE op' = Op("stepdown", leader, "new primary")
  BY <1>1, <1>2, <1>3, <1>5, RunningFrame
<1>6. CASE op' = Op("idle", None, "")
  BY <1>1, <1>2, <1>3, <1>6, RunningFrame
<1> QED  BY <1>1, <1>4, <1>5, <1>6

-----------------------------------------------------------------------------
(* Reconfiguring.                                                          *)

\* What becomes of a configuration that was sent: nothing yet, it is on its way,
\* or it is accepted.
Effect ==
  \/ UNCHANGED <<config, inFlight>>
  \/ op.step = "send" /\ UNCHANGED config /\ inFlight' = inFlight \cup {op.copy}
  \/ op.step = "send" /\ Acceptable(op.copy) /\ config' = op.copy /\ UNCHANGED inFlight

\* An accepted configuration makes all others on their way too old, and it differs
\* from the current one by the host of the operation.
LEMMA AcceptFacts ==
  ASSUME SetInv, op.step = "send", Acceptable(op.copy)
  PROVE  /\ op.copy.version = config.version + 1 /\ config.version \in Nat
         /\ IsInjective(op.copy.ids)
         /\ op.copy.ids = IF op.kind \in {"join", "add"} THEN Added(config, op.host)
                          ELSE Removed(config, op.host)
  BY DEF SetInv, ConfigInv, Acceptable

\* Whatever becomes of the request, those on their way stay harmless, and a host
\* that is gone stays gone unless it is being added.
LEMMA EffectFacts ==
  ASSUME SetInv, op.step \in {"config", "send"}, Effect, asked' = asked
  PROVE  /\ config'.version \in Nat
         /\ \A c \in inFlight' :
              /\ c.version \in Nat /\ c.version <= config'.version + 1
              /\ c.version > config'.version => DOMAIN config'.ids \ DOMAIN c.ids \subseteq asked'
         /\ \A d \in Dumbos :
              Gone(d) /\ (d # op.host \/ op.kind \notin {"join", "add"}) => Gone(d)'
<1>1. CASE UNCHANGED <<config, inFlight>>
  BY <1>1 DEF SetInv, ConfigInv, Gone
<1>2. CASE op.step = "send" /\ UNCHANGED config /\ inFlight' = inFlight \cup {op.copy}
  <2>1. /\ op.copy.version \in Nat /\ op.copy.version <= config.version + 1
        /\ op.copy.version > config.version =>
             op.copy.ids = IF op.kind \in {"join", "add"} THEN Added(config, op.host)
                           ELSE Removed(config, op.host)
    BY <1>2 DEF SetInv, ConfigInv
  <2>2. op.kind \notin {"join", "add"} => op.host \in asked
    BY <1>2 DEF SetInv, OpInv, ConfigInv
  <2>3. op.copy.version > config.version =>
          DOMAIN config.ids \ DOMAIN op.copy.ids \subseteq asked
    BY <2>1, <2>2 DEF Added, Removed
  <2>4. ASSUME NEW d \in Dumbos, Gone(d), d # op.host \/ op.kind \notin {"join", "add"},
               op.copy.version > config.version
        PROVE  d \notin DOMAIN op.copy.ids
    BY <2>1, <2>4 DEF Gone, Added, Removed
  <2> QED  BY <1>2, <2>1, <2>3, <2>4 DEF SetInv, ConfigInv, Gone
<1>3. CASE op.step = "send" /\ Acceptable(op.copy) /\ config' = op.copy /\ UNCHANGED inFlight
  <2>1. /\ config'.version = config.version + 1 /\ config.version \in Nat
        /\ config'.ids = IF op.kind \in {"join", "add"} THEN Added(config, op.host)
                         ELSE Removed(config, op.host)
    BY <1>3, AcceptFacts
  <2>2. \A c \in inFlight : c.version \in Nat /\ c.version <= config.version + 1
    BY DEF SetInv, ConfigInv
  <2>3. ASSUME NEW d \in Dumbos, Gone(d), d # op.host \/ op.kind \notin {"join", "add"}
        PROVE  d \notin DOMAIN config'.ids
    BY <2>1, <2>3 DEF Gone, Added, Removed
  <2> QED  BY <1>3, <2>1, <2>2, <2>3 DEF Gone
<1> QED  BY <1>1, <1>2, <1>3 DEF Effect

\* A reconfiguration that failed, or whose reply was lost, ends the test; during
\* the teardown it is logged.
LEMMA FailsKeeps ==
  ASSUME SetInv, op.step \in {"config", "send"}, Fails, Effect, CredInv',
         UNCHANGED <<start, members, idOf, cleanups, asked, alive, dirs, proc, unready, killed>>
  PROVE  SetInv'
<1>1. /\ config'.version \in Nat
      /\ \A c \in inFlight' :
           /\ c.version \in Nat /\ c.version <= config'.version + 1
           /\ c.version > config'.version => DOMAIN config'.ids \ DOMAIN c.ids \subseteq asked'
      /\ \A d \in Dumbos :
           Gone(d) /\ (d # op.host \/ op.kind \notin {"join", "add"}) => Gone(d)'
  BY EffectFacts
<1>2. HostsInv'  BY DEF SetInv, HostsInv
<1>3. op.kind \in {"join", "add", "remove", "teardown"}  BY DEF SetInv, OpInv
<1>4. CASE op.kind = "teardown"
  <2>1. /\ IsOp' /\ op'.kind = "teardown" /\ op'.host = op.host /\ op'.step = "kill"
        /\ reported' = reported \cup {op.host}
    BY <1>4, StepFields DEF Fails, SetInv, OpInv
  <2>2. OpInv'  BY <1>4, <2>1 DEF SetInv, OpInv
  <2>3. ListInv'  BY <1>4, <2>1 DEF SetInv, ListInv, Ending
  <2>4. StartInv' /\ ViewInv' /\ IdsInv'  BY <2>1 DEF StartInv, ViewInv, IdsInv, Running, Ending
  <2>5. ConfigInv'  BY <1>1, <2>1 DEF ConfigInv
  <2>6. GoneInv'
    <3>1. \A d \in Dumbos : Gone(d) \/ d \in reported \/ d \in Range(cleanups) \/ start.own
      BY DEF SetInv, GoneInv
    <3> QED  BY <1>1, <1>4, <2>1, <3>1 DEF GoneInv
  <2> QED  BY <1>2, <2>2, <2>3, <2>4, <2>5, <2>6 DEF SetInv
<1>5. CASE op.kind # "teardown"
  <2>1. IsOp' /\ op'.kind = "cleanup" /\ op'.step = "" /\ reported' = reported
    BY <1>5, OpFields DEF Fails, Fatal
  <2>2. OpInv'  BY <2>1 DEF OpInv
  <2>3. ListInv'  BY <2>1 DEF SetInv, ListInv, Ending
  <2>4. StartInv' /\ ViewInv' /\ IdsInv'  BY <2>1 DEF StartInv, ViewInv, IdsInv, Running, Ending
  <2>5. ConfigInv'  BY <1>1, <2>1 DEF ConfigInv
  <2>6. GoneInv'
    <3>1. op.kind \in {"join", "add"} => op.host \in Range(cleanups)
      <4>1. op.kind \in {"join", "add"} => op.host \in Dumbos \cap DOMAIN idOf /\ ~Ending
        BY DEF SetInv, OpInv, ListInv, Ending
      <4> QED  BY <4>1 DEF SetInv, ListInv
    <3>2. \A d \in Dumbos : Gone(d) \/ d \in reported \/ d \in Range(cleanups) \/ start.own
      BY DEF SetInv, GoneInv
    <3>3. \A d \in Dumbos : Gone(d) => Gone(d)' \/ d \in Range(cleanups)
      BY <1>1, <3>1
    <3> QED  BY <2>1, <3>2, <3>3 DEF GoneInv
  <2> QED  BY <1>2, <2>2, <2>3, <2>4, <2>5, <2>6 DEF SetInv
<1> QED  BY <1>4, <1>5

\* The copy is the configuration that was read, changed by the host.
LEMMA ReadKeeps ==
  ASSUME SetInv, ReadConfig
  PROVE  SetInv'
<1>0. /\ op.step = "config" /\ op.kind \in {"join", "add", "remove", "teardown"}
      /\ op.host \in Dumbos
  BY DEF ReadConfig, SetInv, OpInv
<1>u. UNCHANGED <<config, leader, alive, dirs, user, inFlight, start, members, idOf, proc,
                  cred, cleanups, ops, asked, unready, killed>>
  BY DEF ReadConfig, set
<1>c. CredInv'
  <2>1. pool' = Dialed({leader}) \/ pool' = pool  BY DEF ReadConfig
  <2> QED  BY <1>0, <1>u, <2>1, DialFacts
<1>1. CASE Fails  BY <1>0, <1>u, <1>c, <1>1, FailsKeeps DEF Effect
<1> DEFINE ids == IF op.kind \in {"join", "add"} THEN Added(config, op.host)
                  ELSE Removed(config, op.host)
           copy == [version |-> config.version + 1, ids |-> ids]
<1>2. CASE op' = [op EXCEPT !.step = "send", !.copy = copy] /\ UNCHANGED reported
           /\ ~(op.kind \in {"join", "add"} /\ op.host \in DOMAIN config.ids)
  <2>1. IsOp' /\ op'.kind = op.kind /\ op'.host = op.host /\ op'.step = "send" /\ op'.copy = copy
    <3> HIDE DEF copy
    <3> QED  BY <1>2 DEF SetInv, OpInv, IsOp
  <2>2. op'.copy.version = config.version + 1 /\ op'.copy.ids = ids  BY <2>1
  <2> HIDE DEF copy
  <2>3. OpInv'  BY <1>0, <1>u, <2>1 DEF SetInv, OpInv
  <2>4. ListInv'  BY <1>u, <2>1 DEF SetInv, ListInv, Ending
  <2>5. StartInv'  BY <1>0, <2>1 DEF StartInv
  <2>6. ViewInv'  BY <1>u, <2>1 DEF SetInv, ViewInv, Running
  <2>7. ConfigInv'
    <3>1. ids = (IF op.kind \in {"join", "add"} THEN Added(config, op.host)
                 ELSE Removed(config, op.host))'
      BY <1>u, <2>1 DEF Added, Removed
    <3> HIDE DEF ids
    <3> QED  BY <1>0, <1>u, <2>1, <2>2, <3>1 DEF SetInv, ConfigInv
  <2>8. IdsInv'
    <3>1. ASSUME start.own, op.kind = "join"  PROVE IsInjective(ids)
      <4>1. /\ IsInjective(config.ids) /\ Foreign \notin DOMAIN config.ids
            /\ \A h \in Range(members) : config.ids[h] = idOf[h] /\ idOf[h] < idOf[op.host]
        BY <3>1 DEF SetInv, IdsInv, Running
      <4>2. DOMAIN config.ids = Range(members)
        BY <3>1, <4>1 DEF SetInv, ViewInv, Running
      <4>3. \A h \in Range(members) : idOf[h] \in Nat /\ idOf[op.host] \in Nat
        BY <3>1 DEF SetInv, IdsInv, ListInv, Ending
      <4>4. \A h \in DOMAIN config.ids : config.ids[h] # idOf[op.host]
        BY <4>1, <4>2, <4>3
      <4> QED  BY <3>1, <4>1, <4>4 DEF Added, IsInjective
    <3> HIDE DEF ids
    <3>2. op'.copy.ids = ids  BY <2>2
    <3>3. start.own /\ op.kind = "join" => IsInjective(op'.copy.ids)  BY <3>1, <3>2
    <3> QED
      BY <1>0, <1>u, <2>1, <3>3 DEF SetInv, IdsInv, HighestExists, Running, Ending
  <2>9. GoneInv'  BY <1>0, <1>u, <1>2, <2>1 DEF SetInv, GoneInv, Gone
  <2>10. HostsInv'  BY <1>u DEF SetInv, HostsInv
  <2> QED
    BY <1>c, <2>3, <2>4, <2>5, <2>6, <2>7, <2>8, <2>9, <2>10 DEF SetInv
<1> QED  BY <1>1, <1>2 DEF ReadConfig

\* The local list is changed once the set has accepted the change.
LEMMA SucceedsKeeps ==
  ASSUME SetInv, op.step = "send", Acceptable(op.copy), config' = op.copy, Succeeds,
         UNCHANGED <<inFlight, alive, dirs, user, start, idOf, proc, pool, cred, cleanups,
                     asked, unready, killed>>
  PROVE  SetInv'
<1> DEFINE adds == op.kind \in {"join", "add"}
<1>0. op.kind \in {"join", "add", "remove", "teardown"} /\ op.host \in Dumbos
  BY DEF SetInv, OpInv
<1>1. /\ config'.version = config.version + 1 /\ config.version \in Nat
      /\ IsInjective(config'.ids)
      /\ config'.ids = IF adds THEN Added(config, op.host) ELSE Removed(config, op.host)
  BY AcceptFacts
<1>2. /\ members' \in Seq(Ours) /\ IsInjective(members')
      /\ Range(members') = IF adds THEN Range(members) \cup {op.host}
                           ELSE Range(members) \ {op.host}
  <2>1. members \in Seq(Ours) /\ IsInjective(members) /\ (adds => op.host \notin Range(members))
    BY DEF SetInv, ListInv
  <2>2. CASE adds  BY <1>0, <2>1, <2>2, AppendFacts, ConstFacts DEF Succeeds
  <2>3. CASE ~adds  BY <2>1, <2>3, RemoveFacts DEF Succeeds
  <2> QED  BY <2>2, <2>3
<1>3. /\ IsOp' /\ reported' = reported
      /\ IF op.kind = "teardown" THEN op'.kind = "teardown" /\ op'.step = "kill" /\ op'.host = op.host
         ELSE op'.kind = "idle" /\ op'.step = ""
  BY OpFields, StepFields DEF Succeeds, Idle, SetInv, OpInv
<1>4. adds => op.host \in DOMAIN idOf  BY DEF SetInv, ListInv
<1>5. /\ \A c \in inFlight' :
           /\ c.version \in Nat /\ c.version <= config'.version + 1
           /\ c.version > config'.version => DOMAIN config'.ids \ DOMAIN c.ids \subseteq asked'
      /\ \A d \in Dumbos :
           Gone(d) /\ (d # op.host \/ op.kind \notin {"join", "add"}) => Gone(d)'
  BY EffectFacts DEF Effect
<1>6. OpInv'  BY <1>0, <1>3 DEF SetInv, OpInv
<1>7. ListInv'
  <2>1. Range(members') \subseteq DOMAIN idOf'  BY <1>2, <1>4 DEF SetInv, ListInv
  <2>2. op'.kind \notin {"join", "launch", "add"} /\ (Ending' <=> Ending)
    BY <1>0, <1>3 DEF Ending
  <2> QED  BY <1>2, <2>1, <2>2 DEF SetInv, ListInv
<1>8. StartInv'  BY <1>3 DEF StartInv
<1>9. ConfigInv'
  <2>1. op'.step \notin {"config", "send"}  BY <1>3
  <2>2. config'.version \in Nat  BY <1>1
  <2> QED  BY <1>5, <2>1, <2>2 DEF ConfigInv
<1>10. ViewInv'
  <2>1. SUFFICES ASSUME op.kind # "teardown"  PROVE ViewInv'
    BY <1>3 DEF ViewInv, Running
  <2>2. /\ inFlight = {} /\ Range(members) = DOMAIN config.ids \ {Foreign}
        /\ Stock \cap Range(members) # {}
    BY <1>0, <2>1 DEF SetInv, ViewInv, Running
  <2>3. DOMAIN config'.ids = IF adds THEN DOMAIN config.ids \cup {op.host}
                             ELSE DOMAIN config.ids \ {op.host}
    BY <1>1 DEF Added, Removed
  <2>4. op.host # Foreign /\ op.host \notin Stock  BY <1>0, ConstFacts
  <2> QED  BY <1>2, <2>2, <2>3, <2>4 DEF ViewInv
<1>11. IdsInv'
  <2>1. SUFFICES ASSUME start.own, op.kind # "teardown"  PROVE IdsInv'
    BY <1>3 DEF IdsInv, Running, Ending
  <2>2. /\ HighestExists /\ \A h \in DOMAIN idOf : idOf[h] \in Nat
        /\ Foreign \notin DOMAIN config.ids
        /\ \A h \in Range(members) : config.ids[h] = idOf[h]
    BY <1>0, <2>1 DEF SetInv, IdsInv, Running, Ending
  <2>3. DOMAIN config.ids = Range(members)
    BY <1>0, <2>1, <2>2 DEF SetInv, ViewInv, Running
  <2>4. HighestExists'
    <3>1. CASE adds
      <4>1. \A g \in Range(members) \cup {op.host} : idOf[g] \in Nat
        BY <1>4, <2>2, <3>1 DEF SetInv, ListInv
      <4>2. Highest(Range(members) \cup {op.host}, idOf)
        BY <2>2, <4>1, HighestExtends DEF HighestExists
      <4> QED  BY <1>2, <3>1, <4>2 DEF HighestExists
    <3>2. CASE ~adds  BY <1>2, <2>2, <3>2 DEF HighestExists, Highest
    <3> QED  BY <3>1, <3>2
  <2>5. \A h \in Range(members') : config'.ids[h] = idOf'[h]
    BY <1>1, <1>2, <2>2, <2>3 DEF Added, Removed
  <2>6. Foreign \notin DOMAIN config'.ids
    BY <1>0, <1>1, <2>2, ConstFacts DEF Added, Removed
  <2> QED  BY <1>1, <1>3, <2>1, <2>2, <2>4, <2>5, <2>6 DEF IdsInv
<1>12. CredInv'
  <2>1. cred \/ ~user  BY <1>0 DEF SetInv, CredInv
  <2> QED  BY <2>1 DEF SetInv, CredInv
<1>13. GoneInv'
  <2>1. SUFFICES ASSUME ~start.own  PROVE GoneInv'
    BY DEF GoneInv
  <2>2. adds => op.host \in Range(cleanups)
    BY <1>0, <1>4 DEF SetInv, ListInv, Ending
  <2>3. ASSUME NEW d \in Dumbos, d = op.host, ~adds  PROVE Gone(d)'
    <3>1. d \notin DOMAIN config'.ids  BY <1>1, <2>3 DEF Removed
    <3>2. \A c \in inFlight : c.version \in Nat /\ c.version <= config.version + 1
      BY DEF SetInv, ConfigInv
    <3>3. \A c \in inFlight' : ~(c.version > config'.version)  BY <1>1, <3>2
    <3> QED  BY <3>1, <3>3 DEF Gone
  <2>4. \A d \in Dumbos \ {op.host} : Gone(d) \/ d \in reported \/ d \in Range(cleanups)
    BY <2>1 DEF SetInv, GoneInv
  <2>5. ASSUME NEW d \in Dumbos, d # op.host
        PROVE  Gone(d)' \/ d \in reported' \/ d \in Range(cleanups')
    <3>1. Gone(d) => Gone(d)'  BY <1>5, <2>5
    <3>2. reported' = reported  BY <1>3
    <3> QED  BY <2>4, <2>5, <3>1, <3>2
  <2>6. \A d \in Dumbos : d = op.host => Gone(d)' \/ (adds /\ d \in Range(cleanups'))
    BY <2>2, <2>3
  <2>7. adds => op'.kind # "teardown"  BY <1>3
  <2>8. op'.kind = "teardown" => op'.host = op.host  BY <1>3
  <2> QED  BY <2>5, <2>6, <2>7, <2>8 DEF GoneInv
<1>14. HostsInv'
  BY <1>0, <1>2, ConstFacts DEF SetInv, HostsInv
<1> QED
  BY <1>6, <1>7, <1>8, <1>9, <1>10, <1>11, <1>12, <1>13, <1>14 DEF SetInv

\* Every way a request can end.
LEMMA SendKeeps ==
  ASSUME SetInv, SendConfig
  PROVE  SetInv'
<1>0. op.step = "send" /\ op.kind \in {"join", "add", "remove", "teardown"}
  BY DEF SendConfig, SetInv, OpInv
<1>u. UNCHANGED <<leader, alive, dirs, user, start, idOf, proc, pool, cred, cleanups, ops,
                  asked, unready, killed>>
  BY DEF SendConfig
<1>c. CredInv'
  <2>1. cred \/ ~user  BY <1>0 DEF SetInv, CredInv
  <2> QED  BY <1>u, <2>1 DEF SetInv, CredInv
<1>1. \/ Acceptable(op.copy) /\ config' = op.copy /\ Succeeds /\ UNCHANGED inFlight
      \/ Effect /\ Fails /\ UNCHANGED members
  BY <1>0 DEF SendConfig, Sent, Effect
<1> QED  BY <1>0, <1>u, <1>c, <1>1, FailsKeeps, SucceedsKeeps

-----------------------------------------------------------------------------
(* The end of the test.                                                    *)

\* The test ends.
LEMMA EndTestKeeps ==
  ASSUME SetInv, EndTest
  PROVE  SetInv'
<1>1. /\ op.kind = "idle" /\ Fatal
      /\ UNCHANGED <<set, start, members, idOf, proc, pool, cred, cleanups, history>>
  BY DEF EndTest
<1>2. CredInv'  BY <1>1 DEF SetInv, CredInv, set
<1>3. HostsInv'  BY <1>1 DEF SetInv, HostsInv, set, history
<1> QED  BY <1>1, <1>2, <1>3, FatalFrame DEF set, history

\* The next cleanup is a member's.
LEMMA TeardownKeeps ==
  ASSUME SetInv, Teardown
  PROVE  SetInv'
<1> DEFINE d == Last(cleanups)
<1>0. op.kind = "cleanup" /\ cleanups # << >> /\ d # "stop"  BY DEF Teardown
<1>u. /\ UNCHANGED <<config, leader, alive, dirs, user, inFlight, start, members, idOf, proc,
                     pool, cred, cleanups, unready, killed, reported>>
      /\ asked' = IF start.own THEN asked ELSE asked \cup {d}
  BY DEF Teardown, set
<1>d. d \in Dumbos /\ d \in Range(cleanups)
  <2>1. cleanups \in Seq(Dumbos \cup {"stop"})  BY DEF SetInv, ListInv
  <2>2. d \in Dumbos \cup {"stop"}  BY <1>0, <2>1, FrontFacts
  <2>3. Len(cleanups) \in DOMAIN cleanups  BY <1>0, <2>1
  <2> QED  BY <1>0, <2>2, <2>3 DEF Last, Range
<1>1. /\ IsOp' /\ op'.kind = "teardown" /\ op'.host = d
      /\ op'.step = IF start.own THEN "kill" ELSE "config"
  BY OpFields DEF Teardown
<1>2. OpInv'
  <2>1. op'.step \in {"kill", "config"}  BY <1>1
  <2> QED  BY <1>0, <1>u, <1>d, <1>1, <2>1 DEF OpInv
<1>3. ListInv'  BY <1>u, <1>1 DEF SetInv, ListInv, Ending
<1>4. StartInv' /\ ViewInv' /\ IdsInv'  BY <1>1 DEF StartInv, ViewInv, IdsInv, Running, Ending
<1>5. ConfigInv'
  <2>1. op'.step # "send" /\ (op'.step = "config" => d \in asked') /\ asked \subseteq asked'
    BY <1>u, <1>1
  <2> HIDE DEF d
  <2> QED  BY <1>u, <1>1, <2>1 DEF SetInv, ConfigInv
<1>6. CredInv'
  <2>1. cred \/ ~user  BY <1>0, <1>d DEF SetInv, CredInv
  <2> QED  BY <1>u, <2>1 DEF SetInv, CredInv
<1>7. GoneInv'
  <2>1. ~start.own => op'.step # "kill"  BY <1>1
  <2> QED  BY <1>0, <1>u, <2>1 DEF SetInv, GoneInv, Gone
<1>8. HostsInv'  BY <1>u DEF SetInv, HostsInv
<1> QED  BY <1>2, <1>3, <1>4, <1>5, <1>6, <1>7, <1>8 DEF SetInv

\* The member is killed and its directory removed: nothing of it needs a cleanup.
LEMMA TeardownKillKeeps ==
  ASSUME SetInv, TeardownKill
  PROVE  SetInv'
<1> DEFINE d == op.host
<1>0. /\ op.kind = "teardown" /\ op.step = "kill" /\ d \in Dumbos
      /\ cleanups # << >> /\ d = Last(cleanups)
  BY DEF TeardownKill, SetInv, OpInv
<1>u. /\ UNCHANGED <<config, leader, user, inFlight, start, members, idOf, pool, cred, asked,
                     unready, killed, reported>>
      /\ alive' = IF d \in proc THEN alive \ {d} ELSE alive
      /\ proc' = proc \ {d} /\ dirs' = dirs \ {d} /\ cleanups' = Front(cleanups)
  BY DEF TeardownKill, history
<1>1. IsOp' /\ op'.kind = "cleanup" /\ op'.step = ""
  BY OpFields DEF TeardownKill
<1>2. /\ cleanups' \in Seq(Dumbos \cup {"stop"})
      /\ \A x \in Range(cleanups) : x = d \/ x \in Range(cleanups')
      /\ cleanups[1] # d => cleanups' # << >>
      /\ cleanups' # << >> => cleanups'[1] = cleanups[1]
  BY <1>0, <1>u, FrontFacts DEF SetInv, ListInv
<1>3. start.own => cleanups' # << >> /\ cleanups'[1] = "stop"
  BY <1>0, <1>2, ConstFacts DEF SetInv, ListInv
<1>4. OpInv'  BY <1>1 DEF OpInv
<1>5. ListInv'  BY <1>u, <1>1, <1>2, <1>3 DEF SetInv, ListInv, Ending
<1>6. StartInv' /\ ViewInv' /\ IdsInv'  BY <1>1 DEF StartInv, ViewInv, IdsInv, Running, Ending
<1>7. ConfigInv'  BY <1>u, <1>1 DEF SetInv, ConfigInv
<1>8. CredInv'
  <2>1. cred \/ ~user  BY <1>0 DEF SetInv, CredInv
  <2> QED  BY <1>u, <2>1 DEF SetInv, CredInv
<1>9. GoneInv'
  <2>1. \A x \in Dumbos : Gone(x)' = Gone(x)  BY <1>u DEF Gone
  <2> QED  BY <1>0, <1>u, <1>1, <1>2, <2>1 DEF SetInv, GoneInv
<1>10. HostsInv'
  <2>1. d \notin alive'  BY <1>0, <1>u DEF SetInv, HostsInv
  <2>2. \A x \in Dumbos : /\ x \in alive' => x \in proc' /\ x \in Range(cleanups')
                          /\ x \in dirs' => x \in Range(cleanups')
    BY <1>0, <1>u, <1>2, <2>1 DEF SetInv, HostsInv
  <2>3. alive' \subseteq Ours /\ dirs' \subseteq Ours  BY <1>u DEF SetInv, HostsInv
  <2>4. start.own => \A h \in Stock :
          \/ h \in unready
          \/ h \in proc' /\ h \in Range(members) /\ cleanups' # << >>
          \/ h \notin alive' /\ (h \in dirs' => h \in killed)
    BY <1>0, <1>u, <1>3, ConstFacts DEF SetInv, HostsInv
  <2> QED  BY <1>u, <2>2, <2>3, <2>4 DEF HostsInv
<1> QED  BY <1>4, <1>5, <1>6, <1>7, <1>8, <1>9, <1>10 DEF SetInv

\* rs.stop comes last: every mongod that is listed and not killed is stopped.
LEMMA StopSetKeeps ==
  ASSUME SetInv, StopSet
  PROVE  SetInv'
<1> DEFINE running == Range(members) \cap proc
<1>0. op.kind = "cleanup" /\ op.step = "" /\ cleanups = <<"stop">>
  BY DEF StopSet, SetInv, OpInv
<1>u. /\ UNCHANGED <<config, user, inFlight, start, members, idOf, cred, op, asked, unready,
                     killed, reported>>
      /\ alive' = alive \ running /\ dirs' = dirs \ running /\ proc' = proc \ running
      /\ pool' = << >> /\ cleanups' = << >>
  BY DEF StopSet, history
<1>1. Range(cleanups) \subseteq {"stop"} /\ Range(cleanups') = {}
  <2>1. Range(<<"stop">>) \subseteq {"stop"}  BY DEF Range
  <2>2. Range(<< >>) = {}  BY DEF Range
  <2> QED  BY <1>0, <1>u, <2>1, <2>2
<1>2. OpInv'  BY <1>0, <1>u DEF SetInv, OpInv, IsOp
<1>3. ListInv'
  <2>1. cleanups' \in Seq(Dumbos \cup {"stop"})  BY <1>u
  <2> QED  BY <1>0, <1>u, <2>1 DEF SetInv, ListInv, Ending
<1>4. StartInv' /\ ViewInv' /\ IdsInv'
  BY <1>0, <1>u DEF StartInv, ViewInv, IdsInv, Running, Ending
<1>5. ConfigInv'  BY <1>0, <1>u DEF SetInv, ConfigInv
<1>6. CredInv'
  <2>1. DOMAIN pool' = {}  BY <1>u
  <2> QED  BY <1>0, <1>u, <1>1, <2>1 DEF CredInv
<1>7. GoneInv'
  <2>1. \A d \in Dumbos : Gone(d)' = Gone(d)  BY <1>u DEF Gone
  <2> QED  BY <1>0, <1>u, <1>1, <2>1, ConstFacts DEF SetInv, GoneInv
<1>8. HostsInv'
  <2>1. \A d \in Dumbos : d \notin alive /\ d \notin dirs
    BY <1>1, ConstFacts DEF SetInv, HostsInv
  <2> QED  BY <1>u, <2>1 DEF SetInv, HostsInv
<1> QED  BY <1>2, <1>3, <1>4, <1>5, <1>6, <1>7, <1>8 DEF SetInv

-----------------------------------------------------------------------------
(* The set itself.                                                         *)

\* An election changes nothing the harness remembers.
LEMMA ElectKeeps ==
  ASSUME SetInv,
         UNCHANGED <<config, alive, dirs, user, inFlight, start, members, idOf, proc, pool,
                     cred, cleanups, op, asked, unready, killed, reported>>
  PROVE  SetInv'
<1>1. OpInv' /\ ListInv' /\ StartInv'
  BY DEF SetInv, OpInv, IsOp, ListInv, Ending, StartInv
<1>2. ConfigInv' /\ ViewInv'
  BY DEF SetInv, ConfigInv, ViewInv, Running, Added, Removed
<1>3. IdsInv' /\ CredInv'
  BY DEF SetInv, IdsInv, HighestExists, Running, Ending, CredInv
<1>4. GoneInv' /\ HostsInv'
  BY DEF SetInv, GoneInv, Gone, HostsInv
<1> QED  BY <1>1, <1>2, <1>3, <1>4 DEF SetInv

\* A configuration that comes from somebody else makes all those on their way too
\* old. It has all hosts but the ones that were to be removed, and no new one of ours.
LEMMA OtherConfigKeeps ==
  ASSUME SetInv, ~start.own \/ Ending, op.kind # "start",
         config'.version = config.version + 1,
         Running => DOMAIN config'.ids \ {Foreign} = DOMAIN config.ids \ {Foreign},
         \A d \in Dumbos : Gone(d) => d \notin DOMAIN config'.ids,
         inFlight' \subseteq inFlight,
         UNCHANGED <<alive, dirs, user, start, members, idOf, proc, pool, cred, cleanups, op,
                     asked, unready, killed, reported>>
  PROVE  SetInv'
<1>1. config.version \in Nat /\ config'.version \in Nat  BY DEF SetInv, ConfigInv
<1>2. OpInv' /\ ListInv' /\ StartInv' /\ CredInv' /\ HostsInv'
  BY DEF SetInv, OpInv, IsOp, ListInv, Ending, StartInv, CredInv, HostsInv
<1>3. \A c \in inFlight' : c.version \in Nat /\ ~(c.version > config'.version)
  BY <1>1 DEF SetInv, ConfigInv
<1>4. ConfigInv'
  <2>1. op.step = "send" => op.copy.version \in Nat /\ ~(op.copy.version > config'.version)
    BY <1>1 DEF SetInv, ConfigInv
  <2>2. \A c \in inFlight' : c.version <= config'.version + 1  BY <1>1, <1>3
  <2>3. op.step = "send" => op.copy.version <= config'.version + 1  BY <1>1, <2>1
  <2> QED  BY <1>1, <1>3, <2>1, <2>2, <2>3 DEF SetInv, ConfigInv
<1>5. ViewInv'  BY DEF SetInv, ViewInv, Running
<1>6. IdsInv'
  <2>1. CASE ~start.own  BY <2>1 DEF IdsInv
  <2>2. CASE Ending  BY <2>2 DEF IdsInv, Ending, Running
  <2> QED  BY <2>1, <2>2
<1>7. GoneInv'
  <2>1. \A d \in Dumbos : Gone(d) => Gone(d)'  BY <1>3 DEF Gone
  <2> QED  BY <2>1 DEF SetInv, GoneInv
<1> QED  BY <1>2, <1>4, <1>5, <1>6, <1>7 DEF SetInv

\* Another client of an adopted set adds a host.
LEMMA OtherKeeps ==
  ASSUME SetInv, OtherClientAdds
  PROVE  SetInv'
<1>1. /\ ~start.own /\ config'.version = config.version + 1
      /\ DOMAIN config'.ids = DOMAIN config.ids \cup {Foreign}
  BY DEF OtherClientAdds
<1>2. op.kind # "start"  BY <1>1 DEF SetInv, StartInv
<1>3. \A d \in Dumbos : Gone(d) => d \notin DOMAIN config'.ids
  BY <1>1, ConstFacts DEF Gone
<1> QED  BY <1>1, <1>2, <1>3, OtherConfigKeeps DEF OtherClientAdds, history

\* Requests on their way are left behind by tests that have failed.
LEMMA LateKeeps ==
  ASSUME SetInv, LateReconfig
  PROVE  SetInv'
<1>1. PICK c \in inFlight :
        /\ inFlight' = inFlight \ {c}
        /\ config' = IF Acceptable(c) THEN c ELSE config
        /\ UNCHANGED <<leader, alive, dirs, user, start, members, idOf, proc, pool,
                       cred, cleanups, op, ops, history>>
  BY DEF LateReconfig
<1>2. Ending  BY <1>1 DEF SetInv, StartInv, ViewInv, Running, Ending
<1>3. CASE Acceptable(c)
  <2>1. config'.version = config.version + 1
    BY <1>1, <1>3 DEF SetInv, ConfigInv, Acceptable
  <2>2. \A d \in Dumbos : Gone(d) => d \notin DOMAIN config'.ids
    BY <1>1, <1>3 DEF Gone, Acceptable
  <2> QED
    BY <1>1, <1>2, <2>1, <2>2, OtherConfigKeeps DEF Ending, Running, history
<1>4. CASE ~Acceptable(c)
  <2>1. OpInv' /\ ListInv' /\ StartInv' /\ CredInv' /\ HostsInv'
    BY <1>1, <1>2 DEF SetInv, OpInv, IsOp, ListInv, Ending, StartInv, CredInv, HostsInv, history
  <2>2. ViewInv' /\ IdsInv'
    BY <1>1, <1>2 DEF ViewInv, IdsInv, Running, Ending
  <2>3. ConfigInv'
    BY <1>1, <1>4 DEF SetInv, ConfigInv, Added, Removed, history
  <2>4. GoneInv'  BY <1>1, <1>4 DEF SetInv, GoneInv, Gone, history
  <2> QED  BY <2>1, <2>2, <2>3, <2>4 DEF SetInv
<1> QED  BY <1>3, <1>4

-----------------------------------------------------------------------------
\* Both ways to begin.
LEMMA SetInit == Init => SetInv
<1> SUFFICES ASSUME Init  PROVE SetInv
  OBVIOUS
<1>0. /\ user = FALSE /\ inFlight = {} /\ proc = {} /\ cred = FALSE
      /\ pool = << >> /\ dirs = alive /\ config.version = 1
  BY DEF Init
<1>e. DOMAIN << >> = {} /\ Range(<< >>) = {} /\ IsInjective(<< >>)
  BY DEF Range, IsInjective
<1>1. CASE start.own
  <2>1. /\ config.ids = << >> /\ alive = {} /\ members = << >> /\ idOf = << >>
        /\ cleanups = <<"stop">> /\ op = Op("start", Mongods[1], "spawn")
    BY <1>1 DEF Init
  <2>2. IsOp /\ op.kind = "start" /\ op.step = "spawn" /\ op.host = Mongods[1]
    BY <2>1 DEF Op, IsOp
  <2>3. OpInv  BY <2>2 DEF OpInv
  <2>4. ListInv
    <3>1. cleanups \in Seq(Dumbos \cup {"stop"}) /\ cleanups # << >> /\ cleanups[1] = "stop"
      BY <2>1
    <3>2. members \in Seq(Ours)  BY <2>1
    <3> QED  BY <1>e, <2>1, <2>2, <3>1, <3>2 DEF ListInv
  <2>5. StartInv
    <3>1. Len(members) = 0 /\ 0 < Len(Mongods) /\ Len(Mongods) \in Nat
      BY <2>1, ReplicaSetAssumption
    <3> QED  BY <1>0, <1>1, <1>e, <2>1, <2>2, <3>1 DEF StartInv
  <2>6. ConfigInv  BY <1>0, <2>2 DEF ConfigInv
  <2>7. ViewInv  BY <2>2 DEF ViewInv, Running
  <2>8. IdsInv
    BY <1>e, <2>1, <2>2 DEF IdsInv, HighestExists, Highest, Running, Ending
  <2>9. CredInv  BY <1>0 DEF CredInv
  <2>10. GoneInv  BY <1>1 DEF GoneInv
  <2>11. HostsInv  BY <1>0, <2>1 DEF HostsInv
  <2> QED
    BY <2>3, <2>4, <2>5, <2>6, <2>7, <2>8, <2>9, <2>10, <2>11 DEF SetInv
<1>2. CASE ~start.own
  <2>1. /\ config.ids = InitialIds /\ alive = Stock /\ members = Mongods /\ idOf = InitialIds
        /\ cleanups = << >> /\ op = Op("idle", None, "")
    BY <1>2 DEF Init, Idle
  <2>2. IsOp /\ op.kind = "idle" /\ op.step = ""
    BY <2>1 DEF Op, IsOp
  <2>3. DOMAIN InitialIds = Stock /\ Range(Mongods) = Stock  BY DEF InitialIds, Stock
  <2>4. OpInv  BY <2>2 DEF OpInv
  <2>5. ListInv
    <3>1. Mongods \in Seq(Ours)
      BY ReplicaSetAssumption, ConstFacts DEF Stock
    <3>2. << >> \in Seq(Dumbos \cup {"stop"})  OBVIOUS
    <3> QED
      BY <1>2, <2>1, <2>2, <2>3, <3>1, <3>2, ConstFacts, ReplicaSetAssumption DEF ListInv
  <2>6. StartInv  BY <2>2 DEF StartInv
  <2>7. ConfigInv
    <3>1. op.step \notin {"config", "send"}  BY <2>2
    <3>2. config.version \in Nat  BY <1>0
    <3> QED  BY <1>0, <3>1, <3>2 DEF ConfigInv
  <2>8. ViewInv
    <3>1. Stock # {}  BY ReplicaSetAssumption DEF Stock, Range
    <3> QED  BY <1>0, <2>1, <2>3, <3>1, ConstFacts DEF ViewInv
  <2>9. IdsInv  BY <1>2 DEF IdsInv
  <2>10. CredInv  BY <1>0 DEF CredInv
  <2>11. GoneInv  BY <1>0, <2>1, <2>3, ConstFacts DEF GoneInv, Gone
  <2>12. HostsInv  BY <1>0, <1>2, <2>1, ConstFacts DEF HostsInv
  <2> QED
    BY <2>4, <2>5, <2>6, <2>7, <2>8, <2>9, <2>10, <2>11, <2>12 DEF SetInv
<1> QED  BY <1>1, <1>2

\* Every step preserves the invariant.
LEMMA SetNext == SetInv /\ [Next]_vars => SetInv'
<1> SUFFICES ASSUME SetInv, [Next]_vars  PROVE SetInv'
  OBVIOUS
<1>1. CASE SpawnMongod \/ Initiate \/ AwaitPrimary \/ Bootstrap \/ SteadyState
  BY <1>1, SpawnKeeps, InitiateKeeps, AwaitPrimaryKeeps, BootstrapKeeps, SteadyStateKeeps
<1>2. ASSUME NEW d \in Dumbos,
             \/ JoinDumboDB(d) \/ AddMember(d) \/ RemoveMember(d)
             \/ StopDumbo(d) \/ StartDumbo(d)
      PROVE  SetInv'
  BY <1>2, JoinKeeps, AddKeeps, RemoveKeeps, StopKeeps, StartKeeps
<1>3. CASE Launch \/ (\E h \in Stock : KillMember(h)) \/ StepDown \/ NewPrimary
  BY <1>3, LaunchKeeps, KillKeeps, StepDownKeeps
<1>4. CASE ReadConfig \/ SendConfig  BY <1>4, ReadKeeps, SendKeeps
<1>5. CASE EndTest \/ Teardown \/ TeardownKill \/ StopSet
  BY <1>5, EndTestKeeps, TeardownKeeps, TeardownKillKeeps, StopSetKeeps
<1>6. CASE Over \/ Elect \/ UNCHANGED vars
  BY <1>6, ElectKeeps DEF Over, Elect, vars, set, history
<1>7. CASE OtherClientAdds \/ LateReconfig  BY <1>7, OtherKeeps, LateKeeps
<1> QED  BY <1>1, <1>2, <1>3, <1>4, <1>5, <1>6, <1>7 DEF Next

-----------------------------------------------------------------------------
(* ViewIsCurrent: between operations rs.Members lists exactly the configured hosts,
   the id nextMemberID picks in an own set is never taken, and once the bootstrap
   user exists every pooled client carries credentials. *)
THEOREM ViewCurrent == Spec => []ViewIsCurrent
<1>1. SetInv => ViewIsCurrent
  <2> SUFFICES ASSUME SetInv  PROVE ViewIsCurrent
    OBVIOUS
  <2>1. op.kind = "idle" => Range(members) = DOMAIN config.ids \ {Foreign}
    BY DEF SetInv, ViewInv, Running
  <2>2. (start.own /\ op.kind = "join" /\ op.step = "send") => IsInjective(op.copy.ids)
    BY DEF SetInv, IdsInv
  <2>3. (user /\ op.kind \notin {"start", "cleanup"}) => \A h \in DOMAIN pool : pool[h]
    BY DEF SetInv, CredInv
  <2> QED  BY <2>1, <2>2, <2>3 DEF ViewIsCurrent
<1> QED  BY <1>1, SetInit, SetNext, PTL DEF Spec

(* LeftBehindIsReported: when the cleanups have run, a DumboDB host is still
   configured only if its removal failed and was logged, nothing the harness started
   runs but a mongod that was not ready, and no directory is left but its and those
   of killed mongods. *)
THEOREM LeftBehindReported == Spec => []LeftBehindIsReported
<1>1. SetInv => LeftBehindIsReported
  <2> SUFFICES ASSUME SetInv, Ended
               PROVE  /\ ~start.own => Dumbos \cap DOMAIN config.ids \subseteq reported
                      /\ (IF start.own THEN alive ELSE alive \ Stock) \subseteq unready
                      /\ (IF start.own THEN dirs ELSE dirs \ Stock) \subseteq unready \cup killed
    BY DEF LeftBehindIsReported
  <2>1. cleanups = << >> /\ Range(cleanups) = {}  BY DEF Ended, Range
  <2>2. ~start.own => Dumbos \cap DOMAIN config.ids \subseteq reported
    BY <2>1 DEF SetInv, GoneInv, Gone
  <2>3. \A d \in Dumbos : d \notin alive /\ d \notin dirs
    BY <2>1 DEF SetInv, HostsInv
  <2>4. alive \subseteq Stock /\ dirs \subseteq Stock
    BY <2>3 DEF SetInv, HostsInv, Ours
  <2>5. start.own => \A h \in Stock : h \in unready \/ (h \notin alive /\ (h \in dirs => h \in killed))
    BY <2>1 DEF SetInv, HostsInv
  <2> QED  BY <2>2, <2>4, <2>5
<1> QED  BY <1>1, SetInit, SetNext, PTL DEF Spec

(* NoLostReconfig: no step drops a host from the configuration that the harness was
   not asked to remove. *)
THEOREM NoReconfigLost == Spec => NoLostReconfig
<1> DEFINE Kept == DOMAIN config.ids \ DOMAIN config'.ids \subseteq asked'
<1>1. ASSUME SetInv, Next  PROVE Kept
  <2>1. CASE UNCHANGED config  BY <2>1
  <2>2. CASE Initiate
    <3>1. DOMAIN config.ids = {}  BY <1>1, <2>2 DEF Initiate, SetInv, OpInv, StartInv
    <3> QED  BY <3>1
  <2>3. CASE SendConfig /\ ~UNCHANGED config
    <3>1. /\ op.step = "send" /\ Acceptable(op.copy) /\ config' = op.copy /\ asked' = asked
      BY <2>3 DEF SendConfig, Sent
    <3>2. op.copy.ids = IF op.kind \in {"join", "add"} THEN Added(config, op.host)
                        ELSE Removed(config, op.host)
      BY <1>1, <3>1, AcceptFacts
    <3>3. op.kind \notin {"join", "add"} => op.host \in asked
      BY <1>1, <3>1 DEF SetInv, OpInv, ConfigInv
    <3> QED  BY <3>1, <3>2, <3>3 DEF Added, Removed
  <2>4. CASE OtherClientAdds  BY <2>4 DEF OtherClientAdds
  <2>5. CASE LateReconfig
    BY <1>1, <2>5 DEF LateReconfig, Acceptable, SetInv, ConfigInv, history
  <2>6. \/ UNCHANGED config \/ Initiate \/ OtherClientAdds \/ LateReconfig
        \/ SendConfig /\ ~UNCHANGED config
    <3>1. ASSUME NEW d \in Dumbos,
                 \/ JoinDumboDB(d) \/ AddMember(d) \/ RemoveMember(d)
                 \/ StopDumbo(d) \/ StartDumbo(d)
          PROVE  UNCHANGED config
      BY <3>1 DEF JoinDumboDB, AddMember, RemoveMember, StopDumbo, StartDumbo, set
    <3>2. \A h \in Stock : KillMember(h) => UNCHANGED config  BY DEF KillMember
    <3>3. CASE SpawnMongod \/ AwaitPrimary \/ Bootstrap \/ SteadyState
      BY <3>3 DEF SpawnMongod, AwaitPrimary, Bootstrap, SteadyState, set
    <3>4. CASE Launch \/ StepDown \/ NewPrimary \/ ReadConfig
      BY <3>4 DEF Launch, StepDown, NewPrimary, ReadConfig, set
    <3>5. CASE EndTest \/ Teardown \/ TeardownKill \/ StopSet \/ Over \/ Elect
      BY <3>5 DEF EndTest, Teardown, TeardownKill, StopSet, Over, Elect, set, vars
    <3> QED  BY <1>1, <3>1, <3>2, <3>3, <3>4, <3>5 DEF Next
  <2> QED  BY <2>1, <2>2, <2>3, <2>4, <2>5, <2>6
<1>2. SetInv /\ [Next]_vars => [Kept]_vars  BY <1>1
<1> QED  BY <1>2, SetInit, SetNext, PTL DEF Spec, NoLostReconfig
=============================================================================
