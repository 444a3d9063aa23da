------------------------- MODULE ReplicaCaseProofs --------------------------
(***************************************************************************)
(* A replication case: a pass is earned, the control does not find fault   *)
(* with a sound set and a sound subject is not found to diverge, for any   *)
(* number of mongods and elections, with deposed primaries, rollback and   *)
(* members that are busy.                                                  *)
(***************************************************************************)
EXTENDS ReplicaCase, FiniteSetTheorems, SequenceTheorems, WellFoundedInduction, TLAPS

-----------------------------------------------------------------------------
(* The set: the inductive invariant.                                       *)

LogsTyped == log \in [Members -> Seq(Entry)] /\ term \in 1 .. MaxTerm

RolesTyped ==
  /\ role \in [Members -> Roles]
  /\ role[Subject] \in {"OUT", "STARTUP2", "SECONDARY"}

\* The terms of a log do not decrease.
Ordered ==
  \A m \in Members :
    /\ \A i, j \in 1 .. Len(log[m]) : i <= j => log[m][i].t <= log[m][j].t
    /\ \A i \in 1 .. Len(log[m]) : log[m][i].t <= term

\* Two logs with an entry of one term at one place are the same up to it.
Matched ==
  \A m, n \in Members : \A k \in Nat \ {0} :
    /\ k <= Len(log[m]) /\ k <= Len(log[n])
    /\ log[m][k].t = log[n][k].t
    => \A j \in 1 .. k : log[m][j] = log[n][j]

\* There is at most one primary, and it has every entry of its term.
Led ==
  \A p \in Members : role[p] = "PRIMARY" =>
    /\ Len(log[p]) > 0 /\ log[p][Len(log[p])].t = term
    /\ \A m \in Members : role[m] = "PRIMARY" => m = p
    /\ \A m \in Members : \A k \in 1 .. Len(log[m]) :
         log[m][k].t = term => k <= Len(log[p]) /\ log[p][k].t = term

SetInv == LogsTyped /\ RolesTyped /\ Ordered /\ Matched /\ Led

-----------------------------------------------------------------------------
(* What cannot be rolled back: a majority has it, and so has every member  *)
(* whose log goes as far.                                                  *)

Has(m, k, e) == k <= Len(log[m]) /\ log[m][k] = e

Reaches(n, k, e) ==
  /\ Len(log[n]) > 0
  /\ \/ log[n][Len(log[n])].t > e.t
     \/ log[n][Len(log[n])].t = e.t /\ Len(log[n]) >= k

Chosen(k, e) ==
  /\ Majority({m \in Stock : Has(m, k, e)})
  /\ \A n \in Members : Reaches(n, k, e) => Has(n, k, e)

Places == Nat \ {0}

\* What was chosen stays chosen, and nobody who has it loses it.
Kept ==
  \A k \in Places, e \in Entry : Chosen(k, e) =>
    /\ Chosen(k, e)'
    /\ \A m \in Members : Has(m, k, e) => Has(m, k, e)'

-----------------------------------------------------------------------------
(* Facts about logs and majorities.                                        *)

\* There are finitely many mongods.
LEMMA StockFinite == IsFiniteSet(Stock) /\ Cardinality(Stock) \in Nat
<1>1. Mongods \in Seq(Stock)  BY ReplicaCaseAssumption
<1>2. DOMAIN Mongods = 1 .. Len(Mongods) /\ Len(Mongods) \in Nat  BY <1>1
<1>3. IsFiniteSet(1 .. Len(Mongods))  BY <1>2, FS_Interval
<1>4. Mongods \in Surjection(1 .. Len(Mongods), Stock)
  BY <1>1, <1>2 DEF Stock, Range, Surjection
<1>5. IsFiniteSet(Stock)  BY <1>3, <1>4, FS_Surjection
<1> QED  BY <1>5, FS_CardinalityType

\* More members are a majority too.
LEMMA MajorityGrows ==
  ASSUME NEW P, NEW Q, P \subseteq Q, Q \subseteq Stock, Majority(P)
  PROVE  Majority(Q)
<1>1. IsFiniteSet(Q)  BY StockFinite, FS_Subset
<1>2. Cardinality(P) <= Cardinality(Q)  BY <1>1, FS_Subset
<1>3. Cardinality(P) \in Nat /\ Cardinality(Q) \in Nat
  BY <1>1, FS_Subset, FS_CardinalityType
<1> QED  BY <1>2, <1>3, StockFinite DEF Majority

\* Two majorities have a member in common.
LEMMA MajoritiesMeet ==
  ASSUME NEW P, NEW Q, P \subseteq Stock, Q \subseteq Stock, Majority(P), Majority(Q)
  PROVE  \E m \in Stock : m \in P /\ m \in Q
<1>1. Cardinality(P) \in Nat /\ Cardinality(Q) \in Nat
  BY StockFinite, FS_Subset, FS_CardinalityType
<1>2. Cardinality(P) + Cardinality(Q) > Cardinality(Stock)
  BY <1>1, StockFinite DEF Majority
<1>3. P \cap Q # {}  BY <1>2, StockFinite, FS_MajoritiesIntersect
<1> QED  BY <1>3

\* An entry has a term.
LEMMA EntryFields ==
  ASSUME NEW e \in Entry
  PROVE  e.t \in 1 .. MaxTerm /\ e.t \in Nat /\ e.v \in Writes \cup {"noop"}
  BY ReplicaCaseAssumption DEF Entry

\* The entries of a log.
LEMMA EntriesFacts ==
  ASSUME NEW l \in Seq(Entry)
  PROVE  /\ Len(l) \in Nat /\ DOMAIN l = 1 .. Len(l)
         /\ \A k \in 1 .. Len(l) : l[k] \in Entry /\ l[k].t \in Nat
         /\ l = << >> <=> Len(l) = 0
<1>1. \A k \in 1 .. Len(l) : l[k] \in Entry  OBVIOUS
<1> QED  BY <1>1, EntryFields

LEMMA LogFacts ==
  ASSUME LogsTyped, NEW m \in Members
  PROVE  /\ log[m] \in Seq(Entry) /\ Len(log[m]) \in Nat
         /\ DOMAIN log[m] = 1 .. Len(log[m])
         /\ \A k \in 1 .. Len(log[m]) : log[m][k] \in Entry /\ log[m][k].t \in Nat
         /\ log[m] = << >> <=> Len(log[m]) = 0
<1>1. log[m] \in Seq(Entry)  BY DEF LogsTyped
<1> QED  BY <1>1, EntriesFacts

\* An entry is appended to the log of m.
Appends(m, x) == log' = [log EXCEPT ![m] = Append(@, x)]

LEMMA AppendFacts ==
  ASSUME LogsTyped, NEW m \in Members, NEW x \in Entry, Appends(m, x)
  PROVE  /\ log' \in [Members -> Seq(Entry)]
         /\ Len(log'[m]) = Len(log[m]) + 1
         /\ log'[m][Len(log[m]) + 1] = x
         /\ \A k \in 1 .. Len(log[m]) : log'[m][k] = log[m][k]
         /\ \A n \in Members : n # m => log'[n] = log[n]
<1>1. log[m] \in Seq(Entry) /\ log \in [Members -> Seq(Entry)]  BY DEF LogsTyped
<1>2. log'[m] = Append(log[m], x)  BY <1>1 DEF Appends
<1>3. /\ Append(log[m], x) \in Seq(Entry) /\ Len(Append(log[m], x)) = Len(log[m]) + 1
      /\ Append(log[m], x)[Len(log[m]) + 1] = x
      /\ \A k \in 1 .. Len(log[m]) : Append(log[m], x)[k] = log[m][k]
  BY <1>1
<1>4. log' \in [Members -> Seq(Entry)] /\ \A n \in Members : n # m => log'[n] = log[n]
  BY <1>1, <1>3 DEF Appends
<1> QED  BY <1>2, <1>3, <1>4

\* A log without its last entry.
LEMMA FrontFacts ==
  ASSUME NEW s \in Seq(Entry), s # << >>
  PROVE  /\ Front(s) \in Seq(Entry) /\ Len(Front(s)) = Len(s) - 1
         /\ \A k \in 1 .. Len(s) - 1 : Front(s)[k] = s[k]
<1>1. Len(s) \in Nat \ {0} /\ DOMAIN s = 1 .. Len(s)  OBVIOUS
<1> QED  BY <1>1 DEF Front

\* The last entry of m's log is removed.
Drops(m) == log[m] # << >> /\ log' = [log EXCEPT ![m] = Front(@)]

LEMMA DropFacts ==
  ASSUME LogsTyped, NEW m \in Members, Drops(m)
  PROVE  /\ log' \in [Members -> Seq(Entry)] /\ Len(log[m]) > 0
         /\ Len(log'[m]) = Len(log[m]) - 1
         /\ \A k \in 1 .. Len(log[m]) - 1 : log'[m][k] = log[m][k]
         /\ \A n \in Members : n # m => log'[n] = log[n]
<1>1. log[m] \in Seq(Entry) /\ log \in [Members -> Seq(Entry)] /\ Len(log[m]) \in Nat
      /\ Len(log[m]) > 0
  BY LogFacts DEF LogsTyped, Drops
<1>2. log'[m] = Front(log[m])  BY <1>1 DEF Drops
<1>3. /\ Front(log[m]) \in Seq(Entry) /\ Len(Front(log[m])) = Len(log[m]) - 1
      /\ \A k \in 1 .. Len(log[m]) - 1 : Front(log[m])[k] = log[m][k]
  BY <1>1, FrontFacts DEF Drops
<1>4. log' \in [Members -> Seq(Entry)] /\ \A n \in Members : n # m => log'[n] = log[n]
  BY <1>1, <1>3 DEF Drops
<1> QED  BY <1>1, <1>2, <1>3, <1>4

\* A prefix, place by place.
LEMMA PrefixFacts ==
  ASSUME NEW s \in Seq(Entry), NEW u \in Seq(Entry)
  PROVE  /\ IsPrefix(s, u) <=> Len(s) <= Len(u) /\ \A k \in 1 .. Len(s) : s[k] = u[k]
         /\ IsStrictPrefix(s, u) => IsPrefix(s, u) /\ Len(s) < Len(u)
<1>1. Len(s) \in Nat /\ Len(u) \in Nat  OBVIOUS
<1>2. SubSeq(s, 1, Len(s)) \in Seq(Entry) /\ Len(SubSeq(s, 1, Len(s))) = Len(s)
      /\ \A k \in 1 .. Len(s) : SubSeq(s, 1, Len(s))[k] = s[k]
  BY <1>1
<1>3. ASSUME Len(s) <= Len(u)
      PROVE  /\ SubSeq(u, 1, Len(s)) \in Seq(Entry) /\ Len(SubSeq(u, 1, Len(s))) = Len(s)
             /\ \A k \in 1 .. Len(s) : SubSeq(u, 1, Len(s))[k] = u[k]
  BY <1>1, <1>3
<1>4. ASSUME IsPrefix(s, u)
      PROVE  Len(s) <= Len(u) /\ \A k \in 1 .. Len(s) : s[k] = u[k]
  <2>1. Len(s) <= Len(u) /\ SubSeq(s, 1, Len(s)) = SubSeq(u, 1, Len(s))  BY <1>4 DEF IsPrefix
  <2> QED  BY <2>1, <1>2, <1>3
<1>5. ASSUME Len(s) <= Len(u), \A k \in 1 .. Len(s) : s[k] = u[k]
      PROVE  IsPrefix(s, u)
  <2>1. SubSeq(s, 1, Len(s)) = SubSeq(u, 1, Len(s))  BY <1>2, <1>3, <1>5, SeqEqual
  <2> QED  BY <2>1, <1>5 DEF IsPrefix
<1>6. ASSUME IsStrictPrefix(s, u)
      PROVE  IsPrefix(s, u) /\ Len(s) < Len(u)
  <2>1. IsPrefix(s, u) /\ s # u  BY <1>6 DEF IsStrictPrefix
  <2>2. Len(s) = Len(u) => s = u  BY <2>1, <1>4, SeqEqual
  <2> QED  BY <2>1, <2>2, <1>1, <1>4
<1> QED  BY <1>4, <1>5, <1>6

-----------------------------------------------------------------------------
(* The steps of the set.                                                   *)

\* A member that has an entry reaches it.
LEMMA HolderReaches ==
  ASSUME SetInv, NEW m \in Members, NEW k \in Places, NEW e \in Entry, Has(m, k, e)
  PROVE  Reaches(m, k, e) /\ log[m][Len(log[m])].t >= e.t /\ Len(log[m]) >= k
<1>1. Len(log[m]) \in Nat /\ k \in 1 .. Len(log[m]) /\ log[m][k] = e
      /\ Len(log[m]) \in 1 .. Len(log[m])
  BY LogFacts DEF SetInv, Has, Places
<1>2. log[m][k].t <= log[m][Len(log[m])].t  BY <1>1 DEF SetInv, Ordered
<1>3. log[m][Len(log[m])].t \in Nat /\ e.t \in Nat  BY <1>1, LogFacts, EntryFields DEF SetInv
<1> QED  BY <1>1, <1>2, <1>3 DEF Reaches

\* The primary has every chosen entry.
LEMMA PrimaryHas ==
  ASSUME SetInv, NEW p \in Members, role[p] = "PRIMARY",
         NEW k \in Places, NEW e \in Entry, Chosen(k, e)
  PROVE  Has(p, k, e)
<1>1. PICK m \in Stock : Has(m, k, e)
  <2> DEFINE Q == {m \in Stock : Has(m, k, e)}
  <2>1. Majority(Q)  BY DEF Chosen
  <2>2. \E m \in Stock : m \in Q  BY <2>1, MajoritiesMeet
  <2> QED  BY <2>2
<1>2. m \in Members  BY DEF Members
<1>3. k \in 1 .. Len(log[m]) /\ log[m][k] = e  BY <1>1, <1>2, LogFacts DEF SetInv, Has, Places
<1>4. e.t <= term  BY <1>2, <1>3 DEF SetInv, Ordered
<1>5. Len(log[p]) > 0 /\ log[p][Len(log[p])].t = term /\ (e.t = term => k <= Len(log[p]))
  BY <1>2, <1>3 DEF SetInv, Led
<1>6. e.t \in Nat /\ term \in Nat /\ Len(log[p]) \in Nat
  BY EntryFields, LogFacts DEF SetInv, LogsTyped
<1>7. Reaches(p, k, e)  BY <1>4, <1>5, <1>6 DEF Reaches, Places
<1> QED  BY <1>7 DEF Chosen

\* What a step must show for Kept.
LEMMA KeptIf ==
  ASSUME \A k \in Places, e \in Entry : Chosen(k, e) =>
           /\ \A m \in Members : Has(m, k, e) => Has(m, k, e)'
           /\ \A n \in Members : Reaches(n, k, e)' => Has(n, k, e)'
  PROVE  Kept
<1> SUFFICES ASSUME NEW k \in Places, NEW e \in Entry, Chosen(k, e)
             PROVE  Chosen(k, e)'
  BY DEF Kept
<1> DEFINE P == {m \in Stock : Has(m, k, e)}
           Q == {m \in Stock : Has(m, k, e)'}
<1>1. P \subseteq Q  BY DEF Members
<1>2. Majority(P)  BY DEF Chosen
<1>3. Majority(Q)  BY <1>1, <1>2, MajorityGrows
<1>4. Majority({m \in Stock : Has(m, k, e)})'  BY <1>3 DEF Majority
<1> QED  BY <1>4 DEF Chosen

\* Steps that leave the logs and the term alone and make no primary.
LEMMA RolesChange ==
  ASSUME SetInv, UNCHANGED <<log, term>>, RolesTyped',
         \A p \in Members : role'[p] = "PRIMARY" => role[p] = "PRIMARY"
  PROVE  SetInv' /\ Kept
<1>1. LogsTyped' /\ Ordered' /\ Matched'  BY DEF SetInv, LogsTyped, Ordered, Matched
<1>2. Led'  BY DEF SetInv, Led
<1>3. Kept  BY DEF Kept, Chosen, Has, Reaches, Majority
<1> QED  BY <1>1, <1>2, <1>3 DEF SetInv

\* The primary writes an entry of its term.
LEMMA PrimaryAppends ==
  ASSUME SetInv, NEW p \in Members, role[p] = "PRIMARY",
         NEW x \in Entry, x.t = term, Appends(p, x), UNCHANGED <<role, term>>
  PROVE  SetInv' /\ Kept
<1>0. /\ LogsTyped /\ term \in Nat
      /\ \A m \in Members : Len(log[m]) \in Nat
      /\ \A m \in Members : \A i \in 1 .. Len(log[m]) : log[m][i].t \in Nat
  BY LogFacts DEF SetInv, LogsTyped
<1>a. /\ log' \in [Members -> Seq(Entry)]
      /\ Len(log'[p]) = Len(log[p]) + 1
      /\ log'[p][Len(log[p]) + 1] = x
      /\ \A k \in 1 .. Len(log[p]) : log'[p][k] = log[p][k]
      /\ \A n \in Members : n # p => log'[n] = log[n]
  BY <1>0, AppendFacts
<1>1. LogsTyped' /\ RolesTyped'  BY <1>a DEF SetInv, LogsTyped, RolesTyped
<1>2. Ordered'
  <2> SUFFICES ASSUME NEW m \in Members
               PROVE  /\ \A i, j \in 1 .. Len(log'[m]) : i <= j => log'[m][i].t <= log'[m][j].t
                      /\ \A i \in 1 .. Len(log'[m]) : log'[m][i].t <= term
    BY DEF Ordered
  <2>1. CASE m # p  BY <2>1, <1>a DEF SetInv, Ordered
  <2>2. CASE m = p
    <3>1. \A i \in 1 .. Len(log'[p]) : i \in 1 .. Len(log[p]) \/ i = Len(log[p]) + 1
      BY <1>0, <1>a
    <3>2. \A i \in 1 .. Len(log[p]) : log'[p][i].t = log[p][i].t /\ log[p][i].t <= term
      BY <1>a DEF SetInv, Ordered
    <3>3. \A i, j \in 1 .. Len(log[p]) : i <= j => log[p][i].t <= log[p][j].t
      BY DEF SetInv, Ordered
    <3>4. log'[p][Len(log[p]) + 1].t = term  BY <1>a
    <3>5. \A i \in 1 .. Len(log'[p]) : log'[p][i].t <= term
      BY <3>1, <3>2, <3>4, <1>0
    <3>6. ASSUME NEW i \in 1 .. Len(log'[p]), NEW j \in 1 .. Len(log'[p]), i <= j
          PROVE  log'[p][i].t <= log'[p][j].t
      <4>1. CASE j \in 1 .. Len(log[p])
        <5>1. i \in 1 .. Len(log[p])  BY <3>6, <4>1, <1>0
        <5> QED  BY <3>6, <4>1, <5>1, <3>2, <3>3
      <4>2. CASE j = Len(log[p]) + 1  BY <4>2, <3>4, <3>5
      <4> QED  BY <4>1, <4>2, <3>1
    <3> QED  BY <2>2, <3>5, <3>6
  <2> QED  BY <2>1, <2>2
\* Nobody else has an entry of this term at the new place.
<1>3. \A n \in Members : n # p /\ Len(log[p]) + 1 <= Len(log[n]) =>
        log[n][Len(log[p]) + 1].t # term
  <2> SUFFICES ASSUME NEW n \in Members, Len(log[p]) + 1 <= Len(log[n]),
                      log[n][Len(log[p]) + 1].t = term
               PROVE  FALSE
    OBVIOUS
  <2>1. Len(log[p]) + 1 \in 1 .. Len(log[n]) /\ ~(Len(log[p]) + 1 <= Len(log[p]))  BY <1>0
  <2> QED  BY <2>1 DEF SetInv, Led
<1>4. Matched'
  <2> SUFFICES ASSUME NEW m \in Members, NEW n \in Members, NEW k \in Nat \ {0},
                      k <= Len(log'[m]), k <= Len(log'[n]), log'[m][k].t = log'[n][k].t,
                      NEW j \in 1 .. k
               PROVE  log'[m][j] = log'[n][j]
    BY DEF Matched
  <2>1. CASE m # p /\ n # p  BY <2>1, <1>a DEF SetInv, Matched
  <2>2. CASE m = p /\ n # p
    <3>1. k <= Len(log[p])  BY <2>2, <1>0, <1>a, <1>3
    <3>2. k \in 1 .. Len(log[p]) /\ j \in 1 .. Len(log[p])  BY <3>1, <1>0
    <3>3. log'[m][k] = log[m][k] /\ log'[n][k] = log[n][k]
          /\ log'[m][j] = log[m][j] /\ log'[n][j] = log[n][j]
      BY <2>2, <3>2, <1>a
    <3>4. k <= Len(log[m]) /\ k <= Len(log[n])  BY <2>2, <3>1, <1>a
    <3> QED  BY <3>3, <3>4 DEF SetInv, Matched
  <2>3. CASE m # p /\ n = p
    <3>1. k <= Len(log[p])  BY <2>3, <1>0, <1>a, <1>3
    <3>2. k \in 1 .. Len(log[p]) /\ j \in 1 .. Len(log[p])  BY <3>1, <1>0
    <3>3. log'[m][k] = log[m][k] /\ log'[n][k] = log[n][k]
          /\ log'[m][j] = log[m][j] /\ log'[n][j] = log[n][j]
      BY <2>3, <3>2, <1>a
    <3>4. k <= Len(log[m]) /\ k <= Len(log[n])  BY <2>3, <3>1, <1>a
    <3> QED  BY <3>3, <3>4 DEF SetInv, Matched
  <2> QED  BY <2>1, <2>2, <2>3
<1>5. Led'
  <2> SUFFICES ASSUME NEW q \in Members, role[q] = "PRIMARY"
               PROVE  /\ Len(log'[q]) > 0 /\ log'[q][Len(log'[q])].t = term
                      /\ \A m \in Members : role[m] = "PRIMARY" => m = q
                      /\ \A m \in Members : \A k \in 1 .. Len(log'[m]) :
                           log'[m][k].t = term => k <= Len(log'[q]) /\ log'[q][k].t = term
    BY DEF Led
  <2>1. q = p  BY DEF SetInv, Led
  <2>2. \A m \in Members : \A k \in 1 .. Len(log[m]) :
          log[m][k].t = term => k <= Len(log[p]) /\ log[p][k].t = term
    BY DEF SetInv, Led
  <2>3. ASSUME NEW m \in Members, NEW k \in 1 .. Len(log'[m]), log'[m][k].t = term
        PROVE  k <= Len(log'[p]) /\ log'[p][k].t = term
    <3>1. CASE m # p
      <4>1. k <= Len(log[p]) /\ log[p][k].t = term  BY <2>2, <2>3, <3>1, <1>a
      <4> QED  BY <4>1, <1>0, <1>a
    <3>2. CASE m = p  BY <2>3, <3>2, <1>0, <1>a
    <3> QED  BY <3>1, <3>2
  <2> QED  BY <2>1, <2>3, <1>0, <1>a DEF SetInv, Led
<1>6. Kept
  <2> SUFFICES ASSUME NEW k \in Places, NEW e \in Entry, Chosen(k, e), NEW m \in Members
               PROVE  /\ Has(m, k, e) => Has(m, k, e)'
                      /\ Reaches(m, k, e)' => Has(m, k, e)'
    BY KeptIf
  <2>1. CASE m # p  BY <2>1, <1>a DEF Chosen, Has, Reaches
  <2>2. CASE m = p
    <3>1. Has(p, k, e)  BY PrimaryHas
    <3> QED  BY <2>2, <3>1, <1>0, <1>a DEF Has, Places
  <2> QED  BY <2>1, <2>2
<1> QED  BY <1>1, <1>2, <1>4, <1>5, <1>6 DEF SetInv

\* A member copies the next entry of the primary's log.
LEMMA MemberCopies ==
  ASSUME SetInv, NEW p \in Members, role[p] = "PRIMARY", NEW m \in Members,
         IsStrictPrefix(log[m], log[p]), Appends(m, log[p][Len(log[m]) + 1]),
         UNCHANGED <<role, term>>
  PROVE  SetInv' /\ Kept
<1>0. /\ LogsTyped /\ term \in Nat
      /\ \A n \in Members : Len(log[n]) \in Nat
      /\ \A n \in Members : \A i \in 1 .. Len(log[n]) : log[n][i] \in Entry /\ log[n][i].t \in Nat
  BY LogFacts DEF SetInv, LogsTyped
<1>1. Len(log[m]) < Len(log[p]) /\ \A k \in 1 .. Len(log[m]) : log[m][k] = log[p][k]
  BY <1>0, PrefixFacts DEF LogsTyped
<1>2. m # p /\ log[p][Len(log[m]) + 1] \in Entry  BY <1>0, <1>1
<1>a. /\ log' \in [Members -> Seq(Entry)]
      /\ Len(log'[m]) = Len(log[m]) + 1
      /\ log'[m][Len(log[m]) + 1] = log[p][Len(log[m]) + 1]
      /\ \A k \in 1 .. Len(log[m]) : log'[m][k] = log[m][k]
      /\ \A n \in Members : n # m => log'[n] = log[n]
  BY <1>0, <1>2, AppendFacts
\* The new log is a prefix of the primary's.
<1>3. Len(log'[m]) <= Len(log[p]) /\ Len(log'[m]) \in Nat /\ log'[p] = log[p]
  BY <1>0, <1>1, <1>2, <1>a
<1>4. \A k \in 1 .. Len(log'[m]) : log'[m][k] = log[p][k] /\ k \in 1 .. Len(log[p])
  <2> SUFFICES ASSUME NEW k \in 1 .. Len(log'[m])
               PROVE  log'[m][k] = log[p][k] /\ k \in 1 .. Len(log[p])
    OBVIOUS
  <2>1. k \in 1 .. Len(log[m]) \/ k = Len(log[m]) + 1  BY <1>0, <1>a
  <2> QED  BY <2>1, <1>0, <1>1, <1>3, <1>a
<1>5. LogsTyped' /\ RolesTyped'  BY <1>a DEF SetInv, LogsTyped, RolesTyped
<1>6. Ordered'
  <2> SUFFICES ASSUME NEW n \in Members
               PROVE  /\ \A i, j \in 1 .. Len(log'[n]) : i <= j => log'[n][i].t <= log'[n][j].t
                      /\ \A i \in 1 .. Len(log'[n]) : log'[n][i].t <= term
    BY DEF Ordered
  <2>1. CASE n # m  BY <2>1, <1>a DEF SetInv, Ordered
  <2>2. CASE n = m  BY <2>2, <1>4 DEF SetInv, Ordered
  <2> QED  BY <2>1, <2>2
\* So what held of the primary's log holds of it.
<1>7. ASSUME NEW n \in Members
      PROVE  \E q \in Members : /\ Len(log'[n]) <= Len(log[q])
                                /\ \A k \in 1 .. Len(log'[n]) : log'[n][k] = log[q][k]
  <2>1. CASE n = m  BY <2>1, <1>3, <1>4
  <2>2. CASE n # m
    <3>1. log'[n] = log[n] /\ Len(log[n]) <= Len(log[n])  BY <2>2, <1>0, <1>a
    <3> QED  BY <3>1
  <2> QED  BY <2>1, <2>2
<1>8. Matched'
  <2> SUFFICES ASSUME NEW a \in Members, NEW b \in Members, NEW k \in Nat \ {0},
                      k <= Len(log'[a]), k <= Len(log'[b]), log'[a][k].t = log'[b][k].t,
                      NEW j \in 1 .. k
               PROVE  log'[a][j] = log'[b][j]
    BY DEF Matched
  <2>1. PICK q \in Members : /\ Len(log'[a]) <= Len(log[q])
                             /\ \A i \in 1 .. Len(log'[a]) : log'[a][i] = log[q][i]
    BY <1>7
  <2>2. PICK r \in Members : /\ Len(log'[b]) <= Len(log[r])
                             /\ \A i \in 1 .. Len(log'[b]) : log'[b][i] = log[r][i]
    BY <1>7
  <2>3. Len(log'[a]) \in Nat /\ Len(log'[b]) \in Nat  BY <1>a
  <2>4. k \in 1 .. Len(log'[a]) /\ j \in 1 .. Len(log'[a])
        /\ k \in 1 .. Len(log'[b]) /\ j \in 1 .. Len(log'[b])
    BY <2>3
  <2>5. k <= Len(log[q]) /\ k <= Len(log[r]) /\ log[q][k].t = log[r][k].t
    <3>1. log'[a][k] = log[q][k] /\ log'[b][k] = log[r][k]  BY <2>1, <2>2, <2>4
    <3> QED  BY <3>1, <2>1, <2>2, <2>3, <1>0
  <2>6. log[q][j] = log[r][j]  BY <2>5 DEF SetInv, Matched
  <2> QED  BY <2>1, <2>2, <2>4, <2>6
<1>9. Led'
  <2> SUFFICES ASSUME NEW q \in Members, role[q] = "PRIMARY"
               PROVE  /\ Len(log'[q]) > 0 /\ log'[q][Len(log'[q])].t = term
                      /\ \A n \in Members : role[n] = "PRIMARY" => n = q
                      /\ \A n \in Members : \A k \in 1 .. Len(log'[n]) :
                           log'[n][k].t = term => k <= Len(log'[q]) /\ log'[q][k].t = term
    BY DEF Led
  <2>1. q = p  BY DEF SetInv, Led
  <2>2. ASSUME NEW n \in Members, NEW k \in 1 .. Len(log'[n]), log'[n][k].t = term
        PROVE  k <= Len(log[p]) /\ log[p][k].t = term
    <3>1. CASE n = m  BY <2>2, <3>1, <1>0, <1>4
    <3>2. CASE n # m  BY <2>2, <3>2, <1>a DEF SetInv, Led
    <3> QED  BY <3>1, <3>2
  <2> QED  BY <2>1, <2>2, <1>3 DEF SetInv, Led
<1>10. Kept
  <2> SUFFICES ASSUME NEW k \in Places, NEW e \in Entry, Chosen(k, e), NEW n \in Members
               PROVE  /\ Has(n, k, e) => Has(n, k, e)'
                      /\ Reaches(n, k, e)' => Has(n, k, e)'
    BY KeptIf
  <2>1. CASE n # m  BY <2>1, <1>a DEF Chosen, Has, Reaches
  <2>2. CASE n = m
    <3>1. Has(p, k, e)  BY PrimaryHas
    <3>2. k \in 1 .. Len(log[p]) /\ log[p][k] = e /\ e.t \in Nat
      BY <3>1, <1>0, EntryFields DEF Has, Places
    <3>3. Has(m, k, e) => k <= Len(log'[m])  BY <1>0, <1>a DEF Has, Places
    <3>4. ASSUME Reaches(m, k, e)'  PROVE k <= Len(log'[m])
      <4>1. CASE log'[m][Len(log'[m])].t > e.t
        <5>1. Len(log'[m]) \in 1 .. Len(log'[m])  BY <1>0, <1>a
        <5>2. log[p][Len(log'[m])].t > log[p][k].t /\ Len(log'[m]) \in 1 .. Len(log[p])
          BY <4>1, <5>1, <3>2, <1>4
        <5>3. k <= Len(log'[m]) \/ Len(log'[m]) <= k  BY <1>3 DEF Places
        <5>4. Len(log'[m]) <= k => log[p][Len(log'[m])].t <= log[p][k].t
          BY <5>2, <3>2 DEF SetInv, Ordered
        <5> QED  BY <5>2, <5>3, <5>4, <3>2, <1>0
      <4> QED  BY <3>4, <4>1 DEF Reaches
    <3>5. k <= Len(log'[m]) => Has(m, k, e)'
      <4> SUFFICES ASSUME k <= Len(log'[m])  PROVE log'[m][k] = e
        BY DEF Has
      <4>1. k \in 1 .. Len(log'[m])  BY <1>3 DEF Places
      <4> QED  BY <4>1, <1>4, <3>2
    <3> QED  BY <2>2, <3>3, <3>4, <3>5
  <2> QED  BY <2>1, <2>2
<1> QED  BY <1>5, <1>6, <1>8, <1>9, <1>10 DEF SetInv

\* A member whose log is not a prefix of the primary's rolls back an entry.
LEMMA MemberRollsBack ==
  ASSUME SetInv, NEW p \in Members, role[p] = "PRIMARY", NEW m \in Members, m # p,
         ~IsPrefix(log[m], log[p]), Drops(m), UNCHANGED <<role, term>>
  PROVE  SetInv' /\ Kept
<1>0. /\ LogsTyped /\ term \in Nat
      /\ \A n \in Members : Len(log[n]) \in Nat
      /\ \A n \in Members : \A i \in 1 .. Len(log[n]) : log[n][i].t \in Nat
  BY LogFacts DEF SetInv, LogsTyped
<1>a. /\ log' \in [Members -> Seq(Entry)] /\ Len(log[m]) > 0
      /\ Len(log'[m]) = Len(log[m]) - 1
      /\ \A k \in 1 .. Len(log[m]) - 1 : log'[m][k] = log[m][k]
      /\ \A n \in Members : n # m => log'[n] = log[n]
  BY <1>0, DropFacts
\* Every log is a prefix of what it was.
<1>1. ASSUME NEW n \in Members
      PROVE  /\ Len(log'[n]) \in Nat /\ Len(log'[n]) <= Len(log[n])
             /\ \A k \in 1 .. Len(log'[n]) : log'[n][k] = log[n][k] /\ k \in 1 .. Len(log[n])
  <2>1. CASE n = m  BY <2>1, <1>0, <1>a
  <2>2. CASE n # m
    <3>1. log'[n] = log[n] /\ Len(log[n]) <= Len(log[n])  BY <2>2, <1>0, <1>a
    <3> QED  BY <3>1, <1>0
  <2> QED  BY <2>1, <2>2
<1>2. LogsTyped' /\ RolesTyped'  BY <1>a DEF SetInv, LogsTyped, RolesTyped
<1>3. Ordered'  BY <1>1 DEF SetInv, Ordered
<1>4. Matched'
  <2> SUFFICES ASSUME NEW a \in Members, NEW b \in Members, NEW k \in Nat \ {0},
                      k <= Len(log'[a]), k <= Len(log'[b]), log'[a][k].t = log'[b][k].t,
                      NEW j \in 1 .. k
               PROVE  log'[a][j] = log'[b][j]
    BY DEF Matched
  <2>1. k \in 1 .. Len(log'[a]) /\ j \in 1 .. Len(log'[a])
        /\ k \in 1 .. Len(log'[b]) /\ j \in 1 .. Len(log'[b])
    BY <1>1
  <2>2. log'[a][k] = log[a][k] /\ log'[b][k] = log[b][k]
        /\ log'[a][j] = log[a][j] /\ log'[b][j] = log[b][j]
    BY <2>1, <1>1
  <2>3. k <= Len(log[a]) /\ k <= Len(log[b])  BY <2>1, <1>1
  <2> QED  BY <2>2, <2>3 DEF SetInv, Matched
<1>5. Led'
  <2> SUFFICES ASSUME NEW q \in Members, role[q] = "PRIMARY"
               PROVE  /\ Len(log'[q]) > 0 /\ log'[q][Len(log'[q])].t = term
                      /\ \A n \in Members : role[n] = "PRIMARY" => n = q
                      /\ \A n \in Members : \A k \in 1 .. Len(log'[n]) :
                           log'[n][k].t = term => k <= Len(log'[q]) /\ log'[q][k].t = term
    BY DEF Led
  <2>1. q = p /\ log'[p] = log[p]  BY <1>a DEF SetInv, Led
  <2> QED  BY <2>1, <1>1 DEF SetInv, Led
<1>6. Kept
  <2> SUFFICES ASSUME NEW k \in Places, NEW e \in Entry, Chosen(k, e), NEW n \in Members
               PROVE  /\ Has(n, k, e) => Has(n, k, e)'
                      /\ Reaches(n, k, e)' => Has(n, k, e)'
    BY KeptIf
  <2>1. CASE n # m  BY <2>1, <1>a DEF Chosen, Has, Reaches
  <2>2. CASE n = m
    <3>1. Has(p, k, e) /\ e.t \in Nat /\ k \in Nat \ {0}
      BY PrimaryHas, EntryFields DEF Places
    \* The last entry is none the primary has, so it is none that was chosen.
    <3>2. ASSUME Has(m, k, e)  PROVE k # Len(log[m])
      <4> SUFFICES ASSUME k = Len(log[m])  PROVE FALSE
        OBVIOUS
      <4>1. \A j \in 1 .. k : log[m][j] = log[p][j]
        BY <3>1, <3>2 DEF SetInv, Matched, Has
      <4>2. IsPrefix(log[m], log[p])
        <5>1. log[m] \in Seq(Entry) /\ log[p] \in Seq(Entry)  BY <1>0 DEF LogsTyped
        <5> QED  BY <5>1, <3>1, <4>1, PrefixFacts DEF Has
      <4> QED  BY <4>2
    <3>3. ASSUME Has(m, k, e)  PROVE Has(m, k, e)'
      <4>1. k \in 1 .. Len(log[m]) - 1  BY <3>1, <3>2, <3>3, <1>0 DEF Has
      <4> QED  BY <4>1, <3>3, <1>0, <1>a DEF Has
    <3>4. ASSUME Reaches(m, k, e)'  PROVE Has(m, k, e)
      <4> DEFINE l == Len(log[m])
      <4>1. l \in Nat /\ Len(log'[m]) = l - 1 /\ l - 1 > 0  BY <3>4, <1>0, <1>a DEF Reaches
      <4>2. log'[m][l - 1] = log[m][l - 1] /\ l - 1 \in 1 .. l /\ l \in 1 .. l
        BY <4>1, <1>a
      <4>3. log[m][l - 1].t <= log[m][l].t
        <5>1. l - 1 <= l  BY <4>1
        <5>2. \A i, j \in 1 .. l : i <= j => log[m][i].t <= log[m][j].t  BY DEF SetInv, Ordered
        <5> HIDE DEF l
        <5> QED  BY <4>2, <5>1, <5>2
      <4>4. log[m][l - 1].t > e.t \/ (log[m][l - 1].t = e.t /\ l - 1 >= k)
        BY <3>4, <4>1, <4>2 DEF Reaches
      <4>5. log[m][l - 1].t \in Nat /\ log[m][l].t \in Nat  BY <4>2, <1>0
      <4>6. log[m][l].t > e.t \/ (log[m][l].t = e.t /\ l >= k)
        <5> HIDE DEF l
        <5>1. CASE log[m][l - 1].t > e.t  BY <3>1, <4>3, <4>5, <5>1
        <5>2. CASE log[m][l - 1].t = e.t /\ l - 1 >= k
          <6>1. l >= k  BY <3>1, <4>1, <5>2
          <6> QED  BY <3>1, <4>3, <4>5, <5>2, <6>1
        <5> QED  BY <4>4, <5>1, <5>2
      <4>7. Reaches(m, k, e)  BY <4>1, <4>6 DEF Reaches
      <4> QED  BY <4>7 DEF Chosen
    <3> QED  BY <2>2, <3>3, <3>4
  <2> QED  BY <2>1, <2>2
<1> QED  BY <1>2, <1>3, <1>4, <1>5, <1>6 DEF SetInv

\* A member is elected by a majority that is not ahead of it.
Elects(m) ==
  /\ term < MaxTerm /\ term' = term + 1
  /\ Appends(m, [t |-> term + 1, v |-> "noop"])
  /\ Majority({q \in Stock : AtLeast(Position(log[m]), Position(log[q]))})
  /\ role' = [k \in Members |-> IF k = m THEN "PRIMARY"
                                ELSE IF role[k] = "PRIMARY" THEN "SECONDARY"
                                ELSE role[k]]

\* One log goes as far as another.
LEMMA AtLeastFacts ==
  ASSUME LogsTyped, NEW m \in Members, NEW q \in Members, Len(log[q]) > 0,
         AtLeast(Position(log[m]), Position(log[q]))
  PROVE  /\ Len(log[m]) > 0
         /\ \/ log[m][Len(log[m])].t > log[q][Len(log[q])].t
            \/ log[m][Len(log[m])].t = log[q][Len(log[q])].t /\ Len(log[m]) >= Len(log[q])
<1>1. /\ Len(log[m]) \in Nat /\ Len(log[q]) \in Nat /\ log[q] # << >>
      /\ log[m] = << >> <=> Len(log[m]) = 0
      /\ log[q][Len(log[q])].t \in Nat /\ log[q][Len(log[q])].t > 0
      /\ Len(log[m]) > 0 => log[m][Len(log[m])].t \in Nat
  <2>1. Len(log[q]) \in 1 .. Len(log[q])  BY LogFacts
  <2> QED  BY <2>1, LogFacts, EntryFields
<1>2. Position(log[q]) = [t |-> log[q][Len(log[q])].t, s |-> Len(log[q]), i |-> 0]
  BY <1>1 DEF Position, Last
<1>3. CASE log[m] = << >>
  <2>1. Position(log[m]) = [t |-> 0, s |-> 0, i |-> 0]  BY <1>3 DEF Position, NoProgress
  <2>2. Less(Position(log[m]), Position(log[q]))  BY <1>1, <1>2, <2>1 DEF Less
  <2> QED  BY <2>2 DEF AtLeast
<1>4. CASE log[m] # << >>
  <2>1. Position(log[m]) = [t |-> log[m][Len(log[m])].t, s |-> Len(log[m]), i |-> 0]
    BY <1>4 DEF Position, Last
  <2>2. ~Less(Position(log[m]), Position(log[q]))  BY DEF AtLeast
  <2> QED  BY <1>1, <1>2, <1>4, <2>1, <2>2 DEF Less
<1> QED  BY <1>3, <1>4

LEMMA MemberElected ==
  ASSUME SetInv, NEW m \in Stock, Elects(m)
  PROVE  SetInv' /\ Kept
<1> DEFINE x == [t |-> term + 1, v |-> "noop"]
<1>0. /\ LogsTyped /\ term \in Nat /\ MaxTerm \in Nat /\ m \in Members
      /\ \A n \in Members : Len(log[n]) \in Nat
      /\ \A n \in Members : \A i \in 1 .. Len(log[n]) : log[n][i].t \in Nat
  BY LogFacts, ReplicaCaseAssumption DEF SetInv, LogsTyped, Members
<1>1. x \in Entry /\ x.t = term' /\ term' = term + 1 /\ term + 1 \in 1 .. MaxTerm
  BY <1>0 DEF Elects, Entry, SetInv, LogsTyped
<1>a. /\ log' \in [Members -> Seq(Entry)]
      /\ Len(log'[m]) = Len(log[m]) + 1
      /\ log'[m][Len(log[m]) + 1] = x
      /\ \A k \in 1 .. Len(log[m]) : log'[m][k] = log[m][k]
      /\ \A n \in Members : n # m => log'[n] = log[n]
  <2>1. Appends(m, x)  BY DEF Elects
  <2> QED  BY <2>1, <1>0, <1>1, AppendFacts
<1>2. LogsTyped' /\ RolesTyped'
  <2>1. LogsTyped'  BY <1>1, <1>a DEF LogsTyped
  <2>2. m # Subject  BY ReplicaCaseAssumption
  <2>3. RolesTyped'  BY <2>2, <1>0 DEF Elects, SetInv, RolesTyped, Roles, Members
  <2> QED  BY <2>1, <2>3
\* Only the new entry is of the new term.
<1>3. ASSUME NEW n \in Members, NEW k \in 1 .. Len(log'[n])
      PROVE  \/ k \in 1 .. Len(log[n]) /\ log'[n][k] = log[n][k] /\ log'[n][k].t <= term
             \/ n = m /\ k = Len(log[m]) + 1 /\ log'[n][k].t = term + 1
  <2>1. CASE n # m  BY <1>3, <2>1, <1>a DEF SetInv, Ordered
  <2>2. CASE n = m /\ k = Len(log[m]) + 1  BY <2>2, <1>1, <1>a
  <2>3. CASE n = m /\ k # Len(log[m]) + 1
    <3>1. k \in 1 .. Len(log[m])  BY <1>3, <2>3, <1>0, <1>a
    <3> QED  BY <2>3, <3>1, <1>0, <1>a DEF SetInv, Ordered
  <2> QED  BY <2>1, <2>2, <2>3
<1>4. Ordered'
  <2> SUFFICES ASSUME NEW n \in Members
               PROVE  /\ \A i, j \in 1 .. Len(log'[n]) : i <= j => log'[n][i].t <= log'[n][j].t
                      /\ \A i \in 1 .. Len(log'[n]) : log'[n][i].t <= term'
    BY DEF Ordered
  <2>1. \A i \in 1 .. Len(log'[n]) : log'[n][i].t \in Nat /\ log'[n][i].t <= term'
    <3> SUFFICES ASSUME NEW i \in 1 .. Len(log'[n])
                 PROVE  log'[n][i].t \in Nat /\ log'[n][i].t <= term'
      OBVIOUS
    <3>1. CASE i \in 1 .. Len(log[n]) /\ log'[n][i] = log[n][i] /\ log'[n][i].t <= term
      <4>1. log'[n][i].t \in Nat  BY <1>0, <3>1
      <4> QED  BY <4>1, <1>0, <1>1, <3>1
    <3>2. CASE log'[n][i].t = term + 1  BY <1>0, <1>1, <3>2
    <3> QED  BY <1>3, <3>1, <3>2
  <2>2. ASSUME NEW i \in 1 .. Len(log'[n]), NEW j \in 1 .. Len(log'[n]), i <= j
        PROVE  log'[n][i].t <= log'[n][j].t
    <3>1. CASE log'[n][j].t = term + 1  BY <2>1, <3>1, <1>1
    <3>2. CASE j \in 1 .. Len(log[n]) /\ log'[n][j] = log[n][j]
      <4>1. i \in 1 .. Len(log[n])  BY <2>2, <3>2, <1>0
      <4>2. log'[n][i] = log[n][i]  BY <4>1, <1>a
      <4> QED  BY <2>2, <3>2, <4>1, <4>2 DEF SetInv, Ordered
    <3> QED  BY <3>1, <3>2, <1>3
  <2> QED  BY <2>1, <2>2
<1>5. Matched'
  <2> SUFFICES ASSUME NEW a \in Members, NEW b \in Members, NEW k \in Nat \ {0},
                      k <= Len(log'[a]), k <= Len(log'[b]), log'[a][k].t = log'[b][k].t,
                      NEW j \in 1 .. k
               PROVE  log'[a][j] = log'[b][j]
    BY DEF Matched
  <2>1. k \in 1 .. Len(log'[a]) /\ j \in 1 .. Len(log'[a]) /\ Len(log'[a]) \in Nat
        /\ k \in 1 .. Len(log'[b]) /\ j \in 1 .. Len(log'[b]) /\ Len(log'[b]) \in Nat
    BY <1>a
  <2>2. CASE a = m /\ b = m  BY <2>2
  <2>3. CASE log'[a][k].t <= term
    <3>0. ~(term + 1 <= term)  BY <1>0
    <3>1. /\ k \in 1 .. Len(log[a]) /\ log'[a][k] = log[a][k]
          /\ k \in 1 .. Len(log[b]) /\ log'[b][k] = log[b][k]
      <4>1. k \in 1 .. Len(log[a]) /\ log'[a][k] = log[a][k]  BY <2>1, <2>3, <3>0, <1>3
      <4>2. log'[b][k].t <= term  BY <2>3
      <4>3. k \in 1 .. Len(log[b]) /\ log'[b][k] = log[b][k]  BY <2>1, <3>0, <4>2, <1>3
      <4> QED  BY <4>1, <4>3
    <3>2. j \in 1 .. Len(log[a]) /\ j \in 1 .. Len(log[b])  BY <3>1, <1>0
    <3>3. log'[a][j] = log[a][j] /\ log'[b][j] = log[b][j]  BY <3>2, <1>a
    <3>4. k <= Len(log[a]) /\ k <= Len(log[b]) /\ log[a][k].t = log[b][k].t
      BY <3>1, <1>0
    <3> QED  BY <3>3, <3>4 DEF SetInv, Matched
  <2> QED  BY <2>1, <2>2, <2>3, <1>0, <1>3
<1>6. Led'
  <2> SUFFICES ASSUME NEW q \in Members, role'[q] = "PRIMARY"
               PROVE  /\ Len(log'[q]) > 0 /\ log'[q][Len(log'[q])].t = term'
                      /\ \A n \in Members : role'[n] = "PRIMARY" => n = q
                      /\ \A n \in Members : \A k \in 1 .. Len(log'[n]) :
                           log'[n][k].t = term' => k <= Len(log'[q]) /\ log'[q][k].t = term'
    BY DEF Led
  <2>1. q = m /\ \A n \in Members : role'[n] = "PRIMARY" => n = q  BY DEF Elects
  <2>2. Len(log'[m]) > 0 /\ log'[m][Len(log'[m])].t = term'  BY <1>0, <1>1, <1>a
  <2>3. ASSUME NEW n \in Members, NEW k \in 1 .. Len(log'[n]), log'[n][k].t = term'
        PROVE  k <= Len(log'[m]) /\ log'[m][k].t = term'
    <3>1. n = m  BY <2>3, <1>0, <1>1, <1>3
    <3> QED  BY <2>3, <3>1, <1>0, <1>a
  <2> QED  BY <2>1, <2>2, <2>3
<1>7. Kept
  <2> SUFFICES ASSUME NEW k \in Places, NEW e \in Entry, Chosen(k, e), NEW n \in Members
               PROVE  /\ Has(n, k, e) => Has(n, k, e)'
                      /\ Reaches(n, k, e)' => Has(n, k, e)'
    BY KeptIf
  <2>1. CASE n # m  BY <2>1, <1>a DEF Chosen, Has, Reaches
  <2>2. CASE n = m
    \* A voter has the entry, and the elected member is not behind it.
    <3> DEFINE P == {q \in Stock : Has(q, k, e)}
               Q == {q \in Stock : AtLeast(Position(log[m]), Position(log[q]))}
    <3>1. Majority(P) /\ Majority(Q)  BY DEF Chosen, Elects
    <3>2. PICK q \in Stock : q \in P /\ q \in Q  BY <3>1, MajoritiesMeet
    <3>3. q \in Members /\ Has(q, k, e) /\ AtLeast(Position(log[m]), Position(log[q]))
      BY <3>2 DEF Members
    <3>4. log[q][Len(log[q])].t >= e.t /\ Len(log[q]) >= k /\ Len(log[q]) > 0
      BY <3>3, <1>0, HolderReaches DEF Reaches
    <3>5. /\ Len(log[m]) > 0
          /\ \/ log[m][Len(log[m])].t > log[q][Len(log[q])].t
             \/ log[m][Len(log[m])].t = log[q][Len(log[q])].t /\ Len(log[m]) >= Len(log[q])
      BY <3>3, <3>4, <1>0, AtLeastFacts
    <3>6. log[m][Len(log[m])].t \in Nat /\ log[q][Len(log[q])].t \in Nat /\ e.t \in Nat
          /\ Len(log[m]) \in Nat /\ Len(log[q]) \in Nat /\ k \in Nat
      <4>1. Len(log[m]) \in 1 .. Len(log[m]) /\ Len(log[q]) \in 1 .. Len(log[q])
        BY <3>3, <3>4, <3>5, <1>0
      <4> QED  BY <4>1, <3>3, <1>0, EntryFields DEF Places
    <3>7. Reaches(m, k, e)  BY <3>4, <3>5, <3>6 DEF Reaches
    <3>8. Has(m, k, e)  BY <3>7, <1>0 DEF Chosen
    <3> QED  BY <2>2, <3>8, <1>0, <1>a DEF Has, Places
  <2> QED  BY <2>1, <2>2
<1> QED  BY <1>2, <1>4, <1>5, <1>6, <1>7 DEF SetInv

-----------------------------------------------------------------------------
(* The case: the inductive invariant.                                      *)

\* What the case writes.
Wanted == {"load"} \cup (IF tc.seed THEN {"seed"} ELSE {})
                    \cup (IF tc.clone THEN {"clone"} ELSE {})

\* A write that cannot be rolled back; one that member m has, too; one that the
\* watermark of the wait is not before.
Backed(v) == \E k \in Places, e \in Entry : e.v = v /\ Chosen(k, e)
Sure(m, v) == \E k \in Places, e \in Entry : e.v = v /\ Chosen(k, e) /\ Has(m, k, e)
Due(v) ==
  \E k \in Places, e \in Entry :
    /\ e.v = v /\ Chosen(k, e)
    /\ watermark.t > e.t \/ (watermark.t = e.t /\ watermark.s >= k)

\* The places of the test after <-cloneDone, and after the control.
Late == {"reference", "controlMark", "controlRead", "controlWait", "capturePrimary",
         "captureReference", "control", "stamp", "gradeMark", "gradeRead", "gradeWait",
         "captureSubject", "grade"}
Graded == {"stamp", "gradeMark", "gradeRead", "gradeWait", "captureSubject", "grade"}
CloneGoesOn == clone \in {"writing", "waiting"}

LogsWanted ==
  \A m \in Members : \A k \in 1 .. Len(log[m]) : log[m][k].v \in Wanted \cup {"noop"}

\* The writes, and which were acknowledged by when.
WriteInv ==
  /\ tc \in Cases /\ LogsWanted
  /\ acked \subseteq Wanted /\ \A v \in acked : Backed(v)
  /\ pc \notin {"seed", "done"} \/ CloneGoesOn => primary \in Stock
  /\ CloneGoesOn => tc.clone
  /\ pc = "seedAck" => tc.seed
  /\ clone = "ok" /\ tc.clone => "clone" \in acked
  /\ pc \notin {"seed", "seedAck", "done"} /\ tc.seed => "seed" \in acked
  /\ pc \in Late \cup {"cloneDone"} => "load" \in acked
  /\ pc \in Late => clone = "ok"

\* The member found to be primary has every write, and keeps them when it is
\* deposed before it is asked for its position; whoever reached the watermark
\* has them too.
WaitInv ==
  /\ pc \in {"controlRead", "gradeRead"} =>
       asked \in Members /\ \A v \in Wanted : Sure(asked, v)
  /\ pc \in {"controlWait", "gradeWait"} =>
       /\ reached \subseteq Members
       /\ watermark.t \in Nat /\ watermark.s \in Nat /\ watermark.i = 0
       /\ \A v \in Wanted : Due(v) /\ \A m \in reached : Sure(m, v)

\* So do the members about to be captured.
SureInv ==
  /\ pc \in {"capturePrimary", "captureReference"} => reference \in Members
  /\ \A m \in Members : \A v \in Wanted :
       \/ pc = "capturePrimary" /\ m \in {primary, reference}
       \/ pc = "captureReference" /\ m = reference
       \/ pc = "captureSubject" /\ m = Subject
       => Sure(m, v)

CaptureInv ==
  /\ DOMAIN captured = Captures
  /\ \A c \in Captures : captured[c] # {Unset} =>
       captured[c] \subseteq Wanted /\ Wanted \ lost \subseteq captured[c]
  /\ pc \in {"captureReference", "control"} => captured["primary"] = Wanted
  /\ pc = "control" => captured["reference"] # {Unset}
  /\ pc \in Graded => captured["reference"] = Wanted
  /\ pc = "grade" => captured["subject"] # {Unset}
  /\ captured["subject"] # {Unset} => captured["reference"] # {Unset}
  /\ fatal = "mismatch" => lost # {}

StatusInv ==
  /\ pc \notin {"finish", "done"} => status = Unset /\ fatal = Unset
  /\ pc = "finish" => status # Unset /\ fatal = Unset
  /\ pc = "done" => (fatal # Unset <=> status = Unset)
  /\ pc = "done" /\ tc.panics /\ status # Unset => status = "FAIL"
  /\ status \in {"FAIL", "XPASS"} => errored = TRUE
  /\ status = "PASS" => captured["subject"] = Wanted

CaseInv == SetInv /\ WriteInv /\ WaitInv /\ SureInv /\ CaptureInv /\ StatusInv

-----------------------------------------------------------------------------
(* Facts about the case.                                                   *)

\* The first member in a state is in that state.
LEMMA FirstInFacts ==
  ASSUME RolesTyped, NEW R, SomeIn(R)
  PROVE  FirstIn(R) \in Members /\ role[FirstIn(R)] \in R
<1> DEFINE is == {k \in DOMAIN MemberOrder : role[MemberOrder[k]] \in R}
<1>1. Mongods \in Seq(Stock) /\ Len(Mongods) \in Nat /\ DOMAIN Mongods = 1 .. Len(Mongods)
  BY ReplicaCaseAssumption
<1>2. /\ DOMAIN MemberOrder = 1 .. Len(Mongods) + 1
      /\ \A k \in 1 .. Len(Mongods) : MemberOrder[k] = Mongods[k]
      /\ MemberOrder[Len(Mongods) + 1] = Subject
  <2>1. Mongods \in Seq(Members)  BY <1>1, SeqMonotonic DEF Members
  <2>2. Subject \in Members  BY DEF Members
  <2> QED  BY <1>1, <2>1, <2>2 DEF MemberOrder
<1>3. \A k \in DOMAIN MemberOrder : MemberOrder[k] \in Members
  <2> SUFFICES ASSUME NEW k \in 1 .. Len(Mongods) + 1  PROVE MemberOrder[k] \in Members
    BY <1>2
  <2>1. CASE k \in 1 .. Len(Mongods)  BY <2>1, <1>1, <1>2 DEF Members
  <2>2. CASE k = Len(Mongods) + 1  BY <2>2, <1>2 DEF Members
  <2> QED  BY <2>1, <2>2, <1>1
<1>4. is # {}
  <2>1. PICK m \in Members : role[m] \in R  BY DEF SomeIn
  <2>2. PICK k \in DOMAIN MemberOrder : MemberOrder[k] = m
    <3>1. CASE m = Subject  BY <3>1, <1>1, <1>2
    <3>2. CASE m \in Stock
      <4>1. PICK k \in 1 .. Len(Mongods) : Mongods[k] = m  BY <3>2, <1>1 DEF Stock, Range
      <4> QED  BY <4>1, <1>1, <1>2
    <3> QED  BY <3>1, <3>2 DEF Members
  <2> QED  BY <2>1, <2>2
<1>5. is \subseteq Nat  BY <1>1, <1>2
<1>6. \E k \in is : \A j \in is : k <= j
  <2>1. PICK k \in is : \A j \in is : ~(<<j, k>> \in OpToRel(<, Nat))
    BY <1>4, <1>5, NatLessThanWellFounded, WFMin
  <2>2. \A a, b \in Nat : a < b => <<a, b>> \in OpToRel(<, Nat)  BY DEF OpToRel
  <2>3. ASSUME NEW j \in is  PROVE k <= j
    <3>1. j \in Nat /\ k \in Nat  BY <1>5
    <3>2. ~(j < k)  BY <2>1, <2>2, <3>1
    <3> QED  BY <3>1, <3>2
  <2> QED  BY <2>3
<1>7. (CHOOSE k \in is : \A j \in is : k <= j) \in is  BY <1>6
<1> QED  BY <1>3, <1>7 DEF FirstIn

LEMMA PrimaryIsStock ==
  ASSUME RolesTyped, NEW m \in Members, role[m] = "PRIMARY"
  PROVE  m \in Stock
  BY DEF RolesTyped, Members

\* An acknowledged write cannot be rolled back any more.
LEMMA CommittedIsBacked ==
  ASSUME SetInv, primary \in Stock, role[primary] = "PRIMARY", NEW v \in Writes, Committed(v)
  PROVE  Backed(v)
<1> DEFINE e == [t |-> term, v |-> v]
<1>0. primary \in Members  BY DEF Members
<1>1. PICK k \in DOMAIN log[primary] :
        /\ log[primary][k] = e
        /\ Majority({m \in Stock : k \in DOMAIN log[m] /\ log[m][k] = log[primary][k]})
  BY DEF Committed
<1>2. e \in Entry /\ e.t = term /\ e.v = v /\ term \in Nat
  BY DEF SetInv, LogsTyped, Entry
<1>3. k \in Places /\ k \in 1 .. Len(log[primary])
  BY <1>0, LogFacts DEF SetInv, Places
<1>4. Majority({m \in Stock : Has(m, k, e)})
  <2> DEFINE P == {m \in Stock : k \in DOMAIN log[m] /\ log[m][k] = log[primary][k]}
             Q == {m \in Stock : Has(m, k, e)}
  <2>1. P \subseteq Q
    <3> SUFFICES ASSUME NEW m \in P  PROVE Has(m, k, e)
      OBVIOUS
    <3>1. m \in Members  BY DEF Members
    <3>2. DOMAIN log[m] = 1 .. Len(log[m]) /\ Len(log[m]) \in Nat  BY <3>1, LogFacts DEF SetInv
    <3> QED  BY <3>2, <1>1 DEF Has
  <2> QED  BY <2>1, <1>1, MajorityGrows
<1>5. ASSUME NEW n \in Members, Reaches(n, k, e)  PROVE Has(n, k, e)
  <2>1. Len(log[n]) \in Nat /\ Len(log[n]) > 0 /\ Len(log[n]) \in 1 .. Len(log[n])
    BY <1>5, LogFacts DEF SetInv, Reaches
  <2>2. log[n][Len(log[n])].t <= term /\ log[n][Len(log[n])].t \in Nat
    BY <2>1, LogFacts DEF SetInv, Ordered
  <2>3. log[n][Len(log[n])].t = term /\ Len(log[n]) >= k
    BY <1>2, <1>5, <2>2 DEF Reaches
  <2>4. Len(log[n]) <= Len(log[primary]) /\ log[primary][Len(log[n])].t = term
    BY <1>0, <2>1, <2>3 DEF SetInv, Led
  <2>5. \A j \in 1 .. Len(log[n]) : log[n][j] = log[primary][j]
    <3>1. Len(log[n]) \in Nat \ {0} /\ Len(log[n]) <= Len(log[n])  BY <2>1
    <3> QED  BY <1>0, <2>3, <2>4, <3>1 DEF SetInv, Matched
  <2> QED  BY <1>1, <1>3, <2>1, <2>3, <2>5 DEF Has, Places
<1>6. Chosen(k, e)  BY <1>4, <1>5 DEF Chosen
<1> QED  BY <1>2, <1>3, <1>6 DEF Backed

\* The primary has every backed write.
LEMMA PrimaryIsSure ==
  ASSUME SetInv, NEW p \in Members, role[p] = "PRIMARY", NEW v, Backed(v)
  PROVE  Sure(p, v)
<1>1. PICK k \in Places, e \in Entry : e.v = v /\ Chosen(k, e)  BY DEF Backed
<1>2. Has(p, k, e)  BY <1>1, PrimaryHas
<1> QED  BY <1>1, <1>2 DEF Sure

\* At the position of a member every write it is sure of is due.
LEMMA SureIsDue ==
  ASSUME SetInv, NEW p \in Members, NEW v, Sure(p, v)
  PROVE  /\ Position(log[p]).t \in Nat /\ Position(log[p]).s \in Nat /\ Position(log[p]).i = 0
         /\ \E k \in Places, e \in Entry :
              /\ e.v = v /\ Chosen(k, e)
              /\ \/ Position(log[p]).t > e.t
                 \/ Position(log[p]).t = e.t /\ Position(log[p]).s >= k
<1>1. PICK k \in Places, e \in Entry : e.v = v /\ Chosen(k, e) /\ Has(p, k, e)  BY DEF Sure
<1>3. log[p][Len(log[p])].t >= e.t /\ Len(log[p]) >= k  BY <1>1, HolderReaches
<1>4. Len(log[p]) \in Nat /\ Len(log[p]) > 0 /\ log[p] # << >> /\ e.t \in Nat /\ k \in Nat
      /\ log[p][Len(log[p])].t \in Nat
  <2>1. Len(log[p]) \in Nat /\ k \in Nat /\ k > 0  BY LogFacts DEF SetInv, Places
  <2>2. Len(log[p]) > 0  BY <1>3, <2>1
  <2>3. Len(log[p]) \in 1 .. Len(log[p])  BY <2>1, <2>2
  <2> QED  BY <2>1, <2>2, <2>3, LogFacts, EntryFields DEF SetInv
<1>5. Position(log[p]) = [t |-> log[p][Len(log[p])].t, s |-> Len(log[p]), i |-> 0]
  BY <1>4 DEF Position, Last
<1>6. Position(log[p]).t = log[p][Len(log[p])].t /\ Position(log[p]).s = Len(log[p])
      /\ Position(log[p]).i = 0
  BY <1>5
<1>7. Position(log[p]).t > e.t \/ (Position(log[p]).t = e.t /\ Position(log[p]).s >= k)
  BY <1>3, <1>4, <1>6
<1> QED  BY <1>1, <1>4, <1>6, <1>7

\* What Kept says of the writes.
LEMMA KeptWrites ==
  ASSUME Kept
  PROVE  /\ \A v : Backed(v) => Backed(v)'
         /\ \A m \in Members : \A v : Sure(m, v) => Sure(m, v)'
         /\ UNCHANGED watermark => \A v : Due(v) => Due(v)'
<1>1. ASSUME NEW v, Backed(v)  PROVE Backed(v)'
  BY <1>1 DEF Kept, Backed
<1>2. ASSUME NEW m \in Members, NEW v, Sure(m, v)  PROVE Sure(m, v)'
  <2>1. PICK k \in Places, e \in Entry : e.v = v /\ Chosen(k, e) /\ Has(m, k, e)
    BY <1>2 DEF Sure
  <2>2. Chosen(k, e)' /\ Has(m, k, e)'  BY <2>1 DEF Kept
  <2> QED  BY <2>1, <2>2 DEF Sure
<1>3. ASSUME UNCHANGED watermark, NEW v, Due(v)  PROVE Due(v)'
  <2>1. PICK k \in Places, e \in Entry :
          /\ e.v = v /\ Chosen(k, e)
          /\ watermark.t > e.t \/ (watermark.t = e.t /\ watermark.s >= k)
    BY <1>3 DEF Due
  <2>2. Chosen(k, e)'  BY <2>1 DEF Kept
  <2> QED  BY <2>1, <2>2, <1>3 DEF Due
<1> QED  BY <1>1, <1>2, <1>3

\* After a step, a member at or past the watermark has what is due.
LEMMA PastIsSure ==
  ASSUME LogsTyped', NEW m \in Members, NEW v, Due(v)',
         AtLeast(Position(log'[m]), watermark'),
         watermark'.t \in Nat, watermark'.s \in Nat, watermark'.i = 0
  PROVE  Sure(m, v)'
<1> DEFINE l == log'[m]
<1>1. PICK k \in Places, e \in Entry :
        /\ e.v = v /\ Chosen(k, e)'
        /\ watermark'.t > e.t \/ (watermark'.t = e.t /\ watermark'.s >= k)
  BY DEF Due
<1>2. l \in Seq(Entry)  BY DEF LogsTyped
<1>3. e.t \in Nat /\ e.t > 0 /\ k \in Nat /\ Len(l) \in Nat /\ (l = << >> <=> Len(l) = 0)
  BY <1>2, EntriesFacts, EntryFields DEF Places
<1>4. ~Less(Position(l), watermark')  BY DEF AtLeast
<1>5. l # << >>
  <2> SUFFICES ASSUME l = << >>  PROVE FALSE
    OBVIOUS
  <2>1. Position(l) = [t |-> 0, s |-> 0, i |-> 0]  BY DEF Position, NoProgress
  <2>2. Less(Position(l), watermark')  BY <1>1, <1>3, <2>1 DEF Less
  <2> QED  BY <1>4, <2>2
<1>6. Position(l) = [t |-> l[Len(l)].t, s |-> Len(l), i |-> 0]
  BY <1>5 DEF Position, Last
<1>7. Len(l) \in 1 .. Len(l)  BY <1>3, <1>5
<1>8. l[Len(l)].t \in Nat  BY <1>2, <1>7, EntriesFacts
<1>9. \/ l[Len(l)].t > watermark'.t
      \/ l[Len(l)].t = watermark'.t /\ Len(l) >= watermark'.s
  BY <1>3, <1>4, <1>6, <1>8 DEF Less
<1>10. Reaches(m, k, e)'  BY <1>1, <1>3, <1>7, <1>8, <1>9 DEF Reaches
<1> QED  BY <1>1, <1>10 DEF Chosen, Sure

\* A member that has every write shows exactly them, except what a subject lost.
LEMMA DataFacts ==
  ASSUME LogsTyped, LogsWanted, NEW m \in Members, \A v \in Wanted : Sure(m, v)
  PROVE  /\ Data(m) \subseteq Wanted /\ Wanted \ lost \subseteq Data(m)
         /\ m # Subject => Data(m) = Wanted
<1>1. Wanted \subseteq Writes /\ "noop" \notin Writes  BY DEF Wanted, Writes
<1>2. DOMAIN log[m] = 1 .. Len(log[m]) /\ Len(log[m]) \in Nat  BY LogFacts
<1>3. ASSUME NEW v \in Wanted  PROVE Holds(m, v)
  <2>1. PICK k \in Places, e \in Entry : e.v = v /\ Has(m, k, e)  BY <1>3 DEF Sure
  <2>2. k \in 1 .. Len(log[m]) /\ log[m][k].v = v  BY <2>1, <1>2 DEF Has, Places
  <2> QED  BY <2>2, <1>2 DEF Holds
<1>4. ASSUME NEW v \in Writes, Holds(m, v)  PROVE v \in Wanted
  BY <1>1, <1>2, <1>4 DEF Holds, LogsWanted
<1> QED  BY <1>1, <1>3, <1>4 DEF Data

\* The test goes on to grade only when every write was acknowledged.
LEMMA AllBacked ==
  ASSUME WriteInv, pc \in Late
  PROVE  \A v \in Wanted : Backed(v)
<1>1. Wanted \subseteq acked  BY DEF WriteInv, Wanted, Late
<1> QED  BY <1>1 DEF WriteInv

-----------------------------------------------------------------------------
(* The steps of the set, seen by the case.                                 *)

\* An entry of a write of the case, or none of them.
LEMMA WantedAppend ==
  ASSUME LogsTyped, LogsWanted, NEW m \in Members, NEW x \in Entry,
         x.v \in Wanted \cup {"noop"}, Appends(m, x), UNCHANGED tc
  PROVE  LogsWanted'
<1>1. /\ Len(log'[m]) = Len(log[m]) + 1 /\ Len(log[m]) \in Nat
      /\ log'[m][Len(log[m]) + 1] = x
      /\ \A k \in 1 .. Len(log[m]) : log'[m][k] = log[m][k]
      /\ \A n \in Members : n # m => log'[n] = log[n]
  BY AppendFacts, LogFacts
<1>2. Wanted' = Wanted  BY DEF Wanted
<1> SUFFICES ASSUME NEW n \in Members, NEW k \in 1 .. Len(log'[n])
             PROVE  log'[n][k].v \in Wanted \cup {"noop"}
  BY <1>2 DEF LogsWanted
<1>3. CASE n # m  BY <1>1, <1>3 DEF LogsWanted
<1>4. CASE n = m
  <2>1. k \in 1 .. Len(log[m]) \/ k = Len(log[m]) + 1  BY <1>1, <1>4
  <2> QED  BY <1>1, <1>4, <2>1 DEF LogsWanted
<1> QED  BY <1>3, <1>4

\* A step of the set that keeps what was chosen.
LEMMA SetStepKeeps ==
  ASSUME CaseInv, SetStep, SetInv', Kept, LogsWanted', lost \subseteq lost'
  PROVE  CaseInv'
<1>0. Wanted' = Wanted /\ UNCHANGED <<watermark, asked, pc>>  BY DEF SetStep, Wanted
<1>1. /\ \A v : Backed(v) => Backed(v)'
      /\ \A m \in Members : \A v : Sure(m, v) => Sure(m, v)'
      /\ \A v : Due(v) => Due(v)'
  BY <1>0, KeptWrites
<1>2. WriteInv'  BY <1>0, <1>1 DEF CaseInv, WriteInv, SetStep, CloneGoesOn
<1>3. WaitInv'
  <2>0. (pc \in {"controlRead", "gradeRead"} =>
           asked \in Members /\ \A v \in Wanted : Sure(asked, v))'
    <3> SUFFICES ASSUME pc \in {"controlRead", "gradeRead"}
                 PROVE  (asked \in Members /\ \A v \in Wanted : Sure(asked, v))'
      BY <1>0
    <3>1. PICK m \in Members : m = asked /\ \A v \in Wanted : Sure(m, v)
      BY DEF CaseInv, WaitInv
    <3>2. m = asked' /\ \A v \in Wanted' : Sure(m, v)'  BY <3>1, <1>0, <1>1
    <3> QED  BY <3>2 DEF Sure
  <2> SUFFICES ASSUME pc \in {"controlWait", "gradeWait"}
               PROVE  /\ reached' \subseteq Members
                      /\ watermark.t \in Nat /\ watermark.s \in Nat /\ watermark.i = 0
                      /\ \A v \in Wanted : Due(v)' /\ \A m \in reached' : Sure(m, v)'
    BY <1>0, <2>0 DEF WaitInv, SetStep
  <2>1. /\ reached \subseteq Members
        /\ watermark.t \in Nat /\ watermark.s \in Nat /\ watermark.i = 0
        /\ \A v \in Wanted : Due(v) /\ \A m \in reached : Sure(m, v)
    BY DEF CaseInv, WaitInv
  <2>2. reached' = reached \cup Past(watermark)  BY DEF SetStep, Waits
  <2>3. ASSUME NEW v \in Wanted, NEW m \in Past(watermark)  PROVE Sure(m, v)'
    <3>1. m \in Members /\ AtLeast(Position(log'[m]), watermark')  BY <1>0 DEF Past
    <3>2. Due(v)' /\ LogsTyped'  BY <1>1, <2>1 DEF SetInv
    <3>3. watermark'.t \in Nat /\ watermark'.s \in Nat /\ watermark'.i = 0  BY <1>0, <2>1
    <3> QED  BY <3>1, <3>2, <3>3, PastIsSure
  <2> QED  BY <2>1, <2>2, <2>3, <1>1 DEF Past
<1>4. SureInv'  BY <1>0, <1>1 DEF CaseInv, SureInv, SetStep
<1>5. CaptureInv'  BY <1>0 DEF CaseInv, CaptureInv, SetStep
<1>6. StatusInv'  BY <1>0 DEF CaseInv, StatusInv, SetStep
<1> QED  BY <1>2, <1>3, <1>4, <1>5, <1>6 DEF CaseInv

LEMMA ReplicateKeeps ==
  ASSUME CaseInv, NEW m \in Members, Replicate(m)
  PROVE  CaseInv'
<1>1. PICK p \in Leaders :
        /\ IsStrictPrefix(log[m], log[p])
        /\ Appends(m, log[p][Len(log[m]) + 1])
        /\ lost \subseteq lost'
  BY DEF Replicate, Appends
<1>2. p \in Members /\ role[p] = "PRIMARY" /\ UNCHANGED <<role, term, tc>> /\ SetStep
  BY DEF Replicate, Leaders, Members, SetStep
<1>3. SetInv' /\ Kept  BY <1>1, <1>2, MemberCopies DEF CaseInv
<1>4. LogsTyped /\ LogsWanted  BY DEF CaseInv, SetInv, WriteInv
<1>5. Len(log[m]) \in Nat /\ Len(log[p]) \in Nat /\ Len(log[m]) < Len(log[p])
  BY <1>1, <1>2, <1>4, LogFacts, PrefixFacts
<1>6. Len(log[m]) + 1 \in 1 .. Len(log[p])  BY <1>5
<1>7. log[p][Len(log[m]) + 1] \in Entry /\ log[p][Len(log[m]) + 1].v \in Wanted \cup {"noop"}
  BY <1>2, <1>4, <1>6, LogFacts DEF LogsWanted
<1>8. LogsWanted'  BY <1>1, <1>2, <1>4, <1>7, WantedAppend
<1> QED  BY <1>1, <1>2, <1>3, <1>8, SetStepKeeps

LEMMA RollBackKeeps ==
  ASSUME CaseInv, NEW m \in Members, RollBack(m)
  PROVE  CaseInv'
<1>1. PICK p \in Leaders : m # p /\ ~IsPrefix(log[m], log[p]) /\ Drops(m)
  BY DEF RollBack, Drops
<1>2. p \in Members /\ role[p] = "PRIMARY" /\ UNCHANGED <<role, term, tc, lost>> /\ SetStep
  BY DEF RollBack, Leaders, Members, SetStep
<1>3. SetInv' /\ Kept  BY <1>1, <1>2, MemberRollsBack DEF CaseInv
<1>4. LogsTyped /\ LogsWanted  BY DEF CaseInv, SetInv, WriteInv
<1>5. LogsWanted'
  <2>1. Wanted' = Wanted  BY <1>2 DEF Wanted
  <2>2. /\ Len(log'[m]) = Len(log[m]) - 1 /\ Len(log[m]) \in Nat
        /\ \A k \in 1 .. Len(log[m]) - 1 : log'[m][k] = log[m][k]
        /\ \A n \in Members : n # m => log'[n] = log[n]
    BY <1>1, <1>4, DropFacts, LogFacts
  <2> SUFFICES ASSUME NEW n \in Members, NEW k \in 1 .. Len(log'[n])
               PROVE  log'[n][k].v \in Wanted \cup {"noop"}
    BY <2>1 DEF LogsWanted
  <2>3. CASE n # m  BY <1>4, <2>2, <2>3 DEF LogsWanted
  <2>4. CASE n = m
    <3>1. k \in 1 .. Len(log[m]) - 1 /\ k \in 1 .. Len(log[m])  BY <2>2, <2>4
    <3> QED  BY <1>4, <2>2, <2>4, <3>1 DEF LogsWanted
  <2> QED  BY <2>3, <2>4
<1> QED  BY <1>2, <1>3, <1>5, SetStepKeeps

LEMMA ElectKeeps ==
  ASSUME CaseInv, NEW m \in Stock, Elect(m)
  PROVE  CaseInv'
<1>1. Elects(m) /\ UNCHANGED <<tc, lost>> /\ SetStep
  BY DEF Elect, Elects, Appends, SetStep
<1>2. SetInv' /\ Kept  BY <1>1, MemberElected DEF CaseInv
<1>3. LogsTyped /\ LogsWanted /\ m \in Members  BY DEF CaseInv, SetInv, WriteInv, Members
<1>4. [t |-> term + 1, v |-> "noop"] \in Entry
  BY <1>1, <1>3, ReplicaCaseAssumption DEF Elects, LogsTyped, Entry
<1>5. LogsWanted'  BY <1>1, <1>3, <1>4, WantedAppend DEF Elects
<1> QED  BY <1>1, <1>2, <1>5, SetStepKeeps

LEMMA RoleStepsKeep ==
  ASSUME CaseInv, NEW m \in Members, Synced \/ Ready(m) \/ Busy(m)
  PROVE  CaseInv'
<1>1. SetStep /\ UNCHANGED <<log, term, tc, lost>>  BY DEF Synced, Ready, Busy, SetStep
<1>2. RolesTyped'
  BY ReplicaCaseAssumption
     DEF CaseInv, SetInv, RolesTyped, Roles, Synced, Ready, Busy, Members
<1>3. \A p \in Members : role'[p] = "PRIMARY" => role[p] = "PRIMARY"
  BY DEF CaseInv, SetInv, RolesTyped, Synced, Ready, Busy
<1>4. SetInv' /\ Kept  BY <1>1, <1>2, <1>3, RolesChange DEF CaseInv
<1>5. LogsWanted'  BY <1>1 DEF CaseInv, WriteInv, LogsWanted, Wanted
<1> QED  BY <1>1, <1>4, <1>5, SetStepKeeps

-----------------------------------------------------------------------------
(* The steps of the test.                                                  *)

\* Steps that leave the set alone.
LEMMA SetRests ==
  ASSUME CaseInv, UNCHANGED <<setVars, tc>>
  PROVE  /\ SetInv' /\ LogsWanted' /\ Wanted' = Wanted
         /\ \A v : Backed(v) => Backed(v)'
         /\ \A m \in Members : \A v : Sure(m, v) => Sure(m, v)'
         /\ UNCHANGED watermark => \A v : Due(v) => Due(v)'
<1>1. UNCHANGED <<log, role, term>>  BY DEF setVars
<1>2. SetInv' /\ Kept
  BY <1>1, RolesChange DEF CaseInv, SetInv, RolesTyped
<1>3. LogsWanted' /\ Wanted' = Wanted  BY <1>1 DEF CaseInv, WriteInv, LogsWanted, Wanted
<1> QED  BY <1>2, <1>3, KeptWrites

\* t.Fatalf, from any place before the grade.
LEMMA FatalKeeps ==
  ASSUME CaseInv, pc \notin {"finish", "done"}, NEW r, Fatal(r), r # Unset,
         r = "mismatch" => lost # {},
         UNCHANGED <<setVars, tc, primary, captured, acked>>,
         clone' = clone \/ (clone' = "ok" /\ ~tc.clone)
  PROVE  CaseInv'
<1>1. SetInv' /\ LogsWanted' /\ Wanted' = Wanted /\ \A v : Backed(v) => Backed(v)'
  BY SetRests
<1>2. WriteInv'  BY <1>1 DEF CaseInv, WriteInv, Fatal, CloneGoesOn, Late
<1>3. WaitInv' /\ SureInv'  BY DEF WaitInv, SureInv, Fatal
<1>4. CaptureInv'  BY <1>1 DEF CaseInv, CaptureInv, Fatal, Graded, setVars
<1>5. StatusInv'  BY <1>1 DEF CaseInv, StatusInv, Fatal
<1> QED  BY <1>1, <1>2, <1>3, <1>4, <1>5 DEF CaseInv

\* A write of the test, on the way.
LEMMA WriteKeeps ==
  ASSUME CaseInv, NEW m \in Members, NEW v \in Wanted, WriteTo(m, v), UNCHANGED tc
  PROVE  /\ SetInv' /\ LogsWanted' /\ Wanted' = Wanted
         /\ \A w : Backed(w) => Backed(w)'
         /\ \A n \in Members : \A w : Sure(n, w) => Sure(n, w)'
         /\ UNCHANGED watermark => \A w : Due(w) => Due(w)'
<1> DEFINE x == [t |-> term, v |-> v]
<1>1. role[m] = "PRIMARY" /\ Appends(m, x) /\ UNCHANGED <<role, term>>
  BY DEF WriteTo, Appends
<1>2. x \in Entry /\ x.t = term /\ x.v = v
  BY DEF CaseInv, SetInv, LogsTyped, Entry, Wanted, Writes
<1>3. SetInv' /\ Kept  BY <1>1, <1>2, PrimaryAppends DEF CaseInv
<1>4. LogsTyped /\ LogsWanted  BY DEF CaseInv, SetInv, WriteInv
<1>5. LogsWanted'  BY <1>1, <1>2, <1>4, WantedAppend
<1> QED  BY <1>3, <1>5, KeptWrites DEF Wanted

\* rs.Primary and SeedBeforeJoin.
LEMMA SeedKeeps == CaseInv /\ Seed => CaseInv'
<1> SUFFICES ASSUME CaseInv, Seed  PROVE CaseInv'
  OBVIOUS
<1>0. pc = "seed" /\ UNCHANGED <<tc, reference, waitVars, clone, captured, acked>>
  BY DEF Seed
<1>1. CASE Fatal("harness") /\ UNCHANGED <<primary, setVars>>
  BY <1>0, <1>1, FatalKeeps DEF Unset
<1>2. ASSUME SomeIn({"PRIMARY"}), primary' = FirstIn({"PRIMARY"})
      PROVE  primary' \in Stock /\ primary' \in Members
  BY <1>2, FirstInFacts, PrimaryIsStock DEF CaseInv, SetInv
<1>3. CASE /\ SomeIn({"PRIMARY"}) /\ primary' = FirstIn({"PRIMARY"})
           /\ tc.seed /\ WriteTo(primary', "seed") /\ Go("seedAck")
  <2>1. "seed" \in Wanted  BY <1>3 DEF Wanted
  <2>2. PICK m \in Members : m = primary' /\ WriteTo(m, "seed")  BY <1>2, <1>3
  <2>3. SetInv' /\ LogsWanted' /\ Wanted' = Wanted /\ \A v : Backed(v) => Backed(v)'
    BY <1>0, <2>1, <2>2, WriteKeeps
  <2>4. WriteInv'
    BY <1>0, <1>2, <1>3, <2>3 DEF CaseInv, WriteInv, Go, CloneGoesOn, Late
  <2>5. WaitInv' /\ SureInv'  BY <1>3 DEF WaitInv, SureInv, Go
  <2>6. CaptureInv'  BY <1>0, <1>3, <2>3 DEF CaseInv, CaptureInv, Go, Graded, WriteTo
  <2>7. StatusInv'  BY <1>0, <1>3, <2>3 DEF CaseInv, StatusInv, Go
  <2> QED  BY <2>3, <2>4, <2>5, <2>6, <2>7 DEF CaseInv
<1>4. CASE /\ SomeIn({"PRIMARY"}) /\ primary' = FirstIn({"PRIMARY"})
           /\ ~tc.seed /\ Go("join") /\ UNCHANGED setVars
  <2>3. SetInv' /\ LogsWanted' /\ Wanted' = Wanted /\ \A v : Backed(v) => Backed(v)'
    BY <1>0, <1>4, SetRests
  <2>4. WriteInv'
    BY <1>0, <1>2, <1>4, <2>3 DEF CaseInv, WriteInv, Go, CloneGoesOn, Late
  <2>5. WaitInv' /\ SureInv'  BY <1>4 DEF WaitInv, SureInv, Go
  <2>6. CaptureInv'  BY <1>0, <1>4, <2>3 DEF CaseInv, CaptureInv, Go, Graded, setVars
  <2>7. StatusInv'  BY <1>0, <1>4, <2>3 DEF CaseInv, StatusInv, Go
  <2> QED  BY <2>3, <2>4, <2>5, <2>6, <2>7 DEF CaseInv
<1> QED  BY <1>1, <1>3, <1>4 DEF Seed

\* The replies to the seed and to the workload.
LEMMA AcknowledgeKeeps ==
  ASSUME CaseInv, NEW v, NEW here, NEW next, Acknowledge(v, here, next),
         \/ v = "seed" /\ here = "seedAck" /\ next = "seedMark"
         \/ v = "load" /\ here = "loadAck" /\ next = "cloneDone"
  PROVE  CaseInv'
<1>0. pc = here /\ UNCHANGED <<setVars, tc, primary, reference, waitVars, clone, captured>>
  BY DEF Acknowledge
<1>1. CASE Fatal("harness") /\ UNCHANGED acked
  BY <1>0, <1>1, FatalKeeps DEF Unset
<1>2. CASE /\ role[primary] = "PRIMARY" /\ Committed(v) /\ acked' = acked \cup {v}
           /\ Go(next)
  <2>1. primary \in Stock /\ v \in Writes /\ v \in Wanted
    BY <1>0 DEF CaseInv, WriteInv, Writes, Wanted
  <2>2. Backed(v)  BY <1>2, <2>1, CommittedIsBacked DEF CaseInv
  <2>3. SetInv' /\ LogsWanted' /\ Wanted' = Wanted /\ \A w : Backed(w) => Backed(w)'
    BY <1>0, SetRests
  <2>4. WriteInv'
    <3>1. acked' \subseteq Wanted' /\ \A w \in acked' : Backed(w)'
      BY <1>2, <2>1, <2>2, <2>3 DEF CaseInv, WriteInv
    <3> QED  BY <1>0, <1>2, <2>3, <3>1 DEF CaseInv, WriteInv, Go, CloneGoesOn, Late
  <2>5. WaitInv' /\ SureInv'  BY <1>2 DEF WaitInv, SureInv, Go
  <2>6. CaptureInv'  BY <1>0, <1>2, <2>3 DEF CaseInv, CaptureInv, Go, Graded, setVars
  <2>7. StatusInv'  BY <1>0, <1>2, <2>3 DEF CaseInv, StatusInv, Go
  <2> QED  BY <2>3, <2>4, <2>5, <2>6, <2>7 DEF CaseInv
<1> QED  BY <1>1, <1>2 DEF Acknowledge

\* A wait begins: what the member that was primary has is due, and who is past
\* it has it.
LEMMA WaitBegins ==
  ASSUME CaseInv, pc \in {"controlRead", "gradeRead"}, watermark' = Position(log[asked]),
         UNCHANGED <<setVars, tc>>, reached' = Past(watermark')
  PROVE  /\ reached' \subseteq Members
         /\ watermark'.t \in Nat /\ watermark'.s \in Nat /\ watermark'.i = 0
         /\ \A v \in Wanted : Due(v)' /\ \A m \in reached' : Sure(m, v)'
<1>1. LogsTyped' /\ UNCHANGED <<log, role, term>>
  BY DEF CaseInv, SetInv, LogsTyped, setVars
<1>2. Kept  BY <1>1, RolesChange DEF CaseInv, SetInv, RolesTyped
<1>3. "load" \in Wanted  BY DEF Wanted
<1>4. asked \in Members /\ \A v \in Wanted : Sure(asked, v)  BY DEF CaseInv, WaitInv
<1>5. watermark'.t \in Nat /\ watermark'.s \in Nat /\ watermark'.i = 0
  BY <1>3, <1>4, SureIsDue DEF CaseInv
<1>6. ASSUME NEW v \in Wanted  PROVE Due(v)'
  <2>1. PICK k \in Places, e \in Entry :
          /\ e.v = v /\ Chosen(k, e)
          /\ watermark'.t > e.t \/ (watermark'.t = e.t /\ watermark'.s >= k)
    BY <1>4, SureIsDue DEF CaseInv
  <2>2. Chosen(k, e)'  BY <1>2, <2>1 DEF Kept
  <2> QED  BY <2>1, <2>2 DEF Due
<1>7. ASSUME NEW v \in Wanted, NEW m \in reached'  PROVE Sure(m, v)'
  <2>1. m \in Members /\ AtLeast(Position(log'[m]), watermark')  BY DEF Past
  <2> QED  BY <2>1, <1>1, <1>5, <1>6, PastIsSure
<1> QED  BY <1>5, <1>6, <1>7 DEF Past

\* A grade: a pass needs a comparison that found no difference.
LEMMA GradeKeeps ==
  ASSUME CaseInv, pc \in Graded, NEW failed \in BOOLEAN, Grade(failed),
         failed = FALSE => captured["subject"] = captured["reference"],
         UNCHANGED <<setVars, tc, primary, clone, captured, acked>>
  PROVE  CaseInv'
<1>0. CASE tc.support = "Deviates"
  <2>1. Fatal("harness") /\ pc \notin {"finish", "done"}  BY <1>0 DEF Grade, Graded
  <2> QED  BY <2>1, FatalKeeps DEF Unset
<1> SUFFICES ASSUME tc.support # "Deviates"  PROVE CaseInv'
  BY <1>0
<1>1. SetInv' /\ LogsWanted' /\ Wanted' = Wanted /\ \A v : Backed(v) => Backed(v)'
  BY SetRests
<1>2. pc' = "finish" /\ fatal' = fatal  BY DEF Grade
<1>3. WriteInv'  BY <1>1, <1>2 DEF CaseInv, WriteInv, CloneGoesOn, Late, Graded
<1>4. WaitInv' /\ SureInv'  BY <1>2 DEF WaitInv, SureInv
<1>5. CaptureInv'  BY <1>1, <1>2 DEF CaseInv, CaptureInv, Graded, setVars
<1>6. StatusInv'
  <2>1. status' \in {"PASS", "FAIL", "XPASS", "XFAIL"} /\ (status' = "PASS" => failed = FALSE)
    <3>1. CASE failed = TRUE  BY <3>1 DEF Grade
    <3>2. CASE failed = FALSE  BY <3>2 DEF Grade
    <3> QED  BY <3>1, <3>2
  <2>2. status' \in {"FAIL", "XPASS"} => errored' = TRUE
    <3>1. errored' = (errored \/ status' \in {"FAIL", "XPASS"})  BY DEF Grade
    <3> QED  BY <3>1
  <2>3. fatal = Unset  BY DEF CaseInv, StatusInv, Graded
  <2>4. captured["reference"] = Wanted  BY DEF CaseInv, CaptureInv
  <2> QED  BY <1>1, <1>2, <2>1, <2>2, <2>3, <2>4 DEF StatusInv, Unset
<1> QED  BY <1>1, <1>3, <1>4, <1>5, <1>6 DEF CaseInv

\* A WaitConverged fails: the test ends or the grade is a failed one.
WaitPlaces == {"seedMark", "seedRead", "seedWait", "controlMark", "controlRead", "controlWait",
               "gradeMark", "gradeRead", "gradeWait"}

LEMMA WaitFailsKeeps ==
  ASSUME CaseInv, WaitFails, UNCHANGED <<setVars, tc, primary, clone, captured, acked>>
  PROVE  CaseInv'
<1>1. CASE pc \in WaitPlaces /\ \E r \in {"harness", "not converged"} : Fatal(r)
  BY <1>1, FatalKeeps DEF Unset, WaitPlaces
<1>2. CASE pc \in Graded /\ Grade(TRUE)
  BY <1>2, GradeKeeps
<1> QED  BY <1>1, <1>2 DEF WaitFails, WaitPlaces, Graded

\* Watermark: the member that is primary is found, and then asked.
LEMMA FindPrimaryKeeps ==
  ASSUME CaseInv, SeedMark \/ ControlMark \/ GradeMark
  PROVE  CaseInv'
<1>0. /\ pc \in {"seedMark", "controlMark", "gradeMark"}
      /\ UNCHANGED <<setVars, tc, primary, reference, clone, captured, acked>>
  BY DEF SeedMark, ControlMark, GradeMark, FindPrimary
<1>1. CASE WaitFails
  BY <1>0, <1>1, WaitFailsKeeps
<1>2. ASSUME SomeIn({"PRIMARY"}), asked' = FirstIn({"PRIMARY"}), NEW there, Go(there),
             \/ pc = "seedMark" /\ there = "seedRead"
             \/ pc = "controlMark" /\ there = "controlRead"
             \/ pc = "gradeMark" /\ there = "gradeRead"
      PROVE  CaseInv'
  <2>1. SetInv' /\ LogsWanted' /\ Wanted' = Wanted /\ \A v : Backed(v) => Backed(v)'
    BY <1>0, SetRests
  <2>2. PICK p \in Members : p = FirstIn({"PRIMARY"}) /\ role[p] = "PRIMARY"
    BY <1>2, FirstInFacts DEF CaseInv, SetInv
  <2>3. WriteInv'  BY <1>0, <1>2, <2>1 DEF CaseInv, WriteInv, Go, CloneGoesOn, Late
  <2>4. WaitInv'
    <3>1. CASE pc = "seedMark"  BY <1>2, <3>1 DEF WaitInv, Go
    <3>2. CASE pc \in Late
      <4>1. \A v \in Wanted : Sure(p, v)
        BY <2>2, <3>2, AllBacked, PrimaryIsSure DEF CaseInv
      <4>2. \A v \in Wanted : Sure(p, v)'  BY <4>1, <1>0, SetRests
      <4>3. asked' = p /\ pc' = there  BY <1>2, <2>2 DEF Go
      <4>4. asked' \in Members /\ \A v \in Wanted' : Sure(p, v)'  BY <2>1, <2>2, <4>2, <4>3
      <4>5. (\A v \in Wanted : Sure(asked, v))'  BY <4>3, <4>4 DEF Sure
      <4> QED  BY <4>3, <4>4, <4>5, <1>2, <3>2 DEF WaitInv
    <3> QED  BY <3>1, <3>2, <1>0 DEF Late
  <2>5. SureInv'  BY <1>2 DEF SureInv, Go
  <2>6. CaptureInv'  BY <1>0, <1>2, <2>1 DEF CaseInv, CaptureInv, Go, Graded, setVars
  <2>7. StatusInv'  BY <1>0, <1>2, <2>1 DEF CaseInv, StatusInv, Go
  <2> QED  BY <2>1, <2>3, <2>4, <2>5, <2>6, <2>7 DEF CaseInv
<1> QED  BY <1>1, <1>2 DEF SeedMark, ControlMark, GradeMark, FindPrimary

LEMMA ReadWatermarkKeeps ==
  ASSUME CaseInv, SeedWait \/ ControlWait \/ GradeWait
  PROVE  CaseInv'
<1>0. /\ pc \in {"seedRead", "controlRead", "gradeRead"}
      /\ UNCHANGED <<setVars, tc, primary, reference, clone, captured, acked>>
  BY DEF SeedWait, ControlWait, GradeWait, ReadWatermark
<1>1. CASE WaitFails
  BY <1>0, <1>1, WaitFailsKeeps
<1>2. ASSUME watermark' = Position(log[asked]), reached' = Past(watermark'), NEW there, Go(there),
             \/ pc = "seedRead" /\ there = "seedWait"
             \/ pc = "controlRead" /\ there = "controlWait"
             \/ pc = "gradeRead" /\ there = "gradeWait"
      PROVE  CaseInv'
  <2>1. SetInv' /\ LogsWanted' /\ Wanted' = Wanted /\ \A v : Backed(v) => Backed(v)'
    BY <1>0, SetRests
  <2>2. WriteInv'  BY <1>0, <1>2, <2>1 DEF CaseInv, WriteInv, Go, CloneGoesOn, Late
  <2>3. WaitInv'
    <3>1. CASE pc = "seedRead"  BY <1>2, <3>1 DEF WaitInv, Go
    <3>2. CASE pc \in {"controlRead", "gradeRead"}
      <4>1. pc' = there /\ there \in {"controlWait", "gradeWait"}  BY <1>2, <3>2 DEF Go
      <4> QED  BY <4>1, <1>0, <1>2, <2>1, <3>2, WaitBegins DEF WaitInv
    <3> QED  BY <1>0, <3>1, <3>2
  <2>4. SureInv'  BY <1>2 DEF SureInv, Go
  <2>5. CaptureInv'  BY <1>0, <1>2, <2>1 DEF CaseInv, CaptureInv, Go, Graded, setVars
  <2>6. StatusInv'  BY <1>0, <1>2, <2>1 DEF CaseInv, StatusInv, Go
  <2> QED  BY <2>1, <2>2, <2>3, <2>4, <2>5, <2>6 DEF CaseInv
<1> QED  BY <1>1, <1>2 DEF SeedWait, ControlWait, GradeWait, ReadWatermark

\* The waits end.
LEMMA EndWaitKeeps ==
  ASSUME CaseInv, SeedSettled \/ ControlConverged \/ SubjectConverged
  PROVE  CaseInv'
<1>0. /\ pc \in {"seedWait", "controlWait", "gradeWait"}
      /\ UNCHANGED <<setVars, tc, primary, reference, waitVars, clone, captured, acked>>
  BY DEF SeedSettled, ControlConverged, SubjectConverged, EndWait
<1>1. CASE WaitFails
  BY <1>0, <1>1, WaitFailsKeeps
<1>2. /\ SetInv' /\ LogsWanted' /\ Wanted' = Wanted /\ \A v : Backed(v) => Backed(v)'
  BY <1>0, SetRests
<1>3. \A m \in Members : \A v : Sure(m, v) => Sure(m, v)'
  BY <1>0, SetRests
<1>4. CASE pc = "seedWait" /\ Go("join")
  <2>1. WriteInv'  BY <1>0, <1>2, <1>4 DEF CaseInv, WriteInv, Go, CloneGoesOn, Late
  <2>2. WaitInv' /\ SureInv'  BY <1>4 DEF WaitInv, SureInv, Go
  <2>3. CaptureInv'  BY <1>0, <1>2, <1>4 DEF CaseInv, CaptureInv, Go, Graded, setVars
  <2>4. StatusInv'  BY <1>0, <1>2, <1>4 DEF CaseInv, StatusInv, Go
  <2> QED  BY <1>2, <2>1, <2>2, <2>3, <2>4 DEF CaseInv
<1>5. CASE pc = "controlWait" /\ {primary, reference} \subseteq reached /\ Go("capturePrimary")
  <2>1. WriteInv'  BY <1>0, <1>2, <1>5 DEF CaseInv, WriteInv, Go, CloneGoesOn, Late
  <2>2. WaitInv'  BY <1>5 DEF WaitInv, Go
  <2>3. SureInv'
    <3>1. reached \subseteq Members /\ \A v \in Wanted : \A m \in reached : Sure(m, v)
      BY <1>5 DEF CaseInv, WaitInv
    <3> QED  BY <1>0, <1>2, <1>3, <1>5, <3>1 DEF SureInv, Go
  <2>4. CaptureInv'  BY <1>0, <1>2, <1>5 DEF CaseInv, CaptureInv, Go, Graded, setVars
  <2>5. StatusInv'  BY <1>0, <1>2, <1>5 DEF CaseInv, StatusInv, Go
  <2> QED  BY <1>2, <2>1, <2>2, <2>3, <2>4, <2>5 DEF CaseInv
<1>6. CASE pc = "gradeWait" /\ {Subject} \subseteq reached /\ Go("captureSubject")
  <2>1. WriteInv'  BY <1>0, <1>2, <1>6 DEF CaseInv, WriteInv, Go, CloneGoesOn, Late
  <2>2. WaitInv'  BY <1>6 DEF WaitInv, Go
  <2>3. SureInv'
    <3>1. Subject \in Members /\ \A v \in Wanted : Sure(Subject, v)
      BY <1>6 DEF CaseInv, WaitInv, Members
    <3> QED  BY <1>2, <1>3, <1>6, <3>1 DEF SureInv, Go
  <2>4. CaptureInv'  BY <1>0, <1>2, <1>6 DEF CaseInv, CaptureInv, Go, Graded, setVars
  <2>5. StatusInv'  BY <1>0, <1>2, <1>6 DEF CaseInv, StatusInv, Go
  <2> QED  BY <1>2, <2>1, <2>2, <2>3, <2>4, <2>5 DEF CaseInv
<1> QED  BY <1>1, <1>4, <1>5, <1>6 DEF SeedSettled, ControlConverged, SubjectConverged, EndWait

\* JoinDumboDB.
LEMMA JoinKeeps == CaseInv /\ Join => CaseInv'
<1> SUFFICES ASSUME CaseInv, Join  PROVE CaseInv'
  OBVIOUS
<1>0. /\ pc = "join"
      /\ UNCHANGED <<log, term, lost, tc, primary, reference, waitVars, clone,
                     captured, acked>>
  BY DEF Join
<1>1. CASE Fatal("harness") /\ UNCHANGED role
  BY <1>0, <1>1, FatalKeeps DEF Unset, setVars
<1>2. CASE /\ IF tc.support = "MongoOnly" THEN UNCHANGED role
              ELSE role' = [role EXCEPT ![Subject] = "STARTUP2"]
           /\ Go("lookup")
  <2>1. RolesTyped'
    BY <1>2 DEF CaseInv, SetInv, RolesTyped, Roles, Members
  <2>2. \A p \in Members : role'[p] = "PRIMARY" => role[p] = "PRIMARY"
    BY <1>2 DEF CaseInv, SetInv, RolesTyped
  <2>3. SetInv' /\ Kept  BY <1>0, <2>1, <2>2, RolesChange DEF CaseInv
  <2>4. Wanted' = Wanted /\ LogsWanted' /\ \A v : Backed(v) => Backed(v)'
    BY <1>0, <2>3, KeptWrites DEF CaseInv, WriteInv, LogsWanted, Wanted
  <2>5. WriteInv'  BY <1>0, <1>2, <2>4 DEF CaseInv, WriteInv, Go, CloneGoesOn, Late
  <2>6. WaitInv' /\ SureInv'  BY <1>2 DEF WaitInv, SureInv, Go
  <2>7. CaptureInv'  BY <1>0, <1>2, <2>4 DEF CaseInv, CaptureInv, Go, Graded
  <2>8. StatusInv'  BY <1>0, <1>2, <2>4 DEF CaseInv, StatusInv, Go
  <2> QED  BY <2>3, <2>5, <2>6, <2>7, <2>8 DEF CaseInv
<1> QED  BY <1>1, <1>2 DEF Join

\* The primary of the workload, the clone, its end and the reference: steps that
\* leave the set and the captures alone.
LEMMA LookUpKeeps == CaseInv /\ LookUp => CaseInv'
<1> SUFFICES ASSUME CaseInv, LookUp  PROVE CaseInv'
  OBVIOUS
<1>0. pc = "lookup" /\ UNCHANGED <<setVars, tc, reference, waitVars, clone, captured, acked>>
  BY DEF LookUp
<1>1. CASE Fatal("harness") /\ UNCHANGED primary
  BY <1>0, <1>1, FatalKeeps DEF Unset
<1>2. CASE SomeIn({"PRIMARY"}) /\ primary' = FirstIn({"PRIMARY"}) /\ Go("await")
  <2>1. primary' \in Stock
    BY <1>2, FirstInFacts, PrimaryIsStock DEF CaseInv, SetInv
  <2>2. SetInv' /\ LogsWanted' /\ Wanted' = Wanted /\ \A v : Backed(v) => Backed(v)'
    BY <1>0, SetRests
  <2>3. WriteInv'  BY <1>0, <1>2, <2>1, <2>2 DEF CaseInv, WriteInv, Go, CloneGoesOn, Late
  <2>4. WaitInv' /\ SureInv'  BY <1>2 DEF WaitInv, SureInv, Go
  <2>5. CaptureInv'  BY <1>0, <1>2, <2>2 DEF CaseInv, CaptureInv, Go, Graded, setVars
  <2>6. StatusInv'  BY <1>0, <1>2, <2>2 DEF CaseInv, StatusInv, Go
  <2> QED  BY <2>2, <2>3, <2>4, <2>5, <2>6 DEF CaseInv
<1> QED  BY <1>1, <1>2 DEF LookUp

LEMMA AwaitSubjectKeeps == CaseInv /\ AwaitSubject => CaseInv'
<1> SUFFICES ASSUME CaseInv, AwaitSubject  PROVE CaseInv'
  OBVIOUS
<1>0. /\ pc = "await"
      /\ UNCHANGED <<setVars, tc, primary, reference, waitVars, captured, acked>>
  BY DEF AwaitSubject
<1>1. CASE ~tc.clone /\ clone' = "ok" /\ Fatal("harness")
  BY <1>0, <1>1, FatalKeeps DEF Unset
<1>2. CASE /\ (tc.clone /\ clone' = "writing") \/ (~tc.clone /\ clone' = "ok")
           /\ Go("load")
  <2>1. SetInv' /\ LogsWanted' /\ Wanted' = Wanted /\ \A v : Backed(v) => Backed(v)'
    BY <1>0, SetRests
  <2>2. WriteInv'  BY <1>0, <1>2, <2>1 DEF CaseInv, WriteInv, Go, CloneGoesOn, Late
  <2>3. WaitInv' /\ SureInv'  BY <1>2 DEF WaitInv, SureInv, Go
  <2>4. CaptureInv'  BY <1>0, <1>2, <2>1 DEF CaseInv, CaptureInv, Go, Graded, setVars
  <2>5. StatusInv'  BY <1>0, <1>2, <2>1 DEF CaseInv, StatusInv, Go
  <2> QED  BY <2>1, <2>2, <2>3, <2>4, <2>5 DEF CaseInv
<1> QED  BY <1>1, <1>2 DEF AwaitSubject

LEMMA WorkloadKeeps == CaseInv /\ Workload => CaseInv'
<1> SUFFICES ASSUME CaseInv, Workload  PROVE CaseInv'
  OBVIOUS
<1>0. pc = "load" /\ UNCHANGED <<tc, primary, reference, waitVars, clone, captured, acked>>
  BY DEF Workload
<1>1. CASE Fatal("harness") /\ UNCHANGED setVars
  BY <1>0, <1>1, FatalKeeps DEF Unset
<1>2. CASE WriteTo(primary, "load") /\ Go("loadAck")
  <2>1. primary \in Members /\ "load" \in Wanted
    BY <1>0 DEF CaseInv, WriteInv, Members, Wanted
  <2>2. SetInv' /\ LogsWanted' /\ Wanted' = Wanted /\ \A v : Backed(v) => Backed(v)'
    BY <1>0, <1>2, <2>1, WriteKeeps
  <2>3. WriteInv'  BY <1>0, <1>2, <2>2 DEF CaseInv, WriteInv, Go, CloneGoesOn, Late
  <2>4. WaitInv' /\ SureInv'  BY <1>2 DEF WaitInv, SureInv, Go
  <2>5. CaptureInv'  BY <1>0, <1>2, <2>2 DEF CaseInv, CaptureInv, Go, Graded, WriteTo
  <2>6. StatusInv'  BY <1>0, <1>2, <2>2 DEF CaseInv, StatusInv, Go
  <2> QED  BY <2>2, <2>3, <2>4, <2>5, <2>6 DEF CaseInv
<1> QED  BY <1>1, <1>2 DEF Workload

LEMMA CloneDoneKeeps == CaseInv /\ CloneDone => CaseInv'
<1> SUFFICES ASSUME CaseInv, CloneDone  PROVE CaseInv'
  OBVIOUS
<1>0. /\ pc = "cloneDone"
      /\ UNCHANGED <<setVars, tc, primary, reference, waitVars, clone, captured, acked>>
  BY DEF CloneDone
<1>1. CASE Fatal("harness")
  BY <1>0, <1>1, FatalKeeps DEF Unset
<1>2. CASE clone = "ok" /\ Go("reference")
  <2>1. SetInv' /\ LogsWanted' /\ Wanted' = Wanted /\ \A v : Backed(v) => Backed(v)'
    BY <1>0, SetRests
  <2>2. WriteInv'  BY <1>0, <1>2, <2>1 DEF CaseInv, WriteInv, Go, CloneGoesOn, Late
  <2>3. WaitInv' /\ SureInv'  BY <1>2 DEF WaitInv, SureInv, Go
  <2>4. CaptureInv'  BY <1>0, <1>2, <2>1 DEF CaseInv, CaptureInv, Go, Graded, setVars
  <2>5. StatusInv'  BY <1>0, <1>2, <2>1 DEF CaseInv, StatusInv, Go
  <2> QED  BY <2>1, <2>2, <2>3, <2>4, <2>5 DEF CaseInv
<1> QED  BY <1>1, <1>2 DEF CloneDone

LEMMA PickReferenceKeeps == CaseInv /\ PickReference => CaseInv'
<1> SUFFICES ASSUME CaseInv, PickReference  PROVE CaseInv'
  OBVIOUS
<1>0. pc = "reference" /\ UNCHANGED <<setVars, tc, primary, waitVars, clone, captured, acked>>
  BY DEF PickReference
<1>1. CASE Fatal("harness")
  BY <1>0, <1>1, FatalKeeps DEF Unset
<1>2. CASE Go("controlMark")
  <2>1. SetInv' /\ LogsWanted' /\ Wanted' = Wanted /\ \A v : Backed(v) => Backed(v)'
    BY <1>0, SetRests
  <2>2. WriteInv'  BY <1>0, <1>2, <2>1 DEF CaseInv, WriteInv, Go, CloneGoesOn, Late
  <2>3. WaitInv' /\ SureInv'  BY <1>2 DEF WaitInv, SureInv, Go
  <2>4. CaptureInv'  BY <1>0, <1>2, <2>1 DEF CaseInv, CaptureInv, Go, Graded, setVars
  <2>5. StatusInv'  BY <1>0, <1>2, <2>1 DEF CaseInv, StatusInv, Go
  <2> QED  BY <2>1, <2>2, <2>3, <2>4, <2>5 DEF CaseInv
<1> QED  BY <1>1, <1>2 DEF PickReference

\* A capture of a member that has every write.
LEMMA CaptureFacts ==
  ASSUME CaseInv, NEW m \in Members, NEW which \in Captures, \A v \in Wanted : Sure(m, v),
         captured' = [captured EXCEPT ![which] = Data(m)], UNCHANGED <<setVars, tc>>
  PROVE  /\ DOMAIN captured' = Captures
         /\ \A c \in Captures : c # which => captured'[c] = captured[c]
         /\ captured'[which] \subseteq Wanted /\ Wanted \ lost \subseteq captured'[which]
         /\ captured'[which] # {Unset}
         /\ m # Subject => captured'[which] = Wanted
<1>1. captured'[which] = Data(m)  BY DEF CaseInv, CaptureInv
<1>2. /\ Data(m) \subseteq Wanted /\ Wanted \ lost \subseteq Data(m)
      /\ m # Subject => Data(m) = Wanted
  BY DataFacts DEF CaseInv, SetInv, WriteInv
<1>3. Unset \notin Wanted  BY DEF Unset, Wanted
<1> QED  BY <1>1, <1>2, <1>3 DEF CaseInv, CaptureInv

\* captureOrFail gives up.
LEMMA CaptureFails ==
  ASSUME CaseInv, pc \notin {"finish", "done"}, Fatal("harness"),
         UNCHANGED <<setVars, tc, primary, clone, captured, acked>>
  PROVE  CaseInv'
  BY FatalKeeps DEF Unset

LEMMA CapturePrimaryKeeps == CaseInv /\ CapturePrimary => CaseInv'
<1> SUFFICES ASSUME CaseInv, CapturePrimary, Go("captureReference"),
                    captured' = [captured EXCEPT !["primary"] = Data(primary)]
             PROVE  CaseInv'
  BY CaptureFails DEF CapturePrimary, Capture
<1>0. /\ pc = "capturePrimary" /\ Go("captureReference")
      /\ captured' = [captured EXCEPT !["primary"] = Data(primary)]
      /\ UNCHANGED <<setVars, tc, primary, reference, waitVars, clone, acked>>
  BY DEF CapturePrimary, Capture
<1>1. primary \in Members /\ primary # Subject
  BY <1>0, ReplicaCaseAssumption DEF CaseInv, WriteInv, Members
<1>2. reference \in Members /\ \A v \in Wanted : Sure(primary, v) /\ Sure(reference, v)
  BY <1>0, <1>1 DEF CaseInv, SureInv
<1>3. /\ DOMAIN captured' = Captures
      /\ captured'["reference"] = captured["reference"]
      /\ captured'["subject"] = captured["subject"]
      /\ captured'["primary"] = Wanted /\ captured'["primary"] # {Unset}
  BY <1>0, <1>1, <1>2, CaptureFacts DEF Captures
<1>4. SetInv' /\ LogsWanted' /\ Wanted' = Wanted /\ \A v : Backed(v) => Backed(v)'
  BY <1>0, SetRests
<1>5. \A m \in Members : \A v : Sure(m, v) => Sure(m, v)'
  BY <1>0, SetRests
<1>6. WriteInv'  BY <1>0, <1>4 DEF CaseInv, WriteInv, Go, CloneGoesOn, Late
<1>7. WaitInv'  BY <1>0 DEF WaitInv, Go
<1>8. SureInv'  BY <1>0, <1>2, <1>4, <1>5 DEF SureInv, Go
<1>9. CaptureInv'
  <2>1. lost' = lost /\ fatal' = fatal /\ pc' = "captureReference"  BY <1>0 DEF Go, setVars
  <2>2. \A c \in Captures : captured'[c] # {Unset} =>
           captured'[c] \subseteq Wanted /\ Wanted \ lost \subseteq captured'[c]
    BY <1>3 DEF CaseInv, CaptureInv, Captures
  <2> QED  BY <1>3, <1>4, <2>1, <2>2 DEF CaseInv, CaptureInv, Graded
<1>10. StatusInv'  BY <1>0, <1>3, <1>4 DEF CaseInv, StatusInv, Go
<1> QED  BY <1>4, <1>6, <1>7, <1>8, <1>9, <1>10 DEF CaseInv

LEMMA CaptureReferenceKeeps == CaseInv /\ CaptureReference => CaseInv'
<1> SUFFICES ASSUME CaseInv, CaptureReference, Go("control"),
                    captured' = [captured EXCEPT !["reference"] = Data(reference)]
             PROVE  CaseInv'
  BY CaptureFails DEF CaptureReference, Capture
<1>0. /\ pc = "captureReference" /\ Go("control")
      /\ captured' = [captured EXCEPT !["reference"] = Data(reference)]
      /\ UNCHANGED <<setVars, tc, primary, reference, waitVars, clone, acked>>
  BY DEF CaptureReference, Capture
<1>2. reference \in Members /\ \A v \in Wanted : Sure(reference, v)
  BY <1>0 DEF CaseInv, SureInv
<1>3. /\ DOMAIN captured' = Captures
      /\ captured'["primary"] = captured["primary"]
      /\ captured'["subject"] = captured["subject"]
      /\ captured'["reference"] \subseteq Wanted
      /\ Wanted \ lost \subseteq captured'["reference"]
      /\ captured'["reference"] # {Unset}
  BY <1>0, <1>2, CaptureFacts DEF Captures
<1>4. SetInv' /\ LogsWanted' /\ Wanted' = Wanted /\ \A v : Backed(v) => Backed(v)'
  BY <1>0, SetRests
<1>6. WriteInv'  BY <1>0, <1>4 DEF CaseInv, WriteInv, Go, CloneGoesOn, Late
<1>7. WaitInv' /\ SureInv'  BY <1>0 DEF WaitInv, SureInv, Go
<1>9. CaptureInv'
  <2>1. lost' = lost /\ fatal' = fatal /\ pc' = "control"  BY <1>0 DEF Go, setVars
  <2>2. \A c \in Captures : captured'[c] # {Unset} =>
           captured'[c] \subseteq Wanted /\ Wanted \ lost \subseteq captured'[c]
    BY <1>3 DEF CaseInv, CaptureInv, Captures
  <2>3. captured'["primary"] = Wanted  BY <1>0, <1>3 DEF CaseInv, CaptureInv
  <2> QED  BY <1>3, <1>4, <2>1, <2>2, <2>3 DEF CaseInv, CaptureInv, Graded
<1>10. StatusInv'  BY <1>0, <1>3, <1>4 DEF CaseInv, StatusInv, Go
<1> QED  BY <1>4, <1>6, <1>7, <1>9, <1>10 DEF CaseInv

LEMMA CaptureSubjectKeeps == CaseInv /\ CaptureSubject => CaseInv'
<1> SUFFICES ASSUME CaseInv, CaptureSubject, Go("grade"),
                    captured' = [captured EXCEPT !["subject"] = Data(Subject)]
             PROVE  CaseInv'
  BY CaptureFails DEF CaptureSubject, Capture
<1>0. /\ pc = "captureSubject" /\ Go("grade")
      /\ captured' = [captured EXCEPT !["subject"] = Data(Subject)]
      /\ UNCHANGED <<setVars, tc, primary, reference, waitVars, clone, acked>>
  BY DEF CaptureSubject, Capture
<1>2. Subject \in Members /\ \A v \in Wanted : Sure(Subject, v)
  BY <1>0 DEF CaseInv, SureInv, Members
<1>3. /\ DOMAIN captured' = Captures
      /\ captured'["primary"] = captured["primary"]
      /\ captured'["reference"] = captured["reference"]
      /\ captured'["subject"] \subseteq Wanted
      /\ Wanted \ lost \subseteq captured'["subject"]
      /\ captured'["subject"] # {Unset}
  BY <1>0, <1>2, CaptureFacts DEF Captures
<1>4. SetInv' /\ LogsWanted' /\ Wanted' = Wanted /\ \A v : Backed(v) => Backed(v)'
  BY <1>0, SetRests
<1>6. WriteInv'  BY <1>0, <1>4 DEF CaseInv, WriteInv, Go, CloneGoesOn, Late
<1>7. WaitInv' /\ SureInv'  BY <1>0 DEF WaitInv, SureInv, Go
<1>9. CaptureInv'
  <2>1. lost' = lost /\ fatal' = fatal /\ pc' = "grade"  BY <1>0 DEF Go, setVars
  <2>2. \A c \in Captures : captured'[c] # {Unset} =>
           captured'[c] \subseteq Wanted /\ Wanted \ lost \subseteq captured'[c]
    BY <1>3 DEF CaseInv, CaptureInv, Captures
  <2>3. captured'["reference"] = Wanted /\ Wanted # {Unset}
    BY <1>0, <1>3 DEF CaseInv, CaptureInv, Graded, Wanted, Unset
  <2> QED  BY <1>3, <1>4, <2>1, <2>2, <2>3 DEF CaseInv, CaptureInv, Graded
<1>10. StatusInv'  BY <1>0, <1>3, <1>4 DEF CaseInv, StatusInv, Go, Unset
<1> QED  BY <1>4, <1>6, <1>7, <1>9, <1>10 DEF CaseInv

\* The control: the primary shows every write, so a reference that differs lost one.
LEMMA ControlKeeps == CaseInv /\ Control => CaseInv'
<1> SUFFICES ASSUME CaseInv, Control  PROVE CaseInv'
  OBVIOUS
<1>0. /\ pc = "control"
      /\ UNCHANGED <<setVars, tc, primary, reference, waitVars, clone, captured, acked>>
  BY DEF Control
<1>1. /\ captured["primary"] = Wanted
      /\ captured["reference"] \subseteq Wanted /\ Wanted \ lost \subseteq captured["reference"]
  BY <1>0 DEF CaseInv, CaptureInv, Captures
<1>2. CASE captured["primary"] # captured["reference"] /\ Fatal("mismatch")
  BY <1>0, <1>1, <1>2, FatalKeeps DEF Unset
<1>3. SetInv' /\ LogsWanted' /\ Wanted' = Wanted /\ \A v : Backed(v) => Backed(v)'
  BY <1>0, SetRests
<1>4. CASE /\ captured["primary"] = captured["reference"]
           /\ status' = "SKIP" /\ pc' = "finish" /\ UNCHANGED <<fatal, errored>>
  <2>1. WriteInv'  BY <1>0, <1>3, <1>4 DEF CaseInv, WriteInv, CloneGoesOn, Late
  <2>2. WaitInv' /\ SureInv'  BY <1>4 DEF WaitInv, SureInv
  <2>3. CaptureInv'  BY <1>0, <1>3, <1>4 DEF CaseInv, CaptureInv, Graded, setVars
  <2>4. StatusInv'  BY <1>0, <1>3, <1>4 DEF CaseInv, StatusInv, Unset
  <2> QED  BY <1>3, <2>1, <2>2, <2>3, <2>4 DEF CaseInv
<1>5. CASE captured["primary"] = captured["reference"] /\ Go("stamp")
  <2>1. WriteInv'  BY <1>0, <1>3, <1>5 DEF CaseInv, WriteInv, Go, CloneGoesOn, Late
  <2>2. WaitInv' /\ SureInv'  BY <1>5 DEF WaitInv, SureInv, Go
  <2>3. CaptureInv'  BY <1>0, <1>1, <1>3, <1>5 DEF CaseInv, CaptureInv, Go, Graded, setVars
  <2>4. StatusInv'  BY <1>0, <1>3, <1>5 DEF CaseInv, StatusInv, Go
  <2> QED  BY <1>3, <2>1, <2>2, <2>3, <2>4 DEF CaseInv
<1> QED  BY <1>2, <1>4, <1>5 DEF Control

LEMMA StampKeeps == CaseInv /\ Stamp => CaseInv'
<1> SUFFICES ASSUME CaseInv, Stamp  PROVE CaseInv'
  OBVIOUS
<1>1. SetInv' /\ LogsWanted' /\ Wanted' = Wanted /\ \A v : Backed(v) => Backed(v)'
  BY SetRests DEF Stamp
<1>2. WriteInv'  BY <1>1 DEF CaseInv, WriteInv, Stamp, CloneGoesOn, Late
<1>3. WaitInv' /\ SureInv'  BY DEF WaitInv, SureInv, Stamp
<1>4. CaptureInv'  BY <1>1 DEF CaseInv, CaptureInv, Stamp, Graded, setVars
<1>5. StatusInv'  BY <1>1 DEF CaseInv, StatusInv, Stamp
<1> QED  BY <1>1, <1>2, <1>3, <1>4, <1>5 DEF CaseInv

LEMMA GradeSubjectKeeps == CaseInv /\ GradeSubject => CaseInv'
<1> SUFFICES ASSUME CaseInv, GradeSubject  PROVE CaseInv'
  OBVIOUS
<1> DEFINE failed == captured["subject"] # captured["reference"]
<1>1. /\ pc \in Graded /\ failed \in BOOLEAN /\ Grade(failed)
      /\ failed = FALSE => captured["subject"] = captured["reference"]
      /\ UNCHANGED <<setVars, tc, primary, clone, captured, acked>>
  BY DEF GradeSubject, Graded
<1> QED  BY <1>1, GradeKeeps

LEMMA FinishKeeps == CaseInv /\ Finish => CaseInv'
<1> SUFFICES ASSUME CaseInv, Finish  PROVE CaseInv'
  OBVIOUS
<1>1. SetInv' /\ LogsWanted' /\ Wanted' = Wanted /\ \A v : Backed(v) => Backed(v)'
  BY SetRests DEF Finish
<1>2. WriteInv'  BY <1>1 DEF CaseInv, WriteInv, Finish, CloneGoesOn, Late
<1>3. WaitInv' /\ SureInv'  BY DEF WaitInv, SureInv, Finish
<1>4. CaptureInv'  BY <1>1 DEF CaseInv, CaptureInv, Finish, Graded, setVars
<1>5. StatusInv'
  <2>1. pc' = "done" /\ fatal' = Unset /\ status' # Unset /\ UNCHANGED <<tc, captured>>
    BY DEF CaseInv, StatusInv, Finish, Unset
  <2>2. tc.panics => status' = "FAIL"  BY DEF Finish
  <2>3. ~tc.panics => status' = status  BY DEF Finish
  <2>4. errored' = (errored \/ tc.panics)  BY DEF Finish
  <2>5. status' \in {"FAIL", "XPASS"} => errored' = TRUE
    <3>1. CASE tc.panics  BY <2>4, <3>1
    <3>2. CASE ~tc.panics /\ status \in {"FAIL", "XPASS"}
      <4>1. errored = TRUE  BY <3>2 DEF CaseInv, StatusInv
      <4> QED  BY <2>4, <4>1
    <3> QED  BY <2>3, <3>1, <3>2
  <2>6. status' = "PASS" => captured["subject"] = Wanted
    BY <2>2, <2>3 DEF CaseInv, StatusInv
  <2> QED  BY <1>1, <2>1, <2>2, <2>5, <2>6 DEF StatusInv
<1> QED  BY <1>1, <1>2, <1>3, <1>4, <1>5 DEF CaseInv

\* The goroutine of DuringClone, next to the test and after its end.
LEMMA CloneWriteKeeps == CaseInv /\ CloneWrite => CaseInv'
<1> SUFFICES ASSUME CaseInv, CloneWrite  PROVE CaseInv'
  OBVIOUS
<1>0. /\ clone = "writing" /\ clone' \in {"waiting", "error"}
      /\ UNCHANGED <<tc, pc, primary, reference, waitVars, captured, status, fatal,
                     errored, acked>>
  BY DEF CloneWrite
<1>1. primary \in Stock /\ primary \in Members /\ tc.clone /\ "clone" \in Wanted /\ pc \notin Late
  BY <1>0 DEF CaseInv, WriteInv, CloneGoesOn, Members, Wanted
<1>2. SetInv' /\ LogsWanted' /\ Wanted' = Wanted /\ (\A v : Backed(v) => Backed(v)')
      /\ UNCHANGED lost
  <2>1. CASE WriteTo(primary, "clone")
    <3>1. lost' = lost  BY <2>1 DEF WriteTo
    <3> QED  BY <1>0, <1>1, <2>1, <3>1, WriteKeeps
  <2>2. CASE UNCHANGED setVars
    <3>1. lost' = lost  BY <2>2 DEF setVars
    <3> QED  BY <1>0, <2>2, <3>1, SetRests
  <2> QED  BY <2>1, <2>2 DEF CloneWrite
<1>3. WriteInv'  BY <1>0, <1>1, <1>2 DEF CaseInv, WriteInv, CloneGoesOn
<1>4. WaitInv' /\ SureInv'  BY <1>0, <1>1 DEF WaitInv, SureInv, Late
<1>5. CaptureInv'  BY <1>0, <1>2 DEF CaseInv, CaptureInv
<1>6. StatusInv'  BY <1>0, <1>2 DEF CaseInv, StatusInv
<1> QED  BY <1>2, <1>3, <1>4, <1>5, <1>6 DEF CaseInv

LEMMA CloneReplyKeeps == CaseInv /\ CloneReply => CaseInv'
<1> SUFFICES ASSUME CaseInv, CloneReply  PROVE CaseInv'
  OBVIOUS
<1>0. /\ clone = "waiting" /\ clone' \in {"ok", "error"}
      /\ UNCHANGED <<setVars, tc, pc, primary, reference, waitVars, captured, status,
                     fatal, errored>>
  BY DEF CloneReply
<1>1. primary \in Stock /\ tc.clone /\ "clone" \in Wanted /\ "clone" \in Writes /\ pc \notin Late
  BY <1>0 DEF CaseInv, WriteInv, CloneGoesOn, Wanted, Writes
<1>2. SetInv' /\ LogsWanted' /\ Wanted' = Wanted /\ (\A v : Backed(v) => Backed(v)')
  BY <1>0, SetRests
<1>3. /\ acked \subseteq acked' /\ acked' \subseteq Wanted /\ \A v \in acked' : Backed(v)
      /\ clone' = "ok" => "clone" \in acked'
  <2>1. CASE /\ role[primary] = "PRIMARY" /\ Committed("clone")
             /\ clone' = "ok" /\ acked' = acked \cup {"clone"}
    <3>1. Backed("clone")  BY <1>1, <2>1, CommittedIsBacked DEF CaseInv
    <3> QED  BY <1>1, <2>1, <3>1 DEF CaseInv, WriteInv
  <2>2. CASE clone' = "error" /\ UNCHANGED acked
    BY <2>2 DEF CaseInv, WriteInv
  <2> QED  BY <2>1, <2>2 DEF CloneReply
<1>4. WriteInv'  BY <1>0, <1>1, <1>2, <1>3 DEF CaseInv, WriteInv, CloneGoesOn
<1>5. WaitInv' /\ SureInv'  BY <1>0, <1>1 DEF WaitInv, SureInv, Late
<1>6. CaptureInv'  BY <1>0, <1>2 DEF CaseInv, CaptureInv, setVars
<1>7. StatusInv'  BY <1>0, <1>2 DEF CaseInv, StatusInv
<1> QED  BY <1>2, <1>4, <1>5, <1>6, <1>7 DEF CaseInv

-----------------------------------------------------------------------------
(* The whole case.                                                         *)

LEMMA CaseStarts == Init => CaseInv
<1> SUFFICES ASSUME Init  PROVE CaseInv
  OBVIOUS
<1> DEFINE first == [t |-> 1, v |-> "noop"]
<1>1. first \in Entry /\ first.t = 1 /\ first.v = "noop"
  BY ReplicaCaseAssumption DEF Entry
<1>2. <<first>> \in Seq(Entry) /\ Len(<<first>>) = 1 /\ <<first>>[1] = first /\ << >> \in Seq(Entry)
      /\ Len(<< >>) = 0
  BY <1>1
<1>3. /\ \A m \in Members : log[m] = IF m = Subject THEN << >> ELSE <<first>>
      /\ DOMAIN log = Members /\ log \in [Members -> Seq(Entry)]
  BY <1>2 DEF Init
<1>4. \A m \in Members :
        /\ Len(log[m]) = (IF m = Subject THEN 0 ELSE 1)
        /\ \A k \in 1 .. Len(log[m]) : k = 1 /\ m # Subject /\ log[m][k] = first
        /\ \A k \in Nat \ {0} : k <= Len(log[m]) => k = 1 /\ m # Subject
  <2> SUFFICES ASSUME NEW m \in Members
               PROVE  /\ Len(log[m]) = (IF m = Subject THEN 0 ELSE 1)
                      /\ \A k \in 1 .. Len(log[m]) : k = 1 /\ m # Subject /\ log[m][k] = first
                      /\ \A k \in Nat \ {0} : k <= Len(log[m]) => k = 1 /\ m # Subject
    OBVIOUS
  <2>1. CASE m = Subject
    <3>1. Len(log[m]) = 0  BY <1>2, <1>3, <2>1
    <3> QED  BY <2>1, <3>1
  <2>2. CASE m # Subject
    <3>1. Len(log[m]) = 1 /\ log[m][1] = first  BY <1>2, <1>3, <2>2
    <3> QED  BY <2>2, <3>1
  <2> QED  BY <2>1, <2>2
<1>5. LogsTyped  BY <1>3, ReplicaCaseAssumption DEF LogsTyped, Init
<1>6. Mongods[1] \in Stock /\ Subject \notin Stock /\ Mongods[1] \in Members /\ Subject \in Members
  <2>1. 1 \in DOMAIN Mongods  BY ReplicaCaseAssumption
  <2> QED  BY <2>1, ReplicaCaseAssumption DEF Stock, Range, Members
<1>7. RolesTyped  BY <1>6 DEF RolesTyped, Roles, Init
<1>8. Ordered  BY <1>1, <1>4 DEF Ordered, Init
<1>9. Matched
  <2> SUFFICES ASSUME NEW m \in Members, NEW n \in Members, NEW k \in Nat \ {0},
                      k <= Len(log[m]), k <= Len(log[n]), NEW j \in 1 .. k
               PROVE  log[m][j] = log[n][j]
    BY DEF Matched
  <2>1. k = 1 /\ m # Subject /\ n # Subject  BY <1>4
  <2> QED  BY <2>1, <1>3
<1>10. Led
  <2> SUFFICES ASSUME NEW p \in Members, role[p] = "PRIMARY"
               PROVE  /\ Len(log[p]) > 0 /\ log[p][Len(log[p])].t = term
                      /\ \A m \in Members : role[m] = "PRIMARY" => m = p
                      /\ \A m \in Members : \A k \in 1 .. Len(log[m]) :
                           log[m][k].t = term => k <= Len(log[p]) /\ log[p][k].t = term
    BY DEF Led
  <2>1. \A m \in Members : role[m] = "PRIMARY" => m = Mongods[1]
    BY DEF Init
  <2>2. p = Mongods[1] /\ p # Subject  BY <2>1, <1>6
  <2>3. Len(log[p]) = 1 /\ log[p][1] = first /\ term = 1
    BY <1>2, <1>3, <2>2 DEF Init
  <2> QED  BY <1>1, <1>4, <2>1, <2>2, <2>3
<1>11. WriteInv
  <2>1. LogsWanted  BY <1>1, <1>4 DEF LogsWanted
  <2> QED  BY <2>1 DEF Init, WriteInv, CloneGoesOn, Late
<1>12. WaitInv /\ SureInv  BY DEF Init, WaitInv, SureInv
<1>13. CaptureInv  BY DEF Init, CaptureInv, Graded, Captures, Unset
<1>14. StatusInv  BY DEF Init, StatusInv, Unset
<1> QED  BY <1>5, <1>7, <1>8, <1>9, <1>10, <1>11, <1>12, <1>13, <1>14 DEF CaseInv, SetInv

LEMMA CaseRests == CaseInv /\ UNCHANGED vars => CaseInv'
<1> SUFFICES ASSUME CaseInv, UNCHANGED vars  PROVE CaseInv'
  OBVIOUS
<1>0. UNCHANGED <<setVars, tc, pc, primary, reference, waitVars, clone, captured, status,
                  fatal, errored, acked, lost, asked, watermark, reached>>
  BY DEF vars, setVars, waitVars
<1>1. /\ SetInv' /\ LogsWanted' /\ Wanted' = Wanted /\ \A v : Backed(v) => Backed(v)'
  BY <1>0, SetRests
<1>2. /\ \A m \in Members : \A v : Sure(m, v) => Sure(m, v)'
      /\ \A v : Due(v) => Due(v)'
  BY <1>0, SetRests
<1>3. WriteInv'  BY <1>0, <1>1 DEF CaseInv, WriteInv, CloneGoesOn
<1>4. WaitInv'  BY <1>0, <1>1, <1>2 DEF CaseInv, WaitInv
<1>5. SureInv'  BY <1>0, <1>1, <1>2 DEF CaseInv, SureInv
<1>6. CaptureInv'  BY <1>0, <1>1 DEF CaseInv, CaptureInv
<1>7. StatusInv'  BY <1>0, <1>1 DEF CaseInv, StatusInv
<1> QED  BY <1>1, <1>3, <1>4, <1>5, <1>6, <1>7 DEF CaseInv

LEMMA CaseStep == CaseInv /\ [Next]_vars => CaseInv'
<1> SUFFICES ASSUME CaseInv, [Next]_vars  PROVE CaseInv'
  OBVIOUS
<1>1. ASSUME TestStep  PROVE CaseInv'
  <2>1. CASE SeedAcknowledged \/ WorkloadAcknowledged
    BY <2>1, AcknowledgeKeeps DEF SeedAcknowledged, WorkloadAcknowledged
  <2>2. CASE SeedMark \/ ControlMark \/ GradeMark \/ SeedWait \/ ControlWait \/ GradeWait
    BY <2>2, FindPrimaryKeeps, ReadWatermarkKeeps
  <2>3. CASE SeedSettled \/ ControlConverged \/ SubjectConverged
    BY <2>3, EndWaitKeeps
  <2>4. CASE Seed \/ Join \/ LookUp \/ AwaitSubject \/ Workload \/ CloneDone \/ PickReference
    BY <2>4, SeedKeeps, JoinKeeps, LookUpKeeps, AwaitSubjectKeeps, WorkloadKeeps, CloneDoneKeeps,
       PickReferenceKeeps
  <2>5. CASE CapturePrimary \/ CaptureReference \/ Control \/ Stamp \/ CaptureSubject
             \/ GradeSubject \/ Finish
    BY <2>5, CapturePrimaryKeeps, CaptureReferenceKeeps, ControlKeeps, StampKeeps,
       CaptureSubjectKeeps, GradeSubjectKeeps, FinishKeeps
  <2> QED  BY <1>1, <2>1, <2>2, <2>3, <2>4, <2>5 DEF TestStep
<1>2. CASE CloneStep  BY <1>2, CloneWriteKeeps, CloneReplyKeeps DEF CloneStep
<1>3. CASE Over \/ UNCHANGED vars  BY <1>3, CaseRests DEF Over
<1>4. CASE Synced
  <2>1. Subject \in Members  BY DEF Members
  <2> QED  BY <1>4, <2>1, RoleStepsKeep
<1>5. ASSUME NEW m \in Members, Replicate(m) \/ RollBack(m) \/ Ready(m)  PROVE CaseInv'
  BY <1>5, ReplicateKeeps, RollBackKeeps, RoleStepsKeep
<1>6. ASSUME NEW m \in Stock, Elect(m) \/ Busy(m)  PROVE CaseInv'
  <2>1. m \in Members  BY DEF Members
  <2> QED  BY <1>6, <2>1, ElectKeeps, RoleStepsKeep
<1> QED  BY <1>1, <1>2, <1>3, <1>4, <1>5, <1>6 DEF Next

LEMMA CaseInvariant == SafetySpec => []CaseInv
<1> QED  BY CaseStarts, CaseStep, PTL DEF SafetySpec

-----------------------------------------------------------------------------
(* The theorems.                                                           *)

\* A case that passed captured a subject with every write the test saw
\* acknowledged; grade, fatal error and test result agree (ReplicaTest,
\* gradeSubject and finish of harness/replicacase.go).
THEOREM PassEarned == SafetySpec => []GradeIsEarned
<1>1. CaseInv => GradeIsEarned
  <2> SUFFICES ASSUME CaseInv, pc = "done"
               PROVE  /\ status = "PASS" => acked \subseteq captured["subject"]
                      /\ (fatal # Unset) = (status = Unset)
                      /\ status \in {"FAIL", "XPASS"} => errored
                      /\ tc.panics /\ status # Unset => status = "FAIL"
    BY DEF GradeIsEarned
  <2>1. status = "PASS" => acked \subseteq captured["subject"]
    BY DEF CaseInv, StatusInv, WriteInv
  <2>2. (fatal # Unset) = (status = Unset)  BY DEF CaseInv, StatusInv
  <2>3. status \in {"FAIL", "XPASS"} => errored  BY DEF CaseInv, StatusInv
  <2>4. tc.panics /\ status # Unset => status = "FAIL"  BY DEF CaseInv, StatusInv
  <2> QED  BY <2>1, <2>2, <2>3, <2>4
<1> QED  BY <1>1, CaseInvariant, PTL

\* A subject that applies what it replicates shows the data of the reference,
\* whatever was deposed and rolled back between the two captures, and between
\* finding the primary and asking it for the watermark (Watermark of
\* harness/converge.go, gradeSubject of harness/replicacase.go).
THEOREM DivergenceReal == SafetySpec => []NoFalseDivergence
<1>1. CaseInv => NoFalseDivergence
  BY DEF CaseInv, CaptureInv, NoFalseDivergence, Captures
<1> QED  BY <1>1, CaseInvariant, PTL

\* The control finds two members with different data only when one lost a write
\* (runControl of harness/replicacase.go).
THEOREM ControlSound == SafetySpec => []ControlMatches
<1>1. CaseInv => ControlMatches
  BY DEF CaseInv, CaptureInv, ControlMatches
<1> QED  BY <1>1, CaseInvariant, PTL
=============================================================================
