-------------------------- MODULE JudgementProofs --------------------------
(***************************************************************************)
(* What holds of four of the harness's judges. The replication workload,   *)
(* for every number of workers, every list of operations and every number  *)
(* of passes: Run returns no error only after a complete workload, and the *)
(* counts of an operation that reports its changes are the truth about it. *)
(* The settled size of a store, for every store and every compaction: the  *)
(* size reported is the least that was measured. The performance gate, for *)
(* every list of benchmarks, every number of rounds and whatever the runs  *)
(* and the servers do: its verdicts rest on paired samples of clean        *)
(* servers, and it succeeds only if head never failed. The parity suite,   *)
(* for every suite of cases and any number of crashes and expired          *)
(* deadlines: a green case and a green summary have earned it.             *)
(***************************************************************************)
EXTENDS Workload, Settle, PerfGate, PairTest, FiniteSetTheorems, SequenceTheorems, TLAPS

-----------------------------------------------------------------------------
(* The settled size                                                        *)

(* Until the first measurement there is none to compare with; from then on the size
   kept is the least of all measured, since it is only replaced by one that is more
   than the tolerance below it. *)
LeastIsKept ==
  \/ pass = 0 /\ prev = -1 /\ seen = {} /\ ~collected
  \/ pass >= 1 /\ prev \in seen /\ \A s \in seen : prev <= s

(* No measurement is below the live size, and one of a store without garbage is it. *)
LiveIsFloor ==
  /\ \A s \in seen : live <= s
  /\ collected => live \in seen

Bounded ==
  /\ pc \in {"gc", "measure"} => pass < maxPasses
  /\ Reported => pass >= 1

SettleInv == SettleTypeOK /\ LeastIsKept /\ LiveIsFloor /\ Bounded

LEMMA ToleranceIsPositive == \A p \in Nat : Tolerance(p) \in Nat /\ Tolerance(p) >= 64
<1>1. \A p \in Nat : p \div 1000 \in Nat
  OBVIOUS
<1>2. QED
  BY <1>1 DEF Tolerance

LEMMA SettleInitHolds ==
  ASSUME SettleInit
  PROVE  SettleInv
<1> USE DEF SettleInit
<1>1. SettleTypeOK
  <2>1. garbage \in Nat /\ pass \in 0 .. maxPasses
    BY SizesAssumption
  <2>2. prev \in Int
    OBVIOUS
  <2>3. QED
    BY <2>1, <2>2 DEF SettleTypeOK
<1>2. LeastIsKept /\ LiveIsFloor
  BY DEF LeastIsKept, LiveIsFloor
<1>3. Bounded
  BY SizesAssumption DEF Bounded, Reported
<1>4. QED
  BY <1>1, <1>2, <1>3 DEF SettleInv

LEMMA MeasureHolds ==
  ASSUME SettleInv, Measure
  PROVE  SettleInv'
<1> USE DEF SettleInv
<1> DEFINE cur == live + garbage
<1>1. /\ live \in Nat /\ garbage \in Nat /\ cur \in Nat /\ live <= cur
      /\ garbage = 0 => cur = live
      /\ pass \in Nat /\ pass < maxPasses /\ maxPasses \in Nat
      /\ prev \in Int /\ seen \subseteq Nat
  BY SizesAssumption DEF SettleTypeOK, Bounded, Measure
<1>2. /\ pc = "measure" /\ seen' = seen \cup {cur} /\ collected' = (collected \/ garbage = 0)
      /\ UNCHANGED <<live, garbage, compacting>>
      /\ \/ Stable(prev, cur) /\ prev' = Smaller(prev, cur) /\ pc' = "settled" /\ pass' = pass
         \/ ~Stable(prev, cur) /\ prev' = cur /\ pass' = pass + 1
              /\ pc' = IF LastPass(pass) THEN "unsettled" ELSE "gc"
  BY DEF Measure, dirBytes, store
<1> HIDE DEF cur
<1>3. LiveIsFloor'
  <2>1. \A s \in seen' : live' <= s
    BY <1>1, <1>2 DEF LiveIsFloor
  <2>2. collected' => live' \in seen'
    BY <1>1, <1>2 DEF LiveIsFloor
  <2>3. QED
    BY <2>1, <2>2 DEF LiveIsFloor
<1>4. CASE Stable(prev, cur)
  <2>1. prev' = Smaller(prev, cur) /\ pc' = "settled" /\ pass' = pass /\ prev >= 0
    BY <1>2, <1>4 DEF Stable
  <2>2. pass >= 1 /\ prev \in seen /\ \A s \in seen : prev <= s
    BY <2>1 DEF LeastIsKept
  <2>3. LeastIsKept'
    <3>1. prev' \in seen' /\ prev' \in Nat
      BY <1>1, <1>2, <2>1, <2>2 DEF Smaller
    <3>2. \A s \in seen' : prev' <= s
      BY <1>1, <1>2, <2>1, <2>2 DEF Smaller
    <3>3. QED
      BY <2>1, <2>2, <3>1, <3>2 DEF LeastIsKept
  <2>4. prev' \in Int
    BY <1>1, <2>1 DEF Smaller
  <2>5. SettleTypeOK'
    BY <1>1, <1>2, <2>1, <2>4 DEF SettleTypeOK
  <2>6. Bounded'
    BY <2>1, <2>2 DEF Bounded, Reported
  <2>7. QED
    BY <1>3, <2>3, <2>5, <2>6
<1>5. CASE ~Stable(prev, cur)
  <2>1. prev' = cur /\ pass' = pass + 1 /\ pc' = IF pass + 1 = maxPasses THEN "unsettled" ELSE "gc"
    BY <1>2, <1>5 DEF LastPass
  <2>2. \A s \in seen : cur <= s
    <3>1. CASE seen = {}
      BY <3>1
    <3>2. CASE seen # {}
      <4>1. prev \in seen /\ (\A s \in seen : prev <= s) /\ prev \in Nat
        BY <1>1, <3>2 DEF LeastIsKept
      <4>2. ~(cur >= prev - Tolerance(prev)) /\ Tolerance(prev) \in Nat
        BY <1>5, <4>1, ToleranceIsPositive DEF Stable
      <4>3. cur <= prev
        BY <1>1, <4>1, <4>2
      <4>4. QED
        BY <1>1, <4>1, <4>3
    <3>3. QED
      BY <3>1, <3>2
  <2>3. LeastIsKept'
    BY <1>1, <1>2, <2>1, <2>2 DEF LeastIsKept
  <2>4. pass' \in 0 .. maxPasses /\ pass' >= 1 /\ (pc' = "gc" => pass' < maxPasses)
    BY <1>1, <2>1
  <2>5. SettleTypeOK'
    BY <1>1, <1>2, <2>1, <2>4 DEF SettleTypeOK
  <2>6. Bounded'
    BY <2>1, <2>4 DEF Bounded, Reported
  <2>7. QED
    BY <1>3, <2>3, <2>5, <2>6
<1>6. QED
  BY <1>4, <1>5

LEMMA SettleStep ==
  ASSUME SettleInv, [SettleNext]_storeVars
  PROVE  SettleInv'
<1> USE DEF SettleInv, LeastIsKept, LiveIsFloor, Bounded, Reported
<1>0. live \in Nat /\ garbage \in Nat
  BY SizesAssumption DEF SettleTypeOK
<1>1. CASE StartCompaction
  <2>1. garbage' \in Nat
    BY <1>0, <1>1, SizesAssumption DEF StartCompaction
  <2>2. QED
    BY <1>1, <2>1 DEF StartCompaction, SettleTypeOK
<1>2. CASE EndCompaction
  BY <1>2 DEF EndCompaction, SettleTypeOK
<1>3. CASE Collect
  <2>1. garbage' \in Nat
    BY <1>0, <1>3, SizesAssumption DEF Collect, Left
  <2>2. QED
    BY <1>3, <2>1 DEF Collect, SettleTypeOK
<1>4. CASE Fail
  BY <1>4 DEF Fail, store, SettleTypeOK
<1>5. CASE Measure
  BY <1>5, MeasureHolds
<1>6. CASE UNCHANGED storeVars
  BY <1>6 DEF storeVars, SettleTypeOK
<1>7. QED
  BY <1>1, <1>2, <1>3, <1>4, <1>5, <1>6 DEF SettleNext, Measured

\* settledDirBytes reports the least size that any pass measured, the live size once
\* a pass left nothing behind, and calls a store settled only after a confirming
\* pass: for every store, every compaction beside it and every number of passes.
THEOREM LeastReported == SettleSpec => []LeastIsReported
<1>1. SettleInit => SettleInv
  BY SettleInitHolds
<1>2. SettleInv /\ [SettleNext]_storeVars => SettleInv'
  BY SettleStep
<1>3. SettleInv => LeastIsReported
  <2> SUFFICES ASSUME SettleInv PROVE LeastIsReported
    OBVIOUS
  <2>1. Reported => prev \in seen /\ \A s \in seen : prev <= s
    BY DEF SettleInv, LeastIsKept, Bounded
  <2>2. seen \subseteq Nat /\ live \in Nat /\ prev \in Int /\ pass \in Nat
    BY SizesAssumption DEF SettleInv, SettleTypeOK
  <2>3. Reported => prev = Min(seen)
    <3> SUFFICES ASSUME Reported PROVE prev = Min(seen)
      OBVIOUS
    <3>1. \A x \in seen : (\A y \in seen : x =< y) => x = prev
      BY <2>1, <2>2
    <3>2. \E x \in seen : \A y \in seen : x =< y
      BY <2>1
    <3>3. Min(seen) \in seen /\ \A y \in seen : Min(seen) =< y
      BY <3>2 DEF Min
    <3>4. QED
      BY <3>1, <3>3
  <2>4. Reported /\ collected => prev = live
    BY <2>1, <2>2 DEF SettleInv, LiveIsFloor
  <2>5. pc = "settled" => pass >= 1
    BY DEF SettleInv, Bounded, Reported
  <2>6. QED
    BY <2>3, <2>4, <2>5 DEF LeastIsReported
<1>4. QED
  BY <1>1, <1>2, <1>3, PTL DEF SettleSpec

-----------------------------------------------------------------------------
(***************************************************************************)
(* The replication workload                                                *)
(***************************************************************************)

-----------------------------------------------------------------------------
(* The server's outcomes                                                   *)

Collections == Names \cup {"src", "dst"}
Errors == {"nil", "duplicate", "error", "no documents", "deliberate abort"}
Results == {"nil", "no contribution", "duplicate", "error"}
Outcome == [docs : SUBSET Ids, names : SUBSET Collections, changed : Nat, err : Errors]

\* An outcome of op: which errors it may have depends on the operation.
OutcomeOf(op, o) ==
  /\ o \in Outcome
  /\ o.err = "no documents" => op \in FindOps
  /\ o.err = "deliberate abort" => op = "transaction-abort"
  /\ op \in CountedOps => o.err = "nil"

\* Sets of ids have a number of elements.
LEMMA Counts ==
  /\ \A s \in SUBSET Ids : Cardinality(s) \in Nat
  /\ \A s, x : Cardinality(s \cap {x}) \in Nat
<1>1. ASSUME NEW s \in SUBSET Ids PROVE Cardinality(s) \in Nat
  BY IdsAssumption, FS_Subset, FS_CardinalityType
<1>2. ASSUME NEW s, NEW x PROVE Cardinality(s \cap {x}) \in Nat
  <2>1. IsFiniteSet({x}) /\ s \cap {x} \in SUBSET {x}
    BY FS_Singleton
  <2>2. IsFiniteSet(s \cap {x})
    BY <2>1, FS_Subset
  <2>3. QED
    BY <2>2, FS_CardinalityType
<1>3. QED
  BY <1>1, <1>2

\* The outcomes the server is described with are outcomes.
LEMMA OutcomeTypes ==
  ASSUME docs \subseteq Ids, names \subseteq Collections, NEW e \in Errors
  PROVE  /\ \A d \in SUBSET Ids, n \in SUBSET Collections, k \in Nat :
              Out(d, n, k, e) \in Outcome /\ Out(d, n, k, e).err = e
         /\ \A d \in SUBSET Ids, k \in Nat : Docs(d, k, e) \in Outcome /\ Docs(d, k, e).err = e
         /\ \A k \in Nat : Same(k, e) \in Outcome /\ Same(k, e).err = e
  BY DEF Out, Docs, Same, Outcome

\* What an insert, an update and a delete of one document may come to.
LEMMA OneDocument ==
  ASSUME docs \subseteq Ids, names \subseteq Collections, NEW id \in Ids
  PROVE  /\ Insert(id) \in Outcome /\ Insert(id).err \in {"nil", "duplicate"}
         /\ \A o \in Update(id) : o \in Outcome /\ o.err = "nil"
         /\ Delete(id) \in Outcome /\ Delete(id).err = "nil"
<1>1. Insert(id) \in Outcome /\ Insert(id).err \in {"nil", "duplicate"}
  BY OutcomeTypes DEF Insert, Errors
<1>2. ASSUME NEW o \in Update(id) PROVE o \in Outcome /\ o.err = "nil"
  <2>1. PICK n \in {0, 1} : o = Same(n, "nil")
    BY DEF Update
  <2>2. n \in Nat /\ "nil" \in Errors
    BY DEF Errors
  <2>3. QED
    BY <2>1, <2>2, OutcomeTypes
<1>3. Delete(id) \in Outcome /\ Delete(id).err = "nil"
  <2>1. docs \ {id} \in SUBSET Ids /\ Cardinality(docs \cap {id}) \in Nat
    BY Counts
  <2>2. QED
    BY <2>1, OutcomeTypes DEF Delete, Errors
<1>4. QED
  BY <1>1, <1>2, <1>3

\* Every answer about documents is an outcome of its operation.
LEMMA ServeDocumentsType ==
  ASSUME docs \subseteq Ids, names \subseteq Collections,
         NEW op \in CountedOps \cup FindOps \cup InsertOps \cup OtherOps,
         NEW o \in ServeDocuments(op)
  PROVE  OutcomeOf(op, o)
<1> USE DEF OutcomeOf
<1>d. /\ op \notin FindOps => op # "findOneAndUpdate" /\ op # "findOneAndDelete"
      /\ op # "transaction-abort"
  BY DEF CountedOps, FindOps, InsertOps, OtherOps
<1>e. /\ "nil" \in Errors /\ "duplicate" \in Errors /\ "no documents" \in Errors
      /\ 0 \in Nat /\ 1 \in Nat
  BY DEF Errors
<1>1. CASE op = "insertOne"
  <2>1. PICK id \in Ids : o = Insert(id)
    BY <1>1 DEF ServeDocuments
  <2>2. QED
    BY <1>1, <2>1, OneDocument DEF CountedOps
<1>2. CASE op = "insertMany"
  <2>1. o \in InsertMany
    BY <1>2 DEF ServeDocuments
  <2>2. PICK s \in SUBSET Ids, e \in {"nil", "duplicate"} : o = Docs(docs \cup s, Cardinality(s), e)
    BY <2>1 DEF InsertMany
  <2>3. docs \cup s \in SUBSET Ids /\ Cardinality(s) \in Nat
    BY Counts
  <2>4. QED
    BY <1>2, <1>e, <2>2, <2>3, OutcomeTypes DEF CountedOps
<1>3. CASE op = "bulkWrite-mixed"
  <2>1. PICK i \in Ids, d \in Existing : o \in BulkWrite(i, d)
    BY <1>3 DEF ServeDocuments
  <2>2. PICK n \in {0, 1}, e \in {"nil", "duplicate"} : o = Docs((docs \cup {i}) \ {d}, n, e)
    BY <2>1 DEF BulkWrite
  <2>3. (docs \cup {i}) \ {d} \in SUBSET Ids /\ n \in Nat
    OBVIOUS
  <2>4. QED
    BY <1>3, <1>e, <2>2, <2>3, OutcomeTypes DEF CountedOps
<1>4. CASE op = "insertMany-unordered-with-duplicate"
  <2>1. PICK id \in Ids : o = [Insert(id) EXCEPT !.err = "duplicate"]
    BY <1>4 DEF ServeDocuments
  <2>2. o \in Outcome /\ o.err = "duplicate"
    <3> DEFINE r == Insert(id)
    <3>1. r \in Outcome /\ o = [r EXCEPT !.err = "duplicate"]
      BY <2>1, OneDocument
    <3> HIDE DEF r
    <3>2. QED
      BY <1>e, <3>1 DEF Outcome
  <2>3. QED
    BY <1>4, <2>2 DEF CountedOps
<1>5. CASE op = "upsert"
  <2>1. PICK id \in Ids : o \in IF id \in docs THEN Update(id) ELSE {Insert(id)}
    BY <1>5 DEF ServeDocuments
  <2>2. o \in Outcome /\ o.err \in {"nil", "duplicate"}
    BY <2>1, OneDocument
  <2>3. QED
    BY <1>5, <2>2 DEF CountedOps
<1>6. CASE op \in {"updateOp", "replaceOne", "array-positional-filtered"}
  <2>1. PICK id \in Existing : o \in Update(id)
    <3>1. CASE op = "updateOp"
      BY <3>1 DEF ServeDocuments
    <3>2. CASE op = "replaceOne"
      BY <3>2 DEF ServeDocuments
    <3>3. CASE op = "array-positional-filtered"
      BY <3>3 DEF ServeDocuments
    <3>4. QED
      BY <1>6, <3>1, <3>2, <3>3
  <2>2. o \in Outcome /\ o.err = "nil"
    BY <2>1, OneDocument, IdsAssumption
  <2>3. QED
    BY <2>2
<1>7. CASE op = "array-positional-match"
  <2>1. PICK id \in Ids : o \in Update(id)
    BY <1>7 DEF ServeDocuments
  <2>2. QED
    BY <2>1, OneDocument
<1>8. CASE op = "updateMany"
  <2>1. Cardinality(docs) \in Nat
    BY Counts
  <2>2. PICK n \in 0 .. Cardinality(docs) : o = Same(n, "nil")
    BY <1>8 DEF ServeDocuments
  <2>3. n \in Nat
    BY <2>1
  <2>4. QED
    BY <1>e, <2>2, <2>3, OutcomeTypes
<1>9. CASE op = "deleteOne"
  <2>1. PICK id \in Existing : o = Delete(id)
    BY <1>9 DEF ServeDocuments
  <2>2. QED
    BY <2>1, OneDocument, IdsAssumption
<1>10. CASE op = "deleteMany"
  <2>1. PICK s \in SUBSET docs : o = Docs(docs \ s, Cardinality(s), "nil")
    BY <1>10 DEF ServeDocuments
  <2>2. docs \ s \in SUBSET Ids /\ Cardinality(s) \in Nat
    BY Counts
  <2>3. QED
    BY <1>e, <2>1, <2>2, OutcomeTypes
<1>11. CASE op = "findOneAndUpdate"
  <2>1. PICK id \in Existing : o = FindAndUpdate(id)
    BY <1>11 DEF ServeDocuments
  <2>2. o \in Outcome /\ o.err \in {"nil", "no documents"}
    BY <1>e, <2>1, OutcomeTypes DEF FindAndUpdate
  <2>3. QED
    BY <1>11, <2>2 DEF CountedOps, FindOps
<1>12. CASE op = "findOneAndDelete"
  <2>1. PICK id \in Existing : o = FindAndDelete(id)
    BY <1>12 DEF ServeDocuments
  <2>2. o \in Outcome /\ o.err \in {"nil", "no documents"}
    BY <1>e, <2>1, OneDocument, OutcomeTypes, IdsAssumption DEF FindAndDelete
  <2>3. QED
    BY <1>12, <2>2 DEF CountedOps, FindOps
<1>13. QED
  BY <1>1, <1>2, <1>3, <1>4, <1>5, <1>6, <1>7, <1>8, <1>9, <1>10, <1>11, <1>12
  DEF CountedOps, FindOps, InsertOps, OtherOps

\* Every answer about the catalog is an outcome of its operation.
LEMMA ServeCatalogType ==
  ASSUME docs \subseteq Ids, names \subseteq Collections, NEW op \in CatalogOps,
         NEW call \in {0, 1}, call = 1 => op \in TwoCalls, NEW o \in ServeCatalog(op, call)
  PROVE  OutcomeOf(op, o)
<1>e. "nil" \in Errors /\ "error" \in Errors /\ 0 \in Nat /\ 1 \in Nat
  BY DEF Errors
<1>s. \A k \in {0, 1}, e \in {"nil", "error"} :
        Same(k, e) \in Outcome /\ Same(k, e).err \in {"nil", "error"}
  BY <1>e, OutcomeTypes
<1>c. \A n \in Collections : Create(n) \in Outcome /\ Create(n).err \in {"nil", "error"}
  <2> TAKE n \in Collections
  <2>1. names \cup {n} \in SUBSET Collections
    OBVIOUS
  <2>2. QED
    BY <1>e, <1>s, <2>1, OutcomeTypes DEF Create
<1>1. SUFFICES o \in Outcome /\ o.err \in {"nil", "error"}
  BY DEF OutcomeOf, CatalogOps, CountedOps
<1>2. CASE op = "createCollection"
  <2>1. PICK n \in Names : o = Create(n)
    BY <1>2 DEF ServeCatalog
  <2>2. QED
    BY <2>1, <1>c DEF Collections
<1>3. CASE op = "renameCollection" /\ call = 0
  <2>1. o = Create("src")
    BY <1>3 DEF ServeCatalog
  <2>2. QED
    BY <2>1, <1>c DEF Collections
<1>4. CASE op = "renameCollection" /\ call = 1
  <2>1. o = IF "src" \in names THEN Out(docs, (names \ {"src"}) \cup {"dst"}, 1, "nil")
            ELSE Same(0, "error")
    BY <1>4 DEF ServeCatalog
  <2>2. (names \ {"src"}) \cup {"dst"} \in SUBSET Collections
    BY DEF Collections
  <2>3. QED
    BY <1>e, <1>s, <2>1, <2>2, OutcomeTypes
<1>5. CASE op = "dropCollection"
  <2>1. PICK n \in Names : o = Out(docs, names \ {n}, Cardinality(names \cap {n}), "nil")
    BY <1>5 DEF ServeCatalog
  <2>2. names \ {n} \in SUBSET Collections /\ Cardinality(names \cap {n}) \in Nat
    BY Counts
  <2>3. QED
    BY <1>e, <2>1, <2>2, OutcomeTypes
<1>6. CASE op = "dropIndex"
  <2>1. o \in {Same(1, "nil"), Same(0, "error")}
    BY <1>6 DEF ServeCatalog
  <2>2. QED
    BY <1>s, <2>1
<1>7. CASE op = "collMod-validator"
  <2>1. o = Same(1, "nil")
    BY <1>7 DEF ServeCatalog
  <2>2. QED
    BY <1>s, <2>1
<1>8. CASE op = "createIndex"
  <2>1. PICK n \in {0, 1} : o = Same(n, "nil")
    BY <1>8 DEF ServeCatalog
  <2>2. QED
    BY <1>s, <2>1
<1>9. QED
  BY <1>2, <1>3, <1>4, <1>5, <1>6, <1>7, <1>8 DEF CatalogOps

\* Every answer of the server is an outcome of its operation.
LEMMA ServeType ==
  ASSUME docs \subseteq Ids, names \subseteq Collections, NEW op \in StandardVocabulary,
         NEW call \in {0, 1}, call = 1 => op \in TwoCalls, NEW o \in Serve(op, call)
  PROVE  OutcomeOf(op, o)
<1>1. CASE op \in CatalogOps
  <2>1. o \in ServeCatalog(op, call)
    BY <1>1 DEF Serve, CatalogOps, TransactionOps
  <2>2. QED
    BY <1>1, <2>1, ServeCatalogType
<1>2. CASE op \in TransactionOps
  <2>1. PICK k \in Nat, e \in {"nil", "duplicate", "deliberate abort"} :
          o = Same(k, e) /\ (e = "deliberate abort" => op = "transaction-abort")
    BY <1>2 DEF Serve, ServeTransaction, CatalogOps, TransactionOps
  <2>4. e \in Errors
    BY DEF Errors
  <2>3. QED
    BY <1>2, <2>1, <2>4, OutcomeTypes DEF OutcomeOf, TransactionOps, CountedOps
<1>3. CASE op \notin CatalogOps \cup TransactionOps
  <2>1. op \in CountedOps \cup FindOps \cup InsertOps \cup OtherOps
    BY <1>3 DEF StandardVocabulary
  <2>2. o \in ServeDocuments(op)
    BY <1>3 DEF Serve
  <2>3. QED
    BY <2>1, <2>2, ServeDocumentsType
<1>4. QED
  BY <1>1, <1>2, <1>3

\* What an operation makes of an outcome is one of the results Coverage tells apart,
\* and a counted operation is judged by its count.
LEMMA ResultType ==
  ASSUME NEW op \in StandardVocabulary, NEW o, OutcomeOf(op, o)
  PROVE  /\ OpResult(op, o.err, o.changed) \in Results
         /\ op \in CountedOps =>
              /\ OpResult(op, o.err, o.changed) \in {"nil", "no contribution"}
              /\ OpResult(op, o.err, o.changed) = "nil" <=> o.changed > 0
<1>1. o.err \in Errors /\ o.changed \in Nat
  BY DEF OutcomeOf, Outcome
<1>2. CASE op \in CountedOps
  <2>1. OpResult(op, o.err, o.changed) = IF o.changed = 0 THEN "no contribution" ELSE "nil"
    <3>1. o.err = "nil"
      BY <1>2 DEF OutcomeOf
    <3>2. OpResult(op, o.err, o.changed) = contributed(o.err, o.changed)
      BY <1>2 DEF OpResult, CountedOps, FindOps
    <3>3. QED
      BY <3>1, <3>2 DEF contributed
  <2>2. CASE o.changed = 0
    <3>1. ~(o.changed > 0)
      BY <2>2
    <3>2. OpResult(op, o.err, o.changed) = "no contribution"
      BY <2>1, <2>2
    <3>3. QED
      BY <3>1, <3>2 DEF Results
  <2>3. CASE o.changed # 0
    <3>1. o.changed > 0
      BY <1>1, <2>3
    <3>2. OpResult(op, o.err, o.changed) = "nil"
      BY <2>1, <2>3
    <3>3. QED
      BY <3>1, <3>2 DEF Results
  <2>4. QED
    BY <2>2, <2>3
<1>3. CASE op \in FindOps
  BY <1>1, <1>3 DEF OpResult, ignoreNoDocuments, OutcomeOf, Errors, Results, FindOps, CountedOps
<1>4. CASE op \notin CountedOps \cup FindOps
  BY <1>1, <1>4 DEF OpResult, OutcomeOf, Errors, Results
<1>5. QED
  BY <1>2, <1>3, <1>4


-----------------------------------------------------------------------------
(* The inductive invariant                                                 *)

Size == Passes * Len(ops)

\* What a worker's step says of it: only an operation of the workload is called or
\* recorded, one that has not been called has changed nothing, and only the two
\* operations of two calls are called again.
StepOf(r) ==
  /\ r.at \in 1 .. Size + 1
  /\ r.pc \in {"call", "record"} => r.at \in 1 .. Size
  /\ r.pc = "done" => r.at = Size + 1
  /\ r.pc = "call" => r.calls = 0 \/ (r.calls = 1 /\ Position(r.at) \in TwoCalls)
  /\ r.pc \in {"check", "call"} /\ r.calls = 0 => ~r.changed
  /\ r.pc = "check" => r.calls = 0

\* A counted operation about to be recorded without an error has the result its change
\* deserves.
TruthOf(r) ==
  r.pc = "record" /\ Position(r.at) \in CountedOps =>
    /\ r.result \in {"nil", "no contribution", "error"}
    /\ r.result = "nil" => r.changed
    /\ r.result = "no contribution" => ~r.changed

Steps == \A w \in Worker : StepOf(worker[w])
Truth == ~panicked => \A w \in Worker : TruthOf(worker[w])

\* The operations that have been recorded: a worker and its place in the workload.
Recorded(op) ==
  {p \in Worker \X (1 .. Size) : p[2] < worker[p[1]].at /\ Position(p[2]) = op}

Tally == \A op \in Range(ops) : ran[op] = Cardinality(Recorded(op))

\* Of an operation's attempts some failed, some changed nothing and all others changed
\* the server; one that failed may have.
Judged(op) ==
  /\ failures[op] + noOps[op] <= ran[op]
  /\ ran[op] <= failures[op] + noOps[op] + changes[op]
  /\ noOps[op] + changes[op] <= ran[op]
Counted == \A op \in CountedOps \cap Range(ops) : Judged(op)

Finished == returned = "nil" => \A w \in Worker : worker[w].pc = "done"

WInv == TypeOK /\ Steps /\ Truth /\ Tally /\ Counted /\ Finished


Slot == [at : Nat, calls : 0 .. 2, pc : {"check", "call", "record", "done", "cancelled"},
         result : Results, changed : BOOLEAN]

LEMMA TypeParts ==
  ASSUME TypeOK
  PROVE  ops \in Lists /\ worker \in [Worker -> Slot] /\ docs \subseteq Ids /\ names \subseteq Collections
  BY DEF TypeOK, Slot, Results, Collections

\* The places of the workload: as many as the passes over the list have operations,
\* each an operation of the list.
LEMMA Places ==
  ASSUME ops \in Lists
  PROVE  /\ ops \in Seq(StandardVocabulary) /\ Len(ops) \in Nat
         /\ Passes \in Nat \ {0} /\ Size \in Nat
         /\ \A i \in 1 .. Size : Position(i) \in Range(ops)
         /\ Range(ops) \subseteq StandardVocabulary
<1>1. ops \in Seq(StandardVocabulary) /\ Len(ops) \in Nat /\ DOMAIN ops = 1 .. Len(ops)
  BY ListsAssumption
<1>2. Passes \in Nat \ {0}
  BY WorkersAssumption DEF Passes
<1>3. \A m, n \in Nat : m * n \in Nat
  OBVIOUS
<1>4. Size \in Nat
  BY <1>1, <1>2, <1>3 DEF Size
<1>5. ASSUME NEW i \in 1 .. Size PROVE Position(i) \in Range(ops)
  <2>1. Len(ops) # 0
    <3>1. \A n \in Nat : n * 0 = 0
      OBVIOUS
    <3>2. Len(ops) = 0 => Size = 0
      BY <1>2, <3>1 DEF Size
    <3>3. QED
      BY <3>2
  <2>2. \A n \in Nat \ {0}, k \in Nat : k % n \in 0 .. n - 1
    OBVIOUS
  <2>3. (i - 1) % Len(ops) \in 0 .. Len(ops) - 1
    <3>1. i - 1 \in Nat /\ Len(ops) \in Nat \ {0}
      BY <1>1, <1>4, <2>1
    <3>2. QED
      BY <2>2, <3>1
  <2>4. ((i - 1) % Len(ops)) + 1 \in DOMAIN ops
    BY <1>1, <2>3
  <2>5. QED
    BY <2>4 DEF Position, Range
<1>6. Range(ops) \subseteq StandardVocabulary
  BY <1>1 DEF Range
<1>7. QED
  BY <1>1, <1>2, <1>4, <1>5, <1>6

\* A worker that moves leaves the others alone, and has recorded nothing new unless
\* it moves on to its next place.
LEMMA MoveWorker ==
  ASSUME TypeOK, Steps, NEW w \in Worker, NEW r \in Slot, StepOf(r),
         worker' = [worker EXCEPT ![w] = r], ops' = ops
  PROVE  /\ worker' \in [Worker -> Slot] /\ worker'[w] = r
         /\ \A v \in Worker \ {w} : worker'[v] = worker[v]
         /\ Steps'
         /\ r.at = worker[w].at => \A op \in Range(ops) : Recorded(op)' = Recorded(op)
<1>1. worker \in [Worker -> Slot]
  BY TypeParts
<1>2. /\ worker' \in [Worker -> Slot] /\ worker'[w] = r
      /\ \A v \in Worker \ {w} : worker'[v] = worker[v]
  BY <1>1
<1>3. Steps'
  <2>1. \A v \in Worker : StepOf(worker[v])' <=> StepOf(worker'[v])
    BY DEF StepOf, Size, Position
  <2>2. \A v \in Worker : StepOf(worker'[v])
    BY <1>2 DEF Steps
  <2>3. QED
    BY <2>1, <2>2 DEF Steps
<1>4. ASSUME r.at = worker[w].at, NEW op \in Range(ops) PROVE Recorded(op)' = Recorded(op)
  <2>1. \A v \in Worker : worker'[v].at = worker[v].at
    BY <1>2, <1>4
  <2>2. Size' = Size /\ \A i : Position(i)' = Position(i)
    BY DEF Size, Position
  <2>3. QED
    BY <2>1, <2>2 DEF Recorded
<1>5. QED
  BY <1>2, <1>3, <1>4

\* A step that records nothing keeps the counts true.
LEMMA NothingRecorded ==
  ASSUME Tally, Counted, UNCHANGED <<ops, coverage, changes>>,
         \A op \in Range(ops) : Recorded(op)' = Recorded(op)
  PROVE  Tally' /\ Counted'
<1>1. Tally'
  BY DEF Tally, coverage
<1>2. Counted'
  BY DEF Counted, Judged, coverage
<1>3. QED
  BY <1>1, <1>2


LEMMA InitHolds ==
  ASSUME Init
  PROVE  WInv
<1> USE DEF Init
<1>1. TypeOK
  <2>1. Idle \in Slot
    BY DEF Idle, Slot, Results
  <2>2. worker \in [Worker -> Slot]
    BY <2>1
  <2>3. docs \subseteq Ids /\ names \subseteq Names \cup {"src", "dst"}
    BY IdsAssumption
  <2>4. QED
    BY <2>2, <2>3 DEF TypeOK, Slot, Results
<1>2. Size \in Nat
  BY Places
<1>3. Steps
  BY <1>2 DEF Steps, StepOf, Idle
<1>4. Truth
  BY DEF Truth, TruthOf, Idle
<1>5. Tally
  <2> SUFFICES ASSUME NEW op \in Range(ops) PROVE ran[op] = Cardinality(Recorded(op))
    BY DEF Tally
  <2>1. Recorded(op) = {}
    BY <1>2 DEF Recorded, Idle
  <2>2. QED
    BY <2>1, FS_EmptySet
<1>6. Counted
  BY DEF Counted, Judged
<1>7. Finished
  BY DEF Finished
<1>8. QED
  BY <1>1, <1>3, <1>4, <1>5, <1>6, <1>7 DEF WInv

LEMMA CheckContextHolds ==
  ASSUME WInv, NEW w \in Worker, CheckContext(w)
  PROVE  WInv'
<1> USE DEF WInv
<1>t. /\ worker \in [Worker -> Slot] /\ worker[w] \in Slot /\ ops \in Lists /\ Size \in Nat
      /\ StepOf(worker[w]) /\ worker[w].pc = "check"
  BY TypeParts, Places DEF Steps, CheckContext
<1>c. ops' = ops /\ UNCHANGED <<docs, names, coverage, changes, cancelled, panicked, returned>> /\ Alive
  BY DEF CheckContext
<1> DEFINE p == IF worker[w].at > Passes * Len(ops) THEN "done"
                ELSE IF cancelled THEN "cancelled" ELSE "call"
           r == [worker[w] EXCEPT !.pc = p]
<1>1. worker' = [worker EXCEPT ![w] = r]
  BY <1>t DEF CheckContext
<1>2. /\ r \in Slot /\ r.at = worker[w].at /\ r.calls = worker[w].calls
      /\ r.changed = worker[w].changed /\ r.pc = p
      /\ p \in {"done", "cancelled", "call"}
      /\ p = "done" => worker[w].at > Size
      /\ p = "call" => ~(worker[w].at > Size)
  BY <1>t DEF Slot, Size
<1> HIDE DEF p, r
<1>3. StepOf(r)
  <2>1. worker[w].at \in 1 .. Size + 1 /\ worker[w].calls = 0 /\ ~worker[w].changed
    BY <1>t DEF StepOf
  <2>2. p = "call" => worker[w].at \in 1 .. Size
    BY <1>t, <1>2, <2>1
  <2>3. p = "done" => worker[w].at = Size + 1
    BY <1>t, <1>2, <2>1
  <2>4. QED
    BY <1>2, <2>1, <2>2, <2>3 DEF StepOf
<1>4. /\ worker' \in [Worker -> Slot] /\ worker'[w] = r
      /\ \A v \in Worker \ {w} : worker'[v] = worker[v]
      /\ Steps'
      /\ \A op \in Range(ops) : Recorded(op)' = Recorded(op)
  BY <1>1, <1>2, <1>3, <1>c, MoveWorker
<1>5. TypeOK'
  BY <1>4, <1>c DEF TypeOK, coverage, Slot, Results
<1>6. Truth'
  <2>1. TruthOf(r)
    BY <1>2 DEF TruthOf
  <2>2. \A v \in Worker : TruthOf(worker[v])' <=> TruthOf(worker'[v])
    BY <1>c DEF TruthOf, Position
  <2>3. QED
    BY <1>4, <1>c, <2>1, <2>2 DEF Truth
<1>7. Tally' /\ Counted'
  BY <1>4, <1>c, NothingRecorded
<1>8. Finished'
  BY <1>c DEF Finished, Alive
<1>9. QED
  BY <1>4, <1>5, <1>6, <1>7, <1>8

\* The operation a worker calls is one of the vocabulary, and it is called a second
\* time only when it makes two calls.
LEMMA Calling ==
  ASSUME WInv, NEW w \in Worker, worker[w].pc = "call"
  PROVE  /\ worker \in [Worker -> Slot] /\ worker[w] \in Slot /\ StepOf(worker[w])
         /\ Size \in Nat /\ worker[w].at \in 1 .. Size
         /\ Position(worker[w].at) \in StandardVocabulary
         /\ worker[w].calls \in {0, 1}
         /\ worker[w].calls = 1 => Position(worker[w].at) \in TwoCalls
         /\ Position(worker[w].at) \in CountedOps => ~worker[w].changed
<1>1. worker \in [Worker -> Slot] /\ worker[w] \in Slot /\ StepOf(worker[w]) /\ ops \in Lists
  BY TypeParts DEF WInv, Steps
<1>2. Size \in Nat /\ worker[w].at \in 1 .. Size
  BY <1>1, Places DEF StepOf
<1>3. Position(worker[w].at) \in StandardVocabulary
  BY <1>1, <1>2, Places
<1>4. /\ worker[w].calls \in {0, 1}
      /\ worker[w].calls = 1 => Position(worker[w].at) \in TwoCalls
  BY <1>1 DEF StepOf
<1>5. Position(worker[w].at) \in CountedOps => ~worker[w].changed
  BY <1>1, <1>4 DEF StepOf, TwoCalls, CountedOps
<1>6. QED
  BY <1>1, <1>2, <1>3, <1>4, <1>5


LEMMA CallHolds ==
  ASSUME WInv, NEW w \in Worker, Call(w)
  PROVE  WInv'
<1> USE DEF WInv
<1> DEFINE op == Position(worker[w].at)
<1>t. /\ worker \in [Worker -> Slot] /\ worker[w] \in Slot /\ StepOf(worker[w])
      /\ Size \in Nat /\ worker[w].at \in 1 .. Size
      /\ op \in StandardVocabulary /\ worker[w].calls \in {0, 1}
      /\ worker[w].calls = 1 => op \in TwoCalls
      /\ op \in CountedOps => ~worker[w].changed
  BY Calling DEF Call
<1>c. /\ ops' = ops /\ UNCHANGED <<coverage, changes, cancelled, panicked, returned>> /\ Alive
      /\ worker[w].pc = "call"
  BY DEF Call
<1>0. PICK o \in Serve(op, worker[w].calls) :
        /\ docs' = o.docs
        /\ names' = o.names
        /\ worker' = [worker EXCEPT ![w] =
             [at |-> worker[w].at, calls |-> worker[w].calls + 1,
              pc |-> IF op \in TwoCalls /\ worker[w].calls = 0 /\ o.err = "nil"
                     THEN "call" ELSE "record",
              result |-> OpResult(op, o.err, o.changed),
              changed |-> worker[w].changed \/ o.changed > 0]]
  BY DEF Call
<1>o. /\ OutcomeOf(op, o) /\ OpResult(op, o.err, o.changed) \in Results
      /\ op \in CountedOps =>
           /\ OpResult(op, o.err, o.changed) \in {"nil", "no contribution"}
           /\ OpResult(op, o.err, o.changed) = "nil" <=> o.changed > 0
  <2>1. docs \subseteq Ids /\ names \subseteq Collections
    BY TypeParts
  <2>2. OutcomeOf(op, o)
    BY <1>t, <2>1, ServeType
  <2>3. QED
    BY <1>t, <2>2, ResultType
<1>d. docs' \subseteq Ids /\ names' \subseteq Collections
  BY <1>0, <1>o DEF OutcomeOf, Outcome
<1> DEFINE p == IF op \in TwoCalls /\ worker[w].calls = 0 /\ o.err = "nil" THEN "call" ELSE "record"
           res == OpResult(op, o.err, o.changed)
           ch == worker[w].changed \/ o.changed > 0
           n == worker[w].calls + 1
           r == [at |-> worker[w].at, calls |-> n, pc |-> p, result |-> res, changed |-> ch]
<1>1. worker' = [worker EXCEPT ![w] = r]
  BY <1>0
<1>p. p \in {"call", "record"} /\ (p = "call" => op \in TwoCalls /\ n = 1) /\ n \in 1 .. 2
  BY <1>t
<1>2. /\ res \in Results /\ ch \in BOOLEAN
      /\ op \in CountedOps => res \in {"nil", "no contribution"} /\ (ch <=> res = "nil")
  <2>2. ch \in BOOLEAN
    BY <1>t DEF Slot
  <2>3. op \in CountedOps => res \in {"nil", "no contribution"} /\ (ch <=> res = "nil")
    BY <1>t, <1>o
  <2>4. QED
    BY <1>o, <2>2, <2>3
<1> HIDE DEF p, res, ch, n
<1>3. /\ r \in Slot /\ r.at = worker[w].at /\ r.calls = n /\ r.pc = p /\ r.result = res
      /\ r.changed = ch
  <2>1. worker[w].at \in Nat /\ n \in 0 .. 2 /\ p \in {"check", "call", "record", "done", "cancelled"}
    BY <1>t, <1>p
  <2>2. r \in Slot
    BY <1>2, <2>1 DEF Slot
  <2>3. QED
    BY <2>2
<1> HIDE DEF r
<1>4. StepOf(r)
  <2>0. r.at = worker[w].at /\ r.calls = n /\ r.pc = p
    BY <1>3
  <2>1. r.calls # 0 /\ r.pc # "check" /\ r.pc # "done" /\ Position(r.at) = op
    BY <1>p, <2>0
  <2>2. r.pc = "call" => r.calls = 1 /\ Position(r.at) \in TwoCalls
    BY <1>p, <2>0
  <2>3. r.at \in 1 .. Size /\ r.at \in 1 .. Size + 1
    BY <1>t, <1>3
  <2>4. QED
    BY <2>1, <2>2, <2>3 DEF StepOf
<1>5. /\ worker' \in [Worker -> Slot] /\ worker'[w] = r
      /\ \A v \in Worker \ {w} : worker'[v] = worker[v]
      /\ Steps'
      /\ \A x \in Range(ops) : Recorded(x)' = Recorded(x)
  BY <1>1, <1>3, <1>4, <1>c, MoveWorker
<1>6. TypeOK'
  BY <1>5, <1>c, <1>d DEF TypeOK, coverage, Slot, Results, Collections
<1>7. Truth'
  <2>1. TruthOf(r)
    BY <1>2, <1>3 DEF TruthOf
  <2>2. \A v \in Worker : TruthOf(worker[v])' <=> TruthOf(worker'[v])
    BY <1>c DEF TruthOf, Position
  <2>3. QED
    BY <1>5, <1>c, <2>1, <2>2 DEF Truth
<1>8. Tally' /\ Counted'
  BY <1>5, <1>c, NothingRecorded
<1>9. Finished'
  BY <1>c DEF Finished, Alive
<1>10. QED
  BY <1>5, <1>6, <1>7, <1>8, <1>9

\* A failed call ends the process or leaves an error to be recorded.
LEMMA CallFailsHolds ==
  ASSUME WInv, NEW w \in Worker, CallFails(w)
  PROVE  WInv'
<1> USE DEF WInv
<1> DEFINE op == Position(worker[w].at)
           applied == {Same(0, "error")} \cup
                        (IF "lost" \in Faults THEN Serve(op, worker[w].calls) ELSE {})
<1>t. /\ worker \in [Worker -> Slot] /\ worker[w] \in Slot /\ StepOf(worker[w])
      /\ Size \in Nat /\ worker[w].at \in 1 .. Size
      /\ op \in StandardVocabulary /\ worker[w].calls \in {0, 1}
      /\ worker[w].calls = 1 => op \in TwoCalls
  BY Calling DEF CallFails
<1>c. /\ ops' = ops /\ UNCHANGED <<coverage, changes, cancelled, returned>> /\ Alive
      /\ worker[w].pc = "call" /\ panicked' \in BOOLEAN
  BY DEF CallFails, Dereferences
<1>0. PICK o \in applied :
        /\ docs' = o.docs
        /\ names' = o.names
        /\ worker' = [worker EXCEPT ![w].pc = "record", ![w].result = "error",
                                    ![w].changed = @ \/ o.changed > 0]
  BY DEF CallFails
<1>o. o \in Outcome
  <2>1. docs \subseteq Ids /\ names \subseteq Collections
    BY TypeParts
  <2>2. Same(0, "error") \in Outcome
    BY <2>1, OutcomeTypes DEF Errors
  <2>3. CASE o \in Serve(op, worker[w].calls)
    BY <1>t, <2>1, <2>3, ServeType DEF OutcomeOf
  <2>4. QED
    BY <2>2, <2>3
<1>d. docs' \subseteq Ids /\ names' \subseteq Collections
  BY <1>0, <1>o DEF Outcome
<1> DEFINE ch == worker[w].changed \/ o.changed > 0
           r == [worker[w] EXCEPT !.pc = "record", !.result = "error", !.changed = ch]
<1>1. worker' = [worker EXCEPT ![w] = r]
  BY <1>0, <1>t DEF Slot
<1>2. ch \in BOOLEAN
  BY <1>t DEF Slot
<1> HIDE DEF ch
<1>3. /\ r \in Slot /\ r.at = worker[w].at /\ r.pc = "record" /\ r.calls = worker[w].calls
      /\ r.result = "error"
  BY <1>t, <1>2 DEF Slot, Results
<1> HIDE DEF r, applied
<1>4. StepOf(r)
  BY <1>t, <1>3 DEF StepOf
<1>5. /\ worker' \in [Worker -> Slot] /\ worker'[w] = r
      /\ \A v \in Worker \ {w} : worker'[v] = worker[v]
      /\ Steps'
      /\ \A x \in Range(ops) : Recorded(x)' = Recorded(x)
  BY <1>1, <1>3, <1>4, <1>c, MoveWorker
<1>6. TypeOK'
  <2>1. panicked' \in BOOLEAN
    BY <1>c
  <2>2. QED
    BY <1>5, <1>c, <1>d, <2>1 DEF TypeOK, coverage, Slot, Results, Collections
<1>7. Truth'
  <2>1. Truth => TruthOf(r)
    BY <1>3 DEF TruthOf
  <2>2. \A v \in Worker : TruthOf(worker[v])' <=> TruthOf(worker'[v])
    BY <1>c DEF TruthOf, Position
  <2>3. QED
    BY <1>5, <1>c, <2>1, <2>2 DEF Truth, Alive
<1>8. Tally' /\ Counted'
  BY <1>5, <1>c, NothingRecorded
<1>9. Finished'
  BY <1>c DEF Finished, Alive
<1>10. QED
  BY <1>5, <1>6, <1>7, <1>8, <1>9

\* Recording an operation adds its place, once, to those recorded of its name.
LEMMA OneMoreRecorded ==
  ASSUME WInv, NEW w \in Worker, worker[w].at \in 1 .. Size, ops' = ops,
         worker' \in [Worker -> Slot], worker'[w].at = worker[w].at + 1,
         \A v \in Worker \ {w} : worker'[v] = worker[v],
         NEW op \in Range(ops)
  PROVE  Cardinality(Recorded(op)') =
           Cardinality(Recorded(op)) + IF Position(worker[w].at) = op THEN 1 ELSE 0
<1> DEFINE i == worker[w].at
<1>1. worker \in [Worker -> Slot] /\ Size \in Nat /\ ops \in Lists /\ IsFiniteSet(Worker)
  BY TypeParts, Places, WorkersAssumption DEF WInv
<1>2. Size' = Size /\ \A k : Position(k)' = Position(k)
  BY DEF Size, Position
<1>3. IsFiniteSet(Recorded(op)) /\ <<w, i>> \notin Recorded(op)
  <2>1. IsFiniteSet(Worker \X (1 .. Size))
    <3>1. IsFiniteSet(1 .. Size)
      BY <1>1, FS_Interval
    <3>2. QED
      BY <1>1, <3>1, FS_Product
  <2>2. IsFiniteSet(Recorded(op))
    BY <2>1, FS_Subset DEF Recorded
  <2>3. ~(i < i)
    BY <1>1
  <2>4. QED
    BY <2>2, <2>3 DEF Recorded
<1>4. \A p \in Worker \X (1 .. Size) :
        p[2] < worker'[p[1]].at <=> p[2] < worker[p[1]].at \/ p = <<w, i>>
  <2> TAKE p \in Worker \X (1 .. Size)
  <2>1. PICK v \in Worker, k \in 1 .. Size : p = <<v, k>>
    OBVIOUS
  <2>2. CASE v = w
    BY <1>1, <2>1, <2>2
  <2>3. CASE v # w
    BY <2>1, <2>3
  <2>4. QED
    BY <2>2, <2>3
<1>5. CASE Position(i) = op
  <2>1. Recorded(op)' = Recorded(op) \cup {<<w, i>>}
    BY <1>2, <1>4, <1>5 DEF Recorded
  <2>2. QED
    <3>1. Cardinality(Recorded(op) \cup {<<w, i>>}) = Cardinality(Recorded(op)) + 1
      BY <1>3, FS_AddElement
    <3>2. QED
      BY <1>5, <2>1, <3>1
<1>6. CASE Position(i) # op
  <2>1. Recorded(op)' = Recorded(op)
    BY <1>2, <1>4, <1>6 DEF Recorded
  <2>2. Cardinality(Recorded(op)) \in Nat
    BY <1>3, FS_CardinalityType
  <2>3. QED
    BY <1>6, <2>1, <2>2
<1>7. QED
  BY <1>5, <1>6


LEMMA RecordHolds ==
  ASSUME WInv, NEW w \in Worker, Record(w)
  PROVE  WInv'
<1> USE DEF WInv
<1> DEFINE op == Position(worker[w].at)
           result == worker[w].result
<1>t. /\ worker \in [Worker -> Slot] /\ worker[w] \in Slot /\ StepOf(worker[w])
      /\ ops \in Lists /\ Size \in Nat /\ worker[w].pc = "record"
  BY TypeParts, Places DEF Steps, Record
<1>a. worker[w].at \in 1 .. Size
  BY <1>t DEF StepOf
<1>b. op \in Range(ops)
  BY <1>t, <1>a, Places
<1>c. ops' = ops /\ UNCHANGED <<docs, names, cancelled, panicked, returned>> /\ Alive
  BY DEF Record
<1>n. /\ ran \in [Range(ops) -> Nat] /\ failures \in [Range(ops) -> Nat]
      /\ noOps \in [Range(ops) -> Nat] /\ changes \in [Range(ops) -> Nat]
  BY DEF TypeOK
<1> DEFINE one == IF result = "no contribution" THEN 1 ELSE 0
           bad == IF result \in {"nil", "no contribution"} THEN 0 ELSE 1
           chg == IF worker[w].changed THEN 1 ELSE 0
           r == [Idle EXCEPT !.at = worker[w].at + 1]
<1>e. /\ ran' = [ran EXCEPT ![op] = @ + 1] /\ noOps' = [noOps EXCEPT ![op] = @ + one]
      /\ failures' = [failures EXCEPT ![op] = @ + bad]
      /\ changes' = [changes EXCEPT ![op] = @ + chg]
      /\ worker' = [worker EXCEPT ![w] = r]
  BY DEF Record
<1>f. one \in Nat /\ bad \in Nat /\ chg \in Nat
  OBVIOUS
<1>1. r \in Slot /\ r.at = worker[w].at + 1 /\ r.pc = "check" /\ r.calls = 0 /\ r.changed = FALSE
  <2>1. Idle \in Slot /\ Idle.pc = "check" /\ Idle.calls = 0 /\ Idle.changed = FALSE
    BY DEF Idle, Slot, Results
  <2>2. worker[w].at + 1 \in Nat
    BY <1>t, <1>a
  <2>3. QED
    BY <2>1, <2>2 DEF Slot
<1> HIDE DEF r
<1>2. StepOf(r)
  <2>1. r.at \in 1 .. Size + 1
    BY <1>t, <1>a, <1>1
  <2>2. QED
    BY <1>1, <2>1 DEF StepOf
<1>3. /\ worker' \in [Worker -> Slot] /\ worker'[w] = r
      /\ \A v \in Worker \ {w} : worker'[v] = worker[v]
      /\ Steps'
  BY <1>1, <1>2, <1>c, <1>e, MoveWorker
<1>g. Truth => \A v \in Worker : TruthOf(worker[v])
  BY <1>c DEF Truth, Alive
<1>4. /\ ran' \in [Range(ops) -> Nat] /\ failures' \in [Range(ops) -> Nat]
      /\ noOps' \in [Range(ops) -> Nat] /\ changes' \in [Range(ops) -> Nat]
  <2> HIDE DEF one, bad, chg, op
  <2>1. \A h \in [Range(ops) -> Nat], k \in Nat : [h EXCEPT ![op] = @ + k] \in [Range(ops) -> Nat]
    BY <1>b
  <2>2. QED
    BY <1>e, <1>f, <1>n, <2>1
<1>5. TypeOK'
  BY <1>3, <1>4, <1>c DEF TypeOK, Slot, Results
<1>6. Truth'
  <2>1. TruthOf(r)
    BY <1>1 DEF TruthOf
  <2>2. \A v \in Worker : TruthOf(worker[v])' <=> TruthOf(worker'[v])
    BY <1>c DEF TruthOf, Position
  <2>3. QED
    BY <1>3, <1>g, <2>1, <2>2 DEF Truth
<1>7. Tally'
  <2> SUFFICES ASSUME NEW x \in Range(ops) PROVE ran'[x] = Cardinality(Recorded(x)')
    BY <1>c DEF Tally
  <2>1. worker'[w].at = worker[w].at + 1
    BY <1>1, <1>3
  <2>2. Cardinality(Recorded(x)') = Cardinality(Recorded(x)) + IF op = x THEN 1 ELSE 0
    BY <1>a, <1>c, <1>3, <2>1, OneMoreRecorded
  <2>3. ran[x] = Cardinality(Recorded(x)) /\ ran[x] \in Nat
    BY <1>n DEF Tally
  <2>4. ran'[x] = ran[x] + IF op = x THEN 1 ELSE 0
    <3>1. ran' = [ran EXCEPT ![op] = ran[op] + 1]
      BY <1>e
    <3> HIDE DEF op
    <3>2. CASE x = op
      BY <1>b, <1>n, <3>1, <3>2
    <3>3. CASE x # op
      BY <1>n, <3>1, <3>3
    <3>4. QED
      BY <3>2, <3>3
  <2>5. QED
    BY <2>2, <2>3, <2>4
<1>8. Counted'
  <2> SUFFICES ASSUME NEW x \in CountedOps \cap Range(ops)
               PROVE  /\ failures'[x] + noOps'[x] <= ran'[x]
                      /\ ran'[x] <= failures'[x] + noOps'[x] + changes'[x]
                      /\ noOps'[x] + changes'[x] <= ran'[x]
    BY <1>c DEF Counted, Judged
  <2>1. /\ failures[x] + noOps[x] <= ran[x] /\ ran[x] <= failures[x] + noOps[x] + changes[x]
        /\ noOps[x] + changes[x] <= ran[x]
        /\ failures[x] \in Nat /\ noOps[x] \in Nat /\ changes[x] \in Nat /\ ran[x] \in Nat
    BY <1>n DEF Counted, Judged
  <2>2. CASE x = op
    <3>1. /\ result \in {"nil", "no contribution", "error"}
          /\ result = "nil" => worker[w].changed
          /\ result = "no contribution" => ~worker[w].changed
      BY <1>g, <1>t, <2>2 DEF TruthOf
    <3>2. one \in {0, 1} /\ bad \in {0, 1} /\ chg \in {0, 1}
      OBVIOUS
    <3>3. bad + one <= 1 /\ 1 <= bad + one + chg /\ one + chg <= 1
      <4>1. CASE result = "nil"
        <5>1. bad = 0 /\ one = 0 /\ chg = 1
          BY <3>1, <4>1
        <5> HIDE DEF one, bad, chg
        <5>2. QED
          BY <5>1
      <4>2. CASE result = "no contribution"
        <5>1. bad = 0 /\ one = 1 /\ chg = 0
          BY <3>1, <4>2
        <5> HIDE DEF one, bad, chg
        <5>2. QED
          BY <5>1
      <4>3. CASE result = "error"
        <5>1. bad = 1 /\ one = 0
          BY <4>3
        <5> HIDE DEF one, bad, chg
        <5>2. QED
          BY <3>2, <5>1
      <4>4. QED
        BY <3>1, <4>1, <4>2, <4>3
    <3>4. /\ failures'[x] = failures[x] + bad /\ noOps'[x] = noOps[x] + one
          /\ changes'[x] = changes[x] + chg /\ ran'[x] = ran[x] + 1
      <4> HIDE DEF one, bad, chg, op
      <4>1. QED
        BY <1>b, <1>e, <1>n, <2>2
    <3> HIDE DEF one, bad, chg
    <3>5. QED
      BY <1>f, <2>1, <3>2, <3>3, <3>4
  <2>3. CASE x # op
    <3> HIDE DEF one, bad, chg, op
    <3>1. failures'[x] = failures[x] /\ noOps'[x] = noOps[x] /\ changes'[x] = changes[x] /\ ran'[x] = ran[x]
      BY <1>e, <1>n, <2>3
    <3>2. QED
      BY <2>1, <3>1
  <2>4. QED
    BY <2>2, <2>3
<1>9. Finished'
  BY <1>c DEF Finished, Alive
<1>10. QED
  BY <1>3, <1>5, <1>6, <1>7, <1>8, <1>9

\* Every step keeps the invariant.
LEMMA StepHolds ==
  ASSUME WInv, [Next]_vars
  PROVE  WInv'
<1>1. ASSUME NEW w \in Worker, CheckContext(w) \/ Call(w) \/ CallFails(w) \/ Record(w)
      PROVE  WInv'
  BY <1>1, CheckContextHolds, CallHolds, CallFailsHolds, RecordHolds
<1>2. CASE Return
  <2>1. UNCHANGED <<ops, worker, docs, names, coverage, changes, cancelled, panicked>>
    BY <1>2 DEF Return
  <2>2. TypeOK'
    BY <1>2, <2>1 DEF WInv, TypeOK, Return, coverage
  <2>3. Steps' /\ Truth'
    BY <2>1 DEF WInv, Steps, StepOf, Size, Position, Truth, TruthOf
  <2>4. Tally' /\ Counted'
    <3>1. \A op \in Range(ops) : Recorded(op)' = Recorded(op)
      BY <2>1 DEF Recorded, Size, Position
    <3>2. UNCHANGED <<ops, ran, failures, noOps, changes>>
      BY <2>1 DEF coverage
    <3>3. QED
      BY <3>1, <3>2 DEF WInv, Tally, Counted, Judged
  <2>5. Finished'
    BY <1>2 DEF Return, Finished
  <2>6. QED
    BY <2>2, <2>3, <2>4, <2>5 DEF WInv
<1>3. CASE Cancel
  <2>1. UNCHANGED <<ops, worker, docs, names, coverage, changes, panicked, returned>>
    BY <1>3 DEF Cancel
  <2>2. TypeOK'
    BY <1>3, <2>1 DEF WInv, TypeOK, Cancel, coverage
  <2>3. Steps' /\ Truth'
    BY <2>1 DEF WInv, Steps, StepOf, Size, Position, Truth, TruthOf
  <2>4. Tally' /\ Counted'
    <3>1. \A op \in Range(ops) : Recorded(op)' = Recorded(op)
      BY <2>1 DEF Recorded, Size, Position
    <3>2. UNCHANGED <<ops, ran, failures, noOps, changes>>
      BY <2>1 DEF coverage
    <3>3. QED
      BY <3>1, <3>2 DEF WInv, Tally, Counted, Judged
  <2>5. Finished'
    BY <2>1 DEF WInv, Finished
  <2>6. QED
    BY <2>2, <2>3, <2>4, <2>5 DEF WInv
<1>4. CASE UNCHANGED vars
  <2>1. UNCHANGED <<ops, worker, docs, names, coverage, changes, cancelled, panicked, returned>>
    BY <1>4 DEF vars, coverage
  <2>2. TypeOK'
    BY <2>1 DEF WInv, TypeOK, coverage
  <2>3. Steps' /\ Truth'
    BY <2>1 DEF WInv, Steps, StepOf, Size, Position, Truth, TruthOf
  <2>4. Tally' /\ Counted'
    <3>1. \A op \in Range(ops) : Recorded(op)' = Recorded(op)
      BY <2>1 DEF Recorded, Size, Position
    <3>2. UNCHANGED <<ops, ran, failures, noOps, changes>>
      BY <2>1 DEF coverage
    <3>3. QED
      BY <3>1, <3>2 DEF WInv, Tally, Counted, Judged
  <2>5. Finished'
    BY <2>1 DEF WInv, Finished
  <2>6. QED
    BY <2>2, <2>3, <2>4, <2>5 DEF WInv
<1>5. QED
  BY <1>1, <1>2, <1>3, <1>4 DEF Next, Ended


-----------------------------------------------------------------------------
(* The count of a complete workload                                        *)

\* Division, as Position uses it.
LEMMA PassAndPlace ==
  ASSUME NEW L \in Nat \ {0}, NEW q \in Nat, NEW r \in 1 .. L
  PROVE  /\ ((q * L + r) - 1) % L = r - 1
         /\ \A p \in Nat, s \in 1 .. L : q * L + r = p * L + s => q = p /\ r = s
         /\ \A n \in Nat \ {0} : q < n <=> q * L + r \in 1 .. n * L
<1> DEFINE k == r - 1
<1>0. k \in 0 .. L - 1 /\ r = k + 1
  OBVIOUS
<1> HIDE DEF k
<1>m. q * L \in Nat
  BY SMTT(20)
<1>1. (q * L + k) % L = k
  BY <1>0, SMTT(20)
<1>2. ((q * L + r) - 1) % L = r - 1
  <2>1. (q * L + r) - 1 = q * L + k /\ r - 1 = k
    BY <1>0, <1>m
  <2>2. QED
    BY <1>1, <2>1
<1>3. ASSUME NEW p \in Nat, NEW s \in 1 .. L, q * L + r = p * L + s PROVE q = p /\ r = s
  BY <1>3, SMTT(20)
<1>4. ASSUME NEW n \in Nat \ {0} PROVE q < n <=> q * L + r \in 1 .. n * L
  <2>1. ASSUME q < n PROVE q * L + r \in 1 .. n * L
    BY <2>1, <1>m, SMTT(20)
  <2>2. ASSUME ~(q < n) PROVE ~(q * L + r <= n * L)
    BY <2>2, SMTT(20)
  <2>3. QED
    BY <2>1, <2>2, <1>m
<1>5. QED
  BY <1>2, <1>3, <1>4

\* Every place of the workload is a place of the list in one of its passes.
LEMMA PlaceIn ==
  ASSUME NEW L \in Nat \ {0}, NEW n \in Nat \ {0}, NEW i \in 1 .. n * L
  PROVE  \E q \in 0 .. n - 1, r \in 1 .. L : i = q * L + r
<1>0. n * L \in Nat
  BY SMTT(20)
<1>1. i - 1 \in Nat /\ i \in Nat
  BY <1>0
<1> DEFINE q == (i - 1) \div L
           k == (i - 1) % L
<1>2. q \in Nat /\ k \in 0 .. L - 1 /\ i - 1 = q * L + k
  <2>1. \A m \in Nat : m = (m \div L) * L + (m % L) /\ m % L \in 0 .. L - 1 /\ m \div L \in Nat
    BY SMTT(20)
  <2>2. QED
    BY <1>1, <2>1
<1> HIDE DEF q, k
<1>3. q * L \in Nat
  BY <1>2, SMTT(20)
<1>4. k + 1 \in 1 .. L /\ i = q * L + (k + 1)
  BY <1>1, <1>2, <1>3
<1>5. q < n
  BY <1>2, <1>4, PassAndPlace
<1>6. q \in 0 .. n - 1
  BY <1>2, <1>5
<1>7. QED
  BY <1>4, <1>6

PlacesOf(op) == {i \in 1 .. Size : Position(i) = op}

\* Each pass runs an operation as often as the list names it.
LEMMA CountOfPlaces ==
  ASSUME ops \in Lists, NEW op \in Range(ops)
  PROVE  IsFiniteSet(PlacesOf(op)) /\ Cardinality(PlacesOf(op)) = Passes * Count(op)
<1> DEFINE L == Len(ops)
           M == {i \in DOMAIN ops : ops[i] = op}
           S == (1 .. Passes) \X M
           f == [p \in S |-> (p[1] - 1) * L + p[2]]
<1>1. DOMAIN ops = 1 .. L /\ L \in Nat /\ Passes \in Nat \ {0} /\ Size = Passes * L
  BY Places DEF Size
<1>2. L \in Nat \ {0}
  <2>1. PICK i \in DOMAIN ops : ops[i] = op
    BY DEF Range
  <2>2. i \in 1 .. L
    BY <1>1, <2>1
  <2>3. QED
    BY <1>1, <2>2
<1>3. IsFiniteSet(M) /\ IsFiniteSet(1 .. Passes) /\ Cardinality(1 .. Passes) = Passes
  <2>1. IsFiniteSet(1 .. L)
    BY <1>1, FS_Interval
  <2>2. IsFiniteSet(M)
    BY <1>1, <2>1, FS_Subset
  <2>3. IsFiniteSet(1 .. Passes)
    BY <1>1, FS_Interval
  <2>4. Cardinality(1 .. Passes) = Passes
    <3>1. 1 \in Int /\ Passes \in Int /\ ~(1 > Passes) /\ Passes - 1 + 1 = Passes
      BY <1>1
    <3>2. QED
      BY <3>1, FS_Interval
  <2>5. QED
    BY <2>2, <2>3, <2>4
<1>4. IsFiniteSet(S) /\ Cardinality(S) = Passes * Cardinality(M)
  BY <1>3, FS_Product
<1>p. \A p \in S : p[1] - 1 \in 0 .. Passes - 1 /\ p[1] \in Nat /\ p[2] \in 1 .. L /\ ops[p[2]] = op
                   /\ p = <<p[1], p[2]>>
  BY <1>1
<1>5. ASSUME NEW p \in S PROVE f[p] = (p[1] - 1) * L + p[2] /\ f[p] \in PlacesOf(op)
  <2> DEFINE q == p[1] - 1
             r == p[2]
  <2>1. q \in Nat /\ q < Passes /\ r \in 1 .. L /\ ops[r] = op /\ r \in Int
    BY <1>1, <1>p
  <2>2. f[p] = q * L + r
    OBVIOUS
  <2> HIDE DEF f, q, r
  <2>3. ((q * L + r) - 1) % L = r - 1 /\ q * L + r \in 1 .. Passes * L
    BY <1>1, <1>2, <2>1, PassAndPlace
  <2>4. Position(q * L + r) = ops[(r - 1) + 1]
    BY <2>3 DEF Position
  <2>5. (r - 1) + 1 = r
    BY <2>1
  <2>6. f[p] \in PlacesOf(op)
    BY <1>1, <2>1, <2>2, <2>3, <2>4, <2>5 DEF PlacesOf
  <2>7. QED
    BY <2>2, <2>6 DEF q, r
<1>6. ASSUME NEW p \in S, NEW s \in S, f[p] = f[s] PROVE p = s
  <2>1. (p[1] - 1) * L + p[2] = (s[1] - 1) * L + s[2]
    BY <1>5, <1>6
  <2>2. p[1] - 1 \in Nat /\ s[1] - 1 \in Nat /\ p[2] \in 1 .. L /\ s[2] \in 1 .. L
    BY <1>1, <1>p
  <2>3. p[1] - 1 = s[1] - 1 /\ p[2] = s[2]
    <3> HIDE DEF L, S
    <3>1. \A q, m \in Nat, r, k \in 1 .. L : q * L + r = m * L + k => q = m /\ r = k
      BY <1>2, PassAndPlace
    <3>2. QED
      BY <2>1, <2>2, <3>1
  <2>4. p[1] = s[1]
    BY <1>p, <2>3
  <2>5. QED
    BY <1>p, <2>3, <2>4
<1>7. ASSUME NEW i \in PlacesOf(op) PROVE \E p \in S : f[p] = i
  <2>1. i \in 1 .. Passes * L /\ Position(i) = op
    BY <1>1 DEF PlacesOf
  <2>2. PICK q \in 0 .. Passes - 1, r \in 1 .. L : i = q * L + r
    BY <1>1, <1>2, <2>1, PlaceIn
  <2>3. q \in Nat /\ q + 1 \in 1 .. Passes /\ (q + 1) - 1 = q /\ (r - 1) + 1 = r
    BY <1>1, <2>2
  <2>4. (i - 1) % L = r - 1
    BY <1>2, <2>2, <2>3, PassAndPlace
  <2>5. ops[r] = op
    BY <2>1, <2>3, <2>4 DEF Position
  <2>6. <<q + 1, r>> \in S
    BY <1>1, <2>3, <2>5
  <2>7. f[<<q + 1, r>>] = i
    BY <1>5, <2>2, <2>3, <2>6
  <2>8. QED
    BY <2>6, <2>7
<1>8. f \in Bijection(S, PlacesOf(op))
  <2>1. f \in [S -> PlacesOf(op)]
    BY <1>5
  <2> HIDE DEF f, S
  <2>2. IsInjective(f)
    BY <1>6, <2>1 DEF IsInjective
  <2>3. QED
    BY <1>7, <2>1, <2>2 DEF Bijection, Injection, Surjection
<1>9. QED
  BY <1>4, <1>8, FS_Bijection DEF ExistsBijection, Count

\* When every worker is done, everything has been recorded.
LEMMA AllRecorded ==
  ASSUME WInv, \A w \in Worker : worker[w].pc = "done", NEW op \in Range(ops)
  PROVE  Cardinality(Recorded(op)) = Cardinality(Worker) * Passes * Count(op)
<1>1. ops \in Lists /\ Size \in Nat /\ IsFiniteSet(Worker)
  BY TypeParts, Places, WorkersAssumption DEF WInv
<1>2. \A w \in Worker : worker[w].at = Size + 1
  BY DEF WInv, Steps, StepOf
<1>3. Recorded(op) = Worker \X PlacesOf(op)
  BY <1>1, <1>2 DEF Recorded, PlacesOf
<1>4. IsFiniteSet(PlacesOf(op)) /\ Cardinality(PlacesOf(op)) = Passes * Count(op)
  BY <1>1, CountOfPlaces
<1>5. Cardinality(Recorded(op)) = Cardinality(Worker) * (Passes * Count(op))
  BY <1>1, <1>3, <1>4, FS_Product
<1>6. Passes \in Nat /\ Count(op) \in Nat /\ Cardinality(Worker) \in Nat
  <2>1. DOMAIN ops = 1 .. Len(ops) /\ Len(ops) \in Nat
    BY <1>1, Places
  <2>2. IsFiniteSet(1 .. Len(ops))
    BY <2>1, FS_Interval
  <2>3. IsFiniteSet({i \in DOMAIN ops : ops[i] = op})
    BY <2>1, <2>2, FS_Subset
  <2>4. Count(op) \in Nat
    BY <2>3, FS_CardinalityType DEF Count
  <2>5. QED
    BY <1>1, <2>4, Places, FS_CardinalityType
<1>7. \A a, b, c \in Nat : a * (b * c) = a * b * c
  BY SMTT(20)
<1>8. QED
  BY <1>5, <1>6, <1>7

-----------------------------------------------------------------------------
(* The theorems                                                            *)

\* The workload's state is well typed: in particular an operation of the list always
\* has a result Coverage knows, and a worker never goes past its second call.
THEOREM WorkloadTypes == Spec => []TypeOK
<1>1. Init => WInv
  BY InitHolds
<1>2. WInv /\ [Next]_vars => WInv'
  BY StepHolds
<1>3. WInv => TypeOK
  BY DEF WInv
<1>4. QED
  BY <1>1, <1>2, <1>3, PTL DEF Spec

\* Workload.Run returns no error only after every worker has run every operation of
\* every pass, and each is counted exactly once: for any number of workers, any list
\* and any number of passes, however the workers overlap, calls fail or the context
\* is cancelled.
THEOREM NilIsComplete == Spec => []CompleteOrError
<1>1. Init => WInv
  BY InitHolds
<1>2. WInv /\ [Next]_vars => WInv'
  BY StepHolds
<1>3. WInv => CompleteOrError
  <2> SUFFICES ASSUME WInv, returned = "nil", NEW op \in Range(ops)
               PROVE  ran[op] = Cardinality(Worker) * Passes * Count(op)
    BY DEF CompleteOrError
  <2>1. ran[op] = Cardinality(Recorded(op))
    BY DEF WInv, Tally
  <2>2. \A w \in Worker : worker[w].pc = "done"
    BY DEF WInv, Finished
  <2>3. QED
    BY <2>1, <2>2, AllRecorded
<1>4. QED
  BY <1>1, <1>2, <1>3, PTL DEF Spec

\* What assertEveryOperationContributed concludes from the counts of an operation that
\* reports its changes is right, whatever the workers do to each other's documents.
THEOREM CountsAreTheTruth == Spec => []CountedOpsAreJudgedRight
<1>1. Init => WInv
  BY InitHolds
<1>2. WInv /\ [Next]_vars => WInv'
  BY StepHolds
<1>3. WInv => CountedOpsAreJudgedRight
  <2> SUFFICES ASSUME WInv, NEW op \in CountedOps \cap Range(ops)
               PROVE  /\ Contributed(op) => changes[op] > 0
                      /\ failures[op] = 0 /\ changes[op] > 0 => Contributed(op)
    BY DEF CountedOpsAreJudgedRight
  <2>1. /\ failures[op] + noOps[op] <= ran[op]
        /\ ran[op] <= failures[op] + noOps[op] + changes[op]
        /\ noOps[op] + changes[op] <= ran[op]
    BY DEF WInv, Counted, Judged
  <2>2. failures[op] \in Nat /\ noOps[op] \in Nat /\ changes[op] \in Nat /\ ran[op] \in Nat
    BY DEF WInv, TypeOK
  <2>3. QED
    BY <2>1, <2>2 DEF Contributed
<1>4. QED
  BY <1>1, <1>2, <1>3, PTL DEF Spec

-----------------------------------------------------------------------------
(* The performance gate                                                    *)

NoRepeats(s) == \A i, j \in DOMAIN s : s[i] = s[j] => i = j

(* A server at abandoned work is being stopped, as is every server when perfgate leaves
   a round; one that is up was started for the round. *)
ServersStopped ==
  /\ \A t \in Builds : server[t] \in {"busy", "ending"} => t \in stopping
  /\ phase \in {"calibrated", "open", "closing", "done"} =>
       \A t \in Builds : server[t] = "none" \/ t \in stopping
  /\ phase = "open" => stopping = {}
  /\ phase \in {"calibrate", "sample"} =>
       \A t \in Builds : server[t] = "up" => born[t] = round

(* The rounds of both passes are counted in one sequence. *)
Planned == IF stage = "first" THEN Samples ELSE Samples + ConfirmSamples

Concluded == phase = "done" /\ exit # 2
Sampling == phase \in {"open", "sample", "closing"} \/ Concluded

RoundsCounted ==
  /\ phase # "done" => exit = -1
  /\ phase \in {"calibrate", "calibrated"} => stage = "first" /\ round = 0 /\ left = Samples
  /\ Sampling => round >= 1 /\ round - 1 + left = Planned
  /\ phase \in {"sample", "closing"} => left > 0
  /\ phase = "sample" /\ turn = 2 => todo # << >> /\ ~Skipped(Head(todo))
  /\ phase = "closing" => todo = << >>
  /\ Concluded => left = 0 /\ ~Confirming

(* A failure of head is recorded, and keeps the benchmark in the report. *)
HeadFailuresKept ==
  \A b \in Listed :
    /\ headRuns[b] \cap {"error", "timeout", "crash"} # {} => results[b].headError
    /\ results[b].headError => results[b].kept
    /\ phase = "calibrate" /\ b \in Range(todo) => ~results[b].headError

(* The first pass samples all that calibration kept, the second what seemed slower. *)
OthersAcquitted ==
  /\ Sampling => sampled \subseteq Kept /\ (stage = "first" => sampled = Kept)
  /\ stage = "confirm" => \A b \in Kept \ sampled : Judge(results[b]) # "REGRESSION"

(* How many samples this round leaves a benchmark that does not fail with: one of
   every round before, and one of this round once its turn was over. *)
Had(b, t) ==
  IF b \in Range(todo) /\ ~(turn = 2 /\ b = Head(todo) /\ t = Order[1])
  THEN round - 1 ELSE round

SamplesPaired ==
  \A b \in Listed :
    /\ phase \in {"calibrate", "calibrated"} => results[b].base = << >> /\ results[b].head = << >>
    /\ (phase = "open" \/ Concluded) /\ ~Failed(results[b]) =>
         /\ Len(results[b].base) = Len(results[b].head)
         /\ b \in sampled => Len(results[b].head) = round - 1
    /\ phase \in {"sample", "closing"} /\ ~Failed(results[b]) =>
         IF b \in sampled
         THEN Len(results[b].base) = Had(b, "base") /\ Len(results[b].head) = Had(b, "head")
         ELSE Len(results[b].base) = Len(results[b].head)

(* An exit status of success is given to no failure of head. *)
ExitIsEarned == exit = 0 => ~Regressed

GateInv ==
  /\ GateTypeOK /\ NoRepeats(todo) /\ ServersStopped /\ RoundsCounted
  /\ HeadFailuresKept /\ OthersAcquitted /\ SamplesPaired /\ ExitIsEarned

(* What is left of a list without repetitions after its first element: the same
   elements but that one. *)
LEMMA TailOfList ==
  ASSUME NEW S, NEW s \in Seq(S), s # << >>, NoRepeats(s)
  PROVE  /\ Head(s) \in S /\ Head(s) \in Range(s)
         /\ Tail(s) \in Seq(S) /\ NoRepeats(Tail(s))
         /\ Range(Tail(s)) = Range(s) \ {Head(s)}
<1>1. Len(s) \in Nat /\ Len(s) >= 1 /\ DOMAIN s = 1 .. Len(s)
  BY EmptySeq
<1>2. Head(s) = s[1] /\ Head(s) \in S /\ 1 \in DOMAIN s
  BY <1>1
<1>3. /\ Tail(s) \in Seq(S) /\ Len(Tail(s)) = Len(s) - 1
      /\ DOMAIN Tail(s) = 1 .. Len(s) - 1
      /\ \A i \in 1 .. Len(s) - 1 : Tail(s)[i] = s[i + 1]
  BY <1>1, HeadTailProperties
<1>4. NoRepeats(Tail(s))
  <2> SUFFICES ASSUME NEW i \in 1 .. Len(s) - 1, NEW j \in 1 .. Len(s) - 1,
                      Tail(s)[i] = Tail(s)[j]
               PROVE  i = j
    BY <1>3 DEF NoRepeats
  <2>1. s[i + 1] = s[j + 1] /\ i + 1 \in DOMAIN s /\ j + 1 \in DOMAIN s
    BY <1>1, <1>3
  <2>2. QED
    BY <2>1 DEF NoRepeats
<1>5. \A x \in Range(Tail(s)) : x \in Range(s) \ {Head(s)}
  <2> SUFFICES ASSUME NEW i \in 1 .. Len(s) - 1
               PROVE  Tail(s)[i] \in Range(s) \ {Head(s)}
    BY <1>3 DEF Range
  <2>1. i + 1 \in DOMAIN s /\ i + 1 # 1 /\ Tail(s)[i] = s[i + 1]
    BY <1>1, <1>3
  <2>2. QED
    BY <1>2, <2>1 DEF NoRepeats, Range
<1>6. \A x \in Range(s) \ {Head(s)} : x \in Range(Tail(s))
  <2> SUFFICES ASSUME NEW i \in DOMAIN s, s[i] # Head(s)
               PROVE  s[i] \in Range(Tail(s))
    BY DEF Range
  <2>1. i - 1 \in 1 .. Len(s) - 1 /\ Tail(s)[i - 1] = s[i - 1 + 1] /\ i - 1 + 1 = i
    BY <1>1, <1>2, <1>3
  <2>2. QED
    BY <1>3, <2>1 DEF Range
<1>7. Head(s) \in Range(s)
  BY <1>2 DEF Range
<1>8. QED
  BY <1>2, <1>3, <1>4, <1>5, <1>6, <1>7

LEMMA ListIsListed == Benches \in Seq(Listed) /\ NoRepeats(Benches) /\ Range(Benches) = Listed
  BY BenchesAssumption DEF NoRepeats, Listed, IsInjective

LEMMA OrderOfBuilds ==
  ASSUME GateTypeOK
  PROVE  /\ Order \in {<<"base", "head">>, <<"head", "base">>}
         /\ Order[1] \in Builds /\ Order[2] \in Builds /\ Order[1] # Order[2]
         /\ Order[turn] \in Builds
<1>1. turn = 1 \/ turn = 2
  BY DEF GateTypeOK
<1>2. Order = <<"base", "head">> \/ Order = <<"head", "base">>
  BY DEF Order
<1>3. QED
  BY <1>1, <1>2 DEF Builds

LEMMA GateInitHolds ==
  ASSUME GateInit
  PROVE  GateInv
<1>1. GateTypeOK
  <2>1. Fresh \in BenchResult
    BY DEF Fresh, BenchResult
  <2>2. results \in [Listed -> BenchResult]
    BY <2>1 DEF GateInit
  <2>3. {} \in SUBSET Outcomes /\ Samples \in Nat /\ 0 \in 0 .. MaxCrashes
    BY RoundsAssumption
  <2>4. QED
    BY <2>2, <2>3, ListIsListed DEF GateInit, GateTypeOK, BenchResult, ServerStates, Builds
<1>2. NoRepeats(todo) /\ ServersStopped /\ RoundsCounted /\ ExitIsEarned /\ OthersAcquitted
  BY ListIsListed DEF GateInit, ServersStopped, RoundsCounted, ExitIsEarned, OthersAcquitted,
     Concluded, Sampling, Builds
<1>3. HeadFailuresKept /\ SamplesPaired
  BY DEF GateInit, HeadFailuresKept, SamplesPaired, Concluded, Fresh
<1>4. QED
  BY <1>1, <1>2, <1>3 DEF GateInv

(* A run leaves its server as it was or dead, and is remembered. *)
LEMMA RanFacts ==
  ASSUME GateTypeOK, ServersStopped, phase \in {"calibrate", "sample"}, UNCHANGED <<phase, round>>,
         NEW t \in Builds, NEW b \in Listed, NEW o \in Outcomes, Ran(t, b, o)
  PROVE  /\ server' \in [Builds -> ServerStates] /\ UNCHANGED <<born, stopping>>
         /\ timedOut' \in BOOLEAN /\ ServersStopped'
         /\ headRuns' \in [Listed -> SUBSET Outcomes]
         /\ \A c \in Listed :
              headRuns'[c] = IF t = "head" /\ c = b THEN headRuns[c] \cup {o} ELSE headRuns[c]
<1>1. /\ server' \in [Builds -> ServerStates] /\ UNCHANGED <<born, stopping>>
      /\ timedOut' \in BOOLEAN
      /\ \A u \in Builds : server'[u] = server[u] \/ server'[u] = "dead"
  BY DEF Ran, GateTypeOK, ServerStates
<1>2. ServersStopped'
  BY <1>1 DEF ServersStopped
<1>3. QED
  BY <1>1, <1>2 DEF Ran, GateTypeOK

LEMMA TargetIsBuild ==
  ASSUME GateTypeOK
  PROVE  Target \in Builds
  BY OrderOfBuilds DEF Target, Builds

(* What only concerns the servers leaves the rest of the invariant alone. *)
LEMMA ServerStep ==
  ASSUME GateInv, GateTypeOK', ServersStopped',
         UNCHANGED <<phase, stage, round, left, sampled, todo, turn, results, exit, headRuns>>
  PROVE  GateInv'
<1>1. RoundsCounted' /\ ExitIsEarned' /\ NoRepeats(todo')
  BY DEF GateInv, RoundsCounted, ExitIsEarned, Concluded, Sampling, Planned, Skipped, Kept,
     Regressed, Confirming, Suspects
<1>2. HeadFailuresKept' /\ OthersAcquitted'
  BY DEF GateInv, HeadFailuresKept, OthersAcquitted, Concluded, Sampling, Kept
<1>3. SamplesPaired'
  BY DEF GateInv, SamplesPaired, Concluded, Had, Order
<1>4. QED
  BY <1>1, <1>2, <1>3 DEF GateInv

LEMMA RestartHolds ==
  ASSUME GateInv, Restart
  PROVE  GateInv'
<1>1. Target \in Builds /\ phase \in {"calibrate", "sample"}
  BY TargetIsBuild DEF GateInv, Restart, Due
<1>2. /\ server' = [server EXCEPT ![Target] = "up"] /\ born' = [born EXCEPT ![Target] = round]
      /\ UNCHANGED <<phase, stage, round, left, sampled, todo, turn, results, stopping, timedOut,
                     exit, crashes, headRuns>>
  BY DEF Restart
<1>3. GateTypeOK'
  BY <1>1, <1>2 DEF GateInv, GateTypeOK, ServerStates
<1>4. ServersStopped'
  BY <1>1, <1>2 DEF GateInv, GateTypeOK, ServersStopped
<1>5. QED
  BY <1>2, <1>3, <1>4, ServerStep

LEMMA TimesOutHolds ==
  ASSUME GateInv, TimesOut
  PROVE  GateInv'
<1>1. Target \in Builds /\ phase \in {"calibrate", "sample"} /\ stopping = {}
  BY TargetIsBuild DEF GateInv, TimesOut, Due
<1>2. PICK s \in {"busy", "dead"} : server' = [server EXCEPT ![Target] = s]
  BY DEF TimesOut
<1>3. /\ timedOut' = TRUE /\ stopping' = {Target}
      /\ UNCHANGED <<phase, stage, round, left, sampled, todo, turn, results, born, exit,
                     crashes, headRuns>>
  BY DEF TimesOut
<1>4. GateTypeOK'
  BY <1>1, <1>2, <1>3 DEF GateInv, GateTypeOK, ServerStates
<1>5. ServersStopped'
  BY <1>1, <1>2, <1>3 DEF GateInv, GateTypeOK, ServersStopped
<1>6. QED
  BY <1>3, <1>4, <1>5, ServerStep

(* A step of stop() brings the server it is called for nearer to its end. *)
LEMMA StopHolds ==
  ASSUME GateInv, Terminate \/ Exited \/ RemoveDir
  PROVE  GateInv'
<1>1. Stopping \in stopping /\ Stopping \in Builds
  <2>1. stopping # {} /\ stopping \subseteq {"base", "head"}
    BY DEF GateInv, GateTypeOK, Builds, Terminate, Exited, RemoveDir
  <2>2. QED
    BY <2>1 DEF Stopping, Builds
<1>2. UNCHANGED <<phase, stage, round, left, sampled, todo, turn, results, born, timedOut, exit,
                  crashes, headRuns>>
  BY DEF Terminate, Exited, RemoveDir
<1>3. PICK s \in {"ending", "dead", "none"} :
        /\ server' = [server EXCEPT ![Stopping] = s]
        /\ stopping' = stopping \/ (s = "none" /\ stopping' = stopping \ {Stopping})
  BY DEF Terminate, Exited, RemoveDir
<1>4. GateTypeOK'
  BY <1>1, <1>2, <1>3 DEF GateInv, GateTypeOK, ServerStates
<1>5. /\ server'[Stopping] = s /\ \A t \in Builds : t # Stopping => server'[t] = server[t]
      /\ stopping' \subseteq stopping /\ (s # "none" => Stopping \in stopping')
      /\ \A t \in stopping : t # Stopping => t \in stopping'
  BY <1>1, <1>3 DEF GateInv, GateTypeOK
<1>6. ServersStopped'
  BY <1>2, <1>5 DEF GateInv, ServersStopped
<1>7. QED
  BY <1>2, <1>4, <1>6, ServerStep

LEMMA CloseHolds ==
  ASSUME GateInv, Close
  PROVE  GateInv'
<1>1. /\ phase \in {"calibrate", "sample"} /\ todo = << >> /\ stopping' = Builds
      /\ phase' = IF phase = "calibrate" THEN "calibrated" ELSE "closing"
      /\ UNCHANGED <<stage, round, left, sampled, todo, turn, results, server, born, timedOut, exit,
                     crashes, headRuns>>
  BY DEF Close
<1>2. GateTypeOK' /\ NoRepeats(todo')
  BY <1>1 DEF GateInv, GateTypeOK
<1>3. ServersStopped' /\ RoundsCounted' /\ ExitIsEarned'
  BY <1>1 DEF GateInv, ServersStopped, RoundsCounted, ExitIsEarned, Concluded, Sampling, Planned
<1>4. HeadFailuresKept' /\ OthersAcquitted'
  BY <1>1 DEF GateInv, HeadFailuresKept, OthersAcquitted, Concluded, Sampling, Kept
<1>5. SamplesPaired'
  BY <1>1 DEF GateInv, SamplesPaired, Concluded, Had, Order
<1>6. QED
  BY <1>2, <1>3, <1>4, <1>5 DEF GateInv

LEMMA CalibrateHolds ==
  ASSUME GateInv, NEW o \in Outcomes, Calibrate(o)
  PROVE  GateInv'
<1> DEFINE b == Head(todo)
           t == Target
           fails == o \in {"error", "timeout", "crash"}
           more == turn = 1 /\ fails
<1>1. /\ phase = "calibrate" /\ todo # << >> /\ Ran(t, b, o) /\ t \in Builds
      /\ turn' = (IF more THEN 2 ELSE 1)
      /\ todo' = (IF more THEN todo ELSE Tail(todo))
      /\ UNCHANGED <<phase, stage, round, left, sampled, exit, crashes>>
      /\ exit = -1 /\ stage = "first"
  BY TargetIsBuild DEF Calibrate, Due, GateInv, RoundsCounted
<1>2. /\ b \in Listed /\ b \in Range(todo)
      /\ Tail(todo) \in Seq(Listed) /\ NoRepeats(Tail(todo))
      /\ Range(Tail(todo)) = Range(todo) \ {b}
  BY <1>1, TailOfList DEF GateInv, GateTypeOK
<1>3. /\ todo' \in Seq(Listed) /\ NoRepeats(todo')
      /\ Range(todo') \subseteq Range(todo)
      /\ more \/ b \notin Range(todo')
  BY <1>1, <1>2 DEF GateInv, GateTypeOK
<1>4. /\ server' \in [Builds -> ServerStates] /\ UNCHANGED <<born, stopping>>
      /\ timedOut' \in BOOLEAN /\ ServersStopped'
      /\ headRuns' \in [Listed -> SUBSET Outcomes]
      /\ \A c \in Listed :
           headRuns'[c] = IF t = "head" /\ c = b THEN headRuns[c] \cup {o} ELSE headRuns[c]
  <2>1. GateTypeOK /\ ServersStopped
    BY DEF GateInv
  <2> HIDE DEF b, t
  <2>2. QED
    BY <1>1, <1>2, <2>1, RanFacts
<1> DEFINE r == [results[b] EXCEPT !.kept = ~more /\ o # "skip",
                    !.baseError = @ \/ (t = "base" /\ fails),
                    !.headError = @ \/ (t = "head" /\ fails)]
<1>5. results \in [Listed -> BenchResult]
  BY DEF GateInv, GateTypeOK, BenchResult
<1>6. results' = [results EXCEPT ![b] = r]
  BY <1>5, <1>2 DEF Calibrate, BenchResult
<1>7. /\ r \in BenchResult
      /\ r.kept = (~more /\ o # "skip")
      /\ r.headError = (results[b].headError \/ (t = "head" /\ fails))
      /\ r.base = results[b].base /\ r.head = results[b].head
  BY <1>2, <1>5 DEF BenchResult
<1>8. /\ results' \in [Listed -> BenchResult] /\ results'[b] = r
      /\ \A c \in Listed : c # b => results'[c] = results[c]
  BY <1>2, <1>5, <1>6, <1>7
<1>9. GateTypeOK'
  <2>1. turn' \in {1, 2}
    BY <1>1
  <2>2. QED
    BY <1>1, <1>3, <1>4, <1>8, <2>1 DEF GateInv, GateTypeOK, BenchResult
<1>10. ServersStopped' /\ RoundsCounted' /\ ExitIsEarned' /\ OthersAcquitted'
  BY <1>1, <1>4 DEF GateInv, RoundsCounted, ExitIsEarned, OthersAcquitted, Concluded, Sampling
<1>11. SamplesPaired'
  BY <1>1, <1>2, <1>7, <1>8 DEF GateInv, SamplesPaired, Concluded
<1>12. HeadFailuresKept'
  <2> SUFFICES ASSUME NEW c \in Listed
               PROVE  /\ headRuns'[c] \cap {"error", "timeout", "crash"} # {} => results'[c].headError
                      /\ results'[c].headError => results'[c].kept
                      /\ c \in Range(todo') => ~results'[c].headError
    BY <1>1 DEF HeadFailuresKept
  <2>1. /\ headRuns[c] \cap {"error", "timeout", "crash"} # {} => results[c].headError
        /\ results[c].headError => results[c].kept
        /\ c \in Range(todo) => ~results[c].headError
    BY <1>1 DEF GateInv, HeadFailuresKept
  <2>2. CASE c # b
    BY <1>3, <1>4, <1>8, <2>1, <2>2
  <2>3. CASE c = b
    <3>1. results'[c].headError = (t = "head" /\ fails)
      BY <1>2, <1>7, <1>8, <2>1, <2>3
    <3>2. t = "head" => ~more
      BY <1>1 DEF Target
    <3>3. (t = "head" /\ fails) => results'[c].kept
      BY <1>7, <1>8, <2>3, <3>2
    <3>4. headRuns'[c] \cap {"error", "timeout", "crash"} # {} => t = "head" /\ fails
      BY <1>2, <1>4, <2>1, <2>3
    <3>5. more => t = "base"
      BY <1>1 DEF Target
    <3>6. c \in Range(todo') => t = "base"
      BY <1>3, <2>3, <3>5
    <3>7. QED
      BY <3>1, <3>3, <3>4, <3>6
  <2>4. QED
    BY <2>2, <2>3
<1>13. QED
  BY <1>3, <1>9, <1>10, <1>11, <1>12 DEF GateInv

LEMMA CalibratedHolds ==
  ASSUME GateInv, Calibrated
  PROVE  GateInv'
<1>1. /\ phase = "calibrated" /\ phase' = "open" /\ round = 0 /\ round' = 1
      /\ stage = "first" /\ left = Samples /\ exit = -1
      /\ sampled' = Kept /\ stopping = {}
      /\ UNCHANGED <<stage, left, todo, turn, results, server, born, stopping, timedOut, exit,
                     crashes, headRuns>>
  BY DEF Calibrated, GateInv, RoundsCounted, serverVars
<1>2. \A t \in Builds : server'[t] = "none"
  BY <1>1 DEF GateInv, ServersStopped
<1>3. GateTypeOK' /\ NoRepeats(todo')
  BY <1>1, <1>2 DEF GateInv, GateTypeOK, Kept
<1>4. ServersStopped' /\ RoundsCounted' /\ ExitIsEarned'
  BY <1>1, <1>2, RoundsAssumption
     DEF GateInv, ServersStopped, RoundsCounted, ExitIsEarned, Concluded, Sampling, Planned
<1>5. HeadFailuresKept' /\ OthersAcquitted'
  BY <1>1 DEF GateInv, HeadFailuresKept, OthersAcquitted, Kept
<1>6. SamplesPaired'
  BY <1>1 DEF GateInv, SamplesPaired, Concluded
<1>7. QED
  BY <1>3, <1>4, <1>5, <1>6 DEF GateInv

LEMMA OpenRoundHolds ==
  ASSUME GateInv, OpenRound
  PROVE  GateInv'
<1>1. /\ phase = "open" /\ phase' = "sample" /\ left > 0
      /\ todo' = Benches /\ turn' = 1 /\ server' = [t \in Builds |-> "up"]
      /\ born' = [t \in Builds |-> round]
      /\ UNCHANGED <<stage, round, left, sampled, results, stopping, timedOut, exit, crashes,
                     headRuns>>
  BY DEF OpenRound
<1>2. GateTypeOK' /\ NoRepeats(todo')
  BY <1>1, ListIsListed DEF GateInv, GateTypeOK, ServerStates
<1>3. ServersStopped' /\ RoundsCounted' /\ ExitIsEarned'
  BY <1>1 DEF GateInv, ServersStopped, RoundsCounted, ExitIsEarned, Concluded, Sampling,
     Planned, Regressed, Kept
<1>4. HeadFailuresKept' /\ OthersAcquitted'
  BY <1>1 DEF GateInv, HeadFailuresKept, OthersAcquitted, Kept, Sampling, Concluded
<1>5. SamplesPaired'
  BY <1>1, ListIsListed DEF GateInv, SamplesPaired, Concluded, Had
<1>6. QED
  BY <1>2, <1>3, <1>4, <1>5 DEF GateInv

LEMMA SkipHolds ==
  ASSUME GateInv, Skip
  PROVE  GateInv'
<1> DEFINE b == Head(todo)
<1>1. /\ phase = "sample" /\ todo # << >> /\ turn = 1 /\ todo' = Tail(todo)
      /\ b \notin sampled \/ Failed(results[b])
      /\ UNCHANGED <<phase, stage, round, left, sampled, turn, results, server, born, stopping,
                     timedOut, exit, crashes, headRuns>>
  BY DEF Skip, Skipped, serverVars
<1>2. /\ b \in Listed /\ b \in Range(todo)
      /\ Tail(todo) \in Seq(Listed) /\ NoRepeats(Tail(todo))
      /\ Range(Tail(todo)) = Range(todo) \ {b}
  BY <1>1, TailOfList DEF GateInv, GateTypeOK
<1>3. GateTypeOK' /\ NoRepeats(todo')
  BY <1>1, <1>2 DEF GateInv, GateTypeOK
<1>4. ServersStopped' /\ RoundsCounted' /\ ExitIsEarned'
  BY <1>1 DEF GateInv, ServersStopped, RoundsCounted, ExitIsEarned, Concluded, Sampling,
     Planned, Regressed, Kept
<1>5. HeadFailuresKept' /\ OthersAcquitted'
  BY <1>1, <1>2 DEF GateInv, HeadFailuresKept, OthersAcquitted, Kept, Sampling, Concluded
<1>6. SamplesPaired'
  <2> SUFFICES ASSUME NEW c \in Listed, ~Failed(results[c])
               PROVE  IF c \in sampled
                      THEN /\ Len(results[c].base) = Had(c, "base")'
                           /\ Len(results[c].head) = Had(c, "head")'
                      ELSE Len(results[c].base) = Len(results[c].head)
    BY <1>1 DEF SamplesPaired, Concluded
  <2>1. IF c \in sampled
        THEN Len(results[c].base) = Had(c, "base") /\ Len(results[c].head) = Had(c, "head")
        ELSE Len(results[c].base) = Len(results[c].head)
    BY <1>1 DEF GateInv, SamplesPaired
  <2>2. c \in sampled => c # b
    BY <1>1
  <2>3. c # b => \A t \in Builds : Had(c, t)' = Had(c, t)
    BY <1>1, <1>2 DEF Had
  <2>4. QED
    BY <2>1, <2>2, <2>3 DEF Builds
<1>7. QED
  BY <1>3, <1>4, <1>5, <1>6 DEF GateInv

LEMMA EndRoundHolds ==
  ASSUME GateInv, EndRound
  PROVE  GateInv'
<1>1. /\ phase = "closing" /\ todo = << >> /\ phase' = "open" /\ stopping = {}
      /\ round' = round + 1 /\ left' = left - 1
      /\ UNCHANGED <<stage, sampled, todo, turn, results, server, born, stopping, timedOut, exit,
                     crashes, headRuns>>
  BY DEF EndRound, serverVars, GateInv, RoundsCounted
<1>2. /\ left > 0 /\ left \in Nat /\ round \in Nat /\ round >= 1 /\ exit = -1
      /\ round - 1 + left = Planned /\ Planned \in Nat
  BY <1>1, RoundsAssumption DEF GateInv, GateTypeOK, RoundsCounted, Sampling, Planned
<1>3. \A t \in Builds : server'[t] = "none"
  BY <1>1 DEF GateInv, ServersStopped
<1>4. GateTypeOK' /\ NoRepeats(todo')
  BY <1>1, <1>2, <1>3 DEF GateInv, GateTypeOK
<1>5. ServersStopped' /\ ExitIsEarned'
  BY <1>1, <1>2, <1>3 DEF ServersStopped, ExitIsEarned
<1>6. RoundsCounted'
  <2>1. Planned' = Planned /\ round' - 1 + left' = Planned /\ round' >= 1
    BY <1>1, <1>2 DEF Planned
  <2>2. QED
    BY <1>1, <1>2, <2>1 DEF RoundsCounted, Concluded
<1>7. HeadFailuresKept' /\ OthersAcquitted'
  BY <1>1 DEF GateInv, HeadFailuresKept, OthersAcquitted, Kept, Sampling, Concluded
<1>8. SamplesPaired'
  <2>1. Range(todo) = {}
    BY <1>1 DEF Range
  <2>2. \A b \in Listed : Had(b, "base") = round /\ Had(b, "head") = round
    BY <2>1 DEF Had
  <2>3. round' - 1 = round
    BY <1>1, <1>2
  <2>4. QED
    BY <1>1, <2>2, <2>3 DEF GateInv, SamplesPaired, Concluded
<1>9. QED
  BY <1>4, <1>5, <1>6, <1>7, <1>8 DEF GateInv

LEMMA ConfirmHolds ==
  ASSUME GateInv, Confirm
  PROVE  GateInv'
<1>1. /\ phase = "open" /\ left = 0 /\ stage = "first" /\ stage' = "confirm"
      /\ sampled' = Suspects /\ left' = ConfirmSamples
      /\ UNCHANGED <<phase, round, todo, turn, results, server, born, stopping, timedOut, exit,
                     crashes, headRuns>>
  BY DEF Confirm, Confirming, serverVars
<1>2. /\ round \in Nat /\ round >= 1 /\ round - 1 + 0 = Samples /\ exit = -1
      /\ Samples \in Nat /\ ConfirmSamples \in Nat /\ sampled = Kept
  BY <1>1, RoundsAssumption
     DEF GateInv, GateTypeOK, RoundsCounted, OthersAcquitted, Sampling, Planned
<1>3. Suspects \subseteq sampled /\ Kept' = Kept
  BY <1>1 DEF Suspects, Kept
<1>4. GateTypeOK' /\ NoRepeats(todo')
  BY <1>1, <1>2, <1>3 DEF GateInv, GateTypeOK
<1>5. ServersStopped' /\ RoundsCounted' /\ ExitIsEarned'
  BY <1>1, <1>2 DEF GateInv, ServersStopped, RoundsCounted, ExitIsEarned, Concluded, Sampling,
     Planned
<1>6. HeadFailuresKept' /\ OthersAcquitted'
  BY <1>1, <1>2, <1>3 DEF GateInv, HeadFailuresKept, OthersAcquitted, Suspects
<1>7. SamplesPaired'
  BY <1>1, <1>3 DEF GateInv, SamplesPaired, Concluded
<1>8. QED
  BY <1>4, <1>5, <1>6, <1>7 DEF GateInv

LEMMA ReportHolds ==
  ASSUME GateInv, Report
  PROVE  GateInv'
<1>1. /\ phase = "open" /\ left = 0 /\ ~Confirming /\ phase' = "done"
      /\ exit' \in {0, 1, 2} /\ (exit' = 0 => ~Regressed)
      /\ UNCHANGED <<stage, round, left, sampled, todo, turn, results, server, born, stopping,
                     timedOut, crashes, headRuns>>
  BY DEF Report, serverVars
<1>2. Kept' = Kept /\ Regressed' = Regressed /\ Confirming' = Confirming /\ Planned' = Planned
  BY <1>1 DEF Kept, Regressed, Confirming, Suspects, Planned
<1>3. GateTypeOK' /\ NoRepeats(todo')
  BY <1>1 DEF GateInv, GateTypeOK
<1>4. ServersStopped' /\ RoundsCounted' /\ ExitIsEarned'
  BY <1>1, <1>2 DEF GateInv, ServersStopped, RoundsCounted, ExitIsEarned, Concluded, Sampling
<1>5. HeadFailuresKept' /\ OthersAcquitted'
  BY <1>1, <1>2 DEF GateInv, HeadFailuresKept, OthersAcquitted, Sampling
<1>6. SamplesPaired'
  BY <1>1 DEF GateInv, SamplesPaired
<1>7. QED
  BY <1>3, <1>4, <1>5, <1>6 DEF GateInv

LEMMA CannotStartHolds ==
  ASSUME GateInv, CannotStart
  PROVE  GateInv'
<1>1. /\ phase' = "done" /\ exit' = 2 /\ stopping' = Builds
      /\ UNCHANGED <<stage, round, left, sampled, todo, turn, results, born, timedOut, crashes,
                     headRuns>>
  BY DEF CannotStart
<1>2. server' \in [Builds -> ServerStates]
  BY DEF CannotStart, GateInv, GateTypeOK, ServerStates
<1>3. GateTypeOK' /\ NoRepeats(todo')
  BY <1>1, <1>2 DEF GateInv, GateTypeOK
<1>4. ServersStopped' /\ RoundsCounted' /\ ExitIsEarned' /\ SamplesPaired'
  BY <1>1, <1>2 DEF ServersStopped, RoundsCounted, ExitIsEarned, SamplesPaired, Concluded,
     Sampling
<1>5. HeadFailuresKept' /\ OthersAcquitted'
  BY <1>1 DEF GateInv, HeadFailuresKept, OthersAcquitted, Sampling, Concluded, Kept
<1>6. QED
  BY <1>3, <1>4, <1>5 DEF GateInv

LEMMA CrashHolds ==
  ASSUME GateInv, NEW t \in Builds, Crash(t)
  PROVE  GateInv'
<1>1. /\ server[t] = "up" /\ server' = [server EXCEPT ![t] = "dead"]
      /\ crashes < MaxCrashes /\ crashes' = crashes + 1
      /\ UNCHANGED <<phase, stage, round, left, sampled, todo, turn, results, born, stopping,
                     timedOut, exit, headRuns>>
  BY DEF Crash
<1>2. /\ server' \in [Builds -> ServerStates] /\ crashes' \in 0 .. MaxCrashes
      /\ \A u \in Builds : u # t => server'[u] = server[u]
      /\ server'[t] = "dead"
  BY <1>1, RoundsAssumption DEF GateInv, GateTypeOK, ServerStates
<1>3. GateTypeOK'
  BY <1>1, <1>2 DEF GateInv, GateTypeOK
<1>4. ServersStopped'
  BY <1>1, <1>2 DEF GateInv, ServersStopped
<1>5. QED
  BY <1>1, <1>3, <1>4, ServerStep

(* What recording one run changes: the benchmark's samples of that build or the error
   of that build, and nothing else. *)
LEMMA RecordSampleFacts ==
  ASSUME GateTypeOK, NEW t \in Builds, NEW b \in Listed, NEW o \in Outcomes,
         NEW time \in Times, results' = RecordSample(t, b, o, time)
  PROVE  /\ results' \in [Listed -> BenchResult]
         /\ \A c \in Listed : c # b => results'[c] = results[c]
         /\ results'[b].kept = results[b].kept
         /\ o = "ok" => /\ results'[b].baseError = results[b].baseError
                        /\ results'[b].headError = results[b].headError
                        /\ Len(results'[b].base) =
                             IF t = "base" THEN Len(results[b].base) + 1 ELSE Len(results[b].base)
                        /\ Len(results'[b].head) =
                             IF t = "head" THEN Len(results[b].head) + 1 ELSE Len(results[b].head)
         /\ o # "ok" => /\ Failed(results'[b])
                        /\ results'[b].headError = (results[b].headError \/ t = "head")
<1>1. results \in [Listed -> BenchResult] /\ results[b] \in BenchResult
  BY DEF GateTypeOK, BenchResult
<1>2. t \in {"base", "head"}
  BY DEF Builds
<1>3. CASE o = "ok" /\ t = "base"
  <2>1. results' = [results EXCEPT ![b].base = Append(@, time)]
    BY <1>3 DEF RecordSample
  <2>2. Append(results[b].base, time) \in Seq(Times)
        /\ Len(Append(results[b].base, time)) = Len(results[b].base) + 1
    BY <1>1 DEF BenchResult
  <2>3. QED
    BY <1>1, <1>3, <2>1, <2>2 DEF BenchResult
<1>4. CASE o = "ok" /\ t = "head"
  <2>1. results' = [results EXCEPT ![b].head = Append(@, time)]
    BY <1>4 DEF RecordSample
  <2>2. Append(results[b].head, time) \in Seq(Times)
        /\ Len(Append(results[b].head, time)) = Len(results[b].head) + 1
    BY <1>1 DEF BenchResult
  <2>3. QED
    BY <1>1, <1>4, <2>1, <2>2 DEF BenchResult
<1>5. CASE o # "ok" /\ t = "base"
  <2>1. results' = [results EXCEPT ![b].baseError = TRUE]
    BY <1>5 DEF RecordSample
  <2>2. QED
    BY <1>1, <1>5, <2>1 DEF BenchResult, Failed
<1>6. CASE o # "ok" /\ t = "head"
  <2>1. results' = [results EXCEPT ![b].headError = TRUE]
    BY <1>6 DEF RecordSample
  <2>2. QED
    BY <1>1, <1>6, <2>1 DEF BenchResult, Failed
<1>7. QED
  BY <1>2, <1>3, <1>4, <1>5, <1>6

LEMMA SampleHolds ==
  ASSUME GateInv, NEW o \in Outcomes, NEW time \in Times, Sample(o, time)
  PROVE  GateInv'
<1> DEFINE b == Head(todo)
           t == Target
           on == o = "ok" /\ turn = 1
<1>1. /\ phase = "sample" /\ todo # << >> /\ ~(turn = 1 /\ Skipped(b)) /\ Ran(t, b, o)
      /\ results' = RecordSample(t, b, o, time)
      /\ turn' = (IF on THEN 2 ELSE 1)
      /\ todo' = (IF on THEN todo ELSE Tail(todo))
      /\ UNCHANGED <<phase, stage, round, left, sampled, exit, crashes>> /\ t = Order[turn]
  BY DEF Sample, NextTurn, Due, Target
<1>2. /\ b \in Listed /\ b \in Range(todo)
      /\ Tail(todo) \in Seq(Listed) /\ NoRepeats(Tail(todo))
      /\ Range(Tail(todo)) = Range(todo) \ {b}
  BY <1>1, TailOfList DEF GateInv, GateTypeOK
<1>3. /\ turn \in {1, 2} /\ t \in Builds /\ GateTypeOK /\ ServersStopped /\ round \in Nat
      /\ Order[1] \in Builds /\ Order[2] \in Builds /\ Order[1] # Order[2] /\ Order' = Order
  BY <1>1, OrderOfBuilds DEF GateInv, GateTypeOK, Order
<1>4. /\ ~Skipped(b) /\ b \in sampled /\ ~Failed(results[b])
  BY <1>1, <1>3 DEF GateInv, RoundsCounted, Skipped
<1> HIDE DEF b, t
<1>5. /\ server' \in [Builds -> ServerStates] /\ UNCHANGED <<born, stopping>>
      /\ timedOut' \in BOOLEAN /\ ServersStopped'
      /\ headRuns' \in [Listed -> SUBSET Outcomes]
      /\ \A c \in Listed :
           headRuns'[c] = IF t = "head" /\ c = b THEN headRuns[c] \cup {o} ELSE headRuns[c]
  <2>1. Ran(t, b, o) /\ t \in Builds /\ b \in Listed /\ GateTypeOK /\ ServersStopped
    BY <1>1, <1>2, <1>3
  <2>2. QED
    BY <1>1, <2>1, RanFacts
<1>6. /\ results' \in [Listed -> BenchResult]
      /\ \A c \in Listed : c # b => results'[c] = results[c]
      /\ results'[b].kept = results[b].kept
      /\ o = "ok" => /\ results'[b].baseError = results[b].baseError
                     /\ results'[b].headError = results[b].headError
                     /\ Len(results'[b].base) =
                          IF t = "base" THEN Len(results[b].base) + 1 ELSE Len(results[b].base)
                     /\ Len(results'[b].head) =
                          IF t = "head" THEN Len(results[b].head) + 1 ELSE Len(results[b].head)
      /\ o # "ok" => /\ Failed(results'[b])
                     /\ results'[b].headError = (results[b].headError \/ t = "head")
  BY <1>1, <1>2, <1>3, RecordSampleFacts
<1>7. /\ todo' \in Seq(Listed) /\ NoRepeats(todo')
      /\ on => todo' = todo
      /\ ~on => Range(todo') = Range(todo) \ {b}
  BY <1>1, <1>2 DEF GateInv, GateTypeOK
<1>8. Kept' = Kept
  BY <1>6 DEF Kept
<1>9. GateTypeOK'
  <2>1. turn' \in {1, 2}
    BY <1>1
  <2>2. QED
    BY <1>1, <1>3, <1>5, <1>6, <1>7, <2>1 DEF GateTypeOK, BenchResult
<1>10. ServersStopped' /\ ExitIsEarned'
  BY <1>1, <1>5 DEF GateInv, ExitIsEarned, RoundsCounted
<1>11. RoundsCounted'
  <2>1. turn' = 2 => todo' # << >> /\ ~Skipped(Head(todo))'
    <3>1. turn' = 2 => on
      BY <1>1
    <3>2. on => ~Failed(results'[b]) /\ todo' = todo
      BY <1>1, <1>4, <1>6 DEF Failed
    <3>3. QED
      BY <1>1, <1>4, <3>1, <3>2 DEF Skipped, b
  <2>2. QED
    BY <1>1, <2>1 DEF GateInv, RoundsCounted, Planned, Sampling, Concluded
<1>12. HeadFailuresKept'
  <2> SUFFICES ASSUME NEW c \in Listed
               PROVE  /\ headRuns'[c] \cap {"error", "timeout", "crash"} # {} => results'[c].headError
                      /\ results'[c].headError => results'[c].kept
    BY <1>1 DEF HeadFailuresKept
  <2>1. /\ headRuns[c] \cap {"error", "timeout", "crash"} # {} => results[c].headError
        /\ results[c].headError => results[c].kept
    BY DEF GateInv, HeadFailuresKept
  <2>2. b \in Kept
    BY <1>1, <1>4 DEF GateInv, OthersAcquitted, Sampling
  <2>3. CASE c # b
    BY <1>5, <1>6, <2>1, <2>3
  <2>4. CASE c = b
    <3>1. results'[c].kept
      BY <1>6, <2>2, <2>4 DEF Kept
    <3>2. CASE o = "ok"
      BY <1>5, <1>6, <2>1, <2>4, <3>1, <3>2
    <3>3. CASE o # "ok"
      BY <1>5, <1>6, <2>1, <2>4, <3>1, <3>3
    <3>4. QED
      BY <3>2, <3>3
  <2>5. QED
    BY <2>3, <2>4
<1>13. OthersAcquitted'
  BY <1>1, <1>4, <1>6, <1>8 DEF GateInv, OthersAcquitted, Sampling, Concluded, Kept
<1>14. SamplesPaired'
  <2> SUFFICES ASSUME NEW c \in Listed, ~Failed(results'[c])
               PROVE  IF c \in sampled
                      THEN /\ Len(results'[c].base) = Had(c, "base")'
                           /\ Len(results'[c].head) = Had(c, "head")'
                      ELSE Len(results'[c].base) = Len(results'[c].head)
    BY <1>1 DEF SamplesPaired, Concluded
  <2>1. ~Failed(results[c]) =>
          IF c \in sampled
          THEN Len(results[c].base) = Had(c, "base") /\ Len(results[c].head) = Had(c, "head")
          ELSE Len(results[c].base) = Len(results[c].head)
    BY <1>1 DEF GateInv, SamplesPaired
  <2>2. CASE c # b
    <3>1. \A u \in Builds : Had(c, u)' = Had(c, u)
      <4>1. c \in Range(todo)' <=> c \in Range(todo)
        BY <1>7, <2>2
      <4>2. c = Head(todo)' => c \notin Range(todo') \/ turn' # 2
        BY <1>1, <1>7, <2>2 DEF b
      <4>3. QED
        BY <1>1, <1>3, <2>2, <4>1, <4>2 DEF Had, b
    <3>2. QED
      BY <1>6, <2>1, <2>2, <3>1 DEF Builds
  <2>3. CASE c = b
    <3>1. o = "ok"
      BY <1>6, <2>3
    <3>2. Len(results[c].base) = Had(c, "base") /\ Len(results[c].head) = Had(c, "head")
      BY <1>4, <2>1, <2>3
    <3>3. CASE turn = 1
      <4>1. turn' = 2 /\ todo' = todo /\ t = Order[1]
        BY <1>1, <3>1, <3>3
      <4>2. \A u \in Builds : /\ Had(c, u) = round - 1
                              /\ Had(c, u)' = IF u = t THEN round ELSE round - 1
        BY <1>1, <1>2, <1>3, <2>3, <3>3, <4>1 DEF Had, b
      <4>3. Len(results'[c].base) = Had(c, "base")' /\ Len(results'[c].head) = Had(c, "head")'
        BY <1>3, <1>6, <2>3, <3>1, <3>2, <4>2 DEF Builds
      <4>4. QED
        BY <1>4, <2>3, <4>3
    <3>4. CASE turn = 2
      <4>1. t = Order[2] /\ b \notin Range(todo')
        BY <1>1, <1>7, <3>4
      <4>2. \A u \in Builds : /\ Had(c, u) = IF u = t THEN round - 1 ELSE round
                              /\ Had(c, u)' = round
        <5> SUFFICES ASSUME NEW u \in Builds
                     PROVE  /\ Had(c, u) = IF u = t THEN round - 1 ELSE round
                            /\ Had(c, u)' = round
          OBVIOUS
        <5>1. u = Order[1] <=> u # t
          BY <1>3, <4>1 DEF Builds
        <5>2. QED
          BY <1>1, <1>2, <2>3, <3>4, <4>1, <5>1 DEF Had, b
      <4>3. Len(results'[c].base) = Had(c, "base")' /\ Len(results'[c].head) = Had(c, "head")'
        BY <1>3, <1>6, <2>3, <3>1, <3>2, <4>2 DEF Builds
      <4>4. QED
        BY <1>4, <2>3, <4>3
    <3>5. QED
      BY <1>3, <3>3, <3>4
  <2>4. QED
    BY <2>2, <2>3
<1>15. QED
  BY <1>7, <1>9, <1>10, <1>11, <1>12, <1>13, <1>14 DEF GateInv

LEMMA GateStepHolds == GateInv /\ [GateNext]_gateVars => GateInv'
<1> SUFFICES ASSUME GateInv, [GateNext]_gateVars
             PROVE  GateInv'
  OBVIOUS
<1>1. ASSUME NEW o \in Outcomes, Calibrate(o) PROVE GateInv'
  BY <1>1, CalibrateHolds
<1>2. ASSUME NEW o \in Outcomes, NEW time \in Times, Sample(o, time) PROVE GateInv'
  BY <1>2, SampleHolds
<1>3. CASE Calibrated
  BY <1>3, CalibratedHolds
<1>4. CASE OpenRound
  BY <1>4, OpenRoundHolds
<1>5. CASE Skip
  BY <1>5, SkipHolds
<1>6. CASE EndRound
  BY <1>6, EndRoundHolds
<1>7. CASE Confirm
  BY <1>7, ConfirmHolds
<1>8. CASE Report
  BY <1>8, ReportHolds
<1>9. CASE CannotStart
  BY <1>9, CannotStartHolds
<1>10. ASSUME NEW t \in Builds, Crash(t) PROVE GateInv'
  BY <1>10, CrashHolds
<1>13. CASE Restart \/ TimesOut
  BY <1>13, RestartHolds, TimesOutHolds
<1>14. CASE Terminate \/ Exited \/ RemoveDir
  BY <1>14, StopHolds
<1>15. CASE Close
  BY <1>15, CloseHolds
<1>11. CASE UNCHANGED gateVars
  <2>1. GateTypeOK' /\ ServersStopped'
    BY <1>11 DEF gateVars, serverVars, GateInv, GateTypeOK, ServersStopped
  <2>2. QED
    BY <1>11, <2>1, ServerStep DEF gateVars, serverVars
<1>12. QED
  BY <1>1, <1>2, <1>3, <1>4, <1>5, <1>6, <1>7, <1>8, <1>9, <1>10, <1>11, <1>13, <1>14, <1>15
     DEF GateNext, GateDone

(* Every state of the gate is of the types its module names. *)
THEOREM GateTypes == GateSpec => []GateTypeOK
<1>1. GateInv => GateTypeOK
  BY DEF GateInv
<1>2. QED
  BY <1>1, GateInitHolds, GateStepHolds, PTL DEF GateSpec

(* For every list of benchmarks, every number of rounds of either pass, every number
   of servers that die and whatever every run of a benchmark does: the lists that judge
   compares hold one sample of every round of both builds, a regression is reported
   only on the rounds of both passes together, perfgate exits with 0 only if no run on
   head failed, and no server outlives its round. *)
THEOREM GateVerdictsAreSound == GateSpec => []VerdictsAreSound
<1>1. GateInv => VerdictsAreSound
  <2> SUFFICES ASSUME GateInv
               PROVE  VerdictsAreSound
    OBVIOUS
  <2>1. ASSUME phase \in {"open", "done"}, exit # 2, NEW b \in Kept, ~Failed(results[b])
        PROVE  /\ Len(results[b].base) = Len(results[b].head)
               /\ (stage = "first" \/ b \in sampled) =>
                    Len(results[b].head) = IF round = 0 THEN 0 ELSE round - 1
    <3>1. b \in Listed /\ round >= 1 /\ round \in Nat /\ (stage = "first" => b \in sampled)
      BY <2>1 DEF GateInv, GateTypeOK, RoundsCounted, OthersAcquitted, Sampling, Concluded, Kept
    <3>2. QED
      BY <2>1, <3>1 DEF GateInv, SamplesPaired, Concluded
  <2>2. ASSUME phase = "done", exit # 2, NEW b \in Kept, Judge(results[b]) = "REGRESSION"
        PROVE  Len(results[b].head) = Samples + ConfirmSamples
    <3>1. Samples \in Nat /\ ConfirmSamples \in Nat /\ round \in Nat
      BY RoundsAssumption DEF GateInv, GateTypeOK
    <3>2. ~Failed(results[b])
      BY <2>2 DEF Judge, Failed
    <3>3. b \in sampled
      BY <2>2 DEF GateInv, GateTypeOK, OthersAcquitted, Sampling, Concluded
    <3>4. round - 1 + 0 = Planned /\ ~Confirming
      BY <2>2 DEF GateInv, RoundsCounted, Sampling, Concluded
    <3>5. Planned = Samples + ConfirmSamples
      <4>1. b \in Suspects
        BY <2>2, <3>3 DEF Suspects
      <4>2. stage = "first" => ConfirmSamples = 0
        BY <3>1, <3>4, <4>1 DEF Confirming
      <4>3. QED
        BY <3>1, <4>2 DEF Planned
    <3>6. Len(results[b].head) = round - 1
      BY <2>2, <3>2, <3>3 DEF GateInv, SamplesPaired, Concluded, Kept
    <3>7. QED
      BY <3>1, <3>4, <3>5, <3>6
  <2>3. ASSUME exit = 0, NEW b \in Listed
        PROVE  headRuns[b] \cap {"error", "timeout", "crash"} = {}
    <3>1. ~Regressed
      BY <2>3 DEF GateInv, ExitIsEarned
    <3>2. results[b].headError => b \in Kept /\ Judge(results[b]) = "HEAD FAILED"
      BY DEF GateInv, HeadFailuresKept, Kept, Judge
    <3>3. ~results[b].headError
      BY <3>1, <3>2 DEF Regressed
    <3>4. QED
      BY <3>3 DEF GateInv, HeadFailuresKept
  <2>4. phase = "open" \/ (phase = "done" /\ stopping = {}) => \A t \in Builds : server[t] = "none"
    BY DEF GateInv, ServersStopped
  <2>5. QED
    BY <2>1, <2>2, <2>3, <2>4 DEF VerdictsAreSound
<1>2. QED
  BY <1>1, GateInitHolds, GateStepHolds, PTL DEF GateSpec

(* For every list of benchmarks and every schedule of timeouts, crashes and restarts: a
   sample is only added for a build whose server was started for this round, is not being
   stopped and executes nothing that a killed client asked of it. *)
THEOREM GateServersAreClean == GateSpec => CleanServer
<1> DEFINE Sound ==
      \A b \in Listed : /\ results'[b].base # results[b].base => Clean("base")
                        /\ results'[b].head # results[b].head => Clean("head")
<1>1. GateInv /\ [GateNext]_gateVars => [Sound]_gateVars
  <2> SUFFICES ASSUME GateInv, GateNext
               PROVE  Sound
    OBVIOUS
  <2>1. results \in [Listed -> BenchResult]
    BY DEF GateInv, GateTypeOK
  <2>2. ASSUME NEW o \in Outcomes, Calibrate(o) PROVE Sound
    <3>1. Head(todo) \in Listed
      BY <2>2, TailOfList DEF Calibrate, Due, GateInv, GateTypeOK
    <3>2. \A b \in Listed : results'[b].base = results[b].base /\ results'[b].head = results[b].head
      BY <2>1, <2>2, <3>1 DEF Calibrate, BenchResult
    <3>3. QED
      BY <3>2
  <2>3. ASSUME NEW o \in Outcomes, NEW time \in Times, Sample(o, time) PROVE Sound
    <3>1. /\ Ran(Target, Head(todo), o) /\ phase = "sample" /\ stopping = {}
          /\ results' = RecordSample(Target, Head(todo), o, time)
      BY <2>3 DEF Sample, Due
    <3>2. Head(todo) \in Listed /\ Target \in Builds
      BY <2>3, TailOfList, TargetIsBuild DEF Sample, Due, GateInv, GateTypeOK
    <3>3. ASSUME o = "ok" PROVE Clean(Target)
      <4>1. ServerAlive(Target)
        BY <3>1, <3>3 DEF Ran
      <4>2. server[Target] = "up"
        BY <3>1, <3>2, <4>1 DEF ServerAlive, GateInv, ServersStopped
      <4>3. QED
        BY <3>1, <3>2, <4>2 DEF Clean, GateInv, ServersStopped
    <3>4. \A b \in Listed :
            /\ results'[b].base # results[b].base => o = "ok" /\ Target = "base"
            /\ results'[b].head # results[b].head => o = "ok" /\ Target = "head"
      BY <2>1, <3>1, <3>2 DEF RecordSample, BenchResult, Builds
    <3>5. QED
      BY <3>3, <3>4
  <2>4. CASE UNCHANGED results
    BY <2>4
  <2>5. QED
    BY <2>2, <2>3, <2>4 DEF GateNext, Restart, CannotStart, TimesOut, Terminate, Exited, RemoveDir,
       Close, Calibrated, OpenRound, Skip, EndRound, Confirm, Report, Crash, GateDone, gateVars
<1>2. QED
  BY <1>1, GateInitHolds, GateStepHolds, PTL DEF GateSpec, CleanServer

-----------------------------------------------------------------------------
(* The parity suite                                                        *)

CaseType == [support : Supports, auth : BOOLEAN, setup : BOOLEAN]

(* What has been recorded is of this case or of an earlier one; a case has a result
   or has failed only when it is over, and a failed case with a result counts as
   unexpected. *)
NothingAhead ==
  /\ step = "done" <=> at = Len(cases) + 1
  /\ failed \subseteq 1 .. at /\ (step # "cleanup" => at \notin failed)
  /\ crashed <= at /\ (crashed # 0 => "dumbo" \notin up)
  /\ \A i \in DOMAIN summary :
       /\ summary[i].case <= at /\ (step # "cleanup" => summary[i].case < at)
       /\ summary[i].case \in failed => summary[i].status \in {"Fail", "XPass"}

BeforeRun == {"clients", "boot mongo", "boot dumbo", "alloc", "setup mongo", "setup dumbo",
              "run mongo", "done"}

(* Why a server has not answered: the time of the case is over, or the server is down. *)
Explained(s) == answer[s] \in Answers \/ at \in late \/ s \notin up

(* The answers of this case that are known are those it is graded by, and one that is
   no answer of the server is explained. *)
AnswersKnown ==
  /\ expired => at \in late
  /\ step \in {"run dumbo", "grade"} => Explained("mongo")
  /\ step = "grade" /\ Case.support # "MongoOnly" => Explained("dumbo")
  /\ \A s \in Servers : answer[s] \in AnswersOf(s)
  /\ \A r \in tested : r.case <= at /\ (step \in BeforeRun => r.case < at)
  /\ step \in {"run dumbo", "grade"} => Got(at, "mongo") = {answer["mongo"]}
  /\ step = "run dumbo" => Got(at, "dumbo") = {}
  /\ step = "grade" /\ Case.support # "MongoOnly" => Got(at, "dumbo") = {answer["dumbo"]}

(* A case runs only on servers it is prepared for. *)
Prepared ==
  /\ clients["auth"] = "ready" => admin = Servers
  /\ step \in {"boot mongo", "boot dumbo"} => Case.auth
  /\ step = "boot dumbo" => "mongo" \in admin
  /\ step \in {"alloc", "setup mongo", "setup dumbo"} => ~Case.auth
  /\ step = "setup dumbo" => [case |-> at, server |-> "mongo"] \in setups
  /\ step \in {"run mongo", "run dumbo", "grade"} =>
       /\ Case.auth => clients["auth"] = "ready"
       /\ Case.setup /\ Case.support # "MongoOnly" =>
            \A s \in Servers : [case |-> at, server |-> s] \in setups

(* After a crash of DumboDB a later case over the shared clients goes no further than
   the ping. *)
CrashNoticed ==
  crashed # 0 /\ at > crashed /\ step \notin {"clients", "alloc", "cleanup", "done"} => Case.auth

AllEarned ==
  /\ \A c \in CasesOver \ failed : Earned(c)
  /\ step = "cleanup" /\ at \notin failed => Earned(at)

PairInv ==
  /\ PairTypeOK /\ NothingAhead /\ AnswersKnown /\ Prepared /\ CrashNoticed /\ AllEarned
  /\ DatabasesDropped

LEMMA SuiteFacts ==
  ASSUME PairTypeOK
  PROVE  /\ cases \in Seq(CaseType) /\ Len(cases) \in Nat /\ Len(cases) >= 1
         /\ DOMAIN cases = 1 .. Len(cases) /\ at \in Nat /\ at >= 1 /\ crashed \in Nat
         /\ \A c \in DOMAIN cases :
              cases[c] \in CaseType /\ (cases[c].auth => ~cases[c].setup)
         /\ \A i \in DOMAIN summary : summary[i].case \in Nat
<1>1. cases \in Suites
  BY DEF PairTypeOK
<1>2. /\ cases \in Seq(CaseType) /\ cases # << >>
      /\ \A c \in DOMAIN cases : cases[c].auth => ~cases[c].setup
  BY <1>1, SuitesAssumption DEF CaseType
<1>3. at \in Nat /\ at >= 1 /\ crashed \in Nat
  BY <1>2 DEF PairTypeOK
<1>4. DOMAIN cases = 1 .. Len(cases) /\ Len(cases) \in Nat
  BY <1>2
<1>5. \A i \in DOMAIN summary : summary[i].case \in Nat
  <2> SUFFICES ASSUME NEW i \in DOMAIN summary
               PROVE  summary[i].case \in Nat
    OBVIOUS
  <2>1. summary \in Seq(TestResult)
    BY DEF PairTypeOK
  <2>2. summary[i] \in TestResult
    BY <2>1
  <2>3. QED
    BY <1>4, <2>2 DEF TestResult
<1>6. QED
  BY <1>2, <1>3, <1>4, <1>5, EmptySeq

(* The case that runs is one of the suite. *)
LEMMA CaseRuns ==
  ASSUME PairTypeOK, NothingAhead, step # "done"
  PROVE  at \in DOMAIN cases /\ Case \in CaseType /\ (Case.auth => ~Case.setup)
<1>1. at \in 1 .. Len(cases) + 1 /\ at # Len(cases) + 1 /\ Len(cases) \in Nat
  BY SuiteFacts DEF PairTypeOK, NothingAhead
<1>2. at \in DOMAIN cases
  BY <1>1, SuiteFacts
<1>3. QED
  BY <1>2, SuiteFacts DEF Case

(* What a case earned it keeps: preconditions stay, its answers are not added to, and
   a later crash is no crash before it. *)
LEMMA EarnedStays ==
  ASSUME NEW c \in Nat, Earned(c), cases' = cases, setups \subseteq setups',
         admin = Servers => admin' = Servers,
         \A s \in Servers : Got(c, s)' = Got(c, s),
         late \subseteq late', up' \subseteq up, up = {} => crashed' = crashed,
         crashed' \in Nat, crashed' = crashed \/ c <= crashed'
  PROVE  Earned(c)'
<1>1. Got(c, "mongo")' = Got(c, "mongo") /\ Got(c, "dumbo")' = Got(c, "dumbo")
  BY DEF Servers
<1>2. Unserved(c) => Unserved(c)'
  BY DEF Unserved
<1>3. ComparedAsMeant(c) => ComparedAsMeant(c)'
  BY <1>1, <1>2 DEF ComparedAsMeant
<1>4. QED
  BY <1>3 DEF Earned

LEMMA OverStays ==
  ASSUME PairInv, at' = at, cases' = cases, setups \subseteq setups',
         admin = Servers => admin' = Servers, failed \subseteq failed',
         crashed' \in Nat, crashed' = crashed \/ crashed' = at,
         late \subseteq late', up' \subseteq up, up = {} => crashed' = crashed,
         \A c \in 1 .. at - 1, s \in Servers : Got(c, s)' = Got(c, s)
  PROVE  \A c \in CasesOver' \ failed' : Earned(c)'
<1> SUFFICES ASSUME NEW c \in CasesOver' \ failed'
             PROVE  Earned(c)'
  OBVIOUS
<1>1. at \in Nat
  BY SuiteFacts DEF PairInv
<1>2. c \in 1 .. at - 1 /\ c \in CasesOver \ failed /\ c \in Nat /\ c <= at
  BY <1>1 DEF CasesOver
<1>3. Earned(c)
  BY <1>2 DEF PairInv, AllEarned
<1>4. QED
  BY <1>2, <1>3, EarnedStays

(* A test that has failed owes nothing. *)
LEMMA FatalFacts ==
  ASSUME PairInv, step # "done", step # "cleanup", Fatal, UNCHANGED <<cases, at>>
  PROVE  /\ failed' \subseteq DOMAIN cases /\ failed \subseteq failed' /\ step' = "cleanup"
         /\ at' \in failed' /\ failed' \subseteq 1 .. at'
         /\ summary' = summary
         /\ \A i \in DOMAIN summary' :
              /\ summary'[i].case <= at'
              /\ summary'[i].case \in failed' => summary'[i].status \in {"Fail", "XPass"}
<1>1. at \in DOMAIN cases /\ at \in 1 .. at
  BY CaseRuns, SuiteFacts DEF PairInv
<1>2. /\ \A i \in DOMAIN summary : summary[i].case < at /\ summary[i].case <= at
      /\ \A i \in DOMAIN summary :
           summary[i].case \in failed => summary[i].status \in {"Fail", "XPass"}
  BY DEF PairInv, NothingAhead
<1>3. PairTypeOK
  BY DEF PairInv
<1>4. \A i \in DOMAIN summary : summary[i].case # at
  <2>1. at \in Nat /\ \A i \in DOMAIN summary : summary[i].case \in Nat
    BY <1>3, SuiteFacts
  <2>2. \A i \in DOMAIN summary : summary[i].case < at
    BY <1>2
  <2>3. QED
    BY <2>1, <2>2
<1>5. QED
  BY <1>1, <1>2, <1>4 DEF Fatal, PairInv, PairTypeOK, NothingAhead

LEMMA PairInitHolds ==
  ASSUME PairInit
  PROVE  PairInv
<1>1. cases \in Seq(CaseType) /\ Len(cases) \in Nat /\ Len(cases) >= 1 /\ 1 \in 1 .. Len(cases) + 1
  <2>1. cases \in Seq(CaseType) /\ cases # << >>
    BY SuitesAssumption DEF PairInit, CaseType
  <2>2. QED
    BY <2>1, EmptySeq
<1>2. answer = [s \in Servers |-> Unreachable(s)]
  BY DEF PairInit, NoAnswer
<1>3. \A s \in Servers : answer[s] \in AnswersOf(s) /\ answer[s] \in AnswersOf("mongo") \cup AnswersOf("dumbo")
  BY <1>2 DEF AnswersOf, Servers
<1>4. PairTypeOK
  <2>1. /\ cases \in Suites /\ up \subseteq Servers /\ admin \subseteq Servers
        /\ clients \in [{"pair", "auth"} -> {"unset", "ready", "error"}]
        /\ step \in CaseSteps /\ expired \in BOOLEAN
    BY DEF PairInit, CaseSteps
  <2>2. answer \in [Servers -> AnswersOf("mongo") \cup AnswersOf("dumbo")]
    BY <1>2, <1>3
  <2>3. /\ at \in 1 .. Len(cases) + 1 /\ crashed \in 0 .. Len(cases) /\ faults \in 0 .. MaxFaults
        /\ dbs = {} /\ failed = {} /\ setups = {} /\ tested = {} /\ late = {}
    BY <1>1, FaultsAssumption DEF PairInit
  <2>4. summary \in Seq(TestResult)
    BY DEF PairInit
  <2>5. QED
    BY <2>1, <2>2, <2>3, <2>4 DEF PairTypeOK
<1>5. NothingAhead /\ AnswersKnown /\ Prepared /\ CrashNoticed /\ DatabasesDropped
  BY <1>1, <1>3 DEF PairInit, NothingAhead, AnswersKnown, Prepared, CrashNoticed, DatabasesDropped
<1>6. AllEarned
  BY DEF PairInit, AllEarned, CasesOver
<1>7. QED
  BY <1>4, <1>5, <1>6 DEF PairInv

LEMMA ClientsHolds ==
  ASSUME PairInv, Clients
  PROVE  PairInv'
<1>1. /\ step = "clients" /\ ~Case.auth /\ GetClients
      /\ \/ step' = "alloc" /\ UNCHANGED <<failed, summary>>
         \/ Fatal
      /\ UNCHANGED <<cases, up, admin, dbs, at, expired, answer, faults, setups, tested, crashed, late>>
  BY DEF Clients
<1>2. /\ clients' \in [{"pair", "auth"} -> {"unset", "ready", "error"}]
      /\ clients'["auth"] = clients["auth"]
  BY <1>1 DEF GetClients, PairInv, PairTypeOK
<1>3. /\ failed' \subseteq DOMAIN cases /\ failed \subseteq failed' /\ summary' = summary
      /\ step' \in {"alloc", "cleanup"} /\ (step' = "cleanup" => at' \in failed')
  BY <1>1, FatalFacts DEF PairInv, PairTypeOK
<1>4. Case' = Case
  BY <1>1 DEF Case
<1>5. PairTypeOK'
  BY <1>1, <1>2, <1>3 DEF PairInv, PairTypeOK, CaseSteps, TestResult
<1>6. NothingAhead'
  <2>1. CASE step' = "alloc"
    BY <1>1, <2>1 DEF PairInv, NothingAhead, Fatal
  <2>2. CASE Fatal
    BY <1>1, <2>2, FatalFacts DEF PairInv, NothingAhead
  <2>3. QED
    BY <1>1, <2>1, <2>2
<1>7. AnswersKnown'
  BY <1>1, <1>3, <1>4 DEF PairInv, AnswersKnown, BeforeRun
<1>8. Prepared' /\ CrashNoticed'
  BY <1>1, <1>2, <1>3, <1>4 DEF PairInv, Prepared, CrashNoticed
<1>9. AllEarned'
  <2>1. \A c \in 1 .. at - 1, s \in Servers : Got(c, s)' = Got(c, s)
    BY <1>1 DEF Got
  <2>2. crashed' \in Nat
    BY <1>1, SuiteFacts DEF PairInv
  <2>3. \A c \in CasesOver' \ failed' : Earned(c)'
    BY <1>1, <1>3, <2>1, <2>2, OverStays
  <2>4. QED
    BY <1>3, <2>3 DEF AllEarned
<1>10. DatabasesDropped'
  BY <1>1 DEF PairInv, DatabasesDropped, CasesOver
<1>11. QED
  BY <1>5, <1>6, <1>7, <1>8, <1>9, <1>10 DEF PairInv

LEMMA AuthClientsHolds ==
  ASSUME PairInv, AuthClients
  PROVE  PairInv'
<1>1. /\ step = "clients" /\ Case.auth
      /\ UNCHANGED <<cases, up, clients, admin, dbs, at, expired, answer, faults, setups, tested,
                     crashed, late>>
      /\ \/ step' = "boot mongo" /\ UNCHANGED <<failed, summary>>
         \/ step' = "run mongo" /\ clients["auth"] = "ready" /\ UNCHANGED <<failed, summary>>
         \/ Fatal
  <2>1. clients["auth"] \in {"unset", "ready", "error"}
    BY DEF PairInv, PairTypeOK
  <2>2. QED
    BY <2>1 DEF AuthClients
<1>2. /\ failed' \subseteq DOMAIN cases /\ failed \subseteq failed' /\ summary' = summary
      /\ step' \in {"boot mongo", "run mongo", "cleanup"} /\ (step' = "cleanup" => at' \in failed')
      /\ step' = "run mongo" => clients["auth"] = "ready"
  BY <1>1, FatalFacts DEF PairInv, PairTypeOK
<1>3. Case' = Case /\ ~Case.setup
  BY <1>1, CaseRuns DEF Case, PairInv
<1>4. PairTypeOK'
  BY <1>1, <1>2 DEF PairInv, PairTypeOK, CaseSteps, TestResult
<1>5. NothingAhead'
  <2>1. CASE step' \in {"boot mongo", "run mongo"}
    BY <1>1, <2>1 DEF PairInv, NothingAhead, Fatal
  <2>2. CASE Fatal
    BY <1>1, <2>2, FatalFacts DEF PairInv, NothingAhead
  <2>3. QED
    BY <1>1, <2>1, <2>2
<1>6. AnswersKnown'
  BY <1>1, <1>2, <1>3 DEF PairInv, AnswersKnown, BeforeRun
<1>7. Prepared' /\ CrashNoticed'
  BY <1>1, <1>2, <1>3 DEF PairInv, Prepared, CrashNoticed
<1>8. AllEarned'
  <2>1. \A c \in 1 .. at - 1, s \in Servers : Got(c, s)' = Got(c, s)
    BY <1>1 DEF Got
  <2>2. crashed' \in Nat
    BY <1>1, SuiteFacts DEF PairInv
  <2>3. \A c \in CasesOver' \ failed' : Earned(c)'
    BY <1>1, <1>2, <2>1, <2>2, OverStays
  <2>4. QED
    BY <1>2, <2>3 DEF AllEarned
<1>9. DatabasesDropped'
  BY <1>1 DEF PairInv, DatabasesDropped, CasesOver
<1>10. QED
  BY <1>4, <1>5, <1>6, <1>7, <1>8, <1>9 DEF PairInv

LEMMA AllocHolds ==
  ASSUME PairInv, Alloc
  PROVE  PairInv'
<1>1. /\ step = "alloc"
      /\ UNCHANGED <<cases, up, clients, admin, dbs, at, expired, answer, faults, setups, tested,
                     crashed, late>>
      /\ \/ /\ step' = IF Case.setup THEN "setup mongo" ELSE "run mongo"
            /\ "dumbo" \in up /\ UNCHANGED <<failed, summary>>
         \/ Fatal
  BY DEF Alloc, PingDumboDB
<1>2. /\ failed' \subseteq DOMAIN cases /\ failed \subseteq failed' /\ summary' = summary
      /\ step' \in {"setup mongo", "run mongo", "cleanup"} /\ (step' = "cleanup" => at' \in failed')
      /\ step' = "run mongo" => ~Case.setup
      /\ step' # "cleanup" => "dumbo" \in up
  BY <1>1, FatalFacts DEF PairInv, PairTypeOK
<1>3. Case' = Case /\ ~Case.auth
  BY <1>1 DEF Case, PairInv, Prepared
<1>4. PairTypeOK'
  BY <1>1, <1>2 DEF PairInv, PairTypeOK, CaseSteps, TestResult
<1>5. NothingAhead'
  <2>1. CASE step' \in {"setup mongo", "run mongo"}
    BY <1>1, <2>1 DEF PairInv, NothingAhead, Fatal
  <2>2. CASE Fatal
    BY <1>1, <2>2, FatalFacts DEF PairInv, NothingAhead
  <2>3. QED
    BY <1>1, <2>1, <2>2
<1>6. AnswersKnown'
  BY <1>1, <1>2, <1>3 DEF PairInv, AnswersKnown, BeforeRun
<1>7. Prepared'
  BY <1>1, <1>2, <1>3 DEF PairInv, Prepared
<1>8. CrashNoticed'
  BY <1>1, <1>2 DEF PairInv, NothingAhead, CrashNoticed
<1>9. AllEarned'
  <2>1. \A c \in 1 .. at - 1, s \in Servers : Got(c, s)' = Got(c, s)
    BY <1>1 DEF Got
  <2>2. crashed' \in Nat
    BY <1>1, SuiteFacts DEF PairInv
  <2>3. \A c \in CasesOver' \ failed' : Earned(c)'
    BY <1>1, <1>2, <2>1, <2>2, OverStays
  <2>4. QED
    BY <1>2, <2>3 DEF AllEarned
<1>10. DatabasesDropped'
  BY <1>1 DEF PairInv, DatabasesDropped, CasesOver
<1>11. QED
  BY <1>4, <1>5, <1>6, <1>7, <1>8, <1>9, <1>10 DEF PairInv

(* Each server's step has a name of its own. *)
LEMMA StepNames ==
  /\ Booting["mongo"] = "boot mongo" /\ Booting["dumbo"] = "boot dumbo"
  /\ SettingUp["mongo"] = "setup mongo" /\ SettingUp["dumbo"] = "setup dumbo"
  /\ Running["mongo"] = "run mongo" /\ Running["dumbo"] = "run dumbo"
  BY DEF Booting, SettingUp, Running

LEMMA BootHolds ==
  ASSUME PairInv, NEW s \in Servers, Boot(s)
  PROVE  PairInv'
<1>1. /\ step = Booting[s] /\ step \in {"boot mongo", "boot dumbo"}
      /\ step = "boot mongo" => s = "mongo"
      /\ step = "boot dumbo" => s = "dumbo"
      /\ UNCHANGED <<cases, up, dbs, at, expired, answer, setups, tested, crashed, late>>
  <2>1. s = "mongo" \/ s = "dumbo"
    BY DEF Servers
  <2>2. step = Booting[s]
    BY DEF Boot
  <2>3. UNCHANGED <<cases, up, dbs, at, expired, answer, setups, tested, crashed, late>>
    BY DEF Boot
  <2>4. CASE s = "mongo"
    BY <2>2, <2>3, <2>4, StepNames
  <2>5. CASE s = "dumbo"
    BY <2>2, <2>3, <2>5, StepNames
  <2>6. QED
    BY <2>1, <2>4, <2>5
<1>2. /\ faults' \in 0 .. MaxFaults /\ admin \subseteq admin' /\ admin' \subseteq Servers
      /\ \/ /\ s \in admin'
            /\ step' = IF s = "mongo" THEN "boot dumbo" ELSE "run mongo"
            /\ clients' = IF s = "mongo" THEN clients ELSE [clients EXCEPT !["auth"] = "ready"]
            /\ UNCHANGED <<failed, summary>>
         \/ Fatal /\ clients' = [clients EXCEPT !["auth"] = "error"]
  <2>1. faults \in 0 .. MaxFaults /\ admin \subseteq Servers
    BY DEF PairInv, PairTypeOK
  <2>2. PICK created \in {"ok", "lost", "refused"} :
          /\ IF created = "ok" THEN UNCHANGED faults
             ELSE Fault /\ Reachable(s) /\ s \notin admin
          /\ admin' = IF Reachable(s) /\ created # "refused" THEN admin \cup {s} ELSE admin
          /\ IF Reachable(s) /\ created = "ok"
             THEN /\ step' = IF s = "mongo" THEN "boot dumbo" ELSE "run mongo"
                  /\ clients' = IF s = "mongo" THEN clients
                                ELSE [clients EXCEPT !["auth"] = "ready"]
                  /\ UNCHANGED <<failed, summary>>
             ELSE Fatal /\ clients' = [clients EXCEPT !["auth"] = "error"]
    BY DEF Boot
  <2>3. faults' \in 0 .. MaxFaults
    <3>1. faults' = faults \/ (faults < MaxFaults /\ faults' = faults + 1)
      BY <2>2 DEF Fault
    <3>2. QED
      BY <2>1, <3>1, FaultsAssumption
  <2>4. admin \subseteq admin' /\ admin' \subseteq Servers
    BY <2>1, <2>2
  <2>5. CASE Reachable(s) /\ created = "ok"
    BY <2>2, <2>3, <2>4, <2>5
  <2>6. CASE ~(Reachable(s) /\ created = "ok")
    BY <2>2, <2>3, <2>4, <2>6
  <2>7. QED
    BY <2>5, <2>6
<1>3. clients \in [{"pair", "auth"} -> {"unset", "ready", "error"}]
  BY DEF PairInv, PairTypeOK
<1>4. /\ failed' \subseteq DOMAIN cases /\ failed \subseteq failed' /\ summary' = summary
      /\ step' \in {"boot dumbo", "run mongo", "cleanup"} /\ (step' = "cleanup" => at' \in failed')
  BY <1>1, <1>2, FatalFacts DEF PairInv, PairTypeOK
<1>5. Case' = Case /\ Case.auth /\ ~Case.setup
  BY <1>1, CaseRuns DEF Case, PairInv, Prepared
<1>6. clients' \in [{"pair", "auth"} -> {"unset", "ready", "error"}]
  BY <1>2, <1>3
<1>7. PairTypeOK'
  BY <1>1, <1>2, <1>4, <1>6 DEF PairInv, PairTypeOK, CaseSteps, TestResult
<1>8. NothingAhead'
  <2>1. CASE step' \in {"boot dumbo", "run mongo"}
    BY <1>1, <1>2, <2>1 DEF PairInv, NothingAhead, Fatal
  <2>2. CASE Fatal
    BY <1>1, <2>2, FatalFacts DEF PairInv, NothingAhead
  <2>3. QED
    BY <1>2, <2>1, <2>2
<1>9. AnswersKnown'
  BY <1>1, <1>4, <1>5 DEF PairInv, AnswersKnown, BeforeRun
<1>10. /\ clients'["auth"] = "ready" => admin' = Servers
       /\ step' = "boot dumbo" => "mongo" \in admin'
       /\ step' = "run mongo" => clients'["auth"] = "ready"
  <2>1. clients["auth"] = "ready" => admin = Servers
    BY DEF PairInv, Prepared
  <2>2. s = "dumbo" => "mongo" \in admin
    BY <1>1 DEF PairInv, Prepared
  <2>3. CASE Fatal /\ clients' = [clients EXCEPT !["auth"] = "error"]
    BY <1>3, <2>3 DEF Fatal
  <2>4. CASE s = "mongo" /\ s \in admin' /\ step' = "boot dumbo" /\ clients' = clients
    BY <1>2, <2>1, <2>4
  <2>5. CASE s = "dumbo" /\ s \in admin' /\ step' = "run mongo"
             /\ clients' = [clients EXCEPT !["auth"] = "ready"]
    BY <1>2, <1>3, <2>2, <2>5 DEF Servers
  <2>6. s = "mongo" \/ s = "dumbo"
    BY DEF Servers
  <2>7. QED
    BY <1>2, <2>3, <2>4, <2>5, <2>6
<1>11. Prepared' /\ CrashNoticed'
  BY <1>1, <1>4, <1>5, <1>10 DEF Prepared, CrashNoticed
<1>12. AllEarned'
  <2>1. \A c \in 1 .. at - 1, u \in Servers : Got(c, u)' = Got(c, u)
    BY <1>1 DEF Got
  <2>2. crashed' \in Nat
    BY <1>1, SuiteFacts DEF PairInv
  <2>3. \A c \in CasesOver' \ failed' : Earned(c)'
    BY <1>1, <1>2, <1>4, <2>1, <2>2, OverStays
  <2>4. QED
    BY <1>4, <2>3 DEF AllEarned
<1>13. DatabasesDropped'
  BY <1>1 DEF PairInv, DatabasesDropped, CasesOver
<1>14. QED
  BY <1>7, <1>8, <1>9, <1>11, <1>12, <1>13 DEF PairInv

(* A case that returns a result has one more in the summary, and if it failed the
   status says so. *)
LEMMA ReturnsFacts ==
  ASSUME PairInv, step # "done", step # "cleanup", NEW status \in Statuses, Returns(status),
         UNCHANGED <<cases, at>>, failed' = failed \/ failed' = failed \cup {at},
         at \in failed' => status \in {"Fail", "XPass"}
  PROVE  /\ summary' \in Seq(TestResult)' /\ step' = "cleanup"
         /\ failed' \subseteq DOMAIN cases /\ failed \subseteq failed' /\ failed' \subseteq 1 .. at'
         /\ \A i \in DOMAIN summary' :
              /\ summary'[i].case <= at'
              /\ summary'[i].case \in failed' => summary'[i].status \in {"Fail", "XPass"}
<1>1. /\ at \in DOMAIN cases /\ at \in Nat /\ at \in 1 .. at
      /\ \A i \in DOMAIN summary : summary[i].case \in Nat
  BY CaseRuns, SuiteFacts DEF PairInv
<1>2. [case |-> at, status |-> status] \in TestResult
  BY <1>1 DEF TestResult
<1> DEFINE new == [case |-> at, status |-> status]
<1>3. summary \in Seq(TestResult) /\ new \in TestResult /\ summary' = Append(summary, new)
  BY <1>2 DEF PairInv, PairTypeOK, Returns
<1>4. new.case = at /\ new.status = status
  OBVIOUS
<1> HIDE DEF new
<1>5. /\ summary' \in Seq(TestResult) /\ DOMAIN summary' = 1 .. Len(summary) + 1
      /\ \A i \in 1 .. Len(summary) : summary'[i] = summary[i]
      /\ summary'[Len(summary) + 1] = new
      /\ DOMAIN summary = 1 .. Len(summary) /\ Len(summary) \in Nat
  BY <1>3
<1>6. TestResult' = TestResult
  BY DEF TestResult
<1>7. \A i \in DOMAIN summary : summary[i].case < at
  BY DEF PairInv, NothingAhead
<1>8. \A i \in DOMAIN summary :
        summary[i].case \in failed => summary[i].status \in {"Fail", "XPass"}
  BY DEF PairInv, NothingAhead
<1>9. ASSUME NEW i \in DOMAIN summary'
      PROVE  /\ summary'[i].case <= at'
             /\ summary'[i].case \in failed' => summary'[i].status \in {"Fail", "XPass"}
  <2>1. CASE i \in DOMAIN summary
    <3>1. summary'[i] = summary[i]
      BY <1>5, <2>1
    <3>2. summary[i].case < at /\ summary[i].case \in Nat
      BY <1>1, <1>7, <2>1
    <3>3. summary[i].case <= at /\ summary[i].case # at
      BY <1>1, <3>2
    <3>4. QED
      BY <1>8, <2>1, <3>1, <3>3
  <2>2. CASE i = Len(summary) + 1
    BY <1>1, <1>4, <1>5, <2>2
  <2>3. QED
    BY <1>5, <2>1, <2>2
<1>10. step' = "cleanup" /\ failed' \subseteq DOMAIN cases /\ failed' \subseteq 1 .. at'
  BY <1>1 DEF Returns, PairInv, PairTypeOK, NothingAhead
<1>11. QED
  BY <1>5, <1>6, <1>9, <1>10

(* A database of the running case is not left over. *)
LEMMA MoreDatabases ==
  ASSUME DatabasesDropped, NEW s, at \in Nat, UNCHANGED <<at, up>>,
         dbs' = dbs \/ dbs' = dbs \cup {[server |-> s, case |-> at]}
  PROVE  DatabasesDropped'
<1>1. "mongo" \in up => \A d \in dbs : d.server \in up => d.case \notin CasesOver
  BY DEF DatabasesDropped
<1>2. [server |-> s, case |-> at].case = at /\ at \notin CasesOver
  BY DEF CasesOver
<1>3. CasesOver' = CasesOver
  BY DEF CasesOver
<1>4. QED
  BY <1>1, <1>2, <1>3 DEF DatabasesDropped

LEMMA OverButNotCleaned ==
  ASSUME NothingAhead, step # "done", step' = "cleanup", failed' \subseteq 1 .. at',
         UNCHANGED <<cases, up, at, crashed>>,
         \A i \in DOMAIN summary' :
           /\ summary'[i].case <= at'
           /\ summary'[i].case \in failed' => summary'[i].status \in {"Fail", "XPass"}
  PROVE  NothingAhead'
<1>1. (step = "done")' <=> (at = Len(cases) + 1)'
  BY DEF NothingAhead
<1>2. (crashed <= at /\ (crashed # 0 => "dumbo" \notin up))'
  BY DEF NothingAhead
<1>3. \A i \in DOMAIN summary' :
        /\ summary'[i].case <= at' /\ (step' # "cleanup" => summary'[i].case < at')
        /\ summary'[i].case \in failed' => summary'[i].status \in {"Fail", "XPass"}
  OBVIOUS
<1>4. (failed \subseteq 1 .. at /\ (step # "cleanup" => at \notin failed))'
  OBVIOUS
<1>5. QED
  BY <1>1, <1>2, <1>3, <1>4 DEF NothingAhead

LEMMA SetupHolds ==
  ASSUME PairInv, NEW s \in Servers, Setup(s)
  PROVE  PairInv'
<1> DEFINE here == [case |-> at, server |-> s]
<1>1. PICK ok \in BOOLEAN : (ok => Reachable(s)) /\ SetupEnds(s, ok)
  BY DEF Setup
<1>2. /\ step = SettingUp[s] /\ step \in {"setup mongo", "setup dumbo"}
      /\ step = "setup mongo" => s = "mongo"
      /\ step = "setup dumbo" => s = "dumbo"
      /\ dbs' = (IF Reachable(s) THEN dbs \cup {[server |-> s, case |-> at]} ELSE dbs)
      /\ UNCHANGED <<cases, up, clients, admin, at, expired, answer, faults, tested, crashed, late>>
  <2>1. s = "mongo" \/ s = "dumbo"
    BY DEF Servers
  <2>2. step = SettingUp[s]
    BY DEF Setup
  <2>3. QED
    BY <2>1, <2>2, StepNames DEF Setup
<1>3. /\ at \in DOMAIN cases /\ Case \in CaseType /\ Case' = Case /\ ~Case.auth /\ at \in Nat
  BY <1>2, CaseRuns, SuiteFacts DEF Case, PairInv, Prepared
<1>4. setups \subseteq setups' /\ setups' \subseteq [case : DOMAIN cases, server : Servers]
  <2>1. here \in [case : DOMAIN cases, server : Servers]
    BY <1>3
  <2>2. setups' = setups \/ setups' = setups \cup {here}
    BY <1>1 DEF SetupEnds
  <2>3. setups \subseteq [case : DOMAIN cases, server : Servers]
    BY DEF PairInv, PairTypeOK
  <2>4. QED
    BY <2>1, <2>2, <2>3
<1>5. \/ /\ here \in setups' /\ UNCHANGED <<failed, summary>>
         /\ step' = IF s = "mongo" /\ Case.support # "MongoOnly"
                    THEN "setup dumbo" ELSE "run mongo"
      \/ failed' = failed \cup {at} /\ Returns("Fail")
  BY <1>1 DEF SetupEnds
<1>7. /\ summary' \in Seq(TestResult)' /\ step' \in {"setup dumbo", "run mongo", "cleanup"}
      /\ failed' \subseteq DOMAIN cases /\ failed \subseteq failed'
      /\ step' = "cleanup" => at' \in failed'
  <2>1. CASE UNCHANGED <<failed, summary>> /\ step' \in {"setup dumbo", "run mongo"}
    BY <1>2, <2>1 DEF PairInv, PairTypeOK, TestResult
  <2>2. CASE failed' = failed \cup {at} /\ Returns("Fail")
    BY <1>2, <2>2, ReturnsFacts DEF Statuses
  <2>3. QED
    BY <1>5, <2>1, <2>2
<1>8. dbs' \subseteq [server : Servers, case : DOMAIN cases]
  <2>1. [server |-> s, case |-> at] \in [server : Servers, case : DOMAIN cases]
    BY <1>3
  <2>2. dbs \subseteq [server : Servers, case : DOMAIN cases]
    BY DEF PairInv, PairTypeOK
  <2>3. QED
    BY <1>2, <2>1, <2>2
<1>9. PairTypeOK'
  BY <1>2, <1>4, <1>7, <1>8 DEF PairInv, PairTypeOK, CaseSteps
<1>10. NothingAhead'
  <2>1. CASE UNCHANGED <<failed, summary>> /\ step' \in {"setup dumbo", "run mongo"}
    BY <1>2, <2>1 DEF PairInv, NothingAhead
  <2>2. CASE failed' = failed \cup {at} /\ Returns("Fail")
    <3>1. /\ step' = "cleanup" /\ failed' \subseteq 1 .. at'
          /\ \A i \in DOMAIN summary' :
               /\ summary'[i].case <= at'
               /\ summary'[i].case \in failed' => summary'[i].status \in {"Fail", "XPass"}
      BY <1>2, <2>2, ReturnsFacts DEF Statuses
    <3>2. QED
      BY <1>2, <3>1, OverButNotCleaned DEF PairInv
  <2>3. QED
    BY <1>5, <2>1, <2>2
<1>11. AnswersKnown'
  BY <1>2, <1>3, <1>7 DEF PairInv, AnswersKnown, BeforeRun
<1>12. Prepared'
  <2>1. step' = "setup dumbo" => s = "mongo" /\ here \in setups'
    BY <1>5 DEF Returns
  <2>2. step' = "run mongo" =>
          here \in setups' /\ (s = "dumbo" \/ Case.support = "MongoOnly")
    BY <1>5 DEF Returns, Servers
  <2>3. s = "dumbo" => [case |-> at, server |-> "mongo"] \in setups'
    BY <1>2, <1>4 DEF PairInv, Prepared
  <2>4. QED
    BY <1>2, <1>3, <1>7, <2>1, <2>2, <2>3 DEF PairInv, Prepared, Servers
<1>13. CrashNoticed'
  BY <1>2, <1>3, <1>7 DEF PairInv, CrashNoticed
<1>14. AllEarned'
  <2>1. \A c \in 1 .. at - 1, u \in Servers : Got(c, u)' = Got(c, u)
    BY <1>2 DEF Got
  <2>2. crashed' \in Nat
    BY <1>2, SuiteFacts DEF PairInv
  <2>3. \A c \in CasesOver' \ failed' : Earned(c)'
    BY <1>2, <1>4, <1>7, <2>1, <2>2, OverStays
  <2>4. QED
    BY <1>7, <2>3 DEF AllEarned
<1>15. DatabasesDropped'
  BY <1>2, <1>3, MoreDatabases DEF PairInv
<1>16. QED
  BY <1>9, <1>10, <1>11, <1>12, <1>13, <1>14, <1>15 DEF PairInv

LEMMA EarlierCases ==
  ASSUME at \in Nat
  PROVE  \A c \in 1 .. at - 1 : c # at
  OBVIOUS

(* One more answer is one more of its case and server. *)
LEMMA OneMoreAnswer ==
  ASSUME NEW s \in Servers, NEW a \in AnswersOf(s),
         tested' = tested \cup {[case |-> at, server |-> s, got |-> a]}
  PROVE  /\ \A c, u : c # at \/ u # s => Got(c, u)' = Got(c, u)
         /\ \A c : c = at => Got(c, s)' = Got(c, s) \cup {a}
<1>1. \A c, u, b : [case |-> c, server |-> u, got |-> b] = [case |-> at, server |-> s, got |-> a]
                     <=> c = at /\ u = s /\ b = a
  OBVIOUS
<1>2. \A c, u, b : [case |-> c, server |-> u, got |-> b] \in tested'
                     <=> \/ [case |-> c, server |-> u, got |-> b] \in tested
                         \/ c = at /\ u = s /\ b = a
  BY <1>1
<1>3. QED
  BY <1>2 DEF Got

(* What Run does to a case, whichever server it runs on. *)
LEMMA RunsFacts ==
  ASSUME PairInv, NEW s \in Servers, NEW next \in {"run dumbo", "grade"}, Runs(s, next)
  PROVE  /\ UNCHANGED <<cases, up, clients, admin, at, expired, faults, setups, crashed, late>>
         /\ step \in {"run mongo", "run dumbo"} /\ Case' = Case
         /\ PairTypeOK' /\ NothingAhead' /\ Prepared' /\ CrashNoticed' /\ DatabasesDropped'
         /\ AllEarned'
         /\ \/ step' = "cleanup" /\ UNCHANGED <<answer, tested>>
            \/ /\ step' = next
               /\ \E a \in AnswersOf(s) :
                    /\ Reachable(s) => a \in Answers
                    /\ answer' = [answer EXCEPT ![s] = a]
                    /\ tested' = tested \cup {[case |-> at, server |-> s, got |-> a]}
<1>1. step \in {"run mongo", "run dumbo"}
  <2>1. s = "mongo" \/ s = "dumbo"
    BY DEF Servers
  <2>2. step = Running[s]
    BY DEF Runs
  <2>3. QED
    BY <2>1, <2>2, StepNames
<1>2. /\ UNCHANGED <<cases, up, clients, admin, at, expired, faults, setups, crashed, late>>
      /\ at \in DOMAIN cases /\ at \in Nat /\ Case' = Case
  BY <1>1, CaseRuns, SuiteFacts DEF Runs, PairInv, Case
<1>3. CASE Fatal /\ UNCHANGED <<answer, tested, dbs>>
  <2>1. /\ failed' \subseteq DOMAIN cases /\ failed \subseteq failed' /\ step' = "cleanup"
        /\ at' \in failed' /\ failed' \subseteq 1 .. at' /\ summary' = summary
        /\ \A i \in DOMAIN summary' :
             /\ summary'[i].case <= at'
             /\ summary'[i].case \in failed' => summary'[i].status \in {"Fail", "XPass"}
    BY <1>1, <1>2, <1>3, FatalFacts
  <2>2. PairTypeOK'
    BY <1>2, <1>3, <2>1 DEF PairInv, PairTypeOK, CaseSteps, TestResult
  <2>3. NothingAhead'
    BY <1>1, <1>2, <2>1, OverButNotCleaned DEF PairInv
  <2>4. Prepared' /\ CrashNoticed'
    BY <1>2, <2>1 DEF PairInv, Prepared, CrashNoticed
  <2>5. DatabasesDropped'
    BY <1>2, <1>3, MoreDatabases DEF PairInv
  <2>6. AllEarned'
    <3>1. \A c \in 1 .. at - 1, u \in Servers : Got(c, u)' = Got(c, u)
      BY <1>3 DEF Got
    <3>2. crashed' \in Nat
      BY <1>2, SuiteFacts DEF PairInv
    <3>3. \A c \in CasesOver' \ failed' : Earned(c)'
      BY <1>2, <2>1, <3>1, <3>2, OverStays
    <3>4. QED
      BY <2>1, <3>3 DEF AllEarned
  <2>7. QED
    BY <1>1, <1>2, <1>3, <2>1, <2>2, <2>3, <2>4, <2>5, <2>6
<1>4. ASSUME NEW a \in AnswersOf(s), answer' = [answer EXCEPT ![s] = a],
             tested' = tested \cup {[case |-> at, server |-> s, got |-> a]},
             step' = next, UNCHANGED <<failed, summary>>,
             dbs' = dbs \/ dbs' = dbs \cup {[server |-> s, case |-> at]}
      PROVE  /\ PairTypeOK' /\ NothingAhead' /\ Prepared' /\ CrashNoticed' /\ DatabasesDropped'
             /\ AllEarned'
  <2>1. PairTypeOK'
    <3>1. a \in AnswersOf("mongo") \cup AnswersOf("dumbo")
      BY DEF Servers
    <3>2. /\ [case |-> at, server |-> s, got |-> a] \in
               [case : DOMAIN cases, server : Servers,
                got : AnswersOf("mongo") \cup AnswersOf("dumbo")]
          /\ [server |-> s, case |-> at] \in [server : Servers, case : DOMAIN cases]
      BY <1>2, <3>1
    <3>3. /\ tested' \subseteq [case : DOMAIN cases, server : Servers,
                                got : AnswersOf("mongo") \cup AnswersOf("dumbo")]
          /\ dbs' \subseteq [server : Servers, case : DOMAIN cases]
          /\ answer' \in [Servers -> AnswersOf("mongo") \cup AnswersOf("dumbo")]
      BY <1>4, <3>1, <3>2 DEF PairInv, PairTypeOK
    <3>4. QED
      BY <1>2, <1>4, <3>3 DEF PairInv, PairTypeOK, CaseSteps, TestResult
  <2>2. NothingAhead'
    BY <1>1, <1>2, <1>4 DEF PairInv, NothingAhead
  <2>3. Prepared' /\ CrashNoticed'
    BY <1>1, <1>2, <1>4 DEF PairInv, Prepared, CrashNoticed
  <2>4. DatabasesDropped'
    BY <1>2, <1>4, MoreDatabases DEF PairInv
  <2>5. AllEarned'
    <3>1. \A c \in 1 .. at - 1, u \in Servers : Got(c, u)' = Got(c, u)
      <4>1. \A c, u : c # at \/ u # s => Got(c, u)' = Got(c, u)
        BY <1>4, OneMoreAnswer
      <4>2. \A c \in 1 .. at - 1 : c # at
        BY <1>2, EarlierCases
      <4>3. QED
        BY <4>1, <4>2
    <3>2. crashed' \in Nat
      BY <1>2, SuiteFacts DEF PairInv
    <3>3. \A c \in CasesOver' \ failed' : Earned(c)'
      BY <1>2, <1>4, <3>1, <3>2, OverStays
    <3>4. QED
      BY <1>4, <3>3 DEF AllEarned
  <2>6. QED
    BY <2>1, <2>2, <2>3, <2>4, <2>5
<1>5. \/ Fatal /\ UNCHANGED <<answer, tested, dbs>>
      \/ /\ \E a \in AnswersOf(s) :
              /\ Reachable(s) => a \in Answers
              /\ answer' = [answer EXCEPT ![s] = a]
              /\ tested' = tested \cup {[case |-> at, server |-> s, got |-> a]}
         /\ step' = next /\ UNCHANGED <<failed, summary>>
         /\ dbs' = dbs \/ dbs' = dbs \cup {[server |-> s, case |-> at]}
  BY DEF Runs
<1>6. QED
  BY <1>1, <1>2, <1>3, <1>4, <1>5 DEF Fatal

LEMMA RunMongoHolds ==
  ASSUME PairInv, RunMongo
  PROVE  PairInv'
<1> DEFINE next == IF Case.support = "MongoOnly" THEN "grade" ELSE "run dumbo"
<1>1. "mongo" \in Servers /\ Runs("mongo", next) /\ next \in {"run dumbo", "grade"}
  BY DEF RunMongo, Servers
<1>2. step = "run mongo"
  BY <1>1, StepNames DEF Runs
<1> HIDE DEF next
<1>3. /\ UNCHANGED <<cases, up, clients, admin, at, expired, faults, setups, crashed, late>>
      /\ Case' = Case
      /\ PairTypeOK' /\ NothingAhead' /\ Prepared' /\ CrashNoticed' /\ DatabasesDropped'
      /\ AllEarned'
      /\ \/ step' = "cleanup" /\ UNCHANGED <<answer, tested>>
         \/ /\ step' = next
            /\ \E a \in AnswersOf("mongo") :
                 /\ Reachable("mongo") => a \in Answers
                 /\ answer' = [answer EXCEPT !["mongo"] = a]
                 /\ tested' = tested \cup {[case |-> at, server |-> "mongo", got |-> a]}
  BY <1>1, RunsFacts
<1>4. AnswersKnown'
  <2>1. CASE step' = "cleanup" /\ UNCHANGED <<answer, tested>>
    BY <1>3, <2>1 DEF PairInv, AnswersKnown, BeforeRun
  <2>2. ASSUME NEW a \in AnswersOf("mongo"), Reachable("mongo") => a \in Answers,
               answer' = [answer EXCEPT !["mongo"] = a],
               tested' = tested \cup {[case |-> at, server |-> "mongo", got |-> a]},
               step' = next
        PROVE  AnswersKnown'
    <3>1. /\ \A c, u : c # at \/ u # "mongo" => Got(c, u)' = Got(c, u)
          /\ \A c : c = at => Got(c, "mongo")' = Got(c, "mongo") \cup {a}
      BY <1>1, <2>2, OneMoreAnswer
    <3>2. Got(at, "mongo") = {} /\ Got(at, "dumbo") = {}
      <4>1. \A r \in tested : r.case < at
        BY <1>2 DEF PairInv, AnswersKnown, BeforeRun
      <4>2. at \in Nat
        BY SuiteFacts DEF PairInv
      <4>3. \A u, b : [case |-> at, server |-> u, got |-> b] \notin tested
        BY <4>1, <4>2
      <4>4. QED
        BY <4>3 DEF Got
    <3>3. Got(at, "mongo")' = {a} /\ Got(at, "dumbo")' = {}
      BY <1>3, <3>1, <3>2
    <3>4. answer'["mongo"] = a /\ answer'["dumbo"] = answer["dumbo"]
      BY <2>2 DEF PairInv, PairTypeOK, Servers
    <3>5. \A s \in Servers : answer'[s] \in AnswersOf(s)
      BY <2>2, <3>4 DEF PairInv, AnswersKnown, Servers
    <3>6. \A r \in tested' : r.case <= at'
      <4>1. at \in Nat /\ [case |-> at, server |-> "mongo", got |-> a].case = at
        BY SuiteFacts DEF PairInv
      <4>2. \A r \in tested : r.case <= at
        BY DEF PairInv, AnswersKnown
      <4>3. \A r \in tested' : r \in tested \/ r = [case |-> at, server |-> "mongo", got |-> a]
        BY <2>2
      <4>4. \A r \in tested' : r.case <= at
        BY <4>1, <4>2, <4>3
      <4>5. QED
        BY <1>3, <4>4
    <3>7. /\ step' \in {"run dumbo", "grade"} /\ step' \notin BeforeRun
          /\ step' = "grade" => Case.support = "MongoOnly"
      BY <2>2 DEF next, BeforeRun
    <3>8. Explained("mongo")' /\ (expired => at \in late)'
      BY <1>3, <2>2, <3>4 DEF Explained, Reachable, PairInv, AnswersKnown
    <3>9. QED
      BY <1>3, <3>3, <3>4, <3>5, <3>6, <3>7, <3>8 DEF AnswersKnown
  <2>3. QED
    BY <1>3, <2>1, <2>2
<1>5. QED
  BY <1>3, <1>4 DEF PairInv

LEMMA RunDumboHolds ==
  ASSUME PairInv, RunDumbo
  PROVE  PairInv'
<1>1. "dumbo" \in Servers /\ Runs("dumbo", "grade") /\ "grade" \in {"run dumbo", "grade"}
  BY DEF RunDumbo, Servers
<1>2. step = "run dumbo"
  BY <1>1, StepNames DEF Runs
<1>3. /\ UNCHANGED <<cases, up, clients, admin, at, expired, faults, setups, crashed, late>>
      /\ Case' = Case
      /\ PairTypeOK' /\ NothingAhead' /\ Prepared' /\ CrashNoticed' /\ DatabasesDropped'
      /\ AllEarned'
      /\ \/ step' = "cleanup" /\ UNCHANGED <<answer, tested>>
         \/ /\ step' = "grade"
            /\ \E a \in AnswersOf("dumbo") :
                 /\ Reachable("dumbo") => a \in Answers
                 /\ answer' = [answer EXCEPT !["dumbo"] = a]
                 /\ tested' = tested \cup {[case |-> at, server |-> "dumbo", got |-> a]}
  BY <1>1, RunsFacts
<1>4. AnswersKnown'
  <2>1. CASE step' = "cleanup" /\ UNCHANGED <<answer, tested>>
    BY <1>3, <2>1 DEF PairInv, AnswersKnown, BeforeRun
  <2>2. ASSUME NEW a \in AnswersOf("dumbo"), Reachable("dumbo") => a \in Answers,
               answer' = [answer EXCEPT !["dumbo"] = a],
               tested' = tested \cup {[case |-> at, server |-> "dumbo", got |-> a]},
               step' = "grade"
        PROVE  AnswersKnown'
    <3>1. /\ \A c, u : c # at \/ u # "dumbo" => Got(c, u)' = Got(c, u)
          /\ \A c : c = at => Got(c, "dumbo")' = Got(c, "dumbo") \cup {a}
      BY <1>1, <2>2, OneMoreAnswer
    <3>2. Got(at, "mongo") = {answer["mongo"]} /\ Got(at, "dumbo") = {}
      BY <1>2 DEF PairInv, AnswersKnown
    <3>3. Got(at, "mongo")' = {answer["mongo"]} /\ Got(at, "dumbo")' = {a}
      BY <1>3, <3>1, <3>2
    <3>4. answer'["dumbo"] = a /\ answer'["mongo"] = answer["mongo"]
      BY <2>2 DEF PairInv, PairTypeOK, Servers
    <3>5. \A s \in Servers : answer'[s] \in AnswersOf(s)
      BY <2>2, <3>4 DEF PairInv, AnswersKnown, Servers
    <3>6. \A r \in tested' : r.case <= at'
      <4>1. at \in Nat /\ [case |-> at, server |-> "dumbo", got |-> a].case = at
        BY SuiteFacts DEF PairInv
      <4>2. \A r \in tested : r.case <= at
        BY DEF PairInv, AnswersKnown
      <4>3. \A r \in tested' : r \in tested \/ r = [case |-> at, server |-> "dumbo", got |-> a]
        BY <2>2
      <4>4. \A r \in tested' : r.case <= at
        BY <4>1, <4>2, <4>3
      <4>5. QED
        BY <1>3, <4>4
    <3>7. Explained("mongo")' /\ Explained("dumbo")' /\ (expired => at \in late)'
      BY <1>2, <1>3, <2>2, <3>4 DEF Explained, Reachable, PairInv, AnswersKnown
    <3>8. QED
      BY <1>3, <2>2, <3>3, <3>4, <3>5, <3>6, <3>7 DEF AnswersKnown, BeforeRun
  <2>3. QED
    BY <1>3, <2>1, <2>2
<1>5. QED
  BY <1>3, <1>4 DEF PairInv


(* The grade of a case is green for what its support level demands. *)
LEMMA GradeHolds ==
  ASSUME PairInv, Grade
  PROVE  PairInv'
<1>1. /\ step = "grade"
      /\ UNCHANGED <<cases, up, clients, admin, dbs, at, expired, answer, faults, setups, tested,
                     crashed, late>>
  BY DEF Grade
<1>2. at \in DOMAIN cases /\ at \in Nat /\ Case \in CaseType /\ Case' = Case /\ at \notin failed
  BY <1>1, CaseRuns, SuiteFacts DEF PairInv, NothingAhead, Case
<1>3. Case.support \in Supports
  BY <1>2 DEF CaseType
<1>4. PICK status \in Statuses :
        /\ Returns(status)
        /\ \/ failed' = failed
           \/ failed' = failed \cup {at} /\ status \in {"Fail", "XPass"}
        /\ at \notin failed' =>
             /\ Case.support = "Full" => Matches
             /\ Case.support = "XFail" => ~Matches
             /\ Case.support = "Deviates" => Expected
  <2>1. CASE Case.support = "Full"
    BY <1>1, <2>1 DEF Grade, Green, Red, Statuses
  <2>2. CASE Case.support = "XFail"
    BY <1>1, <2>2 DEF Grade, GradeXFail, Green, Red, Statuses
  <2>3. CASE Case.support = "Deviates"
    BY <1>1, <2>3 DEF Grade, GradeDeviates, Green, Red, Statuses
  <2>4. CASE Case.support = "MongoOnly"
    BY <1>1, <2>4 DEF Grade, GradeMongoOnly, Green, Red, Statuses
  <2>5. QED
    BY <1>3, <2>1, <2>2, <2>3, <2>4 DEF Supports
<1>5. at \in failed' => status \in {"Fail", "XPass"}
  BY <1>2, <1>4
<1>6. /\ summary' \in Seq(TestResult)' /\ step' = "cleanup"
      /\ failed' \subseteq DOMAIN cases /\ failed \subseteq failed' /\ failed' \subseteq 1 .. at'
      /\ \A i \in DOMAIN summary' :
           /\ summary'[i].case <= at'
           /\ summary'[i].case \in failed' => summary'[i].status \in {"Fail", "XPass"}
  BY <1>1, <1>4, <1>5, ReturnsFacts
<1>7. PairTypeOK'
  BY <1>1, <1>6 DEF PairInv, PairTypeOK, CaseSteps
<1>8. NothingAhead'
  BY <1>1, <1>6, OverButNotCleaned DEF PairInv
<1>9. AnswersKnown'
  BY <1>1, <1>2, <1>6 DEF PairInv, AnswersKnown, BeforeRun
<1>10. Prepared' /\ CrashNoticed'
  BY <1>1, <1>2, <1>6 DEF PairInv, Prepared, CrashNoticed
<1>11. at \notin failed' => Earned(at)
  <2> SUFFICES ASSUME at \notin failed'
               PROVE  Earned(at)
    OBVIOUS
  <2>1. crashed # 0 /\ at > crashed => Case.auth
    BY <1>1 DEF PairInv, CrashNoticed
  <2>2. ASSUME Case.support # "MongoOnly"
        PROVE  ComparedAsMeant(at)
    <3> DEFINE m == answer["mongo"]
               d == answer["dumbo"]
    <3>1. /\ Got(at, "mongo") = {m} /\ Got(at, "dumbo") = {d}
          /\ m \in AnswersOf("mongo") /\ d \in AnswersOf("dumbo")
      BY <1>1, <2>2 DEF PairInv, AnswersKnown, Servers
    <3>2. /\ Case.setup => \A s \in Servers : [case |-> at, server |-> s] \in setups
          /\ Case.auth => admin = Servers
      BY <1>1, <2>2 DEF PairInv, Prepared
    <3>3. Cardinality({m}) = 1 /\ Cardinality({d}) = 1
      BY FS_Singleton
    <3>4. CompareAnswers(m, d) <=> m = d
      BY <3>1, CompareAssumption
    <3>5. Case.support = "Full" => m = d /\ (m \in Answers \/ Unserved(at))
      <4>1. Explained("mongo") /\ Explained("dumbo")
        BY <1>1, <2>2 DEF PairInv, AnswersKnown
      <4>2. up \subseteq Servers /\ crashed <= at
        BY DEF PairInv, PairTypeOK, NothingAhead
      <4>3. m = d => m \in Answers \/ Unserved(at)
        BY <4>1, <4>2 DEF Explained, Unserved, Servers
      <4>4. QED
        BY <1>4, <3>4, <4>3 DEF Matches
    <3>6. Case.support = "XFail" => m # d
      BY <1>4, <3>4 DEF Matches
    <3>7. Case.support = "Deviates" => m = Value("a") /\ d = Value("b")
      BY <1>4 DEF Expected
    <3> HIDE DEF m, d
    <3>8. QED
      BY <3>1, <3>2, <3>3, <3>5, <3>6, <3>7 DEF ComparedAsMeant, Case
  <2>3. QED
    BY <2>1, <2>2 DEF Earned, Case
<1>12. AllEarned'
  <2>1. \A c \in 1 .. at - 1, u \in Servers : Got(c, u)' = Got(c, u)
    BY <1>1 DEF Got
  <2>2. crashed' \in Nat
    BY <1>1, SuiteFacts DEF PairInv
  <2>3. \A c \in CasesOver' \ failed' : Earned(c)'
    BY <1>1, <1>6, <2>1, <2>2, OverStays
  <2>4. Earned(at) => Earned(at)'
    BY <1>1 DEF Earned, ComparedAsMeant, Got, Unserved
  <2>5. QED
    BY <1>1, <1>11, <2>3, <2>4 DEF AllEarned
<1>13. DatabasesDropped'
  BY <1>1 DEF PairInv, DatabasesDropped, CasesOver
<1>14. QED
  BY <1>7, <1>8, <1>9, <1>10, <1>12, <1>13 DEF PairInv

LEMMA CleanupHolds ==
  ASSUME PairInv, Cleanup
  PROVE  PairInv'
<1>1. /\ step = "cleanup" /\ at' = at + 1 /\ answer' = NoAnswer /\ expired' = FALSE
      /\ dbs' \subseteq dbs
      /\ "mongo" \in up => dbs' = {d \in dbs : ~(d.case = at /\ d.server \in up)}
      /\ step' = IF at = Len(cases) THEN "done" ELSE "clients"
      /\ UNCHANGED <<cases, up, clients, admin, failed, summary, faults, setups, tested, crashed, late>>
  BY DEF Cleanup, Dropped
<1>2. /\ at \in DOMAIN cases /\ at \in Nat /\ at \in 1 .. Len(cases) /\ Len(cases) \in Nat
      /\ crashed \in Nat
  BY <1>1, CaseRuns, SuiteFacts DEF PairInv
<1>3. step' \in {"clients", "done"} /\ (step' = "done" <=> at' = Len(cases) + 1)
  BY <1>1, <1>2
<1>4. \A s \in Servers : answer'[s] \in AnswersOf(s)
  BY <1>1 DEF NoAnswer, AnswersOf
<1>5. PairTypeOK'
  <2>1. answer' \in [Servers -> AnswersOf("mongo") \cup AnswersOf("dumbo")]
    BY <1>1 DEF NoAnswer, AnswersOf, Servers
  <2>2. at' \in 1 .. Len(cases) + 1 /\ step' \in CaseSteps /\ expired' \in BOOLEAN /\ dbs' \subseteq dbs
    <3>1. at + 1 \in 1 .. Len(cases) + 1
      BY <1>2
    <3>2. step' \in CaseSteps
      BY <1>3 DEF CaseSteps
    <3>3. QED
      BY <1>1, <3>1, <3>2
  <2>3. QED
    BY <1>1, <2>1, <2>2 DEF PairInv, PairTypeOK, TestResult
<1>6. NothingAhead'
  <2>1. /\ failed \subseteq 1 .. at /\ crashed <= at /\ (crashed # 0 => "dumbo" \notin up)
        /\ \A i \in DOMAIN summary : summary[i].case <= at
        /\ \A i \in DOMAIN summary :
             summary[i].case \in failed => summary[i].status \in {"Fail", "XPass"}
    BY DEF PairInv, NothingAhead
  <2>2. failed' \subseteq 1 .. at' /\ at' \notin failed' /\ crashed' <= at'
    BY <1>1, <1>2, <2>1
  <2>3. \A i \in DOMAIN summary : summary[i].case \in Nat
    BY SuiteFacts DEF PairInv
  <2>4. \A i \in DOMAIN summary : summary[i].case < at + 1 /\ summary[i].case <= at + 1
    BY <1>2, <2>1, <2>3
  <2>5. QED
    BY <1>1, <1>3, <2>1, <2>2, <2>4 DEF NothingAhead
<1>7. AnswersKnown'
  <2>1. \A r \in tested : r.case <= at /\ r.case \in Nat
    <3>1. \A r \in tested : r.case <= at /\ r.case \in DOMAIN cases
      BY DEF PairInv, PairTypeOK, AnswersKnown
    <3>2. DOMAIN cases = 1 .. Len(cases)
      BY SuiteFacts DEF PairInv
    <3>3. QED
      BY <3>1, <3>2
  <2>2. \A r \in tested : r.case < at + 1 /\ r.case <= at + 1
    BY <1>2, <2>1
  <2>3. QED
    BY <1>1, <1>3, <1>4, <2>2 DEF AnswersKnown
<1>8. Prepared' /\ CrashNoticed'
  BY <1>1, <1>3 DEF PairInv, Prepared, CrashNoticed
<1>9. AllEarned'
  <2>1. ASSUME NEW c \in CasesOver' \ failed'
        PROVE  Earned(c)'
    <3>1. c \in Nat /\ c \notin failed /\ (c \in CasesOver \/ c = at)
      BY <1>1, <1>2 DEF CasesOver
    <3>2. Earned(c)
      BY <1>1, <3>1 DEF PairInv, AllEarned
    <3>3. \A s \in Servers : Got(c, s)' = Got(c, s)
      BY <1>1 DEF Got
    <3>4. QED
      BY <1>1, <1>2, <3>1, <3>2, <3>3, EarnedStays
  <2>2. QED
    BY <1>3, <2>1 DEF AllEarned
<1>10. DatabasesDropped'
  <2> SUFFICES ASSUME "mongo" \in up
               PROVE  \A d \in dbs' : d.server \in up => d.case \notin CasesOver'
    BY <1>1 DEF DatabasesDropped
  <2>1. \A d \in dbs : d.server \in up => d.case \notin 1 .. at - 1
    BY DEF PairInv, DatabasesDropped, CasesOver
  <2>2. \A d \in dbs' : d \in dbs /\ (d.server \in up => d.case # at)
    BY <1>1
  <2>3. \A n : n \in 1 .. (at + 1) - 1 => n \in 1 .. at - 1 \/ n = at
    BY <1>2
  <2>4. QED
    BY <1>1, <2>1, <2>2, <2>3 DEF CasesOver
<1>11. QED
  BY <1>5, <1>6, <1>7, <1>8, <1>9, <1>10 DEF PairInv

LEMMA ServerCrashHolds ==
  ASSUME PairInv, NEW s \in Servers, ServerCrash(s)
  PROVE  PairInv'
<1>1. /\ s \in up /\ step # "done" /\ Fault /\ up' = up \ {s}
      /\ crashed' = IF s = "dumbo" THEN at ELSE crashed
      /\ UNCHANGED <<cases, clients, admin, dbs, at, step, expired, answer, failed, summary,
                     setups, tested, late>>
  BY DEF ServerCrash
<1>2. /\ at \in DOMAIN cases /\ at \in Nat /\ at \in 1 .. Len(cases) /\ Len(cases) \in Nat
      /\ crashed' \in Nat /\ Case' = Case
  BY <1>1, CaseRuns, SuiteFacts DEF PairInv, Case
<1>3. PairTypeOK'
  <2>1. faults' \in 0 .. MaxFaults
    BY <1>1, FaultsAssumption DEF Fault, PairInv, PairTypeOK
  <2>2. crashed' \in 0 .. Len(cases)
    BY <1>1, <1>2 DEF PairInv, PairTypeOK
  <2>3. QED
    BY <1>1, <2>1, <2>2 DEF PairInv, PairTypeOK, TestResult
<1>4. NothingAhead'
  <2>1. crashed' <= at /\ (crashed' # 0 => "dumbo" \notin up')
    BY <1>1, <1>2 DEF PairInv, NothingAhead
  <2>2. QED
    BY <1>1, <2>1 DEF PairInv, NothingAhead
<1>5. AnswersKnown'
  BY <1>1, <1>2 DEF PairInv, AnswersKnown, Got, Explained
<1>6. Prepared'
  BY <1>1, <1>2 DEF PairInv, Prepared
<1>7. CrashNoticed'
  BY <1>1, <1>2 DEF PairInv, CrashNoticed
<1>8. AllEarned'
  <2>1. \A c \in 1 .. at - 1, u \in Servers : Got(c, u)' = Got(c, u)
    BY <1>1 DEF Got
  <2>2. \A c \in CasesOver' \ failed' : Earned(c)'
    BY <1>1, <1>2, <2>1, OverStays
  <2>3. Earned(at) => Earned(at)'
    <3>1. \A u \in Servers : Got(at, u)' = Got(at, u)
      BY <1>1 DEF Got
    <3>2. up # {} /\ up' \subseteq up
      BY <1>1
    <3>3. \A c \in Nat : c = at /\ Earned(c) => Earned(c)'
      BY <1>1, <1>2, <3>1, <3>2, EarnedStays
    <3>4. QED
      BY <1>1, <1>2, <3>3
  <2>4. QED
    BY <1>1, <2>2, <2>3 DEF PairInv, AllEarned
<1>9. DatabasesDropped'
  BY <1>1 DEF PairInv, DatabasesDropped, CasesOver
<1>10. QED
  BY <1>3, <1>4, <1>5, <1>6, <1>7, <1>8, <1>9 DEF PairInv

LEMMA SameEarned ==
  ASSUME PairInv, late \subseteq late',
         UNCHANGED <<cases, up, at, step, admin, failed, setups, tested, crashed>>
  PROVE  AllEarned'
<1>1. \A c \in 1 .. at - 1, u \in Servers : Got(c, u)' = Got(c, u)
  BY DEF Got
<1>2. crashed' \in Nat
  BY SuiteFacts DEF PairInv
<1>3. \A c \in CasesOver' \ failed' : Earned(c)'
  BY <1>1, <1>2, OverStays
<1>4. Earned(at) => Earned(at)'
  BY DEF Earned, ComparedAsMeant, Got, Unserved
<1>5. QED
  BY <1>3, <1>4 DEF PairInv, AllEarned

LEMMA ExpireHolds ==
  ASSUME PairInv, Expire
  PROVE  PairInv'
<1>1. /\ expired' = TRUE /\ late' = late \cup {at} /\ at \in DOMAIN cases /\ Fault
      /\ UNCHANGED <<cases, up, clients, admin, dbs, at, step, answer, failed, summary, setups,
                     tested, crashed>>
  BY CaseRuns DEF Expire, PairInv
<1>2. PairTypeOK'
  <2>1. faults' \in 0 .. MaxFaults
    BY <1>1, FaultsAssumption DEF Fault, PairInv, PairTypeOK
  <2>2. QED
    BY <1>1, <2>1 DEF PairInv, PairTypeOK, TestResult
<1>3. NothingAhead' /\ DatabasesDropped'
  BY <1>1 DEF PairInv, NothingAhead, DatabasesDropped, CasesOver
<1>4. AnswersKnown'
  BY <1>1 DEF PairInv, AnswersKnown, Got, Case, Explained
<1>5. Prepared' /\ CrashNoticed'
  BY <1>1 DEF PairInv, Prepared, CrashNoticed, Case
<1>6. AllEarned'
  BY <1>1, SameEarned DEF PairInv
<1>7. QED
  BY <1>2, <1>3, <1>4, <1>5, <1>6 DEF PairInv

LEMMA PairStepHolds ==
  ASSUME PairInv, [PairNext]_pairVars
  PROVE  PairInv'
<1>1. CASE UNCHANGED pairVars
  <2>1. PairTypeOK'
    BY <1>1 DEF pairVars, PairInv, PairTypeOK, TestResult
  <2>2. NothingAhead' /\ DatabasesDropped'
    BY <1>1 DEF pairVars, PairInv, NothingAhead, DatabasesDropped, CasesOver
  <2>3. AnswersKnown'
    BY <1>1 DEF pairVars, PairInv, AnswersKnown, Got, Case, Explained
  <2>4. Prepared' /\ CrashNoticed'
    BY <1>1 DEF pairVars, PairInv, Prepared, CrashNoticed, Case
  <2>5. AllEarned'
    BY <1>1, SameEarned DEF pairVars
  <2>6. QED
    BY <2>1, <2>2, <2>3, <2>4, <2>5 DEF PairInv
<1>2. CASE Clients \/ AuthClients \/ Alloc
  BY <1>2, ClientsHolds, AuthClientsHolds, AllocHolds
<1>3. CASE RunMongo \/ RunDumbo \/ Grade
  BY <1>3, RunMongoHolds, RunDumboHolds, GradeHolds
<1>4. CASE Cleanup \/ Expire
  BY <1>4, CleanupHolds, ExpireHolds
<1>5. CASE SuiteDone
  BY <1>1, <1>5 DEF SuiteDone
<1>6. ASSUME NEW s \in Servers, Boot(s) \/ Setup(s) \/ ServerCrash(s)
      PROVE  PairInv'
  BY <1>6, BootHolds, SetupHolds, ServerCrashHolds
<1>7. QED
  BY <1>1, <1>2, <1>3, <1>4, <1>5, <1>6 DEF PairNext

(* A summary without unexpected failures has no failed case in it. *)
LEMMA FailuresAreCounted ==
  ASSUME PairInv, ~HasUnexpectedFailures, NEW i \in DOMAIN summary
  PROVE  summary[i].case \notin failed
<1>1. summary \in Seq(TestResult)
  BY DEF PairInv, PairTypeOK
<1>2. DOMAIN summary = 1 .. Len(summary) /\ Len(summary) \in Nat
  BY <1>1
<1>3. ASSUME NEW status, summary[i].status = status
      PROVE  CountOf(status) > 0
  <2> DEFINE With == {j \in DOMAIN summary : summary[j].status = status}
  <2>1. IsFiniteSet(With)
    <3>1. IsFiniteSet(1 .. Len(summary))
      BY <1>2, FS_Interval
    <3>2. With \subseteq 1 .. Len(summary)
      BY <1>2
    <3>3. QED
      BY <3>1, <3>2, FS_Subset
  <2>2. Cardinality(With) \in Nat /\ With # {}
    BY <1>3, <2>1, FS_CardinalityType
  <2>3. Cardinality(With) # 0
    BY <2>1, <2>2, FS_EmptySet
  <2>4. QED
    BY <2>2, <2>3 DEF CountOf
<1>4. summary[i].case \in failed => summary[i].status \in {"Fail", "XPass"}
  BY DEF PairInv, NothingAhead
<1>5. QED
  BY <1>3, <1>4 DEF HasUnexpectedFailures

LEMMA PairInvariant == PairSpec => []PairInv
<1>1. PairInit => PairInv
  BY PairInitHolds
<1>2. PairInv /\ [PairNext]_pairVars => PairInv'
  BY PairStepHolds
<1>3. QED
  BY <1>1, <1>2, PTL DEF PairSpec

(* The state of a parity suite is what PairTest and the summary declare. *)
THEOREM PairTypes == PairSpec => []PairTypeOK
<1>1. PairInv => PairTypeOK
  BY DEF PairInv
<1>2. QED
  BY <1>1, PairInvariant, PTL

(* For every suite of cases, any number of faults and any comparison that tells the
   answers apart: a case is green only when both servers were prepared for it and
   answered as its support level demands, or, at level FULL, both failed with the same
   error of the driver because the deadline of the case was over or both had crashed;
   no case over the shared clients is green
   after DumboDB crashed, a summary without unexpected failures hides no failed case,
   and while MongoDB runs the cleanup of a case drops its databases from every server
   that still runs, for the deadline of the drops is not the case's. *)
THEOREM SuitesAreSound == PairSpec => []SuiteIsSound
<1>1. PairInv => GreenIsEarned
  BY FailuresAreCounted DEF PairInv, AllEarned, GreenIsEarned
<1>2. PairInv => SuiteIsSound
  BY <1>1 DEF PairInv, SuiteIsSound
<1>3. QED
  BY <1>2, PairInvariant, PTL
=============================================================================
