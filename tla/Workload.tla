------------------------------ MODULE Workload ------------------------------
(***************************************************************************)
(* The replication workload (harness/workload.go): workers run the same    *)
(* list of operations repeat times over each other, a shared Coverage      *)
(* counts what ran, failed and changed nothing, and the replication tests  *)
(* conclude from those counts that every operation reached the oplog. The  *)
(* server is external: it holds documents and made collections, and may    *)
(* fail a call, or carry it out and lose the reply.                        *)
(***************************************************************************)
EXTENDS Integers, FiniteSets, Sequences, SequencesExt

CONSTANTS
  Worker,      \* the worker goroutines: Concurrency, or one when it is 0
  Lists,       \* the lists of operations a workload may be given
  Repeat,      \* w.Repeat; 0 means once
  Existing,    \* the ids existingID draws from, seeded before the run
  Ids,         \* the ids docID draws from
  Names,       \* the names createCollection and dropCollection draw from
  Faults       \* what may go wrong: "command", "lost", "cancel"

VARIABLES
  ops,       \* w.Ops
  worker,    \* per worker: next operation, calls made of it, what it will return
  docs,      \* the ids in the collection "workload"
  names,     \* the collections made beside it
  ran, failures, noOps,  \* Coverage
  changes,   \* operation name -> attempts of it that changed the server
  cancelled, \* ctx.Err() # nil
  panicked,  \* a worker panicked and took the process with it
  returned   \* what Run returned, or "running"

vars == <<ops, worker, docs, names, ran, failures, noOps, changes, cancelled, panicked, returned>>
coverage == <<ran, failures, noOps>>

(***************************************************************************)
(* The vocabulary. The update operators, of documents and arrays alike,    *)
(* are one kind, updateOp; so are the two that create a collection.        *)
(***************************************************************************)
CountedOps == {"updateOp", "updateMany", "replaceOne", "deleteOne", "deleteMany"}
FindOps == {"findOneAndUpdate", "findOneAndDelete"}
InsertOps == {"insertOne", "insertMany", "insertMany-unordered-with-duplicate", "upsert"}
OtherOps == {"bulkWrite-mixed", "array-positional-filtered", "array-positional-match"}
CatalogOps == {"createCollection", "collMod-validator", "createIndex", "dropIndex",
               "renameCollection", "dropCollection"}
TransactionOps == {"transaction-commit", "transaction-abort"}
StandardVocabulary ==
  CountedOps \cup FindOps \cup InsertOps \cup OtherOps \cup CatalogOps \cup TransactionOps

(* A workload has finitely many workers and a list of operations that may repeat
   names and may be empty; docID draws from what existingID draws from, and more. *)
ASSUME WorkersAssumption == IsFiniteSet(Worker) /\ Repeat \in Nat
ASSUME ListsAssumption == Lists \subseteq Seq(StandardVocabulary)
ASSUME IdsAssumption == IsFiniteSet(Ids) /\ Existing \subseteq Ids

TwoCalls == {"dropIndex", "renameCollection"}
Passes == IF Repeat = 0 THEN 1 ELSE Repeat
Position(i) == ops[((i - 1) % Len(ops)) + 1]

(***************************************************************************)
(* The server: the outcomes of one call, as the documents and collections  *)
(* it leaves, how many it changed, and its error.                          *)
(***************************************************************************)
Out(d, n, changed, err) == [docs |-> d, names |-> n, changed |-> changed, err |-> err]
Docs(d, changed, err) == Out(d, names, changed, err)
Same(changed, err) == Out(docs, names, changed, err)

Insert(id) == IF id \in docs THEN Same(0, "duplicate") ELSE Docs(docs \cup {id}, 1, "nil")
Update(id) == {Same(n, "nil") : n \in IF id \in docs THEN {0, 1} ELSE {0}}
Delete(id) == Docs(docs \ {id}, Cardinality(docs \cap {id}), "nil")

FindAndUpdate(id) == IF id \in docs THEN Same(1, "nil") ELSE Same(0, "no documents")
FindAndDelete(id) == IF id \in docs THEN Delete(id) ELSE Same(0, "no documents")

(* Any number may be inserted before a duplicate stops the rest. *)
InsertMany == {Docs(docs \cup s, Cardinality(s), "nil") : s \in SUBSET (Ids \ docs) \ {{}}}
                \cup {Docs(docs \cup s, Cardinality(s), "duplicate") :
                        s \in {x \in SUBSET (Ids \ docs) : docs \cup x # {}}}

(* An insert, an update and a delete: the duplicate does not stop the others. *)
BulkWrite(i, d) ==
  {Docs((docs \cup {i}) \ {d}, n, IF i \in docs THEN "duplicate" ELSE "nil") :
     n \in IF i \notin docs \/ d \in docs THEN {1} ELSE IF docs \cap Existing # {} THEN {0, 1} ELSE {0}}

ServeDocuments(op) ==
  CASE op = "insertOne" -> {Insert(id) : id \in Ids}
    [] op = "insertMany" -> InsertMany
    [] op = "bulkWrite-mixed" -> UNION {BulkWrite(i, d) : i \in Ids, d \in Existing}
    [] op = "insertMany-unordered-with-duplicate" ->
         {[Insert(id) EXCEPT !.err = "duplicate"] : id \in Ids}
    [] op = "upsert" ->
         UNION {IF id \in docs THEN Update(id) ELSE {Insert(id)} : id \in Ids}
    [] op \in {"updateOp", "replaceOne", "array-positional-filtered"} ->
         UNION {Update(id) : id \in Existing}
    [] op = "array-positional-match" -> UNION {Update(id) : id \in Ids}
    [] op = "updateMany" -> {Same(n, "nil") : n \in 0 .. Cardinality(docs)}
    [] op = "deleteOne" -> {Delete(id) : id \in Existing}
    [] op = "deleteMany" -> {Docs(docs \ s, Cardinality(s), "nil") : s \in SUBSET docs}
    [] op = "findOneAndUpdate" -> {FindAndUpdate(id) : id \in Existing}
    [] op = "findOneAndDelete" -> {FindAndDelete(id) : id \in Existing}

Create(n) == IF n \in names THEN Same(0, "error") ELSE Out(docs, names \cup {n}, 1, "nil")

ServeCatalog(op, call) ==
  CASE op = "createCollection" -> {Create(n) : n \in Names}
    [] op = "renameCollection" /\ call = 0 -> {Create("src")}
    [] op = "renameCollection" /\ call = 1 ->  \* a concurrent rename may have taken it
         {IF "src" \in names THEN Out(docs, (names \ {"src"}) \cup {"dst"}, 1, "nil")
          ELSE Same(0, "error")}
    [] op = "dropCollection" -> {Out(docs, names \ {n}, Cardinality(names \cap {n}), "nil") : n \in Names}
    [] op = "dropIndex" /\ call = 0 ->  \* another worker's transient index has the same keys
         {Same(1, "nil"), Same(0, "error")}
    [] op = "dropIndex" /\ call = 1 -> {Same(1, "nil")}
    [] op = "collMod-validator" -> {Same(1, "nil")}
    [] op = "createIndex" -> {Same(n, "nil") : n \in {0, 1}}  \* 0: the index exists

(* txn_a and txn_b are collections of their own, their ids drawn as docID draws. *)
ServeTransaction(op) ==
  IF op = "transaction-abort" THEN {Same(0, "deliberate abort"), Same(0, "duplicate")}
  ELSE {Same(2, "nil"), Same(0, "duplicate")}

Serve(op, call) == CASE op \in CatalogOps -> ServeCatalog(op, call)
                     [] op \in TransactionOps -> ServeTransaction(op)
                     [] OTHER -> ServeDocuments(op)

(***************************************************************************)
(* What op.Run makes of the reply.                                         *)
(***************************************************************************)
AnyChange(err, changed) ==  \* Seeded defect: one changed document is taken for none.
  IF err # "nil" THEN err ELSE IF changed <= 1 THEN "no contribution" ELSE "nil"
contributed(err, changed) ==
  IF err # "nil" THEN err ELSE IF changed = 0 THEN "no contribution" ELSE "nil"
ignoreNoDocuments(err) == IF err = "no documents" THEN "nil" ELSE err

OpResult(op, err, changed) ==
  CASE op \in CountedOps -> contributed(err, changed)
    [] op \in FindOps -> ignoreNoDocuments(err)
    [] op = "insertMany-unordered-with-duplicate" /\ err = "duplicate" -> "nil"
    [] op = "transaction-abort" /\ err = "deliberate abort" -> "nil"
    [] OTHER -> err

(* The counted operations read result.ModifiedCount or DeletedCount before contributed
   looks at err. With a failed command the driver gives no result; UpdateMany and
   DeleteMany do give one when the server answered with an error of the write. *)
Dereferences(op) == IF op \in {"updateMany", "deleteMany"} THEN BOOLEAN ELSE {op \in CountedOps}

(***************************************************************************)
(* Run                                                                     *)
(***************************************************************************)
Idle == [at |-> 1, calls |-> 0, pc |-> "check", result |-> "nil", changed |-> FALSE]

Init ==
  /\ ops \in Lists
  /\ worker = [w \in Worker |-> Idle]
  /\ docs = Existing
  /\ names = {}
  /\ ran = [o \in Range(ops) |-> 0]
  /\ failures = [o \in Range(ops) |-> 0]
  /\ noOps = [o \in Range(ops) |-> 0]
  /\ changes = [o \in Range(ops) |-> 0]
  /\ cancelled = FALSE
  /\ panicked = FALSE
  /\ returned = "running"

Alive == ~panicked /\ returned = "running"

(* The context is looked at before every operation, and only there. *)
StopAtEnd(w) ==  \* Seeded defect: a worker that is stopped leaves no error.
  /\ Alive /\ worker[w].pc = "check"
  /\ worker' = [worker EXCEPT ![w].pc =
                  IF worker[w].at > Passes * Len(ops) \/ cancelled THEN "done" ELSE "call"]
  /\ UNCHANGED <<ops, docs, names, coverage, changes, cancelled, panicked, returned>>
CheckContext(w) ==
  /\ Alive /\ worker[w].pc = "check"
  /\ worker' = [worker EXCEPT ![w].pc = IF worker[w].at > Passes * Len(ops) THEN "done"
                                        ELSE IF cancelled THEN "cancelled" ELSE "call"]
  /\ UNCHANGED <<ops, docs, names, coverage, changes, cancelled, panicked, returned>>

(* One call that the server answers. *)
Call(w) ==
  LET op == Position(worker[w].at)
  IN /\ Alive /\ worker[w].pc = "call"
     /\ \E o \in Serve(op, worker[w].calls) :
          /\ docs' = o.docs
          /\ names' = o.names
          /\ worker' = [worker EXCEPT ![w] =
               [at |-> worker[w].at, calls |-> worker[w].calls + 1,
                pc |-> IF op \in TwoCalls /\ worker[w].calls = 0 /\ o.err = "nil"
                       THEN "call" ELSE "record",
                result |-> OpResult(op, o.err, o.changed),
                changed |-> worker[w].changed \/ o.changed > 0]]
     /\ UNCHANGED <<ops, coverage, changes, cancelled, panicked, returned>>

(* One call that ends with an error of the command or the connection, carried out
   by the server or not. *)
CallFails(w) ==
  LET op == Position(worker[w].at)
      applied == {Same(0, "error")} \cup
                   (IF "lost" \in Faults THEN Serve(op, worker[w].calls) ELSE {})
  IN /\ Alive /\ worker[w].pc = "call"
     /\ cancelled \/ "command" \in Faults
     /\ \E o \in applied :
          /\ docs' = o.docs
          /\ names' = o.names
          /\ worker' = [worker EXCEPT ![w].pc = "record", ![w].result = "error",
                                      ![w].changed = @ \/ o.changed > 0]
     /\ panicked' \in Dereferences(op)
     /\ UNCHANGED <<ops, coverage, changes, cancelled, returned>>

(* coverage.record, under its mutex *)
Record(w) ==
  LET op == Position(worker[w].at)
      result == worker[w].result
  IN /\ Alive /\ worker[w].pc = "record"
     /\ ran' = [ran EXCEPT ![op] = @ + 1]
     /\ noOps' = [noOps EXCEPT ![op] = @ + IF result = "no contribution" THEN 1 ELSE 0]
     /\ failures' = [failures EXCEPT ![op] = @ + IF result \in {"nil", "no contribution"} THEN 0 ELSE 1]
     /\ changes' = [changes EXCEPT ![op] = @ + IF worker[w].changed THEN 1 ELSE 0]
     /\ worker' = [worker EXCEPT ![w] = [Idle EXCEPT !.at = worker[w].at + 1]]
     /\ UNCHANGED <<ops, docs, names, cancelled, panicked, returned>>

(* wg.Wait, and the first worker's error *)
Return ==
  /\ Alive
  /\ \A w \in Worker : worker[w].pc \in {"done", "cancelled"}
  /\ returned' = IF \E w \in Worker : worker[w].pc = "cancelled" THEN "cancelled" ELSE "nil"
  /\ UNCHANGED <<ops, worker, docs, names, coverage, changes, cancelled, panicked>>

(* The case's timeout, or the caller's cancellation *)
Cancel ==
  /\ Alive /\ "cancel" \in Faults
  /\ ~cancelled
  /\ cancelled' = TRUE
  /\ UNCHANGED <<ops, worker, docs, names, coverage, changes, panicked, returned>>

Ended == ~Alive /\ UNCHANGED vars

Next ==
  \/ \E w \in Worker : CheckContext(w) \/ Call(w) \/ CallFails(w) \/ Record(w)
  \/ Return
  \/ Cancel
  \/ Ended

Spec == Init /\ [][Next]_vars

TypeOK ==
  /\ ops \in Lists
  /\ worker \in [Worker -> [at : Nat, calls : 0 .. 2, pc : {"check", "call", "record", "done", "cancelled"},
                            result : {"nil", "no contribution", "duplicate", "error"},
                            changed : BOOLEAN]]
  /\ docs \subseteq Ids /\ names \subseteq Names \cup {"src", "dst"}
  /\ ran \in [Range(ops) -> Nat] /\ failures \in [Range(ops) -> Nat]
  /\ noOps \in [Range(ops) -> Nat] /\ changes \in [Range(ops) -> Nat]
  /\ cancelled \in BOOLEAN /\ panicked \in BOOLEAN
  /\ returned \in {"running", "nil", "cancelled"}

-----------------------------------------------------------------------------
(***************************************************************************)
(* Properties                                                              *)
(***************************************************************************)
(* assertEveryOperationContributed of the replication tests, for one operation *)
Contributed(op) == ran[op] # 0 /\ failures[op] + noOps[op] # ran[op]

Count(op) == Cardinality({i \in DOMAIN ops : ops[i] = op})

(* Run returns no error only when every worker ran every operation in every pass,
   with the outcome of each counted once however the workers' operations overlap:
   a cancelled context never passes for a complete workload. *)
CompleteOrError ==
  returned = "nil" =>
    \A op \in Range(ops) : ran[op] = Cardinality(Worker) * Passes * Count(op)

(* An operation that reports how much it changed and is not found wanting by
   assertEveryOperationContributed did change the server, although other workers
   delete and replace the documents it aims at; and one that never failed and did
   change the server is not found wanting. *)
CountedOpsAreJudgedRight ==
  \A op \in CountedOps \cap Range(ops) :
    /\ Contributed(op) => changes[op] > 0
    /\ failures[op] = 0 /\ changes[op] > 0 => Contributed(op)
=============================================================================
