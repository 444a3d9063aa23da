---------------------------- MODULE Transaction ----------------------------
(***************************************************************************)
(* The scenario txn-commit-race (concurrency/transaction_scenario.go):     *)
(* every operation inserts a batch of two documents in a transaction of    *)
(* its own. The driver's WithTransaction, which repeats a batch that       *)
(* failed transiently and a commit whose outcome it does not know, and the *)
(* server are external; the server may be defective. A document is an      *)
(* operation and a member of its batch.                                    *)
(***************************************************************************)
EXTENDS Integers, Sequences, FiniteSets

CONSTANTS Workers,
          MaxOperations,  \* bound on the operations of the run
          MaxFaults,      \* bound on lost replies, failed inserts and conflicts
          Defects         \* what the server may do wrong, with "none"

ASSUME LimitsAssumption == MaxOperations \in Nat /\ MaxFaults \in Nat

VARIABLES defect,
          attempts,  \* ledger.Attempts
          txn,       \* per worker: its operation, step and staged members
          stored,    \* documents committed on the server
          invalid,   \* how many it holds that are no document of any batch
          outcomes,  \* s.outcomes: per operation, "unrecorded" until it is
          passed,    \* the checks Verify evaluated, {} before
          cancelled, \* the run's context is over
          faults

txnVars == <<defect, attempts, txn, stored, invalid, outcomes, passed, cancelled, faults>>

transactionBatchSize == 2
Members == 0 .. transactionBatchSize - 1
Operations == 1 .. MaxOperations
Batch(op) == {op} \X Members
Kinds == {"unrecorded", "matched", "rejected", "indeterminate"}

Idle == [op |-> 0, step |-> "idle", staged |-> 0, committed |-> FALSE]

TxnInit == /\ defect \in Defects /\ attempts = 0
           /\ txn = [w \in Workers |-> Idle] /\ stored = {} /\ invalid = 0
           /\ outcomes = [op \in Operations |-> "unrecorded"] /\ passed = {"unverified"}
           /\ cancelled = FALSE /\ faults = 0

Fault == faults < MaxFaults /\ faults' = faults + 1

(* The next operation: Execute starts a transaction *)
Begin(w) ==
  /\ txn[w].step = "idle" /\ attempts < MaxOperations /\ ~cancelled
  /\ passed = {"unverified"}
  /\ attempts' = attempts + 1
  /\ txn' = [txn EXCEPT ![w] = [op |-> attempts + 1, step |-> "insert", staged |-> 0,
                                committed |-> FALSE]]
  /\ UNCHANGED <<defect, stored, invalid, outcomes, passed, cancelled, faults>>

(* InsertOne of the next member of the batch, in the transaction *)
InsertOne(w) ==
  /\ txn[w].step = "insert" /\ ~cancelled
  /\ txn' = [txn EXCEPT ![w].staged = @ + 1,
                        ![w].step = IF txn[w].staged + 1 = transactionBatchSize
                                    THEN "commit" ELSE "insert"]
  /\ UNCHANGED <<defect, attempts, stored, invalid, outcomes, passed, cancelled, faults>>

RecordIn(w, kind) == txn' = [txn EXCEPT ![w].step = kind]

(* An insert or a commit fails before it took effect: the transaction is aborted,
   and the batch repeated when the error is labelled transient. *)
Aborts(w) ==
  /\ txn[w].step \in {"insert", "commit"} /\ ~txn[w].committed /\ ~cancelled /\ Fault
  /\ \/ txn' = [txn EXCEPT ![w].step = "insert", ![w].staged = 0]
     \/ RecordIn(w, "rejected")
  /\ stored' = IF defect = "phantom" /\ txn[w].staged > 0
               THEN stored \cup {<<txn[w].op, 0>>} ELSE stored
  /\ UNCHANGED <<defect, attempts, invalid, outcomes, passed, cancelled>>

(* commitTransaction: what a correct server stores, and a defective one *)
Committed(w) ==
  CASE defect = "partial" -> stored \cup {<<txn[w].op, 0>>}
    [] defect = "lost" -> stored
    [] OTHER -> stored \cup Batch(txn[w].op)

Stores(w) == stored' = Committed(w) /\ invalid' = invalid + IF defect = "stray" THEN 1 ELSE 0

(* The reply arrives, or is lost: the driver then commits again. *)
Commit(w) ==
  /\ txn[w].step = "commit" /\ ~cancelled
  /\ Stores(w)
  /\ \/ RecordIn(w, "matched") /\ UNCHANGED faults
     \/ Fault /\ txn' = [txn EXCEPT ![w].committed = TRUE]
  /\ UNCHANGED <<defect, attempts, outcomes, passed, cancelled>>

(* The context ends; a call that runs returns an ambiguous error, whether or not
   its commit took effect. *)
Cancel ==
  /\ ~cancelled /\ Fault /\ cancelled' = TRUE
  /\ UNCHANGED <<defect, attempts, txn, stored, invalid, outcomes, passed>>

Interrupted(w) ==
  /\ cancelled /\ txn[w].step \in {"insert", "commit"}
  /\ \/ RecordIn(w, "indeterminate") /\ UNCHANGED <<stored, invalid>>
     \/ txn[w].step = "commit" /\ Stores(w) /\ RecordIn(w, "indeterminate")
  /\ UNCHANGED <<defect, attempts, outcomes, passed, cancelled, faults>>

(* record: the outcome of its own operation, whatever others ended before *)
Recorded(w) == [outcomes EXCEPT ![txn[w].op] = txn[w].step]

Record(w) ==
  /\ txn[w].step \in Kinds \ {"unrecorded"}
  /\ outcomes' = Recorded(w)
  /\ txn' = [txn EXCEPT ![w] = Idle]
  /\ UNCHANGED <<defect, attempts, stored, invalid, passed, cancelled, faults>>

-----------------------------------------------------------------------------
Count(kind) == Cardinality({op \in 1 .. attempts : outcomes[op] = kind})
storedByOperation(op) == Cardinality({d \in stored : d[1] = op})

Partial(op) == storedByOperation(op) \notin {0, transactionBatchSize}

Missing(op) == storedByOperation(op) # transactionBatchSize

ChecksByBatch ==  \* Seeded defect: a batch counts as stored when any document of it is.
  LET ops == 1 .. attempts
      seen(op) == storedByOperation(op) > 0
  IN {c \in {"eventually", "atomic", "durable", "unacknowledged"} :
       CASE c = "eventually" -> Count("matched") = attempts
         [] c = "atomic" -> TRUE
         [] c = "durable" -> \A op \in ops : outcomes[op] = "matched" => seen(op)
         [] c = "unacknowledged" -> \A op \in ops : outcomes[op] = "matched" \/ ~seen(op)}

(* Verify, after the workers stopped *)
Checks ==
  LET ops == 1 .. attempts
  IN {c \in {"eventually", "atomic", "durable", "unacknowledged"} :
       CASE c = "eventually" -> Count("matched") = attempts
         [] c = "atomic" -> invalid = 0 /\ \A op \in ops : ~Partial(op)
         [] c = "durable" ->
              /\ \A op \in ops : outcomes[op] = "matched" => ~Missing(op)
              /\ Cardinality(stored) + invalid = Count("matched") * transactionBatchSize
         [] c = "unacknowledged" ->
              \A op \in ops : /\ outcomes[op] # "unrecorded"
                              /\ outcomes[op] \in {"rejected", "indeterminate"}
                                   => storedByOperation(op) = 0}

Verify ==
  /\ passed = {"unverified"} /\ attempts > 0 /\ \A w \in Workers : txn[w] = Idle
  /\ passed' = Checks
  /\ UNCHANGED <<defect, attempts, txn, stored, invalid, outcomes, cancelled, faults>>

(* The run may end before its operations are used up. *)
Ended == passed # {"unverified"} /\ UNCHANGED txnVars
Nothing == attempts = 0 /\ cancelled /\ UNCHANGED txnVars

TxnNext == \/ Cancel \/ Verify \/ Ended \/ Nothing
           \/ \E w \in Workers : \/ Begin(w) \/ InsertOne(w) \/ Aborts(w) \/ Commit(w)
                                 \/ Interrupted(w) \/ Record(w)

TxnSpec == TxnInit /\ [][TxnNext]_txnVars

-----------------------------------------------------------------------------
Verified == passed # {"unverified"}
AllChecks == {"eventually", "atomic", "durable", "unacknowledged"}
AllBatches == UNION {Batch(op) : op \in 1 .. attempts}

TxnTypeOK ==
  /\ defect \in Defects /\ attempts \in 0 .. MaxOperations
  /\ txn \in [Workers -> [op : 0 .. MaxOperations, staged : 0 .. transactionBatchSize,
                          step : {"idle", "insert", "commit"} \cup Kinds,
                          committed : BOOLEAN]]
  /\ \A w \in Workers : txn[w].step = "insert" => txn[w].staged < transactionBatchSize
  /\ stored \subseteq AllBatches /\ invalid \in Nat /\ outcomes \in [Operations -> Kinds]
  /\ Verified => passed \subseteq AllChecks
  /\ cancelled \in BOOLEAN /\ faults \in 0 .. MaxFaults

(* A correct server passes the check of atomicity, and those of durability and of
   absence when every outcome is certain, although batches and commits were
   repeated. When all checks pass, the server, correct or not, holds exactly the
   batches of the operations: a half-applied, lost or left-over batch, or a document
   of none, is never concluded to be correct. *)
TransactionsJudgedRight ==
  Verified =>
    /\ defect = "none" => "atomic" \in passed
    /\ defect = "none" /\ Count("indeterminate") = 0
         => {"durable", "unacknowledged"} \subseteq passed
    /\ passed = AllChecks => stored = AllBatches /\ invalid = 0
=============================================================================
