---------------------------- MODULE MergeMatrix ----------------------------
(***************************************************************************)
(* The merge matrices (concurrency/field_divergent_matrix.go): one row     *)
(* after the other, a base document is changed on two branches, workers    *)
(* merge the branch feature into main, and the verdict and the document    *)
(* are compared with the row's expectation. The server and its merge modes *)
(* are external: a three-way merge, which serialises the merges of a row.  *)
(***************************************************************************)
EXTENDS Integers, Sequences, FiniteSets

CONSTANTS Workers,      \* the workers that execute a row, one operation each
          ServerModes,  \* the merge modes the collection may really have
          MaxFaults     \* bound on lost merges and failed Setups

Modes == {"documentTouched", "documentDivergent", "fieldDivergent"}
AllModes == Modes \cup {"fieldTouched"}
VARIABLES mode,        \* definition.Mode
          serverMode,  \* the collection's mode
          row,         \* index of the row under test
          pc,          \* "setup", "execute", "verify", "done"
          feature, main,  \* the document on the two branches
          merged,      \* server: "no", "yes", "conflict"
          worker,      \* per worker: "idle", "sent", "ok", "error", "done"
          merges,      \* per worker: what its merge did: "none", "applied", "refused"
          outcome,     \* per worker: "none", "matched", "rejected"
          response,    \* mergeResponse: "none", "ok", "error"
          lost,        \* history: a reply or a request of this row was lost
          verdicts,    \* per row done: "pass", "fail", "error"
          quiet,       \* history: rows done without a loss
          faults

vars == <<mode, serverMode, row, pc, feature, main, merged, worker, merges, outcome,
          response, lost, verdicts, quiet, faults>>

Doc(a, b) == [a |-> a, b |-> b]
Absent == Doc(-1, -1)

(***************************************************************************)
(* A row: its base, the change of each branch, and what is expected of the *)
(* mode: a conflict or not, and the document on main afterwards.           *)
(***************************************************************************)
Conflict(doc) == [conflict |-> TRUE, doc |-> doc]
Merge(doc) == [conflict |-> FALSE, doc |-> doc]
Row(base, onFeature, onMain, touched, divergent, field) ==
  [base |-> base, feature |-> onFeature, main |-> onMain,
   expect |-> [documentTouched |-> touched, documentDivergent |-> divergent,
               fieldDivergent |-> field]]

Rows == <<
  Row(Doc(0, 0), "set-a-one", "none",
      Merge(Doc(1, 0)), Merge(Doc(1, 0)), Merge(Doc(1, 0))),
  Row(Doc(0, 0), "set-a-one", "set-b-one",
      Conflict(Doc(0, 1)), Conflict(Doc(0, 1)), Merge(Doc(1, 1))),
  Row(Doc(0, 0), "set-a-one", "set-a-one",
      Conflict(Doc(1, 0)), Merge(Doc(1, 0)), Merge(Doc(1, 0))),
  Row(Doc(0, 0), "set-a-one-b-one", "set-a-one",
      Conflict(Doc(1, 0)), Conflict(Doc(1, 0)), Merge(Doc(1, 1))),
  Row(Doc(0, 0), "set-a-one", "set-a-two",
      Conflict(Doc(2, 0)), Conflict(Doc(2, 0)), Conflict(Doc(2, 0))),
  Row(Doc(0, 0), "set-a-one", "delete",
      Conflict(Absent), Conflict(Absent), Conflict(Absent)),
  Row(Absent, "insert-a-one", "insert-a-one",
      Conflict(Doc(1, 0)), Merge(Doc(1, 0)), Merge(Doc(1, 0))),
  Row(Absent, "insert-a-one", "insert-a-two",
      Conflict(Doc(2, 0)), Conflict(Doc(2, 0)), Conflict(Doc(2, 0))),
  Row(Doc(0, 0), "delete", "delete",
      Conflict(Absent), Merge(Absent), Merge(Absent)) >>

Expected == Rows[row].expect[mode]

ApplyNoB(doc, change) ==  \* Seeded defect: the change of b is forgotten.
  CASE change = "none" -> doc
    [] change \in {"set-a-one", "set-a-one-b-one"} -> [doc EXCEPT !.a = 1]
    [] change = "set-a-two" -> [doc EXCEPT !.a = 2]
    [] change = "set-b-one" -> [doc EXCEPT !.b = 1]
    [] change = "insert-a-one" -> Doc(1, 0)
    [] change = "insert-a-two" -> Doc(2, 0)
    [] change = "delete" -> Absent

applyMatrixChange(doc, change) ==
  CASE change = "none" -> doc
    [] change = "set-a-one" -> [doc EXCEPT !.a = 1]
    [] change = "set-a-two" -> [doc EXCEPT !.a = 2]
    [] change = "set-b-one" -> [doc EXCEPT !.b = 1]
    [] change = "set-a-one-b-one" -> Doc(1, 1)
    [] change = "insert-a-one" -> Doc(1, 0)
    [] change = "insert-a-two" -> Doc(2, 0)
    [] change = "delete" -> Absent

(***************************************************************************)
(* The server's merge of theirs into ours, from base.                      *)
(***************************************************************************)
Changed(base, doc) ==
  IF Absent \in {base, doc} THEN {f \in {"a", "b"} : doc # base}
  ELSE {f \in {"a", "b"} : doc[f] # base[f]}

Conflicts(how, base, theirs, ours) ==
  LET both == Changed(base, theirs) \cap Changed(base, ours)
      gone == Absent \in {base, theirs, ours}
  IN /\ theirs # base /\ ours # base
     /\ CASE how = "documentTouched" -> TRUE
          [] how = "documentDivergent" -> theirs # ours
          [] how = "fieldTouched" -> both # {} \/ gone
          [] how = "fieldDivergent" -> IF gone THEN theirs # ours
                                       ELSE \E f \in both : theirs[f] # ours[f]

Merged(base, theirs, ours) ==
  IF Absent \in {base, theirs, ours} THEN IF theirs = base THEN ours ELSE theirs
  ELSE [f \in {"a", "b"} |-> IF f \in Changed(base, theirs) THEN theirs[f] ELSE ours[f]]

-----------------------------------------------------------------------------
NoOne(v) == [w \in Workers |-> v]

Init == /\ mode \in Modes /\ serverMode \in ServerModes
        /\ row = 1 /\ pc = "setup" /\ feature = Absent /\ main = Absent
        /\ merged = "no" /\ worker = NoOne("idle") /\ merges = NoOne("none")
        /\ outcome = NoOne("none") /\ response = "none" /\ lost = FALSE
        /\ verdicts = << >> /\ quiet = {} /\ faults = 0

Fault == faults < MaxFaults /\ faults' = faults + 1

NextRow(verdict) ==
  /\ verdicts' = Append(verdicts, verdict)
  /\ quiet' = IF lost \/ verdict = "error" THEN quiet ELSE quiet \cup {row}
  /\ IF row = Len(Rows) THEN pc' = "done" /\ UNCHANGED row
     ELSE pc' = "setup" /\ row' = row + 1

(* Setup: the base is committed, branched and changed on both sides; any of its
   commands may fail, and the run of the row with it. *)
Setup ==
  /\ pc = "setup"
  /\ \/ /\ feature' = applyMatrixChange(Rows[row].base, Rows[row].feature)
        /\ main' = applyMatrixChange(Rows[row].base, Rows[row].main)
        /\ pc' = "execute" /\ merged' = "no" /\ worker' = NoOne("idle")
        /\ merges' = NoOne("none") /\ outcome' = NoOne("none")
        /\ response' = "none" /\ lost' = FALSE
        /\ UNCHANGED <<row, verdicts, quiet, faults>>
     \/ /\ Fault /\ NextRow("error")
        /\ UNCHANGED <<feature, main, merged, worker, merges, outcome, response, lost>>
  /\ UNCHANGED <<mode, serverMode>>

(* Execute: doltMerge is sent *)
Send(w) ==
  /\ pc = "execute" /\ worker[w] = "idle"
  /\ worker' = [worker EXCEPT ![w] = "sent"]
  /\ UNCHANGED <<mode, serverMode, row, pc, feature, main, merged, merges, outcome,
                 response, lost, verdicts, quiet, faults>>

(* The server merges once; a branch that is merged is up to date, and one in
   conflict refuses. A request may be lost before, a reply after the merge. *)
ServerMerges(w) ==
  LET base == Rows[row].base
      conflict == merged = "conflict"
                    \/ (merged = "no" /\ Conflicts(serverMode, base, feature, main))
  IN /\ worker[w] = "sent"
     /\ \E reply, arrives \in BOOLEAN :
          /\ arrives \/ ~reply
          /\ IF reply THEN UNCHANGED <<faults, lost>> ELSE Fault /\ lost' = TRUE
          /\ worker' = [worker EXCEPT ![w] =
               IF reply /\ ~conflict THEN "ok" ELSE "error"]
          /\ IF ~arrives THEN UNCHANGED <<merged, main, merges>>
             ELSE /\ merged' = IF conflict THEN "conflict" ELSE "yes"
                  /\ main' = IF conflict \/ merged = "yes" THEN main
                             ELSE Merged(base, feature, main)
                  /\ merges' = [merges EXCEPT ![w] =
                       IF conflict THEN "refused" ELSE "applied"]
     /\ UNCHANGED <<mode, serverMode, row, pc, feature, outcome, response, verdicts, quiet>>

(* s.mergeResponse, under the mutex, whichever worker comes last *)
StoreResponse(w) == response' = worker[w]

(* The outcome: any error is a rejection. *)
OutcomeOf(w) == IF worker[w] = "ok" THEN "matched" ELSE "rejected"

Executed(w) ==
  /\ worker[w] \in {"ok", "error"}
  /\ StoreResponse(w)
  /\ outcome' = [outcome EXCEPT ![w] = OutcomeOf(w)]
  /\ worker' = [worker EXCEPT ![w] = "done"]
  /\ pc' = IF \A v \in Workers \ {w} : worker[v] = "done" THEN "verify" ELSE pc
  /\ UNCHANGED <<mode, serverMode, row, feature, main, merged, merges, lost, verdicts,
                 quiet, faults>>

(* doltConflicts, asked for only when the merge did not succeed *)
ConflictCount(conflicted) == IF conflicted /\ merged = "conflict" THEN 1 ELSE 0

Passes(conflicted) ==
  /\ conflicted = Expected.conflict
  /\ main = Expected.doc
  /\ Expected.conflict => ConflictCount(conflicted) > 0

Verify ==
  /\ pc = "verify"
  /\ NextRow(IF Passes(response # "ok") THEN "pass" ELSE "fail")
  /\ UNCHANGED <<mode, serverMode, feature, main, merged, worker, merges, outcome,
                 response, lost, faults>>

Done == pc = "done" /\ UNCHANGED vars

Next == \/ Setup \/ Verify \/ Done
        \/ \E w \in Workers : Send(w) \/ ServerMerges(w) \/ Executed(w)

Spec == Init /\ [][Next]_vars

-----------------------------------------------------------------------------
TypeOK ==
  /\ row \in 1 .. Len(Rows) /\ Len(verdicts) <= Len(Rows)
  /\ \A i \in DOMAIN verdicts : verdicts[i] \in {"pass", "fail", "error"}
  /\ pc = "verify" => response # "none" /\ \A w \in Workers : outcome[w] # "none"
  /\ {feature, main} \subseteq {Absent} \cup [a : 0 .. 2, b : 0 .. 1]

(* A server that implements the mode under test passes every row whose messages
   all arrived, although every worker merges again and the last response stored
   is the one that is judged. So all 27 expectations of the tables are those of a
   three-way merge. *)
NoFalseAlarm ==
  serverMode = mode =>
    \A i \in quiet : i \in DOMAIN verdicts => verdicts[i] = "pass"

(* A collection that has another mode than the one under test fails some row. *)
ModesAreToldApart ==
  pc = "done" /\ serverMode # mode /\ quiet = DOMAIN Rows =>
    \E i \in DOMAIN verdicts : verdicts[i] = "fail"

(* A row that passes is earned whatever was lost: the branches were merged, or
   the conflict was found, on the server. *)
PassIsEarned ==
  verdicts' # verdicts /\ verdicts'[Len(verdicts')] = "pass"
    => merged = (IF Expected.conflict THEN "conflict" ELSE "yes")
=============================================================================
