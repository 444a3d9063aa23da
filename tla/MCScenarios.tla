---------------------------- MODULE MCScenarios ----------------------------
(***************************************************************************)
(* The campaign scripts that run the concurrency command over and over,    *)
(* and what the command runs besides the scenarios of Runner: the          *)
(* transactions and the merge matrix. This module extends the first two    *)
(* and instantiates the third. They share no state, so a behaviour is of   *)
(* one of them, and the others stay in an initial state.                   *)
(***************************************************************************)
EXTENDS Campaign, Transaction

CONSTANTS w1, w2  \* the workers

VARIABLES
  part,  \* "merge", "transaction" or "campaign"
  step, mode, serverMode, row, feature, main, merged, worker, merges, outcome, response, lost,
  verdicts, quiet, mergeFaults

mergeVars == <<step, mode, serverMode, row, feature, main, merged, worker, merges, outcome,
               response, lost, verdicts, quiet, mergeFaults>>
groupVars == <<part, mergeVars, txnVars, vars>>

Merges == INSTANCE MergeMatrix WITH
  Workers <- {w1, w2}, MaxFaults <- 2, pc <- step, faults <- mergeFaults,
  ServerModes <- {"documentTouched", "documentDivergent", "fieldDivergent", "fieldTouched"}

(* One case of each expectation *)
Suite == <<"cas", "flaky", "whole">>
Expectations == [cas |-> "pass", whole |-> "xfail", flaky |-> "skip"]

-----------------------------------------------------------------------------
NoMerges == /\ step = 0 /\ mode = 0 /\ serverMode = 0 /\ row = 0 /\ feature = 0 /\ main = 0
            /\ merged = 0 /\ worker = 0 /\ merges = 0 /\ outcome = 0 /\ response = 0 /\ lost = 0
            /\ verdicts = 0 /\ quiet = 0 /\ mergeFaults = 0

GroupInit ==
  /\ Init /\ TxnInit
  /\ \/ part = "merge" /\ Merges!Init /\ defect = "none"
     \/ part = "transaction" /\ NoMerges
     \/ part = "campaign" /\ NoMerges /\ defect = "none"

GroupNext ==
  \/ part = "merge" /\ Merges!Next /\ UNCHANGED <<part, txnVars, vars>>
  \/ part = "transaction" /\ TxnNext /\ UNCHANGED <<part, mergeVars, vars>>
  \/ part = "campaign" /\ Next /\ UNCHANGED <<part, mergeVars, txnVars>>

GroupSpec == GroupInit /\ [][GroupNext]_groupVars

-----------------------------------------------------------------------------
(* MergeMatrix: a correct server is not found wanting although every worker merges
   again; a row passes only if the branches were merged or the conflict found,
   whatever was lost; and a collection of another mode fails some row. *)
MatrixIsSound ==
  [][part = "merge" =>
       Merges!NoFalseAlarm' /\ Merges!PassIsEarned /\ Merges!ModesAreToldApart']_groupVars
=============================================================================
