--------------------------- MODULE FetchContract ---------------------------
(***************************************************************************)
(* What runDownloadQueue promises its caller: the requests of a call are   *)
(* reported one by one and in order, each exactly once; the first failure  *)
(* ends the call; and the call returns true exactly when every request     *)
(* was reported complete.  A power loss may end a call at any time.        *)
(***************************************************************************)
EXTENDS Sequences

CONSTANTS Id, Batch     \* Batch: the sequences of ids a call may be made with

VARIABLES
  todo,      \* ids of the running call that are not reported yet
  outcome,   \* [Id -> {"none", "complete", "failed"}]
  result     \* of the last call: "none" while it runs, then "true" or "false"

contractVars == <<todo, outcome, result>>

Init ==
  /\ todo = <<>>
  /\ outcome = [id \in Id |-> "none"]
  /\ result = "none"

Call(batch) ==
  /\ todo = <<>>
  /\ todo' = batch
  /\ outcome' = [id \in Id |-> IF \E i \in DOMAIN batch : batch[i] = id THEN "none"
                                                                       ELSE outcome[id]]
  /\ result' = "none"

ReportComplete ==
  /\ todo # <<>>
  /\ todo' = Tail(todo)
  /\ outcome' = [outcome EXCEPT ![Head(todo)] = "complete"]
  /\ result' = IF Len(todo) = 1 THEN "true" ELSE "none"

ReportFailure ==
  /\ todo # <<>>
  /\ todo' = <<>>
  /\ outcome' = [outcome EXCEPT ![Head(todo)] = "failed"]
  /\ result' = "false"

PowerLoss ==
  /\ todo' = <<>>
  /\ outcome' = [id \in Id |-> "none"]
  /\ result' = "none"

Next ==
  \/ \E batch \in Batch : Call(batch)
  \/ ReportComplete
  \/ ReportFailure
  \/ PowerLoss

Spec == Init /\ [][Next]_contractVars
=============================================================================
