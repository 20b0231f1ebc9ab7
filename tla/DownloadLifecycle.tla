------------------------- MODULE DownloadLifecycle -------------------------
(***************************************************************************)
(* What the download queue promises about every single ROM, without queue  *)
(* positions, progress, screens or selection.  A ROM that is asked for     *)
(* waits, is fetched, and ends up done or failed; done is forever; a       *)
(* failed one can be retried; only waiting and failed ones can be dropped; *)
(* and the worker, once started, fetches one ROM after the other until     *)
(* none waits.                                                             *)
(***************************************************************************)
CONSTANT Rom

VARIABLES
  stage,      \* [Rom -> {"absent", "waiting", "fetching", "failed", "done"}]
  running     \* the worker has been started and has not drained the queue

lifecycleVars == <<stage, running>>

Stages == {"absent", "waiting", "fetching", "failed", "done"}

In(s) == {r \in Rom : stage[r] = s}

Init ==
  /\ stage = [r \in Rom |-> "absent"]
  /\ running = FALSE

Request(r) ==
  /\ stage[r] = "absent"
  /\ stage' = [stage EXCEPT ![r] = "waiting"]
  /\ UNCHANGED running

Drop(R) ==
  /\ R \subseteq In("waiting") \cup In("failed")
  /\ stage' = [r \in Rom |-> IF r \in R THEN "absent" ELSE stage[r]]
  /\ UNCHANGED running

Retry(r) ==
  /\ stage[r] = "failed"
  /\ stage' = [stage EXCEPT ![r] = "waiting"]
  /\ UNCHANGED running

Start(r) ==
  /\ ~running
  /\ stage[r] = "waiting"
  /\ stage' = [stage EXCEPT ![r] = "fetching"]
  /\ running' = TRUE

\* ROM r settles and the next waiting one is taken up in the same step.
SettleAndContinue(r, outcome, next) ==
  /\ stage[r] = "fetching"
  /\ stage[next] = "waiting"
  /\ stage' = [stage EXCEPT ![r] = outcome, ![next] = "fetching"]
  /\ UNCHANGED running

\* ROM r settles and none waits: the worker stops.
SettleAndStop(r, outcome) ==
  /\ stage[r] = "fetching"
  /\ In("waiting") = {}
  /\ stage' = [stage EXCEPT ![r] = outcome]
  /\ running' = FALSE

Next ==
  \/ \E R \in SUBSET Rom : Drop(R)
  \/ \E r \in Rom :
       \/ Request(r) \/ Retry(r) \/ Start(r)
       \/ \E outcome \in {"done", "failed"} :
            \/ SettleAndStop(r, outcome)
            \/ \E next \in Rom : SettleAndContinue(r, outcome, next)

Spec == Init /\ [][Next]_lifecycleVars
=============================================================================
