----------------------------- MODULE QueueStore -----------------------------
(***************************************************************************)
(* The queue and the completed ROMs on the card (core/persistence.cpp).    *)
(* The snapshot of the queue is [exists, rows, torn]: the rows that are    *)
(* whole, and whether a broken write has left part of a row behind them.   *)
(* A manifest is smaller than a sector: it is absent, empty or whole.      *)
(* The code does not write the URL of a ROM, which items lack here: what   *)
(* was loaded can only fail in the real loop ("Missing download URL.")     *)
(* until the user removes it and queues the ROM anew.                      *)
(* Only tests call these functions; who calls them, and when, is the       *)
(* business of CardFiles.                                                  *)
(***************************************************************************)
EXTENDS AppCore

Snapshot(rows, torn) == [exists |-> TRUE, rows |-> rows, torn |-> torn]

NoSnapshot == [exists |-> FALSE, rows |-> <<>>, torn |-> FALSE]

\* What a write of the queue can leave: it truncates, then writes row by row, and
\* a full card or a power loss may end it anywhere.
Broken(queue) ==
  {Snapshot(SubSeq(queue, 1, n), torn) : n \in 0..(Len(queue) - 1), torn \in BOOLEAN}

\* saveQueueState: the stream is not looked at again after it was opened, so a
\* full card is no failure.
SavedSnapshots(old, queue) == {old, Snapshot(queue, FALSE)} \cup Broken(queue)

\* Variant: only the queue is looked at.
IsDuplicateInQueue(row, queue, history) == \E i \in DOMAIN queue : queue[i].rom = row.rom

IsDuplicate(row, queue, history) ==
  \/ \E i \in DOMAIN queue : queue[i].rom = row.rom
  \/ \E i \in DOMAIN history : history[i].rom = row.rom /\ history[i].state = "Completed"

\* loadQueueState: the rows in front of a malformed one stay loaded.
LoadQueueState(queue, history, file) ==
  FoldLeft(LAMBDA sofar, row : IF IsDuplicate(row, sofar, history) THEN sofar ELSE Append(sofar, row),
           queue, file.rows)

\* What it returns.
LoadSucceeds(file) == file.exists /\ ~file.torn

\* The selected row after the load, which a failure leaves alone.
SelectionAfterLoad(selected, queue, file) ==
  IF ~LoadSucceeds(file) THEN selected
  ELSE IF queue = <<>> THEN 0
  ELSE IF selected < Len(queue) THEN selected ELSE Len(queue) - 1

-----------------------------------------------------------------------------
(* Manifests: one file per ROM.                                            *)

ManifestStates == {"absent", "empty", "whole"}

NoManifests == [r \in Rom |-> "absent"]

\* writeCompletedManifest, which truncates a manifest that is there already.
WrittenManifests(manifests, r) ==
  {manifests} \cup {[manifests EXCEPT ![r] = state] : state \in {"empty", "whole"}}

CompletedItem(r) == Item(r, "Completed", Full, 0)

\* loadCompletedManifests: whatever the order of the directory, a ROM is added
\* once; the queue is not looked at.
LoadedHistories(history, manifests) ==
  LET new == {r \in Rom : manifests[r] = "whole" /\ \A i \in DOMAIN history : history[i].rom # r}
  IN  {history \o [i \in DOMAIN order |-> CompletedItem(order[i])] : order \in SetToSeqs(new)}
=============================================================================
