----------------------------- MODULE MCAppCore -----------------------------
(* Small instances of AppCore.  queue: platform p1 with ROMs 1..3, of which  *)
(* ROM 2 is large (it times out once).  screens: platforms p1 and p2, ROM 1  *)
(* large, and two ROMs with equal titles.                                    *)
EXTENDS AppCore

MCOnePlatform == <<"p1">>
MCTwoPlatforms == <<"p1", "p2">>

MCListAll == [p \in Platform |-> IF p = "p1" THEN <<2, 1, 3>> ELSE <<>>]
MCListScreens == [p \in Platform |-> IF p = "p1" THEN <<3, 1>> ELSE <<1>>]

MCTitle == [r \in Rom |-> IF r = 3 THEN 1 ELSE r]
MCSize == [r \in Rom |-> IF r = 2 THEN LargeRomMb ELSE 10]
MCSizeScreens == [r \in Rom |-> IF r = 1 THEN LargeRomMb ELSE 10]

\* Term 1 finds the two ROMs with equal titles, term 2 finds none by title.
MCTitleHits == [t \in 1..NumTerms |-> IF t = 1 THEN Rom \cap {1, 3} ELSE {}]
\* Term 2 is part of the name of p2.
MCPlatformHits == [t \in 1..NumTerms |-> IF t = 2 THEN Platform \cap {"p2"} ELSE {}]

\* Queue and download work, without the screens that do not touch the queue.
MCQueueInputs == Actions \ {"OpenSearch", "OpenDiagnostics", "OpenUpdater", "Quit"}
MCAllInputs == Actions
=============================================================================
