-------------------------- MODULE MCRealDownloads --------------------------
(* A list of five objects, two to a page: one has no id and makes a full     *)
(* page of a single ROM, and the last is beyond the page guard.              *)
EXTENDS RealDownloads

MCCatalog == <<"p1", "p2">>
MCRoms == [p \in Platform |-> IF p = "p1" THEN <<1, 4, 2, 3, 5>> ELSE <<>>]
MCTitle == [r \in Rom |-> r]
MCSize == [r \in Rom |-> 10]
MCNoHits == <<>>
MCRealInputs == {"Up", "Down", "Left", "Right", "Select", "OpenQueue", "Back", "StartDownload", "Quit"}
=============================================================================
