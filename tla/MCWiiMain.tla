----------------------------- MODULE MCWiiMain -----------------------------
(* Two platforms, p1 with two pages of ROMs and p2 with one.                *)
EXTENDS WiiMain

MCCatalog == <<"p1", "p2">>
MCRoms == [p \in Platform |-> IF p = "p1" THEN <<2, 1>> ELSE <<3>>]
MCTitle == [r \in Rom |-> r]
MCSize == [r \in Rom |-> 10]
MCNoHits == <<>>
MCWiiInputs == {"Up", "Down", "Select", "OpenQueue", "Back", "StartDownload", "Quit"}
=============================================================================
