---------------------------- MODULE MCCardFiles ----------------------------
(* Two ROMs on one platform; parts that overlap, contain each other, leave *)
(* a hole, hold nothing, or have a name that is no offset.                 *)
EXTENDS CardFiles

MCCatalog == <<"p">>
MCCatalogRoms == [p \in Platform |-> <<1, 2>>]
MCTitle == [r \in Rom |-> r]
MCSizeMb == [r \in Rom |-> 1]
MCNone == <<>>
MCPartFiles == {Part(0, 3), Part(0, 1), Part(1, 1), Part(3, 2), Part(4, 0), Part(NotANumber, 2)}
=============================================================================
