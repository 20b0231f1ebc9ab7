-------------------------- MODULE MCRomIndexWorker --------------------------
(* Three platforms, the last of which has more pages than the guard allows. *)
EXTENDS RomIndexWorker

MCPages == [p \in PlatformId |-> CASE p = "a" -> 1 [] p = "b" -> 2 [] OTHER -> 3]
=============================================================================
