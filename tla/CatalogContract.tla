-------------------------- MODULE CatalogContract --------------------------
(***************************************************************************)
(* What the applications promise about ROM lists, whichever way they fetch *)
(* them: a platform's list becomes known as a whole and stays known; a     *)
(* list, or a ROM of it, is only shown when it is known; and a list that   *)
(* is open is closed by the user, never replaced by another one.           *)
(***************************************************************************)
CONSTANTS Platform, NoPlatform

VARIABLES
  known,   \* the platforms whose lists are whole
  shown    \* the platform whose ROMs are on the screen, NoPlatform if none are

Init ==
  /\ known = {}
  /\ shown = NoPlatform

Learn(p) ==
  /\ p \notin known
  /\ known' = known \cup {p}
  /\ shown' = shown \/ (shown = NoPlatform /\ shown' = p)

Show(p) ==
  /\ p \in known
  /\ shown = NoPlatform
  /\ shown' = p
  /\ UNCHANGED known

Leave ==
  /\ shown' = NoPlatform
  /\ UNCHANGED known

Next == (\E p \in Platform : Learn(p) \/ Show(p)) \/ Leave

Spec == Init /\ [][Next]_<<known, shown>>
=============================================================================
