------------------------------ MODULE Controls ------------------------------
(***************************************************************************)
(* From the keys of a controller to an Action: the maps of both main       *)
(* programs, mapButtonToAction (core/control_schema.cpp), and how the Wii  *)
(* combines a Wii Remote, its pointer and a GameCube controller into one   *)
(* action per frame.  A map is a list of [keys, button]: the first entry   *)
(* all of whose keys are pressed counts, and nothing else.                 *)
(***************************************************************************)
EXTENDS AppCore

NoAction == "None"

Entry(keys, button) == [keys |-> keys, button |-> button]

\* Either key does for an entry of its own.
VpadMap ==
  <<Entry({"HOME"}, "Quit"), Entry({"PLUS"}, "Quit"),
    Entry({"UP"}, "Up"), Entry({"DOWN"}, "Down"), Entry({"LEFT"}, "Left"), Entry({"RIGHT"}, "Right"),
    Entry({"A"}, "Confirm"), Entry({"B"}, "Back"), Entry({"Y"}, "Queue"), Entry({"X"}, "StartWork"),
    Entry({"MINUS"}, "Search"), Entry({"R"}, "Diagnostics"), Entry({"L"}, "Updater")>>

\* README.md lists "+" as a Quit key of the Wii Remote as well; the code has Updater.
WpadMap ==
  <<Entry({"HOME"}, "Quit"), Entry({"1", "2"}, "Diagnostics"), Entry({"PLUS"}, "Updater"),
    Entry({"UP"}, "Up"), Entry({"DOWN"}, "Down"), Entry({"LEFT"}, "Left"), Entry({"RIGHT"}, "Right"),
    Entry({"A"}, "Confirm"), Entry({"B"}, "Back"), Entry({"1"}, "Queue"), Entry({"2"}, "StartWork"),
    Entry({"MINUS"}, "Search")>>

GcMap ==
  <<Entry({"START"}, "Quit"),
    Entry({"UP"}, "Up"), Entry({"DOWN"}, "Down"), Entry({"LEFT"}, "Left"), Entry({"RIGHT"}, "Right"),
    Entry({"A"}, "Confirm"), Entry({"B"}, "Back"), Entry({"Y"}, "Queue"), Entry({"X"}, "StartWork"),
    Entry({"R"}, "Search"), Entry({"Z"}, "Diagnostics"), Entry({"L"}, "Updater")>>

ButtonOf(map, pressed) ==
  LET i == SelectInSeq(map, LAMBDA e : e.keys \subseteq pressed)
  IN  IF i = 0 THEN "None" ELSE map[i].button

\* The Wii Remote has no diagnostics and no updater.
MapButtonToAction(profile, button) ==
  CASE button = "Confirm"   -> "Select"
    [] button = "Queue"     -> "OpenQueue"
    [] button = "StartWork" -> "StartDownload"
    [] button = "Search"    -> "OpenSearch"
    [] button = "Diagnostics" /\ profile # "WiiRemote" -> "OpenDiagnostics"
    [] button = "Updater" /\ profile # "WiiRemote"     -> "OpenUpdater"
    [] button \in {"Diagnostics", "Updater"} /\ profile = "WiiRemote" -> NoAction
    [] OTHER -> button

-----------------------------------------------------------------------------
(* The Wii's frame.                                                        *)

\* Variant: the keys held so far are only remembered when none goes down.
RememberedWhenIdle(down, held, previous) == IF down # {} THEN previous ELSE held

\* prevWpadHeld and prevGcHeld at the end of the frame's input.
Remembered(down, held, previous) == held

\* resolveWpadPressed, resolveGcPressed: what the library reports as going down,
\* or else what is held and was not in the frame before.
Resolved(down, held, previous) == IF down # {} THEN down ELSE held \ previous

\* What A means where the pointer is: nothing there, a dead spot, the UI reset
\* button, the button that ends the program, or an action of its own.
PointerTargets == {"none", "dead", "reset", "menu", "Select", "Quit", "OpenQueue", "Right", "OpenSearch"}

WiiAction(wpadPressed, gcPressed, target) ==
  LET button    == ButtonOf(WpadMap, wpadPressed)
      remote    == MapButtonToAction("WiiRemote", button)
      key       == IF remote # NoAction THEN remote
                   ELSE MapButtonToAction("GameCube", ButtonOf(GcMap, gcPressed))
      consumedA == "A" \in wpadPressed /\ target # "none"
      fromA     == button = "Confirm"
      kept      == IF consumedA /\ fromA /\ key = "Select" THEN NoAction ELSE key
  IN  IF consumedA /\ target = "menu" THEN "Quit"
      ELSE IF consumedA /\ target \in Actions /\ (kept = NoAction \/ fromA) THEN target ELSE kept

\* The UI reset button in the corner of the screen, in place of any action.
UiReset ==
  /\ currentView' = "PLATFORMS"
  /\ prevQueueView' = "PLATFORMS"
  /\ prevDiagnosticsView' = "PLATFORMS"
  /\ prevUpdaterView' = "PLATFORMS"
  /\ selectedPlatformIndex' = 0
  /\ selectedRomIndex' = 0
  /\ selectedQueueIndex' = 0
  /\ searchQuery' = 0
  /\ romSort' = 0
  /\ UNCHANGED <<catalogVars, queueVars, workerVars, updaterVars, keepRunning>>

\* The screens on which an action does something while there are no platforms
\* and the queue is empty.
ActingViews(action) ==
  CASE action \in {"Up", "Down"}                -> {"PLATFORMS", "QUEUE", "DOWNLOADING"}
    [] action \in {"Left", "OpenSearch"}        -> {"ROMS"}
    [] action = "Right"                         -> {"ROMS", "QUEUE"}
    [] action = "Select"                        -> IF updaterState = "Applied" THEN {} ELSE {"UPDATER"}
    [] action = "OpenDiagnostics"               -> {"PLATFORMS"}
    [] action = "OpenUpdater"                   -> {"PLATFORMS", "UPDATER"}
    [] action \in {"OpenQueue", "Back", "Quit"} -> Views
    [] OTHER                                    -> {}

\* applyAction of any action, before there is anything to browse or to fetch.
AppliedEarly(action) ==
  IF currentView \in ActingViews(action) THEN ApplyAction(action) ELSE UNCHANGED vars

VpadAction(trigger) == MapButtonToAction("WiiU", ButtonOf(VpadMap, trigger))
=============================================================================
