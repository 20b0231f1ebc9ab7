--------------------------- MODULE PlatformFilter ---------------------------
(***************************************************************************)
(* Which platforms of a server a session shows (filterTargetPlatforms of   *)
(* core/runtime_sync.cpp).  Platforms are the entries of module ApiClient. *)
(* Of a text the filter asks which of some words it contains, in lower     *)
(* case; no word is taken to span the id, slug and name it is looked up in.*)
(***************************************************************************)
EXTENDS Sequences, SequencesExt, Positions

CONSTANTS
  Words,   \* for a text the words it contains in lower case, a function; none if not in its domain
  Lower    \* for a text with capitals the same in lower case, a function

LowerOf(text) == IF text \in DOMAIN Lower THEN Lower[text] ELSE text

WordsOf(text) == IF text \in DOMAIN Words THEN Words[text] ELSE {}

NewerWords == {"wiiu", "wii u", "switch", "3ds", "2ds"}

AllowWords ==
  {"nes", "famicom", "snes", "super nes", "super nintendo", "super famicom", "n64", "nintendo 64",
   "gamecube", "ngc", "wii", "game boy", "gameboy", "gb", "gbc", "gba", "nintendo ds", "nds",
   "virtual boy", "vb", "famicom disk", "fds", "satellaview", "pokemon mini", "game & watch",
   "game and watch"}

\* The words of what the platform itself is called.
OwnWords(p) == WordsOf(p.id) \cup WordsOf(p.slug) \cup WordsOf(p.name)

FamilyMerged(p) == p.familySlug \o " " \o p.familyName

HasFamilyMetadata(p) == FamilyMerged(p) # ""

AllowedByTokens(p) == OwnWords(p) \cap NewerWords = {} /\ OwnWords(p) \cap AllowWords # {}

IsPreWiiNintendoPlatform(p) ==
  /\ HasFamilyMetadata(p) => "nintendo" \in WordsOf(p.familySlug) \cup WordsOf(p.familyName)
  /\ AllowedByTokens(p)

IsPreWiiTarget(target) ==
  Len(target) = 1 /\ LowerOf(target[1]) \in {"pre-wii", "pre_wii", "prewii"}

\* gc is asked for under both its names.
Wanted(target) == LET names == ToSet(target) \ {""}
                  IN  IF "gc" \in names THEN names \cup {"ngc"} ELSE names

FilteredBy(target, list) ==
  IF IsPreWiiTarget(target)
  THEN KeepPositions(list, {i \in DOMAIN list : IsPreWiiNintendoPlatform(list[i])})
  ELSE IF Wanted(target) = {} THEN list
  ELSE KeepPositions(list, {i \in DOMAIN list :
                              {list[i].id, list[i].slug, list[i].name} \cap Wanted(target) # {}})
=============================================================================
