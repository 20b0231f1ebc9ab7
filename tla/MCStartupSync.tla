--------------------------- MODULE MCStartupSync ---------------------------
(* Five servers: one page, two pages in front of the guard, a page beyond it, *)
(* a list at the root, and one without the family of its platforms.  Some of  *)
(* the environments are rejected by the validation and used all the same.     *)
EXTENDS StartupSync

MCWords ==
  [text \in {"nes", "Wii", "wiiu", "genesis", "Nintendo", "nintendo"} |->
     CASE text \in {"nes", "genesis"} -> {"nes"}
       [] text = "Wii"                -> {"wii"}
       [] text = "wiiu"               -> {"wii", "wiiu"}
       [] OTHER                       -> {"nintendo"}]

MCLower == [text \in {"Pre-Wii"} |-> "pre-wii"]

Named(id, slug) == <<Field("id", "number", id), Field("slug", "string", slug)>>
Family(object, name) == Append(object, Field("family_name", "string", name))

Nes == Family(Named("p1", "nes"), "Nintendo")
\* Without a slug, but with a name to be shown.
Wii == <<Field("id", "string", "p2"), Field("name", "string", "wii"),
         Field("display_name", "string", "Wii"), Field("family_slug", "string", "nintendo")>>
WiiU == Family(Named("p3", "wiiu"), "Nintendo")
Genesis == Family(Named("p4", "genesis"), "Sega")
Anonymous == <<Field("slug", "string", "nes")>>

Body(array, objects, next) == [array |-> array, objects |-> objects, next |-> next, cut |-> "no"]

MCServers ==
  {<<Body("items", <<Wii, WiiU, Nes>>, NoNextPage)>>,
   <<Body("items", <<Genesis, Wii>>, 2), Body("items", <<Anonymous, Nes>>, 0)>>,
   <<Body("items", <<Nes>>, 2), Body("items", <<WiiU>>, 3), Body("items", <<Wii>>, 0)>>,
   <<Body("root", <<Nes, Genesis, Wii>>, NoNextPage)>>}

\* A server that omits the family fields.
MCPlainServers == {<<Body("items", <<Named("p1", "nes"), Named("p4", "genesis")>>, 0)>>}

NoEnv ==
  [setting \in TextSettings \cup ToSet(ParsedSettings) |->
     IF setting \in TextSettings THEN [first |-> Unset, second |-> Unset] ELSE Unset]
ByFirst(value) == [first |-> SetTo(value), second |-> Unset]

MCEnvs ==
  {NoEnv,
   [NoEnv EXCEPT !.serverUrl = ByFirst(Url("https", "romm.local", NoPort))],
   [NoEnv EXCEPT !.serverUrl = [first |-> SetTo(Url("", "", NoPort)),
                                second |-> SetTo(Url("http", "romm.local", 0))]],
   [NoEnv EXCEPT !.targetPlatformId = ByFirst(<<"Pre-Wii">>), !.maxDownloadRetries = Garbled,
                 !.retryBackoffMs = SetTo(20000)],
   [NoEnv EXCEPT !.targetPlatformId = ByFirst(<<"gc", "", "nes">>), !.maxConcurrentDownloads = SetTo(9)]}

MCWpadKeys == {{}, {"A"}, {"1"}, {"1", "2"}, {"HOME", "A"}}
MCGcKeys == {{}, {"Z"}}
MCVpadKeys == {{}, {"HOME"}, {"Y"}, {"B", "L"}}
MCTargets == {"none", "reset", "menu", "Select", "OpenSearch"}
MCNone == <<>>
MCNoRoms == [p \in Platform |-> <<>>]
MCNothing == [r \in Rom |-> 0]
=============================================================================
