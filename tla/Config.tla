------------------------------- MODULE Config -------------------------------
(***************************************************************************)
(* The configuration of a session (core/config.cpp): the defaults, changed *)
(* by environment variables.  A variable is Unset, or SetTo a value, or    *)
(* Garbled: text that is no number or no truth value where the code wants  *)
(* one.  A setting with two variables is [first, second] of these.         *)
(* Credentials are left out.                                               *)
(***************************************************************************)
EXTENDS Integers, Sequences, SequencesExt, HttpGet

Url(scheme, host, port) == [scheme |-> scheme, host |-> host, port |-> port]

\* A target is the list of what stands between its commas.
DefaultConfig ==
  [schemaVersion          |-> 1,
   serverUrl              |-> Url("http", "localhost", 8080),
   targetPlatformId       |-> <<"wii">>,
   downloadDir            |-> "run/downloads",
   fat32Safe              |-> FALSE,
   maxConcurrentDownloads |-> 1,
   maxDownloadRetries     |-> 2,
   retryBackoffMs         |-> 25]

ValidateConfig(cfg) ==
  /\ cfg.schemaVersion > 0
  /\ cfg.serverUrl.scheme \in {"http", "https"}
  /\ cfg.downloadDir # ""
  /\ cfg.targetPlatformId # <<"">>
  /\ cfg.maxConcurrentDownloads \in 1..8
  /\ cfg.maxDownloadRetries \in 0..8
  /\ cfg.retryBackoffMs \in 0..10000

-----------------------------------------------------------------------------
(* The overrides.                                                          *)

Unset == [set |-> FALSE]
SetTo(value) == [set |-> TRUE, parses |-> TRUE, value |-> value]
Garbled == [set |-> TRUE, parses |-> FALSE]

\* The texts, which are taken as they are, and after them, in this order, the
\* settings that are parsed.
TextSettings == {"serverUrl", "targetPlatformId", "downloadDir"}
ParsedSettings == <<"maxConcurrentDownloads", "maxDownloadRetries", "retryBackoffMs", "fat32Safe">>

\* firstNonEmptyEnv; empty is the text without characters of that setting.
FirstNonEmpty(names, empty) ==
  IF names.first.set /\ names.first.value # empty THEN names.first ELSE names.second

EmptyText(setting) ==
  CASE setting = "serverUrl"        -> Url("", "", NoPort)
    [] setting = "targetPlatformId" -> <<"">>
    [] setting = "downloadDir"      -> ""

WithTexts(cfg, env) ==
  [setting \in DOMAIN cfg |->
     IF setting \in TextSettings /\ FirstNonEmpty(env[setting], EmptyText(setting)).set
     THEN FirstNonEmpty(env[setting], EmptyText(setting)).value
     ELSE cfg[setting]]

\* One parsed setting: the first that does not parse is the last that is looked at.
Override(sofar, setting, env) ==
  IF ~sofar.ok \/ ~env[setting].set THEN sofar
  ELSE IF env[setting].parses
       THEN [sofar EXCEPT !.cfg = [@ EXCEPT ![setting] = env[setting].value]]
       ELSE [sofar EXCEPT !.ok = FALSE]

\* What was set before an error, and what does not validate, stays set.
ApplyEnvOverrides(cfg, env) ==
  LET overridden == FoldLeft(LAMBDA sofar, setting : Override(sofar, setting, env),
                             [ok |-> TRUE, cfg |-> WithTexts(cfg, env)], ParsedSettings)
  IN  [overridden EXCEPT !.ok = @ /\ ValidateConfig(overridden.cfg)]
=============================================================================
