-------------------------------- MODULE Config --------------------------------
(***************************************************************************)
(* How `muzon` starts: where its directories are (paths.rs), how the       *)
(* configuration is put together (config.rs) and what main does with both  *)
(* before a subcommand runs.  Defaults, then the file, then MUZON_*        *)
(* variables, then --log-level; and no network flag without the opt-in.    *)
(*                                                                         *)
(* A key stands for a field.  A file is what went wrong with it, if        *)
(* anything did, and a function from the keys it sets to their values; a   *)
(* variable holds a text, of which only what it parses as matters.  An     *)
(* Option is a set of at most one value.                                   *)
(***************************************************************************)
EXTENDS Naturals, Sequences, SequencesExt

CONSTANT Unsigned   \* the texts that are numbers, and their values

(* The fields of NetworkConfig but the master switch, in the order they are
   validated in. *)
NetworkFlags == <<"anonymous_crash_reports", "anonymous_usage_analytics", "llm_providers",
                  "acoustid", "musicbrainz", "lastfm", "listenbrainz">>
NetworkKey == {"explicit_opt_in"} \cup Range(NetworkFlags)
AudioKey == {"bit_perfect", "gapless", "replaygain", "crossfade_seconds", "output_device"}
LibraryKey == {"scan_roots", "watch", "min_file_size_bytes", "honor_ignore_markers", "follow_symlinks"}
LoggingKey == {"level", "max_size_mb", "max_files"}
ThemeKey == {"mode", "accent"}
UiKey == {"theme", "accent_color", "font"}
Key == NetworkKey \cup AudioKey \cup LibraryKey \cup LoggingKey \cup ThemeKey \cup UiKey

(* AudioConfig::default, LibraryConfig::default, and so on. *)
AudioDefault ==
    [output_device |-> "", bit_perfect |-> FALSE, gapless |-> TRUE, replaygain |-> "none",
     crossfade_seconds |-> 0]
LibraryDefault ==
    [scan_roots |-> <<>>, watch |-> TRUE, min_file_size_bytes |-> 32 * 1024,
     honor_ignore_markers |-> TRUE, follow_symlinks |-> TRUE]
LoggingDefault == [level |-> "info", max_size_mb |-> 10, max_files |-> 3]
ThemeDefault == [mode |-> "auto", accent |-> "violet"]
UiDefault == [theme |-> "auto", accent_color |-> "#3b82f6", font |-> ""]
NetworkDefault == [k \in NetworkKey |-> FALSE]

Default ==
    [k \in Key |->
       CASE k \in AudioKey -> AudioDefault[k]
         [] k \in LibraryKey -> LibraryDefault[k]
         [] k \in LoggingKey -> LoggingDefault[k]
         [] k \in ThemeKey -> ThemeDefault[k]
         [] k \in UiKey -> UiDefault[k]
         [] k \in NetworkKey -> NetworkDefault[k]]

(* AccentColor::hex and hex_accent_2; a custom color is its own text. *)
Hex(accent) ==
    CASE accent = "violet" -> "#8b5cf6"  [] accent = "pink" -> "#ec4899"
      [] accent = "blue" -> "#3b82f6"    [] accent = "green" -> "#10b981"
      [] accent = "orange" -> "#f59e0b"  [] accent = "red" -> "#ef4444"
      [] OTHER -> accent
HexAccent2(accent) ==
    CASE accent = "violet" -> "#7c3aed"  [] accent = "pink" -> "#db2777"
      [] accent = "blue" -> "#2563eb"    [] accent = "green" -> "#059669"
      [] accent = "orange" -> "#d97706"  [] accent = "red" -> "#dc2626"
      [] OTHER -> Hex(accent)

-----------------------------------------------------------------------------
(* MuzonConfig::load *)

(* toml::from_str: what the file does not set keeps its default; a key it does
   not know is an error, as is a value of another type. *)
Problem == {"unreadable", "malformed"}
FromToml(file) == [k \in Key |-> IF k \in DOMAIN file.sets THEN file.sets[k] ELSE Default[k]]

(* The values a text may be read as. *)
ParseBool(text) == {b \in BOOLEAN : text = IF b THEN "true" ELSE "false"}
ParseU32(text) == IF text \in DOMAIN Unsigned THEN {Unsigned[text]} ELSE {}
ParseReplayGain(text) == IF text \in {"track", "album"} THEN text ELSE "none"

Overridable == {"bit_perfect", "gapless", "replaygain", "crossfade_seconds", "level",
                "max_size_mb", "max_files", "explicit_opt_in"}

(* The value a variable gives to its field, which keeps its own if the text is
   no value; but an unknown ReplayGain mode is none. *)
Override(k, text, old) ==
    LET Parsed(values) == IF values = {} THEN old ELSE CHOOSE v \in values : TRUE
    IN  CASE k \in {"bit_perfect", "gapless", "explicit_opt_in"} -> Parsed(ParseBool(text))
          [] k \in {"crossfade_seconds", "max_size_mb", "max_files"} -> Parsed(ParseU32(text))
          [] k = "replaygain" -> ParseReplayGain(text)
          [] k = "level" -> text

ApplyEnvOverrides(cfg, env) ==
    [k \in Key |-> IF k \in DOMAIN env \cap Overridable THEN Override(k, env[k], cfg[k]) ELSE cfg[k]]

(* The first flag that is set without the opt-in, if any. *)
Refused(cfg) ==
    {NetworkFlags[i] : i \in {j \in DOMAIN NetworkFlags :
        /\ ~cfg["explicit_opt_in"] /\ cfg[NetworkFlags[j]]
        /\ \A earlier \in 1 .. j - 1 : ~cfg[NetworkFlags[earlier]]}}

Loaded(cfg) == [ok |-> TRUE, cfg |-> cfg]
ConfigError(why) == [ok |-> FALSE, why |-> why]

(* Mutation: the opt-in is looked at before the variables are. *)
LoadCheckingTheFile(exists, file, env) ==
    IF exists /\ file.problem # {} THEN ConfigError(file.problem)
    ELSE LET raw == IF exists THEN FromToml(file) ELSE Default
         IN  IF Refused(raw) # {} THEN ConfigError(Refused(raw))
             ELSE Loaded(ApplyEnvOverrides(raw, env))

(* A file that is deleted after it was seen is an error, not the defaults. *)
Load(exists, file, env) ==
    IF exists /\ file.problem # {} THEN ConfigError(file.problem)
    ELSE LET cfg == ApplyEnvOverrides(IF exists THEN FromToml(file) ELSE Default, env)
         IN  IF Refused(cfg) # {} THEN ConfigError(Refused(cfg)) ELSE Loaded(cfg)

(* SettingsSnapshot::default_snapshot, what Reset previews: it knows neither
   usage analytics nor the ui section, and shows a color by its hex value. *)
SnapshotKey == Key \ ({"anonymous_usage_analytics"} \cup UiKey)
DefaultSnapshot ==
    [k \in SnapshotKey |->
       CASE k = "mode" -> "auto"
         [] k = "accent" -> Hex("violet")
         [] k = "output_device" -> ""
         [] k = "replaygain" -> "none"
         [] k = "crossfade_seconds" -> 0
         [] k = "scan_roots" -> <<>>
         [] k \in {"gapless", "watch", "honor_ignore_markers", "follow_symlinks"} -> TRUE
         [] k = "min_file_size_bytes" -> 32 * 1024
         [] k = "level" -> "info"
         [] k = "max_size_mb" -> 10
         [] k = "max_files" -> 3
         [] k \in NetworkKey \cup {"bit_perfect"} -> FALSE]

-----------------------------------------------------------------------------
(* MuzonPaths::resolve: all four directories are under one home. *)

Directories(home) ==
    <<<<home, "config">>, <<home, "data">>, <<home, "cache">>, <<home, "data", "logs">>>>

Home(muzonHome, projectDir) == IF muzonHome # {} THEN muzonHome ELSE projectDir

(* create_all stops at the first directory it cannot create; those before it
   stay. *)
CreateAll(dirs, blocked) ==
    LET failing == {i \in DOMAIN dirs : dirs[i] \in blocked}
    IN  IF failing = {} THEN [ok |-> TRUE, created |-> Range(dirs)]
        ELSE [ok |-> FALSE,
              created |-> {dirs[i] : i \in {j \in DOMAIN dirs : \A f \in failing : j < f}}]

Resolve(muzonHome, projectDir, blocked) ==
    LET home == Home(muzonHome, projectDir)
    IN  IF home = {} THEN [ok |-> FALSE, created |-> {}]
        ELSE CreateAll(Directories(CHOOSE h \in home : TRUE), blocked)

-----------------------------------------------------------------------------
(* main, up to the subcommand.  What it is started with: the environment, the
   directories that are not to be had, the file as it is looked for and as it is
   read, whether the log cannot be opened, the command line. *)

EndsWith(code, paths) == [exit |-> code, created |-> paths.created]

Start(s) ==
    LET paths == Resolve(s.muzonHome, s.projectDir, s.blocked)
        load == Load(s.exists, s.file, s.env)
        level == IF s.logLevel = {} THEN load.cfg["level"] ELSE CHOOSE l \in s.logLevel : TRUE
    IN  CASE ~paths.ok -> EndsWith("1", paths)
          [] paths.ok /\ s.printPaths -> EndsWith("0", paths)
          [] paths.ok /\ ~s.printPaths /\ ~load.ok -> EndsWith("1", paths)
          [] paths.ok /\ ~s.printPaths /\ load.ok /\ s.logFails -> EndsWith("1", paths)
          [] OTHER -> IF s.command = {} THEN EndsWith("2", paths)
                      ELSE [exit |-> "runs", created |-> paths.created,
                            cfg |-> [load.cfg EXCEPT !["level"] = level]]
=============================================================================
