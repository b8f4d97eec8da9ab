-------------------------------- MODULE StartUp --------------------------------
(***************************************************************************)
(* What the start of `muzon` (Config) promises, however it is started.     *)
(***************************************************************************)
EXTENDS Config, Asking

CONSTANT Starts   \* what muzon may be started with

AtMostOne(option) == \A x, y \in option : x = y

(* An option has one value at most; a file sets fields there are, and the flags
   of the network section to a Boolean. *)
IsStart(s) ==
    /\ AtMostOne(s.muzonHome) /\ AtMostOne(s.projectDir) /\ AtMostOne(s.logLevel)
    /\ {s.exists, s.logFails, s.printPaths} \subseteq BOOLEAN
    /\ DOMAIN s.file.sets \subseteq Key
    /\ \A k \in NetworkKey \cap DOMAIN s.file.sets : s.file.sets[k] \in BOOLEAN

ASSUME StartsAssumption == \A s \in Starts : IsStart(s)

StartInit == Asked("start", Starts)
RunStart == Compute("start", Start(input))
StartSpec == StartInit /\ [][RunStart]_asking

-----------------------------------------------------------------------------
(* What the variable of field k says, if there is one and it says anything. *)
Variable(env, k) ==
    IF k \notin DOMAIN env THEN {}
    ELSE CASE k \in {"bit_perfect", "gapless", "explicit_opt_in"} -> ParseBool(env[k])
           [] k \in {"crossfade_seconds", "max_size_mb", "max_files"} -> ParseU32(env[k])
           [] k = "replaygain" -> {ParseReplayGain(env[k])}
           [] k = "level" -> {env[k]}
           [] OTHER -> {}

(* What layer k comes from, the strongest first: the command line, a variable
   that holds a value, the file, the defaults. *)
Layers(s, k) ==
    <<IF k = "level" THEN s.logLevel ELSE {},
      Variable(s.env, k),
      IF s.exists /\ k \in DOMAIN s.file.sets THEN {s.file.sets[k]} ELSE {},
      {Default[k]}>>

(* A running muzon has each field from the strongest layer that sets it, and a
   variable or option it cannot read changes nothing; a file that is there and
   cannot be used, or is gone when it is read, is never taken for the defaults.
   Without file, variables and options it runs with what Reset previews. *)
ConfigLayers ==
    Done("start") /\ answer.exit = "runs" =>
        /\ input.exists => input.file.problem = {}
        /\ \A k \in Key, l \in 1 .. 4 :
              (\A m \in 1 .. l - 1 : Layers(input, k)[m] = {}) =>
                 Layers(input, k)[l] \subseteq {answer.cfg[k]}
        /\ ~input.exists /\ DOMAIN input.env = {} /\ input.logLevel = {} =>
              \A k \in SnapshotKey :
                 DefaultSnapshot[k] = IF k = "accent" THEN Hex(answer.cfg[k]) ELSE answer.cfg[k]

(* Decision 0001-N4: nothing of a running muzon may use the network unless the
   opt-in is on in the end, and the user's variable or file has said so. *)
NoNetworkWithoutOptIn ==
    Done("start") /\ answer.exit = "runs" /\ (\E f \in Range(NetworkFlags) : answer.cfg[f]) =>
        /\ answer.cfg["explicit_opt_in"]
        /\ \/ "explicit_opt_in" \in DOMAIN input.env /\ input.env["explicit_opt_in"] = "true"
           \/ /\ input.exists /\ "explicit_opt_in" \in DOMAIN input.file.sets
              /\ input.file.sets["explicit_opt_in"]

(* A muzon that gets past its paths, and be it only to print them, has all four
   directories; one that lacks any of them ends before it reads a configuration,
   which may be that of another home. *)
DirectoriesFirst ==
    Done("start") =>
        LET home == IF input.muzonHome # {} THEN input.muzonHome ELSE input.projectDir
            all == UNION {Range(Directories(h)) : h \in home}
        IN  /\ answer.exit \in {"runs", "0", "2"} => answer.created = all /\ all # {}
            /\ answer.created \subseteq all \ input.blocked

(* However muzon is started, it runs as it was told to, in directories that are
   there, and with the network only if that was asked for; or it does not run. *)
StartsAsConfigured == ConfigLayers /\ NoNetworkWithoutOptIn /\ DirectoriesFirst
=============================================================================
