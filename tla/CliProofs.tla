------------------------------ MODULE CliProofs ------------------------------
(***************************************************************************)
(* What is proved of the two programs of muzon-cli that run for a while:   *)
(* `muzon play`, for any number of signals, with and without a time limit, *)
(* and a headless core with the socket file it serves, for any number of   *)
(* cores that share the path.                                              *)
(***************************************************************************)
EXTENDS PlayCommand, Headless, StartUp, SequenceTheorems, TLAPS

-----------------------------------------------------------------------------
(* muzon play *)

(* Before `play` has set the pipeline playing nothing has touched it. *)
UntouchedBefore ==
    player \in {"engine", "exists", "set_playing", "missing_file"} => pipeline = "null" /\ ~finished

(* `play` returns Ok only for an end of stream, which was read from the bus. *)
EosWasPosted ==
    /\ bus = <<"eos">> => finished
    /\ player \in {"set_null_eos", "ok"} => finished

(* A returned `play` has left nothing playing, whatever was stopped before. *)
ReturnedIsSilent == player \in {"ok", "failed", "missing_file"} => pipeline # "playing"

(* After a stop the pipeline plays only if it was set playing later. *)
StopsCount ==
    /\ stopped /\ pipeline = "playing" => late
    /\ watcher = "exit" => stopped
    /\ watcher \in {"stop", "exit"} => signals > 0

PlayInv ==
    /\ PlayTypeOK
    /\ UntouchedBefore /\ EosWasPosted /\ ReturnedIsSilent /\ StopsCount
    /\ ExitTellsTheOutcome /\ DeviceReleased

-----------------------------------------------------------------------------
LEMMA BusMessages ==
    ASSUME PlayTypeOK, bus # <<>>
    PROVE  /\ bus = <<"eos">> \/ bus = <<"error">>
           /\ Tail(bus) = <<>>
           /\ Head(bus) = "eos" => bus = <<"eos">>
           /\ pipeline = "playing"
<1> DEFINE S == {"eos", "error"}
<1>1. bus \in Seq(S) /\ Len(bus) <= 1 /\ pipeline = "playing"
  BY DEF PlayTypeOK
<1>2. Len(bus) = 1
  <2>1. Len(bus) \in Nat \ {0}
    BY <1>1, EmptySeq, Zenon
  <2>2. Len(bus) <= 1
    BY <1>1
  <2>3. ASSUME NEW n \in Nat \ {0}, n <= 1 PROVE n = 1
    BY <2>3
  <2> QED
    BY <2>1, <2>2, <2>3, Zenon
<1>3. bus = <<bus[1]>> /\ bus[1] \in S
  BY <1>1, <1>2
<1>4. Head(bus) = bus[1] /\ Tail(bus) = <<>>
  <2>1. Tail(bus) \in Seq(S) /\ Len(Tail(bus)) = Len(bus) - 1
    BY <1>1, HeadTailProperties, Zenon
  <2>2. Len(Tail(bus)) = 0
    BY <1>2, <2>1
  <2>3. Tail(bus) = <<>>
    BY <2>1, <2>2, EmptySeq
  <2> QED
    BY <1>1, <2>3
<1>5. bus[1] = "eos" \/ bus[1] = "error"
  BY <1>3
<1> QED
  BY <1>1, <1>3, <1>4, <1>5, Zenon

LEMMA PlayInitHolds == PlayInit => PlayInv
<1> SUFFICES ASSUME PlayInit PROVE PlayInv
  OBVIOUS
<1>1. bus = <<>> /\ bus \in Seq({"eos", "error"}) /\ Len(bus) = 0 /\ bus # <<"eos">>
  <2>1. bus = <<>>
    BY DEF PlayInit
  <2>2. Len(<<"eos">>) = 1
    OBVIOUS
  <2>3. bus \in Seq({"eos", "error"}) /\ Len(bus) = 0
    BY <2>1, EmptySeq
  <2> QED
    BY <2>1, <2>2, <2>3
<1>2. limit \in BOOLEAN
  BY MaxDurationAssumption DEF PlayInit
<1>3. signals \in 0 .. MaxSignals
  BY MaxSignalsAssumption DEF PlayInit
<1>4. PlayTypeOK
  <2>1. file \in BOOLEAN /\ finished = FALSE /\ stopped = FALSE /\ late = FALSE
    BY Zenon DEF PlayInit
  <2>2. finished \in BOOLEAN /\ stopped \in BOOLEAN /\ late \in BOOLEAN
    BY <2>1, Zenon
  <2>3. late => stopped
    BY <2>1, Zenon
  <2>4. bus \in Seq({"eos", "error"}) /\ Len(bus) <= 1
    BY <1>1
  <2>5. bus # <<>> => pipeline = "playing"
    BY <1>1, Zenon
  <2>6. /\ player \in {"engine", "exists", "set_playing", "wait", "set_null_error", "set_null_eos",
                      "ok", "missing_file", "failed"}
        /\ watcher \in {"none", "install", "wait", "stop", "exit", "ended"}
        /\ timer \in {"none", "sleep", "stop", "ended"}
        /\ pipeline \in {"null", "playing", "refused"}
        /\ exitCode \in {"none", "ok", "missing_file", "failed", "interrupted", "killed"}
    BY DEF PlayInit
  <2> QED
    BY <1>2, <1>3, <2>1, <2>2, <2>3, <2>4, <2>5, <2>6, Zenon DEF PlayTypeOK
<1> QED
  BY <1>1, <1>4 DEF PlayInit, PlayInv, UntouchedBefore, EosWasPosted, ReturnedIsSilent, StopsCount,
      ExitTellsTheOutcome, DeviceReleased

(* The main thread keeps the invariant. *)
LEMMA PlayerKeeps == PlayInv /\ PlayStep => PlayInv'
<1> SUFFICES ASSUME PlayInv, PlayStep PROVE PlayInv'
  OBVIOUS
<1> USE DEF PlayInv, Alive, MainTo, engineVars
<1>1. CASE BuildEngine
  BY <1>1 DEF BuildEngine, PlayTypeOK, UntouchedBefore, EosWasPosted, ReturnedIsSilent, StopsCount,
      ExitTellsTheOutcome, DeviceReleased
<1>2. CASE CheckExists
  BY <1>2 DEF CheckExists, PlayTypeOK, UntouchedBefore, EosWasPosted, ReturnedIsSilent, StopsCount,
      ExitTellsTheOutcome, DeviceReleased
<1>3. CASE SetPlaying
  BY <1>3 DEF SetPlaying, PlayTypeOK, UntouchedBefore, EosWasPosted, ReturnedIsSilent, StopsCount,
      ExitTellsTheOutcome, DeviceReleased
<1>4. CASE ReadBus
  <2>1. bus # <<>> /\ bus' = <<>> /\ (Head(bus) = "eos" => finished) /\ pipeline = "playing"
    BY <1>4, BusMessages DEF ReadBus, EosWasPosted
  <2>2. Alive /\ player = "wait" /\ player' \in {"set_null_eos", "set_null_error"}
        /\ (player' = "set_null_eos" => finished)
    BY <1>4, <2>1 DEF ReadBus
  <2> QED
    BY <1>4, <2>1, <2>2 DEF ReadBus, PlayTypeOK, UntouchedBefore, EosWasPosted, ReturnedIsSilent, StopsCount,
      ExitTellsTheOutcome, DeviceReleased
<1>5. CASE PlayReturns
  BY <1>5 DEF PlayReturns, SetNull, PlayTypeOK, UntouchedBefore, EosWasPosted, ReturnedIsSilent, StopsCount,
      ExitTellsTheOutcome, DeviceReleased
<1>6. CASE MainExit
  BY <1>6 DEF MainExit, PlayTypeOK, UntouchedBefore, EosWasPosted, ReturnedIsSilent, StopsCount,
      ExitTellsTheOutcome, DeviceReleased
<1> QED
  BY <1>1, <1>2, <1>3, <1>4, <1>5, <1>6 DEF PlayStep

(* So do the two threads that stop the pipeline at any moment. *)
LEMMA StoppersKeep == PlayInv /\ (WatcherStep \/ TimerStep) => PlayInv'
<1> SUFFICES ASSUME PlayInv, WatcherStep \/ TimerStep PROVE PlayInv'
  OBVIOUS
<1> USE DEF PlayInv, Alive, engineVars, Stop, SetNull
<1>1. CASE InstallCtrlC
  BY <1>1 DEF InstallCtrlC, PlayTypeOK, UntouchedBefore, EosWasPosted, ReturnedIsSilent, StopsCount,
      ExitTellsTheOutcome, DeviceReleased
<1>2. CASE WatcherStop
  BY <1>2 DEF WatcherStop, PlayTypeOK, UntouchedBefore, EosWasPosted, ReturnedIsSilent, StopsCount,
      ExitTellsTheOutcome, DeviceReleased
<1>3. CASE WatcherExit
  BY <1>3 DEF WatcherExit, PlayTypeOK, UntouchedBefore, EosWasPosted, ReturnedIsSilent, StopsCount,
      ExitTellsTheOutcome, DeviceReleased
<1>4. CASE TimerWakes
  BY <1>4 DEF TimerWakes, PlayTypeOK, UntouchedBefore, EosWasPosted, ReturnedIsSilent, StopsCount,
      ExitTellsTheOutcome, DeviceReleased
<1>5. CASE TimerStop
  BY <1>5 DEF TimerStop, PlayTypeOK, UntouchedBefore, EosWasPosted, ReturnedIsSilent, StopsCount,
      ExitTellsTheOutcome, DeviceReleased
<1> QED
  BY <1>1, <1>2, <1>3, <1>4, <1>5 DEF WatcherStep, TimerStep

(* And so does everything that comes from outside. *)
LEMMA OutsideKeeps == PlayInv /\ (StreamEnds \/ StreamFails \/ DeleteFile \/ SignalSent) => PlayInv'
<1> SUFFICES ASSUME PlayInv, StreamEnds \/ StreamFails \/ DeleteFile \/ SignalSent PROVE PlayInv'
  OBVIOUS
<1> USE DEF PlayInv, Alive, engineVars
<1>1. ASSUME NEW message \in {"eos", "error"}, Post(message) PROVE PlayInv'
  <2>1. bus' = <<message>> /\ bus' \in Seq({"eos", "error"}) /\ Len(bus') = 1
    BY <1>1 DEF Post
  <2>2. finished' = (finished \/ message = "eos")
    BY <1>1 DEF Post
  <2>3. finished' \in BOOLEAN /\ (finished => finished')
    BY <2>2, Zenon
  <2>4. bus' = <<"eos">> => message = "eos"
    BY <2>1
  <2>5. bus' = <<"eos">> => finished'
    BY <2>2, <2>4, Zenon
  <2>6. Alive /\ pipeline = "playing"
        /\ UNCHANGED <<player, watcher, timer, limit, file, signals, exitCode, pipeline, stopped, late>>
    BY <1>1 DEF Post
  <2> QED
    BY <2>1, <2>3, <2>5, <2>6 DEF PlayTypeOK, UntouchedBefore, EosWasPosted, ReturnedIsSilent, StopsCount,
      ExitTellsTheOutcome, DeviceReleased
<1>2. CASE DeleteFile
  <2>1. file' = FALSE /\ UNCHANGED <<player, watcher, timer, limit, signals, exitCode, engineVars>>
    BY <1>2 DEF DeleteFile
  <2>2. file' \in BOOLEAN
    BY <2>1, Zenon
  <2>3. /\ player' = player /\ watcher' = watcher /\ timer' = timer /\ limit' = limit
        /\ signals' = signals /\ exitCode' = exitCode /\ pipeline' = pipeline /\ bus' = bus
        /\ finished' = finished /\ stopped' = stopped /\ late' = late
    BY <2>1
  <2>4. PlayTypeOK'
    <3>1. limit' \in BOOLEAN /\ finished' \in BOOLEAN /\ stopped' \in BOOLEAN /\ late' \in BOOLEAN
          /\ (late' => stopped')
      BY <2>3, Zenon DEF PlayTypeOK
    <3>2. /\ bus' \in Seq({"eos", "error"}) /\ Len(bus') <= 1 /\ signals' \in 0 .. MaxSignals
          /\ (bus' # <<>> => pipeline' = "playing")
      BY <2>3, Zenon DEF PlayTypeOK
    <3>3. /\ player' \in {"engine", "exists", "set_playing", "wait", "set_null_error", "set_null_eos",
                        "ok", "missing_file", "failed"}
          /\ watcher' \in {"none", "install", "wait", "stop", "exit", "ended"}
          /\ timer' \in {"none", "sleep", "stop", "ended"}
          /\ pipeline' \in {"null", "playing", "refused"}
          /\ exitCode' \in {"none", "ok", "missing_file", "failed", "interrupted", "killed"}
      BY <2>3 DEF PlayTypeOK
    <3> QED
      BY <2>2, <3>1, <3>2, <3>3, Zenon DEF PlayTypeOK
  <2> QED
    BY <2>3, <2>4, Zenon DEF UntouchedBefore, EosWasPosted, ReturnedIsSilent, StopsCount,
      ExitTellsTheOutcome, DeviceReleased
<1>3. CASE SignalSent
  BY <1>3, MaxSignalsAssumption DEF SignalSent, PlayTypeOK, UntouchedBefore, EosWasPosted, ReturnedIsSilent, StopsCount,
      ExitTellsTheOutcome, DeviceReleased
<1> QED
  BY <1>1, <1>2, <1>3 DEF StreamEnds, StreamFails

LEMMA PlayStepKeeps == PlayInv /\ [PlayNext]_playVars => PlayInv'
<1> SUFFICES ASSUME PlayInv, [PlayNext]_playVars PROVE PlayInv'
  OBVIOUS
<1>1. CASE UNCHANGED playVars
  BY <1>1 DEF playVars, engineVars, PlayInv, PlayTypeOK, UntouchedBefore, EosWasPosted, ReturnedIsSilent, StopsCount,
      ExitTellsTheOutcome, DeviceReleased, Alive
<1> QED
  BY <1>1, PlayerKeeps, StoppersKeep, OutsideKeeps DEF PlayNext, Ended

LEMMA PlayInvariant == PlaySpec => []PlayInv
BY PlayInitHolds, PlayStepKeeps, PTL DEF PlaySpec

-----------------------------------------------------------------------------
(* The threads, the pipeline and the bus of `muzon play` stay of their types;
   a message is on the bus only of a pipeline that plays. *)
THEOREM PlayTypeCorrect == PlaySpec => []PlayTypeOK
BY PlayInvariant, PTL DEF PlayInv

(* run_play: however the stops of the two other threads fall between the steps
   of `play`, the exit code says what became of the stream. *)
THEOREM ExitCodeIsRight == PlaySpec => []ExitTellsTheOutcome
BY PlayInvariant, PTL DEF PlayInv

(* AudioEngine::stop and play: a process that ended by itself or by Ctrl-C has
   silenced the pipeline, unless its stop came before the play. *)
THEOREM PipelineIsReleased == PlaySpec => []DeviceReleased
BY PlayInvariant, PTL DEF PlayInv

-----------------------------------------------------------------------------
(* muzon headless *)

(* A core that met no other is the only one that runs. *)
Alone == ~overlap => \A p, q \in Core : Running(p) /\ Running(q) => p = q

(* What such a core finds at the path is what it left there: nothing after
   the removals, then its own file until its shutdown takes it away. *)
FileOf(p) ==
    /\ server[p] = "absent" => socket = NoSocket
    /\ server[p] \in {"bound", "serving"} => socket = p \/ (socket = NoSocket /\ main[p] = "abort")
    /\ server[p] = "failed" => main[p] \in {"remove", "abort"}
OwnFile == ~overlap => \A p \in Core : FileOf(p)

CoreInv == TypeOK /\ Alone /\ OwnFile

-----------------------------------------------------------------------------
LEMMA CoreInitHolds == Init => CoreInv
<1> SUFFICES ASSUME Init PROVE CoreInv
  OBVIOUS
<1>1. \A p \in Core : main[p] = "down" /\ server[p] = "none"
  BY DEF Init
<1>2. TypeOK
  <2>1. overlap \in BOOLEAN /\ logger \in [Core -> BOOLEAN]
    BY Zenon DEF Init
  <2>2. /\ main \in [Core -> {"down", "logging", "build", "signals", "select", "remove", "abort"}]
        /\ server \in [Core -> {"none", "spawned", "absent", "bound", "serving", "failed"}]
        /\ exit \in [Core -> {"never", "ok", "error", "killed"}]
    BY DEF Init
  <2>3. socket = NoSocket /\ socket \notin Core
    BY SocketAssumption DEF Init
  <2> QED
    BY <1>1, <2>1, <2>2, <2>3 DEF TypeOK
<1> QED
  BY <1>1, <1>2 DEF CoreInv, Alone, OwnFile, FileOf, Running

(* A core that ends takes its listener with it, and only its own. *)
LEMMA GoneKeeps ==
    ASSUME CoreInv, NEW p \in Core, NEW how \in {"ok", "error", "killed"},
           Running(p), Gone(p, how)
    PROVE  CoreInv'
<1>1. TypeOK'
  BY SocketAssumption DEF CoreInv, TypeOK, Gone, Running
<1>2. Alone'
  BY DEF CoreInv, TypeOK, Alone, Gone, Running
<1>3. OwnFile'
  <2> SUFFICES ASSUME ~overlap, NEW q \in Core PROVE FileOf(q)'
    BY DEF OwnFile, Gone
  <2>1. CASE q = p
    BY <2>1 DEF CoreInv, TypeOK, FileOf, Gone
  <2>2. CASE q # p
    <3>1. server[q] = "none"
      BY <2>2 DEF CoreInv, TypeOK, Alone, Running
    <3> QED
      BY <2>2, <3>1 DEF CoreInv, TypeOK, FileOf, Gone
  <2> QED
    BY <2>1, <2>2
<1> QED
  BY <1>1, <1>2, <1>3 DEF CoreInv

LEMMA LaunchKeeps ==
    ASSUME CoreInv, NEW p \in Core, Launch(p)
    PROVE  CoreInv'
<1>1. TypeOK'
  <2>1. logger' \in [Core -> BOOLEAN]
    <3>1. PICK set \in LoggerSet : logger' = [logger EXCEPT ![p] = set]
      BY DEF Launch
    <3>2. set \in BOOLEAN
      BY EntryAssumption
    <3> QED
      BY <3>1, <3>2 DEF CoreInv, TypeOK
  <2>2. overlap' \in BOOLEAN
    BY DEF Launch
  <2> QED
    BY <2>1, <2>2 DEF CoreInv, TypeOK, Launch, Running
<1>2. Alone'
  BY DEF CoreInv, TypeOK, Alone, Launch, Running
<1>3. OwnFile'
  <2> SUFFICES ASSUME ~overlap', NEW q \in Core PROVE FileOf(q)'
    BY DEF OwnFile
  <2>1. server[q] = "none"
    BY DEF CoreInv, TypeOK, Launch, Running
  <2> QED
    BY <2>1 DEF FileOf, Launch
<1> QED
  BY <1>1, <1>2, <1>3 DEF CoreInv

(* Every other step is of one main of a running core. *)
LEMMA OthersAreDown ==
    ASSUME CoreInv, ~overlap, NEW p \in Core, Running(p), NEW q \in Core, q # p
    PROVE  server[q] = "none" /\ ~Running(q)
BY DEF CoreInv, TypeOK, Alone, Running

LEMMA CoreMainKeeps ==
    ASSUME CoreInv, NEW p \in Core, MainStep(p) \/ Signal(p) \/ Kill(p)
    PROVE  CoreInv'
<1>1. CASE InitLogging(p)
  <2>1. CASE logger[p] /\ Gone(p, "error")
    BY <1>1, <2>1, GoneKeeps DEF InitLogging, Running
  <2>2. ASSUME logger' = [logger EXCEPT ![p] = TRUE], main' = [main EXCEPT ![p] = "build"],
               UNCHANGED <<server, exit, socket, overlap>>, main[p] = "logging"
        PROVE  CoreInv'
    <3>1. logger' \in [Core -> BOOLEAN]
      BY <2>2, Zenon DEF CoreInv, TypeOK
    <3>2. TypeOK'
      BY <2>2, <3>1 DEF CoreInv, TypeOK
    <3> QED
      BY <2>2, <3>2 DEF CoreInv, TypeOK, Alone, OwnFile, FileOf, Running
  <2> QED
    BY <1>1, <2>1, <2>2, Zenon DEF InitLogging
<1>2. CASE SpawnServer(p)
  BY <1>2 DEF SpawnServer, CoreInv, TypeOK, Alone, OwnFile, FileOf, Running
<1>3. CASE InstallHandlers(p)
  BY <1>3 DEF InstallHandlers, CoreInv, TypeOK, Alone, OwnFile, FileOf, Running
<1>4. CASE RemoveSocket(p)
  <2>1. TypeOK'
    BY <1>4, SocketAssumption DEF RemoveSocket, CoreInv, TypeOK
  <2>2. Alone'
    BY <1>4 DEF RemoveSocket, CoreInv, TypeOK, Alone, Running
  <2>3. OwnFile'
    BY <1>4, OthersAreDown DEF RemoveSocket, CoreInv, TypeOK, OwnFile, FileOf, Running
  <2> QED
    BY <2>1, <2>2, <2>3 DEF CoreInv
<1>5. CASE Exit(p)
  BY <1>5, GoneKeeps DEF Exit, Running
<1>6. CASE Signal(p)
  BY <1>6 DEF Signal, CoreInv, TypeOK, Alone, OwnFile, FileOf, Running
<1>7. CASE Kill(p)
  BY <1>7, GoneKeeps DEF Kill
<1> QED
  BY <1>1, <1>2, <1>3, <1>4, <1>5, <1>6, <1>7 DEF MainStep

LEMMA CoreServerKeeps ==
    ASSUME CoreInv, NEW p \in Core, ServerStep(p)
    PROVE  CoreInv'
<1>1. Running(p)
  BY DEF ServerStep, EnsureSocketAbsent, Bind, SetSocketPerms, CoreInv, TypeOK, Running
<1>2. Alone'
  BY DEF ServerStep, EnsureSocketAbsent, Bind, SetSocketPerms, CoreInv, Alone, Running
<1>3. CASE EnsureSocketAbsent(p)
  <2>1. TypeOK'
    BY <1>3, SocketAssumption DEF EnsureSocketAbsent, CoreInv, TypeOK
  <2>2. OwnFile'
    BY <1>1, <1>3, OthersAreDown DEF EnsureSocketAbsent, CoreInv, TypeOK, OwnFile, FileOf
  <2> QED
    BY <1>2, <2>1, <2>2 DEF CoreInv
<1>4. CASE Bind(p)
  <2>1. TypeOK'
    BY <1>4, SocketAssumption DEF Bind, CoreInv, TypeOK
  <2>2. OwnFile'
    BY <1>1, <1>4, OthersAreDown DEF Bind, CoreInv, TypeOK, OwnFile, FileOf
  <2> QED
    BY <1>2, <2>1, <2>2 DEF CoreInv
<1>5. CASE SetSocketPerms(p)
  <2>1. TypeOK'
    BY <1>5, SocketAssumption DEF SetSocketPerms, CoreInv, TypeOK
  <2>2. OwnFile'
    BY <1>1, <1>5, OthersAreDown, SocketAssumption DEF SetSocketPerms, CoreInv, TypeOK, OwnFile, FileOf
  <2> QED
    BY <1>2, <2>1, <2>2 DEF CoreInv
<1> QED
  BY <1>3, <1>4, <1>5 DEF ServerStep

LEMMA CoreStepKeeps == CoreInv /\ [Next]_vars => CoreInv'
<1> SUFFICES ASSUME CoreInv, [Next]_vars PROVE CoreInv'
  OBVIOUS
<1>1. CASE Next
  BY <1>1, LaunchKeeps, CoreMainKeeps, CoreServerKeeps DEF Next
<1>2. CASE UNCHANGED vars
  BY <1>2 DEF vars, CoreInv, TypeOK, Alone, OwnFile, FileOf, Running
<1> QED
  BY <1>1, <1>2

LEMMA CoreInvariant == Spec => []CoreInv
BY CoreInitHolds, CoreStepKeeps, PTL DEF Spec

(* An exit, a crash and a signal leave both tasks of every core in a place they
   can be in, and a socket file without a listener is known to be stale. *)
THEOREM CoreTypeCorrect == Spec => []TypeOK
BY CoreInvariant, PTL DEF CoreInv

(* ensure_socket_absent and bind: whatever earlier cores left at the path, the
   server main of a core that meets no other fails only in its shutdown. *)
THEOREM StartIsNotBlocked == Spec => []StartupNotBlocked
<1>1. CoreInv => StartupNotBlocked
  BY DEF CoreInv, OwnFile, FileOf, StartupNotBlocked
<1> QED
  BY <1>1, CoreInvariant, PTL

(* serve: the file at the path is the one of the core that serves alone. *)
THEOREM ServedIsReached == Spec => []ServingIsReachable
<1>1. CoreInv => ServingIsReachable
  BY DEF CoreInv, OwnFile, FileOf, ServingIsReachable
<1> QED
  BY <1>1, CoreInvariant, PTL

-----------------------------------------------------------------------------
(* The start of a program *)

(* What `load` gives a start before the command line is looked at. *)
Below(s) == IF s.exists THEN FromToml(s.file) ELSE Default
Merged(s) == ApplyEnvOverrides(Below(s), s.env)
Level(s) == IF s.logLevel = {} THEN Merged(s)["level"] ELSE CHOOSE l \in s.logLevel : TRUE
Paths(s) == Resolve(s.muzonHome, s.projectDir, s.blocked)

LEMMA LoadedIsMerged ==
    ASSUME NEW s, Load(s.exists, s.file, s.env).ok
    PROVE  /\ s.exists => s.file.problem = {}
           /\ Refused(Merged(s)) = {}
           /\ Load(s.exists, s.file, s.env).cfg = Merged(s)
<1> DEFINE l == Load(s.exists, s.file, s.env)
<1>1. CASE s.exists /\ s.file.problem # {}
  BY <1>1 DEF Load, ConfigError
<1>2. CASE ~(s.exists /\ s.file.problem # {})
  <2>1. l = IF Refused(Merged(s)) # {} THEN ConfigError(Refused(Merged(s))) ELSE Loaded(Merged(s))
    BY <1>2 DEF Load, Merged, Below
  <2>2. Refused(Merged(s)) = {}
    BY <2>1 DEF ConfigError
  <2> QED
    BY <1>2, <2>1, <2>2 DEF Loaded
<1> QED
  BY <1>1, <1>2

LEMMA StartCases ==
    ASSUME NEW s
    PROVE  /\ Start(s).created = Paths(s).created
           /\ Start(s).exit \in {"runs", "0", "2"} => Paths(s).ok
           /\ Start(s).exit = "runs" =>
                 /\ Load(s.exists, s.file, s.env).ok
                 /\ Start(s).cfg = [Load(s.exists, s.file, s.env).cfg EXCEPT
                       !["level"] = IF s.logLevel = {} THEN Load(s.exists, s.file, s.env).cfg["level"]
                                    ELSE CHOOSE l \in s.logLevel : TRUE]
<1> DEFINE paths == Paths(s)
           load == Load(s.exists, s.file, s.env)
           level == IF s.logLevel = {} THEN load.cfg["level"] ELSE CHOOSE l \in s.logLevel : TRUE
           runs == [exit |-> "runs", created |-> paths.created, cfg |-> [load.cfg EXCEPT !["level"] = level]]
<1>1. CASE ~paths.ok
  BY <1>1 DEF Start, EndsWith, Paths
<1>2. CASE paths.ok /\ s.printPaths
  BY <1>2 DEF Start, EndsWith, Paths
<1>3. CASE paths.ok /\ ~s.printPaths /\ ~load.ok
  BY <1>3 DEF Start, EndsWith, Paths
<1>4. CASE paths.ok /\ ~s.printPaths /\ load.ok /\ s.logFails
  BY <1>4 DEF Start, EndsWith, Paths
<1>5. CASE paths.ok /\ ~s.printPaths /\ load.ok /\ ~s.logFails
  <2>1. Start(s) = IF s.command = {} THEN EndsWith("2", paths) ELSE runs
    BY <1>5 DEF Start, Paths
  <2>2. CASE s.command = {}
    BY <1>5, <2>1, <2>2 DEF EndsWith
  <2>3. CASE s.command # {}
    BY <1>5, <2>1, <2>3
  <2> QED
    BY <2>2, <2>3
<1> QED
  BY <1>1, <1>2, <1>3, <1>4, <1>5

LEMMA RunningStart ==
    ASSUME NEW s, Start(s).exit = "runs"
    PROVE  /\ s.exists => s.file.problem = {}
           /\ Refused(Merged(s)) = {}
           /\ Start(s).cfg = [Merged(s) EXCEPT !["level"] = Level(s)]
BY StartCases, LoadedIsMerged DEF Level

(* The layers of one field. *)
LEMMA KeyCases ==
    /\ \A k \in Overridable : \/ k \in {"bit_perfect", "gapless", "explicit_opt_in"}
                              \/ k \in {"crossfade_seconds", "max_size_mb", "max_files"}
                              \/ k = "replaygain" \/ k = "level"
    /\ \A k \in Key \ Overridable : /\ k \notin {"bit_perfect", "gapless", "explicit_opt_in"}
                              /\ k \notin {"crossfade_seconds", "max_size_mb", "max_files"}
                              /\ k # "replaygain" /\ k # "level"
    /\ {"level", "explicit_opt_in", "accent"} \subseteq Key
BY DEF Overridable, Key, LoggingKey, NetworkKey, ThemeKey

LEMMA VariableSays ==
    ASSUME NEW env, NEW k \in Key, NEW old
    PROVE  /\ k \in DOMAIN env \cap Overridable =>
                 IF Variable(env, k) = {} THEN Override(k, env[k], old) = old
                 ELSE Variable(env, k) = {Override(k, env[k], old)}
           /\ k \notin DOMAIN env \cap Overridable => Variable(env, k) = {}
<1>1. CASE k \in DOMAIN env \cap Overridable
  <2>1. CASE k \in {"bit_perfect", "gapless", "explicit_opt_in"}
    <3>1. Variable(env, k) = ParseBool(env[k])
      BY <1>1, <2>1 DEF Variable
    <3>2. Override(k, env[k], old) = IF ParseBool(env[k]) = {} THEN old ELSE CHOOSE v \in ParseBool(env[k]) : TRUE
      BY <2>1 DEF Override
    <3>3. ParseBool(env[k]) \in {{}, {TRUE}, {FALSE}}
      BY DEF ParseBool
    <3> QED
      BY <1>1, <3>1, <3>2, <3>3
  <2>2. CASE k \in {"crossfade_seconds", "max_size_mb", "max_files"}
    <3>1. Variable(env, k) = ParseU32(env[k])
      BY <1>1, <2>2 DEF Variable
    <3>2. Override(k, env[k], old) = IF ParseU32(env[k]) = {} THEN old ELSE CHOOSE v \in ParseU32(env[k]) : TRUE
      BY <2>2 DEF Override
    <3>3. ParseU32(env[k]) = {} \/ \E n : ParseU32(env[k]) = {n}
      BY DEF ParseU32
    <3> QED
      BY <1>1, <3>1, <3>2, <3>3
  <2>3. CASE k = "replaygain"
    BY <1>1, <2>3 DEF Variable, Override
  <2>4. CASE k = "level"
    BY <1>1, <2>4 DEF Variable, Override
  <2> QED
    BY <1>1, <2>1, <2>2, <2>3, <2>4, KeyCases
<1>2. CASE k \in DOMAIN env /\ k \notin Overridable
  <2>1. /\ k \notin {"bit_perfect", "gapless", "explicit_opt_in"}
        /\ k \notin {"crossfade_seconds", "max_size_mb", "max_files"}
        /\ k # "replaygain" /\ k # "level"
    BY <1>2, KeyCases
  <2> QED
    BY <1>2, <2>1 DEF Variable
<1>3. CASE k \notin DOMAIN env
  BY <1>3 DEF Variable
<1> QED
  BY <1>1, <1>2, <1>3

LEMMA MergedKey ==
    ASSUME NEW s, NEW k \in Key
    PROVE  /\ k \in DOMAIN Merged(s) /\ k \in DOMAIN Below(s)
           /\ Variable(s.env, k) = {} => Merged(s)[k] = Below(s)[k]
           /\ Variable(s.env, k) # {} => Variable(s.env, k) = {Merged(s)[k]}
<1>1. Merged(s)[k] = (IF k \in DOMAIN s.env \cap Overridable THEN Override(k, s.env[k], Below(s)[k]) ELSE Below(s)[k])
  BY DEF Merged, ApplyEnvOverrides
<1>2. k \in DOMAIN Merged(s) /\ k \in DOMAIN Below(s)
  BY DEF Merged, ApplyEnvOverrides, Below, FromToml, Default
<1> QED
  BY <1>1, <1>2, VariableSays, Zenon

LEMMA BelowKey ==
    ASSUME NEW s, NEW k \in Key
    PROVE  Below(s)[k] = IF s.exists /\ k \in DOMAIN s.file.sets THEN s.file.sets[k] ELSE Default[k]
BY DEF Below, FromToml

LEMMA RunningKey ==
    ASSUME NEW s, Start(s).exit = "runs", NEW k \in Key
    PROVE  Start(s).cfg[k] = IF k = "level" THEN Level(s) ELSE Merged(s)[k]
<1>1. Start(s).cfg = [Merged(s) EXCEPT !["level"] = Level(s)]
  BY RunningStart
<1>2. k \in DOMAIN Merged(s)
  BY MergedKey
<1>3. ASSUME NEW f, NEW v, k \in DOMAIN f
      PROVE  [f EXCEPT !["level"] = v][k] = IF k = "level" THEN v ELSE f[k]
  BY <1>3
<1> QED
  BY <1>1, <1>2, <1>3, Zenon

LEMMA LayersHold ==
    ASSUME NEW s, IsStart(s), Start(s).exit = "runs", NEW k \in Key, NEW l \in 1 .. 4,
           \A m \in 1 .. l - 1 : Layers(s, k)[m] = {}
    PROVE  Layers(s, k)[l] \subseteq {Start(s).cfg[k]}
<1> DEFINE cfg == Start(s).cfg
<1>1. /\ Layers(s, k)[1] = (IF k = "level" THEN s.logLevel ELSE {})
      /\ Layers(s, k)[2] = Variable(s.env, k)
      /\ Layers(s, k)[3] = (IF s.exists /\ k \in DOMAIN s.file.sets THEN {s.file.sets[k]} ELSE {})
      /\ Layers(s, k)[4] = {Default[k]}
  BY DEF Layers
<1>2. cfg[k] = IF k = "level" THEN Level(s) ELSE Merged(s)[k]
  BY RunningKey
<1>3. CASE l = 1
  <2>1. CASE k = "level" /\ s.logLevel # {}
    <3>1. cfg[k] \in s.logLevel
      BY <1>2, <2>1 DEF Level
    <3>2. \A x \in s.logLevel : x = cfg[k]
      BY <3>1 DEF IsStart, AtMostOne
    <3> QED
      BY <1>1, <1>3, <2>1, <3>2
  <2>2. CASE ~(k = "level" /\ s.logLevel # {})
    BY <1>1, <1>3, <2>2
  <2> QED
    BY <2>1, <2>2
<1>4. CASE l # 1
  <2>1. Layers(s, k)[1] = {}
    BY <1>4
  <2>2. cfg[k] = Merged(s)[k]
    BY <1>1, <1>2, <2>1 DEF Level
  <2>3. CASE l = 2
    BY <1>1, <2>2, <2>3, MergedKey
  <2>4. CASE l = 3 \/ l = 4
    <3>1. cfg[k] = Below(s)[k]
      <4>1. Layers(s, k)[2] = {}
        BY <2>4
      <4>2. Variable(s.env, k) = {}
        BY <1>1, <4>1
      <4>3. Merged(s)[k] = Below(s)[k]
        BY <4>2, MergedKey
      <4> QED
        BY <2>2, <4>3
    <3>2. CASE l = 3
      BY <1>1, <3>1, <3>2, BelowKey
    <3>3. CASE l = 4
      <4>1. Layers(s, k)[3] = {}
        BY <3>3
      <4> QED
        BY <1>1, <3>1, <3>3, <4>1, BelowKey
    <3> QED
      BY <2>4, <3>2, <3>3
  <2> QED
    BY <1>4, <2>3, <2>4
<1> QED
  BY <1>3, <1>4

LEMMA NetworkKeys ==
    NetworkKey = {"explicit_opt_in", "anonymous_crash_reports", "anonymous_usage_analytics",
                  "llm_providers", "acoustid", "musicbrainz", "lastfm", "listenbrainz"}
<1>1. Range(NetworkFlags) = {NetworkFlags[i] : i \in 1 .. 7}
  BY DEF Range, NetworkFlags
<1>2. {NetworkFlags[i] : i \in 1 .. 7} =
         {"anonymous_crash_reports", "anonymous_usage_analytics",
          "llm_providers", "acoustid", "musicbrainz", "lastfm", "listenbrainz"}
  BY DEF NetworkFlags
<1> QED
  BY <1>1, <1>2 DEF NetworkKey

LEMMA DefaultOf ==
    /\ \A k \in AudioKey : Default[k] = AudioDefault[k]
    /\ \A k \in LibraryKey : Default[k] = LibraryDefault[k]
    /\ \A k \in LoggingKey : Default[k] = LoggingDefault[k]
    /\ \A k \in ThemeKey : Default[k] = ThemeDefault[k]
    /\ \A k \in NetworkKey : Default[k] = FALSE
<1> USE NetworkKeys DEF Key, AudioKey, LibraryKey, LoggingKey, ThemeKey, UiKey
<1>1. ASSUME NEW k \in AudioKey PROVE Default[k] = AudioDefault[k]
  BY <1>1 DEF Default
<1>2. ASSUME NEW k \in LibraryKey PROVE Default[k] = LibraryDefault[k]
  BY <1>2 DEF Default
<1>3. ASSUME NEW k \in LoggingKey PROVE Default[k] = LoggingDefault[k]
  BY <1>3 DEF Default
<1>4. ASSUME NEW k \in ThemeKey PROVE Default[k] = ThemeDefault[k]
  BY <1>4 DEF Default
<1>5. ASSUME NEW k \in NetworkKey PROVE Default[k] = FALSE
  BY <1>5 DEF Default, NetworkDefault
<1> QED
  BY <1>1, <1>2, <1>3, <1>4, <1>5

LEMMA ResetPreviewsDefaults ==
    \A k \in SnapshotKey : DefaultSnapshot[k] = IF k = "accent" THEN Hex(Default[k]) ELSE Default[k]
<1> SUFFICES ASSUME NEW k \in SnapshotKey
             PROVE  DefaultSnapshot[k] = IF k = "accent" THEN Hex(Default[k]) ELSE Default[k]
  OBVIOUS
<1>1. k \in Key /\ k \notin UiKey
  BY DEF SnapshotKey
<1>2. CASE k \in NetworkKey
  <2>1. k \in {"explicit_opt_in", "anonymous_crash_reports", "llm_providers",
               "acoustid", "musicbrainz", "lastfm", "listenbrainz"}
    BY <1>2, NetworkKeys DEF SnapshotKey
  <2>2. k = "explicit_opt_in" => DefaultSnapshot[k] = FALSE
    BY NetworkKeys DEF DefaultSnapshot
  <2>3. k = "anonymous_crash_reports" => DefaultSnapshot[k] = FALSE
    BY NetworkKeys DEF DefaultSnapshot
  <2>4. k = "llm_providers" => DefaultSnapshot[k] = FALSE
    BY NetworkKeys DEF DefaultSnapshot
  <2>5. k = "acoustid" => DefaultSnapshot[k] = FALSE
    BY NetworkKeys DEF DefaultSnapshot
  <2>6. k = "musicbrainz" => DefaultSnapshot[k] = FALSE
    BY NetworkKeys DEF DefaultSnapshot
  <2>7. k = "lastfm" => DefaultSnapshot[k] = FALSE
    BY NetworkKeys DEF DefaultSnapshot
  <2>8. k = "listenbrainz" => DefaultSnapshot[k] = FALSE
    BY NetworkKeys DEF DefaultSnapshot
  <2> QED
    BY <1>2, <2>1, <2>2, <2>3, <2>4, <2>5, <2>6, <2>7, <2>8, DefaultOf
<1>3. CASE k \in AudioKey
  <2>1. k = "bit_perfect" => DefaultSnapshot[k] = AudioDefault[k]
    BY NetworkKeys DEF DefaultSnapshot, AudioDefault
  <2>2. k = "gapless" => DefaultSnapshot[k] = AudioDefault[k]
    BY NetworkKeys DEF DefaultSnapshot, AudioDefault
  <2>3. k = "replaygain" => DefaultSnapshot[k] = AudioDefault[k]
    BY NetworkKeys DEF DefaultSnapshot, AudioDefault
  <2>4. k = "crossfade_seconds" => DefaultSnapshot[k] = AudioDefault[k]
    BY NetworkKeys DEF DefaultSnapshot, AudioDefault
  <2>5. k = "output_device" => DefaultSnapshot[k] = AudioDefault[k]
    BY NetworkKeys DEF DefaultSnapshot, AudioDefault
  <2> QED
    BY <1>3, <2>1, <2>2, <2>3, <2>4, <2>5, DefaultOf DEF AudioKey
<1>4. CASE k \in LibraryKey
  <2>1. k = "scan_roots" => DefaultSnapshot[k] = LibraryDefault[k]
    BY NetworkKeys DEF DefaultSnapshot, LibraryDefault
  <2>2. k = "watch" => DefaultSnapshot[k] = LibraryDefault[k]
    BY NetworkKeys DEF DefaultSnapshot, LibraryDefault
  <2>3. k = "min_file_size_bytes" => DefaultSnapshot[k] = LibraryDefault[k]
    BY NetworkKeys DEF DefaultSnapshot, LibraryDefault
  <2>4. k = "honor_ignore_markers" => DefaultSnapshot[k] = LibraryDefault[k]
    BY NetworkKeys DEF DefaultSnapshot, LibraryDefault
  <2>5. k = "follow_symlinks" => DefaultSnapshot[k] = LibraryDefault[k]
    BY NetworkKeys DEF DefaultSnapshot, LibraryDefault
  <2> QED
    BY <1>4, <2>1, <2>2, <2>3, <2>4, <2>5, DefaultOf DEF LibraryKey
<1>5. CASE k \in LoggingKey
  <2>1. k = "level" => DefaultSnapshot[k] = LoggingDefault[k]
    BY NetworkKeys DEF DefaultSnapshot, LoggingDefault
  <2>2. k = "max_size_mb" => DefaultSnapshot[k] = LoggingDefault[k]
    BY NetworkKeys DEF DefaultSnapshot, LoggingDefault
  <2>3. k = "max_files" => DefaultSnapshot[k] = LoggingDefault[k]
    BY NetworkKeys DEF DefaultSnapshot, LoggingDefault
  <2> QED
    BY <1>5, <2>1, <2>2, <2>3, DefaultOf DEF LoggingKey
<1>6. CASE k \in ThemeKey
  <2>1. k = "mode" => DefaultSnapshot[k] = ThemeDefault[k]
    BY NetworkKeys DEF DefaultSnapshot, ThemeDefault
  <2>2. k = "accent" => DefaultSnapshot[k] = Hex(ThemeDefault[k])
    BY NetworkKeys DEF DefaultSnapshot, ThemeDefault
  <2> QED
    BY <1>6, <2>1, <2>2, DefaultOf DEF ThemeKey
<1> QED
  BY <1>1, <1>2, <1>3, <1>4, <1>5, <1>6 DEF Key

LEMMA FirstFlagIsFound ==
    ASSUME NEW cfg, Refused(cfg) = {}, NEW f \in Range(NetworkFlags), cfg[f]
    PROVE  cfg["explicit_opt_in"]
<1> SUFFICES ASSUME ~cfg["explicit_opt_in"] PROVE FALSE
  OBVIOUS
<1> DEFINE set(i) == cfg[NetworkFlags[i]]
<1>1. DOMAIN NetworkFlags = 1 .. 7
  BY DEF NetworkFlags
<1>2. \A i \in 1 .. 7 : set(i) => \E j \in 1 .. i - 1 : set(j)
  BY <1>1 DEF Refused
<1> HIDE DEF set
<1>3. \A i \in 1 .. 7 : ~set(i)
  <2>1. ~set(1)
    BY <1>2
  <2>2. ~set(2)
    BY <1>2, <2>1
  <2>3. ~set(3)
    BY <1>2, <2>1, <2>2
  <2>4. ~set(4)
    BY <1>2, <2>1, <2>2, <2>3
  <2>5. ~set(5)
    BY <1>2, <2>1, <2>2, <2>3, <2>4
  <2>6. ~set(6)
    BY <1>2, <2>1, <2>2, <2>3, <2>4, <2>5
  <2>7. ~set(7)
    BY <1>2, <2>1, <2>2, <2>3, <2>4, <2>5, <2>6
  <2> QED
    BY <2>1, <2>2, <2>3, <2>4, <2>5, <2>6, <2>7
<1>4. PICK i \in 1 .. 7 : f = NetworkFlags[i]
  BY <1>1 DEF Range
<1>5. set(i)
  BY <1>4 DEF set
<1> QED
  BY <1>3, <1>5

LEMMA ConfigIsLayered ==
    ASSUME NEW s, IsStart(s), Start(s).exit = "runs"
    PROVE  /\ s.exists => s.file.problem = {}
           /\ \A k \in Key, l \in 1 .. 4 :
                 (\A m \in 1 .. l - 1 : Layers(s, k)[m] = {}) => Layers(s, k)[l] \subseteq {Start(s).cfg[k]}
           /\ ~s.exists /\ DOMAIN s.env = {} /\ s.logLevel = {} =>
                 \A k \in SnapshotKey :
                    DefaultSnapshot[k] = IF k = "accent" THEN Hex(Start(s).cfg[k]) ELSE Start(s).cfg[k]
<1>1. s.exists => s.file.problem = {}
  BY RunningStart
<1>2. \A k \in Key, l \in 1 .. 4 :
         (\A m \in 1 .. l - 1 : Layers(s, k)[m] = {}) => Layers(s, k)[l] \subseteq {Start(s).cfg[k]}
  BY LayersHold
<1>3. ASSUME ~s.exists, DOMAIN s.env = {}, s.logLevel = {}, NEW k \in SnapshotKey
      PROVE  DefaultSnapshot[k] = IF k = "accent" THEN Hex(Start(s).cfg[k]) ELSE Start(s).cfg[k]
  <2>1. k \in Key
    BY DEF SnapshotKey
  <2>2. \A m \in 1 .. 3 : Layers(s, k)[m] = {}
    BY <1>3 DEF Layers, Variable
  <2>3. Layers(s, k)[4] \subseteq {Start(s).cfg[k]}
    BY <1>2, <2>1, <2>2
  <2>4. Start(s).cfg[k] = Default[k]
    BY <2>3 DEF Layers
  <2> QED
    BY <2>4, ResetPreviewsDefaults
<1> QED
  BY <1>1, <1>2, <1>3

LEMMA NetworkIsAskedFor ==
    ASSUME NEW s, IsStart(s), Start(s).exit = "runs", NEW f \in Range(NetworkFlags), Start(s).cfg[f]
    PROVE  /\ Start(s).cfg["explicit_opt_in"]
           /\ \/ "explicit_opt_in" \in DOMAIN s.env /\ s.env["explicit_opt_in"] = "true"
              \/ /\ s.exists /\ "explicit_opt_in" \in DOMAIN s.file.sets
                 /\ s.file.sets["explicit_opt_in"]
<1> DEFINE key == "explicit_opt_in"
<1>1. f \in Key /\ f # "level" /\ key \in Key /\ key # "level" /\ key \in NetworkKey
  BY NetworkKeys DEF Key, NetworkKey
<1>2. \A k \in Key : k # "level" => Start(s).cfg[k] = Merged(s)[k]
  BY RunningKey
<1>3. Merged(s)[f]
  BY <1>1, <1>2
<1>4. Merged(s)[key]
  BY <1>3, RunningStart, FirstFlagIsFound
<1>5. Start(s).cfg[key]
  BY <1>1, <1>2, <1>4
<1>6. CASE Variable(s.env, key) = {}
  <2>1. Below(s)[key]
    BY <1>1, <1>4, <1>6, MergedKey
  <2>2. Default[key] = FALSE
    BY <1>1, DefaultOf
  <2> QED
    BY <1>1, <1>5, <2>1, <2>2, BelowKey
<1>7. CASE Variable(s.env, key) # {}
  <2>1. key \in DOMAIN s.env /\ Variable(s.env, key) = ParseBool(s.env[key])
    BY <1>7 DEF Variable
  <2>2. Merged(s)[key] \in ParseBool(s.env[key])
    BY <1>1, <1>7, <2>1, MergedKey
  <2>3. s.env[key] = "true"
    BY <1>4, <2>2 DEF ParseBool
  <2> QED
    BY <1>5, <2>1, <2>3
<1> QED
  BY <1>6, <1>7

LEMMA DirectoriesAreThere ==
    ASSUME NEW s, IsStart(s), NEW home, NEW all,
           home = IF s.muzonHome # {} THEN s.muzonHome ELSE s.projectDir,
           all = UNION {Range(Directories(h)) : h \in home}
    PROVE  /\ Start(s).exit \in {"runs", "0", "2"} => Start(s).created = all /\ all # {}
           /\ Start(s).created \subseteq all \ s.blocked
<1>1. /\ Start(s).created = Paths(s).created
      /\ Start(s).exit \in {"runs", "0", "2"} => Paths(s).ok
  BY StartCases
<1>2. CASE home = {}
  <2>1. Paths(s) = [ok |-> FALSE, created |-> {}]
    BY <1>2 DEF Paths, Resolve, Home
  <2> QED
    BY <1>1, <2>1
<1>3. CASE home # {}
  <2> DEFINE h == CHOOSE x \in home : TRUE
             dirs == Directories(h)
             failing == {i \in DOMAIN dirs : dirs[i] \in s.blocked}
  <2>1. h \in home
    BY <1>3
  <2>2. home = {h}
    BY <2>1 DEF IsStart, AtMostOne
  <2>3. all = Range(dirs)
    BY <2>2
  <2>4. Paths(s) = CreateAll(dirs, s.blocked)
    BY <1>3 DEF Paths, Resolve, Home
  <2>5. DOMAIN dirs = 1 .. 4
    BY DEF Directories
  <2> HIDE DEF dirs
  <2>6. Range(dirs) # {} /\ \A i \in DOMAIN dirs : dirs[i] \in Range(dirs)
    BY <2>5 DEF Range
  <2>7. CASE failing = {}
    <3>1. Paths(s) = [ok |-> TRUE, created |-> Range(dirs)]
      BY <2>4, <2>7 DEF CreateAll
    <3>2. Range(dirs) \cap s.blocked = {}
      BY <2>7 DEF Range
    <3> QED
      BY <1>1, <2>3, <2>6, <3>1, <3>2
  <2>8. CASE failing # {}
    <3>1. Paths(s) = [ok |-> FALSE, created |-> {dirs[i] : i \in {j \in DOMAIN dirs : \A f \in failing : j < f}}]
      BY <2>4, <2>8 DEF CreateAll
    <3>2. ASSUME NEW i \in DOMAIN dirs, \A f \in failing : i < f PROVE dirs[i] \in all \ s.blocked
      <4>1. i \notin failing
        BY <2>5, <3>2
      <4> QED
        BY <2>3, <2>6, <4>1
    <3> QED
      BY <1>1, <3>1, <3>2
  <2> QED
    BY <2>7, <2>8
<1> QED
  BY <1>2, <1>3

StartInv == kind = "start" /\ input \in Starts /\ (answer # NoAnswer => answer = Start(input))

THEOREM StartIsAsConfigured == StartSpec => []StartsAsConfigured
<1>1. StartInit => StartInv
  BY DEF StartInit, Asked, StartInv
<1>2. StartInv /\ [RunStart]_asking => StartInv'
  BY DEF StartInv, RunStart, Compute, asking
<1>3. StartInv => StartsAsConfigured
  <2> SUFFICES ASSUME StartInv, Done("start") PROVE StartsAsConfigured
    BY DEF StartsAsConfigured, ConfigLayers, NoNetworkWithoutOptIn, DirectoriesFirst
  <2>1. IsStart(input) /\ answer = Start(input)
    BY StartsAssumption DEF StartInv, Done
  <2>2. ConfigLayers
    BY <2>1, ConfigIsLayered DEF ConfigLayers
  <2>3. NoNetworkWithoutOptIn
    BY <2>1, NetworkIsAskedFor DEF NoNetworkWithoutOptIn
  <2>4. DirectoriesFirst
    <3> DEFINE home == IF input.muzonHome # {} THEN input.muzonHome ELSE input.projectDir
               all == UNION {Range(Directories(h)) : h \in home}
    <3>1. /\ home = IF input.muzonHome # {} THEN input.muzonHome ELSE input.projectDir
          /\ all = UNION {Range(Directories(h)) : h \in home}
      OBVIOUS
    <3> HIDE DEF home, all
    <3>2. /\ answer.exit \in {"runs", "0", "2"} => answer.created = all /\ all # {}
          /\ answer.created \subseteq all \ input.blocked
      BY <2>1, <3>1, DirectoriesAreThere
    <3> USE DEF home, all
    <3> QED
      BY <3>2 DEF DirectoriesFirst
  <2> QED
    BY <2>2, <2>3, <2>4 DEF StartsAsConfigured
<1> QED
  BY <1>1, <1>2, <1>3, PTL DEF StartSpec
=============================================================================
