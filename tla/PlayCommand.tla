----------------------------- MODULE PlayCommand -----------------------------
(***************************************************************************)
(* `muzon play <FILE>`: run_play of crates/muzon-cli/src/main.rs and the   *)
(* AudioEngine it uses (crates/muzon-audio/src/engine.rs).  Three threads  *)
(* share one GStreamer pipeline: the main one plays the file, one waits    *)
(* for SIGINT or SIGTERM and one for --max-duration; the last two stop the *)
(* pipeline whatever the first is doing.                                   *)
(*                                                                         *)
(* GStreamer and the signals are external.  A pipeline that is set to Null *)
(* flushes its bus and posts nothing; messages other than Eos and Error    *)
(* are read and ignored by `play`, and left out.                           *)
(***************************************************************************)
EXTENDS Naturals, Sequences

CONSTANTS
    MaxDuration,   \* the values --max-duration may have: set, or not
    MaxSignals     \* bound of the model

ASSUME MaxDurationAssumption == MaxDuration \subseteq BOOLEAN
ASSUME MaxSignalsAssumption == MaxSignals \in Nat

VARIABLES
    player,    \* where the main thread is
    watcher,   \* where the Ctrl-C thread is
    timer,     \* where the max-duration thread is
    limit,     \* --max-duration was given
    file,      \* the file exists
    pipeline,  \* the state of the pipeline
    bus,       \* the messages `play` has yet to read
    signals,   \* signals sent to the process so far
    exitCode,  \* how the process ended
    finished,  \* history: the stream was played to its end
    stopped,   \* history: a stop() has returned
    late       \* history: the pipeline was set playing after that

engineVars == <<pipeline, bus, finished, stopped, late>>
playVars == <<player, watcher, timer, limit, file, signals, exitCode, engineVars>>

Alive == exitCode = "none"

PlayTypeOK ==
    /\ player \in {"engine", "exists", "set_playing", "wait", "set_null_error", "set_null_eos",
                 "ok", "missing_file", "failed"}
    /\ watcher \in {"none", "install", "wait", "stop", "exit", "ended"}
    /\ timer \in {"none", "sleep", "stop", "ended"}
    /\ limit \in BOOLEAN /\ file \in BOOLEAN
    /\ pipeline \in {"null", "playing", "refused"}
    /\ bus \in Seq({"eos", "error"}) /\ Len(bus) <= 1
    /\ signals \in 0 .. MaxSignals
    /\ exitCode \in {"none", "ok", "missing_file", "failed", "interrupted", "killed"}
    /\ finished \in BOOLEAN /\ stopped \in BOOLEAN /\ late \in BOOLEAN
    /\ late => stopped
    /\ bus # <<>> => pipeline = "playing"

PlayInit ==
    /\ player = "engine"
    /\ watcher = "none" /\ timer = "none"
    /\ limit \in MaxDuration /\ file \in BOOLEAN
    /\ pipeline = "null" /\ bus = <<>>
    /\ signals = 0
    /\ exitCode = "none"
    /\ finished = FALSE /\ stopped = FALSE /\ late = FALSE

-----------------------------------------------------------------------------
(* GStreamer *)

(* set_state(Null), whoever calls it. *)
SetNull ==
    /\ pipeline' = "null"
    /\ bus' = <<>>

(* The stream of a playing pipeline ends, or fails, once. *)
Post(message) ==
    /\ Alive /\ pipeline = "playing" /\ bus = <<>>
    /\ bus' = <<message>>
    /\ finished' = (finished \/ message = "eos")
    /\ UNCHANGED <<player, watcher, timer, limit, file, signals, exitCode, pipeline, stopped, late>>

StreamEnds == ~finished /\ Post("eos")
StreamFails == ~finished /\ Post("error")

DeleteFile ==
    /\ Alive /\ file
    /\ file' = FALSE
    /\ UNCHANGED <<player, watcher, timer, limit, signals, exitCode, engineVars>>

-----------------------------------------------------------------------------
(* The main thread: AudioEngine::new, the two threads, AudioEngine::play *)

BuildEngine ==
    /\ Alive /\ player = "engine"
    /\ \/ /\ player' = "failed"
          /\ UNCHANGED <<watcher, timer>>
       \/ /\ player' = "exists"
          /\ watcher' = "install"
          /\ timer' = IF limit THEN "sleep" ELSE "none"
    /\ UNCHANGED <<limit, file, signals, exitCode, engineVars>>

MainTo(phase) ==
    /\ player' = phase
    /\ UNCHANGED <<watcher, timer, limit, file, signals, exitCode>>

CheckExists ==
    /\ Alive /\ player = "exists"
    /\ MainTo(IF file THEN "set_playing" ELSE "missing_file")
    /\ UNCHANGED engineVars

(* The element may refuse the state; the error is returned as it is, without a
   set_state(Null). *)
SetPlaying ==
    /\ Alive /\ player = "set_playing"
    /\ \/ /\ MainTo("wait")
          /\ pipeline' = "playing"
       \/ /\ MainTo("failed")
          /\ pipeline' = "refused"
    /\ late' = (stopped /\ pipeline' = "playing")
    /\ UNCHANGED <<bus, finished, stopped>>

(* Mutations of ReadBus: a pipeline that was stopped ends the wait; errors are
   passed over; the error path leaves the pipeline as it is. *)
ReadBusOrStopped ==
    /\ Alive /\ player = "wait"
    /\ \/ bus # <<>> /\ MainTo(IF Head(bus) = "eos" THEN "set_null_eos" ELSE "set_null_error")
       \/ pipeline = "null" /\ MainTo("set_null_eos")
    /\ bus' = <<>>
    /\ UNCHANGED <<pipeline, finished, stopped, late>>
ReadBusToEos ==
    /\ Alive /\ player = "wait" /\ bus = <<"eos">>
    /\ MainTo("set_null_eos")
    /\ bus' = Tail(bus)
    /\ UNCHANGED <<pipeline, finished, stopped, late>>
ReadBusKeepingPipeline ==
    /\ Alive /\ player = "wait" /\ bus # <<>>
    /\ MainTo(IF Head(bus) = "eos" THEN "set_null_eos" ELSE "failed")
    /\ bus' = Tail(bus)
    /\ UNCHANGED <<pipeline, finished, stopped, late>>

(* iter_timed without a timeout: the loop waits for the next message for ever. *)
ReadBus ==
    /\ Alive /\ player = "wait" /\ bus # <<>>
    /\ MainTo(IF Head(bus) = "eos" THEN "set_null_eos" ELSE "set_null_error")
    /\ bus' = Tail(bus)
    /\ UNCHANGED <<pipeline, finished, stopped, late>>

PlayReturns ==
    /\ Alive /\ player \in {"set_null_eos", "set_null_error"}
    /\ MainTo(IF player = "set_null_eos" THEN "ok" ELSE "failed")
    /\ SetNull
    /\ UNCHANGED <<finished, stopped, late>>

(* The exit code of run_play is the process's, unless another thread is first. *)
MainExit ==
    /\ Alive /\ player \in {"ok", "missing_file", "failed"}
    /\ exitCode' = player
    /\ UNCHANGED <<player, watcher, timer, limit, file, signals, engineVars>>

-----------------------------------------------------------------------------
(* The other two threads *)

(* wait_for_ctrl_c: until the handlers are there, and if they cannot be, a
   signal ends the process. *)
InstallCtrlC ==
    /\ Alive /\ watcher = "install"
    /\ watcher' \in {"wait", "ended"}
    /\ UNCHANGED <<player, timer, limit, file, signals, exitCode, engineVars>>

SignalSent ==
    /\ Alive /\ signals < MaxSignals
    /\ signals' = signals + 1
    /\ exitCode' = IF watcher \in {"none", "install", "ended"} THEN "killed" ELSE "none"
    /\ watcher' = IF watcher = "wait" THEN "stop" ELSE watcher
    /\ UNCHANGED <<player, timer, limit, file, engineVars>>

(* AudioEngine::stop by the watcher and by the timer. *)
Stop ==
    /\ SetNull
    /\ stopped' = TRUE
    /\ UNCHANGED <<finished, late>>

(* Mutation of WatcherStop: the thread stops until `play` has returned. *)
WatcherStopUntilReturned ==
    /\ Alive /\ watcher = "stop"
    /\ Stop
    /\ watcher' = IF player = "wait" THEN "stop" ELSE "exit"
    /\ UNCHANGED <<player, timer, limit, file, signals, exitCode>>

WatcherStop ==
    /\ Alive /\ watcher = "stop"
    /\ Stop
    /\ watcher' = "exit"
    /\ UNCHANGED <<player, timer, limit, file, signals, exitCode>>

WatcherExit ==
    /\ Alive /\ watcher = "exit"
    /\ exitCode' = "interrupted"
    /\ UNCHANGED <<player, watcher, timer, limit, file, signals, engineVars>>

TimerWakes ==
    /\ Alive /\ timer = "sleep"
    /\ timer' = "stop"
    /\ UNCHANGED <<player, watcher, limit, file, signals, exitCode, engineVars>>

TimerStop ==
    /\ Alive /\ timer = "stop"
    /\ Stop
    /\ timer' = "ended"
    /\ UNCHANGED <<player, watcher, limit, file, signals, exitCode>>

-----------------------------------------------------------------------------
PlayStep == BuildEngine \/ CheckExists \/ SetPlaying \/ ReadBus \/ PlayReturns \/ MainExit
WatcherStep == InstallCtrlC \/ WatcherStop \/ WatcherExit
TimerStep == TimerWakes \/ TimerStop

(* A process that has ended stays so. *)
Ended == ~Alive /\ UNCHANGED playVars

PlayNext ==
    \/ PlayStep \/ WatcherStep \/ TimerStep
    \/ StreamEnds \/ StreamFails \/ DeleteFile \/ SignalSent
    \/ Ended

PlaySpec == PlayInit /\ [][PlayNext]_playVars

(* Threads are scheduled, and a file that plays comes to its end.  Nobody has to
   send a signal. *)
FairPlaySpec ==
    /\ PlaySpec
    /\ WF_playVars(PlayStep) /\ WF_playVars(WatcherStep) /\ WF_playVars(TimerStep)
    /\ WF_playVars(StreamEnds \/ StreamFails)

-----------------------------------------------------------------------------
(* Properties *)

(* The exit code is right about the play whatever the other threads did
   meanwhile: 0 only after the whole stream, 3 only if nothing was ever
   played, 130 only after a signal. *)
ExitTellsTheOutcome ==
    /\ exitCode = "ok" => finished
    /\ exitCode = "missing_file" => pipeline = "null" /\ ~finished
    /\ exitCode = "interrupted" => signals > 0

(* A process that ends by itself or by Ctrl-C does not leave the pipeline
   playing, except when the stop came before `play` had set it playing: that
   stop is lost, and Ctrl-C then ends the process in the middle of the sound. *)
DeviceReleased == exitCode \notin {"none", "killed"} /\ ~late => pipeline # "playing"

(* Once a signal was sent the process ends, in whatever call its main thread
   waits and whatever the timer did to the pipeline. *)
SignalEnds == signals > 0 ~> ~Alive

(* A play ends, at the end of the stream or at an error of it, unless a stop
   leaves the pipeline silent under it, which happens to the stop of the
   max-duration timer and to no other; a stop that was lost does not matter. *)
PlayEnds == player = "wait" ~> (~Alive \/ (timer = "ended" /\ pipeline = "null"))
=============================================================================
