------------------------------ MODULE Headless ------------------------------
(***************************************************************************)
(* The life of a headless core (crates/muzon-cli/src/main.rs and           *)
(* headless.rs) and of the socket file it serves (serve in                 *)
(* crates/muzon-ipc/src/server.rs): start, the server task that runs       *)
(* beside the main one, shutdown on a signal, and death at any point.      *)
(* All cores of a user share one socket path.                              *)
(*                                                                         *)
(* LoggerSet says how `headless::run` may be entered.  TRUE is the `muzon` *)
(* binary, whose main has initialised logging (and entered a runtime, in   *)
(* which the block_on of `run` would panic if it came so far).  FALSE is   *)
(* `run` in a process that has done neither, which no binary of the        *)
(* repository is: what it does after that point is modelled from there.    *)
(***************************************************************************)
EXTENDS Naturals

CONSTANTS
    Core,         \* the processes
    NoSocket,     \* nothing at the socket path
    Stale,        \* a socket file nobody listens on
    LoggerSet

ASSUME SocketAssumption == NoSocket \notin Core /\ Stale \notin Core /\ NoSocket # Stale
ASSUME EntryAssumption == LoggerSet \subseteq BOOLEAN

VARIABLES
    main,     \* where the main task is
    server,   \* where the server task is
    logger,   \* a global tracing subscriber is set in the process
    exit,     \* how the process last ended
    socket,   \* what is at the socket path: the core whose file it is
    overlap   \* for the properties: the cores running now met, or follow, another

vars == <<main, server, logger, exit, socket, overlap>>

TypeOK ==
    /\ main \in [Core -> {"down", "logging", "build", "signals", "select", "remove", "abort"}]
    /\ server \in [Core -> {"none", "spawned", "absent", "bound", "serving", "failed"}]
    /\ logger \in [Core -> BOOLEAN]
    /\ exit \in [Core -> {"never", "ok", "error", "killed"}]
    /\ socket \in Core \cup {NoSocket, Stale}
    /\ overlap \in BOOLEAN
    /\ \A p \in Core : server[p] # "none" <=> main[p] \in {"signals", "select", "remove", "abort"}
    /\ socket \in Core => server[socket] \in {"bound", "serving"}

Running(p) == main[p] # "down"

(* The process is gone and its listener with it; its socket file stays. *)
Gone(p, how) ==
    /\ main' = [main EXCEPT ![p] = "down"]
    /\ server' = [server EXCEPT ![p] = "none"]
    /\ logger' = [logger EXCEPT ![p] = FALSE]
    /\ exit' = [exit EXCEPT ![p] = how]
    /\ socket' = IF socket = p THEN Stale ELSE socket
    /\ UNCHANGED overlap

Init ==
    /\ main = [p \in Core |-> "down"]
    /\ server = [p \in Core |-> "none"]
    /\ logger = [p \in Core |-> FALSE]
    /\ exit = [p \in Core |-> "never"]
    /\ socket = NoSocket
    /\ overlap = FALSE

-----------------------------------------------------------------------------
(* The main task *)

(* `muzon headless`: main sets up logging and drops the guard, which ends the
   log writer and leaves the subscriber set. *)
Launch(p) ==
    /\ ~Running(p)
    /\ main' = [main EXCEPT ![p] = "logging"]
    /\ \E set \in LoggerSet : logger' = [logger EXCEPT ![p] = set]
    /\ overlap' = \E q \in Core : Running(q)
    /\ UNCHANGED <<server, exit, socket>>

(* run sets up logging, which fails in a process that has it already. *)
InitLogging(p) ==
    /\ main[p] = "logging"
    /\ \/ logger[p] /\ Gone(p, "error")
       \/ /\ ~logger[p]
          /\ logger' = [logger EXCEPT ![p] = TRUE]
          /\ main' = [main EXCEPT ![p] = "build"]
          /\ UNCHANGED <<server, exit, socket, overlap>>

(* The core and the runtime are built and the server task is spawned. *)
SpawnServer(p) ==
    /\ main[p] = "build"
    /\ main' = [main EXCEPT ![p] = "signals"]
    /\ server' = [server EXCEPT ![p] = "spawned"]
    /\ UNCHANGED <<logger, exit, socket, overlap>>

InstallHandlers(p) ==
    /\ main[p] = "signals"
    /\ main' = [main EXCEPT ![p] = "select"]
    /\ UNCHANGED <<server, logger, exit, socket, overlap>>

(* SIGINT or SIGTERM, once there is a handler. *)
Signal(p) ==
    /\ main[p] = "select"
    /\ main' = [main EXCEPT ![p] = "remove"]
    /\ UNCHANGED <<server, logger, exit, socket, overlap>>

(* Whatever is at the path is removed. *)
RemoveSocket(p) ==
    /\ main[p] = "remove"
    /\ socket' = NoSocket
    /\ main' = [main EXCEPT ![p] = "abort"]
    /\ UNCHANGED <<server, logger, exit, overlap>>

(* Mutation of Exit: the server task is joined instead of aborted. *)
ExitAfterServer(p) ==
    /\ main[p] = "abort" /\ server[p] \in {"spawned", "failed"}
    /\ Gone(p, "ok")

(* abort takes effect where the task yields: before its first poll, at the
   accept, or when it has ended.  Between them it has no await, and dropping
   the runtime waits for it. *)
Exit(p) ==
    /\ main[p] = "abort" /\ server[p] \in {"spawned", "serving", "failed"}
    /\ Gone(p, "ok")

(* A crash, a signal before the handlers are there, or SIGKILL. *)
Kill(p) == Running(p) /\ Gone(p, "killed")

-----------------------------------------------------------------------------
(* The server task: serve *)

(* Mutation of EnsureSocketAbsent: the file is left where it is. *)
KeepSocket(p) ==
    /\ server[p] = "spawned"
    /\ server' = [server EXCEPT ![p] = "absent"]
    /\ UNCHANGED <<main, logger, exit, socket, overlap>>

EnsureSocketAbsent(p) ==
    /\ server[p] = "spawned"
    /\ socket' = NoSocket
    /\ server' = [server EXCEPT ![p] = "absent"]
    /\ UNCHANGED <<main, logger, exit, overlap>>

(* bind fails when there is a file at the path; the error ends the task and
   the main task never looks at it. *)
Bind(p) ==
    /\ server[p] = "absent"
    /\ \/ /\ socket = NoSocket
          /\ socket' = p
          /\ server' = [server EXCEPT ![p] = "bound"]
       \/ /\ socket # NoSocket
          /\ server' = [server EXCEPT ![p] = "failed"]
          /\ socket' = socket
    /\ UNCHANGED <<main, logger, exit, overlap>>

(* Mutation of SetSocketPerms: the file is replaced by one with the right
   mode, which is not the listener's. *)
ReplaceSocketFile(p) ==
    /\ server[p] = "bound"
    /\ server' = [server EXCEPT ![p] = "serving"]
    /\ socket' = Stale
    /\ UNCHANGED <<main, logger, exit, overlap>>

(* chmod of whatever is at the path; the listener is dropped when nothing is. *)
SetSocketPerms(p) ==
    /\ server[p] = "bound"
    /\ server' = [server EXCEPT ![p] = IF socket = NoSocket THEN "failed" ELSE "serving"]
    /\ UNCHANGED <<main, logger, exit, socket, overlap>>

-----------------------------------------------------------------------------
ServerStep(p) == EnsureSocketAbsent(p) \/ Bind(p) \/ SetSocketPerms(p)

MainStep(p) ==
    \/ InitLogging(p) \/ SpawnServer(p) \/ InstallHandlers(p)
    \/ RemoveSocket(p) \/ Exit(p)

Next == \E p \in Core :
    \/ Launch(p) \/ Signal(p) \/ Kill(p)
    \/ MainStep(p) \/ ServerStep(p)

Spec == Init /\ [][Next]_vars

(* Both tasks of a running process are polled; nobody has to start, signal or
   kill one. *)
FairSpec == Spec /\ \A p \in Core : WF_vars(MainStep(p)) /\ WF_vars(ServerStep(p))

-----------------------------------------------------------------------------
(* Properties *)

(* The doc of ensure_socket_absent (server.rs:55): a stale socket of a crashed
   core does not block the new bind.  With one core at a time, whatever the
   cores before it did to each other, the only way for the server task to fail
   is to be shut down while it starts. *)
StartupNotBlocked ==
    \A p \in Core : server[p] = "failed" /\ ~overlap => main[p] \in {"remove", "abort"}

(* A core alone that serves, and has not been told to stop, is the one a client
   of the socket path reaches, after any history of clean exits, crashes and
   overlaps of the cores before it. *)
ServingIsReachable ==
    \A p \in Core : server[p] = "serving" /\ main[p] = "select" /\ ~overlap => socket = p

(* Every launched core comes to serve unless it ends first or meets another. *)
LaunchLeadsToService ==
    \A p \in Core : main[p] = "logging" ~> (server[p] = "serving" \/ ~Running(p) \/ overlap)

(* A core that has received its signal ends: shutdown waits neither for its
   server task nor for the clients connected to it, and other cores that take
   the socket away do not hold it up. *)
ShutdownEnds == \A p \in Core : main[p] = "remove" ~> ~Running(p)

(* docs/headless-mode.md:15: `muzon --headless` logs its socket and serves. *)
StartsWithoutError == \A p \in Core : exit[p] # "error"
=============================================================================
