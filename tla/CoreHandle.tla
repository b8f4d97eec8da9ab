------------------------------ MODULE CoreHandle ------------------------------
(***************************************************************************)
(* The core that all front ends share: CoreHandle of                       *)
(* crates/muzon-ui/src/lib.rs, reached in a headless core by the           *)
(* connections of the IPC server (dispatch in headless.rs; `muzonctl` in   *)
(* ctl.rs is one of their clients), and in the desktop shell by Tauri      *)
(* commands (app/src-tauri/src/lib.rs), which run on one thread.           *)
(*                                                                         *)
(* Its state is a volume and an active skin, each behind a mutex of its    *)
(* own.  A request takes and releases them one at a time, and reads the    *)
(* three files of a skin with neither: what it answers was put together at *)
(* different moments.                                                      *)
(*                                                                         *)
(* A volume is in percent, and may be no number at all: the wire carries   *)
(* any f32.  The content of a skin's file is the skin's id.                *)
(***************************************************************************)
EXTENDS Integers, FiniteSets

CONSTANTS
    Caller,      \* calls of the core that may be in progress at once
    Host,        \* the processes the core may be in: "headless", "shell"
    Skin,        \* BUILTIN_SKINS
    Default,     \* DEFAULT_SKIN
    OtherId,     \* ids no built-in skin has
    Asked,       \* the volumes asked for
    Fragile,     \* the files of skins that may be lost: pairs of skin and file
    MaxLost,     \* bound of the model: how many are
    Nested,      \* whether muzonctl is entered within a runtime
    NaN,         \* the f32 that is not a number
    NoCaller, NoRequest, NoAnswer, NoSkin

ASSUME HostAssumption == Host \subseteq {"headless", "shell"}
ASSUME SkinAssumption == Default \in Skin /\ Skin \cap OtherId = {}
ASSUME AskedAssumption == NaN \notin Int /\ Asked \subseteq Int \cup {NaN} /\ Nested \in BOOLEAN
ASSUME BoundAssumption == MaxLost \in Nat /\ Fragile \subseteq Skin \X {"skin.toml", "theme.css", "index.html.tmpl"}
ASSUME NoneAssumption == NoSkin \notin Skin \cup OtherId

Percent == 0 .. 100
Volume == Percent \cup (Asked \cap {NaN})
Lock == {"volume", "active_skin"}
SkinFile == {"skin.toml", "theme.css", "index.html.tmpl"}

-----------------------------------------------------------------------------
(* The wire contract of muzon-ipc *)

(* IpcRequest.  The player has no transport yet, nor a queue or a library: all
   requests to it, to the queue or to the library are answered alike. *)
SetVolumeRequest == [op : {"set_volume"}, volume : Asked]
PlaybackRequest == [op : {"status", "transport"}] \cup SetVolumeRequest
QueueRequest == [op : {"queue"}]
LibraryRequest == [op : {"library"}]
SkinRequest == [op : {"list_installed", "active", "get_active_css"}]
               \cup [op : {"set_active"}, id : Skin \cup OtherId]
IpcRequest == PlaybackRequest \cup QueueRequest \cup LibraryRequest \cup SkinRequest
              \cup [op : {"ping"}]

(* IpcResponse: the variant, and what it says of the core. *)
PlaybackResponse == [op : {"status", "set_volume"}, volume : Volume]
QueueResponse == [op : {"queue"}, entries : {{}}]
LibraryResponse == [op : {"library"}, results : {{}}]
SkinResponse ==
    [op : {"list_installed"}, active : [Skin -> BOOLEAN]]
    \cup [op : {"active"}, id : Skin \cup {NoSkin}]
    \cup [op : {"set_active"}, ok : BOOLEAN]
    \cup [op : {"get_active_css"}, id : Skin, css : Skin, template : Skin]
    \cup [op : {"get_active_css"}, id : {NoSkin}]
IpcResponse == PlaybackResponse \cup QueueResponse \cup LibraryResponse \cup SkinResponse
               \cup [op : {"pong"}]

ASSUME AnswerAssumption == NoAnswer \notin IpcResponse

(* What the commands of the shell and of muzonctl send.  A page's volume comes as
   JSON, which has no NaN; muzonctl's is a whole number it clamps itself.
   Neither asks for what only the other one has a use for. *)
ShellRequest == {r \in IpcRequest : r.op \notin {"ping", "active"}
                                    /\ (r.op = "set_volume" => r.volume # NaN)}
CtlRequest == {r \in IpcRequest : r.op \notin {"active", "get_active_css"}
                                  /\ (r.op = "set_volume" => r.volume \in Percent)}

VARIABLES
    host,      \* the process the core is in
    up,        \* that process is running
    volume, active,
    lock,      \* who holds each mutex, and for which of its steps
    lost,      \* the files of skins that cannot be read any more
    at,        \* where each call is
    req,       \* its request
    seen,      \* the active skin it has read
    answer,    \* its answer
    volumes, skins,   \* history: the values its call is about had during it
    quiet      \* history: no other call has written the volume since this one did

callVars == <<at, req, seen, answer, volumes, skins, quiet>>
vars == <<host, up, volume, active, lock, lost, callVars>>

Locking == {"write_volume", "read_volume", "read_skin", "write_skin"}
Phase == {"idle", "answered"} \cup Locking \cup SkinFile

TypeOK ==
    /\ host \in Host /\ up \in BOOLEAN
    /\ volume \in Volume /\ active \in Skin
    /\ lock \in [Lock -> (Caller \X Locking) \cup {NoCaller}]
    /\ lost \subseteq Fragile /\ Cardinality(lost) <= MaxLost
    /\ at \in [Caller -> Phase]
    /\ req \in [Caller -> IpcRequest \cup {NoRequest}]
    /\ seen \in [Caller -> Skin \cup {NoSkin}]
    /\ answer \in [Caller -> IpcResponse \cup {NoAnswer}]
    /\ \A c \in Caller : volumes[c] \subseteq Volume /\ skins[c] \subseteq Skin
    /\ quiet \in [Caller -> BOOLEAN]
    /\ \A c \in Caller : at[c] = "idle" => req[c] = NoRequest /\ answer[c] = NoAnswer
    /\ \A c \in Caller : answer[c] # NoAnswer <=> at[c] = "answered"

(* CoreHandle::new *)
NewCore ==
    /\ volume' = 70
    /\ active' = Default
    /\ lock' = [l \in Lock |-> NoCaller]

Init ==
    /\ host \in Host /\ up = TRUE
    /\ volume = 70 /\ active = Default
    /\ lock = [l \in Lock |-> NoCaller]
    /\ lost = {}
    /\ at = [c \in Caller |-> "idle"]
    /\ req = [c \in Caller |-> NoRequest]
    /\ seen = [c \in Caller |-> NoSkin]
    /\ answer = [c \in Caller |-> NoAnswer]
    /\ volumes = [c \in Caller |-> {}]
    /\ skins = [c \in Caller |-> {}]
    /\ quiet = [c \in Caller |-> TRUE]

-----------------------------------------------------------------------------
(* dispatch: what a request does first, and what is answered without a look at
   the core. *)

FirstPhase(r) ==
    CASE r.op \in {"status", "transport"} -> "read_volume"
      [] r.op = "set_volume" -> "write_volume"
      [] r.op \in {"list_installed", "active", "set_active", "get_active_css"} -> "read_skin"
      [] OTHER -> "answered"

Placeholder(r) ==
    CASE r.op = "queue" -> [op |-> "queue", entries |-> {}]
      [] r.op = "library" -> [op |-> "library", results |-> {}]
      [] r.op = "ping" -> [op |-> "pong"]
      [] OTHER -> NoAnswer

(* The thread of the shell has one call at a time; the server has one task for
   each connection. *)
MayCall(c) == up /\ at[c] = "idle" /\ (host = "shell" => \A d \in Caller : at[d] = "idle")

Call(c, r) ==
    /\ at' = [at EXCEPT ![c] = FirstPhase(r)]
    /\ req' = [req EXCEPT ![c] = r]
    /\ answer' = [answer EXCEPT ![c] = Placeholder(r)]
    /\ volumes' = [volumes EXCEPT ![c] = IF r \in PlaybackRequest THEN {volume} ELSE {}]
    /\ skins' = [skins EXCEPT ![c] = IF r \in SkinRequest THEN {active} ELSE {}]
    /\ UNCHANGED <<seen, quiet>>

Request(c) ==
    /\ MayCall(c)
    /\ \E r \in IF host = "shell" THEN ShellRequest ELSE IpcRequest : Call(c, r)
    /\ UNCHANGED <<host, up, volume, active, lock, lost>>

(* `ctl::run` once it has connected and the command made a request; it ends with
   the call.  Its block_on panics within a runtime, which main of the only
   binary that calls it has entered. *)
Muzonctl(c) ==
    /\ ~Nested /\ host = "headless" /\ MayCall(c)
    /\ \E r \in CtlRequest : Call(c, r)
    /\ UNCHANGED <<host, up, volume, active, lock, lost>>

-----------------------------------------------------------------------------
(* The locks.  A guard is a temporary of one statement: the next one locks
   again, and would wait for ever if the guard were still there. *)

LockOf(phase) == IF phase \in {"write_volume", "read_volume"} THEN "volume" ELSE "active_skin"

Acquire(c) ==
    /\ at[c] \in Locking /\ lock[LockOf(at[c])] = NoCaller
    /\ lock' = [lock EXCEPT ![LockOf(at[c])] = <<c, at[c]>>]
    /\ UNCHANGED <<host, up, volume, active, lost, callVars>>

Holds(c, phase) == at[c] = phase /\ lock[LockOf(phase)] = <<c, phase>>
Release(c) == lock' = [lock EXCEPT ![LockOf(at[c])] = NoCaller]
GoTo(c, phase) == at' = [at EXCEPT ![c] = phase] /\ UNCHANGED answer
Answer(c, a) ==
    /\ at' = [at EXCEPT ![c] = "answered"]
    /\ answer' = [answer EXCEPT ![c] = a]

(* volume.clamp(0.0, 1.0): f32::clamp compares, and NaN is neither below nor
   above; it stays what it is. *)
Clamp(v) ==
    CASE v = NaN -> NaN
      [] v # NaN /\ v < 0 -> 0
      [] v # NaN /\ v > 100 -> 100
      [] OTHER -> v

(* History of a write. *)
InProgress(c, R) == at[c] \notin {"idle", "answered"} /\ req[c] \in R
NoteVolume(c, v) ==
    /\ volumes' = [d \in Caller |-> IF InProgress(d, PlaybackRequest) THEN volumes[d] \cup {v} ELSE volumes[d]]
    /\ quiet' = [d \in Caller |-> d = c \/ (quiet[d] /\ ~InProgress(d, SetVolumeRequest))]
NoteSkin(s) ==
    skins' = [d \in Caller |-> IF InProgress(d, SkinRequest) THEN skins[d] \cup {s} ELSE skins[d]]

-----------------------------------------------------------------------------
(* dispatch_playback *)

(* Mutation of WriteVolume: the guard lives on. *)
WriteVolumeKeepingGuard(c) ==
    /\ Holds(c, "write_volume")
    /\ volume' = Clamp(req[c].volume)
    /\ NoteVolume(c, volume')
    /\ GoTo(c, "read_volume")
    /\ UNCHANGED <<host, up, active, lock, lost, req, seen, skins>>

WriteVolume(c) ==
    /\ Holds(c, "write_volume") /\ Release(c)
    /\ volume' = Clamp(req[c].volume)
    /\ NoteVolume(c, volume')
    /\ GoTo(c, "read_volume")
    /\ UNCHANGED <<host, up, active, lost, req, seen, skins>>

(* status(): the volume is read under a lock of its own, after a SetVolume has
   given up the one it wrote under. *)
ReadVolume(c) ==
    /\ Holds(c, "read_volume") /\ Release(c)
    /\ Answer(c, [op |-> IF req[c].op = "set_volume" THEN "set_volume" ELSE "status",
                  volume |-> volume])
    /\ UNCHANGED <<host, up, volume, active, lost, req, seen, volumes, skins, quiet>>

-----------------------------------------------------------------------------
(* dispatch_skin: every request reads the active skin and makes up the list of
   the built-in ones with it. *)

SkinInfoList(s) == [op |-> "list_installed", active |-> [t \in Skin |-> t = s]]

ReadSkin(c) ==
    /\ Holds(c, "read_skin") /\ Release(c)
    /\ seen' = [seen EXCEPT ![c] = active]
    /\ LET r == req[c]
       IN  \/ r.op = "list_installed" /\ Answer(c, SkinInfoList(active))
           \/ r.op = "active" /\ Answer(c, [op |-> "active", id |-> active])
           \/ r.op = "set_active" /\ r.id \in Skin /\ GoTo(c, "write_skin")
           \/ r.op = "set_active" /\ r.id \notin Skin /\ Answer(c, [op |-> "set_active", ok |-> FALSE])
           \/ r.op = "get_active_css" /\ GoTo(c, "skin.toml")
    /\ UNCHANGED <<host, up, volume, active, lost, req, volumes, skins, quiet>>

(* Mutation of WriteSkin: the default is put back. *)
WriteSkinDefault(c) ==
    /\ Holds(c, "write_skin") /\ Release(c)
    /\ active' = Default
    /\ NoteSkin(active')
    /\ Answer(c, [op |-> "set_active", ok |-> TRUE])
    /\ UNCHANGED <<host, up, volume, lost, req, seen, volumes, quiet>>

WriteSkin(c) ==
    /\ Holds(c, "write_skin") /\ Release(c)
    /\ active' = req[c].id
    /\ NoteSkin(active')
    /\ Answer(c, [op |-> "set_active", ok |-> TRUE])
    /\ UNCHANGED <<host, up, volume, lost, req, seen, volumes, quiet>>

(* load_skin of the skin that was active: the manifest, the palette and the
   main template, in this order.  A failure makes the answer empty. *)
AfterFile(file) == IF file = "skin.toml" THEN "theme.css" ELSE "index.html.tmpl"

(* Mutation of SkinPayload: the file of the skin active now. *)
SkinPayloadNow(c) ==
    [op |-> "get_active_css", id |-> seen[c], css |-> seen[c], template |-> active]

SkinPayload(c) ==
    [op |-> "get_active_css", id |-> seen[c], css |-> seen[c], template |-> seen[c]]

LoadFile(c, file) ==
    /\ at[c] = file
    /\ \/ /\ <<seen[c], file>> \in lost
          /\ Answer(c, [op |-> "get_active_css", id |-> NoSkin])
       \/ /\ <<seen[c], file>> \notin lost /\ file # "index.html.tmpl"
          /\ GoTo(c, AfterFile(file))
       \/ /\ <<seen[c], file>> \notin lost /\ file = "index.html.tmpl"
          /\ Answer(c, SkinPayload(c))
    /\ UNCHANGED <<host, up, volume, active, lock, lost, req, seen, volumes, skins, quiet>>

-----------------------------------------------------------------------------
(* A caller takes its answer. *)
Leave(C) ==
    LET Left(f, none) == [c \in Caller |-> IF c \in C THEN none ELSE f[c]]
    IN  /\ at' = Left(at, "idle")
        /\ req' = Left(req, NoRequest)
        /\ seen' = Left(seen, NoSkin)
        /\ answer' = Left(answer, NoAnswer)
        /\ volumes' = Left(volumes, {})
        /\ skins' = Left(skins, {})
        /\ quiet' = Left(quiet, TRUE)

Return(c) ==
    /\ at[c] = "answered"
    /\ Leave({c})
    /\ UNCHANGED <<host, up, volume, active, lock, lost>>

(* The process of the core dies, and the calls in progress fail. *)
Die ==
    /\ up /\ up' = FALSE
    /\ Leave(Caller)
    /\ UNCHANGED <<host, volume, active, lock, lost>>

(* A new one knows nothing of what was set. *)
Restart ==
    /\ ~up /\ up' = TRUE
    /\ NewCore
    /\ UNCHANGED <<host, lost, callVars>>

(* The files of the built-in skins are read from the source tree at run time. *)
LoseFile ==
    /\ Cardinality(lost) < MaxLost
    /\ \E file \in Fragile : lost' = lost \cup {file}
    /\ UNCHANGED <<host, up, volume, active, lock, callVars>>

-----------------------------------------------------------------------------
Step(c) ==
    \/ WriteVolume(c) \/ ReadVolume(c) \/ ReadSkin(c) \/ WriteSkin(c)
    \/ (\E file \in SkinFile : LoadFile(c, file))
    \/ Return(c)

Next ==
    \/ \E c \in Caller : Request(c) \/ Muzonctl(c) \/ Acquire(c) \/ Step(c)
    \/ Die \/ Restart \/ LoseFile

Spec == Init /\ [][Next]_vars

(* A thread that can go on does, and one that waits for a mutex others hold for
   a moment at a time gets it some day. *)
FairSpec ==
    /\ Spec
    /\ \A c \in Caller : WF_vars(Step(c)) /\ SF_vars(Acquire(c))

-----------------------------------------------------------------------------
(* Properties *)

Answered(c, op) == at[c] = "answered" /\ answer[c].op = op

(* What an answer says of the core was so at some moment of the call, although
   the core may be different by then: the volume; the one active skin of the
   list; the skin whose stylesheet and template are returned, both of which are
   its own even if skins were switched between the reads. *)
AnswersAreCurrent ==
    \A c \in Caller :
        /\ Answered(c, "status") \/ Answered(c, "set_volume") => answer[c].volume \in volumes[c]
        /\ Answered(c, "list_installed") =>
              \E s \in skins[c] : answer[c] = SkinInfoList(s)
        /\ Answered(c, "active") => answer[c].id \in skins[c]
        /\ Answered(c, "get_active_css") =>
              \E s \in skins[c] :
                 IF answer[c].id = NoSkin THEN \E file \in SkinFile : <<s, file>> \in lost
                 ELSE answer[c].id = s /\ answer[c].css = s /\ answer[c].template = s

(* A setting that was answered was in force for a moment of the call, in which
   others may have set another one; the volume as clamped (NaN is kept), a skin only if it is
   a built-in one.  A SetVolume reads the volume back after it has unlocked it:
   the status it answers with shows its own volume unless another call wrote one
   meanwhile. *)
SettingsTakeEffect ==
    \A c \in Caller :
        /\ Answered(c, "set_volume") => Clamp(req[c].volume) \in volumes[c]
        /\ Answered(c, "set_active") => IF answer[c].ok THEN req[c].id \in skins[c]
                                        ELSE req[c].id \notin Skin
        /\ Answered(c, "set_volume") /\ quiet[c] => answer[c].volume = Clamp(req[c].volume)

(* A call is answered, or the core dies: no path through the two mutexes waits
   for a lock its own thread, or a thread that waits for it, holds. *)
CallsEnd == \A c \in Caller : at[c] # "idle" ~> at[c] = "idle"
=============================================================================
