--------------------------- MODULE CoreHandleProofs ---------------------------
(***************************************************************************)
(* What is proved of the shared core, for any number of calls at once, any *)
(* skins, any volumes asked for and any files lost.                        *)
(***************************************************************************)
EXTENDS CoreHandle, FiniteSetTheorems, TLAPS

-----------------------------------------------------------------------------
(* The wire contract *)

SkinOp == {"list_installed", "active", "set_active", "get_active_css"}

LEMMA RequestKinds ==
    ASSUME NEW r \in IpcRequest
    PROVE  \/ r.op \in {"status", "transport"} /\ r \in PlaybackRequest
           \/ r.op = "set_volume" /\ r \in PlaybackRequest /\ r \in SetVolumeRequest
           \/ r.op \in SkinOp /\ r \in SkinRequest
           \/ r.op \in {"queue", "library", "ping"}
<1>1. CASE r \in PlaybackRequest
  BY <1>1 DEF PlaybackRequest, SetVolumeRequest
<1>2. CASE r \in SkinRequest
  BY <1>2 DEF SkinRequest, SkinOp
<1>3. CASE r \in QueueRequest \cup LibraryRequest \cup [op : {"ping"}]
  BY <1>3 DEF QueueRequest, LibraryRequest
<1> QED
  BY <1>1, <1>2, <1>3 DEF IpcRequest

LEMMA VolumeAsked ==
    ASSUME NEW r \in SetVolumeRequest
    PROVE  r.op = "set_volume" /\ r.volume \in Asked /\ Clamp(r.volume) \in Volume
<1>1. r.op = "set_volume" /\ r.volume \in Asked /\ r.volume \in Int \cup {NaN}
  BY AskedAssumption DEF SetVolumeRequest
<1>2. CASE r.volume = NaN
  BY <1>1, <1>2 DEF Clamp, Volume
<1>3. CASE r.volume # NaN
  <2>1. r.volume \in Int
    BY <1>1, <1>3
  <2>2. Clamp(r.volume) \in Percent
    BY <1>3, <2>1 DEF Clamp, Percent
  <2> QED
    BY <1>1, <2>2 DEF Volume
<1> QED
  BY <1>1, <1>2, <1>3

LEMMA Responses ==
    ASSUME NEW v \in Volume, NEW s \in Skin, NEW o \in {"status", "set_volume"}, NEW ok \in BOOLEAN
    PROVE  /\ [op |-> o, volume |-> v] \in IpcResponse
           /\ SkinInfoList(s) \in IpcResponse
           /\ [op |-> "active", id |-> s] \in IpcResponse
           /\ [op |-> "set_active", ok |-> ok] \in IpcResponse
           /\ [op |-> "get_active_css", id |-> NoSkin] \in IpcResponse
           /\ [op |-> "get_active_css", id |-> s, css |-> s, template |-> s] \in IpcResponse
           /\ [op |-> "queue", entries |-> {}] \in IpcResponse
           /\ [op |-> "library", results |-> {}] \in IpcResponse
           /\ [op |-> "pong"] \in IpcResponse
<1>1. [op |-> o, volume |-> v] \in PlaybackResponse
  BY DEF PlaybackResponse
<1>2. SkinInfoList(s) \in SkinResponse
  <2>1. [t \in Skin |-> t = s] \in [Skin -> BOOLEAN]
    BY Zenon
  <2> DEFINE f == [t \in Skin |-> t = s]
  <2> HIDE DEF f
  <2>2. [op |-> "list_installed", active |-> f] \in [op : {"list_installed"}, active : [Skin -> BOOLEAN]]
    BY <2>1 DEF f
  <2> QED
    BY <2>2 DEF SkinInfoList, SkinResponse, f
<1>3. [op |-> "active", id |-> s] \in SkinResponse
  BY DEF SkinResponse
<1>4. [op |-> "set_active", ok |-> ok] \in SkinResponse
  <2>1. [op |-> "set_active", ok |-> ok] \in [op : {"set_active"}, ok : BOOLEAN]
    BY Zenon
  <2> QED
    BY <2>1, Zenon DEF SkinResponse
<1>5. [op |-> "get_active_css", id |-> NoSkin] \in SkinResponse
  BY DEF SkinResponse
<1>6. [op |-> "get_active_css", id |-> s, css |-> s, template |-> s] \in SkinResponse
  BY DEF SkinResponse
<1>7. [op |-> "queue", entries |-> {}] \in QueueResponse /\ [op |-> "library", results |-> {}] \in LibraryResponse
  BY DEF QueueResponse, LibraryResponse
<1> QED
  BY <1>1, <1>2, <1>3, <1>4, <1>5, <1>6, <1>7 DEF IpcResponse

-----------------------------------------------------------------------------
(* A call in progress has seen every value that the part of the core it is about
   has had since it began, the present one included; its answer, once it has
   one, is made of them. *)
CurrentAt(c) ==
    /\ Answered(c, "status") \/ Answered(c, "set_volume") => answer[c].volume \in volumes[c]
    /\ Answered(c, "list_installed") => \E s \in skins[c] : answer[c] = SkinInfoList(s)
    /\ Answered(c, "active") => answer[c].id \in skins[c]
    /\ Answered(c, "get_active_css") =>
          \E s \in skins[c] :
             IF answer[c].id = NoSkin THEN \E file \in SkinFile : <<s, file>> \in lost
             ELSE answer[c].id = s /\ answer[c].css = s /\ answer[c].template = s

EffectiveAt(c) ==
    /\ Answered(c, "set_volume") => Clamp(req[c].volume) \in volumes[c]
    /\ Answered(c, "set_active") => IF answer[c].ok THEN req[c].id \in skins[c]
                                    ELSE req[c].id \notin Skin
    /\ Answered(c, "set_volume") /\ quiet[c] => answer[c].volume = Clamp(req[c].volume)

VolumePhase == {"write_volume", "read_volume"}
SkinPhase == {"read_skin", "write_skin"} \cup SkinFile

CallOf(c) ==
    /\ at[c] # "idle" => up
    /\ at[c] \in VolumePhase => req[c] \in PlaybackRequest /\ volume \in volumes[c]
    /\ at[c] = "write_volume" => req[c] \in SetVolumeRequest
    /\ at[c] = "read_volume" /\ req[c].op = "set_volume" =>
          /\ req[c] \in SetVolumeRequest
          /\ Clamp(req[c].volume) \in volumes[c]
          /\ quiet[c] => volume = Clamp(req[c].volume)
    /\ at[c] \in SkinPhase => req[c] \in SkinRequest /\ active \in skins[c]
    /\ at[c] = "write_skin" => req[c].op = "set_active" /\ req[c].id \in Skin
    /\ at[c] \in SkinFile => seen[c] \in skins[c]
    /\ CurrentAt(c) /\ EffectiveAt(c)

HistoryTypes ==
    /\ volumes \in [Caller -> SUBSET Volume] /\ skins \in [Caller -> SUBSET Skin]
    /\ IsFiniteSet(lost)

IInv == TypeOK /\ HistoryTypes /\ \A c \in Caller : CallOf(c)

LEMMA InitHolds == Init => IInv
<1> SUFFICES ASSUME Init PROVE IInv
  OBVIOUS
<1>1. 70 \in Volume /\ active \in Skin
  BY SkinAssumption DEF Volume, Percent, Init
<1>2. IsFiniteSet(lost) /\ Cardinality(lost) <= MaxLost /\ lost \subseteq Fragile
  BY FS_EmptySet, BoundAssumption DEF Init
<1>3. HistoryTypes
  BY <1>2 DEF Init, HistoryTypes
<1>4. TypeOK
  <2>1. up \in BOOLEAN /\ quiet \in [Caller -> BOOLEAN]
    BY Zenon DEF Init
  <2>2. /\ lock \in [Lock -> (Caller \X Locking) \cup {NoCaller}]
        /\ at \in [Caller -> Phase]
        /\ req \in [Caller -> IpcRequest \cup {NoRequest}]
        /\ seen \in [Caller -> Skin \cup {NoSkin}]
        /\ answer \in [Caller -> IpcResponse \cup {NoAnswer}]
    <3> HIDE DEF IpcRequest, IpcResponse, Lock, Locking
    <3> QED
      BY DEF Init, Phase
  <2>3. \A c \in Caller : at[c] = "idle" /\ req[c] = NoRequest /\ answer[c] = NoAnswer
    BY DEF Init
  <2> QED
    BY <1>1, <1>2, <1>3, <2>1, <2>2, <2>3 DEF TypeOK, HistoryTypes, Init
<1>5. ASSUME NEW c \in Caller PROVE CallOf(c)
  BY DEF Init, CallOf, CurrentAt, EffectiveAt, Answered, VolumePhase, SkinPhase, SkinFile
<1> QED
  BY <1>3, <1>4, <1>5 DEF IInv

-----------------------------------------------------------------------------
(* A call that takes no step itself: what happens to the core meanwhile is noted
   in its history, and a volume written meanwhile ends its quiet. *)
LEMMA Bystander ==
    ASSUME NEW d \in Caller, CallOf(d), up' = up,
           at'[d] = at[d], req'[d] = req[d], seen'[d] = seen[d], answer'[d] = answer[d],
           volumes[d] \subseteq volumes'[d], skins[d] \subseteq skins'[d], lost \subseteq lost',
           at[d] \in VolumePhase => volume' \in volumes'[d],
           at[d] \in SkinPhase => active' \in skins'[d],
           quiet'[d] => quiet[d] /\ (at[d] = "read_volume" /\ req[d].op = "set_volume" => volume' = volume)
    PROVE  CallOf(d)'
<1>1. CurrentAt(d)'
  <2>1. CASE Answered(d, "get_active_css")
    <3>1. PICK s \in skins[d] : IF answer[d].id = NoSkin THEN \E file \in SkinFile : <<s, file>> \in lost
                               ELSE answer[d].id = s /\ answer[d].css = s /\ answer[d].template = s
      BY <2>1 DEF CallOf, CurrentAt
    <3>2. s \in skins'[d]
      BY <3>1
    <3> QED
      BY <2>1, <3>1, <3>2 DEF CurrentAt, Answered
  <2>2. CASE ~Answered(d, "get_active_css")
    BY <2>2 DEF CallOf, CurrentAt, Answered
  <2> QED
    BY <2>1, <2>2
<1>2. EffectiveAt(d)'
  BY DEF CallOf, EffectiveAt, Answered
<1>3. /\ at'[d] # "idle" => up'
      /\ at'[d] \in VolumePhase => req'[d] \in PlaybackRequest /\ volume' \in volumes'[d]
      /\ at'[d] = "write_volume" => req'[d] \in SetVolumeRequest
      /\ at'[d] \in SkinPhase => req'[d] \in SkinRequest /\ active' \in skins'[d]
      /\ at'[d] = "write_skin" => req'[d].op = "set_active" /\ req'[d].id \in Skin
      /\ at'[d] \in SkinFile => seen'[d] \in skins'[d]
  BY DEF CallOf
<1>4. at'[d] = "read_volume" /\ req'[d].op = "set_volume" =>
          /\ req'[d] \in SetVolumeRequest
          /\ Clamp(req'[d].volume) \in volumes'[d]
          /\ quiet'[d] => volume' = Clamp(req'[d].volume)
  BY DEF CallOf
<1> QED
  BY <1>1, <1>2, <1>3, <1>4 DEF CallOf, VolumePhase, SkinPhase, SkinFile

(* A request begins. *)
LEMMA CallKeeps ==
    ASSUME IInv, NEW c \in Caller, up, at[c] = "idle", NEW r \in IpcRequest, Call(c, r),
           UNCHANGED <<host, up, volume, active, lock, lost>>
    PROVE  IInv'
<1>1. /\ at' = [at EXCEPT ![c] = FirstPhase(r)] /\ req' = [req EXCEPT ![c] = r]
      /\ answer' = [answer EXCEPT ![c] = Placeholder(r)]
      /\ volumes' = [volumes EXCEPT ![c] = IF r \in PlaybackRequest THEN {volume} ELSE {}]
      /\ skins' = [skins EXCEPT ![c] = IF r \in SkinRequest THEN {active} ELSE {}]
      /\ seen' = seen /\ quiet' = quiet
  BY DEF Call
<1>2. \/ FirstPhase(r) = "read_volume" /\ Placeholder(r) = NoAnswer /\ r \in PlaybackRequest /\ r.op # "set_volume"
      \/ FirstPhase(r) = "write_volume" /\ Placeholder(r) = NoAnswer /\ r \in PlaybackRequest /\ r \in SetVolumeRequest
      \/ FirstPhase(r) = "read_skin" /\ Placeholder(r) = NoAnswer /\ r \in SkinRequest
      \/ FirstPhase(r) = "answered" /\ Placeholder(r) \in IpcResponse /\ Placeholder(r).op \in {"queue", "library", "pong"}
  <2>1. CASE r.op \in {"status", "transport"} /\ r \in PlaybackRequest
    BY <2>1 DEF FirstPhase, Placeholder
  <2>2. CASE r.op = "set_volume" /\ r \in PlaybackRequest /\ r \in SetVolumeRequest
    BY <2>2 DEF FirstPhase, Placeholder
  <2>3. CASE r.op \in SkinOp /\ r \in SkinRequest
    BY <2>3 DEF FirstPhase, Placeholder, SkinOp
  <2>4. CASE r.op \in {"queue", "library", "ping"}
    <3>1. FirstPhase(r) = "answered"
      BY <2>4 DEF FirstPhase
    <3>2. \/ Placeholder(r) = [op |-> "queue", entries |-> {}]
          \/ Placeholder(r) = [op |-> "library", results |-> {}]
          \/ Placeholder(r) = [op |-> "pong"]
      BY <2>4 DEF Placeholder
    <3>3. Placeholder(r).op \in {"queue", "library", "pong"}
      BY <3>2
    <3>4. /\ [op |-> "queue", entries |-> {}] \in IpcResponse
          /\ [op |-> "library", results |-> {}] \in IpcResponse
          /\ [op |-> "pong"] \in IpcResponse
      BY DEF IpcResponse, QueueResponse, LibraryResponse
    <3> QED
      BY <3>1, <3>2, <3>3, <3>4
  <2> QED
    BY <2>1, <2>2, <2>3, <2>4, RequestKinds
<1>3. Placeholder(r) \in IpcResponse \cup {NoAnswer} /\ (Placeholder(r) # NoAnswer <=> FirstPhase(r) = "answered")
      /\ FirstPhase(r) \in Phase /\ FirstPhase(r) # "idle"
  BY <1>2, AnswerAssumption DEF Phase, Locking
<1>4. TypeOK'
  <2> HIDE DEF IpcRequest, IpcResponse
  <2> QED
    BY <1>1, <1>3 DEF IInv, TypeOK, HistoryTypes
<1>5. HistoryTypes'
  BY <1>1 DEF IInv, TypeOK, HistoryTypes
<1>6. CallOf(c)'
  <2>1. /\ at'[c] = FirstPhase(r) /\ req'[c] = r /\ answer'[c] = Placeholder(r)
        /\ volumes'[c] = (IF r \in PlaybackRequest THEN {volume} ELSE {})
        /\ skins'[c] = (IF r \in SkinRequest THEN {active} ELSE {})
    BY <1>1 DEF IInv, TypeOK, HistoryTypes
  <2> QED
    BY <1>2, <2>1 DEF CallOf, CurrentAt, EffectiveAt, Answered, VolumePhase, SkinPhase, SkinFile
<1>7. ASSUME NEW d \in Caller, d # c PROVE CallOf(d)'
  <2>1. CallOf(d)
    BY DEF IInv
  <2>2. /\ at'[d] = at[d] /\ req'[d] = req[d] /\ seen'[d] = seen[d] /\ answer'[d] = answer[d]
        /\ volumes'[d] = volumes[d] /\ skins'[d] = skins[d] /\ quiet'[d] = quiet[d]
    BY <1>1, <1>7 DEF IInv, TypeOK, HistoryTypes
  <2>3. /\ at[d] \in VolumePhase => volume' \in volumes'[d]
        /\ at[d] \in SkinPhase => active' \in skins'[d]
    BY <2>1, <2>2 DEF CallOf
  <2> QED
    BY <2>1, <2>2, <2>3, Bystander
<1> QED
  BY <1>4, <1>5, <1>6, <1>7 DEF IInv

LEMMA AcquireKeeps == ASSUME IInv, NEW c \in Caller, Acquire(c) PROVE IInv'
<1>1. /\ lock' = [lock EXCEPT ![LockOf(at[c])] = <<c, at[c]>>] /\ at[c] \in Locking
      /\ UNCHANGED <<host, up, volume, active, lost, at, req, seen, answer, volumes, skins, quiet>>
  BY DEF Acquire, callVars
<1>2. LockOf(at[c]) \in Lock
  BY DEF LockOf, Lock
<1>3. TypeOK'
  <2>1. lock' \in [Lock -> (Caller \X Locking) \cup {NoCaller}]
    BY <1>1, <1>2 DEF IInv, TypeOK
  <2> HIDE DEF IpcRequest, IpcResponse
  <2> QED
    BY <1>1, <2>1 DEF IInv, TypeOK
<1>4. ASSUME NEW d \in Caller PROVE CallOf(d)'
  <2>1. CallOf(d)
    BY DEF IInv
  <2> QED
    BY <1>1, <2>1, Bystander DEF CallOf
<1> QED
  BY <1>1, <1>3, <1>4 DEF IInv, HistoryTypes

(* What every step under a lock has in common: it gives the lock up. *)
LEMMA Released ==
    ASSUME TypeOK, NEW c \in Caller, at[c] \in Locking, Release(c)
    PROVE  lock' \in [Lock -> (Caller \X Locking) \cup {NoCaller}]
BY DEF Release, TypeOK

(* A step of a call that writes nothing. *)
LEMMA ReaderKeeps ==
    ASSUME IInv, NEW c \in Caller, at[c] # "idle", NEW phase \in Phase \ {"idle"},
           NEW a \in IpcResponse \cup {NoAnswer}, NEW s \in Skin \cup {NoSkin},
           a # NoAnswer <=> phase = "answered",
           at' = [at EXCEPT ![c] = phase], answer' = [answer EXCEPT ![c] = a], seen' = [seen EXCEPT ![c] = s],
           lock' \in [Lock -> (Caller \X Locking) \cup {NoCaller}],
           UNCHANGED <<host, up, volume, active, lost, req, volumes, skins, quiet>>,
           CallOf(c)'
    PROVE  IInv'
<1>1. TypeOK'
  <2> HIDE DEF IpcRequest, IpcResponse
  <2> QED
    BY DEF IInv, TypeOK
<1>2. HistoryTypes'
  BY DEF IInv, HistoryTypes
<1>3. ASSUME NEW d \in Caller, d # c PROVE CallOf(d)'
  <2>1. CallOf(d)
    BY DEF IInv
  <2>2. at'[d] = at[d] /\ answer'[d] = answer[d] /\ seen'[d] = seen[d]
    BY <1>3 DEF IInv, TypeOK
  <2>3. /\ at[d] \in VolumePhase => volume' \in volumes'[d]
        /\ at[d] \in SkinPhase => active' \in skins'[d]
    BY <2>1 DEF CallOf
  <2> QED
    BY <2>1, <2>2, <2>3, Bystander
<1> QED
  BY <1>1, <1>2, <1>3 DEF IInv

LEMMA ReadVolumeKeeps == ASSUME IInv, NEW c \in Caller, ReadVolume(c) PROVE IInv'
<1> DEFINE o == IF req[c].op = "set_volume" THEN "set_volume" ELSE "status"
           a == [op |-> o, volume |-> volume]
<1>1. /\ at[c] = "read_volume" /\ Release(c) /\ at' = [at EXCEPT ![c] = "answered"]
      /\ answer' = [answer EXCEPT ![c] = a]
      /\ UNCHANGED <<host, up, volume, active, lost, req, seen, volumes, skins, quiet>>
  BY DEF ReadVolume, Holds, Answer
<1>2. a \in IpcResponse /\ a.op = o /\ a.volume = volume /\ a # NoAnswer
  <2>1. volume \in Volume
    BY DEF IInv, TypeOK
  <2> QED
    BY <2>1, Responses, AnswerAssumption DEF IpcResponse, PlaybackResponse
<1> HIDE DEF a
<1>3. at'[c] = "answered" /\ answer'[c] = a /\ seen' = [seen EXCEPT ![c] = seen[c]]
  BY <1>1 DEF IInv, TypeOK
<1>4. CallOf(c) /\ seen[c] \in Skin \cup {NoSkin}
  BY DEF IInv, TypeOK
<1>5. /\ up /\ volume \in volumes[c]
      /\ req[c].op = "set_volume" => Clamp(req[c].volume) \in volumes[c] /\ (quiet[c] => volume = Clamp(req[c].volume))
  BY <1>1, <1>4 DEF CallOf, VolumePhase
<1>6. CurrentAt(c)' /\ EffectiveAt(c)'
  BY <1>1, <1>2, <1>3, <1>5 DEF CurrentAt, EffectiveAt, Answered
<1>7. CallOf(c)'
  BY <1>1, <1>3, <1>5, <1>6 DEF CallOf, VolumePhase, SkinPhase, SkinFile
<1>8. lock' \in [Lock -> (Caller \X Locking) \cup {NoCaller}]
  BY <1>1, Released DEF IInv, Locking
<1> QED
  BY <1>1, <1>2, <1>3, <1>4, <1>7, <1>8, ReaderKeeps DEF Phase

LEMMA ReadSkinKeeps == ASSUME IInv, NEW c \in Caller, ReadSkin(c) PROVE IInv'
<1>1. /\ at[c] = "read_skin" /\ Release(c) /\ seen' = [seen EXCEPT ![c] = active]
      /\ UNCHANGED <<host, up, volume, active, lost, req, volumes, skins, quiet>>
      /\ \/ req[c].op = "list_installed" /\ Answer(c, SkinInfoList(active))
         \/ req[c].op = "active" /\ Answer(c, [op |-> "active", id |-> active])
         \/ req[c].op = "set_active" /\ req[c].id \in Skin /\ GoTo(c, "write_skin")
         \/ req[c].op = "set_active" /\ req[c].id \notin Skin /\ Answer(c, [op |-> "set_active", ok |-> FALSE])
         \/ req[c].op = "get_active_css" /\ GoTo(c, "skin.toml")
  BY DEF ReadSkin, Holds
<1>2. CallOf(c) /\ active \in Skin /\ seen'[c] = active
  BY <1>1 DEF IInv, TypeOK
<1>3. up /\ req[c] \in SkinRequest /\ active \in skins[c]
  BY <1>1, <1>2 DEF CallOf, SkinPhase
<1>4. lock' \in [Lock -> (Caller \X Locking) \cup {NoCaller}]
  BY <1>1, Released DEF IInv, Locking
<1>5. ASSUME NEW a \in IpcResponse, Answer(c, a),
             \/ a = SkinInfoList(active)
             \/ a = [op |-> "active", id |-> active]
             \/ a = [op |-> "set_active", ok |-> FALSE] /\ req[c].id \notin Skin
      PROVE  IInv'
  <2>1. /\ at' = [at EXCEPT ![c] = "answered"] /\ answer' = [answer EXCEPT ![c] = a]
        /\ at'[c] = "answered" /\ answer'[c] = a
    BY <1>5 DEF Answer, IInv, TypeOK
  <2>2. /\ a.op \in {"list_installed", "active", "set_active"}
        /\ a.op = "list_installed" => a = SkinInfoList(active)
        /\ a.op = "active" => a.id = active
        /\ a.op = "set_active" => ~a.ok /\ req[c].id \notin Skin
    <3>1. CASE a = SkinInfoList(active)
      BY <3>1 DEF SkinInfoList
    <3>2. CASE a = [op |-> "active", id |-> active]
      BY <3>2
    <3>3. CASE a = [op |-> "set_active", ok |-> FALSE] /\ req[c].id \notin Skin
      <4>1. a.op = "set_active" /\ a.ok = FALSE
        BY <3>3
      <4> QED
        BY <3>3, <4>1
    <3> QED
      BY <1>5, <3>1, <3>2, <3>3
  <2>3. CurrentAt(c)'
    BY <1>1, <1>3, <2>1, <2>2 DEF CurrentAt, Answered, SkinInfoList
  <2>4. EffectiveAt(c)'
    BY <1>1, <2>1, <2>2 DEF EffectiveAt, Answered
  <2>5. CallOf(c)'
    BY <1>1, <1>3, <2>1, <2>3, <2>4 DEF CallOf, VolumePhase, SkinPhase, SkinFile
  <2>6. a # NoAnswer
    BY AnswerAssumption
  <2> QED
    BY <1>1, <1>2, <1>4, <2>1, <2>5, <2>6, ReaderKeeps DEF Phase
<1>6. ASSUME NEW phase \in {"write_skin", "skin.toml"}, GoTo(c, phase),
             phase = "write_skin" => req[c].op = "set_active" /\ req[c].id \in Skin
      PROVE  IInv'
  <2>1. /\ at' = [at EXCEPT ![c] = phase] /\ answer' = [answer EXCEPT ![c] = answer[c]]
        /\ at'[c] = phase /\ answer'[c] = answer[c] /\ answer[c] = NoAnswer
    BY <1>1, <1>6 DEF GoTo, IInv, TypeOK
  <2>2. CallOf(c)'
    BY <1>1, <1>2, <1>3, <1>6, <2>1 DEF CallOf, CurrentAt, EffectiveAt, Answered, VolumePhase, SkinPhase, SkinFile
  <2> QED
    BY <1>1, <1>2, <1>4, <2>1, <2>2, ReaderKeeps DEF Phase, Locking, SkinFile
<1>7. /\ SkinInfoList(active) \in IpcResponse /\ [op |-> "active", id |-> active] \in IpcResponse
      /\ [op |-> "set_active", ok |-> FALSE] \in IpcResponse
  <2>1. 0 \in Volume
    BY DEF Volume, Percent
  <2> QED
    BY <1>2, <2>1, Responses
<1> QED
  BY <1>1, <1>5, <1>6, <1>7

LEMMA LoadFileKeeps == ASSUME IInv, NEW c \in Caller, NEW file \in SkinFile, LoadFile(c, file) PROVE IInv'
<1>1. /\ at[c] = file
      /\ UNCHANGED <<host, up, volume, active, lock, lost, req, seen, volumes, skins, quiet>>
      /\ \/ <<seen[c], file>> \in lost /\ Answer(c, [op |-> "get_active_css", id |-> NoSkin])
         \/ file # "index.html.tmpl" /\ GoTo(c, AfterFile(file))
         \/ Answer(c, SkinPayload(c))
  BY DEF LoadFile
<1>2. CallOf(c) /\ at[c] # "idle" /\ at[c] # "answered" /\ seen' = [seen EXCEPT ![c] = seen[c]]
      /\ lock' \in [Lock -> (Caller \X Locking) \cup {NoCaller}]
  BY <1>1 DEF IInv, TypeOK, SkinFile
<1>3. up /\ req[c] \in SkinRequest /\ active \in skins[c] /\ seen[c] \in skins[c] /\ skins[c] \subseteq Skin
  BY <1>1, <1>2 DEF CallOf, SkinPhase, IInv, HistoryTypes
<1>4. seen[c] \in Skin /\ seen[c] # NoSkin
  BY <1>3, NoneAssumption
<1>5. ASSUME NEW a \in IpcResponse, Answer(c, a),
             \/ a = [op |-> "get_active_css", id |-> NoSkin] /\ <<seen[c], file>> \in lost
             \/ a = SkinPayload(c)
      PROVE  IInv'
  <2>1. /\ at' = [at EXCEPT ![c] = "answered"] /\ answer' = [answer EXCEPT ![c] = a]
        /\ at'[c] = "answered" /\ answer'[c] = a
    BY <1>5 DEF Answer, IInv, TypeOK
  <2>2. /\ a.op = "get_active_css"
        /\ IF a.id = NoSkin THEN <<seen[c], file>> \in lost
           ELSE a.id = seen[c] /\ a.css = seen[c] /\ a.template = seen[c]
    BY <1>4, <1>5 DEF SkinPayload
  <2>3. CurrentAt(c)'
    BY <1>1, <1>3, <2>1, <2>2 DEF CurrentAt, Answered
  <2>4. EffectiveAt(c)'
    BY <2>1, <2>2 DEF EffectiveAt, Answered
  <2>5. CallOf(c)'
    BY <1>1, <1>3, <2>1, <2>3, <2>4 DEF CallOf, VolumePhase, SkinPhase, SkinFile
  <2>6. a # NoAnswer
    BY AnswerAssumption
  <2> QED
    BY <1>1, <1>2, <1>4, <2>1, <2>5, <2>6, ReaderKeeps DEF Phase
<1>6. CASE GoTo(c, AfterFile(file))
  <2>1. /\ at' = [at EXCEPT ![c] = AfterFile(file)] /\ answer' = [answer EXCEPT ![c] = answer[c]]
        /\ at'[c] = AfterFile(file) /\ answer'[c] = answer[c] /\ answer[c] = NoAnswer
    BY <1>1, <1>2, <1>6 DEF GoTo, IInv, TypeOK
  <2>2. AfterFile(file) \in SkinFile
    BY DEF AfterFile, SkinFile
  <2>3. CallOf(c)'
    BY <1>1, <1>3, <2>1, <2>2 DEF CallOf, CurrentAt, EffectiveAt, Answered, VolumePhase, SkinPhase, SkinFile
  <2> QED
    BY <1>1, <1>2, <1>4, <2>1, <2>2, <2>3, ReaderKeeps DEF Phase, Locking, SkinFile
<1>7. [op |-> "get_active_css", id |-> NoSkin] \in IpcResponse /\ SkinPayload(c) \in IpcResponse
  <2>1. 0 \in Volume
    BY DEF Volume, Percent
  <2> QED
    BY <1>4, <2>1, Responses DEF SkinPayload
<1> QED
  BY <1>1, <1>5, <1>6, <1>7

(* The two writes, each noted in the history of every call about the same part
   of the core. *)
LEMMA WriteVolumeKeeps == ASSUME IInv, NEW c \in Caller, WriteVolume(c) PROVE IInv'
<1>1. /\ at[c] = "write_volume" /\ Release(c) /\ volume' = Clamp(req[c].volume)
      /\ volumes' = [d \in Caller |-> IF InProgress(d, PlaybackRequest) THEN volumes[d] \cup {volume'} ELSE volumes[d]]
      /\ quiet' = [d \in Caller |-> d = c \/ (quiet[d] /\ ~InProgress(d, SetVolumeRequest))]
      /\ at' = [at EXCEPT ![c] = "read_volume"]
      /\ UNCHANGED <<host, up, active, lost, req, seen, answer, skins>>
  BY DEF WriteVolume, Holds, NoteVolume, GoTo
<1>2. CallOf(c) /\ up /\ req[c] \in PlaybackRequest /\ req[c] \in SetVolumeRequest /\ answer[c] = NoAnswer
  BY <1>1 DEF IInv, TypeOK, CallOf, VolumePhase
<1>3. volume' \in Volume
  BY <1>1, <1>2, VolumeAsked
<1>4. HistoryTypes'
  BY <1>1, <1>3 DEF IInv, HistoryTypes
<1>5. TypeOK'
  <2>1. lock' \in [Lock -> (Caller \X Locking) \cup {NoCaller}]
    BY <1>1, Released DEF IInv, Locking
  <2>2. quiet' \in [Caller -> BOOLEAN]
    BY <1>1, Zenon
  <2>3. at' \in [Caller -> Phase]
    BY <1>1 DEF IInv, TypeOK, Phase, Locking
  <2>4. \A d \in Caller : /\ at'[d] = "idle" => at[d] = "idle"
                          /\ at'[d] = "answered" <=> at[d] = "answered"
    BY <1>1 DEF IInv, TypeOK
  <2> HIDE DEF IpcRequest, IpcResponse
  <2> QED
    BY <1>1, <1>3, <1>4, <2>1, <2>2, <2>3, <2>4 DEF IInv, TypeOK, HistoryTypes
<1>6. CallOf(c)'
  <2>1. at'[c] = "read_volume" /\ volumes'[c] = volumes[c] \cup {volume'}
    BY <1>1, <1>2 DEF IInv, TypeOK, InProgress
  <2> QED
    BY <1>1, <1>2, <2>1 DEF CallOf, CurrentAt, EffectiveAt, Answered, VolumePhase, SkinPhase, SkinFile
<1>7. ASSUME NEW d \in Caller, d # c PROVE CallOf(d)'
  <2>1. CallOf(d) /\ at'[d] = at[d]
    BY <1>1, <1>7 DEF IInv, TypeOK
  <2>2. volumes[d] \subseteq volumes'[d] /\ (at[d] \in VolumePhase => volume' \in volumes'[d])
    BY <1>1, <2>1 DEF CallOf, InProgress, VolumePhase
  <2>3. at[d] \in SkinPhase => active' \in skins'[d]
    BY <1>1, <2>1 DEF CallOf
  <2>4. quiet'[d] => quiet[d] /\ ~InProgress(d, SetVolumeRequest)
    BY <1>1, <1>7, Zenon
  <2>5. ~InProgress(d, SetVolumeRequest) => ~(at[d] = "read_volume" /\ req[d].op = "set_volume")
    BY <2>1 DEF CallOf, InProgress
  <2> QED
    BY <1>1, <2>1, <2>2, <2>3, <2>4, <2>5, Bystander
<1> QED
  BY <1>4, <1>5, <1>6, <1>7 DEF IInv

LEMMA WriteSkinKeeps == ASSUME IInv, NEW c \in Caller, WriteSkin(c) PROVE IInv'
<1> DEFINE a == [op |-> "set_active", ok |-> TRUE]
<1>1. /\ at[c] = "write_skin" /\ Release(c) /\ active' = req[c].id
      /\ skins' = [d \in Caller |-> IF InProgress(d, SkinRequest) THEN skins[d] \cup {active'} ELSE skins[d]]
      /\ at' = [at EXCEPT ![c] = "answered"] /\ answer' = [answer EXCEPT ![c] = a]
      /\ UNCHANGED <<host, up, volume, lost, req, seen, volumes, quiet>>
  BY DEF WriteSkin, Holds, NoteSkin, Answer
<1>2. CallOf(c) /\ up /\ req[c] \in SkinRequest /\ req[c].id \in Skin
  BY <1>1 DEF IInv, TypeOK, CallOf, SkinPhase
<1>3. a \in IpcResponse /\ a # NoAnswer /\ a.op = "set_active" /\ a.ok
  <2>1. 0 \in Volume /\ TRUE \in BOOLEAN
    BY DEF Volume, Percent
  <2>2. a \in IpcResponse
    BY <1>2, <2>1, Responses
  <2> QED
    BY <2>2, AnswerAssumption
<1> HIDE DEF a
<1>4. HistoryTypes'
  BY <1>1, <1>2 DEF IInv, HistoryTypes
<1>5. TypeOK'
  <2>1. lock' \in [Lock -> (Caller \X Locking) \cup {NoCaller}]
    BY <1>1, Released DEF IInv, Locking
  <2>2. at' \in [Caller -> Phase]
    BY <1>1 DEF IInv, TypeOK, Phase, Locking
  <2> HIDE DEF IpcRequest, IpcResponse
  <2> QED
    BY <1>1, <1>2, <1>3, <1>4, <2>1, <2>2 DEF IInv, TypeOK, HistoryTypes
<1>6. CallOf(c)'
  <2>1. at'[c] = "answered" /\ answer'[c] = a /\ req'[c].id \in skins'[c]
    BY <1>1, <1>2 DEF IInv, TypeOK, InProgress
  <2>2. CurrentAt(c)' /\ EffectiveAt(c)'
    BY <1>3, <2>1 DEF CurrentAt, EffectiveAt, Answered
  <2> QED
    BY <1>1, <1>2, <2>1, <2>2 DEF CallOf, VolumePhase, SkinPhase, SkinFile
<1>7. ASSUME NEW d \in Caller, d # c PROVE CallOf(d)'
  <2>1. CallOf(d) /\ at'[d] = at[d] /\ answer'[d] = answer[d]
    BY <1>1, <1>7 DEF IInv, TypeOK
  <2>2. skins[d] \subseteq skins'[d] /\ (at[d] \in SkinPhase => active' \in skins'[d])
    BY <1>1, <2>1 DEF CallOf, InProgress, SkinPhase, SkinFile
  <2>3. at[d] \in VolumePhase => volume' \in volumes'[d]
    BY <1>1, <2>1 DEF CallOf
  <2> QED
    BY <1>1, <2>1, <2>2, <2>3, Bystander
<1> QED
  BY <1>4, <1>5, <1>6, <1>7 DEF IInv

(* Calls that are over, and the core's death, which ends all. *)
LEMMA LeaveKeeps ==
    ASSUME IInv, NEW C \in SUBSET Caller, Leave(C), UNCHANGED <<host, volume, active, lock, lost>>,
           up' \in BOOLEAN, up' # up => C = Caller
    PROVE  IInv'
<1>1. /\ at' = [c \in Caller |-> IF c \in C THEN "idle" ELSE at[c]]
      /\ req' = [c \in Caller |-> IF c \in C THEN NoRequest ELSE req[c]]
      /\ seen' = [c \in Caller |-> IF c \in C THEN NoSkin ELSE seen[c]]
      /\ answer' = [c \in Caller |-> IF c \in C THEN NoAnswer ELSE answer[c]]
      /\ volumes' = [c \in Caller |-> IF c \in C THEN {} ELSE volumes[c]]
      /\ skins' = [c \in Caller |-> IF c \in C THEN {} ELSE skins[c]]
      /\ quiet' = [c \in Caller |-> IF c \in C THEN TRUE ELSE quiet[c]]
  BY DEF Leave
<1>2. HistoryTypes'
  BY <1>1 DEF IInv, HistoryTypes
<1>3. TypeOK'
  <2>1. quiet' \in [Caller -> BOOLEAN]
    BY <1>1, Zenon DEF IInv, TypeOK
  <2>2. /\ at' \in [Caller -> Phase]
        /\ req' \in [Caller -> IpcRequest \cup {NoRequest}]
        /\ seen' \in [Caller -> Skin \cup {NoSkin}]
        /\ answer' \in [Caller -> IpcResponse \cup {NoAnswer}]
    BY <1>1 DEF IInv, TypeOK, Phase
  <2>3. \A c \in Caller : /\ at'[c] = "idle" => req'[c] = NoRequest /\ answer'[c] = NoAnswer
                          /\ answer'[c] # NoAnswer <=> at'[c] = "answered"
    BY <1>1 DEF IInv, TypeOK
  <2>4. \A c \in Caller : volumes'[c] \subseteq Volume /\ skins'[c] \subseteq Skin
    BY <1>2 DEF HistoryTypes
  <2>5. /\ host' \in Host /\ volume' \in Volume /\ active' \in Skin
        /\ lock' \in [Lock -> (Caller \X Locking) \cup {NoCaller}]
        /\ lost' \subseteq Fragile /\ Cardinality(lost') <= MaxLost
    BY DEF IInv, TypeOK
  <2>6. up' \in BOOLEAN /\ quiet' \in [Caller -> BOOLEAN]
    BY <2>1
  <2> QED
    BY <2>2, <2>3, <2>4, <2>5, <2>6, Zenon DEF TypeOK
<1>4. ASSUME NEW d \in Caller PROVE CallOf(d)'
  <2>1. CASE d \in C
    BY <1>1, <2>1 DEF CallOf, CurrentAt, EffectiveAt, Answered, VolumePhase, SkinPhase, SkinFile
  <2>2. CASE d \notin C
    <3>1. CallOf(d) /\ up' = up
      BY <2>2 DEF IInv
    <3>2. /\ at'[d] = at[d] /\ req'[d] = req[d] /\ seen'[d] = seen[d] /\ answer'[d] = answer[d]
          /\ volumes'[d] = volumes[d] /\ skins'[d] = skins[d] /\ quiet'[d] = quiet[d]
      BY <1>1, <2>2
    <3>3. /\ at[d] \in VolumePhase => volume' \in volumes'[d]
          /\ at[d] \in SkinPhase => active' \in skins'[d]
      BY <3>1, <3>2 DEF CallOf
    <3> QED
      BY <3>1, <3>2, <3>3, Bystander
  <2> QED
    BY <2>1, <2>2
<1> QED
  BY <1>2, <1>3, <1>4 DEF IInv

(* A core that starts has no calls. *)
LEMMA RestartKeeps == ASSUME IInv, Restart PROVE IInv'
<1>1. /\ up' = TRUE /\ volume' = 70 /\ active' = Default /\ lock' = [l \in Lock |-> NoCaller]
      /\ UNCHANGED <<host, lost, at, req, seen, answer, volumes, skins, quiet>>
  BY DEF Restart, NewCore, callVars
<1>2. \A c \in Caller : at[c] = "idle"
  BY DEF Restart, IInv, CallOf
<1>3. TypeOK'
  <2>1. volume' \in Volume /\ active' \in Skin
    BY <1>1, SkinAssumption DEF Volume, Percent
  <2>2. up' \in BOOLEAN
    BY <1>1, Zenon
  <2> HIDE DEF IpcRequest, IpcResponse
  <2> QED
    BY <1>1, <2>1, <2>2 DEF IInv, TypeOK
<1>4. ASSUME NEW d \in Caller PROVE CallOf(d)'
  <2>1. at'[d] = "idle"
    BY <1>1, <1>2
  <2> QED
    BY <2>1 DEF CallOf, CurrentAt, EffectiveAt, Answered, VolumePhase, SkinPhase, SkinFile
<1> QED
  BY <1>1, <1>3, <1>4 DEF IInv, HistoryTypes

LEMMA LoseFileKeeps == ASSUME IInv, LoseFile PROVE IInv'
<1>1. /\ UNCHANGED <<host, up, volume, active, lock, at, req, seen, answer, volumes, skins, quiet>>
      /\ Cardinality(lost) < MaxLost
  BY DEF LoseFile, callVars
<1>2. PICK file \in Fragile : lost' = lost \cup {file}
  BY DEF LoseFile
<1>3. IsFiniteSet(lost') /\ lost' \subseteq Fragile /\ Cardinality(lost') <= MaxLost
  <2>1. IsFiniteSet(lost) /\ lost \subseteq Fragile
    BY DEF IInv, TypeOK, HistoryTypes
  <2>2. /\ IsFiniteSet(lost \cup {file})
        /\ Cardinality(lost \cup {file}) = IF file \in lost THEN Cardinality(lost) ELSE Cardinality(lost) + 1
    BY <2>1, FS_AddElement
  <2>3. Cardinality(lost) \in Nat
    BY <2>1, FS_CardinalityType
  <2> QED
    BY <1>1, <1>2, <2>1, <2>2, <2>3, BoundAssumption
<1>4. TypeOK'
  <2> HIDE DEF IpcRequest, IpcResponse
  <2> QED
    BY <1>1, <1>3 DEF IInv, TypeOK
<1>5. ASSUME NEW d \in Caller PROVE CallOf(d)'
  <2>1. CallOf(d)
    BY DEF IInv
  <2> QED
    BY <1>1, <1>2, <2>1, Bystander DEF CallOf
<1> QED
  BY <1>1, <1>3, <1>4, <1>5 DEF IInv, HistoryTypes

LEMMA StepKeeps == IInv /\ [Next]_vars => IInv'
<1> SUFFICES ASSUME IInv, [Next]_vars PROVE IInv'
  OBVIOUS
<1>1. ASSUME NEW c \in Caller, Request(c) \/ Muzonctl(c) PROVE IInv'
  <2>1. up /\ at[c] = "idle" /\ UNCHANGED <<host, up, volume, active, lock, lost>>
    BY <1>1 DEF Request, Muzonctl, MayCall
  <2>2. PICK r \in IpcRequest : Call(c, r)
    BY <1>1 DEF Request, Muzonctl, ShellRequest, CtlRequest
  <2> QED
    BY <2>1, <2>2, CallKeeps
<1>2. ASSUME NEW c \in Caller, Return(c) PROVE IInv'
  <2>1. Leave({c}) /\ UNCHANGED <<host, up, volume, active, lock, lost>>
    BY <1>2 DEF Return
  <2>2. up' \in BOOLEAN
    BY <2>1 DEF IInv, TypeOK
  <2> QED
    BY <2>1, <2>2, LeaveKeeps
<1>3. CASE Die
  <2>1. Leave(Caller) /\ up' = FALSE /\ UNCHANGED <<host, volume, active, lock, lost>>
    BY <1>3 DEF Die
  <2>2. up' \in BOOLEAN
    BY <2>1, Zenon
  <2> QED
    BY <2>1, <2>2, LeaveKeeps
<1>4. ASSUME NEW c \in Caller, Step(c) PROVE IInv'
  BY <1>2, <1>4, WriteVolumeKeeps, ReadVolumeKeeps, ReadSkinKeeps, WriteSkinKeeps, LoadFileKeeps DEF Step
<1>5. CASE UNCHANGED vars
  <2>1. UNCHANGED <<host, up, volume, active, lock, lost, at, req, seen, answer, volumes, skins, quiet>>
    BY <1>5 DEF vars, callVars
  <2>2. TypeOK' /\ HistoryTypes'
    <3> HIDE DEF IpcRequest, IpcResponse
    <3> QED
      BY <2>1 DEF IInv, TypeOK, HistoryTypes
  <2>3. ASSUME NEW d \in Caller PROVE CallOf(d)'
    <3>1. CallOf(d)
      BY DEF IInv
    <3> QED
      BY <2>1, <3>1, Bystander DEF CallOf
  <2> QED
    BY <2>2, <2>3 DEF IInv
<1> QED
  BY <1>1, <1>3, <1>4, <1>5, AcquireKeeps, RestartKeeps, LoseFileKeeps DEF Next

LEMMA Invariant == Spec => []IInv
BY InitHolds, StepKeeps, PTL DEF Spec

-----------------------------------------------------------------------------
(* Requests, answers and the locks stay of their types, and an answer is there
   just when a call is answered.  The volume is within 0 and 100, or NaN where
   NaN may be asked for: that passes the clamp of dispatch_playback. *)
THEOREM TypeCorrect == Spec => []TypeOK
BY Invariant, PTL DEF IInv

(* status(), skin_list() and load_skin: an answer put together at different
   moments says nothing of the core that was not so during the call. *)
THEOREM AnswersAreOfTheirTime == Spec => []AnswersAreCurrent
<1>1. IInv => AnswersAreCurrent
  BY DEF IInv, CallOf, CurrentAt, AnswersAreCurrent
<1> QED
  BY <1>1, Invariant, PTL

(* SetVolume and SetActive: what was answered was in force during the call, and
   a volume that nobody else wrote is the one that is answered. *)
THEOREM SettingsTookEffect == Spec => []SettingsTakeEffect
<1>1. IInv => SettingsTakeEffect
  BY DEF IInv, CallOf, EffectiveAt, SettingsTakeEffect
<1> QED
  BY <1>1, Invariant, PTL
=============================================================================
