------------------------------- MODULE Queue -------------------------------
(***************************************************************************)
(* The playback queue of muzon-audio (crates/muzon-audio/src/queue.rs):    *)
(* three lists shown to the user as one (history, current, up_next), a     *)
(* shadow list of the upcoming tracks in unshuffled order, the repeat mode *)
(* and the shuffle switch.  Every public method of `Queue` that changes    *)
(* the queue is one action.                                                *)
(*                                                                         *)
(* Tracks are opaque: no method looks inside a TrackRef, and the same      *)
(* track may be queued more than once.  The seeded pseudo-random shuffle   *)
(* is a choice among all reorderings of the upcoming tracks.               *)
(***************************************************************************)
EXTENDS Integers, SequencesExt

CONSTANTS
    Track,        \* the tracks a caller may enqueue
    NoTrack,      \* `None` in the `current` slot
    Ops,          \* the operations this queue's client uses
    MaxEntries    \* bound of the model: entries the queue may hold

AllOps == {"enqueue", "enqueue_next", "remove", "move_item", "clear", "next",
           "prev", "shuffle_on", "shuffle_off", "set_repeat"}

ASSUME TrackAssumption == NoTrack \notin Track
ASSUME OpsAssumption == Ops \subseteq AllOps
ASSUME BoundAssumption == MaxEntries \in Nat

VARIABLES
    history,         \* tracks already played, oldest first
    current,         \* the now-playing track, or NoTrack
    up_next,         \* tracks to play after the current one
    original_order,  \* `up_next` in the order it was enqueued
    mode,            \* RepeatMode
    shuffle          \* shuffle on or off

vars == <<history, current, up_next, original_order, mode, shuffle>>

RepeatMode == {"off", "one", "all"}

TypeOK ==
    /\ history \in Seq(Track)
    /\ current \in Track \cup {NoTrack}
    /\ up_next \in Seq(Track)
    /\ original_order \in Seq(Track)
    /\ mode \in RepeatMode
    /\ shuffle \in BOOLEAN

-----------------------------------------------------------------------------
(* The snapshot view: what the IPC layer and every position argument see. *)

CurrentEntry == IF current = NoTrack THEN <<>> ELSE <<current>>

Snapshot == history \o CurrentEntry \o up_next

QueueLen == Len(history) + Len(CurrentEntry) + Len(up_next)

(* Positions a client may send: 0-based, one past the longest queue too. *)
Position == 0 .. MaxEntries

(* Every order in which a seeded Fisher-Yates shuffle may leave s. *)
Reorderings(s) ==
    { [i \in DOMAIN s |-> s[p[i]]] : p \in Bijection(DOMAIN s, DOMAIN s) }

-----------------------------------------------------------------------------
Init ==
    /\ history = <<>>
    /\ current = NoTrack
    /\ up_next = <<>>
    /\ original_order = <<>>
    /\ mode = "off"
    /\ shuffle = FALSE

(* Mutation of Enqueue: the shadow list is extended at the wrong end. *)
EnqueueShadowFirst(t) ==
    /\ QueueLen < MaxEntries
    /\ up_next' = Append(up_next, t)
    /\ original_order' = <<t>> \o original_order
    /\ UNCHANGED <<history, current, mode, shuffle>>

Enqueue(t) ==
    /\ QueueLen < MaxEntries
    /\ up_next' = Append(up_next, t)
    /\ original_order' = Append(original_order, t)
    /\ UNCHANGED <<history, current, mode, shuffle>>

EnqueueNext(t) ==
    /\ QueueLen < MaxEntries
    /\ up_next' = <<t>> \o up_next
    /\ original_order' = <<t>> \o original_order
    /\ UNCHANGED <<history, current, mode, shuffle>>

-----------------------------------------------------------------------------
(* remove: a 0-based snapshot position falls in one of the three lists. *)

RemoveFromHistory(position) ==
    /\ position < Len(history)
    /\ history' = RemoveAt(history, position + 1)
    /\ UNCHANGED <<current, up_next, original_order>>

RemoveCurrent(position) ==
    /\ position = Len(history)
    /\ current # NoTrack
    /\ current' = NoTrack
    /\ UNCHANGED <<history, up_next, original_order>>

(* The index into up_next is used on original_order as well, whatever order
   the two lists are in. *)
RemoveUpcoming(position) ==
    LET i == position - Len(history) - Len(CurrentEntry) + 1
    IN  /\ i \in 1 .. Len(up_next)
        /\ original_order' = IF i <= Len(original_order)
                             THEN RemoveAt(original_order, i)
                             ELSE original_order
        /\ up_next' = RemoveAt(up_next, i)
        /\ UNCHANGED <<history, current>>

RemoveEntry(position) ==
    /\ \/ RemoveFromHistory(position)
       \/ RemoveCurrent(position)
       \/ RemoveUpcoming(position)
       \/ position >= QueueLen /\ UNCHANGED <<history, current, up_next, original_order>>
    /\ UNCHANGED <<mode, shuffle>>

(* Mutation of MoveItem: the destination is not adjusted for the removal, so
   an entry moved forward lands one place late. *)
MoveItemLate(from, to) ==
    LET h    == Len(history)
        c    == Len(CurrentEntry)
        flat == RemoveAt(InsertAt(Snapshot, to + 1, Snapshot[from + 1]), from + 1)
    IN  /\ from < QueueLen /\ to < QueueLen /\ from # to
        /\ history' = SubSeq(flat, 1, h)
        /\ current' = IF c = 1 THEN flat[h + 1] ELSE NoTrack
        /\ up_next' = SubSeq(flat, h + c + 1, Len(flat))
        /\ UNCHANGED <<original_order, mode, shuffle>>

(* The three lists are flattened, spliced and cut again at the same places;
   original_order keeps its old contents. *)
MoveItem(from, to) ==
    LET h    == Len(history)
        c    == Len(CurrentEntry)
        flat == InsertAt(RemoveAt(Snapshot, from + 1), to + 1, Snapshot[from + 1])
    IN  /\ from < QueueLen /\ to < QueueLen /\ from # to
        /\ history' = SubSeq(flat, 1, h)
        /\ current' = IF c = 1 THEN flat[h + 1] ELSE NoTrack
        /\ up_next' = SubSeq(flat, h + c + 1, Len(flat))
        /\ UNCHANGED <<original_order, mode, shuffle>>

Clear ==
    /\ history' = <<>>
    /\ current' = NoTrack
    /\ up_next' = <<>>
    /\ original_order' = <<>>
    /\ UNCHANGED <<mode, shuffle>>

-----------------------------------------------------------------------------
(* next and prev.  The value they return is the new `current`. *)

(* Repeat-one answers both buttons with the current track. *)
Repeating == mode = "one" /\ current # NoTrack

(* Mutation of PlayUpcoming: the pop is not mirrored in the shadow list. *)
PlayUpcomingUnmirrored ==
    /\ up_next # <<>>
    /\ history' = history \o CurrentEntry
    /\ current' = Head(up_next)
    /\ up_next' = Tail(up_next)
    /\ UNCHANGED original_order

(* Case 1: the current track is history and the next one is popped off both
   lists. *)
PlayUpcoming ==
    /\ up_next # <<>>
    /\ history' = history \o CurrentEntry
    /\ current' = Head(up_next)
    /\ up_next' = Tail(up_next)
    /\ original_order' = IF original_order = <<>> THEN <<>> ELSE Tail(original_order)

(* Mutation of LoopAround: the current track is taken and not put back. *)
LoopAroundDropping ==
    /\ up_next = <<>> /\ mode = "all" /\ history # <<>>
    /\ history' = <<>>
    /\ current' = Head(history)
    /\ up_next' = Tail(history)
    /\ original_order' = Tail(history)

(* Mutation of LoopAround: the loop comes back to the second track. *)
LoopAroundToSecond ==
    LET played == history \o CurrentEntry
    IN  /\ up_next = <<>> /\ mode = "all" /\ Len(played) > 1
        /\ history' = <<played[1]>>
        /\ current' = played[2]
        /\ up_next' = Tail(Tail(played))
        /\ original_order' = Tail(Tail(played))

(* Case 2: nothing is upcoming and repeat-all starts over from history. *)
LoopAround ==
    LET played == history \o CurrentEntry
    IN  /\ up_next = <<>> /\ mode = "all" /\ played # <<>>
        /\ history' = <<>>
        /\ current' = Head(played)
        /\ up_next' = Tail(played)
        /\ original_order' = Tail(played)

(* Case 3: nothing left to play. *)
Exhaust ==
    /\ up_next = <<>>
    /\ ~ (mode = "all" /\ history \o CurrentEntry # <<>>)
    /\ history' = history \o CurrentEntry
    /\ current' = NoTrack
    /\ UNCHANGED <<up_next, original_order>>

NextTrack ==
    /\ \/ Repeating /\ UNCHANGED <<history, current, up_next, original_order>>
       \/ ~Repeating /\ (PlayUpcoming \/ LoopAround \/ Exhaust)
    /\ UNCHANGED <<mode, shuffle>>

(* The popped track goes to the front of both lists and becomes current, and
   the old current track is put before it. *)
StepBack ==
    LET t == Last(history)
    IN  /\ history # <<>>
        /\ QueueLen < MaxEntries
        /\ history' = Front(history)
        /\ current' = t
        /\ up_next' = CurrentEntry \o <<t>> \o up_next
        /\ original_order' = <<t>> \o original_order

(* With no history the current slot is emptied. *)
StepBackNowhere ==
    /\ history = <<>>
    /\ current' = NoTrack
    /\ UNCHANGED <<history, up_next, original_order>>

PrevTrack ==
    /\ \/ Repeating /\ UNCHANGED <<history, current, up_next, original_order>>
       \/ ~Repeating /\ (StepBack \/ StepBackNowhere)
    /\ UNCHANGED <<mode, shuffle>>

-----------------------------------------------------------------------------
SetShuffle(on) ==
    /\ shuffle' = on
    /\ \/ on = shuffle /\ UNCHANGED up_next
       \/ on /\ ~shuffle /\ up_next' \in Reorderings(up_next)
       \/ ~on /\ shuffle /\ up_next' = original_order
    /\ UNCHANGED <<history, current, original_order, mode>>

SetRepeat(m) ==
    /\ mode' = m
    /\ UNCHANGED <<history, current, up_next, original_order, shuffle>>

Next ==
    \/ "enqueue" \in Ops /\ \E t \in Track : Enqueue(t)
    \/ "enqueue_next" \in Ops /\ \E t \in Track : EnqueueNext(t)
    \/ "remove" \in Ops /\ \E p \in Position : RemoveEntry(p)
    \/ "move_item" \in Ops /\ \E from, to \in Position : MoveItem(from, to)
    \/ "clear" \in Ops /\ Clear
    \/ "next" \in Ops /\ NextTrack
    \/ "prev" \in Ops /\ PrevTrack
    \/ "shuffle_on" \in Ops /\ SetShuffle(TRUE)
    \/ "shuffle_off" \in Ops /\ SetShuffle(FALSE)
    \/ "set_repeat" \in Ops /\ \E m \in RepeatMode : SetRepeat(m)

Spec == Init /\ [][Next]_vars

-----------------------------------------------------------------------------
(* Properties *)

(* The shadow list never outgrows the upcoming list, so that switching
   shuffle off can drop upcoming entries but never adds one, and an index of
   up_next past the shadow's end is the only one `remove` has to skip.
   (remove's bound test, next's and prev's mirrored pops and pushes.) *)
ShadowNeverLonger == Len(original_order) <= Len(up_next)

(* While shuffle is off the shadow list is the upcoming list itself, which is
   what the index reuse in `remove` and the pop in `next` rely on.  True for
   a client that calls neither `prev` nor `move_item`. *)
InOrderShadow == ~shuffle => original_order = up_next

(* Only `prev` and `move_item` put the two lists out of step: every other
   operation, a shuffle switched on and off around any number of removals and
   nexts included, leaves InOrderShadow as true as it found it. *)
InOrderKept ==
    [][ InOrderShadow => \/ InOrderShadow'
                         \/ PrevTrack
                         \/ \E from, to \in Position : MoveItem(from, to) ]_vars

(* Whatever the repeat and shuffle settings, `next` only moves the boundary
   between played, playing and upcoming: the list the client sees keeps its
   entries in their order. *)
NextKeepsSnapshot == [][NextTrack => Snapshot' = Snapshot]_vars

(* How often each track occurs in s. *)
Entries(s) == [t \in Track |-> Cardinality({i \in DOMAIN s : s[i] = t})]

(* The queue loses or duplicates an entry only when asked to: a step that is
   not one of `enqueue`, `enqueue_next`, `remove` and `clear` keeps the bag of
   queued tracks, in every state the client can bring the queue to.  `prev`,
   which puts the track it goes back to into up_next as well as into current,
   and shuffle-off, which restores a shadow list that may have other entries
   (`next` under shuffle takes the first of it, not the track that is played),
   are excepted. *)
EntriesConserved ==
    [][ \/ Entries(Snapshot') = Entries(Snapshot)
        \/ \E t \in Track : Enqueue(t) \/ EnqueueNext(t)
        \/ \E p \in Position : RemoveEntry(p)
        \/ Clear
        \/ PrevTrack
        \/ SetShuffle(FALSE) ]_vars

(* After any use of the queue, a listener who from then on does nothing but ask
   for the next track in repeat-all mode hears every queued track again and
   again.  (The listener's part is the assumption of the formula, in which only a
   press that changes the queue counts; tracks enqueued for ever would keep
   the queue from looping around.) *)
RepeatAllPlaysEverything ==
    ([]<><<NextTrack>>_vars /\ <>[][NextTrack]_vars /\ <>[](mode = "all")) =>
        \A t \in Track : []<>(t \in Range(Snapshot)) => []<>(current = t)
=============================================================================
