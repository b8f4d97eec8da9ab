------------------------------ MODULE Duplicates ------------------------------
(***************************************************************************)
(* The duplicate finder (crates/muzon-library/src/duplicates.rs).  A list  *)
(* of tracks is grouped by three keys, one after the other; within a group *)
(* the ids are in the order of the list, the groups of a strategy are in   *)
(* no order (a HashMap's).  "" is a field that is empty.                   *)
(***************************************************************************)
EXTENDS Integers, Sequences, SequencesExt

(* The ids of those tracks of the list that are in S, as they are pushed. *)
Pushed(tracks, S) ==
    LET ids[i \in 0 .. Len(tracks)] ==
            IF i = 0 THEN <<>>
            ELSE IF tracks[i] \in S THEN Append(ids[i - 1], tracks[i].id) ELSE ids[i - 1]
    IN  ids[Len(tracks)]

(* key is a function on the tracks that have one: those with the same key are a
   group if they are two at least. *)
GroupsBy(tracks, key) ==
    LET IdsOf(value) == Pushed(tracks, {t \in DOMAIN key : key[t] = value})
    IN  {IdsOf(value) : value \in {v \in Range(key) : Len(IdsOf(v)) >= 2}}

DuplicateGroup(strategy, groups) == {[strategy |-> strategy, track_ids |-> g] : g \in groups}

ToleranceMs == 2000

(* Mutation: only neighbours are compared. *)
SameDurationPairwise(tracks, ids) ==
    LET near == SelectSeq(tracks, LAMBDA t : t.id \in ToSet(ids))
        Apart(x, y) == IF x > y THEN x - y ELSE y - x
    IN  \A i \in 1 .. Len(near) - 1 : Apart(near[i].duration_ms, near[i + 1].duration_ms) <= ToleranceMs

(* One track too far from the others and the whole group is none. *)
SameDuration(tracks, ids) ==
    LET durations == {t.duration_ms : t \in {u \in ToSet(tracks) : u.id \in ToSet(ids)}}
    IN  \A x, y \in durations : x - y <= ToleranceMs

ByFingerprint(tracks) ==
    GroupsBy(tracks, [t \in {u \in ToSet(tracks) : u.fingerprint # ""} |-> t.fingerprint])

ByMetadata(tracks) ==
    {g \in GroupsBy(tracks, [t \in {u \in ToSet(tracks) : u.title # "" /\ u.artist # ""} |->
                               <<t.title, t.artist, t.album>>]) : SameDuration(tracks, g)}

ByContent(tracks) ==
    GroupsBy(tracks, [t \in {u \in ToSet(tracks) : u.size_bytes > 0} |-> <<t.size_bytes, t.mtime>>])

FindDuplicates(tracks) ==
    DuplicateGroup("fingerprint_exact", ByFingerprint(tracks))
    \cup DuplicateGroup("metadata_duration", ByMetadata(tracks))
    \cup DuplicateGroup("content_hash", ByContent(tracks))
=============================================================================
