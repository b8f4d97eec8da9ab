---------------------------- MODULE LibraryAnswers ----------------------------
(***************************************************************************)
(* What the duplicate finder (Duplicates) and the recommendations          *)
(* (Recommend) of the library promise, for any list they are asked about.  *)
(***************************************************************************)
EXTENDS Duplicates, Recommend, Asking

CONSTANTS
    TrackLists,   \* lists of tracks to find the duplicates of
    Searches,     \* an index of embeddings, a query and a number of matches
    Maps          \* tracks and the size of a cluster, for a mood map

(* The tracks of a list are rows of the library: each has an id of its own. *)
IsTrackList(tracks) ==
    /\ tracks \in Seq(Range(tracks))
    /\ \A i, j \in DOMAIN tracks : i # j => tracks[i].id # tracks[j].id
    /\ \A t \in Range(tracks) : t.duration_ms \in Nat /\ t.size_bytes \in Int

IsSearch(s) ==
    /\ s.vectors \in Seq(Range(s.vectors)) /\ \A v \in Range(s.vectors) : v.vector \in Seq(F32)
    /\ s.query \in Seq(F32) /\ s.k \in Nat

IsMap(m) == m.ids \in Seq(Range(m.ids)) /\ m.size \in Nat

ASSUME TrackListsAssumption == \A tracks \in TrackLists : IsTrackList(tracks)
ASSUME SearchesAssumption == \A s \in Searches : IsSearch(s)
ASSUME MapsAssumption == \A m \in Maps : IsMap(m)

RunDuplicates == Compute("duplicates", FindDuplicates(input))
RunTopK == Compute("topk", CosineTopK(input.vectors, input.query, input.k))
RunMoodMap == Compute("mood", MoodMap(input.ids, input.size))

LibraryInit == Asked("duplicates", TrackLists) \/ Asked("topk", Searches) \/ Asked("mood", Maps)
LibraryNext == RunDuplicates \/ RunTopK \/ RunMoodMap
LibrarySpec == LibraryInit /\ [][LibraryNext]_asking

-----------------------------------------------------------------------------
(* Duplicates *)

Near(x, y) == x.duration_ms - y.duration_ms \in -2000 .. 2000
SameMetadata(x, y) == x.title = y.title /\ x.artist = y.artist /\ x.album = y.album

Alike(strategy, x, y) ==
    \/ strategy = "fingerprint_exact" /\ x.fingerprint = y.fingerprint /\ x.fingerprint # ""
    \/ strategy = "metadata_duration" /\ SameMetadata(x, y) /\ x.title # "" /\ x.artist # "" /\ Near(x, y)
    \/ strategy = "content_hash" /\ x.size_bytes = y.size_bytes /\ x.mtime = y.mtime /\ x.size_bytes > 0
Strategies == {"fingerprint_exact", "metadata_duration", "content_hash"}

(* A group lists two tracks at least, each once, any two of which are duplicates
   of each other by its strategy and not only of a third one, and no track is in
   two groups of one strategy. *)
GroupsAreDuplicates ==
    Done("duplicates") =>
        /\ \A g \in answer :
              /\ Cardinality(Range(g.track_ids)) = Len(g.track_ids) /\ Len(g.track_ids) >= 2
              /\ Range(g.track_ids) \subseteq {t.id : t \in Range(input)}
              /\ \A x, y \in Range(input) :
                    x.id # y.id /\ {x.id, y.id} \subseteq Range(g.track_ids) => Alike(g.strategy, x, y)
        /\ \A g, h \in answer :
              g # h /\ g.strategy = h.strategy => Range(g.track_ids) \cap Range(h.track_ids) = {}

(* Two tracks that are duplicates are in a group together; those of the same
   metadata and length unless the tracks of that metadata are too far apart. *)
DuplicatesAreGrouped ==
    Done("duplicates") =>
        \A strategy \in Strategies, x, y \in Range(input) :
            x.id # y.id /\ Alike(strategy, x, y) =>
                \/ \E g \in answer : g.strategy = strategy /\ {x.id, y.id} \subseteq Range(g.track_ids)
                \/ /\ strategy = "metadata_duration"
                   /\ \E v, w \in Range(input) : SameMetadata(v, x) /\ SameMetadata(w, x) /\ ~Near(v, w)

(* The groups are the duplicates: no pair too many, and only those pairs too few
   that a chain of tracks cannot decide. *)
GroupsAreTheDuplicates == GroupsAreDuplicates /\ DuplicatesAreGrouped

-----------------------------------------------------------------------------
(* Recommendations *)

(* The list is as long as it may be and lists places of the index with their
   scores, each once and highest first; no match that is left out has a higher
   score than one in the list.  It is the scores as they are computed that
   count, whatever the rounding made of them; one that is no number is never
   listed. *)
TopKAreTheBest ==
    Done("topk") =>
        LET matches == Matching(input.vectors, input.query)
            Nearer(i, j) == Closer(input.query, input.vectors[i].vector, input.vectors[j].vector)
        IN  /\ Len(answer) = Shorter(input.k, Cardinality(matches))
            /\ \E place \in [DOMAIN answer -> matches] :
                  /\ \A r \in DOMAIN answer : answer[r] = Scored(input.query, input.vectors[place[r]])
                  /\ \A r, q \in DOMAIN answer : r < q => place[r] # place[q] /\ ~Nearer(place[q], place[r])
                  /\ \A i \in matches \ Range(place), r \in DOMAIN answer : ~Nearer(i, place[r])

(* The clusters are numbered from 0 without a gap, no track is without one, and
   only the last may be smaller than asked for. *)
ClustersAreFull ==
    Done("mood") =>
        LET size == IF input.size = 0 THEN 1 ELSE input.size
            Members(c) == {i \in DOMAIN answer.points : answer.points[i].cluster_id = c}
        IN  /\ [i \in DOMAIN answer.points |-> answer.points[i].track_id] = input.ids
            /\ UNION {Members(c) : c \in 0 .. answer.cluster_count - 1} = DOMAIN answer.points
            /\ \A c \in 0 .. answer.cluster_count - 1 : Cardinality(Members(c)) \in 1 .. size
            /\ \A c \in 0 .. answer.cluster_count - 2 : Cardinality(Members(c)) = size

(* What is recommended is the best there is by its score, and every track is on the map. *)
RecommendsTheBest == TopKAreTheBest /\ ClustersAreFull
=============================================================================
