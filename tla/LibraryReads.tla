----------------------------- MODULE LibraryReads -----------------------------
(***************************************************************************)
(* What muzon-library answers from its database while the scanner writes   *)
(* to it: search.rs, playback_log.rs, the reads of schema.rs, and the      *)
(* tables, triggers and foreign keys of migrations/ they depend on.        *)
(*                                                                         *)
(* No read is a transaction: a search is a query for row ids and then a    *)
(* query for each of them, an overview is eleven queries.  A query is      *)
(* atomic and sees what was committed before it (db.rs opens the database  *)
(* in WAL mode); any of them may fail.                                     *)
(*                                                                         *)
(* A path stands for the words in it, and so does a title; a query is one  *)
(* word.  The ranking of the matches is not modelled: any of them may be   *)
(* the best.  Nothing in the code writes play_count, last_played_at or     *)
(* the tables albums, artists and genres, so that what counts them is 0.   *)
(***************************************************************************)
EXTENDS Integers, FiniteSets, FiniteSetsExt, Sequences

CONSTANTS
    Path,
    Codec,       \* codec_from_path: a function from paths to codecs
    Title,
    Caller,      \* readers that may be at work at the same time
    Limit,       \* of a search
    NoRow, NoTitle, NoValue,
    MaxId,       \* bound of the model: rows ever inserted
    MaxWrites,   \* bound of the model: writes to the database
    MaxPlays     \* bound of the model: plays of a track recorded in a day

ASSUME CodecAssumption == DOMAIN Codec = Path
ASSUME LimitAssumption == Limit \in Nat \ {0}
ASSUME BoundAssumption == MaxId \in Nat /\ MaxWrites \in Nat /\ MaxPlays \in Nat

Id == 1 .. MaxId
Row == [path : Path, title : Title \cup {NoTitle}]
Table == [Id -> Row \cup {NoRow}]

ASSUME NoneAssumption == NoTitle \notin Title /\ NoRow \notin Row

VARIABLES
    tracks, fts,   \* the tables `tracks` and `tracks_fts`
    seq,           \* the largest id ever given (sqlite_sequence)
    log,           \* playback_log: how often each track was played today
    writes,        \* how much of MaxWrites is used
    op, at,        \* what each caller asks for, and where it is
    word, hits,    \* a search: its word, and the row ids it has yet to read
    queries,       \* an overview: the queries it has yet to make
    result,        \* what it has read so far: of rows, or of counts
    matched,       \* history of a search: the rows that matched
    during         \* history of a call: the states `tracks` had during it

db == <<tracks, fts, seq, log, writes>>
calls == <<op, at, word, hits, queries, result, matched, during>>
vars == <<db, calls>>

(* The queries of tree_counts, of all_facets and of today_stats, in order. *)
TreeQueries == <<"all_music", "albums", "artists", "genres", "recently_added", "recently_played",
                 "favorites">>
FacetQueries == <<"facet_genres", "facet_years", "facet_formats">>
QueriesOf(o) ==
    CASE o = "tree_counts" -> TreeQueries
      [] o = "all_facets" -> FacetQueries
      [] o = "overview" -> TreeQueries \o FacetQueries \o <<"today">>
      [] OTHER -> <<>>

Operation == {"search", "fts", "tree_counts", "all_facets", "overview"}
Live(t) == {i \in Id : t[i] # NoRow}

TypeOK ==
    /\ tracks \in Table /\ fts \in Table
    /\ seq \in 0 .. MaxId
    /\ log \in [Id -> 0 .. MaxPlays]
    /\ writes \in 0 .. MaxWrites
    /\ op \in [Caller -> Operation \cup {"none"}]
    /\ at \in [Caller -> {"idle", "match", "rows", "count", "answered", "failed"}]
    /\ word \in [Caller -> Path \cup Title \cup {NoTitle}]
    /\ \A c \in Caller : hits[c] \subseteq Id /\ DOMAIN matched[c] \subseteq Id /\ during[c] \subseteq Table
    /\ \A i \in Id : (tracks[i] = NoRow <=> fts[i] = NoRow) /\ (i > seq => tracks[i] = NoRow)
    /\ \A i \in Live(tracks) : fts[i].path = tracks[i].path

Nothing == [i \in {} |-> NoValue]

Init ==
    /\ tracks = [i \in Id |-> NoRow] /\ fts = tracks
    /\ seq = 0 /\ writes = 0
    /\ log = [i \in Id |-> 0]
    /\ op = [c \in Caller |-> "none"]
    /\ at = [c \in Caller |-> "idle"]
    /\ word = [c \in Caller |-> NoTitle]
    /\ hits = [c \in Caller |-> {}]
    /\ queries = [c \in Caller |-> <<>>]
    /\ result = [c \in Caller |-> Nothing]
    /\ matched = [c \in Caller |-> Nothing]
    /\ during = [c \in Caller |-> {}]

-----------------------------------------------------------------------------
(* Writes.  Each is one statement, with its triggers and cascades. *)

InProgress(c) == at[c] \notin {"idle", "answered", "failed"}
Write ==
    /\ writes < MaxWrites /\ writes' = writes + 1
    /\ during' = [c \in Caller |-> IF InProgress(c) THEN during[c] \cup {tracks'} ELSE during[c]]
    /\ UNCHANGED <<op, at, word, hits, queries, result, matched>>

(* upsert_track_path of a new path; of a known one it changes no column that is
   modelled.  Mutation: ids are given again, as without AUTOINCREMENT. *)
NewIdReused == IF Live(tracks) = Id THEN MaxId + 1 ELSE Min(Id \ Live(tracks))
NewId == seq + 1

UpsertTrackPath(p) ==
    /\ \A i \in Live(tracks) : tracks[i].path # p
    /\ NewId \in Id
    /\ LET row == [path |-> p, title |-> NoTitle]
       IN  tracks' = [tracks EXCEPT ![NewId] = row] /\ fts' = [fts EXCEPT ![NewId] = row]
    /\ seq' = Max({seq, NewId})
    /\ UNCHANGED log
    /\ Write

(* UPDATE tracks SET title, and its trigger. *)
SetTitle(i, t) ==
    /\ i \in Live(tracks) /\ tracks[i].title # t
    /\ tracks' = [tracks EXCEPT ![i].title = t]
    /\ fts' = [fts EXCEPT ![i].title = t]
    /\ UNCHANGED <<seq, log>>
    /\ Write

(* update_fts alone: of a row that is gone it changes nothing. *)
UpdateFts(i, t) ==
    /\ i \in Live(fts) /\ fts[i].title # t
    /\ fts' = [fts EXCEPT ![i].title = t]
    /\ UNCHANGED <<tracks, seq, log>>
    /\ Write

(* DELETE FROM tracks.  Mutation: the log keeps its rows, as without foreign
   keys. *)
CascadedNever(i) == log
Cascaded(i) == [log EXCEPT ![i] = 0]

DeleteTrack(i) ==
    /\ i \in Live(tracks)
    /\ tracks' = [tracks EXCEPT ![i] = NoRow]
    /\ fts' = [fts EXCEPT ![i] = NoRow]
    /\ log' = Cascaded(i)
    /\ UNCHANGED seq
    /\ Write

(* playback_log::record of a play that ends now: the foreign key refuses it once
   the track is gone. *)
Record(i) ==
    /\ i \in Live(tracks) /\ log[i] < MaxPlays
    /\ log' = [log EXCEPT ![i] = log[i] + 1]
    /\ UNCHANGED <<tracks, fts, seq>>
    /\ Write

(* What was played before midnight is not of today any more. *)
Midnight ==
    /\ \E i \in Id : log[i] > 0
    /\ log' = [i \in Id |-> 0]
    /\ UNCHANGED <<tracks, fts, seq>>
    /\ Write

-----------------------------------------------------------------------------
(* Reads *)

Begin(c, operation, w, first) ==
    /\ at[c] = "idle"
    /\ op' = [op EXCEPT ![c] = operation]
    /\ at' = [at EXCEPT ![c] = first]
    /\ word' = [word EXCEPT ![c] = w]
    /\ during' = [during EXCEPT ![c] = {tracks}]
    /\ queries' = [queries EXCEPT ![c] = QueriesOf(operation)]
    /\ UNCHANGED <<db, hits, result, matched>>

(* `Library::search` returns the row ids, `search::fts` their rows too. *)
BeginSearch(c) == \E o \in {"search", "fts"}, w \in Path \cup Title : Begin(c, o, w, "match")

BeginCounts(c) ==
    \E o \in {"tree_counts", "all_facets", "overview"} : Begin(c, o, NoTitle, "count")

Go(c, to) == at' = [at EXCEPT ![c] = to]
Keep(c, key, value) ==
    result' = [result EXCEPT ![c] =
                 [k \in DOMAIN result[c] \cup {key} |-> IF k = key THEN value ELSE result[c][k]]]

Matches(row, w) == row.path = w \/ row.title = w

(* The row ids of the best matches. *)
Match(c) ==
    /\ at[c] = "match"
    /\ LET found == {i \in Live(fts) : Matches(fts[i], word[c])}
       IN  \E best \in kSubset(Min({Limit, Cardinality(found)}), found) :
              /\ matched' = [matched EXCEPT ![c] = [i \in best |-> fts[i]]]
              /\ hits' = [hits EXCEPT ![c] = IF op[c] = "fts" THEN best ELSE {}]
              /\ result' = [result EXCEPT ![c] = IF op[c] = "fts" THEN Nothing
                                                 ELSE [i \in best |-> fts[i]]]
              /\ Go(c, IF op[c] = "fts" /\ best # {} THEN "rows" ELSE "answered")
    /\ UNCHANGED <<db, op, word, queries, during>>

(* The row of the next id, unless it is gone. *)
ReadHit(c) ==
    \E i \in hits[c] :
        /\ at[c] = "rows"
        /\ hits' = [hits EXCEPT ![c] = hits[c] \ {i}]
        /\ IF fts[i] = NoRow THEN UNCHANGED result ELSE Keep(c, i, fts[i])
        /\ Go(c, IF hits'[c] = {} THEN "answered" ELSE "rows")
        /\ UNCHANGED <<db, op, word, queries, matched, during>>

(* TreeCounts.  The LIMIT of recently_added is of the one row a COUNT returns:
   it limits nothing. *)
TreeCount(q, t) == IF q \in {"all_music", "recently_added"} THEN Cardinality(Live(t)) ELSE 0

(* AllFacets.  No row has a genre; its year is written with its title, and is
   not modelled apart from it. *)
FacetGenres == Nothing
FacetYears(t) ==
    [y \in {t[i].title : i \in Live(t)} \ {NoTitle} |-> Cardinality({i \in Live(t) : t[i].title = y})]

(* Mutation of FacetFormats: of the rows with a title only. *)
FacetFormatsTitled(t) ==
    LET counted == {i \in Live(t) : t[i].title # NoTitle}
    IN  [f \in {Codec[t[i].path] : i \in counted} |-> Cardinality({i \in counted : Codec[t[i].path] = f})]

FacetFormats(t) ==
    [f \in {Codec[t[i].path] : i \in Live(t)} |-> Cardinality({i \in Live(t) : Codec[t[i].path] = f})]

(* today_stats; a play lasts one unit of time. *)
TodayStats ==
    [listened |-> MapThenSumSet(LAMBDA i : log[i], Id),
     tracks |-> Cardinality({i \in Id : log[i] > 0})]

Value(q) ==
    CASE q = "facet_genres" -> FacetGenres
      [] q = "facet_years" -> FacetYears(tracks)
      [] q = "facet_formats" -> FacetFormats(tracks)
      [] q = "today" -> TodayStats
      [] OTHER -> TreeCount(q, tracks)

Count(c) ==
    /\ at[c] = "count"
    /\ Keep(c, Head(queries[c]), Value(Head(queries[c])))
    /\ queries' = [queries EXCEPT ![c] = Tail(queries[c])]
    /\ Go(c, IF Len(queries[c]) = 1 THEN "answered" ELSE "count")
    /\ UNCHANGED <<db, op, word, hits, matched, during>>

(* An error of the database is the error of the call, whatever it has read. *)
Fail(c) ==
    /\ InProgress(c)
    /\ Go(c, "failed")
    /\ result' = [result EXCEPT ![c] = Nothing]
    /\ hits' = [hits EXCEPT ![c] = {}]
    /\ queries' = [queries EXCEPT ![c] = <<>>]
    /\ UNCHANGED <<db, op, word, matched, during>>

Return(c) ==
    /\ at[c] \in {"answered", "failed"}
    /\ Go(c, "idle")
    /\ op' = [op EXCEPT ![c] = "none"]
    /\ word' = [word EXCEPT ![c] = NoTitle]
    /\ result' = [result EXCEPT ![c] = Nothing]
    /\ matched' = [matched EXCEPT ![c] = Nothing]
    /\ during' = [during EXCEPT ![c] = {}]
    /\ UNCHANGED <<db, hits, queries>>

-----------------------------------------------------------------------------
Next ==
    \/ \E p \in Path : UpsertTrackPath(p)
    \/ \E i \in Id, t \in Title : SetTitle(i, t) \/ UpdateFts(i, t)
    \/ \E i \in Id : DeleteTrack(i) \/ Record(i)
    \/ Midnight
    \/ \E c \in Caller :
          \/ BeginSearch(c) \/ BeginCounts(c)
          \/ Match(c) \/ ReadHit(c) \/ Count(c)
          \/ Fail(c) \/ Return(c)

Spec == Init /\ [][Next]_vars

-----------------------------------------------------------------------------
(* Properties *)

Answered(c, O) == at[c] = "answered" /\ op[c] \in O

(* A search names the tracks that matched it, each by the path it matched with,
   although rows are read one by one while others are deleted and inserted; and
   it names every one of them that was there during the whole call. *)
SearchAnswersItsMatches ==
    \A c \in Caller : Answered(c, {"search", "fts"}) =>
        /\ DOMAIN result[c] \subseteq DOMAIN matched[c]
        /\ \A i \in DOMAIN result[c] : result[c][i].path = matched[c][i].path
        /\ \A i \in DOMAIN matched[c] :
              (\A t \in during[c] : t[i] # NoRow) => i \in DOMAIN result[c]

(* The numbers of one overview, counted at different moments, differ by no more
   tracks than were inserted or deleted during the call; if none was, the tree,
   the list of recent tracks and the formats count the same tracks. *)
OverviewDrift ==
    \A c \in Caller : Answered(c, {"overview"}) =>
        LET sizes == {Cardinality(Live(t)) : t \in during[c]}
            formats == result[c]["facet_formats"]
            counts == {result[c]["all_music"], result[c]["recently_added"],
                       MapThenSumSet(LAMBDA f : formats[f], DOMAIN formats)}
        IN  counts \subseteq Min(sizes) .. Max(sizes)

(* The log is of tracks that exist: a play that ends after its track was deleted
   is not recorded, and what was recorded goes with the track. *)
LogIsOfTracks == \A i \in Id : log[i] > 0 => tracks[i] # NoRow
=============================================================================
