------------------------------ MODULE Scanner ------------------------------
(***************************************************************************)
(* The library scanner of muzon-library (scanner.rs) over the `tracks`     *)
(* table and its full-text index (schema.rs, migrations/0001_initial.sql). *)
(* `scan_one` is a stat, a tag read and up to four SQL statements outside  *)
(* a transaction; between two of them the file may change, the row may be  *)
(* removed, and another scan, refresh or process may work on the same      *)
(* path.  Each statement is atomic with the triggers it fires.             *)
(*                                                                         *)
(* A title stands for its origin: <<p, v>> is the title in the tags of     *)
(* version v of file p, <<p, "name">> the one parsed from the name of p.   *)
(* Columns other than the title are written by the same statements and are *)
(* left out, as are the extension and `.nomedia` filters: Path is what     *)
(* passes them.                                                            *)
(***************************************************************************)
EXTENDS Integers, FiniteSets

CONSTANTS
    Path,
    Parsed,      \* the paths parse_path recognises
    Version,     \* contents a tagged file may have
    Untagged,    \* kinds of files without a title in their tags
    Task,        \* calls of the scanner that may run at the same time
    Walker,      \* those that walk the library; the others only refresh
    NoPath, NoRow, NoTitle, NoTag,
    MaxId,       \* bound of the model: rows ever inserted
    MaxEdits,    \* bound of the model: changes to the files
    MaxFaults    \* bound of the model: failed statements, cancellations, crashes

ASSUME PathAssumption == Parsed \subseteq Path
ASSUME UntaggedAssumption == Untagged \subseteq {"unreadable", "untitled"}
ASSUME TaskAssumption == Walker \subseteq Task
ASSUME BoundAssumption == MaxId \in Nat /\ MaxEdits \in Nat /\ MaxFaults \in Nat

VARIABLES
    disk,     \* the files
    events,   \* what the watcher has yet to report
    tracks,   \* the rows of `tracks`
    fts,      \* the rows of `tracks_fts`
    seq,      \* the largest id ever given (sqlite_sequence)
    at,       \* where each task is
    todo,     \* the files a scan has yet to come to
    path, id, tag,  \* locals of scan_one
    edits, faults   \* how much of MaxEdits and MaxFaults is used

dbVars == <<tracks, fts, seq>>
taskVars == <<at, todo, path, id, tag>>
vars == <<disk, events, tracks, fts, seq, at, todo, path, id, tag, edits, faults>>

Title == Path \X (Version \cup {"name"})
Content == {"absent", "small"} \cup Untagged \cup Version
Id == 1 .. MaxId
Row == [path : Path, title : Title \cup {NoTitle}]

ASSUME NoneAssumption == NoPath \notin Path /\ NoRow \notin Row /\ NoTitle \notin Title /\ NoTag \notin Title \cup {NoTitle}

TypeOK ==
    /\ disk \in [Path -> Content]
    /\ events \subseteq {"changed", "deleted"} \X Path
    /\ tracks \in [Id -> Row \cup {NoRow}]
    /\ fts \in [Id -> Row \cup {NoRow}]
    /\ seq \in 0 .. MaxId
    /\ at \in [Task -> {"idle", "walk", "stat", "upsert", "read", "tag", "path", "fts"}]
    /\ todo \in [Task -> SUBSET Path]
    /\ path \in [Task -> Path \cup {NoPath}]
    /\ id \in [Task -> 0 .. MaxId]
    /\ tag \in [Task -> Title \cup {NoTitle, NoTag}]
    /\ edits \in 0 .. MaxEdits
    /\ faults \in 0 .. MaxFaults
    /\ \A t \in Task : at[t] = "idle" => todo[t] = {}

Init ==
    /\ disk \in [Path -> Content]
    /\ events = {}
    /\ tracks = [i \in Id |-> NoRow]
    /\ fts = [i \in Id |-> NoRow]
    /\ seq = 0
    /\ at = [t \in Task |-> "idle"]
    /\ todo = [t \in Task |-> {}]
    /\ path = [t \in Task |-> NoPath]
    /\ id = [t \in Task |-> 0]
    /\ tag = [t \in Task |-> NoTag]
    /\ edits = 0 /\ faults = 0

-----------------------------------------------------------------------------
(* The files, and the watcher that reports what happened to them. *)

Edit(p) ==
    /\ edits < MaxEdits
    /\ edits' = edits + 1
    /\ \E c \in Content \ {disk[p]} :
          /\ disk' = [disk EXCEPT ![p] = c]
          /\ events' = events \cup {<<IF c = "absent" THEN "deleted" ELSE "changed", p>>}
    /\ UNCHANGED <<dbVars, taskVars, faults>>

-----------------------------------------------------------------------------
(* The statements.  Each is one operator and includes its triggers. *)

RowsOf(p) == {i \in Id : tracks[i] # NoRow /\ tracks[i].path = p}

(* UPDATE ... WHERE rowid = i. *)
Updated(table, i, row) ==
    IF table[i] = NoRow THEN table ELSE [table EXCEPT ![i] = row]

Coalesce(new, old) == IF new = NoTitle THEN old ELSE new

(* INSERT ... ON CONFLICT(path) DO UPDATE ... RETURNING id.  The update sets
   neither of the columns that tracks_fts_update watches. *)
InsertRow(p, i) ==
    LET row == [path |-> p, title |-> NoTitle]
    IN  /\ i = seq + 1 /\ i <= MaxId
        /\ tracks' = [tracks EXCEPT ![i] = row]
        /\ fts' = [fts EXCEPT ![i] = row]
        /\ seq' = i

(* Mutation of UpsertTrackPath: ids are given again, as without AUTOINCREMENT. *)
UpsertReusingIds(p, i) ==
    \/ i \in RowsOf(p) /\ UNCHANGED dbVars
    \/ /\ RowsOf(p) = {}
       /\ i > 1 => tracks[i - 1] # NoRow
       /\ \A j \in Id : j >= i => tracks[j] = NoRow
       /\ tracks' = [tracks EXCEPT ![i] = [path |-> p, title |-> NoTitle]]
       /\ fts' = [fts EXCEPT ![i] = [path |-> p, title |-> NoTitle]]
       /\ UNCHANGED seq

UpsertTrackPath(p, i) ==
    \/ i \in RowsOf(p) /\ UNCHANGED dbVars
    \/ RowsOf(p) = {} /\ InsertRow(p, i)

(* UPDATE tracks SET title = COALESCE(new, title) ... WHERE id = i. *)
UpdateTitle(i, new) ==
    IF tracks[i] = NoRow THEN UNCHANGED <<tracks, fts>>
    ELSE LET row == [tracks[i] EXCEPT !.title = Coalesce(new, @)]
         IN  /\ tracks' = [tracks EXCEPT ![i] = row]
             /\ fts' = Updated(fts, i, row)

(* Mutation of UpdateFts: the search row is replaced or inserted. *)
ReplaceFts(i, p, title) == fts' = [fts EXCEPT ![i] = [path |-> p, title |-> title]]

UpdateFts(i, p, title) == fts' = Updated(fts, i, [path |-> p, title |-> title])

(* DELETE FROM tracks WHERE path = p. *)
DeleteRows(p) ==
    /\ tracks' = [i \in Id |-> IF i \in RowsOf(p) THEN NoRow ELSE tracks[i]]
    /\ fts' = [i \in Id |-> IF i \in RowsOf(p) THEN NoRow ELSE fts[i]]

-----------------------------------------------------------------------------
(* scan_all: the walk comes to every file that was there when it started, and
   to those created since or not. *)
StartScan(t) ==
    /\ at[t] = "idle" /\ t \in Walker
    /\ \E listed \in SUBSET Path :
          /\ {p \in Path : disk[p] # "absent"} \subseteq listed
          /\ todo' = [todo EXCEPT ![t] = listed]
    /\ at' = [at EXCEPT ![t] = "walk"]
    /\ UNCHANGED <<disk, events, dbVars, path, id, tag, edits, faults>>

NextEntry(t) ==
    /\ at[t] = "walk"
    /\ \E p \in todo[t] :
          /\ path' = [path EXCEPT ![t] = p]
          /\ todo' = [todo EXCEPT ![t] = @ \ {p}]
    /\ at' = [at EXCEPT ![t] = "stat"]
    /\ UNCHANGED <<disk, events, dbVars, id, tag, edits, faults>>

FinishScan(t) ==
    /\ at[t] = "walk" /\ todo[t] = {}
    /\ at' = [at EXCEPT ![t] = "idle"]
    /\ UNCHANGED <<disk, events, dbVars, todo, path, id, tag, edits, faults>>

(* A reported change: refresh is scan_one on a file by itself. *)
Refresh(t, p) ==
    /\ at[t] = "idle" /\ <<"changed", p>> \in events
    /\ events' = events \ {<<"changed", p>>}
    /\ path' = [path EXCEPT ![t] = p]
    /\ at' = [at EXCEPT ![t] = "stat"]
    /\ UNCHANGED <<disk, dbVars, todo, id, tag, edits, faults>>

Remove(p) ==
    /\ <<"deleted", p>> \in events
    /\ events' = events \ {<<"deleted", p>>}
    /\ DeleteRows(p)
    /\ UNCHANGED <<disk, seq, taskVars, edits, faults>>

-----------------------------------------------------------------------------
(* scan_one *)

(* It returns, or its task goes away: its locals are gone. *)
Leave(t, to) ==
    /\ at' = [at EXCEPT ![t] = to]
    /\ path' = [path EXCEPT ![t] = NoPath]
    /\ id' = [id EXCEPT ![t] = 0]
    /\ tag' = [tag EXCEPT ![t] = NoTag]

Stat(t) ==
    /\ at[t] = "stat"
    /\ \/ /\ disk[path[t]] \in {"absent", "small"}
          /\ Leave(t, "walk")
       \/ /\ disk[path[t]] \notin {"absent", "small"}
          /\ at' = [at EXCEPT ![t] = "upsert"]
          /\ UNCHANGED <<path, id, tag>>
    /\ UNCHANGED <<disk, events, dbVars, todo, edits, faults>>

(* Mutation of Upsert: a file that has a row is taken for unchanged. *)
UpsertNewOnly(t) ==
    /\ at[t] = "upsert"
    /\ \/ /\ RowsOf(path[t]) # {}
          /\ Leave(t, "walk")
          /\ UNCHANGED dbVars
       \/ /\ RowsOf(path[t]) = {}
          /\ \E i \in Id : InsertRow(path[t], i) /\ id' = [id EXCEPT ![t] = i]
          /\ at' = [at EXCEPT ![t] = "read"]
          /\ UNCHANGED <<path, tag>>
    /\ UNCHANGED <<disk, events, todo, edits, faults>>

Upsert(t) ==
    /\ at[t] = "upsert"
    /\ \E i \in Id : UpsertTrackPath(path[t], i) /\ id' = [id EXCEPT ![t] = i]
    /\ at' = [at EXCEPT ![t] = "read"]
    /\ UNCHANGED <<disk, events, todo, path, tag, edits, faults>>

(* The statement after the tag's: the name's, when it can be parsed. *)
AfterTag(t) == IF path[t] \in Parsed THEN "path" ELSE "fts"

(* The title read_tags finds now, whatever the file was at the stat. *)
TagTitle(p) ==
    IF disk[p] \in Version THEN <<p, disk[p]>>
    ELSE IF disk[p] \in {"absent", "unreadable"} THEN NoTag ELSE NoTitle

ReadTags(t) ==
    /\ at[t] = "read"
    /\ tag' = [tag EXCEPT ![t] = TagTitle(path[t])]
    /\ at' = [at EXCEPT ![t] = IF TagTitle(path[t]) = NoTag THEN AfterTag(t) ELSE "tag"]
    /\ UNCHANGED <<disk, events, dbVars, todo, path, id, edits, faults>>

ApplyTag(t) ==
    /\ at[t] = "tag"
    /\ UpdateTitle(id[t], tag[t])
    /\ at' = [at EXCEPT ![t] = AfterTag(t)]
    /\ UNCHANGED <<disk, events, seq, todo, path, id, tag, edits, faults>>

(* The name's title is written over the tag's. *)
ApplyPath(t) ==
    /\ at[t] = "path"
    /\ UpdateTitle(id[t], <<path[t], "name">>)
    /\ at' = [at EXCEPT ![t] = "fts"]
    /\ UNCHANGED <<disk, events, seq, todo, path, id, tag, edits, faults>>

(* The title of the search row: the tag's, or else the name's, or else none. *)
BestTitle(p, tagTitle) ==
    IF tagTitle \notin {NoTag, NoTitle} THEN tagTitle
    ELSE IF p \in Parsed THEN <<p, "name">> ELSE NoTitle

ApplyFts(t) ==
    /\ at[t] = "fts"
    /\ UpdateFts(id[t], path[t], BestTitle(path[t], tag[t]))
    /\ Leave(t, "walk")
    /\ UNCHANGED <<disk, events, tracks, seq, todo, edits, faults>>

-----------------------------------------------------------------------------
(* A statement fails (SQLITE_BUSY): scan_one returns the error and the walk
   goes on with the next file. *)
StatementFails(t) ==
    /\ at[t] \in {"upsert", "tag", "path", "fts"}
    /\ faults < MaxFaults
    /\ faults' = faults + 1
    /\ Leave(t, "walk")
    /\ UNCHANGED <<disk, events, dbVars, todo, edits>>

(* The scan is cancelled between two files, or its process dies anywhere, and
   with it, if they are one process, what the watcher had to report. *)
Stop(t) ==
    /\ at[t] # "idle"
    /\ faults < MaxFaults
    /\ faults' = faults + 1
    /\ events' \in {events, {}}
    /\ Leave(t, "idle")
    /\ todo' = [todo EXCEPT ![t] = {}]
    /\ UNCHANGED <<disk, dbVars, edits>>

ScanStep(t) ==
    \/ NextEntry(t) \/ FinishScan(t)
    \/ Stat(t) \/ Upsert(t) \/ ReadTags(t)
    \/ ApplyTag(t) \/ ApplyPath(t) \/ ApplyFts(t)

Next ==
    \/ \E p \in Path : Edit(p) \/ Remove(p)
    \/ \E t \in Task :
          \/ StartScan(t) \/ ScanStep(t)
          \/ StatementFails(t) \/ Stop(t)
          \/ \E p \in Path : Refresh(t, p)

Spec == Init /\ [][Next]_vars

(* A scan that was started goes on, and scans are started again and again. *)
FairSpec == Spec /\ \A t \in Task : WF_vars(ScanStep(t)) /\ WF_vars(StartScan(t))

-----------------------------------------------------------------------------
(* Properties *)

(* The triggers, the update and the delete keep the search index in step with
   the table: a late update_fts for a row that was removed meanwhile brings no
   search result back. *)
SearchRowsAreTracks ==
    \A i \in Id : /\ tracks[i] = NoRow <=> fts[i] = NoRow
                  /\ tracks[i] # NoRow => fts[i].path = tracks[i].path

(* The test `incremental_only_reads_changed`, for scans and refreshes that run
   at once as well: a file never gets a second row. *)
OneRowPerPath == \A p \in Path : Cardinality(RowsOf(p)) <= 1

(* A scan that still holds the id of a row removed meanwhile writes to no other
   file's row: the titles of a row are its own file's. *)
TitlesStayWithTheirFile ==
    \A i \in Id : tracks[i] # NoRow =>
        /\ tracks[i].title # NoTitle => tracks[i].title[1] = tracks[i].path
        /\ fts[i].title # NoTitle => fts[i].title[1] = tracks[i].path

Indexed(p) == \E i \in RowsOf(p) : fts[i].title = BestTitle(p, TagTitle(p))

(* When the files stay as they are, repeated scans bring the index up to date:
   whatever was interrupted, failed or overtaken before, there comes a time
   from which every file above the size limit is found by its present title
   whenever no scan is running. *)
IndexCatchesUp ==
    <>[]((\A t \in Task : at[t] = "idle") =>
            \A p \in Path : disk[p] \notin {"absent", "small"} => Indexed(p))
=============================================================================
