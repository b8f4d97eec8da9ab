--------------------------- MODULE ScannerProofs ---------------------------
(***************************************************************************)
(* What is proved of the scanner for every set of files and titles, any    *)
(* number of concurrent scans and refreshes, and any number of edits,      *)
(* failed statements and crashes.                                          *)
(***************************************************************************)
EXTENDS Scanner, FiniteSetTheorems, TLAPS

(* The tables: a search row for each row, one row per path, no row with an id
   that was never given, and titles in the rows of their file. *)
PathsDiffer ==
    \A i, j \in Id : tracks[i] # NoRow /\ tracks[j] # NoRow
                        /\ tracks[i].path = tracks[j].path => i = j

IdsWereGiven == \A i \in Id : tracks[i] # NoRow => i <= seq

TablesOK ==
    /\ SearchRowsAreTracks
    /\ PathsDiffer
    /\ IdsWereGiven
    /\ TitlesStayWithTheirFile

(* The locals of scan_one: the id was given to the row of its path, which may be
   gone but is no other file's; the tag was read from the file. *)
Working == {"stat", "upsert", "read", "tag", "path", "fts"}
Holding == {"read", "tag", "path", "fts"}

LocalsOK(t) ==
    /\ at[t] \in Working => path[t] \in Path
    /\ at[t] \in Holding =>
          /\ id[t] \in Id /\ id[t] <= seq
          /\ tracks[id[t]] # NoRow => tracks[id[t]].path = path[t]
    /\ at[t] = "tag" => tag[t] # NoTag
    /\ tag[t] \in Title => tag[t][1] = path[t]
    /\ at[t] \notin {"tag", "path", "fts"} => tag[t] = NoTag

IInv ==
    /\ TypeOK
    /\ TablesOK
    /\ \A t \in Task : LocalsOK(t)

-----------------------------------------------------------------------------
(* What a statement may do to the rows a task holds the id of: they keep their
   path or go away, and no id is given twice. *)
RowsFollow ==
    /\ seq' \in Nat /\ seq <= seq'
    /\ \A i \in Id : i <= seq /\ tracks'[i] # NoRow =>
                        tracks[i] # NoRow /\ tracks'[i].path = tracks[i].path

TablesTyped ==
    /\ tracks \in [Id -> Row \cup {NoRow}]
    /\ fts \in [Id -> Row \cup {NoRow}]
    /\ seq \in 0 .. MaxId

LEMMA UnchangedTables ==
    ASSUME TablesTyped, TablesOK, UNCHANGED dbVars
    PROVE  TablesTyped' /\ TablesOK' /\ RowsFollow
BY BoundAssumption
DEF TablesTyped, TablesOK, dbVars, RowsFollow, SearchRowsAreTracks, PathsDiffer,
    IdsWereGiven, TitlesStayWithTheirFile

LEMMA InsertRowStep ==
    ASSUME TablesTyped, TablesOK, NEW p \in Path, NEW i \in Id,
           RowsOf(p) = {}, InsertRow(p, i)
    PROVE  /\ TablesTyped' /\ TablesOK' /\ RowsFollow
           /\ i <= seq' /\ tracks'[i].path = p
<1> DEFINE row == [path |-> p, title |-> NoTitle]
<1>1. row \in Row /\ row # NoRow
  BY NoneAssumption DEF Row
<1>2. /\ row.path = p /\ row.title = NoTitle
      /\ tracks' = [tracks EXCEPT ![i] = row]
      /\ fts' = [fts EXCEPT ![i] = row]
      /\ i = seq + 1 /\ seq' = i
  BY DEF InsertRow
<1> HIDE DEF row
<1>3. i \in Int /\ seq \in Int /\ i <= MaxId /\ i >= 1 /\ MaxId \in Nat
  BY BoundAssumption DEF Id, TablesTyped
<1>4. /\ \A j \in Id : tracks'[j] = IF j = i THEN row ELSE tracks[j]
      /\ \A j \in Id : fts'[j] = IF j = i THEN row ELSE fts[j]
  BY <1>2 DEF TablesTyped
<1>5. TablesTyped'
  BY <1>1, <1>2, <1>3 DEF TablesTyped, Id
<1>6. SearchRowsAreTracks'
  BY <1>1, <1>4 DEF TablesOK, SearchRowsAreTracks
<1>7. PathsDiffer'
  BY <1>1, <1>2, <1>4 DEF TablesOK, PathsDiffer, RowsOf
<1>8. IdsWereGiven'
  BY <1>2, <1>3, <1>4 DEF TablesOK, IdsWereGiven, Id
<1>9. TitlesStayWithTheirFile'
  BY <1>2, <1>4 DEF TablesOK, TitlesStayWithTheirFile
<1>10. RowsFollow
  BY <1>2, <1>3, <1>4 DEF RowsFollow, Id
<1> QED
  BY <1>2, <1>3, <1>4, <1>5, <1>6, <1>7, <1>8, <1>9, <1>10 DEF TablesOK

LEMMA UpsertStep ==
    ASSUME TablesTyped, TablesOK, NEW p \in Path, NEW i \in Id, UpsertTrackPath(p, i)
    PROVE  /\ TablesTyped' /\ TablesOK' /\ RowsFollow
           /\ i <= seq' /\ tracks'[i].path = p
<1>1. CASE i \in RowsOf(p) /\ UNCHANGED dbVars
  <2>1. i <= seq /\ tracks[i].path = p
    BY <1>1 DEF RowsOf, TablesOK, IdsWereGiven
  <2> QED
    BY <1>1, <2>1, UnchangedTables DEF dbVars
<1>2. CASE RowsOf(p) = {} /\ InsertRow(p, i)
  BY <1>2, InsertRowStep
<1> QED
  BY <1>1, <1>2 DEF UpsertTrackPath

(* An update may only bring a title of the row's own file. *)
LEMMA UpdateTitleStep ==
    ASSUME TablesTyped, TablesOK, NEW i \in Id, NEW new \in Title \cup {NoTitle},
           new \in Title /\ tracks[i] # NoRow => new[1] = tracks[i].path,
           UpdateTitle(i, new), UNCHANGED seq
    PROVE  TablesTyped' /\ TablesOK' /\ RowsFollow
<1>1. CASE tracks[i] = NoRow
  BY <1>1, UnchangedTables DEF UpdateTitle, dbVars
<1>2. CASE tracks[i] # NoRow
  <2> DEFINE row == [tracks[i] EXCEPT !.title = Coalesce(new, @)]
  <2>1. /\ tracks' = [tracks EXCEPT ![i] = row]
        /\ fts' = [fts EXCEPT ![i] = row]
    BY <1>2 DEF UpdateTitle, Updated, TablesOK, SearchRowsAreTracks
  <2>2. tracks[i] \in Row
    BY <1>2 DEF TablesTyped
  <2>3. row.path = tracks[i].path /\ row.title = Coalesce(new, tracks[i].title)
    BY <2>2 DEF Row
  <2>4. row \in Row /\ row # NoRow
    BY <2>2, NoneAssumption DEF Row, Coalesce
  <2>5. row.title # NoTitle => row.title[1] = row.path
    BY <1>2, <2>3 DEF Coalesce, TablesOK, TitlesStayWithTheirFile
  <2> HIDE DEF row
  <2>6. /\ \A j \in Id : tracks'[j] = IF j = i THEN row ELSE tracks[j]
        /\ \A j \in Id : fts'[j] = IF j = i THEN row ELSE fts[j]
    BY <2>1 DEF TablesTyped
  <2>7. TablesTyped'
    BY <2>1, <2>4 DEF TablesTyped
  <2>8. SearchRowsAreTracks'
    BY <2>4, <2>6 DEF TablesOK, SearchRowsAreTracks
  <2>9. PathsDiffer'
    BY <1>2, <2>3, <2>6 DEF TablesOK, PathsDiffer
  <2>10. IdsWereGiven'
    BY <1>2, <2>6 DEF TablesOK, IdsWereGiven
  <2>11. TitlesStayWithTheirFile'
    BY <2>3, <2>5, <2>6 DEF TablesOK, TitlesStayWithTheirFile
  <2>12. RowsFollow
    BY <1>2, <2>3, <2>6, BoundAssumption DEF RowsFollow, TablesTyped
  <2> QED
    BY <2>7, <2>8, <2>9, <2>10, <2>11, <2>12 DEF TablesOK
<1> QED
  BY <1>1, <1>2

LEMMA UpdateFtsStep ==
    ASSUME TablesTyped, TablesOK, NEW i \in Id, NEW p \in Path,
           NEW title \in Title \cup {NoTitle},
           title \in Title => title[1] = p,
           tracks[i] # NoRow => tracks[i].path = p,
           UpdateFts(i, p, title), UNCHANGED <<tracks, seq>>
    PROVE  TablesTyped' /\ TablesOK' /\ RowsFollow
<1> DEFINE row == [path |-> p, title |-> title]
<1>1. row \in Row /\ row # NoRow /\ row.path = p /\ row.title = title
  BY NoneAssumption DEF Row
<1>2. fts' = IF fts[i] = NoRow THEN fts ELSE [fts EXCEPT ![i] = row]
  BY DEF UpdateFts, Updated
<1> HIDE DEF row
<1>3. TablesTyped'
  BY <1>1, <1>2 DEF TablesTyped
<1>4. \A j \in Id : fts'[j] = IF j = i /\ fts[i] # NoRow THEN row ELSE fts[j]
  BY <1>2 DEF TablesTyped
<1>5. SearchRowsAreTracks'
  BY <1>1, <1>4 DEF TablesOK, SearchRowsAreTracks
<1>6. PathsDiffer' /\ IdsWereGiven' /\ RowsFollow
  BY BoundAssumption DEF TablesOK, TablesTyped, PathsDiffer, IdsWereGiven, RowsFollow
<1>7. TitlesStayWithTheirFile'
  BY <1>1, <1>4 DEF TablesOK, TitlesStayWithTheirFile
<1> QED
  BY <1>3, <1>5, <1>6, <1>7 DEF TablesOK

LEMMA DeleteRowsStep ==
    ASSUME TablesTyped, TablesOK, NEW p \in Path, DeleteRows(p), UNCHANGED seq
    PROVE  TablesTyped' /\ TablesOK' /\ RowsFollow
<1>1. /\ \A j \in Id : tracks'[j] = IF j \in RowsOf(p) THEN NoRow ELSE tracks[j]
      /\ \A j \in Id : fts'[j] = IF j \in RowsOf(p) THEN NoRow ELSE fts[j]
  BY DEF DeleteRows
<1>2. TablesTyped'
  BY DEF DeleteRows, TablesTyped
<1>3. TablesOK'
  BY <1>1 DEF TablesOK, SearchRowsAreTracks, PathsDiffer, IdsWereGiven,
              TitlesStayWithTheirFile
<1>4. RowsFollow
  BY <1>1, BoundAssumption DEF RowsFollow, TablesTyped
<1> QED
  BY <1>2, <1>3, <1>4

-----------------------------------------------------------------------------
(* A task that does not move keeps its locals right while the tables change. *)
LEMMA OthersStep ==
    ASSUME TablesTyped, RowsFollow, NEW u \in Task, LocalsOK(u),
           at'[u] = at[u], path'[u] = path[u], id'[u] = id[u], tag'[u] = tag[u]
    PROVE  LocalsOK(u)'
<1>1. \A i \in Id : i \in Int
  BY DEF Id
<1>2. seq \in Int
  BY DEF TablesTyped
<1> QED
  BY <1>1, <1>2 DEF LocalsOK, RowsFollow

(* A task that leaves scan_one has no locals left. *)
LEMMA LeaveStep ==
    ASSUME TypeOK, NEW t \in Task, NEW to \in {"walk", "idle"}, Leave(t, to)
    PROVE  LocalsOK(t)'
BY NoneAssumption DEF TypeOK, Leave, LocalsOK, Working, Holding

(* A step of one task, or of none, put together. *)
SameLocals(u) ==
    at'[u] = at[u] /\ path'[u] = path[u] /\ id'[u] = id[u] /\ tag'[u] = tag[u]

LEMMA TaskStep ==
    ASSUME IInv, TypeOK', TablesOK', RowsFollow, NEW t \in Task, LocalsOK(t)',
           \A u \in Task \ {t} : SameLocals(u)
    PROVE  IInv'
<1>1. TablesTyped
  BY DEF IInv, TypeOK, TablesTyped
<1>2. ASSUME NEW u \in Task \ {t} PROVE LocalsOK(u)'
  BY <1>1, <1>2, OthersStep DEF IInv, SameLocals
<1> QED
  BY <1>2 DEF IInv

LEMMA NoTaskStep ==
    ASSUME IInv, TypeOK', TablesOK', RowsFollow, UNCHANGED <<at, path, id, tag>>
    PROVE  IInv'
<1>1. TablesTyped
  BY DEF IInv, TypeOK, TablesTyped
<1>2. ASSUME NEW u \in Task PROVE LocalsOK(u)'
  BY <1>1, OthersStep DEF IInv
<1> QED
  BY <1>2 DEF IInv

LEMMA Typed ==
    ASSUME IInv
    PROVE  TablesTyped /\ TablesOK /\ TypeOK
BY DEF IInv, TypeOK, TablesTyped

LEMMA TagTitleProperties ==
    ASSUME TypeOK, NEW p \in Path
    PROVE  /\ TagTitle(p) \in Title \cup {NoTitle, NoTag}
           /\ TagTitle(p) \in Title => TagTitle(p)[1] = p
BY NoneAssumption DEF TypeOK, TagTitle, Title

LEMMA BestTitleProperties ==
    ASSUME NEW p \in Path, NEW tagTitle \in Title \cup {NoTitle, NoTag},
           tagTitle \in Title => tagTitle[1] = p
    PROVE  /\ BestTitle(p, tagTitle) \in Title \cup {NoTitle}
           /\ BestTitle(p, tagTitle) \in Title => BestTitle(p, tagTitle)[1] = p
BY NoneAssumption DEF BestTitle, Title

-----------------------------------------------------------------------------
(* One lemma per action. *)

LEMMA InitInv == Init => IInv
BY BoundAssumption, NoneAssumption
DEF Init, IInv, TypeOK, TablesOK, SearchRowsAreTracks, PathsDiffer, IdsWereGiven,
    TitlesStayWithTheirFile, LocalsOK, Working, Holding

LEMMA EditStep ==
    ASSUME IInv, NEW p \in Path, Edit(p)
    PROVE  IInv'
<1>1. TypeOK'
  BY Typed, BoundAssumption DEF TypeOK, Edit, dbVars, taskVars
<1> QED
  BY <1>1, Typed, UnchangedTables, NoTaskStep DEF Edit, taskVars

LEMMA RemoveStep ==
    ASSUME IInv, NEW p \in Path, Remove(p)
    PROVE  IInv'
<1>1. TablesTyped' /\ TablesOK' /\ RowsFollow
  BY Typed, DeleteRowsStep DEF Remove
<1>2. TypeOK'
  BY <1>1, Typed DEF TypeOK, TablesTyped, Remove, taskVars
<1> QED
  BY <1>1, <1>2, NoTaskStep DEF Remove, taskVars

LEMMA StartScanStep ==
    ASSUME IInv, NEW t \in Task, StartScan(t)
    PROVE  IInv'
<1>1. TypeOK'
  BY Typed DEF TypeOK, StartScan, dbVars
<1>2. LocalsOK(t)'
  BY Typed, NoneAssumption DEF IInv, TypeOK, StartScan, LocalsOK, Working, Holding
<1>3. \A u \in Task \ {t} : SameLocals(u)
  BY Typed DEF TypeOK, StartScan, SameLocals
<1> QED
  BY <1>1, <1>2, <1>3, Typed, UnchangedTables, TaskStep DEF StartScan

LEMMA NextEntryStep ==
    ASSUME IInv, NEW t \in Task, NextEntry(t)
    PROVE  IInv'
<1>1. TypeOK'
  BY Typed DEF TypeOK, NextEntry, dbVars
<1>2. LocalsOK(t)'
  BY Typed, NoneAssumption DEF IInv, TypeOK, NextEntry, LocalsOK, Working, Holding
<1>3. \A u \in Task \ {t} : SameLocals(u)
  BY Typed DEF TypeOK, NextEntry, SameLocals
<1> QED
  BY <1>1, <1>2, <1>3, Typed, UnchangedTables, TaskStep DEF NextEntry

LEMMA FinishScanStep ==
    ASSUME IInv, NEW t \in Task, FinishScan(t)
    PROVE  IInv'
<1>1. TypeOK'
  BY Typed DEF TypeOK, FinishScan, dbVars
<1>2. LocalsOK(t)'
  BY Typed, NoneAssumption DEF IInv, TypeOK, FinishScan, LocalsOK, Working, Holding
<1>3. \A u \in Task \ {t} : SameLocals(u)
  BY Typed DEF TypeOK, FinishScan, SameLocals
<1> QED
  BY <1>1, <1>2, <1>3, Typed, UnchangedTables, TaskStep DEF FinishScan

LEMMA RefreshStep ==
    ASSUME IInv, NEW t \in Task, NEW p \in Path, Refresh(t, p)
    PROVE  IInv'
<1>1. TypeOK'
  BY Typed DEF TypeOK, Refresh, dbVars
<1>2. LocalsOK(t)'
  BY Typed, NoneAssumption DEF IInv, TypeOK, Refresh, LocalsOK, Working, Holding
<1>3. \A u \in Task \ {t} : SameLocals(u)
  BY Typed DEF TypeOK, Refresh, SameLocals
<1> QED
  BY <1>1, <1>2, <1>3, Typed, UnchangedTables, TaskStep DEF Refresh

LEMMA StatStep ==
    ASSUME IInv, NEW t \in Task, Stat(t)
    PROVE  IInv'
<1>1. TypeOK'
  BY Typed, BoundAssumption DEF TypeOK, Stat, Leave, dbVars
<1>2. LocalsOK(t)'
  <2>1. CASE Leave(t, "walk")
    BY <2>1, Typed, LeaveStep
  <2>2. CASE /\ at' = [at EXCEPT ![t] = "upsert"]
             /\ UNCHANGED <<path, id, tag>>
    BY <2>2, Typed, NoneAssumption
    DEF IInv, TypeOK, Stat, LocalsOK, Working, Holding
  <2> QED
    BY <2>1, <2>2 DEF Stat
<1>3. \A u \in Task \ {t} : SameLocals(u)
  BY Typed DEF TypeOK, Stat, Leave, SameLocals
<1> QED
  BY <1>1, <1>2, <1>3, Typed, UnchangedTables, TaskStep DEF Stat

LEMMA UpsertTaskStep ==
    ASSUME IInv, NEW t \in Task, Upsert(t)
    PROVE  IInv'
<1>1. PICK i \in Id : UpsertTrackPath(path[t], i) /\ id' = [id EXCEPT ![t] = i]
  BY DEF Upsert
<1>2. path[t] \in Path /\ tag[t] = NoTag
  BY DEF IInv, LocalsOK, Upsert, Working
<1>3. /\ TablesTyped' /\ TablesOK' /\ RowsFollow
      /\ i <= seq' /\ tracks'[i].path = path[t]
  BY <1>1, <1>2, Typed, UpsertStep
<1>4. i \in 0 .. MaxId
  BY BoundAssumption DEF Id
<1>5. TypeOK'
  BY <1>1, <1>3, <1>4, Typed DEF TypeOK, TablesTyped, Upsert
<1>6. LocalsOK(t)'
  <2>1. at'[t] = "read" /\ id'[t] = i /\ path'[t] = path[t] /\ tag'[t] = NoTag
    BY <1>1, <1>2, Typed DEF TypeOK, Upsert
  <2> QED
    BY <1>2, <1>3, <2>1, NoneAssumption DEF LocalsOK, Working, Holding
<1>7. \A u \in Task \ {t} : SameLocals(u)
  BY <1>1, Typed DEF TypeOK, Upsert, SameLocals
<1> QED
  BY <1>3, <1>5, <1>6, <1>7, TaskStep

LEMMA ReadTagsStep ==
    ASSUME IInv, NEW t \in Task, ReadTags(t)
    PROVE  IInv'
<1>1. path[t] \in Path
  BY DEF IInv, LocalsOK, ReadTags, Working
<1>2. /\ TagTitle(path[t]) \in Title \cup {NoTitle, NoTag}
      /\ TagTitle(path[t]) \in Title => TagTitle(path[t])[1] = path[t]
  BY <1>1, Typed, TagTitleProperties
<1>3. TypeOK'
  BY <1>2, Typed DEF TypeOK, ReadTags, AfterTag, dbVars
<1>4. LocalsOK(t)'
  <2>1. /\ tag'[t] = TagTitle(path[t]) /\ path'[t] = path[t] /\ id'[t] = id[t]
        /\ at'[t] \in {"tag", "path", "fts"}
        /\ at'[t] = "tag" => TagTitle(path[t]) # NoTag
    BY Typed DEF TypeOK, ReadTags, AfterTag
  <2>2. /\ id[t] \in Id /\ id[t] <= seq
        /\ tracks[id[t]] # NoRow => tracks[id[t]].path = path[t]
    BY DEF IInv, LocalsOK, ReadTags, Holding
  <2> QED
    BY <1>1, <1>2, <2>1, <2>2 DEF LocalsOK, ReadTags, dbVars
<1>5. \A u \in Task \ {t} : SameLocals(u)
  BY Typed DEF TypeOK, ReadTags, SameLocals
<1> QED
  BY <1>3, <1>4, <1>5, Typed, UnchangedTables, TaskStep DEF ReadTags

(* What a task at one of the three updates knows of the row it updates. *)
LEMMA HeldRow ==
    ASSUME IInv, NEW t \in Task, at[t] \in {"tag", "path", "fts"}
    PROVE  /\ path[t] \in Path /\ id[t] \in Id
           /\ tracks[id[t]] # NoRow => tracks[id[t]].path = path[t]
           /\ tag[t] \in Title \cup {NoTitle, NoTag}
           /\ tag[t] \in Title => tag[t][1] = path[t]
           /\ at[t] = "tag" => tag[t] # NoTag
BY DEF IInv, TypeOK, LocalsOK, Working, Holding

(* Such a task goes on to another of them. *)
LEMMA HoldingStep ==
    ASSUME IInv, TypeOK', TablesOK', RowsFollow, NEW t \in Task,
           at[t] \in {"tag", "path", "fts"}, UNCHANGED <<path, id, tag>>,
           NEW to \in {"path", "fts"}, at' = [at EXCEPT ![t] = to]
    PROVE  IInv'
<1>1. at'[t] = to /\ path'[t] = path[t] /\ id'[t] = id[t] /\ tag'[t] = tag[t]
  BY Typed DEF TypeOK
<1>2. id[t] \in Id /\ id[t] <= seq /\ id[t] \in Int
  BY DEF IInv, LocalsOK, Holding, Id
<1>3. seq \in Int /\ seq' \in Int /\ seq <= seq'
  BY Typed DEF TablesTyped, RowsFollow
<1>4. LocalsOK(t)'
  BY <1>1, <1>2, <1>3, HeldRow DEF LocalsOK, RowsFollow
<1>5. \A u \in Task \ {t} : SameLocals(u)
  BY Typed DEF TypeOK, SameLocals
<1> QED
  BY <1>4, <1>5, TaskStep

LEMMA ApplyTagStep ==
    ASSUME IInv, NEW t \in Task, ApplyTag(t)
    PROVE  IInv'
<1>1. /\ id[t] \in Id /\ tag[t] \in Title \cup {NoTitle}
      /\ tag[t] \in Title /\ tracks[id[t]] # NoRow => tag[t][1] = tracks[id[t]].path
  BY HeldRow DEF ApplyTag
<1>2. TablesTyped' /\ TablesOK' /\ RowsFollow
  BY <1>1, Typed, UpdateTitleStep DEF ApplyTag
<1>3. AfterTag(t) \in {"path", "fts"}
  BY DEF AfterTag
<1>4. TypeOK'
  BY <1>2, <1>3, Typed DEF TypeOK, TablesTyped, ApplyTag
<1> QED
  BY <1>2, <1>3, <1>4, HoldingStep DEF ApplyTag

LEMMA ApplyPathStep ==
    ASSUME IInv, NEW t \in Task, ApplyPath(t)
    PROVE  IInv'
<1> DEFINE new == <<path[t], "name">>
<1>1. /\ id[t] \in Id /\ new \in Title
      /\ tracks[id[t]] # NoRow => new[1] = tracks[id[t]].path
  BY HeldRow DEF ApplyPath, Title
<1>2. UpdateTitle(id[t], new) /\ UNCHANGED seq
  BY DEF ApplyPath
<1> HIDE DEF new
<1>3. TablesTyped' /\ TablesOK' /\ RowsFollow
  BY <1>1, <1>2, Typed, UpdateTitleStep
<1>4. TypeOK'
  BY <1>3, Typed DEF TypeOK, TablesTyped, ApplyPath
<1> QED
  BY <1>3, <1>4, HoldingStep DEF ApplyPath

LEMMA ApplyFtsStep ==
    ASSUME IInv, NEW t \in Task, ApplyFts(t)
    PROVE  IInv'
<1> DEFINE title == BestTitle(path[t], tag[t])
<1>1. /\ id[t] \in Id /\ path[t] \in Path
      /\ tracks[id[t]] # NoRow => tracks[id[t]].path = path[t]
  BY HeldRow DEF ApplyFts
<1>2. title \in Title \cup {NoTitle} /\ (title \in Title => title[1] = path[t])
  BY HeldRow, BestTitleProperties DEF ApplyFts
<1>3. UpdateFts(id[t], path[t], title) /\ UNCHANGED <<tracks, seq>>
  BY DEF ApplyFts
<1> HIDE DEF title
<1>4. TablesTyped' /\ TablesOK' /\ RowsFollow
  BY <1>1, <1>2, <1>3, Typed, UpdateFtsStep
<1>5. TypeOK'
  BY <1>4, Typed, BoundAssumption DEF TypeOK, TablesTyped, ApplyFts, Leave
<1>6. LocalsOK(t)'
  BY Typed, LeaveStep DEF ApplyFts
<1>7. \A u \in Task \ {t} : SameLocals(u)
  BY Typed DEF TypeOK, ApplyFts, Leave, SameLocals
<1> QED
  BY <1>4, <1>5, <1>6, <1>7, TaskStep

LEMMA StatementFailsStep ==
    ASSUME IInv, NEW t \in Task, StatementFails(t)
    PROVE  IInv'
<1>1. TypeOK'
  BY Typed, BoundAssumption DEF TypeOK, StatementFails, Leave, dbVars
<1>2. LocalsOK(t)'
  BY Typed, LeaveStep DEF StatementFails
<1>3. \A u \in Task \ {t} : SameLocals(u)
  BY Typed DEF TypeOK, StatementFails, Leave, SameLocals
<1> QED
  BY <1>1, <1>2, <1>3, Typed, UnchangedTables, TaskStep DEF StatementFails

LEMMA StopStep ==
    ASSUME IInv, NEW t \in Task, Stop(t)
    PROVE  IInv'
<1>1. TypeOK'
  BY Typed, BoundAssumption DEF TypeOK, Stop, Leave, dbVars
<1>2. LocalsOK(t)'
  BY Typed, LeaveStep DEF Stop
<1>3. \A u \in Task \ {t} : SameLocals(u)
  BY Typed DEF TypeOK, Stop, Leave, SameLocals
<1> QED
  BY <1>1, <1>2, <1>3, Typed, UnchangedTables, TaskStep DEF Stop

-----------------------------------------------------------------------------
LEMMA NextInv ==
    ASSUME IInv, [Next]_vars
    PROVE  IInv'
<1>1. ASSUME NEW p \in Path, Edit(p) \/ Remove(p)
      PROVE  IInv'
  BY <1>1, EditStep, RemoveStep
<1>2. ASSUME NEW t \in Task,
             \/ StartScan(t) \/ StatementFails(t) \/ Stop(t)
             \/ \E p \in Path : Refresh(t, p)
      PROVE  IInv'
  BY <1>2, StartScanStep, StatementFailsStep, StopStep, RefreshStep
<1>3. ASSUME NEW t \in Task, ScanStep(t)
      PROVE  IInv'
  BY <1>3, NextEntryStep, FinishScanStep, StatStep, UpsertTaskStep, ReadTagsStep,
     ApplyTagStep, ApplyPathStep, ApplyFtsStep DEF ScanStep
<1>4. CASE UNCHANGED vars
  <2>1. TypeOK'
    BY <1>4, Typed DEF TypeOK, vars, dbVars, taskVars
  <2> QED
    BY <1>4, <2>1, Typed, UnchangedTables, NoTaskStep DEF vars, dbVars, taskVars
<1> QED
  BY <1>1, <1>2, <1>3, <1>4 DEF Next

LEMMA Invariant == Spec => []IInv
  BY InitInv, NextInv, PTL DEF Spec

(* The tables and the locals of the scans hold values of their types. *)
THEOREM TypeCorrect == Spec => []TypeOK
<1>1. IInv => TypeOK
  BY DEF IInv
<1> QED
  BY <1>1, Invariant, PTL

(* However scans, refreshes and removals of any number of tasks interleave and
   break off, the search index has exactly the rows of the table. *)
THEOREM IndexMatchesTable == Spec => []SearchRowsAreTracks
<1>1. IInv => SearchRowsAreTracks
  BY DEF IInv, TablesOK
<1> QED
  BY <1>1, Invariant, PTL

(* No interleaving gives a file a second row. *)
THEOREM FilesHaveOneRow == Spec => []OneRowPerPath
<1>1. IInv => OneRowPerPath
  <2>1. SUFFICES ASSUME IInv, NEW p \in Path PROVE Cardinality(RowsOf(p)) <= 1
    BY DEF OneRowPerPath
  <2>2. CASE RowsOf(p) = {}
    BY <2>2, FS_EmptySet
  <2>3. CASE RowsOf(p) # {}
    <3>1. PICK i : i \in RowsOf(p)
      BY <2>3
    <3>2. RowsOf(p) = {i}
      BY <2>1, <3>1 DEF IInv, TablesOK, PathsDiffer, RowsOf
    <3> QED
      BY <3>2, FS_Singleton
  <2> QED
    BY <2>2, <2>3
<1> QED
  BY <1>1, Invariant, PTL

(* A scan that was overtaken by a removal, by another scan or by changes of its
   file never writes one file's title into another file's row. *)
THEOREM RowsKeepTheirTitles == Spec => []TitlesStayWithTheirFile
<1>1. IInv => TitlesStayWithTheirFile
  BY DEF IInv, TablesOK
<1> QED
  BY <1>1, Invariant, PTL
=============================================================================
