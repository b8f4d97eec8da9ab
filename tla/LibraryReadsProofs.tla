-------------------------- MODULE LibraryReadsProofs --------------------------
(***************************************************************************)
(* What is proved of the library's reads, for any number of readers, any   *)
(* files and any number of writes meanwhile, of what it answers to a       *)
(* question about duplicates, matches or moods, for any list, and of what  *)
(* the scanner reads from the place of a file, for any names.              *)
(***************************************************************************)
EXTENDS LibraryReads, LibraryAnswers, PathPlaces, FiniteSetTheorems, SequenceTheorems,
        WellFoundedInduction, TLAPS

-----------------------------------------------------------------------------
(* A search, from its matches to its answer: an id is never given to another
   file, so that what is under it is still the file that matched, or nothing;
   every match is still to be read, or read, or was gone at some moment. *)
ReadOf(c) ==
    /\ InProgress(c) => tracks \in during[c]
    /\ at[c] = "match" => op[c] \in {"search", "fts"}
    /\ at[c] = "count" => op[c] \notin {"search", "fts"}
    /\ at[c] # "rows" => hits[c] = {}
    /\ \A i \in DOMAIN matched[c] :
          i \in Id /\ i <= seq /\ (fts[i] # NoRow => fts[i].path = matched[c][i].path)
    /\ at[c] \in {"rows", "answered"} /\ op[c] \in {"search", "fts"} =>
          /\ hits[c] \subseteq DOMAIN matched[c] /\ DOMAIN result[c] \subseteq DOMAIN matched[c]
          /\ \A i \in DOMAIN result[c] : result[c][i].path = matched[c][i].path
          /\ \A i \in DOMAIN matched[c] :
                i \in hits[c] \/ i \in DOMAIN result[c] \/ \E t \in during[c] : t[i] = NoRow

Shapes ==
    /\ hits \in [Caller -> SUBSET Id] /\ during \in [Caller -> SUBSET Table]
    /\ result = [c \in Caller |-> result[c]] /\ matched = [c \in Caller |-> matched[c]]

IInv == TypeOK /\ Shapes /\ LogIsOfTracks /\ \A c \in Caller : ReadOf(c)

LEMMA IdProperties == Id \subseteq Int /\ \A i \in Id : i >= 1 /\ i <= MaxId
BY DEF Id

LEMMA InitHolds == Init => IInv
<1> SUFFICES ASSUME Init PROVE IInv
  OBVIOUS
<1>1. /\ tracks = [i \in Id |-> NoRow] /\ fts = [i \in Id |-> NoRow] /\ tracks \in Table
      /\ \A i \in Id : tracks[i] = NoRow /\ fts[i] = NoRow /\ log[i] = 0
  BY DEF Init, Table
<1>2. DOMAIN Nothing = {}
  BY DEF Nothing
<1>3. Shapes
  BY DEF Init, Shapes
<1>4. TypeOK
  <2>1. seq \in 0 .. MaxId /\ writes \in 0 .. MaxWrites /\ log \in [Id -> 0 .. MaxPlays]
    BY BoundAssumption DEF Init
  <2>2. /\ op \in [Caller -> Operation \cup {"none"}]
        /\ at \in [Caller -> {"idle", "match", "rows", "count", "answered", "failed"}]
        /\ word \in [Caller -> Path \cup Title \cup {NoTitle}]
        /\ \A c \in Caller : hits[c] \subseteq Id /\ DOMAIN matched[c] \subseteq Id /\ during[c] \subseteq Table
    BY <1>2 DEF Init
  <2>3. \A i \in Id : (tracks[i] = NoRow <=> fts[i] = NoRow) /\ (i > seq => tracks[i] = NoRow)
    BY <1>1
  <2>4. Live(tracks) = {}
    BY <1>1 DEF Live
  <2> QED
    BY <1>1, <2>1, <2>2, <2>3, <2>4 DEF TypeOK
<1>5. LogIsOfTracks
  BY <1>1 DEF LogIsOfTracks
<1>6. ASSUME NEW c \in Caller PROVE ReadOf(c)
  BY <1>2 DEF Init, ReadOf, InProgress
<1> QED
  BY <1>3, <1>4, <1>5, <1>6 DEF IInv

-----------------------------------------------------------------------------
(* Writes: what the readers in progress keep of what they have seen. *)
LEMMA ReadersKeep ==
    ASSUME IInv, Write, tracks' \in Table, seq' \in Int, seq <= seq',
           \A i \in Id : i <= seq /\ fts'[i] # NoRow => fts[i] # NoRow /\ fts'[i].path = fts[i].path
    PROVE  Shapes' /\ \A c \in Caller : ReadOf(c)'
<1>1. /\ UNCHANGED <<op, at, word, hits, queries, result, matched>>
      /\ during' = [c \in Caller |-> IF InProgress(c) THEN during[c] \cup {tracks'} ELSE during[c]]
  BY DEF Write
<1>2. Shapes'
  BY <1>1 DEF IInv, Shapes
<1>3. ASSUME NEW c \in Caller PROVE ReadOf(c)'
  <2>1. ReadOf(c)
    BY DEF IInv
  <2>2. during[c] \subseteq during'[c] /\ (InProgress(c)' => tracks' \in during'[c])
    BY <1>1 DEF InProgress
  <2>3. \A i \in DOMAIN matched[c] :
           i \in Id /\ i <= seq' /\ (fts'[i] # NoRow => fts'[i].path = matched[c][i].path)
    <3> SUFFICES ASSUME NEW i \in DOMAIN matched[c]
                 PROVE  i \in Id /\ i <= seq' /\ (fts'[i] # NoRow => fts'[i].path = matched[c][i].path)
      OBVIOUS
    <3>1. i \in Id /\ i <= seq /\ (fts[i] # NoRow => fts[i].path = matched[c][i].path)
      BY <2>1 DEF ReadOf
    <3>2. i \in Int /\ seq \in Int
      BY <3>1, IdProperties DEF IInv, TypeOK
    <3>3. i <= seq'
      BY <3>1, <3>2
    <3> QED
      BY <3>1, <3>3
  <2> QED
    BY <1>1, <2>1, <2>2, <2>3 DEF ReadOf
<1> QED
  BY <1>2, <1>3

(* And their types. *)
LEMMA CallTypesKeep ==
    ASSUME IInv, Write, tracks' \in Table
    PROVE  /\ writes' \in 0 .. MaxWrites
           /\ op' \in [Caller -> Operation \cup {"none"}]
           /\ at' \in [Caller -> {"idle", "match", "rows", "count", "answered", "failed"}]
           /\ word' \in [Caller -> Path \cup Title \cup {NoTitle}]
           /\ \A c \in Caller : hits'[c] \subseteq Id /\ DOMAIN matched'[c] \subseteq Id /\ during'[c] \subseteq Table
<1>1. writes' \in 0 .. MaxWrites
  BY BoundAssumption DEF IInv, TypeOK, Write
<1> QED
  BY <1>1 DEF IInv, TypeOK, Write

LEMMA UpsertKeeps == ASSUME IInv, NEW p \in Path, UpsertTrackPath(p) PROVE IInv'
<1> DEFINE n == seq + 1
           row == [path |-> p, title |-> NoTitle]
<1>1. /\ n \in Id /\ tracks' = [tracks EXCEPT ![n] = row] /\ fts' = [fts EXCEPT ![n] = row]
      /\ seq' = Max({seq, n}) /\ log' = log /\ Write
  BY DEF UpsertTrackPath, NewId
<1>2. seq \in Int /\ seq' = n /\ row \in Row /\ row # NoRow
  <2>1. seq \in Int
    BY DEF IInv, TypeOK
  <2>2. Max({seq, n}) = n
    BY <2>1 DEF Max
  <2>3. row \in Row
    BY DEF Row
  <2> QED
    BY <1>1, <2>1, <2>2, <2>3, NoneAssumption
<1>3. tracks' \in Table /\ fts' \in Table
  BY <1>1, <1>2 DEF IInv, TypeOK, Table
<1>4. ASSUME NEW i \in Id PROVE tracks'[i] = (IF i = n THEN row ELSE tracks[i]) /\ fts'[i] = (IF i = n THEN row ELSE fts[i])
  BY <1>1 DEF IInv, TypeOK, Table
<1>5. Shapes' /\ \A c \in Caller : ReadOf(c)'
  <2>1. \A i \in Id : i <= seq => i # n
    BY <1>2, IdProperties
  <2> QED
    BY <1>1, <1>2, <1>3, <1>4, <2>1, ReadersKeep
<1>6. TypeOK'
  <2>1. /\ \A i \in Id : (tracks'[i] = NoRow <=> fts'[i] = NoRow) /\ (i > seq' => tracks'[i] = NoRow)
    <3> SUFFICES ASSUME NEW i \in Id
                 PROVE  (tracks'[i] = NoRow <=> fts'[i] = NoRow) /\ (i > seq' => tracks'[i] = NoRow)
      OBVIOUS
    <3>1. i \in Int /\ (tracks[i] = NoRow <=> fts[i] = NoRow) /\ (i > seq => tracks[i] = NoRow)
      BY IdProperties DEF IInv, TypeOK
    <3> QED
      BY <1>2, <1>4, <3>1
  <2>2. \A i \in Live(tracks') : fts'[i].path = tracks'[i].path
    BY <1>4 DEF IInv, TypeOK, Live
  <2>3. seq' \in 0 .. MaxId
    BY <1>1, <1>2, IdProperties
  <2> QED
    BY <1>1, <1>3, <2>1, <2>2, <2>3, CallTypesKeep DEF IInv, TypeOK
<1>7. LogIsOfTracks'
  BY <1>1, <1>2, <1>4 DEF IInv, LogIsOfTracks
<1> QED
  BY <1>5, <1>6, <1>7 DEF IInv

(* A title that changes, in the table and its index or in the index alone. *)
LEMMA TitleKeeps ==
    ASSUME IInv, NEW i \in Id, NEW t \in Title, SetTitle(i, t) \/ UpdateFts(i, t)
    PROVE  IInv'
<1>1. /\ fts[i] # NoRow /\ fts' = [fts EXCEPT ![i].title = t] /\ seq' = seq /\ log' = log /\ Write
      /\ tracks' = tracks \/ (tracks[i] # NoRow /\ tracks' = [tracks EXCEPT ![i].title = t])
  BY DEF SetTitle, UpdateFts, Live, IInv, TypeOK
<1>2. tracks[i] # NoRow /\ tracks[i] \in Row /\ fts[i] \in Row
  BY <1>1 DEF IInv, TypeOK, Table
<1>3. ASSUME NEW r \in Row
      PROVE  [r EXCEPT !.title = t] \in Row /\ [r EXCEPT !.title = t].path = r.path /\ [r EXCEPT !.title = t] # NoRow
  <2>1. [r EXCEPT !.title = t] \in Row /\ [r EXCEPT !.title = t].path = r.path
    BY <1>3 DEF Row
  <2> QED
    BY <2>1, NoneAssumption
<1>4. tracks' \in Table /\ fts' \in Table
  BY <1>1, <1>2, <1>3 DEF IInv, TypeOK, Table
<1>5. ASSUME NEW j \in Id
      PROVE  /\ fts'[j] = NoRow <=> fts[j] = NoRow
             /\ tracks'[j] = NoRow <=> tracks[j] = NoRow
             /\ fts[j] # NoRow => fts'[j].path = fts[j].path
             /\ tracks[j] # NoRow => tracks'[j].path = tracks[j].path
  <2>1. CASE j = i
    BY <1>1, <1>2, <1>3, <2>1 DEF IInv, TypeOK, Table
  <2>2. CASE j # i
    BY <1>1, <2>2 DEF IInv, TypeOK, Table
  <2> QED
    BY <2>1, <2>2
<1>6. Shapes' /\ \A c \in Caller : ReadOf(c)'
  <2>1. seq' \in Int /\ seq <= seq'
    BY <1>1 DEF IInv, TypeOK
  <2> QED
    BY <1>1, <1>4, <1>5, <2>1, ReadersKeep
<1>7. TypeOK'
  <2>1. /\ \A j \in Id : (tracks'[j] = NoRow <=> fts'[j] = NoRow) /\ (j > seq' => tracks'[j] = NoRow)
    BY <1>1, <1>5 DEF IInv, TypeOK
  <2>2. \A j \in Live(tracks') : fts'[j].path = tracks'[j].path
    BY <1>5 DEF IInv, TypeOK, Live
  <2> QED
    BY <1>1, <1>4, <2>1, <2>2, CallTypesKeep DEF IInv, TypeOK
<1>8. LogIsOfTracks'
  BY <1>1, <1>5 DEF IInv, LogIsOfTracks
<1> QED
  BY <1>6, <1>7, <1>8 DEF IInv

(* A deletion takes the log of the track with it. *)
LEMMA DeleteKeeps == ASSUME IInv, NEW i \in Id, DeleteTrack(i) PROVE IInv'
<1>1. /\ tracks' = [tracks EXCEPT ![i] = NoRow] /\ fts' = [fts EXCEPT ![i] = NoRow]
      /\ log' = [log EXCEPT ![i] = 0] /\ seq' = seq /\ Write
  BY DEF DeleteTrack, Cascaded
<1>2. tracks' \in Table /\ fts' \in Table
  BY <1>1 DEF IInv, TypeOK, Table
<1>3. ASSUME NEW j \in Id
      PROVE  /\ tracks'[j] = (IF j = i THEN NoRow ELSE tracks[j]) /\ fts'[j] = (IF j = i THEN NoRow ELSE fts[j])
             /\ log'[j] = (IF j = i THEN 0 ELSE log[j])
  BY <1>1 DEF IInv, TypeOK, Table
<1>4. Shapes' /\ \A c \in Caller : ReadOf(c)'
  <2>1. seq' \in Int /\ seq <= seq'
    BY <1>1 DEF IInv, TypeOK
  <2> QED
    BY <1>1, <1>2, <1>3, <2>1, ReadersKeep
<1>5. TypeOK'
  <2>1. log' \in [Id -> 0 .. MaxPlays]
    BY <1>1, BoundAssumption DEF IInv, TypeOK
  <2>2. /\ \A j \in Id : (tracks'[j] = NoRow <=> fts'[j] = NoRow) /\ (j > seq' => tracks'[j] = NoRow)
    BY <1>1, <1>3 DEF IInv, TypeOK
  <2>3. \A j \in Live(tracks') : fts'[j].path = tracks'[j].path
    BY <1>3 DEF IInv, TypeOK, Live
  <2> QED
    BY <1>1, <1>2, <2>1, <2>2, <2>3, CallTypesKeep DEF IInv, TypeOK
<1>6. LogIsOfTracks'
  BY <1>3 DEF IInv, LogIsOfTracks
<1> QED
  BY <1>4, <1>5, <1>6 DEF IInv

(* What is played, and midnight. *)
LEMMA LogKeeps == ASSUME IInv, (\E i \in Id : Record(i)) \/ Midnight PROVE IInv'
<1>1. UNCHANGED <<tracks, fts, seq>> /\ Write
  BY DEF Record, Midnight
<1>2. /\ log' \in [Id -> 0 .. MaxPlays]
      /\ \A j \in Id : log'[j] > 0 => log[j] > 0 \/ tracks[j] # NoRow
  <2>1. ASSUME NEW i \in Id, Record(i)
        PROVE  /\ log' \in [Id -> 0 .. MaxPlays]
               /\ \A j \in Id : log'[j] > 0 => log[j] > 0 \/ tracks[j] # NoRow
    <3>1. tracks[i] # NoRow /\ log[i] < MaxPlays /\ log' = [log EXCEPT ![i] = log[i] + 1]
      BY <2>1 DEF Record, Live
    <3>2. log[i] \in 0 .. MaxPlays /\ log \in [Id -> 0 .. MaxPlays]
      BY DEF IInv, TypeOK
    <3>3. log[i] + 1 \in 0 .. MaxPlays
      BY <3>1, <3>2, BoundAssumption
    <3> QED
      BY <3>1, <3>2, <3>3
  <2>2. CASE Midnight
    BY <2>2, BoundAssumption DEF Midnight
  <2> QED
    BY <2>1, <2>2
<1>3. Shapes' /\ \A c \in Caller : ReadOf(c)'
  <2>1. seq' \in Int /\ seq <= seq' /\ tracks' \in Table
    BY <1>1 DEF IInv, TypeOK
  <2> QED
    BY <1>1, <2>1, ReadersKeep
<1>4. TypeOK'
  <2>1. tracks' \in Table
    BY <1>1 DEF IInv, TypeOK
  <2> QED
    BY <1>1, <1>2, <2>1, CallTypesKeep DEF IInv, TypeOK
<1>5. LogIsOfTracks'
  BY <1>1, <1>2 DEF IInv, LogIsOfTracks
<1> QED
  BY <1>3, <1>4, <1>5 DEF IInv

-----------------------------------------------------------------------------
(* Reads: one reader takes a step, the database and the others stay. *)
Becomes(c, o, a, w, h, r, m, u) ==
    /\ UNCHANGED db
    /\ op' = [op EXCEPT ![c] = o] /\ at' = [at EXCEPT ![c] = a] /\ word' = [word EXCEPT ![c] = w]
    /\ hits' = [hits EXCEPT ![c] = h] /\ result' = [result EXCEPT ![c] = r]
    /\ matched' = [matched EXCEPT ![c] = m] /\ during' = [during EXCEPT ![c] = u]

LEMMA ReaderKeeps ==
    ASSUME IInv, NEW c \in Caller, NEW o, NEW a, NEW w, NEW h, NEW r, NEW m, NEW u,
           Becomes(c, o, a, w, h, r, m, u),
           o \in Operation \cup {"none"},
           a \in {"idle", "match", "rows", "count", "answered", "failed"},
           w \in Path \cup Title \cup {NoTitle}, h \subseteq Id, DOMAIN m \subseteq Id, u \subseteq Table,
           ReadOf(c)'
    PROVE  IInv'
<1> USE DEF Becomes
<1>1. UNCHANGED <<tracks, fts, seq, log, writes>>
  BY DEF db
<1>2. Shapes'
  BY DEF IInv, Shapes
<1>3. TypeOK'
  <2>1. \A d \in Caller : hits'[d] \subseteq Id /\ DOMAIN matched'[d] \subseteq Id /\ during'[d] \subseteq Table
    BY DEF IInv, TypeOK, Shapes
  <2>2. /\ op' \in [Caller -> Operation \cup {"none"}]
        /\ at' \in [Caller -> {"idle", "match", "rows", "count", "answered", "failed"}]
        /\ word' \in [Caller -> Path \cup Title \cup {NoTitle}]
    BY DEF IInv, TypeOK
  <2> QED
    BY <1>1, <2>1, <2>2 DEF IInv, TypeOK, Live
<1>4. LogIsOfTracks'
  BY <1>1 DEF IInv, LogIsOfTracks
<1>5. ASSUME NEW d \in Caller, d # c PROVE ReadOf(d)'
  <2>1. ReadOf(d)
    BY DEF IInv
  <2>2. /\ op'[d] = op[d] /\ at'[d] = at[d] /\ hits'[d] = hits[d] /\ result'[d] = result[d]
        /\ matched'[d] = matched[d] /\ during'[d] = during[d]
    BY <1>5 DEF IInv, TypeOK, Shapes
  <2> QED
    BY <1>1, <2>1, <2>2 DEF ReadOf, InProgress
<1> QED
  BY <1>2, <1>3, <1>4, <1>5 DEF IInv

(* What a step of the reader leaves, put in the form above. *)
LEMMA Untouched ==
    ASSUME IInv, NEW c \in Caller
    PROVE  /\ op = [op EXCEPT ![c] = op[c]] /\ word = [word EXCEPT ![c] = word[c]]
           /\ hits = [hits EXCEPT ![c] = hits[c]] /\ during = [during EXCEPT ![c] = during[c]]
           /\ result = [result EXCEPT ![c] = result[c]] /\ matched = [matched EXCEPT ![c] = matched[c]]
           /\ op[c] \in Operation \cup {"none"} /\ word[c] \in Path \cup Title \cup {NoTitle}
           /\ hits[c] \subseteq Id /\ during[c] \subseteq Table /\ DOMAIN matched[c] \subseteq Id
<1>1. op = [op EXCEPT ![c] = op[c]] /\ word = [word EXCEPT ![c] = word[c]]
  BY DEF IInv, TypeOK
<1>2. hits = [hits EXCEPT ![c] = hits[c]] /\ during = [during EXCEPT ![c] = during[c]]
  BY DEF IInv, Shapes
<1>3. result = [result EXCEPT ![c] = result[c]] /\ matched = [matched EXCEPT ![c] = matched[c]]
  BY DEF IInv, Shapes
<1> QED
  BY <1>1, <1>2, <1>3 DEF IInv, TypeOK, Shapes

LEMMA BeginKeeps ==
    ASSUME IInv, NEW c \in Caller, NEW o \in Operation, NEW w \in Path \cup Title \cup {NoTitle},
           NEW first \in {"match", "count"}, first = "match" <=> o \in {"search", "fts"},
           Begin(c, o, w, first)
    PROVE  IInv'
<1>1. /\ at[c] = "idle" /\ UNCHANGED db /\ UNCHANGED <<hits, result, matched>>
      /\ op' = [op EXCEPT ![c] = o] /\ at' = [at EXCEPT ![c] = first] /\ word' = [word EXCEPT ![c] = w]
      /\ during' = [during EXCEPT ![c] = {tracks}]
  BY DEF Begin
<1>2. /\ op'[c] = o /\ at'[c] = first /\ during'[c] = {tracks} /\ tracks' = tracks /\ fts' = fts /\ seq' = seq
      /\ {tracks} \in SUBSET Table
  BY <1>1 DEF IInv, TypeOK, Shapes, db
<1>3. ReadOf(c)
  BY DEF IInv
<1>4. ReadOf(c)'
  BY <1>1, <1>2, <1>3 DEF ReadOf, InProgress
<1>5. Becomes(c, o, first, w, hits[c], result[c], matched[c], {tracks})
  BY <1>1, Untouched DEF Becomes
<1> QED
  BY <1>2, <1>4, <1>5, Untouched, ReaderKeeps

LEMMA MatchKeeps == ASSUME IInv, NEW c \in Caller, Match(c) PROVE IInv'
<1> DEFINE found == {i \in Live(fts) : Matches(fts[i], word[c])}
<1>1. PICK best \in kSubset(Min({Limit, Cardinality(found)}), found) :
              /\ matched' = [matched EXCEPT ![c] = [i \in best |-> fts[i]]]
              /\ hits' = [hits EXCEPT ![c] = IF op[c] = "fts" THEN best ELSE {}]
              /\ result' = [result EXCEPT ![c] = IF op[c] = "fts" THEN Nothing ELSE [i \in best |-> fts[i]]]
              /\ at' = [at EXCEPT ![c] = IF op[c] = "fts" /\ best # {} THEN "rows" ELSE "answered"]
  BY DEF Match, Go
<1>2. at[c] = "match" /\ UNCHANGED db /\ UNCHANGED <<op, word, queries, during>>
  BY DEF Match
<1>3. best \subseteq Live(fts) /\ best \subseteq Id
  BY DEF kSubset, Live
<1> DEFINE m == [i \in best |-> fts[i]]
           h == IF op[c] = "fts" THEN best ELSE {}
           r == IF op[c] = "fts" THEN Nothing ELSE m
           a == IF op[c] = "fts" /\ best # {} THEN "rows" ELSE "answered"
<1>4. /\ matched'[c] = m /\ hits'[c] = h /\ result'[c] = r /\ at'[c] = a /\ op'[c] = op[c] /\ during'[c] = during[c]
      /\ tracks' = tracks /\ fts' = fts /\ seq' = seq
  BY <1>1, <1>2 DEF IInv, TypeOK, Shapes, db
<1>5. ReadOf(c) /\ op[c] \in {"search", "fts"} /\ tracks \in during[c]
  BY <1>2 DEF IInv, ReadOf, InProgress
<1>6. DOMAIN m = best /\ (\A i \in best : m[i] = fts[i]) /\ DOMAIN Nothing = {}
  BY DEF Nothing
<1>7. \A i \in best : i \in Id /\ i <= seq
  <2> SUFFICES ASSUME NEW i \in best PROVE i \in Id /\ i <= seq
    OBVIOUS
  <2>1. i \in Id /\ i \in Int /\ fts[i] # NoRow
    BY <1>3, IdProperties DEF Live
  <2>2. seq \in Int
    BY DEF IInv, TypeOK
  <2>3. (tracks[i] = NoRow <=> fts[i] = NoRow) /\ (i > seq => tracks[i] = NoRow)
    BY <2>1 DEF IInv, TypeOK
  <2>4. ~(i > seq)
    BY <2>1, <2>3
  <2> QED
    BY <2>1, <2>2, <2>4
<1> HIDE DEF m
<1>8. ReadOf(c)'
  <2>1. InProgress(c)' => tracks' \in during'[c]
    BY <1>4, <1>5
  <2>2. at'[c] \notin {"match", "count"} /\ (at'[c] # "rows" => hits'[c] = {})
    BY <1>4
  <2>3. \A i \in DOMAIN matched'[c] :
          i \in Id /\ i <= seq' /\ (fts'[i] # NoRow => fts'[i].path = matched'[c][i].path)
    BY <1>4, <1>6, <1>7
  <2>4. CASE op[c] = "fts"
    <3>1. hits'[c] = best /\ DOMAIN result'[c] = {} /\ DOMAIN matched'[c] = best
      BY <1>4, <1>6, <2>4
    <3> QED
      BY <2>1, <2>2, <2>3, <3>1 DEF ReadOf
  <2>5. CASE op[c] = "search"
    <3>1. hits'[c] = {} /\ result'[c] = matched'[c]
      BY <1>4, <2>5
    <3> QED
      BY <2>1, <2>2, <2>3, <3>1 DEF ReadOf
  <2> QED
    BY <1>5, <2>4, <2>5
<1>9. Becomes(c, op[c], a, word[c], h, r, m, during[c])
  BY <1>1, <1>2, Untouched DEF Becomes, m
<1>10. h \subseteq Id /\ DOMAIN m \subseteq Id /\ a \in {"rows", "answered"}
  BY <1>3, <1>6
<1> HIDE DEF h, r, a
<1> QED
  BY <1>8, <1>9, <1>10, Untouched, ReaderKeeps

(* A row that is gone by now was gone at this moment of the call. *)
LEMMA ReadHitKeeps == ASSUME IInv, NEW c \in Caller, ReadHit(c) PROVE IInv'
<1>1. PICK i \in hits[c] :
        /\ at[c] = "rows" /\ hits' = [hits EXCEPT ![c] = hits[c] \ {i}]
        /\ IF fts[i] = NoRow THEN UNCHANGED result ELSE Keep(c, i, fts[i])
        /\ Go(c, IF hits'[c] = {} THEN "answered" ELSE "rows")
        /\ UNCHANGED <<db, op, word, queries, matched, during>>
  BY DEF ReadHit
<1> DEFINE read == [k \in DOMAIN result[c] \cup {i} |-> IF k = i THEN fts[i] ELSE result[c][k]]
           r == IF fts[i] = NoRow THEN result[c] ELSE read
           a == IF hits[c] \ {i} = {} THEN "answered" ELSE "rows"
<1>2. /\ result' = [result EXCEPT ![c] = r] /\ hits'[c] = hits[c] \ {i} /\ at' = [at EXCEPT ![c] = a]
  BY <1>1, Untouched DEF Keep, Go, IInv, Shapes
<1>3. DOMAIN read = DOMAIN result[c] \cup {i} /\ \A k \in DOMAIN read : read[k] = IF k = i THEN fts[i] ELSE result[c][k]
  OBVIOUS
<1> HIDE DEF read
<1>4. /\ result'[c] = r /\ at'[c] = a /\ op'[c] = op[c] /\ during'[c] = during[c] /\ matched'[c] = matched[c]
      /\ tracks' = tracks /\ fts' = fts /\ seq' = seq
  BY <1>1, <1>2 DEF IInv, TypeOK, Shapes, db
<1>5. ReadOf(c) /\ tracks \in during[c] /\ (fts[i] = NoRow => tracks[i] = NoRow)
  <2>1. i \in Id
    BY DEF IInv, Shapes
  <2> QED
    BY <1>1, <2>1 DEF IInv, TypeOK, ReadOf, InProgress
<1>6. ReadOf(c)'
  <2>1. /\ InProgress(c)' => tracks' \in during'[c]
        /\ at'[c] \notin {"match", "count"} /\ (at'[c] # "rows" => hits'[c] = {})
        /\ \A j \in DOMAIN matched'[c] :
             j \in Id /\ j <= seq' /\ (fts'[j] # NoRow => fts'[j].path = matched'[c][j].path)
    BY <1>2, <1>4, <1>5 DEF ReadOf
  <2>2. ASSUME op[c] \in {"search", "fts"}
        PROVE  /\ hits'[c] \subseteq DOMAIN matched[c] /\ DOMAIN result'[c] \subseteq DOMAIN matched[c]
               /\ \A j \in DOMAIN result'[c] : result'[c][j].path = matched[c][j].path
               /\ \A j \in DOMAIN matched[c] :
                    j \in hits'[c] \/ j \in DOMAIN result'[c] \/ \E t \in during[c] : t[j] = NoRow
    <3>1. /\ hits[c] \subseteq DOMAIN matched[c] /\ DOMAIN result[c] \subseteq DOMAIN matched[c]
          /\ \A j \in DOMAIN result[c] : result[c][j].path = matched[c][j].path
          /\ \A j \in DOMAIN matched[c] :
               j \in hits[c] \/ j \in DOMAIN result[c] \/ \E t \in during[c] : t[j] = NoRow
          /\ fts[i] # NoRow => fts[i].path = matched[c][i].path
      BY <1>1, <1>5, <2>2 DEF ReadOf
    <3>2. CASE fts[i] = NoRow
      BY <1>2, <1>4, <1>5, <3>1, <3>2
    <3>3. CASE fts[i] # NoRow
      BY <1>2, <1>3, <1>4, <3>1, <3>3
    <3> QED
      BY <3>2, <3>3
  <2> QED
    BY <1>4, <2>1, <2>2 DEF ReadOf
<1>7. hits[c] \ {i} \in SUBSET Id
  BY DEF IInv, Shapes
<1>8. Becomes(c, op[c], a, word[c], hits[c] \ {i}, r, matched[c], during[c])
  BY <1>1, <1>2, Untouched DEF Becomes
<1>9. a \in {"rows", "answered"}
  OBVIOUS
<1> HIDE DEF r, a
<1> QED
  BY <1>6, <1>7, <1>8, <1>9, Untouched, ReaderKeeps

LEMMA CountKeeps == ASSUME IInv, NEW c \in Caller, Count(c) PROVE IInv'
<1> DEFINE key == Head(queries[c])
           r == [k \in DOMAIN result[c] \cup {key} |-> IF k = key THEN Value(key) ELSE result[c][k]]
           a == IF Len(queries[c]) = 1 THEN "answered" ELSE "count"
<1>1. /\ at[c] = "count" /\ result' = [result EXCEPT ![c] = r] /\ at' = [at EXCEPT ![c] = a]
      /\ UNCHANGED db /\ UNCHANGED <<op, word, hits, matched, during>>
  BY DEF Count, Keep, Go
<1> HIDE DEF r
<1>2. at'[c] = a /\ tracks' = tracks /\ fts' = fts /\ seq' = seq
  BY <1>1 DEF IInv, TypeOK, db
<1>3. ReadOf(c)
  BY DEF IInv
<1>4. ReadOf(c)'
  BY <1>1, <1>2, <1>3 DEF ReadOf, InProgress
<1>5. Becomes(c, op[c], a, word[c], hits[c], r, matched[c], during[c])
  BY <1>1, Untouched DEF Becomes
<1>6. a \in {"count", "answered"}
  OBVIOUS
<1> HIDE DEF a
<1> QED
  BY <1>4, <1>5, <1>6, Untouched, ReaderKeeps

LEMMA FailKeeps == ASSUME IInv, NEW c \in Caller, Fail(c) PROVE IInv'
<1>1. /\ result' = [result EXCEPT ![c] = Nothing] /\ at' = [at EXCEPT ![c] = "failed"]
      /\ hits' = [hits EXCEPT ![c] = {}] /\ UNCHANGED db /\ UNCHANGED <<op, word, matched, during>>
  BY DEF Fail, Go
<1>2. at'[c] = "failed" /\ hits'[c] = {} /\ tracks' = tracks /\ fts' = fts /\ seq' = seq
  BY <1>1 DEF IInv, TypeOK, Shapes, db
<1>3. ReadOf(c)
  BY DEF IInv
<1>4. ReadOf(c)'
  BY <1>1, <1>2, <1>3 DEF ReadOf, InProgress
<1>5. Becomes(c, op[c], "failed", word[c], {}, Nothing, matched[c], during[c])
  BY <1>1, Untouched DEF Becomes
<1> QED
  BY <1>4, <1>5, Untouched, ReaderKeeps

LEMMA ReturnKeeps == ASSUME IInv, NEW c \in Caller, Return(c) PROVE IInv'
<1>1. /\ at[c] \in {"answered", "failed"} /\ at' = [at EXCEPT ![c] = "idle"] /\ op' = [op EXCEPT ![c] = "none"]
      /\ word' = [word EXCEPT ![c] = NoTitle] /\ result' = [result EXCEPT ![c] = Nothing]
      /\ matched' = [matched EXCEPT ![c] = Nothing] /\ during' = [during EXCEPT ![c] = {}]
      /\ UNCHANGED db /\ UNCHANGED hits
  BY DEF Return, Go
<1>2. DOMAIN Nothing = {}
  BY DEF Nothing
<1>3. at'[c] = "idle" /\ matched'[c] = Nothing /\ hits'[c] = hits[c]
  BY <1>1 DEF IInv, TypeOK, Shapes
<1>4. ReadOf(c)
  BY DEF IInv
<1>5. ReadOf(c)'
  BY <1>1, <1>2, <1>3, <1>4 DEF ReadOf, InProgress
<1>6. Becomes(c, "none", "idle", NoTitle, hits[c], Nothing, Nothing, {})
  BY <1>1, Untouched DEF Becomes
<1> QED
  BY <1>2, <1>5, <1>6, Untouched, ReaderKeeps

-----------------------------------------------------------------------------
LEMMA StepKeeps == IInv /\ [Next]_vars => IInv'
<1> SUFFICES ASSUME IInv, [Next]_vars PROVE IInv'
  OBVIOUS
<1>1. ASSUME NEW c \in Caller, BeginSearch(c) \/ BeginCounts(c) PROVE IInv'
  <2>1. CASE BeginSearch(c)
    <3>1. PICK o \in {"search", "fts"}, w \in Path \cup Title : Begin(c, o, w, "match")
      BY <2>1 DEF BeginSearch
    <3>2. o \in Operation /\ w \in Path \cup Title \cup {NoTitle}
      BY DEF Operation
    <3> QED
      BY <3>1, <3>2, BeginKeeps
  <2>2. CASE BeginCounts(c)
    <3>1. PICK o \in {"tree_counts", "all_facets", "overview"} : Begin(c, o, NoTitle, "count")
      BY <2>2 DEF BeginCounts
    <3>2. o \in Operation /\ o \notin {"search", "fts"}
      BY DEF Operation
    <3> QED
      BY <3>1, <3>2, BeginKeeps
  <2> QED
    BY <1>1, <2>1, <2>2
<1>2. CASE UNCHANGED vars
  <2>1. /\ UNCHANGED <<tracks, fts, seq, log, writes>>
        /\ UNCHANGED <<op, at, word, hits, queries, result, matched, during>>
    BY <1>2 DEF vars, db, calls
  <2>2. TypeOK' /\ Shapes' /\ LogIsOfTracks'
    BY <2>1 DEF IInv, TypeOK, Shapes, LogIsOfTracks, Live
  <2>3. ASSUME NEW c \in Caller PROVE ReadOf(c)'
    BY <2>1 DEF IInv, ReadOf, InProgress
  <2> QED
    BY <2>2, <2>3 DEF IInv
<1>3. CASE Next
  BY <1>1, <1>3, UpsertKeeps, TitleKeeps, DeleteKeeps, LogKeeps, MatchKeeps, ReadHitKeeps, CountKeeps,
     FailKeeps, ReturnKeeps DEF Next
<1> QED
  BY <1>2, <1>3

LEMMA Invariant == Spec => []IInv
BY InitHolds, StepKeeps, PTL DEF Spec

(* The two tables keep the same rows under the same ids and paths, no id beyond
   the last one given has a row, and readers stay of their types. *)
THEOREM TypeCorrect == Spec => []TypeOK
BY Invariant, PTL DEF IInv

(* playback_log and its foreign key: no play is kept of a track that is gone. *)
THEOREM LogIsOfLiveTracks == Spec => []LogIsOfTracks
BY Invariant, PTL DEF IInv

(* search::fts and Library::search: rows that are read one by one while files
   come and go are those of the matches, and none that stayed is left out. *)
THEOREM SearchesAreAnswered == Spec => []SearchAnswersItsMatches
<1>1. ASSUME IInv, NEW c \in Caller, Answered(c, {"search", "fts"})
      PROVE  /\ DOMAIN result[c] \subseteq DOMAIN matched[c]
             /\ \A i \in DOMAIN result[c] : result[c][i].path = matched[c][i].path
             /\ \A i \in DOMAIN matched[c] :
                   (\A t \in during[c] : t[i] # NoRow) => i \in DOMAIN result[c]
  <2>1. ReadOf(c) /\ at[c] = "answered" /\ op[c] \in {"search", "fts"}
    BY <1>1 DEF IInv, Answered
  <2>2. hits[c] = {}
    BY <2>1 DEF ReadOf
  <2> QED
    BY <2>1, <2>2 DEF ReadOf
<1>2. IInv => SearchAnswersItsMatches
  BY <1>1 DEF SearchAnswersItsMatches
<1> QED
  BY <1>2, Invariant, PTL

-----------------------------------------------------------------------------
(* An overview: every count is still to be made, or is of one of the states the
   tracks had during the call; and all have been made once it is answered. *)
Query == {TreeQueries[i] : i \in 1 .. 7} \cup {FacetQueries[i] : i \in 1 .. 3} \cup {"today"}
Counted == {"all_music", "recently_added", "facet_formats"}
CountAt(q, t) == IF q = "facet_formats" THEN FacetFormats(t) ELSE Cardinality(Live(t))
Pending(q, s) == \E j \in 1 .. Len(s) : s[j] = q
CountedDuring(q, r, u) == q \in DOMAIN r /\ \E t \in u : r[q] = CountAt(q, t)

OverviewOf(c) ==
    /\ at[c] = "rows" => op[c] = "fts"
    /\ at[c] \in {"count", "answered"} /\ op[c] = "overview" =>
          /\ queries[c] \in Seq(Query)
          /\ Len(queries[c]) = 0 <=> at[c] = "answered"
          /\ \A q \in Counted : Pending(q, queries[c]) \/ CountedDuring(q, result[c], during[c])

OInv == queries = [c \in Caller |-> queries[c]] /\ \A c \in Caller : OverviewOf(c)

LEMMA Appended ==
    ASSUME NEW S, NEW a \in Seq(S), NEW b \in Seq(S)
    PROVE  /\ a \o b \in Seq(S) /\ Len(a \o b) = Len(a) + Len(b)
           /\ \A i \in 1 .. Len(a) : (a \o b)[i] = a[i]
           /\ \A i \in 1 .. Len(b) : (a \o b)[Len(a) + i] = b[i]
OBVIOUS

LEMMA AppendedTwice ==
    ASSUME NEW S, NEW a \in Seq(S), NEW b \in Seq(S), NEW d \in Seq(S), NEW s, s = (a \o b) \o d
    PROVE  /\ s \in Seq(S) /\ Len(s) = Len(a) + Len(b) + Len(d)
           /\ \A i \in 1 .. Len(a) : s[i] = a[i]
           /\ \A i \in 1 .. Len(b) : s[Len(a) + i] = b[i]
<1>1. PICK p \in Seq(S) : p = a \o b
  BY Appended
<1>2. /\ Len(p) = Len(a) + Len(b) /\ Len(a) \in Nat /\ Len(b) \in Nat
      /\ \A i \in 1 .. Len(a) : p[i] = a[i]
      /\ \A i \in 1 .. Len(b) : p[Len(a) + i] = b[i]
  BY <1>1, Appended
<1>3. s = p \o d /\ s \in Seq(S)
  BY <1>1, Appended
<1>4. Len(s) = Len(p) + Len(d) /\ \A i \in 1 .. Len(p) : s[i] = p[i]
  BY <1>3, Appended
<1>5. /\ \A i \in 1 .. Len(a) : i \in 1 .. Len(p)
      /\ \A i \in 1 .. Len(b) : Len(a) + i \in 1 .. Len(p)
  BY <1>2
<1> QED
  BY <1>2, <1>3, <1>4, <1>5

LEMMA OverviewQueries ==
    /\ QueriesOf("overview") \in Seq(Query) /\ Len(QueriesOf("overview")) # 0
    /\ \A q \in Counted : Pending(q, QueriesOf("overview"))
<1> DEFINE R == <<"today">>
           Q == QueriesOf("overview")
<1>1. Q = (TreeQueries \o FacetQueries) \o R
  BY DEF QueriesOf
<1>2. TreeQueries \in Seq(Query) /\ FacetQueries \in Seq(Query) /\ R \in Seq(Query)
  BY DEF TreeQueries, FacetQueries, Query
<1>3. Len(TreeQueries) = 7 /\ Len(FacetQueries) = 3 /\ Len(R) = 1
  BY DEF TreeQueries, FacetQueries
<1> HIDE DEF Q, R
<1>4. /\ Q \in Seq(Query) /\ Len(Q) = Len(TreeQueries) + Len(FacetQueries) + Len(R)
      /\ \A i \in 1 .. Len(TreeQueries) : Q[i] = TreeQueries[i]
      /\ \A i \in 1 .. Len(FacetQueries) : Q[Len(TreeQueries) + i] = FacetQueries[i]
  BY <1>1, <1>2, AppendedTwice
<1>5. Q[1] = TreeQueries[1] /\ Q[5] = TreeQueries[5] /\ Q[10] = FacetQueries[3] /\ Len(Q) = 11
  <2>1. 1 \in 1 .. 7 /\ 5 \in 1 .. 7 /\ 3 \in 1 .. 3 /\ 7 + 3 = 10 /\ 7 + 3 + 1 = 11
    OBVIOUS
  <2> QED
    BY <1>3, <1>4, <2>1
<1>6. Q[1] = "all_music" /\ Q[5] = "recently_added" /\ Q[10] = "facet_formats"
  BY <1>5 DEF TreeQueries, FacetQueries
<1>7. Pending("all_music", Q) /\ Pending("recently_added", Q) /\ Pending("facet_formats", Q)
  <2>1. 1 \in 1 .. Len(Q) /\ 5 \in 1 .. Len(Q) /\ 10 \in 1 .. Len(Q)
    BY <1>5
  <2> QED
    BY <1>6, <2>1 DEF Pending
<1>8. Len(Q) # 0
  BY <1>5
<1> QED
  BY <1>4, <1>7, <1>8 DEF Q, Counted

(* A reader for whom nothing changes, but that `tracks` may have had another state. *)
LEMMA OverviewKept ==
    ASSUME NEW c \in Caller, OverviewOf(c),
           op'[c] = op[c], at'[c] = at[c], queries'[c] = queries[c], result'[c] = result[c],
           during[c] \subseteq during'[c]
    PROVE  OverviewOf(c)'
BY DEF OverviewOf, CountedDuring, Pending, CountAt, FacetFormats, Live

LEMMA WriteKeepsOverview == ASSUME OInv, Write PROVE OInv'
<1>1. /\ UNCHANGED <<op, at, queries, result>>
      /\ during' = [c \in Caller |-> IF InProgress(c) THEN during[c] \cup {tracks'} ELSE during[c]]
  BY DEF Write
<1>2. ASSUME NEW c \in Caller PROVE OverviewOf(c)'
  <2>1. during[c] \subseteq during'[c]
    BY <1>1
  <2> QED
    BY <1>1, <2>1, OverviewKept DEF OInv
<1> QED
  BY <1>1, <1>2 DEF OInv

(* One reader takes a step, the others keep what they have. *)
LEMMA OthersKeepOverview ==
    ASSUME IInv, OInv, NEW c \in Caller, NEW o, NEW a, NEW s, NEW r, NEW u,
           op' = [op EXCEPT ![c] = o], at' = [at EXCEPT ![c] = a], queries' = [queries EXCEPT ![c] = s],
           result' = [result EXCEPT ![c] = r], during' = [during EXCEPT ![c] = u],
           op'[c] = o /\ at'[c] = a /\ queries'[c] = s /\ result'[c] = r /\ during'[c] = u => OverviewOf(c)'
    PROVE  OInv'
<1>1. OverviewOf(c)'
  BY DEF IInv, TypeOK, Shapes, OInv
<1>2. ASSUME NEW d \in Caller, d # c PROVE OverviewOf(d)'
  <2>1. op'[d] = op[d] /\ at'[d] = at[d] /\ queries'[d] = queries[d] /\ result'[d] = result[d] /\ during'[d] = during[d]
    BY <1>2 DEF IInv, TypeOK, Shapes, OInv
  <2> QED
    BY <2>1, OverviewKept DEF OInv
<1>3. queries' = [d \in Caller |-> queries'[d]]
  BY DEF OInv
<1> QED
  BY <1>1, <1>2, <1>3 DEF OInv

LEMMA SameQueries == ASSUME OInv, NEW c \in Caller PROVE queries = [queries EXCEPT ![c] = queries[c]]
BY DEF OInv

LEMMA BeginKeepsOverview ==
    ASSUME IInv, OInv, NEW c \in Caller, NEW o, NEW w, NEW first \in {"match", "count"}, Begin(c, o, w, first)
    PROVE  OInv'
<1>1. /\ op' = [op EXCEPT ![c] = o] /\ at' = [at EXCEPT ![c] = first] /\ result' = result
      /\ queries' = [queries EXCEPT ![c] = QueriesOf(o)] /\ during' = [during EXCEPT ![c] = {tracks}]
  BY DEF Begin
<1>2. result' = [result EXCEPT ![c] = result[c]]
  BY <1>1, Untouched
<1>3. ASSUME op'[c] = o, at'[c] = first, queries'[c] = QueriesOf(o) PROVE OverviewOf(c)'
  BY <1>3, OverviewQueries DEF OverviewOf
<1> QED
  BY <1>1, <1>2, <1>3, OthersKeepOverview

LEMMA CountKeepsOverview == ASSUME IInv, OInv, NEW c \in Caller, Count(c) PROVE OInv'
<1> DEFINE s == queries[c]
           key == Head(s)
           r == [k \in DOMAIN result[c] \cup {key} |-> IF k = key THEN Value(key) ELSE result[c][k]]
           a == IF Len(s) = 1 THEN "answered" ELSE "count"
<1>1. /\ at[c] = "count" /\ result' = [result EXCEPT ![c] = r] /\ at' = [at EXCEPT ![c] = a]
      /\ queries' = [queries EXCEPT ![c] = Tail(s)] /\ UNCHANGED db /\ UNCHANGED <<op, during>>
  BY DEF Count, Keep, Go
<1>2. op' = [op EXCEPT ![c] = op[c]] /\ during' = [during EXCEPT ![c] = during[c]]
  BY <1>1, Untouched
<1>3. OverviewOf(c) /\ tracks \in during[c]
  BY <1>1 DEF OInv, IInv, ReadOf, InProgress
<1>4. DOMAIN r = DOMAIN result[c] \cup {key} /\ \A k \in DOMAIN r : r[k] = IF k = key THEN Value(key) ELSE result[c][k]
  OBVIOUS
<1> HIDE DEF r
<1>5. ASSUME op'[c] = op[c], at'[c] = a, queries'[c] = Tail(s), result'[c] = r, during'[c] = during[c]
      PROVE  OverviewOf(c)'
  <2> SUFFICES ASSUME op[c] = "overview"
               PROVE  /\ Tail(s) \in Seq(Query) /\ (Len(Tail(s)) = 0 <=> a = "answered")
                      /\ \A q \in Counted : Pending(q, Tail(s)) \/ CountedDuring(q, r, during[c])
    BY <1>5 DEF OverviewOf, Pending, CountedDuring, CountAt, FacetFormats, Live
  <2>1. /\ s \in Seq(Query) /\ Len(s) # 0
        /\ \A q \in Counted : Pending(q, s) \/ CountedDuring(q, result[c], during[c])
    BY <1>1, <1>3 DEF OverviewOf
  <2>2. Tail(s) \in Seq(Query) /\ (Len(Tail(s)) = 0 <=> Len(s) = 1)
    BY <2>1
  <2>3. ASSUME NEW q \in Counted PROVE Pending(q, Tail(s)) \/ CountedDuring(q, r, during[c])
    <3>1. CASE q = key
      <4>1. Value(q) = CountAt(q, tracks)
        BY DEF Value, CountAt, Counted, TreeCount
      <4> QED
        BY <1>3, <1>4, <3>1, <4>1 DEF CountedDuring
    <3>2. CASE q # key /\ Pending(q, s)
      <4>1. PICK j \in 1 .. Len(s) : s[j] = q
        BY <3>2 DEF Pending
      <4>2. j # 1
        BY <2>1, <3>2, <4>1
      <4>3. j - 1 \in 1 .. Len(Tail(s)) /\ Tail(s)[j - 1] = q
        BY <2>1, <4>1, <4>2
      <4> QED
        BY <4>3 DEF Pending
    <3>3. CASE q # key /\ CountedDuring(q, result[c], during[c])
      BY <1>4, <3>3 DEF CountedDuring
    <3> QED
      BY <2>1, <3>1, <3>2, <3>3
  <2> QED
    BY <2>2, <2>3
<1> HIDE DEF a
<1> QED
  BY <1>1, <1>2, <1>5, OthersKeepOverview

(* The other steps of a reader are not of an overview, or end it. *)
LEMMA OtherReadsKeepOverview ==
    ASSUME IInv, OInv, NEW c \in Caller, Match(c) \/ ReadHit(c) \/ Fail(c) \/ Return(c)
    PROVE  OInv'
<1>1. OverviewOf(c) /\ (at[c] = "match" => op[c] \in {"search", "fts"})
  BY DEF IInv, OInv, ReadOf
<1>2. CASE Match(c)
  <2>1. PICK best : /\ result' = [result EXCEPT ![c] = IF op[c] = "fts" THEN Nothing ELSE [i \in best |-> fts[i]]]
                    /\ at' = [at EXCEPT ![c] = IF op[c] = "fts" /\ best # {} THEN "rows" ELSE "answered"]
    BY <1>2 DEF Match, Go
  <2> DEFINE a == IF op[c] = "fts" /\ best # {} THEN "rows" ELSE "answered"
             r == IF op[c] = "fts" THEN Nothing ELSE [i \in best |-> fts[i]]
  <2>2. UNCHANGED <<op, queries, during>> /\ op[c] # "overview"
    BY <1>1, <1>2 DEF Match
  <2>3. /\ op' = [op EXCEPT ![c] = op[c]] /\ queries' = [queries EXCEPT ![c] = queries[c]]
        /\ during' = [during EXCEPT ![c] = during[c]]
    BY <2>2, Untouched, SameQueries
  <2>4. ASSUME op'[c] = op[c], at'[c] = a PROVE OverviewOf(c)'
    BY <2>2, <2>4 DEF OverviewOf
  <2> HIDE DEF a, r
  <2>5. at' = [at EXCEPT ![c] = a] /\ result' = [result EXCEPT ![c] = r]
    BY <2>1 DEF a, r
  <2> QED
    BY <2>3, <2>4, <2>5, OthersKeepOverview
<1>3. CASE ReadHit(c)
  <2>1. PICK i \in hits[c] : /\ at[c] = "rows" /\ UNCHANGED <<op, queries, during>>
                             /\ IF fts[i] = NoRow THEN UNCHANGED result ELSE Keep(c, i, fts[i])
                             /\ Go(c, IF hits'[c] = {} THEN "answered" ELSE "rows")
    BY <1>3 DEF ReadHit
  <2> DEFINE a == IF hits'[c] = {} THEN "answered" ELSE "rows"
             r == IF fts[i] = NoRow THEN result[c]
                  ELSE [k \in DOMAIN result[c] \cup {i} |-> IF k = i THEN fts[i] ELSE result[c][k]]
  <2>2. op[c] = "fts"
    BY <1>1, <2>1 DEF OverviewOf
  <2>3. /\ op' = [op EXCEPT ![c] = op[c]] /\ queries' = [queries EXCEPT ![c] = queries[c]]
        /\ during' = [during EXCEPT ![c] = during[c]]
        /\ at' = [at EXCEPT ![c] = a] /\ result' = [result EXCEPT ![c] = r]
    BY <2>1, Untouched, SameQueries DEF Go, Keep
  <2>4. ASSUME op'[c] = op[c], at'[c] = a PROVE OverviewOf(c)'
    BY <2>2, <2>4 DEF OverviewOf
  <2> HIDE DEF a, r
  <2> QED
    BY <2>3, <2>4, OthersKeepOverview
<1>4. CASE Fail(c)
  <2>1. /\ op' = [op EXCEPT ![c] = op[c]] /\ during' = [during EXCEPT ![c] = during[c]]
        /\ at' = [at EXCEPT ![c] = "failed"] /\ result' = [result EXCEPT ![c] = Nothing]
        /\ queries' = [queries EXCEPT ![c] = <<>>]
    BY <1>4, Untouched DEF Fail, Go
  <2>2. ASSUME at'[c] = "failed" PROVE OverviewOf(c)'
    BY <2>2 DEF OverviewOf
  <2> QED
    BY <2>1, <2>2, OthersKeepOverview
<1>5. CASE Return(c)
  <2>1. /\ op' = [op EXCEPT ![c] = "none"] /\ at' = [at EXCEPT ![c] = "idle"]
        /\ result' = [result EXCEPT ![c] = Nothing] /\ during' = [during EXCEPT ![c] = {}]
        /\ queries' = [queries EXCEPT ![c] = queries[c]]
    BY <1>5, SameQueries DEF Return, Go
  <2>2. ASSUME at'[c] = "idle" PROVE OverviewOf(c)'
    BY <2>2 DEF OverviewOf
  <2> QED
    BY <2>1, <2>2, OthersKeepOverview
<1> QED
  BY <1>2, <1>3, <1>4, <1>5

LEMMA OverviewInvariant == Spec => []OInv
<1>1. Init => OInv
  BY DEF Init, OInv, OverviewOf
<1>2. IInv /\ OInv /\ [Next]_vars => OInv'
  <2> SUFFICES ASSUME IInv, OInv, [Next]_vars PROVE OInv'
    OBVIOUS
  <2>1. ASSUME NEW c \in Caller, BeginSearch(c) \/ BeginCounts(c) PROVE OInv'
    <3>1. CASE BeginSearch(c)
      BY <3>1, BeginKeepsOverview DEF BeginSearch
    <3>2. CASE BeginCounts(c)
      BY <3>2, BeginKeepsOverview DEF BeginCounts
    <3> QED
      BY <2>1, <3>1, <3>2
  <2>2. CASE \/ \E p \in Path : UpsertTrackPath(p)
             \/ \E i \in Id, t \in Title : SetTitle(i, t) \/ UpdateFts(i, t)
             \/ \E i \in Id : DeleteTrack(i) \/ Record(i)
             \/ Midnight
    <3>1. Write
      BY <2>2 DEF UpsertTrackPath, SetTitle, UpdateFts, DeleteTrack, Record, Midnight
    <3> QED
      BY <3>1, WriteKeepsOverview
  <2>3. CASE UNCHANGED vars
    <3>1. UNCHANGED <<op, at, queries, result, during>>
      BY <2>3 DEF vars, calls
    <3> QED
      BY <3>1, OverviewKept DEF OInv
  <2>4. CASE Next
    BY <2>1, <2>2, <2>4, CountKeepsOverview, OtherReadsKeepOverview DEF Next
  <2> QED
    BY <2>3, <2>4
<1> QED
  BY <1>1, <1>2, Invariant, PTL DEF Spec

-----------------------------------------------------------------------------
(* The facts about numbers that the bound of an overview rests on. *)
LEMMA LeastOfNaturals ==
    ASSUME NEW T \in SUBSET Nat, T # {}
    PROVE  \E x \in T : \A y \in T : x <= y
<1>1. \E x \in T : \A y \in T : ~ (<<y, x>> \in OpToRel(<, Nat))
  BY NatLessThanWellFounded, WFMin
<1>2. PICK x \in T : \A y \in T : ~ (<<y, x>> \in OpToRel(<, Nat))
  BY <1>1
<1>3. ASSUME NEW y \in T PROVE x <= y
  <2>1. <<y, x>> \in Nat \X Nat
    OBVIOUS
  <2>2. ~(y < x)
    BY <1>2, <2>1 DEF OpToRel
  <2> QED
    BY <2>2
<1> QED
  BY <1>3

LEMMA LiveIsFinite == ASSUME NEW t PROVE IsFiniteSet(Live(t)) /\ Cardinality(Live(t)) \in 0 .. MaxId
<1>1. IsFiniteSet(Id) /\ Cardinality(Id) = MaxId
  BY BoundAssumption, FS_Interval DEF Id
<1>2. Live(t) \in SUBSET Id
  BY DEF Live
<1>3. IsFiniteSet(Live(t)) /\ Cardinality(Live(t)) <= Cardinality(Id)
  BY <1>1, <1>2, FS_Subset
<1>4. Cardinality(Live(t)) \in Nat
  BY <1>3, FS_CardinalityType
<1> QED
  BY <1>1, <1>3, <1>4, BoundAssumption

Total(counts) == MapThenSumSet(LAMBDA f : counts[f], DOMAIN counts)

LEMMA FormatsCountAll ==
    ASSUME NEW t \in Table
    PROVE  Total(FacetFormats(t)) = Cardinality(Live(t))
<1> DEFINE L == Live(t)
           codec(i) == Codec[t[i].path]
           D == {codec(i) : i \in L}
           Having(s) == {i \in L : codec(i) \in s}
           F == [s \in SUBSET D |-> Cardinality(Having(s))]
           pick(s) == CHOOSE x \in s : TRUE
           formats == [f \in D |-> Cardinality({i \in L : codec(i) = f})]
           Folds(g) == g = [s \in SUBSET D |-> IF s = {} THEN 0 ELSE formats[pick(s)] + g[s \ {pick(s)}]]
<1>1. ASSUME NEW s \in SUBSET D
      PROVE  IsFiniteSet(Having(s)) /\ F[s] = Cardinality(Having(s)) /\ F[s] \in Nat
  <2>1. Having(s) \in SUBSET L
    OBVIOUS
  <2>2. IsFiniteSet(Having(s))
    BY <2>1, LiveIsFinite, FS_Subset
  <2> QED
    BY <2>2, FS_CardinalityType
<1>2. F[{}] = 0
  BY FS_EmptySet
<1>3. ASSUME NEW s \in SUBSET D, NEW x \in s
      PROVE  F[s] = formats[x] + F[s \ {x}] /\ F[s \ {x}] < F[s] /\ formats[x] \in Nat
  <2> DEFINE A == {i \in L : codec(i) = x}
             B == Having(s \ {x})
  <2>1. Having(s) = A \cup B /\ A \cap B = {} /\ s \ {x} \in SUBSET D
    OBVIOUS
  <2>2. IsFiniteSet(B) /\ Cardinality(B) = F[s \ {x}] /\ Cardinality(B) \in Nat
    BY <1>1, <2>1
  <2>3. IsFiniteSet(A) /\ Cardinality(A) \in Nat
    <3>1. A \in SUBSET L
      OBVIOUS
    <3>2. IsFiniteSet(A)
      BY <3>1, LiveIsFinite, FS_Subset
    <3> QED
      BY <3>2, FS_CardinalityType
  <2>4. A # {}
    <3>1. PICK i \in L : x = codec(i)
      OBVIOUS
    <3> QED
      BY <3>1
  <2>5. Cardinality(A) # 0
    BY <2>3, <2>4, FS_EmptySet
  <2>6. Cardinality(A \cup B) = Cardinality(A) + Cardinality(B)
    <3>1. Cardinality(A \cup B) = Cardinality(A) + Cardinality(B) - Cardinality(A \cap B)
      BY <2>2, <2>3, FS_Union
    <3>2. Cardinality(A \cap B) = 0
      BY <2>1, FS_EmptySet
    <3> HIDE DEF A, B
    <3> QED
      BY <2>2, <2>3, <3>1, <3>2
  <2>7. F[s] = Cardinality(A \cup B) /\ formats[x] = Cardinality(A)
    BY <2>1
  <2> HIDE DEF A, B, F, formats
  <2> QED
    BY <2>2, <2>3, <2>5, <2>6, <2>7
<1>4. \A s \in SUBSET D : s # {} => pick(s) \in s
  OBVIOUS
<1>5. Folds(F)
  <2>1. ASSUME NEW s \in SUBSET D
        PROVE  F[s] = IF s = {} THEN 0 ELSE formats[pick(s)] + F[s \ {pick(s)}]
    <3> HIDE DEF F, formats, pick, D
    <3> QED
      BY <1>2, <1>3, <1>4
  <2> QED
    BY <2>1
<1>6. ASSUME NEW g, Folds(g) PROVE g = F
  <2>1. ASSUME NEW s \in SUBSET D
        PROVE  g[s] = IF s = {} THEN 0 ELSE formats[pick(s)] + g[s \ {pick(s)}]
    <3> HIDE DEF D, formats, pick
    <3> QED
      BY <1>6
  <2> DEFINE Bad == {s \in SUBSET D : g[s] # F[s]}
             T == {F[s] : s \in Bad}
  <2>2. ASSUME Bad # {} PROVE FALSE
    <3>1. T \in SUBSET Nat /\ T # {}
      BY <1>1, <2>2
    <3>2. PICK n \in T : \A m \in T : n <= m
      BY <3>1, LeastOfNaturals
    <3>3. PICK s \in Bad : n = F[s]
      OBVIOUS
    <3>4. s \in SUBSET D /\ g[s] # F[s]
      OBVIOUS
    <3>5. s # {}
      BY <1>2, <2>1, <3>4
    <3> DEFINE x == pick(s)
               r == s \ {x}
    <3>6. x \in s /\ r \in SUBSET D
      BY <1>4, <3>4, <3>5
    <3>7. F[s] = formats[x] + F[r] /\ F[r] < F[s]
      BY <1>3, <3>4, <3>6
    <3>8. g[s] = formats[x] + g[r]
      BY <2>1, <3>4, <3>5
    <3>9. g[r] # F[r]
      BY <3>4, <3>7, <3>8
    <3>10. F[r] \in T
      BY <3>6, <3>9
    <3>11. n <= F[r] /\ n \in Nat /\ F[r] \in Nat
      BY <1>1, <3>1, <3>2, <3>6, <3>10
    <3> HIDE DEF F, r, T, Bad
    <3> QED
      BY <3>3, <3>7, <3>11
  <2>3. \A s \in SUBSET D : g[s] = F[s]
    BY <2>2
  <2>4. g = [s \in SUBSET D |-> g[s]]
    <3> DEFINE H(s) == IF s = {} THEN 0 ELSE formats[pick(s)] + g[s \ {pick(s)}]
    <3>1. g = [s \in SUBSET D |-> H(s)]
      BY <1>6
    <3> HIDE DEF H, D
    <3> QED
      BY <3>1
  <2>5. F = [s \in SUBSET D |-> F[s]]
    OBVIOUS
  <2> HIDE DEF F, D
  <2> QED
    BY <2>3, <2>4, <2>5
<1>7. FacetFormats(t) = formats /\ DOMAIN formats = D
  BY DEF FacetFormats
<1>8. MapThenSumSet(LAMBDA f : formats[f], D) = (CHOOSE g : Folds(g))[D]
  BY DEF MapThenSumSet, MapThenFoldSet
<1>9. (CHOOSE g : Folds(g)) = F
  <2> HIDE DEF Folds, F
  <2> QED
    BY <1>5, <1>6
<1>10. Having(D) = L
  OBVIOUS
<1>11. F[D] = Cardinality(L)
  BY <1>10
<1> HIDE DEF F, formats, Folds, D, L
<1>12. MapThenSumSet(LAMBDA f : formats[f], DOMAIN formats) = Cardinality(L)
  BY <1>7, <1>8, <1>9, <1>11
<1>13. Total(formats) = MapThenSumSet(LAMBDA f : formats[f], DOMAIN formats)
  BY DEF Total
<1> QED
  BY <1>7, <1>12, <1>13 DEF L

LEMMA BetweenExtremes ==
    ASSUME NEW S \in SUBSET (0 .. MaxId), NEW n \in S
    PROVE  n \in Min(S) .. Max(S)
<1>1. \E x \in S : \A y \in S : x <= y
  BY LeastOfNaturals, BoundAssumption
<1>2. \E x \in S : \A y \in S : x >= y
  <2> DEFINE T == {MaxId - y : y \in S}
  <2>1. T \in SUBSET Nat /\ T # {}
    <3>1. ASSUME NEW y \in S PROVE MaxId - y \in Nat
      <4>1. y \in 0 .. MaxId
        OBVIOUS
      <4> QED
        BY <4>1, BoundAssumption
    <3> QED
      BY <3>1
  <2>2. PICK z \in T : \A y \in T : z <= y
    BY <2>1, LeastOfNaturals
  <2>3. PICK x \in S : z = MaxId - x
    OBVIOUS
  <2>4. ASSUME NEW y \in S PROVE x >= y
    <3>1. MaxId - x <= MaxId - y
      <4>1. MaxId - y \in T
        OBVIOUS
      <4> HIDE DEF T
      <4>2. z <= MaxId - y
        BY <2>2, <4>1
      <4> QED
        BY <2>3, <4>2
    <3>2. x \in 0 .. MaxId /\ y \in 0 .. MaxId
      OBVIOUS
    <3> QED
      BY <3>1, <3>2, BoundAssumption
  <2> QED
    BY <2>4
<1>3. Min(S) \in S /\ Min(S) <= n
  BY <1>1 DEF Min
<1>4. Max(S) \in S /\ Max(S) >= n
  BY <1>2 DEF Max
<1> QED
  BY <1>3, <1>4, BoundAssumption

(* search::overview, eleven queries without a transaction: what it counts
   lies between the fewest and the most tracks there were during the call. *)
THEOREM OverviewIsBounded == Spec => []OverviewDrift
<1>1. ASSUME IInv, OInv, NEW c \in Caller, Answered(c, {"overview"})
      PROVE  LET sizes == {Cardinality(Live(t)) : t \in during[c]}
                 formats == result[c]["facet_formats"]
                 counts == {result[c]["all_music"], result[c]["recently_added"],
                            MapThenSumSet(LAMBDA f : formats[f], DOMAIN formats)}
             IN  counts \subseteq Min(sizes) .. Max(sizes)
  <2> DEFINE sizes == {Cardinality(Live(t)) : t \in during[c]}
             formats == result[c]["facet_formats"]
             total == MapThenSumSet(LAMBDA f : formats[f], DOMAIN formats)
  <2>1. at[c] = "answered" /\ op[c] = "overview" /\ OverviewOf(c) /\ during[c] \subseteq Table
    BY <1>1 DEF Answered, OInv, IInv, Shapes
  <2>2. \A q \in Counted : \E t \in during[c] : result[c][q] = CountAt(q, t)
    BY <2>1 DEF OverviewOf, Pending, CountedDuring
  <2>3. sizes \in SUBSET (0 .. MaxId)
    BY LiveIsFinite
  <2>4. result[c]["all_music"] \in sizes /\ result[c]["recently_added"] \in sizes
    BY <2>2 DEF Counted, CountAt
  <2>5. PICK t \in during[c] : formats = FacetFormats(t)
    BY <2>2 DEF Counted, CountAt
  <2>6. total = Total(formats)
    BY DEF Total
  <2>7. total \in sizes
    BY <2>1, <2>5, <2>6, FormatsCountAll
  <2> HIDE DEF sizes, total
  <2>8. {result[c]["all_music"], result[c]["recently_added"], total} \subseteq Min(sizes) .. Max(sizes)
    BY <2>3, <2>4, <2>7, BetweenExtremes
  <2> QED
    BY <2>8 DEF sizes, total
<1>2. IInv /\ OInv => OverviewDrift
  BY <1>1 DEF OverviewDrift
<1> QED
  BY <1>2, Invariant, OverviewInvariant, PTL

-----------------------------------------------------------------------------
(* Duplicates and recommendations: loops first. *)

(* A loop over the numbers to n, each round of which follows from the one before:
   some function holds what it computes. *)
Rounds(n, D) == [1 .. n -> [D -> D]]
Runs(n, D, base, step, f) ==
    f \in [0 .. n -> D] /\ f[0] = base /\ \A i \in 1 .. n : f[i] = step[i][f[i - 1]]

LEMMA LoopRuns ==
    ASSUME NEW n, n \in Nat, NEW D, NEW base, base \in D, NEW step, step \in Rounds(n, D)
    PROVE  \E f : Runs(n, D, base, step, f)
<1> USE DEF Runs, Rounds
<1> DEFINE Bad == {m \in 0 .. n : ~ \E f : Runs(m, D, base, step, f)}
<1>1. Runs(0, D, base, step, [i \in 0 .. 0 |-> base])
  OBVIOUS
<1>2. ASSUME NEW m \in 1 .. n, NEW f, Runs(m - 1, D, base, step, f)
      PROVE  \E g : Runs(m, D, base, step, g)
  <2> DEFINE g == [i \in 0 .. m |-> IF i = m THEN step[m][f[m - 1]] ELSE f[i]]
  <2>1. \A i \in 0 .. m - 1 : g[i] = f[i] /\ f[i] \in D
    BY <1>2
  <2>2. g[m] = step[m][f[m - 1]] /\ g[m] \in D
    BY <1>2
  <2>3. g \in [0 .. m -> D]
    <3>1. \A i \in 0 .. m : i = m \/ i \in 0 .. m - 1
      OBVIOUS
    <3>2. \A i \in 0 .. m : g[i] \in D
      BY <2>1, <2>2, <3>1
    <3> QED
      BY <3>2
  <2>4. ASSUME NEW i \in 1 .. m PROVE g[i] = step[i][g[i - 1]]
    <3>1. CASE i = m
      <4>1. g[i - 1] = f[m - 1]
        BY <2>1, <3>1
      <4> QED
        BY <2>2, <3>1, <4>1
    <3>2. CASE i # m
      <4>1. i \in 1 .. m - 1 /\ i \in 0 .. m - 1 /\ i - 1 \in 0 .. m - 1
        BY <3>2
      <4>2. g[i] = f[i] /\ g[i - 1] = f[i - 1]
        BY <2>1, <4>1
      <4> QED
        BY <1>2, <4>1, <4>2
    <3> QED
      BY <3>1, <3>2
  <2>5. g[0] = base
    BY <1>2, <2>1
  <2>6. Runs(m, D, base, step, g)
    BY <2>3, <2>4, <2>5
  <2> QED
    BY <2>6
<1>3. Bad = {}
  <2> SUFFICES ASSUME Bad # {} PROVE FALSE
    OBVIOUS
  <2>1. Bad \in SUBSET Nat
    OBVIOUS
  <2>2. PICK m \in Bad : \A k \in Bad : m <= k
    BY <2>1, LeastOfNaturals
  <2>3. m \in 0 .. n /\ ~ \E f : Runs(m, D, base, step, f)
    OBVIOUS
  <2>4. m # 0
    BY <1>1, <2>3
  <2>5. m \in 1 .. n /\ m - 1 \in 0 .. n /\ ~(m <= m - 1)
    BY <2>3, <2>4
  <2>6. m - 1 \notin Bad
    BY <2>2, <2>5
  <2>7. PICK f : Runs(m - 1, D, base, step, f)
    BY <2>5, <2>6
  <2> QED
    BY <1>2, <2>3, <2>5, <2>7
<1> QED
  <2>1. n \in 0 .. n
    OBVIOUS
  <2>2. PICK f : Runs(n, D, base, step, f)
    BY <1>3, <2>1
  <2> QED
    BY <2>2

LEMMA DotIsFloat ==
    ASSUME NEW a \in Seq(F32), NEW b \in Seq(F32), Len(a) = Len(b)
    PROVE  Dot(a, b) \in F32
<1> DEFINE n == Len(a)
           Times(i) == FMul[a[i], b[i]]
           Plus(x, i) == FAdd[x, Times(i)]
           Sums(g) == g = [i \in 0 .. n |-> IF i = 0 THEN 0 ELSE Plus(g[i - 1], i)]
           sum == CHOOSE g : Sums(g)
           step == [i \in 1 .. n |-> [v \in F32 |-> Plus(v, i)]]
<1>1. Dot(a, b) = sum[n]
  BY DEF Dot
<1>2. n \in Nat /\ 0 \in F32
  BY FloatAssumption
<1>3. \A x \in F32, i \in 1 .. n : Plus(x, i) \in F32
  <2>1. \A i \in 1 .. n : a[i] \in F32 /\ b[i] \in F32
    OBVIOUS
  <2>2. FMul \in [F32 \X F32 -> F32] /\ FAdd \in [F32 \X F32 -> F32]
    BY FloatAssumption
  <2> QED
    BY <2>1, <2>2
<1> HIDE DEF n, Plus
<1>4. step \in [1 .. n -> [F32 -> F32]] /\ \A v \in F32, i \in 1 .. n : step[i][v] = Plus(v, i)
  BY <1>3
<1>5. \E g : Sums(g) /\ g \in [0 .. n -> F32]
  <2> HIDE DEF step
  <2>1. PICK f : Runs(n, F32, 0, step, f)
    <3>1. step \in Rounds(n, F32)
      BY <1>4 DEF Rounds
    <3> QED
      BY <1>2, <3>1, LoopRuns
  <2>2. \A i \in 1 .. n : f[i] = Plus(f[i - 1], i)
    BY <1>2, <1>4, <2>1 DEF Runs
  <2>3. f = [i \in 0 .. n |-> IF i = 0 THEN 0 ELSE Plus(f[i - 1], i)]
    BY <1>2, <2>1, <2>2 DEF Runs
  <2> QED
    BY <2>1, <2>3 DEF Runs
<1>6. ASSUME NEW g, Sums(g) PROVE \A i \in 0 .. n : g[i] \in F32
  <2> DEFINE Bad == {i \in 0 .. n : g[i] \notin F32}
  <2> SUFFICES ASSUME Bad # {} PROVE FALSE
    OBVIOUS
  <2>1. Bad \in SUBSET Nat
    BY <1>2
  <2>2. PICK m \in Bad : \A k \in Bad : m <= k
    BY <2>1, LeastOfNaturals
  <2>3. g[0] = 0 /\ \A i \in 1 .. n : g[i] = Plus(g[i - 1], i)
    BY <1>2, <1>6
  <2>4. m \in 1 .. n /\ m - 1 \in 0 .. n /\ ~(m <= m - 1)
    BY <1>2, <2>2, <2>3
  <2>5. g[m - 1] \in F32
    BY <2>2, <2>4
  <2> QED
    BY <1>3, <2>2, <2>3, <2>4, <2>5
<1> QED
  <2>1. Sums(sum)
    <3> HIDE DEF Sums
    <3> QED
      BY <1>5
  <2>2. sum[n] \in F32
    <3> HIDE DEF Sums, sum
    <3> QED
      BY <1>2, <1>6, <2>1
  <2> QED
    BY <1>1, <2>2

(* What was pushed is what was to be pushed, and each id once. *)
Once(s) == \A i, j \in 1 .. Len(s) : i # j => s[i] # s[j]

LEMMA PushOne ==
    ASSUME NEW Ids, NEW v, v \in Seq(Ids), NEW id \in Ids, Once(v), id \notin Range(v)
    PROVE  /\ Append(v, id) \in Seq(Ids) /\ Once(Append(v, id))
           /\ Range(Append(v, id)) = Range(v) \cup {id}
<1> DEFINE w == Append(v, id)
           n == Len(v)
<1>1. w \in Seq(Ids) /\ Len(w) = n + 1 /\ n \in Nat /\ w[n + 1] = id /\ \A i \in 1 .. n : w[i] = v[i]
  OBVIOUS
<1>2. DOMAIN w = 1 .. n + 1 /\ DOMAIN v = 1 .. n
  BY <1>1
<1>3. \A i \in 1 .. n : v[i] \in Range(v)
  BY <1>2 DEF Range
<1> HIDE DEF w, n
<1>4. Once(w)
  <2> SUFFICES ASSUME NEW i \in 1 .. n + 1, NEW j \in 1 .. n + 1, i # j PROVE w[i] # w[j]
    BY <1>1 DEF Once
  <2>1. \A k \in 1 .. n + 1 : k = n + 1 \/ k \in 1 .. n
    BY <1>1
  <2>2. CASE i \in 1 .. n /\ j \in 1 .. n
    <3>1. v[i] # v[j]
      BY <2>2 DEF Once, n
    <3> QED
      BY <1>1, <2>2, <3>1
  <2>3. CASE i = n + 1
    BY <1>1, <1>3, <2>1, <2>3
  <2>4. CASE j = n + 1
    BY <1>1, <1>3, <2>1, <2>4
  <2> QED
    BY <2>1, <2>2, <2>3, <2>4
<1>5. Range(w) = Range(v) \cup {id}
  <2>1. Range(w) = {w[i] : i \in 1 .. n + 1} /\ Range(v) = {v[i] : i \in 1 .. n}
    BY <1>2 DEF Range
  <2>2. \A i \in 1 .. n + 1 : i = n + 1 \/ i \in 1 .. n
    BY <1>1
  <2>3. n + 1 \in 1 .. n + 1 /\ \A i \in 1 .. n : i \in 1 .. n + 1
    BY <1>1
  <2> QED
    BY <1>1, <2>1, <2>2, <2>3
<1> QED
  BY <1>1, <1>4, <1>5 DEF w

LEMMA PushedIds ==
    ASSUME NEW list, list \in Seq(Range(list)),
           \A i, j \in DOMAIN list : i # j => list[i].id # list[j].id,
           NEW S
    PROVE  /\ Pushed(list, S) \in Seq({t.id : t \in Range(list)})
           /\ Once(Pushed(list, S))
           /\ Range(Pushed(list, S)) = {t.id : t \in Range(list) \cap S}
<1> DEFINE n == Len(list)
           Ids == {t.id : t \in Range(list)}
           Next1(v, i) == IF list[i] \in S THEN Append(v, list[i].id) ELSE v
           Pushes(g) == g = [i \in 0 .. n |-> IF i = 0 THEN <<>>
                                              ELSE IF list[i] \in S THEN Append(g[i - 1], list[i].id)
                                                   ELSE g[i - 1]]
           ids == CHOOSE g : Pushes(g)
           step == [i \in 1 .. n |-> [v \in Seq(Ids) |-> Next1(v, i)]]
           To(i) == {list[j].id : j \in {k \in 1 .. i : list[k] \in S}}
           Good(v, i) == v \in Seq(Ids) /\ Once(v) /\ Range(v) = To(i)
<1>1. Pushed(list, S) = ids[n]
  BY DEF Pushed
<1>2. n \in Nat /\ DOMAIN list = 1 .. n /\ \A i \in 1 .. n : list[i].id \in Ids
  BY DEF Range
<1>3. <<>> \in Seq(Ids) /\ Len(<<>>) = 0 /\ Range(<<>>) = {}
  BY DEF Range
<1>4. \A v \in Seq(Ids), i \in 1 .. n : Next1(v, i) \in Seq(Ids)
  BY <1>2
<1>5. \E g : Pushes(g)
  <2>1. step \in Rounds(n, Seq(Ids))
    BY <1>4 DEF Rounds
  <2>2. \A v \in Seq(Ids), i \in 1 .. n : step[i][v] = Next1(v, i)
    OBVIOUS
  <2> HIDE DEF step, n, Ids, Next1
  <2>3. PICK f : Runs(n, Seq(Ids), <<>>, step, f)
    BY <1>2, <1>3, <2>1, LoopRuns
  <2>4. \A i \in 1 .. n : f[i] = Next1(f[i - 1], i)
    <3>1. \A i \in 1 .. n : i - 1 \in 0 .. n
      BY <1>2
    <3>2. \A i \in 1 .. n : f[i - 1] \in Seq(Ids) /\ f[i] = step[i][f[i - 1]]
      BY <2>3, <3>1, Zenon DEF Runs
    <3> QED
      BY <2>2, <3>2
  <2>5. f = [i \in 0 .. n |-> IF i = 0 THEN <<>> ELSE Next1(f[i - 1], i)]
    BY <1>2, <2>3, <2>4 DEF Runs
  <2> QED
    BY <2>5 DEF Next1
<1>6. ASSUME NEW g, Pushes(g) PROVE \A i \in 0 .. n : Good(g[i], i)
  <2>1. g[0] = <<>> /\ \A i \in 1 .. n : g[i] = Next1(g[i - 1], i)
    <3>1. g = [i \in 0 .. n |-> IF i = 0 THEN <<>> ELSE Next1(g[i - 1], i)]
      BY <1>6
    <3>2. 0 \in 0 .. n /\ \A i \in 1 .. n : i \in 0 .. n /\ i # 0
      BY <1>2
    <3> HIDE DEF Next1, n
    <3>3. \A i \in 0 .. n : g[i] = IF i = 0 THEN <<>> ELSE Next1(g[i - 1], i)
      BY <3>1, Zenon
    <3> QED
      BY <3>2, <3>3, Zenon
  <2>2. Good(<<>>, 0)
    <3>1. To(0) = {}
      OBVIOUS
    <3> QED
      BY <1>3, <3>1 DEF Once
  <2>3. ASSUME NEW i \in 1 .. n, NEW v, Good(v, i - 1) PROVE Good(Next1(v, i), i)
    <3>1. \A k \in 1 .. i : k = i \/ k \in 1 .. i - 1
      BY <1>2
    <3>2. \A k \in 1 .. i - 1 : k \in 1 .. i /\ k # i /\ k \in 1 .. n
      BY <1>2
    <3>3. CASE list[i] \in S
      <4>1. To(i) = To(i - 1) \cup {list[i].id}
        BY <3>1, <3>2, <3>3
      <4>2. list[i].id \notin To(i - 1)
        BY <1>2, <3>2
      <4> HIDE DEF Ids, To
      <4> QED
        BY <1>2, <2>3, <3>3, <4>1, <4>2, PushOne
    <3>4. CASE list[i] \notin S
      <4>1. To(i) = To(i - 1)
        BY <3>1, <3>2, <3>4
      <4> QED
        BY <2>3, <3>4, <4>1
    <3> QED
      BY <3>3, <3>4
  <2> DEFINE Bad == {i \in 0 .. n : ~Good(g[i], i)}
  <2> HIDE DEF Good, Next1, n
  <2> SUFFICES ASSUME Bad # {} PROVE FALSE
    OBVIOUS
  <2>4. Bad \in SUBSET Nat
    BY <1>2
  <2>5. PICK m \in Bad : \A k \in Bad : m <= k
    BY <2>4, LeastOfNaturals
  <2>6. m \in 1 .. n /\ m - 1 \in 0 .. n /\ ~(m <= m - 1)
    BY <1>2, <2>1, <2>2, <2>5
  <2>7. Good(g[m - 1], m - 1)
    BY <2>5, <2>6
  <2> QED
    BY <2>1, <2>3, <2>5, <2>6, <2>7
<1>7. Good(ids[n], n)
  <2>1. Pushes(ids)
    <3> HIDE DEF Pushes
    <3> QED
      BY <1>5
  <2> HIDE DEF Pushes, Good, ids, n
  <2> QED
    BY <1>2, <1>6, <2>1
<1>8. To(n) = {t.id : t \in Range(list) \cap S}
  BY <1>2 DEF Range
<1> QED
  BY <1>1, <1>7, <1>8
LEMMA OnceCounts ==
    ASSUME NEW S, NEW s \in Seq(S), Once(s)
    PROVE  Cardinality(Range(s)) = Len(s) /\ IsFiniteSet(Range(s))
<1>1. Len(s) \in Nat /\ DOMAIN s = 1 .. Len(s) /\ Range(s) = {s[i] : i \in 1 .. Len(s)}
  BY DEF Range
<1> DEFINE f == [i \in 1 .. Len(s) |-> s[i]]
<1>2. f \in Surjection(1 .. Len(s), Range(s)) /\ f \in Injection(1 .. Len(s), Range(s))
  BY <1>1 DEF Once, Injection, Surjection, IsInjective
<1>3. IsFiniteSet(1 .. Len(s)) /\ Cardinality(1 .. Len(s)) = Len(s)
  BY <1>1, FS_Interval
<1> HIDE DEF f
<1> QED
  BY <1>2, <1>3, FS_Surjection

LEMMA GroupsOfKey ==
    ASSUME NEW list, IsTrackList(list), NEW key, DOMAIN key \subseteq Range(list),
           NEW g \in GroupsBy(list, key)
    PROVE  \E value \in Range(key) :
              /\ g = Pushed(list, {t \in DOMAIN key : key[t] = value})
              /\ Range(g) = {t.id : t \in {u \in DOMAIN key : key[u] = value}}
              /\ Len(g) >= 2 /\ Cardinality(Range(g)) = Len(g)
<1> DEFINE Of(v) == {t \in DOMAIN key : key[t] = v}
<1>1. PICK value \in Range(key) : g = Pushed(list, Of(value)) /\ Len(g) >= 2
  BY DEF GroupsBy
<1>2. /\ g \in Seq({t.id : t \in Range(list)}) /\ Once(g)
      /\ Range(g) = {t.id : t \in Range(list) \cap Of(value)}
  BY <1>1, PushedIds DEF IsTrackList
<1>3. Range(list) \cap Of(value) = Of(value)
  OBVIOUS
<1>4. Cardinality(Range(g)) = Len(g)
  BY <1>2, OnceCounts
<1> QED
  BY <1>1, <1>2, <1>3, <1>4

LEMMA OneTrackPerId ==
    ASSUME NEW list, IsTrackList(list), NEW x \in Range(list), NEW y \in Range(list), x.id = y.id
    PROVE  x = y
BY DEF IsTrackList, Range

(* No pair too many. *)
LEMMA GroupsAreOfOneKey ==
    ASSUME NEW list, IsTrackList(list), NEW key, DOMAIN key \subseteq Range(list)
    PROVE  /\ \A g \in GroupsBy(list, key) :
                 /\ Cardinality(Range(g)) = Len(g) /\ Len(g) >= 2
                 /\ Range(g) \subseteq {t.id : t \in Range(list)}
                 /\ \A x, y \in Range(list) :
                       {x.id, y.id} \subseteq Range(g) => {x, y} \subseteq DOMAIN key /\ key[x] = key[y]
           /\ \A g, h \in GroupsBy(list, key) : g # h => Range(g) \cap Range(h) = {}
<1> DEFINE Of(v) == {t \in DOMAIN key : key[t] = v}
           Group(g, v) == /\ g = Pushed(list, Of(v)) /\ Range(g) = {t.id : t \in Of(v)}
                          /\ Len(g) >= 2 /\ Cardinality(Range(g)) = Len(g)
<1>1. \A g \in GroupsBy(list, key) : \E v \in Range(key) : Group(g, v)
  BY GroupsOfKey
<1>2. ASSUME NEW v, NEW x \in Range(list), x.id \in {t.id : t \in Of(v)} PROVE x \in Of(v)
  BY <1>2, OneTrackPerId
<1>3. ASSUME NEW g \in GroupsBy(list, key), NEW x \in Range(list), NEW y \in Range(list),
             {x.id, y.id} \subseteq Range(g)
      PROVE  {x, y} \subseteq DOMAIN key /\ key[x] = key[y]
  <2>1. PICK v \in Range(key) : Group(g, v)
    BY <1>1
  <2>2. x \in Of(v) /\ y \in Of(v)
    BY <1>2, <1>3, <2>1
  <2> QED
    BY <2>2
<1>4. ASSUME NEW g \in GroupsBy(list, key)
      PROVE  Cardinality(Range(g)) = Len(g) /\ Len(g) >= 2 /\ Range(g) \subseteq {t.id : t \in Range(list)}
  <2>1. PICK v \in Range(key) : Group(g, v)
    BY <1>1
  <2>2. {t.id : t \in Of(v)} \subseteq {t.id : t \in Range(list)}
    OBVIOUS
  <2> QED
    BY <2>1, <2>2
<1>5. ASSUME NEW g \in GroupsBy(list, key), NEW h \in GroupsBy(list, key), g # h
      PROVE  Range(g) \cap Range(h) = {}
  <2>1. PICK v \in Range(key) : Group(g, v)
    BY <1>1
  <2>2. PICK w \in Range(key) : Group(h, w)
    BY <1>1
  <2> SUFFICES ASSUME NEW id \in Range(g), id \in Range(h) PROVE FALSE
    OBVIOUS
  <2>3. PICK t \in Of(v) : id = t.id
    BY <2>1
  <2>4. t \in Of(w)
    BY <1>2, <2>2, <2>3
  <2>5. v = w
    BY <2>3, <2>4
  <2> QED
    BY <1>5, <2>1, <2>2, <2>5
<1> QED
  BY <1>3, <1>4, <1>5

(* And no pair too few. *)
LEMMA SameKeyIsGrouped ==
    ASSUME NEW list, IsTrackList(list), NEW key, DOMAIN key \subseteq Range(list),
           NEW x \in DOMAIN key, NEW y \in DOMAIN key, x.id # y.id, key[x] = key[y]
    PROVE  \E g \in GroupsBy(list, key) : {x.id, y.id} \subseteq Range(g)
<1> DEFINE Of(v) == {t \in DOMAIN key : key[t] = v}
           g == Pushed(list, Of(key[x]))
<1>1. /\ g \in Seq({t.id : t \in Range(list)}) /\ Once(g)
      /\ Range(g) = {t.id : t \in Range(list) \cap Of(key[x])}
  BY PushedIds DEF IsTrackList
<1>2. x.id \in Range(g) /\ y.id \in Range(g)
  BY <1>1
<1>3. Len(g) >= 2
  <2> HIDE DEF g
  <2>1. PICK i \in 1 .. Len(g), j \in 1 .. Len(g) : g[i] = x.id /\ g[j] = y.id
    BY <1>1, <1>2 DEF Range
  <2> QED
    BY <1>1, <2>1
<1>4. key[x] \in Range(key)
  BY DEF Range
<1> QED
  BY <1>2, <1>3, <1>4 DEF GroupsBy

Fingerprints(list) == [t \in {u \in ToSet(list) : u.fingerprint # ""} |-> t.fingerprint]
Metadata(list) ==
    [t \in {u \in ToSet(list) : u.title # "" /\ u.artist # ""} |-> <<t.title, t.artist, t.album>>]
Contents(list) == [t \in {u \in ToSet(list) : u.size_bytes > 0} |-> <<t.size_bytes, t.mtime>>]

(* The groups of a strategy. *)
Found(list, strategy) ==
    CASE strategy = "fingerprint_exact" -> ByFingerprint(list)
      [] strategy = "metadata_duration" -> ByMetadata(list)
      [] strategy = "content_hash" -> ByContent(list)

LEMMA WhatIsFound ==
    ASSUME NEW list
    PROVE  /\ \A g \in FindDuplicates(list) :
                 g.strategy \in Strategies /\ g.track_ids \in Found(list, g.strategy)
                 /\ g = [strategy |-> g.strategy, track_ids |-> g.track_ids]
           /\ \A strategy \in Strategies : \A ids \in Found(list, strategy) :
                 [strategy |-> strategy, track_ids |-> ids] \in FindDuplicates(list)
<1> DEFINE Groups(strategy) == DuplicateGroup(strategy, Found(list, strategy))
<1>1. /\ Found(list, "fingerprint_exact") = ByFingerprint(list)
      /\ Found(list, "metadata_duration") = ByMetadata(list)
      /\ Found(list, "content_hash") = ByContent(list)
  BY DEF Found
<1>2. FindDuplicates(list) =
          Groups("fingerprint_exact") \cup Groups("metadata_duration") \cup Groups("content_hash")
  BY <1>1 DEF FindDuplicates
<1>3. ASSUME NEW strategy, NEW g \in Groups(strategy)
      PROVE  g.strategy = strategy /\ g.track_ids \in Found(list, strategy)
             /\ g = [strategy |-> strategy, track_ids |-> g.track_ids]
  BY <1>3 DEF DuplicateGroup
<1>4. ASSUME NEW strategy, NEW ids \in Found(list, strategy)
      PROVE  [strategy |-> strategy, track_ids |-> ids] \in Groups(strategy)
  BY DEF DuplicateGroup
<1> HIDE DEF Groups
<1>5. ASSUME NEW g \in FindDuplicates(list)
      PROVE  g.strategy \in Strategies /\ g.track_ids \in Found(list, g.strategy)
             /\ g = [strategy |-> g.strategy, track_ids |-> g.track_ids]
  <2>1. PICK strategy \in Strategies : g \in Groups(strategy)
    BY <1>2 DEF Strategies
  <2>2. g.strategy = strategy
    BY <1>3, <2>1
  <2> QED
    BY <1>3, <2>1, <2>2
<1>6. ASSUME NEW strategy \in Strategies, NEW ids \in Found(list, strategy)
      PROVE  [strategy |-> strategy, track_ids |-> ids] \in FindDuplicates(list)
  BY <1>2, <1>4 DEF Strategies
<1> QED
  BY <1>5, <1>6

LEMMA KeysOfTracks ==
    ASSUME NEW list
    PROVE  /\ DOMAIN Fingerprints(list) = {t \in Range(list) : t.fingerprint # ""}
           /\ DOMAIN Metadata(list) = {t \in Range(list) : t.title # "" /\ t.artist # ""}
           /\ DOMAIN Contents(list) = {t \in Range(list) : t.size_bytes > 0}
           /\ \A t \in DOMAIN Fingerprints(list) : Fingerprints(list)[t] = t.fingerprint
           /\ \A t \in DOMAIN Metadata(list) : Metadata(list)[t] = <<t.title, t.artist, t.album>>
           /\ \A t \in DOMAIN Contents(list) : Contents(list)[t] = <<t.size_bytes, t.mtime>>
           /\ ByFingerprint(list) = GroupsBy(list, Fingerprints(list))
           /\ ByMetadata(list) = {g \in GroupsBy(list, Metadata(list)) : SameDuration(list, g)}
           /\ ByContent(list) = GroupsBy(list, Contents(list))
<1>1. ToSet(list) = Range(list)
  BY DEF ToSet, Range
<1>2. /\ ByFingerprint(list) = GroupsBy(list, Fingerprints(list))
      /\ ByMetadata(list) = {g \in GroupsBy(list, Metadata(list)) : SameDuration(list, g)}
      /\ ByContent(list) = GroupsBy(list, Contents(list))
  BY DEF ByFingerprint, ByMetadata, ByContent, Fingerprints, Metadata, Contents
<1> QED
  BY <1>1, <1>2 DEF Fingerprints, Metadata, Contents

LEMMA NearIs ==
    ASSUME NEW x, NEW y, x.duration_ms \in Nat, y.duration_ms \in Nat
    PROVE  Near(x, y) <=> x.duration_ms - y.duration_ms <= 2000 /\ y.duration_ms - x.duration_ms <= 2000
<1>1. \A a, b \in Nat : a - b \in -2000 .. 2000 <=> a - b <= 2000 /\ b - a <= 2000
  OBVIOUS
<1>2. Near(x, y) <=> x.duration_ms - y.duration_ms \in -2000 .. 2000
  BY DEF Near
<1> DEFINE a == x.duration_ms
           b == y.duration_ms
<1>3. Near(x, y) <=> a - b \in -2000 .. 2000
  BY <1>2
<1>4. a \in Nat /\ b \in Nat
  OBVIOUS
<1> HIDE DEF a, b
<1>5. Near(x, y) <=> a - b <= 2000 /\ b - a <= 2000
  BY <1>1, <1>3, <1>4
<1> QED
  BY <1>5 DEF a, b

LEMMA AlikeIs ==
    ASSUME NEW list, NEW x \in Range(list), NEW y \in Range(list)
    PROVE  /\ Alike("fingerprint_exact", x, y) <=>
                  /\ {x, y} \subseteq DOMAIN Fingerprints(list)
                  /\ Fingerprints(list)[x] = Fingerprints(list)[y]
           /\ Alike("metadata_duration", x, y) <=>
                  /\ {x, y} \subseteq DOMAIN Metadata(list)
                  /\ Metadata(list)[x] = Metadata(list)[y] /\ Near(x, y)
           /\ Alike("content_hash", x, y) <=>
                  /\ {x, y} \subseteq DOMAIN Contents(list)
                  /\ Contents(list)[x] = Contents(list)[y]
<1>1. Alike("fingerprint_exact", x, y) <=> x.fingerprint = y.fingerprint /\ x.fingerprint # ""
  BY DEF Alike
<1>2. Alike("metadata_duration", x, y) <=> SameMetadata(x, y) /\ x.title # "" /\ x.artist # "" /\ Near(x, y)
  BY DEF Alike
<1>3. Alike("content_hash", x, y) <=> x.size_bytes = y.size_bytes /\ x.mtime = y.mtime /\ x.size_bytes > 0
  BY DEF Alike
<1>4. <<x.title, x.artist, x.album>> = <<y.title, y.artist, y.album>> <=> SameMetadata(x, y)
  BY DEF SameMetadata
<1>5. <<x.size_bytes, x.mtime>> = <<y.size_bytes, y.mtime>> <=> x.size_bytes = y.size_bytes /\ x.mtime = y.mtime
  OBVIOUS
<1>6. /\ x \in DOMAIN Contents(list) <=> x.size_bytes > 0
      /\ y \in DOMAIN Contents(list) <=> y.size_bytes > 0
      /\ x \in DOMAIN Contents(list) => Contents(list)[x] = <<x.size_bytes, x.mtime>>
      /\ y \in DOMAIN Contents(list) => Contents(list)[y] = <<y.size_bytes, y.mtime>>
  BY KeysOfTracks, Zenon
<1>7. /\ x \in DOMAIN Fingerprints(list) <=> x.fingerprint # ""
      /\ y \in DOMAIN Fingerprints(list) <=> y.fingerprint # ""
      /\ x \in DOMAIN Fingerprints(list) => Fingerprints(list)[x] = x.fingerprint
      /\ y \in DOMAIN Fingerprints(list) => Fingerprints(list)[y] = y.fingerprint
  BY KeysOfTracks, Zenon
<1>8. /\ x \in DOMAIN Metadata(list) <=> x.title # "" /\ x.artist # ""
      /\ y \in DOMAIN Metadata(list) <=> y.title # "" /\ y.artist # ""
      /\ x \in DOMAIN Metadata(list) => Metadata(list)[x] = <<x.title, x.artist, x.album>>
      /\ y \in DOMAIN Metadata(list) => Metadata(list)[y] = <<y.title, y.artist, y.album>>
  BY KeysOfTracks, Zenon
<1>9. SameMetadata(x, y) => x.title = y.title /\ x.artist = y.artist
  BY DEF SameMetadata
<1>10. /\ x.size_bytes = y.size_bytes => (x.size_bytes > 0 <=> y.size_bytes > 0)
       /\ x.fingerprint = y.fingerprint => (x.fingerprint # "" <=> y.fingerprint # "")
  OBVIOUS
<1>11. Alike("fingerprint_exact", x, y) <=>
           {x, y} \subseteq DOMAIN Fingerprints(list) /\ Fingerprints(list)[x] = Fingerprints(list)[y]
  BY <1>1, <1>7, <1>10, Zenon
<1>12. Alike("metadata_duration", x, y) <=>
           {x, y} \subseteq DOMAIN Metadata(list) /\ Metadata(list)[x] = Metadata(list)[y] /\ Near(x, y)
  BY <1>2, <1>4, <1>8, <1>9, Zenon
<1>13. Alike("content_hash", x, y) <=>
           {x, y} \subseteq DOMAIN Contents(list) /\ Contents(list)[x] = Contents(list)[y]
  BY <1>3, <1>5, <1>6, <1>10, Zenon
<1> QED
  BY <1>11, <1>12, <1>13

LEMMA LengthsAgree ==
    ASSUME NEW list, IsTrackList(list), NEW ids
    PROVE  SameDuration(list, ids) <=>
               \A x, y \in Range(list) : {x.id, y.id} \subseteq Range(ids) => Near(x, y)
<1>1. ToSet(list) = Range(list) /\ ToSet(ids) = Range(ids)
  BY DEF ToSet, Range
<1> DEFINE Those == {t \in Range(list) : t.id \in Range(ids)}
<1>2. SameDuration(list, ids) <=> \A x, y \in Those : x.duration_ms - y.duration_ms <= 2000
  BY <1>1 DEF SameDuration, ToleranceMs
<1>3. \A x, y \in Those : x.duration_ms \in Nat /\ y.duration_ms \in Nat
  BY DEF IsTrackList
<1>4. (\A x, y \in Those : x.duration_ms - y.duration_ms <= 2000) <=> \A x, y \in Those : Near(x, y)
  <2>1. ASSUME NEW x \in Those, NEW y \in Those,
               x.duration_ms - y.duration_ms <= 2000, y.duration_ms - x.duration_ms <= 2000
        PROVE  Near(x, y)
    BY <1>3, <2>1, NearIs
  <2>2. ASSUME NEW x \in Those, NEW y \in Those, Near(x, y)
        PROVE  x.duration_ms - y.duration_ms <= 2000
    BY <1>3, <2>2, NearIs
  <2> QED
    BY <2>1, <2>2
<1> QED
  BY <1>2, <1>4

(* The list of a group are alike, and those that are alike are in one. *)
LEMMA FoundAreAlike ==
    ASSUME NEW list, IsTrackList(list), NEW strategy \in Strategies
    PROVE  /\ \A g \in Found(list, strategy) :
                 /\ Cardinality(Range(g)) = Len(g) /\ Len(g) >= 2
                 /\ Range(g) \subseteq {t.id : t \in Range(list)}
                 /\ \A x, y \in Range(list) : {x.id, y.id} \subseteq Range(g) => Alike(strategy, x, y)
           /\ \A g, h \in Found(list, strategy) : g # h => Range(g) \cap Range(h) = {}
<1>1. CASE strategy = "fingerprint_exact"
  <2>1. Found(list, strategy) = GroupsBy(list, Fingerprints(list))
    BY <1>1, KeysOfTracks DEF Found
  <2>2. ASSUME NEW x \in Range(list), NEW y \in Range(list), {x, y} \subseteq DOMAIN Fingerprints(list),
               Fingerprints(list)[x] = Fingerprints(list)[y]
        PROVE  Alike(strategy, x, y)
    BY <1>1, <2>2, AlikeIs
  <2>3. DOMAIN Fingerprints(list) \subseteq Range(list)
    BY KeysOfTracks
  <2> QED
    BY <2>1, <2>2, <2>3, GroupsAreOfOneKey
<1>2. CASE strategy = "metadata_duration"
  <2>1. Found(list, strategy) = {g \in GroupsBy(list, Metadata(list)) : SameDuration(list, g)}
    BY <1>2, KeysOfTracks DEF Found
  <2>2. ASSUME NEW x \in Range(list), NEW y \in Range(list), {x, y} \subseteq DOMAIN Metadata(list),
               Metadata(list)[x] = Metadata(list)[y], Near(x, y)
        PROVE  Alike(strategy, x, y)
    BY <1>2, <2>2, AlikeIs
  <2>3. DOMAIN Metadata(list) \subseteq Range(list)
    BY KeysOfTracks
  <2>4. ASSUME NEW g \in Found(list, strategy), NEW x \in Range(list), NEW y \in Range(list),
               {x.id, y.id} \subseteq Range(g)
        PROVE  Near(x, y)
    BY <2>1, <2>4, LengthsAgree
  <2> QED
    BY <2>1, <2>2, <2>3, <2>4, GroupsAreOfOneKey
<1>3. CASE strategy = "content_hash"
  <2>1. Found(list, strategy) = GroupsBy(list, Contents(list))
    BY <1>3, KeysOfTracks DEF Found
  <2>2. ASSUME NEW x \in Range(list), NEW y \in Range(list), {x, y} \subseteq DOMAIN Contents(list),
               Contents(list)[x] = Contents(list)[y]
        PROVE  Alike(strategy, x, y)
    BY <1>3, <2>2, AlikeIs
  <2>3. DOMAIN Contents(list) \subseteq Range(list)
    BY KeysOfTracks
  <2> QED
    BY <2>1, <2>2, <2>3, GroupsAreOfOneKey
<1> QED
  BY <1>1, <1>2, <1>3 DEF Strategies

LEMMA AlikeAreFound ==
    ASSUME NEW list, IsTrackList(list), NEW strategy \in Strategies,
           NEW x \in Range(list), NEW y \in Range(list), x.id # y.id, Alike(strategy, x, y)
    PROVE  \/ \E g \in Found(list, strategy) : {x.id, y.id} \subseteq Range(g)
           \/ /\ strategy = "metadata_duration"
              /\ \E v, w \in Range(list) : SameMetadata(v, x) /\ SameMetadata(w, x) /\ ~Near(v, w)
<1>1. CASE strategy = "fingerprint_exact"
  <2>1. Found(list, strategy) = GroupsBy(list, Fingerprints(list))
    BY <1>1, KeysOfTracks DEF Found
  <2>2. /\ x \in DOMAIN Fingerprints(list) /\ y \in DOMAIN Fingerprints(list)
        /\ Fingerprints(list)[x] = Fingerprints(list)[y]
    BY <1>1, AlikeIs
  <2>3. DOMAIN Fingerprints(list) \subseteq Range(list)
    BY KeysOfTracks
  <2> QED
    BY <2>1, <2>2, <2>3, SameKeyIsGrouped
<1>2. CASE strategy = "metadata_duration"
  <2> DEFINE key == Metadata(list)
  <2>1. Found(list, strategy) = {g \in GroupsBy(list, key) : SameDuration(list, g)}
    BY <1>2, KeysOfTracks DEF Found
  <2>2. x \in DOMAIN key /\ y \in DOMAIN key /\ key[x] = key[y]
    BY <1>2, AlikeIs
  <2>3. DOMAIN key \subseteq Range(list)
    BY KeysOfTracks
  <2>4. ASSUME NEW v \in DOMAIN key, key[v] = key[x] PROVE SameMetadata(v, x)
    <3>1. v \in Range(list) /\ key[v] = <<v.title, v.artist, v.album>>
          /\ key[x] = <<x.title, x.artist, x.album>>
      BY <2>2, <2>4, KeysOfTracks
    <3>2. <<v.title, v.artist, v.album>> = <<x.title, x.artist, x.album>>
      BY <2>4, <3>1, Zenon
    <3> QED
      BY <3>2 DEF SameMetadata
  <2> HIDE DEF key
  <2>5. PICK g \in GroupsBy(list, key) : {x.id, y.id} \subseteq Range(g)
    BY <2>2, <2>3, SameKeyIsGrouped
  <2>6. CASE SameDuration(list, g)
    BY <2>1, <2>5, <2>6
  <2>7. CASE ~SameDuration(list, g)
    <3>1. PICK v \in Range(list), w \in Range(list) : {v.id, w.id} \subseteq Range(g) /\ ~Near(v, w)
      BY <2>7, LengthsAgree
    <3>2. \A t \in Range(list) : t.id \in Range(g) => t \in DOMAIN key /\ key[t] = key[x]
      BY <2>3, <2>5, GroupsAreOfOneKey
    <3> QED
      BY <1>2, <2>4, <3>1, <3>2
  <2> QED
    BY <2>6, <2>7
<1>3. CASE strategy = "content_hash"
  <2>1. Found(list, strategy) = GroupsBy(list, Contents(list))
    BY <1>3, KeysOfTracks DEF Found
  <2>2. /\ x \in DOMAIN Contents(list) /\ y \in DOMAIN Contents(list)
        /\ Contents(list)[x] = Contents(list)[y]
    BY <1>3, AlikeIs
  <2>3. DOMAIN Contents(list) \subseteq Range(list)
    BY KeysOfTracks
  <2> QED
    BY <2>1, <2>2, <2>3, SameKeyIsGrouped
<1> QED
  BY <1>1, <1>2, <1>3 DEF Strategies

(* What is asked is one of the inputs, and an answer is that of its algorithm. *)
LibraryInv ==
    /\ kind \in {"duplicates", "topk", "mood"}
    /\ kind = "duplicates" => input \in TrackLists /\ answer \in {NoAnswer, FindDuplicates(input)}
    /\ kind = "topk" =>
          input \in Searches /\ answer \in {NoAnswer, CosineTopK(input.vectors, input.query, input.k)}
    /\ kind = "mood" => input \in Maps /\ answer \in {NoAnswer, MoodMap(input.ids, input.size)}

LEMMA LibraryInvariant == LibrarySpec => []LibraryInv
<1>1. LibraryInit => LibraryInv
  BY DEF LibraryInit, LibraryInv, Asked
<1>2. LibraryInv /\ [LibraryNext]_asking => LibraryInv'
  <2> SUFFICES ASSUME LibraryInv, [LibraryNext]_asking PROVE LibraryInv'
    OBVIOUS
  <2>1. CASE RunDuplicates
    BY <2>1 DEF LibraryInv, RunDuplicates, Compute
  <2>2. CASE RunTopK
    BY <2>2 DEF LibraryInv, RunTopK, Compute
  <2>3. CASE RunMoodMap
    BY <2>3 DEF LibraryInv, RunMoodMap, Compute
  <2>4. CASE UNCHANGED asking
    BY <2>4 DEF LibraryInv, asking
  <2> QED
    BY <2>1, <2>2, <2>3, <2>4 DEF LibraryNext
<1> QED
  BY <1>1, <1>2, PTL DEF LibrarySpec

LEMMA GroupsOfAList ==
    ASSUME NEW list, IsTrackList(list), kind = "duplicates", input = list,
           answer = FindDuplicates(list)
    PROVE  GroupsAreTheDuplicates
<1>1. ASSUME NEW g \in answer
      PROVE  /\ Cardinality(Range(g.track_ids)) = Len(g.track_ids) /\ Len(g.track_ids) >= 2
             /\ Range(g.track_ids) \subseteq {t.id : t \in Range(list)}
             /\ \A x, y \in Range(list) :
                   x.id # y.id /\ {x.id, y.id} \subseteq Range(g.track_ids) => Alike(g.strategy, x, y)
  BY WhatIsFound, FoundAreAlike
<1>2. ASSUME NEW g \in answer, NEW h \in answer, g # h, g.strategy = h.strategy
      PROVE  Range(g.track_ids) \cap Range(h.track_ids) = {}
  <2>1. /\ g.strategy \in Strategies
        /\ g.track_ids \in Found(list, g.strategy) /\ h.track_ids \in Found(list, g.strategy)
    BY <1>2, WhatIsFound
  <2>2. g.track_ids # h.track_ids
    BY <1>2, WhatIsFound
  <2> QED
    BY <2>1, <2>2, FoundAreAlike
<1>3. GroupsAreDuplicates
  BY <1>1, <1>2 DEF GroupsAreDuplicates
<1>4. DuplicatesAreGrouped
  <2> SUFFICES ASSUME NEW strategy \in Strategies, NEW x \in Range(list), NEW y \in Range(list),
                      x.id # y.id, Alike(strategy, x, y)
               PROVE  \/ \E g \in answer : g.strategy = strategy /\ {x.id, y.id} \subseteq Range(g.track_ids)
                      \/ /\ strategy = "metadata_duration"
                         /\ \E v, w \in Range(list) :
                               SameMetadata(v, x) /\ SameMetadata(w, x) /\ ~Near(v, w)
    BY DEF DuplicatesAreGrouped
  <2>1. CASE \E ids \in Found(list, strategy) : {x.id, y.id} \subseteq Range(ids)
    <3>1. PICK ids \in Found(list, strategy) : {x.id, y.id} \subseteq Range(ids)
      BY <2>1
    <3> DEFINE g == [strategy |-> strategy, track_ids |-> ids]
    <3>2. g \in answer /\ g.strategy = strategy /\ g.track_ids = ids
      BY WhatIsFound
    <3> QED
      BY <3>1, <3>2
  <2> QED
    BY <2>1, AlikeAreFound
<1> QED
  BY <1>3, <1>4 DEF GroupsAreTheDuplicates

(* For every list of list with ids of their own, however long. *)
THEOREM GroupsAreDuplicatesOfAnyList == LibrarySpec => []GroupsAreTheDuplicates
<1>1. LibraryInv => GroupsAreTheDuplicates
  <2> SUFFICES ASSUME LibraryInv PROVE GroupsAreTheDuplicates
    OBVIOUS
  <2>1. CASE Done("duplicates")
    <3>1. kind = "duplicates" /\ input \in TrackLists /\ answer = FindDuplicates(input)
      BY <2>1 DEF LibraryInv, Done
    <3> QED
      BY <3>1, TrackListsAssumption, GroupsOfAList
  <2>2. CASE ~Done("duplicates")
    BY <2>2 DEF GroupsAreTheDuplicates, GroupsAreDuplicates, DuplicatesAreGrouped
  <2> QED
    BY <2>1, <2>2
<1> QED
  BY <1>1, LibraryInvariant, PTL
(* Arithmetic: what a quotient is, and that multiplying keeps an order. *)
LEMMA QuotientIs ==
    ASSUME NEW a \in Nat, NEW s \in Nat, s > 0, NEW q \in Nat
    PROVE  a \div s \in Nat /\ (a \div s = q <=> q * s <= a /\ a < q * s + s)
<1>1. a \div s \in Nat /\ (a \div s) * s <= a /\ a < (a \div s) * s + s
  OBVIOUS
<1>2. q * s <= a /\ a < q * s + s => a \div s = q
  OBVIOUS
<1> QED
  BY <1>1, <1>2

LEMMA TimesKeepsOrder ==
    ASSUME NEW a \in Int, NEW b \in Int, NEW c \in Int, c > 0
    PROVE  a <= b <=> a * c <= b * c
OBVIOUS

(* A match has a score that is a number. *)
LEMMA MatchesHaveScores ==
    ASSUME NEW s, IsSearch(s), NEW i \in Matching(s.vectors, s.query)
    PROVE  Cosine(s.query, s.vectors[i].vector) \in Int /\ i \in Int
<1> DEFINE v == s.vectors[i].vector
<1>1. i \in DOMAIN s.vectors /\ Positive(s.query, v)
  BY DEF Matching
<1>2. v \in Seq(F32) /\ s.query \in Seq(F32) /\ i \in Int
  BY <1>1 DEF IsSearch, Range
<1> HIDE DEF v
<1>3. CASE Comparable(s.query, v)
  <2>1. Dot(s.query, v) \in F32 /\ Dot(s.query, s.query) \in F32 /\ Dot(v, v) \in F32
    BY <1>2, <1>3, DotIsFloat DEF Comparable
  <2>2. /\ FSqrt \in [F32 -> F32]
        /\ FMul \in [F32 \X F32 -> F32] /\ FDiv \in [F32 \X F32 -> F32]
        /\ F32 \subseteq Int \cup {NaN}
    BY FloatAssumption
  <2>3. Norm(s.query) \in F32 /\ Norm(v) \in F32
    BY <2>1, <2>2 DEF Norm
  <2>4. Cosine(s.query, v) \in F32
    BY <1>3, <2>1, <2>2, <2>3 DEF Cosine
  <2> QED
    BY <1>1, <1>2, <2>2, <2>4 DEF Positive, v
<1>4. CASE ~Comparable(s.query, v)
  BY <1>2, <1>4 DEF Cosine, v
<1> QED
  BY <1>3, <1>4

(* Which match comes before which is a strict order of all of them. *)
LEMMA BeforeIsAnOrder ==
    ASSUME NEW s, IsSearch(s)
    PROVE  LET M == Matching(s.vectors, s.query)
               B(i, j) == Before(s.vectors, s.query, i, j)
           IN  /\ \A i \in M : ~B(i, i)
               /\ \A i, j \in M : i # j => B(i, j) \/ B(j, i)
               /\ \A i, j, k \in M : B(i, j) /\ B(j, k) => B(i, k)
<1> DEFINE M == Matching(s.vectors, s.query)
           B(i, j) == Before(s.vectors, s.query, i, j)
           S(k) == Cosine(s.query, s.vectors[k].vector)
<1>1. \A i, j \in M : B(i, j) <=> S(i) > S(j) \/ (i < j /\ ~(S(j) > S(i)))
  BY DEF Before, Closer
<1>2. \A i \in M : S(i) \in Int /\ i \in Int
  BY MatchesHaveScores
<1> HIDE DEF M, B, S
<1>3. (\A i \in M : ~B(i, i)) /\ (\A i, j \in M : i # j => B(i, j) \/ B(j, i))
      /\ (\A i, j, k \in M : B(i, j) /\ B(j, k) => B(i, k))
  BY <1>1, <1>2
<1> QED
  BY <1>3 DEF M, B

(* The ranks of the matches are the numbers from 1, each once, and the one of a
   match that comes before another is less. *)
LEMMA RanksAreOnce ==
    ASSUME NEW s, IsSearch(s)
    PROVE  LET M == Matching(s.vectors, s.query)
               rank == [i \in M |-> Rank(s.vectors, s.query, i)]
           IN  /\ IsFiniteSet(M) /\ Cardinality(M) \in Nat
               /\ rank \in Bijection(M, 1 .. Cardinality(M))
               /\ \A i, j \in M : Before(s.vectors, s.query, i, j) <=> rank[i] < rank[j]
<1> DEFINE M == Matching(s.vectors, s.query)
           B(i, j) == Before(s.vectors, s.query, i, j)
           rank == [i \in M |-> Rank(s.vectors, s.query, i)]
           Ahead(i) == {j \in M : B(j, i)}
           n == Cardinality(M)
<1>1. IsFiniteSet(M) /\ n \in Nat
  <2>1. DOMAIN s.vectors = 1 .. Len(s.vectors) /\ Len(s.vectors) \in Nat
    BY DEF IsSearch
  <2>2. IsFiniteSet(1 .. Len(s.vectors))
    BY <2>1, FS_Interval
  <2>3. M \in SUBSET (1 .. Len(s.vectors))
    BY <2>1 DEF Matching
  <2> HIDE DEF M
  <2> QED
    BY <2>2, <2>3, FS_Subset, FS_CardinalityType
<1>2. \A i \in M : rank[i] = 1 + Cardinality(Ahead(i))
  BY DEF Rank
<1>3. /\ \A i \in M : ~B(i, i)
      /\ \A i, j \in M : i # j => B(i, j) \/ B(j, i)
      /\ \A i, j, k \in M : B(i, j) /\ B(j, k) => B(i, k)
  BY BeforeIsAnOrder
<1>4. DOMAIN rank = M
  OBVIOUS
<1> HIDE DEF M, B, rank
<1>5. ASSUME NEW i \in M
      PROVE  IsFiniteSet(Ahead(i)) /\ Cardinality(Ahead(i)) \in Nat /\ Cardinality(Ahead(i)) + 1 <= n
  <2>1. Ahead(i) \in SUBSET (M \ {i}) /\ IsFiniteSet(M \ {i}) /\ Cardinality(M \ {i}) = n - 1
    BY <1>1, <1>3, FS_RemoveElement
  <2> HIDE DEF Ahead
  <2>2. IsFiniteSet(Ahead(i)) /\ Cardinality(Ahead(i)) <= n - 1
    BY <2>1, FS_Subset
  <2>3. Cardinality(Ahead(i)) \in Nat
    BY <2>2, FS_CardinalityType
  <2> QED
    BY <1>1, <2>2, <2>3
<1>6. ASSUME NEW i \in M, NEW j \in M, B(i, j) PROVE rank[i] < rank[j]
  <2>1. i \notin Ahead(i) /\ Ahead(i) \cup {i} \in SUBSET Ahead(j)
    BY <1>3, <1>6
  <2> HIDE DEF Ahead
  <2>2. Cardinality(Ahead(i) \cup {i}) = Cardinality(Ahead(i)) + 1
    BY <1>5, <2>1, FS_AddElement
  <2>3. Cardinality(Ahead(i) \cup {i}) <= Cardinality(Ahead(j))
    BY <1>5, <2>1, FS_Subset
  <2> QED
    BY <1>2, <1>5, <2>2, <2>3
<1>7. \A i \in M : rank[i] \in 1 .. n
  <2> HIDE DEF Ahead
  <2> QED
    BY <1>1, <1>2, <1>5
<1>8. \A i, j \in M : B(i, j) <=> rank[i] < rank[j]
  BY <1>1, <1>3, <1>6, <1>7
<1>9. rank \in [M -> 1 .. n]
  BY <1>4, <1>7 DEF rank
<1>10. rank \in Injection(M, 1 .. n)
  <2>1. \A i, j \in M : i # j => rank[i] # rank[j]
    BY <1>1, <1>3, <1>7, <1>8
  <2> QED
    BY <1>9, <2>1 DEF Injection, IsInjective
<1>11. IsFiniteSet(1 .. n) /\ Cardinality(1 .. n) = n
  BY <1>1, FS_Interval
<1>12. rank \in Surjection(M, 1 .. n)
  BY <1>1, <1>10, <1>11, FS_Injection
<1>13. rank \in Bijection(M, 1 .. n)
  BY <1>10, <1>12 DEF Bijection
<1> QED
  BY <1>1, <1>8, <1>13 DEF M, B, rank

LEMMA TopKOfAnIndex ==
    ASSUME NEW s, IsSearch(s), kind = "topk", input = s,
           answer = CosineTopK(s.vectors, s.query, s.k)
    PROVE  TopKAreTheBest
<1> DEFINE M == Matching(s.vectors, s.query)
           n == Cardinality(M)
           m == Shorter(s.k, n)
           rank == [i \in M |-> Rank(s.vectors, s.query, i)]
           At(r) == AtRank(s.vectors, s.query, r)
           place == [r \in 1 .. m |-> At(r)]
           Nearer(i, j) == Closer(s.query, s.vectors[i].vector, s.vectors[j].vector)
<1>1. /\ IsFiniteSet(M) /\ n \in Nat /\ rank \in Bijection(M, 1 .. n)
      /\ \A i, j \in M : Before(s.vectors, s.query, i, j) <=> rank[i] < rank[j]
  BY RanksAreOnce
<1>2. \A r \in 1 .. n : At(r) \in M /\ rank[At(r)] = r
  <2>1. \A r \in 1 .. n : \E i \in M : rank[i] = r
    BY <1>1 DEF Bijection, Surjection
  <2>2. \A r \in 1 .. n : At(r) \in M /\ Rank(s.vectors, s.query, At(r)) = r
    BY <2>1 DEF AtRank
  <2> HIDE DEF M, At
  <2> QED
    BY <2>2
<1>3. \A i, j \in M : rank[i] = rank[j] => i = j
  BY <1>1 DEF Bijection, Injection, IsInjective
<1>4. \A i \in M : rank[i] \in 1 .. n
  BY <1>1 DEF Bijection, Injection
<1>5. ASSUME NEW i \in M, NEW j \in M, rank[i] < rank[j] PROVE ~Nearer(j, i)
  <2>1. Before(s.vectors, s.query, i, j)
    BY <1>1, <1>5
  <2>2. Nearer(i, j) \/ ~Nearer(j, i)
    BY <2>1 DEF Before
  <2>3. Cosine(s.query, s.vectors[i].vector) \in Int /\ Cosine(s.query, s.vectors[j].vector) \in Int
    BY MatchesHaveScores
  <2>4. Nearer(i, j) => ~Nearer(j, i)
    BY <2>3 DEF Closer
  <2> QED
    BY <2>2, <2>4
<1>6. m \in Nat /\ m <= n /\ m <= s.k
  BY <1>1 DEF Shorter, IsSearch
<1>7. CASE s.query = <<>> \/ s.k = 0
  <2>1. answer = <<>>
    BY <1>7 DEF CosineTopK
  <2>2. m = 0
    <3>1. CASE s.k = 0
      BY <1>6, <3>1
    <3>2. CASE s.query = <<>>
      <4>1. M = {}
        BY <3>2 DEF Matching, Positive, Cosine, Comparable
      <4>2. n = 0
        BY <4>1, FS_EmptySet
      <4> QED
        BY <1>6, <4>2
    <3> QED
      BY <1>7, <3>1, <3>2
  <2>3. DOMAIN answer = {} /\ Len(answer) = m
    BY <2>1, <2>2
  <2>4. [r \in {} |-> 0] \in [DOMAIN answer -> M]
    BY <2>3
  <2> HIDE DEF m, M
  <2> QED
    BY <2>3, <2>4 DEF TopKAreTheBest, M, m
<1>8. CASE ~(s.query = <<>> \/ s.k = 0)
  <2>1. answer = [r \in 1 .. m |-> Scored(s.query, s.vectors[At(r)])]
    BY <1>8 DEF CosineTopK
  <2> HIDE DEF m, M, n, At, rank
  <2>2. DOMAIN answer = 1 .. m /\ Len(answer) = m
    <3>1. answer \in [1 .. m -> {Scored(s.query, s.vectors[At(r)]) : r \in 1 .. m}]
      BY <2>1
    <3> QED
      BY <1>6, <3>1
  <2>3. \A r \in 1 .. m : r \in 1 .. n /\ r <= m
    BY <1>1, <1>6
  <2>4. place \in [DOMAIN answer -> M] /\ \A r \in 1 .. m : place[r] = At(r)
    BY <1>2, <2>2, <2>3
  <2>5. \A r \in 1 .. m : place[r] \in M /\ rank[place[r]] = r
                         /\ answer[r] = Scored(s.query, s.vectors[place[r]])
    BY <1>2, <2>1, <2>3, <2>4
  <2> HIDE DEF place, Nearer
  <2>6. \A r, q \in 1 .. m : r < q => place[r] # place[q] /\ ~Nearer(place[q], place[r])
    BY <1>5, <2>5
  <2>7. ASSUME NEW i \in M \ Range(place), NEW r \in 1 .. m PROVE ~Nearer(i, place[r])
    <3>1. ~(rank[i] <= m)
      <4> SUFFICES ASSUME rank[i] <= m PROVE FALSE
        OBVIOUS
      <4>1. rank[i] \in 1 .. m
        BY <1>1, <1>4, <1>6, <2>7
      <4>2. i = place[rank[i]]
        BY <1>3, <2>5, <2>7, <4>1
      <4>3. DOMAIN place = 1 .. m
        BY <2>2, <2>4
      <4> QED
        BY <2>7, <4>1, <4>2, <4>3 DEF Range
    <3>2. rank[place[r]] < rank[i]
      BY <1>1, <1>4, <1>6, <2>3, <2>5, <2>7, <3>1
    <3> QED
      BY <1>5, <2>5, <2>7, <3>2
  <2>8. /\ Len(answer) = m
        /\ place \in [DOMAIN answer -> M]
        /\ \A r \in DOMAIN answer : answer[r] = Scored(s.query, s.vectors[place[r]])
        /\ \A r, q \in DOMAIN answer : r < q => place[r] # place[q] /\ ~Nearer(place[q], place[r])
        /\ \A i \in M \ Range(place), r \in DOMAIN answer : ~Nearer(i, place[r])
    BY <2>2, <2>4, <2>5, <2>6, <2>7
  <2> QED
    BY <2>8 DEF TopKAreTheBest, M, m, n, Nearer
<1> QED
  BY <1>7, <1>8

(* A cluster is a stretch of the list. *)
LEMMA ClustersOfAList ==
    ASSUME NEW s, IsMap(s), kind = "mood", input = s, answer = MoodMap(s.ids, s.size)
    PROVE  ClustersAreFull
<1> DEFINE size == IF s.size = 0 THEN 1 ELSE s.size
           n == Len(s.ids)
           last == IF n = 0 THEN 0 ELSE (n - 1) \div size + 1
           Members(c) == {i \in DOMAIN answer.points : answer.points[i].cluster_id = c}
<1>1. size \in Nat /\ size > 0 /\ n \in Nat /\ DOMAIN s.ids = 1 .. n
  BY DEF IsMap
<1>2. answer.points = [i \in 1 .. n |-> [track_id |-> s.ids[i], cluster_id |-> (i - 1) \div size]]
  BY <1>1 DEF MoodMap, ClusterOf
<1>3. answer.cluster_count = last
  <2>1. s.ids = <<>> <=> n = 0
    BY DEF IsMap
  <2> QED
    BY <2>1 DEF MoodMap, ClusterOf
<1>4. [i \in DOMAIN answer.points |-> answer.points[i].track_id] = s.ids
  <2>1. s.ids = [i \in 1 .. n |-> s.ids[i]]
    BY DEF IsMap
  <2> HIDE DEF n, size
  <2> QED
    BY <1>2, <2>1
<1> HIDE DEF size, n
<1>5. \A c : Members(c) = {i \in 1 .. n : (i - 1) \div size = c}
  BY <1>2
<1>6. \A c \in Nat : Members(c) = {i \in 1 .. n : c * size <= i - 1 /\ i - 1 < c * size + size}
  <2>1. ASSUME NEW c \in Nat, NEW i \in 1 .. n
        PROVE  (i - 1) \div size = c <=> c * size <= i - 1 /\ i - 1 < c * size + size
    BY <1>1, QuotientIs
  <2> HIDE DEF Members
  <2> QED
    BY <1>5, <2>1
<1> HIDE DEF Members
<1>7. last \in Nat /\ (last # 0 => n # 0 /\ (last - 1) * size <= n - 1)
  <2>1. CASE n = 0
    BY <2>1
  <2>2. CASE n # 0
    <3>1. n - 1 \in Nat /\ (n - 1) \div size \in Nat /\ ((n - 1) \div size) * size <= n - 1
      BY <1>1, <2>2, QuotientIs
    <3> DEFINE q == (n - 1) \div size
    <3>2. last = q + 1 /\ q \in Nat /\ q * size <= n - 1
      BY <2>2, <3>1
    <3> HIDE DEF q, last
    <3> QED
      BY <1>1, <2>2, <3>2
  <2> QED
    BY <2>1, <2>2
<1>8. UNION {Members(c) : c \in 0 .. last - 1} = 1 .. n
  <2>1. ASSUME NEW i \in 1 .. n PROVE \E c \in 0 .. last - 1 : i \in Members(c)
    <3> DEFINE c == (i - 1) \div size
               q == (n - 1) \div size
    <3>1. i - 1 \in Nat /\ n - 1 \in Nat /\ n # 0
      BY <1>1
    <3>2. c \in Nat /\ c * size <= i - 1 /\ q \in Nat /\ n - 1 < q * size + size
      BY <1>1, <3>1, QuotientIs
    <3>3. last = q + 1
      BY <3>1
    <3>4. i \in Members(c)
      BY <1>5
    <3> HIDE DEF c, q
    <3>5. c <= q
      <4> SUFFICES ASSUME c >= q + 1 PROVE FALSE
        BY <3>2
      <4>1. (q + 1) * size <= c * size
        BY <1>1, <3>2, TimesKeepsOrder
      <4>2. (q + 1) * size = q * size + size
        BY <1>1, <3>2
      <4> QED
        BY <1>1, <3>1, <3>2, <4>1, <4>2
    <3>6. c \in 0 .. last - 1
      BY <3>2, <3>3, <3>5
    <3> QED
      BY <3>4, <3>6
  <2>2. \A c : Members(c) \subseteq 1 .. n
    BY <1>5
  <2> HIDE DEF last
  <2> QED
    BY <2>1, <2>2
<1>9. ASSUME NEW c \in 0 .. last - 1
      PROVE  /\ Cardinality(Members(c)) \in 1 .. size
             /\ c <= last - 2 => Cardinality(Members(c)) = size
  <2> HIDE DEF last
  <2>1. c \in Nat /\ c * size \in Nat
    BY <1>1, <1>7
  <2>2. c * size <= n - 1
    <3>1. c <= last - 1 /\ last # 0
      BY <1>7
    <3>2. c * size <= (last - 1) * size /\ (last - 1) * size \in Int
      BY <1>1, <1>7, <2>1, <3>1, TimesKeepsOrder
    <3> QED
      BY <1>1, <1>7, <2>1, <3>1, <3>2
  <2>3. ASSUME c <= last - 2 PROVE c * size + size <= n
    <3>1. (c + 1) * size <= (last - 1) * size /\ (last - 1) * size \in Int
      BY <1>1, <1>7, <2>1, <2>3, TimesKeepsOrder
    <3>2. (c + 1) * size = c * size + size
      BY <1>1, <2>1
    <3> QED
      BY <1>1, <1>7, <2>1, <3>1, <3>2
  <2> DEFINE first == c * size
  <2>4. Members(c) = {i \in 1 .. n : first <= i - 1 /\ i - 1 < first + size}
    BY <1>6, <2>1
  <2> HIDE DEF first
  <2>5. first \in Nat /\ first <= n - 1 /\ (c <= last - 2 => first + size <= n)
    BY <2>1, <2>2, <2>3 DEF first
  <2> DEFINE to == IF first + size <= n THEN first + size ELSE n
  <2>6. Members(c) = first + 1 .. to
    BY <1>1, <2>4, <2>5
  <2>7. to \in Int /\ first + 1 <= to /\ to - first <= size /\ (first + size <= n => to - first = size)
    BY <1>1, <2>5
  <2> HIDE DEF to
  <2>8. Cardinality(Members(c)) = to - first
    <3>1. Cardinality(first + 1 .. to) = IF first + 1 > to THEN 0 ELSE to - (first + 1) + 1
      BY <2>5, <2>7, FS_Interval
    <3> QED
      BY <2>5, <2>6, <2>7, <3>1
  <2> QED
    BY <1>1, <2>5, <2>7, <2>8
<1>10. DOMAIN answer.points = 1 .. n
  BY <1>2
<1>11. /\ \A c \in 0 .. last - 1 : Cardinality(Members(c)) \in 1 .. size
       /\ \A c \in 0 .. last - 2 : Cardinality(Members(c)) = size
  <2> HIDE DEF last
  <2>1. \A c \in 0 .. last - 2 : c \in 0 .. last - 1 /\ c <= last - 2
    BY <1>7
  <2> QED
    BY <1>9, <2>1
<1> HIDE DEF last
<1> QED
  BY <1>3, <1>4, <1>8, <1>10, <1>11 DEF ClustersAreFull, Members, size

(* Whatever index, query and k cosine_top_k is given, and however the arithmetic
   of floats rounds and overflows, no match it leaves out has a higher score than
   one it lists, and the list is in the order of the scores; whatever tracks and size of
   a cluster project_and_cluster is given, it leaves out none and only the last
   cluster may be smaller. *)
THEOREM TheBestIsRecommended == LibrarySpec => []RecommendsTheBest
<1>1. LibraryInv => RecommendsTheBest
  <2> SUFFICES ASSUME LibraryInv PROVE RecommendsTheBest
    OBVIOUS
  <2>1. TopKAreTheBest
    <3>1. CASE Done("topk")
      <4>1. kind = "topk" /\ input \in Searches
            /\ answer = CosineTopK(input.vectors, input.query, input.k)
        BY <3>1 DEF LibraryInv, Done
      <4> QED
        BY <4>1, SearchesAssumption, TopKOfAnIndex
    <3>2. CASE ~Done("topk")
      BY <3>2 DEF TopKAreTheBest
    <3> QED
      BY <3>1, <3>2
  <2>2. ClustersAreFull
    <3>1. CASE Done("mood")
      <4>1. kind = "mood" /\ input \in Maps /\ answer = MoodMap(input.ids, input.size)
        BY <3>1 DEF LibraryInv, Done
      <4> QED
        BY <4>1, MapsAssumption, ClustersOfAList
    <3>2. CASE ~Done("mood")
      BY <3>2 DEF ClustersAreFull
    <3> QED
      BY <3>1, <3>2
  <2> QED
    BY <2>1, <2>2 DEF RecommendsTheBest
<1> QED
  BY <1>1, LibraryInvariant, PTL

-----------------------------------------------------------------------------
(* PathParsesBack: which separators come first in the place of a file, and what
   is a number before them. *)
LEMMA GreatestUpTo ==
    ASSUME NEW n \in Nat, NEW T \in SUBSET (1 .. n), T # {}
    PROVE  \E x \in T : \A y \in T : y <= x
<1> DEFINE U == {n - i : i \in T}
<1>1. U \in SUBSET Nat /\ U # {}
  <2>1. \A i \in T : i \in 1 .. n /\ n - i \in Nat
    OBVIOUS
  <2> QED
    BY <2>1
<1>2. PICK u \in U : \A w \in U : u <= w
  BY <1>1, LeastOfNaturals
<1>3. PICK x \in T : u = n - x
  OBVIOUS
<1>4. ASSUME NEW y \in T PROVE y <= x
  <2>1. n - y \in U
    OBVIOUS
  <2>2. n - x <= n - y
    BY <1>2, <1>3, <2>1
  <2> QED
    BY <2>2
<1> QED
  BY <1>4

LEMMA LeastUpTo ==
    ASSUME NEW n \in Nat, NEW T \in SUBSET (1 .. n), T # {}
    PROVE  \E x \in T : \A y \in T : x <= y
<1>1. T \in SUBSET Nat
  OBVIOUS
<1> QED
  BY <1>1, LeastOfNaturals

(* Trim takes nothing from a text that begins and ends with a word, and what has
   two words is no number, however it is trimmed. *)
LEMMA SeparatorsDiffer ==
    /\ Space # Dash /\ Space # DotSpace /\ Dash # DotSpace
    /\ "." \notin Gap /\ "CD" \notin Gap /\ "." # "CD"
BY Zenon DEF Space, Dash, DotSpace, Gap

LEMMA TrimmedIs ==
    ASSUME NEW S, NEW s \in Seq(S), s # <<>>, s[1] # Space, s[Len(s)] # Space
    PROVE  Trim(s) = s
<1> DEFINE words == {i \in DOMAIN s : s[i] # Space}
           from == CHOOSE i \in words : \A j \in words : i <= j
           to == CHOOSE i \in words : \A j \in words : j <= i
<1>1. Len(s) \in Nat \ {0} /\ DOMAIN s = 1 .. Len(s)
  OBVIOUS
<1>2. 1 \in words /\ Len(s) \in words /\ \A j \in words : 1 <= j /\ j <= Len(s) /\ j \in Int
  BY <1>1
<1> HIDE DEF words
<1>3. from = 1
  <2>1. from \in words /\ \A j \in words : from <= j
    BY <1>2
  <2> HIDE DEF from
  <2> QED
    BY <1>2, <2>1
<1>4. to = Len(s)
  <2>1. to \in words /\ \A j \in words : j <= to
    BY <1>2
  <2> HIDE DEF to
  <2> QED
    BY <1>2, <2>1
<1>5. Trim(s) = SubSeq(s, from, to)
  BY <1>2 DEF Trim, words
<1>6. SubSeq(s, 1, Len(s)) = s
  BY <1>1
<1> QED
  BY <1>3, <1>4, <1>5, <1>6

LEMMA TwoWordsAreNoNumber ==
    ASSUME NEW S, NEW s \in Seq(S), NEW a \in 1 .. Len(s), NEW b \in 1 .. Len(s), a < b,
           s[a] # Space, s[b] # Space
    PROVE  U32(Trim(s)) = {}
<1> DEFINE words == {i \in DOMAIN s : s[i] # Space}
           from == CHOOSE i \in words : \A j \in words : i <= j
           to == CHOOSE i \in words : \A j \in words : j <= i
<1>1. Len(s) \in Nat /\ DOMAIN s = 1 .. Len(s)
  OBVIOUS
<1>2. a \in words /\ b \in words /\ words \in SUBSET (1 .. Len(s))
  BY <1>1
<1> HIDE DEF words
<1>3. from \in words /\ from <= a
  <2>1. \E i \in words : \A j \in words : i <= j
    BY <1>1, <1>2, LeastUpTo
  <2>2. from \in words /\ \A j \in words : from <= j
    BY <2>1
  <2> HIDE DEF from
  <2> QED
    BY <1>2, <2>2
<1>4. to \in words /\ b <= to
  <2>1. \E i \in words : \A j \in words : j <= i
    BY <1>1, <1>2, GreatestUpTo
  <2>2. to \in words /\ \A j \in words : j <= to
    BY <2>1
  <2> HIDE DEF to
  <2> QED
    BY <1>2, <2>2
<1>5. Trim(s) = SubSeq(s, from, to)
  BY <1>2 DEF Trim, words
<1> HIDE DEF from, to
<1>6. Len(SubSeq(s, from, to)) = to - from + 1
  BY <1>1, <1>2, <1>3, <1>4
<1>7. Len(Trim(s)) # 1
  BY <1>1, <1>2, <1>3, <1>4, <1>5, <1>6
<1> QED
  BY <1>7 DEF U32, IsNumber

LEMMA OneWord ==
    ASSUME NEW n \in DOMAIN Num
    PROVE  U32(Trim(<<n>>)) = {Num[n]} /\ U32(Trim(<<Space, n>>)) = {Num[n]}
<1>1. n \in Piece /\ n # Space
  BY NumAssumption, PieceAssumption DEF Gap
<1>2. Trim(<<n>>) = <<n>>
  <2> DEFINE s == <<n>>
  <2>1. s \in Seq(Piece) /\ s # <<>> /\ s[1] # Space /\ Len(s) = 1
    BY <1>1
  <2> HIDE DEF s
  <2>2. Trim(s) = s
    BY <2>1, TrimmedIs
  <2> QED
    BY <2>2 DEF s
<1>3. Trim(<<Space, n>>) = <<n>>
  <2> DEFINE s == <<Space, n>>
             words == {i \in DOMAIN s : s[i] # Space}
  <2>1. words = {2}
    BY <1>1
  <2>2. \A i \in words : (\A j \in words : i <= j) /\ (\A j \in words : j <= i)
    BY <2>1
  <2>3. (CHOOSE i \in words : \A j \in words : i <= j) = 2 /\ (CHOOSE i \in words : \A j \in words : j <= i) = 2
    BY <2>1
  <2>4. Trim(s) = SubSeq(s, 2, 2)
    BY <2>1, <2>3 DEF Trim
  <2> QED
    BY <1>1, <2>4
<1> QED
  BY <1>2, <1>3 DEF U32, IsNumber

(* A name that ends before a separator and is more than one word is no number. *)
LEMMA BeginningOfName ==
    ASSUME NEW S, NEW s \in Seq(S), NEW i \in 2 .. Len(s), s[1] # Space,
           NEW j \in 2 .. i - 1, s[j] # Space
    PROVE  U32(Trim(SubSeq(s, 1, i - 1))) = {}
<1> DEFINE t == SubSeq(s, 1, i - 1)
<1>1. t \in Seq(S) /\ Len(t) = i - 1 /\ t[1] = s[1] /\ t[j] = s[j]
  OBVIOUS
<1>2. 1 \in 1 .. Len(t) /\ j \in 1 .. Len(t) /\ 1 < j
  BY <1>1
<1> HIDE DEF t
<1>3. U32(Trim(t)) = {}
  BY <1>1, <1>2, TwoWordsAreNoNumber
<1> QED
  BY <1>3 DEF t

LEMMA OneWordBefore ==
    ASSUME NEW S, NEW s \in Seq(S), Len(s) >= 2, s[1] # Space
    PROVE  /\ s[1] \in DOMAIN Num => U32(Trim(SubSeq(s, 1, 1))) = {Num[s[1]]}
           /\ s[1] \notin DOMAIN Num => U32(Trim(SubSeq(s, 1, 1))) = {}
<1> DEFINE t == SubSeq(s, 1, 1)
<1>1. t \in Seq(S) /\ Len(t) = 1 /\ t[1] = s[1] /\ t # <<>>
  OBVIOUS
<1> HIDE DEF t
<1>2. Trim(t) = t
  BY <1>1, TrimmedIs
<1>3. /\ s[1] \in DOMAIN Num => U32(Trim(t)) = {Num[s[1]]}
      /\ s[1] \notin DOMAIN Num => U32(Trim(t)) = {}
  BY <1>1, <1>2 DEF U32, IsNumber
<1> QED
  BY <1>3 DEF t

(* FirstOf, where the second piece is the first of a set. *)
LEMMA SecondIsFirst ==
    ASSUME NEW S, NEW s \in Seq(S), NEW P, Len(s) >= 2, s[1] \notin P, s[2] \in P
    PROVE  FirstOf(s, P) = {2}
<1> DEFINE found == {j \in DOMAIN s : s[j] \in P}
<1>1. DOMAIN s = 1 .. Len(s) /\ Len(s) \in Nat
  OBVIOUS
<1>2. 2 \in found /\ \A j \in found : 2 <= j /\ j \in Int
  BY <1>1
<1> HIDE DEF found
<1>3. ASSUME NEW k \in found, \A j \in found : k <= j PROVE k = 2
  BY <1>2, <1>3
<1> QED
  BY <1>2, <1>3 DEF FirstOf, found

(* The extension goes, whatever the name has in it. *)
LEMMA ExtensionGoes ==
    ASSUME NEW S, NEW s \in Seq(S), NEW d \in S, NEW e \in S, d = ".", e \notin {".", DotSpace}
    PROVE  StripExtension(s \o <<d, e>>) = s
<1> DEFINE text == s \o <<d, e>>
           n == Len(s) + 1
           dots == {i \in DOMAIN text : text[i] \in {".", DotSpace}}
           last == CHOOSE i \in dots : \A j \in dots : j <= i
<1>1. Len(s) \in Nat /\ n \in Nat \ {0} /\ n - 1 = Len(s) /\ n + 1 = Len(s) + 2
  OBVIOUS
<1>2. text \in Seq(S) /\ Len(text) = n + 1
  OBVIOUS
<1>3. text[n] = d /\ text[n + 1] = e
  OBVIOUS
<1>4. SubSeq(text, 1, n - 1) = s
  OBVIOUS
<1> HIDE DEF text, n
<1>5. n \in dots /\ \A j \in dots : j <= n /\ j \in Int
  <2>1. DOMAIN text = 1 .. n + 1 /\ n \in 1 .. n + 1
    BY <1>1, <1>2
  <2>2. \A j \in 1 .. n + 1 : j <= n \/ j = n + 1
    BY <1>1
  <2>3. text[n] \in {".", DotSpace} /\ text[n + 1] \notin {".", DotSpace}
    BY <1>3
  <2> QED
    BY <1>1, <2>1, <2>2, <2>3
<1> HIDE DEF dots
<1>6. last = n
  <2>1. last \in dots /\ \A j \in dots : j <= last
    BY <1>5
  <2> HIDE DEF last
  <2> QED
    BY <1>1, <1>5, <2>1
<1>7. StripExtension(text) = SubSeq(text, 1, last - 1)
  BY <1>5 DEF StripExtension, dots
<1> QED
  BY <1>4, <1>6, <1>7 DEF text

(* The year of an album, or none. *)
LEMMA YearIsRead ==
    ASSUME NEW s, IsName(s), NEW y \in NumbersIn(1900 .. 2100)
    PROVE  ParseAlbum(<<y, Dash>> \o s) = [album |-> s, year |-> {Num[y]}]
<1> DEFINE text == <<y, Dash>> \o s
<1>1. y \in DOMAIN Num /\ Num[y] \in 1900 .. 2100 /\ y \in Piece /\ y # Dash /\ y # Space /\ Dash \in Piece
  BY NumAssumption, PieceAssumption DEF NumbersIn, Gap
<1>2. s \in Seq(Piece) /\ Len(s) \in Nat
  BY DEF IsName
<1>3. /\ text \in Seq(Piece) /\ Len(text) = Len(s) + 2 /\ text[1] = y /\ text[2] = Dash
      /\ SubSeq(text, 3, Len(text)) = s
  BY <1>1, <1>2
<1> HIDE DEF text
<1>4. Len(text) >= 2 /\ text[1] \notin {Dash} /\ text[2] \in {Dash}
  BY <1>1, <1>2, <1>3
<1>5. FirstOf(text, {Dash}) = {2}
  BY <1>3, <1>4, SecondIsFirst
<1>6. U32(Trim(SubSeq(text, 1, 1))) = {Num[y]}
  <2>1. text[1] # Space /\ text[1] \in DOMAIN Num
    BY <1>1, <1>3
  <2>2. U32(Trim(SubSeq(text, 1, 1))) = {Num[text[1]]}
    BY <1>3, <1>4, <2>1, OneWordBefore
  <2> QED
    BY <1>3, <2>2
<1>7. YearBefore(text, 2) = {Num[y]}
  BY <1>1, <1>6 DEF YearBefore, NumberBefore
<1>8. AlbumDash(text) = {2}
  BY <1>5, <1>7 DEF AlbumDash
<1> DEFINE i == CHOOSE i \in AlbumDash(text) : TRUE
<1>9. AlbumDash(text) # {} /\ i = 2 /\ i + 1 = 3
  BY <1>8
<1>10. ParseAlbum(text) = [album |-> SubSeq(text, i + 1, Len(text)), year |-> YearBefore(text, i)]
  BY <1>9 DEF ParseAlbum
<1> HIDE DEF i
<1>11. SubSeq(text, i + 1, Len(text)) = s /\ YearBefore(text, i) = {Num[y]}
  BY <1>3, <1>7, <1>9
<1> DEFINE a == SubSeq(text, i + 1, Len(text))
           b == YearBefore(text, i)
<1>12. ParseAlbum(text) = [album |-> a, year |-> b]
  BY <1>10
<1>13. a = s /\ b = {Num[y]}
  BY <1>11
<1> HIDE DEF a, b
<1>14. ParseAlbum(text) = [album |-> s, year |-> {Num[y]}]
  BY <1>12, <1>13
<1> QED
  BY <1>14 DEF text

(* No number below comes before the separators of a name that does not begin like
   one with a number. *)
LEMMA NoNumberBefore ==
    ASSUME NEW s, IsName(s), NEW P, P \subseteq Gap, NEW T,
           Len(s) > 1 /\ s[2] \in P => s[1] \notin NumbersIn(T)
    PROVE  \A i \in FirstOf(s, P) : NumberBefore(s, i) \cap T = {}
<1>1. s \in Seq(Piece) /\ Len(s) \in Nat \ {0} /\ s[1] \notin P /\ s[1] # Space
  BY DEF IsName, Gap
<1>2. SUFFICES ASSUME NEW i \in FirstOf(s, P) PROVE NumberBefore(s, i) \cap T = {}
  OBVIOUS
<1>3. i \in DOMAIN s /\ s[i] \in P /\ DOMAIN s = 1 .. Len(s)
  BY <1>1, <1>2 DEF FirstOf
<1>4. i \in 2 .. Len(s)
  BY <1>1, <1>3
<1>5. CASE i = 2
  <2>1. Len(s) >= 2
    BY <1>1, <1>4
  <2>2. /\ s[1] \in DOMAIN Num => U32(Trim(SubSeq(s, 1, 1))) = {Num[s[1]]}
        /\ s[1] \notin DOMAIN Num => U32(Trim(SubSeq(s, 1, 1))) = {}
    BY <1>1, <2>1, OneWordBefore
  <2>3. s[1] \in DOMAIN Num => Num[s[1]] \notin T
    BY <1>1, <1>3, <1>4, <1>5 DEF NumbersIn
  <2>4. NumberBefore(s, i) = U32(Trim(SubSeq(s, 1, 1)))
    BY <1>5 DEF NumberBefore
  <2> QED
    BY <2>2, <2>3, <2>4, Zenon
<1>6. CASE i # 2
  <2>1. i - 1 \in 2 .. i - 1 /\ i - 1 \in 1 .. Len(s) - 1 /\ (i - 1) + 1 = i
    BY <1>1, <1>4, <1>6
  <2>2. s[i - 1] \notin Gap
    BY <1>3, <2>1 DEF IsName
  <2>3. s[i - 1] # Space
    BY <2>2 DEF Gap
  <2>4. U32(Trim(SubSeq(s, 1, i - 1))) = {}
    BY <1>1, <1>4, <2>1, <2>3, BeginningOfName
  <2> QED
    BY <2>4 DEF NumberBefore
<1> QED
  BY <1>5, <1>6

LEMMA NoYearIsRead ==
    ASSUME NEW s, IsName(s), Len(s) > 1 /\ s[2] = Dash => s[1] \notin NumbersIn(1900 .. 2100)
    PROVE  ParseAlbum(s) = [album |-> s, year |-> {}]
<1> DEFINE P == {Dash}
           T == 1900 .. 2100
<1>1. P \subseteq Gap /\ (Len(s) > 1 /\ s[2] \in P => s[1] \notin NumbersIn(T))
  BY DEF Gap
<1> HIDE DEF P, T
<1>2. \A i \in FirstOf(s, P) : NumberBefore(s, i) \cap T = {}
  BY <1>1, NoNumberBefore
<1>3. ASSUME NEW i PROVE i \notin AlbumDash(s)
  <2>1. \A j \in FirstOf(s, {Dash}) : YearBefore(s, j) = {}
    BY <1>2, Zenon DEF YearBefore, P, T
  <2>2. SUFFICES ASSUME i \in AlbumDash(s) PROVE FALSE
    OBVIOUS
  <2>3. i \in FirstOf(s, {Dash}) /\ YearBefore(s, i) # {}
    BY <2>2 DEF AlbumDash
  <2> QED
    BY <2>1, <2>3
<1>4. AlbumDash(s) = {}
  BY <1>3
<1> QED
  BY <1>4 DEF ParseAlbum

(* The number of a track, whichever separator it ends at, or none. *)
LEMMA NoTrackNoIsRead ==
    ASSUME NEW s, IsName(s), Len(s) > 1 /\ s[2] \in Gap => s[1] \notin NumbersIn(1 .. 999)
    PROVE  ParseTrackPrefix(s) = [track_no |-> 1, title |-> s]
<1>1. ASSUME NEW k \in DOMAIN Separators PROVE TrackNoEnds(s, k) = {}
  <2>1. Separators[k] \subseteq Gap
    BY DEF Separators, Gap
  <2>2. Len(s) > 1 /\ s[2] \in Separators[k] => s[1] \notin NumbersIn(1 .. 999)
    BY <2>1
  <2>3. \A i \in FirstOf(s, Separators[k]) : NumberBefore(s, i) \cap (1 .. 999) = {}
    BY <2>1, <2>2, NoNumberBefore
  <2> QED
    BY <2>3 DEF TrackNoEnds, TrackNoBefore
<1>2. {k \in DOMAIN Separators : TrackNoEnds(s, k) # {}} = {}
  BY <1>1
<1> QED
  BY <1>2 DEF ParseTrackPrefix

LEMMA TrackNoIsRead ==
    ASSUME NEW s, IsName(s), NEW n \in NumbersIn(1 .. 999), NEW sep \in Gap
    PROVE  ParseTrackPrefix(<<n, sep>> \o s) = [track_no |-> Num[n], title |-> s]
<1> DEFINE text == <<n, sep>> \o s
<1>1. n \in DOMAIN Num /\ Num[n] \in 1 .. 999 /\ n \in Piece /\ n \notin Gap /\ n # Space /\ sep \in Piece
  BY NumAssumption, PieceAssumption DEF NumbersIn, Gap
<1>2. s \in Seq(Piece) /\ s # <<>> /\ Len(s) \in Nat \ {0} /\ s[1] \notin Gap /\ s[1] # Space /\ s[Len(s)] # Space
  BY DEF IsName, Gap
<1>3. /\ text \in Seq(Piece) /\ Len(text) = Len(s) + 2 /\ text[1] = n /\ text[2] = sep /\ text[3] = s[1]
      /\ SubSeq(text, 3, Len(text)) = s
  BY <1>1, <1>2
<1> HIDE DEF text
<1>4. Len(text) >= 3 /\ text[1] # Space /\ text[1] \notin Gap /\ text[3] # Space /\ text[3] \notin Gap
  BY <1>1, <1>2, <1>3
<1>5. \A k \in DOMAIN Separators : Separators[k] \subseteq Gap
  BY DEF Separators, Gap
<1>6. TrackNoBefore(text, 2) = {Num[n]}
  <2>1. U32(Trim(SubSeq(text, 1, 1))) = {Num[text[1]]}
    <3>1. Len(text) >= 2 /\ text[1] \in DOMAIN Num
      BY <1>1, <1>3, <1>4
    <3> QED
      BY <1>3, <1>4, <3>1, OneWordBefore
  <2>2. NumberBefore(text, 2) = {Num[n]}
    BY <1>3, <2>1 DEF NumberBefore
  <2> QED
    BY <1>1, <2>2 DEF TrackNoBefore
<1>7. ASSUME NEW k \in DOMAIN Separators, sep \in Separators[k], k = 3 => sep # DotSpace
      PROVE  TrackNoEnds(text, k) = {2}
  <2> DEFINE P == Separators[k]
  <2>1. Len(text) >= 2 /\ text[1] \notin P /\ text[2] \in P
    BY <1>3, <1>4, <1>5, <1>7
  <2> HIDE DEF P
  <2>2. FirstOf(text, P) = {2}
    BY <1>3, <2>1, SecondIsFirst
  <2>3. k = 3 => text[2] # DotSpace
    BY <1>3, <1>7
  <2> QED
    BY <1>6, <2>2, <2>3 DEF TrackNoEnds, P
<1>8. ASSUME NEW k \in DOMAIN Separators, sep \notin Separators[k]
      PROVE  TrackNoEnds(text, k) = {}
  <2> DEFINE P == Separators[k]
  <2>1. text[1] \notin P /\ text[2] \notin P /\ text[3] \notin P
    BY <1>3, <1>4, <1>5, <1>8
  <2> HIDE DEF P
  <2>2. ASSUME NEW i \in FirstOf(text, P) PROVE TrackNoBefore(text, i) = {}
    <3>1. i \in 1 .. Len(text) /\ text[i] \in P
      BY <1>3, <2>2 DEF FirstOf
    <3>2. i \in 2 .. Len(text) /\ 3 \in 2 .. i - 1
      BY <1>3, <2>1, <3>1
    <3>3. U32(Trim(SubSeq(text, 1, i - 1))) = {}
      BY <1>3, <1>4, <3>2, BeginningOfName
    <3> QED
      BY <3>3 DEF TrackNoBefore, NumberBefore
  <2> QED
    BY <2>2 DEF TrackNoEnds, P
<1> DEFINE found == {k \in DOMAIN Separators : TrackNoEnds(text, k) # {}}
           first == CHOOSE k \in found : \A l \in found : k <= l
           i == CHOOSE i \in TrackNoEnds(text, first) : TRUE
<1>9. DOMAIN Separators = 1 .. 3 /\ Separators[1] = {Dash} /\ Separators[2] = {DotSpace} /\ Separators[3] = {Space, Dash, DotSpace}
  BY DEF Separators
<1>18. \A k : k \in found <=> (k \in 1 .. 3 /\ TrackNoEnds(text, k) # {})
  BY <1>9, Zenon
<1> HIDE DEF found
<1>19. {2} # {} /\ 1 \in 1 .. 3 /\ 2 \in 1 .. 3 /\ 3 \in 1 .. 3
  OBVIOUS
<1>10. \E k \in found : TrackNoEnds(text, k) = {2} /\ \A l \in found : k <= l
  <2>1. CASE sep = Dash
    <3>1. TrackNoEnds(text, 1) = {2}
      BY <1>7, <1>9, <2>1
    <3>2. 1 \in found
      BY <1>18, <1>19, <3>1, Zenon
    <3>3. \A l \in found : 1 <= l
      BY <1>18
    <3> QED
      BY <3>1, <3>2, <3>3
  <2>2. CASE sep = DotSpace
    <3>1. TrackNoEnds(text, 1) = {} /\ TrackNoEnds(text, 2) = {2}
      BY <1>7, <1>8, <1>9, <2>2, SeparatorsDiffer
    <3>2. 2 \in found /\ 1 \notin found
      BY <1>18, <1>19, <3>1, Zenon
    <3>3. \A l \in found : 2 <= l
      BY <1>18, <3>2
    <3> QED
      BY <3>1, <3>2, <3>3
  <2>3. CASE sep = Space
    <3>1. TrackNoEnds(text, 1) = {} /\ TrackNoEnds(text, 2) = {} /\ TrackNoEnds(text, 3) = {2}
      BY <1>7, <1>8, <1>9, <2>3, SeparatorsDiffer
    <3>2. 3 \in found /\ 1 \notin found /\ 2 \notin found
      BY <1>18, <1>19, <3>1, Zenon
    <3>3. \A l \in found : 3 <= l
      BY <1>18, <3>2
    <3> QED
      BY <3>1, <3>2, <3>3
  <2> QED
    BY <2>1, <2>2, <2>3 DEF Gap
<1>11. found # {} /\ found \subseteq 1 .. 3
  BY <1>10, <1>18
<1>12. TrackNoEnds(text, first) = {2}
  <2>1. first \in found /\ \A l \in found : first <= l
    BY <1>10 DEF first
  <2>2. PICK k \in found : TrackNoEnds(text, k) = {2} /\ \A l \in found : k <= l
    BY <1>10
  <2> HIDE DEF found, first
  <2>3. first = k
    BY <1>11, <2>1, <2>2
  <2> QED
    BY <2>2, <2>3
<1>13. i = 2
  BY <1>12
<1> DEFINE no == CHOOSE m \in TrackNoBefore(text, i) : TRUE
           title == Trim(SubSeq(text, i + 1, Len(text)))
<1>14. ParseTrackPrefix(text) = [track_no |-> no, title |-> title]
  BY <1>11, Zenon DEF ParseTrackPrefix, found
<1> HIDE DEF i, found, first
<1>15. no = Num[n]
  <2>1. TrackNoBefore(text, i) = {Num[n]}
    BY <1>6, <1>13
  <2> QED
    BY <2>1
<1>16. title = s
  <2>1. SubSeq(text, i + 1, Len(text)) = s
    BY <1>3, <1>13
  <2>2. Trim(s) = s
    BY <1>2, TrimmedIs
  <2> QED
    BY <2>1, <2>2
<1> HIDE DEF no, title
<1>17. ParseTrackPrefix(text) = [track_no |-> Num[n], title |-> s]
  BY <1>14, <1>15, <1>16
<1> QED
  BY <1>17 DEF text

(* The number of a disc. *)
LEMMA PiecesOfADisc ==
    ASSUME NEW S, NEW a \in S, NEW b \in S, NEW c \in S
    PROVE  <<a>> \o <<>> \o <<c>> = <<a, c>> /\ <<a>> \o <<b>> \o <<c>> = <<a, b, c>>
<1>1. <<a>> \o <<>> = <<a>> /\ <<a>> \in Seq(S) /\ <<a, c>> \in Seq(S) /\ <<a, b, c>> \in Seq(S)
  OBVIOUS
<1>2. <<a>> \o <<c>> = <<a, c>>
  <2> DEFINE u == <<a>> \o <<c>>
  <2>1. u \in Seq(S) /\ Len(u) = 2 /\ u[1] = a /\ u[2] = c
    OBVIOUS
  <2> HIDE DEF u
  <2>2. Len(<<a, c>>) = 2 /\ \A i \in 1 .. Len(u) : u[i] = <<a, c>>[i]
    BY <2>1
  <2>3. u = <<a, c>>
    BY <1>1, <2>1, <2>2, SeqEqual
  <2> QED
    BY <2>3 DEF u
<1>3. <<a>> \o <<b>> \o <<c>> = <<a, b, c>>
  <2> DEFINE v == <<a>> \o <<b>>
             u == v \o <<c>>
  <2>1. v \in Seq(S) /\ Len(v) = 2 /\ v[1] = a /\ v[2] = b
    OBVIOUS
  <2> HIDE DEF v
  <2>5. <<c>> \in Seq(S) /\ Len(<<c>>) = 1 /\ <<c>>[1] = c
    OBVIOUS
  <2>2. u \in Seq(S) /\ Len(u) = 3 /\ u[1] = a /\ u[2] = b /\ u[3] = c
    BY <2>1, <2>5, ConcatProperties
  <2> HIDE DEF u
  <2>3. Len(<<a, b, c>>) = 3 /\ \A i \in 1 .. Len(u) : u[i] = <<a, b, c>>[i]
    BY <2>2
  <2>4. u = <<a, b, c>>
    BY <1>1, <2>2, <2>3, SeqEqual
  <2> QED
    BY <2>4 DEF u, v
<1> QED
  BY <1>1, <1>2, <1>3

LEMMA DiscIsRead ==
    ASSUME NEW n \in NumbersIn(Nat \ {0}), NEW gap \in {<<>>, <<Space>>}
    PROVE  ParseDisc(<<"CD">> \o gap \o <<n>>) = {Num[n]}
<1> DEFINE cd == "CD"
           text == <<cd>> \o gap \o <<n>>
<1>1. n \in DOMAIN Num /\ Num[n] \in Nat \ {0} /\ n \in Piece /\ Space \in Piece /\ cd \in Piece
  BY PieceAssumption DEF NumbersIn, Gap
<1> HIDE DEF cd
<1>2. text = <<cd, n>> \/ text = <<cd, Space, n>>
  BY <1>1, PiecesOfADisc
<1> HIDE DEF text
<1>3. text # <<>> /\ text[1] = cd /\ (Tail(text) = <<n>> \/ Tail(text) = <<Space, n>>)
  <2>1. CASE text = <<cd, n>>
    BY <1>1, <2>1
  <2>2. CASE text = <<cd, Space, n>>
    BY <1>1, <2>2
  <2> QED
    BY <1>2, <2>1, <2>2
<1>4. U32(Trim(Tail(text))) = {Num[n]}
  BY <1>1, <1>3, OneWord
<1>5. ParseDisc(text) = {Num[n]}
  BY <1>1, <1>3, <1>4 DEF ParseDisc, cd
<1> QED
  BY <1>5 DEF text, cd

(* What an option holds. *)
LEMMA OptionIsOf ==
    ASSUME NEW S, NEW o \in {{}} \cup {{x} : x \in S}, o # {}
    PROVE  Elem(o) \in S /\ o = {Elem(o)}
<1>1. PICK x \in S : o = {x}
  OBVIOUS
<1>2. Elem(o) = x
  BY <1>1 DEF Elem
<1> QED
  BY <1>1, <1>2

LEMMA AlbumDirIsRead ==
    ASSUME NEW p, IsPlace(p)
    PROVE  /\ AlbumDir(p) \in Seq(Piece)
           /\ ParseAlbum(AlbumDir(p)) = [album |-> p.album, year |-> {Num[y] : y \in p.year}]
<1>1. /\ IsName(p.album) /\ p.album \in Seq(Piece)
      /\ Len(p.album) > 1 /\ p.album[2] = Dash => p.album[1] \notin NumbersIn(1900 .. 2100)
      /\ p.year \in {{}} \cup {{y} : y \in NumbersIn(1900 .. 2100)}
  BY DEF IsPlace, IsName
<1>2. CASE p.year = {}
  <2>1. AlbumDir(p) = p.album
    BY <1>2 DEF AlbumDir
  <2> DEFINE s == p.album
             years == {Num[y] : y \in p.year}
  <2>2. IsName(s) /\ s \in Seq(Piece) /\ (Len(s) > 1 /\ s[2] = Dash => s[1] \notin NumbersIn(1900 .. 2100))
    BY <1>1
  <2>3. years = {}
    BY <1>2
  <2> HIDE DEF s, years
  <2>4. ParseAlbum(s) = [album |-> s, year |-> {}]
    BY <2>2, NoYearIsRead
  <2>5. AlbumDir(p) = s
    BY <2>1 DEF s
  <2>6. AlbumDir(p) \in Seq(Piece) /\ ParseAlbum(AlbumDir(p)) = [album |-> s, year |-> years]
    BY <2>2, <2>3, <2>4, <2>5
  <2> QED
    BY <2>6 DEF s, years
<1>3. CASE p.year # {}
  <2> DEFINE y == Elem(p.year)
  <2>1. y \in NumbersIn(1900 .. 2100) /\ p.year = {y}
    <3> DEFINE T == NumbersIn(1900 .. 2100)
    <3>1. p.year \in {{}} \cup {{x} : x \in T}
      BY <1>1
    <3> HIDE DEF T
    <3>2. y \in T /\ p.year = {y}
      BY <1>3, <3>1, OptionIsOf
    <3> QED
      BY <3>2 DEF T
  <2>2. AlbumDir(p) = <<y, Dash>> \o p.album
    BY <1>3 DEF AlbumDir
  <2> HIDE DEF y
  <2>3. ParseAlbum(<<y, Dash>> \o p.album) = [album |-> p.album, year |-> {Num[y]}]
    BY <1>1, <2>1, YearIsRead
  <2>4. {Num[x] : x \in p.year} = {Num[y]}
    BY <2>1
  <2>5. y \in Piece /\ Dash \in Piece
    BY <2>1, PieceAssumption DEF NumbersIn, Gap
  <2>6. <<y, Dash>> \o p.album \in Seq(Piece)
    BY <1>1, <2>5
  <2> QED
    BY <2>2, <2>3, <2>4, <2>6
<1> QED
  BY <1>2, <1>3

LEMMA TrackNameIsRead ==
    ASSUME NEW p, IsPlace(p)
    PROVE  /\ TrackName(p) \in Seq(Piece) /\ TrackName(p) # <<>>
           /\ ParseTrackPrefix(TrackName(p)) =
                 [track_no |-> IF p.no = {} THEN 1 ELSE Num[Elem(p.no)], title |-> p.title]
<1>1. /\ IsName(p.title) /\ p.title \in Seq(Piece) /\ p.title # <<>>
      /\ Len(p.title) > 1 /\ p.title[2] \in Gap => p.title[1] \notin NumbersIn(1 .. 999)
      /\ p.no \in {{}} \cup {{n} : n \in NumbersIn(1 .. 999)} /\ p.sep \in Gap
  BY DEF IsPlace, IsName
<1>2. CASE p.no = {}
  <2>1. TrackName(p) = p.title
    BY <1>2 DEF TrackName
  <2>2. ParseTrackPrefix(p.title) = [track_no |-> 1, title |-> p.title]
    BY <1>1, NoTrackNoIsRead
  <2> QED
    BY <1>1, <1>2, <2>1, <2>2
<1>3. CASE p.no # {}
  <2> DEFINE n == Elem(p.no)
             sep == p.sep
  <2>1. n \in NumbersIn(1 .. 999)
    BY <1>1, <1>3, OptionIsOf
  <2>2. TrackName(p) = <<n, sep>> \o p.title
    BY <1>3 DEF TrackName
  <2>3. sep \in Gap
    BY <1>1
  <2> HIDE DEF n, sep
  <2>4. ParseTrackPrefix(<<n, sep>> \o p.title) = [track_no |-> Num[n], title |-> p.title]
    BY <1>1, <2>1, <2>3, TrackNoIsRead
  <2>5. n \in Piece /\ sep \in Piece
    BY <2>1, <2>3, PieceAssumption DEF NumbersIn
  <2>6. <<n, sep>> \o p.title \in Seq(Piece) /\ <<n, sep>> \o p.title # <<>>
    BY <1>1, <2>5
  <2> QED
    BY <1>3, <2>2, <2>4, <2>6 DEF n
<1> QED
  BY <1>2, <1>3

LEMMA FileNameIsRead ==
    ASSUME NEW p, IsPlace(p)
    PROVE  FileName(p) \in Seq(Piece) /\ StripExtension(FileName(p)) = TrackName(p)
<1> DEFINE d == "."
           e == p.ext
           s == TrackName(p)
<1>1. d \in Piece /\ e \in Piece /\ e \notin {".", DotSpace} /\ d = "."
  BY PieceAssumption DEF IsPlace
<1>2. s \in Seq(Piece)
  BY TrackNameIsRead
<1>3. FileName(p) = s \o <<d, e>>
  BY DEF FileName
<1> HIDE DEF d, e, s
<1>4. StripExtension(s \o <<d, e>>) = s
  BY <1>1, <1>2, ExtensionGoes
<1>5. s \o <<d, e>> \in Seq(Piece)
  BY <1>1, <1>2
<1> QED
  BY <1>3, <1>4, <1>5 DEF s

LEMMA DirsOfAPlace ==
    ASSUME NEW p, IsPlace(p)
    PROVE  /\ Dirs(p) \in Seq(Seq(Piece)) /\ Dirs(p)[1] = p.artist /\ Dirs(p)[2] = AlbumDir(p)
           /\ p.disc = {} /\ p.other = {} => Len(Dirs(p)) = 2
           /\ p.disc = {} /\ p.other # {} =>
                Len(Dirs(p)) = 3 /\ Dirs(p)[3] = Elem(p.other) /\ Elem(p.other) # <<>> /\ Elem(p.other)[1] # "CD"
           /\ p.disc # {} /\ p.other = {} =>
                /\ Len(Dirs(p)) = 3 /\ Dirs(p)[3] = DiscDir(p)
                /\ ParseDisc(DiscDir(p)) = {Num[d] : d \in p.disc}
           /\ p.disc # {} /\ p.other # {} => Len(Dirs(p)) = 4
<1> DEFINE S == Seq(Piece)
           a == p.artist
           b == AlbumDir(p)
           c == DiscDir(p)
           o == Elem(p.other)
           D == IF p.disc = {} THEN <<>> ELSE <<c>>
           O == IF p.other = {} THEN <<>> ELSE <<o>>
           u == <<a, b>> \o D
<1>1. a \in S /\ b \in S
  BY AlbumDirIsRead DEF IsPlace, IsName
<1>2. p.other # {} => o \in S /\ o # <<>> /\ o[1] # "CD"
  BY DEF IsPlace, IsName
<1>3. p.disc # {} => c \in S /\ ParseDisc(c) = {Num[d] : d \in p.disc}
  <2> SUFFICES ASSUME p.disc # {} PROVE c \in S /\ ParseDisc(c) = {Num[d] : d \in p.disc}
    OBVIOUS
  <2> DEFINE n == Elem(p.disc)
             gap == p.cdGap
             cd == "CD"
  <2>1. p.disc \in {{}} \cup {{d} : d \in NumbersIn(Nat \ {0})} /\ gap \in {<<>>, <<Space>>}
    BY DEF IsPlace
  <2>2. n \in NumbersIn(Nat \ {0}) /\ p.disc = {n}
    BY <2>1, OptionIsOf
  <2>3. c = <<cd>> \o gap \o <<n>>
    BY DEF DiscDir
  <2> HIDE DEF n, gap
  <2>4. ParseDisc(<<"CD">> \o gap \o <<n>>) = {Num[n]}
    BY <2>1, <2>2, DiscIsRead
  <2>5. n \in Piece /\ Space \in Piece /\ cd \in Piece
    BY <2>2, PieceAssumption DEF NumbersIn, Gap
  <2>6. {Num[d] : d \in p.disc} = {Num[n]}
    BY <2>2
  <2>7. ParseDisc(c) = {Num[d] : d \in p.disc}
    BY <2>3, <2>4, <2>6
  <2> HIDE DEF cd, c
  <2>11. <<cd>> \in Seq(Piece) /\ <<>> \in Seq(Piece) /\ <<Space>> \in Seq(Piece)
    BY <2>5
  <2>10. gap \in Seq(Piece) /\ <<cd>> \in Seq(Piece)
    BY <2>1, <2>11, Zenon
  <2>8. <<cd>> \o gap \in Seq(Piece)
    BY <2>10
  <2>9. c \in S
    BY <2>3, <2>5, <2>8
  <2> QED
    BY <2>7, <2>9
<1>4. Dirs(p) = u \o O
  BY DEF Dirs
<1> HIDE DEF S, a, b, c, o
<1>5. u \in Seq(S) /\ u[1] = a /\ u[2] = b /\ Len(u) = (IF p.disc = {} THEN 2 ELSE 3) /\ (p.disc # {} => u[3] = c)
  BY <1>1, <1>3
<1> HIDE DEF u
<1>6. CASE p.other = {}
  <2>1. Dirs(p) = u
    BY <1>4, <1>5, <1>6
  <2> QED
    BY <1>3, <1>5, <1>6, <2>1 DEF S, a, b, c
<1>7. CASE p.other # {}
  <2>1. Dirs(p) = u \o <<o>> /\ o \in S
    BY <1>2, <1>4, <1>7
  <2>2. /\ Dirs(p) \in Seq(S) /\ Len(Dirs(p)) = Len(u) + 1
        /\ Dirs(p)[1] = a /\ Dirs(p)[2] = b /\ (p.disc = {} => Dirs(p)[3] = o)
    BY <1>5, <2>1
  <2> QED
    BY <1>2, <1>5, <1>7, <2>2 DEF S, a, b, o
<1> QED
  BY <1>6, <1>7

(* What a place is read as, and the theorem. *)
LEMMA PlaceIsRead ==
    ASSUME NEW p, IsPlace(p)
    PROVE  ParsePath(Place(p)) =
             IF p.other # {} THEN {}
             ELSE {[artist |-> p.artist, album |-> p.album,
                    year |-> {Num[y] : y \in p.year},
                    disc_no |-> {Num[d] : d \in p.disc},
                    track_no |-> IF p.no = {} THEN 1 ELSE Num[Elem(p.no)],
                    title |-> p.title]}
<1> DEFINE rel == Place(p)
           dirs == Dirs(p)
           name == TrackName(p)
           disc == IF Len(dirs) = 3 THEN ParseDisc(dirs[3]) ELSE {}
           album == ParseAlbum(AlbumDir(p))
           track == ParseTrackPrefix(name)
<1>1. dirs \in Seq(Seq(Piece)) /\ FileName(p) \in Seq(Piece)
  BY DirsOfAPlace, FileNameIsRead
<1>2. rel # <<>> /\ Last(rel) = FileName(p) /\ Front(rel) = dirs
  <2> DEFINE s == dirs
             x == FileName(p)
             S == Seq(Piece)
  <2> HIDE DEF s, x, S
  <2>1. s \in Seq(S) /\ x \in S
    BY <1>1 DEF s, x, S
  <2>2. Append(s, x) \in Seq(S) /\ Len(Append(s, x)) = Len(s) + 1 /\ Len(s) \in Nat
    BY <2>1
  <2>3. Append(s, x) # <<>> /\ Append(s, x)[Len(s) + 1] = x /\ SubSeq(Append(s, x), 1, Len(s)) = s
    BY <2>1
  <2>4. Last(Append(s, x)) = x
    BY <2>2, <2>3 DEF Last
  <2>5. Front(Append(s, x)) = s
    BY <2>2, <2>3 DEF Front
  <2> QED
    BY <2>3, <2>4, <2>5 DEF Place, s, x
<1>3. StripExtension(Last(rel)) = name /\ name # <<>>
  BY <1>2, FileNameIsRead, TrackNameIsRead
<1>4. dirs[1] = p.artist /\ dirs[2] = AlbumDir(p)
  BY DirsOfAPlace
<1>5. ParsePath(rel) =
        IF Len(dirs) \notin {2, 3} \/ (Len(dirs) = 3 /\ disc = {}) THEN {}
        ELSE {[artist |-> p.artist, album |-> album.album, year |-> album.year, disc_no |-> disc,
               track_no |-> track.track_no, title |-> track.title]}
  BY <1>2, <1>3, <1>4, Zenon DEF ParsePath
<1>6. /\ album.album = p.album /\ album.year = {Num[y] : y \in p.year}
      /\ track.track_no = (IF p.no = {} THEN 1 ELSE Num[Elem(p.no)]) /\ track.title = p.title
  BY AlbumDirIsRead, TrackNameIsRead
<1> HIDE DEF album, track
<1>7. CASE p.other # {}
  <2>1. CASE p.disc = {}
    <3>1. Len(dirs) = 3 /\ disc = {}
      BY <1>7, <2>1, DirsOfAPlace DEF ParseDisc
    <3> QED
      BY <1>5, <1>7, <3>1
  <2>2. CASE p.disc # {}
    <3>1. Len(dirs) = 4
      BY <1>7, <2>2, DirsOfAPlace
    <3> QED
      BY <1>5, <1>7, <3>1
  <2> QED
    BY <2>1, <2>2
<1>8. CASE p.other = {}
  <2>1. Len(dirs) \in {2, 3} /\ (Len(dirs) = 3 => disc # {}) /\ disc = {Num[d] : d \in p.disc}
    <3>1. CASE p.disc = {}
      <4>1. Len(dirs) = 2
        BY <1>8, <3>1, DirsOfAPlace
      <4> QED
        BY <3>1, <4>1
    <3>2. CASE p.disc # {}
      <4>1. Len(dirs) = 3 /\ disc = {Num[d] : d \in p.disc}
        BY <1>8, <3>2, DirsOfAPlace
      <4> QED
        BY <3>2, <4>1
    <3> QED
      BY <3>1, <3>2
  <2> HIDE DEF disc
  <2> QED
    BY <1>5, <1>6, <1>8, <2>1
<1> QED
  BY <1>7, <1>8

(* Property PathParsesBack of parse_path: what it reads of a file in one of the
   places it documents is what the place was made of, for any names and numbers. *)
PathInv ==
    /\ input \in Places /\ kind = "path"
    /\ answer \in {NoAnswer, ParsePath(Place(input))}

THEOREM PlacesParseBack == PathSpec => []PathParsesBack
<1>1. PathInit => PathInv
  BY DEF PathInit, Asked, PathInv
<1>2. PathInv /\ [RunPath]_asking => PathInv'
  BY DEF PathInv, RunPath, Compute, asking
<1>3. PathInv => PathParsesBack
  <2> SUFFICES ASSUME PathInv, Done("path") PROVE PathParsesBack
    BY DEF PathParsesBack
  <2>1. IsPlace(input) /\ answer = ParsePath(Place(input))
    BY PlacesAssumption DEF PathInv, Done
  <2>2. ParsePath(Place(input)) =
             IF input.other # {} THEN {}
             ELSE {[artist |-> input.artist, album |-> input.album,
                    year |-> {Num[y] : y \in input.year},
                    disc_no |-> {Num[d] : d \in input.disc},
                    track_no |-> IF input.no = {} THEN 1 ELSE Num[Elem(input.no)],
                    title |-> input.title]}
    BY <2>1, PlaceIsRead
  <2> QED
    BY <2>1, <2>2, Zenon DEF PathParsesBack
<1> QED
  BY <1>1, <1>2, <1>3, PTL DEF PathSpec
=============================================================================
