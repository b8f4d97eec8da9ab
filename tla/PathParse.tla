------------------------------ MODULE PathParse ------------------------------
(***************************************************************************)
(* What the scanner reads from the place of a file when its tags are       *)
(* silent: parse_path of crates/muzon-library/src/path_parse.rs.           *)
(*                                                                         *)
(* A component is a sequence of pieces: words, numbers, the separators     *)
(* " - ", ". " and " ", and ".", which begins an extension; two spaces     *)
(* never meet.  An Option is a set of at most one value.                   *)
(***************************************************************************)
EXTENDS Texts, SequencesExt

CONSTANT Num   \* the numbers: a function from pieces to their values

Dash == " - "
DotSpace == ". "

IsNumber(text) == Len(text) = 1 /\ text[1] \in DOMAIN Num
U32(text) == IF IsNumber(text) THEN {Num[text[1]]} ELSE {}

(* str::find and split_once. *)
FirstOf(text, Piece) ==
    LET at == {i \in DOMAIN text : text[i] \in Piece}
    IN  {i \in at : \A j \in at : i <= j}

(* rfind('.'), which also finds the dot of a ". ". *)
StripExtension(text) ==
    LET dots == {i \in DOMAIN text : text[i] \in {".", DotSpace}}
        last == CHOOSE i \in dots : \A j \in dots : j <= i
    IN  IF dots = {} THEN text ELSE SubSeq(text, 1, last - 1)

(* CD1, CD 01: a directory of any other name is none of the patterns', nor is
   disc 0. *)
ParseDisc(text) ==
    IF text = <<>> \/ text[1] # "CD" THEN {}
    ELSE {n \in U32(Trim(Tail(text))) : n > 0}

(* "Year - Album", if what comes before the dash is a year and not just any
   number. *)
NumberBefore(text, i) == U32(Trim(SubSeq(text, 1, i - 1)))
YearBefore(text, i) == NumberBefore(text, i) \cap (1900 .. 2100)
AlbumDash(text) == {i \in FirstOf(text, {Dash}) : YearBefore(text, i) # {}}

ParseAlbum(text) ==
    IF AlbumDash(text) = {} THEN [album |-> text, year |-> {}]
    ELSE LET i == CHOOSE i \in AlbumDash(text) : TRUE
         IN  [album |-> SubSeq(text, i + 1, Len(text)), year |-> YearBefore(text, i)]

(* The separators a track number may end at, in the order they are tried.  The
   other two contain a space, too; what comes before that of a ". " ends in a
   dot, and is no number. *)
Separators == <<{Dash}, {DotSpace}, {Space, Dash, DotSpace}>>

TrackNoBefore(text, i) == NumberBefore(text, i) \cap (1 .. 999)
TrackNoEnds(text, k) ==
    {i \in FirstOf(text, Separators[k]) :
        TrackNoBefore(text, i) # {} /\ (k = 3 => text[i] # DotSpace)}

ParseTrackPrefix(text) ==
    LET found == {k \in DOMAIN Separators : TrackNoEnds(text, k) # {}}
        first == CHOOSE k \in found : \A l \in found : k <= l
        i == CHOOSE i \in TrackNoEnds(text, first) : TRUE
    IN  IF found = {} THEN [track_no |-> 1, title |-> text]
        ELSE [track_no |-> CHOOSE n \in TrackNoBefore(text, i) : TRUE,
              title |-> Trim(SubSeq(text, i + 1, Len(text)))]

(* artist / album [ / CDn ] / title, under the root; nothing else is parsed. *)
ParsePath(rel) ==
    LET name == StripExtension(Last(rel))
        dirs == Front(rel)
        disc == IF Len(dirs) = 3 THEN ParseDisc(dirs[3]) ELSE {}
        album == ParseAlbum(dirs[2])
        track == ParseTrackPrefix(name)
    IN  IF \/ rel = <<>> \/ name = <<>>
           \/ Len(dirs) \notin {2, 3}
           \/ Len(dirs) = 3 /\ disc = {}
        THEN {}
        ELSE {[artist |-> dirs[1], album |-> album.album, year |-> album.year, disc_no |-> disc,
               track_no |-> track.track_no, title |-> track.title]}
=============================================================================
