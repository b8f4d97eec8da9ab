------------------------------ MODULE PathPlaces ------------------------------
(***************************************************************************)
(* The places of the files of a library, as the path parser (PathParse)    *)
(* documents them, and what it promises of them:                           *)
(*   artist / [year - ] album / [CDn / ] [nn sep ] title . ext             *)
(***************************************************************************)
EXTENDS PathParse, Asking

CONSTANTS
    Piece,    \* what a name is made of
    Places    \* where files are

(* A piece with a space in it separates two that have none. *)
Gap == {Dash, DotSpace, Space}
IsName(text) ==
    /\ text \in Seq(Piece) /\ text # <<>>
    /\ text[1] \notin Gap /\ text[Len(text)] \notin Gap
    /\ \A i \in 1 .. Len(text) - 1 : text[i] \notin Gap \/ text[i + 1] \notin Gap

NumbersIn(S) == {n \in DOMAIN Num : Num[n] \in S}

Elem(option) == CHOOSE x \in option : TRUE

(* Where a file may be.  A name that starts like one with a year or a number does
   not say which of the two it is, and is left out; so is a directory of another
   name than CDn, which makes the place none of the parser's, if it is at `other`. *)
IsPlace(p) ==
    /\ IsName(p.artist) /\ IsName(p.album) /\ IsName(p.title)
    /\ Len(p.album) > 1 /\ p.album[2] = Dash => p.album[1] \notin NumbersIn(1900 .. 2100)
    /\ Len(p.title) > 1 /\ p.title[2] \in Gap => p.title[1] \notin NumbersIn(1 .. 999)
    /\ p.year \in {{}} \cup {{y} : y \in NumbersIn(1900 .. 2100)}
    /\ p.disc \in {{}} \cup {{d} : d \in NumbersIn(Nat \ {0})}
    /\ p.no \in {{}} \cup {{n} : n \in NumbersIn(1 .. 999)}
    /\ p.cdGap \in {<<>>, <<Space>>} /\ p.sep \in Gap
    /\ \/ p.other = {}
       \/ p.other = {Elem(p.other)} /\ IsName(Elem(p.other)) /\ Elem(p.other)[1] # "CD"
    /\ p.ext \in Piece \ {".", DotSpace}

ASSUME PieceAssumption == DOMAIN Num \cup Gap \cup {"CD", "."} \subseteq Piece
ASSUME NumAssumption == DOMAIN Num \cap (Gap \cup {"CD", "."}) = {}
ASSUME PlacesAssumption == \A p \in Places : IsPlace(p)

AlbumDir(p) == IF p.year = {} THEN p.album ELSE <<Elem(p.year), Dash>> \o p.album
TrackName(p) == IF p.no = {} THEN p.title ELSE <<Elem(p.no), p.sep>> \o p.title
FileName(p) == TrackName(p) \o <<".", p.ext>>
DiscDir(p) == <<"CD">> \o p.cdGap \o <<Elem(p.disc)>>

Dirs(p) ==
    <<p.artist, AlbumDir(p)>>
    \o (IF p.disc = {} THEN <<>> ELSE <<DiscDir(p)>>)
    \o (IF p.other = {} THEN <<>> ELSE <<Elem(p.other)>>)
Place(p) == Append(Dirs(p), FileName(p))

RunPath == Compute("path", ParsePath(Place(input)))
PathInit == Asked("path", Places)
PathSpec == PathInit /\ [][RunPath]_asking

(* A file in one of the places the parser knows is read as what it was named
   for, also if its title or album have numbers and separators of their own; in
   another place it is not guessed at. *)
PathParsesBack ==
    Done("path") =>
        answer = IF input.other # {} THEN {}
                 ELSE {[artist |-> input.artist, album |-> input.album,
                        year |-> {Num[y] : y \in input.year},
                        disc_no |-> {Num[d] : d \in input.disc},
                        track_no |-> IF input.no = {} THEN 1 ELSE Num[Elem(input.no)],
                        title |-> input.title]}
=============================================================================
