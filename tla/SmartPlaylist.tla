---------------------------- MODULE SmartPlaylist ----------------------------
(***************************************************************************)
(* Smart playlists (crates/muzon-library/src/smart_playlist.rs): the       *)
(* predicate language, its recursive-descent parser, its evaluation, and   *)
(* the update of a playlist.                                               *)
(*                                                                         *)
(* A text is a sequence of pieces that a character is never part of two    *)
(* of: a keyword, a word, a number, an operator, a string in quotes, a     *)
(* space.  Pieces without a space between them stand side by side in the   *)
(* text too, which is how the parser sees them: a keyword is one wherever  *)
(* it stands, even as the beginning of a longer word.                      *)
(* A numeric field or literal is an integer; an Option is a set of at most *)
(* one value.                                                              *)
(***************************************************************************)
EXTENDS Integers, Sequences, SequencesExt

CONSTANTS
    Word,        \* pieces that are letters
    Number,      \* pieces that are numbers: a function to Option<f64>
    Quoted       \* closed strings: a function to [text, number : Option<f64>]

Keyword == {"OR", "AND", "NOT"}
Operators == {">=", "<=", "==", "!=", ">", "<"}
Eof == "end of the text"

-----------------------------------------------------------------------------
(* Predicate *)

Both(op, p, q) == [op |-> op, left |-> p, right |-> q]
And(p, q) == Both("And", p, q)
Or(p, q) == Both("Or", p, q)
Not(p) == [op |-> "Not", inner |-> p]
Atom(op, field, value) == [op |-> op, field |-> field, value |-> value]

(* field_value and field_numeric: no field is both, and `favourite` neither. *)
TextField == {<<"title">>, <<"artist">>, <<"album">>, <<"genre">>, <<"key">>, <<"mood">>, <<"codec">>}
NumericField == {<<"year">>, <<"bpm">>, <<"play_count">>, <<"duration_ms">>}
FieldValue(field, track) == IF field \in TextField /\ field \in DOMAIN track THEN {track[field]} ELSE {}
FieldNumeric(field, track) == IF field \in NumericField /\ field \in DOMAIN track THEN track[field] ELSE {}

(* An atom.  A numeric field equals nothing; one that is not there compares with
   nothing. *)
Holds(p, track) ==
    CASE p.op = "==" -> FieldValue(p.field, track) = {p.value.text}
      [] p.op = "!=" -> FieldValue(p.field, track) # {p.value.text}
      [] p.op = ">"  -> \E x \in FieldNumeric(p.field, track) : x > p.value.number
      [] p.op = "<"  -> \E x \in FieldNumeric(p.field, track) : x < p.value.number
      [] p.op = ">=" -> \E x \in FieldNumeric(p.field, track) : x >= p.value.number
      [] p.op = "<=" -> \E x \in FieldNumeric(p.field, track) : x <= p.value.number

RECURSIVE Evaluate(_, _)
Evaluate(p, track) ==
    CASE p.op = "And" -> Evaluate(p.left, track) /\ Evaluate(p.right, track)
      [] p.op = "Or" -> Evaluate(p.left, track) \/ Evaluate(p.right, track)
      [] p.op = "Not" -> ~Evaluate(p.inner, track)
      [] OTHER -> Holds(p, track)

-----------------------------------------------------------------------------
(* Parser.  A parse of s from i on is its predicate, or what was wrong, and the
   place it has come to. *)

Peek(s, i) == IF i <= Len(s) THEN s[i] ELSE Eof
EndOfRun(s, i, Piece) == CHOOSE j \in i .. Len(s) + 1 :
                            /\ \A k \in i .. j - 1 : s[k] \in Piece
                            /\ Peek(s, j) \notin Piece
SkipWs(s, i) == EndOfRun(s, i, {" "})

Parsed(p, i) == [ok |-> TRUE, pred |-> p, pos |-> i]
ParseError(why, i) == [ok |-> FALSE, why |-> why, pos |-> i]

(* parse_literal: a string, which a second quote ends, or the longest number.
   As a number it is 0 if it does not parse. *)
UnwrapOr0(n) == IF n = {} THEN 0 ELSE CHOOSE x \in n : TRUE
Literal(piece) ==
    IF piece \in DOMAIN Quoted
    THEN [text |-> Quoted[piece].text, number |-> UnwrapOr0(Quoted[piece].number)]
    ELSE [text |-> piece, number |-> UnwrapOr0(Number[piece])]

NamePiece == Word \cup Keyword \cup {n \in DOMAIN Number : Number[n] # {}}

(* Identifier, operator, literal, with spaces between them or not. *)
ParseComparison(s, i) ==
    LET name == EndOfRun(s, i, NamePiece)
        op == SkipWs(s, name)
        value == SkipWs(s, op + 1)
        piece == Peek(s, value)
    IN  CASE name = i -> ParseError("UnexpectedChar", i)
          [] name # i /\ Peek(s, op) \notin Operators -> ParseError("UnexpectedChar", op)
          [] name # i /\ Peek(s, op) \in Operators /\ piece \in DOMAIN Quoted \cup DOMAIN Number ->
                Parsed(Atom(s[op], SubSeq(s, i, name - 1), Literal(piece)), value + 1)
          [] OTHER -> ParseError(IF piece = "unclosed" THEN "UnexpectedEof" ELSE "UnexpectedChar", value)

Negated(p) == IF p.ok THEN Parsed(Not(p.pred), p.pos) ELSE p
Combined(op, p, q) == IF q.ok THEN Parsed(Both(op, p.pred, q.pred), q.pos) ELSE q
Skipped(s, p) == IF p.ok THEN [p EXCEPT !.pos = SkipWs(s, @)] ELSE p

(* What stands in parentheses.  "Empty parentheses" is the error of those that
   are not closed; empty ones lack an identifier. *)
Closed(s, p) ==
    IF ~p.ok THEN p
    ELSE IF Peek(s, p.pos) = ")" THEN [p EXCEPT !.pos = @ + 1]
    ELSE ParseError("EmptyParens", p.pos)

RECURSIVE ParseOr(_, _), OrTail(_, _), ParseAnd(_, _), AndTail(_, _), ParseNot(_, _)

(* The loop of parse_or: the tree grows to the left. *)
ParseOr(s, i) == OrTail(s, ParseAnd(s, i))
OrTail(s, left) ==
    IF ~left.ok \/ Peek(s, SkipWs(s, left.pos)) # "OR" THEN Skipped(s, left)
    ELSE OrTail(s, Combined("Or", left, ParseAnd(s, SkipWs(s, left.pos) + 1)))

ParseAnd(s, i) == AndTail(s, ParseNot(s, i))

(* Mutation: AND takes in what OR should. *)
AndTailToTheEnd(s, left) ==
    IF ~left.ok \/ Peek(s, SkipWs(s, left.pos)) # "AND" THEN Skipped(s, left)
    ELSE AndTail(s, Combined("And", left, ParseOr(s, SkipWs(s, left.pos) + 1)))

AndTail(s, left) ==
    IF ~left.ok \/ Peek(s, SkipWs(s, left.pos)) # "AND" THEN Skipped(s, left)
    ELSE AndTail(s, Combined("And", left, ParseNot(s, SkipWs(s, left.pos) + 1)))

(* parse_not and parse_atom: NOT binds tighter than AND. *)
ParseNot(s, i) ==
    LET at == SkipWs(s, i)
    IN  CASE Peek(s, at) = "NOT" -> Negated(ParseNot(s, at + 1))
          [] Peek(s, at) = "(" -> Closed(s, Skipped(s, ParseOr(s, at + 1)))
          [] OTHER -> ParseComparison(s, at)

Parse(s) ==
    LET p == ParseOr(s, 1)
        end == SkipWs(s, p.pos)
    IN  IF p.ok /\ end <= Len(s) THEN ParseError("UnexpectedTrailing", end) ELSE p

-----------------------------------------------------------------------------
(* filter and update_playlist, over pairs of an id and a track. *)

Filter(p, tracks) ==
    LET matching == SelectSeq(tracks, LAMBDA t : Evaluate(p, t.track))
    IN  [i \in DOMAIN matching |-> matching[i].id]

(* retain of what a HashSet did not hold yet. *)
Dedup(ids) == FoldLeft(LAMBDA seen, id : IF id \in ToSet(seen) THEN seen ELSE Append(seen, id), <<>>, ids)

(* Only a smart playlist with a predicate is updated, and only if that parses:
   otherwise it keeps what it had. *)
UpdatePlaylist(playlist, tracks) ==
    LET p == Parse(playlist.expression)
    IN  IF playlist.is_smart /\ playlist.kind = "predicate" /\ p.ok
        THEN [playlist EXCEPT !.track_ids = Dedup(Filter(p.pred, tracks))]
        ELSE playlist
=============================================================================
