----------------------------- MODULE MCAlgorithms -----------------------------
(***************************************************************************)
(* The algorithms of the workspace for TLC: a state asks one of them for   *)
(* one input, its successor has the answer, and a property compares it     *)
(* with a definition of its own.                                           *)
(***************************************************************************)
EXTENDS StartUp, LibraryAnswers, PathPlaces, SmartPlaylist, SkinTexts, TLC

UpTo(n, S) == UNION {[1 .. m -> S] : m \in 0 .. n}
Option(S) == {{}} \cup {{x} : x \in S}

-----------------------------------------------------------------------------
(* Config *)

MCUnsigned == "0" :> 0 @@ "20" :> 20
WithKey(k, values) == {<<>>} \cup {k :> v : v \in values}
Merge(F, G) == {f @@ g : f \in F, g \in G}

FileSets ==
    Merge(WithKey("explicit_opt_in", BOOLEAN),
          {<<>>, "llm_providers" :> TRUE, "acoustid" :> TRUE @@ "lastfm" :> TRUE,
           "bit_perfect" :> TRUE @@ "level" :> "debug" @@ "replaygain" :> "album" @@ "max_files" :> 5})
Files == {[problem |-> {}, sets |-> f] : f \in FileSets}
         \cup {[problem |-> {p}, sets |-> <<>>] : p \in Problem}
Envs ==
    Merge(WithKey("explicit_opt_in", {"true", "false", "yes"}),
          Merge(WithKey("replaygain", {"track", "loud"}),
                Merge(WithKey("max_files", {"0", "many"}), WithKey("level", {"trace"}))))

Usual == [muzonHome |-> {"h"}, projectDir |-> {}, blocked |-> {}, logFails |-> FALSE,
          printPaths |-> FALSE, command |-> {"play"}]
MCStarts ==
    {Usual @@ [exists |-> e, file |-> f, env |-> v, logLevel |-> l] :
        e \in BOOLEAN, f \in Files, v \in Envs, l \in Option({"warn"})}
    \cup [muzonHome : Option({"h"}), projectDir : Option({"p"}),
          blocked : {{}} \cup {{d} : d \in ToSet(Directories("h"))}, logFails : BOOLEAN,
          printPaths : BOOLEAN, command : Option({"play"}), exists : BOOLEAN, file : Files,
          env : {<<>>}, logLevel : {{}}]

-----------------------------------------------------------------------------
(* Smart playlists *)

MCWord == {"genre", "year", "mood"}
MCNumber == "1990" :> {1990} @@ "1.2.3" :> {}
MCQuoted == "'Rock'" :> [text |-> "Rock", number |-> {}] @@ "'1985'" :> [text |-> "1985", number |-> {1985}]

Rock == Atom("==", <<"genre">>, Literal("'Rock'"))
Recent == Atom(">", <<"year">>, Literal("1990"))
Atoms == {Rock, Recent}
SomeTracks == {(<<"genre">> :> g) @@ (<<"year">> :> y) : g \in {"Rock", "Jazz"}, y \in {{}, {1985}, {1999}}}

PieceOf(value) ==
    CHOOSE piece \in DOMAIN MCQuoted \cup DOMAIN MCNumber : Literal(piece) = value
Blank(spaced) == IF spaced THEN <<" ">> ELSE <<>>

RECURSIVE Show(_, _)
Show(p, spaced) ==
    LET Inside(q) == <<"(">> \o Show(q, spaced) \o <<")">>
        Infix(word) == Inside(p.left) \o Blank(spaced) \o <<word>> \o Blank(spaced) \o Inside(p.right)
    IN  CASE p.op = "And" -> Infix("AND")
          [] p.op = "Or" -> Infix("OR")
          [] p.op = "Not" -> <<"NOT">> \o Blank(spaced) \o Inside(p.inner)
          [] OTHER -> p.field \o Blank(spaced) \o <<p.op>> \o Blank(spaced) \o <<PieceOf(p.value)>>

Deeper(S) == S \cup {Not(p) : p \in S} \cup {And(p, q) : p, q \in S} \cup {Or(p, q) : p, q \in S}
Predicates == Deeper(Deeper(Atoms))

RunShown == Compute("shown", Parse(Show(input.pred, input.spaced)))

(* What is written with parentheses is read as it is meant, with spaces or
   without; and what was read reads the same when it is written so again. *)
ReadsWhatIsWritten == Done("shown") => answer.ok /\ answer.pred = input.pred

(* Comparisons, each with NOT before it or not, and what joins them. *)
Flat == UNION {[terms : [1 .. n -> [not : BOOLEAN, atom : Atoms]],
                joins : [1 .. n - 1 -> {"AND", "OR"}], spaced : BOOLEAN] : n \in 1 .. 4}

FlatText(f) ==
    FoldLeft(LAMBDA text, i :
               text \o (IF i = 1 THEN <<>> ELSE <<" ", f.joins[i - 1], " ">>)
                    \o (IF f.terms[i].not THEN <<"NOT">> \o Blank(f.spaced) ELSE <<>>)
                    \o Show(f.terms[i].atom, f.spaced),
             <<>>, [i \in DOMAIN f.terms |-> i])

RunFlat == Compute("flat", Parse(FlatText(input)))

(* Without parentheses AND binds tighter than OR, and NOT tighter than both: a
   track matches if all terms of a stretch between two ORs hold for it. *)
AndBindsTighter ==
    Done("flat") =>
        LET n == Len(input.terms)
            Opens(i) == i = 1 \/ input.joins[i - 1] = "OR"
            Ends(i) == i = n \/ input.joins[i] = "OR"
        IN  /\ answer.ok
            /\ \A t \in SomeTracks :
                  Evaluate(answer.pred, t) <=>
                     \E i \in 1 .. n, j \in 1 .. n :
                        /\ i <= j /\ Opens(i) /\ Ends(j)
                        /\ \A k \in i .. j - 1 : input.joins[k] = "AND"
                        /\ \A k \in i .. j : Holds(input.terms[k].atom, t) # input.terms[k].not

Pieces == {"AND", "OR", "NOT", "(", ")", " ", "genre", "==", "'Rock'"}
RunAny == Compute("any", Parse(input))

(* Whatever is typed is either refused or means something: a text that is
   accepted has as many comparisons as it joins and one more, closes what it
   opens, and reads the same when it is written in full. *)
AcceptedMakesSense ==
    Done("any") /\ answer.ok =>
        LET Count(piece) == Len(SelectSeq(input, LAMBDA p : p = piece))
        IN  /\ Count("(") = Count(")")
            /\ Count("==") = Count("'Rock'") /\ Count("==") >= 1
            /\ Parse(Show(answer.pred, TRUE)).ok
            /\ Parse(Show(answer.pred, TRUE)).pred = answer.pred

Playlists ==
    [kind : {"predicate", "static"}, is_smart : BOOLEAN, track_ids : {<<7>>},
     expression : {Show(Rock, TRUE), <<"genre", "==">>}]
RunUpdate == Compute("update", UpdatePlaylist(input.playlist, input.tracks))

(* A smart playlist holds each matching track once, in the order of the library;
   any other, or one whose predicate is no sentence, what it held before. *)
UpdateFilters ==
    Done("update") =>
        LET matching == {i \in DOMAIN input.tracks : Holds(Rock, input.tracks[i].track)}
            FirstAt(id) == CHOOSE i \in matching :
                              /\ input.tracks[i].id = id
                              /\ \A j \in matching : input.tracks[j].id = id => i <= j
            ids == answer.track_ids
            smart == input.playlist.is_smart /\ input.playlist.kind = "predicate"
        IN  IF smart /\ Parse(input.playlist.expression).ok
            THEN /\ ToSet(ids) = {input.tracks[i].id : i \in matching}
                 /\ \A i, j \in DOMAIN ids : i < j => FirstAt(ids[i]) < FirstAt(ids[j])
            ELSE answer = input.playlist

(* What a smart playlist holds is what its text means, and a text that means
   nothing is refused. *)
PlaylistsHoldWhatTheySay ==
    ReadsWhatIsWritten /\ AndBindsTighter /\ AcceptedMakesSense /\ UpdateFilters

-----------------------------------------------------------------------------
(* Duplicates and recommendations *)

SomeFiles ==
    [id : {0}, title : {"", "t"}, artist : {"a"}, album : {"l"}, duration_ms : {0, 2000, 4000},
     size_bytes : {0, 5}, mtime : {1}, fingerprint : {"", "f"}]
Numbered(s) == [i \in DOMAIN s |-> [s[i] EXCEPT !.id = 7 - i]]
SomeChain ==
    [1 .. 4 -> [id : {0}, title : {"t"}, artist : {"a"}, album : {"l"}, duration_ms : {0, 1500, 3000},
                size_bytes : {0}, mtime : {1}, fingerprint : {""}]]
MCTrackLists == {Numbered(s) : s \in UpTo(3, SomeFiles) \cup SomeChain}

(* Small floats that can go wrong as the real ones do: whole quarters to Top,
   and beyond them infinity. *)
Top == 40
Inf == 1000
MCF32 == (-Top) .. Top \cup {-Inf, Inf, NaN}
Sign(n) == IF n < 0 THEN -1 ELSE 1
Size(n) == Sign(n) * n
Rounded(n, d) ==
    LET q == (2 * Size(n) + d) \div (2 * d)
    IN  Sign(n) * (IF q > Top THEN Inf ELSE q)

MCFAdd == [x, y \in MCF32 |->
    IF NaN \in {x, y} \/ (Size(x) = Inf /\ x = -y) THEN NaN ELSE Rounded(x + y, 1)]
MCFMul == [x, y \in MCF32 |->
    IF NaN \in {x, y} \/ {Size(x), Size(y)} = {0, Inf} THEN NaN ELSE Rounded(x * y, 4)]
MCFDiv == [x, y \in MCF32 |->
    IF NaN \in {x, y} \/ {Size(x), Size(y)} \in {{0}, {Inf}} THEN NaN
    ELSE IF y = 0 THEN Sign(x) * Inf ELSE Rounded(4 * x * Sign(y), Size(y))]
MCFSqrt == [x \in MCF32 |->
    IF x = NaN \/ x < 0 THEN NaN
    ELSE IF x = Inf THEN Inf ELSE CHOOSE r \in 0 .. Top : r * r <= 4 * x /\ 4 * x < (r + 1) * (r + 1)]

(* Two that are parallel, one whose norm is 0 only for its rounding, one too
   large for a norm, and one of no numbers. *)
Vectors == {<<0, 0>>, <<4, 0>>, <<4, 4>>, <<8, 8>>, <<-4, 0>>, <<4>>, <<1, 1>>, <<12, 12>>, <<NaN, 4>>}
Indexes == {FoldLeft(LAMBDA index, i : Insert(index, i, s[i]), <<>>, [i \in DOMAIN s |-> i]) :
               s \in UpTo(3, Vectors)}
MCSearches == [vectors : Indexes, query : {<<>>, <<4, 0>>, <<4, 8>>, <<12, 4>>, <<0, 0>>}, k : 0 .. 2]

MCMaps == [ids : {[i \in 1 .. n |-> i] : n \in 0 .. 7}, size : 0 .. 3]

-----------------------------------------------------------------------------
(* Paths *)

MCNum == "01" :> 1 @@ "7" :> 7 @@ "1999" :> 1999 @@ "0" :> 0
MCPiece == STRING
MCPlaces ==
    [artist : {<<"Artist">>},
     album : {<<"Album">>, <<"Album", " - ", "Live">>, <<"7", " - ", "Album">>},
     year : Option({"1999"}), disc : Option({"7", "01"}), cdGap : {<<>>, <<" ">>},
     no : Option({"01", "7"}), sep : {" - ", ". ", " "},
     title : {<<"Song">>, <<"Song", " - ", "Live">>, <<"Song", " ", "7">>, <<"1999">>, <<"1999", " ", "Song">>,
              <<"7", ".", "Song">>, <<"0", ". ", "Song">>},
     other : Option({<<"Scans">>}), ext : {"flac"}]

-----------------------------------------------------------------------------
(* Skins *)

Line(k, var) == [kind |-> k, var |-> var, value |-> "old", ended |-> TRUE]
Lines == {Line("root", "none"), Line("close", "none"), Line("decl", "--accent"),
          Line("decl", "--accent-2"), [Line("decl", "--accent") EXCEPT !.ended = FALSE],
          Line("other", "--accent"), Line("decl", "--bg-0")}
Accents == {"pink", "#abcdef"}
MCTints == [css : UpTo(4, Lines), first : {"pink"}, last : Accents]
MCSkins == [grid : ValidGrids \cup {"none"}, css : UpTo(3, Lines), template : {<<>>, <<" ">>, <<"text">>}]

MCToken == STRING
MCValues == (<<"title">> :> <<"{{", "artist", "}}">>) @@ (<<"artist">> :> <<"Ann">>)
Parts == [text : {<<>>, <<"}}", "text">>}, left : {<<>>, <<" ">>}, right : {<<>>},
          key : {<<"title">>, <<"artist">>, <<"{{", "title">>, <<>>}]
MCTemplates == [parts : UpTo(3, Parts), rest : {<<>>, <<"}}", "{{", "title">>}]

-----------------------------------------------------------------------------
Init ==
    \/ StartInit \/ LibraryInit \/ PathInit \/ SkinInit
    \/ Asked("shown", [pred : Predicates, spaced : BOOLEAN])
    \/ Asked("flat", Flat)
    \/ Asked("any", UpTo(4, Pieces))
    \/ Asked("update", [playlist : Playlists,
                        tracks : UpTo(3, [id : {1, 2}, track : SomeTracks])])

Next ==
    \/ RunStart \/ LibraryNext \/ RunPath \/ SkinNext
    \/ RunShown \/ RunFlat \/ RunAny \/ RunUpdate

Spec == Init /\ [][Next]_asking
=============================================================================
