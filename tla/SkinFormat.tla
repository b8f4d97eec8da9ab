------------------------------ MODULE SkinFormat ------------------------------
(***************************************************************************)
(* What muzon-skin does with the text of a skin: the check of a loaded     *)
(* skin and the substitution in its template (lib.rs), and the re-tinting  *)
(* of its stylesheet (css.rs).                                             *)
(*                                                                         *)
(* A stylesheet is a sequence of lines.  A line is of a kind: one that     *)
(* begins the `:root` block, one that is a lone "}", a declaration, or     *)
(* another; it names at most one variable, gives it a value, and ends in a *)
(* semicolon or not.  A template is a text of the pieces "{{" and "}}",    *)
(* spaces and words.                                                       *)
(***************************************************************************)
EXTENDS Config, Texts

CONSTANT RequiredCssVariables, ValidGrids

(* The text of a variable is also found within that of another. *)
Within(var) == IF var = "--accent-2" THEN {"--accent", "--accent-2"} ELSE {var}

-----------------------------------------------------------------------------
(* css.rs *)

(* A replaced line is written anew, with its semicolon. *)
Tinted(line, accent) ==
    [line EXCEPT !.value = IF line.var = "--accent" THEN Hex(accent) ELSE HexAccent2(accent),
                 !.ended = TRUE]

InRoot(css, i) ==
    \E r \in 1 .. i - 1 :
        /\ css[r].kind = "root"
        /\ \A k \in r + 1 .. i - 1 : css[k].kind # "close"

(* Mutation: in whatever block. *)
ApplyAccentEverywhere(css, accent) ==
    [i \in DOMAIN css |->
        IF css[i].kind = "decl" /\ css[i].var \in {"--accent", "--accent-2"}
        THEN Tinted(css[i], accent) ELSE css[i]]
ApplyAccent(css, accent) ==
    [i \in DOMAIN css |->
        IF InRoot(css, i) /\ css[i].kind = "decl" /\ css[i].var \in {"--accent", "--accent-2"}
        THEN Tinted(css[i], accent) ELSE css[i]]

(* The first line of the form "--name: value;", in whatever block. *)
ExtractVariable(css, var) ==
    LET Declares(i) == css[i].kind = "decl" /\ css[i].var = var /\ css[i].ended
        at == {i \in DOMAIN css : Declares(i)}
    IN  {css[i].value : i \in {j \in at : \A k \in at : j <= k}}

MissingRequiredVariables(css) == {var \in RequiredCssVariables : ExtractVariable(css, var) = {}}

-----------------------------------------------------------------------------
(* lib.rs *)

ContainsText(css, var) == \E i \in DOMAIN css : var \in Within(css[i].var)

(* The checks, in order: the first that fails is the error. *)
Validate(skin) ==
    CASE skin.grid \notin ValidGrids -> "UnknownGrid"
      [] skin.grid \in ValidGrids
         /\ \E var \in RequiredCssVariables : ~ContainsText(skin.css, var) -> "MissingCssVariable"
      [] OTHER -> IF skin.template \in Seq({Space}) THEN "EmptyTemplate" ELSE "ok"

Opening == "{{"
Closing == "}}"

(* The first placeholder from position i on: where it opens, and the next "}}". *)
Placeholders(text, i) ==
    {h \in (i .. Len(text)) \X (i .. Len(text)) :
        /\ text[h[1]] = Opening /\ \A k \in i .. h[1] - 1 : text[k] # Opening
        /\ h[1] < h[2] /\ text[h[2]] = Closing /\ \A k \in h[1] + 1 .. h[2] - 1 : text[k] # Closing}

(* One of a key that is not known stays as it is. *)
Substituted(text, values, h) ==
    LET key == Trim(SubSeq(text, h[1] + 1, h[2] - 1))
    IN  IF key \in DOMAIN values THEN values[key] ELSE SubSeq(text, h[1], h[2])

(* What is put in is not looked at again. *)
Render(template, values) ==
    LET from[i \in 1 .. Len(template) + 1] ==
            LET h == CHOOSE h \in Placeholders(template, i) : TRUE
            IN  IF Placeholders(template, i) = {} THEN SubSeq(template, i, Len(template))
                ELSE SubSeq(template, i, h[1] - 1) \o Substituted(template, values, h) \o from[h[2] + 1]
    IN  from[1]
=============================================================================
