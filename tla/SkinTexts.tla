------------------------------ MODULE SkinTexts ------------------------------
(***************************************************************************)
(* What the texts of a skin (SkinFormat) become, for any stylesheet and    *)
(* any template: the promises of apply_accent, validate and render.        *)
(***************************************************************************)
EXTENDS SkinFormat, Asking

CONSTANTS
    Token,       \* what a template is made of
    Values,      \* what is known of a track: the texts of some keys
    Tints,       \* a stylesheet and two accents chosen one after the other
    Skins,       \* what is loaded of a skin
    Templates    \* templates, as the placeholders in them

IsLine(l) ==
    /\ l = [kind |-> l.kind, var |-> l.var, value |-> l.value, ended |-> l.ended]
    /\ l.ended \in BOOLEAN
IsStylesheet(css) == css \in Seq(Range(css)) /\ \A l \in Range(css) : IsLine(l)

(* Every text is a few placeholders, each after a text without any, and a rest in
   which none is closed.  A placeholder has a key between spaces. *)
IsPart(p) ==
    /\ p.text \in Seq(Token) /\ \A i \in DOMAIN p.text : p.text[i] # Opening
    /\ p.left \in Seq({Space}) /\ p.right \in Seq({Space})
    /\ p.key \in Seq(Token) /\ \A i \in DOMAIN p.key : p.key[i] # Closing
    /\ p.key # <<>> => p.key[1] # Space /\ p.key[Len(p.key)] # Space
IsTemplate(t) ==
    /\ t.parts \in Seq(Range(t.parts)) /\ \A p \in Range(t.parts) : IsPart(p)
    /\ t.rest \in Seq(Token)
    /\ \A i, j \in DOMAIN t.rest : t.rest[i] = Opening /\ i < j => t.rest[j] # Closing

ASSUME TokenAssumption ==
    /\ {Space, Opening, Closing} \subseteq Token
    /\ DOMAIN Values \subseteq Seq(Token) /\ \A key \in DOMAIN Values : Values[key] \in Seq(Token)
ASSUME StylesheetAssumption == \A t \in Tints : IsStylesheet(t.css)
ASSUME SkinsAssumption == \A s \in Skins : IsStylesheet(s.css)
ASSUME TemplatesAssumption == \A t \in Templates : IsTemplate(t)

Body(p) == p.left \o p.key \o p.right
Placeholder(p) == <<Opening>> \o Body(p) \o <<Closing>>

(* The texts of a sequence, one after the other, and what follows them. *)
Joined(texts, rest) ==
    LET from[i \in 1 .. Len(texts) + 1] ==
            IF i = Len(texts) + 1 THEN rest ELSE texts[i] \o from[i + 1]
    IN  from[1]
Written(t) == Joined([i \in DOMAIN t.parts |-> t.parts[i].text \o Placeholder(t.parts[i])], t.rest)

RunTint == Compute("tint", ApplyAccent(ApplyAccent(input.css, input.first), input.last))
RunValidate == Compute("validate", Validate(input))
RunRender == Compute("render", Render(Written(input), Values))

SkinInit == Asked("tint", Tints) \/ Asked("validate", Skins) \/ Asked("render", Templates)
SkinNext == RunTint \/ RunValidate \/ RunRender
SkinSpec == SkinInit /\ [][SkinNext]_asking

-----------------------------------------------------------------------------
(* The accent chosen last is the one in force, whatever was chosen before; it is
   all that changes in the stylesheet, and only in its `:root` block, and no
   variable that was declared is missing afterwards. *)
LastAccentWins ==
    Done("tint") =>
        LET css == input.css
        IN  /\ DOMAIN answer = DOMAIN css
            /\ \A i \in DOMAIN css :
                  LET marks == {j \in 1 .. i - 1 : css[j].kind \in {"root", "close"}}
                      inRoot == \E j \in marks : css[j].kind = "root" /\ \A k \in marks : k <= j
                  IN  IF inRoot /\ css[i].kind = "decl" /\ css[i].var \in {"--accent", "--accent-2"}
                      THEN answer[i].value = IF css[i].var = "--accent" THEN Hex(input.last)
                                                                        ELSE HexAccent2(input.last)
                      ELSE answer[i] = css[i]
            /\ MissingRequiredVariables(answer) \subseteq MissingRequiredVariables(css)

(* The two checks of a stylesheet agree in one direction: one that declares
   every variable a skin must have is not refused for lack of one. *)
DeclaredIsEnough ==
    Done("validate") /\ MissingRequiredVariables(input.css) = {} => answer # "MissingCssVariable"

(* Each placeholder of a known key is filled in, once, also next to one that is
   unknown or never closed, which stay visible; a value is not searched for
   others. *)
RenderFillsIn ==
    Done("render") =>
        answer = Joined([i \in DOMAIN input.parts |->
                            LET p == input.parts[i]
                            IN  p.text \o (IF p.key \in DOMAIN Values THEN Values[p.key] ELSE Placeholder(p))],
                        input.rest)

(* The stylesheet and the template of a skin become what was asked for, and no
   line or value that was not meant changes. *)
SkinTextsAreAsAsked == LastAccentWins /\ DeclaredIsEnough /\ RenderFillsIn
=============================================================================
