--------------------------- MODULE MCSkinInstall ---------------------------
(***************************************************************************)
(* Instances of SkinInstall for TLC.                                       *)
(***************************************************************************)
EXTENDS SkinInstall, TLC

CONSTANTS p, q, bad, a, b, toml, css

AnyJob == Permutations(Job)

(* The second package has a file less than the first and the same id; the third
   is not valid. *)
Packages == {p, q, bad}
EntriesOf == (p :> {toml, css}) @@ (q :> {toml}) @@ (bad :> {toml})
IdOf == (p :> a) @@ (q :> a) @@ (bad :> b)
=============================================================================
