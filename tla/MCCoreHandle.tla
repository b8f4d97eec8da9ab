---------------------------- MODULE MCCoreHandle ----------------------------
(* CoreHandle for TLC: volumes in the range and beyond it, and the one that is
   no number, two built-in skins, one of which may lose its stylesheet, and an id that is no
   skin's. *)
EXTENDS CoreHandle

MCAsked == {-20, 130, NaN}
MCFragile == {<<s, "theme.css">> : s \in Skin \ {Default}}
=============================================================================
