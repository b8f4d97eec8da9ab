-------------------------------- MODULE Texts --------------------------------
(***************************************************************************)
(* Texts as sequences of pieces: words, numbers, separators and spaces.    *)
(***************************************************************************)
EXTENDS Integers, Sequences

Space == " "

(* str::trim *)
Trim(text) ==
    LET words == {i \in DOMAIN text : text[i] # Space}
        from == CHOOSE i \in words : \A j \in words : i <= j
        to == CHOOSE i \in words : \A j \in words : j <= i
    IN  IF words = {} THEN <<>> ELSE SubSeq(text, from, to)
=============================================================================
