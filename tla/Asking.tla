-------------------------------- MODULE Asking --------------------------------
(***************************************************************************)
(* How the algorithms of the workspace that keep no state are checked: a   *)
(* state asks one of them for one input, its successor has the answer, and *)
(* a property compares the two.                                            *)
(***************************************************************************)
CONSTANT NoAnswer

VARIABLES kind, input, answer
asking == <<kind, input, answer>>

Asked(k, S) == kind = k /\ input \in S /\ answer = NoAnswer
Compute(k, value) == kind = k /\ answer = NoAnswer /\ answer' = value /\ UNCHANGED <<kind, input>>
Done(k) == kind = k /\ answer # NoAnswer
=============================================================================
