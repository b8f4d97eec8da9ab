------------------------------- MODULE MCIpc -------------------------------
(***************************************************************************)
(* Instances of Ipc for TLC.                                               *)
(***************************************************************************)
EXTENDS IpcCalls

(* The client of a connection the server may leave alone makes one call. *)
FewCallsToSlow == [c \in Client |-> IF c \in Slow THEN 1 ELSE 3]
=============================================================================
