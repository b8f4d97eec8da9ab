------------------------------ MODULE IpcCalls ------------------------------
(***************************************************************************)
(* Ipc with the history variable that relates it to the abstract Calls.    *)
(***************************************************************************)
EXTENDS Ipc

VARIABLE last   \* the last call whose response was returned

allVars == <<vars, last>>

HInit == Init /\ last = [c \in Client |-> 0]
HNext ==
    /\ Next
    /\ last' = [c \in Client |-> IF answer'[c] \in {NoAnswer, Junk} THEN last[c] ELSE answer'[c]]
HSpec == HInit /\ [][HNext]_allVars
HFairSpec == HSpec /\ Fairness

C == INSTANCE Calls WITH
        calling <- [c \in Client |-> phase[c] # "idle"],
        executed <- handled

(* Frames, timeouts and misaligned reads amount to calls that are executed at
   most once and answered at most once, in their order: a response that comes
   late may be taken for that of a later call, but never returned twice, and no
   response is returned that was not the result of an execution.  Half a frame
   is taken for a request or a response only after a timeout. *)
IpcIsCalls == C!Spec
=============================================================================
