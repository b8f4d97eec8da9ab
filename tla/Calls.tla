------------------------------- MODULE Calls -------------------------------
(***************************************************************************)
(* What the callers of muzon-ipc are promised, with no stream and no frame *)
(* in sight: calls that are executed at most once and answered at most     *)
(* once, both in their order.                                              *)
(*                                                                         *)
(* A call may end without an answer and be executed all the same, then or  *)
(* later.  Once a call has timed out its connection is no longer to be     *)
(* trusted: a later call may get the answer to an earlier one, and what    *)
(* half a frame is mistaken for may be executed or returned.  Module Ipc   *)
(* implements this one (see MCIpc).                                        *)
(***************************************************************************)
EXTENDS Integers, SequencesExt

CONSTANTS Client, Junk, NoAnswer

VARIABLES
    calling,     \* a call is in progress
    call,        \* calls made so far: the number of the last one
    answer,      \* the call whose response was returned
    strayed,     \* a call has timed out
    executed,    \* the requests that were executed, in order
    last         \* the last call whose response was returned

vars == <<calling, call, answer, strayed, executed, last>>

Init ==
    /\ calling = [c \in Client |-> FALSE]
    /\ call = [c \in Client |-> 0]
    /\ answer = [c \in Client |-> NoAnswer]
    /\ strayed = [c \in Client |-> FALSE]
    /\ executed = [c \in Client |-> <<>>]
    /\ last = [c \in Client |-> 0]

Ask(c) ==
    /\ ~calling[c]
    /\ calling' = [calling EXCEPT ![c] = TRUE]
    /\ call' = [call EXCEPT ![c] = @ + 1]
    /\ answer' = [answer EXCEPT ![c] = NoAnswer]
    /\ UNCHANGED <<strayed, executed, last>>

(* Its caller may be gone, or have made other calls since. *)
Execute(c) ==
    /\ \/ \E n \in 1 .. call[c] :
             /\ \A h \in Range(executed[c]) : h < n
             /\ executed' = [executed EXCEPT ![c] = Append(@, n)]
       \/ /\ strayed[c]
          /\ executed' = [executed EXCEPT ![c] = Append(@, Junk)]
    /\ UNCHANGED <<calling, call, answer, strayed, last>>

Return(c) ==
    /\ calling[c]
    /\ calling' = [calling EXCEPT ![c] = FALSE]
    /\ \/ \E n \in Range(executed[c]) \ {Junk} :
             /\ n > last[c]
             /\ ~strayed[c] => n = call[c]
             /\ answer' = [answer EXCEPT ![c] = n]
             /\ last' = [last EXCEPT ![c] = n]
       \/ /\ strayed[c]
          /\ answer' = [answer EXCEPT ![c] = Junk]
          /\ last' = last
    /\ UNCHANGED <<call, strayed, executed>>

(* The connection breaks, or the call times out. *)
GiveUp(c) ==
    /\ calling[c]
    /\ calling' = [calling EXCEPT ![c] = FALSE]
    /\ strayed' \in {strayed, [strayed EXCEPT ![c] = TRUE]}
    /\ UNCHANGED <<call, answer, executed, last>>

(* The caller goes away, in a call or not. *)
Leave(c) ==
    /\ calling' = [calling EXCEPT ![c] = FALSE]
    /\ answer' = [answer EXCEPT ![c] = NoAnswer]
    /\ UNCHANGED <<call, strayed, executed, last>>

Next == \E c \in Client : Ask(c) \/ Execute(c) \/ Return(c) \/ GiveUp(c) \/ Leave(c)

Spec == Init /\ [][Next]_vars
=============================================================================
