----------------------------- MODULE Playlist ------------------------------
(***************************************************************************)
(* What a listener is promised by the playback queue: one tape of tracks   *)
(* and a cursor on it.  The entries before the cursor have been played.    *)
(* While something is playing it is the entry under the cursor; the        *)
(* entries after it (from the cursor on when nothing is playing) are the   *)
(* upcoming ones.  Playing on never changes the tape, and repeat-all takes *)
(* the cursor back to the beginning.                                       *)
(*                                                                         *)
(* There is no shadow list here: what the queue restores when shuffle is   *)
(* switched off is unknown to the listener, who may only count on the      *)
(* played part and on not getting more entries than there were.  Module    *)
(* Queue implements this one (see MCQueue).                                *)
(***************************************************************************)
EXTENDS Integers, SequencesExt

CONSTANTS Track

VARIABLES tape, pos, playing, mode

vars == <<tape, pos, playing, mode>>

TypeOK ==
    /\ tape \in Seq(Track)
    /\ pos \in 0 .. Len(tape)
    /\ playing \in BOOLEAN
    /\ playing => pos < Len(tape)
    /\ mode \in {"off", "one", "all"}

Done == pos + (IF playing THEN 1 ELSE 0)   \* entries that are not upcoming

-----------------------------------------------------------------------------
Init == tape = <<>> /\ pos = 0 /\ playing = FALSE /\ mode = "off"

AddLast(t) ==
    /\ tape' = Append(tape, t)
    /\ UNCHANGED <<pos, playing, mode>>

AddNext(t) ==
    /\ tape' = InsertAt(tape, Done + 1, t)
    /\ UNCHANGED <<pos, playing, mode>>

(* Deleting a played entry moves the cursor along with the others; deleting
   the entry under the cursor stops the playback. *)
Delete(i) ==
    /\ i \in DOMAIN tape
    /\ tape' = RemoveAt(tape, i)
    /\ pos' = IF i <= pos THEN pos - 1 ELSE pos
    /\ playing' = (playing /\ i # pos + 1)
    /\ UNCHANGED mode

(* The cursor stays at its place, so a move may change what is playing. *)
Move(i, j) ==
    /\ i \in DOMAIN tape /\ j \in DOMAIN tape
    /\ tape' = InsertAt(RemoveAt(tape, i), j, tape[i])
    /\ UNCHANGED <<pos, playing, mode>>

Empty ==
    /\ tape' = <<>> /\ pos' = 0 /\ playing' = FALSE
    /\ UNCHANGED mode

(* The upcoming entries are permuted. *)
Permute ==
    /\ tape' \in { [i \in DOMAIN tape |-> tape[IF i > Done THEN p[i] ELSE i]] :
                      p \in Bijection(Done + 1 .. Len(tape), Done + 1 .. Len(tape)) }
    /\ UNCHANGED <<pos, playing, mode>>

Advance ==
    /\ ~ (mode = "one" /\ playing)
    /\ \/ Done < Len(tape) /\ pos' = Done /\ playing' = TRUE
       \/ Done = Len(tape) /\ mode = "all" /\ tape # <<>> /\ pos' = 0 /\ playing' = TRUE
       \/ Done = Len(tape) /\ (mode # "all" \/ tape = <<>>) /\ pos' = Done /\ playing' = FALSE
    /\ UNCHANGED <<tape, mode>>

(* Going back plays the last played entry again and leaves a copy of it as the
   next one; when nothing was played, the playing entry is given up. *)
GoBack ==
    /\ ~ (mode = "one" /\ playing)
    /\ \/ /\ pos > 0
          /\ tape' = InsertAt(tape, Done + 1, tape[pos])
          /\ pos' = pos - 1 /\ playing' = TRUE
       \/ /\ pos = 0 /\ playing
          /\ tape' = Tail(tape)
          /\ pos' = 0 /\ playing' = FALSE
    /\ UNCHANGED mode

(* Shuffle is switched off. *)
Restore ==
    /\ tape' \in Seq(Track)
    /\ Len(tape') \in Done .. Len(tape)
    /\ \A i \in 1 .. Done : tape'[i] = tape[i]
    /\ UNCHANGED <<pos, playing, mode>>

Repeat ==
    /\ mode' \in {"off", "one", "all"}
    /\ UNCHANGED <<tape, pos, playing>>

Next ==
    \/ \E t \in Track : AddLast(t) \/ AddNext(t)
    \/ \E i \in DOMAIN tape : Delete(i) \/ \E j \in DOMAIN tape : Move(i, j)
    \/ Empty
    \/ Permute
    \/ Advance
    \/ GoBack
    \/ Restore
    \/ Repeat

Spec == Init /\ [][Next]_vars
=============================================================================
