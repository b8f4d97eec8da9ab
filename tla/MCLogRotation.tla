--------------------------- MODULE MCLogRotation ---------------------------
(***************************************************************************)
(* Instances of LogRotation for TLC, with a history variable for what two  *)
(* properties assume of the past.                                          *)
(***************************************************************************)
EXTENDS LogRotation, TLC

(* Files are told apart by their names only. *)
AnyFile == Permutations(Inode)

VARIABLE calm   \* so far one process at a time was up and no call failed

(* The slot whose name the call that p is about to make takes away. *)
Source(p) == CASE phase[p] = "drop" -> MaxFiles
               [] phase[p] = "shift" -> shiftFrom[p]
               [] phase[p] = "rename" -> 0

CallFails == \E p \in Process :
    /\ phase[p] \in {"drop", "shift", "rename"} /\ phase'[p] # "down"
    /\ <<phase'[p], shiftFrom'[p]>> # <<phase[p], shiftFrom[p]>>
    /\ dir[Source(p)] # None /\ dir' = dir

CalmInit == Init /\ calm = TRUE

CalmNext ==
    /\ Next
    /\ calm' = (calm /\ ~CallFails /\ Cardinality({p \in Process : phase'[p] # "down"}) <= 1)

CalmSpec == CalmInit /\ [][CalmNext]_<<vars, calm>>

(* As long as processes come one after the other and the file system does not
   fail, a rotation discards nothing but the oldest file, even when the
   previous process was killed in the middle of a rotation: the shift runs
   from the oldest file down, so no rename lands on a file that has not moved
   yet. *)
OnlyOldestDiscarded ==
    [][calm' => \A i \in Inode : Linked(i) /\ ~Linked(i)' => dir[MaxFiles] = i]_<<vars, calm>>

(* Under the same assumptions a `write` that returns leaves the file at the log
   path within the cap, also after a restart that finds a file which the
   killed process had filled beyond the cap and not yet moved. *)
WriteLeavesPathWithinCap ==
    [][\A p \in Process :
          /\ calm' /\ phase'[p] = "idle"
          /\ phase[p] = "rename" \/ (phase[p] = "idle" /\ size' # size /\ dir' = dir)
          /\ dir'[0] # None
          => size'[dir'[0]] <= MaxBytes]_<<vars, calm>>
=============================================================================
