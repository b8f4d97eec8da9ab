---------------------------- MODULE LogRotation ----------------------------
(***************************************************************************)
(* The size-rotated log file of muzon-core (crates/muzon-core/src/         *)
(* logging.rs).  Every muzon process of a user (the core, the shell, the   *)
(* control tool) calls `init_logging` with the same path, so the model has *)
(* a set of processes over one directory.  A process serialises its own    *)
(* writes with a mutex, so it makes one `write` call at a time; nothing    *)
(* serialises two processes, so the file-system calls of a rotation are    *)
(* separate steps.                                                         *)
(*                                                                         *)
(* A file is an inode with a size in abstract units; slot 0 of the         *)
(* directory is the log path and slot n is `path.n`.                       *)
(***************************************************************************)
EXTENDS Integers, FiniteSets

CONSTANTS
    Process,
    Inode,        \* the files that may exist at a time (bound of the model)
    None,         \* no file
    MaxBytes,     \* LoggingConfig.max_size_mb, in units; 0 turns rotation off
    MaxFiles,     \* LoggingConfig.max_files
    MaxWrite,     \* the largest record, in units
    MaxSize,      \* bound of the model: no file grows beyond
    MayFail       \* whether a rename or a remove may fail

ASSUME NoneAssumption == None \notin Inode
ASSUME SizeAssumption ==
    /\ MaxBytes \in Nat /\ MaxFiles \in Nat /\ MaxWrite \in Nat /\ MaxSize \in Nat
    /\ MayFail \in BOOLEAN

VARIABLES
    dir,           \* which file each slot names
    size,          \* how much was written to each file
    current_file,  \* the file each process holds open
    current_size,  \* the size each process believes the log has
    phase,         \* where each process is in `write` and `rotate`
    shiftFrom      \* the slot `rotate` moves next, in phase "shift"

vars == <<dir, size, current_file, current_size, phase, shiftFrom>>

(* One slot more than the code ever keeps: room for a rotation to overflow. *)
Slot == 0 .. MaxFiles + 1

Phase == {"down", "idle", "drop", "shift", "rename"}

TypeOK ==
    /\ dir \in [Slot -> Inode \cup {None}]
    /\ size \in [Inode -> Nat]
    /\ current_file \in [Process -> Inode \cup {None}]
    /\ current_size \in [Process -> Nat]
    /\ phase \in [Process -> Phase]
    /\ shiftFrom \in [Process -> Nat]

Linked(i) == \E n \in Slot : dir[n] = i

Free(i) == ~Linked(i) /\ \A p \in Process : current_file[p] # i

-----------------------------------------------------------------------------
Init ==
    /\ dir = [n \in Slot |-> None]
    /\ size = [i \in Inode |-> 0]
    /\ current_file = [p \in Process |-> None]
    /\ current_size = [p \in Process |-> 0]
    /\ phase = [p \in Process |-> "down"]
    /\ shiftFrom = [p \in Process |-> 0]

(* init_logging: the counter starts at the size found on disk; the file is
   opened by the first write. *)
Start(p) ==
    /\ phase[p] = "down"
    /\ phase' = [phase EXCEPT ![p] = "idle"]
    /\ current_size' = [current_size EXCEPT ![p] = IF dir[0] = None THEN 0 ELSE size[dir[0]]]
    /\ current_file' = [current_file EXCEPT ![p] = None]
    /\ UNCHANGED <<dir, size, shiftFrom>>

(* The process exits or is killed, in the middle of a rotation too. *)
Stop(p) ==
    /\ phase[p] # "down"
    /\ phase' = [phase EXCEPT ![p] = "down"]
    /\ current_file' = [current_file EXCEPT ![p] = None]
    /\ current_size' = [current_size EXCEPT ![p] = 0]
    /\ shiftFrom' = [shiftFrom EXCEPT ![p] = 0]
    /\ UNCHANGED <<dir, size>>

(* open_current: the first write of a process opens or creates the log. *)
OpenCurrent(p) ==
    /\ phase[p] = "idle" /\ current_file[p] = None
    /\ \/ /\ dir[0] # None
          /\ current_file' = [current_file EXCEPT ![p] = dir[0]]
          /\ UNCHANGED <<dir, size>>
       \/ /\ dir[0] = None
          /\ \E i \in Inode :
                /\ Free(i)
                /\ dir' = [dir EXCEPT ![0] = i]
                /\ size' = [size EXCEPT ![i] = 0]
                /\ current_file' = [current_file EXCEPT ![p] = i]
    /\ UNCHANGED <<current_size, phase, shiftFrom>>

(* Mutation of Crosses: the bytes just written are not counted. *)
CrossesBefore(p, bytes) == MaxBytes > 0 /\ current_size[p] > MaxBytes

(* record_write's test. *)
Crosses(p, bytes) == MaxBytes > 0 /\ current_size[p] + bytes > MaxBytes

(* write: append to the open file, then count the bytes and start a rotation
   when they cross the cap.  `rotate` ends by resetting the counter, which no
   other process sees, so it is reset here.  The open file is kept. *)
Append(p, bytes) ==
    /\ phase[p] = "idle" /\ current_file[p] # None
    /\ size[current_file[p]] + bytes <= MaxSize
    /\ size' = [size EXCEPT ![current_file[p]] = @ + bytes]
    /\ current_size' = [current_size EXCEPT ![p] = IF Crosses(p, bytes) THEN bytes
                                                                     ELSE @ + bytes]
    /\ phase' = [phase EXCEPT ![p] = IF Crosses(p, bytes) THEN "drop" ELSE "idle"]
    /\ UNCHANGED <<dir, current_file, shiftFrom>>

-----------------------------------------------------------------------------
(* rotate, one file-system call per step.  Errors are ignored. *)

(* Mutations of FirstShift: the loop starts one slot too high or too low. *)
FirstShiftTooHigh == MaxFiles
FirstShiftTooLow == MaxFiles - 2

(* The slot the shift loop starts from. *)
FirstShift == MaxFiles - 1

DropOldest(p) ==
    /\ phase[p] = "drop"
    /\ \/ dir' = IF MaxFiles > 0 THEN [dir EXCEPT ![MaxFiles] = None] ELSE dir
       \/ MayFail /\ dir' = dir
    /\ phase' = [phase EXCEPT ![p] = IF MaxFiles >= 2 THEN "shift" ELSE "rename"]
    /\ shiftFrom' = [shiftFrom EXCEPT ![p] = IF MaxFiles >= 2 THEN FirstShift ELSE 0]
    /\ UNCHANGED <<size, current_file, current_size>>

(* rename(2): the destination is replaced; a missing source changes nothing. *)
Renamed(from) ==
    IF dir[from] = None THEN dir
    ELSE [dir EXCEPT ![from + 1] = dir[from], ![from] = None]

Shift(p) ==
    LET n == shiftFrom[p]
    IN  /\ phase[p] = "shift"
        /\ dir' = Renamed(n) \/ (MayFail /\ dir' = dir)
        /\ shiftFrom' = [shiftFrom EXCEPT ![p] = n - 1]
        /\ phase' = [phase EXCEPT ![p] = IF n = 1 THEN "rename" ELSE "shift"]
        /\ UNCHANGED <<size, current_file, current_size>>

RenameCurrent(p) ==
    /\ phase[p] = "rename"
    /\ dir' = Renamed(0) \/ (MayFail /\ dir' = dir)
    /\ phase' = [phase EXCEPT ![p] = "idle"]
    /\ UNCHANGED <<size, current_file, current_size, shiftFrom>>

Next == \E p \in Process :
    \/ Start(p) \/ Stop(p)
    \/ OpenCurrent(p)
    \/ \E bytes \in 1 .. MaxWrite : Append(p, bytes)
    \/ DropOldest(p) \/ Shift(p) \/ RenameCurrent(p)

Spec == Init /\ [][Next]_vars

-----------------------------------------------------------------------------
(* Properties *)

(* However many processes rotate at once and whichever of their renames fail,
   a file has one name: no rotation leaves a log under two numbers. *)
OneName == \A m, n \in Slot : dir[m] = dir[n] /\ dir[m] # None => m = n

(* The test `rotation_caps_file_count`: the current file and max_files
   historical ones is all there ever is, under concurrent and failing
   rotations and restarts too, when at least one historical file is kept. *)
CappedFiles == Cardinality({n \in Slot : dir[n] # None}) <= MaxFiles + 1
=============================================================================
