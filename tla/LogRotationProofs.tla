------------------------- MODULE LogRotationProofs -------------------------
(***************************************************************************)
(* What is proved of the log rotation, for every number of processes and   *)
(* files, every cap and every pattern of failing file-system calls.        *)
(***************************************************************************)
EXTENDS MCLogRotation, FiniteSetTheorems, TLAPS

(* The loop of `rotate` stays on the slots it may move. *)
ShiftInRange ==
    \A p \in Process : phase[p] = "shift" => shiftFrom[p] \in 1 .. MaxFiles - 1

(* The strengthening of the properties that every step preserves. *)
IInv == TypeOK /\ ShiftInRange /\ OneName

(* Nothing is ever renamed beyond the last historical slot. *)
NoOverflow == dir[MaxFiles + 1] = None

-----------------------------------------------------------------------------
LEMMA NoneIsNoFile == None \notin Inode
BY NoneAssumption

LEMMA SlotProperties ==
    /\ MaxFiles \in Nat
    /\ 0 \in Slot /\ MaxFiles \in Slot /\ MaxFiles + 1 \in Slot
    /\ \A n \in 0 .. MaxFiles : n \in Slot /\ n + 1 \in Slot
BY SizeAssumption DEF Slot

(* A rename keeps the directory well formed and every file under one name;
   it fills the overflow slot only when it starts from the slot below. *)
LEMMA RenamedProperties ==
    ASSUME NEW from \in 0 .. MaxFiles, TypeOK, OneName
    PROVE  LET d == Renamed(from)
           IN  /\ d \in [Slot -> Inode \cup {None}]
               /\ \A m, n \in Slot : d[m] = d[n] /\ d[m] # None => m = n
               /\ from # MaxFiles => d[MaxFiles + 1] = dir[MaxFiles + 1]
<1>1. from \in Slot /\ from + 1 \in Slot /\ from # from + 1
  BY SlotProperties
<1>2. dir \in [Slot -> Inode \cup {None}]
  BY DEF TypeOK
<1>3. CASE dir[from] = None
  BY <1>1, <1>2, <1>3, SlotProperties DEF Renamed, OneName
<1>4. CASE dir[from] # None
  <2> DEFINE d == [dir EXCEPT ![from + 1] = dir[from], ![from] = None]
  <2>1. Renamed(from) = d
    BY <1>4 DEF Renamed
  <2>2. d \in [Slot -> Inode \cup {None}]
    BY <1>1, <1>2
  <2>3. \A m \in Slot : d[m] = IF m = from THEN None
                              ELSE IF m = from + 1 THEN dir[from] ELSE dir[m]
    BY <1>1, <1>2
  <2> HIDE DEF d
  <2>4. \A m, n \in Slot : d[m] = d[n] /\ d[m] # None => m = n
    BY <1>1, <2>3 DEF OneName
  <2>5. from # MaxFiles => d[MaxFiles + 1] = dir[MaxFiles + 1]
    <3>1. from # MaxFiles + 1 /\ (from # MaxFiles => from + 1 # MaxFiles + 1)
      BY SlotProperties
    <3> QED
      BY <2>3, <3>1, SlotProperties
  <2> QED
    BY <2>1, <2>2, <2>4, <2>5
<1> QED
  BY <1>3, <1>4

-----------------------------------------------------------------------------
LEMMA RotationInit ==
    ASSUME Init
    PROVE  IInv /\ NoOverflow
BY SlotProperties DEF Init, IInv, TypeOK, Phase, ShiftInRange, OneName, NoOverflow

(* What the rotation steps have in common: a rename within the slots, or a
   file-system call that failed. *)
LEMMA MoveStep ==
    ASSUME IInv, NEW from \in 0 .. MaxFiles,
           dir' = Renamed(from) \/ dir' = dir
    PROVE  /\ dir' \in [Slot -> Inode \cup {None}]
           /\ OneName'
           /\ from # MaxFiles /\ NoOverflow => NoOverflow'
BY RenamedProperties DEF IInv, TypeOK, OneName, NoOverflow

LEMMA RotationStep ==
    ASSUME IInv, [Next]_vars
    PROVE  /\ IInv'
           /\ MaxFiles > 0 /\ NoOverflow => NoOverflow'
<1> USE DEF IInv
<1>1. MaxFiles \in Nat /\ MaxWrite \in Nat
  BY SizeAssumption
<1>2. ASSUME NEW p \in Process, Start(p)
      PROVE  IInv' /\ (NoOverflow => NoOverflow')
  <2>1. (IF dir[0] = None THEN 0 ELSE size[dir[0]]) \in Nat
    BY SlotProperties DEF TypeOK
  <2>2. TypeOK'
    BY <1>2, <2>1 DEF TypeOK, Start, Phase
  <2> QED
    BY <1>2, <2>2 DEF TypeOK, Start, ShiftInRange, OneName, NoOverflow
<1>3. ASSUME NEW p \in Process, Stop(p)
      PROVE  IInv' /\ (NoOverflow => NoOverflow')
  BY <1>3 DEF TypeOK, Phase, Stop, ShiftInRange, OneName, NoOverflow
<1>4. ASSUME NEW p \in Process, OpenCurrent(p)
      PROVE  IInv' /\ (NoOverflow => NoOverflow')
  <2>1. ShiftInRange'
    BY <1>4 DEF OpenCurrent, ShiftInRange
  <2>2. CASE dir' = dir /\ size' = size /\ current_file' = [current_file EXCEPT ![p] = dir[0]]
    BY <1>4, <2>1, <2>2, SlotProperties DEF TypeOK, OpenCurrent, OneName, NoOverflow
  <2>3. ASSUME NEW i \in Inode, Free(i),
               dir' = [dir EXCEPT ![0] = i], size' = [size EXCEPT ![i] = 0],
               current_file' = [current_file EXCEPT ![p] = i]
        PROVE  IInv' /\ (NoOverflow => NoOverflow')
    <3>1. TypeOK'
      BY <1>4, <2>3 DEF TypeOK, OpenCurrent
    <3>2. \A m \in Slot : dir[m] # i
      BY <2>3 DEF Free, Linked
    <3>3. \A m \in Slot : dir'[m] = IF m = 0 THEN i ELSE dir[m]
      BY <2>3 DEF TypeOK
    <3>4. OneName'
      BY <3>2, <3>3 DEF OneName
    <3>5. NoOverflow => NoOverflow'
      BY <1>1, <3>3, SlotProperties DEF NoOverflow
    <3> QED
      BY <2>1, <3>1, <3>4, <3>5
  <2> QED
    BY <1>4, <2>2, <2>3 DEF OpenCurrent
<1>5. ASSUME NEW p \in Process, NEW bytes \in 1 .. MaxWrite, Append(p, bytes)
      PROVE  IInv' /\ (NoOverflow => NoOverflow')
  <2>1. bytes \in Nat
    BY <1>1
  <2>2. TypeOK'
    BY <1>5, <2>1 DEF TypeOK, Phase, Append
  <2>3. ShiftInRange'
    BY <1>5 DEF TypeOK, Append, ShiftInRange
  <2> QED
    BY <1>5, <2>2, <2>3 DEF Append, OneName, NoOverflow
<1>6. ASSUME NEW p \in Process, DropOldest(p)
      PROVE  IInv' /\ (NoOverflow => NoOverflow')
  <2>1. dir' = dir \/ dir' = [dir EXCEPT ![MaxFiles] = None]
    BY <1>6 DEF DropOldest
  <2>2. dir' \in [Slot -> Inode \cup {None}]
    BY <2>1, SlotProperties DEF TypeOK
  <2>3. OneName' /\ (NoOverflow => NoOverflow')
    BY <1>1, <2>1, SlotProperties DEF TypeOK, OneName, NoOverflow
  <2>4. TypeOK'
    BY <1>1, <1>6, <2>2 DEF TypeOK, Phase, DropOldest, FirstShift
  <2>5. ShiftInRange'
    BY <1>1, <1>6 DEF TypeOK, DropOldest, FirstShift, ShiftInRange
  <2> QED
    BY <2>3, <2>4, <2>5
<1>7. ASSUME NEW p \in Process, Shift(p)
      PROVE  IInv' /\ (NoOverflow => NoOverflow')
  <2> DEFINE n == shiftFrom[p]
  <2>1. n \in 1 .. MaxFiles - 1 /\ n \in 0 .. MaxFiles /\ n # MaxFiles
    BY <1>1, <1>7 DEF Shift, ShiftInRange
  <2>2. dir' = Renamed(n) \/ dir' = dir
    BY <1>7 DEF Shift
  <2>3. /\ dir' \in [Slot -> Inode \cup {None}]
        /\ OneName' /\ (NoOverflow => NoOverflow')
    BY <2>1, <2>2, MoveStep
  <2>4. TypeOK'
    BY <1>1, <1>7, <2>1, <2>3 DEF TypeOK, Phase, Shift
  <2>5. ShiftInRange'
    BY <1>1, <1>7, <2>1 DEF TypeOK, Shift, ShiftInRange
  <2> QED
    BY <2>3, <2>4, <2>5
<1>8. ASSUME NEW p \in Process, RenameCurrent(p)
      PROVE  IInv' /\ (MaxFiles > 0 /\ NoOverflow => NoOverflow')
  <2>1. dir' = Renamed(0) \/ dir' = dir
    BY <1>8 DEF RenameCurrent
  <2>2. 0 \in 0 .. MaxFiles /\ (MaxFiles > 0 => 0 # MaxFiles)
    BY <1>1
  <2>3. /\ dir' \in [Slot -> Inode \cup {None}]
        /\ OneName' /\ (MaxFiles > 0 /\ NoOverflow => NoOverflow')
    BY <2>1, <2>2, MoveStep
  <2>4. TypeOK' /\ ShiftInRange'
    BY <1>8, <2>3 DEF TypeOK, Phase, RenameCurrent, ShiftInRange
  <2> QED
    BY <2>3, <2>4
<1>9. CASE UNCHANGED vars
  BY <1>9 DEF TypeOK, vars, ShiftInRange, OneName, NoOverflow
<1> QED
  BY <1>2, <1>3, <1>4, <1>5, <1>6, <1>7, <1>8, <1>9 DEF Next

-----------------------------------------------------------------------------
(* The directory, the counters and the positions in `rotate` are always
   values of their types. *)
THEOREM TypeCorrect == Spec => []TypeOK
<1>1. Init => IInv
  BY RotationInit
<1>2. IInv /\ [Next]_vars => IInv'
  BY RotationStep
<1>3. IInv => TypeOK
  BY DEF IInv
<1> QED
  BY <1>1, <1>2, <1>3, PTL DEF Spec

(* No interleaving of rotations and no failing rename leaves one log file
   under two names. *)
THEOREM FilesHaveOneName == Spec => []OneName
<1>1. Init => IInv
  BY RotationInit
<1>2. IInv /\ [Next]_vars => IInv'
  BY RotationStep
<1>3. IInv => OneName
  BY DEF IInv
<1> QED
  BY <1>1, <1>2, <1>3, PTL DEF Spec

(* The count the test asserts for one writer and two historical files holds
   for any number of processes and any positive max_files. *)
THEOREM FilesAreCapped ==
    ASSUME MaxFiles > 0
    PROVE  Spec => []CappedFiles
<1>1. Init => IInv /\ NoOverflow
  BY RotationInit
<1>2. IInv /\ NoOverflow /\ [Next]_vars => IInv' /\ NoOverflow'
  BY RotationStep
<1>3. NoOverflow => CappedFiles
  <2>1. MaxFiles \in Nat
    BY SizeAssumption
  <2>2. /\ IsFiniteSet(0 .. MaxFiles)
        /\ Cardinality(0 .. MaxFiles) = MaxFiles + 1
    BY <2>1, FS_Interval
  <2>3. ASSUME NoOverflow
        PROVE  {n \in Slot : dir[n] # None} \subseteq 0 .. MaxFiles
    BY <2>1, <2>3 DEF Slot, NoOverflow
  <2> QED
    BY <2>2, <2>3, FS_Subset DEF CappedFiles
<1> QED
  BY <1>1, <1>2, <1>3, PTL DEF Spec

-----------------------------------------------------------------------------
(* Calm histories: one process at a time, and no call that fails.  What holds
   of the process that is up, wherever its predecessors were killed. *)

Up == {p \in Process : phase[p] # "down"}

(* The slot a rename is about to fill is free. *)
TargetFree(p) ==
    /\ phase[p] = "shift" => dir[shiftFrom[p] + 1] = None
    /\ phase[p] = "rename" => dir[1] = None

(* Between writes the counter is the size of the file at the log path, which is
   the one held open; after a rotation there is none.  A process that rotates
   holds the file it has just written to. *)
CounterTrue(p) ==
    /\ phase[p] = "idle" =>
          /\ dir[0] # None => /\ current_file[p] \in {None, dir[0]}
                              /\ current_size[p] = size[dir[0]]
          /\ dir[0] = None /\ current_file[p] = None => current_size[p] = 0
    /\ phase[p] \in {"drop", "shift", "rename"} => current_file[p] # None

CalmInv ==
    /\ IsFiniteSet(Up)
    /\ calm \in BOOLEAN
    /\ calm => /\ \A p, q \in Up : p = q
               /\ \A p \in Process : TargetFree(p) /\ CounterTrue(p)

LEMMA AtMostOne ==
    ASSUME NEW S, IsFiniteSet(S), Cardinality(S) <= 1, NEW a \in S, NEW b \in S
    PROVE  a = b
<1> SUFFICES ASSUME a # b PROVE FALSE
  OBVIOUS
<1>1. IsFiniteSet({a}) /\ Cardinality({a}) = 1
  BY FS_Singleton
<1>2. Cardinality({a} \cup {b}) = 2
  BY <1>1, FS_AddElement
<1>3. {a} \cup {b} \subseteq S
  OBVIOUS
<1>4. Cardinality({a} \cup {b}) <= Cardinality(S) /\ Cardinality(S) \in Nat
  BY <1>3, FS_Subset, FS_CardinalityType
<1> QED
  BY <1>2, <1>4

(* A step of one process. *)
Step(p) ==
    \/ Start(p) \/ Stop(p)
    \/ OpenCurrent(p)
    \/ \E bytes \in 1 .. MaxWrite : Append(p, bytes)
    \/ DropOldest(p) \/ Shift(p) \/ RenameCurrent(p)

LEMMA NextIsStep == Next <=> \E p \in Process : Step(p)
BY DEF Next, Step

(* A step leaves the other processes where they are. *)
LEMMA StepOfOne ==
    ASSUME TypeOK, NEW p \in Process, Step(p)
    PROVE  /\ \A r \in Process : r # p => phase'[r] = phase[r]
           /\ phase[p] # "down" \/ phase'[p] # "down"
BY DEF TypeOK, Phase, Step, Start, Stop, OpenCurrent, Append, DropOldest, Shift, RenameCurrent

LEMMA FinitelyManyUp ==
    ASSUME TypeOK, IsFiniteSet(Up), NEW p \in Process, Step(p)
    PROVE  IsFiniteSet(Up')
<1>1. Up' \subseteq Up \cup {p}
  BY StepOfOne DEF Up
<1>2. IsFiniteSet(Up \cup {p})
  BY FS_AddElement
<1> QED
  BY <1>1, <1>2, FS_Subset

(* In a calm history the process that steps is the only one up, before and
   after its step. *)
LEMMA OthersDown ==
    ASSUME TypeOK, CalmInv, NEW p \in Process, Step(p),
           calm' = (calm /\ ~CallFails /\ Cardinality({r \in Process : phase'[r] # "down"}) <= 1),
           calm'
    PROVE  /\ calm /\ ~CallFails
           /\ \A q, r \in Up' : q = r
           /\ \A r \in Process : r # p => phase[r] = "down" /\ phase'[r] = "down"
<1>1. calm /\ ~CallFails /\ Cardinality({r \in Process : phase'[r] # "down"}) <= 1
  BY Zenon DEF CalmInv
<1>2. Up' = {r \in Process : phase'[r] # "down"}
  BY DEF Up
<1>3. IsFiniteSet(Up')
  BY FinitelyManyUp DEF CalmInv
<1>4. \A q, r \in Up' : q = r
  BY <1>1, <1>2, <1>3, AtMostOne
<1>5. \A q, r \in Up : q = r
  BY <1>1 DEF CalmInv
<1>6. ASSUME NEW r \in Process, r # p PROVE phase[r] = "down" /\ phase'[r] = "down"
  <2>1. phase'[r] = phase[r]
    BY <1>6, StepOfOne
  <2>2. CASE p \in Up
    BY <1>5, <1>6, <2>1, <2>2 DEF Up
  <2>3. CASE p \notin Up
    BY <1>4, <1>6, <2>1, <2>3, StepOfOne DEF Up
  <2> QED
    BY <2>2, <2>3
<1> QED
  BY <1>1, <1>4, <1>6, Zenon

-----------------------------------------------------------------------------
(* What a step of the process that is up does to the files. *)

Kept == \A i \in Inode : Linked(i) /\ ~Linked(i)' => dir[MaxFiles] = i

Within(p) ==
    /\ phase'[p] = "idle"
    /\ phase[p] = "rename" \/ (phase[p] = "idle" /\ size' # size /\ dir' = dir)
    /\ dir'[0] # None
    => size'[dir'[0]] <= MaxBytes

(* A rename into a free slot takes no file away; its source is empty after. *)
LEMMA RenamedToFree ==
    ASSUME TypeOK, NEW n \in 0 .. MaxFiles, dir[n + 1] = None, dir' = Renamed(n)
    PROVE  /\ Kept
           /\ dir'[n] = None
           /\ \A m \in Slot : m # n /\ m # n + 1 => dir'[m] = dir[m]
<1>1. n \in Slot /\ n + 1 \in Slot /\ n # n + 1
  BY SlotProperties
<1>2. CASE dir[n] = None
  BY <1>1, <1>2 DEF Renamed, Kept, Linked
<1>3. CASE dir[n] # None
  <2>1. \A m \in Slot : dir'[m] = IF m = n THEN None ELSE IF m = n + 1 THEN dir[n] ELSE dir[m]
    BY <1>1, <1>3 DEF Renamed, TypeOK
  <2>2. ASSUME NEW i \in Inode, NEW m \in Slot, dir[m] = i PROVE \E k \in Slot : dir'[k] = i
    <3>1. CASE m = n
      BY <1>1, <2>1, <2>2, <3>1
    <3>2. CASE m # n
      <4>1. m # n + 1
        BY <2>2, NoneIsNoFile
      <4> QED
        BY <2>1, <2>2, <3>2, <4>1
    <3> QED
      BY <3>1, <3>2
  <2>3. Kept
    BY <2>2 DEF Kept, Linked
  <2> QED
    BY <1>1, <2>1, <2>3
<1> QED
  BY <1>2, <1>3

(* A call that changes nothing has failed, or there was nothing to move. *)
LEMMA NoFailure ==
    ASSUME ~CallFails, NEW p \in Process, phase[p] \in {"drop", "shift", "rename"},
           phase'[p] # "down",
           <<phase'[p], shiftFrom'[p]>> # <<phase[p], shiftFrom[p]>>, dir' = dir
    PROVE  dir[Source(p)] = None
BY DEF CallFails

LEMMA CalmStart ==
    ASSUME TypeOK, NEW p \in Process, Start(p)
    PROVE  TargetFree(p)' /\ CounterTrue(p)' /\ Kept /\ Within(p)
BY DEF TypeOK, Start, TargetFree, CounterTrue, Kept, Linked, Within

LEMMA CalmStop ==
    ASSUME TypeOK, NEW p \in Process, Stop(p)
    PROVE  TargetFree(p)' /\ CounterTrue(p)' /\ Kept /\ Within(p)
BY DEF TypeOK, Stop, TargetFree, CounterTrue, Kept, Linked, Within

LEMMA CalmOpen ==
    ASSUME TypeOK, NEW p \in Process, OpenCurrent(p), CounterTrue(p)
    PROVE  TargetFree(p)' /\ CounterTrue(p)' /\ Kept /\ Within(p)
<1>1. UNCHANGED <<current_size, phase, shiftFrom>> /\ phase[p] = "idle" /\ current_file[p] = None
  BY DEF OpenCurrent
<1>2. TargetFree(p)'
  BY <1>1 DEF TargetFree
<1>3. CASE dir[0] # None /\ current_file' = [current_file EXCEPT ![p] = dir[0]] /\ UNCHANGED <<dir, size>>
  BY <1>1, <1>2, <1>3 DEF TypeOK, CounterTrue, Kept, Linked, Within
<1>4. CASE dir[0] = None /\ \E i \in Inode :
                /\ Free(i)
                /\ dir' = [dir EXCEPT ![0] = i]
                /\ size' = [size EXCEPT ![i] = 0]
                /\ current_file' = [current_file EXCEPT ![p] = i]
  <2>1. PICK i \in Inode :
                /\ dir' = [dir EXCEPT ![0] = i]
                /\ size' = [size EXCEPT ![i] = 0]
                /\ current_file' = [current_file EXCEPT ![p] = i]
    BY <1>4
  <2>2. /\ dir'[0] = i /\ \A m \in Slot : m # 0 => dir'[m] = dir[m]
        /\ size'[i] = 0 /\ current_file'[p] = i /\ i # None
    BY <2>1, SlotProperties, NoneIsNoFile DEF TypeOK
  <2>3. CounterTrue(p)'
    BY <1>1, <1>4, <2>2 DEF CounterTrue
  <2>4. Kept
    BY <1>4, <2>2, NoneIsNoFile DEF Kept, Linked
  <2>5. dir' # dir
    BY <1>4, <2>2
  <2> QED
    BY <1>1, <1>2, <2>3, <2>4, <2>5 DEF Within
<1> QED
  BY <1>3, <1>4 DEF OpenCurrent

LEMMA CalmAppend ==
    ASSUME TypeOK, NEW p \in Process, NEW bytes \in 1 .. MaxWrite, Append(p, bytes),
           CounterTrue(p)
    PROVE  TargetFree(p)' /\ CounterTrue(p)' /\ Kept /\ (MaxBytes > 0 => Within(p))
<1> DEFINE f == current_file[p]
<1>1. /\ phase[p] = "idle" /\ f # None /\ UNCHANGED <<dir, current_file>>
      /\ size' = [size EXCEPT ![f] = @ + bytes]
      /\ current_size' = [current_size EXCEPT ![p] = IF Crosses(p, bytes) THEN bytes ELSE @ + bytes]
      /\ phase' = [phase EXCEPT ![p] = IF Crosses(p, bytes) THEN "drop" ELSE "idle"]
  BY DEF Append
<1>2. Kept
  BY <1>1 DEF Kept, Linked
<1>3. CASE Crosses(p, bytes)
  BY <1>1, <1>2, <1>3 DEF TypeOK, TargetFree, CounterTrue, Within
<1>4. CASE ~Crosses(p, bytes)
  <2>1. f \in Inode /\ phase'[p] = "idle" /\ current_size'[p] = current_size[p] + bytes
    BY <1>1, <1>4 DEF TypeOK
  <2>2. size'[f] = size[f] + bytes
    BY <1>1, <2>1 DEF TypeOK
  <2>3. dir[0] # None => dir[0] = f /\ size'[dir[0]] = current_size'[p]
    BY <1>1, <2>1, <2>2 DEF CounterTrue
  <2>4. MaxBytes > 0 => current_size'[p] <= MaxBytes
    <3>1. MaxBytes \in Nat /\ MaxWrite \in Nat /\ current_size[p] \in Nat
      BY SizeAssumption DEF TypeOK
    <3> QED
      BY <1>4, <2>1, <3>1 DEF Crosses
  <2> QED
    BY <1>1, <1>2, <2>1, <2>3, <2>4 DEF TargetFree, CounterTrue, Within
<1> QED
  BY <1>3, <1>4

LEMMA CalmDrop ==
    ASSUME TypeOK, NEW p \in Process, DropOldest(p), CounterTrue(p), ~CallFails,
           MaxFiles > 0
    PROVE  TargetFree(p)' /\ CounterTrue(p)' /\ Kept /\ Within(p)
<1>1. /\ phase[p] = "drop" /\ MaxFiles \in Nat
      /\ phase'[p] = IF MaxFiles >= 2 THEN "shift" ELSE "rename"
      /\ shiftFrom'[p] = IF MaxFiles >= 2 THEN MaxFiles - 1 ELSE 0
  BY SizeAssumption DEF TypeOK, DropOldest, FirstShift
<1>2. dir' = [dir EXCEPT ![MaxFiles] = None] \/ dir' = dir
  BY DEF DropOldest
<1>3. dir' = dir => dir[MaxFiles] = None
  <2>1. ASSUME dir' = dir PROVE dir[Source(p)] = None
    <3>1. <<phase'[p], shiftFrom'[p]>> # <<phase[p], shiftFrom[p]>> /\ phase'[p] # "down"
      BY <1>1
    <3> QED
      BY <1>1, <2>1, <3>1, NoFailure
  <2>2. Source(p) = MaxFiles
    BY <1>1 DEF Source
  <2> QED
    BY <2>1, <2>2
<1>4. dir'[MaxFiles] = None /\ \A m \in Slot : m # MaxFiles => dir'[m] = dir[m]
  BY <1>2, <1>3, SlotProperties DEF TypeOK
<1>5. TargetFree(p)'
  <2>1. CASE MaxFiles >= 2
    <3>1. phase'[p] = "shift" /\ shiftFrom'[p] + 1 = MaxFiles
      BY <1>1, <2>1
    <3> QED
      BY <1>4, <3>1 DEF TargetFree
  <2>2. CASE ~ (MaxFiles >= 2)
    <3>1. phase'[p] = "rename" /\ MaxFiles = 1
      BY <1>1, <2>2
    <3> QED
      BY <1>4, <3>1 DEF TargetFree
  <2> QED
    BY <2>1, <2>2
<1>6. CounterTrue(p)' /\ Within(p)
  <2>1. UNCHANGED current_file
    BY DEF DropOldest
  <2> QED
    BY <1>1, <2>1 DEF CounterTrue, Within
<1>7. Kept
  BY <1>4 DEF Kept, Linked
<1> QED
  BY <1>5, <1>6, <1>7

LEMMA CalmShift ==
    ASSUME TypeOK, ShiftInRange, NEW p \in Process, Shift(p), TargetFree(p), CounterTrue(p),
           ~CallFails
    PROVE  TargetFree(p)' /\ CounterTrue(p)' /\ Kept /\ Within(p)
<1> DEFINE n == shiftFrom[p]
<1>1. /\ phase[p] = "shift" /\ MaxFiles \in Nat /\ n \in 1 .. MaxFiles - 1
      /\ n \in 0 .. MaxFiles /\ dir[n + 1] = None
  BY SizeAssumption DEF Shift, ShiftInRange, TargetFree
<1>2. shiftFrom'[p] = n - 1 /\ phase'[p] = IF n = 1 THEN "rename" ELSE "shift"
  BY DEF TypeOK, Shift
<1>3. dir' = Renamed(n)
  <2>1. dir' = Renamed(n) \/ dir' = dir
    BY DEF Shift
  <2>2. ASSUME dir' = dir PROVE Renamed(n) = dir
    <3>1. <<phase'[p], shiftFrom'[p]>> # <<phase[p], shiftFrom[p]>> /\ phase'[p] # "down"
      BY <1>1, <1>2
    <3>2. dir[Source(p)] = None
      BY <1>1, <2>2, <3>1, NoFailure
    <3>3. Source(p) = n
      BY <1>1 DEF Source
    <3> QED
      BY <3>2, <3>3 DEF Renamed
  <2> QED
    BY <2>1, <2>2
<1> HIDE DEF n
<1>4. Kept /\ dir'[n] = None
  BY <1>1, <1>3, RenamedToFree
<1>5. TargetFree(p)'
  <2>1. phase'[p] = "shift" => shiftFrom'[p] + 1 = n
    BY <1>1, <1>2
  <2>2. phase'[p] = "rename" => n = 1
    BY <1>2
  <2> QED
    BY <1>4, <2>1, <2>2 DEF TargetFree
<1>6. CounterTrue(p)' /\ Within(p)
  <2>1. UNCHANGED current_file
    BY DEF Shift
  <2> QED
    BY <1>1, <1>2, <2>1 DEF CounterTrue, Within
<1> QED
  BY <1>4, <1>5, <1>6

LEMMA CalmRename ==
    ASSUME TypeOK, NEW p \in Process, RenameCurrent(p), TargetFree(p), CounterTrue(p),
           ~CallFails, MaxFiles > 0
    PROVE  TargetFree(p)' /\ CounterTrue(p)' /\ Kept /\ Within(p)
<1>1. /\ phase[p] = "rename" /\ MaxFiles \in Nat /\ 0 \in 0 .. MaxFiles
      /\ dir[0 + 1] = None /\ phase'[p] = "idle" /\ UNCHANGED current_file
  BY SizeAssumption DEF TypeOK, RenameCurrent, TargetFree
<1>2. dir' = Renamed(0)
  <2>1. dir' = Renamed(0) \/ dir' = dir
    BY DEF RenameCurrent
  <2>2. ASSUME dir' = dir PROVE Renamed(0) = dir
    <3>1. <<phase'[p], shiftFrom'[p]>> # <<phase[p], shiftFrom[p]>> /\ phase'[p] # "down"
      BY <1>1
    <3>2. dir[Source(p)] = None
      BY <1>1, <2>2, <3>1, NoFailure
    <3>3. Source(p) = 0
      BY <1>1 DEF Source
    <3> QED
      BY <3>2, <3>3 DEF Renamed
  <2> QED
    BY <2>1, <2>2
<1>3. Kept /\ dir'[0] = None
  BY <1>1, <1>2, RenamedToFree
<1>4. current_file'[p] # None
  BY <1>1 DEF CounterTrue
<1> QED
  BY <1>1, <1>3, <1>4 DEF TargetFree, CounterTrue, Within

(* The whole step, when a historical file is kept. *)
LEMMA CalmStep ==
    ASSUME IInv, CalmInv, CalmNext, MaxFiles > 0
    PROVE  /\ CalmInv'
           /\ calm' => Kept /\ (MaxBytes > 0 => \A p \in Process : Within(p))
<1> USE DEF IInv
<1>1. calm' = (calm /\ ~CallFails /\ Cardinality({p \in Process : phase'[p] # "down"}) <= 1)
  BY DEF CalmNext
<1>2. PICK p \in Process : Step(p)
  BY NextIsStep DEF CalmNext
<1>3. IsFiniteSet(Up')
  BY <1>2, FinitelyManyUp DEF CalmInv
<1>4. calm' \in BOOLEAN
  BY <1>1, Zenon
<1>5. ASSUME calm'
      PROVE  /\ \A q, r \in Up' : q = r
             /\ \A r \in Process : TargetFree(r)' /\ CounterTrue(r)'
             /\ Kept /\ \A r \in Process : MaxBytes > 0 => Within(r)
  <2>1. /\ calm /\ ~CallFails
        /\ \A q, r \in Up' : q = r
        /\ \A r \in Process : r # p => phase[r] = "down" /\ phase'[r] = "down"
    BY <1>1, <1>2, <1>5, OthersDown
  <2>2. TargetFree(p) /\ CounterTrue(p)
    BY <2>1, Zenon DEF CalmInv
  <2>3. TargetFree(p)' /\ CounterTrue(p)' /\ Kept /\ (MaxBytes > 0 => Within(p))
    BY <1>2, <2>1, <2>2, CalmStart, CalmStop, CalmOpen, CalmAppend, CalmDrop, CalmShift,
       CalmRename DEF Step
  <2>4. ASSUME NEW r \in Process, r # p
        PROVE  TargetFree(r)' /\ CounterTrue(r)' /\ Within(r)
    BY <2>1, <2>4 DEF TargetFree, CounterTrue, Within
  <2> QED
    BY <2>1, <2>3, <2>4
<1> QED
  BY <1>3, <1>4, <1>5, Zenon DEF CalmInv

LEMMA CalmBegins ==
    ASSUME CalmInit
    PROVE  IInv /\ CalmInv
<1>1. \A p \in Process : phase[p] = "down"
  BY DEF CalmInit, Init
<1>2. Up = {}
  BY <1>1 DEF Up
<1>3. IsFiniteSet(Up)
  BY <1>2, FS_EmptySet
<1>4. \A p \in Process : TargetFree(p) /\ CounterTrue(p)
  BY <1>1 DEF TargetFree, CounterTrue
<1>5. calm \in BOOLEAN
  BY Zenon DEF CalmInit
<1>6. IInv
  BY RotationInit DEF CalmInit
<1> QED
  BY <1>2, <1>3, <1>4, <1>5, <1>6, Zenon DEF CalmInv

LEMMA CalmStutter ==
    ASSUME CalmInv, UNCHANGED <<vars, calm>>
    PROVE  CalmInv'
<1>1. Up' = Up
  BY DEF vars, Up
<1>2. \A p \in Process : TargetFree(p) => TargetFree(p)'
  BY DEF vars, TargetFree
<1>3. \A p \in Process : CounterTrue(p) => CounterTrue(p)'
  BY DEF vars, CounterTrue
<1>4. calm' = calm
  OBVIOUS
<1>5. IsFiniteSet(Up') /\ calm' \in BOOLEAN
  BY <1>1, <1>4, Zenon DEF CalmInv
<1>6. ASSUME calm'
      PROVE  /\ \A p, q \in Up' : p = q
             /\ \A p \in Process : TargetFree(p)' /\ CounterTrue(p)'
  <2>1. calm
    BY <1>4, <1>6
  <2>2. /\ \A p, q \in Up : p = q
        /\ \A p \in Process : TargetFree(p) /\ CounterTrue(p)
    BY <2>1, Zenon DEF CalmInv
  <2> QED
    BY <1>1, <1>2, <1>3, <2>2, Zenon
<1> QED
  BY <1>5, <1>6, Zenon DEF CalmInv

LEMMA CalmInductive ==
    ASSUME MaxFiles > 0
    PROVE  CalmSpec => [](IInv /\ CalmInv)
<1>1. CalmInit => IInv /\ CalmInv
  BY CalmBegins
<1>2. IInv /\ CalmInv /\ [CalmNext]_<<vars, calm>> => IInv' /\ CalmInv'
  <2>1. ASSUME IInv, CalmInv, CalmNext PROVE IInv' /\ CalmInv'
    BY <2>1, CalmStep, RotationStep DEF CalmNext
  <2>2. ASSUME IInv, CalmInv, UNCHANGED <<vars, calm>> PROVE IInv' /\ CalmInv'
    BY <2>2, CalmStutter, RotationStep
  <2> QED
    BY <2>1, <2>2
<1> QED
  BY <1>1, <1>2, PTL DEF CalmSpec

(* One process at a time and no failing call: however many files are kept and
   wherever earlier processes were killed, a rotation loses the oldest file
   and no other.  (With max_files = 0 the only rename lands on the log kept
   before.) *)
THEOREM RotationDiscardsOldest ==
    ASSUME MaxFiles > 0
    PROVE  CalmSpec => OnlyOldestDiscarded
<1>1. CalmSpec => [](IInv /\ CalmInv)
  BY CalmInductive
<1>2. IInv /\ CalmInv /\ [CalmNext]_<<vars, calm>> =>
        [calm' => \A i \in Inode : Linked(i) /\ ~Linked(i)' => dir[MaxFiles] = i]_<<vars, calm>>
  BY CalmStep DEF Kept
<1> QED
  BY <1>1, <1>2, PTL DEF CalmSpec, OnlyOldestDiscarded

(* Under the same conditions a write that returns leaves no file at the log
   path that is beyond a positive cap: the counter a process starts with is
   the size of the file it will write to, and a file that crosses the cap is
   moved away before the write returns. *)
THEOREM WritesStayWithinCap ==
    ASSUME MaxFiles > 0, MaxBytes > 0
    PROVE  CalmSpec => WriteLeavesPathWithinCap
<1>1. CalmSpec => [](IInv /\ CalmInv)
  BY CalmInductive
<1>2. IInv /\ CalmInv /\ [CalmNext]_<<vars, calm>> =>
        [\A p \in Process :
          /\ calm' /\ phase'[p] = "idle"
          /\ phase[p] = "rename" \/ (phase[p] = "idle" /\ size' # size /\ dir' = dir)
          /\ dir'[0] # None
          => size'[dir'[0]] <= MaxBytes]_<<vars, calm>>
  BY CalmStep DEF Within
<1> QED
  BY <1>1, <1>2, PTL DEF CalmSpec, WriteLeavesPathWithinCap

=============================================================================
