------------------------------ MODULE SkinProofs ------------------------------
(***************************************************************************)
(* What is proved of skins: of installs that share a staging directory,    *)
(* for any packages, ids and files and any number of installs at once; and *)
(* of the texts of a skin, for any stylesheet and any template.            *)
(***************************************************************************)
EXTENDS SkinInstall, SkinTexts, SequenceTheorems, WellFoundedInduction, TLAPS

(* Where an install is says what it has in hand. *)
PhaseOf(j) ==
    /\ at[j] # "idle" => pkg[j] \in Package
    /\ at[j] \in {"check", "wipe", "unlink", "create", "extract", "write"} => root[j] = Staging
    /\ at[j] \in {"extract", "write"} => left[j] \subseteq Entries[pkg[j]]
    /\ root[j] # Staging => root[j] = pkg[j]
    /\ at[j] \in {"layout", "target", "commit"} => manifest[j] \in Package
    /\ at[j] = "commit" => manifest[j] \in Valid
    /\ wiping[j] \notin Package
    /\ open[j] # NoFile => open[j][1] \notin Package

(* Nothing is written into a package directory: it is there or was renamed. *)
Untouched(p) == dir[p] \in {NoDir, Whole(p)}

(* The files of the package that are extracted, all of them complete. *)
Extracted(j) == [n \in Entries[pkg[j]] \ left[j] |-> [of |-> pkg[j], whole |-> TRUE]]

(* What an install finds that has had the staging directory to itself: its own
   files, and from the manifest on the whole package. *)
StagedOf(j) ==
    /\ at[j] = "create" => dir[Staging] = NoDir
    /\ at[j] = "extract" => dir[Staging] = Extracted(j)
    /\ at[j] = "write" =>
          \E n \in Entries[pkg[j]] \ left[j] :
              /\ open[j] = <<Staging, n>>
              /\ dir[Staging] = [Extracted(j) EXCEPT ![n] = [of |-> pkg[j], whole |-> FALSE]]
    /\ at[j] = "read" /\ root[j] = Staging => dir[Staging] = Whole(pkg[j])
    /\ at[j] \in {"layout", "target", "commit"} =>
          /\ dir[root[j]] = Whole(pkg[j])
          /\ manifest[j] = pkg[j] /\ Manifest \in Entries[pkg[j]]
    /\ at[j] = "commit" => dir[SkinId[pkg[j]]] = NoDir
AloneOf(j) ==
    alone[j] => /\ at[j] # "idle" /\ \A k \in Job \ {j} : at[k] = "idle"
                /\ StagedOf(j)

(* A skin made by such an install is out of everybody's reach. *)
SkinOf(i) ==
    asked[i] # NoPackage =>
        /\ asked[i] \in Valid /\ SkinId[asked[i]] = i /\ dir[i] = Whole(asked[i])
        /\ \A j \in Job : wiping[j] # i /\ (open[j] # NoFile => open[j][1] # i)

IInv ==
    /\ TypeOK
    /\ \A j \in Job : PhaseOf(j) /\ AloneOf(j)
    /\ \A p \in Package : Untouched(p)
    /\ \A i \in Id : SkinOf(i)

-----------------------------------------------------------------------------
(* Directories *)

LEMMA DirIs ==
    ASSUME NEW d \in Dir
    PROVE  /\ DOMAIN d \subseteq Name /\ d = [n \in DOMAIN d |-> d[n]]
           /\ \A n \in DOMAIN d : d[n] \in File
           /\ d # NoDir
<1>1. PICK names \in SUBSET Name : d \in [names -> File]
  BY DEF Dir
<1>2. d # NoDir
  BY NoneAssumption
<1> QED
  BY <1>1, <1>2

LEMMA IsDir ==
    ASSUME NEW names \in SUBSET Name, NEW d \in [names -> File]
    PROVE  d \in Dir
BY DEF Dir

LEMMA EmptyIsDir == EmptyDir \in Dir /\ DOMAIN EmptyDir = {} /\ EmptyDir # NoDir
<1>1. DOMAIN EmptyDir = {}
  BY DEF EmptyDir
<1>2. EmptyDir \in [{} -> File]
  BY DEF EmptyDir
<1>3. EmptyDir \in Dir
  BY <1>2, IsDir
<1> QED
  BY <1>1, <1>3, DirIs

LEMMA WholeIsDir ==
    ASSUME NEW p \in Package
    PROVE  /\ Whole(p) \in Dir /\ DOMAIN Whole(p) = Entries[p] /\ Whole(p) # NoDir
           /\ \A n \in Entries[p] : Whole(p)[n] = [of |-> p, whole |-> TRUE]
<1>1. Entries[p] \in SUBSET Name
  BY PackageAssumption
<1>2. \A n \in Entries[p] : [of |-> p, whole |-> TRUE] \in File
  BY DEF File
<1>3. DOMAIN Whole(p) = Entries[p] /\ \A n \in Entries[p] : Whole(p)[n] = [of |-> p, whole |-> TRUE]
  BY DEF Whole
<1>4. Whole(p) \in [Entries[p] -> File]
  BY <1>2 DEF Whole
<1>5. Whole(p) \in Dir
  BY <1>1, <1>4, IsDir
<1> QED
  BY <1>3, <1>5, DirIs

LEMMA PutIsDir ==
    ASSUME NEW d \in Dir \cup {NoDir}, NEW n \in Name, NEW file \in File
    PROVE  /\ Put(d, n, file) \in Dir
           /\ n \in DOMAIN Put(d, n, file)
           /\ d # NoDir => DOMAIN d \subseteq DOMAIN Put(d, n, file)
<1> DEFINE names == (IF d = NoDir THEN {} ELSE DOMAIN d) \cup {n}
<1>1. names \in SUBSET Name
  BY DirIs
<1>2. \A m \in names : (IF m = n THEN file ELSE d[m]) \in File
  BY DirIs
<1>3. Put(d, n, file) \in [names -> File]
  BY <1>2 DEF Put
<1>4. DOMAIN Put(d, n, file) = names
  BY DEF Put
<1>5. Put(d, n, file) \in Dir
  BY <1>1, <1>3, IsDir
<1> QED
  BY <1>4, <1>5

LEMMA WithoutIsDir ==
    ASSUME NEW d \in Dir, NEW n
    PROVE  [m \in DOMAIN d \ {n} |-> d[m]] \in Dir
<1>1. DOMAIN d \ {n} \in SUBSET Name /\ [m \in DOMAIN d \ {n} |-> d[m]] \in [DOMAIN d \ {n} -> File]
  BY DirIs
<1> QED
  BY <1>1, IsDir

LEMMA WrittenIsDir ==
    ASSUME NEW d \in Dir, NEW n \in DOMAIN d, NEW file \in File
    PROVE  [d EXCEPT ![n] = file] \in Dir /\ DOMAIN [d EXCEPT ![n] = file] = DOMAIN d
<1>1. DOMAIN d \in SUBSET Name /\ [d EXCEPT ![n] = file] \in [DOMAIN d -> File]
  BY DirIs
<1> QED
  BY <1>1, IsDir

-----------------------------------------------------------------------------
(* The initial states *)

LEMMA InitHolds == Init => IInv
<1> SUFFICES ASSUME Init PROVE IInv
  OBVIOUS
<1>1. \A d \in Place : dir[d] = IF d \in Unpacked THEN Whole(d) ELSE NoDir
  BY DEF Init
<1>2. \A j \in Job : /\ at[j] = "idle" /\ pkg[j] = NoPackage /\ root[j] = Staging
                     /\ wiping[j] = NoPlace /\ open[j] = NoFile /\ alone[j] = FALSE
  BY DEF Init
<1>3. TypeOK
  <2>1. dir \in [Place -> Dir \cup {NoDir}]
    BY WholeIsDir, PackageAssumption DEF Init
  <2>2. /\ at \in [Job -> Phase] /\ pkg \in [Job -> Package \cup {NoPackage}]
        /\ root \in [Job -> Package \cup {Staging}]
    BY DEF Init, Phase
  <2>3. wiping \in [Job -> Place \cup {NoPlace}] /\ left \in [Job -> SUBSET Name]
    BY DEF Init
  <2>4. open \in [Job -> (Place \X Name) \cup {NoFile}]
    BY DEF Init
  <2>5. manifest \in [Job -> Package \cup {NoPackage}] /\ asked \in [Id -> Package \cup {NoPackage}]
    BY DEF Init
  <2>6. result \in {"none", "ok", "exists", "refused", "io"}
    BY DEF Init
  <2>7. alone \in [Job -> BOOLEAN]
    BY DEF Init
  <2> QED
    BY <1>2, <2>1, <2>2, <2>3, <2>4, <2>5, <2>6, <2>7, Zenon DEF TypeOK
<1>4. \A j \in Job : PhaseOf(j)
  BY <1>2, PlaceAssumption DEF PhaseOf
<1>5. \A j \in Job : AloneOf(j)
  BY <1>2 DEF AloneOf
<1>6. \A p \in Package : Untouched(p)
  BY <1>1 DEF Untouched, Place
<1>7. \A i \in Id : SkinOf(i)
  BY DEF Init, SkinOf
<1> QED
  BY <1>3, <1>4, <1>5, <1>6, <1>7 DEF IInv

-----------------------------------------------------------------------------
(* What one step leaves alone *)

(* An install that has the staging directory to itself takes the only step. *)
LEMMA OnlyTheLoneOneSteps ==
    ASSUME IInv, NEW j \in Job, at[j] # "idle", NEW k \in Job, alone[k]
    PROVE  k = j /\ \A m \in Job \ {j} : at[m] = "idle" /\ open[m] = NoFile /\ wiping[m] = NoPlace
<1>1. AloneOf(k)
  BY DEF IInv
<1>2. k = j /\ \A m \in Job \ {j} : at[m] = "idle"
  BY <1>1 DEF AloneOf
<1> QED
  BY <1>2 DEF IInv, TypeOK

LEMMA LoneKept ==
    ASSUME IInv, NEW j \in Job, at[j] # "idle",
           alone' \in [Job -> BOOLEAN], \A k \in Job : alone'[k] => alone[k],
           \A k \in Job \ {j} : at'[k] = at[k],
           alone[j] /\ alone'[j] => at'[j] # "idle" /\ StagedOf(j)'
    PROVE  \A k \in Job : AloneOf(k)'
<1> SUFFICES ASSUME NEW k \in Job, alone'[k] PROVE AloneOf(k)'
  BY DEF AloneOf
<1>1. alone[k] /\ alone[j] /\ k = j /\ \A m \in Job \ {j} : at[m] = "idle"
  BY OnlyTheLoneOneSteps
<1>2. at'[j] # "idle" /\ StagedOf(j)' /\ \A m \in Job \ {j} : at'[m] = "idle"
  BY <1>1
<1> QED
  BY <1>1, <1>2 DEF AloneOf

(* A skin out of reach stays so while its directory is left alone and nobody
   opens anything in it. *)
LEMMA SkinsKept ==
    ASSUME IInv, asked' = asked,
           \A i \in Id : asked[i] # NoPackage => dir'[i] = dir[i],
           \A k \in Job : wiping'[k] \in {wiping[k], Staging, NoPlace},
           \A k \in Job : open'[k] # NoFile => open'[k] = open[k] \/ open'[k][1] = Staging
    PROVE  \A i \in Id : SkinOf(i)'
<1> SUFFICES ASSUME NEW i \in Id, asked[i] # NoPackage PROVE SkinOf(i)'
  BY DEF SkinOf
<1>1. SkinOf(i) /\ i # Staging /\ i # NoPlace
  BY PlaceAssumption DEF IInv
<1> QED
  BY <1>1 DEF SkinOf

(* A step that changes no directory and opens nothing. *)
LEMMA ReturnKeeps ==
    ASSUME IInv, NEW j \in Job, at[j] # "idle", NEW value \in {"refused", "exists", "io"},
           Return(j, value), UNCHANGED <<dir, asked>>
    PROVE  IInv'
<1>1. /\ dir' = dir /\ asked' = asked
      /\ at' = [at EXCEPT ![j] = "idle"] /\ alone' = [alone EXCEPT ![j] = FALSE]
      /\ pkg' = [pkg EXCEPT ![j] = NoPackage] /\ root' = [root EXCEPT ![j] = Staging]
      /\ wiping' = [wiping EXCEPT ![j] = NoPlace] /\ open' = [open EXCEPT ![j] = NoFile]
      /\ left' = [left EXCEPT ![j] = {}] /\ manifest' = [manifest EXCEPT ![j] = NoPackage]
      /\ result' = value
  BY DEF Return
<1>2. TypeOK'
  BY <1>1 DEF IInv, TypeOK, Phase
<1>3. \A k \in Job : PhaseOf(k)'
  BY <1>1, PlaceAssumption DEF IInv, TypeOK, PhaseOf
<1>4. \A k \in Job : AloneOf(k)'
  BY <1>1, LoneKept DEF IInv, TypeOK
<1>5. \A p \in Package : Untouched(p)'
  BY <1>1 DEF IInv, Untouched, Whole
<1>6. \A i \in Id : SkinOf(i)'
  BY <1>1, SkinsKept DEF IInv, TypeOK
<1> QED
  BY <1>2, <1>3, <1>4, <1>5, <1>6, Zenon DEF IInv

(* A step of an install that only goes on to its next phase. *)
LEMMA AdvanceKeeps ==
    ASSUME IInv, NEW j \in Job, at[j] # "idle", open[j] = NoFile, wiping[j] = NoPlace,
           NEW phase \in Phase, phase # "idle", at' = [at EXCEPT ![j] = phase], result' = "none",
           UNCHANGED <<dir, pkg, root, left, open, alone, asked>>,
           wiping' \in [Job -> Place \cup {NoPlace}],
           wiping'[j] # NoPlace => phase = "unlink" /\ wiping'[j] = Staging /\ dir[Staging] # NoDir,
           \A k \in Job \ {j} : wiping'[k] = wiping[k],
           manifest' \in [Job -> Package \cup {NoPackage}],
           \A k \in Job \ {j} : manifest'[k] = manifest[k],
           PhaseOf(j)', alone[j] => StagedOf(j)'
    PROVE  IInv'
<1>1. TypeOK'
  BY DEF IInv, TypeOK
<1>2. \A k \in Job : PhaseOf(k)'
  <2> SUFFICES ASSUME NEW k \in Job, k # j PROVE PhaseOf(k)'
    OBVIOUS
  <2> QED
    BY DEF IInv, TypeOK, PhaseOf
<1>3. \A k \in Job : AloneOf(k)'
  BY LoneKept DEF IInv, TypeOK
<1>4. \A p \in Package : Untouched(p)'
  BY DEF IInv, Untouched, Whole
<1>5. \A i \in Id : SkinOf(i)'
  <2>1. \A k \in Job : wiping'[k] \in {wiping[k], Staging, NoPlace}
    OBVIOUS
  <2> QED
    BY <2>1, SkinsKept
<1> QED
  BY <1>1, <1>2, <1>3, <1>4, <1>5, Zenon DEF IInv

-----------------------------------------------------------------------------
(* The steps of an install *)

LEMMA BeginKeeps ==
    ASSUME IInv, NEW j \in Job, NEW p \in Package, NEW from \in Package \cup {Staging},
           NEW phase \in {"check", "read"}, Begin(j, p, from, phase),
           phase = "check" => from = Staging, phase = "read" => from = p
    PROVE  IInv'
<1>1. /\ at[j] = "idle" /\ at' = [at EXCEPT ![j] = phase] /\ result' = "none"
      /\ pkg' = [pkg EXCEPT ![j] = p] /\ root' = [root EXCEPT ![j] = from]
      /\ UNCHANGED <<dir, wiping, left, open, manifest, asked>>
  BY DEF Begin
<1>2. /\ alone' \in [Job -> BOOLEAN]
      /\ \A k \in Job : alone'[k] => k = j /\ \A m \in Job \ {j} : at[m] = "idle"
  BY DEF Begin
<1>3. TypeOK'
  BY <1>1, <1>2 DEF IInv, TypeOK, Phase
<1>4. \A k \in Job : PhaseOf(k)'
  BY <1>1 DEF IInv, TypeOK, PhaseOf
<1>5. \A k \in Job : AloneOf(k)'
  <2> SUFFICES ASSUME alone'[j], \A m \in Job \ {j} : at[m] = "idle" PROVE AloneOf(j)'
    BY <1>2 DEF AloneOf
  <2>1. at'[j] = phase /\ root'[j] = from /\ \A m \in Job \ {j} : at'[m] = "idle"
    BY <1>1 DEF IInv, TypeOK
  <2>2. from # Staging \/ phase # "read"
    BY PlaceAssumption
  <2>3. StagedOf(j)'
    BY <2>1, <2>2 DEF StagedOf
  <2> QED
    BY <2>1, <2>3 DEF AloneOf
<1>6. \A q \in Package : Untouched(q)'
  BY <1>1 DEF IInv, Untouched, Whole
<1>7. \A i \in Id : SkinOf(i)'
  BY <1>1, SkinsKept
<1> QED
  BY <1>3, <1>4, <1>5, <1>6, <1>7, Zenon DEF IInv

LEMMA CheckStagingKeeps == ASSUME IInv, NEW j \in Job, CheckStaging(j) PROVE IInv'
<1> DEFINE phase == IF dir[Staging] = NoDir THEN "create" ELSE "wipe"
<1>1. /\ at[j] = "check" /\ at' = [at EXCEPT ![j] = phase] /\ result' = "none"
      /\ UNCHANGED <<dir, pkg, root, wiping, left, open, manifest, alone, asked>>
  BY DEF CheckStaging, Continue
<1>2. open[j] = NoFile /\ wiping[j] = NoPlace /\ at'[j] = phase
  BY <1>1 DEF IInv, TypeOK
<1>3. phase \in Phase
  BY DEF Phase
<1>4. PhaseOf(j)' /\ StagedOf(j)'
  BY <1>1, <1>2 DEF IInv, TypeOK, PhaseOf, StagedOf
<1>5. wiping' \in [Job -> Place \cup {NoPlace}] /\ manifest' \in [Job -> Package \cup {NoPackage}]
  BY <1>1 DEF IInv, TypeOK
<1> QED
  BY <1>1, <1>2, <1>3, <1>4, <1>5, AdvanceKeeps

LEMMA OpenStagingKeeps == ASSUME IInv, NEW j \in Job, OpenStaging(j) PROVE IInv'
<1>1. /\ at[j] = "wipe" /\ at' = [at EXCEPT ![j] = "unlink"] /\ result' = "none"
      /\ wiping' = [wiping EXCEPT ![j] = Staging] /\ dir[Staging] # NoDir
      /\ UNCHANGED <<dir, pkg, root, left, open, manifest, alone, asked>>
  BY DEF OpenStaging, Continue
<1>2. open[j] = NoFile /\ wiping[j] = NoPlace /\ at'[j] = "unlink" /\ "unlink" \in Phase
  BY <1>1 DEF IInv, TypeOK, Phase
<1>3. wiping' \in [Job -> Place \cup {NoPlace}] /\ manifest' \in [Job -> Package \cup {NoPackage}]
  BY <1>1 DEF IInv, TypeOK, Place
<1>4. wiping'[j] = Staging
  BY <1>1 DEF IInv, TypeOK
<1>5. PhaseOf(j)' /\ StagedOf(j)'
  BY <1>1, <1>2, <1>4, PlaceAssumption DEF IInv, TypeOK, PhaseOf, StagedOf
<1> QED
  BY <1>1, <1>2, <1>3, <1>4, <1>5, AdvanceKeeps

LEMMA EntriesDoneKeeps == ASSUME IInv, NEW j \in Job, EntriesDone(j) PROVE IInv'
<1>1. /\ at[j] = "extract" /\ at' = [at EXCEPT ![j] = "read"] /\ result' = "none" /\ left[j] = {}
      /\ UNCHANGED <<dir, pkg, root, wiping, left, open, manifest, alone, asked>>
  BY DEF EntriesDone, Continue
<1>2. open[j] = NoFile /\ wiping[j] = NoPlace /\ at'[j] = "read" /\ "read" \in Phase
  BY <1>1 DEF IInv, TypeOK, Phase
<1>3. wiping' \in [Job -> Place \cup {NoPlace}] /\ manifest' \in [Job -> Package \cup {NoPackage}]
  BY <1>1 DEF IInv, TypeOK
<1>4. PhaseOf(j)'
  BY <1>1, <1>2 DEF IInv, TypeOK, PhaseOf
<1>5. ASSUME alone[j] PROVE StagedOf(j)'
  <2>1. dir[Staging] = Extracted(j)
    BY <1>1, <1>5 DEF IInv, AloneOf, StagedOf
  <2>2. Extracted(j) = Whole(pkg[j])
    BY <1>1 DEF Extracted, Whole
  <2>3. Whole(pkg[j])' = Whole(pkg[j])
    BY <1>1 DEF Whole
  <2> QED
    BY <1>1, <1>2, <2>1, <2>2, <2>3 DEF StagedOf
<1> QED
  BY <1>1, <1>2, <1>3, <1>4, <1>5, AdvanceKeeps

(* The directory a lone install reads from is the package it was asked for. *)
LEMMA LoneRoot ==
    ASSUME IInv, NEW j \in Job, alone[j], at[j] \in {"read", "layout", "target", "commit"}
    PROVE  /\ pkg[j] \in Package
           /\ dir[root[j]] # NoDir => dir[root[j]] = Whole(pkg[j])
<1>1. PhaseOf(j) /\ StagedOf(j) /\ pkg[j] \in Package
  BY DEF IInv, AloneOf, PhaseOf
<1>2. CASE root[j] = Staging
  BY <1>1, <1>2 DEF StagedOf
<1>3. CASE root[j] # Staging
  BY <1>1, <1>3 DEF IInv, PhaseOf, Untouched
<1> QED
  BY <1>1, <1>2, <1>3

LEMMA ReadManifestKeeps == ASSUME IInv, NEW j \in Job, ReadManifest(j) PROVE IInv'
<1> DEFINE source == dir[root[j]][Manifest].of
<1>1. /\ at[j] = "read" /\ at' = [at EXCEPT ![j] = "layout"] /\ result' = "none"
      /\ dir[root[j]] # NoDir /\ Manifest \in DOMAIN dir[root[j]]
      /\ manifest' = [manifest EXCEPT ![j] = source]
      /\ UNCHANGED <<dir, pkg, root, wiping, left, open, alone, asked>>
  BY DEF ReadManifest, Continue, HasManifest
<1>2. open[j] = NoFile /\ wiping[j] = NoPlace /\ at'[j] = "layout" /\ "layout" \in Phase
  BY <1>1 DEF IInv, TypeOK, Phase
<1>3. source \in Package
  <2>1. root[j] \in Place /\ dir[root[j]] \in Dir
    BY <1>1 DEF IInv, TypeOK, Place
  <2>2. dir[root[j]][Manifest] \in File
    BY <1>1, <2>1, DirIs
  <2> QED
    BY <2>2 DEF File
<1>4. /\ wiping' \in [Job -> Place \cup {NoPlace}] /\ manifest' \in [Job -> Package \cup {NoPackage}]
      /\ manifest'[j] = source
  BY <1>1, <1>3 DEF IInv, TypeOK
<1>5. PhaseOf(j)'
  BY <1>1, <1>2, <1>3, <1>4 DEF IInv, TypeOK, PhaseOf
<1>6. ASSUME alone[j] PROVE StagedOf(j)'
  <2>1. pkg[j] \in Package /\ dir[root[j]] = Whole(pkg[j])
    BY <1>1, <1>6, LoneRoot
  <2>2. Manifest \in Entries[pkg[j]] /\ source = pkg[j]
    <3>1. /\ DOMAIN Whole(pkg[j]) = Entries[pkg[j]]
          /\ \A n \in Entries[pkg[j]] : Whole(pkg[j])[n] = [of |-> pkg[j], whole |-> TRUE]
      BY <2>1, WholeIsDir
    <3>2. Manifest \in Entries[pkg[j]]
      BY <1>1, <2>1, <3>1
    <3>3. dir[root[j]][Manifest] = [of |-> pkg[j], whole |-> TRUE]
      BY <2>1, <3>1, <3>2
    <3> QED
      BY <3>2, <3>3
  <2>3. Whole(pkg[j])' = Whole(pkg[j])
    BY <1>1 DEF Whole
  <2> QED
    BY <1>1, <1>2, <1>4, <2>1, <2>2, <2>3 DEF StagedOf
<1> QED
  BY <1>1, <1>2, <1>4, <1>5, <1>6, AdvanceKeeps

LEMMA CheckLayoutKeeps == ASSUME IInv, NEW j \in Job, CheckLayout(j) PROVE IInv'
<1>1. at[j] = "layout" /\ UNCHANGED <<dir, asked>>
  BY DEF CheckLayout
<1>2. CASE Return(j, "refused")
  BY <1>1, <1>2, ReturnKeeps
<1>3. CASE /\ at' = [at EXCEPT ![j] = "target"] /\ result' = "none"
           /\ UNCHANGED <<pkg, root, wiping, left, open, manifest, alone>>
  <2>1. open[j] = NoFile /\ wiping[j] = NoPlace /\ at'[j] = "target" /\ "target" \in Phase
    BY <1>1, <1>3 DEF IInv, TypeOK, Phase
  <2>2. wiping' \in [Job -> Place \cup {NoPlace}] /\ manifest' \in [Job -> Package \cup {NoPackage}]
    BY <1>3 DEF IInv, TypeOK
  <2>3. PhaseOf(j)'
    BY <1>1, <1>3, <2>1 DEF IInv, TypeOK, PhaseOf
  <2>4. ASSUME alone[j] PROVE StagedOf(j)'
    <3>1. Whole(pkg[j])' = Whole(pkg[j])
      BY <1>3 DEF Whole
    <3> QED
      BY <1>1, <1>3, <2>1, <2>4, <3>1 DEF IInv, AloneOf, StagedOf
  <2> QED
    BY <1>1, <1>3, <2>1, <2>2, <2>3, <2>4, AdvanceKeeps
<1> QED
  BY <1>2, <1>3 DEF CheckLayout

LEMMA CheckTargetKeeps == ASSUME IInv, NEW j \in Job, CheckTarget(j) PROVE IInv'
<1>1. at[j] = "target" /\ UNCHANGED <<dir, asked>>
  BY DEF CheckTarget
<1>2. CASE Return(j, "refused") \/ Return(j, "exists")
  BY <1>1, <1>2, ReturnKeeps
<1>3. CASE /\ manifest[j] \in Valid /\ dir[SkinId[manifest[j]]] = NoDir
           /\ at' = [at EXCEPT ![j] = "commit"] /\ result' = "none"
           /\ UNCHANGED <<pkg, root, wiping, left, open, manifest, alone>>
  <2>1. open[j] = NoFile /\ wiping[j] = NoPlace /\ at'[j] = "commit" /\ "commit" \in Phase
    BY <1>1, <1>3 DEF IInv, TypeOK, Phase
  <2>2. wiping' \in [Job -> Place \cup {NoPlace}] /\ manifest' \in [Job -> Package \cup {NoPackage}]
    BY <1>3 DEF IInv, TypeOK
  <2>3. PhaseOf(j)'
    BY <1>1, <1>3, <2>1 DEF IInv, TypeOK, PhaseOf
  <2>4. ASSUME alone[j] PROVE StagedOf(j)'
    <3>1. Whole(pkg[j])' = Whole(pkg[j])
      BY <1>3 DEF Whole
    <3> QED
      BY <1>1, <1>3, <2>1, <2>4, <3>1 DEF IInv, AloneOf, StagedOf
  <2> QED
    BY <1>1, <1>3, <2>1, <2>2, <2>3, <2>4, AdvanceKeeps
<1> QED
  BY <1>2, <1>3 DEF CheckTarget

LEMMA WipeFileKeeps == ASSUME IInv, NEW j \in Job, WipeFile(j) PROVE IInv'
<1> DEFINE d == wiping[j]
<1> PICK n \in DOMAIN dir[d] :
        /\ dir' = [dir EXCEPT ![d] = [m \in DOMAIN dir[d] \ {n} |-> dir[d][m]]]
        /\ open' = [k \in Job |-> IF open[k] = <<d, n>> THEN NoFile ELSE open[k]]
  BY DEF WipeFile
<1>1. /\ d # NoPlace /\ result' = "none"
      /\ UNCHANGED <<at, pkg, root, wiping, left, manifest, alone, asked>>
  BY DEF WipeFile
<1>2. at[j] = "unlink" /\ d \in Place \ Package /\ dir[d] \in Dir
  BY <1>1 DEF IInv, TypeOK, PhaseOf
<1>3. [m \in DOMAIN dir[d] \ {n} |-> dir[d][m]] \in Dir
  BY <1>2, WithoutIsDir
<1>4. TypeOK'
  <2>1. dir' \in [Place -> Dir \cup {NoDir}]
    BY <1>3 DEF IInv, TypeOK
  <2>2. open' \in [Job -> (Place \X Name) \cup {NoFile}]
    BY DEF IInv, TypeOK
  <2>3. ASSUME NEW k \in Job, open'[k] # NoFile
        PROVE  at'[k] = "write" /\ dir'[open'[k][1]] # NoDir /\ open'[k][2] \in DOMAIN dir'[open'[k][1]]
    <3>1. open'[k] = open[k] /\ open[k] # <<d, n>> /\ open[k] # NoFile
      BY <2>3
    <3>2. /\ open[k] \in Place \X Name /\ at[k] = "write" /\ dir[open[k][1]] # NoDir
          /\ open[k][2] \in DOMAIN dir[open[k][1]]
      BY <3>1 DEF IInv, TypeOK
    <3>3. CASE open[k][1] = d
      <4>1. open[k][2] # n
        BY <3>1, <3>2, <3>3
      <4>2. dir'[d] = [m \in DOMAIN dir[d] \ {n} |-> dir[d][m]]
        BY <1>2 DEF IInv, TypeOK
      <4>3. dir'[d] # NoDir
        BY <1>3, <4>2, DirIs
      <4>4. open[k][2] \in DOMAIN dir'[d]
        BY <3>2, <3>3, <4>1, <4>2
      <4> QED
        BY <1>1, <3>1, <3>2, <3>3, <4>3, <4>4
    <3>4. CASE open[k][1] # d
      <4>1. dir'[open[k][1]] = dir[open[k][1]]
        BY <3>2, <3>4 DEF IInv, TypeOK
      <4> QED
        BY <1>1, <3>1, <3>2, <4>1
    <3> QED
      BY <3>3, <3>4
  <2>4. ASSUME NEW k \in Job, wiping'[k] # NoPlace PROVE at'[k] = "unlink" /\ dir'[wiping'[k]] # NoDir
    <3>1. wiping[k] \in Place /\ dir[wiping[k]] # NoDir /\ at[k] = "unlink"
      BY <1>1, <2>4 DEF IInv, TypeOK
    <3>2. CASE wiping[k] = d
      BY <1>1, <1>2, <1>3, <3>1, <3>2, DirIs DEF IInv, TypeOK
    <3>3. CASE wiping[k] # d
      BY <1>1, <3>1, <3>3 DEF IInv, TypeOK
    <3> QED
      BY <3>2, <3>3
  <2> QED
    BY <1>1, <2>1, <2>2, <2>3, <2>4 DEF IInv, TypeOK
<1>5. \A k \in Job : PhaseOf(k)'
  BY <1>1 DEF IInv, TypeOK, PhaseOf
<1>6. \A k \in Job : AloneOf(k)'
  <2>1. StagedOf(j)'
    BY <1>1, <1>2 DEF StagedOf
  <2> QED
    BY <1>1, <1>2, <2>1, LoneKept DEF IInv, TypeOK
<1>7. \A p \in Package : Untouched(p)'
  BY <1>2 DEF IInv, TypeOK, Place, Untouched, Whole
<1>8. \A i \in Id : SkinOf(i)'
  <2>1. ASSUME NEW i \in Id, asked[i] # NoPackage PROVE dir'[i] = dir[i]
    <3>1. d # i
      BY <2>1 DEF IInv, SkinOf
    <3> QED
      BY <3>1 DEF IInv, TypeOK, Place
  <2> QED
    BY <1>1, <2>1, SkinsKept
<1> QED
  BY <1>4, <1>5, <1>6, <1>7, <1>8, Zenon DEF IInv

LEMMA WipeDirKeeps == ASSUME IInv, NEW j \in Job, WipeDir(j) PROVE IInv'
<1>1. /\ dir[Staging] = EmptyDir /\ dir' = [dir EXCEPT ![Staging] = NoDir]
      /\ at[j] = "unlink" /\ at' = [at EXCEPT ![j] = "create"] /\ result' = "none"
      /\ wiping' = [k \in Job |-> IF k = j \/ wiping[k] = Staging THEN NoPlace ELSE wiping[k]]
      /\ UNCHANGED <<pkg, root, left, open, manifest, alone, asked>>
  BY DEF WipeDir, Continue
<1>2. Staging \in Place /\ Staging \notin Package \cup Id /\ dir'[Staging] = NoDir
  BY <1>1, PlaceAssumption DEF IInv, TypeOK, Place
<1>3. \A k \in Job : open[k] # NoFile => open[k] \in Place \X Name /\ open[k][1] # Staging
  BY <1>1, EmptyIsDir DEF IInv, TypeOK
<1>4. TypeOK'
  <2>1. dir' \in [Place -> Dir \cup {NoDir}] /\ at' \in [Job -> Phase]
    BY <1>1 DEF IInv, TypeOK, Phase
  <2>2. wiping' \in [Job -> Place \cup {NoPlace}]
    BY <1>1 DEF IInv, TypeOK
  <2>3. ASSUME NEW k \in Job, open'[k] # NoFile
        PROVE  at'[k] = "write" /\ dir'[open'[k][1]] # NoDir /\ open'[k][2] \in DOMAIN dir'[open'[k][1]]
    <3>1. k # j /\ open'[k] = open[k] /\ at[k] = "write"
      BY <1>1, <2>3 DEF IInv, TypeOK
    <3>2. dir'[open[k][1]] = dir[open[k][1]]
      BY <1>1, <1>3, <2>3, <3>1 DEF IInv, TypeOK
    <3> QED
      BY <1>1, <2>3, <3>1, <3>2 DEF IInv, TypeOK
  <2>4. ASSUME NEW k \in Job, wiping'[k] # NoPlace PROVE at'[k] = "unlink" /\ dir'[wiping'[k]] # NoDir
    <3>1. k # j /\ wiping[k] # Staging /\ wiping'[k] = wiping[k] /\ wiping[k] \in Place
      BY <1>1, <2>4 DEF IInv, TypeOK
    <3>2. dir'[wiping[k]] = dir[wiping[k]] /\ at'[k] = at[k]
      BY <1>1, <3>1 DEF IInv, TypeOK
    <3> QED
      BY <2>4, <3>1, <3>2 DEF IInv, TypeOK
  <2> QED
    BY <1>1, <2>1, <2>2, <2>3, <2>4 DEF IInv, TypeOK
<1>5. \A k \in Job : PhaseOf(k)'
  BY <1>1, PlaceAssumption DEF IInv, TypeOK, PhaseOf
<1>6. \A k \in Job : AloneOf(k)'
  <2>1. at'[j] = "create" /\ StagedOf(j)'
    BY <1>1, <1>2 DEF IInv, TypeOK, StagedOf
  <2> QED
    BY <1>1, <2>1, LoneKept DEF IInv, TypeOK
<1>7. \A p \in Package : Untouched(p)'
  BY <1>1, <1>2 DEF IInv, TypeOK, Place, Untouched, Whole
<1>8. \A i \in Id : SkinOf(i)'
  <2>1. \A i \in Id : dir'[i] = dir[i]
    BY <1>1, <1>2 DEF IInv, TypeOK, Place
  <2>2. \A k \in Job : wiping'[k] \in {wiping[k], Staging, NoPlace}
    BY <1>1
  <2> QED
    BY <1>1, <2>1, <2>2, SkinsKept
<1> QED
  BY <1>4, <1>5, <1>6, <1>7, <1>8, Zenon DEF IInv

LEMMA CreateStagingKeeps == ASSUME IInv, NEW j \in Job, CreateStaging(j) PROVE IInv'
<1>1. /\ dir' = [dir EXCEPT ![Staging] = IF dir[Staging] = NoDir THEN EmptyDir ELSE dir[Staging]]
      /\ at[j] = "create" /\ at' = [at EXCEPT ![j] = "extract"] /\ result' = "none"
      /\ left' = [left EXCEPT ![j] = Entries[pkg[j]]]
      /\ UNCHANGED <<pkg, root, wiping, open, manifest, alone, asked>>
  BY DEF CreateStaging, Continue
<1>2. /\ Staging \in Place /\ Staging \notin Package \cup Id
      /\ dir'[Staging] = (IF dir[Staging] = NoDir THEN EmptyDir ELSE dir[Staging])
  BY <1>1, PlaceAssumption DEF IInv, TypeOK, Place
<1>3. pkg[j] \in Package /\ Entries[pkg[j]] \in SUBSET Name
  BY <1>1, PackageAssumption DEF IInv, PhaseOf
<1>4. \A place \in Place : dir'[place] = dir[place] \/ (place = Staging /\ dir[place] = NoDir)
  BY <1>1, <1>2 DEF IInv, TypeOK
<1>5. TypeOK'
  <2>1. dir' \in [Place -> Dir \cup {NoDir}]
    BY <1>1, EmptyIsDir DEF IInv, TypeOK
  <2>2. at' \in [Job -> Phase] /\ left' \in [Job -> SUBSET Name]
    BY <1>1, <1>3 DEF IInv, TypeOK, Phase
  <2>3. ASSUME NEW k \in Job, open'[k] # NoFile
        PROVE  at'[k] = "write" /\ dir'[open'[k][1]] # NoDir /\ open'[k][2] \in DOMAIN dir'[open'[k][1]]
    <3>1. /\ open'[k] = open[k] /\ at[k] = "write" /\ open[k] \in Place \X Name
          /\ dir[open[k][1]] # NoDir /\ open[k][2] \in DOMAIN dir[open[k][1]]
      BY <1>1, <2>3 DEF IInv, TypeOK
    <3>2. open[k][1] \in Place /\ k # j
      BY <1>1, <3>1
    <3>3. dir'[open[k][1]] = dir[open[k][1]] /\ at'[k] = at[k]
      BY <1>1, <1>4, <3>1, <3>2 DEF IInv, TypeOK
    <3> QED
      BY <3>1, <3>3
  <2>4. ASSUME NEW k \in Job, wiping'[k] # NoPlace PROVE at'[k] = "unlink" /\ dir'[wiping'[k]] # NoDir
    <3>1. /\ wiping'[k] = wiping[k] /\ at[k] = "unlink" /\ wiping[k] \in Place
          /\ dir[wiping[k]] # NoDir
      BY <1>1, <2>4 DEF IInv, TypeOK
    <3>2. dir'[wiping[k]] = dir[wiping[k]] /\ at'[k] = at[k]
      BY <1>1, <1>4, <3>1 DEF IInv, TypeOK
    <3> QED
      BY <3>1, <3>2
  <2> QED
    BY <1>1, <2>1, <2>2, <2>3, <2>4 DEF IInv, TypeOK
<1>6. \A k \in Job : PhaseOf(k)'
  BY <1>1 DEF IInv, TypeOK, PhaseOf
<1>7. \A k \in Job : AloneOf(k)'
  <2>1. at'[j] = "extract" /\ left'[j] = Entries[pkg[j]] /\ pkg' = pkg
    BY <1>1 DEF IInv, TypeOK
  <2>2. ASSUME alone[j] PROVE StagedOf(j)'
    <3>1. dir[Staging] = NoDir
      BY <1>1, <2>2 DEF IInv, AloneOf, StagedOf
    <3>2. Extracted(j)' = EmptyDir
      BY <2>1 DEF Extracted, EmptyDir
    <3> QED
      BY <1>2, <2>1, <3>1, <3>2 DEF StagedOf
  <2> QED
    BY <1>1, <2>1, <2>2, LoneKept DEF IInv, TypeOK
<1>8. \A p \in Package : Untouched(p)'
  BY <1>1, <1>2 DEF IInv, TypeOK, Place, Untouched, Whole
<1>9. \A i \in Id : SkinOf(i)'
  <2>1. \A i \in Id : dir'[i] = dir[i]
    BY <1>1, <1>2 DEF IInv, TypeOK, Place
  <2> QED
    BY <1>1, <2>1, SkinsKept
<1> QED
  BY <1>5, <1>6, <1>7, <1>8, <1>9, Zenon DEF IInv

LEMMA ExtractedIsDir ==
    ASSUME IInv, NEW j \in Job, pkg[j] \in Package
    PROVE  /\ Extracted(j) \in Dir /\ Extracted(j) # NoDir
           /\ DOMAIN Extracted(j) = Entries[pkg[j]] \ left[j]
           /\ \A n \in Entries[pkg[j]] \ left[j] : Extracted(j)[n] = [of |-> pkg[j], whole |-> TRUE]
<1>1. Entries[pkg[j]] \ left[j] \in SUBSET Name
  BY PackageAssumption
<1>2. [of |-> pkg[j], whole |-> TRUE] \in File
  BY DEF File
<1>3. Extracted(j) \in [Entries[pkg[j]] \ left[j] -> File]
  BY <1>2 DEF Extracted
<1>4. Extracted(j) \in Dir
  BY <1>1, <1>3, IsDir
<1> QED
  BY <1>4, DirIs DEF Extracted

LEMMA CreateFileKeeps ==
    ASSUME IInv, NEW j \in Job, NEW n \in Name, CreateFile(j, n)
    PROVE  IInv'
<1> DEFINE part == [of |-> pkg[j], whole |-> FALSE]
           new  == Put(dir[Staging], n, part)
<1>1. /\ n \in left[j] /\ at[j] = "extract" /\ at' = [at EXCEPT ![j] = "write"] /\ result' = "none"
      /\ dir' = [dir EXCEPT ![Staging] = new]
      /\ open' = [open EXCEPT ![j] = <<Staging, n>>] /\ left' = [left EXCEPT ![j] = left[j] \ {n}]
      /\ UNCHANGED <<pkg, root, wiping, manifest, alone, asked>>
  BY DEF CreateFile, Continue
<1>2. Staging \in Place /\ Staging \notin Package \cup Id
  BY PlaceAssumption DEF Place
<1>3. /\ pkg[j] \in Package /\ part \in File /\ dir[Staging] \in Dir \cup {NoDir}
      /\ n \in Entries[pkg[j]] /\ left[j] \subseteq Entries[pkg[j]]
  BY <1>1, <1>2 DEF IInv, TypeOK, PhaseOf, File
<1>4. /\ new \in Dir /\ n \in DOMAIN new /\ new # NoDir
      /\ dir[Staging] # NoDir => DOMAIN dir[Staging] \subseteq DOMAIN new
  <2> HIDE DEF part
  <2> QED
    BY <1>3, PutIsDir, DirIs
<1> HIDE DEF new
<1>5. /\ dir'[Staging] = new /\ \A place \in Place \ {Staging} : dir'[place] = dir[place]
      /\ at'[j] = "write" /\ open'[j] = <<Staging, n>> /\ left'[j] = left[j] \ {n}
      /\ \A k \in Job \ {j} : at'[k] = at[k] /\ open'[k] = open[k] /\ left'[k] = left[k]
  BY <1>1, <1>2 DEF IInv, TypeOK
<1>6. TypeOK'
  <2>1. dir' \in [Place -> Dir \cup {NoDir}]
    BY <1>1, <1>4 DEF IInv, TypeOK
  <2>2. at' \in [Job -> Phase] /\ left' \in [Job -> SUBSET Name]
    BY <1>1 DEF IInv, TypeOK, Phase
  <2>3. open' \in [Job -> (Place \X Name) \cup {NoFile}]
    BY <1>1, <1>2 DEF IInv, TypeOK
  <2>4. ASSUME NEW k \in Job, open'[k] # NoFile
        PROVE  at'[k] = "write" /\ dir'[open'[k][1]] # NoDir /\ open'[k][2] \in DOMAIN dir'[open'[k][1]]
    <3>1. CASE k = j
      BY <1>4, <1>5, <3>1
    <3>2. CASE k # j
      <4>1. /\ open'[k] = open[k] /\ at'[k] = "write" /\ open[k][1] \in Place
            /\ dir[open[k][1]] # NoDir /\ open[k][2] \in DOMAIN dir[open[k][1]]
        BY <1>5, <2>4, <3>2 DEF IInv, TypeOK
      <4> QED
        BY <1>4, <1>5, <4>1
    <3> QED
      BY <3>1, <3>2
  <2>5. ASSUME NEW k \in Job, wiping'[k] # NoPlace PROVE at'[k] = "unlink" /\ dir'[wiping'[k]] # NoDir
    <3>1. /\ wiping'[k] = wiping[k] /\ wiping[k] \in Place /\ at[k] = "unlink" /\ k # j
          /\ dir[wiping[k]] # NoDir
      BY <1>1, <2>5 DEF IInv, TypeOK
    <3> QED
      BY <1>4, <1>5, <3>1
  <2> QED
    BY <1>1, <2>1, <2>2, <2>3, <2>4, <2>5 DEF IInv, TypeOK
<1>7. \A k \in Job : PhaseOf(k)'
  <2> SUFFICES ASSUME NEW k \in Job PROVE PhaseOf(k)'
    OBVIOUS
  <2>1. CASE k = j
    BY <1>1, <1>2, <1>3, <1>5, <2>1 DEF IInv, PhaseOf
  <2>2. CASE k # j
    BY <1>1, <1>5, <2>2 DEF IInv, PhaseOf
  <2> QED
    BY <2>1, <2>2
<1>8. \A k \in Job : AloneOf(k)'
  <2>1. ASSUME alone[j] PROVE StagedOf(j)'
    <3>1. dir[Staging] = Extracted(j)
      BY <1>1, <2>1 DEF IInv, AloneOf, StagedOf
    <3>2. /\ Extracted(j) # NoDir /\ DOMAIN Extracted(j) = Entries[pkg[j]] \ left[j]
          /\ \A m \in Entries[pkg[j]] \ left[j] : Extracted(j)[m] = [of |-> pkg[j], whole |-> TRUE]
      BY <1>3, ExtractedIsDir
    <3>3. (Entries[pkg[j]] \ left[j]) \cup {n} = Entries[pkg[j]] \ left'[j]
      BY <1>3, <1>5
    <3>4. new = [m \in Entries[pkg[j]] \ left'[j] |->
                    IF m = n THEN part ELSE [of |-> pkg[j], whole |-> TRUE]]
      BY <3>1, <3>2, <3>3 DEF Put, new
    <3>5. Extracted(j)' = [m \in Entries[pkg[j]] \ left'[j] |-> [of |-> pkg[j], whole |-> TRUE]]
      BY <1>1 DEF Extracted
    <3>6. n \in (Entries[pkg[j]] \ left[j])'
      BY <1>1, <3>3
    <3>7. ASSUME NEW names, n \in names,
                 NEW whole, whole = [m \in names |-> [of |-> pkg[j], whole |-> TRUE]]
          PROVE  [whole EXCEPT ![n] = part]
                     = [m \in names |-> IF m = n THEN part ELSE [of |-> pkg[j], whole |-> TRUE]]
      BY <3>7
    <3>8. new = [Extracted(j)' EXCEPT ![n] = part]
      BY <1>1, <3>4, <3>5, <3>6, <3>7
    <3> QED
      BY <1>1, <1>5, <3>6, <3>8 DEF StagedOf
  <2> QED
    BY <1>1, <1>5, <2>1, LoneKept DEF IInv, TypeOK
<1>9. \A p \in Package : Untouched(p)'
  BY <1>2, <1>5 DEF IInv, Place, Untouched, Whole
<1>10. \A i \in Id : SkinOf(i)'
  <2>1. \A i \in Id : dir'[i] = dir[i]
    BY <1>2, <1>5 DEF Place
  <2>2. \A k \in Job : open'[k] # NoFile => open'[k] = open[k] \/ open'[k][1] = Staging
    BY <1>5
  <2> QED
    BY <1>1, <2>1, <2>2, SkinsKept
<1> QED
  BY <1>6, <1>7, <1>8, <1>9, <1>10, Zenon DEF IInv

LEMMA WriteFileKeeps == ASSUME IInv, NEW j \in Job, WriteFile(j) PROVE IInv'
<1> DEFINE d    == open[j][1]
           n    == open[j][2]
           full == [of |-> pkg[j], whole |-> TRUE]
<1>1. /\ at[j] = "write" /\ at' = [at EXCEPT ![j] = "extract"] /\ result' = "none"
      /\ dir' = (IF open[j] = NoFile THEN dir ELSE [dir EXCEPT ![d] = [dir[d] EXCEPT ![n] = full]])
      /\ open' = [open EXCEPT ![j] = NoFile]
      /\ UNCHANGED <<pkg, root, wiping, left, manifest, alone, asked>>
  BY DEF WriteFile, Continue
<1>2. pkg[j] \in Package /\ full \in File
  BY <1>1 DEF IInv, PhaseOf, File
<1>3. ASSUME open[j] # NoFile
      PROVE  /\ d \in Place \ Package /\ dir[d] \in Dir /\ n \in DOMAIN dir[d]
             /\ dir' = [dir EXCEPT ![d] = [dir[d] EXCEPT ![n] = full]]
  BY <1>1, <1>3 DEF IInv, TypeOK, PhaseOf
<1>4. ASSUME open[j] # NoFile
      PROVE  /\ [dir[d] EXCEPT ![n] = full] \in Dir
             /\ DOMAIN [dir[d] EXCEPT ![n] = full] = DOMAIN dir[d]
  <2> HIDE DEF d, n, full
  <2> QED
    BY <1>2, <1>3, <1>4, WrittenIsDir
<1>5. /\ at'[j] = "extract" /\ open'[j] = NoFile
      /\ \A k \in Job \ {j} : at'[k] = at[k] /\ open'[k] = open[k]
  BY <1>1 DEF IInv, TypeOK
<1>6. \A place \in Place : /\ dir'[place] \in Dir \cup {NoDir}
                           /\ dir[place] # NoDir => /\ dir'[place] # NoDir
                                                    /\ DOMAIN dir'[place] = DOMAIN dir[place]
  BY <1>1, <1>3, <1>4, DirIs DEF IInv, TypeOK
<1>7. TypeOK'
  <2>1. dir' \in [Place -> Dir \cup {NoDir}]
    BY <1>1, <1>3, <1>4 DEF IInv, TypeOK
  <2>2. at' \in [Job -> Phase] /\ open' \in [Job -> (Place \X Name) \cup {NoFile}]
    BY <1>1 DEF IInv, TypeOK, Phase
  <2>3. ASSUME NEW k \in Job, open'[k] # NoFile
        PROVE  at'[k] = "write" /\ dir'[open'[k][1]] # NoDir /\ open'[k][2] \in DOMAIN dir'[open'[k][1]]
    <3>1. k # j /\ open'[k] = open[k] /\ at'[k] = at[k]
      BY <1>5, <2>3
    <3>2. /\ at[k] = "write" /\ open[k][1] \in Place
          /\ dir[open[k][1]] # NoDir /\ open[k][2] \in DOMAIN dir[open[k][1]]
      BY <2>3, <3>1 DEF IInv, TypeOK
    <3> QED
      BY <1>6, <3>1, <3>2
  <2>4. ASSUME NEW k \in Job, wiping'[k] # NoPlace PROVE at'[k] = "unlink" /\ dir'[wiping'[k]] # NoDir
    <3>1. /\ wiping'[k] = wiping[k] /\ wiping[k] \in Place /\ at[k] = "unlink" /\ k # j
          /\ dir[wiping[k]] # NoDir
      BY <1>1, <2>4 DEF IInv, TypeOK
    <3> QED
      BY <1>5, <1>6, <3>1
  <2> QED
    BY <1>1, <2>1, <2>2, <2>3, <2>4 DEF IInv, TypeOK
<1>8. \A k \in Job : PhaseOf(k)'
  <2> SUFFICES ASSUME NEW k \in Job PROVE PhaseOf(k)'
    OBVIOUS
  <2>1. CASE k = j
    BY <1>1, <1>5, <2>1 DEF IInv, PhaseOf
  <2>2. CASE k # j
    BY <1>1, <1>5, <2>2 DEF IInv, PhaseOf
  <2> QED
    BY <2>1, <2>2
<1>9. \A k \in Job : AloneOf(k)'
  <2>1. ASSUME alone[j] PROVE StagedOf(j)'
    <3>1. PICK m \in Entries[pkg[j]] \ left[j] :
              /\ open[j] = <<Staging, m>>
              /\ dir[Staging] = [Extracted(j) EXCEPT ![m] = [of |-> pkg[j], whole |-> FALSE]]
      BY <1>1, <2>1 DEF IInv, AloneOf, StagedOf
    <3>2. d = Staging /\ n = m /\ open[j] # NoFile
      <4>1. d = Staging /\ n = m
        BY <3>1
      <4>2. m \in Name /\ Staging \in Place
        BY <1>2, PackageAssumption DEF Place
      <4> QED
        BY <3>1, <4>1, <4>2, NoneAssumption
    <3>3. dir'[Staging] = [dir[Staging] EXCEPT ![m] = full]
      BY <1>3, <3>2 DEF IInv, TypeOK, Place
    <3>4. Extracted(j) = [k \in Entries[pkg[j]] \ left[j] |-> full]
      BY DEF Extracted
    <3>5. [[Extracted(j) EXCEPT ![m] = [of |-> pkg[j], whole |-> FALSE]] EXCEPT ![m] = full] = Extracted(j)
      BY <3>4
    <3>6. dir'[Staging] = Extracted(j)
      BY <3>1, <3>3, <3>5
    <3>7. Extracted(j)' = Extracted(j)
      BY <1>1 DEF Extracted
    <3> QED
      BY <1>5, <3>6, <3>7 DEF StagedOf
  <2> QED
    BY <1>1, <1>5, <2>1, LoneKept DEF IInv, TypeOK
<1>10. \A p \in Package : Untouched(p)'
  <2>1. \A p \in Package : dir'[p] = dir[p]
    BY <1>1, <1>3 DEF IInv, TypeOK, Place
  <2> QED
    BY <2>1 DEF IInv, Untouched, Whole
<1>11. \A i \in Id : SkinOf(i)'
  <2>1. ASSUME NEW i \in Id, asked[i] # NoPackage PROVE dir'[i] = dir[i]
    <3>1. open[j] # NoFile => d # i
      BY <2>1 DEF IInv, SkinOf
    <3> QED
      BY <1>1, <1>3, <3>1 DEF IInv, TypeOK, Place
  <2>2. \A k \in Job : open'[k] # NoFile => open'[k] = open[k]
    BY <1>5
  <2> QED
    BY <1>1, <2>1, <2>2, SkinsKept
<1> QED
  BY <1>7, <1>8, <1>9, <1>10, <1>11, Zenon DEF IInv

(* Nobody has a file open in a directory a rename can replace. *)
LEMMA ReplacedIsEmpty ==
    ASSUME IInv, NEW i \in Id, dir[i] \in {NoDir, EmptyDir}, NEW k \in Job, open[k] # NoFile
    PROVE  open[k][1] # i
BY EmptyIsDir DEF IInv, TypeOK

LEMMA CommitKeeps == ASSUME IInv, NEW j \in Job, Commit(j) PROVE IInv'
<1> DEFINE i == SkinId[manifest[j]]
           r == root[j]
<1>1. /\ at[j] = "commit" /\ dir[r] # NoDir /\ dir[i] \in {NoDir, EmptyDir}
      /\ dir' = [dir EXCEPT ![i] = dir[r], ![r] = NoDir]
      /\ at' = [at EXCEPT ![j] = "idle"] /\ pkg' = [pkg EXCEPT ![j] = NoPackage]
      /\ root' = [root EXCEPT ![j] = Staging] /\ manifest' = [manifest EXCEPT ![j] = NoPackage]
      /\ result' = "ok" /\ alone' = [alone EXCEPT ![j] = FALSE] /\ UNCHANGED left
  BY DEF Commit, MayRename
<1>2. /\ open' = [k \in Job |-> IF open[k] # NoFile /\ open[k][1] = r
                                THEN <<i, open[k][2]>> ELSE open[k]]
      /\ wiping' = [k \in Job |-> IF wiping[k] = r THEN i
                                  ELSE IF wiping[k] = i THEN NoPlace ELSE wiping[k]]
      /\ asked' = [asked EXCEPT ![i] = IF alone[j] THEN pkg[j] ELSE NoPackage]
  BY DEF Commit
<1>3. manifest[j] \in Valid /\ i \in Id /\ r \in Package \cup {Staging} /\ pkg[j] \in Package
  BY <1>1, PackageAssumption DEF IInv, TypeOK, PhaseOf
<1>4. i \in Place /\ r \in Place /\ i # r /\ i \notin Package /\ r \notin Id /\ NoPlace \notin {i, r}
  BY <1>3, PlaceAssumption DEF Place
<1>5. /\ dir'[i] = dir[r] /\ dir'[r] = NoDir
      /\ \A place \in Place \ {i, r} : dir'[place] = dir[place]
  BY <1>1, <1>4 DEF IInv, TypeOK
<1>6. \A k \in Job : open[k] # NoFile => open[k] \in Place \X Name /\ open[k][1] # i
  BY <1>1, <1>3, ReplacedIsEmpty DEF IInv, TypeOK
<1>7. open[j] = NoFile /\ wiping[j] = NoPlace
  BY <1>1 DEF IInv, TypeOK
<1>8. \A k \in Job \ {j} : at'[k] = at[k] /\ pkg'[k] = pkg[k] /\ root'[k] = root[k]
                           /\ manifest'[k] = manifest[k] /\ alone'[k] = alone[k]
  BY <1>1 DEF IInv, TypeOK
<1>9. at'[j] = "idle" /\ root'[j] = Staging /\ alone'[j] = FALSE
  BY <1>1 DEF IInv, TypeOK
<1>10. TypeOK'
  <2>1. dir' \in [Place -> Dir \cup {NoDir}] /\ at' \in [Job -> Phase] /\ alone' \in [Job -> BOOLEAN]
    BY <1>1, <1>4 DEF IInv, TypeOK, Phase
  <2>2. /\ pkg' \in [Job -> Package \cup {NoPackage}] /\ root' \in [Job -> Package \cup {Staging}]
        /\ manifest' \in [Job -> Package \cup {NoPackage}]
    BY <1>1 DEF IInv, TypeOK
  <2>3. open' \in [Job -> (Place \X Name) \cup {NoFile}]
    BY <1>2, <1>4 DEF IInv, TypeOK
  <2>4. wiping' \in [Job -> Place \cup {NoPlace}] /\ asked' \in [Id -> Package \cup {NoPackage}]
    BY <1>2, <1>3, <1>4 DEF IInv, TypeOK
  <2>5. ASSUME NEW k \in Job, open'[k] # NoFile
        PROVE  at'[k] = "write" /\ dir'[open'[k][1]] # NoDir /\ open'[k][2] \in DOMAIN dir'[open'[k][1]]
    <3>1. open[k] # NoFile /\ k # j
      BY <1>2, <1>7, <2>5
    <3>2. /\ at'[k] = "write" /\ open[k] \in Place \X Name /\ open[k][1] \in Place \ {i}
          /\ dir[open[k][1]] # NoDir /\ open[k][2] \in DOMAIN dir[open[k][1]]
      BY <1>6, <1>8, <3>1 DEF IInv, TypeOK
    <3>3. CASE open[k][1] = r
      BY <1>2, <1>5, <3>1, <3>2, <3>3
    <3>4. CASE open[k][1] # r
      BY <1>2, <1>5, <3>1, <3>2, <3>4
    <3> QED
      BY <3>3, <3>4
  <2>6. ASSUME NEW k \in Job, wiping'[k] # NoPlace PROVE at'[k] = "unlink" /\ dir'[wiping'[k]] # NoDir
    <3>1. wiping[k] # NoPlace /\ wiping[k] # i /\ k # j
      BY <1>2, <1>4, <1>7, <2>6
    <3>2. at'[k] = "unlink" /\ wiping[k] \in Place /\ dir[wiping[k]] # NoDir
      BY <1>8, <3>1 DEF IInv, TypeOK
    <3> QED
      BY <1>2, <1>5, <3>1, <3>2
  <2>7. left' \in [Job -> SUBSET Name] /\ result' \in {"none", "ok", "exists", "refused", "io"}
    BY <1>1 DEF IInv, TypeOK
  <2> QED
    BY <2>1, <2>2, <2>3, <2>4, <2>5, <2>6, <2>7, Zenon DEF TypeOK
<1>11. \A k \in Job : PhaseOf(k)'
  <2> SUFFICES ASSUME NEW k \in Job PROVE PhaseOf(k)'
    OBVIOUS
  <2>1. wiping'[k] \notin Package /\ (open'[k] # NoFile => open'[k][1] \notin Package)
    BY <1>2, <1>4, PlaceAssumption DEF IInv, PhaseOf
  <2>2. CASE k = j
    BY <1>9, <2>1, <2>2 DEF PhaseOf
  <2>3. CASE k # j
    BY <1>1, <1>8, <2>1, <2>3 DEF IInv, PhaseOf
  <2> QED
    BY <2>2, <2>3
<1>12. \A k \in Job : AloneOf(k)'
  BY <1>1, <1>8, <1>9, LoneKept DEF IInv, TypeOK
<1>13. \A p \in Package : Untouched(p)'
  <2>1. \A p \in Package : dir'[p] \in {NoDir, dir[p]}
    BY <1>4, <1>5 DEF Place
  <2> QED
    BY <2>1 DEF IInv, Untouched, Whole
<1>14. \A other \in Id : SkinOf(other)'
  <2> SUFFICES ASSUME NEW other \in Id, asked'[other] # NoPackage PROVE SkinOf(other)'
    BY DEF SkinOf
  <2>1. CASE other = i
    <3>1. alone[j] /\ asked'[i] = pkg[j]
      BY <1>2, <1>3, <2>1 DEF IInv, TypeOK
    <3>2. /\ dir[r] = Whole(pkg[j]) /\ manifest[j] = pkg[j]
          /\ \A k \in Job \ {j} : open[k] = NoFile /\ wiping[k] = NoPlace
      BY <1>1, <3>1, OnlyTheLoneOneSteps DEF IInv, AloneOf, StagedOf
    <3>3. Whole(asked[other])' = Whole(pkg[j])
      BY <2>1, <3>1 DEF Whole
    <3>4. \A k \in Job : wiping'[k] # i /\ open'[k] = NoFile
      BY <1>2, <1>4, <1>7, <3>2
    <3> QED
      BY <1>3, <1>5, <2>1, <3>1, <3>2, <3>3, <3>4 DEF SkinOf
  <2>2. CASE other # i
    <3>1. asked'[other] = asked[other] /\ dir'[other] = dir[other]
      BY <1>2, <1>4, <1>5, <2>2 DEF IInv, TypeOK, Place
    <3>2. SkinOf(other) /\ other # NoPlace
      BY PlaceAssumption DEF IInv
    <3>3. \A k \in Job : wiping'[k] # other /\ (open'[k] # NoFile => open'[k][1] # other)
      BY <1>2, <2>2, <3>1, <3>2 DEF SkinOf
    <3>4. Whole(asked[other])' = Whole(asked[other])
      BY <3>1 DEF Whole
    <3> QED
      BY <3>1, <3>2, <3>3, <3>4 DEF SkinOf, Whole
  <2> QED
    BY <2>1, <2>2
<1> QED
  BY <1>10, <1>11, <1>12, <1>13, <1>14, Zenon DEF IInv

LEMMA UninstallKeeps == ASSUME IInv, NEW i \in Id, Uninstall(i) PROVE IInv'
<1>1. /\ \A j \in Job : at[j] = "idle"
      /\ dir' = [dir EXCEPT ![i] = NoDir] /\ asked' = [asked EXCEPT ![i] = NoPackage]
      /\ result' = "none" /\ UNCHANGED <<at, pkg, root, wiping, left, open, manifest, alone>>
  BY DEF Uninstall, jobVars
<1>2. \A j \in Job : open[j] = NoFile /\ wiping[j] = NoPlace /\ ~alone[j]
  BY <1>1 DEF IInv, TypeOK, AloneOf
<1>3. TypeOK'
  BY <1>1, <1>2 DEF IInv, TypeOK
<1>4. \A j \in Job : PhaseOf(j)' /\ AloneOf(j)'
  BY <1>1, <1>2 DEF IInv, PhaseOf, AloneOf
<1>5. \A p \in Package : Untouched(p)'
  BY <1>1, PlaceAssumption DEF IInv, TypeOK, Place, Untouched, Whole
<1>6. \A k \in Id : SkinOf(k)'
  <2>1. \A k \in Id : asked'[k] = (IF k = i THEN NoPackage ELSE asked[k])
    BY <1>1 DEF IInv, TypeOK
  <2>2. \A k \in Id : k # i => dir'[k] = dir[k] /\ Whole(asked[k])' = Whole(asked[k])
    BY <1>1, <2>1 DEF IInv, TypeOK, Place, Whole
  <2> QED
    BY <1>1, <2>1, <2>2 DEF IInv, SkinOf
<1> QED
  BY <1>3, <1>4, <1>5, <1>6, Zenon DEF IInv

LEMMA RefusalKeeps ==
    ASSUME IInv, NEW j \in Job, WipeNothing(j) \/ ManifestFails(j) \/ CommitFails(j) \/ BreakOff(j)
    PROVE  IInv'
<1>1. at[j] # "idle" /\ UNCHANGED <<dir, asked>> /\ (Return(j, "refused") \/ Return(j, "io"))
  BY DEF WipeNothing, ManifestFails, CommitFails, BreakOff
<1> QED
  BY <1>1, ReturnKeeps

LEMMA StepKeeps == IInv /\ [Next]_vars => IInv'
<1> SUFFICES ASSUME IInv, [Next]_vars PROVE IInv'
  OBVIOUS
<1>1. CASE UNCHANGED vars
  <2>1. /\ UNCHANGED <<dir, at, pkg, root, wiping, left, open, manifest, alone, asked, result>>
    BY <1>1 DEF vars, jobVars
  <2>2. TypeOK'
    BY <2>1 DEF IInv, TypeOK
  <2>3. \A j \in Job : PhaseOf(j)' /\ AloneOf(j)'
    <3> SUFFICES ASSUME NEW j \in Job PROVE PhaseOf(j)' /\ AloneOf(j)'
      OBVIOUS
    <3>1. Extracted(j)' = Extracted(j) /\ Whole(pkg[j])' = Whole(pkg[j])
      BY <2>1 DEF Extracted, Whole
    <3>2. StagedOf(j) => StagedOf(j)'
      BY <2>1, <3>1 DEF StagedOf
    <3> QED
      BY <2>1, <3>2 DEF IInv, PhaseOf, AloneOf
  <2>4. (\A p \in Package : Untouched(p)') /\ (\A i \in Id : SkinOf(i)')
    BY <2>1 DEF IInv, Untouched, SkinOf, Whole
  <2> QED
    BY <2>2, <2>3, <2>4 DEF IInv
<1>2. ASSUME NEW j \in Job, NEW p \in Package, InstallZip(j, p) \/ InstallDirectory(j, p) PROVE IInv'
  <2>1. CASE Begin(j, p, Staging, "check")
    BY <2>1, BeginKeeps
  <2>2. CASE Begin(j, p, p, "read")
    BY <2>2, BeginKeeps
  <2> QED
    BY <1>2, <2>1, <2>2 DEF InstallZip, InstallDirectory
<1>3. ASSUME NEW j \in Job, JobStep(j) PROVE IInv'
  BY <1>3, CheckStagingKeeps, OpenStagingKeeps, WipeFileKeeps, WipeDirKeeps, CreateStagingKeeps,
     CreateFileKeeps, WriteFileKeeps, EntriesDoneKeeps, ReadManifestKeeps, CheckLayoutKeeps,
     CheckTargetKeeps, CommitKeeps, RefusalKeeps, Zenon DEF JobStep
<1>4. ASSUME NEW j \in Job, BreakOff(j) PROVE IInv'
  BY <1>4, RefusalKeeps
<1>5. ASSUME NEW i \in Id, Uninstall(i) PROVE IInv'
  BY <1>5, UninstallKeeps
<1> QED
  BY <1>1, <1>2, <1>3, <1>4, <1>5, Zenon DEF Next

LEMMA Invariant == Spec => []IInv
BY InitHolds, StepKeeps, PTL DEF Spec

-----------------------------------------------------------------------------
(* What the properties say of one step *)

LEMMA JobStepKeepsSettled ==
    ASSUME IInv, NEW i \in Id, Settled(i), NEW j \in Job, JobStep(j)
    PROVE  dir'[i] = dir[i] /\ Settled(i)'
<1>1. /\ dir[i] # NoDir /\ dir[i] # EmptyDir
      /\ \A k \in Job : wiping[k] # i /\ (open[k] # NoFile => open[k][1] # i)
  BY DEF Settled
<1>2. i \in Place /\ i # Staging /\ i # NoPlace /\ i \notin Package
  BY PlaceAssumption DEF Place
<1> DEFINE Kept == /\ dir'[i] = dir[i]
                   /\ \A k \in Job : wiping'[k] # i /\ (open'[k] # NoFile => open'[k][1] # i)
<1>3. SUFFICES Kept
  BY <1>1 DEF Settled, EmptyDir
<1>4. ASSUME UNCHANGED <<dir, wiping, open>> PROVE Kept
  BY <1>1, <1>4
<1>5. ASSUME NEW value, Return(j, value), UNCHANGED dir PROVE Kept
  BY <1>1, <1>2, <1>5 DEF Return, IInv, TypeOK
<1>6. CASE CheckStaging(j) \/ EntriesDone(j) \/ ReadManifest(j)
  BY <1>4, <1>6 DEF CheckStaging, EntriesDone, ReadManifest
<1>7. CASE OpenStaging(j)
  BY <1>1, <1>2, <1>7 DEF OpenStaging, IInv, TypeOK
<1>8. CASE WipeFile(j)
  BY <1>1, <1>2, <1>8 DEF WipeFile, IInv, TypeOK
<1>9. CASE WipeDir(j)
  BY <1>1, <1>2, <1>9 DEF WipeDir, IInv, TypeOK
<1>10. CASE WipeNothing(j) \/ ManifestFails(j) \/ CommitFails(j)
  BY <1>5, <1>10 DEF WipeNothing, ManifestFails, CommitFails
<1>11. CASE CreateStaging(j)
  BY <1>1, <1>2, <1>11 DEF CreateStaging, IInv, TypeOK
<1>12. ASSUME NEW n \in Name, CreateFile(j, n) PROVE Kept
  BY <1>1, <1>2, <1>12 DEF CreateFile, IInv, TypeOK
<1>13. CASE WriteFile(j)
  BY <1>1, <1>2, <1>13 DEF WriteFile, IInv, TypeOK
<1>14. CASE CheckLayout(j)
  BY <1>4, <1>5, <1>14 DEF CheckLayout
<1>15. CASE CheckTarget(j)
  BY <1>4, <1>5, <1>15 DEF CheckTarget
<1>16. CASE Commit(j)
  <2> DEFINE to == SkinId[manifest[j]]
  <2>1. /\ at[j] = "commit" /\ dir[to] \in {NoDir, EmptyDir}
        /\ dir' = [dir EXCEPT ![to] = dir[root[j]], ![root[j]] = NoDir]
        /\ open' = [k \in Job |-> IF open[k] # NoFile /\ open[k][1] = root[j]
                                  THEN <<to, open[k][2]>> ELSE open[k]]
        /\ wiping' = [k \in Job |-> IF wiping[k] = root[j] THEN to
                                    ELSE IF wiping[k] = to THEN NoPlace ELSE wiping[k]]
    BY <1>16 DEF Commit, MayRename
  <2>2. i # to /\ i # root[j]
    BY <1>1, <1>2, <2>1 DEF IInv, TypeOK
  <2> QED
    BY <1>1, <1>2, <2>1, <2>2 DEF IInv, TypeOK
<1> QED
  BY <1>6, <1>7, <1>8, <1>9, <1>10, <1>11, <1>12, <1>13, <1>14, <1>15, <1>16, Zenon DEF JobStep

LEMMA StepKeepsSettled ==
    ASSUME IInv, [Next]_vars, NEW i \in Id, Settled(i)
    PROVE  Uninstall(i) \/ (dir'[i] = dir[i] /\ Settled(i)')
<1>1. ASSUME UNCHANGED <<dir, wiping, open>> PROVE dir'[i] = dir[i] /\ Settled(i)'
  BY <1>1 DEF Settled, EmptyDir
<1>2. CASE UNCHANGED vars
  BY <1>1, <1>2 DEF vars, jobVars
<1>3. ASSUME NEW j \in Job, NEW p \in Package, InstallZip(j, p) \/ InstallDirectory(j, p)
      PROVE  dir'[i] = dir[i] /\ Settled(i)'
  BY <1>1, <1>3 DEF InstallZip, InstallDirectory, Begin
<1>4. ASSUME NEW j \in Job, BreakOff(j) PROVE dir'[i] = dir[i] /\ Settled(i)'
  BY <1>4, PlaceAssumption DEF BreakOff, Return, Settled, EmptyDir, IInv, TypeOK
<1>5. ASSUME NEW other \in Id, other # i, Uninstall(other) PROVE dir'[i] = dir[i] /\ Settled(i)'
  BY <1>5 DEF Uninstall, jobVars, Settled, EmptyDir, IInv, TypeOK
<1> QED
  BY <1>2, <1>3, <1>4, <1>5, JobStepKeepsSettled, Zenon DEF Next

(* A lone install of a valid package from a directory whose path walk_package
   takes is not refused. *)
LEMMA LoneIsNotRefused ==
    ASSUME IInv, NEW j \in Job, alone[j], pkg[j] \in Valid, dir[root[j]] # NoDir, root[j] \notin Refusing,
           JobStep(j) \/ BreakOff(j), at'[j] = "idle"
    PROVE  result' # "refused"
<1>1. at[j] # "idle" /\ PhaseOf(j) /\ StagedOf(j) /\ pkg[j] \in Package
  BY PackageAssumption DEF IInv, AloneOf
<1>2. Manifest \in Entries[pkg[j]]
  BY PackageAssumption
<1>3. ASSUME NEW phase \in Phase, phase # "idle", at' = [at EXCEPT ![j] = phase] PROVE FALSE
  BY <1>3 DEF IInv, TypeOK
<1>4. CASE CheckStaging(j) \/ OpenStaging(j) \/ WipeDir(j) \/ CreateStaging(j) \/ WriteFile(j)
           \/ EntriesDone(j) \/ ReadManifest(j)
  BY <1>3, <1>4 DEF CheckStaging, OpenStaging, WipeDir, CreateStaging, WriteFile, EntriesDone,
     ReadManifest, Continue, Phase
<1>5. ASSUME NEW n \in Name, CreateFile(j, n) PROVE FALSE
  BY <1>3, <1>5 DEF CreateFile, Continue, Phase
<1>6. CASE WipeFile(j)
  BY <1>6 DEF WipeFile
<1>7. ~WipeNothing(j)
  BY <1>1 DEF WipeNothing, PhaseOf
<1>8. ~ManifestFails(j)
  <2> SUFFICES ASSUME at[j] = "read" PROVE HasManifest(dir[root[j]]) /\ dir[root[j]][Manifest].whole
    BY DEF ManifestFails
  <2>1. dir[root[j]] = Whole(pkg[j])
    BY LoneRoot
  <2>2. /\ DOMAIN Whole(pkg[j]) = Entries[pkg[j]]
        /\ Whole(pkg[j])[Manifest] = [of |-> pkg[j], whole |-> TRUE]
    BY <1>1, <1>2, WholeIsDir
  <2>3. Manifest \in DOMAIN dir[root[j]] /\ dir[root[j]][Manifest] = [of |-> pkg[j], whole |-> TRUE]
    BY <1>2, <2>1, <2>2, Zenon
  <2> QED
    BY <2>3 DEF HasManifest
<1>9. CASE CheckLayout(j)
  BY <1>3, <1>9 DEF CheckLayout, LayoutRefused, Phase
<1>10. CASE CheckTarget(j)
  <2>1. manifest[j] = pkg[j]
    BY <1>1, <1>10 DEF CheckTarget, StagedOf
  <2> QED
    BY <1>3, <1>10, <2>1 DEF CheckTarget, Return, Phase
<1>11. CASE Commit(j)
  BY <1>11 DEF Commit
<1>12. ~CommitFails(j)
  BY <1>1 DEF CommitFails, MayRename, StagedOf
<1>13. CASE BreakOff(j)
  BY <1>13 DEF BreakOff, Return
<1> QED
  BY <1>4, <1>5, <1>6, <1>7, <1>8, <1>9, <1>10, <1>11, <1>12, <1>13, Zenon DEF JobStep

-----------------------------------------------------------------------------
(* The theorems *)

(* The directories, and what every install has in hand of them, stay of their
   types: a file that is open is in a directory that is there, under whatever
   name a rename has given it. *)
THEOREM TypeCorrect == Spec => []TypeOK
BY Invariant, PTL DEF IInv

(* install_zip and commit_install: whatever earlier installs, broken off
   anywhere, have left in the staging directory, and whatever later ones do
   there, a skin made by an install that ran alone is the package asked for. *)
THEOREM LoneInstallIsAsAsked == Spec => []InstalledAsAsked
<1>1. IInv => InstalledAsAsked
  BY DEF IInv, SkinOf, InstalledAsAsked
<1> QED
  BY <1>1, Invariant, PTL

(* commit_install: however installs overlap, none of their steps changes a
   skin that is installed and of which no other install has anything open. *)
THEOREM SettledSkinsAreKept == Spec => InstalledIsKept
<1>1. ASSUME IInv, [Next]_vars
      PROVE  [\A i \in Id : Settled(i) => Uninstall(i) \/ (dir'[i] = dir[i] /\ Settled(i)')]_vars
  BY <1>1, StepKeepsSettled
<1> QED
  BY <1>1, Invariant, PTL DEF Spec, InstalledIsKept

(* install_zip and install_directory: nothing that earlier installs left behind
   makes an install fail that is alone and whose path walk_package takes, which is
   one that is relative and has no `..` in it. *)
THEOREM LeftoversDoNotHinder == Spec => LeftoversAreHarmless
<1>1. ASSUME IInv, Next, NEW j \in Job, root[j] \notin Refusing PROVE EndsInstalled(j)
  <2> SUFFICES ASSUME at[j] # "idle", at'[j] = "idle", alone[j], pkg[j] \in Valid, dir[root[j]] # NoDir
               PROVE  result' # "refused"
    BY DEF EndsInstalled
  <2>1. \A k \in Job \ {j} : at[k] = "idle" /\ open[k] = NoFile /\ wiping[k] = NoPlace
    BY <1>1, OnlyTheLoneOneSteps
  <2>2. ASSUME NEW k \in Job, k # j, JobStep(k) \/ BreakOff(k) PROVE FALSE
    <3>1. at[k] = "idle" /\ wiping[k] = NoPlace
      BY <2>1, <2>2
    <3> QED
      BY <2>2, <3>1 DEF JobStep, BreakOff, CheckStaging, OpenStaging, WipeFile, WipeDir, WipeNothing,
         CreateStaging, CreateFile, WriteFile, EntriesDone, ReadManifest, ManifestFails, CheckLayout,
         CheckTarget, Commit, CommitFails, Continue
  <2>3. ASSUME NEW k \in Job, NEW p \in Package, InstallZip(k, p) \/ InstallDirectory(k, p) PROVE FALSE
    <3>1. at[k] = "idle" /\ at'[j] = at[j]
      BY <1>1, <2>3 DEF InstallZip, InstallDirectory, Begin, IInv, TypeOK
    <3> QED
      BY <3>1
  <2>4. ASSUME NEW i \in Id, Uninstall(i) PROVE FALSE
    BY <2>4 DEF Uninstall
  <2>5. CASE JobStep(j) \/ BreakOff(j)
    BY <1>1, <2>5, LoneIsNotRefused
  <2> QED
    BY <1>1, <2>2, <2>3, <2>4, <2>5, Zenon DEF Next
<1>2. ASSUME IInv, [Next]_vars PROVE [\A j \in Job : root[j] \notin Refusing => EndsInstalled(j)]_vars
  BY <1>1, <1>2
<1> QED
  BY <1>2, Invariant, PTL DEF Spec, LeftoversAreHarmless

-----------------------------------------------------------------------------
(* The least of some numbers, and the greatest. *)
LEMMA LeastOfNaturals ==
    ASSUME NEW T \in SUBSET Nat, T # {}
    PROVE  \E x \in T : \A y \in T : x <= y
<1>1. \E x \in T : \A y \in T : ~ (<<y, x>> \in OpToRel(<, Nat))
  BY NatLessThanWellFounded, WFMin
<1>2. PICK x \in T : \A y \in T : ~ (<<y, x>> \in OpToRel(<, Nat))
  BY <1>1
<1>3. ASSUME NEW y \in T PROVE x <= y
  <2>1. <<y, x>> \in Nat \X Nat
    OBVIOUS
  <2>2. ~(y < x)
    BY <1>2, <2>1 DEF OpToRel
  <2> QED
    BY <2>2
<1> QED
  BY <1>3

LEMMA GreatestUpTo ==
    ASSUME NEW n \in Nat, NEW T \in SUBSET (1 .. n), T # {}
    PROVE  \E x \in T : \A y \in T : y <= x
<1> DEFINE U == {n - i : i \in T}
<1>1. U \in SUBSET Nat /\ U # {}
  <2>1. \A i \in T : i \in 1 .. n /\ n - i \in Nat
    OBVIOUS
  <2> QED
    BY <2>1
<1>2. PICK u \in U : \A w \in U : u <= w
  BY <1>1, LeastOfNaturals
<1>3. PICK x \in T : u = n - x
  OBVIOUS
<1>4. ASSUME NEW y \in T PROVE y <= x
  <2>1. n - y \in U
    OBVIOUS
  <2>2. n - x <= n - y
    BY <1>2, <1>3, <2>1
  <2> QED
    BY <2>2
<1> QED
  BY <1>4

(* A function that is defined from its later values exists: where each place either
   has a value of its own or takes it from a later place. *)
TakesLater(n, D, more, next, base, step) ==
    /\ n \in Nat /\ more \in SUBSET (1 .. n)
    /\ next \in [more -> 1 .. n + 1] /\ \A i \in more : i < next[i]
    /\ base \in [1 .. n + 1 -> D] /\ step \in [more -> [D -> D]]
LEMMA LaterFirst ==
    ASSUME NEW n, NEW D, NEW more, NEW next, NEW base, NEW step, TakesLater(n, D, more, next, base, step)
    PROVE  \E g \in [1 .. n + 1 -> D] :
              \A i \in 1 .. n + 1 : g[i] = IF i \in more THEN step[i][g[next[i]]] ELSE base[i]
<1> USE DEF TakesLater
<1> DEFINE Is(g, m) == /\ g \in [m .. n + 1 -> D]
                       /\ \A i \in m .. n + 1 : g[i] = IF i \in more THEN step[i][g[next[i]]] ELSE base[i]
           Bad == {m \in 1 .. n + 1 : \A g : ~Is(g, m)}
<1>1. Is([i \in n + 1 .. n + 1 |-> base[i]], n + 1)
  <2>1. \A i \in n + 1 .. n + 1 : i = n + 1 /\ i \notin more /\ i \in 1 .. n + 1
    OBVIOUS
  <2> QED
    BY <2>1
<1>2. ASSUME NEW m \in 1 .. n, NEW g, Is(g, m + 1)
      PROVE  \E f : Is(f, m)
  <2> DEFINE value == IF m \in more THEN step[m][g[next[m]]] ELSE base[m]
             f == [i \in m .. n + 1 |-> IF i = m THEN value ELSE g[i]]
  <2>1. value \in D
    <3>1. CASE m \in more
      <4>1. next[m] \in m + 1 .. n + 1
        BY <3>1
      <4>2. g[next[m]] \in D
        BY <1>2, <4>1
      <4>3. step[m] \in [D -> D]
        BY <3>1
      <4> QED
        BY <3>1, <4>2, <4>3
    <3>2. CASE m \notin more
      BY <3>2
    <3> QED
      BY <3>1, <3>2
  <2>2. \A i \in m + 1 .. n + 1 : i # m /\ i \in m .. n + 1 /\ g[i] \in D
    BY <1>2
  <2>3. \A i \in m .. n + 1 : i = m \/ i \in m + 1 .. n + 1
    OBVIOUS
  <2> HIDE DEF value
  <2>4. f[m] = value /\ \A i \in m + 1 .. n + 1 : f[i] = g[i]
    BY <2>2
  <2>5. f \in [m .. n + 1 -> D]
    BY <2>1, <2>2, <2>3
  <2> HIDE DEF f
  <2>6. ASSUME NEW i \in m .. n + 1
        PROVE  f[i] = IF i \in more THEN step[i][f[next[i]]] ELSE base[i]
    <3>1. i \in more => next[i] \in m + 1 .. n + 1
      <4> SUFFICES ASSUME i \in more PROVE next[i] \in m + 1 .. n + 1
        OBVIOUS
      <4>1. next[i] \in 1 .. n + 1 /\ i < next[i]
        OBVIOUS
      <4> QED
        BY <4>1
    <3>2. i \in more => f[next[i]] = g[next[i]]
      BY <2>4, <3>1
    <3>3. CASE i = m
      BY <2>4, <3>2, <3>3 DEF value
    <3>4. CASE i \in m + 1 .. n + 1
      BY <1>2, <2>4, <3>2, <3>4
    <3> QED
      BY <2>3, <3>3, <3>4
  <2> QED
    BY <2>5, <2>6
<1> HIDE DEF Is
<1>3. Bad = {}
  <2> SUFFICES ASSUME Bad # {} PROVE FALSE
    OBVIOUS
  <2>1. n + 1 \in Nat /\ Bad \in SUBSET (1 .. n + 1)
    OBVIOUS
  <2> HIDE DEF Bad
  <2>2. PICK m \in Bad : \A k \in Bad : k <= m
    BY <2>1, GreatestUpTo
  <2>3. m # n + 1
    BY <1>1, <2>2, Zenon DEF Bad
  <2>4. m \in 1 .. n /\ m + 1 \in 1 .. n + 1 /\ ~(m + 1 <= m)
    BY <2>1, <2>2, <2>3
  <2>5. m + 1 \notin Bad
    BY <2>2, <2>4
  <2>6. \E g : Is(g, m + 1)
    BY <2>4, <2>5, Zenon DEF Bad
  <2>7. PICK g : Is(g, m + 1)
    BY <2>6
  <2>8. \E f : Is(f, m)
    BY <1>2, <2>4, <2>7
  <2> QED
    BY <2>2, <2>8, Zenon DEF Bad
<1>4. PICK g : Is(g, 1)
  <2>1. 1 \in 1 .. n + 1
    OBVIOUS
  <2>2. 1 \notin Bad
    BY <1>3
  <2> QED
    BY <2>1, <2>2, Zenon
<1> QED
  BY <1>4 DEF Is

(* The texts that are joined, from each of them on. *)
JoinedFrom(g, S, texts, rest) ==
    /\ g \in [1 .. Len(texts) + 1 -> Seq(S)]
    /\ g[Len(texts) + 1] = rest /\ Joined(texts, rest) = g[1]
    /\ \A i \in 1 .. Len(texts) : g[i] = texts[i] \o g[i + 1]
LEMMA JoinedIs ==
    ASSUME NEW S, NEW texts \in Seq(Seq(S)), NEW rest \in Seq(S)
    PROVE  \E g : JoinedFrom(g, S, texts, rest)
<1> DEFINE n == Len(texts)
           D == Seq(S)
           Eq(f) == f = [i \in 1 .. n + 1 |-> IF i = n + 1 THEN rest ELSE texts[i] \o f[i + 1]]
<1>1. n \in Nat /\ \A i \in 1 .. n : texts[i] \in D
  OBVIOUS
<1>2. \A i \in 1 .. n : \A s \in D : texts[i] \o s \in D
  OBVIOUS
<1>3. rest \in D
  OBVIOUS
<1> HIDE DEF n, D
<1>4. \E f : Eq(f)
  <2> DEFINE more == 1 .. n
             next == [i \in more |-> i + 1]
             base == [i \in 1 .. n + 1 |-> rest]
             step == [i \in more |-> [s \in D |-> texts[i] \o s]]
  <2>1. more \in SUBSET (1 .. n) /\ next \in [more -> 1 .. n + 1] /\ (\A i \in more : i < next[i])
    BY <1>1
  <2>2. base \in [1 .. n + 1 -> D] /\ step \in [more -> [D -> D]]
    BY <1>2, <1>3
  <2>3. \A i \in 1 .. n + 1 : (i = n + 1) = (i \notin more)
    BY <1>1
  <2>4. \A i \in more : next[i] = i + 1 /\ i + 1 \in 1 .. n + 1 /\ \A s \in D : step[i][s] = texts[i] \o s
    BY <1>1
  <2>5. \A i \in 1 .. n + 1 : base[i] = rest
    OBVIOUS
  <2> HIDE DEF more, next, base, step
  <2>6. \E g \in [1 .. n + 1 -> D] :
           \A i \in 1 .. n + 1 : g[i] = IF i \in more THEN step[i][g[next[i]]] ELSE base[i]
    <3>1. TakesLater(n, D, more, next, base, step)
      BY <1>1, <2>1, <2>2 DEF TakesLater
    <3> QED
      BY <3>1, LaterFirst
  <2>9. PICK g \in [1 .. n + 1 -> D] :
           \A i \in 1 .. n + 1 : g[i] = IF i \in more THEN step[i][g[next[i]]] ELSE base[i]
    BY <2>6
  <2>7. ASSUME NEW i \in 1 .. n + 1 PROVE g[i] = IF i = n + 1 THEN rest ELSE texts[i] \o g[i + 1]
    <3>1. CASE i = n + 1
      BY <2>3, <2>5, <2>9, <3>1
    <3>2. CASE i # n + 1
      <4>1. i \in more /\ g[i] = step[i][g[next[i]]]
        BY <2>3, <2>9, <3>2
      <4>2. next[i] = i + 1 /\ g[i + 1] \in D
        BY <2>4, <4>1
      <4> QED
        BY <2>4, <3>2, <4>1, <4>2
    <3> QED
      BY <3>1, <3>2
  <2>8. Eq(g)
    BY <2>7, <2>9
  <2> QED
    BY <2>8
<1> DEFINE g == CHOOSE f : Eq(f)
<1>5. Eq(g)
  BY <1>4
<1>6. Joined(texts, rest) = g[1]
  BY DEF Joined, n
<1> HIDE DEF g
<1>7. /\ DOMAIN g = 1 .. n + 1 /\ g = [i \in 1 .. n + 1 |-> g[i]]
      /\ g[n + 1] = rest /\ \A i \in 1 .. n : g[i] = texts[i] \o g[i + 1]
  <2>1. DOMAIN g = 1 .. n + 1 /\ \A i \in 1 .. n + 1 : g[i] = IF i = n + 1 THEN rest ELSE texts[i] \o g[i + 1]
    BY <1>5, Zenon
  <2>2. g = [i \in 1 .. n + 1 |-> g[i]]
    BY <1>5, <2>1
  <2>3. n + 1 \in 1 .. n + 1 /\ \A i \in 1 .. n : i \in 1 .. n + 1 /\ i # n + 1
    BY <1>1
  <2> QED
    BY <2>1, <2>2, <2>3, Zenon
<1>8. \A i \in 1 .. n + 1 : g[i] \in D
  <2> DEFINE Bad == {i \in 1 .. n + 1 : g[i] \notin D}
  <2> SUFFICES ASSUME Bad # {} PROVE FALSE
    OBVIOUS
  <2>1. n + 1 \in Nat /\ Bad \in SUBSET (1 .. n + 1)
    BY <1>1
  <2>2. PICK i \in Bad : \A k \in Bad : k <= i
    <3> HIDE DEF Bad
    <3> QED
      BY <2>1, GreatestUpTo
  <2>3. i \in 1 .. n /\ i + 1 \in 1 .. n + 1 /\ ~(i + 1 <= i)
    BY <1>1, <1>3, <1>7, <2>2
  <2>4. g[i + 1] \in D
    BY <2>2, <2>3
  <2>5. g[i] \in D
    BY <1>2, <1>7, <2>3, <2>4
  <2> QED
    BY <2>2, <2>5
<1>9. g \in [1 .. n + 1 -> D]
  BY <1>7, <1>8
<1> QED
  BY <1>6, <1>7, <1>9 DEF n, D, JoinedFrom

-----------------------------------------------------------------------------
(* A text that another one holds from a place on. *)
Holds(T, p, s) ==
    /\ p \in Nat \ {0} /\ p - 1 + Len(s) <= Len(T)
    /\ \A k \in 1 .. Len(s) : T[p - 1 + k] = s[k]

LEMMA HeldIsSubSeq ==
    ASSUME NEW S, NEW T \in Seq(S), NEW s \in Seq(S), NEW p, Holds(T, p, s)
    PROVE  SubSeq(T, p, p + Len(s) - 1) = s
<1> DEFINE u == SubSeq(T, p, p + Len(s) - 1)
<1>1. Len(s) \in Nat /\ Len(T) \in Nat /\ p \in Nat \ {0} /\ p - 1 + Len(s) <= Len(T)
  BY DEF Holds
<1>2. \A k \in 1 .. Len(s) : p - 1 + k \in 1 .. Len(T) /\ T[p - 1 + k] = s[k]
  BY <1>1 DEF Holds
<1>3. u \in Seq(S) /\ Len(u) = Len(s) /\ \A k \in 1 .. Len(s) : u[k] = T[p - 1 + k]
  BY <1>1
<1> HIDE DEF u
<1>4. u = s
  BY <1>2, <1>3, SeqEqual
<1> QED
  BY <1>4 DEF u

LEMMA HeldParts ==
    ASSUME NEW S, NEW T \in Seq(S), NEW a \in Seq(S), NEW b \in Seq(S), NEW p, Holds(T, p, a \o b)
    PROVE  Holds(T, p, a) /\ Holds(T, p + Len(a), b)
<1>1. /\ Len(a) \in Nat /\ Len(b) \in Nat /\ Len(a \o b) = Len(a) + Len(b) /\ Len(T) \in Nat
      /\ p \in Nat \ {0} /\ p - 1 + Len(a \o b) <= Len(T)
  BY DEF Holds
<1>2. \A k \in 1 .. Len(a) : T[p - 1 + k] = a[k]
  <2> SUFFICES ASSUME NEW k \in 1 .. Len(a) PROVE T[p - 1 + k] = a[k]
    OBVIOUS
  <2>1. k \in 1 .. Len(a \o b) /\ (a \o b)[k] = a[k]
    BY <1>1
  <2> QED
    BY <2>1 DEF Holds
<1>3. \A k \in 1 .. Len(b) : T[p + Len(a) - 1 + k] = b[k]
  <2> SUFFICES ASSUME NEW k \in 1 .. Len(b) PROVE T[p + Len(a) - 1 + k] = b[k]
    OBVIOUS
  <2>1. Len(a) + k \in 1 .. Len(a \o b) /\ (a \o b)[Len(a) + k] = b[k]
    BY <1>1
  <2>2. T[p - 1 + (Len(a) + k)] = b[k]
    BY <2>1 DEF Holds
  <2>3. p - 1 + (Len(a) + k) = p + Len(a) - 1 + k
    BY <1>1
  <2> QED
    BY <2>2, <2>3
<1> QED
  BY <1>1, <1>2, <1>3 DEF Holds

LEMMA BracesDiffer == Space # Opening /\ Space # Closing /\ Opening # Closing
BY Zenon DEF Space, Opening, Closing

(* What is between spaces is what trim leaves. *)
LEMMA TrimmedKey ==
    ASSUME NEW S, Space \in S, NEW l \in Seq({Space}), NEW r \in Seq({Space}), NEW k \in Seq(S),
           k # <<>> => k[1] # Space /\ k[Len(k)] # Space
    PROVE  Trim(l \o k \o r) = k
<1> DEFINE s == l \o k \o r
           words == {i \in DOMAIN s : s[i] # Space}
           from == CHOOSE i \in words : \A j \in words : i <= j
           to == CHOOSE i \in words : \A j \in words : j <= i
           n == Len(l)
           m == Len(k)
<1>1. l \in Seq(S) /\ r \in Seq(S) /\ \A i \in 1 .. Len(l) : l[i] = Space
  OBVIOUS
<1>2. n \in Nat /\ m \in Nat /\ Len(r) \in Nat /\ \A i \in 1 .. Len(r) : r[i] = Space
  OBVIOUS
<1>3. l \o k \in Seq(S) /\ Len(l \o k) = n + m
  BY <1>1
<1>4. s \in Seq(S) /\ Len(s) = n + m + Len(r)
  BY <1>1, <1>3
<1>5. \A i \in 1 .. n : s[i] = Space
  BY <1>1, <1>2, <1>3
<1>6. \A i \in 1 .. m : s[n + i] = k[i]
  BY <1>1, <1>2, <1>3
<1>7. \A i \in 1 .. Len(r) : s[n + m + i] = Space
  BY <1>1, <1>2, <1>3
<1> HIDE DEF s, n
<1>8. \A i \in words : i \in n + 1 .. n + m
  <2> SUFFICES ASSUME NEW i \in words PROVE i \in n + 1 .. n + m
    OBVIOUS
  <2>1. i \in 1 .. n + m + Len(r) /\ s[i] # Space
    BY <1>4
  <2>2. i \notin 1 .. n
    BY <1>5, <2>1
  <2>3. ~(i > n + m)
    <3> SUFFICES ASSUME i > n + m PROVE FALSE
      OBVIOUS
    <3>1. i - (n + m) \in 1 .. Len(r) /\ n + m + (i - (n + m)) = i
      BY <1>2, <2>1
    <3> QED
      BY <1>7, <2>1, <3>1
  <2> QED
    BY <1>2, <2>1, <2>2, <2>3
<1>9. CASE k = <<>>
  <2>1. words = {}
    BY <1>2, <1>8, <1>9
  <2>2. Trim(s) = <<>>
    BY <2>1 DEF Trim
  <2> QED
    BY <1>9, <2>2 DEF s
<1>10. CASE k # <<>>
  <2>1. m \in Nat \ {0} /\ 1 \in 1 .. m /\ m \in 1 .. m
    BY <1>10
  <2>2. s[n + 1] # Space /\ s[n + m] # Space
    BY <1>6, <1>10, <2>1
  <2>3. n + 1 \in words /\ n + m \in words
    BY <1>2, <1>4, <2>1, <2>2
  <2>4. \A i \in words : n + 1 <= i /\ i <= n + m /\ i \in Int
    BY <1>2, <1>8
  <2> HIDE DEF words, m
  <2>5. from = n + 1
    <3>1. from \in words /\ \A j \in words : from <= j
      BY <2>3, <2>4
    <3> HIDE DEF from
    <3> QED
      BY <1>2, <2>3, <2>4, <3>1
  <2>6. to = n + m
    <3>1. to \in words /\ \A j \in words : j <= to
      BY <2>3, <2>4
    <3> HIDE DEF to
    <3> QED
      BY <1>2, <2>3, <2>4, <3>1
  <2>7. Trim(s) = SubSeq(s, from, to)
    BY <2>3 DEF Trim, words
  <2>8. SubSeq(s, n + 1, n + 1 + Len(k) - 1) = k
    <3>1. \A i \in 1 .. Len(k) : s[(n + 1) - 1 + i] = k[i]
      BY <1>2, <1>6 DEF m
    <3>2. Holds(s, n + 1, k)
      BY <1>2, <1>4, <3>1 DEF Holds, m
    <3> QED
      BY <1>4, <3>2, HeldIsSubSeq
  <2>9. n + 1 + Len(k) - 1 = n + m
    BY <1>2 DEF m
  <2>10. Trim(s) = k
    BY <2>5, <2>6, <2>7, <2>8, <2>9
  <2> QED
    BY <2>10 DEF s
<1> QED
  BY <1>9, <1>10

LEMMA NeitherHas ==
    ASSUME NEW S, NEW a \in Seq(S), NEW b \in Seq(S), NEW x,
           \A i \in 1 .. Len(a) : a[i] # x, \A i \in 1 .. Len(b) : b[i] # x
    PROVE  \A i \in 1 .. Len(a \o b) : (a \o b)[i] # x
<1>1. Len(a) \in Nat /\ Len(b) \in Nat /\ Len(a \o b) = Len(a) + Len(b)
  OBVIOUS
<1>2. ASSUME NEW i \in 1 .. Len(a \o b) PROVE (a \o b)[i] # x
  <2>1. CASE i <= Len(a)
    BY <1>1, <2>1
  <2>2. CASE ~(i <= Len(a))
    <3>1. i - Len(a) \in 1 .. Len(b) /\ (a \o b)[i] = b[i - Len(a)]
      BY <1>1, <2>2
    <3> QED
      BY <3>1
  <2> QED
    BY <2>1, <2>2
<1> QED
  BY <1>2

(* What a part of a template is made of. *)
LEMMA PartIsText ==
    ASSUME NEW p, IsPart(p)
    PROVE  /\ p.text \in Seq(Token) /\ Body(p) \in Seq(Token) /\ Placeholder(p) \in Seq(Token)
           /\ <<Opening>> \in Seq(Token) /\ <<Closing>> \in Seq(Token)
           /\ \A i \in 1 .. Len(Body(p)) : Body(p)[i] # Closing
           /\ Trim(Body(p)) = p.key
<1> DEFINE l == p.left
           k == p.key
           r == p.right
           b == l \o k \o r
<1>1. /\ p.text \in Seq(Token) /\ l \in Seq({Space}) /\ r \in Seq({Space}) /\ k \in Seq(Token)
      /\ \A i \in DOMAIN k : k[i] # Closing
      /\ k # <<>> => k[1] # Space /\ k[Len(k)] # Space
  BY DEF IsPart
<1>2. Body(p) = b
  BY DEF Body
<1>3. Space \in Token /\ Opening \in Token /\ Closing \in Token
  BY TokenAssumption
<1> HIDE DEF l, k, r
<1>4. Trim(b) = k
  BY <1>1, <1>3, TrimmedKey
<1>5. l \in Seq(Token) /\ r \in Seq(Token)
  BY <1>1, <1>3
<1>6. l \o k \in Seq(Token) /\ b \in Seq(Token)
  BY <1>1, <1>5
<1>7. \A i \in 1 .. Len(b) : b[i] # Closing
  <2> DEFINE brace == Closing
  <2>1. Space # brace /\ \A i \in 1 .. Len(k) : k[i] # brace
    BY <1>1, BracesDiffer
  <2> HIDE DEF brace
  <2>2. \A i \in 1 .. Len(l) : l[i] # brace
    BY <1>1, <2>1
  <2>3. \A i \in 1 .. Len(r) : r[i] # brace
    BY <1>1, <2>1
  <2>4. \A i \in 1 .. Len(l \o k) : (l \o k)[i] # brace
    BY <1>1, <1>5, <2>1, <2>2, NeitherHas
  <2>5. l \o k \in Seq(Token)
    BY <1>6
  <2> DEFINE u == l \o k
  <2> HIDE DEF u
  <2>7. \A i \in 1 .. Len(u \o r) : (u \o r)[i] # brace
    BY <1>5, <2>3, <2>4, <2>5, NeitherHas DEF u
  <2>6. \A i \in 1 .. Len(b) : b[i] # brace
    BY <2>7 DEF u
  <2> QED
    BY <2>6 DEF brace
<1>8. <<Opening>> \in Seq(Token) /\ <<Closing>> \in Seq(Token)
  BY <1>3
<1>9. Placeholder(p) \in Seq(Token)
  <2> DEFINE a == <<Opening>>
             c == <<Closing>>
  <2>1. a \in Seq(Token) /\ c \in Seq(Token) /\ Placeholder(p) = a \o b \o c
    BY <1>2, <1>8 DEF Placeholder
  <2> HIDE DEF a, c, b
  <2>2. a \o b \in Seq(Token)
    BY <1>6, <2>1
  <2>3. a \o b \o c \in Seq(Token)
    BY <2>1, <2>2
  <2> QED
    BY <2>1, <2>3
<1> QED
  BY <1>1, <1>2, <1>4, <1>6, <1>7, <1>8, <1>9 DEF k

(* The placeholder of a part is the first from its beginning on. *)
LEMMA PartIsFound ==
    ASSUME NEW T \in Seq(Token), NEW p, IsPart(p), NEW q, Holds(T, q, p.text \o Placeholder(p))
    PROVE  \E o, c \in q .. Len(T) :
              /\ o < c /\ Placeholders(T, q) = {<<o, c>>} /\ SubSeq(T, q, o - 1) = p.text
              /\ Substituted(T, Values, <<o, c>>) = (IF p.key \in DOMAIN Values THEN Values[p.key] ELSE Placeholder(p))
              /\ c + 1 = q + Len(p.text \o Placeholder(p))
<1> DEFINE t == p.text
           b == Body(p)
           ph == Placeholder(p)
           l == <<Opening>>
           r == <<Closing>>
           o == q + Len(t)
           c == o + 1 + Len(b)
<1>1. /\ t \in Seq(Token) /\ b \in Seq(Token) /\ ph \in Seq(Token) /\ l \in Seq(Token) /\ r \in Seq(Token)
      /\ Len(l) = 1 /\ Len(r) = 1 /\ l[1] = Opening /\ r[1] = Closing
      /\ ph = l \o b \o r /\ \A i \in 1 .. Len(b) : b[i] # Closing
  BY PartIsText DEF Placeholder
<1>2. \A i \in 1 .. Len(t) : t[i] # Opening
  <2>1. \A i \in DOMAIN t : t[i] # Opening
    BY DEF IsPart
  <2> HIDE DEF t
  <2> QED
    BY <1>1, <2>1
<1>3. Trim(b) = p.key
  BY PartIsText
<1>20. Holds(T, q, t \o ph)
  OBVIOUS
<1> HIDE DEF t, b, ph, l, r
<1>4. Holds(T, q, t) /\ Holds(T, o, ph)
  <2>1. Holds(T, q, t) /\ Holds(T, q + Len(t), ph)
    BY <1>1, <1>20, HeldParts
  <2> QED
    BY <2>1
<1>9. o = q + Len(t) /\ c = o + 1 + Len(b)
  OBVIOUS
<1>22. Len(t) \in Nat /\ Len(b) \in Nat /\ Len(T) \in Nat /\ Len(ph) \in Nat /\ q \in Nat \ {0}
  BY <1>1, <1>20 DEF Holds
<1>23. /\ q <= o /\ o < c /\ o + (1 + Len(b)) = c /\ o + 1 + Len(b) - 1 = c - 1 /\ o + (Len(b) + 2) - 1 = c
       /\ c + 1 = q + (Len(t) + (Len(b) + 2))
  BY <1>22
<1>24. o \in Nat \ {0} /\ c \in Nat \ {0} /\ q \in Nat \ {0} /\ Len(T) \in Nat /\ q <= o /\ o < c
  BY <1>22
<1> HIDE DEF o, c
<1>5. l \o b \in Seq(Token) /\ Len(l \o b) = 1 + Len(b)
  <2>1. l \o b \in Seq(Token) /\ Len(l \o b) = Len(l) + Len(b)
    BY <1>1, ConcatProperties
  <2> QED
    BY <1>1, <2>1
<1>6. Holds(T, o, l \o b) /\ Holds(T, c, r)
  <2>1. Holds(T, o, (l \o b) \o r)
    BY <1>1, <1>4
  <2> DEFINE u == l \o b
  <2>2. u \in Seq(Token) /\ o + Len(u) = c
    BY <1>5, <1>23
  <2>4. Holds(T, o, u \o r)
    BY <2>1
  <2> HIDE DEF u
  <2>3. Holds(T, o, u) /\ Holds(T, o + Len(u), r)
    BY <1>1, <2>2, <2>4, HeldParts
  <2> QED
    BY <2>2, <2>3 DEF u
<1>7. Holds(T, o, l) /\ Holds(T, o + 1, b)
  <2>1. Holds(T, o, l) /\ Holds(T, o + Len(l), b)
    BY <1>1, <1>6, HeldParts
  <2> QED
    BY <1>1, <2>1
<1>10. T[o] = Opening /\ T[c] = Closing /\ c <= Len(T)
  <2>1. 1 \in 1 .. Len(l) /\ 1 \in 1 .. Len(r) /\ o - 1 + 1 = o /\ c - 1 + 1 = c
    BY <1>1, <1>9, <1>22
  <2>2. T[o - 1 + 1] = l[1]
    BY <1>7, <2>1 DEF Holds
  <2>3. T[c - 1 + 1] = r[1] /\ c - 1 + Len(r) <= Len(T)
    BY <1>6, <1>9, <1>22, <2>1 DEF Holds
  <2> QED
    BY <1>1, <1>9, <1>22, <2>1, <2>2, <2>3
<1>11. \A k \in q .. o - 1 : T[k] # Opening
  <2> SUFFICES ASSUME NEW k \in q .. o - 1 PROVE T[k] # Opening
    OBVIOUS
  <2>1. k - q + 1 \in 1 .. Len(t) /\ q - 1 + (k - q + 1) = k
    BY <1>9, <1>22
  <2>2. T[q - 1 + (k - q + 1)] = t[k - q + 1]
    BY <1>4, <2>1 DEF Holds
  <2> QED
    BY <1>2, <2>1, <2>2
<1>12. \A k \in o + 1 .. c - 1 : T[k] # Closing
  <2> SUFFICES ASSUME NEW k \in o + 1 .. c - 1 PROVE T[k] # Closing
    OBVIOUS
  <2>1. k - o \in 1 .. Len(b) /\ o + 1 - 1 + (k - o) = k
    BY <1>9, <1>22
  <2>2. T[o + 1 - 1 + (k - o)] = b[k - o]
    <3>1. \A i \in 1 .. Len(b) : T[o + 1 - 1 + i] = b[i]
      BY <1>7 DEF Holds
    <3> QED
      BY <2>1, <3>1
  <2> QED
    BY <1>1, <2>1, <2>2
<1>13. o \in q .. Len(T) /\ c \in q .. Len(T) /\ c \in o + 1 .. Len(T) /\ o < c
  BY <1>24, <1>10
<1>14. Placeholders(T, q) = {<<o, c>>}
  <2>1. <<o, c>> \in Placeholders(T, q)
    BY <1>10, <1>11, <1>12, <1>13 DEF Placeholders
  <2>2. ASSUME NEW h \in Placeholders(T, q) PROVE h = <<o, c>>
    <3>1. /\ h = <<h[1], h[2]>> /\ h[1] \in q .. Len(T) /\ h[2] \in q .. Len(T)
          /\ T[h[1]] = Opening /\ \A k \in q .. h[1] - 1 : T[k] # Opening
          /\ h[1] < h[2] /\ T[h[2]] = Closing /\ \A k \in h[1] + 1 .. h[2] - 1 : T[k] # Closing
      BY <2>2 DEF Placeholders
    <3> DEFINE x == h[1]
               y == h[2]
    <3>2. x \in q .. Len(T) /\ T[x] = Opening /\ \A k \in q .. x - 1 : T[k] # Opening
      BY <3>1
    <3>3. x < y /\ y \in q .. Len(T) /\ T[y] = Closing /\ \A k \in x + 1 .. y - 1 : T[k] # Closing
      BY <3>1
    <3> HIDE DEF x, y
    <3>4. ~(x < o) /\ ~(o < x)
      BY <1>24, <1>10, <1>11, <1>13, <3>2
    <3>5. x = o
      BY <1>9, <1>22, <1>13, <3>2, <3>4
    <3>6. ~(y < c) /\ ~(c < y)
      BY <1>24, <1>10, <1>12, <1>13, <3>3, <3>5
    <3>7. y = c
      BY <1>9, <1>22, <1>13, <3>3, <3>6
    <3> QED
      BY <3>1, <3>5, <3>7 DEF x, y
  <2> QED
    BY <2>1, <2>2
<1>15. SubSeq(T, q, o - 1) = t
  <2>1. SubSeq(T, q, q + Len(t) - 1) = t
    BY <1>1, <1>4, HeldIsSubSeq
  <2>2. q + Len(t) - 1 = o - 1
    BY <1>9, <1>22
  <2> QED
    BY <2>1, <2>2
<1>16. SubSeq(T, o + 1, c - 1) = b /\ SubSeq(T, o, c) = ph
  <2>1. SubSeq(T, o + 1, o + 1 + Len(b) - 1) = b
    BY <1>1, <1>7, HeldIsSubSeq
  <2>2. SubSeq(T, o, o + Len(ph) - 1) = ph
    BY <1>1, <1>4, HeldIsSubSeq
  <2>3. Len(ph) = Len(b) + 2
    BY <1>1, <1>5
  <2>4. o + 1 + Len(b) - 1 = c - 1 /\ o + Len(ph) - 1 = c
    BY <1>23, <2>3
  <2> QED
    BY <2>1, <2>2, <2>4
<1>17. c + 1 = q + Len(t \o ph)
  <2>1. Len(ph) = Len(b) + 2
    BY <1>1, <1>5
  <2>2. Len(t \o ph) = Len(t) + Len(ph)
    BY <1>1, ConcatProperties
  <2> QED
    BY <1>9, <1>22, <2>1, <2>2
<1>18. Substituted(T, Values, <<o, c>>) = (IF p.key \in DOMAIN Values THEN Values[p.key] ELSE ph)
  BY <1>3, <1>16 DEF Substituted
<1> QED
  BY <1>13, <1>14, <1>15, <1>17, <1>18, Zenon DEF t, ph

LEMMA RestHasNone ==
    ASSUME NEW T \in Seq(Token), NEW rest \in Seq(Token), NEW q, Holds(T, q, rest), q - 1 + Len(rest) = Len(T),
           \A i, j \in DOMAIN rest : rest[i] = Opening /\ i < j => rest[j] # Closing
    PROVE  Placeholders(T, q) = {} /\ SubSeq(T, q, Len(T)) = rest
<1>1. Len(T) \in Nat /\ Len(rest) \in Nat /\ q \in Nat \ {0} /\ q + Len(rest) - 1 = Len(T) /\ DOMAIN rest = 1 .. Len(rest)
  BY DEF Holds
<1>2. ASSUME NEW h \in Placeholders(T, q) PROVE FALSE
  <2>1. /\ h[1] \in q .. Len(T) /\ h[2] \in q .. Len(T)
        /\ T[h[1]] = Opening /\ h[1] < h[2] /\ T[h[2]] = Closing
    BY <1>2 DEF Placeholders
  <2> DEFINE x == h[1]
             y == h[2]
             n == Len(rest)
  <2>2. x \in q .. Len(T) /\ y \in q .. Len(T) /\ x < y /\ T[x] = Opening /\ T[y] = Closing
    BY <2>1
  <2>3. n \in Nat /\ Len(T) = q - 1 + n /\ \A k \in 1 .. n : T[q - 1 + k] = rest[k]
    BY <1>1 DEF Holds
  <2> HIDE DEF x, y, n
  <2>4. x - q + 1 \in 1 .. n /\ y - q + 1 \in 1 .. n /\ x - q + 1 < y - q + 1
    BY <1>1, <2>2, <2>3
  <2>5. q - 1 + (x - q + 1) = x /\ q - 1 + (y - q + 1) = y
    BY <1>1, <2>2
  <2>6. rest[x - q + 1] = Opening /\ rest[y - q + 1] = Closing
    BY <2>2, <2>3, <2>4, <2>5
  <2> QED
    BY <1>1, <2>4, <2>6 DEF n
<1>3. SubSeq(T, q, q + Len(rest) - 1) = rest
  BY HeldIsSubSeq
<1> QED
  BY <1>1, <1>2, <1>3

(* What a placeholder leads on to is after it. *)
LEMMA FoundIsAhead ==
    ASSUME NEW T \in Seq(Token), NEW i \in 1 .. Len(T) + 1, NEW h \in Placeholders(T, i)
    PROVE  /\ i \in 1 .. Len(T) /\ h[1] \in i .. Len(T) /\ h[2] + 1 \in i + 1 .. Len(T) + 1
           /\ SubSeq(T, i, h[1] - 1) \in Seq(Token) /\ Substituted(T, Values, h) \in Seq(Token)
<1>1. h[1] \in i .. Len(T) /\ h[2] \in i .. Len(T) /\ h[1] < h[2] /\ Len(T) \in Nat
  BY DEF Placeholders
<1>2. i \in 1 .. Len(T) /\ h[1] \in i .. Len(T) /\ h[2] + 1 \in i + 1 .. Len(T) + 1
  BY <1>1
<1>3. SubSeq(T, i, h[1] - 1) \in Seq(Token) /\ SubSeq(T, h[1], h[2]) \in Seq(Token)
  <2> DEFINE a == h[1]
             b == h[2]
  <2>1. a \in i .. Len(T) /\ b \in i .. Len(T)
    BY <1>1
  <2> HIDE DEF a, b
  <2>2. SubSeq(T, i, a - 1) \in Seq(Token) /\ SubSeq(T, a, b) \in Seq(Token)
    BY <1>1, <2>1
  <2> QED
    BY <2>2 DEF a, b
<1>4. \A key : key \in DOMAIN Values => Values[key] \in Seq(Token)
  BY TokenAssumption
<1>5. Substituted(T, Values, h) \in Seq(Token)
  BY <1>3, <1>4 DEF Substituted
<1> QED
  BY <1>2, <1>3, <1>5

(* The template from each position on, as it is rendered. *)
RenderedFrom(g, T) ==
    /\ g \in [1 .. Len(T) + 1 -> Seq(Token)] /\ Render(T, Values) = g[1]
    /\ \A i \in 1 .. Len(T) + 1 : Placeholders(T, i) = {} => g[i] = SubSeq(T, i, Len(T))
    /\ \A i \in 1 .. Len(T) + 1 : \A h : Placeholders(T, i) = {h} =>
          g[i] = SubSeq(T, i, h[1] - 1) \o Substituted(T, Values, h) \o g[h[2] + 1]
LEMMA RenderIs ==
    ASSUME NEW T \in Seq(Token)
    PROVE  \E g : RenderedFrom(g, T)
<1> DEFINE n == Len(T)
           D == Seq(Token)
           P(i) == Placeholders(T, i)
           H(i) == CHOOSE h \in P(i) : TRUE
           Own(i) == SubSeq(T, i, n)
           Fore(i) == SubSeq(T, i, H(i)[1] - 1) \o Substituted(T, Values, H(i))
           On(i) == H(i)[2] + 1
           Eq(f) == f = [i \in 1 .. n + 1 |-> IF P(i) = {} THEN Own(i) ELSE Fore(i) \o f[On(i)]]
<1>1. n \in Nat /\ \A a, b \in D : a \o b \in D
  OBVIOUS
<1>2. \A i \in 1 .. n + 1 : Own(i) \in D
  OBVIOUS
<1>3. ASSUME NEW i \in 1 .. n + 1, P(i) # {}
      PROVE  H(i) \in P(i) /\ i \in 1 .. n /\ On(i) \in i + 1 .. n + 1 /\ Fore(i) \in D
  <2> DEFINE h == H(i)
  <2>1. h \in P(i)
    BY <1>3
  <2> HIDE DEF h
  <2>2. i \in 1 .. n /\ h[2] + 1 \in i + 1 .. n + 1
    BY <2>1, FoundIsAhead
  <2>3. SubSeq(T, i, h[1] - 1) \in D /\ Substituted(T, Values, h) \in D
    BY <2>1, FoundIsAhead
  <2>4. SubSeq(T, i, h[1] - 1) \o Substituted(T, Values, h) \in D
    BY <1>1, <2>3
  <2> QED
    BY <2>1, <2>2, <2>4 DEF h
<1>4. Render(T, Values) = (CHOOSE f : Eq(f))[1]
  BY Zenon DEF Render
<1> HIDE DEF n, D, P, H, Own, Fore, On
<1>5. \E f : Eq(f)
  <2> DEFINE more == {i \in 1 .. n + 1 : P(i) # {}}
             next == [i \in more |-> On(i)]
             base == [i \in 1 .. n + 1 |-> Own(i)]
             step == [i \in more |-> [s \in D |-> Fore(i) \o s]]
  <2>1. more \in SUBSET (1 .. n)
    BY <1>3
  <2>2. \A i \in more : On(i) \in 1 .. n + 1 /\ i < On(i) /\ Fore(i) \in D
    <3> SUFFICES ASSUME NEW i \in more PROVE On(i) \in 1 .. n + 1 /\ i < On(i) /\ Fore(i) \in D
      OBVIOUS
    <3>1. i \in 1 .. n + 1 /\ On(i) \in i + 1 .. n + 1 /\ Fore(i) \in D
      BY <1>3
    <3> QED
      BY <1>1, <3>1
  <2>3. next \in [more -> 1 .. n + 1] /\ \A i \in more : i < next[i] /\ next[i] = On(i)
    BY <2>2
  <2>4. base \in [1 .. n + 1 -> D] /\ \A i \in 1 .. n + 1 : base[i] = Own(i)
    BY <1>2
  <2>5. step \in [more -> [D -> D]] /\ \A i \in more : \A s \in D : step[i][s] = Fore(i) \o s
    BY <1>1, <2>2
  <2>6. \A i \in 1 .. n + 1 : i \in more <=> P(i) # {}
    OBVIOUS
  <2> HIDE DEF more, next, base, step
  <2>7. TakesLater(n, D, more, next, base, step)
    BY <1>1, <2>1, <2>3, <2>4, <2>5 DEF TakesLater
  <2>8. PICK g \in [1 .. n + 1 -> D] :
           \A i \in 1 .. n + 1 : g[i] = IF i \in more THEN step[i][g[next[i]]] ELSE base[i]
    BY <2>7, LaterFirst
  <2>9. ASSUME NEW i \in 1 .. n + 1 PROVE g[i] = IF P(i) = {} THEN Own(i) ELSE Fore(i) \o g[On(i)]
    <3>1. CASE i \in more
      <4>1. next[i] = On(i) /\ g[On(i)] \in D
        BY <2>2, <2>3, <2>8, <3>1
      <4> QED
        BY <2>5, <2>6, <2>8, <3>1, <4>1
    <3>2. CASE i \notin more
      BY <2>4, <2>6, <2>8, <3>2
    <3> QED
      BY <3>1, <3>2
  <2>10. Eq(g)
    BY <2>8, <2>9
  <2> QED
    BY <2>10
<1> DEFINE g == CHOOSE f : Eq(f)
<1>6. Eq(g)
  BY <1>5
<1>7. Render(T, Values) = g[1]
  BY <1>4
<1> HIDE DEF g
<1>8. DOMAIN g = 1 .. n + 1 /\ \A i \in 1 .. n + 1 : g[i] = IF P(i) = {} THEN Own(i) ELSE Fore(i) \o g[On(i)]
  BY <1>6, Zenon
<1>9. g = [i \in 1 .. n + 1 |-> g[i]]
  BY <1>6, <1>8
<1>10. \A i \in 1 .. n + 1 : g[i] \in D
  <2> DEFINE Bad == {i \in 1 .. n + 1 : g[i] \notin D}
  <2> SUFFICES ASSUME Bad # {} PROVE FALSE
    OBVIOUS
  <2>1. n + 1 \in Nat /\ Bad \in SUBSET (1 .. n + 1)
    BY <1>1
  <2>2. PICK i \in Bad : \A k \in Bad : k <= i
    <3> HIDE DEF Bad
    <3> QED
      BY <2>1, GreatestUpTo
  <2>3. i \in 1 .. n + 1 /\ g[i] \notin D
    OBVIOUS
  <2>4. P(i) # {} /\ g[i] = Fore(i) \o g[On(i)]
    BY <1>2, <1>8, <2>3
  <2>5. On(i) \in i + 1 .. n + 1 /\ Fore(i) \in D
    BY <1>3, <2>3, <2>4
  <2>6. On(i) \in 1 .. n + 1 /\ ~(On(i) <= i)
    BY <1>1, <2>3, <2>5
  <2>7. g[On(i)] \in D
    BY <2>2, <2>6
  <2> QED
    BY <1>1, <2>3, <2>4, <2>5, <2>7
<1>11. g \in [1 .. n + 1 -> D]
  BY <1>9, <1>10
<1>12. \A i \in 1 .. n + 1 : P(i) = {} => g[i] = Own(i)
  BY <1>8
<1>13. ASSUME NEW i \in 1 .. n + 1, NEW h, P(i) = {h}
       PROVE  g[i] = SubSeq(T, i, h[1] - 1) \o Substituted(T, Values, h) \o g[h[2] + 1]
  <2>1. P(i) # {} /\ H(i) = h
    BY <1>13 DEF H
  <2>2. g[i] = Fore(i) \o g[On(i)]
    BY <1>8, <2>1
  <2> QED
    BY <2>1, <2>2, Zenon DEF Fore, On
<1>14. /\ g \in [1 .. n + 1 -> D] /\ Render(T, Values) = g[1]
       /\ \A i \in 1 .. n + 1 : P(i) = {} => g[i] = Own(i)
       /\ \A i \in 1 .. n + 1 : \A h : P(i) = {h} =>
             g[i] = SubSeq(T, i, h[1] - 1) \o Substituted(T, Values, h) \o g[h[2] + 1]
  BY <1>7, <1>11, <1>12, <1>13
<1> QED
  BY <1>14, Zenon DEF n, D, P, Own, RenderedFrom

(* A text that is joined holds each of its parts, where those before it end. *)
HeldAt(pos, T, texts, rest) ==
    /\ pos \in [1 .. Len(texts) + 1 -> Nat \ {0}] /\ pos[1] = 1
    /\ Holds(T, pos[Len(texts) + 1], rest) /\ pos[Len(texts) + 1] - 1 + Len(rest) = Len(T)
    /\ \A i \in 1 .. Len(texts) : Holds(T, pos[i], texts[i]) /\ pos[i + 1] = pos[i] + Len(texts[i])
LEMMA JoinedHolds ==
    ASSUME NEW S, NEW texts \in Seq(Seq(S)), NEW rest \in Seq(S)
    PROVE  /\ Joined(texts, rest) \in Seq(S)
           /\ \E pos : HeldAt(pos, Joined(texts, rest), texts, rest)
<1> DEFINE n == Len(texts)
           T == Joined(texts, rest)
<1>13. PICK w : JoinedFrom(w, S, texts, rest)
  BY JoinedIs
<1>1. /\ w \in [1 .. n + 1 -> Seq(S)]
      /\ w[n + 1] = rest /\ T = w[1] /\ \A i \in 1 .. n : w[i] = texts[i] \o w[i + 1]
  BY <1>13 DEF JoinedFrom
<1> HIDE DEF n, T
<1>2. n \in Nat /\ \A i \in 1 .. n : texts[i] \in Seq(S)
  BY DEF n
<1>3. T \in Seq(S) /\ Len(T) \in Nat
  <2>1. 1 \in 1 .. n + 1
    BY <1>2
  <2> QED
    BY <1>1, <2>1
<1> DEFINE pos == [i \in 1 .. n + 1 |-> Len(T) - Len(w[i]) + 1]
           Good(i) == Holds(T, pos[i], w[i])
           Bad == {i \in 1 .. n + 1 : ~Good(i)}
<1>4. \A i \in 1 .. n + 1 : pos[i] = Len(T) - Len(w[i]) + 1 /\ w[i] \in Seq(S) /\ Len(w[i]) \in Nat
  BY <1>1
<1>5. \A i \in 1 .. n : i \in 1 .. n + 1 /\ i + 1 \in 1 .. n + 1
  BY <1>2
<1>12. pos[1] = 1
  BY <1>1, <1>2, <1>3, <1>4
<1> HIDE DEF pos
<1>6. Good(1)
  <2>1. T = w[1] /\ 1 - 1 + Len(T) <= Len(T) /\ \A k \in 1 .. Len(T) : T[1 - 1 + k] = T[k]
    BY <1>1, <1>3
  <2> QED
    BY <1>12, <2>1 DEF Holds
<1>7. ASSUME NEW i \in 1 .. n, Good(i)
      PROVE  Holds(T, pos[i], texts[i]) /\ pos[i + 1] = pos[i] + Len(texts[i]) /\ Good(i + 1)
  <2> DEFINE a == texts[i]
             b == w[i + 1]
             p == pos[i]
  <2>1. a \in Seq(S) /\ b \in Seq(S) /\ w[i] = a \o b
    BY <1>1, <1>2, <1>4, <1>5
  <2>2. Holds(T, p, a \o b)
    BY <1>7, <2>1
  <2>3. p = Len(T) - Len(a \o b) + 1 /\ pos[i + 1] = Len(T) - Len(b) + 1
    BY <1>4, <1>5, <2>1
  <2> HIDE DEF a, b, p
  <2>4. Holds(T, p, a) /\ Holds(T, p + Len(a), b)
    BY <1>3, <2>1, <2>2, HeldParts
  <2>5. Len(a \o b) = Len(a) + Len(b) /\ Len(a) \in Nat /\ Len(b) \in Nat
    BY <2>1, ConcatProperties
  <2>6. pos[i + 1] = p + Len(a)
    BY <1>3, <2>3, <2>5
  <2>7. Holds(T, pos[i + 1], b)
    BY <2>4, <2>6
  <2> QED
    BY <2>4, <2>6, <2>7 DEF a, b, p
<1> HIDE DEF Good
<1>8. \A i \in 1 .. n + 1 : Good(i)
  <2> SUFFICES ASSUME Bad # {} PROVE FALSE
    OBVIOUS
  <2>1. Bad \in SUBSET Nat
    OBVIOUS
  <2> HIDE DEF Bad
  <2>2. PICK i \in Bad : \A k \in Bad : i <= k
    BY <2>1, LeastOfNaturals
  <2>3. i \in 1 .. n + 1 /\ ~Good(i)
    BY <2>2 DEF Bad
  <2>4. i # 1
    BY <1>6, <2>3
  <2>5. i - 1 \in 1 .. n /\ i - 1 + 1 = i /\ ~(i <= i - 1)
    BY <1>2, <2>3, <2>4
  <2>6. Good(i - 1)
    BY <1>5, <2>2, <2>5 DEF Bad
  <2> QED
    BY <1>7, <2>3, <2>5, <2>6
<1>9. pos \in [1 .. n + 1 -> Nat \ {0}]
  <2>1. \A i \in 1 .. n + 1 : pos[i] \in Nat \ {0}
    BY <1>8 DEF Good, Holds
  <2> QED
    BY <2>1 DEF pos
<1>10. Holds(T, pos[n + 1], rest) /\ pos[n + 1] - 1 + Len(rest) = Len(T)
  <2>1. n + 1 \in 1 .. n + 1
    BY <1>2
  <2>2. pos[n + 1] = Len(T) - Len(rest) + 1 /\ Len(rest) \in Nat
    BY <1>1, <1>4, <2>1
  <2>3. Holds(T, pos[n + 1], rest)
    BY <1>1, <1>8, <2>1 DEF Good
  <2> QED
    BY <1>3, <2>2, <2>3
<1>11. \A i \in 1 .. n : Holds(T, pos[i], texts[i]) /\ pos[i + 1] = pos[i] + Len(texts[i])
  BY <1>5, <1>7, <1>8
<1> QED
  BY <1>3, <1>9, <1>10, <1>11, <1>12, Zenon DEF n, T, HeldAt

Filled(p) == p.text \o (IF p.key \in DOMAIN Values THEN Values[p.key] ELSE Placeholder(p))

(* A template is rendered to its texts, with each placeholder filled in. *)
LEMMA TemplateIsFilledIn ==
    ASSUME NEW t, IsTemplate(t)
    PROVE  Render(Written(t), Values) = Joined([i \in DOMAIN t.parts |-> Filled(t.parts[i])], t.rest)
<1> DEFINE n == Len(t.parts)
           rest == t.rest
           texts == [i \in 1 .. n |-> t.parts[i].text \o Placeholder(t.parts[i])]
           filled == [i \in 1 .. n |-> Filled(t.parts[i])]
           T == Written(t)
<1>1. /\ n \in Nat /\ DOMAIN t.parts = 1 .. n /\ rest \in Seq(Token)
      /\ \A i \in 1 .. n : t.parts[i] \in Range(t.parts)
      /\ \A i, j \in DOMAIN rest : rest[i] = Opening /\ i < j => rest[j] # Closing
  <2>1. t.parts \in Seq(Range(t.parts)) /\ rest \in Seq(Token)
    BY DEF IsTemplate
  <2>2. n \in Nat /\ DOMAIN t.parts = 1 .. n /\ \A i \in 1 .. n : t.parts[i] \in Range(t.parts)
    BY <2>1
  <2>3. \A i, j \in DOMAIN rest : rest[i] = Opening /\ i < j => rest[j] # Closing
    BY DEF IsTemplate
  <2> QED
    BY <2>1, <2>2, <2>3
<1>2. \A i \in 1 .. n : IsPart(t.parts[i])
  BY <1>1 DEF IsTemplate
<1>3. ASSUME NEW p, IsPart(p)
      PROVE  p.text \in Seq(Token) /\ p.text \o Placeholder(p) \in Seq(Token) /\ Filled(p) \in Seq(Token)
  <2> DEFINE a == p.text
             b == Placeholder(p)
             v == IF p.key \in DOMAIN Values THEN Values[p.key] ELSE Placeholder(p)
  <2>1. a \in Seq(Token) /\ b \in Seq(Token)
    BY <1>3, PartIsText
  <2>2. v \in Seq(Token)
    BY <2>1, TokenAssumption
  <2> HIDE DEF a, b, v
  <2>3. a \o b \in Seq(Token) /\ a \o v \in Seq(Token)
    BY <2>1, <2>2
  <2> QED
    BY <2>1, <2>3 DEF a, b, v, Filled
<1>4. \A i \in 1 .. n : /\ texts[i] = t.parts[i].text \o Placeholder(t.parts[i]) /\ filled[i] = Filled(t.parts[i])
                        /\ texts[i] \in Seq(Token) /\ filled[i] \in Seq(Token)
  BY <1>2, <1>3
<1>5. T = Joined(texts, rest)
  BY <1>1, Zenon DEF Written
<1>6. [i \in DOMAIN t.parts |-> Filled(t.parts[i])] = filled
  BY <1>1
<1> DEFINE D == Seq(Token)
<1>7. texts \in Seq(D) /\ filled \in Seq(D) /\ Len(texts) = n /\ Len(filled) = n
  <2>1. DOMAIN texts = 1 .. n /\ DOMAIN filled = 1 .. n
    OBVIOUS
  <2>2. \A i \in 1 .. n : texts[i] \in D /\ filled[i] \in D
    BY <1>4
  <2>4. texts = [i \in 1 .. n |-> texts[i]] /\ filled = [i \in 1 .. n |-> filled[i]]
    OBVIOUS
  <2> HIDE DEF texts, filled, D, n
  <2>3. texts \in [1 .. n -> D] /\ filled \in [1 .. n -> D]
    BY <2>2, <2>4
  <2> QED
    BY <1>1, <2>1, <2>3
<1> HIDE DEF n, rest, texts, filled, T
<1>8. T \in Seq(Token) /\ \E pos : HeldAt(pos, T, texts, rest)
  BY <1>1, <1>5, <1>7, JoinedHolds
<1>9. PICK pos : HeldAt(pos, T, texts, rest)
  BY <1>8
<1>10. PICK f : JoinedFrom(f, Token, filled, rest)
  BY <1>1, <1>7, JoinedIs
<1>11. PICK g : RenderedFrom(g, T)
  BY <1>8, RenderIs
<1> DEFINE Good(i) == g[pos[i]] = f[i]
<1>12. /\ pos \in [1 .. n + 1 -> Nat \ {0}] /\ pos[1] = 1
       /\ Holds(T, pos[n + 1], rest) /\ pos[n + 1] - 1 + Len(rest) = Len(T)
       /\ \A i \in 1 .. n : Holds(T, pos[i], texts[i]) /\ pos[i + 1] = pos[i] + Len(texts[i])
  BY <1>7, <1>9, Zenon DEF HeldAt
<1>13. /\ f \in [1 .. n + 1 -> D] /\ f[n + 1] = rest /\ Joined(filled, rest) = f[1]
       /\ \A i \in 1 .. n : f[i] = filled[i] \o f[i + 1]
  BY <1>7, <1>10, Zenon DEF JoinedFrom
<1>14. /\ g \in [1 .. Len(T) + 1 -> D] /\ Render(T, Values) = g[1]
       /\ \A i \in 1 .. Len(T) + 1 : Placeholders(T, i) = {} => g[i] = SubSeq(T, i, Len(T))
       /\ \A i \in 1 .. Len(T) + 1 : \A h : Placeholders(T, i) = {h} =>
             g[i] = SubSeq(T, i, h[1] - 1) \o Substituted(T, Values, h) \o g[h[2] + 1]
  BY <1>11, Zenon DEF RenderedFrom
<1>15. Len(T) \in Nat /\ Len(rest) \in Nat
  BY <1>1, <1>8
<1>16. \A i \in 1 .. n + 1 : pos[i] \in 1 .. Len(T) + 1
  <2>1. n + 1 \in 1 .. n + 1 /\ pos[n + 1] \in 1 .. Len(T) + 1
    BY <1>1, <1>12, <1>15
  <2>2. ASSUME NEW i \in 1 .. n PROVE pos[i] \in 1 .. Len(T) + 1
    <3>1. Len(texts[i]) \in Nat /\ pos[i] \in Nat \ {0} /\ pos[i] - 1 + Len(texts[i]) <= Len(T)
      BY <1>4, <1>12 DEF Holds
    <3> QED
      BY <1>15, <3>1
  <2> QED
    BY <1>1, <2>1, <2>2
<1>17. Good(n + 1)
  <2>1. Placeholders(T, pos[n + 1]) = {} /\ SubSeq(T, pos[n + 1], Len(T)) = rest
    BY <1>1, <1>8, <1>12, RestHasNone
  <2>2. pos[n + 1] \in 1 .. Len(T) + 1
    BY <1>1, <1>16
  <2> QED
    BY <1>13, <1>14, <2>1, <2>2
<1>18. ASSUME NEW i \in 1 .. n, Good(i + 1) PROVE Good(i)
  <2> DEFINE p == t.parts[i]
             q == pos[i]
             a == p.text
             v == IF p.key \in DOMAIN Values THEN Values[p.key] ELSE Placeholder(p)
  <2>1. IsPart(p) /\ Holds(T, q, p.text \o Placeholder(p))
    BY <1>2, <1>4, <1>12
  <2>2. PICK o, c \in q .. Len(T) :
          /\ o < c /\ Placeholders(T, q) = {<<o, c>>} /\ SubSeq(T, q, o - 1) = a
          /\ Substituted(T, Values, <<o, c>>) = v
          /\ c + 1 = q + Len(p.text \o Placeholder(p))
    BY <1>8, <2>1, PartIsFound
  <2>3. pos[i + 1] = c + 1
    BY <1>4, <1>12, <2>2
  <2>4. q \in 1 .. Len(T) + 1 /\ i + 1 \in 1 .. n + 1 /\ c + 1 \in 1 .. Len(T) + 1
    BY <1>1, <1>16, <2>3
  <2> DEFINE h == <<o, c>>
  <2> HIDE DEF p, q, a, v
  <2>8. h[1] = o /\ h[2] = c /\ Placeholders(T, q) = {h} /\ q \in 1 .. Len(T) + 1
    BY <2>2, <2>4
  <2>9. g[q] = SubSeq(T, q, h[1] - 1) \o Substituted(T, Values, h) \o g[h[2] + 1]
    <3> HIDE DEF h
    <3> QED
      BY <1>14, <2>8, Zenon
  <2>5. g[q] = SubSeq(T, q, o - 1) \o Substituted(T, Values, <<o, c>>) \o g[c + 1]
    BY <2>8, <2>9, Zenon
  <2>6. g[q] = (a \o v) \o g[c + 1]
    BY <2>2, <2>5
  <2>7. f[i] = (a \o v) \o f[i + 1]
    BY <1>4, <1>13 DEF Filled, p, a, v
  <2> QED
    BY <1>18, <2>3, <2>6, <2>7 DEF q
<1> HIDE DEF Good
<1>19. \A i \in 1 .. n + 1 : Good(i)
  <2> DEFINE Bad == {i \in 1 .. n + 1 : ~Good(i)}
  <2> SUFFICES ASSUME Bad # {} PROVE FALSE
    OBVIOUS
  <2>1. n + 1 \in Nat /\ Bad \in SUBSET (1 .. n + 1)
    BY <1>1
  <2> HIDE DEF Bad
  <2>2. PICK i \in Bad : \A k \in Bad : k <= i
    BY <2>1, GreatestUpTo
  <2>3. i \in 1 .. n + 1 /\ ~Good(i)
    BY <2>2 DEF Bad
  <2>4. i # n + 1
    BY <1>17, <2>3
  <2>5. i \in 1 .. n /\ i + 1 \in 1 .. n + 1 /\ ~(i + 1 <= i)
    BY <1>1, <2>3, <2>4
  <2>6. Good(i + 1)
    BY <2>2, <2>5 DEF Bad
  <2> QED
    BY <1>18, <2>3, <2>5, <2>6
<1>20. g[1] = f[1]
  <2>1. 1 \in 1 .. n + 1
    BY <1>1
  <2>2. g[pos[1]] = f[1]
    BY <1>19, <2>1 DEF Good
  <2> QED
    BY <1>12, <2>2
<1> QED
  BY <1>6, <1>13, <1>14, <1>20, Zenon DEF T, rest

-----------------------------------------------------------------------------
Marks(css, i) == {j \in 1 .. i - 1 : css[j].kind \in {"root", "close"}}

(* A line is in a `:root` block exactly if the last mark before it begins one. *)
LEMMA InRootIs ==
    ASSUME NEW css, NEW i \in Nat
    PROVE  InRoot(css, i) <=> \E j \in Marks(css, i) : css[j].kind = "root" /\ \A k \in Marks(css, i) : k <= j
<1>1. ASSUME InRoot(css, i)
      PROVE  \E j \in Marks(css, i) : css[j].kind = "root" /\ \A k \in Marks(css, i) : k <= j
  <2>1. PICK r \in 1 .. i - 1 : css[r].kind = "root" /\ \A k \in r + 1 .. i - 1 : css[k].kind # "close"
    BY <1>1 DEF InRoot
  <2>2. Marks(css, i) \in SUBSET (1 .. i) /\ r \in Marks(css, i)
    BY <2>1 DEF Marks
  <2>3. PICK j \in Marks(css, i) : \A k \in Marks(css, i) : k <= j
    BY <2>2, GreatestUpTo
  <2>4. j \in 1 .. i - 1 /\ css[j].kind \in {"root", "close"} /\ r <= j
    BY <2>2, <2>3 DEF Marks
  <2>5. css[j].kind = "root"
    <3>1. CASE j = r
      BY <2>1, <3>1
    <3>2. CASE j # r
      <4>1. j \in r + 1 .. i - 1
        BY <2>1, <2>4, <3>2
      <4> QED
        BY <2>1, <2>4, <4>1
    <3> QED
      BY <3>1, <3>2
  <2> QED
    BY <2>3, <2>5
<1>2. ASSUME NEW j \in Marks(css, i), css[j].kind = "root", \A k \in Marks(css, i) : k <= j
      PROVE  InRoot(css, i)
  <2>1. j \in 1 .. i - 1
    BY DEF Marks
  <2>2. ASSUME NEW k \in j + 1 .. i - 1, css[k].kind = "close" PROVE FALSE
    <3>1. k \in 1 .. i - 1
      BY <2>1
    <3>2. k \in Marks(css, i)
      BY <2>2, <3>1 DEF Marks
    <3> QED
      BY <1>2, <2>1, <3>2
  <2> QED
    BY <1>2, <2>1, <2>2 DEF InRoot
<1> QED
  BY <1>1, <1>2

Accented(css, i) == InRoot(css, i) /\ css[i].kind = "decl" /\ css[i].var \in {"--accent", "--accent-2"}

(* A line that is written anew keeps its kind and its variable. *)
LEMMA TintedLine ==
    ASSUME NEW l, IsLine(l), NEW accent
    PROVE  LET m == Tinted(l, accent)
           IN  /\ m.kind = l.kind /\ m.var = l.var /\ m.ended = TRUE /\ IsLine(m)
               /\ m.value = IF l.var = "--accent" THEN Hex(accent) ELSE HexAccent2(accent)
<1> DEFINE k == l.kind
           v == l.var
           x == l.value
           e == l.ended
           y == IF l.var = "--accent" THEN Hex(accent) ELSE HexAccent2(accent)
           m == Tinted(l, accent)
<1>1. l = [kind |-> k, var |-> v, value |-> x, ended |-> e]
  BY DEF IsLine
<1>2. m = [l EXCEPT !.value = y, !.ended = TRUE]
  BY DEF Tinted
<1> HIDE DEF k, v, x, e, y, m
<1>3. m = [kind |-> k, var |-> v, value |-> y, ended |-> TRUE]
  BY <1>1, <1>2
<1>4. m.kind = k /\ m.var = v /\ m.ended = TRUE /\ m.value = y
  BY <1>3
<1>5. IsLine(m)
  BY <1>3, <1>4 DEF IsLine
<1> QED
  BY <1>4, <1>5 DEF k, v, y, m

(* What is written of a stylesheet anew: the accents in `:root`, and no more. *)
AccentOnly(css, new, accent, n) ==
    /\ DOMAIN new = 1 .. n
    /\ \A i \in 1 .. n :
          /\ IsLine(new[i]) /\ new[i].kind = css[i].kind /\ new[i].var = css[i].var
          /\ css[i].ended => new[i].ended
          /\ Accented(new, i) <=> Accented(css, i)
          /\ Accented(css, i) => new[i].value = IF css[i].var = "--accent" THEN Hex(accent)
                                                                         ELSE HexAccent2(accent)
          /\ ~Accented(css, i) => new[i] = css[i]
LEMMA AccentApplied ==
    ASSUME NEW css, NEW n \in Nat, DOMAIN css = 1 .. n, \A i \in 1 .. n : IsLine(css[i]), NEW accent
    PROVE  AccentOnly(css, ApplyAccent(css, accent), accent, n)
<1> DEFINE new == ApplyAccent(css, accent)
<1>1. DOMAIN new = 1 .. n /\ \A i \in 1 .. n : new[i] = IF Accented(css, i) THEN Tinted(css[i], accent) ELSE css[i]
  BY DEF ApplyAccent, Accented
<1> HIDE DEF new
<1>2. ASSUME NEW i \in 1 .. n
      PROVE  /\ IsLine(new[i]) /\ new[i].kind = css[i].kind /\ new[i].var = css[i].var
             /\ css[i].ended => new[i].ended
             /\ Accented(css, i) => new[i].value = IF css[i].var = "--accent" THEN Hex(accent)
                                                                            ELSE HexAccent2(accent)
             /\ ~Accented(css, i) => new[i] = css[i]
  <2>1. CASE Accented(css, i)
    <3> DEFINE l == css[i]
               m == Tinted(l, accent)
    <3>1. new[i] = m /\ IsLine(l)
      BY <1>1, <2>1
    <3>2. /\ m.kind = l.kind /\ m.var = l.var /\ m.ended = TRUE /\ IsLine(m)
          /\ m.value = IF l.var = "--accent" THEN Hex(accent) ELSE HexAccent2(accent)
      BY <3>1, TintedLine, Zenon
    <3> HIDE DEF m
    <3> QED
      BY <2>1, <3>1, <3>2, Zenon
  <2>2. CASE ~Accented(css, i)
    <3>1. new[i] = css[i] /\ IsLine(css[i])
      BY <1>1, <2>2
    <3> QED
      BY <2>2, <3>1
  <2> QED
    BY <2>1, <2>2
<1>3. ASSUME NEW i \in 1 .. n PROVE Accented(new, i) <=> Accented(css, i)
  <2>1. InRoot(new, i) <=> InRoot(css, i)
    <3>1. \A r \in 1 .. i - 1 : r \in 1 .. n /\ new[r].kind = css[r].kind
      BY <1>2
    <3>2. \A r \in 1 .. i - 1 : \A k \in r + 1 .. i - 1 : k \in 1 .. i - 1
      OBVIOUS
    <3>3. ASSUME InRoot(css, i) PROVE InRoot(new, i)
      <4>1. PICK r \in 1 .. i - 1 : css[r].kind = "root" /\ \A k \in r + 1 .. i - 1 : css[k].kind # "close"
        BY <3>3, Zenon DEF InRoot
      <4>2. new[r].kind = "root" /\ \A k \in r + 1 .. i - 1 : new[k].kind # "close"
        BY <3>1, <3>2, <4>1
      <4> QED
        BY <4>2, Zenon DEF InRoot
    <3>4. ASSUME InRoot(new, i) PROVE InRoot(css, i)
      <4>1. PICK r \in 1 .. i - 1 : new[r].kind = "root" /\ \A k \in r + 1 .. i - 1 : new[k].kind # "close"
        BY <3>4, Zenon DEF InRoot
      <4>2. css[r].kind = "root" /\ \A k \in r + 1 .. i - 1 : css[k].kind # "close"
        BY <3>1, <3>2, <4>1
      <4> QED
        BY <4>2, Zenon DEF InRoot
    <3> QED
      BY <3>3, <3>4
  <2> QED
    BY <1>2, <2>1 DEF Accented
<1> QED
  BY <1>1, <1>2, <1>3, Zenon DEF new, AccentOnly

Declares(css, var, i) == css[i].kind = "decl" /\ css[i].var = var /\ css[i].ended

(* A variable has a value in a stylesheet exactly if a line declares it. *)
LEMMA DeclaredSomewhere ==
    ASSUME NEW css, DOMAIN css \in SUBSET Nat, NEW var
    PROVE  ExtractVariable(css, var) # {} <=> \E i \in DOMAIN css : Declares(css, var, i)
<1> DEFINE places == {i \in DOMAIN css : Declares(css, var, i)}
<1>1. ExtractVariable(css, var) = {css[i].value : i \in {j \in places : \A k \in places : j <= k}}
  BY Zenon DEF ExtractVariable, Declares
<1>2. places \in SUBSET Nat
  OBVIOUS
<1>3. places # {} <=> \E i \in DOMAIN css : Declares(css, var, i)
  OBVIOUS
<1> HIDE DEF places
<1>4. places # {} => \E j \in places : \A k \in places : j <= k
  BY <1>2, LeastOfNaturals
<1>5. {css[i].value : i \in {j \in places : \A k \in places : j <= k}} # {} <=> places # {}
  BY <1>4
<1> QED
  BY <1>1, <1>3, <1>5

(* The accent chosen last is in force, whatever was chosen before. *)
LastInForce(css, new, last) ==
    /\ DOMAIN new = DOMAIN css
    /\ \A i \in DOMAIN css :
          /\ Accented(css, i) => new[i].value = IF css[i].var = "--accent" THEN Hex(last)
                                                                         ELSE HexAccent2(last)
          /\ ~Accented(css, i) => new[i] = css[i]
    /\ MissingRequiredVariables(new) \subseteq MissingRequiredVariables(css)
LEMMA TintedTwice ==
    ASSUME NEW css, IsStylesheet(css), NEW first, NEW last
    PROVE  LastInForce(css, ApplyAccent(ApplyAccent(css, first), last), last)
<1> DEFINE n == Len(css)
           mid == ApplyAccent(css, first)
           new == ApplyAccent(mid, last)
<1>1. n \in Nat /\ DOMAIN css = 1 .. n /\ \A i \in 1 .. n : IsLine(css[i])
  <2>1. css \in Seq(Range(css)) /\ \A l \in Range(css) : IsLine(l)
    BY DEF IsStylesheet
  <2>2. n \in Nat /\ DOMAIN css = 1 .. n /\ \A i \in 1 .. n : css[i] \in Range(css)
    BY <2>1
  <2> QED
    BY <2>1, <2>2
<1> HIDE DEF n
<1>2. AccentOnly(css, mid, first, n)
  BY <1>1, AccentApplied
<1> HIDE DEF mid
<1>3. AccentOnly(mid, new, last, n)
  <2>1. DOMAIN mid = 1 .. n /\ \A i \in 1 .. n : IsLine(mid[i])
    BY <1>2, Zenon DEF AccentOnly
  <2> QED
    BY <1>1, <2>1, AccentApplied
<1> HIDE DEF new
<1>4. ASSUME NEW i \in 1 .. n
      PROVE  /\ Accented(css, i) => new[i].value = IF css[i].var = "--accent" THEN Hex(last)
                                                                            ELSE HexAccent2(last)
             /\ ~Accented(css, i) => new[i] = css[i]
  <2>1. mid[i].var = css[i].var /\ (Accented(mid, i) <=> Accented(css, i))
    BY <1>2, Zenon DEF AccentOnly
  <2>2. Accented(css, i) => new[i].value = IF css[i].var = "--accent" THEN Hex(last) ELSE HexAccent2(last)
    BY <1>3, <2>1, Zenon DEF AccentOnly
  <2>3. ~Accented(css, i) => new[i] = css[i]
    BY <1>2, <1>3, <2>1, Zenon DEF AccentOnly
  <2> QED
    BY <2>2, <2>3
<1>5. MissingRequiredVariables(new) \subseteq MissingRequiredVariables(css)
  <2> SUFFICES ASSUME NEW var \in RequiredCssVariables, ExtractVariable(css, var) # {}
               PROVE  ExtractVariable(new, var) # {}
    BY DEF MissingRequiredVariables
  <2>1. DOMAIN css \in SUBSET Nat /\ DOMAIN new \in SUBSET Nat
    BY <1>1, <1>3 DEF AccentOnly
  <2>2. PICK i \in DOMAIN css : Declares(css, var, i)
    BY <2>1, DeclaredSomewhere
  <2>3. i \in 1 .. n /\ new[i].kind = css[i].kind /\ new[i].var = css[i].var /\ (css[i].ended => new[i].ended)
    BY <1>1, <1>2, <1>3, Zenon DEF AccentOnly
  <2>4. i \in DOMAIN new /\ Declares(new, var, i)
    BY <1>3, <2>2, <2>3, Zenon DEF Declares, AccentOnly
  <2> QED
    BY <2>1, <2>4, DeclaredSomewhere
<1> QED
  BY <1>1, <1>3, <1>4, <1>5, Zenon DEF new, mid, LastInForce, AccentOnly

(* A stylesheet that declares what a skin must have is not refused for it. *)
LEMMA DeclaredIsNotMissing ==
    ASSUME NEW s, IsStylesheet(s.css), MissingRequiredVariables(s.css) = {}
    PROVE  Validate(s) # "MissingCssVariable"
<1> DEFINE css == s.css
           lacking == \E var \in RequiredCssVariables : ~ContainsText(css, var)
<1>1. DOMAIN css \in SUBSET Nat
  BY DEF IsStylesheet
<1>2. ASSUME NEW var \in RequiredCssVariables PROVE ContainsText(css, var)
  <2>1. ExtractVariable(css, var) # {}
    BY DEF MissingRequiredVariables
  <2>2. PICK i \in DOMAIN css : Declares(css, var, i)
    BY <1>1, <2>1, DeclaredSomewhere
  <2>3. css[i].var = var /\ var \in Within(var)
    BY <2>2 DEF Declares, Within
  <2> QED
    BY <2>3 DEF ContainsText
<1>3. ~lacking
  BY <1>2
<1>4. CASE s.grid \notin ValidGrids
  <2>1. Validate(s) = "UnknownGrid"
    BY <1>3, <1>4 DEF Validate
  <2> QED
    BY <2>1
<1>5. CASE s.grid \in ValidGrids
  <2>1. Validate(s) = IF s.template \in Seq({Space}) THEN "EmptyTemplate" ELSE "ok"
    BY <1>3, <1>5 DEF Validate
  <2> QED
    BY <2>1
<1> QED
  BY <1>4, <1>5

-----------------------------------------------------------------------------
SkinInv ==
    /\ kind \in {"tint", "validate", "render"}
    /\ kind = "tint" => input \in Tints
    /\ kind = "validate" => input \in Skins
    /\ kind = "render" => input \in Templates
    /\ answer # NoAnswer =>
          /\ kind = "tint" => answer = ApplyAccent(ApplyAccent(input.css, input.first), input.last)
          /\ kind = "validate" => answer = Validate(input)
          /\ kind = "render" => answer = Render(Written(input), Values)

LEMMA SkinInvHolds == SkinSpec => []SkinInv
<1>1. SkinInit => SkinInv
  BY Zenon DEF SkinInit, Asked, SkinInv
<1>2. SkinInv /\ [SkinNext]_asking => SkinInv'
  <2> SUFFICES ASSUME SkinInv, [SkinNext]_asking PROVE SkinInv'
    OBVIOUS
  <2>1. CASE RunTint
    BY <2>1 DEF SkinInv, RunTint, Compute
  <2>2. CASE RunValidate
    BY <2>2 DEF SkinInv, RunValidate, Compute
  <2>3. CASE RunRender
    BY <2>3 DEF SkinInv, RunRender, Compute
  <2>4. CASE UNCHANGED asking
    BY <2>4, Zenon DEF SkinInv, asking
  <2> QED
    BY <2>1, <2>2, <2>3, <2>4 DEF SkinNext
<1> QED
  BY <1>1, <1>2, PTL DEF SkinSpec

LEMMA LastAccentFromInv == SkinInv => LastAccentWins
<1> SUFFICES ASSUME SkinInv, Done("tint") PROVE LastAccentWins
  BY DEF LastAccentWins
<1> DEFINE css == input.css
<1>1. input \in Tints /\ answer = ApplyAccent(ApplyAccent(css, input.first), input.last)
  BY DEF SkinInv, Done
<1>2. IsStylesheet(css)
  BY <1>1, StylesheetAssumption
<1> DEFINE last == input.last
<1>3. /\ DOMAIN answer = DOMAIN css
      /\ \A i \in DOMAIN css :
            /\ Accented(css, i) => answer[i].value = IF css[i].var = "--accent" THEN Hex(last)
                                                                              ELSE HexAccent2(last)
            /\ ~Accented(css, i) => answer[i] = css[i]
      /\ MissingRequiredVariables(answer) \subseteq MissingRequiredVariables(css)
  <2>1. LastInForce(css, answer, last)
    BY <1>1, <1>2, TintedTwice
  <2> HIDE DEF css, last
  <2> QED
    BY <2>1, Zenon DEF LastInForce
<1>4. DOMAIN css \in SUBSET Nat
  BY <1>2 DEF IsStylesheet
<1>5. ASSUME NEW i \in DOMAIN css
      PROVE  LET marks == {j \in 1 .. i - 1 : css[j].kind \in {"root", "close"}}
                 inRoot == \E j \in marks : css[j].kind = "root" /\ \A k \in marks : k <= j
             IN  IF inRoot /\ css[i].kind = "decl" /\ css[i].var \in {"--accent", "--accent-2"}
                 THEN answer[i].value = IF css[i].var = "--accent" THEN Hex(last) ELSE HexAccent2(last)
                 ELSE answer[i] = css[i]
  <2> DEFINE inRoot == \E j \in Marks(css, i) : css[j].kind = "root" /\ \A k \in Marks(css, i) : k <= j
  <2>1. InRoot(css, i) <=> inRoot
    BY <1>4, InRootIs
  <2> HIDE DEF inRoot
  <2>2. IF inRoot /\ css[i].kind = "decl" /\ css[i].var \in {"--accent", "--accent-2"}
        THEN answer[i].value = IF css[i].var = "--accent" THEN Hex(last) ELSE HexAccent2(last)
        ELSE answer[i] = css[i]
    BY <1>3, <2>1, Zenon DEF Accented
  <2> QED
    BY <2>2, Zenon DEF inRoot, Marks
<1> QED
  BY <1>3, <1>5, Zenon DEF LastAccentWins

(* The property SkinTextsAreAsAsked: the accents of apply_accent, the required
   variables of validate and the placeholders of render, for any stylesheet and
   any template. *)
THEOREM SkinsReadAsAsked == SkinSpec => []SkinTextsAreAsAsked
<1>1. SkinInv => LastAccentWins
  BY LastAccentFromInv
<1>2. SkinInv => DeclaredIsEnough
  <2> SUFFICES ASSUME SkinInv, Done("validate"), MissingRequiredVariables(input.css) = {}
               PROVE  answer # "MissingCssVariable"
    BY DEF DeclaredIsEnough
  <2>1. input \in Skins /\ answer = Validate(input)
    BY DEF SkinInv, Done
  <2>2. IsStylesheet(input.css)
    BY <2>1, SkinsAssumption
  <2> QED
    BY <2>1, <2>2, DeclaredIsNotMissing
<1>3. SkinInv => RenderFillsIn
  <2> SUFFICES ASSUME SkinInv, Done("render") PROVE RenderFillsIn
    BY DEF RenderFillsIn
  <2>1. input \in Templates /\ answer = Render(Written(input), Values)
    BY DEF SkinInv, Done
  <2>2. IsTemplate(input)
    BY <2>1, TemplatesAssumption
  <2>3. answer = Joined([i \in DOMAIN input.parts |-> Filled(input.parts[i])], input.rest)
    BY <2>1, <2>2, TemplateIsFilledIn
  <2> QED
    BY <2>3, Zenon DEF RenderFillsIn, Filled
<1> QED
  BY <1>1, <1>2, <1>3, SkinInvHolds, PTL DEF SkinTextsAreAsAsked
=============================================================================
