---------------------------- MODULE SkinInstall ----------------------------
(***************************************************************************)
(* The skin installer of muzon-skin (installer.rs, loader.rs,              *)
(* validator.rs).  A package is extracted into one staging directory shared *)
(* by all installs of a user, checked there, and renamed to its place; a   *)
(* package directory is checked and renamed where it is.  Nothing is       *)
(* locked, so every file-system call that another install may disturb is a *)
(* step.                                                                   *)
(*                                                                         *)
(* A directory is a function from the names in it to files; of a file the  *)
(* model keeps the package it comes from and whether all of it is there.   *)
(* Entry names, sizes and counts beyond the loader's limits make a package *)
(* fail to load, which BreakOff covers.                                    *)
(***************************************************************************)
EXTENDS Integers, Functions

CONSTANTS
    Job,          \* processes that install skins
    Package,
    Id,           \* skin ids, which name the directories below data/skins
    Staging,      \* cache/skin-staging
    Name,         \* names of files
    Manifest,     \* skin.toml
    Entries,      \* the files of each package
    SkinId,       \* the id in the manifest of each package
    Valid,        \* the packages validate_manifest accepts
    Unpacked,     \* the packages there are directories of
    Absolute,     \* the directories given by an absolute path
    Dotted,       \* the directories given by a path with a `..` in it
    NoDir, NoPackage, NoFile, NoPlace

ASSUME PlaceAssumption ==
    /\ Package \cap Id = {} /\ Staging \notin Package \cup Id
    /\ NoPackage \notin Package /\ NoPlace \notin Package \cup Id \cup {Staging}
ASSUME PackageAssumption ==
    /\ Manifest \in Name
    /\ Entries \in [Package -> SUBSET Name] /\ SkinId \in [Package -> Id]
    /\ Valid \subseteq Package /\ Unpacked \subseteq Package
    /\ \A v \in Valid : Manifest \in Entries[v]
    /\ Absolute \cup Dotted \subseteq Package \cup {Staging}

VARIABLES
    dir,       \* the directories; Package stands for the directory it is in
    at,        \* where each install is
    pkg,       \* the package it was asked to install
    root,      \* the directory it installs from
    wiping,    \* the directory it has open to empty it
    left,      \* the entries of the archive it has yet to extract
    open,      \* the file it is writing
    manifest,  \* the package whose manifest it has read
    result,    \* what the latest step returned to a caller
    alone,     \* history: no other install has run since its start
    asked      \* history: the package of the install alone that made a skin

jobVars == <<at, pkg, root, wiping, left, open, manifest, alone>>
vars == <<dir, jobVars, asked, result>>

Place == Package \cup Id \cup {Staging}
File == [of : Package, whole : BOOLEAN]
Dir == UNION {[names -> File] : names \in SUBSET Name}
Phase == {"idle", "check", "wipe", "unlink", "create", "extract", "write", "read",
          "layout", "target", "commit"}

ASSUME NoneAssumption == NoDir \notin Dir /\ NoFile \notin Place \X Name

EmptyDir == [n \in {} |-> NoFile]
Put(d, n, file) == [m \in (IF d = NoDir THEN {} ELSE DOMAIN d) \cup {n} |->
                        IF m = n THEN file ELSE d[m]]
Whole(p) == [n \in Entries[p] |-> [of |-> p, whole |-> TRUE]]

TypeOK ==
    /\ dir \in [Place -> Dir \cup {NoDir}]
    /\ at \in [Job -> Phase]
    /\ pkg \in [Job -> Package \cup {NoPackage}]
    /\ root \in [Job -> Package \cup {Staging}]
    /\ wiping \in [Job -> Place \cup {NoPlace}]
    /\ left \in [Job -> SUBSET Name]
    /\ open \in [Job -> (Place \X Name) \cup {NoFile}]
    /\ manifest \in [Job -> Package \cup {NoPackage}]
    /\ result \in {"none", "ok", "exists", "refused", "io"}
    /\ alone \in [Job -> BOOLEAN]
    /\ asked \in [Id -> Package \cup {NoPackage}]
    /\ \A j \in Job : open[j] # NoFile => /\ at[j] = "write" /\ dir[open[j][1]] # NoDir
                                          /\ open[j][2] \in DOMAIN dir[open[j][1]]
    /\ \A j \in Job : wiping[j] # NoPlace => at[j] = "unlink" /\ dir[wiping[j]] # NoDir

Init ==
    /\ dir = [d \in Place |-> IF d \in Unpacked THEN Whole(d) ELSE NoDir]
    /\ at = [j \in Job |-> "idle"]
    /\ pkg = [j \in Job |-> NoPackage]
    /\ root = [j \in Job |-> Staging]
    /\ wiping = [j \in Job |-> NoPlace]
    /\ left = [j \in Job |-> {}]
    /\ open = [j \in Job |-> NoFile]
    /\ manifest = [j \in Job |-> NoPackage]
    /\ result = "none"
    /\ alone = [j \in Job |-> FALSE]
    /\ asked = [i \in Id |-> NoPackage]

-----------------------------------------------------------------------------
(* The beginning and the end of an install. *)

Begin(j, p, from, phase) ==
    /\ at[j] = "idle"
    /\ at' = [at EXCEPT ![j] = phase]
    /\ pkg' = [pkg EXCEPT ![j] = p]
    /\ root' = [root EXCEPT ![j] = from]
    /\ result' = "none"
    /\ alone' = [k \in Job |-> k = j /\ \A m \in Job \ {j} : at[m] = "idle"]
    /\ UNCHANGED <<dir, wiping, left, open, manifest, asked>>

InstallZip(j, p) == Begin(j, p, Staging, "check")
InstallDirectory(j, p) == p \in Unpacked /\ Begin(j, p, p, "read")

(* The locals of an install that ends are gone, its files stay. *)
Return(j, value) ==
    /\ at' = [at EXCEPT ![j] = "idle"]
    /\ pkg' = [pkg EXCEPT ![j] = NoPackage]
    /\ root' = [root EXCEPT ![j] = Staging]
    /\ wiping' = [wiping EXCEPT ![j] = NoPlace]
    /\ left' = [left EXCEPT ![j] = {}]
    /\ open' = [open EXCEPT ![j] = NoFile]
    /\ manifest' = [manifest EXCEPT ![j] = NoPackage]
    /\ result' = value
    /\ alone' = [alone EXCEPT ![j] = FALSE]

Continue(j, from, phase) == at[j] = from /\ at' = [at EXCEPT ![j] = phase]

-----------------------------------------------------------------------------
(* install_zip: the staging directory is made anew. *)

(* Mutations of CheckStaging: what an earlier install left stays there; or it
   is taken for an install in progress. *)
CheckStagingKeeping(j) ==
    /\ Continue(j, "check", "create")
    /\ result' = "none"
    /\ UNCHANGED <<dir, pkg, root, wiping, left, open, manifest, alone, asked>>
CheckStagingAsLock(j) ==
    /\ at[j] = "check"
    /\ IF dir[Staging] = NoDir
       THEN /\ at' = [at EXCEPT ![j] = "create"]
            /\ UNCHANGED <<pkg, root, wiping, left, open, manifest, alone>>
            /\ result' = "none"
       ELSE Return(j, "refused")
    /\ UNCHANGED <<dir, asked>>

CheckStaging(j) ==
    /\ Continue(j, "check", IF dir[Staging] = NoDir THEN "create" ELSE "wipe")
    /\ result' = "none"
    /\ UNCHANGED <<dir, pkg, root, wiping, left, open, manifest, alone, asked>>

(* remove_dir_all opens the directory and unlinks below the open directory, so
   it follows a rename; only the last call goes by the path again. *)
OpenStaging(j) ==
    /\ dir[Staging] # NoDir
    /\ Continue(j, "wipe", "unlink")
    /\ wiping' = [wiping EXCEPT ![j] = Staging]
    /\ result' = "none"
    /\ UNCHANGED <<dir, pkg, root, left, open, manifest, alone, asked>>

(* A file that is open elsewhere is written on without its name. *)
WipeFile(j) ==
    /\ wiping[j] # NoPlace
    /\ \E n \in DOMAIN dir[wiping[j]] :
          /\ dir' = [dir EXCEPT ![wiping[j]] = [m \in DOMAIN @ \ {n} |-> @[m]]]
          /\ open' = [k \in Job |-> IF open[k] = <<wiping[j], n>> THEN NoFile ELSE open[k]]
    /\ result' = "none"
    /\ UNCHANGED <<at, pkg, root, wiping, left, manifest, alone, asked>>

(* What came into the directory after it was listed stays. *)
WipeDir(j) ==
    /\ dir[Staging] = EmptyDir
    /\ dir' = [dir EXCEPT ![Staging] = NoDir]
    /\ Continue(j, "unlink", "create")
    /\ wiping' = [k \in Job |-> IF k = j \/ wiping[k] = Staging THEN NoPlace ELSE wiping[k]]
    /\ result' = "none"
    /\ UNCHANGED <<pkg, root, left, open, manifest, alone, asked>>

(* The directory was renamed or removed by another install meanwhile. *)
WipeNothing(j) ==
    /\ at[j] \in {"wipe", "unlink"} /\ dir[Staging] = NoDir
    /\ Return(j, "refused")
    /\ UNCHANGED <<dir, asked>>

CreateStaging(j) ==
    /\ Continue(j, "create", "extract")
    /\ dir' = [dir EXCEPT ![Staging] = IF @ = NoDir THEN EmptyDir ELSE @]
    /\ left' = [left EXCEPT ![j] = Entries[pkg[j]]]
    /\ result' = "none"
    /\ UNCHANGED <<pkg, root, wiping, open, manifest, alone, asked>>

-----------------------------------------------------------------------------
(* load_zip: each entry is created, after the directories above it, and then
   written.  Both go by the path, the write by the open file. *)

CreateFile(j, n) ==
    /\ n \in left[j]
    /\ Continue(j, "extract", "write")
    /\ dir' = [dir EXCEPT ![Staging] = Put(@, n, [of |-> pkg[j], whole |-> FALSE])]
    /\ open' = [open EXCEPT ![j] = <<Staging, n>>]
    /\ left' = [left EXCEPT ![j] = @ \ {n}]
    /\ result' = "none"
    /\ UNCHANGED <<pkg, root, wiping, manifest, alone, asked>>

(* Mutation of WriteFile: the file is not closed. *)
WriteFileLeftOpen(j) ==
    /\ open[j] # NoFile
    /\ Continue(j, "write", "extract")
    /\ dir' = [dir EXCEPT ![open[j][1]][open[j][2]] = [of |-> pkg[j], whole |-> TRUE]]
    /\ result' = "none"
    /\ UNCHANGED <<pkg, root, wiping, left, open, manifest, alone, asked>>

WriteFile(j) ==
    /\ Continue(j, "write", "extract")
    /\ dir' = IF open[j] = NoFile THEN dir
              ELSE [dir EXCEPT ![open[j][1]][open[j][2]] = [of |-> pkg[j], whole |-> TRUE]]
    /\ open' = [open EXCEPT ![j] = NoFile]
    /\ result' = "none"
    /\ UNCHANGED <<pkg, root, wiping, left, manifest, alone, asked>>

EntriesDone(j) ==
    /\ left[j] = {}
    /\ Continue(j, "extract", "read")
    /\ result' = "none"
    /\ UNCHANGED <<dir, pkg, root, wiping, left, open, manifest, alone, asked>>

-----------------------------------------------------------------------------
(* load_zip and load_directory: the manifest is read and the layout checked. *)

HasManifest(d) == d # NoDir /\ Manifest \in DOMAIN d

(* A manifest which is not all there may parse or not. *)
ReadManifest(j) ==
    /\ HasManifest(dir[root[j]])
    /\ Continue(j, "read", "layout")
    /\ manifest' = [manifest EXCEPT ![j] = dir[root[j]][Manifest].of]
    /\ result' = "none"
    /\ UNCHANGED <<dir, pkg, root, wiping, left, open, alone, asked>>

ManifestFails(j) ==
    /\ at[j] = "read"
    /\ HasManifest(dir[root[j]]) => ~dir[root[j]][Manifest].whole
    /\ Return(j, "refused")
    /\ UNCHANGED <<dir, asked>>

(* walk_package refuses every file whose path is absolute or has a component
   `..`, and the path of a file is that of the directory with its name. *)
Refusing == Absolute \cup Dotted
LayoutRefused(j) ==
    root[j] \in Refusing /\ dir[root[j]] \notin {NoDir, EmptyDir}

CheckLayout(j) ==
    /\ at[j] = "layout"
    /\ \/ LayoutRefused(j) /\ Return(j, "refused")
       \/ /\ ~LayoutRefused(j)
          /\ at' = [at EXCEPT ![j] = "target"]
          /\ UNCHANGED <<pkg, root, wiping, left, open, manifest, alone>>
          /\ result' = "none"
    /\ UNCHANGED <<dir, asked>>

-----------------------------------------------------------------------------
(* The manifest is validated, the target tested and the directory renamed. *)

CheckTarget(j) ==
    /\ at[j] = "target"
    /\ \/ manifest[j] \notin Valid /\ Return(j, "refused")
       \/ manifest[j] \in Valid /\ dir[SkinId[manifest[j]]] # NoDir /\ Return(j, "exists")
       \/ /\ manifest[j] \in Valid /\ dir[SkinId[manifest[j]]] = NoDir
          /\ at' = [at EXCEPT ![j] = "commit"]
          /\ UNCHANGED <<pkg, root, wiping, left, open, manifest, alone>>
          /\ result' = "none"
    /\ UNCHANGED <<dir, asked>>

(* Mutation of MayRename: the target is removed first. *)
MayReplace(from, to) == dir[from] # NoDir

(* rename(2) of a directory: it must be there, and the target must not, or be
   an empty one. *)
MayRename(from, to) == dir[from] # NoDir /\ dir[to] \in {NoDir, EmptyDir}

(* What is open of the directory or below it stays open under its new name. *)
Commit(j) ==
    LET i == SkinId[manifest[j]]
    IN  /\ at[j] = "commit" /\ MayRename(root[j], i)
        /\ dir' = [dir EXCEPT ![i] = dir[root[j]], ![root[j]] = NoDir]
        /\ at' = [at EXCEPT ![j] = "idle"]
        /\ pkg' = [pkg EXCEPT ![j] = NoPackage]
        /\ root' = [root EXCEPT ![j] = Staging]
        /\ manifest' = [manifest EXCEPT ![j] = NoPackage]
        /\ result' = "ok"
        /\ alone' = [alone EXCEPT ![j] = FALSE]
        /\ open' = [k \in Job |-> IF open[k] # NoFile /\ open[k][1] = root[j]
                                  THEN <<i, open[k][2]>> ELSE open[k]]
        /\ wiping' = [k \in Job |-> IF wiping[k] = root[j] THEN i
                                    ELSE IF wiping[k] = i THEN NoPlace ELSE wiping[k]]
        /\ asked' = [asked EXCEPT ![i] = IF alone[j] THEN pkg[j] ELSE NoPackage]
        /\ UNCHANGED left

CommitFails(j) ==
    /\ at[j] = "commit" /\ ~MayRename(root[j], SkinId[manifest[j]])
    /\ Return(j, "refused")
    /\ UNCHANGED <<dir, asked>>

-----------------------------------------------------------------------------
(* Any call may fail, an archive may be damaged or beyond the limits, and the
   process may die: the install is over and its files stay. *)
BreakOff(j) ==
    /\ at[j] # "idle"
    /\ Return(j, "io")
    /\ UNCHANGED <<dir, asked>>

(* "remove it first" *)
Uninstall(i) ==
    /\ dir[i] # NoDir /\ \A j \in Job : at[j] = "idle"
    /\ dir' = [dir EXCEPT ![i] = NoDir]
    /\ asked' = [asked EXCEPT ![i] = NoPackage]
    /\ result' = "none"
    /\ UNCHANGED jobVars

JobStep(j) ==
    \/ CheckStaging(j) \/ OpenStaging(j) \/ WipeFile(j) \/ WipeDir(j) \/ WipeNothing(j) \/ CreateStaging(j)
    \/ (\E n \in Name : CreateFile(j, n)) \/ WriteFile(j) \/ EntriesDone(j)
    \/ ReadManifest(j) \/ ManifestFails(j) \/ CheckLayout(j) \/ CheckTarget(j)
    \/ Commit(j) \/ CommitFails(j)

Next ==
    \/ \E j \in Job :
          \/ \E p \in Package : InstallZip(j, p) \/ InstallDirectory(j, p)
          \/ JobStep(j)
          \/ BreakOff(j)
    \/ \E i \in Id : Uninstall(i)

Spec == Init /\ [][Next]_vars

-----------------------------------------------------------------------------
(* Properties *)

(* A skin made by an install that had the staging directory to itself is the
   package asked for, under its own id, whole, and without a file of any other
   package, whatever earlier installs, broken off anywhere, have left behind
   and later ones do. *)
InstalledAsAsked ==
    \A i \in Id : asked[i] # NoPackage =>
        asked[i] \in Valid /\ SkinId[asked[i]] = i /\ dir[i] = Whole(asked[i])

(* However installs overlap, a skin that is installed and of which no install
   has anything open any more is never changed again: the test before the
   rename may be outdated, the rename is not.  (An install that had the staging
   directory or a file in it open when it was renamed goes on writing to, and
   removing, the files of the skin.) *)
Settled(i) ==
    /\ dir[i] \notin {NoDir, EmptyDir}
    /\ \A j \in Job : wiping[j] # i /\ (open[j] # NoFile => open[j][1] # i)

InstalledIsKept ==
    [][\A i \in Id : Settled(i) => Uninstall(i) \/ (dir'[i] = dir[i] /\ Settled(i)')]_vars

(* An install of a valid package that is alone ends without an error of the
   file system only with the skin in place or with AlreadyInstalled: nothing
   an earlier install left can make it fail, unless walk_package refuses the
   path it installs from. *)
EndsInstalled(j) ==
    at[j] # "idle" /\ at'[j] = "idle" /\ alone[j] /\ pkg[j] \in Valid /\ dir[root[j]] # NoDir
        => result' # "refused"

LeftoversAreHarmless ==
    [][\A j \in Job : root[j] \notin Refusing => EndsInstalled(j)]_vars

(* The doc of install_zip (installer.rs:42): "The package is extracted into
   `paths.data_dir/skins/<id>/`, the manifest is validated, and the path is
   returned." *)
ValidPackageIsInstalled == [][\A j \in Job : EndsInstalled(j)]_vars
=============================================================================
