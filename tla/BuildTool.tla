----------------------------- MODULE BuildTool -----------------------------
(***************************************************************************)
(* src/buildtool: Vim's sources are unpacked from a tarball or cloned from *)
(* a Git repository, packaged, configured, built, and the result packaged, *)
(* by one "build" or by a command for each phase.  The programs it runs    *)
(* may fail, and it may be interrupted, with which the finally clause      *)
(* runs, or killed.  The removal in the finally clause may itself fail or  *)
(* be interrupted.  Between commands the user may edit the sources and     *)
(* remove what is in the way.                                              *)
(*                                                                         *)
(* A directory or archive is the set of its files; there is one version of *)
(* Vim, and one command at a time.                                         *)
(***************************************************************************)
EXTENDS Naturals, Sequences

CONSTANTS
    Files,    \* the files of Vim's sources
    NoFile,   \* in place of the files of what does not exist
    MaxRuns,  \* bound: commands
    MaxEdits  \* bound: files the user adds or removes

ASSUME BuildToolAssumption == MaxRuns \in Nat /\ MaxEdits \in Nat

VARIABLES
    pc,                 \* the step, "idle" between commands
    todo,               \* the phases after this one
    tmp_extract_dir,    \* __TMP_EXTRACT__
    dest_dir,           \* vim-<version>, with the sources
    src_dir,            \* build/vim-<version> in it
    dest,               \* build/DESTDIR in it
    src_tar,            \* the source archive
    bin_tar,            \* the binary archive
    unpacked,           \* the files of the last source whose unpacking began
    succeeded,          \* the last command that ended well
    cut,                \* did the last unpack_tar end before its finally clause?
    runs, edits

counts == <<runs, edits>>
trees  == <<tmp_extract_dir, dest_dir, src_dir, dest>>
tars   == <<src_tar, bin_tar>>
vars   == <<pc, todo, trees, tars, unpacked, succeeded, cut, counts>>

Exists(tree) == tree # NoFile

FirstStep(phase) ==
    CASE phase = "unpack_tar" -> "look_for_tmp"
      [] phase = "unpack_git" -> "look_for_dest"
      [] phase = "packagesrc" -> "remove_src_tar"
      [] phase = "configure"  -> "configure"
      [] phase = "make"       -> "make"
      [] phase = "package"    -> "remove_dest"

Commands ==
    {<<"unpack_tar", "packagesrc", "configure", "make", "package">>,
     <<"unpack_git", "packagesrc", "configure", "make", "package">>,
     <<"unpack_tar">>, <<"unpack_git">>,
     <<"packagesrc">>, <<"configure">>, <<"make">>, <<"package">>}

\* A command without unpacking runs in the sources.
Start(phases) ==
    /\ pc = "idle" /\ runs < MaxRuns
    /\ Head(phases) \in {"unpack_tar", "unpack_git"} \/ Exists(dest_dir)
    /\ pc' = FirstStep(Head(phases)) /\ todo' = Tail(phases)
    /\ unpacked' \in IF Head(phases) \in {"unpack_tar", "unpack_git"}
                     THEN (SUBSET Files) \ {{}} ELSE {unpacked}
    /\ succeeded' = "none"
    /\ runs' = runs + 1
    /\ UNCHANGED <<trees, tars, cut, edits>>

EndPhase(phase) ==
    /\ pc' = IF todo = <<>> THEN "idle" ELSE FirstStep(Head(todo))
    /\ todo' = IF todo = <<>> THEN <<>> ELSE Tail(todo)
    /\ succeeded' = IF todo = <<>> THEN phase ELSE "none"

\* The steps of unpack_tar in its try, and with its finally clause.
InTry   == {"mkdir", "extract", "look_for_tree", "rename"}
Guarded == InTry \cup {"cleanup", "cleanup_failed"}

\* An exception: in the try of unpack_tar, or one that ends it all.
Raise ==
    /\ pc' = IF pc \in InTry THEN "cleanup_failed" ELSE "idle"
    /\ todo' = <<>>
    /\ UNCHANGED <<unpacked, succeeded, counts>>

Fail == Raise /\ UNCHANGED cut

Go(step) == pc' = step /\ UNCHANGED <<todo, unpacked, succeeded, cut, counts>>
Goes(phase) == EndPhase(phase) /\ UNCHANGED <<unpacked, cut, counts>>

-----------------------------------------------------------------------------
(***************************************************************************)
(* unpack_tar and unpack_git.                                              *)
(***************************************************************************)
LookForTmp ==
    /\ pc = "look_for_tmp"
    /\ IF Exists(tmp_extract_dir) THEN Fail ELSE Go("mkdir")
    /\ UNCHANGED <<trees, tars>>

MakeTmp ==
    /\ pc = "mkdir"
    /\ tmp_extract_dir' = {}
    /\ cut' = FALSE
    /\ pc' = "extract"
    /\ UNCHANGED <<todo, unpacked, succeeded, counts, dest_dir, src_dir, dest, tars>>

\* tar, what it left is looked at, and its version found.
Extract ==
    /\ pc = "extract"
    /\ \/ tmp_extract_dir' = unpacked /\ Go("look_for_tree")
       \/ tmp_extract_dir' \in SUBSET unpacked /\ Fail
    /\ UNCHANGED <<dest_dir, src_dir, dest, tars>>

LookForTree ==
    /\ pc = "look_for_tree"
    /\ IF Exists(dest_dir) THEN Fail ELSE Go("rename")
    /\ UNCHANGED <<trees, tars>>

\* os.rename replaces an empty directory, and no other.
Occupied ==
    /\ Exists(dest_dir)
    /\ dest_dir # {} \/ \E tree \in {src_dir, dest, src_tar, bin_tar} : Exists(tree)

\* Mutant: shutil.copytree, which may fail in the middle.
CopyTree ==
    /\ pc = "rename"
    /\ \/ Occupied /\ Fail /\ UNCHANGED dest_dir
       \/ ~Occupied /\ dest_dir' = tmp_extract_dir /\ Go("cleanup")
       \/ ~Occupied /\ dest_dir' \in SUBSET tmp_extract_dir /\ Fail
    /\ UNCHANGED <<tmp_extract_dir, src_dir, dest, tars>>

\* What a directory of that name had in build/ is of no tree any more.
RenameTree ==
    /\ pc = "rename"
    /\ IF Occupied
       THEN Fail /\ UNCHANGED <<trees, tars>>
       ELSE /\ dest_dir' = tmp_extract_dir /\ tmp_extract_dir' = {}
            /\ src_dir' = NoFile /\ dest' = NoFile
            /\ src_tar' = NoFile /\ bin_tar' = NoFile
            /\ Go("cleanup")

\* Mutant: only after an unpacking that worked.
CleanupIfDone ==
    /\ pc \in {"cleanup", "cleanup_failed"}
    /\ IF pc = "cleanup"
       THEN tmp_extract_dir' = NoFile /\ Goes("unpack")
       ELSE Fail /\ UNCHANGED tmp_extract_dir
    /\ UNCHANGED <<dest_dir, src_dir, dest, tars>>

Cleanup ==
    /\ pc \in {"cleanup", "cleanup_failed"}
    /\ tmp_extract_dir' = NoFile
    /\ IF pc = "cleanup" THEN Goes("unpack") ELSE Fail
    /\ UNCHANGED <<dest_dir, src_dir, dest, tars>>

\* rm_rf removes file by file, and an error or CTRL-C ends it: a part is left,
\* and the command fails even if the sources are in their place by then.
CleanupFails ==
    /\ pc \in {"cleanup", "cleanup_failed"}
    /\ \/ Exists(tmp_extract_dir) /\ tmp_extract_dir' \in SUBSET tmp_extract_dir
       \/ tmp_extract_dir' = NoFile
    /\ cut' = TRUE /\ Raise
    /\ UNCHANGED <<dest_dir, src_dir, dest, tars>>

LookForDest ==
    /\ pc = "look_for_dest"
    /\ IF Exists(dest_dir) THEN Fail ELSE Go("clone")
    /\ UNCHANGED <<trees, tars>>

\* git clone makes the directory, and removes it when it fails or is
\* interrupted, unless Python, which waits only briefly for a program after
\* CTRL-C, kills it before it is done.
Clone ==
    /\ pc = "clone"
    /\ dest_dir' = {} /\ src_dir' = NoFile /\ dest' = NoFile
    /\ src_tar' = NoFile /\ bin_tar' = NoFile
    /\ Go("cloning")
    /\ UNCHANGED tmp_extract_dir

CloneEnds ==
    /\ pc = "cloning"
    /\ \/ dest_dir' = unpacked /\ Goes("unpack")
       \/ dest_dir' \in {NoFile} \cup SUBSET unpacked /\ Fail
    /\ UNCHANGED <<tmp_extract_dir, src_dir, dest, tars>>

-----------------------------------------------------------------------------
(***************************************************************************)
(* package_src, configure, make and package.                               *)
(***************************************************************************)
\* The archive of an earlier run goes first, then "make distclean".
RemoveSrcTar ==
    /\ pc = "remove_src_tar"
    /\ src_tar' = NoFile
    /\ (Go("extract_src") \/ Fail)
    /\ UNCHANGED <<trees, bin_tar>>

\* mkdir_p leaves a src_dir of an earlier run as it is, and the sources are
\* extracted into it.
ExtractSrc ==
    /\ pc = "extract_src"
    /\ LET there == IF Exists(src_dir) THEN src_dir ELSE {}
       IN  \/ src_dir' = there \cup dest_dir /\ Go("tar_src")
           \/ \E part \in SUBSET dest_dir : src_dir' = there \cup part /\ Fail
    /\ UNCHANGED <<tmp_extract_dir, dest_dir, dest, tars>>

TarSrc ==
    /\ pc = "tar_src"
    /\ \/ src_tar' = src_dir /\ Goes("packagesrc")
       \/ src_tar' \in SUBSET src_dir /\ Fail
    /\ UNCHANGED <<trees, bin_tar>>

ConfigureOrMake ==
    /\ pc \in {"configure", "make"}
    /\ (Goes(pc) \/ Fail)
    /\ UNCHANGED <<trees, tars>>

\* Mutant: what an earlier run installed stays.
KeepDest ==
    /\ pc = "remove_dest"
    /\ dest' = IF Exists(dest) THEN dest ELSE {}
    /\ Go("install")
    /\ UNCHANGED <<tmp_extract_dir, dest_dir, src_dir, tars>>

RemoveDest ==
    /\ pc = "remove_dest"
    /\ \/ dest' = {} /\ Go("install")
       \/ Exists(dest) /\ dest' \in SUBSET dest /\ Fail
    /\ UNCHANGED <<tmp_extract_dir, dest_dir, src_dir, tars>>

\* "make install" makes what is missing, and the modes are set.
Install ==
    /\ pc = "install"
    /\ \/ dest' = dest \cup dest_dir /\ Go("tar_bin")
       \/ \E part \in SUBSET dest_dir : dest' = dest \cup part /\ Fail
    /\ UNCHANGED <<tmp_extract_dir, dest_dir, src_dir, tars>>

TarBin ==
    /\ pc = "tar_bin"
    /\ \/ bin_tar' = dest /\ Goes("package")
       \/ bin_tar' \in SUBSET dest /\ Fail
    /\ UNCHANGED <<trees, src_tar>>

-----------------------------------------------------------------------------
\* CTRL-C; in the finally clause it is CleanupFails, in git clone CloneEnds.
Interrupt ==
    /\ pc \notin {"idle", "cleanup", "cleanup_failed", "cloning"}
    /\ Fail
    /\ UNCHANGED <<trees, tars>>

Kill ==
    /\ pc # "idle"
    /\ pc' = "idle" /\ todo' = <<>>
    /\ cut' = (cut \/ pc \in Guarded)
    /\ UNCHANGED <<trees, tars, unpacked, succeeded, counts>>

\* The user edits the sources, or removes what a command complained of.
Edit(f) ==
    /\ pc = "idle" /\ Exists(dest_dir) /\ edits < MaxEdits
    /\ dest_dir' = IF f \in dest_dir THEN dest_dir \ {f} ELSE dest_dir \cup {f}
    /\ succeeded' = "none"
    /\ edits' = edits + 1
    /\ UNCHANGED <<pc, todo, tmp_extract_dir, src_dir, dest, tars, unpacked, cut, runs>>

RemoveTmp ==
    /\ pc = "idle" /\ Exists(tmp_extract_dir) /\ tmp_extract_dir' = NoFile
    /\ UNCHANGED <<pc, todo, dest_dir, src_dir, dest, tars, unpacked, succeeded, cut, counts>>

RemoveTree ==
    /\ pc = "idle" /\ Exists(dest_dir)
    /\ dest_dir' = NoFile /\ src_dir' = NoFile /\ dest' = NoFile
    /\ src_tar' = NoFile /\ bin_tar' = NoFile /\ succeeded' = "none"
    /\ UNCHANGED <<pc, todo, tmp_extract_dir, unpacked, cut, counts>>

Init ==
    /\ pc = "idle" /\ todo = <<>>
    /\ tmp_extract_dir = NoFile /\ dest_dir = NoFile /\ src_dir = NoFile
    /\ dest = NoFile /\ src_tar = NoFile /\ bin_tar = NoFile
    /\ unpacked = {} /\ succeeded = "none" /\ cut = FALSE
    /\ runs = 0 /\ edits = 0

Next ==
    \/ \E phases \in Commands : Start(phases)
    \/ LookForTmp \/ MakeTmp \/ Extract \/ LookForTree \/ RenameTree
    \/ Cleanup \/ CleanupFails
    \/ LookForDest \/ Clone \/ CloneEnds
    \/ RemoveSrcTar \/ ExtractSrc \/ TarSrc \/ ConfigureOrMake
    \/ RemoveDest \/ Install \/ TarBin
    \/ Interrupt \/ Kill
    \/ \E f \in Files : Edit(f)
    \/ RemoveTmp \/ RemoveTree

Spec == Init /\ [][Next]_vars

-----------------------------------------------------------------------------
(***************************************************************************)
(* Properties.                                                             *)
(***************************************************************************)
\* A temporary directory that stands in the way of the next command is there
\* only if the last extraction was killed, or its removal failed or was
\* interrupted: no other failure or interrupt, of any command, leaves one.
TmpMeansCut == pc = "idle" /\ Exists(tmp_extract_dir) => cut

\* Whatever fails, and however a command ends, sources that come from a tarball
\* are there completely or not at all, and no command touches the ones that
\* are there: only the user does.
TreesSafe ==
    [][dest_dir' # dest_dir =>
        \/ pc = "idle"
        \/ ~Exists(dest_dir) /\ pc = "rename" /\ dest_dir' = unpacked
        \/ ~Exists(dest_dir) /\ pc = "clone"
        \/ pc = "cloning"]_vars

\* The binary archive of a successful command has what these sources install,
\* and nothing an earlier build has left.
BinArchiveFresh == succeeded = "package" => bin_tar = dest_dir
=============================================================================
