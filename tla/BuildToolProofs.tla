-------------------------- MODULE BuildToolProofs --------------------------
(***************************************************************************)
(* Theorems about BuildTool: for any files, any number of commands and     *)
(* edits, and failures, interrupts and kills at any step.                  *)
(***************************************************************************)
EXTENDS BuildTool, TLAPS

Phases == {"unpack_tar", "unpack_git", "packagesrc", "configure", "make", "package"}

FirstSteps ==
    {"look_for_tmp", "look_for_dest", "remove_src_tar", "configure", "make",
     "remove_dest"}

\* The phases a command has still to run are known to FirstStep, and it has a
\* result only when it has ended.
CommandInv ==
    /\ todo \in Seq(Phases)
    /\ succeeded # "none" => pc = "idle"

\* What a phase has found or done it may rely on in its next step.
TmpInv == Exists(tmp_extract_dir) => cut \/ pc \in Guarded

TreeInv ==
    /\ pc \in {"look_for_tree", "rename"} => tmp_extract_dir = unpacked
    /\ pc \in {"rename", "clone"} => ~Exists(dest_dir)

DestInv ==
    /\ pc = "install" => dest = {}
    /\ pc = "tar_bin" => dest = dest_dir
    /\ BinArchiveFresh

IInv == CommandInv /\ TmpInv /\ TreeInv /\ DestInv

-----------------------------------------------------------------------------
\* A phase starts with a step that relies on nothing.
LEMMA FirstStepRange == \A phase \in Phases : FirstStep(phase) \in FirstSteps
<1>1. /\ FirstStep("unpack_tar") = "look_for_tmp"
      /\ FirstStep("unpack_git") = "look_for_dest"
      /\ FirstStep("packagesrc") = "remove_src_tar"
      /\ FirstStep("configure") = "configure"
      /\ FirstStep("make") = "make"
      /\ FirstStep("package") = "remove_dest"
  BY Zenon DEF FirstStep
<1>. QED  BY <1>1 DEF Phases, FirstSteps

LEMMA CommandsKnown ==
    \A phases \in Commands :
        Head(phases) \in Phases /\ Tail(phases) \in Seq(Phases)
<1>1. Commands \subseteq Seq(Phases) \ {<<>>}
  BY DEF Commands, Phases
<1>. QED  BY <1>1

\* When a phase ends, the next one starts or the command has ended.
LEMMA PhaseEnds ==
    ASSUME CommandInv, NEW phase, EndPhase(phase)
    PROVE  /\ todo' \in Seq(Phases)
           /\ pc' \in FirstSteps \cup {"idle"}
           /\ succeeded' = phase \/ succeeded' = "none"
           /\ succeeded' # "none" => pc' = "idle"
<1>1. CASE todo = <<>>
  BY <1>1 DEF EndPhase, CommandInv
<1>2. CASE todo # <<>>
  <2>1. Head(todo) \in Phases /\ Tail(todo) \in Seq(Phases)
    BY <1>2 DEF CommandInv
  <2>. QED  BY <1>2, <2>1, FirstStepRange DEF EndPhase
<1>. QED  BY <1>1, <1>2

LEMMA InitIInv == Init => IInv
BY DEF Init, IInv, CommandInv, TmpInv, TreeInv, DestInv, BinArchiveFresh, Exists

LEMMA StartIInv ==
    ASSUME IInv, NEW phases \in Commands, Start(phases)
    PROVE  IInv'
<1>1. pc' \in FirstSteps /\ todo' \in Seq(Phases)
  BY CommandsKnown, FirstStepRange DEF Start
<1>. QED
  BY <1>1 DEF IInv, Start, CommandInv, TmpInv, TreeInv, DestInv, BinArchiveFresh,
              Exists, FirstSteps, Guarded, InTry, trees, tars

\* An exception leaves either the finally clause to run or nothing.
LEMMA Fails ==
    ASSUME CommandInv, pc # "idle", Raise
    PROVE  /\ CommandInv' /\ succeeded' = "none"
           /\ pc' = IF pc \in InTry THEN "cleanup_failed" ELSE "idle"
           /\ unpacked' = unpacked
BY DEF Raise, CommandInv, InTry, counts

\* Neither of the two steps an exception leads to relies on anything but the
\* temporary directory's being gone, unless its removal was cut short.
LEMMA RaiseIInv ==
    ASSUME IInv, pc # "idle", Raise,
           Exists(tmp_extract_dir')
             => cut' \/ pc \in InTry \/ (Exists(tmp_extract_dir) /\ pc \notin Guarded),
           cut => cut'
    PROVE  IInv'
<1>1. /\ CommandInv' /\ succeeded' = "none"
      /\ pc' = IF pc \in InTry THEN "cleanup_failed" ELSE "idle"
  BY Fails DEF IInv
<1>. QED
  BY <1>1 DEF IInv, TmpInv, TreeInv, DestInv, BinArchiveFresh, Exists, Guarded,
              InTry

LEMMA FailIInv ==
    ASSUME IInv, pc # "idle", Fail,
           Exists(tmp_extract_dir') => Exists(tmp_extract_dir) \/ pc \in InTry,
           pc \notin {"cleanup_failed", "cleanup"} \/ ~Exists(tmp_extract_dir')
    PROVE  IInv'
BY RaiseIInv DEF Fail, Guarded

\* A phase that ends, other than package, and its archive.
LEMMA GoesIInv ==
    ASSUME IInv, NEW phase, phase # "package", Goes(phase),
           pc \notin InTry,
           Exists(tmp_extract_dir') => Exists(tmp_extract_dir),
           pc \in Guarded => ~Exists(tmp_extract_dir')
    PROVE  IInv'
<1>1. /\ CommandInv' /\ pc' \in FirstSteps \cup {"idle"}
      /\ succeeded' # "package" /\ cut' = cut
  BY PhaseEnds DEF IInv, Goes, CommandInv, counts
<1>. QED
  BY <1>1 DEF IInv, TmpInv, TreeInv, DestInv, BinArchiveFresh, Exists, FirstSteps

-----------------------------------------------------------------------------
\* unpack_tar and unpack_git
LEMMA UnpackIInv ==
    ASSUME IInv,
           \/ LookForTmp \/ MakeTmp \/ Extract \/ LookForTree \/ RenameTree
           \/ Cleanup \/ CleanupFails \/ LookForDest \/ Clone \/ CloneEnds
    PROVE  IInv'
<1>. USE DEF Go, counts, trees, tars, InTry
<1>1. CASE LookForTmp
  <2>1. CASE Exists(tmp_extract_dir)
    BY <1>1, <2>1, FailIInv DEF LookForTmp
  <2>2. CASE ~Exists(tmp_extract_dir)
    BY <1>1, <2>2 DEF LookForTmp, IInv, CommandInv, TmpInv, TreeInv, DestInv,
                      BinArchiveFresh, Exists
  <2>. QED  BY <2>1, <2>2
<1>2. CASE MakeTmp
  BY <1>2 DEF MakeTmp, IInv, CommandInv, TmpInv, TreeInv, DestInv,
              BinArchiveFresh, Exists, Guarded
<1>3. CASE Extract
  <2>1. CASE Fail
    BY <1>3, <2>1, FailIInv DEF Extract
  <2>2. CASE tmp_extract_dir' = unpacked /\ Go("look_for_tree")
    BY <1>3, <2>2 DEF Extract, IInv, CommandInv, TmpInv, TreeInv, DestInv,
                      BinArchiveFresh, Exists, Guarded
  <2>. QED  BY <1>3, <2>1, <2>2 DEF Extract
<1>4. CASE LookForTree
  <2>1. CASE Exists(dest_dir)
    BY <1>4, <2>1, FailIInv DEF LookForTree
  <2>2. CASE ~Exists(dest_dir)
    BY <1>4, <2>2 DEF LookForTree, IInv, CommandInv, TmpInv, TreeInv, DestInv,
                      BinArchiveFresh, Exists, Guarded
  <2>. QED  BY <2>1, <2>2
<1>5. CASE RenameTree
  <2>1. CASE Occupied
    BY <1>5, <2>1, FailIInv DEF RenameTree
  <2>2. CASE ~Occupied
    BY <1>5, <2>2 DEF RenameTree, IInv, CommandInv, TmpInv, TreeInv, DestInv,
                      BinArchiveFresh, Exists, Guarded
  <2>. QED  BY <2>1, <2>2
<1>10. CASE CleanupFails
  BY <1>10, RaiseIInv DEF CleanupFails
<1>6. CASE Cleanup
  <2>1. CASE Fail
    BY <1>6, <2>1, FailIInv DEF Cleanup, Exists
  <2>2. CASE Goes("unpack")
    BY <1>6, <2>2, GoesIInv DEF Cleanup, Exists
  <2>. QED  BY <1>6, <2>1, <2>2 DEF Cleanup
<1>7. CASE LookForDest
  <2>1. CASE Exists(dest_dir)
    BY <1>7, <2>1, FailIInv DEF LookForDest
  <2>2. CASE ~Exists(dest_dir)
    BY <1>7, <2>2 DEF LookForDest, IInv, CommandInv, TmpInv, TreeInv, DestInv,
                      BinArchiveFresh, Exists, Guarded
  <2>. QED  BY <2>1, <2>2
<1>8. CASE Clone
  BY <1>8 DEF Clone, IInv, CommandInv, TmpInv, TreeInv, DestInv,
              BinArchiveFresh, Exists, Guarded
<1>9. CASE CloneEnds
  <2>1. CASE Fail
    BY <1>9, <2>1, FailIInv DEF CloneEnds
  <2>2. CASE Goes("unpack")
    BY <1>9, <2>2, GoesIInv DEF CloneEnds, Guarded
  <2>. QED  BY <1>9, <2>1, <2>2 DEF CloneEnds
<1>. QED  BY <1>1, <1>2, <1>3, <1>4, <1>5, <1>6, <1>7, <1>8, <1>9, <1>10

\* package_src, configure and make
LEMMA SourceIInv ==
    ASSUME IInv, RemoveSrcTar \/ ExtractSrc \/ TarSrc \/ ConfigureOrMake
    PROVE  IInv'
<1>. USE DEF trees, tars, InTry, Guarded
<1>1. CASE Fail
  BY <1>1, FailIInv DEF RemoveSrcTar, ExtractSrc, TarSrc, ConfigureOrMake
<1>2. CASE TarSrc /\ Goes("packagesrc")
  BY <1>2, GoesIInv DEF TarSrc
<1>3. CASE ConfigureOrMake /\ Goes(pc)
  BY <1>3, GoesIInv DEF ConfigureOrMake
<1>4. CASE (RemoveSrcTar /\ Go("extract_src")) \/ (ExtractSrc /\ Go("tar_src"))
  BY <1>4 DEF RemoveSrcTar, ExtractSrc, Go, counts, IInv, CommandInv, TmpInv,
              TreeInv, DestInv, BinArchiveFresh, Exists
<1>. QED
  BY <1>1, <1>2, <1>3, <1>4 DEF RemoveSrcTar, ExtractSrc, TarSrc, ConfigureOrMake

\* package
LEMMA PackageIInv ==
    ASSUME IInv, RemoveDest \/ Install \/ TarBin
    PROVE  IInv'
<1>. USE DEF trees, tars, InTry, Guarded
<1>1. CASE Fail
  BY <1>1, FailIInv DEF RemoveDest, Install, TarBin
<1>2. CASE (RemoveDest /\ Go("install")) \/ (Install /\ Go("tar_bin"))
  <2>1. CASE RemoveDest /\ Go("install")
    BY <2>1 DEF RemoveDest, Go, Fail, Raise, counts, IInv, CommandInv, TmpInv,
                TreeInv, DestInv, BinArchiveFresh, Exists
  <2>2. CASE Install /\ Go("tar_bin")
    <3>1. dest' = {} \cup dest_dir
      BY <2>2 DEF Install, Go, Fail, Raise, IInv, DestInv
    <3>2. dest' = dest_dir
      BY <3>1
    <3>. QED
      BY <2>2, <3>2 DEF Install, Go, counts, IInv, CommandInv, TmpInv, TreeInv,
                        DestInv, BinArchiveFresh, Exists
  <2>. QED  BY <1>2, <2>1, <2>2
<1>3. CASE TarBin /\ bin_tar' = dest /\ Goes("package")
  <2>1. /\ CommandInv' /\ pc' \in FirstSteps \cup {"idle"} /\ cut' = cut
    BY <1>3, PhaseEnds DEF IInv, Goes, CommandInv, counts
  <2>2. bin_tar' = dest_dir'
    BY <1>3 DEF TarBin, IInv, DestInv
  <2>. QED
    BY <1>3, <2>1, <2>2 DEF TarBin, IInv, TmpInv, TreeInv, DestInv,
                            BinArchiveFresh, Exists, FirstSteps
<1>. QED  BY <1>1, <1>2, <1>3 DEF RemoveDest, Install, TarBin

\* Interrupts and kills, and what the user does between commands
LEMMA OutsideIInv ==
    ASSUME IInv,
           \/ Interrupt \/ Kill \/ (\E f \in Files : Edit(f))
           \/ RemoveTmp \/ RemoveTree
    PROVE  IInv'
<1>. USE DEF trees, tars, counts
<1>1. CASE Interrupt
  BY <1>1, FailIInv DEF Interrupt
<1>2. CASE Kill
  <2>1. cut \/ pc \in Guarded => cut'
    BY <1>2, Zenon DEF Kill
  <2>. QED
    BY <1>2, <2>1 DEF Kill, IInv, CommandInv, TmpInv, TreeInv, DestInv,
                      BinArchiveFresh, Exists
<1>3. CASE \E f \in Files : Edit(f)
  BY <1>3 DEF Edit, IInv, CommandInv, TmpInv, TreeInv, DestInv, BinArchiveFresh,
              Exists, Guarded, InTry
<1>4. CASE RemoveTmp \/ RemoveTree
  BY <1>4 DEF RemoveTmp, RemoveTree, IInv, CommandInv, TmpInv, TreeInv, DestInv,
              BinArchiveFresh, Exists, Guarded, InTry
<1>. QED  BY <1>1, <1>2, <1>3, <1>4

LEMMA StepIInv == IInv /\ [Next]_vars => IInv'
<1>. SUFFICES ASSUME IInv, [Next]_vars PROVE IInv'
  OBVIOUS
<1>1. CASE Next
  BY <1>1, StartIInv, UnpackIInv, SourceIInv, PackageIInv, OutsideIInv DEF Next
<1>2. CASE UNCHANGED vars
  BY <1>2 DEF vars, trees, tars, counts, IInv, CommandInv, TmpInv, TreeInv,
              DestInv, BinArchiveFresh, Exists
<1>. QED  BY <1>1, <1>2

LEMMA AlwaysIInv == Spec => []IInv
BY InitIInv, StepIInv, PTL DEF Spec

-----------------------------------------------------------------------------
\* The temporary directory of unpack_tar stands in the way of the next command
\* only if the extraction was killed or the removal at its end did not get to
\* its end; failures and interrupts before that leave nothing.
THEOREM TmpRemoved == Spec => []TmpMeansCut
<1>1. IInv => TmpMeansCut
  BY DEF IInv, TmpInv, TmpMeansCut, Guarded, InTry
<1>. QED  BY <1>1, AlwaysIInv, PTL

\* After a successful package the binary archive is of these sources.
THEOREM BinArchiveAlwaysFresh == Spec => []BinArchiveFresh
<1>1. IInv => BinArchiveFresh
  BY DEF IInv, DestInv
<1>. QED  BY <1>1, AlwaysIInv, PTL

\* The action of TreesSafe.
SafeStep ==
    dest_dir' # dest_dir =>
        \/ pc = "idle"
        \/ ~Exists(dest_dir) /\ pc = "rename" /\ dest_dir' = unpacked
        \/ ~Exists(dest_dir) /\ pc = "clone"
        \/ pc = "cloning"

\* Sources that are there are never replaced or touched by a command, and those
\* of a tarball appear whole.
THEOREM TreesAlwaysSafe == Spec => TreesSafe
<1>1. IInv /\ [Next]_vars => [SafeStep]_vars
  <2>. SUFFICES ASSUME IInv, Next, dest_dir' # dest_dir, pc # "idle"
                PROVE  SafeStep
    BY DEF SafeStep
  <2>1. RenameTree \/ Clone \/ CloneEnds
    BY DEF Next, Start, LookForTmp, MakeTmp, Extract, LookForTree, Cleanup,
           CleanupFails, LookForDest, RemoveSrcTar, ExtractSrc, TarSrc, ConfigureOrMake,
           RemoveDest, Install, TarBin, Interrupt, Kill, Edit, RemoveTmp,
           RemoveTree, trees, tars
  <2>2. CASE RenameTree
    <3>1. pc = "rename" /\ dest_dir' = tmp_extract_dir
      BY <2>2 DEF RenameTree, trees
    <3>. QED  BY <3>1 DEF SafeStep, IInv, TreeInv
  <2>. QED  BY <2>1, <2>2 DEF Clone, CloneEnds, SafeStep, IInv, TreeInv
<1>. QED  BY <1>1, AlwaysIInv, PTL DEF Spec, TreesSafe, SafeStep
=============================================================================
