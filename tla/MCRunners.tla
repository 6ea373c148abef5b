----------------------------- MODULE MCRunners ------------------------------
(***************************************************************************)
(* Where and how jobs run, for TLC: the switch of a repository to private  *)
(* runners, the labels that its workflows get, the nightly runner, the     *)
(* build of the runner images, and the readers of image archives.          *)
(*                                                                         *)
(* The components do not interact: every behaviour is one of a single      *)
(* component, which part names, and the slots hold its variables.  Each    *)
(* component has its own instance of the constants below.                  *)
(***************************************************************************)
EXTENDS Naturals, TLC

CONSTANTS
  Switches, Clients, App, Outsider, MaxOutside,       \* of the runner mode
  Workflows,                                             \* of the labels
  Invocations, Repositories,                             \* of the nightly runner
  Variants, MaxDepth, MaxVisits,                         \* of the archives
  ImagePaths, Anchor, Inventory, MaxEntries, MaxLayers,  \* of the layers
  Lacking, Reports, MaxTampers                           \* of the image builds

VARIABLES
  part,  \* the component this behaviour is about
  s1, s2, s3, s4, s5, s6, s7, s8, s9, s10, s11, s12, s13  \* its variables, in their order of declaration

vars == <<part, s1, s2, s3, s4, s5, s6, s7, s8, s9, s10, s11, s12, s13>>

\* For the configuration: three entries over two directories, one of which
\* holds the package.
TwoFolders == {<<"d">>, <<"d", "f">>, <<"x">>, <<"x", "f">>}
AnchorPath == <<"d", "f">>
OnePackage == <<"x", "f">> :> "other"

Mode == INSTANCE RunnerMode WITH
  Invocations <- Switches, Consumers <- Clients, manifest <- s1, variable <- s2, main <- s3,
  groups <- s4, smoke <- s5, pc <- s6, request <- s7, seen <- s8, evidence <- s9, found <- s10,
  unchecked <- s11, late <- s12, outside <- s13

Labels == INSTANCE RunnerLabels WITH
  Files <- Workflows, job <- s1, runner <- s2, stack <- s3, todo <- s4, visited <- s5,
  result <- s6

Nightly == INSTANCE NightlyRunner WITH
  lock <- s1, pc <- s2, row <- s3, rows <- s4,
  group <- s5, expired <- s6, jsonl <- s7, tmp <- s8, summary <- s9, prior <- s10

Archive == INSTANCE OciArchive WITH
  job <- s1, inputs <- s2, archive <- s3,
  platform <- s4, pc <- s5, todo <- s6, visits <- s7, leaves <- s8, images <- s9,
  attestations <- s10, merged <- s11, touched <- s12, output <- s13

Layers == INSTANCE EffectiveLayers WITH
  Paths <- ImagePaths, Target <- Anchor, Package <- Inventory, layers <- s1, entries <- s2,
  ca <- s3, tree <- s4, treeHolds <- s5, fs <- s6, world <- s7, done <- s8, phase <- s9, laid <- s10, linked <- s11

Build == INSTANCE RunnerImageBuild WITH
  stage <- s1, pc <- s2, docker <- s3, rec <- s4, dir <- s5, left <- s6, tampers <- s7

ASSUME RunnersAssumption == Mode!RunnerModeAssumption /\ Labels!FilesAssumption
ASSUME NightlyAssumption == Nightly!RepositoriesAssumption /\ Nightly!InvocationsAssumption

-----------------------------------------------------------------------------

Init ==
  \/ part = "mode" /\ Mode!Init
  \/ part = "labels" /\ Labels!Init
     /\ s7 = 0 /\ s8 = 0 /\ s9 = 0 /\ s10 = 0 /\ s11 = 0 /\ s12 = 0 /\ s13 = 0
  \/ part = "nightly" /\ Nightly!Init
     /\ s11 = 0 /\ s12 = 0 /\ s13 = 0
  \/ part = "archive" /\ Archive!Init
  \/ part = "layers" /\ Layers!Init
     /\ s12 = 0 /\ s13 = 0
  \/ part = "build" /\ Build!Init
     /\ s8 = 0 /\ s9 = 0 /\ s10 = 0 /\ s11 = 0 /\ s12 = 0 /\ s13 = 0

ModeStep ==
  /\ part = "mode" /\ Mode!Next
  /\ UNCHANGED part
LabelsStep ==
  /\ part = "labels" /\ Labels!Next
  /\ UNCHANGED <<part, s7, s8, s9, s10, s11, s12, s13>>
NightlyStep ==
  /\ part = "nightly" /\ Nightly!Next
  /\ UNCHANGED <<part, s11, s12, s13>>
ArchiveStep ==
  /\ part = "archive" /\ Archive!Next
  /\ UNCHANGED part
LayersStep ==
  /\ part = "layers" /\ Layers!Next
  /\ UNCHANGED <<part, s12, s13>>
BuildStep ==
  /\ part = "build" /\ Build!Next
  /\ UNCHANGED <<part, s8, s9, s10, s11, s12, s13>>

Next == ModeStep \/ LabelsStep \/ NightlyStep \/ ArchiveStep \/ LayersStep \/ BuildStep

Fairness ==
  /\ \A p \in Invocations : WF_(Nightly!vars)(part = "nightly" /\ Nightly!Steps(p))
  /\ \A p \in Invocations : WF_(Nightly!vars)(part = "nightly" /\ Nightly!Expire(p))

Spec == Init /\ [][Next]_vars /\ Fairness

-----------------------------------------------------------------------------

\* runner_mode.apply_mode: a write replaces only the variable that was shown,
\* and an activation finds the reviewed main, a recent passing smoke run that
\* ran in the groups of today, and every required group closed to other
\* repositories, except for what changed after the tool looked for the second
\* time.
SwitchIsCurrent == [][part = "mode" => Mode!WritesCurrent]_vars

\* runner_selection: no variable, input or budget setting lets a fork, a merge
\* queue or another branch of a public repository onto a pool, release pools
\* take no pull request, and with hosted runners disabled a budgeted job never
\* gets one; a consumer's workflows are adapted exactly if no file calls itself
\* and one profile fits every path to a file, in whatever order they are visited.
RoutedByTrust ==
  /\ part = "mode" => Mode!TypeOK
  /\ part = "labels" => Labels!TypeOK /\ Labels!RoutedByTrust /\ Labels!AdaptedIfConsistent

\* run_nightly: checks of one log root run one after the other unless an
\* invocation was killed from outside, a timed-out check is gone with all its
\* descendants before its row is written, and the report on disk never claims
\* more than was checked, wherever the invocation or the power stopped.
NightlyTruth ==
  part = "nightly" => Nightly!TypeOK /\ Nightly!SerialChecks /\ Nightly!GroupStopped /\ Nightly!DurableTruth

\* Every invocation of the nightly runner ends although checks hang, and a
\* second one never waits for the lock.
InvocationsEnd == <>(part = "nightly" => \A p \in Invocations : Nightly!Over(p))

\* merge_oci_archives, version_plan and runner_image_oci: an archive is accepted
\* only if everything its root refers to is there with the bytes, size and
\* platform it should have, also when it is replaced while it is read; every
\* statement in a joined archive is about one of its images, while a runner
\* image needs the provenance of its image and may hold other statements; and
\* an archive that the merge published passes the metadata check.
AcceptedIsSound == part = "archive" => Archive!AcceptedIsSound /\ Archive!MergedVerifies

\* runner_image_oci: a file that the layer reader accepts as evidence is the
\* file that the unpacked image has under that name, and when the trust anchor
\* counts as unconfigured the image has the sentinel there, whatever
\* whiteouts, replaced directories and hard links the layers have.
LayersShown == part = "layers" => Layers!EvidenceIsShown /\ Layers!SentinelIsShown

\* build_runner_image_artifacts: when the gate passes, both images hold the
\* backports and the accepted runc, no reported advisory applies to them, one
\* about the headers only if they are pinned, and the private one stands
\* on the scanned public archive; and what a job leaves behind in Docker its
\* receipt reports, also when a client gave up on what the daemon still made.
ImageBuildSound == part = "build" => Build!GateSound /\ Build!LeftIsReported

\* The merge never takes over a name that somebody else's file has, and no
\* cleanup of a build removes somebody else's container, volume or image.
OthersKept ==
  [][(part = "archive" => Archive!KeepsRival) /\ (part = "build" => Build!KeepsForeign)]_vars
=============================================================================
