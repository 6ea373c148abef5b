----------------------------- MODULE MCSecrets ------------------------------
(***************************************************************************)
(* The paths that secrets take, for TLC: delivery to GitHub under a        *)
(* journal, revisions in HCP, and private files with their recovery drill. *)
(* (Publication to the OCI vault is in MCVaultPublication.)                *)
(*                                                                         *)
(* The components do not interact: every behaviour is one of a single      *)
(* component, which part names, and the slots hold its variables.  Each    *)
(* component has its own instance of the constants below.                  *)
(***************************************************************************)
EXTENDS Integers

CONSTANTS
  Invocations, Operation, Secrets, JournalFaults, MaxOutside,            \* of the journal
  Runs, Names, MaxGeneration, MaxRevision, HcpValues, HcpFaults, NoRun,  \* of the revisions in HCP
  Operators, MaxKills                                                    \* of the private files

VARIABLES
  part,  \* the component this behaviour is about
  s1, s2, s3, s4, s5, s6, s7, s8, s9, s10, s11, s12, s13, s14, s15, s16  \* its variables, in their order of declaration

vars == <<part, s1, s2, s3, s4, s5, s6, s7, s8, s9, s10, s11, s12, s13, s14, s15, s16>>

\* For the configuration: one operation that is run twice, and another with
\* the same approvals; two secrets.
TwoOperations == [i \in {"i1", "i2", "i3"} |-> IF i = "i3" THEN "other" ELSE "one"]
TwoSecrets == <<"a", "b">>

Journal == INSTANCE SecretJournal WITH
  MaxFaults <- JournalFaults, meta <- s1, inflight <- s2, lock <- s3, intent <- s4,
  accepted <- s5, observed <- s6, result <- s7, pc <- s8, at <- s9, accepts <- s10, observes <- s11,
  phase <- s12, landed <- s13, disturbed <- s14, faults <- s15, outside <- s16

Hcp == INSTANCE HcpRevisions WITH
  Values <- HcpValues, MaxFaults <- HcpFaults, Nobody <- NoRun, pc <- s1, catalog <- s2, apply <- s3, lock <- s4, key <- s5, ledger <- s6,
  state <- s7, hcp <- s8, terraform <- s9, ever <- s10, faults <- s11

Files == INSTANCE SecretFiles WITH
  pc <- s1, job <- s2, held <- s3, disk <- s4, kills <- s5, drill <- s6, tool <- s7

ASSUME JournalAssumption == Journal!ManifestAssumption /\ Journal!BoundsAssumption /\ Journal!NobodyAssumption
ASSUME HcpAssumption == Hcp!BoundsAssumption /\ Hcp!NobodyAssumption

-----------------------------------------------------------------------------

Init ==
  \/ part = "journal" /\ Journal!Init
  \/ part = "hcp" /\ Hcp!Init
     /\ s12 = 0 /\ s13 = 0 /\ s14 = 0 /\ s15 = 0 /\ s16 = 0
  \/ part = "files" /\ Files!Init
     /\ s8 = 0 /\ s9 = 0 /\ s10 = 0 /\ s11 = 0 /\ s12 = 0 /\ s13 = 0 /\ s14 = 0 /\ s15 = 0 /\ s16 = 0

JournalStep ==
  /\ part = "journal" /\ Journal!Next
  /\ UNCHANGED part
HcpStep ==
  /\ part = "hcp" /\ Hcp!Next
  /\ UNCHANGED <<part, s12, s13, s14, s15, s16>>
FilesStep ==
  /\ part = "files" /\ Files!Next
  /\ UNCHANGED <<part, s8, s9, s10, s11, s12, s13, s14, s15, s16>>

Next == JournalStep \/ HcpStep \/ FilesStep

Spec == Init /\ [][Next]_vars

-----------------------------------------------------------------------------

\* hcp: no variable ever goes back to an earlier revision, not even when a
\* Terraform process outlives the run that started it and another run
\* delivers a newer catalog meanwhile; private_io and materialize: a private
\* file that was written completely is never replaced, cut or removed,
\* whichever commands race and are killed.
NothingTakenBack ==
  [][(part = "hcp" => Hcp!RevisionGrows) /\ (part = "files" => Files!KeepsWhole)]_vars

\* github_api.deliver: an operation writes every secret at most once however
\* often it is run and wherever its invocations die, the journal never
\* understates what was or may still be written, and a write replaces exactly
\* the approved metadata unless the secret changed after the last look.
JournalTruth ==
  part = "journal" =>
    Journal!TypeOK /\ Journal!OneWritePerOperation /\ Journal!JournalTruth /\ Journal!ReplacesApproved

\* hcp: however often runs are killed, time out or are repeated with another
\* catalog, HCP is never given two values for one revision of a variable.
HcpRevisionTellsValue == part = "hcp" => Hcp!HcpRevisionTellsValue

\* materialize and drill: an operator who is told that the output was created
\* or is unchanged finds the approved catalog's value in it for as long as it
\* has its name, and the drill passes only with an age program that
\* refuses wrong keys and changed bytes and encrypts for every recipient.
SecretFilesSound == part = "files" => Files!DeliveredIsApproved /\ Files!DrillIsSound
=============================================================================
