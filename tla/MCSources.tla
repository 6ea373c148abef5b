----------------------------- MODULE MCSources ------------------------------
(***************************************************************************)
(* How sources and evidence reach a release, for TLC: vendor updates,      *)
(* version files and their TOML reader, version pull requests, build       *)
(* receipts, and what promotions read.                                     *)
(*                                                                         *)
(* The components do not interact: every behaviour is one of a single      *)
(* component, which part names, and the slots hold its variables.  Each    *)
(* component has its own instance of the constants below.                  *)
(***************************************************************************)
EXTENDS Naturals

CONSTANTS
  Deliveries, Followed, VendorEvents, MaxHeight,     \* of the vendor updates; Followed: the delivery whose retries end
  Paths, Policies, MaxKills, MaxEdits,               \* of the version files
  MaxLines,                                          \* of the TOML reader
  Preparers, Limit, VersionEvents,                   \* of the version pull requests
  Targets, ImageTarget, MaxAttempts, MaxFaults,      \* of the build receipts
  MaxChanges                                         \* of the promotions

VARIABLES
  part,  \* the component this behaviour is about
  s1, s2, s3, s4, s5, s6, s7, s8, s9, s10, s11, s12, s13, s14, s15, s16, s17, s18, s19, s20  \* its variables, in their order of declaration

vars == <<part, s1, s2, s3, s4, s5, s6, s7, s8, s9, s10, s11, s12, s13, s14, s15, s16, s17, s18, s19, s20>>

D(path, format, field, value) ==
  [path |-> path, format |-> format, field |-> field, value |-> value, ecosystem |-> "semver"]

\* For the configuration: plain files; an npm lock beside a field of its own; Apple fields; counters; a duplicate.
SmallPolicies == {
  <<D("f1", "toml", "v", "package"), D("f2", "json", "v", "base")>>,
  <<D("f1", "npm-lock", "v", "package"), D("f1", "json", "w", "base"), D("f2", "text", "v", "full")>>,
  <<D("f1", "plist", "v", "base"), D("f1", "plist", "w", "apple-build"), D("f2", "python", "v", "package")>>,
  <<D("f1", "pbxproj", "w", "apple-build"), D("f2", "pbxproj", "v", "full")>>,
  <<D("f1", "json", "w", "build"), [D("f2", "toml", "v", "package") EXCEPT !.ecosystem = "pep440"]>>,
  <<D("f1", "json", "v", "base"), D("f1", "json", "v", "full")>>}

Vendor == INSTANCE VendorUpdate WITH
  MaxEvents <- VendorEvents, bundle <- s1, source <- s2,
  target <- s3, pc <- s4, work <- s5, events <- s6

Files == INSTANCE VersionFiles WITH
  policy <- s1,
  plan <- s2, head <- s3, disk <- s4, pc <- s5, before <- s6, after <- s7, staged <- s8,
  evidence <- s9, kills <- s10, edits <- s11, at <- s12

Toml == INSTANCE TomlScan WITH
  context <- s1, table <- s2, wanted <- s3, quote <- s4, depth <- s5, current <- s6,
  arrays <- s7, found <- s8, lines <- s9

Version == INSTANCE PrepareVersion WITH
  MaxEvents <- VersionEvents, main <- s1, tags <- s2, reachable <- s3,
  topic <- s4, pulls <- s5, pc <- s6, work <- s7, events <- s8

Receipts == INSTANCE BuildReceipts WITH
  attempt <- s1, pc <- s2, inputs <- s3, dist <- s4, staged <- s5, uploads <- s6, publisher <- s7,
  accepted <- s8, attested <- s9, faults <- s10

Promotion == INSTANCE PromotionEvidence WITH
  kind <- s1, on <- s2, at <- s3, release <- s4, runs <- s5, artifacts <- s6,
  reviewers <- s7, head <- s8, occasion <- s9, policy <- s10, snap <- s11, reuseSnap <- s12,
  raw <- s13, reuseRaw <- s14, promo <- s15, staged <- s16, late <- s17, moment <- s18,
  heldLate <- s19, changes <- s20

ASSUME FilesAssumption == Files!PoliciesAssumption
ASSUME VersionAssumption == Version!LimitAssumption

-----------------------------------------------------------------------------

Init ==
  \/ part = "vendor" /\ Vendor!Init
     /\ s7 = 0 /\ s8 = 0 /\ s9 = 0 /\ s10 = 0 /\ s11 = 0 /\ s12 = 0 /\ s13 = 0 /\ s14 = 0 /\ s15 = 0 /\ s16 = 0
     /\ s17 = 0 /\ s18 = 0 /\ s19 = 0 /\ s20 = 0
  \/ part = "files" /\ Files!Init
     /\ s13 = 0 /\ s14 = 0 /\ s15 = 0 /\ s16 = 0 /\ s17 = 0 /\ s18 = 0 /\ s19 = 0 /\ s20 = 0
  \/ part = "toml" /\ Toml!Init
     /\ s10 = 0 /\ s11 = 0 /\ s12 = 0 /\ s13 = 0 /\ s14 = 0 /\ s15 = 0 /\ s16 = 0 /\ s17 = 0 /\ s18 = 0 /\ s19 = 0
     /\ s20 = 0
  \/ part = "version" /\ Version!Init
     /\ s9 = 0 /\ s10 = 0 /\ s11 = 0 /\ s12 = 0 /\ s13 = 0 /\ s14 = 0 /\ s15 = 0 /\ s16 = 0 /\ s17 = 0 /\ s18 = 0
     /\ s19 = 0 /\ s20 = 0
  \/ part = "receipts" /\ Receipts!Init
     /\ s11 = 0 /\ s12 = 0 /\ s13 = 0 /\ s14 = 0 /\ s15 = 0 /\ s16 = 0 /\ s17 = 0 /\ s18 = 0 /\ s19 = 0 /\ s20 = 0
  \/ part = "promotion" /\ Promotion!Init

VendorStep ==
  /\ part = "vendor" /\ Vendor!Next
  /\ UNCHANGED <<part, s7, s8, s9, s10, s11, s12, s13, s14, s15, s16, s17, s18, s19, s20>>
FilesStep ==
  /\ part = "files" /\ Files!Next
  /\ UNCHANGED <<part, s13, s14, s15, s16, s17, s18, s19, s20>>
TomlStep ==
  /\ part = "toml" /\ Toml!Next
  /\ UNCHANGED <<part, s10, s11, s12, s13, s14, s15, s16, s17, s18, s19, s20>>
VersionStep ==
  /\ part = "version" /\ Version!Next
  /\ UNCHANGED <<part, s9, s10, s11, s12, s13, s14, s15, s16, s17, s18, s19, s20>>
ReceiptsStep ==
  /\ part = "receipts" /\ Receipts!Next
  /\ UNCHANGED <<part, s11, s12, s13, s14, s15, s16, s17, s18, s19, s20>>
PromotionStep ==
  /\ part = "promotion" /\ Promotion!Next
  /\ UNCHANGED part

Next == VendorStep \/ FilesStep \/ TomlStep \/ VersionStep \/ ReceiptsStep \/ PromotionStep

Fairness ==
  /\ WF_(Vendor!vars)(part = "vendor" /\ Vendor!Step(Followed))
  /\ WF_(Files!vars)(part = "files" /\ Files!Step)

Spec == Init /\ [][Next]_vars /\ Fairness

-----------------------------------------------------------------------------

\* vendor_update: what a delivery reports as its commit is the verified bundle
\* and nothing else, above a commit of main, and the source had not moved on
\* before the branch was created.
DeliveredIsQualified == part = "vendor" => Vendor!DeliveredIsQualified

\* vendor_update and version_plan: a delivery that was interrupted anywhere,
\* between a push and its pull request too, comes to the pull request when it
\* is started again while nothing outside stands in the way; and a killed
\* synchronization of version files completes when it is run again.  The
\* deliveries are interchangeable: Followed stands for each, and nothing is
\* assumed of the others.
RetriesFinish ==
  /\ (<>[](part = "vendor" => Vendor!Deliverable))
       => <>(part = "vendor" => Vendor!Delivered(Followed))
  /\ ((part = "files" => Files!Applicable) /\ [](part = "files" => Files!Untouched))
       => <>(part = "files" => Files!Synced)

\* vendor_update and prepare_version: a branch that somebody created after a
\* delivery's look is moved only onward, from a commit of main; a version topic
\* is pushed only as main's tree moved to the version, keeps every commit that
\* it has at that moment, and held no edit of others when it was verified.
OthersKept ==
  [][(part = "vendor" => Vendor!KeepsBranch) /\ (part = "version" => Version!PushesOwned)]_vars

\* version_plan: the evidence of a synchronization is true of every declaration
\* at once: no value was overwritten by a later declaration, an integer is
\* still an integer, and the rest of a file was kept.
VersionFilesTrue == part = "files" => Files!EvidenceTrue

\* version_plan: the TOML reader takes exactly the lines for assignments that
\* assign the wanted key of the wanted table, through strings, arrays and
\* comments, but for multi-line strings that four or five quotes close.
TomlScanTrue == part = "toml" => Toml!ScanInStep

\* prepare_version: a chosen version is no tag of the remote, is not below the
\* active base, and without a request is above every reachable stable tag.
ChosenIsFree == part = "version" => Version!ChosenIsFree

\* version_receipt and stage_release_assets: the publisher accepts a file only
\* as its target attested it in this attempt with its version inputs
\* unchanged, under a policy that declares the required receipts together with
\* every other target's, and an image only with the provenance of the same build.
AcceptedIsAttested == part = "receipts" => Receipts!AcceptedIsAttested /\ Receipts!PairsTogether

\* release_promotion and release_closed: releases, runs and artifacts change
\* between any two requests, yet a reader that goes on to act saw evidence
\* that all held at one moment, and what its code reads again after the
\* transfer held at some moment after it.
AcceptedEvidenceHeld ==
  part = "promotion" => Promotion!AcceptedAtOneMoment /\ Promotion!RecheckedLate
=============================================================================
