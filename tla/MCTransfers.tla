---------------------------- MODULE MCTransfers -----------------------------
(***************************************************************************)
(* Bounded transfers, pipes and waits, for TLC: the wait for the executing *)
(* run, the streamed asset, the download budget, the recovery pipeline, the*)
(* recovery payload, and the copies of a release to its registries.        *)
(*                                                                         *)
(* The components do not interact: every behaviour is one of a single      *)
(* component, which part names, and the slots hold its variables.  Each    *)
(* component has its own instance of the constants below.                  *)
(***************************************************************************)
EXTENDS Integers

CONSTANTS
  Deadline, MaxSlow,                                         \* of the wait
  Chunks, Expected, Noise, QueueSize, PipeSize, Inherited,   \* of the streamed asset
  Assets, AssetSize, MaxAttempts, MaxBytes,                  \* of the download
  Operators, MaxReplaced, MaxKills,                          \* of the recovery pipeline
  NumFiles, PayloadBytes, PartSizes, MaxWrites,              \* of the recovery payload
  Invocations, Images, Versions, MaxOutside                  \* of the registries

VARIABLES
  part,  \* the component this behaviour is about
  s1, s2, s3, s4, s5, s6, s7, s8, s9, s10, s11, s12, s13, s14, s15,
  s16, s17, s18, s19  \* its variables, in their order of declaration

vars == <<part, s1, s2, s3, s4, s5, s6, s7, s8, s9, s10, s11, s12, s13, s14, s15, s16, s17, s18, s19>>

\* The slots that only the recovery payload has.
More == <<s16, s17, s18, s19>>
NoMore == s16 = 0 /\ s17 = 0 /\ s18 = 0 /\ s19 = 0

\* For the configuration: three assets, one of them empty; two images.
Sizes == [f \in {"f1", "f2", "f3"} |-> IF f = "f1" THEN 0 ELSE IF f = "f2" THEN 1 ELSE 3]
TwoImages == <<"a", "b">>

Wait == INSTANCE ExecutionWait WITH
  call <- s1, clones <- s2, version <- s3, floor <- s4, now <- s5, slow <- s6, pc <- s7,
  loopFloor <- s8, seen <- s9, result <- s10

Stream == INSTANCE AssetStream WITH
  Payload <- Chunks, child <- s1, emitted <- s2, pipe <- s3, open <- s4, expired <- s5, reader <- s6, held <- s7,
  queue <- s8, stopped <- s9, main <- s10, ended <- s11, written <- s12, closed <- s13,
  outcome <- s14

Download == INSTANCE AssetDownload WITH
  Files <- Assets, Size <- AssetSize, todo <- s1, file <- s2, path <- s3, size <- s4, intact <- s5, attempt <- s6, budget <- s7, expired <- s8,
  accepted <- s9, pc <- s10, cause <- s11

Pipeline == INSTANCE RecoveryPipeline WITH
  pc <- s1, failure <- s2, input <- s3,
  proof <- s4, child <- s5, stray <- s6, read <- s7, out <- s8, files <- s9, pending <- s10,
  kills <- s11

Payload == INSTANCE RecoveryPayload WITH
  MaxBytes <- PayloadBytes, chunk <- s1, sizes <- s2, orig <- s3, pc <- s4, at <- s5,
  seen <- s6, whole <- s7, staged <- s8, catalog <- s9, pend <- s10, final <- s11, returned <- s12,
  verdict <- s13, place <- s14, stream <- s15, received <- s16, taken <- s17, hashes <- s18,
  writes <- s19

Registry == INSTANCE RegistryPublication WITH
  release <- s1, registry <- s2, pc <- s3, job <- s4, at <- s5, appeared <- s6, replaced <- s7,
  outside <- s8

ASSUME WaitAssumption == Wait!DeadlineAssumption /\ Wait!MaxSlowAssumption
ASSUME StreamAssumption == Stream!SizesAssumption /\ Stream!InheritedAssumption
ASSUME DownloadAssumption == Download!FilesAssumption /\ Download!BoundsAssumption
ASSUME PayloadAssumption == Payload!FilesAssumption /\ Payload!PartSizesAssumption
ASSUME RegistryAssumption == Registry!ImagesAssumption /\ Registry!VersionsAssumption

-----------------------------------------------------------------------------

Init ==
  \/ part = "wait" /\ Wait!Init
     /\ s11 = 0 /\ s12 = 0 /\ s13 = 0 /\ s14 = 0 /\ s15 = 0 /\ NoMore
  \/ part = "stream" /\ Stream!Init
     /\ s15 = 0 /\ NoMore
  \/ part = "download" /\ Download!Init
     /\ s12 = 0 /\ s13 = 0 /\ s14 = 0 /\ s15 = 0 /\ NoMore
  \/ part = "pipeline" /\ Pipeline!Init
     /\ s12 = 0 /\ s13 = 0 /\ s14 = 0 /\ s15 = 0 /\ NoMore
  \/ part = "payload" /\ Payload!Init
  \/ part = "registry" /\ Registry!Init
     /\ s9 = 0 /\ s10 = 0 /\ s11 = 0 /\ s12 = 0 /\ s13 = 0 /\ s14 = 0 /\ s15 = 0 /\ NoMore

WaitStep ==
  /\ part = "wait" /\ Wait!Next
  /\ UNCHANGED <<part, s11, s12, s13, s14, s15, More>>
StreamStep ==
  /\ part = "stream" /\ Stream!Next
  /\ UNCHANGED <<part, s15, More>>
DownloadStep ==
  /\ part = "download" /\ Download!Next
  /\ UNCHANGED <<part, s12, s13, s14, s15, More>>
PipelineStep ==
  /\ part = "pipeline" /\ Pipeline!Next
  /\ UNCHANGED <<part, s12, s13, s14, s15, More>>
PayloadStep ==
  /\ part = "payload" /\ Payload!Next
  /\ UNCHANGED part
RegistryStep ==
  /\ part = "registry" /\ Registry!Next
  /\ UNCHANGED <<part, s9, s10, s11, s12, s13, s14, s15, More>>

Next == WaitStep \/ StreamStep \/ DownloadStep \/ PipelineStep \/ PayloadStep \/ RegistryStep

Fairness ==
  /\ WF_(Wait!vars)(part = "wait" /\ Wait!Poll)
  /\ WF_(Stream!vars)(part = "stream" /\ Stream!Tick)
  /\ WF_(Stream!vars)(part = "stream" /\ Stream!Main)
  /\ WF_(Stream!vars)(part = "stream" /\ Stream!Die)
  /\ \A k \in {"stdout", "stderr"} : WF_(Stream!vars)(part = "stream" /\ Stream!Reader(k))
  /\ WF_(Download!vars)(part = "download" /\ Download!Step)
  /\ \A o \in Operators : WF_(Pipeline!vars)(part = "pipeline" /\ Pipeline!Parent(o))

Spec == Init /\ [][Next]_vars /\ Fairness

-----------------------------------------------------------------------------

\* wait_for_executing_run: the verdict of the wait is right; neither an attempt
\* that has ended nor cloned evidence is accepted, and lag alone is never a
\* refusal.
WaitSound == part = "wait" => Wait!WaitSound

\* wait_for_executing_run: an attempt that goes on, with fresh jobs and replicas
\* that caught up with the running step in time, is accepted, or a request fails.
HealthyAccepted == (part = "wait" /\ Wait!CaughtUp) ~> (part = "wait" /\ Wait!Accepted)

\* Types of the components that state them.
TypeOK ==
  /\ part = "stream" => Stream!TypeOK
  /\ part = "download" => Download!TypeOK

\* _stream_asset: two reader threads share a bounded queue, yet the file
\* receives the child's chunks without a gap, a repetition or a swap, and a
\* transfer that completes has all of them, even when the child exits long
\* before its output is drained.
CompleteOnReturn == TypeOK /\ (part = "stream" => Stream!CompleteOnReturn)

\* download_asset and DownloadBudget: whatever prefixes of failed attempts were
\* staged before, a file is accepted only with exactly its bytes, the
\* allowance of one inventory per attempt never refuses a retry, and no way
\* out leaves an incomplete file behind.
DownloadSound ==
  part = "download" => Download!AcceptedExact /\ Download!AllowanceSuffices /\ Download!NoLeftover

\* A silent child, a full queue, a failed reader, a connection that keeps
\* breaking, or a command whose descendant keeps the pipe open cannot hold
\* the caller: every transfer ends with its child gone or reported, no reader
\* thread hangs for ever on a queue that nobody drains, every download is
\* verified or stops, and every recovery pipeline that is not killed ends.
TransferEnds ==
  <>[](/\ part = "stream" => Stream!Over /\ Stream!ReadersGone
       /\ part = "download" => Download!Over
       /\ part = "pipeline" => \A o \in Operators : Pipeline!Over(o))

\* run_pipeline: a passed receipt stands next to the whole output of one run
\* whose commands all ended well and read nothing but the reviewed input, and
\* no process of its groups is left that could still write; whoever raced for
\* the name, was killed, replaced the input or failed in the middle of the pipe.
ReceiptIsTrue == part = "pipeline" => Pipeline!ReceiptIsTrue

\* prepare, pack and verify: whatever is written to the originals while they
\* are cut, or lost with the power or on the way, an accepted stream
\* reassembles to every original as it was inventoried, and one that arrives
\* as it was packed is accepted; once prepare has returned, a power failure
\* leaves a directory that pack accepts.
PayloadSound == part = "payload" => Payload!PackedIsOriginal /\ Payload!IntactIsVerified /\ Payload!PreparedSurvives

\* publish_verified containers: publications race, fail between two copies and
\* are killed, yet latest never names a version that some image of the release
\* lacks, and a version tag is replaced only if it appeared after the look.
RegistryKept == part = "registry" => Registry!LatestIsComplete /\ Registry!VersionsKept
=============================================================================
