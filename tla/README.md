# Verification of the release and runner toolkit

TLA+ models of the parts of this repository that keep durable state, run
concurrently with something else, or read one thing after another from services
that others change: the version ledger and the release publishers, what
promotions rely on, the asset transfers, registry publication, version files and
pull requests, vendor updates, build receipts, image archives and runner image
builds, runner mode and labels, the nightly runner, the node guard, recovery,
and the paths that secrets take. TLC checks every model on small instances; most
safety properties are also proved with TLAPS for all values of the constants.

Paths in this document are relative to the repository (`scripts/...`), names in
`code` are definitions of a module or functions of the source. `PROJECT.json`
holds the exact correspondence between definitions and source lines.

## 1. Inventory

| Part | State it keeps | Operations | What is hard | Module |
|---|---|---|---|---|
| version ledger (`release_state.py`) | one JSON file on the branch `release-version-state`: reserved plans by run, last number, published floor | bootstrap, `read_state`, `reserve_plan`, `begin_publication`, compare-and-swap write | overlapping runs, reruns of single jobs, stopping between two calls | `ReleaseLedger` |
| release runs (`release_versioned.py`, `release-pipeline.yml`) | the plan artifact of a run, tags, releases | prepare, publish, promote, final build | order of publication, operators who delete releases | `ReleaseLedger` |
| execution evidence (`release_control.py` 1440-1907) | none of its own | `wait_for_executing_run`, `resolve_execution_run`, `release_gate_ready` | answers that lag behind each other, reruns, cloned jobs, a shared deadline | `ExecutionWait` |
| release evidence (`release_control.py`, `release_promotion.py`, `release_closed.py`, `runner_preflight.py`) | snapshots in memory, staged files | `candidate`, `promote`, `record`, `resolve`, `fetch_receipt`, scheduled reuse | dozens of requests and a transfer, while releases, runs and artifacts change | `PromotionEvidence` |
| draft transaction (`release_control.py`, `create_confirmation`) | a draft release and its assets on GitHub | create, readback, upload, verify, confirm, publish | lost and late answers, changes by others between any two calls | `DraftTransaction` |
| asset stream (`_stream_asset`) | child process, two reader threads, queue of bounded size | read, send, drain, stop, reap | three threads and a child, a full queue, the deadline, inherited pipes | `AssetStream` |
| asset download (`download_asset`, `DownloadBudget`) | staging file, byte budget shared by an inventory | write, retry, accept, remove | retries that charge failed prefixes, files of others at the same path | `AssetDownload` |
| registry publication (`publish_verified.py`) | tags in several registries | verify, look for tags, copy | no conditional copy, a stop between two copies, racing publishers | `RegistryPublication` |
| build receipts (`version_receipt.py`, `release_provenance.py`, `stage_release_assets.py`) | staged files, receipts and uploads of each attempt | detach, stage, attest, collect, verify | kills between the two links of a pair, reruns that mix attempts | `BuildReceipts` |
| version files (`version_plan.py`) | version cells in files of a checkout, evidence file | sync, check, verify checkout | several declarations in one file, a kill between two replacements, a line scanner beside a grammar | `VersionFiles`, `TomlScan` |
| version pull requests (`prepare_version.py`) | topic branch and pull request of a version | choose, build, commit, push, open | tags and topics that move, commits of others on the topic | `PrepareVersion` |
| vendor updates (`vendor_update.py`) | branch named after the bundle, draft pull request | qualify, commit, push, open | interruptions between push and pull request, a source that moves on | `VendorUpdate` |
| image archives (`merge_oci_archives.py`, `version_plan.py`, `runner_image_oci.py`) | archive graphs, the merged output | walk, merge, publish, check | shared, missing or falsified blobs, inputs replaced while they are read | `OciArchive` |
| image layers (`runner_image_oci.py`) | effective tree | `sentinel_layer`, `effective_files` | whiteouts, hard links, replaced directories | `EffectiveLayers` |
| runner image builds (`build_runner_image_artifacts.py`) | Docker objects, receipts, artifact directories | import, create builder, build, scan, clean up, gate | clients that give up on what the daemon still makes, cleanup that fails half way | `RunnerImageBuild` |
| runner mode (`runner_mode.py`) | one repository variable | evidence, switch, readback | no compare-and-swap, minutes between look and write | `RunnerMode` |
| runner labels (`runner_selection.py`) | rendered expressions | render, adapt a consumer's call graph | every combination of event, fork, input and mode | `RunnerLabels` |
| nightly runner (`run_nightly.py`) | lock file, `results.jsonl`, `summary.json`, process groups | lock, check, stop group, save | two invocations, kills, power loss, descendants | `NightlyRunner` |
| node guard (`deploy/runner-reserve/node_guard.py`) | two nftables tables, admissions with a lease, remembered workers | discover, fence, verify, admit, serve | reused addresses and veth names, failures between steps, restarts | `NodeGuard` |
| ARC recovery (`arc_recovery_pipeline.py`, `arc_recovery_payload.py`) | intent, partial output, receipt; parts and their manifest | run a pipeline; prepare, pack, verify | races for one name, stray descendants, power loss between writes | `RecoveryPipeline`, `RecoveryPayload` |
| secrets to OCI (`tools/secret_control/oci_api.py`) | vault secrets with a revision tag and ETag | preflight, guarded write, readback | older and newer catalogs at once, uncertain outcomes, partial batches | `VaultPublication` |
| secrets to GitHub (`tools/secret_control/github_api.py`) | local journal: lock, intent, receipts, outcome | `deliver` | no compare-and-swap, requests that land late, deaths between records | `SecretJournal` |
| secrets to HCP (`tools/secret_control/hcp.py`) | lock, keyed intent ledger, Terraform state | plan, apply | Terraform that outlives its run | `HcpRevisions` |
| secret files and drill (`materialize.py`, `private_io.py`, `drill.py`, `recovery.py`) | private files without a lock | encrypt, materialize, check, drill | races and kills between single system calls | `SecretFiles` |

The parts meet through GitHub: a run of the pipeline waits until it is known to
execute (`ExecutionWait`), reserves a plan (`ReleaseLedger`), writes it into the
version files (`VersionFiles`), builds and attests (`BuildReceipts`), is accepted
again with its gate, consumes the number (`begin_publication`), and carries out
one draft transaction (`DraftTransaction`), which downloads what it uploaded
(`AssetDownload`, each transfer of which is an `AssetStream`). A published
candidate is read again by promotions and by closed builds
(`PromotionEvidence`), and a stable release by the registry publisher
(`RegistryPublication`). The node guard decides which sandbox runners may take
jobs at all, mode and labels which jobs reach them, and the image builds what
they run in; the secret publishers give the workflows their credentials; the
nightly runner and the recovery tools are local. The models are kept apart along
these lines because each interface is a small set of outcomes: `ReleaseLedger`
has one step for "the draft exists" and one for "it is public" where
`DraftTransaction` has all its calls; `DraftTransaction` has one step for "a file
was compared" where `AssetDownload` has its chunks; and `AssetDownload` sees of a
transfer a sequence of chunks and a result, which is what `AssetStream` shows
about it. `PromotionEvidence` takes the published assets and the runs that built
them as they are, whatever `DraftTransaction` made of them.

Parts that are not modelled, with the reason, are in section 7 and in
`PROJECT.json` under `components`.

## 2. Modules and how they correspond to the code

### ReleaseLedger, BuildNumbers

State: the ledger branch and file (`branch`, `written`, `file`), the tags and
releases, and for each run its control point, request, attempt, the ledger it
read last (`seen`, whose blob SHA is the compare-and-swap token) and its plan.
`shipped` and `deletions` are auxiliary.

Every call that writes is an action of its own; consecutive reads are one step
when a later step of the same run checks again what they established. `Dispatch`
and `Rerun` are the events; `PrepareCopy`, `ClosedCycle`, `PrepareRejects`,
`LedgerMissing`, `ReusePlan`, `Allocate`, `CheckAbsent`, `PostRef` and
`WriteReservation` are the prepare job with `reserve_plan`; `VerifyBuild`,
`SkipPublication`, `VerifyPromotion`, `BeginPublication`, `AdvanceFloor`,
`CreateTag`, `CreateDraft` and `PublishDraft` the publishing jobs. `Fail` ends a
run anywhere (a lost answer is the write followed by `Fail`), `DeleteRelease` is
an operator. `Serialized` says whether the workflow's concurrency group is in
force: the properties that need it are checked with it, the others without.

`BuildNumbers` is what the ledger promises its users: numbers are issued to runs
once and forever, and consumed before use. `ImplementsAllocator` is the
refinement, with the plans in the file as the numbers issued.

### ExecutionWait

State: GitHub's record of the attempt as a `version` that only grows, the oldest
version that a replica still serves (`floor`), the clock, and the request the
caller waits for (`pc`). One action per request: `ReadRun` (run record with
`check_execution` and `validate_run_provenance`), `ReadAttempt`
(`resolve_execution_run`), `ReadJobs` (`current_execution_job` and its checks of
job and steps), `ReadGate` (`release_gate_ready`), `ReadBoundary`
(`require_current_attempt_jobs`), and `Sleep`. An action is the arrival of the
answer with everything done before the next request; time passes before it. The
answer to each request comes from any version between `floor` and `version`,
independently of earlier answers, so answers can also go back in time. `call`
holds the arguments of the four callers and whether the workflow passes its
check-run ID. The local proof record that is handed to the caller is left out.

Assumption: a listed job that executes has at least one step. The code refuses
an executing job with no steps at once, as conflicting.

### DraftTransaction

State: the releases of the repository with identifiers that are never reused,
the tag, default branch, ledger and attempt as others may change them, and the
publisher's position. `CreateRelease` may be answered, refused, or unanswered,
and then executed at once, late (`DelayedCreate`) or never; `Readback` is
`_reconcile_created_release` with both passes of `create_confirmation`. `Others`
is any change by others, up to `MaxOutside`. A GET with its bounded retries is one
look, so that the model has no loops and says nothing of how long a transaction
takes. `late` is history: what changed
after the publisher last looked at it, which is exactly what the last calls
cannot exclude, because GitHub offers no conditional publication.

### AssetStream

The child, a pipe for each of stdout and stderr, two reader threads, the queue,
the stop event and the main thread of `_stream_asset`, a step for each blocking
operation. `Inherited` lets a descendant of the child keep the pipes open.

### AssetDownload

`Begin`, `Write`, `StreamEnds`, `Retry`, `Accept`, `Abort` and `TimedOut` follow
`download_asset`, `_AssetWriter` and `GitHub.download_asset` for the files of an
inventory in any order; `Replace` is another process at the destination path.

### NightlyRunner

Invocations of `run_fleet` over one log root: lock, the check of each repository
in a process group, its time limit, `stop_process_group`, the appended row, and
the summary that is written aside and renamed. `Kill` is the death of an
invocation, `PowerLoss` of the machine, which may undo the last rename.

### NodeGuard

The loop of `Guard` (`_sync`, `_discover`, `_verify`, the two tables), the
admission lease, and the node around it: pods that are attached to a slot (an
address with a veth name), lose it, and whose slot is given to others. Deadlines
are countdowns moved by `Tick`. Assumptions, all outside the code: a sandbox
that was reported not ready never becomes ready again; MAC and ifindex identify
the owner of a veth; no time passes between the last identity check and the
assignment of the admissions; the order of rules within a table is immaterial.

### VaultPublication

Invocations of `publish` for catalogs of one lineage: the preflight of every
destination, one guarded change at a time, the readback. Assumptions on the
vault: the ETag changes with every visible change, and an update is refused
while an accepted one does not show yet.

### SecretJournal

Invocations of `deliver` over one journal directory: `Lock`, `CheckIntent`,
`Preflight`, `RecordIntent`, then for each secret `Revalidate`, `Send`,
`Answered` or `Unanswered`, `RecordAccepted`, `Observe`, `RecordObserved`, and
`RecordComplete` or `RecordStopped`. A request may land after its sender gave up
or died. Assumption: the update time of a secret changes with every write;
GitHub's times have a resolution of a second, and two writes within one second
are not modelled.

### PromotionEvidence

Six readers of a published release as sequences of looks: the candidate
publisher, the promotion, its record, the resolution for closed builds, the
scheduled reuse and the preflight receipt. A look is one request with the checks
that follow it (`Look` takes the next element of the reader's sequence), but for the
snapshot, whose three requests (tag, release, assets) are one look: edits leave ids
and stamps, so that a snapshot mixed from two states equals no later one, and the
tag is no part of what is claimed of the moment. Which looks a reader skips depends on its `occasion`
(`Skips`): only pushed betas and scheduled nightlies must be newest, only rcs need the
qualified policy, nightlies need no free final version, and a promotion whose token
is known to have the workflow scope compares no workflows. Releases,
runs, artifacts, branch, reviewers and the runner's policy change between any two
(`Edit`, `PublishStable`, `Push`, `Administer`, `Rerun`, `RunEnds`, `Expire`).
Bytes stand for the attempt that made them (`Made`), and a manifest names its attempt
(`Names`), so that a repeated run is told from the one that built the candidate.
`moment`, `late` and `heldLate` are history: the bytes for which the release, the run,
its evidence and, for a promoted copy, the promotion all held together at one moment,
and what held of which bytes after the transfer. The tag is not part of the moment:
it is compared at two looks only, and somebody may have moved it away and back.
Signatures and the fields of manifests and receipts depend only on the staged
bytes, which the snapshot fixes; they are part of the looks' verdicts.

### BuildReceipts

Jobs of build targets in checkouts of their own: `Build`, `Detach`, `LinkImage`
and `LinkSidecar` (the two no-clobber links of a provenance pair), `Stage`,
`CreateReceipt`, `Upload`; `Kill`, `Retry`, `Rerun`; what a consumer's own steps
may do (`EditInputs`, `LeaveImage`, `TouchStaged`); and the publisher's verdict
(`Collected`, `Flat`, `Receipts`, `SameProducer`, `Covers`, `Complete`,
`PairHolds`). `attested` is history. The policy is one that declares its required
receipts; under one that does not, `verify_required_build_receipts` compares no
targets, and a missing target is not noticed.

### VersionFiles, TomlScan

`VersionFiles` is `sync_versions` with its edits in memory, one declaration per
step (`Prepare`; the first one of a file reads it), the agreement of all
declarations (`Agree`), the recheck, the temporary files and one replacement at a
time, and `verify_checkout` and the evidence. A file is two cells that declarations
may own and the rest of its text; `Edit` distinguishes formats by what they accept
and how they write a value. The declarations of one file share a syntax
(`PoliciesAssumption`; a package lock is JSON): what a file would be to two parsers
is outside the model. `TomlScan` is the line scanner of `_toml_assignments` against
the grammar: a document is produced line by line as TOML allows, the grammar
keeps `context`, `table` and `wanted`, and the scanner its own state. Outside the
modelled grammar is a multi-line string that is closed by four or five quotes.

### PrepareVersion, VendorUpdate

Both push a generated commit to a topic branch and open a pull request, request
by request, and can be interrupted anywhere. `PrepareVersion` has the choice of a
version from advertised and reachable tags, the takeover of an earlier topic
(`VerifyOwnedTopic`, which compares trees, so that a commit of somebody else
which was taken back passes and stays below), and the push without force, which
creates a topic that was deleted meanwhile and moves one that the new commit
contains (`Onward`); others extend, delete, merge and create topics at any time
(`ForeignPush`, `Delete`). A branch is the newest commit of main under it and its own
commits, each by its tree.
`VendorUpdate` has the qualification of the run and its bundle, the second
qualification after the commit, the plain push, which moves a branch forward
that somebody created at the base or at an older commit of main, and the pull request
of an existing branch. Trees and bundles are records of what the checks tell apart.

### OciArchive, EffectiveLayers

An archive is a graph of blobs, one per name, with the ways in which it may be
wrong as `Variants`; `Visit` is one node of the walk. The three readers share the
graph and differ in what they require. `Touch` replaces an input while it is read,
`Rival` creates the output first. `EffectiveLayers` reads entries of layers into
the sentinel's state, and lays them down layer by layer: `EndLayer` notes the
ambiguous paths, `MergeEntry` runs over the entries twice, for whiteouts and then
for additions, and `MergeEnds` marks what is left. Each of them acts on the
effective tree and on `fs`, the disk that unpacking would give; hard links,
whiteouts and replaced directories are entries. The merge is steps rather than a
fold so that it can be reasoned about; nothing interferes with it. The sentinel
reader alone does not refuse an entry that goes through a link: its property is
stated for archives whose unpacking is not redirected (`world`).

### RunnerImageBuild

`execute` of the public and the private job, `remove_builder_resources`,
`run_scan` and the `gate`. Every command may fail, or time out after the daemon has
done it; names may belong to others (`Worker`); artifact files may be changed
between the jobs (`Tamper`). An image is the set of components that the evidence
finds in it, and the scan policy maps each advisory to the components its
disposition rests on. libbpf, gstreamer and runc must be there in any case
(`Prerequisites`); the pinned headers matter only to an advisory that rests on them.

### RunnerMode, RunnerLabels

`RunnerMode` has an action per request of `run_switch` and `apply_mode`: the groups
are listed at once (`ListGroups`), the repositories of each are read later by the
listed id (`VerifyGroup`). `Others` moves main, the groups, the smoke run and the variable. `late` is what changed
after the second look. `RunnerLabels` evaluates the rendered expression for every
combination of circumstances with GitHub's operand-valued `&&` and `||`, and
follows `ConsumerRunnerAdapter.visit` over every call graph of three files.

### RegistryPublication

Invocations of `publish_verified.py containers`: `Verify`, a `Look` per image, then
the `Commands` one by one. A failing copy may have copied. `appeared` and
`replaced` are history.

### RecoveryPipeline, RecoveryPayload

`RecoveryPipeline` is `run` with two commands: proof of the input, intent, partial
output, the watch over pipes and children, exit statuses, the link, the ending of
every group and the receipt, each durable record in the two steps of
`durable_json`. Commands that leave their process group are out of its reach.
`RecoveryPayload` cuts originals of any sizes into parts (`PartCount`, `PartBytes`),
with every write, fsync of a file and fsync of a directory as a step, while others
change, extend and shorten the originals; `PowerLoss` takes, tears or brings back
what was not synchronized, after a failure too. `pack` and `verify` go through the
places of `interleaved` one by one (`Advance`, `Yields`), on what survived and on a
stream that may be cut or mixed. A digest is the bytes it covers, so that two
digests are equal exactly if the bytes are.

### HcpRevisions, SecretFiles

`HcpRevisions`: the lock, the key, one intent per generation, the state file, and
Terraform processes with a life of their own, which write one variable at a time;
a request in flight when a run kills its Terraform has landed by then or never does;
Terraform's lock on its state file keeps two of them apart. `SecretFiles`: `new_private` as create
and write, `materialize` as look, link and unlink, catalog lineage, and the drill
as ten steps judged against every kind of age program.

## 3. Runs

Eleven runs; all states of each instance are visited. Components that do not
interact share a run: `MCTransfers`, `MCSecrets`, `MCRunners` and `MCSources` hold
one instance of each component, the variable `part` says which of them a behaviour
is about, and the slots `s1`, `s2`, ... are that component's variables. The
constants and assumptions of the components are those of the shared module, and
the `.cfg` gives them their values. A property
of such a run is the conjunction of the named properties of its components, each
of which is stated and explained in the component's module.

Deadlock checking is off: in every instance the system may legitimately stop
(all runs finished, everything ended). That it does not stop early is what the
liveness properties say.

| Run | Instance | Shows |
|---|---|---|
| `ledger_racing` | 2 overlapping runs, 3 attempts each, no concurrency group, `final-build`, changing policy floors, a deletion | `NumbersSound` (numbers unique, consumed before they are public), `PackagesDistinct` (one package per number and tag), refinement of `BuildNumbers` |
| `ledger_serialized` | 3 runs, 2 attempts, byte promotions, a deletion | `StableOrder` (stable follows its candidate, a candidate is not turned away), `PublicMovesForward` (no downgrade, a stable base stays closed) |
| `ledger_bootstrap` | 2 runs, 2 attempts | **violation**, see section 6 |
| `draft_transaction` | 2 files, 4 identifiers, 3 outside changes, automatic channel | `DraftSound` (one creation, own draft only, adoption only after the second confirmation, published as compared and from the confirmed source) |
| `transfers` | wait: deadline 5, up to 4 units of time in requests; stream of 4 chunks where 3 are expected; files of 0, 1 and 3 bytes with a budget of one inventory per attempt; 2 operators of one pipeline; 2 originals of up to 3 bytes; 2 publications of 2 images | `WaitSound` (nothing ended or cloned is accepted, lag is never a refusal), `HealthyAccepted`; complete and in order or failed; exact acceptance without leftovers; a passed receipt is true; accepted parts reassemble and survive power loss; `latest` is complete; everything ends |
| `guard_fence` | 2 pods, 2 slots, 2 faults | nobody starts unfenced, behind an open listener, or with a stale or remembered identity |
| `guard_progress` | 2 pods, 1 slot, 1 fault | a worker that stays ready is admitted in the end |
| `vault_publication` | 3 generations, 2 destinations, 1 fault or outside change | revisions never move back and name the payload; a finished batch is delivered; repeated runs deliver the newest catalog |
| `secret_control` | journal: 3 invocations of 2 operations, 2 secrets, 3 faults, 2 outside changes; HCP: 2 runs with any catalog of 2 generations, 1 kill or timeout; files: 3 operators, 1 kill | one write per operation and a journal that never understates; a revision tells its value and never goes back; delivered files are the approved ones, whole files stay, the drill judges the age program |
| `runners_images` | mode: 2 invocations, 1 change; labels: all jobs, all graphs of 3 files; nightly: 2 invocations, 2 repositories; archives: 20 variants; layers: 3 entries in up to 3 layers; builds: 3 reports, 1 changed file | writes act on what was shown; jobs are routed by trust; serial, stopped and truly reported checks that end; archives and layers are what the image shows; a passed gate is sound, what is left is reported, what is others' stays |
| `sources_evidence` | vendor: 2 deliveries, 2 events; files: 6 policies, 1 kill, 1 edit; TOML: 8 lines; versions: 2 preparers, 1 event, 3 earlier topics; receipts: 2 targets, 2 attempts, 2 faults; promotion: 6 readers, 2 changes | only the qualified bundle is delivered, and repeated deliveries and synchronizations finish; evidence of version files is true, and the TOML scanner is in step with the grammar; chosen versions are free, and no push takes commits of others away; accepted files are attested in this attempt; evidence held at one moment, and what is read again held after the transfer |

Type invariants (`TypeOK`) are conjuncts of a property of the run or proved; the
runs are kept for what could really be wrong.

Every property of a passing run has a mutant: a changed definition with which
TLC finds the property violated in the same instance. The mutants stand next to
the definitions they change and are used nowhere else.

### Why the bounds are enough

* Ledger: a lost update needs two writers and one later reader, and a stale job
  one run overtaken by another; with three attempts each, two overlapping runs
  contain both. The order of publication is checked with three runs, because
  candidate, promotion and a later build are three. `BuildLimit` is above what the runs can consume except
  where the limit itself is to be hit.
* Draft: an adoption that should not happen needs a foreign draft, a change of
  the run, source or ledger and one of the release, hence three changes; the
  proofs cover every number.
* Streams: four chunks exceed queue, pipe and the item a reader holds together,
  so the producer blocks. Sizes 0, 1 and 3 cover the empty file, the single
  chunk and a file with a proper prefix; three attempts are the code's number.
* Nightly: two repositories have a row before and a row after; two invocations
  contend for the lock.
* Guard: two pods on two slots contain both reuse of a slot and a bystander; two
  faults let one failure follow another before a repair.
* Vault: a revision that returns to an earlier payload is included, because it
  is the case in which comparing payloads is not enough. The code's 13 readbacks
  are 2: more only repeat a wait.
* Journal: an operation that is run twice, and a second one with the same
  approvals; two secrets have a first and a last.
* Wait: `Deadline` counts sleeps. Four units of slow requests use up the
  deadline but one unit, so it can pass at any request of any later round; the
  proofs cover all values.
* Pipeline and registries: a race needs two invocations; a stop between two tags
  and a foreign tag are two outside events.
* Payload: up to three bytes in chunks of one or two give full and short parts,
  an empty original and one of several parts; two originals make the interleaving
  visible.
* HCP: an orphaned Terraform of one run against another run with another
  catalog, in which two variables are written one after the other.
* Secret files: one that creates, one that finds and one that is killed.
* Archives: one input at a time is wrong, in every way the readers distinguish.
  `MaxDepth` and `MaxVisits` are far below the code's 8 and 1024, so that the
  limits themselves are hit.
* Layers: three entries are a file, its hard link or directory, and what changes
  it, in one layer or in later ones.
* Promotion: evidence that never held at once needs one change that makes a later
  look succeed and one that makes an earlier one fail.
* Versions: a topic on an older main may be there from the start, also with an edit
  that was taken back, so that one event (a push, a deletion, a merge) between two
  looks of two preparations meets a topic that is pushed over.
* TOML: eight lines open the second element of an array of tables, a value, a
  string or array of several lines, and an assignment after it.

## 4. Fairness

No fairness is assumed of operators, of other writers, of failures, or of
GitHub ending or rerunning an attempt.

* `AssetDownload`, `ExecutionWait`: weak fairness of the process's own steps. The job is running (`timeout-minutes` of its workflow job
  ends it otherwise), and every request has its own time limit and a bounded
  number of retries (`_read_get`).
* `AssetStream`: each thread runs, time passes, and a killed child dies. No
  fairness of the child: it may hang forever.
* `NightlyRunner`: an invocation that was not killed runs, and time limits pass.
  A check may hang and ignore the termination signal.
* `NodeGuard`: the loop runs, systemd restarts the service (`Restart=always` in
  its unit), time passes, and the runtime finally stops a sandbox whose veth is
  gone.
* `VaultPublication`: an accepted change shows finally, an invocation runs, and
  operators repeat an invocation that stopped; faults are bounded.
* `RecoveryPipeline`: a parent that was not killed runs; nothing is assumed of
  its commands, which may hang or leave descendants.
* `VendorUpdate`, `VersionFiles`: an invocation runs, and somebody starts a
  refused or killed one again, which is how the workflows use them. In
  `MCSources` this is assumed of one of two interchangeable deliveries only.
* All others: no fairness and no liveness property; they are allowed to stop in
  the middle, and that is what their properties are about.

## 5. What is proved

TLAPS checks the proofs for every value of the constants that satisfies the
named assumptions of the modules: any number of runs, invocations, files,
destinations, faults and outside changes. `PROJECT.json` lists the theorems
with the property each one states.

A promise of this code is seldom inductive. The code reads, decides and acts in
separate requests, so the proof needs an invariant that says, for each control
point, what the process still knows of a world that others change. In all of
them the theorem has the same three parts: the initial states satisfy `Inv`,
every action keeps it, and it implies the property. Where the component has a
run of its own (and for the wait), the invariant is in the proof module; where it shares one
(`MCSecrets`, `MCTransfers`, `MCSources`, `MCRunners`), it is in the last section of the
component's module ("Why it holds"), and the proof module shows it for the
behaviours that are about that component (`part = "..." => C!Inv`). The proofs
refer to the component's variables by their slots; each proof module begins with
a table of them.

`ReleaseLedgerProofs`. `Inv` strengthens `UniqueNumbers`, `LedgerReadable` and
`ConsumedBeforePublic`: a run holds a copy of the ledger and a plan computed from
it, and only the compare-and-swap ties them to the file. `AllocationOK` says that
a run about to reserve holds a number above the counter of its copy and has no
plan there, `ConsumptionOK` that a run about to consume holds a number its copy
has issued and not passed, `PublicationOK` that a publishing run's number is
issued and consumed in the file itself, `NumbersOK` that all numbers respect the
limit. From it follow `NumbersAreSound`, `LedgerStaysReadable`, the action
property `LedgerNeverShrinks`, and the refinement `LedgerImplementsAllocator`.
`Packages` adds what the plan, the tag and the release of a run have to do with
each other, for `PackagesAreDistinct`. All this holds with or without the
concurrency group. The order of publication needs the group, and its theorems
assume `Serialized`: `Order` says that at most one run is at work (`Exclusive`)
and that what it read of the ledger and of the public releases is still so until
it writes (`FirstOK`, `ForwardOK`). From it follow `StableOrderHolds` and the
action property `PublicMovesForwardHolds`. `StableFollowsItsRC` needs no group.

`DraftTransactionProofs`. `Inv` adds to the properties that identifiers are
unique, that the marker of the call exists at most once and not before the call
(`CreatedOnce`), that the release at hand is the call's own (`HoldsOwn`), and
what was compared and looked at and is either unchanged or in `late`
(`Compared`, `SourceLooks`, `ReadbackLooks`). Theorems: `CreatesOneRelease`,
`WorksOnOwnDraft`, `PublishesWhatItChecked`, `PublishesItsSource`,
`AdoptsConfirmed`, their conjunction `TransactionIsSound`, and `TypeCorrect`.

`VaultPublicationProofs`. A write comes long after the snapshot that justifies it.
Every change gives a destination a new ETag, so a plan whose ETag is current
describes the destination as it is (`SeenOK`, `PlanOK`); revisions never fall, so
what was found delivered stays delivered without any ETag (`DeliveredOK`); a
pending change is never behind what shows (`PendingOK`, `FreshOK`). Every step
leaves a destination alone or moves it forward (`Grows`), which keeps the
knowledge of all other invocations at once. Theorems: `PublicationIsSound`,
`RevisionsNeverFall`.

`NodeGuardProofs`. What the guard remembers (workers, table, evidence) may be
wrong after a failed pass. `Rediscovers` and `Rechecks` say when the next pass is
bound to ask the container runtime or to read the table before it admits anybody;
`TableOK` and `DiscoveredOK` say that memory is right or that this is the case.
The hard part is `CoveredOK`: the remembered table fences the remembered workers,
or one of them has stopped for good and so cannot be found again, and then the
pass cannot take its rows for unchanged. `NodeOK`, `HomesOK`, `MissingOK`,
`ListenerOK`, `PassOK` and `AdmissionOK` supply the rest. Theorem:
`AdmissionIsSound`.

`SecretsProofs`.
* Files: a file under the writer's hand is its own (`OneWriter`), what an operator
  carries is the approved value (`Carries`), and each step of the drill has shown
  one property of the age program (`DrillOK`). `SecretFilesAreSound`,
  `WholeFilesDoStay`.
* HCP: one run at work (`RunsOK`), any two intents ordered (`LedgerOK`), an
  applying run has the newest intent (`RecordedOK`), and the one Terraform process,
  which may outlive its run, has a recorded intent that HCP is not ahead of
  (`TerraformOK`, `GivenOK`). `HcpRevisionsTellValues`, `HcpRevisionsGrow`;
  with `WholeFilesDoStay` it is `NothingIsTakenBack`.
* Journal: one invocation attempts an operation (`OneAttempt`), a request lands
  once (`LandedOK`), and the counters of an invocation equal the number of its
  writes at every control point (`CountsOK`), so that receipts and outcomes never
  understate (`ReceiptsOK`, `OutcomeOK`). `JournalTruthHolds`.

`TransfersProofs`.
* Wait: a round which begins after the end is visible everywhere was refused in its
  first answer, a first attempt has no clones, and time past the deadline was spent
  in requests (`RoundInv`); `PollSummary` states once what any answer may do.
  `VerdictIsRight`, and `NothingLateIsAccepted`, which, like `LedgerStaysReadable`
  and `LedgerNeverShrinks` above, is proved and not repeated by a run.
* Registries: what was free at the look appeared since or is still free (`FreeOK`),
  and the copies before the current one are done (`CopiedOK`). `RegistryIsKept`.
* Pipeline: while the input has the identity that was verified, nothing but the
  reviewed content was read (`ProofOK`); a run that goes on has all exits, the whole
  output and its name (`GoodOK`, `PassedOK`). `ReceiptsAreTrue`.
* Stream: every emitted chunk is in exactly one of pipe, reader, queue and file, in
  order (`PipeOK`, `HeldOK`, `QueueOK`), and the end of stdout is queued last
  (`EndedOK`). `ReturnIsComplete`, for every payload, queue and pipe size.
* Download: what has been charged plus what may still be charged (`Owed`) stays
  within the allowance. The total size of a set of files is the cardinality of its
  set of bytes, so that sums over sets need no induction. `DownloadIsSound`.
* Payload: what was read of an original is what its parts hold, one after the other
  (`WholeOK`), so one that is compared in whole has exactly the inventory's parts
  (`CatalogOK`). Every part but the current one is on disk, with its name
  (`StagedOK`), and the catalog gets its name behind all of them (`ManifestOK`), so
  a power failure takes nothing of what a catalog lists (`PayloadPowerLossKeeps`).
  What pack wrote and what verify took are the members `interleaved` has yielded so
  far, no more and no less, and a digest is the inventory up to there (`StreamOK`).
  `PayloadInvHolds`, `PayloadIsSound`, for any originals, part size and number of
  writes. The parts of an original are as many as there are multiples of the part
  size below its length (`PayloadCuts`), which needs no induction.

`SourcesProofs`.
* Vendor updates: a delivery that goes on has passed every earlier check
  (`ChecksOK`, `CommitOK`), and one whose source was lost when it committed is
  stopped by the second round (`LateOK`). `DeliveriesAreQualified`.
* Receipts: a receipt stays true of the attempt it names, whatever happens to the
  files (`TrueReceipt`). `AcceptedAreAttested`.
* Versions: main holds nothing unreviewed, so neither does a topic that was compared
  with it (`PreparerOK`), and what a push replaces it contains (`VersionPushesOwned`).
  That the chosen patch is free is an argument about numbers: there
  is a least free one above the newest reachable tag, because the occupied ones
  are finitely many (`LeastNumber`, from the well-foundedness of the natural
  numbers, and a pigeonhole over cardinalities). `ChosenAreFree`.
* Both: `OthersAreKept`.
* Version files: an edit that is not refused leaves the rest of a file and keeps
  numbers numbers (`FilesEdit`), and what an edit maps to itself holds the
  declared value (`FilesHolds`). A file that is in memory is there by one of the
  declarations so far (`ReadOK`); from the agreement on, every declaration maps the
  edited files to themselves (`AgreeOK`), which is the evidence; and without
  edits by others the disk holds, file by file, what was read or what replaced it
  (`DiskOK`). `FilesInvHolds`, `EvidenceIsTrue`.
* Readers of a published release: every edit leaves a stamp, so that two looks with
  the same stamp saw the same assets (`Older`), and attempts of a run only grow, so
  that a run that was seen to end well still has or was repeated (`Seen`). The moment
  at which all held is the look at the run: what was read before it is kept until then
  or is found changed by the last comparison, and what is read after it was there by
  then, because a later attempt would have made an artifact of its own (`Vouched`,
  `VouchedFor`; `Witnessed` adds the promotion of a stable copy, whose two looks
  enclose it). `PromotionInvHolds`, `EvidenceHeldWhenAccepted`, for any number of
  changes by others.

`RunnersProofs`.
* Nightly runner: whoever works holds the lock (`LockOK`), the leader of a check
  lives only while its invocation waits for it or was killed (`LeadersOK`), and every
  summary that was ever written, also the one that a power loss brings back, has
  some of the first rows on disk (`ReportOK`). `NightlyTruthHolds`.
* Runner mode: what an invocation has looked at in its second check is as it was
  then, or it changed since and is late (`LooksOK`). `SwitchIsAlwaysCurrent`.
* Image builds: a builder is owed its removal from before the command that makes it
  until it is known to be gone (`JobOK`), a report is one of the archive that the
  receipt names (`ScannedOK`), the private build stands on the archive of the
  public receipt (`BaseOK`), and a saved receipt stays true of what was left
  (`SavedOK`). `ImageBuildIsSound`; `OthersAreKept` needs of it that a volume is
  removed only if its name was free.
* Labels: the expression is a case analysis (`LabelsSelected`). For the adapter, the
  invariant is that of a depth-first search: the files left (`LeftOK`) are closed
  under calls, so that a file which leaves the stack does not reach itself; each
  file on the stack reaches all above it (`StackOK`), so that a call back into the
  stack closes a circle; and no consistent routing differs from what was given
  (`VisitedOK`). What calls reach is the least closed set (`LabelsReaches`), not a
  recursion, so that no induction over the graph is needed. `LabelsRouteByTrust`.
* Layers: the merge lays one entry down in a step, so that what a fold computes is
  an invariant of steps (`LayersInvHolds`). As long as no check failed, the tree is
  on the disk and what the disk has beyond it are directories (`TreeOK`), so that
  no entry goes through a link; a regular file that is neither marked nor an end of
  a link of this layer has an inode of its own (`Alone`), which needs that all
  links of the layer and all earlier marks are among the paths to be marked
  (`MarksOK`); and the anchor has the last entry that sets it still to come, or is
  the sentinel and nothing still to come changes that (`AnchorOK`).
  `LayersAreShown` follows for finished layers.

Only model-checked:

* liveness (`HealthyAccepted`, `TransferEnds`, `StableAdmitted`,
  `NewestDelivered`, `InvocationsEnd`, `RetriesFinish`): fairness and `ENABLED` are
  outside the prover;
* `TomlScanTrue`: scanner and grammar are recursive functions over the characters
  of a line, and what they compute needs induction over data;
* `AcceptedIsSound`: what the readers of an archive accept is compared with a
  closure over all its blobs, again an induction over data.

## 6. Findings and observations

**An interrupted first allocation cannot be repeated** (`ledger_bootstrap`).
`reserve_plan` creates the state branch and then writes the ledger. If the
run ends in between, every later allocation fails with "Version ledger is
missing from its existing branch; restore it from history"
(`scripts/release_state.py:101`) although there is no history to restore from;
`docs/VERSIONING.md:112` promises that a rerun reuses its plan and a new run
consumes a new number.

An observation without a run: a guard pass that replaced the bridge table and
then failed its last identity check has updated the remembered table but not the
remembered workers (`deploy/runner-reserve/node_guard.py:303`). If the next
discovery equals the remembered workers, the guard sees neither a change nor a
difference from the remembered table, and admits workers while the table still
has the set of the failed pass. Every admitted worker is fenced all the same
(`AdmissionSound`); what is left over are rules for a veth name that is gone.

A limitation that is by design and visible in the models: once the last look of
a draft transaction is over, GitHub gives no way to publish only if nothing
changed; `PublishedAsChecked` and `PublishedSource` therefore except what is in
`late`.

Observations that the models made visible; each is what the code does, and the
properties are stated so that they say it:

* `scripts/publish_verified.py:224` says a version tag is never overwritten. The
  copy is unconditional, so a tag that appears between the look and the copy is
  (`VersionsKept` excepts exactly these). A partial publication is refused when it
  is repeated, by design, and `latest` may go back to an older version when two
  publications race.
* A kill between the link and the unlink of `materialize_bytes` leaves the output
  with two names; a repetition refuses the byte-identical file. A killed
  `new_private` leaves a torn file whose name stays taken. No torn file is ever
  accepted, but an operator has to remove it.
* A killed `durable_json` or `prepare` leaves its `.pending` record, and later
  invocations for the same name refuse.
* The ownership check of `prepare_version.py` compares the topic's tree with the merge
  base. Commits of others that cancel out stay in the topic's history, and a topic
  that somebody moves back to one of them is moved forward again by the push. No
  commit is lost either way (`PushesOwned`).
* A tag of the chosen version that appears after the choice is not noticed by
  `prepare_version.py`.
* A beta or nightly that somebody dispatched is published whatever the head of the
  default branch is.
* A nightly runner that is killed frees its lock while its check goes on in a
  session of its own, and the next invocation starts beside it.

## 7. Not modelled

* Merge and review automation: shell and action inputs in workflow files; the
  head that was looked at is enforced by GitHub (`--match-head-commit`).
* Text generation and rendering (`install_release.py`, ARC and pool manifests,
  workflow migrations and contracts, coverage pages): functions from text to
  text without state; correctness is a matter of bytes.
* Builds of single tools, the qualification of builder tools, bootstrap of the
  signer and the GitHub client: sequential checks of contents in one order.
* Readers of wheels, source distributions, npm packages and other archives in
  `version_plan.py` (1641-1740): one file, one verdict.
* Signatures, TLS, authentication, encryption, pagination, JSON parsing:
  abstracted to an answer, a refusal or a failure.
* PyPI upload: one `twine` command after the verification that
  `RegistryPublication` has.
* Free disk space in `AssetDownload`, the connection limit of the guard's
  server: they only add refusals.
* Change classification and dependency update support: pure functions, and
  patches of a third-party tool.

## 8. Plan

Done: all modules of section 2; the proofs of section 5.

Next proof: `TomlScanTrue`, with scanner and grammar taking one character each step,
as `VersionFiles`, `EffectiveLayers` and `RecoveryPayload` take one entry.

Next models: the retry policy of reads (`_read_get`, `_completed_read`); change
classification and merging of coverage reports against reference definitions;
the merge policy of the workflows.
