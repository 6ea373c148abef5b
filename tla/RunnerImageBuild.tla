-------------------------- MODULE RunnerImageBuild --------------------------
(***************************************************************************)
(* scripts/build_runner_image_artifacts.py: two jobs, each on a worker of  *)
(* its own, build the public and the private runner image; each creates a  *)
(* builder, a scanner and an imported image in Docker, removes them, and   *)
(* leaves an artifact directory with a receipt.  A third job, the gate,    *)
(* reads both directories.  Any command may fail, or time out after the    *)
(* daemon has done what it asked for.                                      *)
(***************************************************************************)
EXTENDS Naturals, FiniteSets

CONSTANTS
    Lacking,         \* sets of components that a build may leave out
    Reports,         \* sets of advisories that a scan may report
    MaxTampers       \* changes to files under the jobs' feet

VARIABLES
    stage,           \* "public", "private", "gate", "passed" or "failed"
    pc,              \* position in execute, in remove_builder_resources or in run_scan
    docker,          \* what the worker's daemon holds under the names that the job uses
    rec,             \* the receipt that the job is writing
    dir,             \* each stage's artifact directory
    left,            \* what of its own each job left in its daemon
    tampers

vars == <<stage, pc, docker, rec, dir, left, tampers>>

Stages == {"public", "private"}

-----------------------------------------------------------------------------
(* Images and scans.  An image is told by the components that it patches   *)
(* or pins.                                                                *)

Components == {"libbpf", "gstreamer", "headers", "runc"}
Images == SUBSET Components
Built == {Components \ missing : missing \in Lacking}

\* SCAN_POLICY: the component whose evidence disposes of an advisory.
Policy == [header |-> {"headers"}, headerBpf |-> {"headers", "libbpf"}, runc |-> {"runc"}, gst |-> {"gstreamer"}]

\* How a report differs from the reviewed ones: not at all, in an advisory's text, in the package or target
\* that it names, in that a package is missing or named twice, or in the packages that it lists for runc.
Changes == {"none", "advisory", "identity", "ambiguous", "inventory"}

\* assessment_findings: each finding is of one package, of a layer of this image.
Assessable(report) == report.changed # "ambiguous" \/ report.findings = {}

\* assess_components: the components whose installed files are, to the byte, the patched or pinned ones.
AssessComponents(image) == image \cap Components

\* What an image needs whatever its scan reports; the headers count only where a finding rests on them.
Prerequisites == {"libbpf", "gstreamer", "runc"}

\* Every finding is a reviewed one, word for word, on an image whose files have the evidence; and the
\* backports and the accepted runc are there even if no finding is about them.
ScanAcceptance(image, report) ==
    /\ Prerequisites \subseteq AssessComponents(image) /\ report.changed # "inventory"
    /\ \A v \in report.findings : report.changed = "none" /\ v \in DOMAIN Policy /\ Policy[v] \subseteq AssessComponents(image)

NoImage == {"none"}
NoReport == [of |-> NoImage, findings |-> {}, changed |-> "none"]
NoRecord ==
    [imported |-> FALSE, absent |-> FALSE, created |-> FALSE, id |-> FALSE, archive |-> NoImage, base |-> NoImage, built |-> FALSE,
     builderRemoved |-> FALSE, verified |-> FALSE, scannerRemoved |-> FALSE, report |-> NoReport, accepted |-> FALSE,
     preflights |-> FALSE, scanned |-> FALSE, failed |-> FALSE, cleanupFailed |-> FALSE, importRemoved |-> FALSE]
Empty == [receipt |-> NoRecord, saved |-> FALSE, archive |-> NoImage, report |-> NoReport]
Clean == [container |-> "none", instance |-> FALSE, volume |-> "none", scanner |-> "none", image |-> "none"]
Ours(d) == {r \in {"container", "volume", "scanner", "image"} : d[r] = "ours"} \cup (IF d.instance THEN {"instance"} ELSE {})

\* A worker is new, but something may have the name of what the job is going to make.
Worker == {Clean} \cup {[Clean EXCEPT ![r] = "foreign"] : r \in {"container", "volume", "scanner", "image"}}

Init ==
    /\ stage = "public" /\ pc = "event" /\ docker \in Worker /\ rec = NoRecord
    /\ dir = [s \in Stages |-> Empty] /\ left = [s \in Stages |-> {}] /\ tampers = 0

-----------------------------------------------------------------------------

To(where) == pc' = where /\ UNCHANGED <<stage, dir, left, tampers>>

\* An exception: the finally block takes over.
Raise == To("finally") /\ rec' = [rec EXCEPT !.failed = TRUE]

\* A Docker command and what it does: it works, it fails, or it fails for the client only.
Command(after, begun, where) ==
    /\ \/ docker' = after /\ rec' = begun /\ To(where)
       \/ docker' \in {docker, after} /\ rec' = [begun EXCEPT !.failed = TRUE] /\ To("finally")

\* validate_event and validate_manifest come before the receipt exists.
Begin ==
    /\ pc = "event"
    /\ \/ pc' = "start" /\ UNCHANGED stage
       \/ stage' = "failed" /\ UNCHANGED pc
    /\ UNCHANGED <<docker, rec, dir, left, tampers>>

\* The dispatched commit, enough disk, and the accepted builder's archives as its lock names them.
Prepare ==
    /\ pc = "start" /\ UNCHANGED docker
    /\ (To("load") /\ UNCHANGED rec) \/ Raise

\* The accepted builder image: its tag is free before it is loaded.
Load ==
    /\ pc = "load"
    /\ IF docker.image # "none" THEN Raise /\ UNCHANGED docker
       ELSE Command([docker EXCEPT !.image = "ours"], [rec EXCEPT !.imported = TRUE], "context")

\* The receipt says that the public job went through, and its files are the ones that the receipt names.
ReceiptHolds(d) ==
    /\ d.saved /\ d.receipt.built /\ d.receipt.verified /\ d.receipt.scanned
    /\ d.receipt.builderRemoved /\ d.receipt.scannerRemoved /\ d.receipt.importRemoved
    /\ d.report = d.receipt.report
    /\ d.receipt.accepted = (d.receipt.report.of # NoImage /\ ScanAcceptance(d.receipt.report.of, d.report))

\* validate_parent: the public archive of this run is the one that was verified and scanned.
ParentHolds == ReceiptHolds(dir["public"]) /\ dir["public"].receipt.preflights /\ dir["public"].archive = dir["public"].receipt.archive

Context ==
    /\ pc = "context"
    /\ \/ stage = "public" /\ To("volume") /\ rec' = rec
       \/ stage = "private" /\ ParentHolds /\ To("volume") /\ rec' = [rec EXCEPT !.base = dir["public"].archive]
       \/ stage = "private" /\ ~ParentHolds /\ Raise
    /\ UNCHANGED docker

ProbeVolume ==
    /\ pc = "volume"
    /\ IF docker.volume = "none" THEN To("create") /\ rec' = [rec EXCEPT !.absent = TRUE] ELSE Raise
    /\ UNCHANGED docker

\* Cleanup is due once the command has returned.
AfterReturn(r) == r

\* Cleanup is due from before the command on: the daemon may do what the client gives up on.
Owes(r) == [r EXCEPT !.created = TRUE]

Create ==
    /\ pc = "create"
    /\ Command([docker EXCEPT !.instance = TRUE], Owes(rec), "bootstrap")

\* Buildx starts a container, with a state volume, or takes the one that has the name.
Bootstrap ==
    /\ pc = "bootstrap"
    /\ Command(IF docker.container = "none" THEN [docker EXCEPT !.container = "ours", !.volume = IF @ = "none" THEN "ours" ELSE @] ELSE docker,
               [rec EXCEPT !.created = TRUE], "qualify")

\* builder_identity: the container has the job's labels and limits, and a RUN of it stays inside its cgroup.
Qualify ==
    /\ pc = "qualify"
    /\ \/ docker.container = "ours" /\ rec' = [rec EXCEPT !.id = TRUE] /\ To(IF stage = "public" THEN "preflight" ELSE "build")
       \/ Raise
    /\ UNCHANGED docker

\* run_patch_preflights: both patched stages are built in that container within one budget.
Preflight ==
    /\ pc = "preflight"
    /\ \/ docker.container = "ours" /\ To("build") /\ rec' = [rec EXCEPT !.preflights = TRUE]
       \/ Raise
    /\ UNCHANGED docker

Build(image) ==
    /\ pc = "build"
    /\ \/ /\ docker.container = "ours" /\ pc' = "remove"
          /\ rec' = [rec EXCEPT !.built = TRUE, !.archive = image] /\ dir' = [dir EXCEPT ![stage].archive = image]
          /\ UNCHANGED <<stage, left, tampers>>
       \/ Raise
    /\ UNCHANGED docker

\* The builder is lost: killed for memory, or stopped by somebody.
Lose ==
    /\ pc \in {"qualify", "preflight", "build", "remove"} /\ docker.container = "ours"
    /\ docker' = [docker EXCEPT !.container = "none"]
    /\ UNCHANGED <<stage, pc, rec, dir, left, tampers>>

-----------------------------------------------------------------------------
(* remove_builder_resources, called after the build and in the finally     *)
(* block; "again" tells them apart.                                        *)

Again == pc \in {"again", "again_instance", "again_volume"}
RemovalFails ==
    IF Again THEN To("unimport") /\ rec' = [rec EXCEPT !.cleanupFailed = TRUE] ELSE Raise
Then(first, second) == To(IF Again THEN second ELSE first) /\ UNCHANGED rec

\* Whatever has the name is the builder.
AnyBuilder == TRUE
OurBuilder == docker.container # "foreign"

\* By its id, once its labels and limits have told that it is the job's own.
RemoveContainer ==
    /\ pc \in {"remove", "again"}
    /\ \/ /\ OurBuilder /\ docker.container # "none"
          /\ \/ docker' = [docker EXCEPT !.container = "none"] /\ Then("remove_instance", "again_instance")
             \/ docker' \in {docker, [docker EXCEPT !.container = "none"]} /\ RemovalFails
       \/ docker.container = "none" /\ Then("remove_instance", "again_instance") /\ UNCHANGED docker
       \/ (docker.container = "none" \/ ~OurBuilder) /\ RemovalFails /\ UNCHANGED docker

\* Buildx may or may not take the state volume along.
RemoveInstance ==
    /\ pc \in {"remove_instance", "again_instance"}
    /\ IF ~docker.instance THEN Then("remove_volume", "again_volume") /\ UNCHANGED docker
       ELSE IF docker.container # "none" THEN RemovalFails /\ UNCHANGED docker
       ELSE \E volume \in {docker.volume, "none"} :
                LET gone == [docker EXCEPT !.instance = FALSE, !.volume = IF docker.volume = "ours" THEN volume ELSE @]
                IN  \/ docker' = gone /\ Then("remove_volume", "again_volume")
                    \/ docker' \in {docker, gone} /\ RemovalFails

\* Each removal is read back.
Absent(after) == after.container = "none" /\ ~after.instance /\ after.volume = "none"

RemoveVolume ==
    /\ pc \in {"remove_volume", "again_volume"}
    /\ \E after \in {docker, [docker EXCEPT !.volume = "none"]} :
        /\ docker' = after
        /\ \/ /\ Absent(after) /\ (docker.volume # "none" => rec.absent)
              /\ rec' = [rec EXCEPT !.builderRemoved = TRUE, !.created = FALSE]
              /\ To(IF Again THEN "unimport" ELSE "verify")
           \/ (after.volume # docker.volume => rec.absent) /\ RemovalFails

-----------------------------------------------------------------------------

\* oci.verify, for the private image also that it stands on the accepted public one.
Verify ==
    /\ pc = "verify"
    /\ \/ dir[stage].archive = rec.archive /\ To("scan") /\ rec' = [rec EXCEPT !.verified = TRUE]
       \/ Raise
    /\ UNCHANGED docker

\* The scanner reads a layout projected from the archive; its container is removed whatever happens.
Scan(findings, changed) ==
    LET report == [of |-> dir[stage].archive, findings |-> findings, changed |-> changed]
    IN  /\ pc = "scan" /\ rec.report = NoReport
        /\ \/ /\ docker.scanner = "none" /\ dir[stage].archive = rec.archive
              /\ docker' = [docker EXCEPT !.scanner = "ours"] /\ pc' = "scanned"
              /\ rec' = [rec EXCEPT !.report = report] /\ dir' = [dir EXCEPT ![stage].report = report]
              /\ UNCHANGED <<stage, left, tampers>>
           \/ findings = {} /\ changed = "none" /\ docker' \in {docker, [docker EXCEPT !.scanner = IF @ = "none" THEN "ours" ELSE @]}
              /\ To("unscan") /\ UNCHANGED rec
           \/ findings = {} /\ changed = "none" /\ dir[stage].archive # rec.archive /\ Raise /\ UNCHANGED docker

\* remove_scanner; after a scan that went well the archive is hashed again.
RemoveScanner ==
    /\ pc \in {"scanned", "unscan"}
    /\ \/ docker.scanner # "foreign" /\ docker' = [docker EXCEPT !.scanner = "none"]
          /\ IF pc = "scanned" /\ dir[stage].archive = rec.archive
             THEN To("accept") /\ rec' = [rec EXCEPT !.scannerRemoved = TRUE, !.scanned = TRUE]
             ELSE To("finally") /\ rec' = [rec EXCEPT !.scannerRemoved = TRUE, !.failed = TRUE]
       \/ docker' \in {docker, [docker EXCEPT !.scanner = IF @ = "ours" THEN "none" ELSE @]} /\ Raise

Accept ==
    /\ pc = "accept"
    /\ \/ Assessable(rec.report) /\ To("finally") /\ rec' = [rec EXCEPT !.accepted = ScanAcceptance(rec.archive, rec.report)]
       \/ Raise
    /\ UNCHANGED docker

Finally ==
    /\ pc = "finally" /\ To(IF rec.created THEN "again" ELSE "unimport") /\ UNCHANGED <<docker, rec>>

\* The imported image, if the job began to import it and its tag was free before.
Unimport ==
    /\ pc = "unimport"
    /\ To("save")
    /\ \/ ~rec.imported /\ UNCHANGED <<docker, rec>>
       \/ rec.imported /\ docker.image # "foreign" /\ docker' = [docker EXCEPT !.image = "none"]
            /\ rec' = [rec EXCEPT !.importRemoved = TRUE]
       \/ rec.imported /\ docker' \in {docker, [docker EXCEPT !.image = IF @ = "ours" THEN "none" ELSE @]}
            /\ rec' = [rec EXCEPT !.failed = TRUE]

Save ==
    /\ pc = "save"
    /\ dir' = [dir EXCEPT ![stage].receipt = rec, ![stage].saved = TRUE]
    /\ left' = [left EXCEPT ![stage] = Ours(docker)]
    /\ rec' = NoRecord /\ pc' = "event"
    /\ \E fresh \in Worker :
        /\ docker' = IF stage = "public" THEN fresh ELSE Clean
        /\ stage' = IF stage = "public" /\ ~rec.failed THEN "private" ELSE IF stage = "private" /\ ~rec.failed THEN "gate" ELSE "failed"
    /\ UNCHANGED tampers

\* A directory is an uploaded artifact between the jobs, and the private job deletes its copy of the public
\* archive; the gate has receipts, reports and proofs.
Gate ==
    /\ stage = "gate"
    /\ stage' = IF \A s \in Stages : ReceiptHolds(dir[s]) /\ ~dir[s].receipt.cleanupFailed /\ dir[s].receipt.accepted THEN "passed" ELSE "failed"
    /\ UNCHANGED <<pc, docker, rec, dir, left, tampers>>

\* Another process writes into the job's archive or report.
Tamper(s) ==
    /\ tampers < MaxTampers /\ tampers' = tampers + 1
    /\ stage \in Stages \cup {"gate"}
    /\ \/ dir[s].archive # NoImage /\ dir' = [dir EXCEPT ![s].archive = {}]
       \/ dir[s].report # NoReport /\ dir' = [dir EXCEPT ![s].report.findings = {}]
    /\ UNCHANGED <<stage, pc, docker, rec, left>>

Next ==
    \/ /\ stage \in Stages
       /\ \/ Begin \/ Prepare \/ Load \/ Context \/ ProbeVolume \/ Create \/ Bootstrap \/ Qualify \/ Preflight \/ (\E i \in Built : Build(i)) \/ Lose
          \/ RemoveContainer \/ RemoveInstance \/ RemoveVolume \/ Verify
          \/ (\E f \in Reports, c \in Changes : Scan(f, c)) \/ RemoveScanner \/ Accept \/ Finally \/ Unimport \/ Save
    \/ Gate
    \/ \E s \in Stages : Tamper(s)
Spec == Init /\ [][Next]_vars

-----------------------------------------------------------------------------

\* An advisory applies to an image that lacks what its policy rests on, and one that is new or reworded to any.
Affects(v, report, image) == report.changed # "none" \/ v \notin DOMAIN Policy \/ ~(Policy[v] \subseteq image)

(***************************************************************************)
(* When the gate passes, both images have the backports and the accepted   *)
(* runc, no advisory that their scans reported applies to them, one about  *)
(* the headers only if the headers are the pinned ones, the private image  *)
(* stands on the public archive that was scanned, and neither job left a   *)
(* builder, a volume, a scanner or an import behind; whatever failed,      *)
(* timed out or was changed meanwhile.                                     *)
(***************************************************************************)
GateSound ==
    stage = "passed" =>
        /\ \A s \in Stages :
            LET r == dir[s].receipt
            IN  Prerequisites \subseteq r.archive /\ left[s] = {} /\ \A v \in r.report.findings : ~Affects(v, r.report, r.archive)
        /\ dir["private"].receipt.base = dir["public"].receipt.archive

(***************************************************************************)
(* What a job leaves behind in Docker it also reports: a builder, an       *)
(* instance or a volume of its own is there at its end only if the receipt *)
(* says that the cleanup failed, even if the client of "create" gave up    *)
(* on a builder that the daemon made.                                      *)
(***************************************************************************)
LeftIsReported ==
    \A s \in Stages : dir[s].saved /\ left[s] \cap {"container", "instance", "volume"} # {} =>
        dir[s].receipt.cleanupFailed /\ ~dir[s].receipt.builderRemoved

(***************************************************************************)
(* A container, a volume or an image of somebody else that has one of the  *)
(* job's names is still there when the job ends.                           *)
(***************************************************************************)
KeepsForeign ==
    \A r \in {"container", "volume", "scanner", "image"} :
        docker[r] = "foreign" /\ stage' = stage => docker'[r] = "foreign"
ForeignKept == [][KeepsForeign]_vars

-----------------------------------------------------------------------------
(***************************************************************************)
(* Why it holds.  A builder of the job's own is owed its removal from      *)
(* before it exists until it is known to be gone, and each removal that    *)
(* the receipt reports left nothing that a later step could bring back.    *)
(***************************************************************************)
Named == {"none", "ours", "foreign"}
Dockers == [container : Named, instance : BOOLEAN, volume : Named, scanner : Named, image : Named]
Scans == [of : Images \cup {NoImage}, findings : Reports \cup {{}}, changed : Changes]
Receipts ==
    [imported : BOOLEAN, absent : BOOLEAN, created : BOOLEAN, id : BOOLEAN, archive : Images \cup {NoImage},
     base : Images \cup {NoImage}, built : BOOLEAN, builderRemoved : BOOLEAN, verified : BOOLEAN,
     scannerRemoved : BOOLEAN, report : Scans, accepted : BOOLEAN, preflights : BOOLEAN, scanned : BOOLEAN,
     failed : BOOLEAN, cleanupFailed : BOOLEAN, importRemoved : BOOLEAN]
Directories == [receipt : Receipts, saved : BOOLEAN, archive : Images \cup {NoImage}, report : Scans]

TypesOK ==
    /\ stage \in Stages \cup {"gate", "passed", "failed"} /\ docker \in Dockers /\ rec \in Receipts
    /\ dir \in [Stages -> Directories] /\ left \in [Stages -> SUBSET {"container", "volume", "scanner", "image", "instance"}]

Builder(d) == d.container = "ours" \/ d.instance \/ d.volume = "ours"
Gone(d) == d.container = "none" /\ ~d.instance /\ d.volume = "none"

\* What the job's receipt says of the daemon is so.
JobOK ==
    /\ Builder(docker) => rec.created \/ rec.cleanupFailed
    /\ pc \in {"unimport", "save"} /\ Builder(docker) => rec.cleanupFailed
    /\ rec.absent => docker.volume # "foreign"
    /\ rec.builderRemoved =>
        /\ Gone(docker)
        /\ pc \in {"verify", "scan", "scanned", "unscan", "accept", "finally", "again", "again_instance", "again_volume", "unimport", "save"}
    /\ rec.scannerRemoved =>
        /\ docker.scanner = "none"
        /\ pc \in {"accept", "finally", "again", "again_instance", "again_volume", "unimport", "save"}
    /\ rec.importRemoved => docker.image = "none" /\ pc = "save"

\* A report is one of the archive that the receipt names.
ReportOf(r) == r.report.of = NoImage \/ r.report.of = r.archive

\* Before the image is built nothing was scanned.
Early == {"event", "start", "load", "context", "volume", "create", "bootstrap", "qualify", "preflight", "build"}
ScannedOK == ReportOf(rec) /\ (pc \in Early => rec.report.of = NoImage)

\* The private build stands on the public archive as its receipt names it.
BaseOK ==
    stage = "private" /\ (rec.built \/ pc \in {"volume", "create", "bootstrap", "qualify", "preflight", "build"})
        => rec.base = dir["public"].receipt.archive

SavedOK(s) ==
    /\ ReportOf(dir[s].receipt)
    /\ LET r == dir[s].receipt IN
        dir[s].saved /\ r.builderRemoved /\ r.scannerRemoved /\ r.importRemoved => left[s] = {}

Inv ==
    /\ TypesOK /\ JobOK /\ BaseOK /\ ScannedOK /\ \A s \in Stages : SavedOK(s)
    /\ stage = "public" => ~dir["private"].saved
    /\ dir["private"].saved /\ dir["private"].receipt.built =>
        dir["private"].receipt.base = dir["public"].receipt.archive
    /\ GateSound /\ LeftIsReported
=============================================================================
