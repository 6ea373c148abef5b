---------------------------- MODULE BuildReceipts ----------------------------
(***************************************************************************)
(* From build jobs to a publishable set of files.  Each target builds in a *)
(* checkout of its own, detaches the provenance of its image               *)
(* (release_provenance.py), stages its files with a receipt                *)
(* (stage_release_assets.py, version_receipt.py) and uploads them under    *)
(* the number of the run's attempt; the publisher collects the uploads of  *)
(* its attempt and accepts or refuses them as a whole.  Jobs are killed    *)
(* and repeated, and what a consumer's own build steps do is not ours.     *)
(***************************************************************************)
EXTENDS Naturals, FiniteSets

CONSTANTS
    Targets,         \* build targets
    ImageTarget,     \* the one that builds the container image
    MaxAttempts,     \* attempts of the run
    MaxFaults        \* kills, and what a consumer's steps do wrong

VARIABLES
    attempt,
    pc,              \* of each target's job
    inputs,          \* whether its version files are still as they were synchronized
    dist,            \* what its build wrote: files
    staged,          \* release-assets/TARGET: files and a receipt
    uploads,         \* artifacts of the run
    publisher,       \* "idle", "accepted" or "refused"
    accepted,        \* the files that were accepted
    attested,        \* history: every file with the target and attempt whose inputs were right when its receipt was made
    faults

vars == <<attempt, pc, inputs, dist, staged, uploads, publisher, accepted, attested, faults>>

NoReceipt == [target |-> "none", attempt |-> 0, artifacts |-> {}]
NotStaged == [files |-> {}, receipt |-> NoReceipt, there |-> FALSE]

\* A file is told from every other by its name, the build that wrote it and, for a sidecar, the image it describes.
File(name, build) == [name |-> name, build |-> build]
Named(files, name) == {f \in files : f.name = name}
Names(files) == {f.name : f \in files}

Init ==
    /\ attempt = 1 /\ pc = [t \in Targets |-> "build"] /\ inputs = [t \in Targets |-> "synced"]
    /\ dist = [t \in Targets |-> {}] /\ staged = [t \in Targets |-> NotStaged]
    /\ uploads = {} /\ publisher = "idle" /\ accepted = {} /\ attested = {} /\ faults = 0

Go(t, where) == pc' = [pc EXCEPT ![t] = where]
Fault == faults < MaxFaults /\ faults' = faults + 1
Elsewhere(t) == UNCHANGED <<attempt, uploads, publisher, accepted>>

-----------------------------------------------------------------------------
(* A job *)

\* The consumer's build: one package, and native archives for the image.
Build(t) ==
    /\ pc[t] = "build" /\ Go(t, IF t = ImageTarget THEN "detach" ELSE "stage")
    /\ dist' = [dist EXCEPT ![t] = @ \cup {File(t, attempt)}]
    /\ Elsewhere(t) /\ UNCHANGED <<inputs, staged, attested, faults>>

\* A build step rewrites a version file, or leaves an image of another build.
EditInputs(t) ==
    /\ pc[t] \in {"detach", "stage", "receipt"} /\ inputs[t] = "synced" /\ Fault
    /\ inputs' = [inputs EXCEPT ![t] = "edited"]
    /\ Elsewhere(t) /\ UNCHANGED <<pc, dist, staged, attested>>

LeaveImage(t) ==
    /\ t = ImageTarget /\ pc[t] \in {"detach", "link"} /\ Fault
    /\ \E name \in {"image", "sidecar"} : Named(dist[t], name) = {} /\ dist' = [dist EXCEPT ![t] = @ \cup {File(name, 0)}]
    /\ Elsewhere(t) /\ UNCHANGED <<pc, inputs, staged, attested>>

\* detach prepares and verifies both files aside; neither name may exist.
Detach(t) ==
    /\ pc[t] = "detach"
    /\ Go(t, IF Names(dist[t]) \cap {"image", "sidecar"} = {} THEN "link" ELSE "failed")
    /\ Elsewhere(t) /\ UNCHANGED <<inputs, dist, staged, attested, faults>>

\* The two names appear one after the other; if the second is taken by then, the first is removed again.
LinkImage(t) ==
    /\ pc[t] = "link"
    /\ IF Named(dist[t], "image") = {} THEN dist' = [dist EXCEPT ![t] = @ \cup {File("image", attempt)}] /\ Go(t, "link_sidecar")
       ELSE Go(t, "failed") /\ UNCHANGED dist
    /\ Elsewhere(t) /\ UNCHANGED <<inputs, staged, attested, faults>>

LinkSidecar(t) ==
    /\ pc[t] = "link_sidecar"
    /\ IF Named(dist[t], "sidecar") = {} THEN dist' = [dist EXCEPT ![t] = @ \cup {File("sidecar", attempt)}] /\ Go(t, "stage")
       ELSE dist' = [dist EXCEPT ![t] = @ \ {File("image", attempt)}] /\ Go(t, "failed")
    /\ Elsewhere(t) /\ UNCHANGED <<inputs, staged, attested, faults>>

\* verify_staged and verify_pair: both files or neither, and the sidecar describes this image.
PairHolds(files) ==
    Names(files) \cap {"image", "sidecar"} # {} => {f.build : f \in Named(files, "image")} = {f.build : f \in Named(files, "sidecar")}

\* stage: an absent directory, inputs as prepared, the files that the build's patterns name; then the receipt is made.
Stage(t) ==
    /\ pc[t] = "stage"
    /\ IF staged[t].there \/ inputs[t] # "synced" \/ ~PairHolds(dist[t]) THEN Go(t, "failed") /\ UNCHANGED staged
       ELSE staged' = [staged EXCEPT ![t] = [files |-> dist[t], receipt |-> NoReceipt, there |-> TRUE]] /\ Go(t, "receipt")
    /\ Elsewhere(t) /\ UNCHANGED <<inputs, dist, attested, faults>>

\* verify_current_inputs, after the packages were hashed.
InputsHold(t) == inputs[t] = "synced"

\* create_receipt; a failure removes the directory.
CreateReceipt(t) ==
    /\ pc[t] = "receipt"
    /\ IF InputsHold(t)
       THEN /\ staged' = [staged EXCEPT ![t].receipt = [target |-> t, attempt |-> attempt, artifacts |-> staged[t].files]]
            /\ attested' = IF inputs[t] = "synced" THEN attested \cup {[file |-> f, target |-> t, attempt |-> attempt] : f \in staged[t].files} ELSE attested
            /\ Go(t, "staged")
       ELSE staged' = [staged EXCEPT ![t] = NotStaged] /\ Go(t, "failed") /\ UNCHANGED attested
    /\ Elsewhere(t) /\ UNCHANGED <<inputs, dist, faults>>

\* Another step writes or adds a file to the staged directory, or restores a cached one of an earlier attempt over it.
TouchStaged(t) ==
    /\ staged[t].there /\ Fault
    /\ \/ \E f \in staged[t].files : staged' = [staged EXCEPT ![t].files = (@ \ {f}) \cup {[f EXCEPT !.build = 0]}]
       \/ staged' = [staged EXCEPT ![t].files = @ \cup {File("extra", 0)}]
       \/ \E u \in uploads : u.target = t /\ u.attempt < attempt /\ staged' = [staged EXCEPT ![t] = [files |-> u.files, receipt |-> u.receipt, there |-> TRUE]]
    /\ Elsewhere(t) /\ UNCHANGED <<pc, inputs, dist, attested>>

\* The job's own step: it may also run when an earlier step failed or was cancelled.
Upload(t) ==
    /\ staged[t].there /\ \A u \in uploads : ~(u.target = t /\ u.attempt = attempt)
    /\ uploads' = uploads \cup {[target |-> t, attempt |-> attempt, files |-> staged[t].files, receipt |-> staged[t].receipt]}
    /\ Go(t, "uploaded")
    /\ UNCHANGED <<attempt, inputs, dist, staged, publisher, accepted, attested, faults>>

Kill(t) ==
    /\ pc[t] \in {"link_sidecar", "receipt"} /\ Fault
    /\ Go(t, "failed")
    /\ Elsewhere(t) /\ UNCHANGED <<inputs, dist, staged, attested>>

\* A retry in the same checkout, or all or the failed jobs of a new attempt of the run in new ones.
Retry(t) ==
    /\ pc[t] = "failed" /\ Fault /\ Go(t, IF t = ImageTarget THEN "detach" ELSE "stage")
    /\ Elsewhere(t) /\ UNCHANGED <<inputs, dist, staged, attested>>

Rerun(ts) ==
    /\ attempt < MaxAttempts /\ attempt' = attempt + 1 /\ publisher \in {"idle", "refused"} /\ publisher' = "idle"
    /\ {t \in Targets : pc[t] # "uploaded"} \subseteq ts
    /\ pc' = [t \in Targets |-> IF t \in ts THEN "build" ELSE pc[t]]
    /\ inputs' = [t \in Targets |-> IF t \in ts THEN "synced" ELSE inputs[t]]
    /\ dist' = [t \in Targets |-> IF t \in ts THEN {} ELSE dist[t]]
    /\ staged' = [t \in Targets |-> IF t \in ts THEN NotStaged ELSE staged[t]]
    /\ UNCHANGED <<uploads, accepted, attested, faults>>

-----------------------------------------------------------------------------
(* The publisher *)

Collected == {u \in uploads : u.attempt = attempt}
Payloads == UNION {u.files : u \in Collected}
Receipts == {u.receipt : u \in Collected} \ {NoReceipt}

\* collect_assets and stage_assets: one file for each name.
Flat == \A f, g \in Payloads : f.name = g.name => f = g

\* The receipts' producers are not compared.
AnyProducer(r) == TRUE

\* verify_producer_identity: this run, this attempt.
SameProducer(r) == r.attempt = attempt

\* verify_receipts: every payload has exactly one receipt, which has its bytes.
Covers ==
    /\ Receipts # {} /\ \A r \in Receipts : r.artifacts # {} /\ r.artifacts \subseteq Payloads
    /\ \A f \in Payloads : Cardinality({r \in Receipts : f \in r.artifacts}) = 1

\* verify_required_build_receipts, verify_all and verify_declared_artifacts, under a policy that declares
\* the required receipts: without the declaration the targets are not compared.
Complete == {r.target : r \in Receipts} = Targets /\ {"image", "sidecar"} \subseteq Names(Payloads) /\ PairHolds(Payloads)

Publish ==
    /\ publisher = "idle" /\ Collected # {} /\ \A t \in Targets : pc[t] \in {"uploaded", "failed"}
    /\ IF Flat /\ (\A r \in Receipts : SameProducer(r)) /\ Covers /\ Complete
       THEN publisher' = "accepted" /\ accepted' = Payloads
       ELSE publisher' = "refused" /\ UNCHANGED accepted
    /\ UNCHANGED <<attempt, pc, inputs, dist, staged, uploads, attested, faults>>

Next ==
    \/ \E t \in Targets :
        \/ Build(t) \/ EditInputs(t) \/ LeaveImage(t) \/ Detach(t) \/ LinkImage(t) \/ LinkSidecar(t) \/ Stage(t)
        \/ CreateReceipt(t) \/ TouchStaged(t) \/ Upload(t) \/ Kill(t) \/ Retry(t)
    \/ \E ts \in SUBSET Targets : Rerun(ts)
    \/ Publish
Spec == Init /\ [][Next]_vars

-----------------------------------------------------------------------------

(***************************************************************************)
(* Whatever is killed, repeated, edited, restored from a cache or uploaded *)
(* without a receipt: the publisher accepts a file only as it was when its *)
(* target attested it in this very attempt with the version inputs still   *)
(* unchanged, and only together with every other target's files.           *)
(***************************************************************************)
AcceptedIsAttested ==
    publisher = "accepted" =>
        /\ \A f \in accepted : \E t \in Targets : [file |-> f, target |-> t, attempt |-> attempt] \in attested
        /\ \A t \in Targets : \E f \in accepted : [file |-> f, target |-> t, attempt |-> attempt] \in attested

(***************************************************************************)
(* detach makes its two names appear one after the other, is killed in     *)
(* between and repeated, and a build leaves files of its own: an image is  *)
(* only accepted together with the provenance of the same build.           *)
(***************************************************************************)
PairsTogether ==
    publisher = "accepted" => \E b \in 0..attempt : {File("image", b), File("sidecar", b)} \subseteq accepted

-----------------------------------------------------------------------------

(***************************************************************************)
(* Why it holds.  A receipt is made from the staged files at one moment,   *)
(* and every one of them is attested then.  Whatever happens to the files  *)
(* afterwards, the receipt stays true, with the attempt that it names.     *)
(***************************************************************************)
Positions == {"build", "detach", "link", "link_sidecar", "stage", "receipt", "staged", "uploaded", "failed"}
Files == [name : Targets \cup {"image", "sidecar", "extra"}, build : 0..attempt]
ReceiptsOf(t) == [target : {t}, attempt : Nat, artifacts : SUBSET Files]
TrueReceipt(r, t) ==
    r # NoReceipt =>
        r \in ReceiptsOf(t) /\ \A f \in r.artifacts : [file |-> f, target |-> t, attempt |-> r.attempt] \in attested

TypesOK ==
    /\ attempt \in Nat /\ pc \in [Targets -> Positions] /\ inputs \in [Targets -> {"synced", "edited"}]
    /\ dist \in [Targets -> SUBSET Files]
    /\ DOMAIN staged = Targets /\ \A t \in Targets : DOMAIN staged[t] = {"files", "receipt", "there"} /\ staged[t].files \subseteq Files
    /\ \A u \in uploads : u.target \in Targets /\ u.files \subseteq Files
    /\ publisher \in {"idle", "accepted", "refused"} /\ accepted \subseteq Files

Inv ==
    /\ TypesOK
    /\ \A t \in Targets : TrueReceipt(staged[t].receipt, t)
    /\ \A u \in uploads : TrueReceipt(u.receipt, u.target)
    /\ AcceptedIsAttested /\ PairsTogether
=============================================================================
