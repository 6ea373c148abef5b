-------------------------- MODULE PromotionEvidence --------------------------
(***************************************************************************)
(* Everything that reads a published release over many requests and then   *)
(* acts on it: the promotion of a candidate and the plain candidate        *)
(* publisher (release_control.py), the record of a promotion               *)
(* (release_promotion.py), the resolution of a public release for a closed *)
(* build (release_closed.py), the reuse by a scheduled run                 *)
(* (release_versioned.py) and the preflight of a final build               *)
(* (runner_preflight.py).  Each is a sequence of looks at a GitHub that    *)
(* others change in between.                                               *)
(***************************************************************************)
EXTENDS Naturals, Sequences

CONSTANT MaxChanges  \* what others do meanwhile

VARIABLES
    kind,            \* which of the readers runs
    on,              \* the release it reads
    at,              \* its next look; 0 when it refused
    release,         \* "rc" and "stable": tag, stamp and assets
    runs,            \* "source" built the candidate, "promotion" published the stable copy
    artifacts,       \* of each run: the retained ones
    reviewers,       \* whether the release environment has any
    head,            \* of the default branch, told by what it means for the candidate's source
    occasion,        \* what is particular to this invocation of the reader
    policy,          \* at the candidate's source commit
    snap, reuseSnap, \* snapshots taken
    raw, reuseRaw,   \* manifests read
    promo,           \* the attempt of the promotion that was read first
    staged,          \* bytes transferred
    late,            \* history: the transfer has ended
    moment,          \* history: the bytes for which all the evidence held at once while the reader ran
    heldLate,        \* history: what held of which bytes at some moment after the transfer
    changes

world == <<release, runs, artifacts, reviewers, head, policy>>
reader == <<at, snap, reuseSnap, raw, reuseRaw, promo, staged, late>>
history == <<moment, heldLate>>
vars == <<kind, on, occasion, world, reader, history, changes>>

Heads == {"source", "ahead", "otherWorkflows", "rewritten"}
None == "none"
NoRelease == [there |-> FALSE, tag |-> None, stamp |-> 0, assets |-> {}]

\* A manifest names the attempt that made it, and the payload by its digest: both
\* are told by the attempt.  A forged manifest names the first attempt as well.
Made(attempt) == CASE attempt = 1 -> "built" [] attempt = 2 -> "rebuilt" [] OTHER -> "later"
Manifests == {"built", "rebuilt", "forged"}
Names(bytes) == IF bytes = "rebuilt" THEN 2 ELSE 1

\* GitHub gives every upload an id of its own and stamps every edit.
Asset(name, bytes, id) == [name |-> name, bytes |-> bytes, id |-> id]
Published == [there |-> TRUE, tag |-> "source", stamp |-> 0, assets |-> {Asset("payload", "built", 0), Asset("manifest", "built", 0)}]
Evidence(attempt) == [attempt |-> attempt, bytes |-> Made(attempt)]

-----------------------------------------------------------------------------
(* The order of the looks *)

ReuseSteps == <<"reuseSnapshot", "reuseManifest", "run", "reuseEvidence", "reuseSame">>
PromotionSteps(o) == IF o = "stable" THEN <<"promotionRun", "promotionReceipt", "promotionRun">> ELSE <<>>

CandidateFirst == <<"policy", "ancestry", "newest", "absent", "stage">>
PromoteFirst == <<"reviewers", "snapshot", "manifest", "policy", "fuzzing", "tag", "run", "ancestry", "evidence", "absent", "inventory", "workflows", "download">>
RecordFirst == <<"rcManifest", "policy", "snapshot", "manifest", "copied">>
ResolveFirst(o) == <<"manifest", "policy", "fuzzing", "ancestry">> \o ReuseSteps \o <<"snapshot">> \o PromotionSteps(o) \o <<"download">>
PreflightFirst == <<"context", "snapshot", "manifest", "reserved", "policy", "tag", "run", "evidence", "inventory", "download">>

\* What is looked at again once the bytes are there.
RecordAgain == ReuseSteps \o <<"same">>
ResolveAgain(o) == ReuseSteps \o <<"same">> \o PromotionSteps(o)
PreflightAgain == <<"same", "identity">>

\* What a promotion looks at again after the transfer.
PromoteAgain == <<"same", "run", "reviewers", "workflows">>

Steps ==
    CASE kind = "candidate" -> CandidateFirst \o <<"newest">>
      [] kind = "promote" -> PromoteFirst \o PromoteAgain
      [] kind = "record" -> RecordFirst \o RecordAgain
      [] kind = "resolve" -> ResolveFirst(on) \o ResolveAgain(on)
      [] kind = "reuse" -> <<"newest">> \o ReuseSteps \o <<"newest">>
      [] kind = "preflight" -> PreflightFirst \o PreflightAgain

\* What a dispatch may ask of a closed build: its inputs, the policy's switch and the job that asks.
Requests == [operation : {"release", "closed-rebuild"}, channel : {"stable", "rc"}, purpose : {"stable", "rebuild"},
             rc_tag : {None, "rc"}, existing : {None, "rc", "stable"}, enabled : BOOLEAN]

ValidRequest(q) ==
    /\ q.enabled
    /\ q.operation = "release" => q.existing = None
    /\ q.operation = "closed-rebuild" => q.existing # None /\ q.rc_tag = None

\* selected_tag: the release to resolve.
Selected(q) ==
    CASE q.purpose = "stable" /\ q.operation = "release" /\ q.channel = "stable" -> q.rc_tag
      [] q.purpose = "rebuild" /\ q.operation = "closed-rebuild" -> q.existing
      [] OTHER -> None

Kinds == {"candidate", "promote", "record", "resolve", "reuse", "preflight"}

\* A candidate is published by what started its run and on a channel; a promotion's token
\* may be known to have the workflow scope; a final build's runner may be another one.
Automatic == {"pushBeta", "scheduledNightly"}
Nightlies == {"scheduledNightly", "nightly"}
Occasions(k) ==
    CASE k = "candidate" -> Automatic \cup Nightlies \cup {"beta", "rc"}
      [] k = "promote" -> {"plain", "scoped"}
      [] k = "preflight" -> {"same", "other"}
      [] OTHER -> {"usual"}

Step == Steps[at]
Running == at \in 1..Len(Steps)
Accepted == at = Len(Steps) + 1

-----------------------------------------------------------------------------
(* What a look finds *)

Named(rel, name) == {a \in rel.assets : a.name = name}
Bytes(rel, name) == {a.bytes : a \in Named(rel, name)}
Complete(rel) ==
    rel.there /\ \E p, m \in rel.assets : rel.assets = {p, m} /\ p.name = "payload" /\ m.name = "manifest"

Qualified == policy # "blocked"
Fuzzed == policy # "unfuzzed"
OnBranch == head # "rewritten"
Newest == head = "source"
Context == head = "source"
SameRunner == occasion = "same"
Reviewed == reviewers
StableAbsent == ~release["stable"].there
SameWorkflows == head \in {"source", "ahead"}

\* The manifest that was read last: it is what names the run and its attempt.
Used == IF kind \in {"record", "resolve", "reuse"} THEN reuseRaw ELSE raw

\* The run and its gates: the latest attempt is the one that the manifest names, and it ended well.
SourceRun(bytes) == runs["source"] = [attempt |-> Names(bytes), state |-> "success"]

\* release_snapshot, and published_plan_snapshot, which compares the tag as well.  Tag, release
\* and assets are three requests, taken here as one look: an edit in between leaves a stamp, so
\* that a mixed snapshot equals no later one, and what the last request finds unedited was
\* there at the first.
Readable(rel) == rel.there
ReadableAt(rel) == rel.there /\ rel.tag = "source"

\* The manifest asset of a snapshot, downloaded by its id and valid.
ManifestReadable(rel, before) == Named(rel, "manifest") # {} /\ (before # NoRelease => Named(before, "manifest") \subseteq rel.assets)

\* verify_evidence: exactly one retained artifact, with the bytes of the manifest.
EvidenceOf(bytes) == \E a \in artifacts["source"] : artifacts["source"] = {a} /\ a.bytes = bytes

\* read_receipt: one receipt, made by this very attempt of the promotion, about the manifest that was copied.
PromotionReceipt(bytes) ==
    \E a \in artifacts["promotion"] :
        artifacts["promotion"] = {a} /\ a.attempt = runs["promotion"].attempt /\ bytes = "built"
PromotionRun == runs["promotion"].state = "success"

\* The second snapshot is not compared.
AnySnapshot(rel, before) == rel.there

\* snapshot_identity: ids and stamps, not only names.
SameSnapshot(rel, before) == rel = before

\* The manifest describes what it was published with; a replaced one describes replaced bytes.
Holds(step) ==
    CASE step = "policy" -> Qualified
      [] step = "fuzzing" -> Fuzzed
      [] step = "ancestry" -> OnBranch
      [] step = "newest" -> Newest
      [] step = "context" -> Context
      [] step = "identity" -> SameRunner
      [] step = "workflows" -> SameWorkflows
      [] step = "reviewers" -> Reviewed
      [] step = "absent" -> StableAbsent
      [] step = "snapshot" -> IF kind \in {"record", "resolve"} THEN ReadableAt(release[on]) ELSE Readable(release[on])
      [] step = "reuseSnapshot" -> ReadableAt(release[on])
      [] step = "manifest" -> ManifestReadable(release[on], snap)
      [] step = "rcManifest" -> Readable(release["rc"]) /\ ManifestReadable(release["rc"], NoRelease)
      [] step = "reserved" -> raw = "built"
      [] step = "tag" -> snap.tag = "source"
      [] step = "run" -> SourceRun(Used)
      [] step = "evidence" -> EvidenceOf(raw)
      [] step = "inventory" -> Complete(snap)
      [] step = "download" -> Complete(snap) /\ Named(snap, "payload") \subseteq release[on].assets /\ Bytes(snap, "payload") = {raw}
      [] step = "same" -> SameSnapshot(release[on], snap)
      [] step = "copied" -> Bytes(snap, "manifest") = {raw}
      [] step = "reuseManifest" -> Complete(reuseSnap) /\ ManifestReadable(release[on], reuseSnap) /\ Bytes(reuseSnap, "payload") = Bytes(reuseSnap, "manifest")
      [] step = "reuseEvidence" -> EvidenceOf(reuseRaw)
      [] step = "reuseSame" -> SameSnapshot(release[on], reuseSnap)
      [] step = "promotionRun" -> PromotionRun /\ promo \in {0, runs["promotion"].attempt}
      [] step = "promotionReceipt" -> PromotionReceipt(raw)
      [] OTHER -> TRUE

\* What this invocation is not asked: only automatic candidates give way to a newer head,
\* only rcs must be free of blockers, nightlies keep their identity beside a final version,
\* and a token with the scope may publish any workflows.
Skips(step) ==
    \/ kind = "candidate" /\ step = "newest" /\ occasion \notin Automatic
    \/ kind = "candidate" /\ step = "policy" /\ occasion # "rc"
    \/ kind = "candidate" /\ step = "absent" /\ occasion \in Nightlies
    \/ kind = "promote" /\ step = "workflows" /\ occasion = "scoped"
Passes(step) == Skips(step) \/ Holds(step)

\* What the look keeps for later ones.
Keeps(step) ==
    /\ snap' = IF step = "snapshot" THEN release[on] ELSE snap
    /\ reuseSnap' = IF step = "reuseSnapshot" THEN release[on] ELSE reuseSnap
    /\ raw' = CASE step = "manifest" /\ kind # "record" -> CHOOSE b \in Bytes(release[on], "manifest") : TRUE
                [] step = "rcManifest" -> CHOOSE b \in Bytes(release["rc"], "manifest") : TRUE
                [] OTHER -> raw
    /\ reuseRaw' = IF step = "reuseManifest" THEN CHOOSE b \in Bytes(release[on], "manifest") : TRUE ELSE reuseRaw
    /\ promo' = IF step = "promotionRun" THEN runs["promotion"].attempt ELSE promo
    /\ staged' = IF step \in {"download", "stage"} THEN raw ELSE staged
    /\ late' = (late \/ step \in {"download", "stage", "copied"} \/ (kind = "reuse" /\ step = "reuseSame"))

-----------------------------------------------------------------------------
(* History *)

\* A release with just these bytes; the copy of a candidate is vouched for by its promotion as well.
Whole(rel, bytes) == Complete(rel) /\ \A a \in rel.assets : a.bytes = bytes
Retained(bytes) == \E a \in artifacts["source"] : a.bytes = bytes
Promoted == kind = "resolve" /\ on = "stable"

\* The release and everything that vouches for it, at one time.
AllHolds(bytes) ==
    /\ Whole(release[on], bytes) /\ SourceRun(bytes) /\ Retained(bytes)
    /\ Promoted => PromotionRun /\ PromotionReceipt(bytes)

Facts == {"release", "run", "evidence", "promotion", "reviewers", "workflows", "newest"}
Fact(f, bytes) ==
    CASE f = "release" -> release[on].tag = "source" /\ Whole(release[on], bytes)
      [] f = "run" -> SourceRun(bytes)
      [] f = "evidence" -> EvidenceOf(bytes)
      [] f = "promotion" -> PromotionRun /\ PromotionReceipt(bytes)
      [] f = "reviewers" -> Reviewed
      [] f = "workflows" -> SameWorkflows
      [] f = "newest" -> Newest
HoldNow == {held \in Facts \X (Manifests \cup {None}) : Fact(held[1], held[2])}

Observe ==
    /\ moment' = moment \cup {bytes \in Manifests : AllHolds(bytes)'}
    /\ heldLate' = IF late' THEN heldLate \cup HoldNow' ELSE heldLate

Init ==
    /\ kind \in Kinds /\ at = 1
    /\ on \in CASE kind = "record" -> {"stable"} [] kind = "resolve" -> {Selected(q) : q \in {q \in Requests : ValidRequest(q)}} \ {None} [] OTHER -> {"rc"}
    /\ occasion \in Occasions(kind)
    /\ release = [t \in {"rc", "stable"} |-> IF IF t = "rc" THEN kind # "candidate" ELSE on = "stable" THEN Published ELSE NoRelease]
    /\ runs \in {[r \in {"source", "promotion"} |-> [attempt |-> 1, state |-> IF r = "source" THEN s ELSE "success"]] : s \in {"success", "running"}}
    /\ artifacts = [r \in {"source", "promotion"} |-> IF runs[r].state = "success" THEN {Evidence(1)} ELSE {}]
    /\ reviewers = TRUE /\ head \in {"source", "ahead"} /\ policy \in {"qualified", "blocked", "unfuzzed"}
    /\ snap = NoRelease /\ reuseSnap = NoRelease /\ raw = None /\ reuseRaw = None /\ promo = 0 /\ staged = None
    /\ late = FALSE /\ moment = {bytes \in Manifests : AllHolds(bytes)} /\ heldLate = {} /\ changes = 0

\* One look: it goes on, or it refuses and nothing is published.
Look ==
    /\ Running
    /\ IF Passes(Step) THEN at' = at + 1 /\ Keeps(Step) ELSE at' = 0 /\ UNCHANGED <<snap, reuseSnap, raw, reuseRaw, promo, staged, late>>
    /\ UNCHANGED <<kind, on, occasion, world, changes>> /\ Observe

-----------------------------------------------------------------------------
(* Others *)

Change == Running /\ changes < MaxChanges /\ changes' = changes + 1 /\ UNCHANGED <<kind, on, occasion, reader>>

\* Someone replaces, removes or adds an asset.
Edited(assets) ==
    {(assets \ {a}) \cup {Asset(a.name, b, changes + 1)} : a \in assets, b \in Manifests}
        \cup {assets \ {a} : a \in assets} \cup {assets \cup {Asset("extra", "built", changes + 1)}}

\* Someone edits a release: moves its tag, or changes its assets.
Edit ==
    /\ Change /\ UNCHANGED <<runs, artifacts, reviewers, head, policy>>
    /\ \E t \in {"rc", "stable"} :
        /\ release[t].there
        /\ \/ \E x \in {"source", "moved"} \ {release[t].tag} : release' = [release EXCEPT ![t].tag = x]
           \/ \E new \in Edited(release[t].assets) :
                release' = [release EXCEPT ![t] = [@ EXCEPT !.assets = new, !.stamp = changes + 1]]
    /\ Observe

PublishStable ==
    /\ Change /\ ~release["stable"].there /\ release' = [release EXCEPT !["stable"] = Published]
    /\ UNCHANGED <<runs, artifacts, reviewers, head, policy>> /\ Observe

\* A run is repeated: GitHub counts the attempt up and never goes back.
Rerun(r) ==
    /\ Change /\ runs[r].state # "running" /\ runs' = [runs EXCEPT ![r] = [attempt |-> @.attempt + 1, state |-> "running"]]
    /\ UNCHANGED <<release, artifacts, reviewers, head, policy>> /\ Observe

RunEnds(r) ==
    /\ Change /\ runs[r].state = "running"
    /\ \E s \in {"success", "failure"} : runs' = [runs EXCEPT ![r].state = s]
    /\ artifacts' = [artifacts EXCEPT ![r] = @ \cup {Evidence(runs[r].attempt)}]
    /\ UNCHANGED <<release, reviewers, head, policy>> /\ Observe

Expire(r) ==
    /\ Change /\ \E a \in artifacts[r] : artifacts' = [artifacts EXCEPT ![r] = @ \ {a}]
    /\ UNCHANGED <<release, runs, reviewers, head, policy>> /\ Observe

Push == Change /\ (\E h \in Heads \ {head} : head' = h) /\ UNCHANGED <<release, runs, artifacts, reviewers, policy>> /\ Observe
Administer == Change /\ reviewers' = ~reviewers /\ UNCHANGED <<release, runs, artifacts, head, policy>> /\ Observe

Done == ~Running /\ UNCHANGED vars

Next ==
    \/ Look \/ Edit \/ PublishStable \/ Push \/ Administer \/ Done
    \/ \E r \in {"source", "promotion"} : Rerun(r) \/ RunEnds(r) \/ Expire(r)
Spec == Init /\ [][Next]_vars

-----------------------------------------------------------------------------

(***************************************************************************)
(* The looks of a reader are spread over many requests, and releases, runs *)
(* and artifacts change between any two of them.  If the reader goes on to *)
(* act, there was nevertheless one moment at which the release with all    *)
(* its bytes, the attempt that made them and its retained evidence, and    *)
(* for a promoted copy the promotion's, all held together, and whatever    *)
(* was read first, what was transferred and what was read last are those   *)
(* bytes.                                                                  *)
(***************************************************************************)
AcceptedAtOneMoment ==
    Accepted /\ kind # "candidate" => Used \in moment /\ raw \in {None, Used} /\ staged \in {None, Used} /\ (kind = "preflight" => SameRunner)

\* What each reader's code looks at again after the transfer; a candidate that somebody
\* dispatched looks at nothing again, wherever head has gone.
Rechecked ==
    CASE kind = "candidate" -> IF occasion \in Automatic THEN {"newest"} ELSE {}
      [] kind = "promote" -> {"release", "run", "reviewers"} \cup (IF occasion = "scoped" THEN {} ELSE {"workflows"})
      [] kind = "record" -> {"release", "run", "evidence"}
      [] kind = "resolve" -> {"release", "run", "evidence"} \cup (IF on = "stable" THEN {"promotion"} ELSE {})
      [] kind = "reuse" -> {"release", "newest"}
      [] kind = "preflight" -> {"release"}

(***************************************************************************)
(* A transfer takes minutes.  Whatever was revoked, repeated or replaced   *)
(* during it and stayed so stops the reader: all that the code reads again *)
(* held, of the very bytes that it uses, at some moment after the transfer *)
(* had ended.  The tag is part of this: it is compared at two looks only,  *)
(* so that it may have been elsewhere in between.                          *)
(***************************************************************************)
RecheckedLate == Accepted => {<<f, Used>> : f \in Rechecked} \subseteq heldLate
-----------------------------------------------------------------------------
(* Why it holds *)

Releases == [there : BOOLEAN, tag : {"source", "moved", None}, stamp : Nat,
             assets : SUBSET [name : {"payload", "manifest", "extra"}, bytes : Manifests, id : Nat]]

TypesOK ==
    /\ kind \in Kinds /\ on \in {"rc", "stable"} /\ at \in Nat /\ changes \in Nat /\ late \in BOOLEAN
    /\ release \in [{"rc", "stable"} -> Releases] /\ snap \in Releases /\ reuseSnap \in Releases
    /\ \A t \in {"rc", "stable"} : release[t].stamp <= changes
    /\ kind # "candidate" => release[on].there
    /\ runs \in [{"source", "promotion"} -> [attempt : Nat \ {0}, state : {"running", "success", "failure"}]]
    /\ artifacts \in [{"source", "promotion"} -> SUBSET [attempt : Nat, bytes : {"built", "rebuilt", "later"}]]
    /\ raw \in Manifests \cup {None} /\ reuseRaw \in Manifests \cup {None} /\ promo \in Nat
    /\ occasion \in Occasions(kind)

\* Every edit leaves a stamp of its own: a release with the stamp of an earlier one has its assets.
Older(s, t) == s.there /\ t.there /\ s.stamp <= t.stamp /\ (s.stamp = t.stamp => s.assets = t.assets)
Kept(s) == release[on].stamp = s.stamp
ReadFrom(s, bytes) == Kept(s) => bytes \in Bytes(s, "manifest")

\* A run that was seen to end well: as long as no attempt follows, it has.
Seen(r, attempt) == runs[r].attempt >= attempt /\ (runs[r].attempt = attempt => runs[r].state = "success")

\* The promotion that was read first is still the latest one, and its receipt is not gone.
Copied(bytes) == runs["promotion"].attempt = promo /\ artifacts["promotion"] # {} /\ bytes = "built"
OneReceipt ==
    runs["promotion"].attempt = promo => \A a, b \in artifacts["promotion"] : a = b /\ a.attempt = promo

\* The moment is the one of the look at the run: what was read before it was kept until
\* then, and what is read after it was there by then, if it is found at all.
Witnessed(bytes) == (Promoted => Copied(bytes)) => bytes \in moment
VouchedFor(s, bytes) == Kept(s) /\ Whole(s, bytes) => Witnessed(bytes)
Vouched(s, bytes) == Retained(bytes) => VouchedFor(s, bytes)

\* The looks at a candidate, each at its position.
OwnLooks(snapshot, manifest, tag, run, evidence, download, same) ==
    /\ at > snapshot => Older(snap, release[on])
    /\ at > manifest => raw # None /\ ReadFrom(snap, raw)
    /\ at > tag => snap.tag = "source"
    /\ at > run => Seen("source", Names(raw)) /\ Vouched(snap, raw)
    /\ at > evidence => VouchedFor(snap, raw)
    /\ at > download => late /\ Complete(snap) /\ Bytes(snap, "payload") = {raw}
    /\ at > same => raw \in moment /\ <<"release", raw>> \in heldLate

\* The five looks of ReuseSteps after position p.
ReuseLooks(p) ==
    /\ at > p + 1 => Older(reuseSnap, release[on]) /\ reuseSnap.tag = "source"
    /\ at > p + 2 => /\ reuseRaw # None /\ ReadFrom(reuseSnap, reuseRaw)
                     /\ Complete(reuseSnap) /\ Bytes(reuseSnap, "payload") = Bytes(reuseSnap, "manifest")
    /\ at > p + 3 => Seen("source", Names(reuseRaw)) /\ Vouched(reuseSnap, reuseRaw)
    /\ at > p + 4 => VouchedFor(reuseSnap, reuseRaw)
    /\ at > p + 3 /\ kind # "reuse" => <<"run", reuseRaw>> \in heldLate
    /\ at > p + 4 /\ kind # "reuse" => <<"evidence", reuseRaw>> \in heldLate

\* The release is the one that was read for the copy, and the one that was read again.
SameLook(same) ==
    at > same => raw = reuseRaw /\ Witnessed(reuseRaw) /\ <<"release", reuseRaw>> \in heldLate

CandidateOK ==
    /\ raw = None /\ staged = None
    /\ at > 5 => late
    /\ at > 6 /\ occasion \in Automatic => <<"newest", None>> \in heldLate

PromoteOK ==
    /\ staged \in {None, raw} /\ (at \in 1..3 => staged = None)
    /\ OwnLooks(2, 3, 6, 7, 9, 13, 14)
    /\ at > 15 => <<"run", raw>> \in heldLate
    /\ at > 16 => <<"reviewers", raw>> \in heldLate
    /\ at > 17 /\ occasion # "scoped" => <<"workflows", raw>> \in heldLate

PreflightOK ==
    /\ staged \in {None, raw} /\ (at \in 1..3 => staged = None)
    /\ OwnLooks(2, 3, 6, 7, 8, 10, 11)
    /\ at > 12 => SameRunner

RecordOK ==
    /\ staged = None
    /\ at > 3 => Older(snap, release[on]) /\ snap.tag = "source"
    /\ at > 5 => late /\ Bytes(snap, "manifest") = {raw}
    /\ ReuseLooks(5) /\ (at > 6 => Older(snap, reuseSnap))
    /\ SameLook(11)

ReuseOK ==
    /\ raw = None /\ staged = None /\ ReuseLooks(1)
    /\ at > 6 => late /\ Witnessed(reuseRaw) /\ <<"release", reuseRaw>> \in heldLate
    /\ at > 7 => <<"newest", reuseRaw>> \in heldLate

\* The looks at a promotion come twice, before and after the transfer.
PromotionLooks ==
    /\ at > 11 => promo # 0 /\ Seen("promotion", promo)
    /\ at > 12 => raw = "built" /\ OneReceipt
    /\ at > 22 /\ runs["promotion"].attempt = promo => reuseRaw \in moment /\ <<"promotion", reuseRaw>> \in heldLate
    /\ at > 23 => reuseRaw \in moment /\ <<"promotion", reuseRaw>> \in heldLate

ResolveOK ==
    LET download == IF on = "stable" THEN 14 ELSE 11 IN
    /\ at > 1 => raw # None
    /\ staged \in {None, raw} /\ (at = 1 => staged = None)
    /\ at > 10 => Older(snap, release[on]) /\ snap.tag = "source"
    /\ at > download => late /\ Complete(snap) /\ Bytes(snap, "payload") = {raw}
    /\ ReuseLooks(download) /\ (at > download + 1 => Older(snap, reuseSnap))
    /\ SameLook(download + 6)
    /\ on = "stable" => PromotionLooks

Inv ==
    /\ TypesOK
    /\ kind = "candidate" => CandidateOK
    /\ kind = "promote" => PromoteOK
    /\ kind = "preflight" => PreflightOK
    /\ kind = "record" => RecordOK
    /\ kind = "reuse" => ReuseOK
    /\ kind = "resolve" => ResolveOK
=============================================================================
