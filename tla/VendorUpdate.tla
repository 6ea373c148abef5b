---------------------------- MODULE VendorUpdate ----------------------------
(***************************************************************************)
(* scripts/vendor_update.py: a bundle that a source repository's Actions   *)
(* run produced is delivered to a target repository as one signed commit   *)
(* on a branch named after the bundle's manifest, and one draft pull       *)
(* request.  Several deliveries of the same bundle may run at once, be     *)
(* interrupted anywhere and be started again, while both repositories go   *)
(* on changing.                                                            *)
(***************************************************************************)
EXTENDS Naturals, FiniteSets

CONSTANTS
    Deliveries,      \* concurrent invocations of main
    MaxEvents,       \* outside events and interruptions in one behaviour
    MaxHeight        \* commits on the target's main

VARIABLES
    bundle,          \* the archive that the digest in the arguments names
    source,          \* the source repository and its run, on GitHub
    target,          \* the target repository, on GitHub
    pc, work,        \* each delivery's position and local values
    events           \* outside events and interruptions so far

vars == <<bundle, source, target, pc, work, events>>

None == "none"

\* A manifest lists the digest of the package, and holds a sealed receipt of the source file.
Sound == [names |-> {"pkg", "manifest"}, regular |-> TRUE, pkg |-> "a",
          manifest |-> [lists |-> "a", receipt |-> "src", sealed |-> TRUE]]
Bundles == {Sound, [Sound EXCEPT !.names = {"pkg"}], [Sound EXCEPT !.regular = FALSE],
            [Sound EXCEPT !.manifest.lists = "b"], [Sound EXCEPT !.manifest.receipt = "other"],
            [Sound EXCEPT !.manifest.sealed = FALSE]}

ManifestHolds(pkg, manifest) == manifest.lists = pkg /\ manifest.sealed
BundleHolds(b) == b.names = {"pkg", "manifest"} /\ b.regular /\ ManifestHolds(b.pkg, b.manifest)

\* The vendor files that the bundle delivers.
Fresh == [pkg |-> "a", manifest |-> "same"]

Commit(d, base) == [by |-> d, base |-> base, files |-> Fresh, owned |-> TRUE]
Foreign == [by |-> "foreign", base |-> 0, files |-> Fresh, owned |-> FALSE]
AtMain(height) == [by |-> "main", base |-> height, files |-> Fresh, owned |-> FALSE]
NoCommit == [by |-> None, base |-> 0, files |-> Fresh, owned |-> FALSE]
NoWork == [round |-> 1, checkout |-> 0, base |-> 0, rev |-> NoCommit, adopted |-> FALSE,
           skip |-> FALSE, stage |-> FALSE, late |-> FALSE]

Init ==
    /\ bundle \in Bundles
    /\ source \in [attempt: {1}, run: {"active"}, jobs: {"running"}, workflow: {"same"},
                   tree: {"built"}, artifact: {"live", "expired"}]
    /\ target \in [height: {0}, main: {[pkg |-> None, manifest |-> None], [pkg |-> "a", manifest |-> "older"]},
                   branch: {NoCommit}, pulls: {{}}]
    /\ pc = [d \in Deliveries |-> "idle"]
    /\ \E skip, stage \in BOOLEAN :
        work = [d \in Deliveries |-> [NoWork EXCEPT !.skip = skip, !.stage = stage]]
    /\ events = 0

-----------------------------------------------------------------------------
(* One delivery.                                                           *)

Move(d, to) == pc' = [pc EXCEPT ![d] = to]
Stop(d, how) == pc' = [pc EXCEPT ![d] = how] /\ UNCHANGED work
Local == UNCHANGED <<bundle, source, target, events>>

\* The run's identity is the arguments'; a later attempt or a failure is refused.
QualifiedRun == source.attempt = 1 /\ source.run \in {"active", "success"}
JobsPassed == source.workflow = "same" /\ source.jobs = "passed"

\* parse_args, and the checkouts that the workflow made before the call.
Begin(d) ==
    /\ pc[d] \in {"idle", "refused", "staged"}
    /\ work' = [work EXCEPT ![d] = [NoWork EXCEPT !.checkout = target.height, !.skip = work[d].skip, !.stage = work[d].stage]]
    /\ Move(d, "run")
    /\ Local

ReadRun(d) ==
    /\ pc[d] \in {"run", "rerun"}
    /\ IF ~QualifiedRun THEN Stop(d, "refused")
       ELSE /\ Move(d, IF pc[d] = "run" THEN "jobs" ELSE IF work[d].round = 1 THEN "artifact" ELSE "source")
            /\ UNCHANGED work
    /\ Local

ReadJobs(d) ==
    /\ pc[d] = "jobs"
    /\ Stop(d, IF JobsPassed THEN "rerun" ELSE "refused")
    /\ Local

\* The artifact's record, its archive, and every check of the archive's bytes.
ReadBundle(d) ==
    /\ pc[d] = "artifact"
    /\ Stop(d, IF source.artifact = "live" /\ BundleHolds(bundle) THEN "source" ELSE "refused")
    /\ Local

\* The receipt against the checkout of the qualified revision, and its subtree against main.
SourceHolds == bundle.manifest.receipt = "src" /\ source.tree = "built"

VerifySource(d) ==
    /\ pc[d] = "source"
    /\ Stop(d, IF ~SourceHolds THEN "refused" ELSE IF work[d].round = 1 THEN "target" ELSE "base")
    /\ Local

\* The clean checkout that the workflow made is still the revision that main names.
CheckoutCurrent(d) == work[d].checkout = target.height

TargetMatches(main) == main = Fresh

\* The pinned files are the bundle's but for a receipt that is valid for them.
ReceiptOnlyMatch(main) == main.pkg = bundle.pkg /\ main.manifest \in {"same", "older"}

ReadTarget(d) ==
    /\ pc[d] = "target"
    /\ work' = [work EXCEPT ![d].base = target.height]
    /\ Move(d, IF ~CheckoutCurrent(d) \/ target.main.pkg = "link" THEN "refused"
               ELSE IF TargetMatches(target.main) \/ (work[d].skip /\ ReceiptOnlyMatch(target.main))
                    THEN "noop" ELSE "ref")
    /\ Local

\* Only a commit above the present main is adopted.
RebasedOnly(d, c) == c.by \in Deliveries /\ c.base = work[d].base /\ c.owned /\ c.files = Fresh

\* Our signature and trailers, one parent that main contains, and the bundle's files only.
ExistingCommit(d, c) ==
    c.by \in Deliveries /\ c.base <= work[d].base /\ c.owned /\ c.files = Fresh

SourceLost == ~QualifiedRun \/ source.tree # "built" \/ source.workflow # "same"

\* The first qualification is trusted: the second round is left out.
TrustFirst(d) == IF work[d].stage THEN "staged" ELSE "base"

\* A staged commit ends here; any other delivery qualifies the source again.
AfterCommit(d) == IF work[d].stage THEN "staged" ELSE "run"

\* The branch is adopted, or a commit is prepared; "late" notes a source that has moved on by now.
ReadRef(d) ==
    /\ pc[d] = "ref"
    /\ IF target.branch # NoCommit /\ ~ExistingCommit(d, target.branch) THEN Stop(d, "refused")
       ELSE /\ work' = [work EXCEPT ![d].rev = IF target.branch = NoCommit THEN Commit(d, work[d].base) ELSE target.branch,
                                    ![d].adopted = target.branch # NoCommit,
                                    ![d].round = 2, ![d].late = SourceLost]
            /\ Move(d, AfterCommit(d))
    /\ Local

ConfirmBase(d) ==
    /\ pc[d] = "base"
    /\ Stop(d, IF target.height # work[d].base THEN "refused" ELSE IF work[d].adopted THEN "readback" ELSE "push")
    /\ Local

\* The push replaces whatever the branch holds.
Forced(d) == TRUE

\* What a commit contains: the commits of main up to the one it stands on.
Ancestors(c) == {AtMain(h) : h \in 0..c.base}

\* A plain push creates the branch, or moves one that appeared meanwhile forward.
Pushable(d) == target.branch \in {NoCommit} \cup Ancestors(work[d].rev)

Push(d) ==
    /\ pc[d] = "push"
    /\ IF Pushable(d) THEN target' = [target EXCEPT !.branch = work[d].rev] /\ Stop(d, "readback")
       ELSE Stop(d, "refused") /\ UNCHANGED target
    /\ UNCHANGED <<bundle, source, events>>

Readback(d) ==
    /\ pc[d] = "readback"
    /\ Stop(d, IF target.branch = work[d].rev THEN "pulls" ELSE "refused")
    /\ Local

OursOpen(d, p) == p.ours /\ p.open /\ p.head = work[d].rev

ReadPulls(d) ==
    /\ pc[d] = "pulls"
    /\ Stop(d, IF target.pulls = {} THEN "open"
               ELSE IF Cardinality(target.pulls) = 1 /\ \A p \in target.pulls : OursOpen(d, p) THEN "done"
               ELSE "refused")
    /\ Local

\* GitHub accepts no second open pull request of one branch, and none of a missing branch or
\* of one that has no commit of its own.
Opened == [ours |-> TRUE, open |-> TRUE, head |-> target.branch]
CanOpen == target.branch.by \notin {None, "main"} /\ \A p \in target.pulls : ~p.open
OpenPull(d) ==
    /\ pc[d] = "open"
    /\ IF CanOpen THEN target' = [target EXCEPT !.pulls = @ \cup {Opened}] /\ Stop(d, "done")
       ELSE Stop(d, "refused") /\ UNCHANGED target
    /\ UNCHANGED <<bundle, source, events>>

Step(d) ==
    \/ Begin(d) \/ ReadRun(d) \/ ReadJobs(d) \/ ReadBundle(d) \/ VerifySource(d)
    \/ ReadTarget(d) \/ ReadRef(d) \/ ConfirmBase(d) \/ Push(d) \/ Readback(d) \/ ReadPulls(d) \/ OpenPull(d)

-----------------------------------------------------------------------------
(* Interruptions, and what happens in the two repositories meanwhile.      *)

Event == events < MaxEvents /\ events' = events + 1

\* A request fails, GitHub does not verify the signature, a write's answer is lost after its
\* effect, or the process is killed.
Interrupt(d) ==
    /\ Event
    /\ pc[d] \notin {"idle", "refused", "staged", "noop", "done"}
    /\ Stop(d, "refused")
    /\ target' \in {target}
         \cup (IF pc[d] = "push" /\ Pushable(d) THEN {[target EXCEPT !.branch = work[d].rev]} ELSE {})
         \cup (IF pc[d] = "open" /\ CanOpen THEN {[target EXCEPT !.pulls = @ \cup {Opened}]} ELSE {})
    /\ UNCHANGED <<bundle, source>>

JobsEnd ==
    /\ source.jobs = "running" /\ source.attempt = 1
    /\ \E how \in {"passed", "failed"} :
        source' = [source EXCEPT !.jobs = how, !.run = IF how = "failed" THEN "failed" ELSE @]
    /\ UNCHANGED <<bundle, target, pc, work, events>>

SourceEvent ==
    /\ Event
    /\ source' \in {[source EXCEPT !.tree = "moved"], [source EXCEPT !.workflow = "replaced"],
                    [source EXCEPT !.attempt = 2, !.run = "active"]}
         \cup (IF source.jobs = "passed" /\ source.attempt = 1 /\ source.run = "active"
               THEN {[source EXCEPT !.run = r] : r \in {"success", "failed"}} ELSE {})
    /\ source' # source
    /\ UNCHANGED <<bundle, target, pc, work>>

\* Main takes another change, perhaps of the vendor files, or the vendor pull request itself.
MainAdvances ==
    /\ Event
    /\ target.height < MaxHeight
    /\ target' \in
        {[target EXCEPT !.height = @ + 1, !.main = v] :
            v \in {target.main, [pkg |-> "b", manifest |-> "older"], [pkg |-> "a", manifest |-> "broken"],
                   [pkg |-> "link", manifest |-> None]}}
        \cup {[target EXCEPT !.height = @ + 1, !.main = p.head.files, !.branch = NoCommit,
                             !.pulls = (@ \ {p}) \cup {[p EXCEPT !.open = FALSE]}] :
                 p \in {q \in target.pulls : q.open}}
    /\ UNCHANGED <<bundle, source, pc, work>>

\* Somebody creates the branch at a commit of main, pushes to it, deletes it, or closes the pull request.
BranchEvent ==
    /\ Event
    /\ target' \in
        {[target EXCEPT !.branch = Foreign,
                        !.pulls = {IF p.open THEN [p EXCEPT !.head = Foreign] ELSE p : p \in @}]}
        \cup {[target EXCEPT !.branch = NoCommit,
                             !.pulls = {[p EXCEPT !.open = FALSE] : p \in @}]}
        \cup {[target EXCEPT !.pulls = {[p EXCEPT !.open = FALSE] : p \in @}]}
        \cup (IF target.branch = NoCommit THEN {[target EXCEPT !.branch = AtMain(h)] : h \in 0..target.height} ELSE {})
    /\ target' # target
    /\ UNCHANGED <<bundle, source, pc, work>>

Next == (\E d \in Deliveries : Step(d) \/ Interrupt(d)) \/ JobsEnd \/ SourceEvent \/ MainAdvances \/ BranchEvent

\* A started delivery runs on, and somebody starts a refused one again.
Fairness == \A d \in Deliveries : WF_vars(Step(d))
Spec == Init /\ [][Next]_vars /\ Fairness

-----------------------------------------------------------------------------

(***************************************************************************)
(* Whatever a delivery reports as its commit is the verified bundle: its   *)
(* hashes and its source receipt hold, its jobs passed, and the commit     *)
(* holds its files and no other, above a commit that main contains.  A     *)
(* branch that a delivery creates was qualified again after the commit     *)
(* was prepared: the source had not moved on before then.                  *)
(***************************************************************************)
DeliveredIsQualified ==
    \A d \in Deliveries : pc[d] \in {"readback", "pulls", "open", "done"} =>
        /\ BundleHolds(bundle) /\ bundle.manifest.receipt = "src" /\ source.jobs = "passed"
        /\ work[d].rev.files = Fresh /\ work[d].rev.owned /\ work[d].rev.base <= target.height
        /\ ~work[d].late

(***************************************************************************)
(* No step of a delivery discards a commit: a branch that exists, whoever  *)
(* created it between the read of the ref and the push, stays where it is  *)
(* or moves forward, from a commit of main to one that contains it.        *)
(***************************************************************************)
KeepsBranch ==
    (\E d \in Deliveries : Step(d)) /\ target.branch \notin {NoCommit, target'.branch}
        => target'.branch # NoCommit /\ target.branch \in Ancestors(target'.branch)
BranchKept == [][KeepsBranch]_vars

\* Nothing outside stands in the way of a delivery.
Deliverable ==
    /\ BundleHolds(bundle) /\ SourceHolds /\ QualifiedRun /\ JobsPassed /\ source.artifact = "live"
    /\ target.main.pkg # "link"
    /\ target.branch = NoCommit \/ target.branch.by \in Deliveries
    /\ \A p \in target.pulls : p.open /\ p.ours /\ p.head = target.branch

(***************************************************************************)
(* However deliveries were interrupted, between a push and its pull        *)
(* request too, and however main advanced meanwhile: while nothing outside *)
(* stands in the way, starting a delivery again comes to the pull request  *)
(* or finds that main holds the files already.                             *)
(***************************************************************************)
Delivered(d) == work[d].stage \/ pc[d] \in {"noop", "done"}
RetryDelivers == (<>[]Deliverable) => \A d \in Deliveries : <>Delivered(d)

-----------------------------------------------------------------------------

(***************************************************************************)
(* Why it holds.  A delivery that goes on has passed every earlier check,  *)
(* and what was checked stays: the bundle is fixed by its digest, passed   *)
(* jobs stay passed, main only grows, and a source that has moved on never *)
(* comes back.  So a delivery whose source was lost when its commit was    *)
(* prepared is stopped by one of the three checks of the second round.     *)
(***************************************************************************)
Commits == [by : Deliveries \cup {"foreign", "main", None}, base : Nat, files : {Fresh}, owned : BOOLEAN]
Trees == [pkg : {None, "a", "b", "link"}, manifest : {None, "same", "older", "broken"}]
Works == [round : {1, 2}, checkout : Nat, base : Nat, rev : Commits, adopted : BOOLEAN,
          skip : BOOLEAN, stage : BOOLEAN, late : BOOLEAN]
Positions == {"idle", "run", "jobs", "rerun", "artifact", "source", "target", "ref", "base", "push", "readback",
              "pulls", "open", "refused", "staged", "noop", "done"}

Sources == [attempt : {1, 2}, run : {"active", "success", "failed"}, jobs : {"running", "passed", "failed"},
            workflow : {"same", "replaced"}, tree : {"built", "moved"}, artifact : {"live", "expired"}]
Pulls == [ours : BOOLEAN, open : BOOLEAN, head : Commits]
Repositories == [height : Nat, main : Trees, branch : Commits, pulls : SUBSET Pulls]

TypesOK ==
    /\ bundle \in Bundles /\ source \in Sources /\ target \in Repositories
    /\ pc \in [Deliveries -> Positions] /\ work \in [Deliveries -> Works]

\* In the second round, and from these positions on, a check has been passed.
Past(d, positions) == pc[d] \in positions \/ work[d].round = 2

ChecksOK(d) ==
    /\ pc[d] \in {"artifact", "target", "ref"} => work[d].round = 1
    /\ pc[d] \in {"base", "push", "readback", "pulls", "open", "done"} => work[d].round = 2
    /\ Past(d, {"rerun", "artifact", "source", "target", "ref"}) => source.jobs = "passed"
    /\ Past(d, {"source", "target", "ref"}) => BundleHolds(bundle)
    /\ Past(d, {"target", "ref"}) => bundle.manifest.receipt = "src"
CommitOK(d) ==
    /\ work[d].base <= target.height
    /\ work[d].round = 2 => work[d].rev.owned /\ work[d].rev.base <= work[d].base
LateOK(d) ==
    work[d].late =>
        /\ work[d].round = 2 /\ SourceLost
        /\ pc[d] = "jobs" => source.tree # "built" \/ source.workflow # "same"
        /\ pc[d] \in {"rerun", "source"} => source.tree # "built"
        /\ pc[d] \notin {"base", "push", "readback", "pulls", "open", "done"}

Inv == TypesOK /\ \A d \in Deliveries : ChecksOK(d) /\ CommitOK(d) /\ LateOK(d)
=============================================================================
