--------------------------- MODULE ReleaseLedger ---------------------------
(***************************************************************************)
(* The durable version ledger of one repository and the release runs that  *)
(* allocate from it and publish under it.                                  *)
(*                                                                         *)
(*   release_state.py      the ledger file on its own branch, reserve_plan *)
(*                         and begin_publication with their blob-SHA CAS   *)
(*   release_versioned.py  prepare and publish_versioned, the two jobs of  *)
(*                         a release run                                   *)
(*   release_control.py    promote, _publish_prepared, ensure_absent and   *)
(*                         next_sequence                                   *)
(*                                                                         *)
(* Every call to GitHub that writes is a step of its own, so other runs,   *)
(* an operator and the loss of a runner come between any two of them.      *)
(* Consecutive calls that only read are one step when a later step of the  *)
(* same run checks again what they established.  A write whose response is *)
(* lost is the write followed by Fail.                                     *)
(***************************************************************************)
EXTENDS Integers, FiniteSets

CONSTANTS
  Runs,          \* Actions run IDs, positive integers
  Bases,         \* base versions X.Y.Z
  Promotion,     \* versioning.promotion: "promote-bytes" or "final-build"
  Serialized,    \* TRUE: the workflow's concurrency group is in force
  PolicyFloors,  \* values of versioning.build_number_floor in the policies
  BuildLimit,    \* the largest build number create_plan accepts
  MaxSequence,   \* bound on the RC sequence a stable request names
  MaxAttempts,   \* bound on the attempts of a run
  MaxDeletions   \* bound on the releases an operator deletes

ASSUME RunsAssumption == IsFiniteSet(Runs) /\ Runs \subseteq Nat \ {0}
ASSUME PromotionAssumption == Promotion \in {"promote-bytes", "final-build"}
ASSUME SerializedAssumption == Serialized \in BOOLEAN
ASSUME PolicyAssumption == PolicyFloors \subseteq Nat
ASSUME BoundsAssumption ==
  {BuildLimit, MaxSequence, MaxAttempts, MaxDeletions} \subseteq Nat

VARIABLES
  branch,     \* refs/heads/release-version-state exists
  written,    \* release-version-state.json exists on that branch
  file,       \* its content, EmptyLedger until the first write
  tags,       \* refs/tags of the repository
  releases,   \* the releases GitHub lists, drafts included
  shipped,    \* auxiliary: every tag and number that was ever public
  pc,         \* where each run is
  attempt,    \* GITHUB_RUN_ATTEMPT of each run
  request,    \* the event of each run: channel, base and accepted RC
  seen,       \* the ledger a run read last; its blob SHA is the CAS token
  plan,       \* .release-plan.json of each run, or the RC plan it promotes
  deletions   \* how many releases an operator has deleted

ledgerVars == <<branch, written, file>>
publicVars == <<tags, releases, shipped>>
inputVars  == <<attempt, request>>
vars == <<ledgerVars, publicVars, inputVars, pc, seen, plan, deletions>>

-----------------------------------------------------------------------------
(* Plans, tags and the ledger file *)

Channels == {"nightly", "beta", "rc", "stable"}

\* v<base> for stable, v<base>-<channel>.<seq> otherwise. A nightly sequence
\* is a time stamp followed by the run ID, which alone makes it unique.
Tag == [base: Bases, channel: Channels, seq: Nat]

\* A plan without the fields that only carry text. parent is the run that
\* produced the accepted RC of a final build, 0 in every other plan.
Plan == [tag: Tag, number: Nat \ {0}, parent: Runs \cup {0}]

NoPlan == [number |-> 0]

Ledger == [counter: Nat, floor: Nat, plans: [Runs -> Plan \cup {NoPlan}]]

EmptyLedger == [counter |-> 0, floor |-> 0, plans |-> [r \in Runs |-> NoPlan]]

\* The runs that hold a reservation.
Reserved(ledger) == {r \in Runs : ledger.plans[r] # NoPlan}

StableTag(base) == [base |-> base, channel |-> "stable", seq |-> 0]

\* A release, the attempt its manifest names and the number of its package.
Release == [tag: Tag, run: Runs, attempt: Nat, number: Nat \ {0}, public: BOOLEAN]

Published == {rel.tag : rel \in {x \in releases : x.public}}

\* Refuse existing tags, published releases and hidden release drafts.
EnsureAbsent(tag) == tag \notin tags /\ \A rel \in releases : rel.tag # tag

\* Sequences that tags, releases and reservations of a channel already use.
TakenSequences(ledger, base, channel) ==
  {t.seq : t \in {u \in tags \cup {rel.tag : rel \in releases}
                            \cup {ledger.plans[r].tag : r \in Reserved(ledger)} :
                    u.base = base /\ u.channel = channel}}

\* {max(taken, default=0) + 1}
NextSequence(taken) ==
  {n \in {1} \cup {m + 1 : m \in taken} : \A m \in taken : m < n}

\* number = max(counter, policy floor) + 1
NextNumber(ledger, policyFloor) ==
  (IF ledger.counter > policyFloor THEN ledger.counter ELSE policyFloor) + 1

-----------------------------------------------------------------------------
(* Runs *)

Phases == {"idle", "prepare", "absent", "newref", "reserve",
           "built", "promote", "staged", "floor", "tag", "draft", "upload",
           "done", "failed", "rejected", "missing"}

\* "rejected" is an error the code raises itself, "failed" the loss of the
\* runner, of a build or of a GitHub call, and "missing" read_state's
\* complaint about an existing branch without a ledger.
Finished == {"idle", "done", "failed", "rejected", "missing"}

Active(r) == pc[r] \notin Finished

Request == [channel: Channels, base: Bases, rc: 0..MaxSequence]

NoRequest == [channel |-> "none"]

\* A stable run of a promote-bytes policy copies the RC; all others build.
ByteCopy(r) == request[r].channel = "stable" /\ Promotion = "promote-bytes"

\* The run goes on in another phase.
Goto(r, phase) == pc' = [pc EXCEPT ![r] = phase]

\* The run's processes end and forget what they have read and planned; the
\* next attempt starts with prepare.
Stop(r, phase) ==
  /\ Goto(r, phase)
  /\ seen' = [seen EXCEPT ![r] = EmptyLedger]
  /\ plan' = [plan EXCEPT ![r] = NoPlan]

Init ==
  /\ branch = FALSE
  /\ written = FALSE
  /\ file = EmptyLedger
  /\ tags = {}
  /\ releases = {}
  /\ shipped = {}
  /\ pc = [r \in Runs |-> "idle"]
  /\ attempt = [r \in Runs |-> 0]
  /\ request = [r \in Runs |-> NoRequest]
  /\ seen = [r \in Runs |-> EmptyLedger]
  /\ plan = [r \in Runs |-> NoPlan]
  /\ deletions = 0

\* concurrency: group release-<repository>, cancel-in-progress false.
ConcurrencyGroup(r) == Serialized => \A q \in Runs \ {r} : ~Active(q)

\* An event starts the workflow; run IDs grow in the order of the events.
\* Only a stable request names an RC.
Dispatch(r) ==
  /\ pc[r] = "idle"
  /\ \A q \in Runs : q < r => pc[q] # "idle"
  /\ ConcurrencyGroup(r)
  /\ \E req \in Request :
       /\ req.channel = "stable" <=> req.rc # 0
       /\ request' = [request EXCEPT ![r] = req]
  /\ attempt' = [attempt EXCEPT ![r] = 1]
  /\ Goto(r, "prepare")
  /\ UNCHANGED <<ledgerVars, publicVars, seen, plan, deletions>>

\* "Re-run all jobs" keeps the run ID and its event, but a base that is
\* derived from the tags is resolved again.
Rerun(r) ==
  /\ pc[r] \in Finished \ {"idle"}
  /\ attempt[r] < MaxAttempts
  /\ ConcurrencyGroup(r)
  /\ \E base \in Bases :
       /\ request[r].channel = "stable" => base = request[r].base
       /\ request' = [request EXCEPT ![r].base = base]
  /\ attempt' = [attempt EXCEPT ![r] = @ + 1]
  /\ Goto(r, "prepare")
  /\ UNCHANGED <<ledgerVars, publicVars, seen, plan, deletions>>

-----------------------------------------------------------------------------
(* prepare: freeze one durable plan before anything is built *)

RCTag(r) == [base |-> request[r].base, channel |-> "rc", seq |-> request[r].rc]

\* The published release of the RC this run names. Its run is another one,
\* has completed successfully and was not started again since.
VerifiedRC(r) ==
  {rel \in releases : /\ rel.public
                      /\ rel.tag = RCTag(r)
                      /\ rel.run # r
                      /\ pc[rel.run] = "done"
                      /\ attempt[rel.run] = rel.attempt}

\* The parent a reservation of this run is bound to.
ParentRuns(r) ==
  IF request[r].channel = "stable" THEN {rel.run : rel \in VerifiedRC(r)} ELSE {0}

\* A reservation of this run was made for the same base, channel and RC.
SameIdentity(r, p) ==
  /\ p.tag.base = request[r].base
  /\ p.tag.channel = request[r].channel
  /\ p.parent \in ParentRuns(r)

\* A byte copy needs no reservation: prepare only verifies the RC.
PrepareCopy(r) ==
  /\ pc[r] = "prepare"
  /\ ByteCopy(r)
  /\ IF VerifiedRC(r) # {} THEN Goto(r, "promote") /\ UNCHANGED <<seen, plan>>
                           ELSE Stop(r, "rejected")
  /\ UNCHANGED <<ledgerVars, publicVars, inputVars, deletions>>

\* closed_push_cycle: a push beta whose base already has a stable tag.
ClosedCycle(r) ==
  /\ pc[r] = "prepare"
  /\ request[r].channel = "beta"
  /\ StableTag(request[r].base) \in tags
  /\ Stop(r, "done")
  /\ UNCHANGED <<ledgerVars, publicVars, inputVars, deletions>>

\* What prepare requires of the RC and of the stable tag.
PrepareAccepts(r) ==
  /\ ParentRuns(r) # {}
  /\ request[r].channel # "nightly" => EnsureAbsent(StableTag(request[r].base))

PrepareRejects(r) ==
  /\ pc[r] = "prepare"
  /\ ~ByteCopy(r)
  /\ ~PrepareAccepts(r) \/ (file.plans[r] # NoPlan /\ ~SameIdentity(r, file.plans[r]))
  /\ Stop(r, "rejected")
  /\ UNCHANGED <<ledgerVars, publicVars, inputVars, deletions>>

\* read_state finds the branch but not the ledger.
LedgerMissing(r) ==
  /\ pc[r] = "prepare"
  /\ ~ByteCopy(r)
  /\ PrepareAccepts(r)
  /\ branch /\ ~written
  /\ Stop(r, "missing")
  /\ UNCHANGED <<ledgerVars, publicVars, inputVars, deletions>>

\* A run that already holds a reservation gets the same plan again.
ReusePlan(r) ==
  /\ pc[r] = "prepare"
  /\ ~ByteCopy(r)
  /\ PrepareAccepts(r)
  /\ file.plans[r] # NoPlan
  /\ SameIdentity(r, file.plans[r])
  /\ plan' = [plan EXCEPT ![r] = file.plans[r]]
  /\ Goto(r, "built")
  /\ UNCHANGED <<ledgerVars, publicVars, inputVars, seen, deletions>>

\* The sequence of a new plan's tag.
SequenceFor(r) ==
  CASE request[r].channel = "nightly" -> {r}
    [] request[r].channel = "stable"  -> {0}
    [] OTHER -> NextSequence(TakenSequences(file, request[r].base, request[r].channel))

\* reserve_plan for a run without a reservation: read the ledger, choose the
\* sequence and the number, and build the plan in memory.
Allocate(r) ==
  /\ pc[r] = "prepare"
  /\ ~ByteCopy(r)
  /\ PrepareAccepts(r)
  /\ branch => written
  /\ file.plans[r] = NoPlan
  /\ \E policyFloor \in PolicyFloors, n \in SequenceFor(r), q \in ParentRuns(r) :
       LET number == NextNumber(file, policyFloor)
           tag == [base |-> request[r].base, channel |-> request[r].channel, seq |-> n]
       IN IF number <= BuildLimit
          THEN /\ plan' = [plan EXCEPT ![r] = [tag |-> tag, number |-> number, parent |-> q]]
               /\ seen' = [seen EXCEPT ![r] = file]
               /\ Goto(r, "absent")
          ELSE Stop(r, "rejected")
  /\ UNCHANGED <<ledgerVars, publicVars, inputVars, deletions>>

\* ensure_absent of the new tag, then the look at the state branch.
CheckAbsent(r) ==
  /\ pc[r] = "absent"
  /\ IF EnsureAbsent(plan[r].tag)
     THEN Goto(r, IF branch THEN "reserve" ELSE "newref") /\ UNCHANGED <<seen, plan>>
     ELSE Stop(r, "rejected")
  /\ UNCHANGED <<ledgerVars, publicVars, inputVars, deletions>>

\* POST git/refs creates the state branch; GitHub refuses an existing ref.
PostRef(r) ==
  /\ pc[r] = "newref"
  /\ IF branch THEN Stop(r, "rejected") ELSE Goto(r, "reserve") /\ UNCHANGED <<seen, plan>>
  /\ branch' = TRUE
  /\ UNCHANGED <<written, file, publicVars, inputVars, deletions>>

\* Mutant of WriteState: a PUT without the blob SHA.
BlindWrite(r, ledger, phase) ==
  file' = ledger /\ written' = TRUE /\ Goto(r, phase) /\ UNCHANGED <<seen, plan>>

\* PUT with the blob SHA of the ledger that was read: GitHub refuses it when
\* the file has another content by now, and the run never retries.
WriteState(r, ledger, phase) ==
  IF file = seen[r]
  THEN file' = ledger /\ written' = TRUE /\ Goto(r, phase) /\ UNCHANGED <<seen, plan>>
  ELSE Stop(r, "rejected") /\ UNCHANGED <<file, written>>

\* Mutant of WithPlan: the counter stays.
PlanOnly(ledger, r, p) == [ledger EXCEPT !.plans[r] = p]

\* The ledger with one more reservation.
WithPlan(ledger, r, p) ==
  [ledger EXCEPT !.counter = p.number, !.plans[r] = p]

WriteReservation(r) ==
  /\ pc[r] = "reserve"
  /\ WriteState(r, WithPlan(seen[r], r, plan[r]), "built")
  /\ UNCHANGED <<branch, publicVars, inputVars, deletions>>

-----------------------------------------------------------------------------
(* publish_versioned and promote up to the consumed number *)

\* Mutant of ReservationHolds: only what is listed as published now counts.
UnflooredReservation(r) ==
  /\ file.plans[r] = plan[r]
  /\ \A q \in Reserved(file) :
       file.plans[q].tag \in Published => file.plans[q].number < plan[r].number

\* _verify_reservation
ReservationHolds(r) ==
  /\ file.plans[r] = plan[r]
  /\ plan[r].number > file.floor
  /\ \A q \in Reserved(file) :
       file.plans[q].tag \in Published => file.plans[q].number < plan[r].number

\* _verify_promotion_order, for the plan p of an accepted RC
PromotionOrderHolds(p) ==
  /\ \E q \in Reserved(file) : \A x \in Reserved(file) : file.plans[x] = p <=> x = q
  /\ p.number >= file.floor
  /\ p.tag \in Published
  /\ \A q \in Reserved(file) :
       (file.plans[q].tag # p.tag /\ file.plans[q].tag \in Published)
         => file.plans[q].number <= p.number

\* The beginning of publish_versioned, after the builds and the gate.
VerifyBuild(r) ==
  /\ pc[r] = "built"
  /\ IF /\ plan[r].parent \in ParentRuns(r)
        /\ ReservationHolds(r)
        /\ EnsureAbsent(plan[r].tag)
        /\ plan[r].tag.channel \in {"beta", "rc"} => EnsureAbsent(StableTag(plan[r].tag.base))
     THEN Goto(r, "staged") /\ UNCHANGED <<seen, plan>>
     ELSE Stop(r, "rejected")
  /\ UNCHANGED <<ledgerVars, publicVars, inputVars, deletions>>

\* An automatic beta or nightly ends here when a newer run has superseded it,
\* a scheduled nightly also when a qualified release can be reused.
SkipPublication(r) ==
  /\ pc[r] = "staged"
  /\ plan[r].tag.channel \in {"beta", "nightly"}
  /\ Stop(r, "done")
  /\ UNCHANGED <<ledgerVars, publicVars, inputVars, deletions>>

\* Mutant of VerifyPromotion: the newest published plan instead of the RC's.
PromoteNewest(r) ==
  /\ pc[r] = "promote"
  /\ VerifiedRC(r) # {}
  /\ EnsureAbsent(StableTag(request[r].base))
  /\ \E q \in Reserved(file) :
       /\ PromotionOrderHolds(file.plans[q])
       /\ plan' = [plan EXCEPT ![r] = file.plans[q]]
  /\ Goto(r, "staged")
  /\ UNCHANGED <<ledgerVars, publicVars, inputVars, seen, deletions>>

\* promote up to its first write, for the plan in the RC's manifest.
VerifyPromotion(r) ==
  /\ pc[r] = "promote"
  /\ \/ \E rel \in VerifiedRC(r) :
          LET p == file.plans[rel.run] IN
          /\ PromotionOrderHolds(p)
          /\ EnsureAbsent(StableTag(request[r].base))
          /\ plan' = [plan EXCEPT ![r] = p]
          /\ Goto(r, "staged")
          /\ UNCHANGED seen
     \/ /\ \/ VerifiedRC(r) = {}
           \/ \E rel \in VerifiedRC(r) : ~PromotionOrderHolds(file.plans[rel.run])
           \/ ~EnsureAbsent(StableTag(request[r].base))
        /\ Stop(r, "rejected")
  /\ UNCHANGED <<ledgerVars, publicVars, inputVars, deletions>>

\* begin_publication reads the ledger and verifies the order once more.
BeginPublication(r) ==
  /\ pc[r] = "staged"
  /\ IF IF ByteCopy(r) THEN PromotionOrderHolds(plan[r]) ELSE ReservationHolds(r)
     THEN seen' = [seen EXCEPT ![r] = file] /\ Goto(r, "floor") /\ UNCHANGED plan
     ELSE Stop(r, "rejected")
  /\ UNCHANGED <<ledgerVars, publicVars, inputVars, deletions>>

\* It consumes the number with the same compare-and-swap.
AdvanceFloor(r) ==
  /\ pc[r] = "floor"
  /\ WriteState(r, [seen[r] EXCEPT !.floor = plan[r].number], "tag")
  /\ UNCHANGED <<branch, publicVars, inputVars, deletions>>

-----------------------------------------------------------------------------
(* _publish_prepared: tag, draft, upload, publication *)

\* The tag this run publishes under.
Target(r) == IF ByteCopy(r) THEN StableTag(request[r].base) ELSE plan[r].tag

CreateTag(r) ==
  /\ pc[r] = "tag"
  /\ IF EnsureAbsent(Target(r))
     THEN tags' = tags \cup {Target(r)} /\ Goto(r, "draft") /\ UNCHANGED <<seen, plan>>
     ELSE Stop(r, "rejected") /\ UNCHANGED tags
  /\ UNCHANGED <<ledgerVars, releases, shipped, inputVars, deletions>>

\* The manifest of a byte copy is the RC's own, but the release is new.
ReleaseOf(r, public) ==
  [tag |-> Target(r), run |-> r, attempt |-> attempt[r],
   number |-> plan[r].number, public |-> public]

CreateDraft(r) ==
  /\ pc[r] = "draft"
  /\ releases' = releases \cup {ReleaseOf(r, FALSE)}
  /\ Goto(r, "upload")
  /\ UNCHANGED <<ledgerVars, tags, shipped, inputVars, seen, plan, deletions>>

\* Upload, read back, and PATCH draft=false. The draft may be gone, and the
\* response of the PATCH may be lost.
PublishDraft(r) ==
  /\ pc[r] = "upload"
  /\ IF ReleaseOf(r, FALSE) \in releases
     THEN /\ releases' = (releases \ {ReleaseOf(r, FALSE)}) \cup {ReleaseOf(r, TRUE)}
          /\ shipped' = shipped \cup {[tag |-> Target(r), number |-> plan[r].number]}
          /\ \E phase \in {"done", "failed"} : Stop(r, phase)
     ELSE Stop(r, "failed") /\ UNCHANGED <<releases, shipped>>
  /\ UNCHANGED <<ledgerVars, tags, inputVars, deletions>>

-----------------------------------------------------------------------------
(* The environment *)

\* A build, a check, the runner or a call fails; the workflow run ends.
Fail(r) ==
  /\ Active(r)
  /\ Stop(r, "failed")
  /\ UNCHANGED <<ledgerVars, publicVars, inputVars, deletions>>

\* An operator deletes the metadata of a release; its tag stays.
DeleteRelease ==
  /\ deletions < MaxDeletions
  /\ \E rel \in releases : releases' = releases \ {rel}
  /\ deletions' = deletions + 1
  /\ UNCHANGED <<ledgerVars, tags, shipped, inputVars, pc, seen, plan>>

\* The steps of a run's own code.
Work(r) ==
  \/ PrepareCopy(r) \/ ClosedCycle(r) \/ PrepareRejects(r) \/ LedgerMissing(r)
  \/ ReusePlan(r) \/ Allocate(r) \/ CheckAbsent(r) \/ PostRef(r)
  \/ WriteReservation(r) \/ VerifyBuild(r) \/ SkipPublication(r)
  \/ VerifyPromotion(r) \/ BeginPublication(r) \/ AdvanceFloor(r)
  \/ CreateTag(r) \/ CreateDraft(r) \/ PublishDraft(r)

Next ==
  \/ \E r \in Runs : Dispatch(r) \/ Rerun(r) \/ Work(r) \/ Fail(r)
  \/ DeleteRelease

Spec == Init /\ [][Next]_vars

-----------------------------------------------------------------------------
(* Properties *)

\* Every variable keeps its type.
TypeOK ==
  /\ branch \in BOOLEAN
  /\ written \in BOOLEAN
  /\ file \in Ledger
  /\ tags \subseteq Tag
  /\ releases \subseteq Release
  /\ shipped \subseteq [tag: Tag, number: Nat \ {0}]
  /\ pc \in [Runs -> Phases]
  /\ attempt \in [Runs -> Nat]
  /\ request \in [Runs -> Request \cup {NoRequest}]
  /\ seen \in [Runs -> Ledger]
  /\ plan \in [Runs -> Plan \cup {NoPlan}]
  /\ deletions \in Nat

\* Two runs never hold the same build number, even when they race for the
\* ledger, fail between any two calls and are started again (reserve_plan).
UniqueNumbers ==
  \A q, r \in Reserved(file) : file.plans[q].number = file.plans[r].number => q = r

\* Two runs never compile the same beta, RC or nightly tag (reserve_plan,
\* next_sequence); only a stable tag can be reserved again.
UniqueTags ==
  \A q, r \in Reserved(file) :
    (q # r /\ file.plans[q].tag = file.plans[r].tag) => file.plans[q].tag.channel = "stable"

\* No sequence of writes leaves a ledger that read_state refuses: the floor
\* and every reserved number stay within the counter.
LedgerReadable ==
  /\ file.floor <= file.counter
  /\ \A r \in Reserved(file) : file.plans[r].number <= file.counter

\* Nothing reaches a tag, a draft or the public before begin_publication has
\* consumed its number, and no crash, conflict or deletion loses that.
ConsumedBeforePublic ==
  /\ \A x \in shipped : x.number <= file.floor
  /\ \A rel \in releases : rel.number <= file.floor

\* A number goes public under one tag, or under the tag of an RC and the
\* stable tag of the same base that copies its bytes (promote); and a tag
\* that was public never comes back with another number.
OnePackagePerNumber ==
  \A x, y \in shipped :
    /\ x.tag = y.tag => x.number = y.number
    /\ (x.number = y.number /\ x.tag # y.tag) =>
         /\ x.tag.base = y.tag.base
         /\ {x.tag.channel, y.tag.channel} = {"rc", "stable"}

\* A stable release never appears without an RC of its base that was public
\* before it, and a byte copy carries the number of that RC.
StableFollowsRC ==
  \A x \in shipped : x.tag.channel = "stable" =>
    \E y \in shipped : /\ y.tag.channel = "rc"
                       /\ y.tag.base = x.tag.base
                       /\ IF Promotion = "promote-bytes" THEN y.number = x.number
                                                        ELSE y.number < x.number

\* "Rerunning that run reuses the plan": no step changes or drops a
\* reservation, or moves the counter or the floor backwards.
LedgerOnlyGrows ==
  [][/\ file'.counter >= file.counter
     /\ file'.floor >= file.floor
     /\ \A r \in Reserved(file) : file'.plans[r] = file.plans[r]]_vars

\* With the workflow's concurrency group, whatever goes public is newer than
\* everything that was public before, deleted releases included; only a byte
\* copy repeats the newest number.
NoDowngrade ==
  [][\A x \in shipped' \ shipped, y \in shipped :
       x.number > y.number \/ (x.number = y.number /\ x.tag.channel = "stable")]_vars

\* With the concurrency group, no beta or RC of a base goes public after the
\* stable release of that base: publish_versioned looks at the stable tag
\* once, long before it publishes.
StableClosesBase ==
  [][\A x \in shipped' \ shipped : x.tag.channel \in {"beta", "rc"} =>
       \A y \in shipped : y.tag # StableTag(x.tag.base)]_vars

\* With the concurrency group, a run that has reserved a candidate on its
\* first attempt is never turned away afterwards: no check of its own plan,
\* compare-and-swap or tag creation can lose to a neighbour.
CandidateNotRejected ==
  \A r \in Runs :
    (pc[r] = "rejected" /\ attempt[r] = 1 /\ request[r].channel # "stable")
      => file.plans[r] = NoPlan

\* Numbers: no two runs ever hold the same one, and none shows anywhere before
\* begin_publication has consumed it, whatever races, stops and runs again.
NumbersSound == UniqueNumbers /\ ConsumedBeforePublic

\* Packages: a number means one package and a tag one number, for all time;
\* no two runs compile the same beta, RC or nightly tag.
PackagesDistinct == OnePackagePerNumber /\ UniqueTags

\* Stable releases and candidates: a stable release follows a public RC whose
\* bytes or base it carries, and no neighbour turns a fresh candidate away.
StableOrder == StableFollowsRC /\ CandidateNotRejected

\* What becomes public moves forward only: no older package after a newer one,
\* and no beta or RC of a base after its stable release.
PublicMovesForward == NoDowngrade /\ StableClosesBase

\* read_state tells the operator to restore a missing ledger from history;
\* this claims that there is a history to restore it from.
MissingLedgerHasHistory == \A r \in Runs : pc[r] = "missing" => written

-----------------------------------------------------------------------------
(* The abstract specification *)

Abstract == INSTANCE BuildNumbers WITH
  Numbers <- 1..BuildLimit,
  issued  <- [r \in Runs |-> file.plans[r].number],
  floor   <- file.floor,
  public  <- {x.number : x \in shipped}

\* The processes that share the ledger file implement the allocator: each run
\* gets one number, in order, and only consumed numbers become public.
ImplementsAllocator == Abstract!Spec
=============================================================================
