--------------------------- MODULE SourcesProofs ----------------------------
(***************************************************************************)
(* Proofs about how sources and evidence reach a release, for any number   *)
(* of deliveries, preparations and targets and any bound on events.        *)
(*                                                                         *)
(* A behaviour of MCSources is one of a single component, so each theorem  *)
(* is an invariant of that component, kept by each of its actions.  The    *)
(* slots hold, in order:                                                   *)
(*   vendor    s1 bundle, s2 source, s3 target, s4 pc, s5 work, s6 events  *)
(*   files     s1 policy, s2 plan, s3 head, s4 disk, s5 pc, s6 before,     *)
(*             s7 after, s8 staged, s9 evidence, s10 kills, s11 edits,     *)
(*             s12 at                                                      *)
(*   version   s1 main, s2 tags, s3 reachable, s4 topic, s5 pulls, s6 pc,  *)
(*             s7 work, s8 events                                          *)
(*   receipts  s1 attempt, s2 pc, s3 inputs, s4 dist, s5 staged,           *)
(*             s6 uploads, s7 publisher, s8 accepted, s9 attested,         *)
(*             s10 faults                                                  *)
(*   promotion s1 kind, s2 on, s3 at, s4 release, s5 runs, s6 artifacts,   *)
(*             s7 reviewers, s8 head, s9 occasion, s10 policy, s11 snap,   *)
(*             s12 reuseSnap, s13 raw, s14 reuseRaw, s15 promo,            *)
(*             s16 staged, s17 late, s18 moment, s19 heldLate, s20 changes *)
(***************************************************************************)
EXTENDS MCSources, Sequences, FiniteSetTheorems, WellFoundedInduction, TLAPS

-----------------------------------------------------------------------------
(* Vendor updates                                                          *)

\* A delivery begins with nothing: the work of one that has not run yet.
LEMMA VendorNoWork ==
  Vendor!NoCommit \in Vendor!Commits /\ Vendor!NoWork \in Vendor!Works
BY DEF Vendor!NoCommit, Vendor!Commits, Vendor!NoWork, Vendor!Works, Vendor!None

LEMMA VendorInit ==
  ASSUME Vendor!Init
  PROVE  Vendor!Inv
<1>1. s1 \in Vendor!Bundles
  BY DEF Vendor!Init
<1>2. s2 \in Vendor!Sources
  BY DEF Vendor!Init, Vendor!Sources
<1>3. s3 \in Vendor!Repositories
  <2>1. [pkg |-> Vendor!None, manifest |-> Vendor!None] \in Vendor!Trees /\ [pkg |-> "a", manifest |-> "older"] \in Vendor!Trees
    BY DEF Vendor!Trees
  <2> QED BY <2>1, VendorNoWork DEF Vendor!Init, Vendor!Repositories
<1>4. s4 \in [Deliveries -> Vendor!Positions] /\ \A d \in Deliveries : s4[d] = "idle"
  BY DEF Vendor!Init, Vendor!Positions
<1>5. PICK skip \in BOOLEAN, stage \in BOOLEAN : s5 = [d \in Deliveries |-> [Vendor!NoWork EXCEPT !.skip = skip, !.stage = stage]]
  BY DEF Vendor!Init
<1>6. [Vendor!NoWork EXCEPT !.skip = skip, !.stage = stage] \in Vendor!Works
  BY VendorNoWork DEF Vendor!Works
<1>7. \A d \in Deliveries : s5[d] \in Vendor!Works /\ s5[d].round = 1 /\ s5[d].base = 0 /\ ~s5[d].late
  BY <1>5, <1>6 DEF Vendor!NoWork, Vendor!Works
<1>8. Vendor!TypesOK
  BY <1>1, <1>2, <1>3, <1>4, <1>5, <1>6 DEF Vendor!TypesOK
<1>9. s3.height = 0
  BY DEF Vendor!Init
<1> QED BY <1>4, <1>7, <1>8, <1>9 DEF Vendor!Inv, Vendor!ChecksOK, Vendor!CommitOK, Vendor!LateOK, Vendor!Past

\* A delivery that moves to position w with work v disturbs no other.
LEMMA VendorMoves ==
  ASSUME Vendor!Inv, NEW d \in Deliveries, NEW w \in Vendor!Positions, NEW v \in Vendor!Works,
         s1' = s1, s2' = s2, s3' \in Vendor!Repositories, s3'.height = s3.height,
         s4' = [s4 EXCEPT ![d] = w], s5' = [s5 EXCEPT ![d] = v],
         s4'[d] = w /\ s5'[d] = v => Vendor!ChecksOK(d)' /\ Vendor!CommitOK(d)' /\ Vendor!LateOK(d)'
  PROVE  Vendor!Inv'
<1>1. Vendor!TypesOK'
  BY DEF Vendor!Inv, Vendor!TypesOK
<1>2. s4'[d] = w /\ s5'[d] = v /\ \A e \in Deliveries \ {d} : s4'[e] = s4[e] /\ s5'[e] = s5[e]
  BY DEF Vendor!Inv, Vendor!TypesOK
<1>3. ASSUME NEW e \in Deliveries \ {d} PROVE Vendor!ChecksOK(e)' /\ Vendor!CommitOK(e)' /\ Vendor!LateOK(e)'
  <2>1. Vendor!ChecksOK(e) /\ Vendor!CommitOK(e) /\ Vendor!LateOK(e)
    BY DEF Vendor!Inv
  <2> QED BY <2>1, <1>2 DEF Vendor!ChecksOK, Vendor!CommitOK, Vendor!LateOK, Vendor!Past, Vendor!SourceLost, Vendor!QualifiedRun,
                            Vendor!BundleHolds, Vendor!ManifestHolds
<1> QED BY <1>1, <1>2, <1>3 DEF Vendor!Inv

\* Each step of a delivery keeps the invariant.
LEMMA VendorStepKeeps ==
  ASSUME Vendor!Inv, NEW d \in Deliveries, Vendor!Step(d)
  PROVE  Vendor!Inv'
<1> USE DEF Vendor!Positions, Vendor!Stop, Vendor!Move, Vendor!Local
<1>t. s3 \in Vendor!Repositories /\ s2 \in Vendor!Sources /\ s5[d] \in Vendor!Works /\ s4[d] \in Vendor!Positions
      /\ s5 \in [Deliveries -> Vendor!Works] /\ s4 \in [Deliveries -> Vendor!Positions]
  BY DEF Vendor!Inv, Vendor!TypesOK
<1>i. Vendor!ChecksOK(d) /\ Vendor!CommitOK(d) /\ Vendor!LateOK(d)
  BY DEF Vendor!Inv
<1>u. s5 = [s5 EXCEPT ![d] = s5[d]]
  BY <1>t
<1>n. s3.height \in Nat /\ s5[d].base \in Nat /\ s5[d].rev.base \in Nat
  BY <1>t DEF Vendor!Repositories, Vendor!Works, Vendor!Commits
<1>1. CASE Vendor!Begin(d)
  <2> DEFINE v == [Vendor!NoWork EXCEPT !.checkout = s3.height, !.skip = s5[d].skip, !.stage = s5[d].stage]
  <2>1. v \in Vendor!Works /\ v.round = 1 /\ v.base = 0 /\ ~v.late
    BY <1>t, <1>n, VendorNoWork DEF Vendor!NoWork, Vendor!Works
  <2>2. s5' = [s5 EXCEPT ![d] = v] /\ s4' = [s4 EXCEPT ![d] = "run"] /\ s1' = s1 /\ s2' = s2 /\ s3' = s3
    BY <1>1 DEF Vendor!Begin
  <2> HIDE DEF v
  <2>3. s4'[d] = "run" /\ s5'[d] = v => Vendor!ChecksOK(d)' /\ Vendor!CommitOK(d)' /\ Vendor!LateOK(d)'
    BY <2>1, <2>2, <1>n DEF Vendor!ChecksOK, Vendor!CommitOK, Vendor!LateOK, Vendor!Past
  <2> QED BY <2>1, <2>2, <2>3, <1>t, VendorMoves
<1>2. CASE Vendor!ReadRun(d)
  <2>1. PICK w \in Vendor!Positions : s4' = [s4 EXCEPT ![d] = w] /\ s5' = s5 /\ s1' = s1 /\ s2' = s2 /\ s3' = s3
                /\ s4[d] \in {"run", "rerun"}
                /\ \/ w = "refused"
                   \/ Vendor!QualifiedRun /\ w = IF s4[d] = "run" THEN "jobs" ELSE IF s5[d].round = 1 THEN "artifact" ELSE "source"
    BY <1>2 DEF Vendor!ReadRun
  <2>2. s4'[d] = w /\ s5'[d] = s5[d] => Vendor!ChecksOK(d)'
    BY <2>1, <1>i, <1>t DEF Vendor!ChecksOK, Vendor!Past, Vendor!Works
  <2>3. s4'[d] = w /\ s5'[d] = s5[d] => Vendor!CommitOK(d)'
    BY <2>1, <1>i DEF Vendor!CommitOK
  <2>4. s4'[d] = w /\ s5'[d] = s5[d] => Vendor!LateOK(d)'
    BY <2>1, <1>i, <1>t DEF Vendor!LateOK, Vendor!SourceLost, Vendor!QualifiedRun, Vendor!Works
  <2>5. /\ s1' = s1 /\ s2' = s2 /\ s3' \in Vendor!Repositories /\ s3'.height = s3.height
        /\ s4' = [s4 EXCEPT ![d] = w] /\ s5' = [s5 EXCEPT ![d] = s5[d]] /\ s5[d] \in Vendor!Works
    BY <2>1, <1>t, <1>u
  <2> QED BY <2>2, <2>3, <2>4, <2>5, VendorMoves
<1>3. CASE Vendor!ReadJobs(d)
  <2>1. PICK w \in Vendor!Positions : s4' = [s4 EXCEPT ![d] = w] /\ s5' = s5 /\ s1' = s1 /\ s2' = s2 /\ s3' = s3
                /\ s4[d] = "jobs" /\ (w = "refused" \/ (w = "rerun" /\ Vendor!JobsPassed))
    BY <1>3 DEF Vendor!ReadJobs
  <2>2. s4'[d] = w /\ s5'[d] = s5[d] => Vendor!ChecksOK(d)' /\ Vendor!CommitOK(d)'
    BY <2>1, <1>i, <1>t DEF Vendor!ChecksOK, Vendor!CommitOK, Vendor!Past, Vendor!JobsPassed
  <2>4. s4'[d] = w /\ s5'[d] = s5[d] => Vendor!LateOK(d)'
    BY <2>1, <1>i, <1>t DEF Vendor!LateOK, Vendor!SourceLost, Vendor!QualifiedRun, Vendor!JobsPassed
  <2> QED BY <2>1, <2>2, <2>4, <1>t, <1>u, VendorMoves
<1>4. CASE Vendor!ReadBundle(d)
  <2>1. PICK w \in Vendor!Positions : s4' = [s4 EXCEPT ![d] = w] /\ s5' = s5 /\ s1' = s1 /\ s2' = s2 /\ s3' = s3
                /\ s4[d] = "artifact" /\ (w = "refused" \/ (w = "source" /\ Vendor!BundleHolds(s1)))
    BY <1>4 DEF Vendor!ReadBundle
  <2>2. s4'[d] = w /\ s5'[d] = s5[d] => Vendor!ChecksOK(d)' /\ Vendor!CommitOK(d)'
    BY <2>1, <1>i, <1>t DEF Vendor!ChecksOK, Vendor!CommitOK, Vendor!Past
  <2>4. s4'[d] = w /\ s5'[d] = s5[d] => Vendor!LateOK(d)'
    BY <2>1, <1>i, <1>t DEF Vendor!LateOK, Vendor!ChecksOK, Vendor!SourceLost, Vendor!QualifiedRun
  <2> QED BY <2>1, <2>2, <2>4, <1>t, <1>u, VendorMoves
<1>5. CASE Vendor!VerifySource(d)
  <2>1. PICK w \in Vendor!Positions : s4' = [s4 EXCEPT ![d] = w] /\ s5' = s5 /\ s1' = s1 /\ s2' = s2 /\ s3' = s3
                /\ s4[d] = "source" /\ (w = "refused" \/ (Vendor!SourceHolds /\ w = IF s5[d].round = 1 THEN "target" ELSE "base"))
    BY <1>5 DEF Vendor!VerifySource
  <2>2. s4'[d] = w /\ s5'[d] = s5[d] => Vendor!ChecksOK(d)' /\ Vendor!CommitOK(d)'
    BY <2>1, <1>i, <1>t DEF Vendor!ChecksOK, Vendor!CommitOK, Vendor!Past, Vendor!SourceHolds, Vendor!Works
  <2>4. s4'[d] = w /\ s5'[d] = s5[d] => Vendor!LateOK(d)'
    BY <2>1, <1>i, <1>t DEF Vendor!LateOK, Vendor!SourceHolds, Vendor!SourceLost, Vendor!QualifiedRun
  <2> QED BY <2>1, <2>2, <2>4, <1>t, <1>u, VendorMoves
<1>6. CASE Vendor!ReadTarget(d)
  <2> DEFINE v == [s5[d] EXCEPT !.base = s3.height]
  <2>1. v \in Vendor!Works /\ v.round = s5[d].round /\ v.base = s3.height /\ v.late = s5[d].late
    BY <1>t, <1>n DEF Vendor!Works
  <2>2. PICK w \in Vendor!Positions : s4' = [s4 EXCEPT ![d] = w] /\ s5' = [s5 EXCEPT ![d] = v] /\ s1' = s1 /\ s2' = s2 /\ s3' = s3
                /\ s4[d] = "target" /\ w \in {"refused", "noop", "ref"}
    BY <1>6 DEF Vendor!ReadTarget
  <2> HIDE DEF v
  <2>3. s4'[d] = w /\ s5'[d] = v => Vendor!ChecksOK(d)' /\ Vendor!CommitOK(d)'
    BY <2>1, <2>2, <1>i, <1>n DEF Vendor!ChecksOK, Vendor!CommitOK, Vendor!Past
  <2>4. s4'[d] = w /\ s5'[d] = v => Vendor!LateOK(d)'
    BY <2>1, <2>2, <1>i DEF Vendor!LateOK, Vendor!ChecksOK
  <2> QED BY <2>1, <2>2, <2>3, <2>4, <1>t, VendorMoves
<1>7. CASE Vendor!ReadRef(d)
  <2> DEFINE c == IF s3.branch = Vendor!NoCommit THEN Vendor!Commit(d, s5[d].base) ELSE s3.branch
             v == [s5[d] EXCEPT !.rev = c, !.adopted = s3.branch # Vendor!NoCommit, !.round = 2, !.late = Vendor!SourceLost]
  <2>0. s4[d] = "ref" /\ s1' = s1 /\ s2' = s2 /\ s3' = s3
    BY <1>7 DEF Vendor!ReadRef
  <2>1. CASE s3.branch # Vendor!NoCommit /\ ~Vendor!ExistingCommit(d, s3.branch)
    <3>1. s4' = [s4 EXCEPT ![d] = "refused"] /\ s5' = s5
      BY <1>7, <2>1 DEF Vendor!ReadRef
    <3>2. s4'[d] = "refused" /\ s5'[d] = s5[d] => Vendor!ChecksOK(d)' /\ Vendor!CommitOK(d)' /\ Vendor!LateOK(d)'
      BY <2>0, <1>i DEF Vendor!ChecksOK, Vendor!CommitOK, Vendor!Past, Vendor!LateOK
    <3> QED BY <2>0, <3>1, <3>2, <1>t, <1>u, VendorMoves
  <2>2. CASE ~(s3.branch # Vendor!NoCommit /\ ~Vendor!ExistingCommit(d, s3.branch))
    <3>1. s5' = [s5 EXCEPT ![d] = v] /\ s4' = [s4 EXCEPT ![d] = Vendor!AfterCommit(d)]
      BY <1>7, <2>2 DEF Vendor!ReadRef
    <3>2. c \in Vendor!Commits /\ c.owned /\ c.base <= s5[d].base
      <4>1. CASE s3.branch = Vendor!NoCommit
        BY <4>1, <1>n DEF Vendor!Commit, Vendor!Commits
      <4>2. CASE s3.branch # Vendor!NoCommit
        BY <4>2, <2>2, <1>t DEF Vendor!ExistingCommit, Vendor!Repositories
      <4> QED BY <4>1, <4>2
    <3> HIDE DEF c
    <3>3. v \in Vendor!Works /\ v.round = 2 /\ v.rev = c /\ v.base = s5[d].base /\ (v.late => Vendor!SourceLost)
      BY <3>2, <1>t DEF Vendor!Works, Vendor!SourceLost
    <3> HIDE DEF v
    <3>4. Vendor!AfterCommit(d) \in {"staged", "run"}
      BY DEF Vendor!AfterCommit
    <3>w. PICK w \in Vendor!Positions : w = Vendor!AfterCommit(d) /\ w \in {"staged", "run"}
      BY <3>4
    <3>5. s4'[d] = w /\ s5'[d] = v => Vendor!ChecksOK(d)'
      BY <2>0, <1>i, <3>3, <3>w DEF Vendor!ChecksOK, Vendor!Past
    <3>6. s4'[d] = w /\ s5'[d] = v => Vendor!CommitOK(d)'
      BY <2>0, <1>i, <3>2, <3>3 DEF Vendor!CommitOK
    <3>7. s4'[d] = w /\ s5'[d] = v => Vendor!LateOK(d)'
      BY <2>0, <3>3, <3>w DEF Vendor!LateOK, Vendor!SourceLost, Vendor!QualifiedRun
    <3> QED BY <2>0, <3>1, <3>w, <3>3, <3>5, <3>6, <3>7, <1>t, VendorMoves
  <2> QED BY <2>1, <2>2
<1>8. CASE Vendor!ConfirmBase(d) \/ Vendor!Readback(d) \/ Vendor!ReadPulls(d)
  <2>1. PICK w \in Vendor!Positions : s4' = [s4 EXCEPT ![d] = w] /\ s5' = s5 /\ s1' = s1 /\ s2' = s2 /\ s3' = s3
                /\ s4[d] \in {"base", "readback", "pulls"} /\ w \in {"refused", "readback", "push", "pulls", "open", "done"}
    BY <1>8 DEF Vendor!ConfirmBase, Vendor!Readback, Vendor!ReadPulls
  <2>2. s4'[d] = w /\ s5'[d] = s5[d] => Vendor!ChecksOK(d)' /\ Vendor!CommitOK(d)'
    BY <2>1, <1>i, <1>t DEF Vendor!ChecksOK, Vendor!CommitOK, Vendor!Past
  <2>4. s4'[d] = w /\ s5'[d] = s5[d] => Vendor!LateOK(d)'
    BY <2>1, <1>i, <1>t DEF Vendor!LateOK
  <2> QED BY <2>1, <2>2, <2>4, <1>t, <1>u, VendorMoves
<1>9. CASE Vendor!Push(d) \/ Vendor!OpenPull(d)
  <2>1. PICK w \in Vendor!Positions : s4' = [s4 EXCEPT ![d] = w] /\ s5' = s5 /\ s1' = s1 /\ s2' = s2
                /\ s4[d] \in {"push", "open"} /\ w \in {"refused", "readback", "done"}
                /\ s3' \in {s3, [s3 EXCEPT !.branch = s5[d].rev], [s3 EXCEPT !.pulls = @ \cup {Vendor!Opened}]}
    BY <1>9 DEF Vendor!Push, Vendor!OpenPull
  <2>2. [s3 EXCEPT !.branch = s5[d].rev] \in Vendor!Repositories /\ [s3 EXCEPT !.branch = s5[d].rev].height = s3.height
    BY <1>t DEF Vendor!Repositories, Vendor!Works
  <2>3. Vendor!Opened \in Vendor!Pulls
    BY <1>t DEF Vendor!Opened, Vendor!Pulls, Vendor!Repositories
  <2>4. [s3 EXCEPT !.pulls = @ \cup {Vendor!Opened}] \in Vendor!Repositories
        /\ [s3 EXCEPT !.pulls = @ \cup {Vendor!Opened}].height = s3.height
    BY <2>3, <1>t DEF Vendor!Repositories
  <2>5. s3' \in Vendor!Repositories /\ s3'.height = s3.height
    BY <2>1, <2>2, <2>4, <1>t
  <2>6. s4'[d] = w /\ s5'[d] = s5[d] => Vendor!ChecksOK(d)' /\ Vendor!CommitOK(d)'
    BY <2>1, <2>5, <1>i, <1>t DEF Vendor!ChecksOK, Vendor!CommitOK, Vendor!Past
  <2>7. s4'[d] = w /\ s5'[d] = s5[d] => Vendor!LateOK(d)'
    BY <2>1, <1>i, <1>t DEF Vendor!LateOK
  <2> QED BY <2>1, <2>5, <2>6, <2>7, <1>t, <1>u, VendorMoves
<1> QED BY <1>1, <1>2, <1>3, <1>4, <1>5, <1>6, <1>7, <1>8, <1>9 DEF Vendor!Step

\* What happens in the two repositories takes back no check that was passed:
\* passed jobs stay passed, main grows, a lost source stays lost.
LEMMA VendorOutside ==
  ASSUME Vendor!Inv, s1' = s1, s4' = s4, s5' = s5, s2' \in Vendor!Sources, s3' \in Vendor!Repositories,
         s3.height <= s3'.height, s2.jobs = "passed" => s2'.jobs = "passed",
         s2.tree # "built" => s2'.tree # "built", s2.workflow # "same" => s2'.workflow # "same",
         ~Vendor!QualifiedRun => ~Vendor!QualifiedRun'
  PROVE  Vendor!Inv'
<1>1. Vendor!TypesOK'
  BY DEF Vendor!Inv, Vendor!TypesOK
<1>2. ASSUME NEW e \in Deliveries PROVE Vendor!ChecksOK(e)' /\ Vendor!CommitOK(e)' /\ Vendor!LateOK(e)'
  <2>1. Vendor!ChecksOK(e) /\ Vendor!CommitOK(e) /\ Vendor!LateOK(e)
    BY DEF Vendor!Inv
  <2>2. s3.height \in Nat /\ s3'.height \in Nat /\ s5[e].base \in Nat
    BY DEF Vendor!Inv, Vendor!TypesOK, Vendor!Repositories, Vendor!Works
  <2>3. Vendor!ChecksOK(e)'
    BY <2>1 DEF Vendor!ChecksOK, Vendor!Past, Vendor!BundleHolds, Vendor!ManifestHolds
  <2>4. Vendor!CommitOK(e)'
    BY <2>1, <2>2 DEF Vendor!CommitOK
  <2>5. Vendor!LateOK(e)'
    BY <2>1 DEF Vendor!LateOK, Vendor!SourceLost
  <2> QED BY <2>3, <2>4, <2>5
<1> QED BY <1>1, <1>2 DEF Vendor!Inv

\* An interrupted delivery keeps the invariant, whether its write took effect
\* or not.
LEMMA VendorInterruptKeeps ==
  ASSUME Vendor!Inv, NEW d \in Deliveries, Vendor!Interrupt(d)
  PROVE  Vendor!Inv'
<1>t. s3 \in Vendor!Repositories /\ s5[d] \in Vendor!Works /\ s5 \in [Deliveries -> Vendor!Works]
  BY DEF Vendor!Inv, Vendor!TypesOK
<1>i. Vendor!ChecksOK(d) /\ Vendor!CommitOK(d) /\ Vendor!LateOK(d)
  BY DEF Vendor!Inv
<1>1. s4' = [s4 EXCEPT ![d] = "refused"] /\ s5' = [s5 EXCEPT ![d] = s5[d]] /\ s1' = s1 /\ s2' = s2
      /\ s3' \in {s3, [s3 EXCEPT !.branch = s5[d].rev], [s3 EXCEPT !.pulls = @ \cup {Vendor!Opened}]}
      /\ s4[d] \notin {"idle", "refused", "staged", "noop", "done"}
  BY <1>t DEF Vendor!Interrupt, Vendor!Stop
<1>2. [s3 EXCEPT !.branch = s5[d].rev] \in Vendor!Repositories /\ [s3 EXCEPT !.branch = s5[d].rev].height = s3.height
  BY <1>t DEF Vendor!Repositories, Vendor!Works
<1>3. Vendor!Opened \in Vendor!Pulls
  BY <1>t DEF Vendor!Opened, Vendor!Pulls, Vendor!Repositories
<1>4. [s3 EXCEPT !.pulls = @ \cup {Vendor!Opened}] \in Vendor!Repositories
      /\ [s3 EXCEPT !.pulls = @ \cup {Vendor!Opened}].height = s3.height
  BY <1>3, <1>t DEF Vendor!Repositories
<1>5. s3' \in Vendor!Repositories /\ s3'.height = s3.height
  BY <1>1, <1>2, <1>4, <1>t
<1>6. s4'[d] = "refused" /\ s5'[d] = s5[d] => Vendor!ChecksOK(d)' /\ Vendor!CommitOK(d)'
  BY <1>1, <1>5, <1>i DEF Vendor!ChecksOK, Vendor!CommitOK, Vendor!Past
<1>7. s4'[d] = "refused" /\ s5'[d] = s5[d] => Vendor!LateOK(d)'
  BY <1>1, <1>i DEF Vendor!LateOK, Vendor!SourceLost, Vendor!QualifiedRun
<1>8. "refused" \in Vendor!Positions
  BY DEF Vendor!Positions
<1> QED BY <1>1, <1>5, <1>6, <1>7, <1>8, <1>t, VendorMoves

\* The source repository and its run change, and nothing of them comes back.
LEMMA VendorSourceKeeps ==
  ASSUME Vendor!Inv, Vendor!JobsEnd \/ Vendor!SourceEvent
  PROVE  Vendor!Inv'
<1>t. s2 \in Vendor!Sources /\ s3 \in Vendor!Repositories
  BY DEF Vendor!Inv, Vendor!TypesOK
<1>0. s1' = s1 /\ s3' = s3 /\ s4' = s4 /\ s5' = s5
  BY DEF Vendor!JobsEnd, Vendor!SourceEvent
<1>n. s3.height <= s3'.height
  BY <1>t, <1>0 DEF Vendor!Repositories
<1>1. CASE Vendor!JobsEnd
  <2>1. PICK how \in {"passed", "failed"} :
          s2' = [s2 EXCEPT !.jobs = how, !.run = IF how = "failed" THEN "failed" ELSE @]
    BY <1>1 DEF Vendor!JobsEnd
  <2>2. s2.jobs = "running"
    BY <1>1 DEF Vendor!JobsEnd
  <2>3. s2' \in Vendor!Sources /\ s2'.tree = s2.tree /\ s2'.workflow = s2.workflow /\ s2'.attempt = s2.attempt
        /\ (s2'.run = s2.run \/ s2'.run = "failed")
    BY <2>1, <1>t DEF Vendor!Sources
  <2> QED BY <2>2, <2>3, <1>0, <1>n, <1>t, VendorOutside DEF Vendor!QualifiedRun
<1>2. CASE Vendor!SourceEvent
  <2>1. s2' \in {[s2 EXCEPT !.tree = "moved"], [s2 EXCEPT !.workflow = "replaced"], [s2 EXCEPT !.attempt = 2, !.run = "active"]}
        \/ (s2.run = "active" /\ s2.attempt = 1 /\ \E r \in {"success", "failed"} : s2' = [s2 EXCEPT !.run = r])
    BY <1>2 DEF Vendor!SourceEvent
  <2>2. s2' \in Vendor!Sources /\ s2'.jobs = s2.jobs
    BY <2>1, <1>t DEF Vendor!Sources
  <2>3. (s2.tree # "built" => s2'.tree # "built") /\ (s2.workflow # "same" => s2'.workflow # "same")
    BY <2>1, <1>t DEF Vendor!Sources
  <2>4. ~Vendor!QualifiedRun => ~Vendor!QualifiedRun'
    <3>1. CASE s2' = [s2 EXCEPT !.tree = "moved"] \/ s2' = [s2 EXCEPT !.workflow = "replaced"]
      <4>1. s2'.attempt = s2.attempt /\ s2'.run = s2.run
        BY <3>1, <1>t DEF Vendor!Sources
      <4> QED BY <4>1 DEF Vendor!QualifiedRun
    <3>2. CASE s2' = [s2 EXCEPT !.attempt = 2, !.run = "active"]
      <4>1. s2'.attempt = 2
        BY <3>2, <1>t DEF Vendor!Sources
      <4> QED BY <4>1 DEF Vendor!QualifiedRun
    <3>3. CASE s2.run = "active" /\ s2.attempt = 1
      BY <3>3 DEF Vendor!QualifiedRun
    <3> QED BY <2>1, <3>1, <3>2, <3>3
  <2> QED BY <2>2, <2>3, <2>4, <1>0, <1>n, <1>t, VendorOutside
<1> QED BY <1>1, <1>2

\* The target repository changes; its main never loses a commit.
LEMMA VendorTargetKeeps ==
  ASSUME Vendor!Inv, Vendor!MainAdvances \/ Vendor!BranchEvent
  PROVE  Vendor!Inv'
<1>t. s2 \in Vendor!Sources /\ s3 \in Vendor!Repositories
  BY DEF Vendor!Inv, Vendor!TypesOK
<1>n. s3.height \in Nat /\ s3.main \in Vendor!Trees /\ s3.branch \in Vendor!Commits /\ s3.pulls \in SUBSET Vendor!Pulls
  BY <1>t DEF Vendor!Repositories
<1>0. s1' = s1 /\ s2' = s2 /\ s4' = s4 /\ s5' = s5
  BY DEF Vendor!MainAdvances, Vendor!BranchEvent
<1>c. Vendor!Foreign \in Vendor!Commits
  BY DEF Vendor!Foreign, Vendor!Commits
<1>h. \A p \in Vendor!Pulls : [p EXCEPT !.open = FALSE] \in Vendor!Pulls /\ [p EXCEPT !.head = Vendor!Foreign] \in Vendor!Pulls
                              /\ p.head.files \in Vendor!Trees
  <2>1. Vendor!Fresh \in Vendor!Trees
    BY DEF Vendor!Fresh, Vendor!Trees
  <2>2. \A p \in Vendor!Pulls : p.head.files \in Vendor!Trees
    BY <2>1 DEF Vendor!Pulls, Vendor!Commits
  <2>3. \A p \in Vendor!Pulls : [p EXCEPT !.open = FALSE] \in Vendor!Pulls /\ [p EXCEPT !.head = Vendor!Foreign] \in Vendor!Pulls
    BY <1>c DEF Vendor!Pulls
  <2> QED BY <2>2, <2>3
<1>r. ASSUME NEW h \in Nat, NEW m \in Vendor!Trees, NEW b \in Vendor!Commits, NEW q \in SUBSET Vendor!Pulls, h >= s3.height,
             s3' = [height |-> h, main |-> m, branch |-> b, pulls |-> q]
      PROVE  s3' \in Vendor!Repositories /\ s3.height <= s3'.height
  BY <1>r, <1>n DEF Vendor!Repositories
<1>e. s3 = [height |-> s3.height, main |-> s3.main, branch |-> s3.branch, pulls |-> s3.pulls]
  BY <1>t DEF Vendor!Repositories
<1>1. ASSUME Vendor!MainAdvances PROVE s3' \in Vendor!Repositories /\ s3.height <= s3'.height
  <2>1. CASE \E v \in {s3.main, [pkg |-> "b", manifest |-> "older"], [pkg |-> "a", manifest |-> "broken"],
                       [pkg |-> "link", manifest |-> Vendor!None]} : s3' = [s3 EXCEPT !.height = @ + 1, !.main = v]
    <3>1. PICK v \in Vendor!Trees : s3' = [s3 EXCEPT !.height = @ + 1, !.main = v]
      BY <2>1, <1>n DEF Vendor!Trees
    <3>2. s3' = [height |-> s3.height + 1, main |-> v, branch |-> s3.branch, pulls |-> s3.pulls]
      BY <3>1, <1>e
    <3> QED BY <3>2, <1>n, <1>r
  <2>2. CASE \E p \in s3.pulls : s3' = [s3 EXCEPT !.height = @ + 1, !.main = p.head.files, !.branch = Vendor!NoCommit,
                                                  !.pulls = (@ \ {p}) \cup {[p EXCEPT !.open = FALSE]}]
    <3>1. PICK p \in s3.pulls : s3' = [s3 EXCEPT !.height = @ + 1, !.main = p.head.files, !.branch = Vendor!NoCommit,
                                                 !.pulls = (@ \ {p}) \cup {[p EXCEPT !.open = FALSE]}]
      BY <2>2
    <3>2. p \in Vendor!Pulls /\ [p EXCEPT !.open = FALSE] \in Vendor!Pulls /\ p.head.files \in Vendor!Trees
      BY <1>h, <1>n
    <3>3. (s3.pulls \ {p}) \cup {[p EXCEPT !.open = FALSE]} \in SUBSET Vendor!Pulls
      BY <3>2, <1>n
    <3>4. s3' = [height |-> s3.height + 1, main |-> p.head.files, branch |-> Vendor!NoCommit,
                 pulls |-> (s3.pulls \ {p}) \cup {[p EXCEPT !.open = FALSE]}]
      BY <3>1, <1>e
    <3>5. s3.height + 1 \in Nat /\ s3.height + 1 >= s3.height
      BY <1>n
    <3> QED BY <3>2, <3>3, <3>4, <3>5, <1>r, VendorNoWork
  <2> QED BY <1>1, <2>1, <2>2 DEF Vendor!MainAdvances
<1>2. ASSUME Vendor!BranchEvent PROVE s3' \in Vendor!Repositories /\ s3.height <= s3'.height
  <2> DEFINE moved == {IF p.open THEN [p EXCEPT !.head = Vendor!Foreign] ELSE p : p \in s3.pulls}
             closed == {[p EXCEPT !.open = FALSE] : p \in s3.pulls}
  <2>1. moved \in SUBSET Vendor!Pulls /\ closed \in SUBSET Vendor!Pulls
    BY <1>h, <1>n
  <2>2. \/ s3' = [s3 EXCEPT !.branch = Vendor!Foreign, !.pulls = moved]
        \/ s3' = [s3 EXCEPT !.branch = Vendor!NoCommit, !.pulls = closed]
        \/ s3' = [s3 EXCEPT !.pulls = closed]
        \/ \E h \in 0..s3.height : s3' = [s3 EXCEPT !.branch = Vendor!AtMain(h)]
    BY <1>2 DEF Vendor!BranchEvent
  <2> HIDE DEF moved, closed
  <2>3. PICK b \in Vendor!Commits, q \in SUBSET Vendor!Pulls :
          s3' = [height |-> s3.height, main |-> s3.main, branch |-> b, pulls |-> q]
    <3>1. CASE s3' = [s3 EXCEPT !.branch = Vendor!Foreign, !.pulls = moved]
      <4>1. s3' = [height |-> s3.height, main |-> s3.main, branch |-> Vendor!Foreign, pulls |-> moved]
        BY <3>1, <1>e
      <4> QED BY <4>1, <2>1, <1>c
    <3>2. CASE s3' = [s3 EXCEPT !.branch = Vendor!NoCommit, !.pulls = closed]
      <4>1. s3' = [height |-> s3.height, main |-> s3.main, branch |-> Vendor!NoCommit, pulls |-> closed]
        BY <3>2, <1>e
      <4> QED BY <4>1, <2>1, VendorNoWork
    <3>3. CASE s3' = [s3 EXCEPT !.pulls = closed]
      <4>1. s3' = [height |-> s3.height, main |-> s3.main, branch |-> s3.branch, pulls |-> closed]
        BY <3>3, <1>e
      <4> QED BY <4>1, <2>1, <1>n
    <3>4. CASE \E h \in 0..s3.height : s3' = [s3 EXCEPT !.branch = Vendor!AtMain(h)]
      <4>1. PICK h \in 0..s3.height : s3' = [s3 EXCEPT !.branch = Vendor!AtMain(h)]
        BY <3>4
      <4>2. Vendor!AtMain(h) \in Vendor!Commits
        BY <1>n DEF Vendor!AtMain, Vendor!Commits
      <4>3. s3' = [height |-> s3.height, main |-> s3.main, branch |-> Vendor!AtMain(h), pulls |-> s3.pulls]
        BY <4>1, <1>e
      <4> QED BY <4>2, <4>3, <1>n
    <3> QED BY <2>2, <3>1, <3>2, <3>3, <3>4
  <2>4. s3.height >= s3.height
    BY <1>n
  <2> QED BY <2>3, <2>4, <1>n, <1>r
<1>3. s3' \in Vendor!Repositories /\ s3.height <= s3'.height
  BY <1>1, <1>2
<1>4. ~Vendor!QualifiedRun => ~Vendor!QualifiedRun'
  BY <1>0 DEF Vendor!QualifiedRun
<1> QED BY <1>0, <1>3, <1>4, <1>t, VendorOutside

\* Every behaviour of the vendor updates keeps their invariant.
LEMMA VendorKeeps ==
  ASSUME part = "vendor" => Vendor!Inv, [Next]_vars
  PROVE  (part = "vendor" => Vendor!Inv)'
<1>1. CASE VendorStep
  <2>1. CASE \E d \in Deliveries : Vendor!Step(d)
    BY <2>1, <1>1, VendorStepKeeps DEF VendorStep
  <2>2. CASE \E d \in Deliveries : Vendor!Interrupt(d)
    BY <2>2, <1>1, VendorInterruptKeeps DEF VendorStep
  <2>3. CASE Vendor!JobsEnd \/ Vendor!SourceEvent
    BY <2>3, <1>1, VendorSourceKeeps DEF VendorStep
  <2>4. CASE Vendor!MainAdvances \/ Vendor!BranchEvent
    BY <2>4, <1>1, VendorTargetKeeps DEF VendorStep
  <2> QED BY <1>1, <2>1, <2>2, <2>3, <2>4 DEF VendorStep, Vendor!Next
<1>2. CASE ~VendorStep /\ Next
  BY <1>2 DEF Next, FilesStep, TomlStep, VersionStep, ReceiptsStep, PromotionStep
<1>3. CASE UNCHANGED vars
  <2>1. part' = part /\ s1' = s1 /\ s2' = s2 /\ s3' = s3 /\ s4' = s4 /\ s5' = s5
    BY <1>3 DEF vars
  <2>2. CASE part = "vendor"
    <3>1. s2 \in Vendor!Sources /\ s3 \in Vendor!Repositories
      BY <2>2 DEF Vendor!Inv, Vendor!TypesOK
    <3>2. s3.height <= s3'.height
      BY <2>1, <3>1 DEF Vendor!Repositories
    <3> QED BY <2>1, <2>2, <3>1, <3>2, VendorOutside DEF Vendor!QualifiedRun
  <2> QED BY <2>1, <2>2
<1> QED BY <1>1, <1>2, <1>3

\* What a delivery of vendor_update.py knows of its bundle, its source and its
\* commit at each position, in every behaviour.
THEOREM VendorInvHolds == Spec => [](part = "vendor" => Vendor!Inv)
<1>1. Init => (part = "vendor" => Vendor!Inv)
  BY VendorInit DEF Init
<1>2. (part = "vendor" => Vendor!Inv) /\ [Next]_vars => (part = "vendor" => Vendor!Inv)'
  BY VendorKeeps
<1> QED BY <1>1, <1>2, PTL DEF Spec

\* What a delivery of vendor_update.py reports as its commit is the verified
\* bundle above a commit of main, and the source had not moved on before the
\* second round of checks ended.
THEOREM DeliveriesAreQualified == Spec => []DeliveredIsQualified
<1>1. ASSUME Vendor!Inv PROVE Vendor!DeliveredIsQualified
  <2> SUFFICES ASSUME NEW d \in Deliveries, s4[d] \in {"readback", "pulls", "open", "done"}
               PROVE  /\ Vendor!BundleHolds(s1) /\ s1.manifest.receipt = "src" /\ s2.jobs = "passed"
                      /\ s5[d].rev.files = Vendor!Fresh /\ s5[d].rev.owned /\ s5[d].rev.base <= s3.height
                      /\ ~s5[d].late
    BY DEF Vendor!DeliveredIsQualified
  <2>1. Vendor!ChecksOK(d) /\ Vendor!CommitOK(d) /\ Vendor!LateOK(d)
    BY <1>1 DEF Vendor!Inv
  <2>2. s3.height \in Nat /\ s5[d].base \in Nat /\ s5[d].rev.base \in Nat /\ s5[d].rev.files = Vendor!Fresh
    BY <1>1 DEF Vendor!Inv, Vendor!TypesOK, Vendor!Repositories, Vendor!Works, Vendor!Commits
  <2>3. s5[d].round = 2 /\ ~s5[d].late
    BY <2>1 DEF Vendor!ChecksOK, Vendor!LateOK
  <2>4. Vendor!BundleHolds(s1) /\ s1.manifest.receipt = "src" /\ s2.jobs = "passed"
    BY <2>1, <2>3 DEF Vendor!ChecksOK, Vendor!Past
  <2>5. s5[d].rev.owned /\ s5[d].rev.base <= s3.height
    BY <2>1, <2>2, <2>3 DEF Vendor!CommitOK
  <2> QED BY <2>2, <2>3, <2>4, <2>5
<1>2. (part = "vendor" => Vendor!Inv) => DeliveredIsQualified
  BY <1>1 DEF DeliveredIsQualified
<1> QED BY <1>2, VendorInvHolds, PTL

\* A delivery's push creates the branch or moves it forward from a commit of
\* main, and no other step of it touches the branch.
LEMMA VendorBranchKept ==
  ASSUME Vendor!Inv
  PROVE  Vendor!KeepsBranch
<1> SUFFICES ASSUME NEW d \in Deliveries, Vendor!Step(d), s3.branch \notin {Vendor!NoCommit, s3'.branch}
             PROVE  s3'.branch # Vendor!NoCommit /\ s3.branch \in Vendor!Ancestors(s3'.branch)
  BY DEF Vendor!KeepsBranch
<1>t. s3 \in Vendor!Repositories /\ Vendor!ChecksOK(d) /\ Vendor!CommitOK(d)
  BY DEF Vendor!Inv, Vendor!TypesOK
<1>1. \/ s3' = s3 \/ s3' = [s3 EXCEPT !.pulls = @ \cup {Vendor!Opened}]
      \/ s4[d] = "push" /\ Vendor!Pushable(d) /\ s3' = [s3 EXCEPT !.branch = s5[d].rev]
  BY DEF Vendor!Step, Vendor!Begin, Vendor!ReadRun, Vendor!ReadJobs, Vendor!ReadBundle, Vendor!VerifySource, Vendor!ReadTarget,
         Vendor!ReadRef, Vendor!ConfirmBase, Vendor!Push, Vendor!Readback, Vendor!ReadPulls, Vendor!OpenPull, Vendor!Local
<1>2. s4[d] = "push" /\ Vendor!Pushable(d) /\ s3'.branch = s5[d].rev
  BY <1>1, <1>t DEF Vendor!Repositories
<1>3. s5[d].rev # Vendor!NoCommit
  BY <1>2, <1>t DEF Vendor!ChecksOK, Vendor!CommitOK, Vendor!NoCommit
<1> QED BY <1>2, <1>3 DEF Vendor!Pushable

-----------------------------------------------------------------------------
(* Build receipts                                                          *)

LEMMA ReceiptsInit ==
  ASSUME Receipts!Init
  PROVE  Receipts!Inv
<1>1. \A t \in Targets : s5[t] = Receipts!NotStaged
  BY DEF Receipts!Init
<1>2. \A t \in Targets : DOMAIN s5[t] = {"files", "receipt", "there"} /\ s5[t].files = {} /\ s5[t].receipt = Receipts!NoReceipt
  BY <1>1 DEF Receipts!NotStaged
<1>3. s2 \in [Targets -> Receipts!Positions] /\ s3 \in [Targets -> {"synced", "edited"}] /\ s4 \in [Targets -> SUBSET Receipts!Files]
  BY DEF Receipts!Init, Receipts!Positions
<1>4. Receipts!TypesOK
  BY <1>2, <1>3 DEF Receipts!Init, Receipts!TypesOK
<1> QED BY <1>2, <1>4 DEF Receipts!Init, Receipts!Inv, Receipts!TrueReceipt, Receipts!AcceptedIsAttested, Receipts!PairsTogether

\* A receipt stays true while files are attested and attempts begin.
LEMMA ReceiptsStayTrue ==
  ASSUME s1 \in Nat, s1' \in Nat, s1 <= s1', s9 \subseteq s9'
  PROVE  /\ \A f : f \in Receipts!Files => f \in Receipts!Files'
         /\ \A r, t : Receipts!TrueReceipt(r, t) => Receipts!TrueReceipt(r, t)'
<1>1. 0 .. s1 \subseteq 0 .. s1'
  OBVIOUS
<1>2. \A f : f \in Receipts!Files => f \in Receipts!Files'
  BY <1>1 DEF Receipts!Files
<1>3. ASSUME NEW r, NEW t, Receipts!TrueReceipt(r, t) PROVE Receipts!TrueReceipt(r, t)'
  <2>1. CASE r = Receipts!NoReceipt
    BY <2>1 DEF Receipts!TrueReceipt, Receipts!NoReceipt
  <2>2. CASE r # Receipts!NoReceipt
    <3>1. r \in [target : {t}, attempt : Nat, artifacts : SUBSET Receipts!Files]
          /\ \A f \in r.artifacts : [file |-> f, target |-> t, attempt |-> r.attempt] \in s9
      BY <1>3, <2>2 DEF Receipts!TrueReceipt, Receipts!ReceiptsOf
    <3>2. r \in [target : {t}, attempt : Nat, artifacts : SUBSET Receipts!Files']
      <4> DEFINE F == Receipts!Files G == Receipts!Files'
      <4>1. F \subseteq G
        BY <1>2
      <4>2. r \in [target : {t}, attempt : Nat, artifacts : SUBSET F]
        BY <3>1
      <4> HIDE DEF F, G
      <4>3. r \in [target : {t}, attempt : Nat, artifacts : SUBSET G]
        BY <4>1, <4>2
      <4> QED BY <4>3 DEF G
    <3> QED BY <3>1, <3>2 DEF Receipts!TrueReceipt, Receipts!ReceiptsOf
  <2> QED BY <2>1, <2>2
<1> QED BY <1>2, <1>3

\* What a job does within the attempt keeps the invariant, if what it stages
\* holds files and a true receipt.
LEMMA ReceiptsJob ==
  ASSUME Receipts!Inv, s1' = s1, s6' = s6, s7' = s7, s8' = s8, s9 \subseteq s9',
         s2' \in [Targets -> Receipts!Positions], s3' \in [Targets -> {"synced", "edited"}], s4' \in [Targets -> SUBSET Receipts!Files],
         DOMAIN s5' = Targets, NEW t \in Targets, \A o \in Targets \ {t} : s5'[o] = s5[o],
         DOMAIN s5'[t] = {"files", "receipt", "there"}, s5'[t].files \subseteq Receipts!Files,
         s5'[t].receipt = Receipts!NoReceipt \/
           /\ s5'[t].receipt \in Receipts!ReceiptsOf(t)
           /\ \A f \in s5'[t].receipt.artifacts : [file |-> f, target |-> t, attempt |-> s5'[t].receipt.attempt] \in s9'
  PROVE  Receipts!Inv'
<1>0. s1 \in Nat /\ s1' \in Nat /\ s1 <= s1'
  BY DEF Receipts!Inv, Receipts!TypesOK
<1>1. \A r, x : Receipts!TrueReceipt(r, x) => Receipts!TrueReceipt(r, x)'
  BY <1>0, ReceiptsStayTrue
<1>2. Receipts!Files' = Receipts!Files
  BY DEF Receipts!Files
<1>3. Receipts!TypesOK'
  <2>1. \A o \in Targets : DOMAIN s5'[o] = {"files", "receipt", "there"} /\ s5'[o].files \subseteq Receipts!Files
    BY DEF Receipts!Inv, Receipts!TypesOK
  <2> HIDE DEF Receipts!Files
  <2> QED BY <1>2, <2>1 DEF Receipts!Inv, Receipts!TypesOK
<1>4. ASSUME NEW o \in Targets PROVE Receipts!TrueReceipt(s5[o].receipt, o)'
  <2>1. CASE o = t
    BY <2>1, <1>2 DEF Receipts!TrueReceipt, Receipts!ReceiptsOf, Receipts!NoReceipt
  <2>2. CASE o # t
    <3>1. PICK r : r = s5[o].receipt
      OBVIOUS
    <3>2. Receipts!TrueReceipt(r, o)' /\ s5'[o].receipt = r
      BY <2>2, <3>1, <1>1 DEF Receipts!Inv
    <3> QED BY <3>2 DEF Receipts!TrueReceipt
  <2> QED BY <2>1, <2>2
<1>5. ASSUME NEW u \in s6 PROVE Receipts!TrueReceipt(u.receipt, u.target)'
  BY <1>1 DEF Receipts!Inv
<1>6. Receipts!AcceptedIsAttested' /\ Receipts!PairsTogether'
  <2>1. Receipts!AcceptedIsAttested /\ Receipts!PairsTogether
    BY DEF Receipts!Inv
  <2> QED BY <2>1 DEF Receipts!AcceptedIsAttested, Receipts!PairsTogether, Receipts!File
<1> QED BY <1>3, <1>4, <1>5, <1>6 DEF Receipts!Inv

\* Each step of a job other than the upload, and each fault in it.
LEMMA ReceiptsJobKeeps ==
  ASSUME Receipts!Inv, NEW t \in Targets,
         \/ Receipts!Build(t) \/ Receipts!EditInputs(t) \/ Receipts!LeaveImage(t) \/ Receipts!Detach(t) \/ Receipts!LinkImage(t)
         \/ Receipts!LinkSidecar(t) \/ Receipts!Stage(t) \/ Receipts!CreateReceipt(t) \/ Receipts!TouchStaged(t)
         \/ Receipts!Kill(t) \/ Receipts!Retry(t)
  PROVE  Receipts!Inv'
<1>t. /\ s1 \in Nat /\ s2 \in [Targets -> Receipts!Positions] /\ s3 \in [Targets -> {"synced", "edited"}]
      /\ s4 \in [Targets -> SUBSET Receipts!Files] /\ DOMAIN s5 = Targets
      /\ DOMAIN s5[t] = {"files", "receipt", "there"} /\ s5[t].files \subseteq Receipts!Files
      /\ \A u \in s6 : u.files \subseteq Receipts!Files
  BY DEF Receipts!Inv, Receipts!TypesOK
<1>u. s1' = s1 /\ s6' = s6 /\ s7' = s7 /\ s8' = s8
  BY DEF Receipts!Build, Receipts!EditInputs, Receipts!LeaveImage, Receipts!Detach, Receipts!LinkImage, Receipts!LinkSidecar, Receipts!Stage,
         Receipts!CreateReceipt, Receipts!TouchStaged, Receipts!Kill, Receipts!Retry, Receipts!Elsewhere
<1>r. Receipts!TrueReceipt(s5[t].receipt, t)
  BY DEF Receipts!Inv
<1>g. s2' = s2 \/ \E w \in Receipts!Positions : s2' = [s2 EXCEPT ![t] = w]
  <2>1. CASE Receipts!Build(t) \/ Receipts!EditInputs(t) \/ Receipts!LeaveImage(t) \/ Receipts!Detach(t)
    BY <2>1 DEF Receipts!Build, Receipts!EditInputs, Receipts!LeaveImage, Receipts!Detach, Receipts!Go, Receipts!Positions
  <2>2. CASE Receipts!LinkImage(t) \/ Receipts!LinkSidecar(t) \/ Receipts!Stage(t)
    BY <2>2 DEF Receipts!LinkImage, Receipts!LinkSidecar, Receipts!Stage, Receipts!Go, Receipts!Positions
  <2>3. CASE Receipts!CreateReceipt(t) \/ Receipts!TouchStaged(t) \/ Receipts!Kill(t) \/ Receipts!Retry(t)
    BY <2>3 DEF Receipts!CreateReceipt, Receipts!TouchStaged, Receipts!Kill, Receipts!Retry, Receipts!Go, Receipts!Positions
  <2> QED BY <2>1, <2>2, <2>3
<1>p. s2' \in [Targets -> Receipts!Positions]
  BY <1>g, <1>t
<1>z. 0 \in 0 .. s1 /\ s1 \in 0 .. s1
  BY <1>t
<1>f. ASSUME NEW name \in Targets \cup {"image", "sidecar", "extra"}
      PROVE  Receipts!File(name, s1) \in Receipts!Files /\ Receipts!File(name, 0) \in Receipts!Files
  BY <1>z DEF Receipts!File, Receipts!Files
<1>s. s5' = s5 =>
        /\ DOMAIN s5' = Targets /\ \A o \in Targets \ {t} : s5'[o] = s5[o]
        /\ DOMAIN s5'[t] = {"files", "receipt", "there"} /\ s5'[t].files \subseteq Receipts!Files
        /\ s5'[t].receipt = Receipts!NoReceipt \/
             /\ s5'[t].receipt \in Receipts!ReceiptsOf(t)
             /\ \A f \in s5'[t].receipt.artifacts : [file |-> f, target |-> t, attempt |-> s5'[t].receipt.attempt] \in s9
  BY <1>t, <1>r DEF Receipts!TrueReceipt
<1> HIDE DEF Receipts!Files
<1>1. CASE s5' = s5 /\ s9' = s9 /\ s3' \in {s3, [s3 EXCEPT ![t] = "edited"]}
        /\ (s4' = s4 \/ \E fs \in SUBSET Receipts!Files : s4' = [s4 EXCEPT ![t] = fs])
  <2>1. s3' \in [Targets -> {"synced", "edited"}] /\ s4' \in [Targets -> SUBSET Receipts!Files]
    BY <1>1, <1>t
  <2> QED BY <1>1, <1>u, <1>p, <1>s, <2>1, ReceiptsJob
<1>2. CASE Receipts!Build(t)
  <2>1. s5' = s5 /\ s9' = s9 /\ s3' = s3 /\ s4' = [s4 EXCEPT ![t] = s4[t] \cup {Receipts!File(t, s1)}]
    BY <1>2, <1>t DEF Receipts!Build
  <2>2. s4[t] \cup {Receipts!File(t, s1)} \in SUBSET Receipts!Files
    BY <1>t, <1>f
  <2> QED BY <1>1, <2>1, <2>2
<1>3. CASE Receipts!LeaveImage(t)
  <2>1. PICK name \in {"image", "sidecar"} : s4' = [s4 EXCEPT ![t] = s4[t] \cup {Receipts!File(name, 0)}]
    BY <1>3, <1>t DEF Receipts!LeaveImage
  <2>2. s4[t] \cup {Receipts!File(name, 0)} \in SUBSET Receipts!Files
    BY <1>t, <1>f
  <2>3. s5' = s5 /\ s9' = s9 /\ s3' = s3
    BY <1>3 DEF Receipts!LeaveImage
  <2> QED BY <1>1, <2>1, <2>2, <2>3
<1>4. CASE Receipts!LinkImage(t)
  <2>1. s5' = s5 /\ s9' = s9 /\ s3' = s3 /\ (s4' = s4 \/ s4' = [s4 EXCEPT ![t] = s4[t] \cup {Receipts!File("image", s1)}])
    BY <1>4, <1>t DEF Receipts!LinkImage
  <2>2. s4[t] \cup {Receipts!File("image", s1)} \in SUBSET Receipts!Files
    BY <1>t, <1>f
  <2> QED BY <1>1, <2>1, <2>2
<1>5. CASE Receipts!LinkSidecar(t)
  <2>1. s5' = s5 /\ s9' = s9 /\ s3' = s3
        /\ (s4' = [s4 EXCEPT ![t] = s4[t] \cup {Receipts!File("sidecar", s1)}] \/ s4' = [s4 EXCEPT ![t] = s4[t] \ {Receipts!File("image", s1)}])
    BY <1>5, <1>t DEF Receipts!LinkSidecar
  <2>2. s4[t] \cup {Receipts!File("sidecar", s1)} \in SUBSET Receipts!Files /\ s4[t] \ {Receipts!File("image", s1)} \in SUBSET Receipts!Files
    BY <1>t, <1>f
  <2> QED BY <1>1, <2>1, <2>2
<1>6. CASE Receipts!EditInputs(t) \/ Receipts!Detach(t) \/ Receipts!Kill(t) \/ Receipts!Retry(t)
  <2>1. s5' = s5 /\ s9' = s9 /\ s4' = s4 /\ s3' \in {s3, [s3 EXCEPT ![t] = "edited"]}
    BY <1>6 DEF Receipts!EditInputs, Receipts!Detach, Receipts!Kill, Receipts!Retry
  <2> QED BY <1>1, <2>1
<1>7. CASE Receipts!Stage(t)
  <2>1. s9' = s9 /\ s4' = s4 /\ s3' = s3
        /\ (s5' = s5 \/ s5' = [s5 EXCEPT ![t] = [files |-> s4[t], receipt |-> Receipts!NoReceipt, there |-> TRUE]])
    BY <1>7 DEF Receipts!Stage
  <2>2. CASE s5' = s5
    BY <1>1, <2>1, <2>2
  <2>3. CASE s5' = [s5 EXCEPT ![t] = [files |-> s4[t], receipt |-> Receipts!NoReceipt, there |-> TRUE]]
    <3>1. DOMAIN s5' = Targets /\ (\A o \in Targets \ {t} : s5'[o] = s5[o])
          /\ s5'[t] = [files |-> s4[t], receipt |-> Receipts!NoReceipt, there |-> TRUE]
      BY <2>3, <1>t
    <3>2. DOMAIN s5'[t] = {"files", "receipt", "there"} /\ s5'[t].files \subseteq Receipts!Files /\ s5'[t].receipt = Receipts!NoReceipt
      BY <3>1, <1>t
    <3> QED BY <2>1, <3>1, <3>2, <1>u, <1>p, <1>t, ReceiptsJob
  <2> QED BY <2>1, <2>2, <2>3
<1>8. CASE Receipts!CreateReceipt(t)
  <2>1. CASE Receipts!InputsHold(t)
    <3> DEFINE r == [target |-> t, attempt |-> s1, artifacts |-> s5[t].files]
               now == {[file |-> f, target |-> t, attempt |-> s1] : f \in s5[t].files}
    <3>1. s4' = s4 /\ s3' = s3 /\ s5' = [s5 EXCEPT ![t].receipt = r] /\ s9' = s9 \cup now
      BY <1>8, <2>1 DEF Receipts!CreateReceipt, Receipts!InputsHold
    <3>2. DOMAIN s5' = Targets /\ (\A o \in Targets \ {t} : s5'[o] = s5[o]) /\ s5'[t] = [s5[t] EXCEPT !.receipt = r]
      BY <3>1, <1>t
    <3>3. DOMAIN s5'[t] = {"files", "receipt", "there"} /\ s5'[t].files = s5[t].files /\ s5'[t].receipt = r
      BY <3>2, <1>t
    <3>4. r \in Receipts!ReceiptsOf(t)
      BY <1>t DEF Receipts!ReceiptsOf
    <3>5. \A f \in r.artifacts : [file |-> f, target |-> t, attempt |-> r.attempt] \in s9'
      BY <3>1
    <3>6. s9 \subseteq s9'
      BY <3>1
    <3> HIDE DEF r, now
    <3> QED BY <3>1, <3>2, <3>3, <3>4, <3>5, <3>6, <1>u, <1>p, <1>t, ReceiptsJob
  <2>2. CASE ~Receipts!InputsHold(t)
    <3>1. s4' = s4 /\ s3' = s3 /\ s9' = s9 /\ s5' = [s5 EXCEPT ![t] = Receipts!NotStaged]
      BY <1>8, <2>2 DEF Receipts!CreateReceipt
    <3>2. DOMAIN s5' = Targets /\ (\A o \in Targets \ {t} : s5'[o] = s5[o]) /\ s5'[t] = Receipts!NotStaged
      BY <3>1, <1>t
    <3>3. DOMAIN s5'[t] = {"files", "receipt", "there"} /\ s5'[t].files \subseteq Receipts!Files /\ s5'[t].receipt = Receipts!NoReceipt
      BY <3>2 DEF Receipts!NotStaged
    <3> QED BY <3>1, <3>2, <3>3, <1>u, <1>p, <1>t, ReceiptsJob
  <2> QED BY <2>1, <2>2
<1>9. CASE Receipts!TouchStaged(t)
  <2>0. s4' = s4 /\ s3' = s3 /\ s9' = s9
    BY <1>9 DEF Receipts!TouchStaged
  <2>1. CASE \E fs \in SUBSET Receipts!Files : s5' = [s5 EXCEPT ![t].files = fs]
    <3>1. PICK fs \in SUBSET Receipts!Files : s5' = [s5 EXCEPT ![t].files = fs]
      BY <2>1
    <3>2. DOMAIN s5' = Targets /\ (\A o \in Targets \ {t} : s5'[o] = s5[o]) /\ s5'[t] = [s5[t] EXCEPT !.files = fs]
      BY <3>1, <1>t
    <3>3. DOMAIN s5'[t] = {"files", "receipt", "there"} /\ s5'[t].files = fs /\ s5'[t].receipt = s5[t].receipt
      BY <3>2, <1>t
    <3>4. s5'[t].receipt = Receipts!NoReceipt \/
             /\ s5'[t].receipt \in Receipts!ReceiptsOf(t)
             /\ \A f \in s5'[t].receipt.artifacts : [file |-> f, target |-> t, attempt |-> s5'[t].receipt.attempt] \in s9'
      BY <3>3, <2>0, <1>r DEF Receipts!TrueReceipt
    <3> QED BY <2>0, <3>2, <3>3, <3>4, <1>u, <1>p, <1>t, ReceiptsJob
  <2>2. CASE \E f \in s5[t].files : s5' = [s5 EXCEPT ![t].files = (@ \ {f}) \cup {[f EXCEPT !.build = 0]}]
    <3>1. PICK f \in s5[t].files : s5' = [s5 EXCEPT ![t].files = (s5[t].files \ {f}) \cup {[f EXCEPT !.build = 0]}]
      BY <2>2, <1>t
    <3>2. [f EXCEPT !.build = 0] \in Receipts!Files
      BY <1>t, <1>z DEF Receipts!Files
    <3>3. (s5[t].files \ {f}) \cup {[f EXCEPT !.build = 0]} \in SUBSET Receipts!Files
      BY <3>2, <1>t
    <3> QED BY <2>1, <3>1, <3>3
  <2>3. CASE s5' = [s5 EXCEPT ![t].files = @ \cup {Receipts!File("extra", 0)}]
    <3>1. s5' = [s5 EXCEPT ![t].files = s5[t].files \cup {Receipts!File("extra", 0)}]
      BY <2>3, <1>t
    <3>2. s5[t].files \cup {Receipts!File("extra", 0)} \in SUBSET Receipts!Files
      BY <1>f, <1>t
    <3> QED BY <2>1, <3>1, <3>2
  <2>4. CASE \E u \in s6 : u.target = t /\ s5' = [s5 EXCEPT ![t] = [files |-> u.files, receipt |-> u.receipt, there |-> TRUE]]
    <3>1. PICK u \in s6 : u.target = t /\ s5' = [s5 EXCEPT ![t] = [files |-> u.files, receipt |-> u.receipt, there |-> TRUE]]
      BY <2>4
    <3>2. DOMAIN s5' = Targets /\ (\A o \in Targets \ {t} : s5'[o] = s5[o])
          /\ s5'[t] = [files |-> u.files, receipt |-> u.receipt, there |-> TRUE]
      BY <3>1, <1>t
    <3>3. DOMAIN s5'[t] = {"files", "receipt", "there"} /\ s5'[t].files \subseteq Receipts!Files /\ s5'[t].receipt = u.receipt
      BY <3>2, <1>t
    <3>4. Receipts!TrueReceipt(u.receipt, t)
      BY <3>1 DEF Receipts!Inv
    <3>5. s5'[t].receipt = Receipts!NoReceipt \/
             /\ s5'[t].receipt \in Receipts!ReceiptsOf(t)
             /\ \A f \in s5'[t].receipt.artifacts : [file |-> f, target |-> t, attempt |-> s5'[t].receipt.attempt] \in s9'
      BY <3>3, <3>4, <2>0 DEF Receipts!TrueReceipt
    <3> QED BY <2>0, <3>2, <3>3, <3>5, <1>u, <1>p, <1>t, ReceiptsJob
  <2> QED BY <1>9, <2>2, <2>3, <2>4 DEF Receipts!TouchStaged
<1> QED BY <1>2, <1>3, <1>4, <1>5, <1>6, <1>7, <1>8, <1>9

\* An upload carries the staged files and their receipt.
LEMMA ReceiptsUploadKeeps ==
  ASSUME Receipts!Inv, NEW t \in Targets, Receipts!Upload(t)
  PROVE  Receipts!Inv'
<1>1. PICK u : u = [target |-> t, attempt |-> s1, files |-> s5[t].files, receipt |-> s5[t].receipt]
  OBVIOUS
<1>2. s6' = s6 \cup {u} /\ s1' = s1 /\ s3' = s3 /\ s4' = s4 /\ s5' = s5 /\ s7' = s7 /\ s8' = s8 /\ s9' = s9
      /\ s2' = [s2 EXCEPT ![t] = "uploaded"]
  BY <1>1 DEF Receipts!Upload, Receipts!Go
<1>3. u.target = t /\ u.files = s5[t].files /\ u.receipt = s5[t].receipt
  BY <1>1
<1>4. Receipts!Files' = Receipts!Files /\ (\A r, x : Receipts!TrueReceipt(r, x) <=> Receipts!TrueReceipt(r, x)')
  BY <1>2 DEF Receipts!Files, Receipts!TrueReceipt, Receipts!ReceiptsOf
<1>5. Receipts!TypesOK'
  BY <1>2, <1>3, <1>4 DEF Receipts!Inv, Receipts!TypesOK, Receipts!Positions
<1>6. \A o \in Targets : Receipts!TrueReceipt(s5[o].receipt, o)'
  BY <1>2 DEF Receipts!Inv, Receipts!TrueReceipt, Receipts!ReceiptsOf, Receipts!Files
<1>7. Receipts!TrueReceipt(u.receipt, u.target)
  BY <1>3 DEF Receipts!Inv
<1>8. \A x \in s6 \cup {u} : Receipts!TrueReceipt(x.receipt, x.target)'
  BY <1>4, <1>7 DEF Receipts!Inv
<1>9. Receipts!AcceptedIsAttested' /\ Receipts!PairsTogether'
  BY <1>2 DEF Receipts!Inv, Receipts!AcceptedIsAttested, Receipts!PairsTogether, Receipts!File
<1> QED BY <1>2, <1>5, <1>6, <1>8, <1>9 DEF Receipts!Inv

\* A new attempt of the run starts jobs in new checkouts; the receipts of the
\* earlier attempts stay true, of the attempt that they name.
LEMMA ReceiptsRerunKeeps ==
  ASSUME Receipts!Inv, NEW ts \in SUBSET Targets, Receipts!Rerun(ts)
  PROVE  Receipts!Inv'
<1>1. s1 \in Nat /\ s1' \in Nat /\ s1 <= s1' /\ s9' = s9 /\ s6' = s6 /\ s8' = s8 /\ s7' = "idle"
  BY DEF Receipts!Inv, Receipts!TypesOK, Receipts!Rerun
<1>2. /\ \A f : f \in Receipts!Files => f \in Receipts!Files'
      /\ \A r, x : Receipts!TrueReceipt(r, x) => Receipts!TrueReceipt(r, x)'
  BY <1>1, ReceiptsStayTrue
<1>3. /\ s2' = [t \in Targets |-> IF t \in ts THEN "build" ELSE s2[t]]
      /\ s3' = [t \in Targets |-> IF t \in ts THEN "synced" ELSE s3[t]]
      /\ s4' = [t \in Targets |-> IF t \in ts THEN {} ELSE s4[t]]
      /\ s5' = [t \in Targets |-> IF t \in ts THEN Receipts!NotStaged ELSE s5[t]]
  BY DEF Receipts!Rerun
<1>4. s2' \in [Targets -> Receipts!Positions] /\ s3' \in [Targets -> {"synced", "edited"}]
  BY <1>3 DEF Receipts!Inv, Receipts!TypesOK, Receipts!Positions
<1>5. s4' \in [Targets -> SUBSET Receipts!Files']
  <2>1. \A t \in Targets : s4[t] \subseteq Receipts!Files
    BY DEF Receipts!Inv, Receipts!TypesOK
  <2>2. \A t \in Targets : s4'[t] \subseteq Receipts!Files'
    BY <1>2, <1>3, <2>1
  <2> QED BY <1>3, <2>2
<1>6. \A t \in Targets : DOMAIN s5'[t] = {"files", "receipt", "there"} /\ s5'[t].files \subseteq Receipts!Files'
  <2>1. \A t \in Targets : DOMAIN s5[t] = {"files", "receipt", "there"} /\ s5[t].files \subseteq Receipts!Files
    BY DEF Receipts!Inv, Receipts!TypesOK
  <2>2. DOMAIN Receipts!NotStaged = {"files", "receipt", "there"} /\ Receipts!NotStaged.files = {}
    BY DEF Receipts!NotStaged
  <2>3. \A t \in Targets : s5'[t] = Receipts!NotStaged \/ s5'[t] = s5[t]
    BY <1>3
  <2> QED BY <1>2, <2>1, <2>2, <2>3
<1>7. (\A u \in s6 : u.target \in Targets /\ u.files \subseteq Receipts!Files') /\ s8 \subseteq Receipts!Files'
  <2>1. (\A u \in s6 : u.target \in Targets /\ u.files \subseteq Receipts!Files) /\ s8 \subseteq Receipts!Files
    BY DEF Receipts!Inv, Receipts!TypesOK
  <2> QED BY <2>1, <1>2
<1>8. Receipts!TypesOK'
  BY <1>1, <1>3, <1>4, <1>5, <1>6, <1>7 DEF Receipts!TypesOK
<1>9. ASSUME NEW t \in Targets PROVE Receipts!TrueReceipt(s5[t].receipt, t)'
  <2>1. CASE t \in ts
    <3>1. s5'[t].receipt = Receipts!NoReceipt
      BY <1>3, <2>1 DEF Receipts!NotStaged
    <3> QED BY <3>1 DEF Receipts!TrueReceipt, Receipts!NoReceipt
  <2>2. CASE t \notin ts
    <3>1. PICK r : r = s5[t].receipt
      OBVIOUS
    <3>2. Receipts!TrueReceipt(r, t)' /\ s5'[t].receipt = r
      BY <2>2, <3>1, <1>2, <1>3 DEF Receipts!Inv
    <3> QED BY <3>2 DEF Receipts!TrueReceipt
  <2> QED BY <2>1, <2>2
<1>10. \A u \in s6 : Receipts!TrueReceipt(u.receipt, u.target)'
  BY <1>2 DEF Receipts!Inv
<1> QED BY <1>1, <1>8, <1>9, <1>10 DEF Receipts!Inv, Receipts!AcceptedIsAttested, Receipts!PairsTogether

\* The publisher: what it accepts is covered by receipts of this attempt, and
\* every receipt that was uploaded is true.
LEMMA ReceiptsPublishKeeps ==
  ASSUME Receipts!Inv, Receipts!Publish
  PROVE  Receipts!Inv'
<1>u. s1' = s1 /\ s2' = s2 /\ s3' = s3 /\ s4' = s4 /\ s5' = s5 /\ s6' = s6 /\ s9' = s9
  BY DEF Receipts!Publish
<1>p. Receipts!Payloads \subseteq Receipts!Files
  BY DEF Receipts!Inv, Receipts!TypesOK, Receipts!Payloads, Receipts!Collected
<1>a. s7' \in {"accepted", "refused"} /\ s8' \in {s8, Receipts!Payloads} /\ (s7' = "refused" => s8' = s8)
  BY DEF Receipts!Publish
<1>1. Receipts!TypesOK'
  BY <1>u, <1>p, <1>a DEF Receipts!Inv, Receipts!TypesOK, Receipts!Files
<1>2. (\A t \in Targets : Receipts!TrueReceipt(s5[t].receipt, t)') /\ (\A u \in s6 : Receipts!TrueReceipt(u.receipt, u.target)')
  BY <1>u DEF Receipts!Inv, Receipts!TrueReceipt, Receipts!ReceiptsOf, Receipts!Files
<1>3. CASE s7' = "refused"
  BY <1>1, <1>2, <1>3, <1>u DEF Receipts!Inv, Receipts!AcceptedIsAttested, Receipts!PairsTogether
<1>4. CASE s7' = "accepted"
  <2>1. s8' = Receipts!Payloads /\ Receipts!Covers /\ Receipts!Complete /\ \A r \in Receipts!Receipts : Receipts!SameProducer(r)
    BY <1>4 DEF Receipts!Publish
  <2>2. ASSUME NEW r \in Receipts!Receipts
        PROVE  /\ r.target \in Targets /\ r.attempt = s1
               /\ \A f \in r.artifacts : [file |-> f, target |-> r.target, attempt |-> s1] \in s9
    <3>1. PICK u \in s6 : r = u.receipt /\ r # Receipts!NoReceipt
      BY DEF Receipts!Receipts, Receipts!Collected
    <3>2. r \in Receipts!ReceiptsOf(u.target) /\ \A f \in r.artifacts : [file |-> f, target |-> u.target, attempt |-> r.attempt] \in s9
      BY <3>1 DEF Receipts!Inv, Receipts!TrueReceipt
    <3>3. r.target = u.target /\ u.target \in Targets
      BY <3>2 DEF Receipts!ReceiptsOf, Receipts!Inv, Receipts!TypesOK
    <3> QED BY <2>1, <3>2, <3>3 DEF Receipts!SameProducer
  <2>3. ASSUME NEW f \in Receipts!Payloads PROVE \E r \in Receipts!Receipts : f \in r.artifacts
    <3> DEFINE R == {r \in Receipts!Receipts : f \in r.artifacts}
    <3>1. Cardinality(R) = 1
      <4>1. Receipts!Cardinality(R) = 1
        BY <2>1 DEF Receipts!Covers
      <4> QED BY <4>1 DEF Receipts!Cardinality, Cardinality
    <3>2. R # {}
      BY <3>1, FS_EmptySet
    <3> QED BY <3>2
  <2>4. \A f \in Receipts!Payloads : \E t \in Targets : [file |-> f, target |-> t, attempt |-> s1] \in s9
    BY <2>2, <2>3
  <2>5. ASSUME NEW t \in Targets PROVE \E f \in Receipts!Payloads : [file |-> f, target |-> t, attempt |-> s1] \in s9
    <3>1. PICK r \in Receipts!Receipts : r.target = t
      BY <2>1 DEF Receipts!Complete
    <3>2. PICK f \in r.artifacts : f \in Receipts!Payloads
      BY <2>1 DEF Receipts!Covers
    <3> QED BY <3>1, <3>2, <2>2
  <2>6. Receipts!AcceptedIsAttested'
    BY <2>1, <2>4, <2>5, <1>u DEF Receipts!AcceptedIsAttested
  <2>7. PICK f \in Receipts!Payloads : f.name = "image"
    BY <2>1 DEF Receipts!Complete, Receipts!Names
  <2>8. PICK g \in Receipts!Payloads : g.name = "sidecar" /\ g.build = f.build
    <3>1. "image" \in Receipts!Names(Receipts!Payloads) \cap {"image", "sidecar"}
      BY <2>7 DEF Receipts!Names
    <3>2. {x.build : x \in Receipts!Named(Receipts!Payloads, "image")} = {x.build : x \in Receipts!Named(Receipts!Payloads, "sidecar")}
      BY <2>1, <3>1 DEF Receipts!Complete, Receipts!PairHolds
    <3>3. f.build \in {x.build : x \in Receipts!Named(Receipts!Payloads, "image")}
      BY <2>7 DEF Receipts!Named
    <3>4. f.build \in {x.build : x \in Receipts!Named(Receipts!Payloads, "sidecar")}
      BY <3>2, <3>3
    <3> QED BY <3>4 DEF Receipts!Named
  <2>9. f = Receipts!File("image", f.build) /\ g = Receipts!File("sidecar", f.build) /\ f.build \in 0 .. s1
    BY <1>p, <2>7, <2>8 DEF Receipts!Files, Receipts!File
  <2>10. Receipts!PairsTogether'
    BY <2>1, <2>7, <2>8, <2>9, <1>u DEF Receipts!PairsTogether, Receipts!File
  <2> QED BY <1>1, <1>2, <1>u, <2>6, <2>10 DEF Receipts!Inv
<1> QED BY <1>a, <1>3, <1>4

\* Every behaviour of the builds and their publisher keeps the invariant.
LEMMA ReceiptsKeeps ==
  ASSUME part = "receipts" => Receipts!Inv, [Next]_vars
  PROVE  (part = "receipts" => Receipts!Inv)'
<1>1. CASE ReceiptsStep
  <2>0. Receipts!Inv /\ Receipts!Next
    BY <1>1 DEF ReceiptsStep
  <2>1. CASE \E t \in Targets : Receipts!Upload(t)
    BY <2>0, <2>1, ReceiptsUploadKeeps
  <2>2. CASE \E ts \in SUBSET Targets : Receipts!Rerun(ts)
    BY <2>0, <2>2, ReceiptsRerunKeeps
  <2>3. CASE Receipts!Publish
    BY <2>0, <2>3, ReceiptsPublishKeeps
  <2> QED BY <2>0, <2>1, <2>2, <2>3, ReceiptsJobKeeps DEF Receipts!Next
<1>2. CASE ~ReceiptsStep /\ Next
  BY <1>2 DEF Next, FilesStep, TomlStep, VersionStep, VendorStep, PromotionStep
<1>3. CASE UNCHANGED vars
  <2>1. part' = part /\ s1' = s1 /\ s2' = s2 /\ s3' = s3 /\ s4' = s4 /\ s5' = s5 /\ s6' = s6 /\ s7' = s7 /\ s8' = s8 /\ s9' = s9
    BY <1>3 DEF vars
  <2> QED BY <2>1 DEF Receipts!Inv, Receipts!TypesOK, Receipts!TrueReceipt, Receipts!ReceiptsOf, Receipts!Files, Receipts!AcceptedIsAttested,
                      Receipts!PairsTogether, Receipts!File
<1> QED BY <1>1, <1>2, <1>3

\* What version_receipt.py and stage_release_assets.py leave true of staged
\* files, uploads and accepted files, in every behaviour.
THEOREM ReceiptsInvHolds == Spec => [](part = "receipts" => Receipts!Inv)
<1>1. Init => (part = "receipts" => Receipts!Inv)
  BY ReceiptsInit DEF Init
<1>2. (part = "receipts" => Receipts!Inv) /\ [Next]_vars => (part = "receipts" => Receipts!Inv)'
  BY ReceiptsKeeps
<1> QED BY <1>1, <1>2, PTL DEF Spec

\* The publisher accepts a file only as its target attested it in this
\* attempt, with every other target's, and an image only with the provenance
\* of the same build.
THEOREM AcceptedAreAttested == Spec => []AcceptedIsAttested
<1>1. (part = "receipts" => Receipts!Inv) => AcceptedIsAttested
  BY DEF AcceptedIsAttested, Receipts!Inv
<1> QED BY <1>1, ReceiptsInvHolds, PTL

-----------------------------------------------------------------------------
(* Version pull requests: the choice of a version                          *)

\* Every nonempty set of natural numbers has a least element.
LEMMA LeastNumber ==
  ASSUME NEW T \in SUBSET Nat, T # {}
  PROVE  \E n \in T : \A m \in T : n <= m
<1> DEFINE R == {ss \in Nat \X Nat : ss[1] < ss[2]}
<1>1. IsWellFoundedOn(R, Nat)
  BY NatLessThanWellFounded DEF OpToRel
<1> HIDE DEF R
<1>2. PICK n \in T : \A m \in T : <<m, n>> \notin R
  BY <1>1, WFMin
<1>3. \A m \in T : <<m, n>> \in R <=> m < n
  BY DEF R
<1>4. ASSUME NEW m \in T PROVE n <= m
  <2>1. n \in Nat /\ m \in Nat /\ ~(m < n)
    BY <1>2, <1>3
  <2> QED BY <2>1
<1> QED BY <1>4

\* The components of a version are numbers.
LEMMA VersionParts ==
  ASSUME NEW v \in Version!Versions
  PROVE  /\ v[1] \in 0 .. Limit /\ v[2] \in 0 .. Limit /\ v[3] \in 0 .. Limit
         /\ v[1] \in Nat /\ v[2] \in Nat /\ v[3] \in Nat /\ v = <<v[1], v[2], v[3]>>
         /\ Limit \in Nat
BY VersionAssumption DEF Version!Versions, Version!LimitAssumption

\* Less compares number by number: it is transitive, and total in the sense of its negation.
LEMMA LessTransitive ==
  ASSUME NEW a, NEW b, NEW c, \A i \in {1, 2, 3} : a[i] \in Nat /\ b[i] \in Nat /\ c[i] \in Nat
  PROVE  /\ ~Version!Less(b, a) /\ Version!Less(b, c) => Version!Less(a, c)
         /\ Version!Less(a, b) /\ ~Version!Less(c, b) => Version!Less(a, c)
         /\ ~Version!Less(b, a) /\ ~Version!Less(c, b) => ~Version!Less(c, a)
<1>1. a[1] \in Nat /\ b[1] \in Nat /\ c[1] \in Nat /\ a[2] \in Nat /\ b[2] \in Nat /\ c[2] \in Nat
      /\ a[3] \in Nat /\ b[3] \in Nat /\ c[3] \in Nat
  OBVIOUS
<1> QED BY <1>1 DEF Version!Less

\* A nonempty set of versions has a newest one.
LEMMA NewestExists ==
  ASSUME NEW vs \in SUBSET Version!Versions, vs # {}
  PROVE  Version!Newest(vs) \in vs /\ \A w \in vs : ~Version!Less(Version!Newest(vs), w)
<1>0. \A v \in vs : /\ v[1] \in 0 .. Limit /\ v[2] \in 0 .. Limit /\ v[3] \in 0 .. Limit
                    /\ v[1] \in Nat /\ v[2] \in Nat /\ v[3] \in Nat /\ Limit \in Nat
                    /\ Limit - v[1] \in Nat /\ Limit - v[2] \in Nat /\ Limit - v[3] \in Nat
  <2> SUFFICES ASSUME NEW v \in vs
               PROVE  /\ v[1] \in 0 .. Limit /\ v[2] \in 0 .. Limit /\ v[3] \in 0 .. Limit
                      /\ v[1] \in Nat /\ v[2] \in Nat /\ v[3] \in Nat /\ Limit \in Nat
                      /\ Limit - v[1] \in Nat /\ Limit - v[2] \in Nat /\ Limit - v[3] \in Nat
    OBVIOUS
  <2>1. v[1] \in 0 .. Limit /\ v[2] \in 0 .. Limit /\ v[3] \in 0 .. Limit /\ Limit \in Nat
    BY VersionParts
  <2> QED BY <2>1
<1>1. PICK x \in vs : \A w \in vs : w[1] <= x[1]
  <2> DEFINE T == {Limit - v[1] : v \in vs}
  <2>1. T \in SUBSET Nat /\ T # {}
    BY <1>0
  <2>2. PICK n \in T : \A m \in T : n <= m
    BY <2>1, LeastNumber
  <2>3. PICK x \in vs : n = Limit - x[1]
    BY <2>2
  <2>4. \A w \in vs : n <= Limit - w[1]
    BY <2>2
  <2>5. ASSUME NEW w \in vs PROVE w[1] <= x[1]
    BY <2>3, <2>4, <1>0
  <2> QED BY <2>5
<1> DEFINE ws == {w \in vs : w[1] = x[1]}
<1>2. PICK y \in ws : \A w \in ws : w[2] <= y[2]
  <2> DEFINE T == {Limit - v[2] : v \in ws}
  <2>1. T \in SUBSET Nat /\ T # {}
    BY <1>0
  <2>2. PICK n \in T : \A m \in T : n <= m
    BY <2>1, LeastNumber
  <2>3. PICK y \in ws : n = Limit - y[2]
    BY <2>2
  <2>4. \A w \in ws : n <= Limit - w[2]
    BY <2>2
  <2>5. ASSUME NEW w \in ws PROVE w[2] <= y[2]
    BY <2>3, <2>4, <1>0
  <2> QED BY <2>5
<1> DEFINE us == {w \in ws : w[2] = y[2]}
<1>3. PICK z \in us : \A w \in us : w[3] <= z[3]
  <2> DEFINE T == {Limit - v[3] : v \in us}
  <2>1. T \in SUBSET Nat /\ T # {}
    BY <1>0
  <2>2. PICK n \in T : \A m \in T : n <= m
    BY <2>1, LeastNumber
  <2>3. PICK z \in us : n = Limit - z[3]
    BY <2>2
  <2>4. \A w \in us : n <= Limit - w[3]
    BY <2>2
  <2>5. ASSUME NEW w \in us PROVE w[3] <= z[3]
    BY <2>3, <2>4, <1>0
  <2> QED BY <2>5
<1>4. ASSUME NEW w \in vs PROVE ~Version!Less(z, w)
  <2>1. z \in vs /\ z[1] = x[1] /\ z[2] = y[2]
    BY <1>3
  <2>2. w[1] <= z[1] /\ (w[1] = z[1] => w[2] <= z[2]) /\ (w[1] = z[1] /\ w[2] = z[2] => w[3] <= z[3])
    BY <1>1, <1>2, <1>3, <2>1
  <2>3. w[1] \in Nat /\ w[2] \in Nat /\ w[3] \in Nat /\ z[1] \in Nat /\ z[2] \in Nat /\ z[3] \in Nat
    BY <1>0, <2>1
  <2> QED BY <2>2, <2>3 DEF Version!Less
<1>5. \E v \in vs : \A w \in vs : ~Version!Less(v, w)
  BY <1>3, <1>4
<1> QED BY <1>5 DEF Version!Newest

\* There are finitely many versions.
LEMMA VersionsFinite == IsFiniteSet(Version!Versions)
<1> DEFINE I == 0 .. Limit
           T == (I \X I) \X I
           f == [v \in Version!Versions |-> <<<<v[1], v[2]>>, v[3]>>]
<1>1. IsFiniteSet(I)
  <2>1. 0 \in Int /\ Limit \in Int
    BY VersionAssumption DEF Version!LimitAssumption
  <2> QED BY <2>1, FS_Interval
<1> HIDE DEF I
<1>2. IsFiniteSet(I \X I)
  BY <1>1, FS_Product
<1>3. IsFiniteSet(T)
  BY <1>1, <1>2, FS_Product
<1>4. \A v \in Version!Versions : v[1] \in I /\ v[2] \in I /\ v[3] \in I /\ v = <<v[1], v[2], v[3]>>
  BY VersionParts DEF I
<1>5. f \in [Version!Versions -> T]
  BY <1>4
<1>6. ASSUME NEW v \in Version!Versions, NEW w \in Version!Versions, f[v] = f[w] PROVE v = w
  <2>1. v[1] = w[1] /\ v[2] = w[2] /\ v[3] = w[3]
    BY <1>6
  <2>2. v = <<v[1], v[2], v[3]>> /\ w = <<w[1], w[2], w[3]>>
    BY <1>4
  <2> QED BY <2>1, <2>2
<1>7. f \in Injection(Version!Versions, T)
  BY <1>5, <1>6 DEF Injection, IsInjective
<1> HIDE DEF f, T
<1> QED BY <1>3, <1>7, FS_Injection

\* Among one more patch numbers than there are occupied versions, one is free.
LEMMA FirstFreeIsFree ==
  ASSUME NEW v, v[1] \in Nat, v[2] \in Nat, v[3] \in Nat, NEW occ \in SUBSET Version!Versions
  PROVE  \E n \in Nat : n >= v[3] /\ Version!FirstFree(v, occ) = <<v[1], v[2], n>> /\ <<v[1], v[2], n>> \notin occ
<1>1. IsFiniteSet(occ) /\ Cardinality(occ) \in Nat
  BY VersionsFinite, FS_Subset, FS_CardinalityType
<1>2. PICK a \in Nat, k \in Nat : a = v[3] /\ k = Cardinality(occ)
  BY <1>1
<1> DEFINE S == {n \in a .. (a + k) : Version!WithPatch(v, n) \notin occ}
<1>3. S \in SUBSET Nat
  BY <1>2
<1>4. S # {}
  <2> SUFFICES ASSUME S = {} PROVE FALSE
    OBVIOUS
  <2> DEFINE I == a .. (a + k)
             f == [n \in I |-> Version!WithPatch(v, n)]
  <2>1. f \in [I -> occ]
    OBVIOUS
  <2>2. IsFiniteSet(I) /\ Cardinality(I) = k + 1
    <3>1. a \in Int /\ a + k \in Int /\ ~(a > a + k) /\ a + k - a + 1 = k + 1
      BY <1>2
    <3> QED BY <3>1, FS_Interval
  <2>3. Cardinality(occ) < Cardinality(I)
    BY <1>2, <2>2
  <2>4. \A m, n \in I : f[m] = f[n] => m = n
    BY DEF Version!WithPatch
  <2> HIDE DEF f, I
  <2> QED BY <1>1, <2>1, <2>2, <2>3, <2>4, FS_PigeonHole
<1>5. \E n \in S : \A m \in S : n <= m
  BY <1>3, <1>4, LeastNumber
<1>6. PICK n : n = Version!Min(S)
  OBVIOUS
<1>7. n \in S
  BY <1>5, <1>6 DEF Version!Min
<1>8. S = {m \in v[3] .. (v[3] + Version!Cardinality(occ)) : Version!WithPatch(v, m) \notin occ}
  BY <1>2 DEF Version!Cardinality, Cardinality
<1>9. Version!FirstFree(v, occ) = Version!WithPatch(v, n)
  BY <1>6, <1>8 DEF Version!FirstFree
<1>10. n \in Nat /\ n >= v[3] /\ Version!WithPatch(v, n) \notin occ
  BY <1>7, <1>2
<1> QED BY <1>9, <1>10 DEF Version!WithPatch

\* choose_version: a chosen version is free, not below the base, and the next
\* patch is above every reachable tag.
LEMMA ChoiceIsFree ==
  ASSUME NEW current \in Version!Versions, NEW released \in SUBSET Version!Versions, NEW occ \in SUBSET Version!Versions,
         NEW kind \in Version!Kinds, NEW requested, NEW v, v = Version!ChooseVersion(current, released, occ, kind, requested), v # <<>>
  PROVE  v \notin occ /\ ~Version!Less(v, current) /\ (kind = "next-patch" => \A w \in released : Version!Less(w, v))
<1> DEFINE selected == IF kind = "requested" THEN requested ELSE Version!BumpedVersion(current, released, kind)
<1>1. ~Version!Less(selected, current) /\ (kind # "next-patch" => v = selected /\ v \notin occ)
      /\ (kind = "next-patch" => v = Version!FirstFree(selected, occ))
  BY DEF Version!ChooseVersion, Version!Occupied
<1>2. CASE kind # "next-patch"
  BY <1>1, <1>2
<1>3. CASE kind = "next-patch"
  <2>1. selected = IF released = {} \/ Version!Less(Version!Newest(released), current) THEN current
                   ELSE Version!WithPatch(Version!Newest(released), Version!Newest(released)[3] + 1)
    BY <1>3 DEF Version!BumpedVersion
  <2>c. \A i \in {1, 2, 3} : current[i] \in Nat
    BY VersionParts
  <2>w. \A w \in released : \A i \in {1, 2, 3} : w[i] \in Nat
    BY VersionParts
  <2>n. released # {} => Version!Newest(released) \in released /\ \A w \in released : ~Version!Less(Version!Newest(released), w)
    BY NewestExists
  <2> HIDE DEF selected
  <2>2. (\A i \in {1, 2, 3} : selected[i] \in Nat) /\ \A w \in released : Version!Less(w, selected)
    <3>1. CASE released = {}
      BY <3>1, <2>1, <2>c
    <3>2. CASE released # {} /\ Version!Less(Version!Newest(released), current)
      BY <3>2, <2>1, <2>c, <2>w, <2>n, LessTransitive
    <3>3. CASE released # {} /\ ~Version!Less(Version!Newest(released), current)
      <4>1. PICK n \in released : n = Version!Newest(released) /\ \A w \in released : ~Version!Less(n, w)
        BY <3>3, <2>n
      <4>2. selected = <<n[1], n[2], n[3] + 1>>
        BY <3>3, <4>1, <2>1 DEF Version!WithPatch
      <4>3. selected[1] = n[1] /\ selected[2] = n[2] /\ selected[3] = n[3] + 1
        BY <4>2
      <4>4. n[1] \in Nat /\ n[2] \in Nat /\ n[3] \in Nat
        BY <2>w
      <4>5. (\A i \in {1, 2, 3} : selected[i] \in Nat) /\ Version!Less(n, selected)
        BY <4>3, <4>4 DEF Version!Less
      <4> QED BY <4>1, <4>5, <2>w, LessTransitive
    <3> QED BY <3>1, <3>2, <3>3
  <2>5. selected[1] \in Nat /\ selected[2] \in Nat /\ selected[3] \in Nat
    BY <2>2
  <2>f. \E n \in Nat : n >= selected[3] /\ Version!FirstFree(selected, occ) = <<selected[1], selected[2], n>>
                      /\ <<selected[1], selected[2], n>> \notin occ
    BY <2>5, FirstFreeIsFree
  <2>3. PICK n \in Nat : n >= selected[3] /\ v = <<selected[1], selected[2], n>> /\ v \notin occ
    BY <1>1, <1>3, <2>f
  <2>4. v[1] = selected[1] /\ v[2] = selected[2] /\ v[3] = n
    BY <2>3
  <2>6. (\A i \in {1, 2, 3} : v[i] \in Nat) /\ ~Version!Less(v, selected)
    BY <2>3, <2>4, <2>5 DEF Version!Less
  <2>7. ~Version!Less(v, current)
    BY <1>1, <2>2, <2>6, <2>c, LessTransitive
  <2>8. \A w \in released : Version!Less(w, v)
    BY <2>2, <2>6, <2>w, LessTransitive
  <2> QED BY <2>3, <2>7, <2>8
<1> QED BY <1>2, <1>3

-----------------------------------------------------------------------------
(* Version pull requests: the preparations                                 *)

\* The versions, trees and works that PrepareVersion names.
LEMMA VersionNames ==
  /\ Version!Base \in Version!Versions /\ <<0, 0, 1>> \in Version!Versions /\ <<0, 1, 1>> \in Version!Versions
  /\ <<0, 2, 0>> \in Version!Versions /\ <<0, 1, 0>> \in Version!Versions
  /\ Version!Tree(0, Version!Base, FALSE) \in Version!Trees /\ ~Version!Tree(0, Version!Base, FALSE).foreign
  /\ Version!Absent \in Version!Branches
  /\ Version!NoWork \in Version!Works
  /\ Version!NoWork.target = <<>> /\ Version!NoWork.seen = Version!Absent /\ ~Version!NoWork.checkout.foreign
<1>1. Version!Base \in Version!Versions /\ <<0, 0, 1>> \in Version!Versions /\ <<0, 1, 1>> \in Version!Versions
      /\ <<0, 2, 0>> \in Version!Versions /\ <<0, 1, 0>> \in Version!Versions
  <2>1. 0 \in 0 .. Limit /\ 1 \in 0 .. Limit /\ 2 \in 0 .. Limit
    BY VersionAssumption DEF Version!LimitAssumption
  <2> QED BY <2>1 DEF Version!Versions, Version!Base
<1>2. Version!Tree(0, Version!Base, FALSE) \in Version!Trees /\ ~Version!Tree(0, Version!Base, FALSE).foreign
  BY <1>1 DEF Version!Tree, Version!Trees
<1>3. Version!Absent \in Version!Branches
  BY DEF Version!Branches
<1>4. Version!NoWork \in Version!Works
  BY <1>2, <1>3 DEF Version!NoWork, Version!Works, Version!Kinds
<1>5. Version!NoWork.target = <<>> /\ Version!NoWork.seen = Version!Absent /\ ~Version!NoWork.checkout.foreign
  BY <1>2 DEF Version!NoWork
<1> QED BY <1>1, <1>2, <1>3, <1>4, <1>5

\* Sequences of one and two elements, and of none.
LEMMA ShortSequences ==
  ASSUME NEW S
  PROVE  /\ <<>> \in Seq(S)
         /\ \A e \in S : <<e>> \in Seq(S) /\ <<e>> # <<>> /\ Head(<<e>>) = e
         /\ \A e, f \in S : <<e, f>> \in Seq(S) /\ <<e, f>> # <<>> /\ Head(<<e, f>>) = e
OBVIOUS

\* A branch made of a main commit and further commits, and the newest of them.
LEMMA BranchOf ==
  ASSUME NEW root \in Version!Trees, ~root.foreign, NEW own \in Seq(Version!Trees)
  PROVE  /\ <<root>> \o own \in Version!Branches /\ <<root>> \o own # <<>>
         /\ \A last \in Version!Trees : /\ (<<root>> \o own) \o <<last>> \in Version!Branches
                                       /\ Version!Last((<<root>> \o own) \o <<last>>) = last
                                       /\ Head((<<root>> \o own) \o <<last>>) = root
<1>1. /\ <<root>> \o own \in Seq(Version!Trees) /\ Len(<<root>> \o own) = 1 + Len(own) /\ (<<root>> \o own)[1] = root
      /\ Len(own) \in Nat
  OBVIOUS
<1>2. <<root>> \o own \in Version!Branches /\ <<root>> \o own # <<>>
  <2>1. PICK c \in Seq(Version!Trees) : c = <<root>> \o own /\ Len(c) = 1 + Len(own) /\ c[1] = root
    BY <1>1
  <2>2. c # <<>> /\ Head(c) = root
    BY <2>1, <1>1
  <2> QED BY <2>1, <2>2 DEF Version!Branches, Version!Absent
<1>3. ASSUME NEW last \in Version!Trees
      PROVE  /\ (<<root>> \o own) \o <<last>> \in Version!Branches
             /\ Version!Last((<<root>> \o own) \o <<last>>) = last
             /\ Head((<<root>> \o own) \o <<last>>) = root
  <2>1. PICK c \in Seq(Version!Trees) : c = <<root>> \o own /\ Len(c) = 1 + Len(own) /\ c[1] = root
    BY <1>1
  <2>2. /\ c \o <<last>> \in Seq(Version!Trees) /\ Len(c \o <<last>>) = Len(c) + 1
        /\ (c \o <<last>>)[Len(c) + 1] = last /\ (c \o <<last>>)[1] = root
    BY <2>1, <1>1
  <2>3. c \o <<last>> # <<>> /\ Head(c \o <<last>>) = root /\ Version!Last(c \o <<last>>) = last
    BY <2>1, <2>2, <1>1 DEF Version!Last
  <2> QED BY <2>1, <2>2, <2>3 DEF Version!Branches, Version!Absent
<1> QED BY <1>2, <1>3

\* What a branch is made of, and a push on top of it.
LEMMA BranchParts ==
  ASSUME NEW c \in Version!Branches
  PROVE  /\ c \in Seq(Version!Trees) /\ Version!Own(c) \in Seq(Version!Trees)
         /\ c # Version!Absent => /\ Head(c) \in Version!Trees /\ ~Head(c).foreign
                                  /\ \A new \in Seq(Version!Trees) : c \o new \in Version!Branches
<1>1. c \in Seq(Version!Trees) /\ Version!Own(c) \in Seq(Version!Trees)
  <2>1. c \in Seq(Version!Trees)
    BY ShortSequences DEF Version!Branches, Version!Absent
  <2>2. c # <<>> => Tail(c) \in Seq(Version!Trees)
    BY <2>1
  <2> QED BY <2>1, <2>2, ShortSequences DEF Version!Own, Version!Absent
<1>2. CASE c # Version!Absent
  <2>1. c \in Seq(Version!Trees) /\ c # <<>> /\ ~Head(c).foreign /\ Len(c) \in Nat /\ Len(c) >= 1 /\ Head(c) = c[1]
    BY <1>2, <1>1 DEF Version!Branches, Version!Absent
  <2>2. Head(c) \in Version!Trees
    BY <2>1
  <2>3. ASSUME NEW new \in Seq(Version!Trees) PROVE c \o new \in Version!Branches
    <3>1. c \o new \in Seq(Version!Trees) /\ (c \o new)[1] = c[1] /\ Len(c \o new) >= 1
      BY <2>1
    <3>2. c \o new # <<>> /\ Head(c \o new) = Head(c)
      BY <2>1, <3>1
    <3> QED BY <2>1, <3>1, <3>2 DEF Version!Branches, Version!Absent
  <2> QED BY <1>1, <2>1, <2>2, <2>3
<1> QED BY <1>1, <1>2

LEMMA VersionInit ==
  ASSUME Version!Init
  PROVE  Version!Inv
<1>1. s1 \in Version!Trees /\ ~s1.foreign
  BY VersionNames DEF Version!Init, Version!Tree, Version!Trees
<1>v. <<0, 1, 1>> \in Version!Versions
  BY VersionNames
<1>2. s2 \subseteq Version!Versions /\ s3 \subseteq Version!Versions /\ s5 \subseteq Version!Versions
  BY VersionNames DEF Version!Init
<1>l. Version!LeftPrepared \in Version!Branches /\ Version!LeftTakenBack \in Version!Branches
  <2>1. PICK root \in Version!Trees, tree \in Version!Trees, edit \in Version!Trees :
          /\ ~root.foreign /\ Version!LeftPrepared = <<root, tree>>
          /\ Version!LeftTakenBack = <<root, tree>> \o <<edit, tree>>
    <3>1. /\ Version!Tree(0, Version!Base, FALSE) \in Version!Trees /\ ~Version!Tree(0, Version!Base, FALSE).foreign
          /\ Version!Tree(0, <<0, 1, 1>>, FALSE) \in Version!Trees /\ Version!Tree(0, <<0, 1, 1>>, TRUE) \in Version!Trees
      BY <1>v, VersionNames DEF Version!Tree, Version!Trees
    <3> QED BY <3>1 DEF Version!LeftPrepared, Version!LeftTakenBack
  <2>2. <<root, tree>> \in Seq(Version!Trees) /\ <<root, tree>> # <<>> /\ Head(<<root, tree>>) = root
        /\ <<edit, tree>> \in Seq(Version!Trees)
    BY ShortSequences
  <2>3. <<root, tree>> \in Version!Branches /\ <<root, tree>> # Version!Absent
    BY <2>1, <2>2 DEF Version!Branches, Version!Absent
  <2>4. <<root, tree>> \o <<edit, tree>> \in Version!Branches
    BY <2>2, <2>3, BranchParts
  <2> QED BY <2>1, <2>3, <2>4
<1>3. s4 \in [Version!Versions -> Version!Branches]
  BY <1>l, VersionNames DEF Version!Init
<1>4. s6 \in [Preparers -> Version!Positions] /\ \A p \in Preparers : s6[p] = "idle"
  BY DEF Version!Init, Version!Positions
<1>5. s7 \in [Preparers -> Version!Works] /\ \A p \in Preparers : s7[p] = Version!NoWork
  BY VersionNames DEF Version!Init
<1>6. Version!TypesOK
  BY <1>1, <1>2, <1>3, <1>4, <1>5 DEF Version!TypesOK
<1>8. Version!ChosenIsFree
  BY <1>5, VersionNames DEF Version!ChosenIsFree
<1>9. ASSUME NEW p \in Preparers PROVE Version!PreparerOK(p)
  BY <1>4, <1>5, VersionNames DEF Version!PreparerOK
<1> QED BY <1>6, <1>8, <1>9 DEF Version!Inv

\* A preparation that moves to position w with work x disturbs no other.
LEMMA VersionMoves ==
  ASSUME Version!Inv, NEW p \in Preparers, NEW w \in Version!Positions, NEW x \in Version!Works,
         s1' = s1, s2' = s2, s3' = s3, s5' \subseteq Version!Versions,
         s4' \in [Version!Versions -> Version!Branches],
         s6' = [s6 EXCEPT ![p] = w], s7' = [s7 EXCEPT ![p] = x],
         s6'[p] = w /\ s7'[p] = x => Version!PreparerOK(p)',
         x.target # <<>> =>
           /\ x.target \notin x.occupied /\ ~Version!Less(x.target, x.checkout.base)
           /\ x.kind = "next-patch" => \A v \in x.fetched \cap x.occupied : Version!Less(v, x.target)
  PROVE  Version!Inv'
<1>1. Version!TypesOK'
  BY DEF Version!Inv, Version!TypesOK
<1>2. s6'[p] = w /\ s7'[p] = x /\ \A q \in Preparers \ {p} : s6'[q] = s6[q] /\ s7'[q] = s7[q]
  BY DEF Version!Inv, Version!TypesOK
<1>3. ASSUME NEW q \in Preparers PROVE Version!PreparerOK(q)'
  <2>1. CASE q = p
    BY <2>1, <1>2
  <2>2. CASE q # p
    <3>1. Version!PreparerOK(q)
      BY DEF Version!Inv
    <3>2. s6'[q] = s6[q] /\ s7'[q] = s7[q]
      BY <1>2, <2>2
    <3> QED BY <3>1, <3>2 DEF Version!PreparerOK, Version!OwnedTopic
  <2> QED BY <2>1, <2>2
<1>4. Version!ChosenIsFree'
  <2> SUFFICES ASSUME NEW q \in Preparers, s7'[q].target # <<>>
               PROVE  /\ s7'[q].target \notin s7'[q].occupied /\ ~Version!Less(s7'[q].target, s7'[q].checkout.base)
                      /\ s7'[q].kind = "next-patch" => \A v \in s7'[q].fetched \cap s7'[q].occupied : Version!Less(v, s7'[q].target)
    BY DEF Version!ChosenIsFree, Version!Less
  <2>1. CASE q = p
    BY <2>1, <1>2
  <2>2. CASE q # p
    BY <2>2, <1>2 DEF Version!Inv, Version!ChosenIsFree
  <2> QED BY <2>1, <2>2
<1> QED BY <1>1, <1>3, <1>4 DEF Version!Inv

\* The commit that a preparation pushes is the checkout moved to the version,
\* above the topic that it verified.
LEMMA NewCommitIsOwned ==
  ASSUME Version!Inv, NEW p \in Preparers, s6[p] = "push"
  PROVE  /\ s7[p].target \in Version!Versions
         /\ Version!NewCommit(p) \in Version!Branches
         /\ Version!Last(Version!NewCommit(p)) = Version!Tree(s7[p].checkout.changes, s7[p].target, FALSE)
         /\ Version!OwnedTopic(s7[p].seen, s7[p].target)
<1>1. s7[p].checkout \in Version!Trees /\ ~s7[p].checkout.foreign /\ s7[p].seen \in Version!Branches
      /\ s7[p].target \in Version!Versions /\ Version!OwnedTopic(s7[p].seen, s7[p].target)
  BY DEF Version!Inv, Version!TypesOK, Version!Works, Version!PreparerOK
<1>2. PICK tree : tree = Version!Prepared(p) /\ tree = [s7[p].checkout EXCEPT !.base = s7[p].target]
  BY DEF Version!Prepared
<1>3. tree \in Version!Trees /\ tree = Version!Tree(s7[p].checkout.changes, s7[p].target, FALSE)
  BY <1>1, <1>2 DEF Version!Trees, Version!Tree
<1>4. PICK own \in Seq(Version!Trees) : own = Version!Own(s7[p].seen)
  BY <1>1, BranchParts
<1>5. Version!NewCommit(p) = (<<s7[p].checkout>> \o own) \o <<tree>>
  BY <1>2, <1>4 DEF Version!NewCommit
<1>6. /\ (<<s7[p].checkout>> \o own) \o <<tree>> \in Version!Branches
      /\ Version!Last((<<s7[p].checkout>> \o own) \o <<tree>>) = tree
  <2>1. PICK root \in Version!Trees : root = s7[p].checkout /\ ~root.foreign
    BY <1>1
  <2>2. (<<root>> \o own) \o <<tree>> \in Version!Branches /\ Version!Last((<<root>> \o own) \o <<tree>>) = tree
    BY <2>1, <1>3, BranchOf
  <2> QED BY <2>1, <2>2
<1>7. Version!NewCommit(p) \in Version!Branches /\ Version!Last(Version!NewCommit(p)) = tree
  BY <1>5, <1>6
<1> QED BY <1>1, <1>3, <1>7

\* Each step of a preparation keeps the invariant.
LEMMA VersionStepKeeps ==
  ASSUME Version!Inv, NEW p \in Preparers, Version!Step(p)
  PROVE  Version!Inv'
<1> USE DEF Version!Positions, Version!To, Version!Remote
<1>t. /\ s1 \in Version!Trees /\ ~s1.foreign /\ s2 \subseteq Version!Versions /\ s3 \subseteq Version!Versions
      /\ s4 \in [Version!Versions -> Version!Branches] /\ s5 \subseteq Version!Versions
      /\ s6 \in [Preparers -> Version!Positions] /\ s7 \in [Preparers -> Version!Works] /\ s7[p] \in Version!Works
  BY DEF Version!Inv, Version!TypesOK
<1>i. Version!PreparerOK(p)
  BY DEF Version!Inv
<1>f. s7[p].target # <<>> =>
        /\ s7[p].target \notin s7[p].occupied /\ ~Version!Less(s7[p].target, s7[p].checkout.base)
        /\ s7[p].kind = "next-patch" => \A v \in s7[p].fetched \cap s7[p].occupied : Version!Less(v, s7[p].target)
  BY DEF Version!Inv, Version!ChosenIsFree
<1>u. s7 = [s7 EXCEPT ![p] = s7[p]]
  BY <1>t
<1>1. CASE Version!Begin(p)
  <2> DEFINE x == [Version!NoWork EXCEPT !.checkout = s1]
  <2>1. x \in Version!Works /\ x.target = <<>> /\ x.checkout = s1 /\ x.seen = Version!Absent
    BY <1>t, VersionNames DEF Version!Works
  <2>2. s7' = [s7 EXCEPT ![p] = x] /\ s6' = [s6 EXCEPT ![p] = "fetch"] /\ s1' = s1 /\ s2' = s2 /\ s3' = s3 /\ s4' = s4 /\ s5' = s5
    BY <1>1 DEF Version!Begin
  <2> HIDE DEF x
  <2>3. s6'[p] = "fetch" /\ s7'[p] = x => Version!PreparerOK(p)'
    BY <2>1, <1>t, VersionNames DEF Version!PreparerOK, Version!OwnedTopic
  <2> QED BY <2>1, <2>2, <2>3, <1>t, VersionMoves
<1>2. CASE Version!Fetch(p)
  <2> DEFINE x == [s7[p] EXCEPT !.fetched = s3]
  <2>1. x \in Version!Works /\ x.target = s7[p].target /\ x.checkout = s7[p].checkout /\ x.seen = s7[p].seen
    BY <1>t DEF Version!Works
  <2>2. PICK w \in Version!Positions : s7' = [s7 EXCEPT ![p] = x] /\ s6' = [s6 EXCEPT ![p] = w] /\ w \in {"tags", "refused"}
            /\ s6[p] = "fetch" /\ s1' = s1 /\ s2' = s2 /\ s3' = s3 /\ s4' = s4 /\ s5' = s5
    BY <1>2 DEF Version!Fetch
  <2> HIDE DEF x
  <2>3. x.target = <<>>
    BY <2>1, <2>2, <1>i DEF Version!PreparerOK
  <2>4. s6'[p] = w /\ s7'[p] = x => Version!PreparerOK(p)'
    BY <2>1, <2>2, <2>3, <1>i DEF Version!PreparerOK, Version!OwnedTopic
  <2> QED BY <2>1, <2>2, <2>3, <2>4, <1>t, VersionMoves
<1>3. CASE Version!AdvertisedTags(p)
  <2>0. PICK kind \in Version!Kinds, requested \in {<<0, 1, 0>>, <<0, 2, 0>>} :
          LET target == Version!ChooseVersion(s7[p].checkout.base, s7[p].fetched \cap s2, s2, kind, requested)
          IN  /\ target = <<>> \/ target \in Version!Versions
              /\ s7' = [s7 EXCEPT ![p].occupied = s2, ![p].kind = kind, ![p].target = target]
              /\ \/ s6' = [s6 EXCEPT ![p] = IF target = <<>> THEN "refused" ELSE "list"]
                 \/ target # <<>> /\ s6' = [s6 EXCEPT ![p] = "done"]
    BY <1>3 DEF Version!AdvertisedTags, Version!CurrentBase
  <2>1. PICK target \in Version!Versions \cup {<<>>} :
          /\ target = Version!ChooseVersion(s7[p].checkout.base, s7[p].fetched \cap s2, s2, kind, requested)
          /\ s7' = [s7 EXCEPT ![p].occupied = s2, ![p].kind = kind, ![p].target = target]
          /\ \/ s6' = [s6 EXCEPT ![p] = IF target = <<>> THEN "refused" ELSE "list"]
             \/ target # <<>> /\ s6' = [s6 EXCEPT ![p] = "done"]
    BY <2>0
  <2> DEFINE x == [s7[p] EXCEPT !.occupied = s2, !.kind = kind, !.target = target]
  <2>2. x \in Version!Works /\ x.target = target /\ x.checkout = s7[p].checkout /\ x.seen = s7[p].seen /\ x.occupied = s2
        /\ x.kind = kind /\ x.fetched = s7[p].fetched
    BY <1>t DEF Version!Works
  <2>3. s7' = [s7 EXCEPT ![p] = x] /\ s1' = s1 /\ s2' = s2 /\ s3' = s3 /\ s4' = s4 /\ s5' = s5
    BY <1>3, <2>1, <1>t DEF Version!AdvertisedTags
  <2> HIDE DEF x
  <2>4. PICK w \in Version!Positions : s6' = [s6 EXCEPT ![p] = w] /\ w \in {"refused", "list", "done"} /\ (w = "list" => target # <<>>)
    BY <2>1
  <2>5. s6'[p] = w /\ s7'[p] = x => Version!PreparerOK(p)'
    BY <2>1, <2>2, <2>4, <1>i DEF Version!PreparerOK, Version!OwnedTopic
  <2>6. s7[p].checkout.base \in Version!Versions /\ s7[p].fetched \cap s2 \in SUBSET Version!Versions /\ s2 \in SUBSET Version!Versions
    BY <1>t DEF Version!Works, Version!Trees
  <2>7. target # <<>> =>
           /\ target \notin s2 /\ ~Version!Less(target, s7[p].checkout.base)
           /\ kind = "next-patch" => \A v \in s7[p].fetched \cap s2 : Version!Less(v, target)
    <3>1. PICK current \in Version!Versions, released \in SUBSET Version!Versions, occ \in SUBSET Version!Versions :
            current = s7[p].checkout.base /\ released = s7[p].fetched \cap s2 /\ occ = s2
      BY <2>6
    <3>2. target = Version!ChooseVersion(current, released, occ, kind, requested)
      BY <2>1, <3>1
    <3>3. target # <<>> => target \notin occ /\ ~Version!Less(target, current)
                           /\ (kind = "next-patch" => \A v \in released : Version!Less(v, target))
      BY <3>2, ChoiceIsFree
    <3> QED BY <3>1, <3>3
  <2>8. x.target # <<>> =>
           /\ x.target \notin x.occupied /\ ~Version!Less(x.target, x.checkout.base)
           /\ x.kind = "next-patch" => \A v \in x.fetched \cap x.occupied : Version!Less(v, x.target)
    BY <2>2, <2>7
  <2> QED BY <2>2, <2>3, <2>4, <2>5, <2>8, <1>t, VersionMoves
<1>4. CASE Version!ListPulls(p)
  <2>0. s7[p].target \in Version!Versions
    BY <1>4, <1>i DEF Version!ListPulls, Version!PreparerOK
  <2> DEFINE x == [s7[p] EXCEPT !.existing = s7[p].target \in s5, !.listed = s4[s7[p].target]]
  <2>1. x \in Version!Works /\ x.target = s7[p].target /\ x.checkout = s7[p].checkout /\ x.seen = s7[p].seen
        /\ x.occupied = s7[p].occupied /\ x.kind = s7[p].kind /\ x.fetched = s7[p].fetched
    <3>1. s4[s7[p].target] \in Version!Branches /\ (s7[p].target \in s5) \in BOOLEAN
      BY <1>t, <2>0
    <3>2. PICK c \in Version!Branches, b \in BOOLEAN : c = s4[s7[p].target] /\ b = (s7[p].target \in s5)
      BY <3>1
    <3>3. x = [s7[p] EXCEPT !.existing = b, !.listed = c]
      BY <3>2
    <3> HIDE DEF x
    <3> QED BY <3>3, <1>t DEF Version!Works
  <2>2. s7' = [s7 EXCEPT ![p] = x] /\ s6' = [s6 EXCEPT ![p] = "topic"] /\ s1' = s1 /\ s2' = s2 /\ s3' = s3 /\ s4' = s4 /\ s5' = s5
    BY <1>4, <1>t DEF Version!ListPulls
  <2> HIDE DEF x
  <2>3. s6'[p] = "topic" /\ s7'[p] = x => Version!PreparerOK(p)'
    BY <2>0, <2>1, <1>i DEF Version!PreparerOK, Version!OwnedTopic
  <2>4. x.target # <<>> =>
           /\ x.target \notin x.occupied /\ ~Version!Less(x.target, x.checkout.base)
           /\ x.kind = "next-patch" => \A v \in x.fetched \cap x.occupied : Version!Less(v, x.target)
    BY <2>1, <1>f
  <2> QED BY <2>1, <2>2, <2>3, <2>4, <1>t, VersionMoves
<1>5. CASE Version!RemoteTopic(p)
  <2>0. s7[p].target \in Version!Versions
    BY <1>5, <1>i DEF Version!RemoteTopic, Version!PreparerOK
  <2>1. PICK now \in Version!Branches : now = s4[s7[p].target]
    BY <2>0, <1>t
  <2> DEFINE x == [s7[p] EXCEPT !.seen = now]
  <2>2. x \in Version!Works /\ x.target = s7[p].target /\ x.checkout = s7[p].checkout /\ x.seen = now
        /\ x.occupied = s7[p].occupied /\ x.kind = s7[p].kind /\ x.fetched = s7[p].fetched
    BY <1>t DEF Version!Works
  <2>3. PICK w \in Version!Positions : s7' = [s7 EXCEPT ![p] = x] /\ s6' = [s6 EXCEPT ![p] = w] /\ w \in {"refused", "build"}
            /\ (w = "build" => now = Version!Absent \/ Version!VerifyOwnedTopic(p, now))
            /\ s1' = s1 /\ s2' = s2 /\ s3' = s3 /\ s4' = s4 /\ s5' = s5
    BY <1>5, <1>t, <2>1 DEF Version!RemoteTopic
  <2> HIDE DEF x
  <2>4. w = "build" => Version!OwnedTopic(now, s7[p].target)
    <3> SUFFICES ASSUME now # Version!Absent, Version!VerifyOwnedTopic(p, now)
                 PROVE  ~Version!Last(now).foreign /\ Version!Last(now).base = s7[p].target
      BY <2>3 DEF Version!OwnedTopic
    <3>1. PICK ancestor \in Version!Trees : ~ancestor.foreign /\ Version!Last(now) = [ancestor EXCEPT !.base = s7[p].target]
      <4>1. Head(now) \in Version!Trees /\ ~Head(now).foreign
        BY BranchParts
      <4>2. s7[p].checkout \in Version!Trees /\ ~s7[p].checkout.foreign
        BY <1>t, <1>i DEF Version!Works, Version!PreparerOK
      <4> QED BY <4>1, <4>2 DEF Version!VerifyOwnedTopic
    <3> QED BY <3>1 DEF Version!Trees
  <2>5. s6'[p] = w /\ s7'[p] = x => Version!PreparerOK(p)'
    BY <2>0, <2>1, <2>2, <2>3, <2>4, <1>i DEF Version!PreparerOK, Version!OwnedTopic
  <2>6. x.target # <<>> =>
           /\ x.target \notin x.occupied /\ ~Version!Less(x.target, x.checkout.base)
           /\ x.kind = "next-patch" => \A v \in x.fetched \cap x.occupied : Version!Less(v, x.target)
    BY <2>2, <1>f
  <2> QED BY <2>2, <2>3, <2>5, <2>6, <1>t, VersionMoves
<1>6. CASE Version!Build(p) \/ Version!CreatePull(p)
  <2>1. PICK w \in Version!Positions : s7' = s7 /\ s6' = [s6 EXCEPT ![p] = w] /\ w \in {"refused", "done", "pull", "push"}
            /\ s6[p] \in {"build", "pull"} /\ s1' = s1 /\ s2' = s2 /\ s3' = s3 /\ s4' = s4 /\ s5' \in {s5, s5 \cup {s7[p].target}}
    BY <1>6 DEF Version!Build, Version!CreatePull
  <2>2. s7[p].target \in Version!Versions /\ Version!OwnedTopic(s7[p].seen, s7[p].target)
    BY <2>1, <1>i DEF Version!PreparerOK
  <2>3. s6'[p] = w /\ s7'[p] = s7[p] => Version!PreparerOK(p)'
    BY <2>1, <2>2, <1>i DEF Version!PreparerOK, Version!OwnedTopic
  <2>4. s5' \subseteq Version!Versions
    BY <2>1, <2>2, <1>t
  <2> QED BY <2>1, <2>3, <2>4, <1>t, <1>f, <1>u, VersionMoves
<1>7. CASE Version!Push(p)
  <2>1. PICK w \in Version!Positions : s7' = s7 /\ s6' = [s6 EXCEPT ![p] = w] /\ w \in {"refused", "pull"}
            /\ s6[p] = "push" /\ s1' = s1 /\ s2' = s2 /\ s3' = s3 /\ s5' = s5
            /\ s4' \in {s4, [s4 EXCEPT ![s7[p].target] = Version!NewCommit(p)]}
    BY <1>7 DEF Version!Push
  <2>2. s7[p].target \in Version!Versions /\ Version!NewCommit(p) \in Version!Branches
    BY <2>1, NewCommitIsOwned
  <2>3. s4' \in [Version!Versions -> Version!Branches]
    BY <2>1, <2>2, <1>t
  <2>4. s6'[p] = w /\ s7'[p] = s7[p] => Version!PreparerOK(p)'
    BY <2>1, <2>2, <1>i DEF Version!PreparerOK, Version!OwnedTopic
  <2> QED BY <2>1, <2>3, <2>4, <1>t, <1>f, <1>u, VersionMoves
<1> QED BY <1>1, <1>2, <1>3, <1>4, <1>5, <1>6, <1>7 DEF Version!Step

\* What happens in the repository disturbs no preparation, while main stays
\* reviewed and the topics typed.
LEMMA VersionOutside ==
  ASSUME Version!Inv, s6' = s6, s7' = s7, s1' \in Version!Trees, ~s1'.foreign,
         s2' \subseteq Version!Versions, s3' \subseteq Version!Versions, s5' \subseteq Version!Versions,
         s4' \in [Version!Versions -> Version!Branches]
  PROVE  Version!Inv'
<1>1. Version!TypesOK'
  BY DEF Version!Inv, Version!TypesOK
<1>2. \A p \in Preparers : Version!PreparerOK(p)'
  BY DEF Version!Inv, Version!PreparerOK, Version!OwnedTopic
<1>3. Version!ChosenIsFree'
  BY DEF Version!Inv, Version!ChosenIsFree, Version!Less
<1> QED BY <1>1, <1>2, <1>3 DEF Version!Inv

\* An interrupted preparation begins anew, whether its push took effect or not.
LEMMA VersionInterruptKeeps ==
  ASSUME Version!Inv, NEW p \in Preparers, Version!Interrupt(p)
  PROVE  Version!Inv'
<1>t. s4 \in [Version!Versions -> Version!Branches] /\ s5 \subseteq Version!Versions
  BY DEF Version!Inv, Version!TypesOK
<1>1. s6' = [s6 EXCEPT ![p] = "idle"] /\ s7' = [s7 EXCEPT ![p] = Version!NoWork] /\ s1' = s1 /\ s2' = s2 /\ s3' = s3 /\ s5' = s5
  BY DEF Version!Interrupt, Version!To
<1>w. s4' = s4 \/ (s6[p] = "push" /\ s4' = [s4 EXCEPT ![s7[p].target] = Version!NewCommit(p)])
  <2>1. CASE s6[p] = "push"
    BY <2>1 DEF Version!Interrupt
  <2>2. CASE s6[p] # "push"
    BY <2>2 DEF Version!Interrupt
  <2> QED BY <2>1, <2>2
<1>2. s4' \in [Version!Versions -> Version!Branches]
  <2>1. CASE s4' = s4
    BY <2>1, <1>t
  <2>2. CASE s6[p] = "push" /\ s4' = [s4 EXCEPT ![s7[p].target] = Version!NewCommit(p)]
    <3>1. s7[p].target \in Version!Versions /\ Version!NewCommit(p) \in Version!Branches
      BY <2>2, NewCommitIsOwned
    <3> QED BY <2>2, <3>1, <1>t
  <2> QED BY <1>w, <2>1, <2>2
<1>3. s6'[p] = "idle" /\ s7'[p] = Version!NoWork => Version!PreparerOK(p)'
  BY VersionNames DEF Version!PreparerOK, Version!OwnedTopic
<1>4. "idle" \in Version!Positions
  BY DEF Version!Positions
<1> QED BY <1>1, <1>2, <1>3, <1>4, <1>t, VersionNames, VersionMoves

\* Main, the tags, the topics and the pull requests change.
LEMMA VersionEventKeeps ==
  ASSUME Version!Inv, Version!RepositoryEvent \/ \E v \in {<<0, 1, 1>>, <<0, 2, 0>>} : Version!ForeignPush(v) \/ Version!Delete(v)
  PROVE  Version!Inv'
<1>t. /\ s1 \in Version!Trees /\ ~s1.foreign /\ s2 \subseteq Version!Versions /\ s3 \subseteq Version!Versions
      /\ s4 \in [Version!Versions -> Version!Branches] /\ s5 \subseteq Version!Versions
  BY DEF Version!Inv, Version!TypesOK
<1>m. s1.changes \in Nat /\ s1.changes + 1 \in Nat /\ s1.base \in Version!Versions
  BY <1>t DEF Version!Trees
<1>1. CASE Version!RepositoryEvent
  <2>0. s6' = s6 /\ s7' = s7
    BY <1>1 DEF Version!RepositoryEvent
  <2>1. CASE s1' = [s1 EXCEPT !.changes = @ + 1] /\ UNCHANGED <<s2, s3, s4, s5>>
    <3>1. s1' \in Version!Trees /\ ~s1'.foreign
      BY <2>1, <1>t, <1>m DEF Version!Trees
    <3> QED BY <2>0, <2>1, <3>1, <1>t, VersionOutside
  <2>2. CASE \E v \in s5 : /\ s1' = Version!Tree(s1.changes + 1, v, FALSE) /\ s5' = s5 \ {v}
                           /\ s4' = [s4 EXCEPT ![v] = Version!Absent] /\ UNCHANGED <<s2, s3>>
    <3>1. PICK v \in Version!Versions : /\ s1' = Version!Tree(s1.changes + 1, v, FALSE) /\ s5' = s5 \ {v}
                                        /\ s4' = [s4 EXCEPT ![v] = Version!Absent] /\ UNCHANGED <<s2, s3>>
      BY <2>2, <1>t
    <3>2. s1' \in Version!Trees /\ ~s1'.foreign
      BY <3>1, <1>m DEF Version!Trees, Version!Tree
    <3>4. s4' \in [Version!Versions -> Version!Branches]
      BY <3>1, <1>t, VersionNames
    <3>5. s5' \subseteq Version!Versions
      BY <3>1, <1>t
    <3> QED BY <2>0, <3>1, <3>2, <3>4, <3>5, <1>t, VersionOutside
  <2>3. CASE s2' = s2 \cup {s1.base} /\ s3' = s3 \cup {s1.base} /\ UNCHANGED <<s1, s4, s5>>
    <3>1. s2' \subseteq Version!Versions /\ s3' \subseteq Version!Versions
      BY <2>3, <1>t, <1>m
    <3> QED BY <2>0, <2>3, <3>1, <1>t, VersionOutside
  <2>4. CASE \E v \in {Version!Base, <<0, 1, 1>>, <<0, 2, 0>>} : s2' = s2 \cup {v} /\ UNCHANGED <<s1, s3, s4, s5>>
    <3>1. s2' \subseteq Version!Versions /\ UNCHANGED <<s1, s3, s4, s5>>
      BY <2>4, <1>t, VersionNames
    <3> QED BY <2>0, <3>1, <1>t, VersionOutside
  <2> QED BY <1>1, <2>1, <2>2, <2>3, <2>4 DEF Version!RepositoryEvent
<1>2. ASSUME NEW v \in Version!Versions, Version!ForeignPush(v) PROVE Version!Inv'
  <2>1. PICK edit \in Version!Trees : edit = Version!Tree(s1.changes, v, TRUE)
    BY <1>m DEF Version!Tree, Version!Trees
  <2>2. PICK line \in Version!Branches : line = (IF s4[v] = Version!Absent THEN <<s1>> ELSE s4[v]) /\ line # Version!Absent
    <3>1. <<s1>> \in Version!Branches /\ <<s1>> # Version!Absent
      BY <1>t DEF Version!Branches, Version!Absent
    <3> QED BY <3>1, <1>t
  <2>3. Version!ToSet(line) \subseteq Version!Trees
    BY <2>2, BranchParts DEF Version!ToSet
  <2>4. \A new \in Version!ForeignCommits(v) : new \in Seq(Version!Trees)
    <3>1. Version!ForeignCommits(v) = {<<edit>>} \cup {<<t>> : t \in Version!ToSet(line)} \cup {<<edit, t>> : t \in Version!ToSet(line)}
      BY <2>1, <2>2 DEF Version!ForeignCommits
    <3> SUFFICES ASSUME NEW new \in Version!ForeignCommits(v) PROVE new \in Seq(Version!Trees)
      OBVIOUS
    <3>2. CASE new = <<edit>>
      BY <3>2, ShortSequences
    <3>3. CASE \E t \in Version!Trees : new = <<t>> \/ new = <<edit, t>>
      BY <3>3, ShortSequences
    <3> QED BY <3>1, <3>2, <3>3, <2>3
  <2>5. \/ s4' = [s4 EXCEPT ![v] = <<s1>>] /\ s4[v] = Version!Absent
        \/ \E new \in Version!ForeignCommits(v) : s4' = [s4 EXCEPT ![v] = line \o new]
    BY <1>2, <2>2, <1>t DEF Version!ForeignPush
  <2>6. UNCHANGED <<s1, s2, s3, s5, s6, s7>>
    BY <1>2 DEF Version!ForeignPush
  <2>7. s4' \in [Version!Versions -> Version!Branches]
    <3>1. CASE s4' = [s4 EXCEPT ![v] = <<s1>>] /\ s4[v] = Version!Absent
      BY <3>1, <2>2, <1>t
    <3>2. CASE \E new \in Version!ForeignCommits(v) : s4' = [s4 EXCEPT ![v] = line \o new]
      BY <3>2, <2>2, <2>4, <1>t, BranchParts
    <3> QED BY <2>5, <3>1, <3>2
  <2> QED BY <2>6, <2>7, <1>t, VersionOutside
<1>3. ASSUME NEW v \in Version!Versions, Version!Delete(v) PROVE Version!Inv'
  <2>1. s4' = [s4 EXCEPT ![v] = Version!Absent] /\ s5' = s5 \ {v} /\ UNCHANGED <<s1, s2, s3, s6, s7>>
    BY <1>3 DEF Version!Delete
  <2>2. s4' \in [Version!Versions -> Version!Branches] /\ s5' \subseteq Version!Versions
    BY <2>1, <1>t, VersionNames
  <2> QED BY <2>1, <2>2, <1>t, VersionOutside
<1> QED BY <1>1, <1>2, <1>3, VersionNames

\* Every behaviour of the preparations keeps their invariant.
LEMMA VersionKeeps ==
  ASSUME part = "version" => Version!Inv, [Next]_vars
  PROVE  (part = "version" => Version!Inv)'
<1>1. CASE VersionStep
  <2>0. Version!Inv /\ Version!Next
    BY <1>1 DEF VersionStep
  <2> QED BY <2>0, VersionStepKeeps, VersionInterruptKeeps, VersionEventKeeps DEF Version!Next
<1>2. CASE ~VersionStep /\ Next
  BY <1>2 DEF Next, FilesStep, TomlStep, ReceiptsStep, VendorStep, PromotionStep
<1>3. CASE UNCHANGED vars
  <2>1. part' = part /\ s1' = s1 /\ s2' = s2 /\ s3' = s3 /\ s4' = s4 /\ s5' = s5 /\ s6' = s6 /\ s7' = s7
    BY <1>3 DEF vars
  <2>2. CASE part = "version"
    <3>1. /\ s1 \in Version!Trees /\ ~s1.foreign /\ s2 \subseteq Version!Versions /\ s3 \subseteq Version!Versions
          /\ s4 \in [Version!Versions -> Version!Branches] /\ s5 \subseteq Version!Versions
      BY <2>2 DEF Version!Inv, Version!TypesOK
    <3> QED BY <2>1, <2>2, <3>1, VersionOutside
  <2> QED BY <2>1, <2>2
<1> QED BY <1>1, <1>2, <1>3

\* What a preparation of prepare_version.py knows of its version, its checkout
\* and its topic at each position, in every behaviour.
THEOREM VersionInvHolds == Spec => [](part = "version" => Version!Inv)
<1>1. Init => (part = "version" => Version!Inv)
  BY VersionInit DEF Init
<1>2. (part = "version" => Version!Inv) /\ [Next]_vars => (part = "version" => Version!Inv)'
  BY VersionKeeps
<1> QED BY <1>1, <1>2, PTL DEF Spec

\* The version that prepare_version.py chose is no tag of the remote, is not
\* below the base, and as the next patch is above every reachable stable tag.
THEOREM ChosenAreFree == Spec => []ChosenIsFree
<1>1. (part = "version" => Version!Inv) => ChosenIsFree
  BY DEF ChosenIsFree, Version!Inv
<1> QED BY <1>1, VersionInvHolds, PTL

\* A push of a preparation, of one that is killed too, goes on from all that
\* the topic holds, and from a topic that was generated when it was verified.
LEMMA VersionPushesOwned ==
  ASSUME Version!Inv, Version!Next
  PROVE  Version!PushesOwned
<1> SUFFICES ASSUME NEW p \in Preparers, s6[p] = "push", s6'[p] # "push", s4' # s4
             PROVE  /\ Version!Onward(s4'[s7[p].target], s4[s7[p].target])
                    /\ Version!Last(s4'[s7[p].target]) = Version!Tree(s7[p].checkout.changes, s7[p].target, FALSE)
                    /\ Version!OwnedTopic(s7[p].seen, s7[p].target)
  BY DEF Version!PushesOwned
<1>t. s6 \in [Preparers -> Version!Positions] /\ s4 \in [Version!Versions -> Version!Branches]
  BY DEF Version!Inv, Version!TypesOK
<1>1. Version!Step(p) \/ Version!Interrupt(p)
  <2>1. CASE Version!RepositoryEvent \/ \E v \in {<<0, 1, 1>>, <<0, 2, 0>>} : Version!ForeignPush(v) \/ Version!Delete(v)
    BY <2>1 DEF Version!RepositoryEvent, Version!ForeignPush, Version!Delete
  <2>2. ASSUME NEW q \in Preparers, q # p PROVE ~Version!Step(q) /\ ~Version!Interrupt(q)
    <3>1. ASSUME Version!Step(q) \/ Version!Interrupt(q) PROVE FALSE
      <4>1. \E w : s6' = [s6 EXCEPT ![q] = w]
        BY <3>1 DEF Version!Step, Version!Begin, Version!Fetch, Version!AdvertisedTags, Version!ListPulls, Version!RemoteTopic,
           Version!Build, Version!Push, Version!CreatePull, Version!Interrupt, Version!To
      <4> QED BY <4>1, <2>2, <1>t
    <3> QED BY <3>1
  <2> QED BY <2>1, <2>2 DEF Version!Next
<1>2. Version!Pushable(p) /\ s4' = [s4 EXCEPT ![s7[p].target] = Version!NewCommit(p)]
  <2>1. CASE Version!Step(p)
    <3>1. Version!Push(p)
      BY <2>1 DEF Version!Step, Version!Begin, Version!Fetch, Version!AdvertisedTags, Version!ListPulls, Version!RemoteTopic,
         Version!Build, Version!CreatePull
    <3> QED BY <3>1 DEF Version!Push
  <2>2. CASE Version!Interrupt(p)
    BY <2>2 DEF Version!Interrupt
  <2> QED BY <1>1, <2>1, <2>2
<1>3. /\ s7[p].target \in Version!Versions
      /\ Version!Last(Version!NewCommit(p)) = Version!Tree(s7[p].checkout.changes, s7[p].target, FALSE)
      /\ Version!OwnedTopic(s7[p].seen, s7[p].target)
  BY NewCommitIsOwned
<1>4. s4'[s7[p].target] = Version!NewCommit(p)
  BY <1>2, <1>3, <1>t
<1> QED BY <1>2, <1>3, <1>4 DEF Version!Pushable

\* No step of a delivery or a preparation takes away what somebody else put on
\* a branch: a delivery moves a branch only onward from a main commit, and a
\* topic keeps every commit that it has when a preparation pushes, and held no
\* edit of others when the push was prepared.
THEOREM OthersAreKept == Spec => OthersKept
<1>1. (part = "vendor" => Vendor!Inv) /\ (part = "version" => Version!Inv) /\ [Next]_vars
        => [(part = "vendor" => Vendor!KeepsBranch) /\ (part = "version" => Version!PushesOwned)]_vars
  <2> SUFFICES ASSUME part = "vendor" => Vendor!Inv, part = "version" => Version!Inv, Next
               PROVE  (part = "vendor" => Vendor!KeepsBranch) /\ (part = "version" => Version!PushesOwned)
    OBVIOUS
  <2>1. part = "version" => Version!Next
    BY DEF Next, VersionStep, FilesStep, TomlStep, ReceiptsStep, VendorStep, PromotionStep
  <2> QED BY <2>1, VendorBranchKept, VersionPushesOwned
<1> QED BY <1>1, VendorInvHolds, VersionInvHolds, PTL DEF Spec, OthersKept

-----------------------------------------------------------------------------
(* Readers of a published release                                          *)

\* What no change around a reader undoes: a release only gains stamps, a run
\* only gains attempts, its artifacts come only as one of them ends, and what
\* has been observed stays observed.
PromotionOnward ==
  /\ s1' = s1 /\ s2' = s2 /\ s9' = s9
  /\ s4[s2].there => Promotion!Older(s4[s2], s4'[s2])
  /\ \A r \in {"source", "promotion"} :
       /\ s5'[r].attempt >= s5[r].attempt
       /\ s5'[r].attempt = s5[r].attempt /\ s5[r].state = "success" => s5'[r].state = "success"
       /\ \A a \in s6'[r] : a \in s6[r] \/ (s5[r].state = "running" /\ a = Promotion!Evidence(s5[r].attempt))
  /\ s18 \subseteq s18' /\ s19 \subseteq s19'

PromotionReader == s3' = s3 /\ UNCHANGED <<s11, s12, s13, s14, s15, s16, s17>>

LEMMA PromotionObserves ==
  ASSUME Promotion!Observe
  PROVE  s18 \subseteq s18' /\ s19 \subseteq s19'
BY DEF Promotion!Observe

LEMMA PromotionAssets ==
  ASSUME NEW t \in {"rc", "stable"}, Promotion!TypesOK
  PROVE  /\ \A a \in s4[t].assets, b \in Promotion!Manifests :
              Promotion!Asset(a.name, b, s20 + 1) \in [name : {"payload", "manifest", "extra"}, bytes : Promotion!Manifests, id : Nat]
         /\ Promotion!Asset("extra", "built", s20 + 1) \in [name : {"payload", "manifest", "extra"}, bytes : Promotion!Manifests, id : Nat]
         /\ s4[t].assets \subseteq [name : {"payload", "manifest", "extra"}, bytes : Promotion!Manifests, id : Nat]
BY DEF Promotion!TypesOK, Promotion!Releases, Promotion!Asset, Promotion!Manifests

LEMMA PromotionRecord ==
  ASSUME NEW A, NEW B, NEW C, NEW E, NEW rel \in [there : A, tag : B, stamp : C, assets : E], NEW n \in C, NEW assets \in E
  PROVE  [rel EXCEPT !.assets = assets, !.stamp = n] \in [there : A, tag : B, stamp : C, assets : E]
OBVIOUS

\* Each edit leaves a release of which the stamp tells whether the assets changed.
LEMMA PromotionEdits ==
  ASSUME Promotion!TypesOK, Promotion!Edit
  PROVE  /\ s4' \in [{"rc", "stable"} -> Promotion!Releases]
         /\ \A t \in {"rc", "stable"} : /\ s4'[t].stamp <= s20 + 1 /\ s4'[t].there = s4[t].there
                                        /\ s4'[t] = s4[t] \/ s4'[t].stamp = s20 + 1
                                             \/ (s4'[t].stamp = s4[t].stamp /\ s4'[t].assets = s4[t].assets)
<1> DEFINE Things == [name : {"payload", "manifest", "extra"}, bytes : Promotion!Manifests, id : Nat]
<1>1. PICK t \in {"rc", "stable"} :
        \/ \E x \in {"source", "moved"} : s4' = [s4 EXCEPT ![t].tag = x]
        \/ \E new \in Promotion!Edited(s4[t].assets) : s4' = [s4 EXCEPT ![t] = [@ EXCEPT !.assets = new, !.stamp = s20 + 1]]
  BY DEF Promotion!Edit
<1>2. /\ s4 \in [{"rc", "stable"} -> Promotion!Releases] /\ s20 \in Nat
      /\ \A u \in {"rc", "stable"} : s4[u].stamp \in Nat /\ s4[u].stamp <= s20
  BY DEF Promotion!TypesOK, Promotion!Releases
<1>3. Promotion!Edited(s4[t].assets) \subseteq SUBSET Things
  <2>1. /\ \A a \in s4[t].assets, b \in Promotion!Manifests : Promotion!Asset(a.name, b, s20 + 1) \in Things
        /\ Promotion!Asset("extra", "built", s20 + 1) \in Things /\ s4[t].assets \subseteq Things
    BY PromotionAssets
  <2> HIDE DEF Things
  <2> QED BY <2>1 DEF Promotion!Edited
<1>4. PICK new : /\ s4' = [s4 EXCEPT ![t] = new] /\ new \in Promotion!Releases /\ new.there = s4[t].there
                 /\ new.stamp = s20 + 1 \/ (new.stamp = s4[t].stamp /\ new.assets = s4[t].assets)
  <2>1. CASE \E x \in {"source", "moved"} : s4' = [s4 EXCEPT ![t].tag = x]
    <3>1. PICK x \in {"source", "moved"} : s4' = [s4 EXCEPT ![t] = [s4[t] EXCEPT !.tag = x]]
      BY <2>1
    <3>2. [s4[t] EXCEPT !.tag = x] \in Promotion!Releases
      BY <1>2 DEF Promotion!Releases
    <3>3. /\ [s4[t] EXCEPT !.tag = x].there = s4[t].there /\ [s4[t] EXCEPT !.tag = x].stamp = s4[t].stamp
          /\ [s4[t] EXCEPT !.tag = x].assets = s4[t].assets
      BY <1>2 DEF Promotion!Releases
    <3> QED BY <3>1, <3>2, <3>3
  <2>2. CASE \E new \in Promotion!Edited(s4[t].assets) : s4' = [s4 EXCEPT ![t] = [@ EXCEPT !.assets = new, !.stamp = s20 + 1]]
    <3>1. PICK assets \in Promotion!Edited(s4[t].assets) : s4' = [s4 EXCEPT ![t] = [s4[t] EXCEPT !.assets = assets, !.stamp = s20 + 1]]
      BY <2>2
    <3>4. assets \in SUBSET Things
      BY <1>3
    <3>2. [s4[t] EXCEPT !.assets = assets, !.stamp = s20 + 1] \in Promotion!Releases
      <4>1. s20 + 1 \in Nat /\ s4[t] \in Promotion!Releases
        BY <1>2
      <4> HIDE DEF Things
      <4> QED BY <4>1, <3>4, PromotionRecord DEF Promotion!Releases, Things
    <3>3. /\ [s4[t] EXCEPT !.assets = assets, !.stamp = s20 + 1].there = s4[t].there
          /\ [s4[t] EXCEPT !.assets = assets, !.stamp = s20 + 1].stamp = s20 + 1
      BY <1>2 DEF Promotion!Releases
    <3> QED BY <3>1, <3>2, <3>3
  <2> QED BY <1>1, <2>1, <2>2
<1>5. \A u \in {"rc", "stable"} : s4'[u] = IF u = t THEN new ELSE s4[u]
  BY <1>4, <1>2
<1>6. s4' \in [{"rc", "stable"} -> Promotion!Releases]
  BY <1>4, <1>2
<1> QED BY <1>2, <1>4, <1>5, <1>6

\* What a change leaves alone, whatever it is.
LEMMA PromotionChanges ==
  ASSUME Promotion!Change, Promotion!TypesOK
  PROVE  PromotionReader /\ s1' = s1 /\ s2' = s2 /\ s9' = s9 /\ s20' = s20 + 1 /\ s20' \in Nat
BY DEF Promotion!Change, Promotion!reader, PromotionReader, Promotion!TypesOK

LEMMA PromotionTypesKept ==
  ASSUME Promotion!TypesOK, PromotionReader, s1' = s1, s2' = s2, s9' = s9, s20' \in Nat,
         s4' \in [{"rc", "stable"} -> Promotion!Releases], \A t \in {"rc", "stable"} : s4'[t].stamp <= s20',
         s4[s2].there => s4'[s2].there,
         s5' \in [{"source", "promotion"} -> [attempt : Nat \ {0}, state : {"running", "success", "failure"}]],
         s6' \in [{"source", "promotion"} -> SUBSET [attempt : Nat, bytes : {"built", "rebuilt", "later"}]]
  PROVE  Promotion!TypesOK'
BY DEF Promotion!TypesOK, PromotionReader, Promotion!Manifests, Promotion!Releases, Promotion!None, Promotion!Kinds

LEMMA PromotionEvidences ==
  ASSUME NEW n \in Nat
  PROVE  Promotion!Evidence(n) \in [attempt : Nat, bytes : {"built", "rebuilt", "later"}]
BY DEF Promotion!Evidence, Promotion!Made

LEMMA PromotionReleaseChanges ==
  ASSUME Promotion!TypesOK, Promotion!Edit \/ Promotion!PublishStable
  PROVE  Promotion!TypesOK' /\ PromotionOnward /\ PromotionReader
<1>1. Promotion!Change /\ Promotion!Observe /\ s5' = s5 /\ s6' = s6
  BY DEF Promotion!Edit, Promotion!PublishStable
<1>2. PromotionReader /\ s1' = s1 /\ s2' = s2 /\ s9' = s9 /\ s20' = s20 + 1 /\ s20' \in Nat
  BY <1>1, PromotionChanges
<1>3. s18 \subseteq s18' /\ s19 \subseteq s19'
  BY <1>1, PromotionObserves
<1>4. /\ s4 \in [{"rc", "stable"} -> Promotion!Releases] /\ s20 \in Nat /\ s2 \in {"rc", "stable"}
      /\ \A t \in {"rc", "stable"} : s4[t].stamp \in Nat /\ s4[t].stamp <= s20
      /\ s5 \in [{"source", "promotion"} -> [attempt : Nat \ {0}, state : {"running", "success", "failure"}]]
      /\ s6 \in [{"source", "promotion"} -> SUBSET [attempt : Nat, bytes : {"built", "rebuilt", "later"}]]
  BY DEF Promotion!TypesOK, Promotion!Releases
<1>5. /\ s4' \in [{"rc", "stable"} -> Promotion!Releases] /\ \A t \in {"rc", "stable"} : s4'[t].stamp <= s20'
      /\ s4[s2].there => Promotion!Older(s4[s2], s4'[s2])
  <2>1. CASE Promotion!Edit
    BY <2>1, <1>2, <1>4, PromotionEdits DEF Promotion!Older
  <2>2. CASE Promotion!PublishStable
    <3>1. ~s4["stable"].there /\ s4' = [s4 EXCEPT !["stable"] = Promotion!Published]
      BY <2>2 DEF Promotion!PublishStable
    <3>2. Promotion!Published \in Promotion!Releases /\ Promotion!Published.stamp = 0
      BY DEF Promotion!Published, Promotion!Releases, Promotion!Asset, Promotion!Manifests
    <3>3. s4[s2].there => s4'[s2] = s4[s2]
      BY <3>1, <1>4
    <3> QED BY <3>1, <3>2, <3>3, <1>2, <1>4 DEF Promotion!Older
  <2> QED BY <2>1, <2>2
<1>6. Promotion!TypesOK'
  BY <1>1, <1>2, <1>4, <1>5, PromotionTypesKept DEF Promotion!Older
<1>7. \A r \in {"source", "promotion"} : s5'[r].attempt >= s5[r].attempt
  BY <1>1, <1>4
<1> QED BY <1>1, <1>2, <1>3, <1>5, <1>6, <1>7 DEF PromotionOnward

LEMMA PromotionRunChanges ==
  ASSUME Promotion!TypesOK, NEW r \in {"source", "promotion"}, Promotion!Rerun(r) \/ Promotion!RunEnds(r) \/ Promotion!Expire(r)
  PROVE  Promotion!TypesOK' /\ PromotionOnward /\ PromotionReader
<1> DEFINE Runs == [attempt : Nat \ {0}, state : {"running", "success", "failure"}]
           Artifacts == [attempt : Nat, bytes : {"built", "rebuilt", "later"}]
<1>1. Promotion!Change /\ Promotion!Observe /\ s4' = s4
  BY DEF Promotion!Rerun, Promotion!RunEnds, Promotion!Expire
<1>2. PromotionReader /\ s1' = s1 /\ s2' = s2 /\ s9' = s9 /\ s20' = s20 + 1 /\ s20' \in Nat
  BY <1>1, PromotionChanges
<1>3. s18 \subseteq s18' /\ s19 \subseteq s19'
  BY <1>1, PromotionObserves
<1>4. /\ s4 \in [{"rc", "stable"} -> Promotion!Releases] /\ s20 \in Nat /\ s2 \in {"rc", "stable"}
      /\ \A t \in {"rc", "stable"} : s4[t].stamp \in Nat /\ s4[t].stamp <= s20
      /\ s5 \in [{"source", "promotion"} -> Runs] /\ s6 \in [{"source", "promotion"} -> SUBSET Artifacts]
  BY DEF Promotion!TypesOK, Promotion!Releases
<1>5. /\ s4' \in [{"rc", "stable"} -> Promotion!Releases] /\ \A t \in {"rc", "stable"} : s4'[t].stamp <= s20'
      /\ s4[s2].there => Promotion!Older(s4[s2], s4'[s2])
  BY <1>1, <1>2, <1>4 DEF Promotion!Older
<1>6. /\ s5' \in [{"source", "promotion"} -> Runs] /\ s6' \in [{"source", "promotion"} -> SUBSET Artifacts]
      /\ \A q \in {"source", "promotion"} :
           /\ s5'[q].attempt >= s5[q].attempt
           /\ s5'[q].attempt = s5[q].attempt /\ s5[q].state = "success" => s5'[q].state = "success"
           /\ \A a \in s6'[q] : a \in s6[q] \/ (s5[q].state = "running" /\ a = Promotion!Evidence(s5[q].attempt))
  <2>1. CASE Promotion!Rerun(r)
    <3>1. s5' = [s5 EXCEPT ![r] = [attempt |-> s5[r].attempt + 1, state |-> "running"]] /\ s6' = s6
      BY <2>1 DEF Promotion!Rerun
    <3> QED BY <3>1, <1>4
  <2>2. CASE Promotion!RunEnds(r)
    <3>1. PICK s \in {"success", "failure"} : s5' = [s5 EXCEPT ![r].state = s]
      BY <2>2 DEF Promotion!RunEnds
    <3>2. s5[r].state = "running" /\ s6' = [s6 EXCEPT ![r] = s6[r] \cup {Promotion!Evidence(s5[r].attempt)}]
      BY <2>2 DEF Promotion!RunEnds
    <3>3. Promotion!Evidence(s5[r].attempt) \in Artifacts
      BY <1>4, PromotionEvidences
    <3>4. s5' \in [{"source", "promotion"} -> Runs]
      BY <3>1, <1>4
    <3>5. \A q \in {"source", "promotion"} :
            /\ s5'[q].attempt = s5[q].attempt /\ s5[q].attempt \in Nat
            /\ s5[q].state = "success" => s5'[q].state = "success"
      BY <3>1, <3>2, <1>4
    <3>6. s6' \in [{"source", "promotion"} -> SUBSET Artifacts]
      <4> HIDE DEF Artifacts
      <4> QED BY <3>2, <3>3, <1>4
    <3>7. \A q \in {"source", "promotion"} : \A a \in s6'[q] :
            a \in s6[q] \/ (s5[q].state = "running" /\ a = Promotion!Evidence(s5[q].attempt))
      BY <3>2, <1>4
    <3> QED BY <3>4, <3>5, <3>6, <3>7
  <2>3. CASE Promotion!Expire(r)
    <3>1. PICK a \in s6[r] : s6' = [s6 EXCEPT ![r] = s6[r] \ {a}]
      BY <2>3 DEF Promotion!Expire
    <3>2. s5' = s5
      BY <2>3 DEF Promotion!Expire
    <3>3. \A q \in {"source", "promotion"} : s5[q].attempt \in Nat
      BY <1>4
    <3>4. s6' \in [{"source", "promotion"} -> SUBSET Artifacts] /\ \A q \in {"source", "promotion"} : s6'[q] \subseteq s6[q]
      <4> HIDE DEF Artifacts
      <4> QED BY <3>1, <1>4
    <3> QED BY <3>2, <3>3, <3>4, <1>4
  <2> QED BY <2>1, <2>2, <2>3
<1>7. Promotion!TypesOK'
  BY <1>2, <1>5, <1>6, PromotionTypesKept DEF Promotion!Older
<1> QED BY <1>2, <1>3, <1>5, <1>6, <1>7 DEF PromotionOnward

LEMMA PromotionOtherChanges ==
  ASSUME Promotion!TypesOK, Promotion!Push \/ Promotion!Administer
  PROVE  Promotion!TypesOK' /\ PromotionOnward /\ PromotionReader
<1>1. Promotion!Change /\ Promotion!Observe /\ s4' = s4 /\ s5' = s5 /\ s6' = s6
  BY DEF Promotion!Push, Promotion!Administer
<1>2. PromotionReader /\ s1' = s1 /\ s2' = s2 /\ s9' = s9 /\ s20' = s20 + 1 /\ s20' \in Nat
  BY <1>1, PromotionChanges
<1>3. s18 \subseteq s18' /\ s19 \subseteq s19'
  BY <1>1, PromotionObserves
<1>4. /\ s4 \in [{"rc", "stable"} -> Promotion!Releases] /\ s20 \in Nat /\ s2 \in {"rc", "stable"}
      /\ \A t \in {"rc", "stable"} : s4[t].stamp \in Nat /\ s4[t].stamp <= s20
      /\ s5 \in [{"source", "promotion"} -> [attempt : Nat \ {0}, state : {"running", "success", "failure"}]]
      /\ s6 \in [{"source", "promotion"} -> SUBSET [attempt : Nat, bytes : {"built", "rebuilt", "later"}]]
  BY DEF Promotion!TypesOK, Promotion!Releases
<1>5. /\ \A t \in {"rc", "stable"} : s4'[t].stamp <= s20'
      /\ s4[s2].there => Promotion!Older(s4[s2], s4'[s2])
  BY <1>1, <1>2, <1>4 DEF Promotion!Older
<1>6. Promotion!TypesOK'
  BY <1>1, <1>2, <1>4, <1>5, PromotionTypesKept DEF Promotion!Older
<1>7. \A r \in {"source", "promotion"} : s5'[r].attempt >= s5[r].attempt
  BY <1>1, <1>4
<1> QED BY <1>1, <1>2, <1>3, <1>5, <1>6, <1>7 DEF PromotionOnward

\* A release that is older than the present one stays so, and a stamp that is
\* still there was there all the time.
LEMMA PromotionOlderKept ==
  ASSUME Promotion!TypesOK, Promotion!TypesOK', PromotionOnward, NEW s \in Promotion!Releases, Promotion!Older(s, s4[s2])
  PROVE  /\ Promotion!Older(s, s4'[s2']) /\ s2' = s2
         /\ s4'[s2'].stamp = s.stamp => s4[s2].stamp = s.stamp
<1>1. s2' = s2 /\ s4[s2].there /\ Promotion!Older(s4[s2], s4'[s2])
  BY DEF PromotionOnward, Promotion!Older
<1>2. s.stamp \in Nat /\ s4[s2].stamp \in Nat
  BY DEF Promotion!TypesOK, Promotion!Releases
<1>3. s4'[s2].stamp \in Nat
  BY <1>1 DEF Promotion!TypesOK, Promotion!Releases
<1> QED BY <1>1, <1>2, <1>3 DEF Promotion!Older

LEMMA PromotionSeenKept ==
  ASSUME Promotion!TypesOK, Promotion!TypesOK', PromotionOnward, NEW r \in {"source", "promotion"}, NEW n \in Nat, Promotion!Seen(r, n)
  PROVE  Promotion!Seen(r, n)' /\ (s5'[r].attempt = n => s5[r].attempt = n)
<1>1. s5[r].attempt \in Nat /\ s5'[r].attempt \in Nat /\ s5'[r].attempt >= s5[r].attempt
  BY DEF Promotion!TypesOK, PromotionOnward
<1> QED BY <1>1 DEF Promotion!Seen, PromotionOnward

\* The attempt that a manifest names has ended: none of its artifacts is yet to come.
LEMMA PromotionRetainedBefore ==
  ASSUME Promotion!TypesOK, Promotion!TypesOK', PromotionOnward, NEW b \in Promotion!Manifests, Promotion!Seen("source", Promotion!Names(b)),
         \E a \in s6'["source"] : a.bytes = b
  PROVE  \E a \in s6["source"] : a.bytes = b
<1>1. PICK a \in s6'["source"] : a.bytes = b
  OBVIOUS
<1>2. a \in s6["source"] \/ (s5["source"].state = "running" /\ a = Promotion!Evidence(s5["source"].attempt))
  BY DEF PromotionOnward
<1>3. ASSUME a = Promotion!Evidence(s5["source"].attempt)
      PROVE  s5["source"].attempt = Promotion!Names(b)
  BY <1>1, <1>3 DEF Promotion!Evidence, Promotion!Made, Promotion!Names, Promotion!Manifests
<1>4. ~(s5["source"].state = "running" /\ a = Promotion!Evidence(s5["source"].attempt))
  BY <1>3 DEF Promotion!Seen
<1> QED BY <1>1, <1>2, <1>4

\* Neither is one of the promotion that was read first.
LEMMA PromotionCopiedBefore ==
  ASSUME Promotion!TypesOK, Promotion!TypesOK', PromotionOnward, s15' = s15, Promotion!Seen("promotion", s15), NEW b, Promotion!Copied(b)'
  PROVE  Promotion!Copied(b)
<1>1. s15 \in Nat
  BY DEF Promotion!TypesOK
<1>2. s5["promotion"].attempt = s15 /\ s5["promotion"].state = "success" /\ b = "built" /\ s6'["promotion"] # {}
  BY <1>1, PromotionSeenKept DEF Promotion!Copied, Promotion!Seen
<1>3. s6'["promotion"] \subseteq s6["promotion"]
  BY <1>2 DEF PromotionOnward
<1> QED BY <1>2, <1>3 DEF Promotion!Copied

LEMMA PromotionOneReceiptKept ==
  ASSUME Promotion!TypesOK, Promotion!TypesOK', PromotionOnward, s15' = s15, Promotion!Seen("promotion", s15), Promotion!OneReceipt
  PROVE  Promotion!OneReceipt'
<1>1. SUFFICES ASSUME s5'["promotion"].attempt = s15
               PROVE  \A a, b \in s6'["promotion"] : a = b /\ a.attempt = s15
  BY DEF Promotion!OneReceipt
<1>2. s15 \in Nat
  BY DEF Promotion!TypesOK
<1>3. s5["promotion"].attempt = s15 /\ s5["promotion"].state = "success"
  BY <1>1, <1>2, PromotionSeenKept DEF Promotion!Seen
<1>4. s6'["promotion"] \subseteq s6["promotion"]
  BY <1>3 DEF PromotionOnward
<1> QED BY <1>3, <1>4 DEF Promotion!OneReceipt

\* A witness stays one.
LEMMA PromotionWitnessKept ==
  ASSUME Promotion!TypesOK, Promotion!TypesOK', PromotionOnward, s15' = s15, NEW b, Promotion!Witnessed(b),
         Promotion!Promoted => Promotion!Seen("promotion", s15)
  PROVE  Promotion!Witnessed(b)'
<1>1. Promotion!Promoted' = Promotion!Promoted /\ s18 \subseteq s18'
  BY DEF PromotionOnward, Promotion!Promoted
<1>2. Promotion!Promoted /\ Promotion!Copied(b)' => Promotion!Copied(b)
  BY PromotionCopiedBefore
<1> QED BY <1>1, <1>2 DEF Promotion!Witnessed

LEMMA PromotionVouchedKept ==
  ASSUME Promotion!TypesOK, Promotion!TypesOK', PromotionOnward, s15' = s15, NEW s \in Promotion!Releases, NEW b \in Promotion!Manifests,
         Promotion!Older(s, s4[s2]),
         Promotion!Promoted => Promotion!Seen("promotion", s15)
  PROVE  /\ Promotion!VouchedFor(s, b) => Promotion!VouchedFor(s, b)'
         /\ Promotion!Seen("source", Promotion!Names(b)) /\ Promotion!Vouched(s, b) => Promotion!Vouched(s, b)'
         /\ Promotion!ReadFrom(s, b) => Promotion!ReadFrom(s, b)'
<1>1. Promotion!Kept(s)' => Promotion!Kept(s)
  BY PromotionOlderKept DEF Promotion!Kept
<1>2. Promotion!VouchedFor(s, b) => Promotion!VouchedFor(s, b)'
  BY <1>1, PromotionWitnessKept DEF Promotion!VouchedFor
<1>3. Promotion!Seen("source", Promotion!Names(b)) /\ Promotion!Retained(b)' => Promotion!Retained(b)
  BY PromotionRetainedBefore DEF Promotion!Retained
<1>4. Promotion!Seen("source", Promotion!Names(b)) /\ Promotion!Vouched(s, b) => Promotion!Vouched(s, b)'
  BY <1>2, <1>3 DEF Promotion!Vouched
<1>5. Promotion!ReadFrom(s, b) => Promotion!ReadFrom(s, b)'
  BY <1>1 DEF Promotion!ReadFrom
<1> QED BY <1>2, <1>4, <1>5

\* The looks at a candidate, undisturbed.
LEMMA PromotionOwnKept ==
  ASSUME Promotion!TypesOK, Promotion!TypesOK', PromotionOnward, PromotionReader, s1 # "resolve",
         NEW n1 \in Nat, NEW n2 \in Nat, NEW n3 \in Nat, NEW n4 \in Nat, NEW n5 \in Nat, NEW n6 \in Nat, NEW n7 \in Nat,
         n1 < n2, n2 < n3, n3 < n4, n4 < n5, n5 < n6, n6 < n7,
         Promotion!OwnLooks(n1, n2, n3, n4, n5, n6, n7)
  PROVE  Promotion!OwnLooks(n1, n2, n3, n4, n5, n6, n7)'
<1>1. s3' = s3 /\ s11' = s11 /\ s13' = s13 /\ s15' = s15 /\ s17' = s17 /\ s3 \in Nat
  BY DEF PromotionReader, Promotion!TypesOK
<1>2. s11 \in Promotion!Releases /\ s13 \in Promotion!Manifests \cup {Promotion!None} /\ ~Promotion!Promoted
  BY DEF Promotion!TypesOK, Promotion!Promoted
<1>3. s3 > n1 => Promotion!Older(s11, s4[s2]) /\ Promotion!Older(s11, s4'[s2'])
  BY <1>2, PromotionOlderKept DEF Promotion!OwnLooks
<1>4. s3 > n2 => s13 \in Promotion!Manifests /\ Promotion!ReadFrom(s11, s13)'
  <2>1. SUFFICES ASSUME s3 > n2 PROVE s13 \in Promotion!Manifests /\ Promotion!ReadFrom(s11, s13)'
    OBVIOUS
  <2>2. Promotion!Older(s11, s4[s2]) /\ s13 \in Promotion!Manifests /\ Promotion!ReadFrom(s11, s13)
    BY <2>1, <1>1, <1>2, <1>3 DEF Promotion!OwnLooks
  <2>3. Promotion!ReadFrom(s11, s13)'
    BY <2>2, <1>1, <1>2, PromotionVouchedKept DEF Promotion!ReadFrom, Promotion!Kept
  <2> QED BY <2>2, <2>3
<1>5. s3 > n4 => Promotion!Seen("source", Promotion!Names(s13))' /\ Promotion!Vouched(s11, s13)'
  <2>1. SUFFICES ASSUME s3 > n4 PROVE Promotion!Seen("source", Promotion!Names(s13))' /\ Promotion!Vouched(s11, s13)'
    OBVIOUS
  <2>2. Promotion!Older(s11, s4[s2]) /\ s13 \in Promotion!Manifests
        /\ Promotion!Seen("source", Promotion!Names(s13)) /\ Promotion!Vouched(s11, s13)
    BY <2>1, <1>1, <1>3, <1>4 DEF Promotion!OwnLooks
  <2>3. Promotion!Names(s13) \in Nat
    BY DEF Promotion!Names
  <2>4. Promotion!Seen("source", Promotion!Names(s13))'
    BY <2>2, <2>3, <1>1, PromotionSeenKept DEF Promotion!Seen, Promotion!Names
  <2>5. Promotion!Vouched(s11, s13)'
    BY <2>2, <1>1, <1>2, PromotionVouchedKept DEF Promotion!Vouched, Promotion!VouchedFor, Promotion!Kept, Promotion!Retained, Promotion!Witnessed, Promotion!Promoted, Promotion!Copied
  <2> QED BY <2>4, <2>5
<1>6. s3 > n5 => Promotion!VouchedFor(s11, s13)'
  <2>1. SUFFICES ASSUME s3 > n5 PROVE Promotion!VouchedFor(s11, s13)'
    OBVIOUS
  <2>2. Promotion!Older(s11, s4[s2]) /\ s13 \in Promotion!Manifests /\ Promotion!VouchedFor(s11, s13)
    BY <2>1, <1>1, <1>3, <1>4 DEF Promotion!OwnLooks
  <2> QED
    BY <2>2, <1>1, <1>2, PromotionVouchedKept DEF Promotion!VouchedFor, Promotion!Kept, Promotion!Witnessed, Promotion!Promoted, Promotion!Copied
<1>7. s18 \subseteq s18' /\ s19 \subseteq s19'
  BY DEF PromotionOnward
<1> QED BY <1>1, <1>3, <1>4, <1>5, <1>6, <1>7 DEF Promotion!OwnLooks

\* The looks that reuse a release, undisturbed.
LEMMA PromotionReuseKept ==
  ASSUME Promotion!TypesOK, Promotion!TypesOK', PromotionOnward, PromotionReader, NEW p \in Nat,
         s3 > p /\ Promotion!Promoted => Promotion!Seen("promotion", s15),
         Promotion!ReuseLooks(p)
  PROVE  Promotion!ReuseLooks(p)'
<1>1. s3' = s3 /\ s12' = s12 /\ s14' = s14 /\ s15' = s15 /\ s1' = s1 /\ s3 \in Nat
  BY DEF PromotionReader, PromotionOnward, Promotion!TypesOK
<1>2. s12 \in Promotion!Releases /\ s14 \in Promotion!Manifests \cup {Promotion!None}
  BY DEF Promotion!TypesOK
<1>3. s3 > p + 1 => Promotion!Older(s12, s4[s2]) /\ Promotion!Older(s12, s4'[s2'])
  BY <1>2, PromotionOlderKept DEF Promotion!ReuseLooks
<1>4. s3 > p + 2 => s14 \in Promotion!Manifests /\ Promotion!ReadFrom(s12, s14)'
  <2>1. SUFFICES ASSUME s3 > p + 2 PROVE s14 \in Promotion!Manifests /\ Promotion!ReadFrom(s12, s14)'
    OBVIOUS
  <2>2. /\ Promotion!Older(s12, s4[s2]) /\ s14 \in Promotion!Manifests /\ Promotion!ReadFrom(s12, s14)
        /\ Promotion!Promoted => Promotion!Seen("promotion", s15)
    BY <2>1, <1>1, <1>2, <1>3 DEF Promotion!ReuseLooks
  <2>3. Promotion!ReadFrom(s12, s14)'
    BY <2>2, <1>1, <1>2, PromotionVouchedKept DEF Promotion!ReadFrom, Promotion!Kept
  <2> QED BY <2>2, <2>3
<1>5. s3 > p + 3 => Promotion!Seen("source", Promotion!Names(s14))' /\ Promotion!Vouched(s12, s14)'
  <2>1. SUFFICES ASSUME s3 > p + 3 PROVE Promotion!Seen("source", Promotion!Names(s14))' /\ Promotion!Vouched(s12, s14)'
    OBVIOUS
  <2>2. /\ Promotion!Older(s12, s4[s2]) /\ s14 \in Promotion!Manifests
        /\ Promotion!Seen("source", Promotion!Names(s14)) /\ Promotion!Vouched(s12, s14)
        /\ Promotion!Promoted => Promotion!Seen("promotion", s15)
    BY <2>1, <1>1, <1>3, <1>4 DEF Promotion!ReuseLooks
  <2>3. Promotion!Names(s14) \in Nat
    BY DEF Promotion!Names
  <2>4. Promotion!Seen("source", Promotion!Names(s14))'
    BY <2>2, <2>3, <1>1, PromotionSeenKept DEF Promotion!Seen, Promotion!Names
  <2>5. Promotion!Vouched(s12, s14)'
    BY <2>2, <1>1, <1>2, PromotionVouchedKept
    DEF Promotion!Vouched, Promotion!VouchedFor, Promotion!Kept, Promotion!Retained, Promotion!Witnessed, Promotion!Promoted, Promotion!Copied
  <2> QED BY <2>4, <2>5
<1>6. s3 > p + 4 => Promotion!VouchedFor(s12, s14)'
  <2>1. SUFFICES ASSUME s3 > p + 4 PROVE Promotion!VouchedFor(s12, s14)'
    OBVIOUS
  <2>2. /\ Promotion!Older(s12, s4[s2]) /\ s14 \in Promotion!Manifests /\ Promotion!VouchedFor(s12, s14)
        /\ Promotion!Promoted => Promotion!Seen("promotion", s15)
    BY <2>1, <1>1, <1>3, <1>4 DEF Promotion!ReuseLooks
  <2> QED
    BY <2>2, <1>1, <1>2, PromotionVouchedKept DEF Promotion!VouchedFor, Promotion!Kept, Promotion!Witnessed, Promotion!Promoted, Promotion!Copied
<1>7. s18 \subseteq s18' /\ s19 \subseteq s19'
  BY DEF PromotionOnward
<1> QED BY <1>1, <1>3, <1>4, <1>5, <1>6, <1>7 DEF Promotion!ReuseLooks

LEMMA PromotionWitnessOf ==
  ASSUME Promotion!TypesOK, Promotion!TypesOK', PromotionOnward, PromotionReader,
         Promotion!Promoted => Promotion!Seen("promotion", s15), Promotion!Witnessed(s14)
  PROVE  Promotion!Witnessed(s14)'
<1>1. s14' = s14 /\ s15' = s15
  BY DEF PromotionReader
<1> QED BY <1>1, PromotionWitnessKept DEF Promotion!Witnessed, Promotion!Promoted, Promotion!Copied

LEMMA PromotionSameKept ==
  ASSUME Promotion!TypesOK, Promotion!TypesOK', PromotionOnward, PromotionReader, NEW n \in Nat,
         s3 > n /\ Promotion!Promoted => Promotion!Seen("promotion", s15), Promotion!SameLook(n)
  PROVE  Promotion!SameLook(n)'
<1>1. s3' = s3 /\ s13' = s13 /\ s14' = s14 /\ s19 \subseteq s19'
  BY DEF PromotionReader, PromotionOnward
<1>2. s3 > n => Promotion!Witnessed(s14)'
  BY PromotionWitnessOf DEF Promotion!SameLook
<1> QED BY <1>1, <1>2 DEF Promotion!SameLook

LEMMA PromotionPromotionKept ==
  ASSUME Promotion!TypesOK, Promotion!TypesOK', PromotionOnward, PromotionReader, Promotion!PromotionLooks
  PROVE  Promotion!PromotionLooks'
<1>1. s3' = s3 /\ s13' = s13 /\ s14' = s14 /\ s15' = s15 /\ s18 \subseteq s18' /\ s19 \subseteq s19'
  BY DEF PromotionReader, PromotionOnward
<1>2. s15 \in Nat /\ s3 \in Nat
  BY DEF Promotion!TypesOK
<1>3. s3 > 11 => Promotion!Seen("promotion", s15) /\ Promotion!Seen("promotion", s15)'
  BY <1>1, <1>2, PromotionSeenKept DEF Promotion!PromotionLooks, Promotion!Seen
<1>4. s3 > 12 => Promotion!OneReceipt'
  BY <1>1, <1>2, <1>3, PromotionOneReceiptKept DEF Promotion!PromotionLooks
<1>5. s3 > 11 /\ s5'["promotion"].attempt = s15 => s5["promotion"].attempt = s15
  BY <1>2, <1>3, PromotionSeenKept
<1> QED BY <1>1, <1>2, <1>3, <1>4, <1>5 DEF Promotion!PromotionLooks

\* Whatever changes around a reader, what its looks have shown stays true.
LEMMA PromotionUndisturbed ==
  ASSUME Promotion!Inv, Promotion!TypesOK', PromotionOnward, PromotionReader
  PROVE  Promotion!Inv'
<1>0. Promotion!TypesOK
  BY DEF Promotion!Inv
<1>1. /\ s1' = s1 /\ s2' = s2 /\ s9' = s9 /\ s3' = s3 /\ s3 \in Nat /\ s18 \subseteq s18' /\ s19 \subseteq s19'
      /\ s11' = s11 /\ s12' = s12 /\ s13' = s13 /\ s14' = s14 /\ s15' = s15 /\ s16' = s16 /\ s17' = s17
  BY <1>0 DEF PromotionReader, PromotionOnward, Promotion!TypesOK
<1>2. s1 = "candidate" => Promotion!CandidateOK'
  BY <1>1 DEF Promotion!Inv, Promotion!CandidateOK
<1>3. s1 = "promote" => Promotion!PromoteOK'
  <2> SUFFICES ASSUME s1 = "promote" PROVE Promotion!PromoteOK'
    OBVIOUS
  <2>1. Promotion!PromoteOK
    BY DEF Promotion!Inv
  <2>2. Promotion!OwnLooks(2, 3, 6, 7, 9, 13, 14)'
    BY <2>1, <1>0, PromotionOwnKept DEF Promotion!PromoteOK
  <2> QED BY <2>1, <2>2, <1>1 DEF Promotion!PromoteOK
<1>4. s1 = "preflight" => Promotion!PreflightOK'
  <2> SUFFICES ASSUME s1 = "preflight" PROVE Promotion!PreflightOK'
    OBVIOUS
  <2>1. Promotion!PreflightOK
    BY DEF Promotion!Inv
  <2>2. Promotion!OwnLooks(2, 3, 6, 7, 8, 10, 11)'
    BY <2>1, <1>0, PromotionOwnKept DEF Promotion!PreflightOK
  <2> QED BY <2>1, <2>2, <1>1 DEF Promotion!PreflightOK, Promotion!SameRunner
<1>5. s1 = "record" => Promotion!RecordOK'
  <2> SUFFICES ASSUME s1 = "record" PROVE Promotion!RecordOK'
    OBVIOUS
  <2>1. Promotion!RecordOK /\ ~Promotion!Promoted
    BY DEF Promotion!Inv, Promotion!Promoted
  <2>2. Promotion!ReuseLooks(5)' /\ Promotion!SameLook(11)'
    BY <2>1, <1>0, PromotionReuseKept, PromotionSameKept DEF Promotion!RecordOK
  <2>3. s3 > 3 => Promotion!Older(s11, s4'[s2'])
    BY <2>1, <1>0, PromotionOlderKept DEF Promotion!RecordOK, Promotion!TypesOK
  <2> QED BY <2>1, <2>2, <2>3, <1>1 DEF Promotion!RecordOK
<1>6. s1 = "reuse" => Promotion!ReuseOK'
  <2> SUFFICES ASSUME s1 = "reuse" PROVE Promotion!ReuseOK'
    OBVIOUS
  <2>1. Promotion!ReuseOK /\ ~Promotion!Promoted
    BY DEF Promotion!Inv, Promotion!Promoted
  <2>2. Promotion!ReuseLooks(1)'
    BY <2>1, <1>0, PromotionReuseKept DEF Promotion!ReuseOK
  <2>3. s3 > 6 => Promotion!Witnessed(s14)'
    BY <2>1, <1>0, PromotionWitnessOf DEF Promotion!ReuseOK
  <2> QED BY <2>1, <2>2, <2>3, <1>1 DEF Promotion!ReuseOK
<1>7. s1 = "resolve" => Promotion!ResolveOK'
  <2> SUFFICES ASSUME s1 = "resolve" PROVE Promotion!ResolveOK'
    OBVIOUS
  <2>1. Promotion!ResolveOK
    BY DEF Promotion!Inv
  <2> DEFINE n == IF s2 = "stable" THEN 14 ELSE 11
  <2>2. n \in Nat /\ n >= 11 /\ n + 6 \in Nat /\ n' = n
    BY <1>1
  <2>3. s3 > n /\ Promotion!Promoted => Promotion!Seen("promotion", s15)
    BY <2>1, <1>1 DEF Promotion!ResolveOK, Promotion!PromotionLooks, Promotion!Promoted
  <2>4. Promotion!ReuseLooks(n) /\ Promotion!SameLook(n + 6)
    BY <2>1 DEF Promotion!ResolveOK
  <2> HIDE DEF n
  <2>5. s3 > n + 6 /\ Promotion!Promoted => Promotion!Seen("promotion", s15)
    BY <2>2, <2>3, <1>1
  <2>6. \A k \in Nat : k = n => Promotion!ReuseLooks(k)'
    BY <2>3, <2>4, <1>0, PromotionReuseKept
  <2>7. \A k \in Nat : k = n + 6 => Promotion!SameLook(k)'
    BY <2>4, <2>5, <1>0, PromotionSameKept
  <2>8. s3 > 10 => Promotion!Older(s11, s4'[s2'])
    BY <2>1, <1>0, PromotionOlderKept DEF Promotion!ResolveOK, Promotion!TypesOK
  <2>9. s2 = "stable" => Promotion!PromotionLooks'
    BY <2>1, <1>0, PromotionPromotionKept DEF Promotion!ResolveOK
  <2>10. CASE s2 = "stable"
    <3>1. Promotion!ReuseLooks(14)' /\ Promotion!SameLook(20)'
      BY <2>6, <2>7, <2>10 DEF n
    <3> QED BY <3>1, <2>1, <2>8, <2>9, <2>10, <1>1 DEF Promotion!ResolveOK
  <2>11. CASE s2 # "stable"
    <3>1. Promotion!ReuseLooks(11)' /\ Promotion!SameLook(17)'
      BY <2>6, <2>7, <2>11 DEF n
    <3> QED BY <3>1, <2>1, <2>8, <2>11, <1>1 DEF Promotion!ResolveOK
  <2> QED BY <2>10, <2>11
<1> QED BY <1>1, <1>2, <1>3, <1>4, <1>5, <1>6, <1>7 DEF Promotion!Inv

\* The order of the looks of each reader, look by look.
LEMMA PromotionCandidateSteps ==
  ASSUME s1 = "candidate"
  PROVE  /\ (Promotion!Running => s3 \in 1..6) /\ (Promotion!Accepted => s3 = 7)
         /\ Promotion!Steps[1] = "policy" /\ Promotion!Steps[2] = "ancestry" /\ Promotion!Steps[3] = "newest"
         /\ Promotion!Steps[4] = "absent" /\ Promotion!Steps[5] = "stage" /\ Promotion!Steps[6] = "newest"
<1>1. Promotion!Steps = Promotion!CandidateFirst \o <<"newest">>
  BY Zenon DEF Promotion!Steps
<1>2. Len(Promotion!Steps) = 6
  BY <1>1 DEF Promotion!CandidateFirst
<1>3. /\ Promotion!Steps[1] = "policy" /\ Promotion!Steps[2] = "ancestry" /\ Promotion!Steps[3] = "newest"
      /\ Promotion!Steps[4] = "absent" /\ Promotion!Steps[5] = "stage" /\ Promotion!Steps[6] = "newest"
  BY <1>1 DEF Promotion!CandidateFirst
<1> QED BY <1>2, <1>3 DEF Promotion!Running, Promotion!Accepted

LEMMA PromotionPromoteSteps ==
  ASSUME s1 = "promote"
  PROVE  /\ (Promotion!Running => s3 \in 1..17) /\ (Promotion!Accepted => s3 = 18)
         /\ Promotion!Steps[1] = "reviewers" /\ Promotion!Steps[2] = "snapshot" /\ Promotion!Steps[3] = "manifest"
         /\ Promotion!Steps[4] = "policy" /\ Promotion!Steps[5] = "fuzzing" /\ Promotion!Steps[6] = "tag"
         /\ Promotion!Steps[7] = "run" /\ Promotion!Steps[8] = "ancestry" /\ Promotion!Steps[9] = "evidence"
         /\ Promotion!Steps[10] = "absent" /\ Promotion!Steps[11] = "inventory" /\ Promotion!Steps[12] = "workflows"
         /\ Promotion!Steps[13] = "download" /\ Promotion!Steps[14] = "same" /\ Promotion!Steps[15] = "run"
         /\ Promotion!Steps[16] = "reviewers" /\ Promotion!Steps[17] = "workflows"
<1>1. Promotion!Steps = Promotion!PromoteFirst \o Promotion!PromoteAgain
  BY Zenon DEF Promotion!Steps
<1>2. Len(Promotion!Steps) = 17
  BY <1>1 DEF Promotion!PromoteFirst, Promotion!PromoteAgain
<1>3. /\ Promotion!Steps[1] = "reviewers" /\ Promotion!Steps[2] = "snapshot" /\ Promotion!Steps[3] = "manifest"
      /\ Promotion!Steps[4] = "policy" /\ Promotion!Steps[5] = "fuzzing" /\ Promotion!Steps[6] = "tag"
      /\ Promotion!Steps[7] = "run" /\ Promotion!Steps[8] = "ancestry" /\ Promotion!Steps[9] = "evidence"
      /\ Promotion!Steps[10] = "absent" /\ Promotion!Steps[11] = "inventory" /\ Promotion!Steps[12] = "workflows"
      /\ Promotion!Steps[13] = "download" /\ Promotion!Steps[14] = "same" /\ Promotion!Steps[15] = "run"
      /\ Promotion!Steps[16] = "reviewers" /\ Promotion!Steps[17] = "workflows"
  BY <1>1 DEF Promotion!PromoteFirst, Promotion!PromoteAgain
<1> QED BY <1>2, <1>3 DEF Promotion!Running, Promotion!Accepted

LEMMA PromotionRecordSteps ==
  ASSUME s1 = "record"
  PROVE  /\ (Promotion!Running => s3 \in 1..11) /\ (Promotion!Accepted => s3 = 12)
         /\ Promotion!Steps[1] = "rcManifest" /\ Promotion!Steps[2] = "policy" /\ Promotion!Steps[3] = "snapshot"
         /\ Promotion!Steps[4] = "manifest" /\ Promotion!Steps[5] = "copied" /\ Promotion!Steps[6] = "reuseSnapshot"
         /\ Promotion!Steps[7] = "reuseManifest" /\ Promotion!Steps[8] = "run" /\ Promotion!Steps[9] = "reuseEvidence"
         /\ Promotion!Steps[10] = "reuseSame" /\ Promotion!Steps[11] = "same"
<1>1. Promotion!Steps = Promotion!RecordFirst \o Promotion!RecordAgain
  BY Zenon DEF Promotion!Steps
<1>2. Len(Promotion!Steps) = 11
  BY <1>1 DEF Promotion!RecordFirst, Promotion!RecordAgain, Promotion!ReuseSteps
<1>3. /\ Promotion!Steps[1] = "rcManifest" /\ Promotion!Steps[2] = "policy" /\ Promotion!Steps[3] = "snapshot"
      /\ Promotion!Steps[4] = "manifest" /\ Promotion!Steps[5] = "copied" /\ Promotion!Steps[6] = "reuseSnapshot"
      /\ Promotion!Steps[7] = "reuseManifest" /\ Promotion!Steps[8] = "run" /\ Promotion!Steps[9] = "reuseEvidence"
      /\ Promotion!Steps[10] = "reuseSame" /\ Promotion!Steps[11] = "same"
  BY <1>1 DEF Promotion!RecordFirst, Promotion!RecordAgain, Promotion!ReuseSteps
<1> QED BY <1>2, <1>3 DEF Promotion!Running, Promotion!Accepted

LEMMA PromotionReuseSteps ==
  ASSUME s1 = "reuse"
  PROVE  /\ (Promotion!Running => s3 \in 1..7) /\ (Promotion!Accepted => s3 = 8)
         /\ Promotion!Steps[1] = "newest" /\ Promotion!Steps[2] = "reuseSnapshot" /\ Promotion!Steps[3] = "reuseManifest"
         /\ Promotion!Steps[4] = "run" /\ Promotion!Steps[5] = "reuseEvidence" /\ Promotion!Steps[6] = "reuseSame"
         /\ Promotion!Steps[7] = "newest"
<1>1. Promotion!Steps = <<"newest">> \o Promotion!ReuseSteps \o <<"newest">>
  BY Zenon DEF Promotion!Steps
<1>2. Len(Promotion!Steps) = 7
  BY <1>1 DEF Promotion!ReuseSteps
<1>3. /\ Promotion!Steps[1] = "newest" /\ Promotion!Steps[2] = "reuseSnapshot" /\ Promotion!Steps[3] = "reuseManifest"
      /\ Promotion!Steps[4] = "run" /\ Promotion!Steps[5] = "reuseEvidence" /\ Promotion!Steps[6] = "reuseSame"
      /\ Promotion!Steps[7] = "newest"
  BY <1>1 DEF Promotion!ReuseSteps
<1> QED BY <1>2, <1>3 DEF Promotion!Running, Promotion!Accepted

LEMMA PromotionPreflightSteps ==
  ASSUME s1 = "preflight"
  PROVE  /\ (Promotion!Running => s3 \in 1..12) /\ (Promotion!Accepted => s3 = 13)
         /\ Promotion!Steps[1] = "context" /\ Promotion!Steps[2] = "snapshot" /\ Promotion!Steps[3] = "manifest"
         /\ Promotion!Steps[4] = "reserved" /\ Promotion!Steps[5] = "policy" /\ Promotion!Steps[6] = "tag"
         /\ Promotion!Steps[7] = "run" /\ Promotion!Steps[8] = "evidence" /\ Promotion!Steps[9] = "inventory"
         /\ Promotion!Steps[10] = "download" /\ Promotion!Steps[11] = "same" /\ Promotion!Steps[12] = "identity"
<1>1. Promotion!Steps = Promotion!PreflightFirst \o Promotion!PreflightAgain
  BY Zenon DEF Promotion!Steps
<1>2. Len(Promotion!Steps) = 12
  BY <1>1 DEF Promotion!PreflightFirst, Promotion!PreflightAgain
<1>3. /\ Promotion!Steps[1] = "context" /\ Promotion!Steps[2] = "snapshot" /\ Promotion!Steps[3] = "manifest"
      /\ Promotion!Steps[4] = "reserved" /\ Promotion!Steps[5] = "policy" /\ Promotion!Steps[6] = "tag"
      /\ Promotion!Steps[7] = "run" /\ Promotion!Steps[8] = "evidence" /\ Promotion!Steps[9] = "inventory"
      /\ Promotion!Steps[10] = "download" /\ Promotion!Steps[11] = "same" /\ Promotion!Steps[12] = "identity"
  BY <1>1 DEF Promotion!PreflightFirst, Promotion!PreflightAgain
<1> QED BY <1>2, <1>3 DEF Promotion!Running, Promotion!Accepted

LEMMA PromotionStableSteps ==
  ASSUME s1 = "resolve", s2 = "stable"
  PROVE  /\ (Promotion!Running => s3 \in 1..23) /\ (Promotion!Accepted => s3 = 24)
         /\ Promotion!Steps[1] = "manifest" /\ Promotion!Steps[2] = "policy" /\ Promotion!Steps[3] = "fuzzing"
         /\ Promotion!Steps[4] = "ancestry" /\ Promotion!Steps[5] = "reuseSnapshot" /\ Promotion!Steps[6] = "reuseManifest"
         /\ Promotion!Steps[7] = "run" /\ Promotion!Steps[8] = "reuseEvidence" /\ Promotion!Steps[9] = "reuseSame"
         /\ Promotion!Steps[10] = "snapshot" /\ Promotion!Steps[11] = "promotionRun" /\ Promotion!Steps[12] = "promotionReceipt"
         /\ Promotion!Steps[13] = "promotionRun" /\ Promotion!Steps[14] = "download" /\ Promotion!Steps[15] = "reuseSnapshot"
         /\ Promotion!Steps[16] = "reuseManifest" /\ Promotion!Steps[17] = "run" /\ Promotion!Steps[18] = "reuseEvidence"
         /\ Promotion!Steps[19] = "reuseSame" /\ Promotion!Steps[20] = "same" /\ Promotion!Steps[21] = "promotionRun"
         /\ Promotion!Steps[22] = "promotionReceipt" /\ Promotion!Steps[23] = "promotionRun"
<1>1. Promotion!Steps = Promotion!ResolveFirst(s2) \o Promotion!ResolveAgain(s2)
  BY Zenon DEF Promotion!Steps
<1>2. Len(Promotion!Steps) = 23
  BY <1>1 DEF Promotion!ResolveFirst, Promotion!ResolveAgain, Promotion!ReuseSteps, Promotion!PromotionSteps
<1>3. /\ Promotion!Steps[1] = "manifest" /\ Promotion!Steps[2] = "policy" /\ Promotion!Steps[3] = "fuzzing"
      /\ Promotion!Steps[4] = "ancestry" /\ Promotion!Steps[5] = "reuseSnapshot" /\ Promotion!Steps[6] = "reuseManifest"
      /\ Promotion!Steps[7] = "run" /\ Promotion!Steps[8] = "reuseEvidence" /\ Promotion!Steps[9] = "reuseSame"
      /\ Promotion!Steps[10] = "snapshot" /\ Promotion!Steps[11] = "promotionRun" /\ Promotion!Steps[12] = "promotionReceipt"
      /\ Promotion!Steps[13] = "promotionRun" /\ Promotion!Steps[14] = "download" /\ Promotion!Steps[15] = "reuseSnapshot"
      /\ Promotion!Steps[16] = "reuseManifest" /\ Promotion!Steps[17] = "run" /\ Promotion!Steps[18] = "reuseEvidence"
      /\ Promotion!Steps[19] = "reuseSame" /\ Promotion!Steps[20] = "same" /\ Promotion!Steps[21] = "promotionRun"
      /\ Promotion!Steps[22] = "promotionReceipt" /\ Promotion!Steps[23] = "promotionRun"
  BY <1>1 DEF Promotion!ResolveFirst, Promotion!ResolveAgain, Promotion!ReuseSteps, Promotion!PromotionSteps
<1> QED BY <1>2, <1>3 DEF Promotion!Running, Promotion!Accepted

LEMMA PromotionResolveSteps ==
  ASSUME s1 = "resolve", s2 # "stable"
  PROVE  /\ (Promotion!Running => s3 \in 1..17) /\ (Promotion!Accepted => s3 = 18)
         /\ Promotion!Steps[1] = "manifest" /\ Promotion!Steps[2] = "policy" /\ Promotion!Steps[3] = "fuzzing"
         /\ Promotion!Steps[4] = "ancestry" /\ Promotion!Steps[5] = "reuseSnapshot" /\ Promotion!Steps[6] = "reuseManifest"
         /\ Promotion!Steps[7] = "run" /\ Promotion!Steps[8] = "reuseEvidence" /\ Promotion!Steps[9] = "reuseSame"
         /\ Promotion!Steps[10] = "snapshot" /\ Promotion!Steps[11] = "download" /\ Promotion!Steps[12] = "reuseSnapshot"
         /\ Promotion!Steps[13] = "reuseManifest" /\ Promotion!Steps[14] = "run" /\ Promotion!Steps[15] = "reuseEvidence"
         /\ Promotion!Steps[16] = "reuseSame" /\ Promotion!Steps[17] = "same"
<1>1. Promotion!Steps = Promotion!ResolveFirst(s2) \o Promotion!ResolveAgain(s2)
  BY Zenon DEF Promotion!Steps
<1>2. Len(Promotion!Steps) = 17
  BY <1>1 DEF Promotion!ResolveFirst, Promotion!ResolveAgain, Promotion!ReuseSteps, Promotion!PromotionSteps
<1>3. /\ Promotion!Steps[1] = "manifest" /\ Promotion!Steps[2] = "policy" /\ Promotion!Steps[3] = "fuzzing"
      /\ Promotion!Steps[4] = "ancestry" /\ Promotion!Steps[5] = "reuseSnapshot" /\ Promotion!Steps[6] = "reuseManifest"
      /\ Promotion!Steps[7] = "run" /\ Promotion!Steps[8] = "reuseEvidence" /\ Promotion!Steps[9] = "reuseSame"
      /\ Promotion!Steps[10] = "snapshot" /\ Promotion!Steps[11] = "download" /\ Promotion!Steps[12] = "reuseSnapshot"
      /\ Promotion!Steps[13] = "reuseManifest" /\ Promotion!Steps[14] = "run" /\ Promotion!Steps[15] = "reuseEvidence"
      /\ Promotion!Steps[16] = "reuseSame" /\ Promotion!Steps[17] = "same"
  BY <1>1 DEF Promotion!ResolveFirst, Promotion!ResolveAgain, Promotion!ReuseSteps, Promotion!PromotionSteps
<1> QED BY <1>2, <1>3 DEF Promotion!Running, Promotion!Accepted

\* One look: it refuses, or it goes on with what it found; the world is as it
\* was, and is observed.
PromotionSteady ==
  /\ s1' = s1 /\ s2' = s2 /\ s9' = s9 /\ s4' = s4 /\ s5' = s5 /\ s6' = s6 /\ s20' = s20
  /\ s18 \subseteq s18' /\ s19 \subseteq s19'
  /\ \A b \in Promotion!Manifests : Promotion!AllHolds(b) => b \in s18'
  /\ s17' => \A f \in Promotion!Facts, b \in Promotion!Manifests \cup {Promotion!None} : Promotion!Fact(f, b) => <<f, b>> \in s19'

LEMMA PromotionOneLook ==
  ASSUME Promotion!Look
  PROVE  /\ Promotion!Running /\ PromotionSteady
         /\ \/ s3' = 0 /\ UNCHANGED <<s11, s12, s13, s14, s15, s16, s17>>
            \/ Promotion!Passes(Promotion!Step) /\ s3' = s3 + 1 /\ Promotion!Keeps(Promotion!Step)
<1>1. /\ s1' = s1 /\ s2' = s2 /\ s9' = s9 /\ s20' = s20 /\ Promotion!Observe /\ Promotion!Running
      /\ s4' = s4 /\ s5' = s5 /\ s6' = s6 /\ s7' = s7 /\ s8' = s8 /\ s10' = s10
  BY DEF Promotion!Look, Promotion!world
<1>2. s18 \subseteq s18' /\ s19 \subseteq s19'
  BY <1>1, PromotionObserves
<1>3. ASSUME NEW b \in Promotion!Manifests, Promotion!AllHolds(b)
      PROVE  b \in s18'
  <2>1. Promotion!AllHolds(b)'
    BY <1>1, <1>3 DEF Promotion!AllHolds, Promotion!SourceRun, Promotion!Retained, Promotion!Promoted, Promotion!PromotionRun, Promotion!PromotionReceipt
  <2> QED BY <2>1, <1>1 DEF Promotion!Observe
<1>4. ASSUME s17', NEW f \in Promotion!Facts, NEW b \in Promotion!Manifests \cup {Promotion!None}, Promotion!Fact(f, b)
      PROVE  <<f, b>> \in s19'
  <2>1. Promotion!Fact(f, b)'
    BY <1>1, <1>4
    DEF Promotion!Fact, Promotion!Facts, Promotion!SourceRun, Promotion!EvidenceOf, Promotion!PromotionRun, Promotion!PromotionReceipt,
        Promotion!Reviewed, Promotion!SameWorkflows, Promotion!Newest
  <2>2. <<f, b>> \in Promotion!HoldNow'
    BY <2>1 DEF Promotion!HoldNow
  <2> QED BY <2>2, <1>1, <1>4 DEF Promotion!Observe
<1>5. \/ s3' = 0 /\ UNCHANGED <<s11, s12, s13, s14, s15, s16, s17>>
      \/ Promotion!Passes(Promotion!Step) /\ s3' = s3 + 1 /\ Promotion!Keeps(Promotion!Step)
  BY DEF Promotion!Look
<1> QED BY <1>1, <1>2, <1>3, <1>4, <1>5 DEF PromotionSteady

\* What a manifest was read from has one, and its bytes are those of a manifest.
LEMMA PromotionBytes ==
  ASSUME NEW rel \in Promotion!Releases, Promotion!Named(rel, "manifest") # {}
  PROVE  /\ (CHOOSE b \in Promotion!Bytes(rel, "manifest") : TRUE) \in Promotion!Bytes(rel, "manifest")
         /\ Promotion!Bytes(rel, "manifest") \subseteq Promotion!Manifests
<1>1. PICK a \in rel.assets : a.name = "manifest"
  BY DEF Promotion!Named
<1>2. a.bytes \in Promotion!Bytes(rel, "manifest")
  BY <1>1 DEF Promotion!Bytes, Promotion!Named
<1>3. \A c \in rel.assets : c.bytes \in Promotion!Manifests
  BY DEF Promotion!Releases
<1>4. Promotion!Bytes(rel, "manifest") \subseteq Promotion!Manifests
  BY <1>3 DEF Promotion!Bytes, Promotion!Named
<1> QED BY <1>2, <1>4

\* What each invocation is asked: the readers other than a candidate and a promotion all their looks.
LEMMA PromotionAsked ==
  ASSUME NEW X, Promotion!Passes(X)
  PROVE  /\ X \notin {"newest", "policy", "absent", "workflows"} => Promotion!Holds(X)
         /\ s1 \notin {"candidate", "promote"} => Promotion!Holds(X)
BY DEF Promotion!Passes, Promotion!Skips

LEMMA PromotionLookTypes ==
  ASSUME Promotion!TypesOK, Promotion!Look
  PROVE  Promotion!TypesOK'
<1> DEFINE X == Promotion!Step
<1>1. /\ s1' = s1 /\ s2' = s2 /\ s9' = s9 /\ s4' = s4 /\ s5' = s5 /\ s6' = s6 /\ s20' = s20
      /\ \/ s3' = 0 /\ UNCHANGED <<s11, s12, s13, s14, s15, s16, s17>>
         \/ Promotion!Passes(X) /\ s3' = s3 + 1 /\ Promotion!Keeps(X)
  BY PromotionOneLook DEF PromotionSteady
<1> HIDE DEF X
<1>2. s3 \in Nat /\ s17 \in BOOLEAN /\ s4 \in [{"rc", "stable"} -> Promotion!Releases] /\ s2 \in {"rc", "stable"}
      /\ s11 \in Promotion!Releases /\ s12 \in Promotion!Releases /\ s15 \in Nat /\ s5["promotion"].attempt \in Nat
      /\ s13 \in Promotion!Manifests \cup {Promotion!None} /\ s14 \in Promotion!Manifests \cup {Promotion!None}
  BY DEF Promotion!TypesOK
<1>3. ASSUME Promotion!Passes(X), s3' = s3 + 1, Promotion!Keeps(X)
      PROVE  /\ s3' \in Nat /\ s17' \in BOOLEAN /\ s11' \in Promotion!Releases /\ s12' \in Promotion!Releases /\ s15' \in Nat
             /\ s13' \in Promotion!Manifests \cup {Promotion!None} /\ s14' \in Promotion!Manifests \cup {Promotion!None}
  <2>1. s11' \in Promotion!Releases /\ s12' \in Promotion!Releases /\ s3' \in Nat
    BY <1>2, <1>3 DEF Promotion!Keeps
  <2>2. s15' \in Nat
    BY <1>2, <1>3 DEF Promotion!Keeps
  <2>3. s17' \in BOOLEAN
    BY <1>2, <1>3 DEF Promotion!Keeps
  <2>4. CASE X = "manifest"
    <3>1. Promotion!Named(s4[s2], "manifest") # {}
      BY <1>3, <2>4, PromotionAsked DEF Promotion!Holds, Promotion!ManifestReadable
    <3>2. (CHOOSE b \in Promotion!Bytes(s4[s2], "manifest") : TRUE) \in Promotion!Manifests
      BY <3>1, <1>2, PromotionBytes
    <3>3. s14' = s14 /\ s13' \in {s13, CHOOSE b \in Promotion!Bytes(s4[s2], "manifest") : TRUE}
      BY <1>3, <2>4 DEF Promotion!Keeps
    <3> QED BY <2>1, <2>2, <2>3, <3>2, <3>3, <1>2
  <2>5. CASE X = "rcManifest"
    <3>1. Promotion!Named(s4["rc"], "manifest") # {}
      BY <1>3, <2>5, PromotionAsked DEF Promotion!Holds, Promotion!ManifestReadable
    <3>2. (CHOOSE b \in Promotion!Bytes(s4["rc"], "manifest") : TRUE) \in Promotion!Manifests
      BY <3>1, <1>2, PromotionBytes
    <3>3. s14' = s14 /\ s13' = CHOOSE b \in Promotion!Bytes(s4["rc"], "manifest") : TRUE
      BY <1>3, <2>5 DEF Promotion!Keeps
    <3> QED BY <2>1, <2>2, <2>3, <3>2, <3>3, <1>2
  <2>6. CASE X = "reuseManifest"
    <3>1. Promotion!Named(s4[s2], "manifest") # {}
      BY <1>3, <2>6, PromotionAsked DEF Promotion!Holds, Promotion!ManifestReadable
    <3>2. (CHOOSE b \in Promotion!Bytes(s4[s2], "manifest") : TRUE) \in Promotion!Manifests
      BY <3>1, <1>2, PromotionBytes
    <3>3. s13' = s13 /\ s14' = CHOOSE b \in Promotion!Bytes(s4[s2], "manifest") : TRUE
      BY <1>3, <2>6 DEF Promotion!Keeps
    <3> QED BY <2>1, <2>2, <2>3, <3>2, <3>3, <1>2
  <2>7. CASE X \notin {"manifest", "rcManifest", "reuseManifest"}
    <3>1. s13' = s13 /\ s14' = s14
      BY <1>3, <2>7 DEF Promotion!Keeps
    <3> QED BY <2>1, <2>2, <2>3, <3>1, <1>2
  <2> QED BY <2>4, <2>5, <2>6, <2>7
<1>4. /\ s3' \in Nat /\ s17' \in BOOLEAN /\ s11' \in Promotion!Releases /\ s12' \in Promotion!Releases /\ s15' \in Nat
      /\ s13' \in Promotion!Manifests \cup {Promotion!None} /\ s14' \in Promotion!Manifests \cup {Promotion!None}
  BY <1>1, <1>2, <1>3
<1> QED BY <1>1, <1>4 DEF Promotion!TypesOK, Promotion!Manifests, Promotion!Releases, Promotion!None, Promotion!Kinds

\* The bytes of a release are those of its assets.
LEMMA PromotionSameBytes ==
  ASSUME NEW r, NEW s, r.assets = s.assets, r.there = s.there
  PROVE  /\ \A name : Promotion!Named(r, name) = Promotion!Named(s, name) /\ Promotion!Bytes(r, name) = Promotion!Bytes(s, name)
         /\ Promotion!Complete(r) = Promotion!Complete(s)
         /\ \A b : Promotion!Whole(r, b) = Promotion!Whole(s, b)
<1>1. \A name : Promotion!Named(r, name) = Promotion!Named(s, name)
  BY DEF Promotion!Named
<1>2. \A name : Promotion!Bytes(r, name) = Promotion!Bytes(s, name)
  BY <1>1 DEF Promotion!Bytes
<1>3. Promotion!Complete(r) = Promotion!Complete(s)
  BY Zenon DEF Promotion!Complete
<1> QED BY <1>1, <1>2, <1>3 DEF Promotion!Whole

\* A complete release of which payload and manifest have these bytes has no others.
LEMMA PromotionWhole ==
  ASSUME NEW s, NEW b, Promotion!Complete(s), b \in Promotion!Bytes(s, "manifest"), Promotion!Bytes(s, "payload") = {b}
  PROVE  Promotion!Whole(s, b) /\ Promotion!Bytes(s, "manifest") = {b}
<1>1. PICK p \in s.assets, m \in s.assets : s.assets = {p, m} /\ p.name = "payload" /\ m.name = "manifest"
  BY DEF Promotion!Complete
<1>2. p.bytes \in Promotion!Bytes(s, "payload")
  BY <1>1 DEF Promotion!Bytes, Promotion!Named
<1>3. Promotion!Bytes(s, "manifest") = {m.bytes}
  BY <1>1 DEF Promotion!Bytes, Promotion!Named
<1>4. p.bytes = b /\ m.bytes = b
  BY <1>2, <1>3
<1>5. \A a \in s.assets : a.bytes = b
  BY <1>1, <1>4
<1> QED BY <1>3, <1>4, <1>5 DEF Promotion!Whole

LEMMA PromotionReads ==
  ASSUME Promotion!TypesOK, NEW s \in Promotion!Releases, Promotion!Older(s, s4[s2]), Promotion!Named(s4[s2], "manifest") # {},
         NEW b, b = CHOOSE c \in Promotion!Bytes(s4[s2], "manifest") : TRUE
  PROVE  Promotion!ReadFrom(s, b) /\ b \in Promotion!Manifests
<1>1. s4[s2] \in Promotion!Releases
  BY DEF Promotion!TypesOK
<1>2. b \in Promotion!Bytes(s4[s2], "manifest") /\ b \in Promotion!Manifests
  BY <1>1, PromotionBytes
<1>3. Promotion!Kept(s) => s4[s2].assets = s.assets /\ s4[s2].there = s.there
  BY <1>1 DEF Promotion!Kept, Promotion!Older, Promotion!Releases
<1> QED BY <1>2, <1>3, PromotionSameBytes DEF Promotion!ReadFrom

\* The look at the run is the moment, if the release is kept and the evidence is found.
LEMMA PromotionVouches ==
  ASSUME Promotion!TypesOK, PromotionSteady, NEW s \in Promotion!Releases, NEW b \in Promotion!Manifests,
         Promotion!Older(s, s4[s2]), Promotion!SourceRun(b),
         Promotion!Promoted => Promotion!Seen("promotion", s15) /\ Promotion!OneReceipt,
         Promotion!Kept(s), Promotion!Whole(s, b), Promotion!Retained(b), Promotion!Promoted => Promotion!Copied(b)
  PROVE  b \in s18'
<1>1. s4[s2].assets = s.assets /\ s4[s2].there = s.there
  BY DEF Promotion!Kept, Promotion!Older, Promotion!Releases, Promotion!TypesOK
<1>2. Promotion!Whole(s4[s2], b)
  BY <1>1, PromotionSameBytes
<1>3. Promotion!Promoted => Promotion!PromotionRun /\ Promotion!PromotionReceipt(b)
  BY DEF Promotion!Seen, Promotion!OneReceipt, Promotion!Copied, Promotion!PromotionRun, Promotion!PromotionReceipt
<1>4. Promotion!AllHolds(b)
  BY <1>2, <1>3 DEF Promotion!AllHolds
<1> QED BY <1>4 DEF PromotionSteady

\* A look among those at a candidate.
LEMMA PromotionOwnLook ==
  ASSUME Promotion!TypesOK, Promotion!TypesOK', PromotionSteady, s1 \in {"promote", "preflight"},
         NEW n1 \in Nat, NEW n2 \in Nat, NEW n3 \in Nat, NEW n4 \in Nat, NEW n5 \in Nat, NEW n6 \in Nat, NEW n7 \in Nat,
         n1 < n2, n2 < n3, n3 < n4, n4 < n5, n5 < n6, n6 < n7, s3 \in Nat \ {0},
         NEW X, X = "snapshot" <=> s3 = n1, X = "manifest" <=> s3 = n2, s3 = n3 => X = "tag", s3 = n4 => X = "run",
         s3 = n5 => X = "evidence", s3 = n6 => X = "download", s3 = n7 => X = "same",
         X \notin {"rcManifest", "reuseManifest", "reuseSnapshot", "promotionRun"},
         X \in {"snapshot", "manifest", "tag", "run", "evidence", "download", "same"} => Promotion!Holds(X), s3' = s3 + 1, Promotion!Keeps(X),
         Promotion!OwnLooks(n1, n2, n3, n4, n5, n6, n7)
  PROVE  Promotion!OwnLooks(n1, n2, n3, n4, n5, n6, n7)'
<1>1. /\ s4[s2] \in Promotion!Releases /\ s11 \in Promotion!Releases /\ s13 \in Promotion!Manifests \cup {Promotion!None}
      /\ s4'[s2'] = s4[s2] /\ s4' = s4 /\ s2' = s2 /\ s1' = s1 /\ s5' = s5 /\ ~Promotion!Promoted /\ Promotion!Used = s13
      /\ s18 \subseteq s18' /\ s19 \subseteq s19'
  BY DEF Promotion!TypesOK, PromotionSteady, Promotion!Promoted, Promotion!Used
<1>2. /\ X # "snapshot" => s11' = s11
      /\ X # "manifest" => s13' = s13
      /\ s17 => s17'
  BY DEF Promotion!Keeps
<1>3. s3' > n1 => Promotion!Older(s11', s4'[s2'])
  <2>1. CASE s3 > n1
    BY <2>1, <1>1, <1>2 DEF Promotion!OwnLooks
  <2>2. CASE s3 = n1
    <3>1. s11' = s4[s2] /\ s4[s2].there
      BY <2>2 DEF Promotion!Keeps, Promotion!Holds, Promotion!Readable
    <3> QED BY <3>1, <1>1 DEF Promotion!Older, Promotion!Releases
  <2> QED BY <2>1, <2>2
<1>4. s3' > n2 => s13' \in Promotion!Manifests /\ Promotion!ReadFrom(s11, s13)'
  <2>1. CASE s3 > n2
    <3>1. s13' = s13 /\ s11' = s11 /\ s13 \in Promotion!Manifests /\ Promotion!ReadFrom(s11, s13)
      BY <2>1, <1>1, <1>2 DEF Promotion!OwnLooks
    <3> QED BY <3>1, <1>1 DEF Promotion!ReadFrom, Promotion!Kept
  <2>2. CASE s3 = n2
    <3>1. X = "manifest" /\ s11' = s11 /\ Promotion!Older(s11, s4[s2])
      BY <2>2, <1>2 DEF Promotion!OwnLooks
    <3>2. s13' = (CHOOSE b \in Promotion!Bytes(s4[s2], "manifest") : TRUE) /\ Promotion!Named(s4[s2], "manifest") # {}
      BY <3>1 DEF Promotion!Keeps, Promotion!Holds, Promotion!ManifestReadable
    <3>3. s13' \in Promotion!Manifests /\ Promotion!ReadFrom(s11, s13')
      BY <3>1, <3>2, <1>1, PromotionReads
    <3> QED BY <3>1, <3>3, <1>1 DEF Promotion!ReadFrom, Promotion!Kept
  <2> QED BY <2>1, <2>2
<1>5. s3' > n3 => s11'.tag = "source"
  <2>1. CASE s3 = n3
    BY <2>1, <1>2 DEF Promotion!Holds
  <2>2. CASE s3 > n3
    BY <2>2, <1>2 DEF Promotion!OwnLooks
  <2> QED BY <2>1, <2>2
<1>6. s3' > n4 => Promotion!Seen("source", Promotion!Names(s13))' /\ Promotion!Vouched(s11, s13)'
  <2>0. SUFFICES ASSUME s3' > n4 PROVE Promotion!Seen("source", Promotion!Names(s13))' /\ Promotion!Vouched(s11, s13)'
    OBVIOUS
  <2>1. s3 >= n4 /\ s11' = s11 /\ s13' = s13 /\ s13 \in Promotion!Manifests /\ Promotion!Older(s11, s4[s2])
    BY <2>0, <1>1, <1>2 DEF Promotion!OwnLooks
  <2>2. CASE s3 > n4
    <3>1. Promotion!Seen("source", Promotion!Names(s13)) /\ Promotion!Vouched(s11, s13)
      BY <2>2 DEF Promotion!OwnLooks
    <3>2. Promotion!Seen("source", Promotion!Names(s13))'
      BY <3>1, <2>1, <1>1 DEF Promotion!Seen, Promotion!Names
    <3>3. s6' = s6
      BY DEF PromotionSteady
    <3>4. Promotion!Vouched(s11, s13)'
      BY <3>1, <3>3, <2>1, <1>1 DEF Promotion!Vouched, Promotion!VouchedFor, Promotion!Kept, Promotion!Retained, Promotion!Witnessed, Promotion!Promoted
    <3> QED BY <3>2, <3>4
  <2>3. CASE s3 = n4
    <3>1. Promotion!SourceRun(s13)
      BY <2>3, <1>1 DEF Promotion!Holds
    <3>2. Promotion!Seen("source", Promotion!Names(s13))'
      BY <3>1, <2>1, <1>1 DEF Promotion!Seen, Promotion!Names, Promotion!SourceRun
    <3>3. Promotion!Kept(s11) /\ Promotion!Whole(s11, s13) /\ Promotion!Retained(s13) => s13 \in s18'
      BY <3>1, <2>1, <1>1, PromotionVouches
    <3>4. s6' = s6
      BY DEF PromotionSteady
    <3>5. Promotion!Vouched(s11, s13)'
      BY <3>3, <3>4, <2>1, <1>1 DEF Promotion!Vouched, Promotion!VouchedFor, Promotion!Kept, Promotion!Retained, Promotion!Witnessed, Promotion!Promoted
    <3> QED BY <3>2, <3>5
  <2> QED BY <2>1, <2>2, <2>3
<1>7. s3' > n5 => Promotion!VouchedFor(s11, s13)'
  <2>0. SUFFICES ASSUME s3' > n5 PROVE Promotion!VouchedFor(s11, s13)'
    OBVIOUS
  <2>1. s3 >= n5 /\ s11' = s11 /\ s13' = s13
    BY <2>0, <1>2
  <2>2. Promotion!VouchedFor(s11, s13)
    <3>1. CASE s3 > n5
      BY <3>1 DEF Promotion!OwnLooks
    <3>2. CASE s3 = n5
      <4>1. Promotion!EvidenceOf(s13) /\ Promotion!Vouched(s11, s13)
        BY <3>2 DEF Promotion!Holds, Promotion!OwnLooks
      <4> QED BY <4>1 DEF Promotion!Vouched, Promotion!EvidenceOf, Promotion!Retained
    <3> QED BY <3>1, <3>2, <2>1
  <2> QED BY <2>1, <2>2, <1>1 DEF Promotion!VouchedFor, Promotion!Kept, Promotion!Witnessed, Promotion!Promoted
<1>8. s3' > n6 => s17' /\ Promotion!Complete(s11') /\ Promotion!Bytes(s11', "payload") = {s13'}
  <2>1. CASE s3 = n6
    BY <2>1, <1>2 DEF Promotion!Holds, Promotion!Keeps
  <2>2. CASE s3 > n6
    BY <2>2, <1>2 DEF Promotion!OwnLooks
  <2> QED BY <2>1, <2>2
<1>9. s3' > n7 => s13' \in s18' /\ <<"release", s13'>> \in s19'
  <2>1. CASE s3 > n7
    BY <2>1, <1>1, <1>2 DEF Promotion!OwnLooks
  <2>2. CASE s3 = n7
    <3>1. /\ s11' = s11 /\ s13' = s13 /\ s17' /\ s4[s2] = s11 /\ s11.tag = "source" /\ s13 \in Promotion!Manifests
          /\ Promotion!Complete(s11) /\ Promotion!Bytes(s11, "payload") = {s13}
          /\ Promotion!ReadFrom(s11, s13) /\ Promotion!VouchedFor(s11, s13)
      BY <2>2, <1>1, <1>2 DEF Promotion!OwnLooks, Promotion!Holds, Promotion!SameSnapshot
    <3>2. Promotion!Kept(s11)
      BY <3>1 DEF Promotion!Kept
    <3>3. Promotion!Whole(s11, s13)
      BY <3>1, <3>2, PromotionWhole DEF Promotion!ReadFrom
    <3>4. s13 \in s18'
      BY <3>1, <3>2, <3>3, <1>1 DEF Promotion!VouchedFor, Promotion!Witnessed
    <3>5. Promotion!Fact("release", s13)
      BY <3>1, <3>3 DEF Promotion!Fact
    <3>6. <<"release", s13>> \in s19'
      BY <3>1, <3>5 DEF PromotionSteady, Promotion!Facts
    <3> QED BY <3>1, <3>4, <3>6
  <2> QED BY <2>1, <2>2
<1> QED BY <1>3, <1>4, <1>5, <1>6, <1>7, <1>8, <1>9 DEF Promotion!OwnLooks, Promotion!Manifests, Promotion!None

\* A look among the five that reuse a release.
LEMMA PromotionReuseLook ==
  ASSUME Promotion!TypesOK, Promotion!TypesOK', PromotionSteady, s1 \in {"record", "resolve", "reuse"},
         NEW p \in Nat, s3 \in Nat \ {0},
         NEW X, s3 > p => (X = "reuseSnapshot" <=> s3 = p + 1) /\ (X = "reuseManifest" <=> s3 = p + 2),
         s3 = p + 3 => X = "run", s3 = p + 4 => X = "reuseEvidence",
         s3 > p => (Promotion!Promoted => X # "promotionRun" \/ s15 = s5["promotion"].attempt),
         s3 > p /\ Promotion!Promoted => Promotion!Seen("promotion", s15) /\ Promotion!OneReceipt,
         s3 > p /\ s1 # "reuse" => s17,
         Promotion!Holds(X), s3' = s3 + 1, Promotion!Keeps(X),
         Promotion!ReuseLooks(p)
  PROVE  Promotion!ReuseLooks(p)'
<1>1. /\ s4[s2] \in Promotion!Releases /\ s12 \in Promotion!Releases /\ s14 \in Promotion!Manifests \cup {Promotion!None}
      /\ s4'[s2'] = s4[s2] /\ s4' = s4 /\ s2' = s2 /\ s1' = s1 /\ s5' = s5 /\ s6' = s6 /\ Promotion!Used = s14
      /\ s18 \subseteq s18' /\ s19 \subseteq s19'
  BY DEF Promotion!TypesOK, PromotionSteady, Promotion!Used
<1>2. /\ s3 > p + 1 => s12' = s12
      /\ s3 > p + 2 => s14' = s14
      /\ s17 => s17'
      /\ s3 > p /\ Promotion!Promoted => s15' = s15
  <2>1. /\ X # "reuseSnapshot" => s12' = s12
        /\ X # "reuseManifest" => s14' = s14
        /\ s17 => s17'
        /\ s15' = s15 \/ (X = "promotionRun" /\ s15' = s5["promotion"].attempt)
    BY DEF Promotion!Keeps
  <2>2. (s3 > p + 1 => X # "reuseSnapshot") /\ (s3 > p + 2 => X # "reuseManifest")
    OBVIOUS
  <2>3. s3 > p /\ Promotion!Promoted => s15' = s15
    BY <2>1
  <2> QED BY <2>1, <2>2, <2>3
<1>3. s3' > p + 1 => Promotion!Older(s12', s4'[s2']) /\ s12'.tag = "source"
  <2>1. CASE s3 > p + 1
    BY <2>1, <1>1, <1>2 DEF Promotion!ReuseLooks
  <2>2. CASE s3 = p + 1
    <3>1. s12' = s4[s2] /\ s4[s2].there /\ s4[s2].tag = "source"
      BY <2>2 DEF Promotion!Keeps, Promotion!Holds, Promotion!ReadableAt
    <3> QED BY <3>1, <1>1 DEF Promotion!Older, Promotion!Releases
  <2> QED BY <2>1, <2>2
<1>4. s3' > p + 2 => s14' \in Promotion!Manifests /\ Promotion!ReadFrom(s12, s14)'
                       /\ Promotion!Complete(s12') /\ Promotion!Bytes(s12', "payload") = Promotion!Bytes(s12', "manifest")
  <2>1. CASE s3 > p + 2
    <3>1. s14' = s14 /\ s12' = s12 /\ s14 \in Promotion!Manifests /\ Promotion!ReadFrom(s12, s14)
          /\ Promotion!Complete(s12) /\ Promotion!Bytes(s12, "payload") = Promotion!Bytes(s12, "manifest")
      BY <2>1, <1>1, <1>2 DEF Promotion!ReuseLooks
    <3> QED BY <3>1, <1>1 DEF Promotion!ReadFrom, Promotion!Kept
  <2>2. CASE s3 = p + 2
    <3>1. X = "reuseManifest" /\ s12' = s12 /\ Promotion!Older(s12, s4[s2])
      BY <2>2, <1>2 DEF Promotion!ReuseLooks
    <3>2. /\ s14' = (CHOOSE b \in Promotion!Bytes(s4[s2], "manifest") : TRUE) /\ Promotion!Named(s4[s2], "manifest") # {}
          /\ Promotion!Complete(s12) /\ Promotion!Bytes(s12, "payload") = Promotion!Bytes(s12, "manifest")
      BY <3>1 DEF Promotion!Keeps, Promotion!Holds, Promotion!ManifestReadable
    <3>3. s14' \in Promotion!Manifests /\ Promotion!ReadFrom(s12, s14')
      BY <3>1, <3>2, <1>1, PromotionReads
    <3> QED BY <3>1, <3>2, <3>3, <1>1 DEF Promotion!ReadFrom, Promotion!Kept
  <2> QED BY <2>1, <2>2
<1>5. s3' > p + 3 => Promotion!Seen("source", Promotion!Names(s14))' /\ Promotion!Vouched(s12, s14)'
  <2>0. SUFFICES ASSUME s3' > p + 3 PROVE Promotion!Seen("source", Promotion!Names(s14))' /\ Promotion!Vouched(s12, s14)'
    OBVIOUS
  <2>1. /\ s3 >= p + 3 /\ s12' = s12 /\ s14' = s14 /\ s14 \in Promotion!Manifests /\ Promotion!Older(s12, s4[s2])
        /\ Promotion!Promoted => s15' = s15
    BY <2>0, <1>1, <1>2 DEF Promotion!ReuseLooks
  <2>2. CASE s3 > p + 3
    <3>1. Promotion!Seen("source", Promotion!Names(s14)) /\ Promotion!Vouched(s12, s14)
      BY <2>2 DEF Promotion!ReuseLooks
    <3>2. Promotion!Seen("source", Promotion!Names(s14))'
      BY <3>1, <2>1, <1>1 DEF Promotion!Seen, Promotion!Names
    <3>3. Promotion!Vouched(s12, s14)'
      BY <3>1, <2>1, <1>1
      DEF Promotion!Vouched, Promotion!VouchedFor, Promotion!Kept, Promotion!Retained, Promotion!Witnessed, Promotion!Promoted, Promotion!Copied
    <3> QED BY <3>2, <3>3
  <2>3. CASE s3 = p + 3
    <3>1. Promotion!SourceRun(s14)
      BY <2>3, <1>1 DEF Promotion!Holds
    <3>2. Promotion!Seen("source", Promotion!Names(s14))'
      BY <3>1, <2>1, <1>1 DEF Promotion!Seen, Promotion!Names, Promotion!SourceRun
    <3>3. /\ Promotion!Kept(s12) /\ Promotion!Whole(s12, s14) /\ Promotion!Retained(s14)
          /\ Promotion!Promoted => Promotion!Copied(s14)
          => s14 \in s18'
      BY <3>1, <2>1, <2>3, <1>1, PromotionVouches
    <3>4. Promotion!Vouched(s12, s14)'
      BY <3>3, <2>1, <1>1
      DEF Promotion!Vouched, Promotion!VouchedFor, Promotion!Kept, Promotion!Retained, Promotion!Witnessed, Promotion!Promoted, Promotion!Copied
    <3> QED BY <3>2, <3>4
  <2> QED BY <2>1, <2>2, <2>3
<1>6. s3' > p + 4 => Promotion!VouchedFor(s12, s14)'
  <2>0. SUFFICES ASSUME s3' > p + 4 PROVE Promotion!VouchedFor(s12, s14)'
    OBVIOUS
  <2>1. s3 >= p + 4 /\ s12' = s12 /\ s14' = s14 /\ (Promotion!Promoted => s15' = s15)
    BY <2>0, <1>2
  <2>2. Promotion!VouchedFor(s12, s14)
    <3>1. CASE s3 > p + 4
      BY <3>1 DEF Promotion!ReuseLooks
    <3>2. CASE s3 = p + 4
      <4>1. Promotion!EvidenceOf(s14) /\ Promotion!Vouched(s12, s14)
        BY <3>2 DEF Promotion!Holds, Promotion!ReuseLooks
      <4> QED BY <4>1 DEF Promotion!Vouched, Promotion!EvidenceOf, Promotion!Retained
    <3> QED BY <3>1, <3>2, <2>1
  <2> QED BY <2>1, <2>2, <1>1 DEF Promotion!VouchedFor, Promotion!Kept, Promotion!Witnessed, Promotion!Promoted, Promotion!Copied
<1>7. s3' > p + 3 /\ s1 # "reuse" => <<"run", s14'>> \in s19'
  <2>1. CASE s3 > p + 3
    BY <2>1, <1>1, <1>2 DEF Promotion!ReuseLooks
  <2>2. CASE s3 = p + 3 /\ s1 # "reuse"
    <3>1. s14' = s14 /\ s17' /\ Promotion!Fact("run", s14)
      BY <2>2, <1>1, <1>2 DEF Promotion!Holds, Promotion!Fact
    <3> QED BY <3>1, <1>1 DEF PromotionSteady, Promotion!Facts
  <2> QED BY <2>1, <2>2
<1>8. s3' > p + 4 /\ s1 # "reuse" => <<"evidence", s14'>> \in s19'
  <2>1. CASE s3 > p + 4
    BY <2>1, <1>1, <1>2 DEF Promotion!ReuseLooks
  <2>2. CASE s3 = p + 4 /\ s1 # "reuse"
    <3>1. s14' = s14 /\ s17' /\ Promotion!Fact("evidence", s14)
      BY <2>2, <1>1, <1>2 DEF Promotion!Holds, Promotion!Fact
    <3> QED BY <3>1, <1>1 DEF PromotionSteady, Promotion!Facts
  <2> QED BY <2>1, <2>2
<1> QED BY <1>1, <1>3, <1>4, <1>5, <1>6, <1>7, <1>8 DEF Promotion!ReuseLooks, Promotion!Manifests, Promotion!None

\* The release is the one that was read at first: what was read of it again is the same.
LEMMA PromotionSameLook ==
  ASSUME Promotion!TypesOK, PromotionSteady, s17', s14 \in Promotion!Manifests,
         Promotion!Older(s11, s12), Promotion!Older(s12, s4[s2]), s4[s2] = s11, s11.tag = "source",
         Promotion!ReadFrom(s12, s14), Promotion!VouchedFor(s12, s14), Promotion!Complete(s12),
         Promotion!Bytes(s12, "payload") = Promotion!Bytes(s12, "manifest"),
         Promotion!Bytes(s11, "payload") = {s13} \/ Promotion!Bytes(s11, "manifest") = {s13}
  PROVE  s13 = s14 /\ Promotion!Witnessed(s14) /\ <<"release", s14>> \in s19'
<1>1. s11.stamp \in Nat /\ s12.stamp \in Nat
  BY DEF Promotion!TypesOK, Promotion!Releases
<1>2. s11.stamp = s12.stamp /\ s11.assets = s12.assets /\ s11.there = s12.there /\ Promotion!Kept(s12)
  <2>1. s11.stamp = s12.stamp /\ s11.assets = s12.assets /\ Promotion!Kept(s12)
    BY <1>1 DEF Promotion!Older, Promotion!Kept
  <2>2. s11.there = s12.there
    BY DEF Promotion!Older, Promotion!TypesOK, Promotion!Releases
  <2> QED BY <2>1, <2>2
<1>3. s14 \in Promotion!Bytes(s12, "manifest")
  BY <1>2 DEF Promotion!ReadFrom
<1>4. Promotion!Bytes(s12, "manifest") = {s14}
  <2>1. PICK p \in s12.assets, m \in s12.assets : s12.assets = {p, m} /\ p.name = "payload" /\ m.name = "manifest"
    BY DEF Promotion!Complete
  <2>2. Promotion!Bytes(s12, "manifest") = {m.bytes}
    BY <2>1 DEF Promotion!Bytes, Promotion!Named
  <2> QED BY <2>2, <1>3
<1>5. Promotion!Whole(s12, s14)
  BY <1>3, <1>4, PromotionWhole
<1>6. Promotion!Bytes(s11, "payload") = {s14} /\ Promotion!Bytes(s11, "manifest") = {s14} /\ Promotion!Whole(s11, s14)
  BY <1>2, <1>4, <1>5, PromotionSameBytes
<1>7. Promotion!Fact("release", s14)
  BY <1>6 DEF Promotion!Fact
<1>8. <<"release", s14>> \in s19'
  BY <1>7 DEF PromotionSteady, Promotion!Facts
<1> QED BY <1>2, <1>5, <1>6, <1>8 DEF Promotion!VouchedFor

\* What the looks of each reader establish, one after the other.
LEMMA PromotionCandidateLook ==
  ASSUME Promotion!Inv, PromotionSteady, Promotion!Running, s1 = "candidate",
         Promotion!Passes(Promotion!Step), s3' = s3 + 1, Promotion!Keeps(Promotion!Step)
  PROVE  Promotion!CandidateOK'
<1>1. Promotion!CandidateOK /\ s3 \in 1..6
  BY PromotionCandidateSteps DEF Promotion!Inv
<1>2. /\ s3 \in {1, 2, 4} => Promotion!Step \in {"policy", "ancestry", "absent"}
      /\ s3 \in {3, 6} => Promotion!Step = "newest"
      /\ s3 = 5 => Promotion!Step = "stage"
  BY PromotionCandidateSteps DEF Promotion!Step
<1>3. s13' = s13 /\ s16' \in {s16, s13} /\ (s17 => s17') /\ (s3 = 5 => s17')
  <2>1. Promotion!Step \notin {"manifest", "rcManifest"} /\ (s3 = 5 => Promotion!Step = "stage")
    BY <1>1, <1>2
  <2> QED BY <2>1 DEF Promotion!Keeps
<1>4. s3 = 6 /\ s9 \in Promotion!Automatic => <<"newest", Promotion!None>> \in s19'
  <2>1. s3 = 6 /\ s9 \in Promotion!Automatic => s17' /\ Promotion!Fact("newest", Promotion!None)
    BY <1>1, <1>2, <1>3 DEF Promotion!CandidateOK, Promotion!Passes, Promotion!Skips, Promotion!Holds, Promotion!Fact
  <2> QED BY <2>1 DEF PromotionSteady, Promotion!Facts
<1> QED BY <1>1, <1>3, <1>4 DEF Promotion!CandidateOK, PromotionSteady

LEMMA PromotionPromoteLook ==
  ASSUME Promotion!Inv, Promotion!TypesOK', PromotionSteady, Promotion!Running, s1 = "promote",
         Promotion!Passes(Promotion!Step), s3' = s3 + 1, Promotion!Keeps(Promotion!Step)
  PROVE  Promotion!PromoteOK'
<1> DEFINE X == Promotion!Step
<1>1. Promotion!PromoteOK /\ Promotion!TypesOK /\ s3 \in 1..17 /\ X = Promotion!Steps[s3]
  BY PromotionPromoteSteps DEF Promotion!Inv, Promotion!Step
<1>2. /\ X = "snapshot" <=> s3 = 2
      /\ X = "manifest" <=> s3 = 3
      /\ s3 = 6 => X = "tag"
      /\ s3 = 7 => X = "run"
      /\ s3 = 9 => X = "evidence"
      /\ s3 = 13 => X = "download"
      /\ s3 = 14 => X = "same"
      /\ X \notin {"rcManifest", "reuseManifest", "reuseSnapshot", "promotionRun"}
  BY <1>1, PromotionPromoteSteps
<1>8. (s3 = 15 => X = "run") /\ (s3 = 16 => X = "reviewers") /\ (s3 = 17 => X = "workflows")
  BY <1>1, PromotionPromoteSteps
<1>9. Promotion!OwnLooks(2, 3, 6, 7, 9, 13, 14) /\ s3 \in Nat \ {0}
  BY <1>1 DEF Promotion!PromoteOK
<1>3. /\ Promotion!Keeps(X)
      /\ X \notin {"newest", "policy", "absent", "workflows"} => Promotion!Holds(X)
      /\ X = "workflows" /\ s9 # "scoped" => Promotion!Holds(X)
  BY PromotionAsked DEF Promotion!Passes, Promotion!Skips
<1> HIDE DEF X
<1>4. Promotion!OwnLooks(2, 3, 6, 7, 9, 13, 14)'
  BY <1>1, <1>2, <1>3, <1>9, PromotionOwnLook
<1>5. s16' \in {Promotion!None, s13'}
  <2>1. CASE s3 = 3
    <3>1. s16' = s16 /\ s16 = Promotion!None
      BY <2>1, <1>1, <1>2, <1>3 DEF Promotion!Keeps, Promotion!PromoteOK
    <3> QED BY <3>1
  <2>2. CASE s3 # 3
    BY <2>2, <1>1, <1>2, <1>3 DEF Promotion!Keeps, Promotion!PromoteOK
  <2> QED BY <2>1, <2>2
<1>6. s3 > 13 => s17' /\ s13' = s13 /\ s13 \in Promotion!Manifests \cup {Promotion!None}
  <2>1. X \notin {"manifest", "rcManifest"} => s13' = s13
    BY <1>3 DEF Promotion!Keeps
  <2>2. s17 => s17'
    BY <1>3 DEF Promotion!Keeps
  <2>3. s3 > 13 => s17
    BY <1>9 DEF Promotion!OwnLooks
  <2> QED BY <2>1, <2>2, <2>3, <1>1, <1>2 DEF Promotion!TypesOK
<1>7. /\ s3 = 15 => <<"run", s13>> \in s19'
      /\ s3 = 16 => <<"reviewers", s13>> \in s19'
      /\ s3 = 17 /\ s9 # "scoped" => <<"workflows", s13>> \in s19'
  <2>1. /\ s3 = 15 => Promotion!Fact("run", s13)
        /\ s3 = 16 => Promotion!Fact("reviewers", s13)
        /\ s3 = 17 /\ s9 # "scoped" => Promotion!Fact("workflows", s13)
    BY <1>8, <1>3 DEF Promotion!Holds, Promotion!Fact, Promotion!Used
  <2> QED BY <2>1, <1>6 DEF PromotionSteady, Promotion!Facts
<1>10. s3' \in 1..3 => s16' = Promotion!None
  <2>1. s3' \in 1..3 => s16 = Promotion!None /\ X \in {"reviewers", "snapshot"}
    BY <1>1, PromotionPromoteSteps DEF Promotion!PromoteOK
  <2> QED BY <2>1, <1>3 DEF Promotion!Keeps
<1> QED BY <1>1, <1>4, <1>5, <1>10, <1>6, <1>7 DEF Promotion!PromoteOK, PromotionSteady

LEMMA PromotionPreflightLook ==
  ASSUME Promotion!Inv, Promotion!TypesOK', PromotionSteady, Promotion!Running, s1 = "preflight",
         Promotion!Holds(Promotion!Step), s3' = s3 + 1, Promotion!Keeps(Promotion!Step)
  PROVE  Promotion!PreflightOK'
<1> DEFINE X == Promotion!Step
<1>1. Promotion!PreflightOK /\ Promotion!TypesOK /\ s3 \in 1..12 /\ X = Promotion!Steps[s3]
  BY PromotionPreflightSteps DEF Promotion!Inv, Promotion!Step
<1>2. /\ X = "snapshot" <=> s3 = 2
      /\ X = "manifest" <=> s3 = 3
      /\ s3 = 6 => X = "tag"
      /\ s3 = 7 => X = "run"
      /\ s3 = 8 => X = "evidence"
      /\ s3 = 10 => X = "download"
      /\ s3 = 11 => X = "same"
      /\ X \notin {"rcManifest", "reuseManifest", "reuseSnapshot", "promotionRun"}
  BY <1>1, PromotionPreflightSteps
<1>8. s3 = 12 => X = "identity"
  BY <1>1, PromotionPreflightSteps
<1>3. Promotion!Holds(X) /\ Promotion!Keeps(X)
  OBVIOUS
<1> HIDE DEF X
<1>9. Promotion!OwnLooks(2, 3, 6, 7, 8, 10, 11) /\ s3 \in Nat \ {0}
  BY <1>1 DEF Promotion!PreflightOK
<1>4. Promotion!OwnLooks(2, 3, 6, 7, 8, 10, 11)'
  BY <1>1, <1>2, <1>3, <1>9, PromotionOwnLook
<1>5. s16' \in {Promotion!None, s13'}
  <2>1. CASE s3 = 3
    <3>1. s16' = s16 /\ s16 = Promotion!None
      BY <2>1, <1>1, <1>2, <1>3 DEF Promotion!Keeps, Promotion!PreflightOK
    <3> QED BY <3>1
  <2>2. CASE s3 # 3
    BY <2>2, <1>1, <1>2, <1>3 DEF Promotion!Keeps, Promotion!PreflightOK
  <2> QED BY <2>1, <2>2
<1>6. s3 = 12 => Promotion!SameRunner'
  BY <1>8, <1>3 DEF Promotion!Holds, Promotion!SameRunner, PromotionSteady
<1>10. s3' \in 1..3 => s16' = Promotion!None
  <2>1. s3' \in 1..3 => s16 = Promotion!None /\ X \in {"context", "snapshot"}
    BY <1>1, PromotionPreflightSteps DEF Promotion!PreflightOK
  <2> QED BY <2>1, <1>3 DEF Promotion!Keeps
<1> QED BY <1>1, <1>4, <1>5, <1>10, <1>6 DEF Promotion!PreflightOK, PromotionSteady

LEMMA PromotionRecordLook ==
  ASSUME Promotion!Inv, Promotion!TypesOK', PromotionSteady, Promotion!Running, s1 = "record",
         Promotion!Holds(Promotion!Step), s3' = s3 + 1, Promotion!Keeps(Promotion!Step)
  PROVE  Promotion!RecordOK'
<1> DEFINE X == Promotion!Step
<1>1. /\ Promotion!RecordOK /\ Promotion!TypesOK /\ s3 \in 1..11 /\ X = Promotion!Steps[s3]
      /\ ~Promotion!Promoted /\ ~Promotion!Promoted'
  BY PromotionRecordSteps DEF Promotion!Inv, Promotion!Step, Promotion!Promoted, PromotionSteady
<1>2. /\ X = "reuseSnapshot" <=> s3 = 6
      /\ X = "reuseManifest" <=> s3 = 7
      /\ s3 = 8 => X = "run"
      /\ s3 = 9 => X = "reuseEvidence"
  BY <1>1, PromotionRecordSteps
<1>3. /\ X = "rcManifest" <=> s3 = 1
      /\ X = "snapshot" <=> s3 = 3
      /\ s3 = 5 => X = "copied"
      /\ s3 = 11 => X = "same"
      /\ X \notin {"download", "stage"}
  BY <1>1, PromotionRecordSteps
<1>4. Promotion!Holds(X) /\ Promotion!Keeps(X)
  OBVIOUS
<1> HIDE DEF X
<1>5. /\ s3 \in Nat \ {0} /\ Promotion!ReuseLooks(5) /\ (s3 > 5 => s17)
      /\ s4[s2] \in Promotion!Releases /\ s11 \in Promotion!Releases /\ s12 \in Promotion!Releases
      /\ s4' = s4 /\ s2' = s2 /\ s1' = s1 /\ s18 \subseteq s18' /\ s19 \subseteq s19'
  BY <1>1 DEF Promotion!RecordOK, Promotion!TypesOK, PromotionSteady
<1>6. Promotion!ReuseLooks(5)'
  <2>1. \A p \in Nat : p = 5 => Promotion!ReuseLooks(p)'
    BY <1>1, <1>2, <1>4, <1>5, PromotionReuseLook
  <2> QED BY <2>1
<1>7. s16' = s16 /\ (s17 => s17') /\ (s3 = 5 => s17') /\ (s3 # 3 => s11' = s11) /\ (s3 # 6 => s12' = s12) /\ (s3 # 1 => s13' = s13)
  <2>1. /\ X \notin {"download", "stage"} => s16' = s16
        /\ s17 => s17'
        /\ X = "copied" => s17'
        /\ X # "snapshot" => s11' = s11
        /\ X # "reuseSnapshot" => s12' = s12
        /\ X # "rcManifest" => s13' = s13
    BY <1>4 DEF Promotion!Keeps
  <2> QED BY <2>1, <1>2, <1>3
<1>8. s3' > 3 => Promotion!Older(s11', s4'[s2']) /\ s11'.tag = "source"
  <2>1. CASE s3 = 3
    <3>1. s11' = s4[s2] /\ s4[s2].there /\ s4[s2].tag = "source"
      BY <2>1, <1>3, <1>4 DEF Promotion!Keeps, Promotion!Holds, Promotion!ReadableAt
    <3> QED BY <3>1, <1>5 DEF Promotion!Older, Promotion!Releases
  <2>2. CASE s3 > 3
    BY <2>2, <1>1, <1>5, <1>7 DEF Promotion!RecordOK
  <2> QED BY <2>1, <2>2, <1>1
<1>9. s3' > 5 => s17' /\ Promotion!Bytes(s11', "manifest") = {s13'}
  <2>1. CASE s3 = 5
    BY <2>1, <1>3, <1>4, <1>7 DEF Promotion!Holds
  <2>2. CASE s3 > 5
    BY <2>2, <1>1, <1>7 DEF Promotion!RecordOK
  <2> QED BY <2>1, <2>2, <1>1
<1>10. s3' > 6 => Promotion!Older(s11', s12')
  <2>1. CASE s3 = 6
    BY <2>1, <1>1, <1>2, <1>4, <1>7 DEF Promotion!Keeps, Promotion!RecordOK
  <2>2. CASE s3 > 6
    BY <2>2, <1>1, <1>7 DEF Promotion!RecordOK
  <2> QED BY <2>1, <2>2, <1>1
<1>11. Promotion!SameLook(11)'
  <2>1. SUFFICES ASSUME s3 = 11 PROVE s13' = s14' /\ Promotion!Witnessed(s14)' /\ <<"release", s14'>> \in s19'
    BY <1>1 DEF Promotion!SameLook
  <2>2. s4[s2] = s11 /\ s17' /\ s14' = s14 /\ s13' = s13
    BY <2>1, <1>2, <1>3, <1>4, <1>5, <1>7 DEF Promotion!Holds, Promotion!SameSnapshot, Promotion!Keeps
  <2>3. /\ s14 \in Promotion!Manifests /\ Promotion!Older(s11, s12) /\ Promotion!Older(s12, s4[s2]) /\ s11.tag = "source"
        /\ Promotion!ReadFrom(s12, s14) /\ Promotion!VouchedFor(s12, s14) /\ Promotion!Complete(s12)
        /\ Promotion!Bytes(s12, "payload") = Promotion!Bytes(s12, "manifest") /\ Promotion!Bytes(s11, "manifest") = {s13}
    BY <2>1, <1>1 DEF Promotion!RecordOK, Promotion!ReuseLooks, Promotion!TypesOK
  <2>4. s13 = s14 /\ Promotion!Witnessed(s14) /\ <<"release", s14>> \in s19'
    BY <2>2, <2>3, <1>1, PromotionSameLook
  <2> QED BY <2>2, <2>4, <1>1, <1>5 DEF Promotion!Witnessed
<1> QED BY <1>1, <1>6, <1>7, <1>8, <1>9, <1>10, <1>11 DEF Promotion!RecordOK

LEMMA PromotionReuseRunLook ==
  ASSUME Promotion!Inv, Promotion!TypesOK', PromotionSteady, Promotion!Running, s1 = "reuse",
         Promotion!Holds(Promotion!Step), s3' = s3 + 1, Promotion!Keeps(Promotion!Step)
  PROVE  Promotion!ReuseOK'
<1> DEFINE X == Promotion!Step
<1>1. /\ Promotion!ReuseOK /\ Promotion!TypesOK /\ s3 \in 1..7 /\ X = Promotion!Steps[s3]
      /\ ~Promotion!Promoted /\ ~Promotion!Promoted'
  BY PromotionReuseSteps DEF Promotion!Inv, Promotion!Step, Promotion!Promoted, PromotionSteady
<1>2. /\ X = "reuseSnapshot" <=> s3 = 2
      /\ X = "reuseManifest" <=> s3 = 3
      /\ s3 = 4 => X = "run"
      /\ s3 = 5 => X = "reuseEvidence"
  BY <1>1, PromotionReuseSteps
<1>3. /\ s3 = 6 => X = "reuseSame"
      /\ s3 = 7 => X = "newest"
      /\ X \notin {"download", "stage", "manifest", "rcManifest"}
  BY <1>1, PromotionReuseSteps
<1>4. Promotion!Holds(X) /\ Promotion!Keeps(X)
  OBVIOUS
<1> HIDE DEF X
<1>5. /\ s3 \in Nat \ {0} /\ Promotion!ReuseLooks(1)
      /\ s4' = s4 /\ s2' = s2 /\ s1' = s1 /\ s18 \subseteq s18' /\ s19 \subseteq s19'
  BY <1>1 DEF Promotion!ReuseOK, PromotionSteady
<1>6. Promotion!ReuseLooks(1)'
  <2>1. \A p \in Nat : p = 1 => Promotion!ReuseLooks(p)'
    BY <1>1, <1>2, <1>4, <1>5, PromotionReuseLook
  <2> QED BY <2>1
<1>7. s16' = s16 /\ s13' = s13 /\ (s17 => s17') /\ (s3 = 6 => s17') /\ (s3 > 3 => s14' = s14)
  <2>1. /\ X \notin {"download", "stage"} => s16' = s16
        /\ s17 => s17'
        /\ X = "reuseSame" => s17'
        /\ X # "reuseManifest" => s14' = s14
        /\ X \notin {"manifest", "rcManifest"} => s13' = s13
    BY <1>4 DEF Promotion!Keeps
  <2> QED BY <2>1, <1>2, <1>3
<1>8. s3' > 6 => s17' /\ Promotion!Witnessed(s14)' /\ <<"release", s14'>> \in s19'
  <2>1. CASE s3 = 6
    <3>1. s4[s2] = s12 /\ s17' /\ s14' = s14
      BY <2>1, <1>3, <1>4, <1>7 DEF Promotion!Holds, Promotion!SameSnapshot
    <3>2. /\ s14 \in Promotion!Manifests /\ s12.tag = "source"
          /\ Promotion!ReadFrom(s12, s14) /\ Promotion!VouchedFor(s12, s14) /\ Promotion!Complete(s12)
          /\ Promotion!Bytes(s12, "payload") = Promotion!Bytes(s12, "manifest")
      BY <2>1, <1>1 DEF Promotion!ReuseOK, Promotion!ReuseLooks, Promotion!TypesOK
    <3>3. Promotion!Kept(s12)
      BY <3>1 DEF Promotion!Kept
    <3>4. Promotion!Bytes(s12, "manifest") = {s14}
      <4>1. PICK p \in s12.assets, m \in s12.assets : s12.assets = {p, m} /\ p.name = "payload" /\ m.name = "manifest"
        BY <3>2 DEF Promotion!Complete
      <4>2. Promotion!Bytes(s12, "manifest") = {m.bytes}
        BY <4>1 DEF Promotion!Bytes, Promotion!Named
      <4> QED BY <4>2, <3>2, <3>3 DEF Promotion!ReadFrom
    <3>5. Promotion!Whole(s12, s14)
      BY <3>2, <3>4, PromotionWhole
    <3>6. Promotion!Witnessed(s14) /\ Promotion!Fact("release", s14)
      BY <3>1, <3>2, <3>3, <3>5 DEF Promotion!VouchedFor, Promotion!Fact
    <3>7. <<"release", s14>> \in s19'
      BY <3>1, <3>2, <3>6 DEF PromotionSteady, Promotion!Facts
    <3> QED BY <3>1, <3>6, <3>7, <1>1, <1>5 DEF Promotion!Witnessed
  <2>2. CASE s3 > 6
    BY <2>2, <1>1, <1>5, <1>7 DEF Promotion!ReuseOK, Promotion!Witnessed
  <2> QED BY <2>1, <2>2, <1>1
<1>9. s3' > 7 => <<"newest", s14'>> \in s19'
  <2>1. SUFFICES ASSUME s3 = 7 PROVE <<"newest", s14'>> \in s19'
    BY <1>1
  <2>2. s17' /\ s14' = s14 /\ Promotion!Fact("newest", s14) /\ s14 \in Promotion!Manifests \cup {Promotion!None}
    BY <2>1, <1>1, <1>3, <1>4, <1>7 DEF Promotion!ReuseOK, Promotion!Holds, Promotion!Fact, Promotion!TypesOK
  <2> QED BY <2>2 DEF PromotionSteady, Promotion!Facts
<1> QED BY <1>1, <1>6, <1>7, <1>8, <1>9 DEF Promotion!ReuseOK

\* The promotion is looked at before the transfer and after it.
LEMMA PromotionPromotionLook ==
  ASSUME Promotion!TypesOK, Promotion!TypesOK', PromotionSteady, s1 = "resolve", s2 = "stable",
         NEW X, s3 \in 1..23, s3 \in {11, 13, 21, 23} => X = "promotionRun", s3 \in {12, 22} => X = "promotionReceipt",
         X = "promotionRun" => s3 \in {11, 13, 21, 23}, X # "rcManifest", X = "manifest" => s3 = 1, X = "reuseManifest" => s3 < 20,
         Promotion!Holds(X), s3' = s3 + 1, Promotion!Keeps(X),
         s3 > 20 => s17 /\ s13 = s14 /\ Promotion!Witnessed(s14),
         Promotion!PromotionLooks
  PROVE  Promotion!PromotionLooks'
<1>1. /\ s5' = s5 /\ s6' = s6 /\ s15 \in Nat /\ s5["promotion"].attempt \in Nat \ {0} /\ Promotion!Promoted
      /\ s18 \subseteq s18' /\ s19 \subseteq s19' /\ s14 \in Promotion!Manifests \cup {Promotion!None}
  BY DEF Promotion!TypesOK, PromotionSteady, Promotion!Promoted
<1>2. X = "promotionRun" => Promotion!PromotionRun /\ s15 \in {0, s5["promotion"].attempt} /\ s15' = s5["promotion"].attempt
  BY DEF Promotion!Holds, Promotion!Keeps
<1>3. X = "promotionReceipt" => Promotion!PromotionReceipt(s13)
  BY DEF Promotion!Holds
<1>4. X # "promotionRun" => s15' = s15
  BY DEF Promotion!Keeps
<1>5. s3 > 1 => s13' = s13
  BY DEF Promotion!Keeps
<1>6. s3 > 20 => s14' = s14 /\ s17'
  <2>1. (X # "reuseManifest" => s14' = s14) /\ (s17 => s17')
    BY DEF Promotion!Keeps
  <2> QED BY <2>1
<1>7. s3 > 11 => s15 # 0 /\ Promotion!Seen("promotion", s15) /\ s15' = s15
  BY <1>2, <1>4 DEF Promotion!PromotionLooks
<1>8. s3' > 11 => s15' # 0 /\ Promotion!Seen("promotion", s15)'
  <2>1. CASE s3 = 11
    BY <2>1, <1>1, <1>2 DEF Promotion!Seen, Promotion!PromotionRun
  <2>2. CASE s3 > 11
    BY <2>2, <1>1, <1>7 DEF Promotion!Seen
  <2> QED BY <2>1, <2>2
<1>9. s3' > 12 => s13' = "built" /\ Promotion!OneReceipt'
  <2>1. CASE s3 = 12
    BY <2>1, <1>1, <1>3, <1>5, <1>7 DEF Promotion!PromotionReceipt, Promotion!OneReceipt
  <2>2. CASE s3 > 12
    BY <2>2, <1>1, <1>5, <1>7 DEF Promotion!PromotionLooks, Promotion!OneReceipt
  <2> QED BY <2>1, <2>2
<1>10. s3' > 22 /\ s5'["promotion"].attempt = s15' => s14' \in s18' /\ <<"promotion", s14'>> \in s19'
  <2>1. CASE s3 = 22 /\ s5["promotion"].attempt = s15
    <3>1. Promotion!PromotionReceipt(s14) /\ s14 = "built"
      BY <2>1, <1>3 DEF Promotion!PromotionLooks
    <3>2. Promotion!Copied(s14)
      BY <2>1, <3>1 DEF Promotion!Copied, Promotion!PromotionReceipt
    <3>3. s14 \in s18
      BY <2>1, <3>2 DEF Promotion!Witnessed
    <3>4. Promotion!Fact("promotion", s14)
      BY <2>1, <3>1, <1>7 DEF Promotion!Fact, Promotion!PromotionRun, Promotion!Seen
    <3>5. <<"promotion", s14>> \in s19'
      BY <2>1, <3>4, <1>1, <1>6 DEF PromotionSteady, Promotion!Facts
    <3> QED BY <2>1, <3>3, <3>5, <1>1, <1>6
  <2>2. CASE s3 = 23 /\ s5["promotion"].attempt = s15
    <3>1. s14 \in s18 /\ <<"promotion", s14>> \in s19
      BY <2>2 DEF Promotion!PromotionLooks
    <3> QED BY <2>2, <3>1, <1>1, <1>6
  <2> QED BY <2>1, <2>2, <1>1, <1>7
<1>11. s3' > 23 => s14' \in s18' /\ <<"promotion", s14'>> \in s19'
  BY <1>1, <1>2, <1>7, <1>10
<1> QED BY <1>8, <1>9, <1>10, <1>11 DEF Promotion!PromotionLooks

\* A look of the resolution; n is the position of its transfer.
LEMMA PromotionResolveLook ==
  ASSUME Promotion!Inv, Promotion!TypesOK', PromotionSteady, s1 = "resolve", NEW n \in Nat, n = IF s2 = "stable" THEN 14 ELSE 11,
         s3 \in Nat \ {0}, s3 <= n + 9,
         NEW X, s3 > n => (X = "reuseSnapshot" <=> s3 = n + 1) /\ (X = "reuseManifest" <=> s3 = n + 2),
         s3 = n + 3 => X = "run", s3 = n + 4 => X = "reuseEvidence", s3 = n + 6 => X = "same",
         X = "snapshot" <=> s3 = 10, X = "download" <=> s3 = n, X = "manifest" <=> s3 = 1, X \notin {"rcManifest", "stage"},
         Promotion!Holds(X), s3' = s3 + 1, Promotion!Keeps(X),
         s2 = "stable" => Promotion!PromotionLooks'
  PROVE  Promotion!ResolveOK'
<1>1. /\ Promotion!ResolveOK /\ Promotion!TypesOK /\ s4' = s4 /\ s2' = s2 /\ s1' = s1 /\ s5' = s5 /\ s6' = s6
      /\ s18 \subseteq s18' /\ s19 \subseteq s19' /\ s4[s2] \in Promotion!Releases /\ s11 \in Promotion!Releases
      /\ Promotion!Promoted' = Promotion!Promoted /\ (Promotion!Promoted => s2 = "stable")
  BY DEF Promotion!Inv, PromotionSteady, Promotion!TypesOK, Promotion!Promoted
<1>2. /\ s3 > 10 => Promotion!Older(s11, s4[s2]) /\ s11.tag = "source"
      /\ s3 > n => s17 /\ Promotion!Complete(s11) /\ Promotion!Bytes(s11, "payload") = {s13}
      /\ s3 > n + 1 => Promotion!Older(s11, s12)
      /\ Promotion!ReuseLooks(n) /\ Promotion!SameLook(n + 6)
      /\ s2 = "stable" => Promotion!PromotionLooks
  BY <1>1 DEF Promotion!ResolveOK
<1>3. n \in {11, 14} /\ (Promotion!Promoted => n = 14)
  BY <1>1
<1>4. s3 > n /\ Promotion!Promoted => Promotion!Seen("promotion", s15) /\ Promotion!OneReceipt /\ s15 # 0 /\ n = 14
  BY <1>1, <1>2, <1>3 DEF Promotion!PromotionLooks
<1>5. X = "promotionRun" => s15 \in {0, s5["promotion"].attempt}
  BY DEF Promotion!Holds
<1>6. Promotion!ReuseLooks(n)'
  <2>1. s3 > n => (Promotion!Promoted => X # "promotionRun" \/ s15 = s5["promotion"].attempt)
    BY <1>4, <1>5
  <2>2. s3 > n /\ Promotion!Promoted => Promotion!Seen("promotion", s15) /\ Promotion!OneReceipt
    BY <1>4
  <2>3. s3 > n /\ s1 # "reuse" => s17
    BY <1>2
  <2>4. \A p \in Nat : p = n => Promotion!ReuseLooks(p)'
    BY <2>1, <2>2, <2>3, <1>1, <1>2, PromotionReuseLook
  <2> QED BY <2>4
<1>7. /\ (s17 => s17') /\ (s3 = n => s17') /\ (s3 # 10 => s11' = s11) /\ (s3 # 1 => s13' = s13)
      /\ s3 > n + 1 => s12' = s12
      /\ s3 > n + 2 => s14' = s14
  <2>1. /\ s17 => s17'
        /\ X = "download" => s17'
        /\ X # "snapshot" => s11' = s11
        /\ X # "reuseSnapshot" => s12' = s12
        /\ X # "reuseManifest" => s14' = s14
        /\ X # "manifest" => s13' = s13
    BY DEF Promotion!Keeps
  <2> QED BY <2>1
<1>8. s13' # Promotion!None
  <2>1. CASE s3 = 1
    <3>1. s13' = (CHOOSE b \in Promotion!Bytes(s4[s2], "manifest") : TRUE) /\ Promotion!Named(s4[s2], "manifest") # {}
      BY <2>1 DEF Promotion!Keeps, Promotion!Holds, Promotion!ManifestReadable
    <3>2. s13' \in Promotion!Manifests
      BY <3>1, <1>1, PromotionBytes
    <3> QED BY <3>2 DEF Promotion!Manifests, Promotion!None
  <2>2. CASE s3 > 1
    BY <2>2, <1>1, <1>7 DEF Promotion!ResolveOK
  <2> QED BY <2>1, <2>2
<1>9. s16' \in {Promotion!None, s13'}
  <2>1. CASE X = "download"
    BY <2>1, <1>3, <1>7 DEF Promotion!Keeps
  <2>2. CASE X # "download"
    <3>1. s16' = s16
      BY <2>2 DEF Promotion!Keeps
    <3> QED BY <3>1, <1>1, <1>7 DEF Promotion!ResolveOK
  <2> QED BY <2>1, <2>2
<1>10. s3' > 10 => Promotion!Older(s11', s4'[s2']) /\ s11'.tag = "source"
  <2>1. CASE s3 = 10
    <3>1. s11' = s4[s2] /\ s4[s2].there /\ s4[s2].tag = "source"
      BY <2>1 DEF Promotion!Keeps, Promotion!Holds, Promotion!ReadableAt
    <3> QED BY <3>1, <1>1 DEF Promotion!Older, Promotion!Releases
  <2>2. CASE s3 > 10
    BY <2>2, <1>1, <1>2, <1>7
  <2> QED BY <2>1, <2>2
<1>11. s3' > n => s17' /\ Promotion!Complete(s11') /\ Promotion!Bytes(s11', "payload") = {s13'}
  <2>1. CASE s3 = n
    BY <2>1, <1>3, <1>7 DEF Promotion!Holds
  <2>2. CASE s3 > n
    BY <2>2, <1>2, <1>3, <1>7
  <2> QED BY <2>1, <2>2
<1>12. s3' > n + 1 => Promotion!Older(s11', s12')
  <2>1. CASE s3 = n + 1
    BY <2>1, <1>2, <1>3, <1>7 DEF Promotion!Keeps
  <2>2. CASE s3 > n + 1
    BY <2>2, <1>2, <1>3, <1>7
  <2> QED BY <2>1, <2>2
<1>13. Promotion!SameLook(n + 6)'
  <2>1. CASE s3 = n + 6
    <3>1. s4[s2] = s11 /\ s17' /\ s14' = s14 /\ s13' = s13 /\ X # "promotionRun"
      BY <2>1, <1>2, <1>3, <1>7 DEF Promotion!Holds, Promotion!SameSnapshot
    <3>2. /\ s14 \in Promotion!Manifests /\ Promotion!Older(s11, s12) /\ Promotion!Older(s12, s4[s2]) /\ s11.tag = "source"
          /\ Promotion!ReadFrom(s12, s14) /\ Promotion!VouchedFor(s12, s14) /\ Promotion!Complete(s12)
          /\ Promotion!Bytes(s12, "payload") = Promotion!Bytes(s12, "manifest") /\ Promotion!Bytes(s11, "payload") = {s13}
      BY <2>1, <1>1, <1>2, <1>3 DEF Promotion!ReuseLooks, Promotion!TypesOK
    <3>3. s13 = s14 /\ Promotion!Witnessed(s14) /\ <<"release", s14>> \in s19'
      BY <3>1, <3>2, <1>1, PromotionSameLook
    <3>4. s15' = s15
      BY <3>1 DEF Promotion!Keeps
    <3>5. Promotion!Witnessed(s14)'
      BY <3>1, <3>3, <3>4, <1>1 DEF Promotion!Witnessed, Promotion!Copied
    <3> QED BY <3>1, <3>3, <3>5 DEF Promotion!SameLook
  <2>2. CASE s3 > n + 6
    <3>1. s13 = s14 /\ Promotion!Witnessed(s14) /\ <<"release", s14>> \in s19 /\ s14' = s14 /\ s13' = s13
      BY <2>2, <1>2, <1>3, <1>7 DEF Promotion!SameLook
    <3>2. Promotion!Promoted => s15' = s15
      BY <2>2, <1>3, <1>4, <1>5 DEF Promotion!Keeps
    <3>3. Promotion!Witnessed(s14)'
      BY <3>1, <3>2, <1>1 DEF Promotion!Witnessed, Promotion!Copied
    <3> QED BY <3>1, <3>3, <1>1 DEF Promotion!SameLook
  <2>3. CASE s3 < n + 6
    BY <2>3 DEF Promotion!SameLook
  <2> QED BY <2>1, <2>2, <2>3
<1>14. s3' # 1
  OBVIOUS
<1>15. CASE s2 = "stable"
  <2>1. n = 14 /\ Promotion!ReuseLooks(14)' /\ Promotion!SameLook(20)'
    BY <1>6, <1>13, <1>15
  <2> QED BY <2>1, <1>1, <1>8, <1>9, <1>10, <1>11, <1>12, <1>14, <1>15 DEF Promotion!ResolveOK
<1>16. CASE s2 # "stable"
  <2>1. n = 11 /\ Promotion!ReuseLooks(11)' /\ Promotion!SameLook(17)'
    BY <1>6, <1>13, <1>16
  <2> QED BY <2>1, <1>1, <1>8, <1>9, <1>10, <1>11, <1>12, <1>14, <1>16 DEF Promotion!ResolveOK
<1> QED BY <1>15, <1>16

LEMMA PromotionStableLook ==
  ASSUME Promotion!Inv, Promotion!TypesOK', PromotionSteady, Promotion!Running, s1 = "resolve", s2 = "stable",
         Promotion!Holds(Promotion!Step), s3' = s3 + 1, Promotion!Keeps(Promotion!Step)
  PROVE  Promotion!ResolveOK'
<1> DEFINE X == Promotion!Step
<1>1. /\ Promotion!ResolveOK /\ Promotion!TypesOK /\ s3 \in 1..23 /\ X = Promotion!Steps[s3]
  BY PromotionStableSteps DEF Promotion!Inv, Promotion!Step
<1>2. /\ s3 > 14 => (X = "reuseSnapshot" <=> s3 = 15) /\ (X = "reuseManifest" <=> s3 = 16)
      /\ s3 = 17 => X = "run"
      /\ s3 = 18 => X = "reuseEvidence"
      /\ s3 = 20 => X = "same"
      /\ X = "snapshot" <=> s3 = 10
      /\ X = "download" <=> s3 = 14
      /\ X = "manifest" <=> s3 = 1
      /\ X \notin {"rcManifest", "stage"}
  BY <1>1, PromotionStableSteps
<1>3. /\ s3 \in {11, 13, 21, 23} => X = "promotionRun"
      /\ s3 \in {12, 22} => X = "promotionReceipt"
      /\ X = "promotionRun" => s3 \in {11, 13, 21, 23}
      /\ X = "reuseManifest" => s3 < 20
  BY <1>1, PromotionStableSteps
<1>4. Promotion!Holds(X) /\ Promotion!Keeps(X)
  OBVIOUS
<1> HIDE DEF X
<1>5. (s3 > 20 => s17 /\ s13 = s14 /\ Promotion!Witnessed(s14)) /\ Promotion!PromotionLooks
  BY <1>1 DEF Promotion!ResolveOK, Promotion!SameLook
<1>6. Promotion!PromotionLooks'
  BY <1>1, <1>2, <1>3, <1>4, <1>5, PromotionPromotionLook
<1>7. s3 \in Nat \ {0} /\ s3 <= 14 + 9
  BY <1>1
<1>8. \A n \in Nat : n = 14 => Promotion!ResolveOK'
  BY <1>2, <1>4, <1>6, <1>7, PromotionResolveLook
<1> QED BY <1>8

LEMMA PromotionRcLook ==
  ASSUME Promotion!Inv, Promotion!TypesOK', PromotionSteady, Promotion!Running, s1 = "resolve", s2 # "stable",
         Promotion!Holds(Promotion!Step), s3' = s3 + 1, Promotion!Keeps(Promotion!Step)
  PROVE  Promotion!ResolveOK'
<1> DEFINE X == Promotion!Step
<1>1. /\ s3 \in 1..17 /\ X = Promotion!Steps[s3]
  BY PromotionResolveSteps DEF Promotion!Inv, Promotion!Step
<1>2. /\ s3 > 11 => (X = "reuseSnapshot" <=> s3 = 12) /\ (X = "reuseManifest" <=> s3 = 13)
      /\ s3 = 14 => X = "run"
      /\ s3 = 15 => X = "reuseEvidence"
      /\ s3 = 17 => X = "same"
      /\ X = "snapshot" <=> s3 = 10
      /\ X = "download" <=> s3 = 11
      /\ X = "manifest" <=> s3 = 1
      /\ X \notin {"rcManifest", "stage"}
  BY <1>1, PromotionResolveSteps
<1>4. Promotion!Holds(X) /\ Promotion!Keeps(X)
  OBVIOUS
<1> HIDE DEF X
<1>7. s3 \in Nat \ {0} /\ s3 <= 11 + 9
  BY <1>1
<1>8. \A n \in Nat : n = 11 => Promotion!ResolveOK'
  BY <1>2, <1>4, <1>7, PromotionResolveLook
<1> QED BY <1>8

LEMMA PromotionInit ==
  ASSUME Promotion!Init
  PROVE  Promotion!Inv
<1>1. /\ s1 \in Promotion!Kinds /\ s3 = 1 /\ s13 = Promotion!None /\ s14 = Promotion!None /\ s15 = 0
      /\ s16 = Promotion!None /\ s17 = FALSE /\ s20 = 0 /\ s11 = Promotion!NoRelease /\ s12 = Promotion!NoRelease
  BY DEF Promotion!Init
<1>2. s2 \in {"rc", "stable"} /\ (s1 # "resolve" => s2 = IF s1 = "record" THEN "stable" ELSE "rc")
  <2>1. CASE s1 = "record"
    <3>1. s2 \in {"stable"}
      BY <2>1 DEF Promotion!Init
    <3> QED BY <3>1, <2>1
  <2>2. CASE s1 = "resolve"
    <3>1. s2 \in {Promotion!Selected(q) : q \in {q \in Promotion!Requests : Promotion!ValidRequest(q)}} \ {Promotion!None}
      BY <2>2, Zenon DEF Promotion!Init
    <3>2. \A q \in Promotion!Requests : Promotion!Selected(q) \in {"rc", "stable", Promotion!None}
      BY DEF Promotion!Requests, Promotion!Selected, Promotion!None
    <3> QED BY <3>1, <3>2, <2>2
  <2>3. CASE s1 \notin {"record", "resolve"}
    <3>1. s2 \in {"rc"}
      BY <2>3 DEF Promotion!Init
    <3> QED BY <3>1, <2>3
  <2> QED BY <2>1, <2>2, <2>3
<1>3. Promotion!NoRelease \in Promotion!Releases /\ Promotion!Published \in Promotion!Releases
  BY DEF Promotion!NoRelease, Promotion!Published, Promotion!Releases, Promotion!Asset, Promotion!Manifests, Promotion!None
<1>4. /\ s4 \in [{"rc", "stable"} -> Promotion!Releases] /\ \A t \in {"rc", "stable"} : s4[t].stamp = 0
      /\ s1 # "candidate" => s4[s2].there
  <2>1. s4 = [t \in {"rc", "stable"} |-> IF IF t = "rc" THEN s1 # "candidate" ELSE s2 = "stable" THEN Promotion!Published ELSE Promotion!NoRelease]
    BY DEF Promotion!Init
  <2>2. Promotion!NoRelease.stamp = 0 /\ Promotion!Published.stamp = 0 /\ Promotion!Published.there
    BY DEF Promotion!NoRelease, Promotion!Published
  <2>3. s4 \in [{"rc", "stable"} -> Promotion!Releases]
    BY <2>1, <1>3
  <2>4. \A t \in {"rc", "stable"} : s4[t] = Promotion!Published \/ s4[t] = Promotion!NoRelease
    BY <2>1
  <2>5. s1 # "candidate" => s4[s2] = Promotion!Published
    BY <2>1, <1>2
  <2> QED BY <2>2, <2>3, <2>4, <2>5
<1>5. /\ s5 \in [{"source", "promotion"} -> [attempt : Nat \ {0}, state : {"running", "success", "failure"}]]
      /\ s6 \in [{"source", "promotion"} -> SUBSET [attempt : Nat, bytes : {"built", "rebuilt", "later"}]]
  <2>1. PICK s \in {"success", "running"} :
          s5 = [r \in {"source", "promotion"} |-> [attempt |-> 1, state |-> IF r = "source" THEN s ELSE "success"]]
    BY DEF Promotion!Init
  <2>2. s6 = [r \in {"source", "promotion"} |-> IF s5[r].state = "success" THEN {Promotion!Evidence(1)} ELSE {}]
    BY DEF Promotion!Init
  <2>3. Promotion!Evidence(1) \in [attempt : Nat, bytes : {"built", "rebuilt", "later"}]
    BY PromotionEvidences
  <2> QED BY <2>1, <2>2, <2>3
<1>6. s9 \in Promotion!Occasions(s1)
  BY DEF Promotion!Init
<1>7. Promotion!TypesOK
  <2>1. /\ s3 \in Nat /\ s20 \in Nat /\ s17 \in BOOLEAN /\ s11 \in Promotion!Releases /\ s12 \in Promotion!Releases /\ s15 \in Nat
        /\ s13 \in Promotion!Manifests \cup {Promotion!None} /\ s14 \in Promotion!Manifests \cup {Promotion!None}
    BY <1>1, <1>3
  <2>2. \A t \in {"rc", "stable"} : s4[t].stamp <= s20
    BY <1>1, <1>4
  <2> QED BY <1>1, <1>2, <1>4, <1>5, <1>6, <2>1, <2>2 DEF Promotion!TypesOK
<1> QED
  BY <1>1, <1>7
  DEF Promotion!Inv, Promotion!CandidateOK, Promotion!PromoteOK, Promotion!PreflightOK, Promotion!RecordOK, Promotion!ReuseOK, Promotion!ResolveOK,
      Promotion!OwnLooks, Promotion!ReuseLooks, Promotion!SameLook, Promotion!PromotionLooks

\* A refusal ends it: nothing is claimed of a reader that refused.
LEMMA PromotionRefused ==
  ASSUME Promotion!Inv, Promotion!TypesOK', PromotionSteady, s3' = 0, UNCHANGED <<s11, s12, s13, s14, s15, s16, s17>>
  PROVE  Promotion!Inv'
<1>1. s1' = s1 /\ s2' = s2
  BY DEF PromotionSteady
<1>2. Promotion!OwnLooks(2, 3, 6, 7, 9, 13, 14)' /\ Promotion!OwnLooks(2, 3, 6, 7, 8, 10, 11)'
  BY DEF Promotion!OwnLooks
<1>3. Promotion!ReuseLooks(1)' /\ Promotion!ReuseLooks(5)' /\ Promotion!ReuseLooks(11)' /\ Promotion!ReuseLooks(14)'
  BY DEF Promotion!ReuseLooks
<1>4. Promotion!SameLook(11)' /\ Promotion!SameLook(17)' /\ Promotion!SameLook(20)' /\ Promotion!PromotionLooks'
  BY DEF Promotion!SameLook, Promotion!PromotionLooks
<1>5. s1 = "candidate" => Promotion!CandidateOK'
  BY DEF Promotion!Inv, Promotion!CandidateOK
<1>6. s1 = "promote" => Promotion!PromoteOK'
  BY <1>2 DEF Promotion!Inv, Promotion!PromoteOK
<1>7. s1 = "preflight" => Promotion!PreflightOK'
  BY <1>2 DEF Promotion!Inv, Promotion!PreflightOK
<1>8. s1 = "record" => Promotion!RecordOK'
  BY <1>3, <1>4 DEF Promotion!Inv, Promotion!RecordOK
<1>9. s1 = "reuse" => Promotion!ReuseOK'
  BY <1>3 DEF Promotion!Inv, Promotion!ReuseOK
<1>10. s1 = "resolve" => Promotion!ResolveOK'
  <2>1. CASE s2 = "stable"
    BY <2>1, <1>1, <1>3, <1>4 DEF Promotion!Inv, Promotion!ResolveOK
  <2>2. CASE s2 # "stable"
    BY <2>2, <1>1, <1>3, <1>4 DEF Promotion!Inv, Promotion!ResolveOK
  <2> QED BY <2>1, <2>2
<1> QED BY <1>1, <1>5, <1>6, <1>7, <1>8, <1>9, <1>10 DEF Promotion!Inv

LEMMA PromotionLookKeeps ==
  ASSUME Promotion!Inv, Promotion!Look
  PROVE  Promotion!Inv'
<1>1. Promotion!TypesOK'
  BY PromotionLookTypes DEF Promotion!Inv
<1>2. /\ Promotion!Running /\ PromotionSteady
      /\ \/ s3' = 0 /\ UNCHANGED <<s11, s12, s13, s14, s15, s16, s17>>
         \/ Promotion!Passes(Promotion!Step) /\ s3' = s3 + 1 /\ Promotion!Keeps(Promotion!Step)
  BY PromotionOneLook
<1>3. CASE s3' = 0 /\ UNCHANGED <<s11, s12, s13, s14, s15, s16, s17>>
  BY <1>1, <1>2, <1>3, PromotionRefused
<1>4. CASE Promotion!Passes(Promotion!Step) /\ s3' = s3 + 1 /\ Promotion!Keeps(Promotion!Step)
  <2>1. s1' = s1
    BY <1>2 DEF PromotionSteady
  <2>0. s1 \notin {"candidate", "promote"} => Promotion!Holds(Promotion!Step)
    BY <1>4, PromotionAsked
  <2>2. s1 = "candidate" => Promotion!CandidateOK'
    BY <1>2, <1>4, PromotionCandidateLook
  <2>3. s1 = "promote" => Promotion!PromoteOK'
    BY <1>1, <1>2, <1>4, PromotionPromoteLook
  <2>4. s1 = "preflight" => Promotion!PreflightOK'
    BY <1>1, <1>2, <1>4, <2>0, PromotionPreflightLook
  <2>5. s1 = "record" => Promotion!RecordOK'
    BY <1>1, <1>2, <1>4, <2>0, PromotionRecordLook
  <2>6. s1 = "reuse" => Promotion!ReuseOK'
    BY <1>1, <1>2, <1>4, <2>0, PromotionReuseRunLook
  <2>7. s1 = "resolve" => Promotion!ResolveOK'
    BY <1>1, <1>2, <1>4, <2>0, PromotionStableLook, PromotionRcLook
  <2> QED BY <1>1, <2>1, <2>2, <2>3, <2>4, <2>5, <2>6, <2>7 DEF Promotion!Inv
<1> QED BY <1>2, <1>3, <1>4

\* A step of nobody.
LEMMA PromotionSame ==
  ASSUME Promotion!Inv,
         UNCHANGED <<s1, s2, s3, s4, s5, s6, s7, s8, s9, s10, s11, s12, s13, s14, s15, s16, s17, s18, s19, s20>>
  PROVE  Promotion!Inv'
<1>1. PromotionReader
  BY DEF PromotionReader
<1>2. Promotion!TypesOK /\ Promotion!TypesOK'
  BY DEF Promotion!Inv, Promotion!TypesOK
<1>3. s4[s2].stamp \in Nat /\ \A r \in {"source", "promotion"} : s5[r].attempt \in Nat
  BY <1>2 DEF Promotion!TypesOK, Promotion!Releases
<1>4. PromotionOnward
  BY <1>3 DEF PromotionOnward, Promotion!Older
<1> QED BY <1>1, <1>2, <1>4, PromotionUndisturbed

\* Every behaviour of the readers keeps their invariant.
LEMMA PromotionKeeps ==
  ASSUME part = "promotion" => Promotion!Inv, [Next]_vars
  PROVE  (part = "promotion" => Promotion!Inv)'
<1>1. CASE PromotionStep
  <2>0. Promotion!Inv /\ Promotion!Next
    BY <1>1 DEF PromotionStep
  <2>1. CASE Promotion!Look
    BY <2>0, <2>1, PromotionLookKeeps
  <2>2. CASE Promotion!Edit \/ Promotion!PublishStable
    BY <2>0, <2>2, PromotionReleaseChanges, PromotionUndisturbed DEF Promotion!Inv
  <2>3. CASE \E r \in {"source", "promotion"} : Promotion!Rerun(r) \/ Promotion!RunEnds(r) \/ Promotion!Expire(r)
    <3>1. PICK r \in {"source", "promotion"} : Promotion!Rerun(r) \/ Promotion!RunEnds(r) \/ Promotion!Expire(r)
      BY <2>3
    <3>2. Promotion!TypesOK' /\ PromotionOnward /\ PromotionReader
      BY <2>0, <3>1, PromotionRunChanges DEF Promotion!Inv
    <3> QED BY <2>0, <3>2, PromotionUndisturbed
  <2>4. CASE Promotion!Push \/ Promotion!Administer
    BY <2>0, <2>4, PromotionOtherChanges, PromotionUndisturbed DEF Promotion!Inv
  <2>5. CASE Promotion!Done
    <3>1. UNCHANGED <<s1, s2, s3, s4, s5, s6, s7, s8, s9, s10, s11, s12, s13, s14, s15, s16, s17, s18, s19, s20>>
      BY <2>5 DEF Promotion!Done, Promotion!vars, Promotion!world, Promotion!reader, Promotion!history
    <3> QED BY <2>0, <3>1, PromotionSame
  <2> QED BY <2>0, <2>1, <2>2, <2>3, <2>4, <2>5 DEF Promotion!Next
<1>2. CASE ~PromotionStep /\ Next
  BY <1>2 DEF Next, VendorStep, FilesStep, TomlStep, VersionStep, ReceiptsStep
<1>3. CASE UNCHANGED vars
  <2>1. part' = part /\ UNCHANGED <<s1, s2, s3, s4, s5, s6, s7, s8, s9, s10, s11, s12, s13, s14, s15, s16, s17, s18, s19, s20>>
    BY <1>3 DEF vars
  <2> QED BY <2>1, PromotionSame
<1> QED BY <1>1, <1>2, <1>3

\* What a reader of release_control.py, release_promotion.py, release_closed.py,
\* release_versioned.py or runner_preflight.py knows after each of its looks,
\* however many changes come in between.
THEOREM PromotionInvHolds == Spec => [](part = "promotion" => Promotion!Inv)
<1>1. Init => (part = "promotion" => Promotion!Inv)
  BY PromotionInit DEF Init
<1>2. (part = "promotion" => Promotion!Inv) /\ [Next]_vars => (part = "promotion" => Promotion!Inv)'
  BY PromotionKeeps
<1> QED BY <1>1, <1>2, PTL DEF Spec

\* A reader that has come through all its looks saw a moment at which release,
\* run, evidence and promotion held together, of the bytes that it uses; and
\* whatever its code reads again held of them after the transfer.
LEMMA PromotionAccepts ==
  ASSUME Promotion!Inv, Promotion!Accepted
  PROVE  Promotion!AcceptedAtOneMoment /\ Promotion!RecheckedLate
<1>1. s1 \in Promotion!Kinds /\ s2 \in {"rc", "stable"}
  BY DEF Promotion!Inv, Promotion!TypesOK
<1>2. CASE s1 = "candidate"
  <2>1. Promotion!CandidateOK /\ s3 = 7
    BY <1>2, PromotionCandidateSteps DEF Promotion!Inv
  <2> QED BY <1>2, <2>1 DEF Promotion!AcceptedAtOneMoment, Promotion!RecheckedLate, Promotion!Rechecked, Promotion!CandidateOK, Promotion!Used
<1>3. CASE s1 = "promote"
  <2>1. Promotion!PromoteOK /\ s3 = 18
    BY <1>3, PromotionPromoteSteps DEF Promotion!Inv
  <2> QED BY <1>1, <1>3, <2>1
      DEF Promotion!AcceptedAtOneMoment, Promotion!RecheckedLate, Promotion!Rechecked, Promotion!PromoteOK, Promotion!OwnLooks, Promotion!Used
<1>4. CASE s1 = "preflight"
  <2>1. Promotion!PreflightOK /\ s3 = 13
    BY <1>4, PromotionPreflightSteps DEF Promotion!Inv
  <2> QED BY <1>4, <2>1
      DEF Promotion!AcceptedAtOneMoment, Promotion!RecheckedLate, Promotion!Rechecked, Promotion!PreflightOK, Promotion!OwnLooks, Promotion!Used
<1>5. CASE s1 = "record"
  <2>1. Promotion!RecordOK /\ s3 = 12 /\ ~Promotion!Promoted
    BY <1>5, PromotionRecordSteps DEF Promotion!Inv, Promotion!Promoted
  <2> QED BY <1>1, <1>5, <2>1
      DEF Promotion!AcceptedAtOneMoment, Promotion!RecheckedLate, Promotion!Rechecked, Promotion!RecordOK, Promotion!ReuseLooks,
          Promotion!SameLook, Promotion!Witnessed, Promotion!Used
<1>6. CASE s1 = "reuse"
  <2>1. Promotion!ReuseOK /\ s3 = 8 /\ ~Promotion!Promoted
    BY <1>6, PromotionReuseSteps DEF Promotion!Inv, Promotion!Promoted
  <2> QED BY <1>1, <1>6, <2>1
      DEF Promotion!AcceptedAtOneMoment, Promotion!RecheckedLate, Promotion!Rechecked, Promotion!ReuseOK, Promotion!Witnessed, Promotion!Used
<1>7. CASE s1 = "resolve" /\ s2 = "stable"
  <2>1. Promotion!ResolveOK /\ s3 = 24
    BY <1>7, PromotionStableSteps DEF Promotion!Inv
  <2>2. Promotion!ReuseLooks(14) /\ Promotion!SameLook(20) /\ Promotion!PromotionLooks /\ s16 \in {Promotion!None, s13}
    BY <1>7, <2>1 DEF Promotion!ResolveOK
  <2>3. s13 = s14 /\ s14 \in s18 /\ <<"release", s14>> \in s19 /\ <<"run", s14>> \in s19 /\ <<"evidence", s14>> \in s19 /\ <<"promotion", s14>> \in s19
    BY <1>7, <2>1, <2>2 DEF Promotion!ReuseLooks, Promotion!SameLook, Promotion!PromotionLooks
  <2> QED BY <1>1, <1>7, <2>2, <2>3 DEF Promotion!AcceptedAtOneMoment, Promotion!RecheckedLate, Promotion!Rechecked, Promotion!Used
<1>8. CASE s1 = "resolve" /\ s2 # "stable"
  <2>1. Promotion!ResolveOK /\ s3 = 18 /\ ~Promotion!Promoted
    BY <1>8, PromotionResolveSteps DEF Promotion!Inv, Promotion!Promoted
  <2>2. Promotion!ReuseLooks(11) /\ Promotion!SameLook(17) /\ s16 \in {Promotion!None, s13}
    BY <1>8, <2>1 DEF Promotion!ResolveOK
  <2>3. s13 = s14 /\ s14 \in s18 /\ <<"release", s14>> \in s19 /\ <<"run", s14>> \in s19 /\ <<"evidence", s14>> \in s19
    BY <1>8, <2>1, <2>2 DEF Promotion!ReuseLooks, Promotion!SameLook, Promotion!Witnessed
  <2> QED BY <1>1, <1>8, <2>2, <2>3 DEF Promotion!AcceptedAtOneMoment, Promotion!RecheckedLate, Promotion!Rechecked, Promotion!Used
<1> QED BY <1>1, <1>2, <1>3, <1>4, <1>5, <1>6, <1>7, <1>8 DEF Promotion!Kinds

\* Of a published release nothing is used on the strength of looks that never
\* held together, and nothing of which a later look did not hold again.
THEOREM EvidenceHeldWhenAccepted == Spec => []AcceptedEvidenceHeld
<1>1. (part = "promotion" => Promotion!Inv) => AcceptedEvidenceHeld
  BY PromotionAccepts DEF AcceptedEvidenceHeld, Promotion!AcceptedAtOneMoment, Promotion!RecheckedLate
<1> QED BY <1>1, PromotionInvHolds, PTL

-----------------------------------------------------------------------------
(* Version files                                                           *)

\* A value written to a field keeps a number a number, or is refused.
LEMMA FilesScalar ==
  ASSUME NEW value, NEW old
  PROVE  /\ old \in Files!Numbers => Files!Scalar(value, old) \in Files!Numbers \cup {"refused"}
         /\ Files!Scalar(value, old) \in {value, Files!Text(value), "refused"}
         /\ "refused" \notin Files!Numbers
BY DEF Files!Scalar, Files!Numbers, Files!Text

\* An edit of a file refuses, or leaves alone what is not its own.
LEMMA FilesEdit ==
  ASSUME NEW d, d.format \in Files!Formats, d.field \in Files!Cells, NEW content, Files!Real(content), NEW value,
         NEW typed \in BOOLEAN, typed => d.format \in {"json", "npm-lock", "toml", "python"}
  PROVE  \/ Files!Edit(d, content, value) = Files!Refused
         \/ Files!Real(Files!Edit(d, content, value)) /\ Files!Keeps(content, Files!Edit(d, content, value), typed)
<1>1. DOMAIN content = {"v", "w", "rest"} /\ content.rest \in {"text", "edited"} /\ content # Files!Refused
  BY DEF Files!Real, Files!Refused
<1>2. CASE d.format \in {"json", "npm-lock"}
  <2> DEFINE fields == Files!JsonFields(d, content)
             edited == [c \in DOMAIN content |-> IF c \in fields THEN Files!Scalar(value, content[c]) ELSE content[c]]
  <2>1. fields \subseteq Files!Cells
    BY DEF Files!JsonFields, Files!Cells
  <2>2. Files!Edit(d, content, value) = Files!JsonEdit(d, content, value)
    BY <1>1, <1>2 DEF Files!Edit
  <2>3. CASE \E c \in fields : content[c] \in {"none", "table"} \/ Files!Scalar(value, content[c]) = "refused"
    BY <2>2, <2>3 DEF Files!JsonEdit
  <2>4. CASE ~(\E c \in fields : content[c] \in {"none", "table"} \/ Files!Scalar(value, content[c]) = "refused")
    <3>1. Files!Edit(d, content, value) = edited
      BY <2>2, <2>4 DEF Files!JsonEdit
    <3>2. "rest" \notin fields
      BY <2>1 DEF Files!Cells
    <3>3. DOMAIN edited = {"v", "w", "rest"} /\ edited["rest"] = content["rest"]
      BY <1>1, <3>2
    <3>4. ASSUME NEW c \in Files!Cells, content[c] \in Files!Numbers PROVE edited[c] \in Files!Numbers
      <4>1. c \in DOMAIN content
        BY <1>1 DEF Files!Cells
      <4>2. CASE c \in fields
        <5>1. Files!Scalar(value, content[c]) \in Files!Numbers
          BY <2>4, <3>4, <4>2, FilesScalar
        <5> QED BY <4>1, <4>2, <5>1
      <4>3. CASE c \notin fields
        BY <3>4, <4>1, <4>3
      <4> QED BY <4>2, <4>3
    <3> HIDE DEF edited
    <3> QED BY <1>1, <3>1, <3>3, <3>4 DEF Files!Real, Files!Keeps
  <2> QED BY <2>3, <2>4
<1>3. CASE d.format \in {"toml", "python"}
  <2> DEFINE edited == [content EXCEPT ![d.field] = Files!Scalar(value, content[d.field])]
  <2>1. Files!Edit(d, content, value) = Files!TomlEdit(d, content, value)
    BY <1>1, <1>3 DEF Files!Edit, Files!PythonEdit
  <2>2. CASE Files!TomlEdit(d, content, value) = Files!Refused
    BY <2>1, <2>2
  <2>3. CASE Files!Scalar(value, content[d.field]) # "refused" /\ Files!TomlEdit(d, content, value) = edited
    <3>1. DOMAIN edited = {"v", "w", "rest"} /\ edited["rest"] = content["rest"]
      BY <1>1 DEF Files!Cells
    <3>2. ASSUME NEW c \in Files!Cells, content[c] \in Files!Numbers PROVE edited[c] \in Files!Numbers
      <4>1. c \in DOMAIN content
        BY <1>1 DEF Files!Cells
      <4>2. CASE c = d.field
        <5>1. Files!Scalar(value, content[c]) \in Files!Numbers
          BY <2>3, <3>2, <4>2, FilesScalar
        <5> QED BY <4>1, <4>2, <5>1
      <4>3. CASE c # d.field
        BY <3>2, <4>1, <4>3
      <4> QED BY <4>2, <4>3
    <3> HIDE DEF edited
    <3> QED BY <1>1, <2>1, <2>3, <3>1, <3>2 DEF Files!Real, Files!Keeps
  <2> QED BY <2>2, <2>3 DEF Files!TomlEdit
<1>4. CASE d.format \in {"plist", "pbxproj", "text"}
  <2>1. ~typed
    BY <1>4
  <2>2. Files!Edit(d, content, value) \in
          {Files!Refused, [content EXCEPT ![d.field] = value], [content EXCEPT !.v = Files!Text(value)]}
    <3>1. CASE d.format = "plist"
      BY <1>1, <3>1 DEF Files!Edit, Files!PlistEdit, Files!AppleEdit
    <3>2. CASE d.format = "pbxproj"
      BY <1>1, <3>2 DEF Files!Edit, Files!PbxEdit, Files!AppleEdit
    <3>3. CASE d.format = "text"
      BY <1>1, <3>3 DEF Files!Edit, Files!TextEdit
    <3> QED BY <1>4, <3>1, <3>2, <3>3
  <2>3. ASSUME NEW c \in Files!Cells, NEW x
        PROVE  Files!Real([content EXCEPT ![c] = x]) /\ Files!Keeps(content, [content EXCEPT ![c] = x], FALSE)
    <3>1. c # "rest"
      BY DEF Files!Cells
    <3> QED BY <1>1, <3>1 DEF Files!Real, Files!Keeps
  <2>4. Files!Real([content EXCEPT ![d.field] = value]) /\ Files!Keeps(content, [content EXCEPT ![d.field] = value], FALSE)
    BY <2>3
  <2>5. Files!Real([content EXCEPT !.v = Files!Text(value)]) /\ Files!Keeps(content, [content EXCEPT !.v = Files!Text(value)], FALSE)
    BY <2>3 DEF Files!Cells
  <2>6. \A new : Files!Keeps(content, new, FALSE) => Files!Keeps(content, new, typed)
    BY <2>1 DEF Files!Keeps
  <2> QED BY <2>2, <2>4, <2>5, <2>6
<1> QED BY <1>2, <1>3, <1>4 DEF Files!Formats

\* A declaration that would edit nothing holds.
LEMMA FilesHolds ==
  ASSUME NEW d, d.format \in Files!Formats, d.field \in Files!Cells, d.format = "text" => d.field = "v",
         NEW content, Files!Real(content), Files!Edit(d, content, Files!ProjectedValue(s2, d)) = content
  PROVE  Files!Holds(d, content)
<1> DEFINE value == Files!ProjectedValue(s2, d)
<1> HIDE DEF value
<1>1. /\ DOMAIN content = {"v", "w", "rest"} /\ content.rest \in {"text", "edited"} /\ content # Files!Refused
      /\ Files!Edit(d, content, value) = content
  BY DEF Files!Real, Files!Refused, value
<1>2. CASE d.format \in {"json", "npm-lock"}
  <2> DEFINE fields == Files!JsonFields(d, content)
  <2>1. fields \subseteq Files!Cells /\ Files!JsonEdit(d, content, value) = content
    BY <1>1, <1>2 DEF Files!JsonFields, Files!Cells, Files!Edit
  <2>2. \A c \in fields : content[c] \notin {"none", "table"} /\ Files!Scalar(value, content[c]) # "refused"
    BY <1>1, <2>1 DEF Files!JsonEdit
  <2>3. content = [c \in DOMAIN content |-> IF c \in fields THEN Files!Scalar(value, content[c]) ELSE content[c]]
    BY <2>1, <2>2 DEF Files!JsonEdit
  <2>4. \A c \in fields : content[c] = Files!Scalar(value, content[c])
    BY <1>1, <2>1, <2>3 DEF Files!Cells
  <2>5. \A c \in fields : content[c] \in {value, Files!Text(value)}
    BY <2>2, <2>4, FilesScalar
  <2>6. (IF d.format = "npm-lock" THEN {c \in Files!Cells : content[c] # "none"} ELSE {d.field}) \subseteq fields
    BY <1>2 DEF Files!JsonFields, Files!Cells
  <2> QED BY <2>5, <2>6 DEF Files!Holds, value
<1>3. CASE d.format \in {"toml", "python"}
  <2>1. Files!TomlEdit(d, content, value) = content
    BY <1>1, <1>3 DEF Files!Edit, Files!PythonEdit
  <2>2. content = [content EXCEPT ![d.field] = Files!Scalar(value, content[d.field])] /\ Files!Scalar(value, content[d.field]) # "refused"
    BY <1>1, <2>1 DEF Files!TomlEdit
  <2>3. content[d.field] = Files!Scalar(value, content[d.field])
    BY <1>1, <2>2 DEF Files!Cells
  <2>4. content[d.field] \in {value, Files!Text(value)}
    BY <2>2, <2>3, FilesScalar
  <2> QED BY <1>3, <2>4 DEF Files!Holds, value
<1>4. CASE d.format \in {"plist", "pbxproj"}
  <2>1. Files!AppleEdit(d, content, value) = content
    <3>1. CASE d.format = "plist"
      BY <1>1, <3>1 DEF Files!Edit, Files!PlistEdit
    <3>2. CASE d.format = "pbxproj"
      BY <1>1, <3>2 DEF Files!Edit, Files!PbxEdit
    <3> QED BY <1>4, <3>1, <3>2
  <2>2. content = [content EXCEPT ![d.field] = value]
    BY <1>1, <2>1 DEF Files!AppleEdit
  <2>3. content[d.field] = value
    BY <1>1, <2>2 DEF Files!Cells
  <2> QED BY <1>4, <2>3 DEF Files!Holds, value
<1>5. CASE d.format = "text"
  <2>1. content = [content EXCEPT !.v = Files!Text(value)]
    BY <1>1, <1>5 DEF Files!Edit, Files!TextEdit
  <2>2. content["v"] = Files!Text(value)
    BY <1>1, <2>1
  <2> QED BY <1>5, <2>2 DEF Files!Holds, value
<1> QED BY <1>2, <1>3, <1>4, <1>5 DEF Files!Formats

\* What the policy of a plan declares.
LEMMA FilesPolicy ==
  ASSUME Files!TypesOK
  PROVE  /\ s1 \in Seq(Files!Declarable) /\ Len(s1) \in Nat /\ DOMAIN s1 = 1 .. Len(s1)
         /\ \A i \in DOMAIN s1 : /\ s1[i].path \in Paths /\ s1[i].format \in Files!Formats /\ s1[i].field \in Files!Cells
                                 /\ s1[i].format = "text" => s1[i].field = "v"
                                 /\ Files!Typed(s1[i].path) => s1[i].format \in {"json", "npm-lock", "toml", "python"}
         /\ Files!Files \subseteq Paths
<1>1. /\ s1 \in Seq(Files!Declarable)
      /\ \A i \in DOMAIN s1 : s1[i].format = "text" => s1[i].field = "v"
      /\ \A i, j \in DOMAIN s1 : s1[i].path = s1[j].path => Files!Syntax(s1[i].format) = Files!Syntax(s1[j].format)
  BY FilesAssumption DEF FilesAssumption, Files!PoliciesAssumption, Files!TypesOK
<1>2. \A i \in DOMAIN s1 : s1[i] \in Files!Declarable
  BY <1>1
<1>3. \A i \in DOMAIN s1 : s1[i].path \in Paths /\ s1[i].format \in Files!Formats /\ s1[i].field \in Files!Cells
  BY <1>2 DEF Files!Declarable
<1>4. ASSUME NEW i \in DOMAIN s1, Files!Typed(s1[i].path) PROVE s1[i].format \in {"json", "npm-lock", "toml", "python"}
  <2>1. PICK j \in DOMAIN s1 : s1[j].path = s1[i].path /\ s1[j].format \in {"json", "toml", "python"}
    BY <1>4 DEF Files!Typed
  <2>2. Files!Syntax(s1[i].format) = Files!Syntax(s1[j].format)
    BY <1>1, <2>1
  <2> QED BY <2>1, <2>2 DEF Files!Syntax
<1> QED BY <1>1, <1>3, <1>4 DEF Files!Files

\* The commit checked out, and nothing read.
LEMMA FilesInit ==
  ASSUME Files!Init
  PROVE  Files!Inv
<1>1. s1 \in Policies /\ s11 = 0 /\ s12 = 0 /\ s5 = "start" /\ s4 = s3
      /\ s6 = [f \in Paths |-> Files!Unset] /\ s7 = [f \in Paths |-> Files!Unset]
  BY DEF Files!Init, Files!Nothing
<1>2. PICK old \in {"1.0", "1.1"}, w \in {"none", "1.1", "a7", "n6", "table"} :
        s3 = [f \in Paths |-> [v |-> old, w |-> w, rest |-> "text"]]
  BY DEF Files!Init
<1>3. s1 \in Seq(Files!Declarable)
  BY <1>1, FilesAssumption DEF FilesAssumption, Files!PoliciesAssumption
<1>4. Len(s1) \in Nat
  BY <1>3
<1>5. Files!TypesOK
  BY <1>1, <1>2, <1>4 DEF Files!TypesOK, Files!Real
<1>6. Files!ReadOK
  <2>1. \A f \in Paths : s6[f] = Files!Unset /\ ~\E i \in 1 .. s12 : s1[i].path = f
    BY <1>1
  <2> QED BY <2>1 DEF Files!ReadOK
<1>7. Files!AgreeOK
  BY <1>1 DEF Files!AgreeOK
<1>8. Files!DiskOK
  BY <1>1 DEF Files!DiskOK, Files!Kept, Files!Keeps
<1> QED BY <1>5, <1>6, <1>7, <1>8 DEF Files!Inv

\* A step that only goes on, with the declarations agreed if it goes beyond them.
LEMMA FilesGoesOn ==
  ASSUME Files!Inv, UNCHANGED <<s1, s2, s3, s4, s6, s7, s9, s11, s12>>,
         \/ s5' = "refused"
         \/ s5 = "start" /\ s5' = "read"
         \/ s5 = "read" /\ s5' = "prepared" /\ s12 = Len(s1) /\ Files!Consistent(s7)
         \/ s5 = "prepared" /\ s5' \in {"checked", "stage"}
         \/ s5 = "stage" /\ s5' = "replace" /\ s8' = Files!Drift
  PROVE  Files!Inv'
<1>1. Files!TypesOK /\ Files!ReadOK /\ Files!AgreeOK /\ Files!DiskOK
  BY DEF Files!Inv
<1>2. Files!TypesOK'
  BY <1>1 DEF Files!TypesOK
<1>3. Files!ReadOK'
  BY <1>1 DEF Files!ReadOK
<1>4. Files!Consistent(s7)' <=> Files!Consistent(s7)
  BY DEF Files!Consistent
<1>5. Files!AgreeOK'
  BY <1>1, <1>4 DEF Files!AgreeOK, Files!Drift, Files!Files
<1>6. Files!DiskOK'
  <2> SUFFICES ASSUME s11 = 0, s5' # "refused", NEW f \in Paths
               PROVE  /\ Files!Kept(f, s4[f])
                      /\ s6[f] # Files!Unset => /\ Files!Kept(f, s7[f])
                                                /\ s4[f] = IF s5' \in {"replace", "done"} /\ f \notin s8' THEN s7[f] ELSE s6[f]
    BY DEF Files!DiskOK, Files!Kept, Files!Typed
  <2>1. /\ Files!Kept(f, s4[f])
        /\ s6[f] # Files!Unset => Files!Kept(f, s7[f]) /\ s4[f] = s6[f]
    BY <1>1 DEF Files!DiskOK
  <2>2. s6[f] # Files!Unset /\ s5' = "replace" => f \in s8' \/ s6[f] = s7[f]
    <3>1. CASE s5' = "replace" /\ s6[f] # Files!Unset
      <4>1. s12 = Len(s1) /\ s8' = Files!Drift /\ s12 \in Nat
        BY <1>1, <3>1 DEF Files!AgreeOK, Files!TypesOK
      <4>2. PICK i \in 1 .. s12 : s1[i].path = f
        BY <1>1, <3>1 DEF Files!ReadOK
      <4>3. f \in Files!Files
        BY <1>1, <4>1, <4>2, FilesPolicy DEF Files!Files
      <4> QED BY <4>1, <4>3 DEF Files!Drift
    <3> QED BY <3>1
  <2> QED BY <2>1, <2>2
<1> QED BY <1>2, <1>3, <1>5, <1>6 DEF Files!Inv

\* A declaration is applied to what the ones before it made of its file.
LEMMA FilesPrepareKeeps ==
  ASSUME Files!Inv, Files!Prepare
  PROVE  Files!Inv'
<1> DEFINE d == s1[s12 + 1]
           f == d.path
           original == IF s6[f] = Files!Unset THEN s4[f] ELSE s6[f]
           content == IF s6[f] = Files!Unset THEN s4[f] ELSE s7[f]
           edited == Files!Edit(d, content, Files!ProjectedValue(s2, d))
<1>1. /\ s5 = "read" /\ s12 < Len(s1) /\ s12' = s12 + 1 /\ UNCHANGED <<s1, s2, s3, s4, s8, s9, s10, s11>>
      /\ IF edited = Files!Refused THEN s5' = "refused" /\ s6' = s6 /\ s7' = s7
         ELSE s6' = [s6 EXCEPT ![f] = original] /\ s7' = [s7 EXCEPT ![f] = edited] /\ s5' = s5
  BY DEF Files!Prepare, Files!Inputs
<1>2. Files!TypesOK /\ Files!ReadOK /\ Files!AgreeOK /\ Files!DiskOK
  BY DEF Files!Inv
<1>3. s12 \in Nat /\ s12 + 1 \in DOMAIN s1 /\ s12' \in 0 .. Len(s1) /\ s1 \in Seq(Files!Declarable)
  <2>1. s12 \in 0 .. Len(s1) /\ Len(s1) \in Nat
    BY <1>2, FilesPolicy DEF Files!TypesOK
  <2> QED BY <1>1, <1>2, <2>1, FilesPolicy
<1>4. /\ f \in Paths /\ d.format \in Files!Formats /\ d.field \in Files!Cells
      /\ Files!Typed(f) => d.format \in {"json", "npm-lock", "toml", "python"}
  BY <1>2, <1>3, FilesPolicy
<1>5. DOMAIN s6 = Paths /\ DOMAIN s7 = Paths
  BY <1>2 DEF Files!TypesOK
<1>6. Files!TypesOK'
  BY <1>1, <1>2, <1>3 DEF Files!TypesOK
<1>7. CASE edited = Files!Refused
  BY <1>1, <1>6, <1>7 DEF Files!Inv, Files!ReadOK, Files!AgreeOK, Files!DiskOK
<1>8. CASE edited # Files!Refused
  <2>1. s6' = [s6 EXCEPT ![f] = original] /\ s7' = [s7 EXCEPT ![f] = edited] /\ s5' = "read"
    BY <1>1, <1>8
  <2>2. (\E i \in 1 .. s12 : s1[i].path = f) <=> s6[f] # Files!Unset
    BY <1>1, <1>2, <1>4 DEF Files!ReadOK, Files!Real, Files!Unset
  <2>3. Files!Real(content) /\ Files!Real(original)
    <3>1. Files!Real(s4[f])
      BY <1>2, <1>4 DEF Files!TypesOK
    <3>2. s6[f] # Files!Unset => Files!Real(s6[f]) /\ Files!Real(s7[f])
      BY <1>1, <1>2, <1>4, <2>2 DEF Files!ReadOK
    <3> QED BY <3>1, <3>2
  <2>4. PICK typed \in BOOLEAN : typed <=> Files!Typed(f)
    OBVIOUS
  <2>5. Files!Real(edited) /\ Files!Keeps(content, edited, typed)
    <3>1. typed => d.format \in {"json", "npm-lock", "toml", "python"}
      BY <1>4, <2>4
    <3> HIDE DEF d, content
    <3> QED BY <1>4, <1>8, <2>3, <3>1, FilesEdit
  <2> HIDE DEF edited, content, original
  <2>6. Files!ReadOK'
    <3> SUFFICES ASSUME NEW g \in Paths
                 PROVE  IF \E i \in 1 .. s12' : s1[i].path = g THEN Files!Real(s6'[g]) /\ Files!Real(s7'[g]) ELSE s6'[g] = Files!Unset
      BY <1>1 DEF Files!ReadOK
    <3>1. CASE g = f
      <4>1. s6'[g] = original /\ s7'[g] = edited /\ s12' \in 1 .. s12' /\ s1[s12'].path = g
        BY <1>1, <1>3, <1>4, <1>5, <2>1, <3>1
      <4> QED BY <2>3, <2>5, <4>1
    <3>2. CASE g # f
      <4>1. s6'[g] = s6[g] /\ s7'[g] = s7[g]
        BY <1>5, <2>1, <3>2
      <4>2. (\E i \in 1 .. s12' : s1[i].path = g) <=> \E i \in 1 .. s12 : s1[i].path = g
        BY <1>1, <1>3, <3>2
      <4> QED BY <1>1, <1>2, <4>1, <4>2 DEF Files!ReadOK
    <3> QED BY <3>1, <3>2
  <2>7. Files!AgreeOK'
    BY <2>1 DEF Files!AgreeOK
  <2>8. Files!DiskOK'
    <3> SUFFICES ASSUME s11 = 0, NEW g \in Paths
                 PROVE  Files!Kept(g, s4[g]) /\ (s6'[g] # Files!Unset => Files!Kept(g, s7'[g]) /\ s4[g] = s6'[g])
      BY <1>1, <2>1 DEF Files!DiskOK, Files!Kept, Files!Typed
    <3>1. Files!Kept(g, s4[g]) /\ (s6[g] # Files!Unset => Files!Kept(g, s7[g]) /\ s4[g] = s6[g])
      BY <1>1, <1>2 DEF Files!DiskOK
    <3>2. CASE g # f
      <4>1. s6'[g] = s6[g] /\ s7'[g] = s7[g]
        BY <1>5, <2>1, <3>2
      <4> QED BY <3>1, <4>1
    <3>3. CASE g = f
      <4>1. s6'[g] = original /\ s7'[g] = edited
        BY <1>4, <1>5, <2>1, <3>3
      <4>2. Files!Kept(g, content) /\ original = s4[g]
        BY <3>1, <3>3 DEF content, original
      <4>3. Files!Kept(g, edited)
        BY <2>4, <2>5, <3>3, <4>2 DEF Files!Kept, Files!Keeps
      <4> QED BY <3>1, <4>1, <4>2, <4>3
    <3> QED BY <3>2, <3>3
  <2> QED BY <1>6, <2>6, <2>7, <2>8 DEF Files!Inv
<1> QED BY <1>7, <1>8

\* A file that still holds what was read of it takes what was made of it.
LEMMA FilesReplaceKeeps ==
  ASSUME Files!Inv, NEW f \in Paths, Files!Replace(f)
  PROVE  Files!Inv'
<1>1. s5 = "replace" /\ f \in s8 /\ UNCHANGED <<s1, s2, s3, s6, s7, s9, s10, s11, s12>>
  BY DEF Files!Replace, Files!Inputs
<1>2. Files!TypesOK /\ Files!ReadOK /\ Files!AgreeOK /\ Files!DiskOK
  BY DEF Files!Inv
<1>3. CASE s4[f] # s6[f]
  <2>1. s5' = "refused" /\ s4' = s4
    BY <1>3 DEF Files!Replace
  <2> QED BY <1>1, <2>1, FilesGoesOn
<1>4. CASE s4[f] = s6[f]
  <2>1. s4' = [s4 EXCEPT ![f] = s7[f]] /\ s8' = s8 \ {f} /\ s5' = s5
    BY <1>4 DEF Files!Replace
  <2>2. DOMAIN s4 = Paths /\ s4'[f] = s7[f] /\ \A g \in Paths : g # f => s4'[g] = s4[g]
    BY <1>2, <2>1 DEF Files!TypesOK
  <2>3. s6[f] # Files!Unset /\ Files!Real(s7[f])
    <3>1. f \in Files!Files /\ s12 = Len(s1)
      BY <1>1, <1>2 DEF Files!AgreeOK
    <3>2. PICK i \in 1 .. s12 : s1[i].path = f
      BY <1>2, <3>1, FilesPolicy DEF Files!Files
    <3> QED BY <1>1, <1>2, <3>2 DEF Files!ReadOK, Files!Real, Files!Unset
  <2>4. Files!TypesOK'
    BY <1>1, <1>2, <2>1, <2>2, <2>3 DEF Files!TypesOK
  <2>5. Files!ReadOK'
    BY <1>1, <1>2, <2>1 DEF Files!ReadOK
  <2>6. Files!AgreeOK'
    <3>1. Files!Consistent(s7)' <=> Files!Consistent(s7)
      BY <1>1 DEF Files!Consistent
    <3> QED BY <1>1, <1>2, <2>1, <3>1 DEF Files!AgreeOK, Files!Files
  <2>7. Files!DiskOK'
    <3> SUFFICES ASSUME s11 = 0, NEW g \in Paths
                 PROVE  /\ Files!Kept(g, s4'[g])
                        /\ s6[g] # Files!Unset => Files!Kept(g, s7[g]) /\ s4'[g] = IF g \notin s8' THEN s7[g] ELSE s6[g]
      BY <1>1, <2>1 DEF Files!DiskOK, Files!Kept, Files!Typed
    <3>1. /\ Files!Kept(g, s4[g])
          /\ s6[g] # Files!Unset => Files!Kept(g, s7[g]) /\ s4[g] = IF g \notin s8 THEN s7[g] ELSE s6[g]
      BY <1>1, <1>2 DEF Files!DiskOK
    <3>2. CASE g = f
      BY <2>1, <2>2, <2>3, <3>1, <3>2
    <3>3. CASE g # f
      BY <2>1, <2>2, <3>1, <3>3
    <3> QED BY <3>2, <3>3
  <2> QED BY <2>4, <2>5, <2>6, <2>7 DEF Files!Inv
<1> QED BY <1>3, <1>4

\* The evidence says what the declarations agreed on, and a killed run has read nothing.
LEMMA FilesEndsKeep ==
  ASSUME Files!Inv, Files!WriteEvidence \/ Files!Kill
  PROVE  Files!Inv'
<1>1. Files!TypesOK /\ Files!ReadOK /\ Files!AgreeOK /\ Files!DiskOK
  BY DEF Files!Inv
<1>2. CASE Files!WriteEvidence
  <2>1. s5 = "replace" /\ s8 = {} /\ s9' = s7 /\ s5' = "done" /\ UNCHANGED <<s1, s2, s3, s4, s6, s7, s8, s10, s11, s12>>
    BY <1>2 DEF Files!WriteEvidence, Files!Inputs
  <2>2. Files!TypesOK'
    BY <1>1, <2>1 DEF Files!TypesOK
  <2>3. Files!ReadOK'
    BY <1>1, <2>1 DEF Files!ReadOK
  <2>4. Files!AgreeOK'
    <3>1. Files!Consistent(s7)' <=> Files!Consistent(s7)
      BY <2>1 DEF Files!Consistent
    <3> QED BY <1>1, <2>1, <3>1 DEF Files!AgreeOK
  <2>5. Files!DiskOK'
    BY <1>1, <2>1 DEF Files!DiskOK, Files!Kept, Files!Typed
  <2> QED BY <2>2, <2>3, <2>4, <2>5 DEF Files!Inv
<1>3. CASE Files!Kill
  <2>1. /\ s5 # "refused" /\ s5' = "start" /\ s12' = 0 /\ UNCHANGED <<s1, s2, s3, s4, s9, s11>>
        /\ s6' = [f \in Paths |-> Files!Unset] /\ s7' = [f \in Paths |-> Files!Unset]
    BY <1>3 DEF Files!Kill, Files!Inputs, Files!Nothing
  <2>2. Files!TypesOK'
    <3>1. Len(s1) \in Nat
      BY <1>1, FilesPolicy
    <3> QED BY <1>1, <2>1, <3>1 DEF Files!TypesOK
  <2>3. Files!ReadOK'
    <3>1. \A f \in Paths : s6'[f] = Files!Unset /\ ~\E i \in 1 .. s12' : s1[i].path = f
      BY <2>1
    <3> QED BY <2>1, <3>1 DEF Files!ReadOK
  <2>4. Files!AgreeOK'
    BY <2>1 DEF Files!AgreeOK
  <2>5. Files!DiskOK'
    BY <1>1, <2>1 DEF Files!DiskOK, Files!Kept, Files!Typed
  <2> QED BY <2>2, <2>3, <2>4, <2>5 DEF Files!Inv
<1> QED BY <1>2, <1>3

\* After an edit by somebody else, nothing is claimed of the disk.
LEMMA FilesEditedKeeps ==
  ASSUME Files!Inv, NEW f \in Paths, Files!SomebodyEdits(f)
  PROVE  Files!Inv'
<1>1. /\ s11' = s11 + 1 /\ UNCHANGED <<s1, s2, s3, s5, s6, s7, s8, s9, s10, s12>>
      /\ s4' \in {[s4 EXCEPT ![f].rest = "edited"], [s4 EXCEPT ![f].v = "1.0"]}
  BY DEF Files!SomebodyEdits, Files!Inputs
<1>2. Files!TypesOK /\ Files!ReadOK /\ Files!AgreeOK
  BY DEF Files!Inv
<1>3. s11 \in Nat /\ s11' \in Nat /\ s11' # 0
  BY <1>1, <1>2 DEF Files!TypesOK
<1>4. DOMAIN s4' = Paths /\ \A g \in Paths : Files!Real(s4'[g])
  <2>1. DOMAIN s4 = Paths /\ \A g \in Paths : Files!Real(s4[g])
    BY <1>2 DEF Files!TypesOK
  <2>2. Files!Real([s4[f] EXCEPT !.rest = "edited"]) /\ Files!Real([s4[f] EXCEPT !.v = "1.0"])
    BY <2>1 DEF Files!Real
  <2>3. s4' \in {[s4 EXCEPT ![f] = [s4[f] EXCEPT !.rest = "edited"]], [s4 EXCEPT ![f] = [s4[f] EXCEPT !.v = "1.0"]]}
    BY <1>1
  <2> QED BY <2>1, <2>2, <2>3
<1>5. Files!TypesOK'
  BY <1>1, <1>2, <1>3, <1>4 DEF Files!TypesOK
<1>6. Files!ReadOK'
  BY <1>1, <1>2 DEF Files!ReadOK
<1>7. Files!AgreeOK'
  <2>1. Files!Consistent(s7)' <=> Files!Consistent(s7)
    BY <1>1 DEF Files!Consistent
  <2> QED BY <1>1, <1>2, <2>1 DEF Files!AgreeOK, Files!Files
<1>8. Files!DiskOK'
  BY <1>3 DEF Files!DiskOK
<1> QED BY <1>5, <1>6, <1>7, <1>8 DEF Files!Inv

\* The other steps only go on.
LEMMA FilesOthersKeep ==
  ASSUME Files!Inv, Files!Start \/ Files!Agree \/ Files!Recheck \/ Files!Stage
  PROVE  Files!Inv'
<1>1. CASE Files!Start
  BY <1>1, FilesGoesOn DEF Files!Start, Files!Inputs
<1>2. CASE Files!Agree
  BY <1>2, FilesGoesOn DEF Files!Agree, Files!Inputs
<1>3. CASE Files!Recheck
  BY <1>3, FilesGoesOn DEF Files!Recheck, Files!Inputs
<1>4. CASE Files!Stage
  BY <1>4, FilesGoesOn DEF Files!Stage, Files!Inputs
<1> QED BY <1>1, <1>2, <1>3, <1>4

\* Steps of other components, and none at all.
LEMMA FilesStutter ==
  ASSUME Files!Inv, UNCHANGED <<s1, s2, s3, s4, s5, s6, s7, s8, s9, s10, s11, s12>>
  PROVE  Files!Inv'
<1>1. Files!TypesOK /\ Files!ReadOK /\ Files!AgreeOK /\ Files!DiskOK
  BY DEF Files!Inv
<1>2. Files!TypesOK'
  BY <1>1 DEF Files!TypesOK
<1>3. Files!ReadOK'
  BY <1>1 DEF Files!ReadOK
<1>4. Files!AgreeOK'
  <2>1. Files!Consistent(s7)' <=> Files!Consistent(s7)
    BY DEF Files!Consistent
  <2> QED BY <1>1, <2>1 DEF Files!AgreeOK, Files!Files
<1>5. Files!DiskOK'
  BY <1>1 DEF Files!DiskOK, Files!Kept, Files!Typed
<1> QED BY <1>2, <1>3, <1>4, <1>5 DEF Files!Inv

\* sync_versions: while declarations are applied in memory and files are
\* replaced one by one, memory and disk hold what was read or what all
\* declarations agreed on.
THEOREM FilesInvHolds == Spec => [](part = "files" => Files!Inv)
<1>1. Init => (part = "files" => Files!Inv)
  BY FilesInit DEF Init
<1>2. Files!Inv /\ Files!Next => Files!Inv'
  BY FilesPrepareKeeps, FilesReplaceKeeps, FilesEndsKeep, FilesEditedKeeps, FilesOthersKeep DEF Files!Next, Files!Step
<1>3. (part = "files" => Files!Inv) /\ [Next]_vars => (part = "files" => Files!Inv)'
  BY <1>2, FilesStutter DEF Next, VendorStep, FilesStep, TomlStep, VersionStep, ReceiptsStep, PromotionStep, vars
<1> QED BY <1>1, <1>3, PTL DEF Spec

\* sync_versions: the evidence is true of every declaration at once, an integer
\* stayed an integer, and beside the declared cells a file holds what it held;
\* for any policy, any number of kills and edits by others.
THEOREM EvidenceIsTrue == Spec => []VersionFilesTrue
<1>1. (part = "files" => Files!Inv) => VersionFilesTrue
  <2> SUFFICES ASSUME Files!Inv, s5 = "done" PROVE Files!EvidenceTrue
    BY DEF VersionFilesTrue, Files!EvidenceTrue
  <2>1. /\ Files!TypesOK /\ Files!ReadOK /\ Files!DiskOK /\ s12 = Len(s1) /\ Files!Consistent(s7) /\ s8 = {} /\ s9 = s7
    BY DEF Files!Inv, Files!AgreeOK
  <2>2. ASSUME NEW i \in DOMAIN s1
        PROVE  /\ s1[i].path \in Paths /\ Files!Real(s7[s1[i].path]) /\ s6[s1[i].path] # Files!Unset
               /\ Files!Holds(s1[i], s7[s1[i].path])
               /\ s11 = 0 => Files!Kept(s1[i].path, s7[s1[i].path]) /\ s7[s1[i].path] = s4[s1[i].path]
    <3>1. /\ s1[i].path \in Paths /\ s1[i].format \in Files!Formats /\ s1[i].field \in Files!Cells
          /\ s1[i].format = "text" => s1[i].field = "v"
          /\ i \in 1 .. s12
      BY <2>1, FilesPolicy
    <3>2. Files!Real(s7[s1[i].path]) /\ s6[s1[i].path] # Files!Unset
      BY <2>1, <3>1 DEF Files!ReadOK, Files!Real, Files!Unset
    <3>3. Files!Edit(s1[i], s7[s1[i].path], Files!ProjectedValue(s2, s1[i])) = s7[s1[i].path]
      BY <2>1 DEF Files!Consistent
    <3>4. Files!Holds(s1[i], s7[s1[i].path])
      BY <3>1, <3>2, <3>3, FilesHolds
    <3>5. s11 = 0 => Files!Kept(s1[i].path, s7[s1[i].path]) /\ s7[s1[i].path] = s4[s1[i].path]
      BY <2>1, <3>1, <3>2 DEF Files!DiskOK
    <3> QED BY <3>1, <3>2, <3>4, <3>5
  <2>3. ASSUME NEW i \in DOMAIN s1, s11 = 0, s1[i].format \in {"json", "toml", "python"}, s3[s1[i].path][s1[i].field] \in Files!Numbers
        PROVE  s7[s1[i].path][s1[i].field] \in Files!Numbers
    <3>1. Files!Typed(s1[i].path) /\ s1[i].field \in Files!Cells
      BY <2>1, <2>3, FilesPolicy DEF Files!Typed
    <3> QED BY <2>2, <2>3, <3>1 DEF Files!Kept, Files!Keeps
  <2>4. ASSUME NEW i \in DOMAIN s1, s11 = 0
        PROVE  s7[s1[i].path].rest = s3[s1[i].path].rest
    BY <2>2, <2>4 DEF Files!Kept, Files!Keeps
  <2> QED BY <2>1, <2>2, <2>3, <2>4 DEF Files!EvidenceTrue
<1> QED BY <1>1, FilesInvHolds, PTL
=============================================================================
