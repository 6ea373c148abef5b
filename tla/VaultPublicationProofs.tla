----------------------- MODULE VaultPublicationProofs -----------------------
(***************************************************************************)
(* Proofs about VaultPublication, for any catalogs, any batch and any      *)
(* number of publishers, faults and readback attempts.                     *)
(*                                                                         *)
(* What publish promises is not inductive: its writes come long after the  *)
(* snapshots that justify them.  Inv adds what a snapshot and a plan still *)
(* tell about the destination.  Every change of a destination gives it a   *)
(* new ETag, so a plan whose ETag is current describes the destination as  *)
(* it is; and revisions never move back, so what an invocation has found   *)
(* delivered stays delivered without any ETag.                             *)
(***************************************************************************)
EXTENDS VaultPublication, TLAPS

\* A destination without a payload has no revision yet.
FreshOK(t) ==
  (secret[t].state \in {"none", "creating"} \/ secret[t].etag = 0) => secret[t].revision = 0

\* An accepted change that does not show yet carries a catalog's revision, not
\* older than the one that shows, and its payload.
PendingOK(t) ==
  pending[t] # NoChange =>
    /\ pending[t].revision \in Revisions
    /\ pending[t].revision >= secret[t].revision
    /\ t \notin touched => pending[t].value = Value[t][pending[t].revision]

\* The snapshot of a preflight was taken here, and tells what is there now
\* unless the ETag has moved on.
SeenOK(p) ==
  pc[p] = "reread" =>
    /\ seen[p].revision <= Mine(p, Here(p))
    /\ seen[p].etag = secret[Here(p)].etag => seen[p] = secret[Here(p)]
    /\ seen[p].etag <= secret[Here(p)].etag

\* A planned write whose ETag is current may replace what is there, and one
\* that only advances the tag finds its own payload.
PlanOK(p, t) ==
  /\ plan[p][t].action \in {"none", "update", "advance"} =>
       /\ plan[p][t].etag <= secret[t].etag
       /\ plan[p][t].etag = secret[t].etag => secret[t].revision <= Mine(p, t)
  /\ plan[p][t].action = "advance" /\ plan[p][t].etag = secret[t].etag
       => secret[t].value = MyValue(p, t)
  /\ plan[p][t].action = "noop" => secret[t].revision >= Mine(p, t)

\* The destinations an invocation has left behind are delivered.
DeliveredOK(p) ==
  /\ pc[p] \in {"write", "readback", "confirm"} =>
       \A i \in 1 .. Len(Batch) :
         i < at[p] => secret[Batch[i]].revision >= Mine(p, Batch[i])
  /\ pc[p] = "confirm" => secret[Here(p)].revision >= Mine(p, Here(p))
  /\ pc[p] = "done" => \A t \in Targets : secret[t].revision >= Mine(p, t)

MemoryOK(p) == SeenOK(p) /\ DeliveredOK(p) /\ \A t \in Targets : PlanOK(p, t)

VaultOK == RevisionTellsValue /\ \A t \in Targets : FreshOK(t) /\ PendingOK(t)

Inv == TypeOK /\ VaultOK /\ \A p \in Publishers : MemoryOK(p)

-----------------------------------------------------------------------------
(* Facts about the data *)

LEMMA CatalogFacts ==
  ASSUME NEW p \in Publishers, NEW t \in Targets
  PROVE  /\ Mine(p, t) \in Revisions
         /\ Mine(p, t) \in Nat \ {0}
         /\ MyValue(p, t) \in Values
         /\ MyValue(p, t) = Value[t][Mine(p, t)]
BY CatalogAssumption DEF Mine, MyValue, Revisions, Values

LEMMA RevisionsAreNumbers == Revisions \subseteq Nat \ {0}
BY CatalogAssumption DEF Revisions

LEMMA BatchFacts ==
  /\ Len(Batch) \in Nat \ {0}
  /\ \A i \in 1 .. Len(Batch) : Batch[i] \in Targets
  /\ \A t \in Targets : \E i \in 1 .. Len(Batch) : t = Batch[i]
<1>1. DOMAIN Batch = 1 .. Len(Batch) /\ Len(Batch) \in Nat
  BY CatalogAssumption
<1>2. Len(Batch) # 0
  BY CatalogAssumption
<1> QED BY <1>1, <1>2 DEF Targets

\* The destination an invocation is at.
LEMMA HereIsTarget ==
  ASSUME TypeOK, NEW p \in Publishers
  PROVE  at[p] \in 1 .. Len(Batch) /\ Here(p) \in Targets
BY BatchFacts DEF TypeOK, Here

LEMMA InitialType ==
  /\ Absent \in Snapshots /\ NoPlan \in Plans
  /\ NoChange \in [revision : Revisions \cup {0}, value : Values]
BY DEF Absent, Snapshots, NoPlan, Plans, NoChange, Values

LEMMA SnapshotFacts ==
  ASSUME NEW s \in Snapshots
  PROVE  s.etag \in Nat /\ s.revision \in Nat
<1>1. s.etag \in Nat /\ s.revision \in Revisions \cup {0}
  BY DEF Snapshots
<1>2. \A r \in Revisions : r \in Nat
  BY RevisionsAreNumbers
<1>3. s.revision \in Nat
  BY <1>1, <1>2
<1> QED BY <1>1, <1>3

-----------------------------------------------------------------------------
(* What a step may do to a destination *)

\* It leaves it alone or gives it another ETag; its revision never falls.
Grows(t) ==
  /\ secret'[t] = secret[t] \/ secret'[t].etag > secret[t].etag
  /\ secret'[t].revision >= secret[t].revision

LEMMA UnchangedGrows ==
  ASSUME Inv, UNCHANGED secret
  PROVE  \A t \in Targets : Grows(t)
<1>1. \A t \in Targets : secret[t].revision \in Nat
  BY SnapshotFacts DEF Inv, TypeOK
<1> QED BY <1>1 DEF Grows

\* Then what an invocation knows stays true while others act.
LEMMA MemoryStays ==
  ASSUME TypeOK, TypeOK', NEW p \in Publishers, MemoryOK(p), \A t \in Targets : Grows(t),
         pc'[p] = pc[p], at'[p] = at[p], seen'[p] = seen[p], plan'[p] = plan[p]
  PROVE  MemoryOK(p)'
<1>1. \A t \in Targets :
        /\ secret[t].etag \in Nat /\ secret'[t].etag \in Nat
        /\ secret[t].revision \in Nat /\ secret'[t].revision \in Nat
        /\ Mine(p, t) \in Nat /\ plan[p][t].etag \in Nat
  <2> SUFFICES ASSUME NEW t \in Targets
               PROVE  /\ secret[t].etag \in Nat /\ secret'[t].etag \in Nat
                      /\ secret[t].revision \in Nat /\ secret'[t].revision \in Nat
                      /\ Mine(p, t) \in Nat /\ plan[p][t].etag \in Nat
    OBVIOUS
  <2>1. secret[t] \in Snapshots /\ secret'[t] \in Snapshots /\ plan[p][t] \in Plans
    BY DEF TypeOK
  <2> QED BY <2>1, CatalogFacts, SnapshotFacts DEF Plans
<1>2. Here(p) \in Targets /\ Here(p)' = Here(p) /\ seen[p].etag \in Nat
  BY HereIsTarget DEF Here, TypeOK, Snapshots
<1>3. SeenOK(p)'
  BY <1>1, <1>2 DEF MemoryOK, SeenOK, Grows, Mine
<1>4. DeliveredOK(p)'
  <2>1. DeliveredOK(p)
    BY DEF MemoryOK
  <2>2. \A t \in Targets : secret[t].revision >= Mine(p, t) => secret'[t].revision >= Mine(p, t)
    BY <1>1 DEF Grows
  <2>3. \A t \in Targets : Mine(p, t)' = Mine(p, t)
    BY DEF Mine
  <2> QED BY <1>2, <2>1, <2>2, <2>3, BatchFacts DEF DeliveredOK, Mine
<1>5. ASSUME NEW t \in Targets PROVE PlanOK(p, t)'
  BY <1>1 DEF MemoryOK, PlanOK, Grows, Mine, MyValue
<1> QED BY <1>3, <1>4, <1>5 DEF MemoryOK

\* A step of one invocation that leaves the vault alone.
LEMMA LocalStep ==
  ASSUME Inv, TypeOK', NEW p \in Publishers, UNCHANGED <<secret, pending, touched>>,
         \A q \in Publishers \ {p} : /\ pc'[q] = pc[q] /\ at'[q] = at[q]
                                     /\ seen'[q] = seen[q] /\ plan'[q] = plan[q],
         MemoryOK(p)'
  PROVE  Inv'
<1>1. VaultOK'
  BY DEF Inv, VaultOK, RevisionTellsValue, FreshOK, PendingOK
<1>2. \A t \in Targets : Grows(t)
  BY UnchangedGrows
<1>3. ASSUME NEW q \in Publishers PROVE MemoryOK(q)'
  <2>1. CASE q = p
    BY <2>1
  <2>2. CASE q # p
    BY <1>2, <2>2, MemoryStays DEF Inv
  <2> QED BY <2>1, <2>2
<1> QED BY <1>1, <1>3 DEF Inv

\* An invocation that is over knows nothing and owes, if it succeeded, what it
\* has delivered.
LEMMA EndedMemory ==
  ASSUME TypeOK, NEW p \in Publishers, NEW how \in {"stopped", "done"}, Ended(p, how),
         \A t \in Targets : FreshOK(t)',
         \A t \in Targets : secret'[t].etag \in Nat,
         how = "done" => \A t \in Targets : secret'[t].revision >= Mine(p, t)
  PROVE  MemoryOK(p)'
<1>1. pc'[p] = how /\ plan'[p] = [t \in Targets |-> NoPlan]
  BY DEF Ended, TypeOK
<1>2. SeenOK(p)' /\ DeliveredOK(p)'
  BY <1>1 DEF SeenOK, DeliveredOK, Mine
<1>3. ASSUME NEW t \in Targets PROVE PlanOK(p, t)'
  <2>1. plan'[p][t] = NoPlan
    BY <1>1
  <2>2. Mine(p, t) \in Nat /\ Mine(p, t)' = Mine(p, t)
    BY CatalogFacts DEF Mine
  <2> QED BY <2>1, <2>2 DEF PlanOK, NoPlan, FreshOK
<1> QED BY <1>2, <1>3 DEF MemoryOK

LEMMA EndedType ==
  ASSUME TypeOK, NEW p \in Publishers, NEW how \in {"stopped", "done"}, Ended(p, how)
  PROVE  /\ pc' \in [Publishers -> {"stopped", "find", "reread", "write", "readback", "confirm", "done"}]
         /\ at' \in [Publishers -> 1 .. Len(Batch)]
         /\ seen' \in [Publishers -> Snapshots]
         /\ plan' \in [Publishers -> [Targets -> Plans]]
         /\ reads' \in [Publishers -> 0 .. MaxReads - 1]
         /\ \A q \in Publishers \ {p} : /\ pc'[q] = pc[q] /\ at'[q] = at[q]
                                        /\ seen'[q] = seen[q] /\ plan'[q] = plan[q]
<1>1. 1 \in 1 .. Len(Batch) /\ 0 \in 0 .. MaxReads - 1
  BY BatchFacts, BoundsAssumption
<1>2. [t \in Targets |-> NoPlan] \in [Targets -> Plans]
  BY InitialType
<1> QED BY <1>1, <1>2, InitialType DEF Ended, TypeOK

-----------------------------------------------------------------------------
(* The vault and others *)

\* A step of the vault that is no step of an invocation.
LEMMA VaultStep ==
  ASSUME Inv, TypeOK', VaultOK', \A t \in Targets : Grows(t),
         UNCHANGED <<pc, at, seen, plan>>
  PROVE  Inv'
BY MemoryStays DEF Inv

LEMMA SettleStep ==
  ASSUME Inv, NEW t \in Targets, Settle(t)
  PROVE  Inv' /\ \A u \in Targets : Grows(u)
<1> DEFINE new == [state |-> "active", revision |-> pending[t].revision,
                   value |-> pending[t].value, etag |-> secret[t].etag + 1]
<1>1. /\ secret' = [secret EXCEPT ![t] = new]
      /\ pending' = [pending EXCEPT ![t] = NoChange]
      /\ UNCHANGED <<pc, at, seen, plan, reads, faults, touched>>
      /\ pending[t] # NoChange
  BY DEF Settle
<1>2. /\ pending[t].revision \in Revisions /\ pending[t].value \in Values
      /\ pending[t].revision >= secret[t].revision
      /\ t \notin touched => pending[t].value = Value[t][pending[t].revision]
  BY <1>1 DEF Inv, TypeOK, VaultOK, PendingOK
<1>3. secret[t].etag \in Nat /\ secret[t].revision \in Nat /\ secret[t] \in Snapshots
  BY SnapshotFacts DEF Inv, TypeOK
<1>4. new \in Snapshots
  BY <1>2, <1>3 DEF Snapshots
<1>5. TypeOK'
  BY <1>1, <1>4, InitialType DEF Inv, TypeOK
<1>6. /\ secret'[t] = new /\ pending'[t] = NoChange
      /\ \A u \in Targets \ {t} : secret'[u] = secret[u] /\ pending'[u] = pending[u]
  BY <1>1 DEF Inv, TypeOK
<1>7. ASSUME NEW u \in Targets PROVE Grows(u) /\ FreshOK(u)' /\ PendingOK(u)'
  <2>1. CASE u = t
    BY <1>2, <1>3, <1>6, <2>1 DEF Grows, FreshOK, PendingOK
  <2>2. CASE u # t
    <3>1. FreshOK(u) /\ PendingOK(u) /\ secret[u].revision \in Nat
      BY SnapshotFacts DEF Inv, VaultOK, TypeOK
    <3> QED BY <1>1, <1>6, <2>2, <3>1 DEF Grows, FreshOK, PendingOK
  <2> QED BY <2>1, <2>2
<1>8. RevisionTellsValue'
  BY <1>1, <1>2, <1>6 DEF Inv, VaultOK, RevisionTellsValue
<1> QED BY <1>1, <1>5, <1>7, <1>8, VaultStep DEF VaultOK

LEMMA ChangeOutsideStep ==
  ASSUME Inv, NEW t \in Targets, ChangeOutside(t)
  PROVE  Inv' /\ \A u \in Targets : Grows(u)
<1>1. /\ secret' = [secret EXCEPT ![t].value = Foreign, ![t].etag = @ + 1]
      /\ touched' = touched \cup {t}
      /\ faults < MaxFaults /\ faults' = faults + 1
      /\ UNCHANGED <<pending, pc, at, seen, plan, reads>>
      /\ pending[t] = NoChange
      /\ secret[t].state = "active"
  BY DEF ChangeOutside
<1>2. secret[t].etag \in Nat /\ secret[t].revision \in Nat /\ secret[t] \in Snapshots
  BY SnapshotFacts DEF Inv, TypeOK
<1>3. /\ secret'[t] \in Snapshots /\ secret'[t].etag = secret[t].etag + 1
      /\ secret'[t].revision = secret[t].revision /\ secret'[t].state = "active"
      /\ \A u \in Targets \ {t} : secret'[u] = secret[u]
      /\ secret' \in [Targets -> Snapshots]
  <2>1. Foreign \in Values
    BY DEF Values
  <2>2. secret \in [Targets -> Snapshots]
    BY DEF Inv, TypeOK
  <2> QED BY <1>1, <1>2, <2>1, <2>2 DEF Snapshots
<1>4. TypeOK'
  <2>1. faults' \in 0 .. MaxFaults
    BY <1>1, BoundsAssumption DEF Inv, TypeOK
  <2> QED BY <1>1, <1>3, <2>1 DEF Inv, TypeOK
<1>5. /\ \A u \in Targets \ {t} : secret'[u] = secret[u] /\ (u \in touched' <=> u \in touched)
      /\ pending' = pending
  BY <1>1, <1>3
<1>6. ASSUME NEW u \in Targets PROVE Grows(u) /\ FreshOK(u)' /\ PendingOK(u)'
  <2>0. FreshOK(u) /\ PendingOK(u) /\ secret[u].revision \in Nat
    BY SnapshotFacts DEF Inv, VaultOK, TypeOK
  <2>1. CASE u = t
    BY <1>1, <1>2, <1>3, <1>5, <2>0, <2>1 DEF Grows, FreshOK, PendingOK
  <2>2. CASE u # t
    BY <1>5, <2>0, <2>2 DEF Grows, FreshOK, PendingOK
  <2> QED BY <2>1, <2>2
<1>7. RevisionTellsValue'
  BY <1>1, <1>5 DEF Inv, VaultOK, RevisionTellsValue
<1> QED BY <1>1, <1>4, <1>6, <1>7, VaultStep DEF VaultOK

-----------------------------------------------------------------------------
(* Ends *)

\* A ControlError or an interruption ends an invocation.
LEMMA StopStep ==
  ASSUME Inv, NEW p \in Publishers, Ended(p, "stopped"),
         UNCHANGED <<secret, pending, touched>>, faults' \in 0 .. MaxFaults
  PROVE  Inv'
<1>1. TypeOK'
  BY EndedType DEF Inv, TypeOK
<1>2. \A t \in Targets : FreshOK(t)' /\ secret'[t].etag \in Nat
  BY SnapshotFacts DEF Inv, TypeOK, VaultOK, FreshOK
<1>3. MemoryOK(p)'
  BY <1>2, EndedMemory DEF Inv
<1> QED BY <1>1, <1>3, EndedType, LocalStep DEF Inv

\* It goes on behind the destination it is at, which is delivered.
LEMMA AdvanceStep ==
  ASSUME Inv, NEW p \in Publishers, Advance(p), UNCHANGED service,
         pc[p] \in {"write", "confirm"}, secret[Here(p)].revision >= Mine(p, Here(p))
  PROVE  Inv'
<1> USE DEF service
<1>1. \A i \in 1 .. Len(Batch) : i <= at[p] => secret[Batch[i]].revision >= Mine(p, Batch[i])
  <2>1. DeliveredOK(p) /\ at[p] \in 1 .. Len(Batch)
    BY HereIsTarget DEF Inv, MemoryOK
  <2> SUFFICES ASSUME NEW i \in 1 .. Len(Batch), i <= at[p]
               PROVE  secret[Batch[i]].revision >= Mine(p, Batch[i])
    OBVIOUS
  <2>2. i < at[p] \/ i = at[p]
    BY <2>1, BatchFacts
  <2> QED BY <2>1, <2>2 DEF DeliveredOK, Here
<1>2. CASE at[p] < Len(Batch)
  <2>1. /\ at' = [at EXCEPT ![p] = @ + 1] /\ pc' = [pc EXCEPT ![p] = "write"]
        /\ seen' = [seen EXCEPT ![p] = Absent] /\ reads' = [reads EXCEPT ![p] = 0]
        /\ UNCHANGED plan
    BY <1>2 DEF Advance
  <2>2. at[p] + 1 \in 1 .. Len(Batch) /\ 0 \in 0 .. MaxReads - 1
    BY <1>2, BatchFacts, BoundsAssumption, HereIsTarget DEF Inv
  <2>3. TypeOK'
    BY <2>1, <2>2, InitialType DEF Inv, TypeOK
  <2>4. pc'[p] = "write" /\ at'[p] = at[p] + 1
    BY <2>1 DEF Inv, TypeOK
  <2>5. SeenOK(p)' /\ \A t \in Targets : PlanOK(p, t)'
    BY <2>1, <2>4 DEF Inv, MemoryOK, SeenOK, PlanOK, Mine, MyValue
  <2>6. DeliveredOK(p)'
    <3>1. \A i \in 1 .. Len(Batch) : i < at[p] + 1 => i <= at[p]
      BY BatchFacts, HereIsTarget DEF Inv
    <3> QED BY <1>1, <2>4, <3>1 DEF DeliveredOK, Mine
  <2>7. \A q \in Publishers \ {p} : /\ pc'[q] = pc[q] /\ at'[q] = at[q]
                                   /\ seen'[q] = seen[q] /\ plan'[q] = plan[q]
    BY <2>1 DEF Inv, TypeOK
  <2> QED BY <2>3, <2>5, <2>6, <2>7, LocalStep DEF MemoryOK
<1>3. CASE ~(at[p] < Len(Batch))
  <2>1. Ended(p, "done")
    BY <1>3 DEF Advance
  <2>2. \A t \in Targets : secret'[t].revision >= Mine(p, t)
    <3>1. \A i \in 1 .. Len(Batch) : i <= at[p]
      BY <1>3, BatchFacts, HereIsTarget DEF Inv
    <3> QED BY <1>1, <3>1, BatchFacts
  <2>3. TypeOK'
    BY <2>1, EndedType DEF Inv, TypeOK
  <2>4. \A t \in Targets : FreshOK(t)' /\ secret'[t].etag \in Nat
    BY SnapshotFacts DEF Inv, TypeOK, VaultOK, FreshOK
  <2>5. MemoryOK(p)'
    BY <2>1, <2>2, <2>4, EndedMemory DEF Inv
  <2> QED BY <2>1, <2>3, <2>5, EndedType, LocalStep DEF Inv
<1> QED BY <1>2, <1>3

-----------------------------------------------------------------------------
(* The preflight *)

\* What a step of an invocation leaves alone.
OthersStay(p) ==
  \A q \in Publishers \ {p} : /\ pc'[q] = pc[q] /\ at'[q] = at[q]
                              /\ seen'[q] = seen[q] /\ plan'[q] = plan[q]

LEMMA StartStep ==
  ASSUME Inv, NEW p \in Publishers, Start(p)
  PROVE  Inv'
<1> USE DEF service
<1>1. /\ pc' = [pc EXCEPT ![p] = "find"] /\ at' = [at EXCEPT ![p] = 1]
      /\ UNCHANGED <<service, seen, plan, reads>>
  BY DEF Start
<1>2. TypeOK'
  BY <1>1, BatchFacts DEF Inv, TypeOK
<1>3. pc'[p] = "find" /\ OthersStay(p)
  BY <1>1 DEF Inv, TypeOK, OthersStay
<1>4. MemoryOK(p)'
  BY <1>1, <1>3 DEF Inv, MemoryOK, SeenOK, DeliveredOK, PlanOK, Mine, MyValue
<1> QED BY <1>1, <1>2, <1>3, <1>4, LocalStep DEF OthersStay

\* A decision that tells the truth about the destination as it is.
LEMMA DecidedStep ==
  ASSUME Inv, NEW p \in Publishers, NEW d \in Plans, Decided(p, d),
         d.action # "none",
         d.action \in {"update", "advance", "noop"} => d.etag = secret[Here(p)].etag,
         d.action \in {"update", "advance"} => secret[Here(p)].revision <= Mine(p, Here(p)),
         d.action = "advance" => secret[Here(p)].value = MyValue(p, Here(p)),
         d.action = "noop" => secret[Here(p)].revision >= Mine(p, Here(p))
  PROVE  Inv'
<1> USE DEF service
<1> DEFINE h == Here(p)
<1>1. /\ plan' = [plan EXCEPT ![p][h] = d]
      /\ seen' = [seen EXCEPT ![p] = Absent]
      /\ UNCHANGED <<secret, pending, faults, touched, reads>>
  BY DEF Decided
<1>2. h \in Targets /\ at[p] \in 1 .. Len(Batch)
  BY HereIsTarget DEF Inv
<1>3. /\ plan' \in [Publishers -> [Targets -> Plans]]
      /\ plan'[p][h] = d
      /\ \A t \in Targets \ {h} : plan'[p][t] = plan[p][t]
      /\ \A q \in Publishers \ {p} : plan'[q] = plan[q]
  BY <1>1, <1>2 DEF Inv, TypeOK
<1>4. PICK where \in {"find", "write"}, n \in 1 .. Len(Batch) :
        /\ at' = [at EXCEPT ![p] = n] /\ pc' = [pc EXCEPT ![p] = where]
        /\ where = "write" => n = 1
  <2>1. CASE at[p] < Len(Batch)
    <3>1. at[p] + 1 \in 1 .. Len(Batch)
      BY <1>2, <2>1, BatchFacts
    <3> QED BY <2>1, <3>1 DEF Decided
  <2>2. CASE ~(at[p] < Len(Batch))
    <3>1. 1 \in 1 .. Len(Batch)
      BY BatchFacts
    <3> QED BY <2>2, <3>1 DEF Decided
  <2> QED BY <2>1, <2>2
<1>5. TypeOK'
  BY <1>1, <1>3, <1>4, InitialType DEF Inv, TypeOK
<1>6. pc'[p] = where /\ at'[p] = n /\ OthersStay(p)
  BY <1>1, <1>3, <1>4 DEF Inv, TypeOK, OthersStay
<1>7. SeenOK(p)' /\ DeliveredOK(p)'
  <2>1. \A i \in 1 .. Len(Batch) : ~(i < 1)
    BY BatchFacts
  <2> QED BY <1>4, <1>6, <2>1 DEF SeenOK, DeliveredOK
<1>8. ASSUME NEW t \in Targets PROVE PlanOK(p, t)'
  <2>1. Mine(p, t)' = Mine(p, t) /\ MyValue(p, t)' = MyValue(p, t)
    BY DEF Mine, MyValue
  <2>2. CASE t = h
    <3>1. secret[h].etag \in Nat
      BY <1>2, SnapshotFacts DEF Inv, TypeOK
    <3> QED BY <1>1, <1>3, <2>1, <2>2, <3>1 DEF PlanOK
  <2>3. CASE t # h
    BY <1>1, <1>3, <2>1, <2>3 DEF Inv, MemoryOK, PlanOK
  <2> QED BY <2>2, <2>3
<1> QED BY <1>1, <1>5, <1>6, <1>7, <1>8, LocalStep DEF MemoryOK, OthersStay

LEMMA FindStep ==
  ASSUME Inv, NEW p \in Publishers, Find(p)
  PROVE  Inv'
<1> USE DEF service
<1> DEFINE h == Here(p)
           s == secret[h]
<1>1. h \in Targets /\ s \in Snapshots
  BY HereIsTarget DEF Inv, TypeOK
<1>2. CASE Decided(p, [action |-> "create", etag |-> 0])
  <2>1. [action |-> "create", etag |-> 0] \in Plans
    BY DEF Plans
  <2> QED BY <1>2, <2>1, DecidedStep
<1>3. CASE StopBatch(p)
  BY <1>3, StopStep DEF StopBatch, Inv, TypeOK
<1>4. CASE /\ Owned(p, s, h)
           /\ seen' = [seen EXCEPT ![p] = s] /\ pc' = [pc EXCEPT ![p] = "reread"]
           /\ UNCHANGED <<service, at, plan, reads>>
  <2>1. TypeOK'
    BY <1>1, <1>4 DEF Inv, TypeOK
  <2>2. pc'[p] = "reread" /\ seen'[p] = s /\ Here(p)' = h /\ OthersStay(p)
    BY <1>4 DEF Inv, TypeOK, OthersStay, Here
  <2>3. SeenOK(p)' /\ DeliveredOK(p)'
    BY <1>1, <1>4, <2>2, SnapshotFacts DEF SeenOK, DeliveredOK, Owned, Mine
  <2>4. \A t \in Targets : PlanOK(p, t)'
    BY <1>4 DEF Inv, MemoryOK, PlanOK, Mine, MyValue
  <2> QED BY <1>4, <2>1, <2>2, <2>3, <2>4, LocalStep DEF MemoryOK, OthersStay
<1> QED BY <1>2, <1>3, <1>4 DEF Find

LEMMA RereadStep ==
  ASSUME Inv, NEW p \in Publishers, Reread(p)
  PROVE  Inv'
<1> USE DEF service
<1> DEFINE h == Here(p)
           s == seen[p]
           d == [action |-> Action(p, s, h), etag |-> s.etag]
<1>1. CASE StopBatch(p)
  BY <1>1, StopStep DEF StopBatch, Inv, TypeOK
<1>2. CASE ~StopBatch(p)
  <2>1. Decided(p, d) /\ secret[h].etag = s.etag /\ pc[p] = "reread"
    BY <1>2 DEF Reread
  <2>2. s = secret[h] /\ s.revision <= Mine(p, h)
    BY <2>1 DEF Inv, MemoryOK, SeenOK
  <2>3. d.action \in {"update", "advance", "noop"} /\ d.etag = secret[h].etag /\ d \in Plans
    <3>1. s.etag \in Nat
      BY SnapshotFacts DEF Inv, TypeOK
    <3> QED BY <2>2, <3>1 DEF Action, Plans
  <2>4. /\ d.action = "advance" => s.value = MyValue(p, h)
        /\ d.action = "noop" => s.revision = Mine(p, h)
    BY DEF Action
  <2>5. Mine(p, h) \in Nat
    BY CatalogFacts, HereIsTarget DEF Inv
  <2>6. /\ d.action = "noop" => secret[h].revision >= Mine(p, h)
        /\ d.action = "advance" => secret[h].value = MyValue(p, h)
    BY <2>2, <2>4, <2>5
  <2> HIDE DEF d
  <2> QED BY <2>1, <2>2, <2>3, <2>6, DecidedStep
<1> QED BY <1>1, <1>2

-----------------------------------------------------------------------------
(* The writes *)

\* An accepted write replaces nothing newer, and its payload is that of the
\* revision it carries: the ETag was current.
LEMMA AcceptedFacts ==
  ASSUME Inv, NEW p \in Publishers, NEW t \in Targets, plan[p][t].action # "noop",
         Accepts(t, plan[p][t].action, plan[p][t].etag), Accepted(p, t, plan[p][t].action),
         touched' = touched
  PROVE  /\ VaultOK' /\ \A u \in Targets : Grows(u)
         /\ secret' \in [Targets -> Snapshots]
         /\ pending' \in [Targets -> [revision : Revisions \cup {0}, value : Values]]
<1> DEFINE d == plan[p][t]
           new == [revision |-> Mine(p, t),
                   value |-> IF d.action = "advance" THEN secret[t].value ELSE MyValue(p, t)]
<1>1. PICK state \in {"creating", "updating", "active"} :
        /\ secret' = [secret EXCEPT ![t].state = state, ![t].etag = @ + 1]
        /\ state = "creating" => d.action = "create"
  BY DEF Accepted
<1>2. pending' = [pending EXCEPT ![t] = new] /\ pending[t] = NoChange
  BY DEF Accepted, Accepts
<1>3. secret[t] \in Snapshots /\ secret[t].etag \in Nat /\ secret[t].revision \in Nat
  BY SnapshotFacts DEF Inv, TypeOK
<1>4. /\ secret' \in [Targets -> Snapshots]
      /\ secret'[t].state = state /\ secret'[t].etag = secret[t].etag + 1
      /\ secret'[t].revision = secret[t].revision /\ secret'[t].value = secret[t].value
      /\ \A u \in Targets \ {t} : secret'[u] = secret[u]
  <2>1. secret \in [Targets -> Snapshots]
    BY DEF Inv, TypeOK
  <2> QED BY <1>1, <1>3, <2>1 DEF Snapshots
<1>5. /\ d.action = "create" => secret[t].state = "none"
      /\ d.action # "create" => secret[t].etag = d.etag
  BY DEF Accepts
<1>6. d.action \in {"none", "create", "update", "advance"}
  BY DEF Inv, TypeOK, Plans
<1>7. secret[t].revision <= Mine(p, t) /\ (d.action = "create" => secret[t].revision = 0)
  <2>1. Mine(p, t) \in Nat
    BY CatalogFacts
  <2>2. d.action = "create" => secret[t].revision = 0
    BY <1>5 DEF Inv, VaultOK, FreshOK
  <2> QED BY <1>5, <1>6, <2>1, <2>2 DEF Inv, MemoryOK, PlanOK
<1>8. new.value = MyValue(p, t) /\ new.revision = Mine(p, t) /\ MyValue(p, t) = Value[t][Mine(p, t)]
  BY <1>5, CatalogFacts DEF Inv, MemoryOK, PlanOK
<1>9. /\ new \in [revision : Revisions \cup {0}, value : Values]
      /\ new.revision \in Revisions
  BY <1>8, CatalogFacts
<1> HIDE DEF new
<1>10. /\ pending' \in [Targets -> [revision : Revisions \cup {0}, value : Values]]
       /\ pending'[t] = new
       /\ \A u \in Targets \ {t} : pending'[u] = pending[u]
  BY <1>2, <1>9 DEF Inv, TypeOK
<1>11. ASSUME NEW u \in Targets PROVE Grows(u) /\ FreshOK(u)' /\ PendingOK(u)'
  <2>0. FreshOK(u) /\ PendingOK(u) /\ secret[u].revision \in Nat
    BY SnapshotFacts DEF Inv, VaultOK, TypeOK
  <2>1. CASE u = t
    <3>1. Grows(u) /\ FreshOK(u)'
      BY <1>1, <1>3, <1>4, <1>7, <2>1 DEF Grows, FreshOK
    <3>2. PendingOK(u)'
      BY <1>4, <1>7, <1>8, <1>9, <1>10, <1>3, <2>1 DEF PendingOK
    <3> QED BY <3>1, <3>2
  <2>2. CASE u # t
    BY <1>4, <1>10, <2>0, <2>2 DEF Grows, FreshOK, PendingOK
  <2> QED BY <2>1, <2>2
<1>12. RevisionTellsValue'
  BY <1>4 DEF Inv, VaultOK, RevisionTellsValue
<1> QED BY <1>4, <1>10, <1>11, <1>12 DEF VaultOK

LEMMA WriteStep ==
  ASSUME Inv, NEW p \in Publishers, Write(p)
  PROVE  Inv' /\ \A u \in Targets : Grows(u)
<1> DEFINE h == Here(p)
           d == plan[p][h]
<1>1. h \in Targets /\ pc[p] = "write" /\ d.action # "noop"
  BY HereIsTarget DEF Inv, Write
<1>2. CASE ~Accepts(h, d.action, d.etag)
  <2>1. StopBatch(p)
    BY <1>2 DEF Write
  <2> QED BY <2>1, StopStep, UnchangedGrows DEF StopBatch, service, Inv, TypeOK
<1>3. CASE Accepts(h, d.action, d.etag)
  <2>1. Accepted(p, h, d.action) /\ touched' = touched
    BY <1>3 DEF Write
  <2>2. /\ VaultOK' /\ \A u \in Targets : Grows(u)
        /\ secret' \in [Targets -> Snapshots]
        /\ pending' \in [Targets -> [revision : Revisions \cup {0}, value : Values]]
    BY <1>1, <1>3, <2>1, AcceptedFacts
  <2>3. TypeOK' /\ MemoryOK(p)' /\ OthersStay(p)
    <3>1. CASE pc' = [pc EXCEPT ![p] = "readback"] /\ UNCHANGED <<at, seen, plan, reads, faults>>
      <4>1. TypeOK'
        BY <2>1, <2>2, <3>1 DEF Inv, TypeOK
      <4>2. pc'[p] = "readback" /\ OthersStay(p)
        BY <3>1 DEF Inv, TypeOK, OthersStay
      <4>3. ASSUME NEW t \in Targets
            PROVE  /\ secret[t].etag \in Nat /\ secret'[t].etag \in Nat /\ plan[p][t].etag \in Nat
                   /\ secret[t].revision \in Nat /\ secret'[t].revision \in Nat
                   /\ Mine(p, t) \in Nat /\ Grows(t) /\ PlanOK(p, t)
        BY <2>2, SnapshotFacts, CatalogFacts DEF Inv, TypeOK, Plans, MemoryOK
      <4>4. \A t \in Targets : PlanOK(p, t)'
        BY <3>1, <4>3 DEF PlanOK, Grows, Mine, MyValue
      <4>5. SeenOK(p)' /\ DeliveredOK(p)'
        <5>1. \A t \in Targets : secret[t].revision >= Mine(p, t) => secret'[t].revision >= Mine(p, t)
          BY <4>3 DEF Grows
        <5>2. DeliveredOK(p) /\ pc[p] = "write"
          BY <1>1 DEF Inv, MemoryOK
        <5> QED BY <3>1, <4>2, <5>1, <5>2, BatchFacts DEF SeenOK, DeliveredOK, Mine
      <4> QED BY <4>1, <4>2, <4>4, <4>5 DEF MemoryOK
    <3>2. CASE faults < MaxFaults /\ faults' = faults + 1 /\ Ended(p, "stopped")
      <4>1. faults' \in 0 .. MaxFaults
        BY <3>2, BoundsAssumption DEF Inv, TypeOK
      <4>2. TypeOK' /\ OthersStay(p)
        BY <2>1, <2>2, <3>2, <4>1, EndedType DEF Inv, TypeOK, OthersStay
      <4>3. \A t \in Targets : FreshOK(t)' /\ secret'[t].etag \in Nat
        BY <2>2, SnapshotFacts DEF VaultOK
      <4> QED BY <3>2, <4>2, <4>3, EndedMemory DEF Inv
    <3> QED BY <1>3, <3>1, <3>2 DEF Write
  <2>4. ASSUME NEW q \in Publishers PROVE MemoryOK(q)'
    <3>1. CASE q = p
      BY <2>3, <3>1
    <3>2. CASE q # p
      BY <2>2, <2>3, <3>2, MemoryStays DEF Inv, OthersStay
    <3> QED BY <3>1, <3>2
  <2> QED BY <2>2, <2>3, <2>4 DEF Inv
<1> QED BY <1>2, <1>3

LEMMA ReadbackStep ==
  ASSUME Inv, NEW p \in Publishers, Readback(p)
  PROVE  Inv'
<1> USE DEF service
<1> DEFINE h == Here(p)
           s == secret[h]
<1>1. h \in Targets /\ s \in Snapshots /\ pc[p] = "readback"
  BY HereIsTarget DEF Inv, TypeOK, Readback
<1>2. CASE StopBatch(p)
  BY <1>2, StopStep DEF StopBatch, Inv, TypeOK
<1>3. CASE /\ Shows(p, s, h)
           /\ seen' = [seen EXCEPT ![p] = s] /\ pc' = [pc EXCEPT ![p] = "confirm"]
           /\ UNCHANGED <<service, at, plan, reads>>
  <2>1. TypeOK'
    BY <1>1, <1>3 DEF Inv, TypeOK
  <2>2. pc'[p] = "confirm" /\ Here(p)' = h /\ OthersStay(p)
    BY <1>3 DEF Inv, TypeOK, OthersStay, Here
  <2>3. s.revision >= Mine(p, h)
    BY <1>1, <1>3, CatalogFacts DEF Shows
  <2>4. SeenOK(p)' /\ DeliveredOK(p)'
    BY <1>1, <1>3, <2>2, <2>3 DEF Inv, MemoryOK, SeenOK, DeliveredOK, Mine
  <2>5. \A t \in Targets : PlanOK(p, t)'
    BY <1>3 DEF Inv, MemoryOK, PlanOK, Mine, MyValue
  <2> QED BY <1>3, <2>1, <2>2, <2>4, <2>5, LocalStep DEF MemoryOK, OthersStay
<1>4. CASE /\ ~LastRead(p)
           /\ reads' = [reads EXCEPT ![p] = @ + 1]
           /\ UNCHANGED <<service, pc, at, seen, plan>>
  <2>1. reads[p] + 1 \in 0 .. MaxReads - 1
    BY <1>4, BoundsAssumption DEF LastRead, Inv, TypeOK
  <2>2. TypeOK'
    BY <1>4, <2>1 DEF Inv, TypeOK
  <2>3. MemoryOK(p)' /\ OthersStay(p)
    BY <1>4 DEF Inv, MemoryOK, SeenOK, DeliveredOK, PlanOK, Mine, MyValue, Here, OthersStay
  <2> QED BY <1>4, <2>2, <2>3, LocalStep DEF OthersStay
<1> QED BY <1>2, <1>3, <1>4 DEF Readback

-----------------------------------------------------------------------------
(* The invariant *)

LEMMA InvInit == Init => Inv
<1> SUFFICES ASSUME Init PROVE Inv
  OBVIOUS
<1>1. 1 \in 1 .. Len(Batch) /\ 0 \in 0 .. MaxReads - 1 /\ 0 \in 0 .. MaxFaults
  BY BatchFacts, BoundsAssumption
<1>2. TypeOK
  BY <1>1, InitialType DEF Init, TypeOK
<1>3. VaultOK
  BY DEF Init, VaultOK, RevisionTellsValue, FreshOK, PendingOK, Absent
<1>4. ASSUME NEW p \in Publishers PROVE MemoryOK(p)
  <2>1. SeenOK(p) /\ DeliveredOK(p)
    BY DEF Init, SeenOK, DeliveredOK
  <2>2. ASSUME NEW t \in Targets PROVE PlanOK(p, t)
    <3>1. plan[p][t] = NoPlan /\ secret[t] = Absent /\ Mine(p, t) \in Nat
      BY CatalogFacts DEF Init
    <3> QED BY <3>1 DEF PlanOK, NoPlan, Absent
  <2> QED BY <2>1, <2>2 DEF MemoryOK
<1> QED BY <1>2, <1>3, <1>4 DEF Inv

\* Every step keeps the invariant, and moves no destination back.
LEMMA InvNext == Inv /\ [Next]_vars => Inv' /\ \A t \in Targets : Grows(t)
<1> SUFFICES ASSUME Inv, [Next]_vars PROVE Inv' /\ \A t \in Targets : Grows(t)
  OBVIOUS
<1>1. CASE UNCHANGED vars
  <2>1. Inv'
    BY <1>1 DEF vars, Inv, TypeOK, VaultOK, RevisionTellsValue, FreshOK, PendingOK, MemoryOK,
       SeenOK, DeliveredOK, PlanOK, Here, Mine, MyValue
  <2> QED BY <1>1, <2>1, UnchangedGrows DEF vars
<1>2. ASSUME NEW t \in Targets, Settle(t) \/ ChangeOutside(t)
      PROVE  Inv' /\ \A u \in Targets : Grows(u)
  BY <1>2, SettleStep, ChangeOutsideStep
<1>3. ASSUME NEW p \in Publishers, Start(p) \/ Interrupted(p) \/ Step(p)
      PROVE  Inv' /\ \A u \in Targets : Grows(u)
  <2>1. CASE Write(p)
    BY <2>1, WriteStep
  <2>2. CASE ~Write(p)
    <3>1. UNCHANGED secret
      BY <1>3, <2>2 DEF Start, Interrupted, Step, Find, Reread, Skip, Readback, Confirm, Decided,
         StopBatch, service
    <3> SUFFICES Inv'
      BY <3>1, UnchangedGrows
    <3>2. CASE Start(p)
      BY <3>2, StartStep
    <3>3. CASE Interrupted(p)
      <4>1. faults' \in 0 .. MaxFaults
        BY <3>3, BoundsAssumption DEF Interrupted, Inv, TypeOK
      <4> QED BY <3>3, <4>1, StopStep DEF Interrupted
    <3>4. CASE Find(p)
      BY <3>4, FindStep
    <3>5. CASE Reread(p)
      BY <3>5, RereadStep
    <3>6. CASE Skip(p)
      <4>1. secret[Here(p)].revision >= Mine(p, Here(p))
        BY <3>6, HereIsTarget DEF Skip, Inv, MemoryOK, PlanOK
      <4> QED BY <3>6, <4>1, AdvanceStep DEF Skip
    <3>7. CASE Readback(p)
      BY <3>7, ReadbackStep
    <3>8. CASE Confirm(p)
      <4>1. secret[Here(p)].revision >= Mine(p, Here(p)) /\ pc[p] = "confirm"
        BY <3>8 DEF Confirm, Inv, MemoryOK, DeliveredOK
      <4>2. CASE StopBatch(p)
        BY <4>2, StopStep DEF StopBatch, service, Inv, TypeOK
      <4>3. CASE Advance(p) /\ UNCHANGED service
        BY <4>1, <4>3, AdvanceStep
      <4> QED BY <3>8, <4>2, <4>3 DEF Confirm
    <3> QED BY <1>3, <2>2, <3>2, <3>3, <3>4, <3>5, <3>6, <3>7, <3>8 DEF Step
  <2> QED BY <2>1, <2>2
<1> QED BY <1>1, <1>2, <1>3 DEF Next

\* The inductive invariant holds in every reachable state.
THEOREM InvHolds == Spec => []Inv
<1>1. Inv /\ [Next]_vars => Inv'
  BY InvNext
<1> QED BY <1>1, InvInit, PTL DEF Spec

\* publish: a revision names its payload unless others replaced it, and an
\* invocation that reports success has delivered every destination of its
\* catalog, whichever catalogs race, stop in the middle and are run again.
THEOREM PublicationIsSound == Spec => []PublicationSound
<1>1. Inv => PublicationSound
  <2> SUFFICES ASSUME Inv PROVE PublicationSound
    OBVIOUS
  <2>1. DoneIsDelivered
    BY DEF Inv, MemoryOK, DeliveredOK, DoneIsDelivered
  <2> QED BY <2>1 DEF Inv, VaultOK, PublicationSound
<1> QED BY <1>1, InvHolds, PTL

\* publish: no destination ever goes back to an older revision, however late
\* an older catalog's write arrives.
THEOREM RevisionsNeverFall == Spec => RevisionMonotone
<1>1. Inv /\ [Next]_vars => [RevisionGrows]_vars
  BY InvNext DEF Grows, RevisionGrows
<1> QED BY <1>1, InvHolds, PTL DEF Spec, RevisionMonotone
=============================================================================
