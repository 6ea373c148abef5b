--------------------------- MODULE VaultPublication ---------------------------
(***************************************************************************)
(* tools/secret_control/oci_api.py: publish.  An invocation first looks at *)
(* every destination of its catalog and decides what it needs, then makes  *)
(* one change at a time, guarded by the ETag it saw, and reads each change *)
(* back.  Nothing is retried: a refused or uncertain write stops the       *)
(* batch, and the next invocation starts from what it finds.               *)
(*                                                                         *)
(* Several catalogs of one lineage are published concurrently, older ones  *)
(* included.  A payload is named by the first revision that carried it.    *)
(***************************************************************************)
EXTENDS Integers, Sequences, FiniteSets

CONSTANTS
  Publishers,  \* catalogs that are being published, each by its operator
  Batch,       \* the destinations in catalog order
  Revision,    \* the revision each catalog has for each destination
  Value,       \* the payload of each revision of each destination
  Foreign,     \* a payload that is in no catalog
  MaxReads,    \* readback attempts: 13 in the code
  MaxFaults    \* bound on lost answers, failing calls, interruptions and
               \* changes by others

Targets == {Batch[i] : i \in DOMAIN Batch}
Revisions == {Revision[p][t] : p \in Publishers, t \in Targets}
Values == {Value[t][r] : t \in Targets, r \in Revisions} \cup {Foreign}

ASSUME CatalogAssumption ==
  /\ Batch \in Seq(Targets) /\ Batch # <<>>
  /\ \A p \in Publishers, t \in Targets : Revision[p][t] \in Nat \ {0}
  /\ \A t \in Targets, r \in Revisions : Value[t][r] # Foreign
ASSUME BoundsAssumption ==
  MaxReads \in Nat \ {0} /\ MaxFaults \in Nat

NoChange == [revision |-> 0, value |-> Foreign]
NoPlan == [action |-> "none", etag |-> 0]

VARIABLES
  secret,   \* each destination: lifecycle state, tag, payload and ETag
  pending,  \* an accepted change that does not show yet
  pc, at,   \* where an invocation is, and in which element of the batch
  seen,     \* the snapshot it works with
  plan,     \* what its preflight decided for each destination
  reads,    \* readback attempts so far
  faults, touched  \* history: disturbances so far, and what others changed

vars == <<secret, pending, pc, at, seen, plan, reads, faults, touched>>
service == <<secret, pending, faults, touched>>

Absent == [state |-> "none", revision |-> 0, value |-> Foreign, etag |-> 0]

Init ==
  /\ secret = [t \in Targets |-> Absent]
  /\ pending = [t \in Targets |-> NoChange]
  /\ pc = [p \in Publishers |-> "stopped"] /\ at = [p \in Publishers |-> 1]
  /\ seen = [p \in Publishers |-> Absent]
  /\ plan = [p \in Publishers |-> [t \in Targets |-> NoPlan]]
  /\ reads = [p \in Publishers |-> 0]
  /\ faults = 0 /\ touched = {}

-----------------------------------------------------------------------------
(* The vault, and others who use it                                        *)

\* An accepted change shows, under a new ETag.
Settle(t) ==
  /\ pending[t] # NoChange
  /\ secret' = [secret EXCEPT ![t] = [state |-> "active", revision |-> pending[t].revision,
                                      value |-> pending[t].value, etag |-> @.etag + 1]]
  /\ pending' = [pending EXCEPT ![t] = NoChange]
  /\ UNCHANGED <<pc, at, seen, plan, reads, faults, touched>>

\* Someone else stores a payload and leaves the tags as they are.
ChangeOutside(t) ==
  /\ faults < MaxFaults /\ faults' = faults + 1
  /\ secret[t].state = "active" /\ pending[t] = NoChange
  /\ secret' = [secret EXCEPT ![t].value = Foreign, ![t].etag = @ + 1]
  /\ touched' = touched \cup {t}
  /\ UNCHANGED <<pending, pc, at, seen, plan, reads>>

\* A write is accepted when the name is free, or the ETag is current and no
\* other change is under way.
Accepts(t, action, etag) ==
  /\ pending[t] = NoChange
  /\ IF action = "create" THEN secret[t].state = "none"
     ELSE secret[t].state = "active" /\ secret[t].etag = etag

-----------------------------------------------------------------------------
(* An invocation of publish                                                *)

\* The destination an invocation is at, and the revision its catalog has.
Here(p) == Batch[at[p]]
Mine(p, t) == Revision[p][t]
MyValue(p, t) == Value[t][Revision[p][t]]

\* An operator runs it, the first time or after it stopped.
Start(p) ==
  /\ pc[p] = "stopped"
  /\ pc' = [pc EXCEPT ![p] = "find"] /\ at' = [at EXCEPT ![p] = 1]
  /\ UNCHANGED <<service, seen, plan, reads>>

\* The local variables end with the invocation.
Ended(p, how) ==
  /\ pc' = [pc EXCEPT ![p] = how] /\ at' = [at EXCEPT ![p] = 1]
  /\ seen' = [seen EXCEPT ![p] = Absent] /\ reads' = [reads EXCEPT ![p] = 0]
  /\ plan' = [plan EXCEPT ![p] = [t \in Targets |-> NoPlan]]

\* A ControlError ends it.
StopBatch(p) == Ended(p, "stopped") /\ UNCHANGED service

\* A call fails or the process is interrupted.
Interrupted(p) ==
  /\ pc[p] \notin {"stopped", "done"} /\ faults < MaxFaults /\ faults' = faults + 1
  /\ Ended(p, "stopped")
  /\ UNCHANGED <<secret, pending, touched>>

\* The preflight of one destination is complete.
Decided(p, decision) ==
  /\ plan' = [plan EXCEPT ![p][Here(p)] = decision]
  /\ seen' = [seen EXCEPT ![p] = Absent]
  /\ IF at[p] < Len(Batch)
     THEN at' = [at EXCEPT ![p] = @ + 1] /\ pc' = [pc EXCEPT ![p] = "find"]
     ELSE at' = [at EXCEPT ![p] = 1] /\ pc' = [pc EXCEPT ![p] = "write"]
  /\ UNCHANGED <<service, reads>>

\* Mutant of Owned: a newer remote revision is not refused.
OwnedByTag(p, s, t) == s.state = "active"

\* Mutant of Owned: the revision has to be older.
OwnedOlder(p, s, t) == s.state = "active" /\ s.revision < Mine(p, t)

\* ownership: active, ours, and not newer than this catalog.
Owned(p, s, t) == s.state = "active" /\ s.revision <= Mine(p, t)

\* find, snapshot, ownership and the payload of the snapshot's version.
Find(p) ==
  LET t == Here(p)
      s == secret[t] IN
  /\ pc[p] = "find"
  /\ \/ s.state = "none" /\ Decided(p, [action |-> "create", etag |-> 0])
     \/ s.state # "none" /\ ~Owned(p, s, t) /\ StopBatch(p)
     \/ /\ s.state # "none" /\ Owned(p, s, t)
        /\ seen' = [seen EXCEPT ![p] = s] /\ pc' = [pc EXCEPT ![p] = "reread"]
        /\ UNCHANGED <<service, at, plan, reads>>

\* What the destination needs, given its snapshot.
Action(p, s, t) ==
  IF s.value # MyValue(p, t) THEN "update"
  ELSE IF s.revision = Mine(p, t) THEN "noop" ELSE "advance"

\* A second snapshot must have the same ETag, and the payload of our own
\* revision must be ours.
Reread(p) ==
  LET t == Here(p)
      s == seen[p] IN
  /\ pc[p] = "reread"
  /\ IF \/ secret[t].etag # s.etag
        \/ s.revision = Mine(p, t) /\ s.value # MyValue(p, t)
     THEN StopBatch(p)
     ELSE Decided(p, [action |-> Action(p, s, t), etag |-> s.etag])

\* One more destination is done.
Advance(p) ==
  IF at[p] < Len(Batch)
  THEN /\ at' = [at EXCEPT ![p] = @ + 1] /\ pc' = [pc EXCEPT ![p] = "write"]
       /\ seen' = [seen EXCEPT ![p] = Absent] /\ reads' = [reads EXCEPT ![p] = 0]
       /\ UNCHANGED plan
  ELSE Ended(p, "done")

\* The effect of an accepted write: visible at once or later, as an active
\* secret with its old contents or in a transient state.
Accepted(p, t, action) ==
  /\ pending' = [pending EXCEPT ![t] =
       [revision |-> Mine(p, t),
        value |-> IF action = "advance" THEN secret[t].value ELSE MyValue(p, t)]]
  /\ \E state \in IF action = "create" THEN {"creating"} ELSE {"updating", "active"} :
       secret' = [secret EXCEPT ![t].state = state, ![t].etag = @ + 1]

\* Mutant of Write: the update carries no if_match.
WriteBlindly(p) ==
  LET t == Here(p)
      d == plan[p][t] IN
  /\ pc[p] = "write" /\ d.action # "noop"
  /\ IF Accepts(t, d.action, secret[t].etag)
     THEN /\ Accepted(p, t, d.action)
          /\ \/ pc' = [pc EXCEPT ![p] = "readback"] /\ UNCHANGED <<at, seen, plan, reads, faults>>
             \/ faults < MaxFaults /\ faults' = faults + 1 /\ Ended(p, "stopped")
          /\ UNCHANGED touched
     ELSE StopBatch(p)

\* One write.  Its answer may be lost although it was accepted; then the
\* batch stops without knowing.
Write(p) ==
  LET t == Here(p)
      d == plan[p][t] IN
  /\ pc[p] = "write" /\ d.action # "noop"
  /\ IF Accepts(t, d.action, d.etag)
     THEN /\ Accepted(p, t, d.action)
          /\ \/ pc' = [pc EXCEPT ![p] = "readback"] /\ UNCHANGED <<at, seen, plan, reads, faults>>
             \/ faults < MaxFaults /\ faults' = faults + 1 /\ Ended(p, "stopped")
          /\ UNCHANGED touched
     ELSE StopBatch(p)

\* Nothing to write here.
Skip(p) ==
  /\ pc[p] = "write" /\ plan[p][Here(p)].action = "noop"
  /\ Advance(p) /\ UNCHANGED service

\* The readback sees what this invocation wrote.
Shows(p, s, t) ==
  s.state = "active" /\ s.revision = Mine(p, t) /\ s.value = MyValue(p, t)

\* The bound on readback attempts.
LastRead(p) == reads[p] + 1 = MaxReads

\* One readback attempt: reads only, never another write.
Readback(p) ==
  LET t == Here(p)
      s == secret[t] IN
  /\ pc[p] = "readback"
  /\ \/ /\ Shows(p, s, t)
        /\ seen' = [seen EXCEPT ![p] = s] /\ pc' = [pc EXCEPT ![p] = "confirm"]
        /\ UNCHANGED <<service, at, plan, reads>>
     \/ /\ s.state = "active" /\ ~Owned(p, s, t) /\ StopBatch(p)
     \/ /\ ~Shows(p, s, t) /\ (s.state = "active" => Owned(p, s, t))
        /\ IF LastRead(p) THEN StopBatch(p)
           ELSE /\ reads' = [reads EXCEPT ![p] = @ + 1]
                /\ UNCHANGED <<service, pc, at, seen, plan>>

\* The snapshot after the payload must have the same ETag.
Confirm(p) ==
  /\ pc[p] = "confirm"
  /\ IF secret[Here(p)].etag = seen[p].etag
     THEN Advance(p) /\ UNCHANGED service
     ELSE StopBatch(p)

-----------------------------------------------------------------------------

Step(p) == Find(p) \/ Reread(p) \/ Write(p) \/ Skip(p) \/ Readback(p) \/ Confirm(p)

Next ==
  \/ \E t \in Targets : Settle(t) \/ ChangeOutside(t)
  \/ \E p \in Publishers : Start(p) \/ Interrupted(p) \/ Step(p)

\* Calls have time limits, the vault completes what it accepted, and
\* operators run a stopped publication again.
Fairness ==
  /\ \A t \in Targets : WF_vars(Settle(t))
  /\ \A p \in Publishers : WF_vars(Step(p)) /\ WF_vars(Start(p))

Spec == Init /\ [][Next]_vars /\ Fairness

-----------------------------------------------------------------------------

Snapshots == [state : {"none", "creating", "updating", "active"},
              revision : Revisions \cup {0}, value : Values, etag : Nat]
Plans == [action : {"none", "create", "update", "advance", "noop"}, etag : Nat]

\* Types: a destination and a plan hold only revisions and payloads of the
\* catalogs, and a readback never exceeds its attempts.
TypeOK ==
  /\ secret \in [Targets -> Snapshots]
  /\ pending \in [Targets -> [revision : Revisions \cup {0}, value : Values]]
  /\ pc \in [Publishers -> {"stopped", "find", "reread", "write", "readback", "confirm", "done"}]
  /\ at \in [Publishers -> 1 .. Len(Batch)]
  /\ seen \in [Publishers -> Snapshots]
  /\ plan \in [Publishers -> [Targets -> Plans]]
  /\ reads \in [Publishers -> 0 .. MaxReads - 1]
  /\ faults \in 0 .. MaxFaults /\ touched \subseteq Targets

\* The revision of a destination never moves back, whichever older catalogs
\* are published at the same time and however late their writes arrive.
RevisionGrows == \A t \in Targets : secret'[t].revision >= secret[t].revision
RevisionMonotone == [][RevisionGrows]_vars

\* A revision tag tells the payload, unless someone else replaced it: no
\* mixture of concurrent, lost and partial batches pairs them wrongly.
RevisionTellsValue ==
  \A t \in Targets :
    secret[t].revision > 0 /\ t \notin touched => secret[t].value = Value[t][secret[t].revision]

\* An invocation that reports success leaves every destination at its own
\* revision or a newer one.
DoneIsDelivered ==
  \A p \in Publishers : pc[p] = "done" => \A t \in Targets : secret[t].revision >= Mine(p, t)

\* Concurrent, lost, partial and repeated batches: a revision names its
\* payload, and success means that every destination has it or a newer one.
PublicationSound == TypeOK /\ RevisionTellsValue /\ DoneIsDelivered

\* Whatever stopped before, running again delivers the newest catalog: a
\* partial batch never blocks the next invocation.  What others changed in the
\* vault may have to be refused until someone looks at it.
Newest ==
  touched = {} => \A t \in Targets, p \in Publishers : secret[t].revision >= Mine(p, t)
NewestDelivered == <>[]Newest
=============================================================================
