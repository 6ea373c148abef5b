---------------------------- MODULE SecretJournal ----------------------------
(***************************************************************************)
(* tools/secret_control/github_api.py: deliver.  GitHub can neither read a *)
(* secret back nor compare and swap it, so an invocation works under a     *)
(* local lock and keeps a journal: a durable intent before the first       *)
(* write, a receipt and an observation for every secret, and the outcome.  *)
(* An operation that has an intent is never attempted again.               *)
(*                                                                         *)
(* A request may take effect after the invocation that sent it has given   *)
(* up or died.  The metadata of a secret are the times of its creation and *)
(* last update, in changes so far; an absent secret has the times 0.       *)
(***************************************************************************)
EXTENDS Integers, Sequences, FiniteSets

CONSTANTS
  Invocations,  \* runs of the tool with --apply
  Operation,    \* the operation_id each of them was given
  Secrets,      \* the destinations of a manifest, in order
  MaxFaults,    \* bound on failing calls and records, lost answers, deaths
  MaxOutside    \* bound on changes by others

Operations == {Operation[i] : i \in Invocations}
Places == DOMAIN Secrets

ManifestAssumption ==
  /\ Secrets \in Seq({Secrets[k] : k \in Places}) /\ Secrets # <<>>
  /\ \A k, l \in Places : Secrets[k] = Secrets[l] => k = l
BoundsAssumption == MaxFaults \in Nat /\ MaxOutside \in Nat

Nobody == "nobody"
NobodyAssumption == Nobody \notin Invocations

\* What every manifest approved: the metadata of the secrets at the start.
Expected == [created |-> 1, updated |-> 1]
Missing == [created |-> 0, updated |-> 0]

VARIABLES
  \* GitHub
  meta,      \* metadata of the secret at each place
  inflight,  \* write requests that may still take effect
  \* the journal directory
  lock, intent, accepted, observed, result,
  \* invocations: place in the code and in the manifest, counters
  pc, at, accepts, observes, phase,
  \* history
  landed,    \* writes that took effect: who, where, over what, and late
  disturbed, \* others changed a secret between its last check and a write
  faults, outside

github == <<meta, inflight, landed, disturbed, outside>>
journal == <<intent, accepted, observed, result>>
local == <<at, accepts, observes, phase>>
vars == <<github, journal, lock, pc, local, faults>>

NoResult == [status |-> "none", phase |-> "none", accepted |-> 0]

Init ==
  /\ meta = [k \in Places |-> Expected] /\ inflight = {}
  /\ lock = Nobody /\ intent = {} /\ accepted = {} /\ observed = {}
  /\ result = [o \in Operations |-> NoResult]
  /\ pc = [i \in Invocations |-> "new"] /\ at = [i \in Invocations |-> 1]
  /\ accepts = [i \in Invocations |-> 0] /\ observes = [i \in Invocations |-> 0]
  /\ phase = [i \in Invocations |-> "revalidation"]
  /\ landed = {} /\ disturbed = {} /\ faults = 0 /\ outside = 0

Fault == faults < MaxFaults /\ faults' = faults + 1
Goto(i, place) == pc' = [pc EXCEPT ![i] = place]

-----------------------------------------------------------------------------
(* GitHub                                                                  *)

\* The place an invocation has checked and is about to write, or writes.
Writing(i) == pc[i] \in {"write", "await"}
Disturbs(k, others) ==
  disturbed' = disturbed \cup
    {<<Operation[i], k>> : i \in {i \in others : Writing(i) /\ at[i] = k}}

\* The time of the next change, and the metadata it leaves.
Now == 2 + Cardinality(landed) + outside
Newer(k) == [created |-> IF meta[k] = Missing THEN Now ELSE meta[k].created, updated |-> Now]

\* A request takes effect: GitHub's upsert.  Its sender may be gone.
Land(i, k) ==
  LET late == ~(pc[i] = "await" /\ at[i] = k) IN
  /\ <<i, k>> \in inflight /\ inflight' = inflight \ {<<i, k>>}
  /\ meta' = [meta EXCEPT ![k] = Newer(k)]
  /\ landed' = landed \cup {[op |-> Operation[i], by |-> i, place |-> k,
                             over |-> meta[k], late |-> late]}
  /\ Disturbs(k, IF late THEN Invocations ELSE {})
  /\ UNCHANGED <<outside, journal, lock, pc, local, faults>>

\* Another writer replaces or deletes the secret.
ChangeOutside(k) ==
  /\ outside < MaxOutside /\ outside' = outside + 1
  /\ \E m \in {Newer(k), Missing} : meta' = [meta EXCEPT ![k] = m]
  /\ Disturbs(k, Invocations)
  /\ UNCHANGED <<inflight, landed, journal, lock, pc, local, faults>>

-----------------------------------------------------------------------------
(* deliver                                                                 *)

\* The process ends and the lock with it.
End(i) == Goto(i, "ended") /\ lock' = (IF lock = i THEN Nobody ELSE lock)

\* journal_lock: exclusive, and refused at once when another has it.
Lock(i) ==
  /\ pc[i] = "new"
  /\ IF lock = Nobody THEN lock' = i /\ Goto(i, "locked") ELSE End(i)
  /\ UNCHANGED <<github, journal, local, faults>>

\* An operation with an intent, whatever became of it, is refused.
CheckIntent(i) ==
  /\ pc[i] = "locked"
  /\ IF Operation[i] \in intent THEN End(i) ELSE Goto(i, "preflight") /\ UNCHANGED lock
  /\ UNCHANGED <<github, journal, local, faults>>

\* ownership and public_key do not confirm the approved identities, or a call
\* fails.
Refused == Fault

\* Owner, public key and metadata of every destination, before any record.
Preflight(i) ==
  /\ pc[i] = "preflight"
  /\ \/ /\ \A k \in Places : meta[k] = Expected
        /\ Goto(i, "intent") /\ UNCHANGED <<lock, faults>>
     \/ (\E k \in Places : meta[k] # Expected) /\ End(i) /\ UNCHANGED faults
     \/ Refused /\ End(i)
  /\ UNCHANGED <<github, journal, local>>

\* record(..., "intent"): created exclusively and synced.  A failure leaves
\* the file or not, and ends the invocation outside of its try block.
RecordIntent(i) ==
  /\ pc[i] = "intent"
  /\ \/ /\ intent' = intent \cup {Operation[i]}
        /\ Goto(i, "revalidate") /\ UNCHANGED <<lock, faults>>
     \/ /\ Fault /\ End(i) /\ intent' \in {intent, intent \cup {Operation[i]}}
  /\ UNCHANGED <<github, accepted, observed, result, local>>

\* An exception inside the try block, in the phase reached so far.
Raise(i, where) ==
  /\ phase' = [phase EXCEPT ![i] = where] /\ Goto(i, "stop")
  /\ UNCHANGED <<at, accepts, observes>>

\* Owner, public key and metadata again, right before the write.
Revalidate(i) ==
  /\ pc[i] = "revalidate"
  /\ \/ meta[at[i]] = Expected /\ Goto(i, "write") /\ UNCHANGED <<local, faults>>
     \/ meta[at[i]] # Expected /\ Raise(i, "revalidation") /\ UNCHANGED faults
     \/ Refused /\ Raise(i, "revalidation")
  /\ UNCHANGED <<github, journal, lock>>

\* The PUT leaves.
Send(i) ==
  /\ pc[i] = "write" /\ Goto(i, "await")
  /\ inflight' = inflight \cup {<<i, at[i]>>}
  /\ UNCHANGED <<meta, landed, disturbed, outside, journal, lock, local, faults>>

\* The answer arrives: 204 for a secret that existed, 201 for one that was
\* created, which the tool refuses after the fact.
Answered(i) ==
  /\ pc[i] = "await"
  /\ \E w \in landed :
       /\ w.by = i /\ w.place = at[i]
       /\ IF w.over # Missing
          THEN /\ accepts' = [accepts EXCEPT ![i] = @ + 1] /\ Goto(i, "receipt")
               /\ UNCHANGED <<at, observes, phase>>
          ELSE Raise(i, "write")
  /\ UNCHANGED <<github, journal, lock, faults>>

\* No answer in time, or a refusal; the request may be gone or still land.
Unanswered(i) ==
  /\ pc[i] = "await" /\ Fault /\ Raise(i, "write")
  /\ inflight' \in {inflight, inflight \ {<<i, at[i]>>}}
  /\ UNCHANGED <<meta, landed, disturbed, outside, journal, lock>>

\* record(..., "accepted")
RecordAccepted(i) ==
  /\ pc[i] = "receipt"
  /\ \/ /\ accepted' = accepted \cup {<<Operation[i], at[i]>>}
        /\ Goto(i, "observe") /\ UNCHANGED <<local, faults>>
     \/ Fault /\ Raise(i, "receipt") /\ UNCHANGED accepted
  /\ UNCHANGED <<github, intent, observed, result, lock>>

\* The metadata after the write: the same secret, not older than approved.
Observe(i) ==
  LET m == meta[at[i]]
      good == m.created = Expected.created /\ m.updated >= Expected.updated IN
  /\ pc[i] = "observe"
  /\ \/ good /\ Goto(i, "note") /\ UNCHANGED <<local, faults>>
     \/ ~good /\ Raise(i, "observation") /\ UNCHANGED faults
     \/ Fault /\ Raise(i, "observation")
  /\ UNCHANGED <<github, journal, lock>>

\* The manifest has another secret.
More(i) == at[i] < Len(Secrets)

\* record(..., "observed"), and on to the next secret.
RecordObserved(i) ==
  /\ pc[i] = "note"
  /\ \/ /\ observed' = observed \cup {<<Operation[i], at[i]>>}
        /\ observes' = [observes EXCEPT ![i] = @ + 1]
        /\ IF More(i)
           THEN at' = [at EXCEPT ![i] = @ + 1] /\ Goto(i, "revalidate")
           ELSE UNCHANGED at /\ Goto(i, "complete")
        /\ UNCHANGED <<accepts, phase, faults>>
     \/ Fault /\ Raise(i, "observation") /\ UNCHANGED observed
  /\ UNCHANGED <<github, intent, accepted, result, lock>>

\* record(..., "complete")
RecordComplete(i) ==
  /\ pc[i] = "complete"
  /\ \/ /\ result' = [result EXCEPT ![Operation[i]] =
                       [status |-> "complete", phase |-> "none", accepted |-> accepts[i]]]
        /\ End(i) /\ UNCHANGED <<local, faults>>
     \/ Fault /\ Raise(i, "observation") /\ UNCHANGED <<result, lock>>
  /\ UNCHANGED <<github, intent, accepted, observed>>

\* Mutant of Outcome: the phase of the failure is not recorded.
VagueOutcome(i) == [status |-> "stopped", phase |-> "revalidation", accepted |-> accepts[i]]

\* What the record of a stopped operation says; its write_outcome_may_be_unknown
\* is phase = "write".
Outcome(i) == [status |-> "stopped", phase |-> phase[i], accepted |-> accepts[i]]

\* record(..., "stopped"), which may fail too, and the error is reported.
RecordStopped(i) ==
  /\ pc[i] = "stop"
  /\ \/ result' = [result EXCEPT ![Operation[i]] = Outcome(i)] /\ UNCHANGED faults
     \/ Fault /\ UNCHANGED result
  /\ End(i) /\ UNCHANGED <<github, intent, accepted, observed, local>>

\* The process is killed or the machine stops.  A record being written is
\* there or not.
Die(i) ==
  /\ pc[i] \notin {"new", "ended"} /\ Fault /\ End(i)
  /\ intent' \in {intent, IF pc[i] = "intent" THEN intent \cup {Operation[i]} ELSE intent}
  /\ UNCHANGED <<github, accepted, observed, result, local>>

-----------------------------------------------------------------------------

Step(i) ==
  \/ Lock(i) \/ CheckIntent(i) \/ Preflight(i) \/ RecordIntent(i) \/ Revalidate(i)
  \/ Send(i) \/ Answered(i) \/ RecordAccepted(i) \/ Observe(i)
  \/ RecordObserved(i) \/ RecordComplete(i) \/ RecordStopped(i)

Next ==
  \/ \E k \in Places : ChangeOutside(k)
  \/ \E i \in Invocations, k \in Places : Land(i, k)
  \/ \E i \in Invocations : Step(i) \/ Unanswered(i) \/ Die(i)

Spec == Init /\ [][Next]_vars

-----------------------------------------------------------------------------

Phases == {"none", "revalidation", "write", "receipt", "observation"}
Counts == 0 .. Len(Secrets)

\* Types: counters within the manifest and one holder of the lock at most.
TypeOK ==
  /\ meta \in [Places -> [created : Nat, updated : Nat]]
  /\ inflight \subseteq Invocations \X Places
  /\ lock \in Invocations \cup {Nobody} /\ intent \subseteq Operations
  /\ accepted \subseteq Operations \X Places /\ observed \subseteq Operations \X Places
  /\ result \in [Operations -> [status : {"none", "complete", "stopped"}, phase : Phases,
                                accepted : Counts]]
  /\ pc \in [Invocations -> {"new", "locked", "preflight", "intent", "revalidate", "write",
                             "await", "receipt", "observe", "note", "complete", "stop", "ended"}]
  /\ at \in [Invocations -> Places]
  /\ accepts \in [Invocations -> Counts] /\ observes \in [Invocations -> Counts]
  /\ phase \in [Invocations -> Phases]
  /\ landed \subseteq [op : Operations, by : Invocations, place : Places,
                       over : [created : Nat, updated : Nat], late : BOOLEAN]
  /\ disturbed \subseteq Operations \X Places
  /\ faults \in 0 .. MaxFaults /\ outside \in 0 .. MaxOutside

\* Writes of an operation: those that took effect and those that still may.
Sent(o) ==
  {<<w.by, w.place>> : w \in {w \in landed : w.op = o}}
    \cup {x \in inflight : Operation[x[1]] = o}

\* An operation writes every secret at most once, however often it is run and
\* wherever its invocations die.
OneWritePerOperation ==
  \A o \in Operations, k \in Places :
    Cardinality({x \in Sent(o) : x[2] = k}) <= 1

\* The journal never understates: a write has an intent, a receipt has a
\* write, a completed operation wrote everything, and a stopped one that does
\* not call its write outcome unknown made exactly the accepted writes, none
\* of them still to come.
JournalTruth ==
  \A o \in Operations :
    /\ Sent(o) # {} => o \in intent
    /\ \A k \in Places : <<o, k>> \in accepted => \E w \in landed : w.op = o /\ w.place = k
    /\ result[o].status = "complete" => {w.place : w \in {w \in landed : w.op = o}} = Places
    /\ result[o].status = "stopped" /\ result[o].phase # "write"
         => /\ Cardinality({w \in landed : w.op = o}) = result[o].accepted
            /\ \A x \in inflight : Operation[x[1]] # o

\* A write that took effect while its invocation was waiting replaced exactly
\* the approved metadata, unless someone outside this journal or a late
\* request changed the secret after the last check: two invocations of the
\* tool never overwrite each other.
ReplacesApproved ==
  \A w \in landed :
    w.late \/ <<w.op, w.place>> \in disturbed \/ w.over = Expected

-----------------------------------------------------------------------------
(* Why it holds.                                                           *)

\* Where an invocation is once it has recorded its intent, until it ends.
Past == {"revalidate", "write", "await", "receipt", "observe", "note", "complete", "stop"}
Attempted(i) ==
  \/ pc[i] \in Past
  \/ \E k \in Places : <<i, k>> \in inflight
  \/ \E w \in landed : w.by = i
WritesOf(o) == {w \in landed : w.op = o}
Settled(i) == \A k \in Places : <<i, k>> \notin inflight

\* One invocation at a time is at work.
OneAtWork == \A i \in Invocations : pc[i] \notin {"new", "ended"} => lock = i

\* An operation is attempted by one invocation only, and its intent tells.
OneAttempt ==
  \A i \in Invocations :
    /\ pc[i] \in {"preflight", "intent"} => Operation[i] \notin intent
    /\ Attempted(i) => Operation[i] \in intent
    /\ \A j \in Invocations : Operation[i] = Operation[j] /\ Attempted(i) /\ Attempted(j) => i = j

\* A write takes effect once.
LandedOK ==
  /\ IsFiniteSet(landed)
  /\ \A w \in landed : w.op = Operation[w.by] /\ <<w.by, w.place>> \notin inflight

\* The counters of an invocation at work tell what it wrote.
Counted(i) ==
  LET n == Cardinality(WritesOf(Operation[i])) IN
  /\ pc[i] \in {"new", "locked", "preflight", "intent"} => at[i] = 1 /\ accepts[i] = 0 /\ observes[i] = 0
  /\ pc[i] \in {"revalidate", "write"} =>
      /\ accepts[i] = at[i] - 1 /\ observes[i] = at[i] - 1 /\ n = at[i] - 1 /\ Settled(i)
      /\ \A w \in landed : w.by = i => w.place < at[i]
  /\ pc[i] = "await" =>
      /\ accepts[i] = at[i] - 1 /\ observes[i] = at[i] - 1
      /\ \A k \in Places : <<i, k>> \in inflight => k = at[i]
      /\ n = (IF <<i, at[i]>> \in inflight THEN at[i] - 1 ELSE at[i])
      /\ \A w \in landed : w.by = i => w.place <= at[i]
  /\ pc[i] \in {"receipt", "observe", "note"} =>
      /\ accepts[i] = at[i] /\ observes[i] = at[i] - 1 /\ n = at[i] /\ Settled(i)
      /\ \A w \in landed : w.by = i => w.place <= at[i]
  /\ pc[i] = "complete" =>
      accepts[i] = Len(Secrets) /\ observes[i] = Len(Secrets) /\ n = Len(Secrets) /\ Settled(i)
  /\ pc[i] = "stop" /\ phase[i] # "write" => n = accepts[i] /\ Settled(i)
  /\ pc[i] \in Past => \A k \in 1 .. accepts[i] : \E w \in landed : w.by = i /\ w.place = k
CountsOK == \A i \in Invocations : Counted(i)

\* A receipt has its write.
ReceiptsOK ==
  \A o \in Operations, k \in Places : <<o, k>> \in accepted => \E w \in landed : w.op = o /\ w.place = k

\* Nobody is at work on an operation that has an outcome, which tells all that
\* was written and will be.
OutcomeOK ==
  \A o \in Operations :
    /\ result[o].status # "none" => o \in intent /\ \A i \in Invocations : Operation[i] = o => pc[i] \notin Past
    /\ result[o].status = "complete" => \A k \in Places : \E w \in landed : w.op = o /\ w.place = k
    /\ result[o].status = "stopped" /\ result[o].phase # "write" =>
        /\ Cardinality(WritesOf(o)) = result[o].accepted
        /\ \A i \in Invocations : Operation[i] = o => Settled(i)

\* What is about to be replaced is what was approved, or others have changed it.
Approved(i) ==
  pc[i] = "write" \/ (pc[i] = "await" /\ <<i, at[i]>> \in inflight)
    => meta[at[i]] = Expected \/ <<Operation[i], at[i]>> \in disturbed
ApprovedOK == \A i \in Invocations : Approved(i)

Inv ==
  /\ TypeOK /\ OneAtWork /\ OneAttempt /\ LandedOK /\ CountsOK /\ ReceiptsOK /\ OutcomeOK /\ ApprovedOK
  /\ ReplacesApproved
=============================================================================
