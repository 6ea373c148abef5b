---------------------------- MODULE HcpRevisions ----------------------------
(***************************************************************************)
(* Secret revisions in HCP Terraform (tools/secret_control/hcp.py).  Runs  *)
(* share one private directory: a lock, an append-only ledger of intents,  *)
(* its key, and Terraform's state.  A run that is killed frees the lock,   *)
(* but the Terraform process that it started goes on in a session of its   *)
(* own; a run that gives up on Terraform kills it.                         *)
(***************************************************************************)
EXTENDS Naturals, FiniteSets

CONSTANTS
    Runs,            \* invocations of hcp-plan and hcp-apply
    Names,           \* variables
    MaxGeneration, MaxRevision,
    Values,
    MaxFaults        \* kills and timeouts

VARIABLES
    pc, catalog, apply,      \* of each run
    lock,                    \* the run that has the directory, or Nobody
    key, ledger,             \* "none", "whole" or "torn"; the intents, one per generation
    state,                   \* Terraform's state file: the revision of each variable, 0 if it has none
    hcp,                     \* what HCP holds
    terraform,               \* the Terraform processes that run
    ever, faults             \* every value that HCP was given, and faults so far

vars == <<pc, catalog, apply, lock, key, ledger, state, hcp, terraform, ever, faults>>

CONSTANT Nobody

BoundsAssumption == MaxGeneration \in Nat /\ MaxRevision \in Nat
NobodyAssumption == Nobody \notin Runs

\* mappings: the variables that a catalog delivers, each with a revision and a value.
Entry == [rev : 1..MaxRevision, value : Values]
Catalogs == [gen : 1..MaxGeneration, entries : UNION {[ns -> Entry] : ns \in (SUBSET Names) \ {{}}}]
NoCatalog == [gen |-> 0, entries |-> <<>>]

Init ==
    /\ pc = [r \in Runs |-> "idle"] /\ catalog = [r \in Runs |-> NoCatalog] /\ apply = [r \in Runs |-> FALSE]
    /\ lock = Nobody /\ key = "none" /\ ledger = {} /\ state = [n \in Names |-> 0]
    /\ hcp = [n \in Names |-> [rev |-> 0, value |-> "none"]]
    /\ terraform = {} /\ ever = {} /\ faults = 0

Go(r, where) == pc' = [pc EXCEPT ![r] = where]
Leave(r, how) == Go(r, how) /\ lock' = Nobody
Files == <<key, ledger, state, hcp, ever>>

\* execute: hcp-plan, or hcp-apply of the generation that is named.
Start(r, c, a) ==
    /\ pc[r] = "idle" /\ Go(r, "lock")
    /\ catalog' = [catalog EXCEPT ![r] = c] /\ apply' = [apply EXCEPT ![r] = a]
    /\ UNCHANGED <<lock, Files, terraform, faults>>

\* verify_root takes the lock without waiting, before it reads anything.
VerifyRoot(r) ==
    /\ pc[r] = "lock"
    /\ IF lock = Nobody THEN lock' = r /\ Go(r, "state") ELSE Go(r, "refused") /\ UNCHANGED lock
    /\ UNCHANGED <<catalog, apply, Files, terraform, faults>>

Managed == {n \in Names : state[n] > 0}
StateHolds(c) == Managed \subseteq DOMAIN c.entries /\ \A n \in Managed : state[n] <= c.entries[n].rev

VerifyState(r) ==
    /\ pc[r] = "state"
    /\ IF StateHolds(catalog[r]) THEN Go(r, "intent") /\ UNCHANGED lock ELSE Leave(r, "refused")
    /\ UNCHANGED <<catalog, apply, Files, terraform, faults>>

\* An intent that a new one may follow.
Follows(c, prior) ==
    /\ prior.gen <= c.gen /\ DOMAIN prior.entries \subseteq DOMAIN c.entries
    /\ \A n \in DOMAIN prior.entries :
        c.entries[n].rev >= prior.entries[n].rev /\ (c.entries[n].rev = prior.entries[n].rev => c.entries[n] = prior.entries[n])
    /\ prior.gen = c.gen => prior = c

\* Only the newest intent counts.
FollowsLast(c) == \A p \in ledger : (\A q \in ledger : q.gen <= p.gen) => p.gen <= c.gen /\ (p.gen = c.gen => p = c)
LedgerHolds(c) == \A p \in ledger : Follows(c, p)

Torn == [gen |-> 0, entries |-> <<>>]   \* a ledger file that was never finished

\* record_intent: with apply, the key and then the intent are written before Terraform starts.
WriteKey(r) ==
    /\ pc[r] = "intent" /\ apply[r] /\ key = "none" /\ ledger = {}
    /\ \/ key' = "whole" /\ UNCHANGED <<pc, lock, faults>>
       \/ key' = "torn" /\ Leave(r, "dead") /\ faults < MaxFaults /\ faults' = faults + 1
    /\ UNCHANGED <<catalog, apply, ledger, state, hcp, ever, terraform>>

RecordIntent(r) ==
    /\ pc[r] = "intent" /\ (apply[r] => key # "none")
    /\ IF key = "none" THEN (IF Managed = {} /\ ledger = {} THEN Go(r, "run") /\ UNCHANGED lock ELSE Leave(r, "refused")) /\ UNCHANGED <<ledger, faults>>
       ELSE IF key = "torn" \/ Torn \in ledger \/ (ledger = {} /\ Managed # {}) \/ ~LedgerHolds(catalog[r])
       THEN Leave(r, "refused") /\ UNCHANGED <<ledger, faults>>
       ELSE \/ /\ ledger' = IF apply[r] THEN ledger \cup {catalog[r]} ELSE ledger
               /\ Go(r, "run") /\ UNCHANGED <<lock, faults>>
            \/ /\ apply[r] /\ \A p \in ledger : p.gen # catalog[r].gen
               /\ faults < MaxFaults /\ faults' = faults + 1
               /\ ledger' = ledger \cup {Torn} /\ Leave(r, "dead")
    /\ UNCHANGED <<catalog, apply, key, state, hcp, ever, terraform>>

\* Two Terraform processes at once (-lock=false).
NoStateLock == TRUE

\* Terraform's own lock on its state file, which lasts as long as its process.
StateLock == terraform = {}

Due(c) == {n \in DOMAIN c.entries : state[n] # c.entries[n].rev}

\* A plan changes nothing; an apply starts from the state file as it is now.
RunTerraform(r) ==
    /\ pc[r] = "run"
    /\ \/ ~StateLock /\ Leave(r, "failed") /\ UNCHANGED terraform
       \/ StateLock /\ ~apply[r] /\ Leave(r, "planned") /\ UNCHANGED terraform
       \/ /\ StateLock /\ apply[r] /\ Go(r, "wait") /\ UNCHANGED lock
          /\ terraform' = terraform \cup {[of |-> r, catalog |-> catalog[r], todo |-> Due(catalog[r]), seen |-> state]}
    /\ UNCHANGED <<catalog, apply, Files, faults>>

\* Terraform writes one variable; its state file may or may not have it before the end.
TerraformWrites(t, n) ==
    LET e == t.catalog.entries[n]
        after == [t EXCEPT !.todo = @ \ {n}, !.seen = [@ EXCEPT ![n] = e.rev]]
    IN  /\ n \in t.todo
        /\ hcp' = [hcp EXCEPT ![n] = e] /\ ever' = ever \cup {<<n, e.rev, e.value>>}
        /\ terraform' = (terraform \ {t}) \cup {after}
        /\ state' \in {state, after.seen}
        /\ UNCHANGED <<pc, catalog, apply, lock, key, ledger, faults>>

TerraformEnds(t) ==
    /\ state' = t.seen /\ terraform' = terraform \ {t}
    /\ \/ t.todo = {} /\ UNCHANGED faults
       \/ t.todo # {} /\ faults < MaxFaults /\ faults' = faults + 1
    /\ IF pc[t.of] = "wait" THEN Leave(t.of, IF t.todo = {} THEN "applied" ELSE "failed") ELSE UNCHANGED <<pc, lock>>
    /\ UNCHANGED <<catalog, apply, key, ledger, hcp, ever>>

\* The run gives up after its time limit and kills Terraform's process group; a request that Terraform
\* has in flight at that moment has landed or never does.
Timeout(r) ==
    /\ pc[r] = "wait" /\ faults < MaxFaults /\ faults' = faults + 1
    /\ terraform' = {t \in terraform : t.of # r} /\ Leave(r, "failed")
    /\ UNCHANGED <<catalog, apply, Files>>

\* The run itself is killed: its lock is free, Terraform is not told.
Kill(r) ==
    /\ pc[r] \in {"state", "intent", "run", "wait"} /\ faults < MaxFaults /\ faults' = faults + 1
    /\ Leave(r, "dead")
    /\ UNCHANGED <<catalog, apply, Files, terraform>>

Next ==
    \/ \E r \in Runs :
        \/ \E c \in Catalogs, a \in BOOLEAN : Start(r, c, a)
        \/ VerifyRoot(r) \/ VerifyState(r) \/ WriteKey(r) \/ RecordIntent(r) \/ RunTerraform(r) \/ Timeout(r) \/ Kill(r)
    \/ \E t \in terraform : TerraformEnds(t) \/ \E n \in Names : TerraformWrites(t, n)
Spec == Init /\ [][Next]_vars

-----------------------------------------------------------------------------

(***************************************************************************)
(* A revision tells the value: however often runs are killed, time out or  *)
(* are repeated with another catalog, HCP is never given two values for    *)
(* one revision of a variable.                                             *)
(***************************************************************************)
HcpRevisionTellsValue == \A x, y \in ever : x[1] = y[1] /\ x[2] = y[2] => x = y

(***************************************************************************)
(* No variable ever goes back to an earlier revision, not even when a      *)
(* Terraform process outlives the run that started it and another run      *)
(* delivers a newer catalog meanwhile.                                     *)
(***************************************************************************)
RevisionGrows == \A n \in Names : hcp'[n].rev >= hcp[n].rev

-----------------------------------------------------------------------------
(* Why it holds.                                                           *)

\* One run works in the directory at a time.
RunsOK ==
    /\ pc \in [Runs -> {"idle", "lock", "state", "intent", "run", "wait", "refused", "planned", "applied", "failed", "dead"}]
    /\ catalog \in [Runs -> Catalogs \cup {NoCatalog}] /\ apply \in [Runs -> BOOLEAN]
    /\ lock \in Runs \cup {Nobody}
    /\ \A r \in Runs :
        /\ pc[r] # "idle" => catalog[r] \in Catalogs
        /\ pc[r] \in {"state", "intent", "run", "wait"} => lock = r

\* Of any two intents one follows the other.
LedgerOK ==
    /\ ledger \subseteq Catalogs \cup {Torn}
    /\ \A p, q \in ledger : Follows(p, q) \/ Follows(q, p)

\* A run that is about to apply has its intent in the ledger, the newest one.
RecordedOK ==
    \A r \in Runs : pc[r] = "run" /\ apply[r] => catalog[r] \in ledger /\ LedgerHolds(catalog[r])

\* One Terraform process at most, with a recorded intent that HCP is not ahead of.
TerraformOK ==
    /\ terraform \subseteq [of : Runs, catalog : Catalogs, todo : SUBSET Names, seen : [Names -> Nat]]
    /\ \A t, u \in terraform : t = u
    /\ \A t \in terraform :
        /\ t.catalog \in ledger /\ t.todo \subseteq DOMAIN t.catalog.entries
        /\ \A n \in DOMAIN t.catalog.entries : hcp[n].rev <= t.catalog.entries[n].rev

\* HCP was only given what an intent says.
GivenOK ==
    /\ state \in [Names -> Nat] /\ hcp \in [Names -> [rev : Nat, value : Values \cup {"none"}]]
    /\ \A n \in Names : hcp[n].rev > 0 => \E p \in ledger : n \in DOMAIN p.entries /\ hcp[n] = p.entries[n]
    /\ \A x \in ever : \E p \in ledger : \E n \in DOMAIN p.entries : x = <<n, p.entries[n].rev, p.entries[n].value>>

Inv == RunsOK /\ LedgerOK /\ RecordedOK /\ TerraformOK /\ GivenOK
=============================================================================
