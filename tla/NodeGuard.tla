------------------------------ MODULE NodeGuard ------------------------------
(***************************************************************************)
(* The node service deploy/runner-reserve/node_guard.py.  Its loop         *)
(* discovers the sandbox workers of the node, fences each of them with     *)
(* bridge rules bound to its veth, checks their identity once more and     *)
(* only then admits them, for a short lease.  A second nftables table      *)
(* protects the listener that answers "am I admitted?" to the workers.     *)
(*                                                                         *)
(* A pod is attached once, to a slot: an IPv4 address together with a veth *)
(* name, both of which a later pod may be given again.  The MAC and ifindex *)
(* of a veth are its own, so the pod that owns it stands for them.          *)
(* Deadlines are countdowns, moved by Tick; a guard step may take any       *)
(* number of ticks.                                                         *)
(***************************************************************************)
EXTENDS Integers, FiniteSets

CONSTANTS
  Pods,            \* worker pods, by uid
  Slots,           \* addresses with their veth names
  Poll,            \* identity_check_interval_seconds, in ticks
  DiscoveryEvery,  \* discovery_interval_seconds
  FirewallEvery,   \* firewall_check_interval_seconds
  MaxFaults        \* bound on failing commands, crashes and outside edits

ASSUME IntervalAssumption ==
  /\ Poll \in Nat \ {0} /\ DiscoveryEvery \in Nat \ {0}
  /\ FirewallEvery \in Nat \ {0} /\ MaxFaults \in Nat

NoPod == "no pod"
NoSlot == "no slot"
NoTable == {"no table"}      \* what a listing of an absent table gives
OtherTable == {"other"}      \* any contents the guard did not write
Unknown == {"unknown"}       \* None in the guard's memory, for a table
NoWorkers == {[uid |-> NoPod, slot |-> NoSlot]}  \* ... for workers
ASSUME NamesAssumption ==
  NoPod \notin Pods /\ {NoSlot, "no table", "other", "unknown"} \cap Slots = {}

LeaseLen == 2 * Poll + 1

VARIABLES
  \* the node
  home,       \* the slot each pod was attached to
  holder,     \* the pod whose veth is at a slot
  cri,        \* what the container runtime says of a pod
  cache,      \* pods with a CNI result file
  table,      \* the bridge table: the slots it fences
  listenerTable,
  \* the memory of Guard
  workers, firewall, listenerKnown, admitted, lease, discoveryIn, firewallIn,
  \* the loop: its place and its local variables
  pc, dueDiscovery, dueFirewall, listed, rows, exists, wakeIn,
  listening,  \* the readiness socket is bound
  \* history
  faults,     \* failures and outside edits so far
  age,        \* ticks since a pod lost its veth
  edited, listenerEdited,  \* a table changed since the guard saw it intact
  discovered  \* the container runtime was asked since the last failed pass

node == <<home, holder, cri, cache, age>>
memory == <<workers, firewall, listenerKnown, discoveryIn, firewallIn, discovered>>
admission == <<admitted, lease>>
choice == <<dueDiscovery, dueFirewall, listed, rows>>
pass == <<choice, exists>>
bridge == <<table, edited>>
listener == <<listenerTable, listenerEdited, listening>>
vars == <<node, memory, admission, pass, bridge, listener, pc, wakeIn, faults>>

Nobody == [s \in Slots |-> NoPod]

\* The local variables of a pass end with it.
PassEnds ==
  /\ dueDiscovery' = FALSE /\ dueFirewall' = FALSE
  /\ listed' = {} /\ rows' = {} /\ exists' = FALSE

\* A Guard knows nothing before its first pass; what it knew is lost with it.
FreshGuard ==
  /\ workers' = NoWorkers /\ firewall' = Unknown /\ listenerKnown' = FALSE
  /\ discoveryIn' = 0 /\ firewallIn' = 0 /\ discovered' = FALSE
  /\ admitted' = Nobody /\ lease' = 0 /\ wakeIn' = 0 /\ PassEnds

Init ==
  /\ home = [p \in Pods |-> NoSlot] /\ holder = Nobody
  /\ cri = [p \in Pods |-> "none"] /\ cache = {} /\ age = [p \in Pods |-> 0]
  /\ table \in {NoTable, OtherTable} /\ listenerTable \in {"none", "other"}
  /\ edited = FALSE /\ listenerEdited = FALSE /\ listening = FALSE
  /\ workers = NoWorkers /\ firewall = Unknown /\ listenerKnown = FALSE
  /\ discoveryIn = 0 /\ firewallIn = 0 /\ discovered = FALSE
  /\ admitted = Nobody /\ lease = 0
  /\ dueDiscovery = FALSE /\ dueFirewall = FALSE
  /\ listed = {} /\ rows = {} /\ exists = FALSE /\ wakeIn = 0
  /\ pc = "protect" /\ faults = 0

-----------------------------------------------------------------------------
(* The node: pods come and go, others edit tables, time passes.            *)

\* A sandbox gets its network and becomes ready.
Attach(p, s) ==
  /\ home[p] = NoSlot /\ holder[s] = NoPod
  /\ home' = [home EXCEPT ![p] = s] /\ holder' = [holder EXCEPT ![s] = p]
  /\ cri' = [cri EXCEPT ![p] = "ready"] /\ cache' = cache \cup {p}
  /\ UNCHANGED <<age, memory, admission, pass, bridge, listener, pc, wakeIn, faults>>

Attached(p) == home[p] # NoSlot /\ holder[home[p]] = p

\* Its network goes, while the runtime may still report it ready.
Unplug(p) ==
  /\ Attached(p)
  /\ holder' = [holder EXCEPT ![home[p]] = NoPod]
  /\ UNCHANGED <<home, cri, cache, age, memory, admission, pass, bridge, listener, pc,
                 wakeIn, faults>>

\* The CNI result of a detached pod is deleted, perhaps late.
DropCache(p) ==
  /\ p \in cache /\ ~Attached(p)
  /\ cache' = cache \ {p}
  /\ UNCHANGED <<home, holder, cri, age, memory, admission, pass, bridge, listener, pc,
                 wakeIn, faults>>

\* The runtime no longer reports the sandbox ready; it never is again.
Stop(p) ==
  /\ cri[p] = "ready" /\ cri' = [cri EXCEPT ![p] = "stopped"]
  /\ UNCHANGED <<home, holder, cache, age, memory, admission, pass, bridge, listener, pc,
                 wakeIn, faults>>

Fault == faults < MaxFaults /\ faults' = faults + 1

\* Someone else deletes or changes a table of the guard.
Edit ==
  /\ Fault
  /\ \/ /\ table' \in {NoTable, OtherTable} \ {table} /\ edited' = TRUE
        /\ UNCHANGED listener
     \/ /\ listenerTable' \in {"none", "other"} \ {listenerTable}
        /\ listenerEdited' = TRUE /\ UNCHANGED <<bridge, listening>>
  /\ UNCHANGED <<node, memory, admission, pass, pc, wakeIn>>

Before(n) == IF n = 0 THEN 0 ELSE n - 1

\* Time passes anywhere except between the last identity check and the
\* admission, where the guard waits for nothing.
Tick ==
  /\ pc # "grant"
  /\ lease' = Before(lease) /\ wakeIn' = Before(wakeIn)
  /\ discoveryIn' = Before(discoveryIn) /\ firewallIn' = Before(firewallIn)
  /\ age' = [p \in Pods |->
               IF home[p] = NoSlot \/ Attached(p) \/ age[p] > LeaseLen
               THEN age[p] ELSE age[p] + 1]
  /\ UNCHANGED <<home, holder, cri, cache, workers, firewall, listenerKnown, discovered,
                 admitted, pass, bridge, listener, pc, faults>>

-----------------------------------------------------------------------------
(* Failures                                                                *)

Revoke == admitted' = Nobody /\ lease' = 0

\* sync catches an error: admission is revoked, and the next pass starts from
\* the container runtime and both tables.
Fail ==
  /\ Revoke
  /\ discoveryIn' = 0 /\ firewallIn' = 0 /\ discovered' = FALSE
  /\ pc' = "sleep" /\ wakeIn' = Poll /\ PassEnds
  /\ UNCHANGED <<workers, firewall, listenerKnown>>

\* protect_listener could not establish the listener's rules: the loop ends
\* and the server is shut down.
FailListener ==
  /\ Revoke
  /\ discoveryIn' = 0 /\ firewallIn' = 0 /\ discovered' = FALSE
  /\ pc' = "stopping" /\ PassEnds
  /\ UNCHANGED <<workers, firewall, listenerKnown, wakeIn>>

\* server.shutdown: the socket is closed and the process ends.
StopListener ==
  /\ pc = "stopping" /\ pc' = "down" /\ listening' = FALSE /\ FreshGuard
  /\ UNCHANGED <<node, bridge, listenerTable, listenerEdited, faults>>

\* The process dies at any point; its tables stay in the kernel.
Crash ==
  /\ Fault /\ pc # "down" /\ pc' = "down" /\ listening' = FALSE /\ FreshGuard
  /\ UNCHANGED <<node, bridge, listenerTable, listenerEdited>>

\* systemd starts the service again.
Restart ==
  /\ pc = "down" /\ pc' = "protect"
  /\ UNCHANGED <<node, memory, admission, pass, bridge, listener, wakeIn, faults>>

-----------------------------------------------------------------------------
(* protect_listener                                                        *)

\* The part of the pass that follows the listener check.
AfterListener ==
  IF dueDiscovery THEN "list" ELSE IF dueFirewall THEN "validate" ELSE "check"

\* The listener is in order: at start the socket is bound and the loop begins.
ListenerReady ==
  /\ listenerEdited' = FALSE /\ listening' = TRUE
  /\ pc' = IF listening THEN AfterListener ELSE "idle"

\* listener_snapshot, compared with the rules of our own transaction.  A
\* listing that fails gives nothing, as for an absent table.
ReadListener ==
  /\ pc = "protect"
  /\ \/ /\ listenerKnown /\ listenerTable = "ours"
        /\ ListenerReady /\ UNCHANGED <<pass, memory, admission, listenerTable, wakeIn, faults>>
     \/ /\ ~(listenerKnown /\ listenerTable = "ours")
        /\ Revoke /\ exists' = (listenerTable # "none") /\ pc' = "protect apply"
        /\ UNCHANGED <<choice, memory, listener, wakeIn, faults>>
     \/ /\ Fault /\ Revoke /\ exists' = FALSE /\ pc' = "protect apply"
        /\ UNCHANGED <<choice, memory, listener, wakeIn>>
     \/ Fault /\ FailListener /\ UNCHANGED listener
  /\ UNCHANGED <<node, bridge>>

\* What the kernel holds after our transaction: without the delete statement
\* the rules are added to those that are there.
ListenerApplied ==
  IF exists \/ listenerTable = "none" THEN "ours"
  ELSE IF listenerTable \in {"ours", "twice"} THEN "twice" ELSE "other"

\* apply_firewall for the listener: atomic, and refused when the table to be
\* deleted is absent.  A command that failed or timed out may have committed.
ApplyListener ==
  /\ pc = "protect apply"
  /\ \/ /\ ~(exists /\ listenerTable = "none")
        /\ listenerTable' = ListenerApplied /\ pc' = "protect readback"
        /\ UNCHANGED <<memory, admission, pass, wakeIn, faults>>
     \/ /\ exists /\ listenerTable = "none"
        /\ FailListener /\ UNCHANGED <<listenerTable, faults>>
     \/ /\ Fault /\ FailListener
        /\ listenerTable' \in {listenerTable, ListenerApplied}
  /\ UNCHANGED <<node, bridge, listenerEdited, listening>>

\* A separate listing must show exactly the echo of our transaction.
ReadbackListener ==
  /\ pc = "protect readback"
  /\ \/ /\ listenerTable = "ours"
        /\ listenerKnown' = TRUE /\ ListenerReady
        /\ UNCHANGED <<pass, workers, firewall, discoveryIn, firewallIn, discovered, admission,
                       listenerTable, wakeIn, faults>>
     \/ listenerTable # "ours" /\ FailListener /\ UNCHANGED <<listener, faults>>
     \/ Fault /\ FailListener /\ UNCHANGED listener
  /\ UNCHANGED <<node, bridge>>

-----------------------------------------------------------------------------
(* _sync                                                                   *)

Wake ==
  /\ pc = "sleep" /\ wakeIn = 0 /\ pc' = "idle"
  /\ UNCHANGED <<node, memory, admission, pass, bridge, listener, wakeIn, faults>>

\* One reading of the clock decides what this pass does.
BeginSync ==
  /\ pc = "idle"
  /\ dueDiscovery' = (workers = NoWorkers \/ discoveryIn = 0)
  /\ dueFirewall' = (firewallIn = 0)
  /\ rows' = IF workers = NoWorkers THEN {} ELSE workers
  /\ pc' = IF ~listenerKnown \/ firewallIn = 0 THEN "protect"
           ELSE IF dueDiscovery' THEN "list" ELSE "check"
  /\ UNCHANGED <<node, memory, admission, listed, exists, bridge, listener, wakeIn, faults>>

\* discover, first half: crictl lists the ready sandboxes.
List ==
  /\ pc = "list"
  /\ \/ /\ listed' = {p \in Pods : cri[p] = "ready"} /\ pc' = "identify"
        /\ UNCHANGED <<memory, admission, wakeIn, faults,
                       dueDiscovery, dueFirewall, rows, exists>>
     \/ Fault /\ Fail
  /\ UNCHANGED <<node, bridge, listener>>

\* cached_worker: the CNI result of the pod names a veth, and that veth still
\* has its MAC and ifindex, so it is the one of this pod.
Readable(p) == p \in cache /\ holder[home[p]] = p
Row(p) == [uid |-> p, slot |-> home[p]]

\* validate_workers, for one worker: what is read now is what was discovered.
Valid(row) == Readable(row.uid) /\ Row(row.uid) = row

\* The pass needs the bridge table if the workers changed or its check is due.
AfterWorkers == IF rows' # workers \/ dueFirewall THEN "read" ELSE "check"

\* discover, second half: one worker that cannot be identified fails the pass.
Identify ==
  /\ pc = "identify"
  /\ \/ /\ \A p \in listed : Readable(p)
        /\ rows' = {Row(p) : p \in listed}
        /\ discoveryIn' = DiscoveryEvery /\ discovered' = TRUE
        /\ pc' = AfterWorkers /\ listed' = {}
        /\ UNCHANGED <<workers, firewall, listenerKnown, firewallIn, admission,
                       dueDiscovery, dueFirewall, exists, wakeIn>>
     \/ (\E p \in listed : ~Readable(p)) /\ Fail
  /\ UNCHANGED <<node, bridge, listener, faults>>

\* Without discovery a due firewall check first validates the known workers.
Validate ==
  /\ pc = "validate"
  /\ IF \A row \in rows : Valid(row)
     THEN /\ pc' = "read" /\ UNCHANGED <<memory, admission, pass, wakeIn>>
     ELSE Fail
  /\ UNCHANGED <<node, bridge, listener, faults>>

\* rules: the slots that the bridge table fences for these workers.
Rules(ws) == {w.slot : w \in ws}

\* Mutant of ReadTable: only the table is compared, not the workers.
ReadTableOnly ==
  /\ pc = "read"
  /\ \/ /\ table = firewall
        /\ firewallIn' = FirewallEvery /\ edited' = FALSE /\ pc' = "check"
        /\ UNCHANGED <<admission, pass, faults, discoveryIn, discovered, wakeIn>>
     \/ /\ table # firewall
        /\ Revoke /\ exists' = (table # NoTable) /\ pc' = "apply"
        /\ UNCHANGED <<edited, firewallIn, faults, discoveryIn, discovered, wakeIn, choice>>
     \/ /\ Fault /\ Fail /\ UNCHANGED edited
  /\ UNCHANGED <<node, workers, firewall, listenerKnown, table, listener>>

\* firewall_snapshot: an intact table and unchanged workers need no write;
\* otherwise admission is revoked before the table is replaced.
ReadTable ==
  /\ pc = "read"
  /\ \/ /\ rows = workers /\ table = firewall
        /\ firewallIn' = FirewallEvery /\ edited' = FALSE /\ pc' = "check"
        /\ UNCHANGED <<admission, pass, faults, discoveryIn, discovered, wakeIn>>
     \/ /\ ~(rows = workers /\ table = firewall)
        /\ Revoke /\ exists' = (table # NoTable) /\ pc' = "apply"
        /\ UNCHANGED <<edited, firewallIn, faults, discoveryIn, discovered, wakeIn, choice>>
     \/ /\ Fault   \* the listing failed: as if there were no table
        /\ Revoke /\ exists' = FALSE /\ pc' = "apply"
        /\ UNCHANGED <<edited, firewallIn, discoveryIn, discovered, wakeIn, choice>>
     \/ Fault /\ Fail /\ UNCHANGED edited
  /\ UNCHANGED <<node, workers, firewall, listenerKnown, table, listener>>

\* Mutant of Applied: the delete statement is never part of the transaction.
AppliedOver == IF table = NoTable THEN Rules(rows) ELSE OtherTable

\* The table after our transaction; without the delete statement the rules
\* are added to those that are there.
Applied == IF exists \/ table = NoTable THEN Rules(rows) ELSE OtherTable

\* apply_firewall for the bridge table, as for the listener.
Apply ==
  /\ pc = "apply"
  /\ \/ /\ ~(exists /\ table = NoTable)
        /\ table' = Applied /\ pc' = "readback"
        /\ UNCHANGED <<memory, admission, pass, wakeIn, faults>>
     \/ exists /\ table = NoTable /\ Fail /\ UNCHANGED <<table, faults>>
     \/ Fault /\ Fail /\ table' \in {table, Applied}
  /\ UNCHANGED <<node, listener, edited>>

\* A separate listing must show exactly the echo of our transaction.
Readback ==
  /\ pc = "readback"
  /\ \/ /\ table = Rules(rows)
        /\ firewall' = Rules(rows) /\ firewallIn' = FirewallEvery
        /\ edited' = FALSE /\ pc' = "check"
        /\ UNCHANGED <<workers, listenerKnown, discoveryIn, discovered, admission, pass,
                       wakeIn, faults>>
     \/ table # Rules(rows) /\ Fail /\ UNCHANGED <<edited, faults>>
     \/ Fault /\ Fail /\ UNCHANGED edited
  /\ UNCHANGED <<node, listener, table>>

\* Every identity is read again, whatever the commands before took.
Check ==
  /\ pc = "check"
  /\ IF \A row \in rows : Valid(row)
     THEN /\ pc' = "grant" /\ UNCHANGED <<memory, admission, pass, wakeIn>>
     ELSE Fail
  /\ UNCHANGED <<node, bridge, listener, faults>>

\* admitted_until
Lease == LeaseLen

\* The workers are admitted, each address for its uid.
Grant ==
  /\ pc = "grant" /\ pc' = "sleep"
  /\ workers' = rows
  /\ admitted' \in {f \in [Slots -> Pods \cup {NoPod}] : \A s \in Slots :
       LET uids == {r.uid : r \in {r \in rows : r.slot = s}}
       IN  IF uids = {} THEN f[s] = NoPod ELSE f[s] \in uids}
  /\ lease' = Lease /\ wakeIn' = Poll /\ PassEnds
  /\ UNCHANGED <<node, firewall, listenerKnown, discoveryIn, firewallIn, discovered,
                 bridge, listener, faults>>

-----------------------------------------------------------------------------

GuardStep ==
  \/ ReadListener \/ ApplyListener \/ ReadbackListener \/ StopListener
  \/ Wake \/ BeginSync \/ List \/ Identify \/ Validate
  \/ ReadTable \/ Apply \/ Readback \/ Check \/ Grant

Next ==
  \/ \E p \in Pods : Unplug(p) \/ DropCache(p) \/ Stop(p)
  \/ \E p \in Pods, s \in Slots : Attach(p, s)
  \/ Edit \/ Crash \/ Restart \/ Tick \/ GuardStep

\* The guard's thread and time go on, systemd restarts the service, and the
\* runtime eventually stops reporting a sandbox that has lost its network.
Fairness ==
  /\ WF_vars(GuardStep) /\ WF_vars(Restart) /\ WF_vars(Tick)
  /\ \A p \in Pods : WF_vars(Stop(p) /\ ~Attached(p))

Spec == Init /\ [][Next]_vars /\ Fairness
-----------------------------------------------------------------------------

PcValues == {"protect", "protect apply", "protect readback", "idle", "list", "identify",
             "validate", "read", "apply", "readback", "check", "grant", "sleep",
             "stopping", "down"}
RowType == [uid : Pods, slot : Slots]

\* Types: the lease never exceeds twice the identity interval plus one, and
\* the remembered and current rows are rows of workers.
TypeOK ==
  /\ home \in [Pods -> Slots \cup {NoSlot}] /\ holder \in [Slots -> Pods \cup {NoPod}]
  /\ cri \in [Pods -> {"none", "ready", "stopped"}] /\ cache \subseteq Pods
  /\ age \in [Pods -> 0 .. LeaseLen + 1]
  /\ table \in (SUBSET Slots) \cup {NoTable, OtherTable}
  /\ listenerTable \in {"none", "ours", "twice", "other"}
  /\ workers \in (SUBSET RowType) \cup {NoWorkers}
  /\ firewall \in (SUBSET Slots) \cup {Unknown}
  /\ {listenerKnown, listening, dueDiscovery, dueFirewall, exists, edited, listenerEdited,
      discovered} \subseteq BOOLEAN
  /\ admitted \in [Slots -> Pods \cup {NoPod}] /\ lease \in 0 .. LeaseLen
  /\ discoveryIn \in 0 .. DiscoveryEvery /\ firewallIn \in 0 .. FirewallEvery
  /\ pc \in PcValues /\ listed \subseteq Pods /\ rows \subseteq RowType
  /\ wakeIn \in 0 .. Poll /\ faults \in 0 .. MaxFaults

\* do_GET answers 200 to this uid at this address.
Admits(s, u) == listening /\ admitted[s] = u /\ lease > 0

\* The readiness socket is open only behind the listener's rules, unless
\* someone else changed them after the guard last saw them intact.
ListenerProtected == listening => listenerTable \in {"ours", "twice"} \/ listenerEdited

\* A worker is told that it may start only while the bridge table fences its
\* slot, or someone else changed that table after the guard last saw it
\* intact, and only from behind the listener's rules: no order of discovery,
\* repair, failure and restart admits a worker that the guard has not fenced.
NoUnfencedStart ==
  /\ \A s \in Slots : (\E u \in Pods : Admits(s, u)) => s \in table \/ edited
  /\ ListenerProtected

\* After a failed pass nobody is admitted before the container runtime has
\* been asked again: cached workers never survive an error.
AdmitsFromDiscovery == lease > 0 => discovered

\* An admission never outlives the lease of its evidence: a uid that is still
\* answered 200 lost its veth no longer ago than the lease has been running,
\* however long the discovery and the nft commands of the pass took, and its
\* evidence is younger than the last failure.
IdentityFresh ==
  /\ \A s \in Slots, u \in Pods :
       Admits(s, u) => home[u] = s /\ age[u] <= LeaseLen - lease
  /\ AdmitsFromDiscovery

\* Whoever is told to start is behind the guard's rules and was identified
\* within its lease, after the last failure, at the address it still has.
AdmissionSound == NoUnfencedStart /\ IdentityFresh

\* A worker that stays ready and attached is admitted again and again, once
\* failures stop: every repair succeeds, and no pass blocks the next ones.
StableAdmitted ==
  \A p \in Pods :
    <>[](cri[p] = "ready" /\ Attached(p))
      => []<>(\E s \in Slots : home[p] = s /\ Admits(s, p))
=============================================================================
