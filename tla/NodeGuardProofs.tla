-------------------------- MODULE NodeGuardProofs ---------------------------
(***************************************************************************)
(* Proofs about NodeGuard, for any pods, slots and intervals and any       *)
(* number of failures, crashes and outside edits.                          *)
(*                                                                         *)
(* An admission rests on three things the guard remembers: the workers it  *)
(* admitted last, the table it wrote last and whether it has asked the     *)
(* container runtime since the last failure.  Each of them may be wrong    *)
(* for a while: a pass that fails leaves a table for other workers behind. *)
(* Inv says what then forces the next pass to look again before it admits  *)
(* anybody: the check that is due, or a worker that cannot be found again. *)
(***************************************************************************)
EXTENDS NodeGuard, TLAPS

Protecting == {"protect", "protect apply", "protect readback"}

\* The guard will ask the container runtime before it admits anybody.
Rediscovers ==
  \/ pc \in {"sleep", "idle", "down"} /\ discoveryIn = 0
  \/ pc \in Protecting /\ IF listening THEN dueDiscovery ELSE discoveryIn = 0
  \/ pc \in {"list", "identify", "stopping"}

\* It will read the bridge table before it admits anybody.
Rechecks ==
  \/ pc \in {"sleep", "idle", "down"} /\ firewallIn = 0
  \/ pc \in Protecting /\ IF listening THEN dueFirewall ELSE firewallIn = 0
  \/ pc \in {"list", "identify"} /\ dueFirewall
  \/ pc \in {"validate", "read", "apply", "readback", "stopping"}

\* A pod is attached once: it ages only after it lost its veth for ever, and
\* the runtime and the CNI cache know no pod from before.
NodeOK ==
  \A p \in Pods : /\ home[p] = NoSlot \/ Attached(p) => age[p] = 0
                  /\ home[p] = NoSlot <=> cri[p] = "none"
                  /\ p \in cache => home[p] # NoSlot

\* Rows of workers name the slots their pods still have.
HomesOK ==
  /\ \A row \in rows : home[row.uid] = row.slot
  /\ workers # NoWorkers => \A w \in workers : home[w.uid] = w.slot

\* The socket is closed while the service is down, and protected otherwise.
ListenerOK == ListenerProtected /\ (pc = "down" => ~listening)

\* The guard knows the bridge table, or someone else changed it, or the guard
\* will read it.
TableOK == table = firewall \/ edited \/ Rechecks

\* The evidence is younger than the last failure, or will be renewed.
DiscoveredOK ==
  /\ discovered \/ Rediscovers
  /\ AdmitsFromDiscovery

\* Known workers that a pass does not find are gone for ever.
MissingOK ==
  workers # NoWorkers =>
    /\ pc = "identify" => \A w \in workers : w.uid \in listed \/ cri[w.uid] = "stopped"
    /\ pc \in {"validate", "read", "apply", "readback", "check", "grant"} =>
         \A w \in workers : w \in rows \/ cri[w.uid] = "stopped"

\* The guard's table fences its workers; if not, some of them cannot be found
\* again, so that a pass cannot take them for unchanged.
CoveredOK ==
  \/ workers = NoWorkers
  \/ Rules(workers) \subseteq firewall
  \/ Rediscovers /\ pc # "identify" /\ \E w \in workers : cri[w.uid] = "stopped"
  \/ pc = "identify" /\ \E w \in workers : w.uid \notin listed
  \/ pc \in {"read", "apply", "readback", "check", "grant"} /\ \E w \in workers : w \notin rows

\* What a pass works with: known workers unless it discovers, rows that are
\* fenced before they are admitted, and were attached when last checked.
PassOK ==
  /\ pc \in Protecting \cup {"validate"} /\ listening /\ ~dueDiscovery => rows = workers
  /\ pc \in {"check", "grant"} => Rules(rows) \subseteq firewall
  /\ pc = "grant" => \A row \in rows : age[row.uid] = 0
  /\ pc \in {"apply", "readback"} => lease = 0

\* Whoever is admitted is a known worker, fenced, and its evidence is younger
\* than the lease.
AdmissionOK ==
  lease > 0 =>
    \A s \in Slots : admitted[s] # NoPod =>
      /\ [uid |-> admitted[s], slot |-> s] \in workers
      /\ age[admitted[s]] <= LeaseLen - lease
      /\ s \in table \/ edited

Inv ==
  /\ TypeOK /\ NodeOK /\ HomesOK /\ ListenerOK /\ TableOK /\ DiscoveredOK
  /\ MissingOK /\ CoveredOK /\ PassOK /\ AdmissionOK

-----------------------------------------------------------------------------
(* Types                                                                   *)

\* The countdowns stay in their ranges.
LEMMA BeforeBound ==
  ASSUME NEW b \in Nat, NEW n \in 0 .. b
  PROVE  Before(n) \in 0 .. b
  BY SMT DEF Before

LEMMA ZeroBounds ==
  /\ 0 \in 0 .. DiscoveryEvery /\ 0 \in 0 .. FirewallEvery /\ 0 \in 0 .. Poll
  /\ DiscoveryEvery \in 0 .. DiscoveryEvery /\ FirewallEvery \in 0 .. FirewallEvery
  /\ Poll \in 0 .. Poll
  BY IntervalAssumption, SMT

LEMMA LeaseNat == LeaseLen \in Nat /\ LeaseLen > 0
  BY IntervalAssumption, SMT DEF LeaseLen

\* The types that a step of the guard may change; the node's are apart.
NodeType ==
  /\ home \in [Pods -> Slots \cup {NoSlot}] /\ holder \in [Slots -> Pods \cup {NoPod}]
  /\ cri \in [Pods -> {"none", "ready", "stopped"}] /\ cache \subseteq Pods
  /\ age \in [Pods -> 0 .. LeaseLen + 1]
TableType ==
  /\ table \in (SUBSET Slots) \cup {NoTable, OtherTable}
  /\ listenerTable \in {"none", "ours", "twice", "other"}
  /\ edited \in BOOLEAN /\ listenerEdited \in BOOLEAN /\ listening \in BOOLEAN
MemoryType ==
  /\ workers \in (SUBSET RowType) \cup {NoWorkers}
  /\ firewall \in (SUBSET Slots) \cup {Unknown}
  /\ listenerKnown \in BOOLEAN /\ discovered \in BOOLEAN
  /\ discoveryIn \in 0 .. DiscoveryEvery /\ firewallIn \in 0 .. FirewallEvery
AdmissionType ==
  admitted \in [Slots -> Pods \cup {NoPod}] /\ lease \in 0 .. LeaseLen
PassType ==
  /\ dueDiscovery \in BOOLEAN /\ dueFirewall \in BOOLEAN /\ exists \in BOOLEAN
  /\ listed \subseteq Pods /\ rows \subseteq RowType
LoopType == pc \in PcValues /\ wakeIn \in 0 .. Poll /\ faults \in 0 .. MaxFaults

LEMMA TypeParts ==
  TypeOK <=> NodeType /\ TableType /\ MemoryType /\ AdmissionType /\ PassType /\ LoopType
  BY DEF TypeOK, NodeType, TableType, MemoryType, AdmissionType, PassType, LoopType

LEMMA FaultType == LoopType /\ Fault => faults' \in 0 .. MaxFaults
  BY IntervalAssumption, SMT DEF LoopType, Fault

LEMMA NobodyType == Nobody \in [Slots -> Pods \cup {NoPod}]
  BY DEF Nobody

LEMMA RevokeType == Revoke => AdmissionType'
  BY NobodyType, LeaseNat, SMT DEF Revoke, AdmissionType

LEMMA PassEndsType == PassEnds => PassType'
  BY DEF PassEnds, PassType

LEMMA FailType ==
  ASSUME MemoryType, LoopType, Fail
  PROVE  MemoryType' /\ AdmissionType' /\ PassType' /\ pc' \in PcValues /\ wakeIn' \in 0 .. Poll
  <1>1. AdmissionType' /\ PassType'
    BY RevokeType, PassEndsType DEF Fail
  <1>2. MemoryType'
    BY ZeroBounds DEF Fail, MemoryType
  <1>3. pc' \in PcValues /\ wakeIn' \in 0 .. Poll
    BY ZeroBounds DEF Fail, PcValues
  <1> QED BY <1>1, <1>2, <1>3

LEMMA FailListenerType ==
  ASSUME MemoryType, LoopType, FailListener
  PROVE  MemoryType' /\ AdmissionType' /\ PassType' /\ pc' \in PcValues /\ wakeIn' \in 0 .. Poll
  <1>1. AdmissionType' /\ PassType'
    BY RevokeType, PassEndsType DEF FailListener
  <1>2. MemoryType'
    BY ZeroBounds DEF FailListener, MemoryType
  <1>3. pc' \in PcValues /\ wakeIn' \in 0 .. Poll
    BY DEF FailListener, PcValues, LoopType
  <1> QED BY <1>1, <1>2, <1>3

LEMMA FreshGuardType ==
  ASSUME FreshGuard
  PROVE  MemoryType' /\ AdmissionType' /\ PassType' /\ wakeIn' \in 0 .. Poll
  <1>1. AdmissionType' /\ PassType'
    BY NobodyType, LeaseNat, PassEndsType, SMT DEF FreshGuard, AdmissionType
  <1>2. MemoryType' /\ wakeIn' \in 0 .. Poll
    <2>1. /\ workers' \in (SUBSET RowType) \cup {NoWorkers}
          /\ firewall' \in (SUBSET Slots) \cup {Unknown}
      <3>1. workers' = NoWorkers /\ firewall' = Unknown
        BY DEF FreshGuard
      <3> QED BY <3>1, Zenon
    <2>2. listenerKnown' \in BOOLEAN /\ discovered' \in BOOLEAN
      BY DEF FreshGuard
    <2>3. /\ discoveryIn' \in 0 .. DiscoveryEvery /\ firewallIn' \in 0 .. FirewallEvery
          /\ wakeIn' \in 0 .. Poll
      BY ZeroBounds DEF FreshGuard
    <2> QED BY <2>1, <2>2, <2>3 DEF MemoryType
  <1> QED BY <1>1, <1>2

LEMMA NodeTypeStep ==
  ASSUME NodeType, [Next]_vars
  PROVE  NodeType'
  <1>1. ASSUME NEW p \in Pods, NEW s \in Slots, Attach(p, s)
        PROVE  NodeType'
    BY <1>1, SMT DEF Attach, NodeType
  <1>2. ASSUME NEW p \in Pods, Unplug(p) \/ DropCache(p) \/ Stop(p)
        PROVE  NodeType'
    BY <1>2, SMT DEF Unplug, DropCache, Stop, NodeType, Attached
  <1>3. CASE Tick
    <2>1. \A p \in Pods : age[p] \in 0 .. LeaseLen + 1
      BY DEF NodeType
    <2>2. ASSUME NEW p \in Pods, ~(age[p] > LeaseLen)
          PROVE  age[p] + 1 \in 0 .. LeaseLen + 1
      BY <2>1, <2>2, LeaseNat, SMT
    <2>3. age' \in [Pods -> 0 .. LeaseLen + 1]
      BY <1>3, <2>1, <2>2 DEF Tick
    <2> QED BY <1>3, <2>3 DEF Tick, NodeType
  <1>4. CASE UNCHANGED node
    BY <1>4 DEF node, NodeType
  <1>5. CASE UNCHANGED vars
    BY <1>5, <1>4 DEF vars
  <1>6. CASE Edit \/ Crash \/ Restart
    BY <1>6, <1>4 DEF Edit, Crash, Restart
  <1>7. CASE GuardStep
    BY <1>7, <1>4 DEF GuardStep, ReadListener, ApplyListener, ReadbackListener,
      StopListener, Wake, BeginSync, List, Identify, Validate, ReadTable, Apply, Readback,
      Check, Grant
  <1> QED BY <1>1, <1>2, <1>3, <1>5, <1>6, <1>7 DEF Next

\* A step that changes the node or the tables alone, or time.
LEMMA EnvironmentTypes ==
  ASSUME TypeOK,
         \/ \E p \in Pods : Unplug(p) \/ DropCache(p) \/ Stop(p)
         \/ \E p \in Pods, s \in Slots : Attach(p, s)
         \/ Edit \/ Restart \/ Tick \/ UNCHANGED vars
  PROVE  TableType' /\ MemoryType' /\ AdmissionType' /\ PassType' /\ LoopType'
  <1> USE TypeParts
  <1>1. CASE /\ UNCHANGED <<memory, admission, pass, bridge, listener, wakeIn, faults>>
             /\ pc' \in {pc, "protect"}
    <2>1. TableType' /\ MemoryType'
      BY <1>1 DEF memory, bridge, listener, TableType, MemoryType
    <2>2. AdmissionType' /\ PassType'
      BY <1>1 DEF admission, pass, choice, AdmissionType, PassType
    <2>3. LoopType'
      BY <1>1 DEF LoopType, PcValues
    <2> QED BY <2>1, <2>2, <2>3
  <1>2. CASE \E p \in Pods : Unplug(p) \/ DropCache(p) \/ Stop(p)
    BY <1>1, <1>2 DEF Unplug, DropCache, Stop
  <1>3. CASE \E p \in Pods, s \in Slots : Attach(p, s)
    BY <1>1, <1>3 DEF Attach
  <1>4. CASE Restart \/ UNCHANGED vars
    BY <1>1, <1>4 DEF Restart, vars
  <1>5. CASE Edit
    <2>1. TableType'
      <3>1. table' \in (SUBSET Slots) \cup {NoTable, OtherTable}
        <4>1. table' \in {NoTable, OtherTable} \/ table' = table
          BY <1>5 DEF Edit, bridge
        <4>2. table \in (SUBSET Slots) \cup {NoTable, OtherTable}
          BY DEF TableType
        <4> QED BY <4>1, <4>2, Zenon
      <3>2. /\ listenerTable' \in {"none", "ours", "twice", "other"}
            /\ edited' \in BOOLEAN /\ listenerEdited' \in BOOLEAN /\ listening' \in BOOLEAN
        BY <1>5 DEF Edit, TableType, bridge, listener
      <3> QED BY <3>1, <3>2 DEF TableType
    <2>2. MemoryType' /\ AdmissionType' /\ PassType' /\ pc' \in PcValues /\ wakeIn' \in 0 .. Poll
      BY <1>5 DEF Edit, memory, admission, pass, choice, MemoryType, AdmissionType, PassType,
        LoopType
    <2>3. faults' \in 0 .. MaxFaults
      BY <1>5, FaultType DEF Edit
    <2> QED BY <2>1, <2>2, <2>3 DEF LoopType
  <1>6. CASE Tick
    <2>1. TableType' /\ PassType' /\ pc' \in PcValues /\ faults' \in 0 .. MaxFaults
      BY <1>6 DEF Tick, pass, choice, bridge, listener, TableType, PassType, LoopType
    <2>2. /\ discoveryIn' \in 0 .. DiscoveryEvery /\ firewallIn' \in 0 .. FirewallEvery
          /\ lease' \in 0 .. LeaseLen /\ wakeIn' \in 0 .. Poll
      BY <1>6, BeforeBound, IntervalAssumption, LeaseNat
         DEF Tick, MemoryType, AdmissionType, LoopType
    <2>3. MemoryType' /\ AdmissionType'
      BY <1>6, <2>2 DEF Tick, MemoryType, AdmissionType
    <2> QED BY <2>1, <2>2, <2>3 DEF LoopType
  <1> QED BY <1>2, <1>3, <1>4, <1>5, <1>6

LEMMA StopTypes ==
  ASSUME TypeOK, Crash \/ StopListener
  PROVE  TableType' /\ MemoryType' /\ AdmissionType' /\ PassType' /\ LoopType'
  <1> USE TypeParts
  <1>1. MemoryType' /\ AdmissionType' /\ PassType' /\ wakeIn' \in 0 .. Poll
    BY FreshGuardType DEF Crash, StopListener
  <1>2. TableType' /\ pc' \in PcValues
    BY DEF Crash, StopListener, TableType, bridge, PcValues
  <1>3. faults' \in 0 .. MaxFaults
    BY FaultType DEF Crash, StopListener, LoopType
  <1> QED BY <1>1, <1>2, <1>3 DEF LoopType

LEMMA ListenerTypes ==
  ASSUME TypeOK, ReadListener \/ ApplyListener \/ ReadbackListener
  PROVE  TableType' /\ MemoryType' /\ AdmissionType' /\ PassType' /\ LoopType'
  <1> USE TypeParts
  <1>1. TableType'
    BY DEF ReadListener, ApplyListener, ReadbackListener, ListenerReady, ListenerApplied,
      TableType, bridge, listener
  <1>2. faults' \in 0 .. MaxFaults
    BY FaultType DEF ReadListener, ApplyListener, ReadbackListener, LoopType
  <1>3. CASE FailListener
    BY <1>1, <1>2, <1>3, FailListenerType DEF LoopType
  <1>4. CASE ~FailListener
    <2>1. AdmissionType'
      BY <1>4, RevokeType DEF ReadListener, ApplyListener, ReadbackListener, admission, AdmissionType
    <2>2. PassType'
      BY <1>4 DEF ReadListener, ApplyListener, ReadbackListener, pass, choice, PassType
    <2>3. MemoryType'
      BY <1>4 DEF ReadListener, ApplyListener, ReadbackListener, memory, MemoryType
    <2>4. wakeIn' \in 0 .. Poll
      BY <1>4 DEF ReadListener, ApplyListener, ReadbackListener, LoopType
    <2>5. pc' \in PcValues
      BY <1>4 DEF ReadListener, ApplyListener, ReadbackListener, LoopType, ListenerReady,
        AfterListener, PcValues
    <2> QED BY <1>1, <1>2, <2>1, <2>2, <2>3, <2>4, <2>5 DEF LoopType
  <1> QED BY <1>3, <1>4

LEMMA DiscoveryTypes ==
  ASSUME TypeOK, NodeOK, Wake \/ BeginSync \/ List \/ Identify \/ Validate \/ Check
  PROVE  TableType' /\ MemoryType' /\ AdmissionType' /\ PassType' /\ LoopType'
  <1> USE TypeParts
  <1>1. TableType'
    BY DEF Wake, BeginSync, List, Identify, Validate, Check, TableType, bridge, listener
  <1>2. faults' \in 0 .. MaxFaults
    BY FaultType DEF Wake, BeginSync, List, Identify, Validate, Check, LoopType
  <1>3. CASE Fail
    BY <1>1, <1>2, <1>3, FailType DEF LoopType
  <1>4. CASE ~Fail
    <2>1. AdmissionType' /\ wakeIn' \in 0 .. Poll
      BY <1>4 DEF Wake, BeginSync, List, Identify, Validate, Check, admission, AdmissionType,
        LoopType
    <2>2. pc' \in PcValues
      BY <1>4 DEF Wake, BeginSync, List, Identify, Validate, Check, AfterWorkers, PcValues
    <2>3. MemoryType'
      BY <1>4, ZeroBounds DEF Wake, BeginSync, List, Identify, Validate, Check, memory, MemoryType
    <2>4. /\ dueDiscovery' \in BOOLEAN /\ dueFirewall' \in BOOLEAN /\ exists' \in BOOLEAN
          /\ listed' \subseteq Pods
      BY <1>4 DEF Wake, BeginSync, List, Identify, Validate, Check, pass, choice, PassType
    <2>5. ASSUME Identify PROVE rows' \subseteq RowType
      <3>1. \A p \in listed : Row(p) \in RowType
        <4>1. ASSUME NEW p \in listed PROVE home[p] \in Slots
          <5>1. Readable(p) /\ p \in Pods
            BY <1>4, <2>5 DEF Identify, PassType
          <5>2. home[p] \in Slots \cup {NoSlot}
            BY <5>1 DEF NodeType
          <5> QED BY <5>1, <5>2 DEF Readable, NodeOK
        <4> QED BY <4>1 DEF Row, RowType, PassType
      <3> QED BY <1>4, <2>5, <3>1 DEF Identify
    <2>6. ASSUME ~Identify PROVE rows' \subseteq RowType
      BY <1>4, <2>6 DEF Wake, BeginSync, List, Validate, Check, pass, choice, PassType, MemoryType
    <2>7. PassType'
      BY <2>4, <2>5, <2>6 DEF PassType
    <2> QED BY <1>1, <1>2, <2>1, <2>2, <2>3, <2>7 DEF LoopType
  <1> QED BY <1>3, <1>4

LEMMA RulesType ==
  ASSUME NEW ws \in SUBSET RowType
  PROVE  Rules(ws) \subseteq Slots
  BY DEF Rules, RowType

LEMMA FenceTypes ==
  ASSUME TypeOK, ReadTable \/ Apply \/ Readback \/ Grant
  PROVE  TableType' /\ MemoryType' /\ AdmissionType' /\ PassType' /\ LoopType'
  <1> USE TypeParts
  <1>1. Rules(rows) \in SUBSET Slots
    BY RulesType DEF PassType
  <1>2. TableType'
    BY <1>1 DEF ReadTable, Apply, Readback, Grant, Applied, TableType, bridge, listener
  <1>3. faults' \in 0 .. MaxFaults
    BY FaultType DEF ReadTable, Apply, Readback, Grant, LoopType
  <1>4. CASE Fail
    BY <1>2, <1>3, <1>4, FailType DEF LoopType
  <1>5. CASE ~Fail
    <2>1. AdmissionType'
      <3>1. CASE Grant
        <4>1. lease' \in 0 .. LeaseLen
          BY <3>1, LeaseNat, SMT DEF Grant, Lease
        <4> QED BY <3>1, <4>1 DEF Grant, AdmissionType
      <3>2. CASE ~Grant
        BY <1>5, <3>2, RevokeType DEF ReadTable, Apply, Readback, admission, AdmissionType
      <3> QED BY <3>1, <3>2
    <2>2. PassType'
      BY <1>5, PassEndsType DEF ReadTable, Apply, Readback, Grant, pass, choice, PassType
    <2>3. MemoryType'
      <3>1. CASE Grant
        BY <3>1 DEF Grant, MemoryType, PassType
      <3>2. CASE ~Grant
        BY <1>1, <1>5, <3>2, ZeroBounds DEF ReadTable, Apply, Readback, memory, MemoryType
      <3> QED BY <3>1, <3>2
    <2>4. pc' \in PcValues /\ wakeIn' \in 0 .. Poll
      BY <1>5, ZeroBounds DEF ReadTable, Apply, Readback, Grant, PcValues, LoopType
    <2> QED BY <1>2, <1>3, <2>1, <2>2, <2>3, <2>4 DEF LoopType
  <1> QED BY <1>4, <1>5

LEMMA TypeInit == Init => TypeOK
  <1> SUFFICES ASSUME Init PROVE TypeOK
    OBVIOUS
  <1>1. NodeType
    BY NobodyType, LeaseNat DEF Init, NodeType
  <1>2. TableType /\ PassType
    BY DEF Init, TableType, PassType
  <1>3. MemoryType /\ AdmissionType
    <2>1. lease \in 0 .. LeaseLen
      BY LeaseNat DEF Init
    <2>2. workers = NoWorkers /\ firewall = Unknown
      BY DEF Init
    <2>3. /\ listenerKnown \in BOOLEAN /\ discovered \in BOOLEAN
          /\ discoveryIn \in 0 .. DiscoveryEvery /\ firewallIn \in 0 .. FirewallEvery
      BY ZeroBounds DEF Init
    <2> QED BY NobodyType, <2>1, <2>2, <2>3 DEF Init, MemoryType, AdmissionType
  <1>4. LoopType
    BY ZeroBounds, IntervalAssumption DEF Init, LoopType, PcValues
  <1> QED BY <1>1, <1>2, <1>3, <1>4, TypeParts

LEMMA TypeNext == TypeOK /\ NodeOK /\ [Next]_vars => TypeOK'
  <1> SUFFICES ASSUME TypeOK, NodeOK, [Next]_vars PROVE TypeOK'
    OBVIOUS
  <1>1. NodeType'
    BY NodeTypeStep, TypeParts
  <1>2. TableType' /\ MemoryType' /\ AdmissionType' /\ PassType' /\ LoopType'
    BY EnvironmentTypes, StopTypes, ListenerTypes, DiscoveryTypes, FenceTypes
       DEF Next, GuardStep
  <1> QED BY <1>1, <1>2 DEF TypeOK, NodeType, TableType, MemoryType, AdmissionType, PassType,
    LoopType

-----------------------------------------------------------------------------
(* The node and the listener                                               *)

LEMMA NodeNext == TypeOK /\ NodeOK /\ [Next]_vars => NodeOK'
  <1> SUFFICES ASSUME TypeOK, NodeOK, [Next]_vars PROVE NodeOK'
    OBVIOUS
  <1>t. NodeType
    BY TypeParts
  <1>1. ASSUME NEW p \in Pods, NEW s \in Slots, Attach(p, s)
        PROVE  NodeOK'
    <2>1. /\ home'[p] = s /\ holder'[s] = p /\ cri'[p] = "ready" /\ s # NoSlot
          /\ age' = age /\ cache' = cache \cup {p}
      BY <1>1, <1>t, NamesAssumption DEF Attach, NodeType
    <2>2. age[p] = 0
      BY <1>1 DEF Attach, NodeOK
    <2>3. ASSUME NEW q \in Pods, q # p
          PROVE  home'[q] = home[q] /\ cri'[q] = cri[q] /\ (q \in cache' => q \in cache)
      BY <1>1, <1>t, <2>3 DEF Attach, NodeType
    <2>4. ASSUME NEW q \in Pods, q # p, home[q] # NoSlot
          PROVE  Attached(q)' => Attached(q)
      <3>1. home[q] \in Slots
        BY <1>t, <2>4 DEF NodeType
      <3>2. holder'[home[q]] = holder[home[q]] \/ holder'[home[q]] = p
        BY <1>1, <1>t, <3>1 DEF Attach, NodeType
      <3> QED BY <2>3, <2>4, <3>2 DEF Attached
    <2> QED BY <2>1, <2>2, <2>3, <2>4 DEF NodeOK, Attached
  <1>2. ASSUME NEW p \in Pods, Unplug(p)
        PROVE  NodeOK'
    <2>1. \A q \in Pods : home[q] # NoSlot => (Attached(q)' => Attached(q))
      BY <1>2, <1>t, NamesAssumption DEF Unplug, Attached, NodeType
    <2> QED BY <1>2, <2>1 DEF Unplug, NodeOK
  <1>3. ASSUME NEW p \in Pods, DropCache(p) \/ Stop(p)
        PROVE  NodeOK'
    BY <1>3, <1>t DEF DropCache, Stop, NodeOK, NodeType, Attached
  <1>4. CASE Tick
    BY <1>4 DEF Tick, NodeOK, Attached
  <1>5. CASE UNCHANGED node
    BY <1>5 DEF node, NodeOK, Attached
  <1>6. CASE Edit \/ Crash \/ Restart \/ UNCHANGED vars
    BY <1>6, <1>5 DEF Edit, Crash, Restart, vars
  <1>7. CASE GuardStep
    BY <1>7, <1>5 DEF GuardStep, ReadListener, ApplyListener, ReadbackListener,
      StopListener, Wake, BeginSync, List, Identify, Validate, ReadTable, Apply, Readback,
      Check, Grant
  <1> QED BY <1>1, <1>2, <1>3, <1>4, <1>6, <1>7 DEF Next

\* The socket is bound only after the rules of the guard were read back.
LEMMA ListenerNext == TypeOK /\ ListenerOK /\ [Next]_vars => ListenerOK'
  <1> SUFFICES ASSUME TypeOK, ListenerOK, [Next]_vars PROVE ListenerOK'
    OBVIOUS
  <1>t. TableType /\ PassType
    BY TypeParts
  <1> USE DEF ListenerOK, ListenerProtected
  <1>1. ASSUME UNCHANGED listener, pc' # "down" \/ pc' = pc
        PROVE  ListenerOK'
    BY <1>1 DEF listener
  <1>2. CASE \/ \E p \in Pods : Unplug(p) \/ DropCache(p) \/ Stop(p)
             \/ \E p \in Pods, s \in Slots : Attach(p, s)
             \/ Restart \/ Tick \/ UNCHANGED vars
    BY <1>1, <1>2 DEF Unplug, DropCache, Stop, Attach, Restart, Tick, vars
  <1>3. CASE Edit
    BY <1>3, <1>t DEF Edit, listener, TableType
  <1>4. CASE Crash \/ StopListener
    BY <1>4 DEF Crash, StopListener
  <1>5. CASE ReadListener
    <2>1. pc' # "down"
      BY <1>5 DEF ReadListener, ListenerReady, AfterListener, FailListener
    <2>2. CASE UNCHANGED listener
      BY <1>1, <2>1, <2>2
    <2>3. CASE listenerTable' = "ours"
      BY <2>1, <2>3
    <2> QED BY <1>5, <2>2, <2>3 DEF ReadListener
  <1>6. CASE ApplyListener
    BY <1>6, <1>t DEF ApplyListener, ListenerApplied, FailListener, TableType, PassType
  <1>7. CASE ReadbackListener
    <2>1. pc' # "down"
      BY <1>7 DEF ReadbackListener, ListenerReady, AfterListener, FailListener
    <2>2. CASE UNCHANGED listener
      BY <1>1, <2>1, <2>2
    <2>3. CASE listenerTable' = "ours"
      BY <2>1, <2>3
    <2> QED BY <1>7, <2>2, <2>3 DEF ReadbackListener
  <1>8. CASE \/ Wake \/ BeginSync \/ List \/ Identify \/ Validate
             \/ ReadTable \/ Apply \/ Readback \/ Check \/ Grant
    BY <1>8, <1>1 DEF Wake, BeginSync, List, Identify, Validate, ReadTable, Apply, Readback,
      Check, Grant, Fail, AfterWorkers
  <1> QED BY <1>2, <1>3, <1>4, <1>5, <1>6, <1>7, <1>8 DEF Next, GuardStep

-----------------------------------------------------------------------------
(* What the guard knows: failures and the node                             *)

Rest == HomesOK /\ TableOK /\ DiscoveredOK /\ MissingOK /\ CoveredOK /\ PassOK /\ AdmissionOK

LEMMA NoWorkersApart ==
  ASSUME NEW ws \in SUBSET RowType
  PROVE  ws # NoWorkers
  <1>1. ASSUME ws = NoWorkers PROVE FALSE
    <2>1. [uid |-> NoPod, slot |-> NoSlot] \in RowType
      BY <1>1 DEF NoWorkers
    <2> QED BY <2>1, NamesAssumption DEF RowType
  <1> QED BY <1>1

\* If the guard's table does not fence its workers, one of them has stopped.
LEMMA UncoveredStopped ==
  ASSUME TypeOK, MissingOK, CoveredOK
  PROVE  \/ workers = NoWorkers \/ Rules(workers) \subseteq firewall
         \/ \E w \in workers : cri[w.uid] = "stopped"
  BY DEF MissingOK, CoveredOK

\* A failed pass revokes everything and leaves both checks due.
LEMMA FailRest ==
  ASSUME Inv, lease' = 0, pc' \in {"sleep", "stopping"}, PassEnds,
         discoveryIn' = 0, firewallIn' = 0, UNCHANGED <<workers, firewall, node>>
  PROVE  Rest'
  <1>1. Rediscovers' /\ Rechecks'
    BY DEF Rediscovers, Rechecks
  <1>2. TableOK' /\ DiscoveredOK'
    BY <1>1 DEF TableOK, DiscoveredOK, AdmitsFromDiscovery
  <1>3. HomesOK'
    BY DEF Inv, HomesOK, PassEnds, node
  <1>4. MissingOK' /\ PassOK' /\ AdmissionOK'
    <2>1. MissingOK' /\ PassOK'
      BY DEF MissingOK, PassOK, Protecting
    <2>2. ~(lease' > 0)
      BY SMT
    <2> QED BY <2>1, <2>2 DEF AdmissionOK
  <1>5. CoveredOK'
    BY <1>1, UncoveredStopped DEF Inv, CoveredOK, node, Rules
  <1> QED BY <1>2, <1>3, <1>4, <1>5 DEF Rest

\* A guard that starts knows nothing and admits nobody.
LEMMA FreshRest ==
  ASSUME FreshGuard, pc' = "down"
  PROVE  Rest'
  <1>1. Rediscovers' /\ Rechecks'
    BY DEF FreshGuard, Rediscovers, Rechecks
  <1>2. TableOK' /\ DiscoveredOK'
    BY <1>1 DEF TableOK, DiscoveredOK, AdmitsFromDiscovery, FreshGuard
  <1>3. HomesOK' /\ CoveredOK'
    BY DEF HomesOK, CoveredOK, FreshGuard, PassEnds
  <1>4. MissingOK' /\ PassOK' /\ AdmissionOK'
    BY DEF MissingOK, PassOK, AdmissionOK, FreshGuard, Protecting
  <1> QED BY <1>2, <1>3, <1>4 DEF Rest

\* Pods come and go: a pod keeps its slot, and a stopped one never returns.
LEMMA NodeRest ==
  ASSUME Inv, TypeOK',
         UNCHANGED <<age, memory, admission, pass, bridge, listener, pc>>,
         \A p \in Pods : home[p] # NoSlot => home'[p] = home[p],
         \A p \in Pods : cri[p] = "stopped" => cri'[p] = "stopped"
  PROVE  Rest'
  <1>t. MemoryType /\ PassType
    BY TypeParts DEF Inv
  <1>1. Rediscovers' = Rediscovers /\ Rechecks' = Rechecks
    BY DEF Rediscovers, Rechecks, memory, pass, choice, listener
  <1>2. TableOK' /\ DiscoveredOK'
    BY <1>1 DEF Inv, TableOK, DiscoveredOK, AdmitsFromDiscovery, memory, bridge, admission
  <1>3. \A row \in RowType : row.uid \in Pods /\ row.slot # NoSlot
    BY NamesAssumption DEF RowType
  <1>4. HomesOK'
    BY <1>t, <1>3 DEF Inv, HomesOK, memory, pass, choice, MemoryType, PassType
  <1>5. \A w \in workers : workers # NoWorkers => w.uid \in Pods
    BY <1>t, <1>3 DEF MemoryType
  <1>6. MissingOK'
    BY <1>5 DEF Inv, MissingOK, memory, pass, choice
  <1>7. CoveredOK'
    BY <1>1, <1>5 DEF Inv, CoveredOK, memory, pass, choice, Rules
  <1>8. PassOK' /\ AdmissionOK'
    BY DEF Inv, PassOK, AdmissionOK, memory, pass, choice, admission, bridge, listener, Rules
  <1> QED BY <1>2, <1>4, <1>6, <1>7, <1>8 DEF Rest

LEMMA NodeSteps ==
  ASSUME Inv, TypeOK',
         \/ \E p \in Pods : Unplug(p) \/ DropCache(p) \/ Stop(p)
         \/ \E p \in Pods, s \in Slots : Attach(p, s)
  PROVE  Rest'
  <1>t. NodeType
    BY TypeParts DEF Inv
  <1>1. UNCHANGED <<age, memory, admission, pass, bridge, listener, pc>>
    BY DEF Unplug, DropCache, Stop, Attach
  <1>2. \A p \in Pods : home[p] # NoSlot => home'[p] = home[p]
    BY <1>t DEF Unplug, DropCache, Stop, Attach, NodeType
  <1>3. \A p \in Pods : cri[p] = "stopped" => cri'[p] = "stopped"
    BY <1>t DEF Unplug, DropCache, Stop, Attach, Inv, NodeOK, NodeType
  <1> QED BY <1>1, <1>2, <1>3, NodeRest

LEMMA EditStep ==
  ASSUME Inv, Edit
  PROVE  Rest'
  <1>1. Rediscovers' = Rediscovers /\ Rechecks' = Rechecks
    BY DEF Edit, Rediscovers, Rechecks, memory, pass, choice, listener
  <1>2. TableOK' /\ DiscoveredOK'
    BY <1>1 DEF Inv, Edit, TableOK, DiscoveredOK, AdmitsFromDiscovery, memory, bridge, admission
  <1>3. HomesOK' /\ MissingOK'
    BY DEF Inv, Edit, HomesOK, MissingOK, node, memory, pass, choice
  <1>4. CoveredOK'
    BY <1>1 DEF Inv, Edit, CoveredOK, node, memory, pass, choice, Rules
  <1>5. PassOK'
    BY DEF Inv, Edit, PassOK, node, memory, pass, choice, admission, listener, Rules
  <1>6. AdmissionOK'
    BY DEF Inv, Edit, AdmissionOK, node, memory, admission, bridge
  <1> QED BY <1>2, <1>3, <1>4, <1>5, <1>6 DEF Rest

\* A lease runs out at least as fast as its evidence ages.
LEMMA TickStep ==
  ASSUME Inv, TypeOK', Tick
  PROVE  Rest'
  <1>t. NodeType /\ AdmissionType /\ MemoryType
    BY TypeParts DEF Inv
  <1>1. (Rediscovers => Rediscovers') /\ (Rechecks => Rechecks')
    BY DEF Tick, Rediscovers, Rechecks, Before, pass, choice, listener
  <1>2. lease' > 0 => lease > 0 /\ lease' = lease - 1
    BY <1>t, LeaseNat, SMT DEF Tick, Before, AdmissionType
  <1>3. TableOK' /\ DiscoveredOK'
    BY <1>1, <1>2 DEF Inv, Tick, TableOK, DiscoveredOK, AdmitsFromDiscovery, bridge
  <1>4. HomesOK' /\ MissingOK'
    BY DEF Inv, Tick, HomesOK, MissingOK, pass, choice
  <1>5. CoveredOK'
    BY <1>1 DEF Inv, Tick, CoveredOK, pass, choice, Rules
  <1>6. PassOK'
    <2>1. lease = 0 => lease' = 0
      BY DEF Tick, Before
    <2> QED BY <2>1 DEF Inv, Tick, PassOK, pass, choice, listener, Rules
  <1>7. AdmissionOK'
    <2>1. ASSUME NEW p \in Pods, lease' > 0, age[p] <= LeaseLen - lease
          PROVE  age'[p] <= LeaseLen - lease'
      <3>1. age[p] \in Int /\ lease \in Int
        BY <1>t, LeaseNat, SMT DEF NodeType, AdmissionType
      <3>2. age'[p] = age[p] \/ age'[p] = age[p] + 1
        BY DEF Tick
      <3> QED BY <1>2, <2>1, <3>1, <3>2, LeaseNat, SMT
    <2>2. \A s \in Slots : admitted[s] # NoPod => admitted[s] \in Pods
      BY <1>t DEF AdmissionType
    <2> QED BY <1>2, <2>1, <2>2 DEF Inv, Tick, AdmissionOK, bridge
  <1> QED BY <1>3, <1>4, <1>5, <1>6, <1>7 DEF Rest

\* The process starts, or wakes: what is due stays due.
LEMMA StartSteps ==
  ASSUME Inv, Restart \/ Wake
  PROVE  Rest'
  <1>a. \/ pc = "sleep" /\ pc' = "idle"
        \/ pc = "down" /\ pc' = "protect" /\ ~listening /\ ~listening'
    <2>1. pc = "down" => ~listening
      BY DEF Inv, ListenerOK
    <2> QED BY <2>1 DEF Restart, Wake, listener
  <1>b. UNCHANGED <<node, memory, admission, pass, bridge, listener>>
    BY DEF Restart, Wake
  <1> USE <1>b DEF Inv, node, memory, pass, choice, admission, bridge, listener
  <1>1. (Rediscovers => Rediscovers') /\ (Rechecks => Rechecks')
    <2>1. CASE pc = "sleep"
      BY <1>a, <2>1 DEF Rediscovers, Rechecks, Protecting
    <2>2. CASE pc = "down"
      BY <1>a, <2>2 DEF Rediscovers, Rechecks, Protecting
    <2> QED BY <1>a, <2>1, <2>2
  <1>2. TableOK' /\ DiscoveredOK'
    BY <1>1 DEF TableOK, DiscoveredOK, AdmitsFromDiscovery
  <1>3. HomesOK' /\ MissingOK' /\ AdmissionOK'
    BY <1>a DEF HomesOK, MissingOK, AdmissionOK
  <1>4. CoveredOK'
    BY <1>1, <1>a DEF CoveredOK, Rules
  <1>5. PassOK'
    BY <1>a DEF PassOK, Protecting
  <1> QED BY <1>2, <1>3, <1>4, <1>5 DEF Rest

-----------------------------------------------------------------------------
(* What the guard knows: the listener                                      *)

\* While the listener is repaired nothing else changes, but for a revocation.
LEMMA RepairRest ==
  ASSUME Inv, pc \in Protecting, pc' \in Protecting,
         UNCHANGED <<node, memory, choice, bridge, listening>>,
         UNCHANGED admission \/ Revoke
  PROVE  Rest'
  <1> USE DEF Inv, node, memory, choice, admission, bridge, Revoke
  <1>1. (Rediscovers => Rediscovers') /\ (Rechecks => Rechecks')
    BY DEF Rediscovers, Rechecks, Protecting
  <1>2. lease' > 0 => UNCHANGED admission
    BY SMT
  <1>3. TableOK' /\ DiscoveredOK'
    BY <1>1, <1>2 DEF TableOK, DiscoveredOK, AdmitsFromDiscovery
  <1>4. HomesOK' /\ MissingOK'
    BY DEF HomesOK, MissingOK, Protecting
  <1>5. CoveredOK'
    BY <1>1 DEF CoveredOK, Rules, Protecting
  <1>6. PassOK'
    BY DEF PassOK, Protecting
  <1>7. AdmissionOK'
    BY <1>2 DEF AdmissionOK
  <1> QED BY <1>3, <1>4, <1>5, <1>6, <1>7 DEF Rest

\* With the listener in order the pass goes on to what is due, and straight
\* to the identity check only with workers that are known and fenced.
LEMMA ReadyRest ==
  ASSUME Inv, pc \in Protecting, ListenerReady,
         UNCHANGED <<node, admission, choice, bridge, workers, firewall, discoveryIn,
                     firewallIn, discovered>>
  PROVE  Rest'
  <1> USE DEF Inv, node, choice, admission, bridge, ListenerReady, AfterListener
  <1>t. rows \in SUBSET RowType
    BY TypeParts DEF PassType
  <1>1. (Rediscovers => Rediscovers') /\ (Rechecks => Rechecks')
    BY DEF Rediscovers, Rechecks, Protecting
  <1>2. TableOK' /\ DiscoveredOK'
    BY <1>1 DEF TableOK, DiscoveredOK, AdmitsFromDiscovery
  <1>3. HomesOK' /\ AdmissionOK'
    BY DEF HomesOK, AdmissionOK
  <1>4. pc' \in {"validate", "check"} => rows = workers /\ listening /\ ~dueDiscovery
    BY DEF PassOK
  <1>5. pc' \in {"idle", "list", "validate", "check"}
    OBVIOUS
  <1>6. MissingOK'
    BY <1>4, <1>5 DEF MissingOK
  <1>7. pc' \in {"validate", "check"} => Rules(workers) \subseteq firewall
    <2>1. rows # NoWorkers
      BY <1>t, NoWorkersApart
    <2>2. listening /\ ~dueDiscovery => ~Rediscovers
      BY DEF Rediscovers, Protecting
    <2> QED BY <1>4, <2>1, <2>2 DEF CoveredOK, Protecting
  <1>8. CoveredOK'
    BY <1>1, <1>5, <1>7 DEF CoveredOK, Rules, Protecting
  <1>9. PassOK'
    BY <1>4, <1>5, <1>7 DEF PassOK, Protecting, Rules
  <1> QED BY <1>2, <1>3, <1>6, <1>8, <1>9 DEF Rest

LEMMA ListenerSteps ==
  ASSUME Inv, ReadListener \/ ApplyListener \/ ReadbackListener
  PROVE  Rest'
  <1>1. pc \in Protecting /\ UNCHANGED <<node, bridge>>
    BY DEF ReadListener, ApplyListener, ReadbackListener, Protecting
  <1>2. CASE FailListener
    <2>1. /\ lease' = 0 /\ pc' \in {"sleep", "stopping"} /\ PassEnds
          /\ discoveryIn' = 0 /\ firewallIn' = 0 /\ UNCHANGED <<workers, firewall, node>>
      BY <1>1, <1>2 DEF FailListener, Revoke
    <2> QED BY <2>1, FailRest
  <1>3. CASE ListenerReady /\ UNCHANGED <<admission, choice, workers, firewall, discoveryIn,
                                         firewallIn, discovered>>
    BY <1>1, <1>3, ReadyRest DEF node
  <1>4. CASE /\ pc' \in Protecting /\ UNCHANGED <<memory, choice, listening>>
             /\ UNCHANGED admission \/ Revoke
    BY <1>1, <1>4, RepairRest
  <1> QED BY <1>2, <1>3, <1>4 DEF ReadListener, ApplyListener, ReadbackListener, pass, memory,
    listener, Protecting

-----------------------------------------------------------------------------
(* What the guard knows: the pass                                          *)

LEMMA FailStep ==
  ASSUME Inv, Fail, UNCHANGED node
  PROVE  Rest'
  <1>1. /\ lease' = 0 /\ pc' \in {"sleep", "stopping"} /\ PassEnds
        /\ discoveryIn' = 0 /\ firewallIn' = 0 /\ UNCHANGED <<workers, firewall>>
    BY DEF Fail, Revoke
  <1> QED BY <1>1, FailRest DEF node

\* A pass that starts discovers, or works with the workers it knows.
LEMMA BeginSyncStep ==
  ASSUME Inv, BeginSync
  PROVE  Rest'
  <1>a. /\ pc = "idle" /\ dueDiscovery' = (workers = NoWorkers \/ discoveryIn = 0)
        /\ dueFirewall' = (firewallIn = 0)
        /\ rows' = IF workers = NoWorkers THEN {} ELSE workers
        /\ pc' = IF ~listenerKnown \/ firewallIn = 0 THEN "protect"
                 ELSE IF dueDiscovery' THEN "list" ELSE "check"
    BY DEF BeginSync
  <1>b. UNCHANGED <<node, memory, admission, bridge, listener>>
    BY DEF BeginSync
  <1>p. pc' \in {"protect", "list", "check"}
    BY <1>a
  <1> USE DEF Inv, node, memory, admission, bridge, listener
  <1>1. (Rediscovers => Rediscovers') /\ (Rechecks => Rechecks')
    <2>1. Rediscovers => Rediscovers'
      <3>1. Rediscovers => discoveryIn = 0 /\ dueDiscovery'
        BY <1>a DEF Rediscovers, Protecting
      <3>2. dueDiscovery' => pc' \in {"protect", "list"}
        BY <1>a
      <3> QED BY <1>b, <3>1, <3>2 DEF Rediscovers, Protecting
    <2>2. Rechecks => Rechecks'
      <3>1. Rechecks => firewallIn = 0 /\ dueFirewall' /\ pc' = "protect"
        BY <1>a DEF Rechecks, Protecting
      <3> QED BY <1>b, <3>1 DEF Rechecks, Protecting
    <2> QED BY <2>1, <2>2
  <1>2. TableOK' /\ DiscoveredOK'
    BY <1>b, <1>1 DEF TableOK, DiscoveredOK, AdmitsFromDiscovery
  <1>3. HomesOK' /\ AdmissionOK'
    BY <1>a, <1>b DEF HomesOK, AdmissionOK
  <1>4. pc' = "check" => workers # NoWorkers /\ rows' = workers /\ ~Rediscovers
    BY <1>a DEF Rediscovers, Protecting
  <1>5. MissingOK'
    BY <1>b, <1>p, <1>4 DEF MissingOK
  <1>6. pc' = "check" => Rules(workers) \subseteq firewall
    BY <1>a, <1>4 DEF CoveredOK
  <1>7. CoveredOK'
    BY <1>a, <1>b, <1>p, <1>1, <1>6 DEF CoveredOK, Rules
  <1>8. PassOK'
    <2>1. ~dueDiscovery' => rows' = workers
      BY <1>a
    <2> QED BY <1>b, <1>p, <1>4, <1>6, <2>1 DEF PassOK, Protecting, Rules
  <1> QED BY <1>2, <1>3, <1>5, <1>7, <1>8 DEF Rest

\* A known worker that the runtime does not list is stopped for ever.
LEMMA ListStep ==
  ASSUME Inv, List
  PROVE  Rest'
  <1>1. CASE Fail
    BY <1>1, FailStep DEF List
  <1>2. CASE ~Fail
    <2>a. pc = "list" /\ pc' = "identify" /\ listed' = {p \in Pods : cri[p] = "ready"}
      BY <1>2 DEF List
    <2>b. UNCHANGED <<node, memory, admission, bridge, listener, rows, dueFirewall>>
      BY <1>2 DEF List
    <2> USE DEF Inv, node, memory, admission, bridge, listener
    <2>1. (Rediscovers => Rediscovers') /\ (Rechecks => Rechecks')
      BY <2>a, <2>b DEF Rediscovers, Rechecks, Protecting
    <2>2. TableOK' /\ DiscoveredOK' /\ HomesOK' /\ AdmissionOK'
      BY <2>b, <2>1 DEF TableOK, DiscoveredOK, AdmitsFromDiscovery, HomesOK, AdmissionOK
    <2>3. workers # NoWorkers => \A w \in workers : w.uid \in Pods /\ cri[w.uid] \in {"ready", "stopped"}
      <3>1. ASSUME workers # NoWorkers, NEW w \in workers
            PROVE  w.uid \in Pods /\ w.slot # NoSlot
        BY <3>1, TypeParts, NamesAssumption DEF MemoryType, RowType
      <3>2. NodeType
        BY TypeParts
      <3> QED BY <3>1, <3>2 DEF HomesOK, NodeOK, NodeType
    <2>4. MissingOK'
      BY <2>a, <2>b, <2>3 DEF MissingOK
    <2>5. CoveredOK'
      BY <2>a, <2>b, <2>1 DEF CoveredOK, Rules
    <2>6. PassOK'
      BY <2>a DEF PassOK, Protecting
    <2> QED BY <2>2, <2>4, <2>5, <2>6 DEF Rest
  <1> QED BY <1>1, <1>2

\* A discovery that finds the known workers again finds all of them.
LEMMA IdentifyStep ==
  ASSUME Inv, TypeOK', Identify
  PROVE  Rest'
  <1>1. CASE Fail
    BY <1>1, FailStep DEF Identify
  <1>2. CASE ~Fail
    <2>a. /\ pc = "identify" /\ rows' = {Row(p) : p \in listed} /\ discovered' = TRUE
          /\ pc' = IF rows' # workers \/ dueFirewall THEN "read" ELSE "check"
      BY <1>2 DEF Identify, AfterWorkers
    <2>b. UNCHANGED <<node, workers, firewall, firewallIn, admission, bridge, listener,
                      dueDiscovery, dueFirewall>>
      BY <1>2 DEF Identify
    <2>p. pc' \in {"read", "check"}
      BY <2>a
    <2> USE DEF Inv, node, admission, bridge, listener
    <2>1. pc' = "check" => rows' = workers /\ ~Rechecks
      BY <2>a DEF Rechecks, Protecting
    <2>2. TableOK'
      BY <2>b, <2>p, <2>1 DEF TableOK, Rechecks
    <2>3. DiscoveredOK'
      BY <2>a, <2>b DEF DiscoveredOK, AdmitsFromDiscovery
    <2>4. HomesOK' /\ AdmissionOK'
      BY <2>a, <2>b DEF HomesOK, AdmissionOK, Row
    <2>5. ASSUME workers # NoWorkers, NEW w \in workers
          PROVE  w \in rows' <=> w.uid \in listed
      <3>1. w \in RowType
        BY <2>5, TypeParts DEF MemoryType
      <3>2. Row(w.uid) = w
        BY <2>5, <3>1 DEF Row, HomesOK, RowType
      <3>3. \A p \in listed : Row(p).uid = p
        BY DEF Row
      <3> QED BY <2>a, <3>2, <3>3
    <2>6. MissingOK'
      BY <2>a, <2>b, <2>p, <2>5 DEF MissingOK
    <2>7. \/ workers = NoWorkers \/ Rules(workers) \subseteq firewall
          \/ \E w \in workers : w \notin rows'
      BY <2>a, <2>5 DEF CoveredOK
    <2>8. CoveredOK'
      BY <2>b, <2>p, <2>7 DEF CoveredOK, Rules
    <2>9. PassOK'
      <3>1. rows' # NoWorkers
        <4>1. rows' \in SUBSET RowType
          BY DEF TypeOK
        <4> QED BY <4>1, NoWorkersApart
      <3>2. pc' = "check" => Rules(rows') \subseteq firewall'
        BY <2>b, <2>1, <2>7, <3>1
      <3> QED BY <2>p, <3>2 DEF PassOK, Protecting, Rules
    <2> QED BY <2>2, <2>3, <2>4, <2>6, <2>8, <2>9 DEF Rest
  <1> QED BY <1>1, <1>2

LEMMA ValidateStep ==
  ASSUME Inv, Validate
  PROVE  Rest'
  <1>1. CASE Fail
    BY <1>1, FailStep DEF Validate
  <1>2. CASE ~Fail
    <2>a. pc = "validate" /\ pc' = "read" /\ UNCHANGED <<node, memory, admission, pass, bridge>>
      BY <1>2 DEF Validate
    <2> USE <2>a DEF Inv, node, memory, admission, pass, choice, bridge
    <2>1. ~Rediscovers
      BY DEF Rediscovers, Protecting
    <2>2. TableOK' /\ DiscoveredOK'
      BY <2>1 DEF TableOK, DiscoveredOK, AdmitsFromDiscovery, Rechecks
    <2>3. HomesOK' /\ AdmissionOK' /\ MissingOK'
      BY DEF HomesOK, AdmissionOK, MissingOK
    <2>4. CoveredOK' /\ PassOK'
      BY <2>1 DEF CoveredOK, PassOK, Protecting, Rules
    <2> QED BY <2>2, <2>3, <2>4 DEF Rest
  <1> QED BY <1>1, <1>2

\* An intact table is kept only for workers it fences; otherwise nobody is
\* admitted when the table is replaced.
LEMMA ReadTableStep ==
  ASSUME Inv, ReadTable
  PROVE  Rest'
  <1>t. rows # NoWorkers
    BY TypeParts, NoWorkersApart DEF Inv, PassType
  <1>1. CASE Fail
    BY <1>1, FailStep DEF ReadTable
  <1>2. CASE rows = workers /\ table = firewall /\ edited' = FALSE /\ pc' = "check"
             /\ UNCHANGED <<admission, pass, discoveryIn, discovered>>
    <2>a. pc = "read" /\ UNCHANGED <<node, workers, firewall, table>>
      BY DEF ReadTable
    <2> USE <1>2, <2>a DEF Inv, node, admission, pass, choice
    <2>1. ~Rediscovers
      BY DEF Rediscovers, Protecting
    <2>2. Rules(workers) \subseteq firewall
      BY <1>t, <2>1 DEF CoveredOK
    <2>3. TableOK' /\ DiscoveredOK'
      BY <2>1 DEF TableOK, DiscoveredOK, AdmitsFromDiscovery
    <2>4. HomesOK' /\ MissingOK'
      BY DEF HomesOK, MissingOK
    <2>5. CoveredOK' /\ PassOK'
      BY <2>2 DEF CoveredOK, PassOK, Protecting, Rules
    <2>6. AdmissionOK'
      BY <2>2 DEF AdmissionOK, Rules
    <2> QED BY <2>3, <2>4, <2>5, <2>6 DEF Rest
  <1>3. CASE Revoke /\ pc' = "apply" /\ UNCHANGED <<edited, discoveryIn, discovered, choice>>
    <2>a. pc = "read" /\ lease' = 0 /\ UNCHANGED <<node, workers, firewall, table>>
      BY <1>3 DEF ReadTable, Revoke
    <2> USE <1>3, <2>a DEF Inv, node, choice
    <2>1. ~Rediscovers /\ ~(lease' > 0)
      BY DEF Rediscovers, Protecting
    <2>2. TableOK' /\ DiscoveredOK' /\ AdmissionOK'
      BY <2>1 DEF TableOK, DiscoveredOK, AdmitsFromDiscovery, AdmissionOK, Rechecks
    <2>3. HomesOK' /\ MissingOK'
      BY DEF HomesOK, MissingOK
    <2>4. CoveredOK' /\ PassOK'
      BY <2>1 DEF CoveredOK, PassOK, Protecting, Rules
    <2> QED BY <2>2, <2>3, <2>4 DEF Rest
  <1> QED BY <1>1, <1>2, <1>3 DEF ReadTable

LEMMA ApplyStep ==
  ASSUME Inv, Apply
  PROVE  Rest'
  <1>1. CASE Fail
    BY <1>1, FailStep DEF Apply
  <1>2. CASE ~Fail
    <2>a. pc = "apply" /\ pc' = "readback" /\ UNCHANGED <<node, memory, admission, pass>>
      BY <1>2 DEF Apply
    <2> USE <2>a DEF Inv, node, memory, admission, pass, choice
    <2>1. ~Rediscovers
      BY DEF Rediscovers, Protecting
    <2>2. TableOK' /\ DiscoveredOK'
      BY <2>1 DEF TableOK, DiscoveredOK, AdmitsFromDiscovery, Rechecks
    <2>3. HomesOK' /\ MissingOK'
      BY DEF HomesOK, MissingOK
    <2>4. CoveredOK' /\ PassOK'
      BY <2>1 DEF CoveredOK, PassOK, Protecting, Rules
    <2>5. ~(lease' > 0)
      BY DEF PassOK
    <2> QED BY <2>2, <2>3, <2>4, <2>5 DEF Rest, AdmissionOK
  <1> QED BY <1>1, <1>2

\* The table that was read back fences the rows of this pass, whatever it
\* fenced before.
LEMMA ReadbackStep ==
  ASSUME Inv, Readback
  PROVE  Rest'
  <1>1. CASE Fail
    BY <1>1, FailStep DEF Readback
  <1>2. CASE ~Fail
    <2>a. /\ pc = "readback" /\ pc' = "check" /\ table = Rules(rows) /\ firewall' = Rules(rows)
          /\ UNCHANGED <<node, table, workers, discovered, admission, pass>>
      BY <1>2 DEF Readback
    <2> USE <2>a DEF Inv, node, admission, pass, choice
    <2>1. ~Rediscovers
      BY DEF Rediscovers, Protecting
    <2>2. TableOK' /\ DiscoveredOK'
      BY <2>1 DEF TableOK, DiscoveredOK, AdmitsFromDiscovery
    <2>3. HomesOK' /\ MissingOK'
      BY DEF HomesOK, MissingOK
    <2>4. Rules(workers) \subseteq Rules(rows) \/ \E w \in workers : w \notin rows
      BY DEF Rules
    <2>5. CoveredOK'
      BY <2>4 DEF CoveredOK, Rules
    <2>6. PassOK'
      BY DEF PassOK, Protecting, Rules
    <2>7. ~(lease' > 0)
      BY DEF PassOK
    <2> QED BY <2>2, <2>3, <2>5, <2>6, <2>7 DEF Rest, AdmissionOK
  <1> QED BY <1>1, <1>2

\* A worker whose veth was just seen has not aged.
LEMMA CheckStep ==
  ASSUME Inv, Check
  PROVE  Rest'
  <1>1. CASE Fail
    BY <1>1, FailStep DEF Check
  <1>2. CASE ~Fail
    <2>a. /\ pc = "check" /\ pc' = "grant" /\ \A row \in rows : Valid(row)
          /\ UNCHANGED <<node, memory, admission, pass, bridge>>
      BY <1>2 DEF Check
    <2> USE <2>a DEF Inv, node, memory, admission, pass, choice, bridge
    <2>1. ~Rediscovers /\ ~Rechecks
      BY DEF Rediscovers, Rechecks, Protecting
    <2>2. TableOK' /\ DiscoveredOK' /\ AdmissionOK'
      BY <2>1 DEF TableOK, DiscoveredOK, AdmitsFromDiscovery, AdmissionOK
    <2>3. HomesOK' /\ MissingOK'
      BY DEF HomesOK, MissingOK
    <2>4. ASSUME NEW row \in rows PROVE age[row.uid] = 0
      <3>1. row.uid \in Pods
        BY TypeParts DEF PassType, RowType
      <3>2. Attached(row.uid)
        BY <3>1 DEF Valid, Readable, Attached, NodeOK
      <3> QED BY <3>1, <3>2 DEF NodeOK
    <2>5. CoveredOK' /\ PassOK'
      BY <2>1, <2>4 DEF CoveredOK, PassOK, Protecting, Rules
    <2> QED BY <2>2, <2>3, <2>5 DEF Rest
  <1> QED BY <1>1, <1>2

\* The workers are admitted, fenced and freshly identified.
LEMMA GrantStep ==
  ASSUME Inv, Grant
  PROVE  Rest'
  <1>a. /\ pc = "grant" /\ pc' = "sleep" /\ workers' = rows /\ lease' = LeaseLen /\ rows' = {}
        /\ UNCHANGED <<node, firewall, discovered, bridge>>
    BY DEF Grant, Lease, PassEnds
  <1> USE <1>a DEF Inv, node, bridge
  <1>1. ~Rediscovers /\ ~Rechecks
    BY DEF Rediscovers, Rechecks, Protecting
  <1>2. TableOK' /\ DiscoveredOK'
    BY <1>1 DEF TableOK, DiscoveredOK, AdmitsFromDiscovery
  <1>3. HomesOK' /\ MissingOK'
    BY DEF HomesOK, MissingOK
  <1>4. CoveredOK' /\ PassOK'
    BY DEF CoveredOK, PassOK, Protecting, Rules
  <1>5. ASSUME NEW s \in Slots, admitted'[s] # NoPod
        PROVE  /\ [uid |-> admitted'[s], slot |-> s] \in rows
               /\ age[admitted'[s]] = 0 /\ s \in firewall
    <2>1. PICK r \in rows : r.slot = s /\ r.uid = admitted'[s]
      BY <1>5 DEF Grant
    <2>2. r \in RowType
      BY TypeParts DEF PassType
    <2>3. [uid |-> admitted'[s], slot |-> s] = r
      BY <2>1, <2>2 DEF RowType
    <2> QED BY <2>1, <2>3 DEF PassOK, Rules
  <1>6. 0 <= LeaseLen - lease'
    BY LeaseNat
  <1>7. table = firewall \/ edited
    BY <1>1 DEF TableOK
  <1>8. AdmissionOK'
    BY <1>5, <1>6, <1>7 DEF AdmissionOK
  <1> QED BY <1>2, <1>3, <1>4, <1>8 DEF Rest

-----------------------------------------------------------------------------
(* The theorems                                                            *)

LEMMA InvInit == Init => Inv
  <1> SUFFICES ASSUME Init PROVE Inv
    OBVIOUS
  <1>1. TypeOK
    BY TypeInit
  <1>2. NodeOK /\ HomesOK
    BY DEF Init, NodeOK, HomesOK
  <1>3. Rediscovers /\ Rechecks
    BY DEF Init, Rediscovers, Rechecks, Protecting
  <1>4. ListenerOK /\ TableOK /\ DiscoveredOK
    BY <1>3 DEF Init, ListenerOK, ListenerProtected, TableOK, DiscoveredOK, AdmitsFromDiscovery
  <1>5. MissingOK /\ CoveredOK /\ PassOK /\ AdmissionOK
    BY DEF Init, MissingOK, CoveredOK, PassOK, AdmissionOK
  <1> QED BY <1>1, <1>2, <1>4, <1>5 DEF Inv

LEMMA InvNext == Inv /\ [Next]_vars => Inv'
  <1> SUFFICES ASSUME Inv, [Next]_vars PROVE Inv'
    OBVIOUS
  <1>1. TypeOK' /\ NodeOK' /\ ListenerOK'
    BY TypeNext, NodeNext, ListenerNext DEF Inv
  <1>2. CASE UNCHANGED vars
    BY <1>1, <1>2, NodeRest DEF vars, node, Inv, Rest
  <1>3. CASE \/ \E p \in Pods : Unplug(p) \/ DropCache(p) \/ Stop(p)
             \/ \E p \in Pods, s \in Slots : Attach(p, s)
    BY <1>1, <1>3, NodeSteps DEF Inv, Rest
  <1>4. CASE Crash \/ StopListener
    BY <1>1, <1>4, FreshRest DEF Inv, Rest, Crash, StopListener
  <1>5. CASE Edit \/ Restart \/ Tick \/ Wake
    BY <1>1, <1>5, EditStep, TickStep, StartSteps DEF Inv, Rest
  <1>6. CASE ReadListener \/ ApplyListener \/ ReadbackListener
    BY <1>1, <1>6, ListenerSteps DEF Inv, Rest
  <1>7. CASE BeginSync \/ List \/ Identify \/ Validate
    BY <1>1, <1>7, BeginSyncStep, ListStep, IdentifyStep, ValidateStep DEF Inv, Rest
  <1>8. CASE ReadTable \/ Apply \/ Readback \/ Check \/ Grant
    BY <1>1, <1>8, ReadTableStep, ApplyStep, ReadbackStep, CheckStep, GrantStep DEF Inv, Rest
  <1> QED BY <1>2, <1>3, <1>4, <1>5, <1>6, <1>7, <1>8 DEF Next, GuardStep

\* The inductive invariant of the guard: whatever it remembers is true, or
\* the next pass looks again before it admits anybody (node_guard.py, _sync).
THEOREM InvHolds == Spec => []Inv
  BY InvInit, InvNext, PTL DEF Spec

\* For any pods, slots, intervals and faults, the guard answers 200 only to
\* workers that are fenced, were identified within the lease and after the
\* last failure, and only from behind the listener's rules.
THEOREM AdmissionIsSound == Spec => []AdmissionSound
  <1>1. Inv => AdmissionSound
    <2> SUFFICES ASSUME Inv PROVE AdmissionSound
      OBVIOUS
    <2>1. ASSUME NEW s \in Slots, NEW u \in Pods, Admits(s, u)
          PROVE  (s \in table \/ edited) /\ home[u] = s /\ age[u] <= LeaseLen - lease
      <3>1. admitted[s] = u /\ lease > 0 /\ u # NoPod
        BY <2>1, NamesAssumption DEF Admits
      <3>2. /\ [uid |-> u, slot |-> s] \in workers /\ age[u] <= LeaseLen - lease
            /\ s \in table \/ edited
        BY <3>1 DEF Inv, AdmissionOK
      <3>3. workers # NoWorkers
        BY <3>1, <3>2 DEF NoWorkers
      <3>4. home[u] = s
        BY <3>2, <3>3 DEF Inv, HomesOK
      <3> QED BY <3>2, <3>4
    <2>2. ListenerProtected /\ AdmitsFromDiscovery
      BY DEF Inv, ListenerOK, DiscoveredOK
    <2> QED BY <2>1, <2>2 DEF AdmissionSound, NoUnfencedStart, IdentityFresh
  <1> QED BY <1>1, InvHolds, PTL
=============================================================================
