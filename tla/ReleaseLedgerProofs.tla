------------------------ MODULE ReleaseLedgerProofs ------------------------
(***************************************************************************)
(* Proofs about ReleaseLedger, for any number of runs and any bounds.  The *)
(* sections up to PackagesAreDistinct hold with or without the concurrency *)
(* group; the order of stable releases (OrderHolds, StableOrderHolds and   *)
(* PublicMovesForwardHolds) is proved under Serialized, the group of the   *)
(* release workflow.                                                       *)
(*                                                                         *)
(* The ledger's promises are not inductive by themselves: a write replaces *)
(* the whole file by a value computed from an older read.  Inv adds what   *)
(* each run knows about its own copy of the ledger and about its plan; the *)
(* compare-and-swap turns that into knowledge about the file.              *)
(***************************************************************************)
EXTENDS ReleaseLedger, TLAPS

\* A run that is about to reserve holds a new number and had none before.
AllocationOK(r) ==
  pc[r] \in {"absent", "newref", "reserve"} =>
    /\ plan[r] \in Plan
    /\ plan[r].number > seen[r].counter
    /\ plan[r].number <= BuildLimit
    /\ seen[r].plans[r] = NoPlan

\* A run that is about to consume holds a number its copy has issued and the
\* floor of its copy has not passed.
ConsumptionOK(r) ==
  pc[r] = "floor" =>
    /\ plan[r] \in Plan
    /\ plan[r].number >= seen[r].floor
    /\ \E q \in Reserved(seen[r]) : seen[r].plans[q].number = plan[r].number

\* The number of a run that publishes has been issued and consumed.
PublicationOK(r) ==
  pc[r] \in {"tag", "draft", "upload"} =>
    /\ plan[r] \in Plan
    /\ plan[r].number <= file.floor
    /\ \E q \in Reserved(file) : file.plans[q].number = plan[r].number

\* A run that was started has a request.
RequestOK(r) == pc[r] # "idle" => request[r] \in Request

NumbersOK ==
  \A r \in Reserved(file) : file.plans[r].number <= BuildLimit

Inv ==
  /\ TypeOK
  /\ UniqueNumbers
  /\ LedgerReadable
  /\ NumbersOK
  /\ ConsumedBeforePublic
  /\ \A r \in Runs :
       RequestOK(r) /\ AllocationOK(r) /\ ConsumptionOK(r) /\ PublicationOK(r)

-----------------------------------------------------------------------------
(* Facts about the data *)

\* NoPlan is no plan: reservations and their absence are never confused.
LEMMA NoPlanIsNoPlan == NoPlan \notin Plan
BY DEF NoPlan, Plan

LEMMA EmptyLedgerType == EmptyLedger \in Ledger
BY DEF EmptyLedger, Ledger

\* A ledger's reservations are plans.
LEMMA ReservedPlans ==
  ASSUME NEW ledger \in Ledger, NEW r \in Reserved(ledger)
  PROVE  r \in Runs /\ ledger.plans[r] \in Plan /\ ledger.plans[r].number \in Nat \ {0}
BY NoPlanIsNoPlan DEF Ledger, Reserved, Plan

\* max(counter, policy floor) + 1 is a new number.
LEMMA NextNumberIsNew ==
  ASSUME NEW ledger \in Ledger, NEW policyFloor \in PolicyFloors
  PROVE  /\ NextNumber(ledger, policyFloor) \in Nat \ {0}
         /\ NextNumber(ledger, policyFloor) > ledger.counter
BY PolicyAssumption DEF NextNumber, Ledger

\* next_sequence returns a natural number.
LEMMA SequenceType ==
  ASSUME TypeOK, NEW r \in Runs
  PROVE  SequenceFor(r) \subseteq Nat
<1> DEFINE taken == TakenSequences(file, request[r].base, request[r].channel)
<1>1. taken \subseteq Nat
  <2>1. \A t \in Tag : t.seq \in Nat
    BY DEF Tag
  <2>2. \A q \in Reserved(file) : file.plans[q].tag \in Tag
    BY ReservedPlans DEF TypeOK, Plan
  <2>3. \A rel \in releases : rel.tag \in Tag
    BY DEF TypeOK, Release
  <2> QED BY <2>1, <2>2, <2>3 DEF TypeOK, TakenSequences
<1>2. NextSequence(taken) \subseteq Nat
  BY <1>1 DEF NextSequence
<1>3. r \in Nat
  BY RunsAssumption
<1>4. CASE request[r].channel = "nightly"
  BY <1>3, <1>4 DEF SequenceFor
<1>5. CASE request[r].channel = "stable"
  BY <1>5 DEF SequenceFor
<1>6. CASE request[r].channel \notin {"nightly", "stable"}
  BY <1>2, <1>6 DEF SequenceFor
<1> QED BY <1>4, <1>5, <1>6

\* The tag a run publishes under is a tag.
LEMMA TargetType ==
  ASSUME TypeOK, NEW r \in Runs, plan[r] \in Plan
  PROVE  Target(r) \in Tag
<1>1. CASE ByteCopy(r)
  <2>1. request[r] \in Request
    BY <1>1 DEF TypeOK, ByteCopy, NoRequest
  <2> QED BY <1>1, <2>1 DEF Target, StableTag, Tag, Request, Channels
<1>2. CASE ~ByteCopy(r)
  BY <1>2 DEF Target, Plan
<1> QED BY <1>1, <1>2

-----------------------------------------------------------------------------
(* Steps of one run that leave the ledger and the public alone *)

\* What a step of run r leaves alone in the memory of the other runs.
OthersUnchanged(r) ==
  \A q \in Runs \ {r} : /\ pc'[q] = pc[q]
                        /\ seen'[q] = seen[q]
                        /\ plan'[q] = plan[q]
                        /\ request'[q] = request[q]

LEMMA LocalStep ==
  ASSUME Inv, TypeOK', NEW r \in Runs, OthersUnchanged(r),
         file' = file, shipped' = shipped, releases' \subseteq releases,
         RequestOK(r)', AllocationOK(r)', ConsumptionOK(r)', PublicationOK(r)'
  PROVE  Inv'
<1>1. UniqueNumbers' /\ LedgerReadable' /\ NumbersOK'
  BY DEF Inv, UniqueNumbers, LedgerReadable, NumbersOK, Reserved
<1>2. ConsumedBeforePublic'
  BY DEF Inv, ConsumedBeforePublic
<1>3. ASSUME NEW q \in Runs
      PROVE  RequestOK(q)' /\ AllocationOK(q)' /\ ConsumptionOK(q)' /\ PublicationOK(q)'
  <2>1. CASE q = r
    BY <2>1
  <2>2. CASE q # r
    <3>1. RequestOK(q) /\ AllocationOK(q) /\ ConsumptionOK(q) /\ PublicationOK(q)
      BY DEF Inv
    <3>2. /\ pc'[q] = pc[q] /\ seen'[q] = seen[q]
          /\ plan'[q] = plan[q] /\ request'[q] = request[q]
      BY <2>2 DEF OthersUnchanged
    <3> QED BY <3>1, <3>2 DEF RequestOK, AllocationOK, ConsumptionOK, PublicationOK, Reserved
  <2> QED BY <2>1, <2>2
<1> QED BY <1>1, <1>2, <1>3 DEF Inv

\* A run that stops knows nothing and owes nothing.
LEMMA StopStep ==
  ASSUME Inv, NEW r \in Runs, pc[r] # "idle",
         NEW phase \in {"done", "failed", "rejected", "missing"},
         Stop(r, phase), UNCHANGED <<branch, written, file, tags, shipped, inputVars, deletions>>,
         releases' \subseteq releases
  PROVE  Inv'
<1>1. TypeOK'
  BY EmptyLedgerType DEF Inv, TypeOK, Stop, Goto, Phases, inputVars
<1>2. OthersUnchanged(r) /\ pc'[r] = phase /\ request' = request
  BY DEF Inv, TypeOK, Stop, Goto, OthersUnchanged, inputVars
<1>3. RequestOK(r)' /\ AllocationOK(r)' /\ ConsumptionOK(r)' /\ PublicationOK(r)'
  BY <1>2 DEF Inv, RequestOK, AllocationOK, ConsumptionOK, PublicationOK
<1> QED BY <1>1, <1>2, <1>3, LocalStep

\* A run that only moves on to a phase that owes nothing.
LEMMA MoveStep ==
  ASSUME Inv, NEW r \in Runs, NEW phase \in {"prepare", "promote", "staged", "built"},
         Goto(r, phase), seen' = seen, TypeOK', request'[r] \in Request,
         \A q \in Runs \ {r} : request'[q] = request[q],
         plan' = plan \/ \E p \in Plan \cup {NoPlan} : plan' = [plan EXCEPT ![r] = p],
         UNCHANGED <<file, shipped, releases>>
  PROVE  Inv'
<1>1. OthersUnchanged(r) /\ pc'[r] = phase
  BY DEF Inv, TypeOK, Goto, OthersUnchanged
<1>2. RequestOK(r)' /\ AllocationOK(r)' /\ ConsumptionOK(r)' /\ PublicationOK(r)'
  BY <1>1 DEF RequestOK, AllocationOK, ConsumptionOK, PublicationOK
<1> QED BY <1>1, <1>2, LocalStep

-----------------------------------------------------------------------------
(* prepare *)

LEMMA DispatchStep ==
  ASSUME Inv, NEW r \in Runs, Dispatch(r) \/ Rerun(r)
  PROVE  Inv'
<1>1. Goto(r, "prepare") /\ UNCHANGED <<ledgerVars, publicVars, seen, plan, deletions>>
  BY DEF Dispatch, Rerun
<1>2. /\ request' \in [Runs -> Request \cup {NoRequest}]
      /\ request'[r] \in Request
      /\ \A q \in Runs \ {r} : request'[q] = request[q]
  <2>1. CASE Dispatch(r)
    BY <2>1 DEF Dispatch, Inv, TypeOK
  <2>2. CASE Rerun(r)
    <3>1. PICK base \in Bases : request' = [request EXCEPT ![r].base = base]
      BY <2>2 DEF Rerun
    <3>2. request[r] \in Request
      BY <2>2 DEF Rerun, Inv, RequestOK
    <3> QED BY <3>1, <3>2 DEF Inv, TypeOK, Request
  <2> QED BY <2>1, <2>2
<1>3. attempt' \in [Runs -> Nat]
  BY DEF Dispatch, Rerun, Inv, TypeOK
<1>4. TypeOK'
  BY <1>1, <1>2, <1>3 DEF Inv, TypeOK, Goto, Phases, ledgerVars, publicVars
<1> QED BY <1>1, <1>2, <1>4, MoveStep DEF ledgerVars, publicVars

LEMMA AllocateStep ==
  ASSUME Inv, NEW r \in Runs, Allocate(r)
  PROVE  Inv'
<1> USE DEF ledgerVars, publicVars, inputVars
<1>1. PICK policyFloor \in PolicyFloors, n \in SequenceFor(r), q \in ParentRuns(r) :
        LET number == NextNumber(file, policyFloor)
            tag == [base |-> request[r].base, channel |-> request[r].channel, seq |-> n]
        IN IF number <= BuildLimit
           THEN /\ plan' = [plan EXCEPT ![r] = [tag |-> tag, number |-> number, parent |-> q]]
                /\ seen' = [seen EXCEPT ![r] = file]
                /\ Goto(r, "absent")
           ELSE Stop(r, "rejected")
  BY DEF Allocate
<1> DEFINE number == NextNumber(file, policyFloor)
           tag == [base |-> request[r].base, channel |-> request[r].channel, seq |-> n]
           new == [tag |-> tag, number |-> number, parent |-> q]
<1>2. /\ UNCHANGED <<ledgerVars, publicVars, inputVars, deletions>>
      /\ file.plans[r] = NoPlan
      /\ pc[r] # "idle"
  BY DEF Allocate
<1>3. CASE number <= BuildLimit
  <2>1. /\ plan' = [plan EXCEPT ![r] = new]
        /\ seen' = [seen EXCEPT ![r] = file]
        /\ Goto(r, "absent")
    BY <1>1, <1>3
  <2>2. new \in Plan /\ number > file.counter
    <3>1. n \in Nat
      BY SequenceType DEF Inv
    <3>2. request[r] \in Request
      BY DEF Allocate, Inv, RequestOK
    <3>3. tag \in Tag
      BY <3>1, <3>2 DEF Tag, Request
    <3>4. q \in Runs \cup {0}
      BY DEF ParentRuns, VerifiedRC, Release, Inv, TypeOK
    <3>5. number \in Nat \ {0} /\ number > file.counter
      BY NextNumberIsNew DEF Inv, TypeOK
    <3> QED BY <3>3, <3>4, <3>5 DEF Plan
  <2>3. TypeOK'
    BY <1>2, <2>1, <2>2 DEF Inv, TypeOK, Goto, Phases
  <2>4. OthersUnchanged(r) /\ pc'[r] = "absent" /\ plan'[r] = new /\ seen'[r] = file
    BY <1>2, <2>1 DEF Inv, TypeOK, Goto, OthersUnchanged
  <2>5. RequestOK(r)' /\ AllocationOK(r)' /\ ConsumptionOK(r)' /\ PublicationOK(r)'
    BY <1>2, <1>3, <2>2, <2>4 DEF Inv, RequestOK, AllocationOK, ConsumptionOK, PublicationOK
  <2> QED BY <1>2, <2>3, <2>4, <2>5, LocalStep
<1>4. CASE ~(number <= BuildLimit)
  <2>1. Stop(r, "rejected")
    BY <1>1, <1>4
  <2> QED BY <1>2, <2>1, StopStep
<1> QED BY <1>3, <1>4

\* From ensure_absent to the write the plan and the copy stay as they are.
LEMMA AllocationMove ==
  ASSUME Inv, NEW r \in Runs, NEW phase \in {"newref", "reserve"},
         pc[r] \in {"absent", "newref"}, Goto(r, phase), branch' \in BOOLEAN,
         UNCHANGED <<written, file, publicVars, inputVars, seen, plan, deletions>>
  PROVE  Inv'
<1> USE DEF publicVars, inputVars
<1>1. TypeOK'
  BY DEF Inv, TypeOK, Goto, Phases
<1>2. OthersUnchanged(r) /\ pc'[r] = phase /\ seen'[r] = seen[r] /\ plan'[r] = plan[r]
  BY DEF Inv, TypeOK, Goto, OthersUnchanged
<1>3. AllocationOK(r) /\ RequestOK(r)
  BY DEF Inv
<1>4. RequestOK(r)' /\ AllocationOK(r)' /\ ConsumptionOK(r)' /\ PublicationOK(r)'
  BY <1>2, <1>3 DEF RequestOK, AllocationOK, ConsumptionOK, PublicationOK
<1> QED BY <1>1, <1>2, <1>4, LocalStep

\* The compare-and-swap of reserve_plan. The file is the copy that was read,
\* so the new number is larger than every number in the file.
LEMMA WriteReservationStep ==
  ASSUME Inv, NEW r \in Runs, WriteReservation(r)
  PROVE  Inv'
<1> USE DEF publicVars, inputVars
<1>1. CASE file # seen[r]
  <2>1. /\ Stop(r, "rejected")
        /\ UNCHANGED <<branch, written, file, publicVars, inputVars, deletions>>
        /\ pc[r] # "idle"
    BY <1>1 DEF WriteReservation, WriteState
  <2> QED BY <2>1, StopStep
<1>2. CASE file = seen[r]
  <2>1. /\ file' = WithPlan(file, r, plan[r])
        /\ written' = TRUE
        /\ Goto(r, "built")
        /\ UNCHANGED <<branch, publicVars, inputVars, seen, plan, deletions>>
    BY <1>2 DEF WriteReservation, WriteState
  <2>2. /\ plan[r] \in Plan
        /\ plan[r].number > file.counter
        /\ plan[r].number <= BuildLimit
        /\ file.plans[r] = NoPlan
    BY <1>2 DEF WriteReservation, Inv, AllocationOK
  <2>3. plan[r].number \in Nat \ {0} /\ file \in Ledger /\ plan[r] # NoPlan
    BY <2>2, NoPlanIsNoPlan DEF Plan, Inv, TypeOK
  <2>4. /\ file' \in Ledger
        /\ file'.counter = plan[r].number
        /\ file'.floor = file.floor
        /\ file'.plans[r] = plan[r]
        /\ \A q \in Runs \ {r} : file'.plans[q] = file.plans[q]
    BY <2>1, <2>2, <2>3 DEF WithPlan, Ledger
  <2>5. TypeOK'
    BY <2>1, <2>4 DEF Inv, TypeOK, Goto, Phases
  <2>6. Reserved(file)' = Reserved(file) \cup {r}
    BY <2>3, <2>4 DEF Reserved
  <2>7. r \notin Reserved(file)
    BY <2>2 DEF Reserved
  <2>8. \A q \in Reserved(file) :
          /\ q # r
          /\ file'.plans[q] = file.plans[q]
          /\ file.plans[q].number \in Nat
          /\ file.plans[q].number <= file.counter
          /\ file.plans[q].number <= BuildLimit
    BY <2>3, <2>4, <2>7, ReservedPlans DEF Inv, LedgerReadable, NumbersOK, Reserved
  <2>9. file.counter \in Nat /\ file.floor \in Nat /\ file.floor <= file.counter
    BY <2>3 DEF Ledger, Inv, LedgerReadable
  <2>10. UniqueNumbers'
    <3>1. \A q \in Reserved(file) : file'.plans[q].number < file'.plans[r].number
      BY <2>2, <2>3, <2>4, <2>8, <2>9
    <3>2. \A p, q \in Reserved(file) : file'.plans[p].number = file'.plans[q].number => p = q
      BY <2>8 DEF Inv, UniqueNumbers
    <3> QED BY <2>3, <2>4, <2>6, <2>8, <3>1, <3>2 DEF UniqueNumbers
  <2>11. LedgerReadable' /\ NumbersOK'
    BY <2>2, <2>3, <2>4, <2>6, <2>8, <2>9 DEF LedgerReadable, NumbersOK
  <2>12. ConsumedBeforePublic'
    BY <2>1, <2>4 DEF Inv, ConsumedBeforePublic
  <2>13. OthersUnchanged(r) /\ pc'[r] = "built"
    BY <2>1 DEF Inv, TypeOK, Goto, OthersUnchanged
  <2>14. ASSUME NEW q \in Runs
         PROVE  RequestOK(q)' /\ AllocationOK(q)' /\ ConsumptionOK(q)' /\ PublicationOK(q)'
    <3>1. CASE q = r
      BY <2>1, <2>13, <3>1 DEF WriteReservation, Inv, RequestOK, AllocationOK, ConsumptionOK, PublicationOK
    <3>2. CASE q # r
      <4>1. RequestOK(q) /\ AllocationOK(q) /\ ConsumptionOK(q) /\ PublicationOK(q)
        BY DEF Inv
      <4>2. /\ pc'[q] = pc[q] /\ seen'[q] = seen[q]
          /\ plan'[q] = plan[q] /\ request'[q] = request[q]
        BY <2>13, <3>2 DEF OthersUnchanged
      <4>3. RequestOK(q)' /\ AllocationOK(q)' /\ ConsumptionOK(q)'
        BY <4>1, <4>2 DEF RequestOK, AllocationOK, ConsumptionOK, Reserved
      <4>4. PublicationOK(q)'
        BY <2>4, <2>6, <2>8, <4>1, <4>2 DEF PublicationOK
      <4> QED BY <4>3, <4>4
    <3> QED BY <3>1, <3>2
  <2> QED BY <2>5, <2>10, <2>11, <2>12, <2>14 DEF Inv
<1> QED BY <1>1, <1>2

-----------------------------------------------------------------------------
(* publish_versioned and promote *)

\* The order checks imply that the number is issued and not yet passed.
LEMMA OrderChecks ==
  ASSUME Inv, NEW r \in Runs,
         IF ByteCopy(r) THEN PromotionOrderHolds(plan[r]) ELSE ReservationHolds(r)
  PROVE  /\ plan[r] \in Plan
         /\ plan[r].number >= file.floor
         /\ \E q \in Reserved(file) : file.plans[q].number = plan[r].number
<1>1. file \in Ledger /\ file.floor \in Nat /\ plan[r] \in Plan \cup {NoPlan}
  BY DEF Inv, TypeOK, Ledger
<1>2. CASE ByteCopy(r)
  <2>1. PICK q \in Reserved(file) : file.plans[q] = plan[r]
    BY <1>2 DEF PromotionOrderHolds
  <2>2. plan[r] \in Plan
    BY <1>1, <2>1, ReservedPlans
  <2> QED BY <1>2, <2>1, <2>2 DEF PromotionOrderHolds
<1>3. CASE ~ByteCopy(r)
  <2>1. file.plans[r] = plan[r] /\ plan[r].number > file.floor
    BY <1>3 DEF ReservationHolds
  <2>2. plan[r] # NoPlan
    BY <1>1, <2>1 DEF NoPlan
  <2>3. plan[r] \in Plan /\ r \in Reserved(file)
    BY <1>1, <2>1, <2>2 DEF Reserved
  <2> QED BY <1>1, <2>1, <2>3 DEF Plan
<1> QED BY <1>2, <1>3

LEMMA BeginPublicationStep ==
  ASSUME Inv, NEW r \in Runs, BeginPublication(r)
  PROVE  Inv'
<1> USE DEF ledgerVars, publicVars, inputVars
<1> DEFINE holds == IF ByteCopy(r) THEN PromotionOrderHolds(plan[r]) ELSE ReservationHolds(r)
<1>1. CASE holds
  <2>1. /\ seen' = [seen EXCEPT ![r] = file]
        /\ Goto(r, "floor")
        /\ UNCHANGED <<ledgerVars, publicVars, inputVars, plan, deletions>>
    BY <1>1 DEF BeginPublication
  <2>2. TypeOK'
    BY <2>1 DEF Inv, TypeOK, Goto, Phases
  <2>3. OthersUnchanged(r) /\ pc'[r] = "floor" /\ seen'[r] = file /\ plan'[r] = plan[r]
    BY <2>1 DEF Inv, TypeOK, Goto, OthersUnchanged
  <2>4. RequestOK(r)' /\ AllocationOK(r)' /\ ConsumptionOK(r)' /\ PublicationOK(r)'
    <3>1. RequestOK(r)'
      BY <2>1 DEF BeginPublication, Inv, RequestOK
    <3> QED
      BY <1>1, <2>1, <2>3, <3>1, OrderChecks
      DEF AllocationOK, ConsumptionOK, PublicationOK, Reserved
  <2> QED BY <2>1, <2>2, <2>3, <2>4, LocalStep
<1>2. CASE ~holds
  <2>1. /\ Stop(r, "rejected")
        /\ UNCHANGED <<ledgerVars, publicVars, inputVars, deletions>>
        /\ pc[r] # "idle"
    BY <1>2 DEF BeginPublication
  <2> QED BY <2>1, StopStep
<1> QED BY <1>1, <1>2

\* The compare-and-swap of begin_publication. The file is the copy that was
\* verified, so the floor moves up and stays within the counter.
LEMMA AdvanceFloorStep ==
  ASSUME Inv, NEW r \in Runs, AdvanceFloor(r)
  PROVE  Inv'
<1> USE DEF publicVars, inputVars
<1>1. CASE file # seen[r]
  <2>1. /\ Stop(r, "rejected")
        /\ UNCHANGED <<branch, written, file, publicVars, inputVars, deletions>>
        /\ pc[r] # "idle"
    BY <1>1 DEF AdvanceFloor, WriteState
  <2> QED BY <2>1, StopStep
<1>2. CASE file = seen[r]
  <2>1. /\ file' = [file EXCEPT !.floor = plan[r].number]
        /\ written' = TRUE
        /\ Goto(r, "tag")
        /\ UNCHANGED <<branch, publicVars, inputVars, seen, plan, deletions>>
    BY <1>2 DEF AdvanceFloor, WriteState
  <2>2. /\ plan[r] \in Plan
        /\ plan[r].number >= file.floor
        /\ \E q \in Reserved(file) : file.plans[q].number = plan[r].number
    BY <1>2 DEF AdvanceFloor, Inv, ConsumptionOK
  <2>3. /\ plan[r].number \in Nat
        /\ file \in Ledger
        /\ file.floor \in Nat
        /\ file.counter \in Nat
        /\ plan[r].number <= file.counter
    BY <2>2 DEF Plan, Inv, TypeOK, Ledger, LedgerReadable
  <2>4. /\ file' \in Ledger
        /\ file'.counter = file.counter
        /\ file'.plans = file.plans
        /\ file'.floor = plan[r].number
    BY <2>1, <2>3 DEF Ledger
  <2>5. TypeOK'
    BY <2>1, <2>4 DEF Inv, TypeOK, Goto, Phases
  <2>6. Reserved(file)' = Reserved(file)
    BY <2>4 DEF Reserved
  <2>7. UniqueNumbers' /\ LedgerReadable' /\ NumbersOK'
    BY <2>3, <2>4, <2>6 DEF Inv, UniqueNumbers, LedgerReadable, NumbersOK
  <2>8. ConsumedBeforePublic'
    <3>1. \A x \in shipped : x.number \in Nat /\ x.number <= file.floor
      BY DEF Inv, ConsumedBeforePublic, TypeOK
    <3>2. \A rel \in releases : rel.number \in Nat /\ rel.number <= file.floor
      BY DEF Inv, ConsumedBeforePublic, TypeOK, Release
    <3> QED BY <2>1, <2>2, <2>3, <2>4, <3>1, <3>2 DEF ConsumedBeforePublic
  <2>9. OthersUnchanged(r) /\ pc'[r] = "tag" /\ plan'[r] = plan[r]
    BY <2>1 DEF Inv, TypeOK, Goto, OthersUnchanged
  <2>10. ASSUME NEW q \in Runs
         PROVE  RequestOK(q)' /\ AllocationOK(q)' /\ ConsumptionOK(q)' /\ PublicationOK(q)'
    <3>1. CASE q = r
      <4>1. RequestOK(r)'
        BY <2>1 DEF AdvanceFloor, Inv, RequestOK
      <4> QED
        BY <2>2, <2>3, <2>4, <2>6, <2>9, <3>1, <4>1 DEF AllocationOK, ConsumptionOK, PublicationOK
    <3>2. CASE q # r
      <4>1. RequestOK(q) /\ AllocationOK(q) /\ ConsumptionOK(q) /\ PublicationOK(q)
        BY DEF Inv
      <4>2. /\ pc'[q] = pc[q] /\ seen'[q] = seen[q]
          /\ plan'[q] = plan[q] /\ request'[q] = request[q]
        BY <2>9, <3>2 DEF OthersUnchanged
      <4>3. RequestOK(q)' /\ AllocationOK(q)' /\ ConsumptionOK(q)'
        BY <4>1, <4>2 DEF RequestOK, AllocationOK, ConsumptionOK, Reserved
      <4>4. PublicationOK(q)'
        BY <2>2, <2>3, <2>4, <2>6, <4>1, <4>2 DEF PublicationOK, Plan
      <4> QED BY <4>3, <4>4
    <3> QED BY <3>1, <3>2
  <2> QED BY <2>5, <2>7, <2>8, <2>10 DEF Inv
<1> QED BY <1>1, <1>2

-----------------------------------------------------------------------------
(* _publish_prepared *)

LEMMA CreateTagStep ==
  ASSUME Inv, NEW r \in Runs, CreateTag(r)
  PROVE  Inv'
<1> USE DEF ledgerVars, inputVars
<1>1. CASE EnsureAbsent(Target(r))
  <2>1. /\ tags' = tags \cup {Target(r)}
        /\ Goto(r, "draft")
        /\ UNCHANGED <<ledgerVars, releases, shipped, inputVars, seen, plan, deletions>>
    BY <1>1 DEF CreateTag
  <2>2. Target(r) \in Tag
    BY TargetType DEF CreateTag, Inv, PublicationOK
  <2>3. TypeOK'
    BY <2>1, <2>2 DEF Inv, TypeOK, Goto, Phases
  <2>4. OthersUnchanged(r) /\ pc'[r] = "draft"
    BY <2>1 DEF Inv, TypeOK, Goto, OthersUnchanged
  <2>5. RequestOK(r)' /\ AllocationOK(r)' /\ ConsumptionOK(r)' /\ PublicationOK(r)'
    BY <2>1, <2>4
    DEF CreateTag, Inv, RequestOK, AllocationOK, ConsumptionOK, PublicationOK, Reserved
  <2> QED BY <2>1, <2>3, <2>4, <2>5, LocalStep
<1>2. CASE ~EnsureAbsent(Target(r))
  <2>1. /\ Stop(r, "rejected")
        /\ UNCHANGED <<ledgerVars, tags, releases, shipped, inputVars, deletions>>
        /\ pc[r] # "idle"
    BY <1>2 DEF CreateTag
  <2> QED BY <2>1, StopStep
<1> QED BY <1>1, <1>2

\* The release of a run that publishes carries a consumed number.
LEMMA ReleaseOfType ==
  ASSUME Inv, NEW r \in Runs, pc[r] \in {"draft", "upload"}, NEW public \in BOOLEAN
  PROVE  /\ ReleaseOf(r, public) \in Release
         /\ ReleaseOf(r, public).number = plan[r].number
         /\ plan[r].number \in Nat \ {0}
         /\ plan[r].number <= file.floor
<1>1. plan[r] \in Plan /\ plan[r].number <= file.floor
  BY DEF Inv, PublicationOK
<1>2. Target(r) \in Tag
  BY <1>1, TargetType DEF Inv
<1>3. attempt[r] \in Nat
  BY DEF Inv, TypeOK
<1> QED BY <1>1, <1>2, <1>3 DEF ReleaseOf, Release, Plan

LEMMA CreateDraftStep ==
  ASSUME Inv, NEW r \in Runs, CreateDraft(r)
  PROVE  Inv'
<1> USE DEF ledgerVars, inputVars
<1>1. /\ pc[r] = "draft"
      /\ releases' = releases \cup {ReleaseOf(r, FALSE)}
      /\ Goto(r, "upload")
      /\ UNCHANGED <<ledgerVars, tags, shipped, inputVars, seen, plan, deletions>>
  BY DEF CreateDraft
<1>2. /\ ReleaseOf(r, FALSE) \in Release
      /\ ReleaseOf(r, FALSE).number <= file.floor
  BY <1>1, ReleaseOfType
<1>3. TypeOK'
  BY <1>1, <1>2 DEF Inv, TypeOK, Goto, Phases
<1>4. UniqueNumbers' /\ LedgerReadable' /\ NumbersOK'
  BY <1>1 DEF Inv, UniqueNumbers, LedgerReadable, NumbersOK, Reserved
<1>5. ConsumedBeforePublic'
  BY <1>1, <1>2 DEF Inv, ConsumedBeforePublic
<1>6. ASSUME NEW q \in Runs
      PROVE  RequestOK(q)' /\ AllocationOK(q)' /\ ConsumptionOK(q)' /\ PublicationOK(q)'
  <2>1. CASE q = r
    BY <1>1, <2>1
    DEF Inv, TypeOK, Goto, RequestOK, AllocationOK, ConsumptionOK, PublicationOK, Reserved
  <2>2. CASE q # r
    BY <1>1, <2>2
    DEF Inv, TypeOK, Goto, RequestOK, AllocationOK, ConsumptionOK, PublicationOK, Reserved
  <2> QED BY <2>1, <2>2
<1> QED BY <1>3, <1>4, <1>5, <1>6 DEF Inv

LEMMA PublishDraftStep ==
  ASSUME Inv, NEW r \in Runs, PublishDraft(r)
  PROVE  Inv'
<1> USE DEF ledgerVars, inputVars
<1>1. CASE ReleaseOf(r, FALSE) \notin releases
  <2>1. /\ Stop(r, "failed")
        /\ UNCHANGED <<ledgerVars, tags, releases, shipped, inputVars, deletions>>
        /\ pc[r] # "idle"
    BY <1>1 DEF PublishDraft
  <2> QED BY <2>1, StopStep
<1>2. CASE ReleaseOf(r, FALSE) \in releases
  <2>1. /\ releases' = (releases \ {ReleaseOf(r, FALSE)}) \cup {ReleaseOf(r, TRUE)}
        /\ shipped' = shipped \cup {[tag |-> Target(r), number |-> plan[r].number]}
        /\ UNCHANGED <<ledgerVars, tags, inputVars, deletions>>
        /\ pc[r] = "upload"
    BY <1>2 DEF PublishDraft
  <2>2. PICK phase \in {"done", "failed"} : Stop(r, phase)
    BY <1>2 DEF PublishDraft
  <2>3. /\ ReleaseOf(r, TRUE) \in Release
        /\ ReleaseOf(r, TRUE).number <= file.floor
        /\ plan[r].number \in Nat \ {0}
        /\ plan[r].number <= file.floor
    BY <2>1, ReleaseOfType
  <2>4. Target(r) \in Tag
    BY <2>1, TargetType DEF Inv, PublicationOK
  <2>5. TypeOK'
    <3>1. shipped' \subseteq [tag: Tag, number: Nat \ {0}]
      BY <2>1, <2>3, <2>4 DEF Inv, TypeOK
    <3>2. releases' \subseteq Release
      BY <2>1, <2>3 DEF Inv, TypeOK
    <3> QED BY <2>1, <2>2, <3>1, <3>2, EmptyLedgerType DEF Inv, TypeOK, Stop, Goto, Phases
  <2>6. UniqueNumbers' /\ LedgerReadable' /\ NumbersOK'
    BY <2>1 DEF Inv, UniqueNumbers, LedgerReadable, NumbersOK, Reserved
  <2>7. ConsumedBeforePublic'
    <3>1. \A x \in shipped' : x.number <= file.floor
      BY <2>1, <2>3 DEF Inv, ConsumedBeforePublic
    <3>2. \A rel \in releases' : rel.number <= file.floor
      BY <2>1, <2>3 DEF Inv, ConsumedBeforePublic
    <3> QED BY <2>1, <3>1, <3>2 DEF ConsumedBeforePublic
  <2>8. OthersUnchanged(r) /\ pc'[r] = phase
    BY <2>1, <2>2 DEF Inv, TypeOK, Stop, Goto, OthersUnchanged
  <2>9. ASSUME NEW q \in Runs
        PROVE  RequestOK(q)' /\ AllocationOK(q)' /\ ConsumptionOK(q)' /\ PublicationOK(q)'
    <3>1. CASE q = r
      BY <2>1, <2>8, <3>1 DEF Inv, RequestOK, AllocationOK, ConsumptionOK, PublicationOK
    <3>2. CASE q # r
      BY <2>1, <2>8, <3>2
      DEF OthersUnchanged, Inv, RequestOK, AllocationOK, ConsumptionOK, PublicationOK, Reserved
    <3> QED BY <3>1, <3>2
  <2> QED BY <2>5, <2>6, <2>7, <2>9 DEF Inv
<1> QED BY <1>1, <1>2

-----------------------------------------------------------------------------
(* The invariant *)

LEMMA InvInit == Init => Inv
<1> SUFFICES ASSUME Init PROVE Inv
  OBVIOUS
<1>1. TypeOK
  BY EmptyLedgerType DEF Init, TypeOK, Phases
<1>2. Reserved(file) = {}
  BY DEF Init, EmptyLedger, Reserved
<1>3. UniqueNumbers /\ LedgerReadable /\ NumbersOK /\ ConsumedBeforePublic
  BY <1>2 DEF Init, EmptyLedger, UniqueNumbers, LedgerReadable, NumbersOK, ConsumedBeforePublic
<1>4. \A r \in Runs : RequestOK(r) /\ AllocationOK(r) /\ ConsumptionOK(r) /\ PublicationOK(r)
  BY DEF Init, RequestOK, AllocationOK, ConsumptionOK, PublicationOK
<1> QED BY <1>1, <1>3, <1>4 DEF Inv

\* The steps of a run that stop it or only move it on.
LEMMA PlainSteps ==
  ASSUME Inv, NEW r \in Runs,
         \/ PrepareCopy(r) \/ ClosedCycle(r) \/ PrepareRejects(r) \/ LedgerMissing(r)
         \/ ReusePlan(r) \/ CheckAbsent(r) \/ PostRef(r) \/ VerifyBuild(r)
         \/ SkipPublication(r) \/ VerifyPromotion(r) \/ Fail(r)
  PROVE  Inv'
<1> USE DEF ledgerVars, publicVars, inputVars
<1>1. pc[r] # "idle" /\ request' = request /\ request[r] \in Request
  <2>1. pc[r] # "idle" /\ request' = request
    BY DEF PrepareCopy, ClosedCycle, PrepareRejects, LedgerMissing, ReusePlan, CheckAbsent,
           PostRef, VerifyBuild, SkipPublication, VerifyPromotion, Fail, Active, Finished
  <2> QED BY <2>1 DEF Inv, RequestOK
<1>2. CASE \E phase \in {"done", "failed", "rejected", "missing"} : Stop(r, phase)
  <2>1. UNCHANGED <<written, file, tags, releases, shipped, inputVars, deletions>>
    BY DEF PrepareCopy, ClosedCycle, PrepareRejects, LedgerMissing, ReusePlan, CheckAbsent,
           PostRef, VerifyBuild, SkipPublication, VerifyPromotion, Fail
  <2>2. CASE branch' = branch
    BY <1>1, <1>2, <2>1, <2>2, StopStep
  <2>3. CASE branch' # branch
    <3>1. PostRef(r)
      BY <2>3 DEF PrepareCopy, ClosedCycle, PrepareRejects, LedgerMissing, ReusePlan,
                  CheckAbsent, VerifyBuild, SkipPublication, VerifyPromotion, Fail
    <3>2. Goto(r, "reserve") /\ pc[r] = "newref"
          /\ UNCHANGED <<written, file, publicVars, inputVars, seen, plan, deletions>>
          /\ branch' \in BOOLEAN
      BY <2>3, <3>1 DEF PostRef, Inv, TypeOK
    <3> QED BY <3>2, AllocationMove
  <2> QED BY <2>2, <2>3
<1>3. CASE ~\E phase \in {"done", "failed", "rejected", "missing"} : Stop(r, phase)
  <2>1. CASE PrepareCopy(r)
    <3>1. Goto(r, "promote") /\ UNCHANGED <<ledgerVars, publicVars, inputVars, seen, plan, deletions>>
      BY <1>3, <2>1 DEF PrepareCopy
    <3>2. TypeOK'
      BY <3>1 DEF Inv, TypeOK, Goto, Phases
    <3> QED BY <1>1, <3>1, <3>2, MoveStep
  <2>2. CASE ReusePlan(r)
    <3>1. /\ Goto(r, "built")
          /\ plan' = [plan EXCEPT ![r] = file.plans[r]]
          /\ UNCHANGED <<ledgerVars, publicVars, inputVars, seen, deletions>>
      BY <2>2 DEF ReusePlan
    <3>2. file.plans[r] \in Plan \cup {NoPlan}
      BY DEF Inv, TypeOK, Ledger
    <3>3. TypeOK'
      BY <3>1, <3>2 DEF Inv, TypeOK, Goto, Phases
    <3> QED BY <1>1, <3>1, <3>2, <3>3, MoveStep
  <2>3. CASE VerifyBuild(r)
    <3>1. Goto(r, "staged") /\ UNCHANGED <<ledgerVars, publicVars, inputVars, seen, plan, deletions>>
      BY <1>3, <2>3 DEF VerifyBuild
    <3>2. TypeOK'
      BY <3>1 DEF Inv, TypeOK, Goto, Phases
    <3> QED BY <1>1, <3>1, <3>2, MoveStep
  <2>4. CASE VerifyPromotion(r)
    <3>1. PICK rel \in VerifiedRC(r) :
            /\ plan' = [plan EXCEPT ![r] = file.plans[rel.run]]
            /\ Goto(r, "staged")
            /\ UNCHANGED seen
      BY <1>3, <2>4 DEF VerifyPromotion
    <3>2. UNCHANGED <<ledgerVars, publicVars, inputVars, deletions>>
      BY <2>4 DEF VerifyPromotion
    <3>3. file.plans[rel.run] \in Plan \cup {NoPlan}
      BY DEF VerifiedRC, Inv, TypeOK, Release, Ledger
    <3>4. TypeOK'
      BY <3>1, <3>2, <3>3 DEF Inv, TypeOK, Goto, Phases
    <3> QED BY <1>1, <3>1, <3>2, <3>3, <3>4, MoveStep
  <2>5. CASE CheckAbsent(r)
    <3>1. PICK phase \in {"newref", "reserve"} : Goto(r, phase)
      BY <1>3, <2>5 DEF CheckAbsent
    <3>2. /\ pc[r] = "absent"
          /\ UNCHANGED <<ledgerVars, publicVars, inputVars, seen, plan, deletions>>
      BY <1>3, <2>5 DEF CheckAbsent
    <3>3. branch' \in BOOLEAN
      BY <3>2 DEF Inv, TypeOK
    <3> QED BY <3>1, <3>2, <3>3, AllocationMove
  <2>6. CASE PostRef(r)
    <3>1. /\ Goto(r, "reserve")
          /\ pc[r] = "newref"
          /\ branch' \in BOOLEAN
          /\ UNCHANGED <<written, file, publicVars, inputVars, seen, plan, deletions>>
      BY <1>3, <2>6 DEF PostRef
    <3> QED BY <3>1, AllocationMove
  <2> QED
    BY <1>3, <2>1, <2>2, <2>3, <2>4, <2>5, <2>6
    DEF ClosedCycle, PrepareRejects, LedgerMissing, SkipPublication, Fail
<1> QED BY <1>2, <1>3

LEMMA DeleteReleaseStep ==
  ASSUME Inv, DeleteRelease
  PROVE  Inv'
<1> USE DEF ledgerVars, inputVars
<1>1. /\ releases' \subseteq releases
      /\ deletions' \in Nat
      /\ UNCHANGED <<ledgerVars, tags, shipped, inputVars, pc, seen, plan>>
  BY DEF DeleteRelease, Inv, TypeOK
<1>2. TypeOK'
  BY <1>1 DEF Inv, TypeOK
<1>3. UniqueNumbers' /\ LedgerReadable' /\ NumbersOK' /\ ConsumedBeforePublic'
  BY <1>1 DEF Inv, UniqueNumbers, LedgerReadable, NumbersOK, ConsumedBeforePublic, Reserved
<1>4. \A q \in Runs :
        RequestOK(q)' /\ AllocationOK(q)' /\ ConsumptionOK(q)' /\ PublicationOK(q)'
  BY <1>1 DEF Inv, RequestOK, AllocationOK, ConsumptionOK, PublicationOK, Reserved
<1> QED BY <1>2, <1>3, <1>4 DEF Inv

LEMMA InvNext == Inv /\ [Next]_vars => Inv'
<1> SUFFICES ASSUME Inv, [Next]_vars PROVE Inv'
  OBVIOUS
<1>1. CASE UNCHANGED vars
  BY <1>1 DEF vars, ledgerVars, publicVars, inputVars, Inv, TypeOK, UniqueNumbers, LedgerReadable,
     NumbersOK, ConsumedBeforePublic, RequestOK, AllocationOK, ConsumptionOK, PublicationOK, Reserved
<1>2. CASE DeleteRelease
  BY <1>2, DeleteReleaseStep
<1>3. ASSUME NEW r \in Runs, Dispatch(r) \/ Rerun(r) \/ Work(r) \/ Fail(r)
      PROVE  Inv'
  <2>1. CASE Dispatch(r) \/ Rerun(r)
    BY <2>1, DispatchStep
  <2>2. CASE Allocate(r)
    BY <2>2, AllocateStep
  <2>3. CASE WriteReservation(r)
    BY <2>3, WriteReservationStep
  <2>4. CASE BeginPublication(r)
    BY <2>4, BeginPublicationStep
  <2>5. CASE AdvanceFloor(r)
    BY <2>5, AdvanceFloorStep
  <2>6. CASE CreateTag(r)
    BY <2>6, CreateTagStep
  <2>7. CASE CreateDraft(r)
    BY <2>7, CreateDraftStep
  <2>8. CASE PublishDraft(r)
    BY <2>8, PublishDraftStep
  <2> QED
    BY <1>3, <2>1, <2>2, <2>3, <2>4, <2>5, <2>6, <2>7, <2>8, PlainSteps DEF Work
<1> QED BY <1>1, <1>2, <1>3 DEF Next

\* The inductive invariant holds in every reachable state.
THEOREM InvHolds == Spec => []Inv
BY InvInit, InvNext, PTL DEF Spec

\* Type correctness.
THEOREM TypeCorrect == Spec => []TypeOK
<1>1. Inv => TypeOK
  BY DEF Inv
<1> QED BY <1>1, InvHolds, PTL

\* No two runs ever hold the same build number (reserve_plan), however many
\* runs race and fail, with or without the concurrency group.
THEOREM NumbersAreUnique == Spec => []UniqueNumbers
<1>1. Inv => UniqueNumbers
  BY DEF Inv
<1> QED BY <1>1, InvHolds, PTL

\* No write of reserve_plan or begin_publication ever leaves a ledger that
\* read_state would refuse.
THEOREM LedgerStaysReadable == Spec => []LedgerReadable
<1>1. Inv => LedgerReadable
  BY DEF Inv
<1> QED BY <1>1, InvHolds, PTL

\* Every draft and every package that was ever public has a number that
\* begin_publication consumed before.
THEOREM NumbersAreConsumedFirst == Spec => []ConsumedBeforePublic
<1>1. Inv => ConsumedBeforePublic
  BY DEF Inv
<1> QED BY <1>1, InvHolds, PTL

\* What NumbersAreUnique and NumbersAreConsumedFirst say of reserve_plan and
\* begin_publication together.
THEOREM NumbersAreSound == Spec => []NumbersSound
<1>1. UniqueNumbers /\ ConsumedBeforePublic => NumbersSound
  BY DEF NumbersSound
<1> QED BY <1>1, NumbersAreUnique, NumbersAreConsumedFirst, PTL

-----------------------------------------------------------------------------
(* Steps of the ledger file *)

\* A step that changes the ledger is one of the two compare-and-swaps.
LEMMA FileSteps ==
  ASSUME Inv, [Next]_vars, file' # file
  PROVE  \E r \in Runs :
           /\ plan[r] \in Plan
           /\ shipped' = shipped
           /\ \/ /\ file' = WithPlan(file, r, plan[r])
                 /\ file.plans[r] = NoPlan
                 /\ plan[r].number > file.counter
                 /\ plan[r].number <= BuildLimit
              \/ /\ file' = [file EXCEPT !.floor = plan[r].number]
                 /\ plan[r].number >= file.floor
                 /\ \E q \in Reserved(file) : file.plans[q].number = plan[r].number
<1> USE DEF ledgerVars, publicVars, inputVars
<1>1. PICK r \in Runs : WriteReservation(r) \/ AdvanceFloor(r)
  BY DEF Next, vars, Work, Dispatch, Rerun, PrepareCopy, ClosedCycle, PrepareRejects,
         LedgerMissing, ReusePlan, Allocate, CheckAbsent, PostRef, VerifyBuild, SkipPublication,
         VerifyPromotion, BeginPublication, CreateTag, CreateDraft, PublishDraft, Fail,
         DeleteRelease
<1>2. CASE WriteReservation(r)
  BY <1>2 DEF WriteReservation, WriteState, Inv, AllocationOK
<1>3. CASE AdvanceFloor(r)
  BY <1>3 DEF AdvanceFloor, WriteState, Inv, ConsumptionOK
<1> QED BY <1>1, <1>2, <1>3

\* A reservation, the counter and the floor are never lost, whatever copy of
\* the ledger a run writes back (write_state).
THEOREM LedgerNeverShrinks == Spec => LedgerOnlyGrows
<1> DEFINE grows == /\ file'.counter >= file.counter
                    /\ file'.floor >= file.floor
                    /\ \A r \in Reserved(file) : file'.plans[r] = file.plans[r]
<1>1. Inv /\ [Next]_vars => [grows]_vars
  <2> SUFFICES ASSUME Inv, [Next]_vars PROVE grows
    OBVIOUS
  <2>1. file \in Ledger /\ file.counter \in Nat /\ file.floor \in Nat
    BY DEF Inv, TypeOK, Ledger
  <2>2. CASE file' = file
    BY <2>1, <2>2
  <2>3. CASE file' # file
    <3>1. PICK r \in Runs :
            /\ plan[r] \in Plan
            /\ \/ /\ file' = WithPlan(file, r, plan[r])
                  /\ file.plans[r] = NoPlan
                  /\ plan[r].number > file.counter
               \/ /\ file' = [file EXCEPT !.floor = plan[r].number]
                  /\ plan[r].number >= file.floor
      BY <2>3, FileSteps
    <3>2. plan[r].number \in Nat
      BY <3>1 DEF Plan
    <3>3. CASE /\ file' = WithPlan(file, r, plan[r])
               /\ file.plans[r] = NoPlan
               /\ plan[r].number > file.counter
      BY <2>1, <3>2, <3>3 DEF WithPlan, Ledger, Reserved
    <3>4. CASE /\ file' = [file EXCEPT !.floor = plan[r].number]
               /\ plan[r].number >= file.floor
      BY <2>1, <3>2, <3>4 DEF Ledger
    <3> QED BY <3>1, <3>3, <3>4
  <2> QED BY <2>2, <2>3
<1> QED BY <1>1, InvHolds, PTL DEF Spec, LedgerOnlyGrows

-----------------------------------------------------------------------------
(* Refinement *)

\* The number each run holds, as the abstract allocator sees it.
IssuedNumbers == [r \in Runs |-> file.plans[r].number]

LEMMA IssuedByReservation ==
  ASSUME Inv
  PROVE  {IssuedNumbers[r] : r \in Runs} \ {0} = {file.plans[r].number : r \in Reserved(file)}
<1>1. file \in Ledger
  BY DEF Inv, TypeOK
<1>2. \A r \in Reserved(file) : file.plans[r].number # 0 /\ r \in Runs
  BY <1>1, ReservedPlans
<1>3. \A r \in Runs : r \notin Reserved(file) => file.plans[r].number = 0
  BY DEF Reserved, NoPlan
<1> QED BY <1>2, <1>3 DEF IssuedNumbers

\* A reservation is an Issue step of the allocator.
LEMMA ReservationIssues ==
  ASSUME Inv, NEW r \in Runs, plan[r] \in Plan, shipped' = shipped,
         file' = WithPlan(file, r, plan[r]), file.plans[r] = NoPlan,
         plan[r].number > file.counter, plan[r].number <= BuildLimit
  PROVE  Abstract!Issue(r)
<1>1. file \in Ledger /\ plan[r].number \in Nat \ {0} /\ file.counter \in Nat
  BY DEF Inv, TypeOK, Plan, Ledger
<1>2. plan[r].number \in 1..BuildLimit
  BY <1>1, BoundsAssumption
<1>3. IssuedNumbers[r] = 0
  BY DEF IssuedNumbers, NoPlan
<1>4. \A m \in {IssuedNumbers[q] : q \in Runs} \ {0} : m < plan[r].number
  <2>1. \A q \in Reserved(file) :
          file.plans[q].number \in Nat /\ file.plans[q].number <= file.counter
    BY <1>1, ReservedPlans DEF Inv, LedgerReadable
  <2> QED BY <1>1, <2>1, IssuedByReservation
<1>5. IssuedNumbers' = [IssuedNumbers EXCEPT ![r] = plan[r].number]
  BY <1>1 DEF IssuedNumbers, WithPlan, Ledger
<1>6. file'.floor = file.floor
  BY <1>1 DEF WithPlan, Ledger
<1> QED BY <1>2, <1>3, <1>4, <1>5, <1>6 DEF Abstract!Issue, Abstract!Issued, IssuedNumbers

\* begin_publication is a Consume step.
LEMMA FloorConsumes ==
  ASSUME Inv, NEW r \in Runs, plan[r] \in Plan, shipped' = shipped,
         file' = [file EXCEPT !.floor = plan[r].number], plan[r].number >= file.floor,
         \E q \in Reserved(file) : file.plans[q].number = plan[r].number
  PROVE  \E n \in Abstract!Issued : Abstract!Consume(n)
<1>1. file \in Ledger
  BY DEF Inv, TypeOK
<1>2. plan[r].number \in {IssuedNumbers[q] : q \in Runs} \ {0}
  BY IssuedByReservation
<1>3. file'.floor = plan[r].number /\ file'.plans = file.plans
  BY <1>1 DEF Ledger
<1> QED BY <1>2, <1>3 DEF Abstract!Consume, Abstract!Issued, IssuedNumbers

\* PATCH draft=false is a Ship step; nothing else changes what was public.
LEMMA PublicationShips ==
  ASSUME Inv, NEW r \in Runs, PublishDraft(r), shipped' # shipped
  PROVE  \E n \in Abstract!Issued : Abstract!Ship(n)
<1>1. /\ shipped' = shipped \cup {[tag |-> Target(r), number |-> plan[r].number]}
      /\ pc[r] = "upload"
      /\ file' = file
  BY DEF PublishDraft, ledgerVars
<1>2. /\ plan[r].number <= file.floor
      /\ \E q \in Reserved(file) : file.plans[q].number = plan[r].number
  BY <1>1 DEF Inv, PublicationOK
<1>3. plan[r].number \in {IssuedNumbers[q] : q \in Runs} \ {0}
  BY <1>2, IssuedByReservation
<1>4. {x.number : x \in shipped'} = {x.number : x \in shipped} \cup {plan[r].number}
  BY <1>1
<1> QED BY <1>1, <1>2, <1>3, <1>4 DEF Abstract!Ship, Abstract!Issued, IssuedNumbers

LEMMA AbstractInit == Init => Abstract!Init
BY DEF Init, EmptyLedger, NoPlan, Abstract!Init

LEMMA AbstractNext == Inv /\ [Next]_vars => [Abstract!Next]_(Abstract!vars)
<1> SUFFICES ASSUME Inv, [Next]_vars PROVE [Abstract!Next]_(Abstract!vars)
  OBVIOUS
<1>1. CASE file' # file
  <2>1. PICK r \in Runs :
          /\ plan[r] \in Plan
          /\ shipped' = shipped
          /\ \/ /\ file' = WithPlan(file, r, plan[r])
                /\ file.plans[r] = NoPlan
                /\ plan[r].number > file.counter
                /\ plan[r].number <= BuildLimit
             \/ /\ file' = [file EXCEPT !.floor = plan[r].number]
                /\ plan[r].number >= file.floor
                /\ \E q \in Reserved(file) : file.plans[q].number = plan[r].number
    BY <1>1, FileSteps
  <2>2. Abstract!Issue(r) \/ \E n \in Abstract!Issued : Abstract!Consume(n)
    BY <2>1, ReservationIssues, FloorConsumes
  <2> QED BY <2>2 DEF Abstract!Next
<1>2. CASE file' = file /\ shipped' # shipped
  <2>1. PICK r \in Runs : PublishDraft(r)
    BY <1>2 DEF Next, vars, Work, Dispatch, Rerun, PrepareCopy, ClosedCycle, PrepareRejects,
         LedgerMissing, ReusePlan, Allocate, CheckAbsent, PostRef, VerifyBuild, SkipPublication,
         VerifyPromotion, BeginPublication, CreateTag, CreateDraft, WriteReservation, AdvanceFloor,
         Fail, DeleteRelease, publicVars
  <2>2. \E n \in Abstract!Issued : Abstract!Ship(n)
    BY <1>2, <2>1, PublicationShips
  <2> QED BY <2>2 DEF Abstract!Next
<1>3. CASE file' = file /\ shipped' = shipped
  BY <1>3 DEF Abstract!vars
<1> QED BY <1>1, <1>2, <1>3

\* The ledger implements the abstract allocator (module BuildNumbers).
THEOREM LedgerImplementsAllocator == Spec => ImplementsAllocator
BY AbstractInit, AbstractNext, InvHolds, PTL DEF Spec, ImplementsAllocator, Abstract!Spec

-----------------------------------------------------------------------------
(* Packages: what a tag and a number stand for                             *)

Package(tag, number) == [tag |-> tag, number |-> number]

\* A plan of a stable release exists only if it builds anew, after an RC of
\* its base was public under a smaller number.
FollowsRC(p) ==
  p.tag.channel = "stable" =>
    /\ Promotion = "final-build"
    /\ \E y \in shipped : /\ y.tag.channel = "rc"
                          /\ y.tag.base = p.tag.base
                          /\ y.number < p.number

\* The reservations of the ledger.
LedgerTagsOK ==
  /\ UniqueTags
  /\ \A q \in Reserved(file) :
       /\ file.plans[q].tag.channel = "nightly" => file.plans[q].tag.seq = q
       /\ FollowsRC(file.plans[q])

\* The tag of a plan that is not yet written is new to the copy it was made
\* from; the compare-and-swap makes it new to the file.
NewTagOK(r) ==
  pc[r] \in {"absent", "newref", "reserve"} =>
    /\ plan[r].tag.channel # "stable" =>
         \A q \in Reserved(seen[r]) : seen[r].plans[q].tag # plan[r].tag
    /\ plan[r].tag.channel = "nightly" => plan[r].tag.seq = r
    /\ FollowsRC(plan[r])

\* A byte copy carries the plan of the RC it names, which was public.
CopyOK(r) ==
  pc[r] \in {"staged", "floor", "tag", "draft", "upload"} /\ ByteCopy(r) =>
    /\ plan[r].tag = RCTag(r)
    /\ Package(plan[r].tag, plan[r].number) \in shipped
    /\ \E q \in Reserved(file) : file.plans[q] = plan[r]

\* A run that builds copies nothing, and publishes its own reservation.
OwnOK(r) ==
  /\ pc[r] \in {"absent", "newref", "reserve", "built"} => ~ByteCopy(r)
  /\ pc[r] \in {"floor", "tag", "draft", "upload"} /\ ~ByteCopy(r) =>
       r \in Reserved(file) /\ file.plans[r] = plan[r]

Drafting == {"draft", "upload"}

\* The tag of a draft belongs to the run that created it and was never public.
DraftOK(r) ==
  pc[r] \in Drafting =>
    /\ Target(r) \in tags
    /\ \A x \in shipped : x.tag # Target(r)
    /\ \A q \in Runs \ {r} : pc[q] \in Drafting => Target(q) # Target(r)

\* A release is the reservation of its run, unless it is a stable one.
ReleaseOK(rel) ==
  /\ rel.public => Package(rel.tag, rel.number) \in shipped
  /\ rel.tag.channel # "stable" =>
       /\ rel.run \in Reserved(file)
       /\ file.plans[rel.run].tag = rel.tag
       /\ file.plans[rel.run].number = rel.number

\* The tags a package of plan p can have.
CarriesPlan(tag, p) ==
  tag = p.tag \/ (p.tag.channel = "rc" /\ tag = StableTag(p.tag.base))

ShippedOK(x) ==
  /\ x.tag \in tags
  /\ \E q \in Reserved(file) :
       x.number = file.plans[q].number /\ CarriesPlan(x.tag, file.plans[q])

Packages ==
  /\ LedgerTagsOK
  /\ \A r \in Runs : NewTagOK(r) /\ CopyOK(r) /\ OwnOK(r) /\ DraftOK(r)
  /\ \A rel \in releases : ReleaseOK(rel)
  /\ \A x \in shipped : ShippedOK(x)
  /\ OnePackagePerNumber
  /\ StableFollowsRC

\* Tags, public packages and reservations are never lost.
Kept ==
  /\ tags \subseteq tags'
  /\ shipped \subseteq shipped'
  /\ \A q \in Reserved(file) : q \in Reserved(file') /\ file'.plans[q] = file.plans[q]

LEMMA KeptFacts ==
  ASSUME Kept
  PROVE  /\ \A p : FollowsRC(p) => FollowsRC(p)'
         /\ \A rel : ReleaseOK(rel) => ReleaseOK(rel)'
         /\ \A x : ShippedOK(x) => ShippedOK(x)'
<1>1. ASSUME NEW p, FollowsRC(p) PROVE FollowsRC(p)'
  BY <1>1 DEF Kept, FollowsRC
<1>2. ASSUME NEW rel, ReleaseOK(rel) PROVE ReleaseOK(rel)'
  BY <1>2 DEF Kept, ReleaseOK
<1>3. ASSUME NEW x, ShippedOK(x) PROVE ShippedOK(x)'
  BY <1>3 DEF Kept, ShippedOK
<1> QED BY <1>1, <1>2, <1>3

\* A run that does not move keeps what it knows.
LEMMA OtherRuns ==
  ASSUME Packages, Kept, NEW r \in Runs, OthersUnchanged(r), NEW q \in Runs \ {r}
  PROVE  /\ NewTagOK(q)' /\ CopyOK(q)' /\ OwnOK(q)'
         /\ Target(q)' = Target(q) /\ pc'[q] = pc[q]
<1>1. /\ pc'[q] = pc[q] /\ seen'[q] = seen[q]
      /\ plan'[q] = plan[q] /\ request'[q] = request[q]
  BY DEF OthersUnchanged
<1>2. NewTagOK(q) /\ CopyOK(q) /\ OwnOK(q)
  BY DEF Packages
<1>3. /\ ByteCopy(q)' = ByteCopy(q) /\ RCTag(q)' = RCTag(q)
  BY <1>1 DEF ByteCopy, RCTag
<1>4. Target(q)' = Target(q)
  BY <1>1, <1>3 DEF Target, StableTag
<1>5. NewTagOK(q)'
  BY <1>1, <1>2, KeptFacts DEF NewTagOK
<1>6. CopyOK(q)'
  BY <1>1, <1>2, <1>3 DEF CopyOK, Kept
<1>7. OwnOK(q)'
  BY <1>1, <1>2, <1>3 DEF OwnOK, Kept
<1> QED BY <1>1, <1>4, <1>5, <1>6, <1>7

\* What a step of run r has to show.
LEMMA RunPackages ==
  ASSUME Packages, Kept, NEW r \in Runs, OthersUnchanged(r),
         LedgerTagsOK', NewTagOK(r)', CopyOK(r)', OwnOK(r)', \A q \in Runs : DraftOK(q)',
         \A rel \in releases' \ releases : ReleaseOK(rel)',
         \A x \in shipped' \ shipped : ShippedOK(x)',
         OnePackagePerNumber', StableFollowsRC'
  PROVE  Packages'
<1>1. \A q \in Runs : NewTagOK(q)' /\ CopyOK(q)' /\ OwnOK(q)'
  BY OtherRuns
<1>2. \A rel \in releases' : ReleaseOK(rel)'
  BY KeptFacts DEF Packages
<1>3. \A x \in shipped' : ShippedOK(x)'
  BY KeptFacts DEF Packages
<1> QED BY <1>1, <1>2, <1>3 DEF Packages

\* A step that writes neither the ledger nor the public, and leads to no draft.
LEMMA LocalPackages ==
  ASSUME Packages, NEW r \in Runs, OthersUnchanged(r), UNCHANGED <<file, tags, shipped>>,
         releases' \subseteq releases, pc'[r] \notin Drafting,
         NewTagOK(r)', CopyOK(r)', OwnOK(r)'
  PROVE  Packages'
<1>1. Kept
  BY DEF Kept
<1>2. LedgerTagsOK'
  BY DEF Packages, LedgerTagsOK, UniqueTags, Reserved, FollowsRC
<1>3. ASSUME NEW q \in Runs PROVE DraftOK(q)'
  BY <1>1, OtherRuns DEF Packages, DraftOK
<1>4. OnePackagePerNumber' /\ StableFollowsRC'
  BY DEF Packages, OnePackagePerNumber, StableFollowsRC
<1> QED BY <1>1, <1>2, <1>3, <1>4, RunPackages

\* A run that stops or starts over carries no plan.
LEMMA EmptyHanded ==
  ASSUME Packages, NEW r \in Runs, OthersUnchanged(r), UNCHANGED <<file, tags, shipped>>,
         releases' \subseteq releases,
         pc'[r] \in {"idle", "done", "failed", "rejected", "missing", "prepare", "promote"}
  PROVE  Packages'
<1>1. NewTagOK(r)' /\ CopyOK(r)' /\ OwnOK(r)' /\ pc'[r] \notin Drafting
  BY DEF NewTagOK, CopyOK, OwnOK, Drafting
<1> QED BY <1>1, LocalPackages

-----------------------------------------------------------------------------
(* Packages: the steps                                                     *)

\* An RC that VerifiedRC accepts is the reservation of its run and is public.
LEMMA VerifiedRCFacts ==
  ASSUME Inv, Packages, NEW r \in Runs, request[r] \in Request, NEW rel \in VerifiedRC(r)
  PROVE  /\ rel \in releases /\ rel.tag = RCTag(r)
         /\ Package(rel.tag, rel.number) \in shipped
         /\ rel.run \in Reserved(file) /\ file.plans[rel.run].tag = RCTag(r)
         /\ file.plans[rel.run].number = rel.number
<1>1. rel \in releases /\ rel.public /\ rel.tag = RCTag(r)
  BY DEF VerifiedRC
<1>2. ReleaseOK(rel) /\ rel.tag.channel = "rc"
  BY <1>1 DEF Packages, RCTag
<1> QED BY <1>1, <1>2 DEF ReleaseOK

\* next_sequence and the ledger's run IDs give a new tag.
LEMMA NewTag ==
  ASSUME Inv, Packages, NEW r \in Runs, request[r] \in Request, request[r].channel # "stable",
         file.plans[r] = NoPlan, NEW n \in SequenceFor(r), NEW q \in Reserved(file)
  PROVE  file.plans[q].tag # [base |-> request[r].base, channel |-> request[r].channel, seq |-> n]
<1> DEFINE t == file.plans[q].tag
           taken == TakenSequences(file, request[r].base, request[r].channel)
<1>1. file.plans[q] \in Plan /\ t \in Tag /\ t.seq \in Nat
  BY ReservedPlans DEF Inv, TypeOK, Plan, Tag
<1>2. q # r
  BY DEF Reserved
<1>3. CASE request[r].channel = "nightly"
  BY <1>2, <1>3 DEF SequenceFor, Packages, LedgerTagsOK
<1>4. CASE request[r].channel # "nightly"
  <2>1. n \in NextSequence(taken)
    BY <1>4 DEF SequenceFor
  <2>2. ASSUME t.base = request[r].base, t.channel = request[r].channel
        PROVE  t.seq < n
    <3>1. t.seq \in taken
      BY <2>2 DEF TakenSequences
    <3> QED BY <2>1, <3>1 DEF NextSequence
  <2> QED BY <1>1, <2>2
<1> QED BY <1>3, <1>4

LEMMA AllocatePackages ==
  ASSUME Inv, Packages, NEW r \in Runs, Allocate(r)
  PROVE  Packages'
<1> USE DEF ledgerVars, publicVars, inputVars
<1>1. PICK policyFloor \in PolicyFloors, n \in SequenceFor(r), q \in ParentRuns(r) :
        LET number == NextNumber(file, policyFloor)
            tag == [base |-> request[r].base, channel |-> request[r].channel, seq |-> n]
        IN IF number <= BuildLimit
           THEN /\ plan' = [plan EXCEPT ![r] = [tag |-> tag, number |-> number, parent |-> q]]
                /\ seen' = [seen EXCEPT ![r] = file]
                /\ Goto(r, "absent")
           ELSE Stop(r, "rejected")
  BY DEF Allocate
<1> DEFINE number == NextNumber(file, policyFloor)
           tag == [base |-> request[r].base, channel |-> request[r].channel, seq |-> n]
           new == [tag |-> tag, number |-> number, parent |-> q]
<1>2. /\ UNCHANGED <<ledgerVars, publicVars, inputVars, deletions>>
      /\ file.plans[r] = NoPlan /\ ~ByteCopy(r) /\ request[r] \in Request
  BY DEF Allocate, Inv, RequestOK
<1>3. CASE number <= BuildLimit
  <2>1. /\ plan' = [plan EXCEPT ![r] = new]
        /\ seen' = [seen EXCEPT ![r] = file]
        /\ Goto(r, "absent")
    BY <1>1, <1>3
  <2>2. OthersUnchanged(r) /\ pc'[r] = "absent" /\ plan'[r] = new /\ seen'[r] = file
    BY <1>2, <2>1 DEF Inv, TypeOK, Goto, OthersUnchanged
  <2>3. request[r].channel # "stable" => \A p \in Reserved(file) : file.plans[p].tag # tag
    BY <1>2, NewTag
  <2>4. request[r].channel = "nightly" => n = r
    BY DEF SequenceFor
  <2>5. FollowsRC(new)
    <3>1. SUFFICES ASSUME request[r].channel = "stable" PROVE FollowsRC(new)
      BY DEF FollowsRC
    <3>2. Promotion = "final-build"
      BY <1>2, <3>1, PromotionAssumption DEF ByteCopy
    <3>3. PICK rel \in VerifiedRC(r) : q = rel.run
      BY <3>1 DEF ParentRuns
    <3>4. rel \in releases /\ rel.tag = RCTag(r) /\ Package(rel.tag, rel.number) \in shipped
      BY <1>2, VerifiedRCFacts
    <3>5. rel.number < number
      <4>1. rel.number \in Nat /\ rel.number <= file.floor
        BY <3>4 DEF Inv, TypeOK, Release, ConsumedBeforePublic
      <4>2. file \in Ledger /\ file.floor <= file.counter
        BY DEF Inv, TypeOK, LedgerReadable
      <4>3. file.floor \in Nat /\ file.counter \in Nat
        BY <4>2 DEF Ledger
      <4>4. number \in Nat /\ number > file.counter
        BY <4>2, NextNumberIsNew
      <4> HIDE DEF number
      <4> QED BY <4>1, <4>2, <4>3, <4>4
    <3> HIDE DEF number
    <3> QED BY <3>1, <3>2, <3>4, <3>5 DEF FollowsRC, RCTag, Package
  <2>6. NewTagOK(r)'
    <3>1. FollowsRC(plan[r])'
      BY <1>2, <2>2, <2>5 DEF FollowsRC
    <3> HIDE DEF number
    <3> QED BY <2>2, <2>3, <2>4, <3>1 DEF NewTagOK, Reserved
  <2>7. CopyOK(r)' /\ OwnOK(r)' /\ pc'[r] \notin Drafting
    BY <1>2, <2>2 DEF CopyOK, OwnOK, Drafting, ByteCopy
  <2> QED BY <1>2, <2>2, <2>6, <2>7, LocalPackages
<1>4. CASE ~(number <= BuildLimit)
  <2>1. Stop(r, "rejected")
    BY <1>1, <1>4
  <2>2. OthersUnchanged(r) /\ pc'[r] = "rejected"
    BY <1>2, <2>1 DEF Inv, TypeOK, Stop, Goto, OthersUnchanged
  <2> QED BY <1>2, <2>2, EmptyHanded
<1> QED BY <1>3, <1>4

\* The compare-and-swap makes a tag that is new to the copy new to the file.
LEMMA WriteReservationPackages ==
  ASSUME Inv, Packages, NEW r \in Runs, WriteReservation(r)
  PROVE  Packages'
<1> USE DEF publicVars, inputVars
<1>1. CASE file # seen[r]
  <2>1. Stop(r, "rejected") /\ UNCHANGED <<file, tags, releases, shipped, request>>
    BY <1>1 DEF WriteReservation, WriteState
  <2>2. OthersUnchanged(r) /\ pc'[r] = "rejected"
    BY <2>1 DEF Inv, TypeOK, Stop, Goto, OthersUnchanged
  <2> QED BY <2>1, <2>2, EmptyHanded
<1>2. CASE file = seen[r]
  <2>1. /\ file' = WithPlan(file, r, plan[r]) /\ Goto(r, "built")
        /\ pc[r] = "reserve" /\ UNCHANGED <<publicVars, inputVars, seen, plan>>
    BY <1>2 DEF WriteReservation, WriteState
  <2>2. plan[r] \in Plan /\ file.plans[r] = NoPlan /\ file \in Ledger
    BY <1>2, <2>1 DEF Inv, AllocationOK, TypeOK
  <2>3. /\ file'.plans[r] = plan[r]
        /\ \A q \in Runs \ {r} : file'.plans[q] = file.plans[q]
    BY <2>1, <2>2 DEF WithPlan, Ledger
  <2>4. Reserved(file)' = Reserved(file) \cup {r} /\ r \notin Reserved(file)
    BY <2>2, <2>3, NoPlanIsNoPlan DEF Reserved
  <2>5. \A q \in Reserved(file) : q # r /\ q \in Runs /\ file'.plans[q] = file.plans[q]
    BY <2>3, <2>4 DEF Reserved
  <2>6. Kept
    BY <2>1, <2>4, <2>5 DEF Kept, Reserved
  <2>7. /\ plan[r].tag.channel # "stable" => \A q \in Reserved(file) : file.plans[q].tag # plan[r].tag
        /\ plan[r].tag.channel = "nightly" => plan[r].tag.seq = r
        /\ FollowsRC(plan[r])
    BY <1>2, <2>1 DEF Packages, NewTagOK
  <2>8. LedgerTagsOK'
    <3>1. UniqueTags'
      BY <2>3, <2>4, <2>5, <2>7 DEF UniqueTags, Packages, LedgerTagsOK
    <3>2. ASSUME NEW q \in Reserved(file)'
          PROVE  /\ file'.plans[q].tag.channel = "nightly" => file'.plans[q].tag.seq = q
                 /\ FollowsRC(file.plans[q])'
      <4>1. CASE q = r
        BY <2>1, <2>3, <2>7, <4>1 DEF FollowsRC
      <4>2. CASE q \in Reserved(file)
        BY <2>1, <2>5, <4>2 DEF FollowsRC, Packages, LedgerTagsOK
      <4> QED BY <2>4, <4>1, <4>2
    <3> QED BY <3>1, <3>2 DEF LedgerTagsOK
  <2>9. OthersUnchanged(r) /\ pc'[r] = "built"
    BY <2>1 DEF Inv, TypeOK, Goto, OthersUnchanged
  <2>10. NewTagOK(r)' /\ CopyOK(r)' /\ OwnOK(r)'
    BY <2>1, <2>9 DEF NewTagOK, CopyOK, OwnOK, Packages, ByteCopy
  <2>11. ASSUME NEW q \in Runs PROVE DraftOK(q)'
    BY <2>1, <2>6, <2>9, OtherRuns DEF Packages, DraftOK, Drafting
  <2>12. OnePackagePerNumber' /\ StableFollowsRC'
    BY <2>1 DEF Packages, OnePackagePerNumber, StableFollowsRC
  <2> QED BY <2>1, <2>6, <2>8, <2>9, <2>10, <2>11, <2>12, RunPackages
<1> QED BY <1>1, <1>2

LEMMA AdvanceFloorPackages ==
  ASSUME Inv, Packages, NEW r \in Runs, AdvanceFloor(r)
  PROVE  Packages'
<1> USE DEF publicVars, inputVars
<1>1. CASE file # seen[r]
  <2>1. Stop(r, "rejected") /\ UNCHANGED <<file, tags, releases, shipped, request>>
    BY <1>1 DEF AdvanceFloor, WriteState
  <2>2. OthersUnchanged(r) /\ pc'[r] = "rejected"
    BY <2>1 DEF Inv, TypeOK, Stop, Goto, OthersUnchanged
  <2> QED BY <2>1, <2>2, EmptyHanded
<1>2. CASE file = seen[r]
  <2>1. /\ file' = [file EXCEPT !.floor = plan[r].number] /\ Goto(r, "tag")
        /\ pc[r] = "floor" /\ UNCHANGED <<publicVars, inputVars, seen, plan>>
    BY <1>2 DEF AdvanceFloor, WriteState
  <2>2. file'.plans = file.plans
    BY <2>1 DEF Inv, TypeOK, Ledger
  <2>3. Reserved(file)' = Reserved(file) /\ Kept
    BY <2>1, <2>2 DEF Reserved, Kept
  <2>4. LedgerTagsOK'
    BY <2>1, <2>2, <2>3 DEF Packages, LedgerTagsOK, UniqueTags, FollowsRC
  <2>5. OthersUnchanged(r) /\ pc'[r] = "tag"
    BY <2>1 DEF Inv, TypeOK, Goto, OthersUnchanged
  <2>6. NewTagOK(r)'
    BY <2>5 DEF NewTagOK
  <2>7. CopyOK(r)' /\ OwnOK(r)'
    BY <2>1, <2>2, <2>3, <2>5 DEF CopyOK, OwnOK, Packages, ByteCopy, RCTag
  <2>8. ASSUME NEW q \in Runs PROVE DraftOK(q)'
    BY <2>1, <2>3, <2>5, OtherRuns DEF Packages, DraftOK, Drafting
  <2>9. OnePackagePerNumber' /\ StableFollowsRC'
    BY <2>1 DEF Packages, OnePackagePerNumber, StableFollowsRC
  <2> QED BY <2>1, <2>3, <2>4, <2>5, <2>6, <2>7, <2>8, <2>9, RunPackages
<1> QED BY <1>1, <1>2

\* A tag is created only if no package, draft or run has it.
LEMMA CreateTagPackages ==
  ASSUME Inv, Packages, NEW r \in Runs, CreateTag(r)
  PROVE  Packages'
<1> USE DEF ledgerVars, inputVars
<1>1. CASE ~EnsureAbsent(Target(r))
  <2>1. Stop(r, "rejected") /\ UNCHANGED <<file, tags, releases, shipped, request>>
    BY <1>1 DEF CreateTag
  <2>2. OthersUnchanged(r) /\ pc'[r] = "rejected"
    BY <2>1 DEF Inv, TypeOK, Stop, Goto, OthersUnchanged
  <2> QED BY <2>1, <2>2, EmptyHanded
<1>2. CASE EnsureAbsent(Target(r))
  <2>1. /\ tags' = tags \cup {Target(r)} /\ Goto(r, "draft") /\ pc[r] = "tag"
        /\ UNCHANGED <<file, releases, shipped, inputVars, seen, plan>>
    BY <1>2 DEF CreateTag
  <2>2. OthersUnchanged(r) /\ pc'[r] = "draft"
    BY <2>1 DEF Inv, TypeOK, Goto, OthersUnchanged
  <2>3. Kept
    BY <2>1 DEF Kept
  <2>4. LedgerTagsOK' /\ OnePackagePerNumber' /\ StableFollowsRC'
    BY <2>1 DEF Packages, LedgerTagsOK, UniqueTags, FollowsRC, Reserved, OnePackagePerNumber,
       StableFollowsRC
  <2>5. NewTagOK(r)' /\ CopyOK(r)' /\ OwnOK(r)'
    BY <2>1, <2>2 DEF NewTagOK, CopyOK, OwnOK, Packages, ByteCopy, RCTag, Reserved
  <2>6. Target(r)' = Target(r)
    BY <2>1 DEF Target, ByteCopy, StableTag
  <2>7. Target(r) \notin tags
    BY <1>2 DEF EnsureAbsent
  <2>8. ASSUME NEW q \in Runs PROVE DraftOK(q)'
    <3>1. CASE q = r
      <4>1. \A x \in shipped : x.tag # Target(r)
        BY <2>7 DEF Packages, ShippedOK
      <4>2. \A p \in Runs \ {r} : pc'[p] \in Drafting => Target(p)' # Target(r)
        BY <2>2, <2>3, <2>7, OtherRuns DEF Packages, DraftOK
      <4> QED BY <2>1, <2>6, <3>1, <4>1, <4>2 DEF DraftOK
    <3>2. CASE q # r
      <4>1. pc'[q] = pc[q] /\ Target(q)' = Target(q) /\ DraftOK(q)
        BY <2>2, <2>3, <3>2, OtherRuns DEF Packages
      <4>2. pc[q] \in Drafting => Target(q) # Target(r)
        BY <2>7, <4>1 DEF DraftOK
      <4>3. \A p \in Runs \ {r} : pc'[p] = pc[p] /\ Target(p)' = Target(p)
        BY <2>2, <2>3, OtherRuns
      <4> QED BY <2>1, <2>6, <3>2, <4>1, <4>2, <4>3 DEF DraftOK
    <3> QED BY <3>1, <3>2
  <2> QED BY <2>1, <2>2, <2>3, <2>4, <2>5, <2>8, RunPackages
<1> QED BY <1>1, <1>2

\* A draft of a tag that is not stable is the reservation of its run.
LEMMA OwnRelease ==
  ASSUME Inv, Packages, NEW r \in Runs, pc[r] \in Drafting, Target(r).channel # "stable"
  PROVE  r \in Reserved(file) /\ file.plans[r] = plan[r] /\ Target(r) = plan[r].tag
<1>1. ~ByteCopy(r)
  BY DEF Target, StableTag
<1> QED BY <1>1 DEF Target, Packages, OwnOK, Drafting

LEMMA CreateDraftPackages ==
  ASSUME Inv, Packages, NEW r \in Runs, CreateDraft(r)
  PROVE  Packages'
<1> USE DEF ledgerVars, inputVars
<1>1. /\ releases' = releases \cup {ReleaseOf(r, FALSE)} /\ Goto(r, "upload") /\ pc[r] = "draft"
      /\ UNCHANGED <<file, tags, shipped, inputVars, seen, plan>>
  BY DEF CreateDraft
<1>2. OthersUnchanged(r) /\ pc'[r] = "upload"
  BY <1>1 DEF Inv, TypeOK, Goto, OthersUnchanged
<1>3. Kept
  BY <1>1 DEF Kept
<1>4. LedgerTagsOK' /\ OnePackagePerNumber' /\ StableFollowsRC'
  BY <1>1 DEF Packages, LedgerTagsOK, UniqueTags, FollowsRC, Reserved, OnePackagePerNumber,
     StableFollowsRC
<1>5. NewTagOK(r)' /\ CopyOK(r)' /\ OwnOK(r)'
  BY <1>1, <1>2 DEF NewTagOK, CopyOK, OwnOK, Packages, ByteCopy, RCTag, Reserved
<1>6. \A q \in Runs : Target(q)' = Target(q) /\ (pc'[q] \in Drafting <=> pc[q] \in Drafting)
  <2>1. Target(r)' = Target(r)
    BY <1>1 DEF Target, ByteCopy, StableTag
  <2> QED BY <1>1, <1>2, <1>3, <2>1, OtherRuns DEF Drafting
<1>7. \A q \in Runs : DraftOK(q)'
  BY <1>1, <1>6 DEF Packages, DraftOK
<1>8. ASSUME NEW rel \in releases' \ releases PROVE ReleaseOK(rel)'
  <2>1. /\ rel.public = FALSE /\ rel.tag = Target(r) /\ rel.run = r
        /\ rel.number = plan[r].number
    BY <1>1, <1>8 DEF ReleaseOf
  <2>2. rel.tag.channel # "stable" =>
          r \in Reserved(file) /\ file.plans[r].tag = rel.tag /\ file.plans[r].number = rel.number
    BY <1>1, <2>1, OwnRelease DEF Drafting
  <2> QED BY <1>1, <2>1, <2>2 DEF ReleaseOK, Reserved
<1> QED BY <1>1, <1>2, <1>3, <1>4, <1>5, <1>7, <1>8, RunPackages

\* The package that goes public: a reservation, or a copy of a public RC.
LEMMA NewPackage ==
  ASSUME Inv, Packages, NEW r \in Runs, pc[r] = "upload"
  PROVE  /\ Target(r) \in tags /\ \A y \in shipped : y.tag # Target(r)
         /\ \E q \in Reserved(file) : /\ file.plans[q] = plan[r]
                                     /\ CarriesPlan(Target(r), plan[r])
         /\ Target(r).channel = "stable" =>
              \E y \in shipped : /\ y.tag.channel = "rc" /\ y.tag.base = Target(r).base
                                /\ IF Promotion = "promote-bytes" THEN y.number = plan[r].number
                                                                ELSE y.number < plan[r].number
<1>1. Target(r) \in tags /\ \A y \in shipped : y.tag # Target(r)
  BY DEF Packages, DraftOK, Drafting
<1>2. CASE ByteCopy(r)
  <2>1. /\ plan[r].tag = RCTag(r) /\ Package(plan[r].tag, plan[r].number) \in shipped
        /\ \E q \in Reserved(file) : file.plans[q] = plan[r]
    BY <1>2 DEF Packages, CopyOK
  <2>2. /\ Target(r) = StableTag(plan[r].tag.base) /\ plan[r].tag.channel = "rc"
        /\ Target(r).base = plan[r].tag.base /\ Promotion = "promote-bytes"
    BY <1>2, <2>1 DEF Target, RCTag, ByteCopy, StableTag
  <2> QED BY <1>1, <2>1, <2>2 DEF CarriesPlan, Package
<1>3. CASE ~ByteCopy(r)
  <2>1. r \in Reserved(file) /\ file.plans[r] = plan[r] /\ Target(r) = plan[r].tag
    BY <1>3 DEF Packages, OwnOK, Target
  <2>2. FollowsRC(plan[r])
    BY <2>1 DEF Packages, LedgerTagsOK
  <2> QED BY <1>1, <2>1, <2>2, PromotionAssumption DEF CarriesPlan, FollowsRC
<1> QED BY <1>2, <1>3

LEMMA PublishDraftPackages ==
  ASSUME Inv, Packages, NEW r \in Runs, PublishDraft(r)
  PROVE  Packages'
<1> USE DEF ledgerVars, inputVars
<1>0. PICK phase \in {"done", "failed"} : Stop(r, phase)
  BY DEF PublishDraft
<1>1. OthersUnchanged(r) /\ pc'[r] = phase /\ UNCHANGED <<file, tags, inputVars>> /\ pc[r] = "upload"
  BY <1>0 DEF PublishDraft, Inv, TypeOK, Stop, Goto, OthersUnchanged
<1>2. CASE ReleaseOf(r, FALSE) \notin releases
  <2>1. UNCHANGED <<releases, shipped>>
    BY <1>2 DEF PublishDraft
  <2> QED BY <1>1, <2>1, EmptyHanded
<1>3. CASE ReleaseOf(r, FALSE) \in releases
  <2>0. PICK x : x = Package(Target(r), plan[r].number)
    OBVIOUS
  <2>1. /\ releases' = (releases \ {ReleaseOf(r, FALSE)}) \cup {ReleaseOf(r, TRUE)}
        /\ shipped' = shipped \cup {x}
    BY <1>3, <2>0 DEF PublishDraft, Package
  <2>2. Kept
    BY <1>1, <2>1 DEF Kept
  <2>3. x.tag = Target(r) /\ x.number = plan[r].number
    BY <2>0 DEF Package
  <2>4. LedgerTagsOK'
    <3>1. UniqueTags'
      BY <1>1 DEF Packages, LedgerTagsOK, UniqueTags, Reserved
    <3>2. \A q \in Reserved(file) : FollowsRC(file.plans[q])'
      BY <1>1, <2>2, KeptFacts DEF Packages, LedgerTagsOK
    <3> QED BY <1>1, <3>1, <3>2 DEF Packages, LedgerTagsOK, Reserved
  <2>5. NewTagOK(r)' /\ CopyOK(r)' /\ OwnOK(r)'
    BY <1>1 DEF NewTagOK, CopyOK, OwnOK
  <2>6. ASSUME NEW q \in Runs PROVE DraftOK(q)'
    <3>1. CASE q = r
      BY <1>1, <3>1 DEF DraftOK, Drafting
    <3>2. CASE q # r
      <4>1. \A p \in Runs \ {r} : pc'[p] = pc[p] /\ Target(p)' = Target(p)
        BY <1>1, <2>2, OtherRuns
      <4>2. DraftOK(q) /\ (pc[q] \in Drafting => Target(q) # Target(r))
        BY <1>1, <3>2 DEF Packages, DraftOK, Drafting
      <4>3. pc'[r] \notin Drafting
        BY <1>1 DEF Drafting
      <4> QED BY <1>1, <2>1, <2>3, <3>2, <4>1, <4>2, <4>3 DEF DraftOK
    <3> QED BY <3>1, <3>2
  <2>7. ASSUME NEW rel \in releases' \ releases PROVE ReleaseOK(rel)'
    <3>1. /\ rel.tag = Target(r) /\ rel.run = r /\ rel.number = plan[r].number
      BY <2>1, <2>7 DEF ReleaseOf
    <3>2. Package(rel.tag, rel.number) \in shipped'
      BY <2>0, <2>1, <3>1
    <3>3. rel.tag.channel # "stable" =>
            r \in Reserved(file) /\ file.plans[r].tag = rel.tag /\ file.plans[r].number = rel.number
      BY <1>1, <3>1, OwnRelease DEF Drafting
    <3> QED BY <1>1, <3>1, <3>2, <3>3 DEF ReleaseOK, Reserved
  <2>8. PICK q \in Reserved(file) : file.plans[q] = plan[r] /\ CarriesPlan(Target(r), plan[r])
    BY <1>1, NewPackage
  <2>9. ShippedOK(x) /\ ShippedOK(x)'
    <3>1. ShippedOK(x)
      BY <1>1, <2>3, <2>8, NewPackage DEF ShippedOK
    <3> QED BY <2>2, <3>1, KeptFacts
  <2>10. OnePackagePerNumber'
    <3>1. \A y \in shipped : y.tag # x.tag
      BY <1>1, <2>3, NewPackage
    <3>2. ASSUME NEW y \in shipped, y.number = x.number
          PROVE  y.tag.base = x.tag.base /\ {x.tag.channel, y.tag.channel} = {"rc", "stable"}
      <4>1. PICK p \in Reserved(file) :
              y.number = file.plans[p].number /\ CarriesPlan(y.tag, file.plans[p])
        BY DEF Packages, ShippedOK
      <4>2. p = q
        BY <2>3, <2>8, <3>2, <4>1 DEF Inv, UniqueNumbers
      <4>3. CarriesPlan(y.tag, plan[r]) /\ CarriesPlan(x.tag, plan[r]) /\ y.tag # x.tag
        BY <2>3, <2>8, <3>1, <4>1, <4>2
      <4> QED BY <4>3 DEF CarriesPlan, StableTag
    <3>3. \A y \in shipped : y.number = x.number =>
            y.tag.base = x.tag.base /\ {y.tag.channel, x.tag.channel} = {"rc", "stable"}
      BY <3>2
    <3>4. OnePackagePerNumber
      BY DEF Packages
    <3> QED BY <2>1, <3>1, <3>2, <3>3, <3>4 DEF OnePackagePerNumber
  <2>11. StableFollowsRC'
    <3>1. StableFollowsRC
      BY DEF Packages
    <3>2. x.tag.channel = "stable" =>
            \E y \in shipped : /\ y.tag.channel = "rc" /\ y.tag.base = x.tag.base
                              /\ IF Promotion = "promote-bytes" THEN y.number = x.number
                                                              ELSE y.number < x.number
      BY <1>1, <2>3, NewPackage
    <3> QED BY <2>1, <3>1, <3>2 DEF StableFollowsRC
  <2> QED BY <1>1, <2>1, <2>2, <2>4, <2>5, <2>6, <2>7, <2>9, <2>10, <2>11, RunPackages
<1> QED BY <1>2, <1>3

\* The steps that write neither the ledger nor the public.
LEMMA LocalRunPackages ==
  ASSUME Inv, Packages, NEW r \in Runs,
         \/ Dispatch(r) \/ Rerun(r) \/ PrepareCopy(r) \/ ClosedCycle(r) \/ PrepareRejects(r)
         \/ LedgerMissing(r) \/ ReusePlan(r) \/ CheckAbsent(r) \/ PostRef(r) \/ VerifyBuild(r)
         \/ SkipPublication(r) \/ VerifyPromotion(r) \/ BeginPublication(r) \/ Fail(r)
  PROVE  Packages'
<1> USE DEF ledgerVars, publicVars, inputVars
<1>1. UNCHANGED <<file, tags, shipped, releases>> /\ OthersUnchanged(r)
  BY DEF Dispatch, Rerun, PrepareCopy, ClosedCycle, PrepareRejects, LedgerMissing, ReusePlan,
     CheckAbsent, PostRef, VerifyBuild, SkipPublication, VerifyPromotion, BeginPublication, Fail,
     Inv, TypeOK, Stop, Goto, OthersUnchanged
<1>2. CASE pc'[r] \in {"idle", "done", "failed", "rejected", "missing", "prepare", "promote"}
  BY <1>1, <1>2, EmptyHanded
<1>3. CASE ReusePlan(r) /\ pc'[r] = "built"
  <2>1. NewTagOK(r)' /\ CopyOK(r)' /\ OwnOK(r)' /\ pc'[r] \notin Drafting
    BY <1>3 DEF ReusePlan, NewTagOK, CopyOK, OwnOK, Drafting, ByteCopy
  <2> QED BY <1>1, <2>1, LocalPackages
<1>4. CASE (CheckAbsent(r) \/ PostRef(r)) /\ pc'[r] \in {"newref", "reserve"}
  <2>1. /\ pc[r] \in {"absent", "newref"} /\ UNCHANGED <<seen, plan, request>>
    BY <1>4 DEF CheckAbsent, PostRef, Stop, Goto, Inv, TypeOK
  <2>2. NewTagOK(r)' /\ CopyOK(r)' /\ OwnOK(r)' /\ pc'[r] \notin Drafting
    BY <1>1, <1>4, <2>1 DEF NewTagOK, CopyOK, OwnOK, Drafting, ByteCopy, Packages, FollowsRC,
       Reserved
  <2> QED BY <1>1, <2>2, LocalPackages
<1>5. CASE VerifyBuild(r) /\ pc'[r] = "staged"
  <2>1. NewTagOK(r)' /\ CopyOK(r)' /\ OwnOK(r)' /\ pc'[r] \notin Drafting
    BY <1>5 DEF VerifyBuild, NewTagOK, CopyOK, OwnOK, Drafting, ByteCopy, Packages
  <2> QED BY <1>1, <2>1, LocalPackages
<1>6. CASE VerifyPromotion(r) /\ pc'[r] = "staged"
  <2>1. request[r] \in Request /\ request' = request
    BY <1>6 DEF VerifyPromotion, Inv, RequestOK
  <2>2. PICK rel \in VerifiedRC(r) : plan' = [plan EXCEPT ![r] = file.plans[rel.run]]
    BY <1>6 DEF VerifyPromotion, Stop, Goto, Inv, TypeOK
  <2>3. plan'[r] = file.plans[rel.run]
    BY <2>2 DEF Inv, TypeOK
  <2>4. /\ plan'[r].tag = RCTag(r) /\ Package(plan'[r].tag, plan'[r].number) \in shipped
        /\ \E q \in Reserved(file) : file.plans[q] = plan'[r]
    BY <2>1, <2>3, VerifiedRCFacts
  <2>5. CopyOK(r)'
    BY <1>1, <2>1, <2>4 DEF CopyOK, RCTag, Reserved
  <2>6. NewTagOK(r)' /\ OwnOK(r)' /\ pc'[r] \notin Drafting
    BY <1>6 DEF NewTagOK, OwnOK, Drafting
  <2> QED BY <1>1, <2>5, <2>6, LocalPackages
<1>7. CASE BeginPublication(r) /\ pc'[r] = "floor"
  <2>1. /\ IF ByteCopy(r) THEN PromotionOrderHolds(plan[r]) ELSE ReservationHolds(r)
        /\ pc[r] = "staged" /\ UNCHANGED <<plan, request>>
    BY <1>7 DEF BeginPublication, Stop, Goto, Inv, TypeOK
  <2>2. plan[r] \in Plan
    BY <2>1, OrderChecks
  <2>3. OwnOK(r)'
    BY <1>1, <1>7, <2>1, <2>2, NoPlanIsNoPlan DEF OwnOK, ReservationHolds, Reserved, ByteCopy
  <2>4. CopyOK(r)'
    BY <1>1, <1>7, <2>1 DEF CopyOK, Packages, ByteCopy, RCTag, Reserved
  <2>5. NewTagOK(r)' /\ pc'[r] \notin Drafting
    BY <1>7 DEF NewTagOK, Drafting
  <2> QED BY <1>1, <2>3, <2>4, <2>5, LocalPackages
<1>8. /\ Dispatch(r) \/ Rerun(r) => pc'[r] = "prepare"
      /\ PrepareCopy(r) => pc'[r] \in {"promote", "rejected"}
      /\ ClosedCycle(r) \/ SkipPublication(r) => pc'[r] = "done"
      /\ PrepareRejects(r) => pc'[r] = "rejected"
      /\ LedgerMissing(r) => pc'[r] = "missing"
      /\ ReusePlan(r) => pc'[r] = "built"
      /\ CheckAbsent(r) \/ PostRef(r) => pc'[r] \in {"newref", "reserve", "rejected"}
      /\ VerifyBuild(r) \/ VerifyPromotion(r) => pc'[r] \in {"staged", "rejected"}
      /\ BeginPublication(r) => pc'[r] \in {"floor", "rejected"}
      /\ Fail(r) => pc'[r] = "failed"
  BY DEF Dispatch, Rerun, PrepareCopy, ClosedCycle, PrepareRejects, LedgerMissing, ReusePlan,
     CheckAbsent, PostRef, VerifyBuild, SkipPublication, VerifyPromotion, BeginPublication, Fail,
     Inv, TypeOK, Stop, Goto
<1> QED BY <1>2, <1>3, <1>4, <1>5, <1>6, <1>7, <1>8

LEMMA UnchangedPackages ==
  ASSUME Packages, UNCHANGED <<file, tags, shipped, pc, seen, plan, request>>,
         releases' \subseteq releases
  PROVE  Packages'
<1>1. Kept
  BY DEF Kept
<1>2. LedgerTagsOK' /\ OnePackagePerNumber' /\ StableFollowsRC'
  BY DEF Packages, LedgerTagsOK, UniqueTags, FollowsRC, Reserved, OnePackagePerNumber,
     StableFollowsRC
<1>3. \A r \in Runs : ByteCopy(r)' = ByteCopy(r) /\ RCTag(r)' = RCTag(r) /\ Target(r)' = Target(r)
  BY DEF ByteCopy, RCTag, Target, StableTag
<1>4. \A r \in Runs : NewTagOK(r)' /\ CopyOK(r)'
  BY <1>3, KeptFacts, <1>1 DEF Packages, NewTagOK, CopyOK, Reserved
<1>5. \A r \in Runs : OwnOK(r)' /\ DraftOK(r)'
  BY <1>3 DEF Packages, OwnOK, DraftOK, Reserved
<1>6. (\A rel \in releases' : ReleaseOK(rel)') /\ (\A x \in shipped' : ShippedOK(x)')
  BY <1>1, KeptFacts DEF Packages
<1> QED BY <1>2, <1>4, <1>5, <1>6 DEF Packages

LEMMA PackagesNext == Inv /\ Packages /\ [Next]_vars => Packages'
<1> SUFFICES ASSUME Inv, Packages, [Next]_vars PROVE Packages'
  OBVIOUS
<1>1. CASE UNCHANGED vars
  BY <1>1, UnchangedPackages DEF vars, ledgerVars, publicVars, inputVars
<1>2. CASE DeleteRelease
  <2>1. releases' \subseteq releases /\ UNCHANGED <<file, tags, shipped, pc, seen, plan, request>>
    BY <1>2 DEF DeleteRelease, ledgerVars, inputVars
  <2> QED BY <2>1, UnchangedPackages
<1>3. ASSUME NEW r \in Runs, Dispatch(r) \/ Rerun(r) \/ Work(r) \/ Fail(r)
      PROVE  Packages'
  BY <1>3, LocalRunPackages, AllocatePackages, WriteReservationPackages, AdvanceFloorPackages,
     CreateTagPackages, CreateDraftPackages, PublishDraftPackages DEF Work
<1> QED BY <1>1, <1>2, <1>3 DEF Next

LEMMA PackagesInit == Init => Packages
<1> SUFFICES ASSUME Init PROVE Packages
  OBVIOUS
<1>1. Reserved(file) = {}
  BY DEF Init, Reserved, EmptyLedger
<1>2. LedgerTagsOK /\ OnePackagePerNumber /\ StableFollowsRC
  BY <1>1 DEF Init, LedgerTagsOK, UniqueTags, OnePackagePerNumber, StableFollowsRC
<1>3. \A r \in Runs : NewTagOK(r) /\ CopyOK(r) /\ OwnOK(r) /\ DraftOK(r)
  BY DEF Init, NewTagOK, CopyOK, OwnOK, DraftOK, Drafting
<1> QED BY <1>2, <1>3 DEF Init, Packages

THEOREM PackagesHold == Spec => []Packages
BY InvHolds, PackagesInit, PackagesNext, PTL DEF Spec

\* A build number means one package and a tag one number, for all time, and no
\* two runs compile the same beta, RC or nightly tag: any runs, any races,
\* failures and deletions, both promotion policies (reserve_plan, promote).
THEOREM PackagesAreDistinct == Spec => []PackagesDistinct
<1>1. Packages => PackagesDistinct
  BY DEF Packages, LedgerTagsOK, PackagesDistinct
<1> QED BY <1>1, PackagesHold, PTL

-----------------------------------------------------------------------------
(* Order: with the concurrency group                                       *)

\* cancel-in-progress is false: a run is alone until it has ended.
Exclusive == \A q, r \in Runs : Active(q) /\ Active(r) => q = r

First(r) == attempt[r] = 1 /\ request[r].channel # "stable"

\* A candidate on its first attempt holds no reservation until it writes one;
\* then its number is the largest, and its tags are free.
FirstOK(r) ==
  /\ pc[r] = "idle" => file.plans[r] = NoPlan
  /\ pc[r] # "idle" => attempt[r] >= 1
  /\ First(r) =>
       /\ pc[r] \in {"prepare", "absent", "newref", "reserve", "rejected"} => file.plans[r] = NoPlan
       /\ pc[r] \in {"absent", "newref", "reserve", "built"} =>
            /\ plan[r].parent = 0
            /\ plan[r].tag.channel \in {"beta", "rc"} => EnsureAbsent(StableTag(plan[r].tag.base))
       /\ pc[r] \in {"newref", "reserve", "built", "staged", "floor", "tag"} =>
            EnsureAbsent(plan[r].tag)
       /\ pc[r] \in {"built", "staged"} =>
            /\ file.plans[r] = plan[r]
            /\ plan[r].number > file.floor
            /\ \A q \in Reserved(file) \ {r} : file.plans[q].number < plan[r].number

\* What a run has verified stays true until it publishes.
ForwardOK(r) ==
  /\ pc[r] = "promote" => ByteCopy(r)
  /\ pc[r] = "floor" => seen[r] = file
  /\ pc[r] \in {"floor", "tag", "draft", "upload"} =>
       \A y \in shipped : y.number < plan[r].number \/ (ByteCopy(r) /\ y.number = plan[r].number)
  /\ (/\ pc[r] \in {"staged", "floor", "tag", "draft", "upload"}
      /\ ~ByteCopy(r)
      /\ plan[r].tag.channel \in {"beta", "rc"})
       => StableTag(plan[r].tag.base) \notin tags

Order == Exclusive /\ \A r \in Runs : FirstOK(r) /\ ForwardOK(r)

RunStep(r) == Dispatch(r) \/ Rerun(r) \/ Work(r) \/ Fail(r)

\* A step of a run touches no other run and no other run's reservation.
LEMMA RunFrame ==
  ASSUME Inv, NEW r \in Runs, RunStep(r)
  PROVE  /\ OthersUnchanged(r)
         /\ \A q \in Runs \ {r} : attempt'[q] = attempt[q] /\ file'.plans[q] = file.plans[q]
<1> USE DEF ledgerVars, publicVars, inputVars, Inv, TypeOK
<1>1. CASE Dispatch(r) \/ Rerun(r)
  BY <1>1 DEF Dispatch, Rerun, Goto, OthersUnchanged
<1>2. CASE Work(r) \/ Fail(r)
  <2>1. inputVars' = inputVars
    BY <1>2 DEF Work, PrepareCopy, ClosedCycle, PrepareRejects, LedgerMissing, ReusePlan, Allocate,
       CheckAbsent, PostRef, WriteReservation, VerifyBuild, SkipPublication, VerifyPromotion,
       BeginPublication, AdvanceFloor, CreateTag, CreateDraft, PublishDraft, Fail
  <2>2. \A q \in Runs \ {r} : pc'[q] = pc[q] /\ seen'[q] = seen[q] /\ plan'[q] = plan[q]
    BY <1>2 DEF Work, PrepareCopy, ClosedCycle, PrepareRejects, LedgerMissing, ReusePlan, Allocate,
       CheckAbsent, PostRef, WriteReservation, VerifyBuild, SkipPublication, VerifyPromotion,
       BeginPublication, AdvanceFloor, CreateTag, CreateDraft, PublishDraft, Fail, WriteState,
       Stop, Goto
  <2>3. \A q \in Runs \ {r} : file'.plans[q] = file.plans[q]
    <3>1. CASE WriteReservation(r)
      <4>1. file' = file \/ file' = WithPlan(file, r, plan[r])
        BY <3>1 DEF WriteReservation, WriteState
      <4> QED BY <4>1 DEF WithPlan, Ledger
    <3>2. CASE AdvanceFloor(r)
      <4>1. file' = file \/ file' = [file EXCEPT !.floor = plan[r].number]
        BY <3>2 DEF AdvanceFloor, WriteState
      <4> QED BY <4>1 DEF Ledger
    <3>3. CASE ~WriteReservation(r) /\ ~AdvanceFloor(r)
      BY <1>2, <3>3 DEF Work, PrepareCopy, ClosedCycle, PrepareRejects, LedgerMissing, ReusePlan,
         Allocate, CheckAbsent, PostRef, VerifyBuild, SkipPublication, VerifyPromotion,
         BeginPublication, CreateTag, CreateDraft, PublishDraft, Fail
    <3> QED BY <3>1, <3>2, <3>3
  <2> QED BY <2>1, <2>2, <2>3 DEF OthersUnchanged
<1> QED BY <1>1, <1>2 DEF RunStep

\* Whoever takes a step is alone.
LEMMA Alone ==
  ASSUME Serialized, Inv, Exclusive, NEW r \in Runs, RunStep(r), NEW q \in Runs \ {r}
  PROVE  ~Active(q) /\ ~Active(q)'
<1>1. pc'[q] = pc[q]
  BY RunFrame DEF OthersUnchanged
<1>2. CASE Dispatch(r) \/ Rerun(r)
  BY <1>1, <1>2 DEF Dispatch, Rerun, ConcurrencyGroup, Active
<1>3. CASE Work(r) \/ Fail(r)
  <2>1. Active(r)
    BY <1>3 DEF Work, PrepareCopy, ClosedCycle, PrepareRejects, LedgerMissing, ReusePlan, Allocate,
       CheckAbsent, PostRef, WriteReservation, VerifyBuild, SkipPublication, VerifyPromotion,
       BeginPublication, AdvanceFloor, CreateTag, CreateDraft, PublishDraft, Fail, Active, Finished
  <2> QED BY <1>1, <2>1 DEF Exclusive, Active
<1> QED BY <1>2, <1>3 DEF RunStep

\* What a step of run r has to show.
LEMMA RunOrder ==
  ASSUME Serialized, Inv, Order, NEW r \in Runs, RunStep(r), FirstOK(r)', ForwardOK(r)'
  PROVE  Order'
<1>1. Exclusive'
  BY Alone DEF Order, Exclusive
<1>2. ASSUME NEW q \in Runs \ {r} PROVE FirstOK(q)' /\ ForwardOK(q)'
  <2>1. /\ pc'[q] = pc[q] /\ request'[q] = request[q] /\ attempt'[q] = attempt[q]
        /\ file'.plans[q] = file.plans[q]
    BY RunFrame DEF OthersUnchanged
  <2>2. pc[q] \in Finished
    BY Alone DEF Order, Active
  <2>3. FirstOK(q)
    BY DEF Order
  <2>4. FirstOK(q)'
    BY <2>1, <2>2, <2>3 DEF FirstOK, First, Finished
  <2>5. ForwardOK(q)'
    BY <2>1, <2>2 DEF ForwardOK, Finished
  <2> QED BY <2>4, <2>5
<1> QED BY <1>1, <1>2 DEF Order

\* A run that stops is not turned away with a reservation.
LEMMA StopOrder ==
  ASSUME Inv, Order, NEW r \in Runs, NEW phase \in {"done", "failed", "rejected", "missing"},
         pc[r] # "idle", Stop(r, phase), UNCHANGED inputVars,
         phase = "rejected" /\ First(r) => file'.plans[r] = NoPlan
  PROVE  FirstOK(r)' /\ ForwardOK(r)'
<1>1. pc'[r] = phase
  BY DEF Stop, Goto, Inv, TypeOK
<1>2. FirstOK(r)
  BY DEF Order
<1>3. FirstOK(r)'
  BY <1>1, <1>2 DEF FirstOK, First, inputVars
<1>4. ForwardOK(r)'
  BY <1>1 DEF ForwardOK
<1> QED BY <1>3, <1>4

LEMMA StartOrder ==
  ASSUME Inv, Order, NEW r \in Runs, Dispatch(r) \/ Rerun(r)
  PROVE  FirstOK(r)' /\ ForwardOK(r)'
<1>1. pc'[r] = "prepare" /\ file' = file
  BY DEF Dispatch, Rerun, Goto, Inv, TypeOK, ledgerVars
<1>2. FirstOK(r) /\ attempt[r] \in Nat
  BY DEF Order, Inv, TypeOK
<1>3. CASE Dispatch(r)
  <2>1. attempt'[r] = 1 /\ file.plans[r] = NoPlan
    BY <1>2, <1>3 DEF Dispatch, FirstOK, Inv, TypeOK
  <2> QED BY <1>1, <2>1 DEF FirstOK, ForwardOK
<1>4. CASE Rerun(r)
  <2>1. attempt'[r] = attempt[r] + 1 /\ attempt[r] >= 1
    BY <1>2, <1>4 DEF Rerun, FirstOK, Inv, TypeOK, Finished
  <2> QED BY <1>1, <1>2, <2>1 DEF FirstOK, ForwardOK, First
<1> QED BY <1>3, <1>4

\* prepare: a candidate on its first attempt finds no reservation of its own.
LEMMA PrepareOrder ==
  ASSUME Inv, Order, NEW r \in Runs,
         \/ PrepareCopy(r) \/ ClosedCycle(r) \/ PrepareRejects(r) \/ LedgerMissing(r)
         \/ ReusePlan(r) \/ Allocate(r)
  PROVE  FirstOK(r)' /\ ForwardOK(r)'
<1> USE DEF ledgerVars, publicVars, inputVars
<1>1. /\ pc[r] = "prepare" /\ UNCHANGED <<ledgerVars, publicVars, inputVars>>
  BY DEF PrepareCopy, ClosedCycle, PrepareRejects, LedgerMissing, ReusePlan, Allocate
<1>2. FirstOK(r) /\ attempt[r] >= 1 /\ (First(r) => file.plans[r] = NoPlan)
  BY <1>1 DEF Order, FirstOK
<1>3. CASE \E phase \in {"done", "failed", "rejected", "missing"} : Stop(r, phase)
  BY <1>1, <1>2, <1>3, StopOrder
<1>4. CASE PrepareCopy(r) /\ Goto(r, "promote")
  <2>1. pc'[r] = "promote" /\ ByteCopy(r)' /\ ~First(r)'
    BY <1>1, <1>4 DEF PrepareCopy, Goto, ByteCopy, First, Inv, TypeOK
  <2> QED BY <1>1, <1>2, <2>1 DEF FirstOK, ForwardOK
<1>5. CASE ReusePlan(r)
  <2>1. pc'[r] = "built" /\ ~First(r)'
    BY <1>1, <1>2, <1>5 DEF ReusePlan, Goto, First, Inv, TypeOK
  <2> QED BY <1>1, <1>2, <2>1 DEF FirstOK, ForwardOK
<1>6. CASE Allocate(r) /\ Goto(r, "absent")
  <2>1. PICK policyFloor \in PolicyFloors, n \in SequenceFor(r), q \in ParentRuns(r) :
          plan' = [plan EXCEPT ![r] =
                     [tag |-> [base |-> request[r].base, channel |-> request[r].channel, seq |-> n],
                      number |-> NextNumber(file, policyFloor), parent |-> q]]
    BY <1>6 DEF Allocate, Goto, Stop, Inv, TypeOK
  <2>2. /\ pc'[r] = "absent" /\ plan'[r].tag.base = request[r].base /\ plan'[r].parent = q
        /\ plan'[r].tag.channel = request[r].channel
    BY <1>6, <2>1 DEF Goto, Inv, TypeOK
  <2>3. First(r) => q = 0
    BY DEF ParentRuns, First
  <2>4. request[r].channel # "nightly" => EnsureAbsent(StableTag(request[r].base))
    BY <1>6 DEF Allocate, PrepareAccepts
  <2>5. First(r)' => /\ plan'[r].parent = 0
                     /\ plan'[r].tag.channel \in {"beta", "rc"} =>
                          EnsureAbsent(StableTag(plan[r].tag.base))'
    BY <1>1, <2>2, <2>3, <2>4 DEF First, EnsureAbsent, StableTag
  <2>6. First(r)' = First(r) /\ file'.plans[r] = file.plans[r] /\ attempt' = attempt
    BY <1>1 DEF First
  <2>7. FirstOK(r)'
    BY <1>2, <2>2, <2>5, <2>6 DEF FirstOK
  <2> QED BY <2>2, <2>7 DEF ForwardOK
<1> QED BY <1>3, <1>4, <1>5, <1>6
    DEF PrepareCopy, ClosedCycle, PrepareRejects, LedgerMissing, Allocate

\* Up to the write, whatever fails leaves no reservation.
LEMMA AbsentOrder ==
  ASSUME Inv, Order, NEW r \in Runs, CheckAbsent(r) \/ PostRef(r)
  PROVE  FirstOK(r)' /\ ForwardOK(r)'
<1> USE DEF ledgerVars, publicVars, inputVars
<1>1. pc[r] \in {"absent", "newref"} /\ UNCHANGED <<file, publicVars, inputVars>>
  BY DEF CheckAbsent, PostRef
<1>2. FirstOK(r) /\ (First(r) => file.plans[r] = NoPlan)
  BY <1>1 DEF Order, FirstOK
<1>3. CASE Stop(r, "rejected")
  BY <1>1, <1>2, <1>3, StopOrder
<1>4. CASE ~Stop(r, "rejected")
  <2>1. pc'[r] \in {"newref", "reserve"} /\ plan' = plan
    BY <1>4 DEF CheckAbsent, PostRef, Goto, Inv, TypeOK
  <2>2. First(r) => EnsureAbsent(plan[r].tag)
    BY <1>2, <1>4 DEF CheckAbsent, PostRef, FirstOK
  <2>3. FirstOK(r)'
    BY <1>1, <1>2, <2>1, <2>2 DEF FirstOK, First, EnsureAbsent, StableTag
  <2>4. ForwardOK(r)'
    BY <2>1 DEF ForwardOK
  <2> QED BY <2>3, <2>4
<1> QED BY <1>3, <1>4

\* The number that is written is larger than every other one.
LEMMA WriteReservationOrder ==
  ASSUME Inv, Order, NEW r \in Runs, WriteReservation(r)
  PROVE  FirstOK(r)' /\ ForwardOK(r)'
<1> USE DEF publicVars, inputVars
<1>1. pc[r] = "reserve" /\ UNCHANGED <<publicVars, inputVars>>
  BY DEF WriteReservation
<1>2. FirstOK(r) /\ (First(r) => file.plans[r] = NoPlan)
  BY <1>1 DEF Order, FirstOK
<1>3. CASE file # seen[r]
  <2>1. Stop(r, "rejected") /\ file' = file
    BY <1>3 DEF WriteReservation, WriteState
  <2> QED BY <1>1, <1>2, <2>1, StopOrder
<1>4. CASE file = seen[r]
  <2>1. file' = WithPlan(file, r, plan[r]) /\ pc'[r] = "built" /\ plan' = plan
    BY <1>4 DEF WriteReservation, WriteState, Goto, Inv, TypeOK
  <2>2. /\ plan[r] \in Plan /\ plan[r].number > file.counter /\ file \in Ledger
        /\ file.floor <= file.counter
    BY <1>1, <1>4 DEF Inv, AllocationOK, TypeOK, LedgerReadable
  <2>3. /\ file'.plans[r] = plan[r] /\ file'.floor = file.floor
        /\ \A q \in Runs \ {r} : file'.plans[q] = file.plans[q]
    BY <2>1, <2>2 DEF WithPlan, Ledger
  <2>4. plan[r].number \in Nat /\ file.floor \in Nat /\ file.counter \in Nat
    BY <2>2 DEF Plan, Ledger
  <2>5. plan[r].number > file'.floor
    BY <2>2, <2>3, <2>4
  <2>6. ASSUME NEW q \in Reserved(file)' \ {r} PROVE file'.plans[q].number < plan[r].number
    <3>1. q \in Reserved(file) /\ file'.plans[q] = file.plans[q]
      BY <2>3, <2>6 DEF Reserved
    <3>2. file.plans[q].number \in Nat /\ file.plans[q].number <= file.counter
      BY <2>2, <3>1, ReservedPlans DEF Inv, LedgerReadable
    <3> QED BY <2>2, <2>4, <3>1, <3>2
  <2>7. FirstOK(r)'
    BY <1>1, <1>2, <2>1, <2>3, <2>5, <2>6 DEF FirstOK, First, EnsureAbsent, StableTag
  <2>8. ForwardOK(r)'
    BY <2>1 DEF ForwardOK
  <2> QED BY <2>7, <2>8
<1> QED BY <1>3, <1>4

\* The checks of publish_versioned and begin_publication accept a candidate
\* on its first attempt.
LEMMA FirstIsAccepted ==
  ASSUME Inv, Order, NEW r \in Runs, First(r), pc[r] \in {"built", "staged"}
  PROVE  /\ ReservationHolds(r) /\ EnsureAbsent(plan[r].tag)
         /\ pc[r] = "built" =>
              /\ plan[r].parent \in ParentRuns(r)
              /\ plan[r].tag.channel \in {"beta", "rc"} => EnsureAbsent(StableTag(plan[r].tag.base))
<1>1. FirstOK(r)
  BY DEF Order
<1>2. EnsureAbsent(plan[r].tag)
  BY <1>1 DEF FirstOK
<1>3. plan[r].tag \notin Published
  BY <1>2 DEF EnsureAbsent, Published
<1>4. ReservationHolds(r)
  BY <1>1, <1>3 DEF FirstOK, ReservationHolds
<1> QED BY <1>1, <1>2, <1>4 DEF FirstOK, ParentRuns, First

LEMMA VerifyOrder ==
  ASSUME Inv, Order, NEW r \in Runs, VerifyBuild(r) \/ SkipPublication(r) \/ VerifyPromotion(r)
  PROVE  FirstOK(r)' /\ ForwardOK(r)'
<1> USE DEF ledgerVars, publicVars, inputVars
<1>1. /\ pc[r] \in {"built", "staged", "promote"} /\ UNCHANGED <<ledgerVars, publicVars, inputVars>>
  BY DEF VerifyBuild, SkipPublication, VerifyPromotion
<1>2. FirstOK(r) /\ ForwardOK(r) /\ attempt[r] >= 1
  BY <1>1 DEF Order, FirstOK
<1>3. CASE VerifyBuild(r)
  <2>1. CASE Stop(r, "rejected")
    <3>1. CASE First(r)
      <4>1. pc'[r] = "staged"
        BY <1>1, <1>3, <3>1, FirstIsAccepted DEF VerifyBuild, Goto, Inv, TypeOK
      <4> QED BY <2>1, <4>1 DEF Stop, Goto, Inv, TypeOK
    <3>2. CASE ~First(r)
      BY <1>1, <2>1, <3>2, StopOrder
    <3> QED BY <3>1, <3>2
  <2>2. CASE ~Stop(r, "rejected")
    <3>1. /\ pc[r] = "built" /\ pc'[r] = "staged" /\ plan' = plan
          /\ plan[r].tag.channel \in {"beta", "rc"} => EnsureAbsent(StableTag(plan[r].tag.base))
      BY <1>3, <2>2 DEF VerifyBuild, Goto, Inv, TypeOK
    <3>2. FirstOK(r)'
      BY <1>1, <1>2, <3>1 DEF FirstOK, First, EnsureAbsent, StableTag, Reserved
    <3>3. ForwardOK(r)'
      BY <1>1, <3>1 DEF ForwardOK, EnsureAbsent, StableTag
    <3> QED BY <3>2, <3>3
  <2> QED BY <2>1, <2>2
<1>4. CASE SkipPublication(r)
  BY <1>1, <1>4, StopOrder DEF SkipPublication
<1>5. CASE VerifyPromotion(r)
  <2>1. ByteCopy(r) /\ ~First(r) /\ ~First(r)' /\ ByteCopy(r)'
    BY <1>1, <1>2, <1>5 DEF VerifyPromotion, ForwardOK, ByteCopy, First
  <2>2. CASE Stop(r, "rejected")
    BY <1>1, <2>1, <2>2, StopOrder
  <2>3. CASE ~Stop(r, "rejected")
    <3>1. pc'[r] = "staged"
      BY <1>5, <2>3 DEF VerifyPromotion, Goto, Inv, TypeOK
    <3> QED BY <1>1, <1>2, <2>1, <3>1 DEF FirstOK, ForwardOK
  <2> QED BY <2>2, <2>3
<1> QED BY <1>3, <1>4, <1>5

\* begin_publication accepts only what is newer than everything public.
LEMMA BeginPublicationOrder ==
  ASSUME Inv, Order, NEW r \in Runs, BeginPublication(r)
  PROVE  FirstOK(r)' /\ ForwardOK(r)'
<1> USE DEF ledgerVars, publicVars, inputVars
<1>1. pc[r] = "staged" /\ UNCHANGED <<ledgerVars, publicVars, inputVars>>
  BY DEF BeginPublication
<1>2. FirstOK(r) /\ ForwardOK(r)
  BY DEF Order
<1> DEFINE accepted == IF ByteCopy(r) THEN PromotionOrderHolds(plan[r]) ELSE ReservationHolds(r)
<1>3. CASE ~accepted
  <2>1. Stop(r, "rejected") /\ ~First(r)
    BY <1>1, <1>3, FirstIsAccepted DEF BeginPublication, First, ByteCopy
  <2> QED BY <1>1, <2>1, StopOrder
<1>4. CASE accepted
  <2>1. pc'[r] = "floor" /\ seen'[r] = file /\ plan' = plan
    BY <1>4 DEF BeginPublication, Goto, Inv, TypeOK
  <2>2. plan[r] \in Plan /\ plan[r].number >= file.floor
    BY <1>4, OrderChecks
  <2>3. ~ByteCopy(r) => plan[r].number > file.floor
    BY <1>4 DEF ReservationHolds
  <2>4. plan[r].number \in Nat /\ file.floor \in Nat
    BY <2>2 DEF Plan, Inv, TypeOK, Ledger
  <2>5. ASSUME NEW y \in shipped
        PROVE  y.number < plan[r].number \/ (ByteCopy(r) /\ y.number = plan[r].number)
    <3>1. y.number \in Nat /\ y.number <= file.floor
      BY DEF Inv, TypeOK, ConsumedBeforePublic
    <3> QED BY <2>2, <2>3, <2>4, <3>1
  <2>6. FirstOK(r)'
    BY <1>1, <1>2, <2>1 DEF FirstOK, First, EnsureAbsent, StableTag
  <2>7. ForwardOK(r)'
    BY <1>1, <1>2, <2>1, <2>5 DEF ForwardOK, ByteCopy, StableTag
  <2> QED BY <2>6, <2>7
<1> QED BY <1>3, <1>4

\* Nobody else writes the ledger: the compare-and-swap succeeds.
LEMMA AdvanceFloorOrder ==
  ASSUME Inv, Order, NEW r \in Runs, AdvanceFloor(r)
  PROVE  FirstOK(r)' /\ ForwardOK(r)'
<1>1. pc[r] = "floor" /\ UNCHANGED <<publicVars, inputVars>>
  BY DEF AdvanceFloor
<1>2. FirstOK(r) /\ ForwardOK(r) /\ file = seen[r]
  BY <1>1 DEF Order, ForwardOK
<1>3. pc'[r] = "tag" /\ plan' = plan
  BY <1>2 DEF AdvanceFloor, WriteState, Goto, Inv, TypeOK
<1>4. FirstOK(r)'
  BY <1>1, <1>2, <1>3 DEF FirstOK, First, EnsureAbsent, publicVars, inputVars
<1>5. ForwardOK(r)'
  BY <1>1, <1>2, <1>3 DEF ForwardOK, ByteCopy, StableTag, publicVars, inputVars
<1> QED BY <1>4, <1>5

LEMMA PublishOrder ==
  ASSUME Inv, Order, NEW r \in Runs, CreateTag(r) \/ CreateDraft(r) \/ PublishDraft(r)
  PROVE  FirstOK(r)' /\ ForwardOK(r)'
<1>1. pc[r] \in {"tag", "draft", "upload"} /\ file' = file /\ UNCHANGED inputVars
  BY DEF CreateTag, CreateDraft, PublishDraft, ledgerVars
<1>2. FirstOK(r) /\ ForwardOK(r) /\ attempt[r] >= 1
  BY <1>1 DEF Order, FirstOK
<1>3. CASE CreateTag(r)
  <2>1. CASE ~EnsureAbsent(Target(r))
    <3>1. ~First(r)
      BY <1>2, <1>3, <2>1 DEF CreateTag, FirstOK, Target, ByteCopy, First
    <3>2. Stop(r, "rejected")
      BY <1>3, <2>1 DEF CreateTag
    <3> QED BY <1>1, <3>1, <3>2, StopOrder
  <2>2. CASE EnsureAbsent(Target(r))
    <3>1. /\ pc[r] = "tag" /\ pc'[r] = "draft" /\ tags' = tags \cup {Target(r)}
          /\ UNCHANGED <<plan, shipped>>
      BY <1>3, <2>2 DEF CreateTag, Goto, Inv, TypeOK
    <3>2. FirstOK(r)'
      BY <1>1, <1>2, <3>1 DEF FirstOK, inputVars
    <3>3. ASSUME ~ByteCopy(r), plan[r].tag.channel \in {"beta", "rc"}
          PROVE  StableTag(plan[r].tag.base) \notin tags'
      BY <1>2, <3>1, <3>3 DEF ForwardOK, Target, StableTag
    <3>4. ForwardOK(r)'
      BY <1>1, <1>2, <3>1, <3>3 DEF ForwardOK, ByteCopy, StableTag, inputVars
    <3> QED BY <3>2, <3>4
  <2> QED BY <2>1, <2>2
<1>4. CASE CreateDraft(r)
  <2>1. pc[r] = "draft" /\ pc'[r] = "upload" /\ UNCHANGED <<plan, shipped, tags>>
    BY <1>4 DEF CreateDraft, Goto, Inv, TypeOK
  <2> QED BY <1>1, <1>2, <2>1 DEF FirstOK, ForwardOK, ByteCopy, StableTag, inputVars
<1>5. CASE PublishDraft(r)
  <2>1. PICK phase \in {"done", "failed"} : Stop(r, phase)
    BY <1>5 DEF PublishDraft
  <2> QED BY <1>1, <2>1, StopOrder
<1> QED BY <1>3, <1>4, <1>5

LEMMA OrderNext == ASSUME Serialized PROVE Inv /\ Order /\ [Next]_vars => Order'
<1> SUFFICES ASSUME Inv, Order, [Next]_vars PROVE Order'
  OBVIOUS
<1>1. ASSUME UNCHANGED <<file, tags, shipped, pc, seen, plan, request, attempt>>,
             releases' \subseteq releases
      PROVE  Order'
  <2>1. Exclusive'
    BY <1>1 DEF Order, Exclusive, Active
  <2>2. \A tag : EnsureAbsent(tag) => EnsureAbsent(tag)'
    BY <1>1 DEF EnsureAbsent
  <2>3. ASSUME NEW r \in Runs PROVE FirstOK(r)'
    BY <1>1, <2>2 DEF Order, FirstOK, First, StableTag, Reserved
  <2>4. ASSUME NEW r \in Runs PROVE ForwardOK(r)'
    BY <1>1 DEF Order, ForwardOK, ByteCopy, StableTag
  <2> QED BY <2>1, <2>3, <2>4 DEF Order
<1>2. CASE UNCHANGED vars
  BY <1>1, <1>2 DEF vars, ledgerVars, publicVars, inputVars
<1>3. CASE DeleteRelease
  <2>1. /\ UNCHANGED <<file, tags, shipped, pc, seen, plan, request, attempt>>
        /\ releases' \subseteq releases
    BY <1>3 DEF DeleteRelease, ledgerVars, inputVars
  <2> QED BY <1>1, <2>1
<1>4. ASSUME NEW r \in Runs, RunStep(r) PROVE Order'
  <2>1. CASE Fail(r)
    BY <1>4, <2>1, StopOrder, RunOrder DEF Fail, Active, Finished
  <2>2. CASE ~Fail(r)
    BY <1>4, <2>2, RunOrder, StartOrder, PrepareOrder, AbsentOrder, WriteReservationOrder,
       VerifyOrder, BeginPublicationOrder, AdvanceFloorOrder, PublishOrder DEF RunStep, Work
  <2> QED BY <2>1, <2>2
<1> QED BY <1>2, <1>3, <1>4 DEF Next, RunStep

LEMMA OrderInit == Init => Order
<1> SUFFICES ASSUME Init PROVE Order
  OBVIOUS
<1>1. Exclusive
  BY DEF Init, Exclusive, Active, Finished
<1>2. \A r \in Runs : FirstOK(r) /\ ForwardOK(r)
  BY DEF Init, FirstOK, ForwardOK, First, EmptyLedger
<1> QED BY <1>1, <1>2 DEF Order

THEOREM OrderHolds == ASSUME Serialized PROVE Spec => []Order
BY InvHolds, OrderInit, OrderNext, PTL DEF Spec

\* With the workflow's concurrency group: a stable release follows a public RC
\* whose bytes or base it carries (promote), and a candidate that has reserved
\* its number on its first attempt passes every later check of its own plan.
THEOREM StableOrderHolds == ASSUME Serialized PROVE Spec => []StableOrder
<1>1. Order => CandidateNotRejected
  BY DEF Order, FirstOK, First, CandidateNotRejected
<1>2. Packages => StableFollowsRC
  BY DEF Packages
<1>3. StableFollowsRC /\ CandidateNotRejected => StableOrder
  BY DEF StableOrder
<1> QED BY <1>1, <1>2, <1>3, OrderHolds, PackagesHold, PTL

\* Without the group a stable release still follows its RC.
THEOREM StableFollowsItsRC == Spec => []StableFollowsRC
<1>1. Packages => StableFollowsRC
  BY DEF Packages
<1> QED BY <1>1, PackagesHold, PTL

\* With the concurrency group, what goes public is newer than everything that
\* was public before, deleted releases included, and no beta or RC follows the
\* stable release of its base (begin_publication, publish_versioned).
THEOREM PublicMovesForwardHolds == ASSUME Serialized PROVE Spec => PublicMovesForward
<1> DEFINE newer == \A x \in shipped' \ shipped, y \in shipped :
              x.number > y.number \/ (x.number = y.number /\ x.tag.channel = "stable")
           closes == \A x \in shipped' \ shipped : x.tag.channel \in {"beta", "rc"} =>
              \A y \in shipped : y.tag # StableTag(x.tag.base)
<1>1. Inv /\ Packages /\ Order /\ [Next]_vars => [newer /\ closes]_vars
  <2> SUFFICES ASSUME Inv, Packages, Order, [Next]_vars, NEW x \in shipped' \ shipped
               PROVE  /\ \A y \in shipped :
                            x.number > y.number \/ (x.number = y.number /\ x.tag.channel = "stable")
                      /\ x.tag.channel \in {"beta", "rc"} =>
                            \A y \in shipped : y.tag # StableTag(x.tag.base)
    OBVIOUS
  <2>1. PICK r \in Runs : PublishDraft(r)
    BY DEF Next, vars, Work, Dispatch, Rerun, PrepareCopy, ClosedCycle, PrepareRejects,
       LedgerMissing, ReusePlan, Allocate, CheckAbsent, PostRef, VerifyBuild, SkipPublication,
       VerifyPromotion, BeginPublication, CreateTag, CreateDraft, WriteReservation, AdvanceFloor,
       Fail, DeleteRelease, publicVars
  <2>2. pc[r] = "upload" /\ x.tag = Target(r) /\ x.number = plan[r].number
    <3>1. pc[r] = "upload" /\ x = [tag |-> Target(r), number |-> plan[r].number]
      BY <2>1 DEF PublishDraft
    <3> QED BY <3>1
  <2>3. ForwardOK(r) /\ plan[r] \in Plan
    BY <2>2 DEF Order, Inv, PublicationOK
  <2>4. ASSUME NEW y \in shipped
        PROVE  x.number > y.number \/ (x.number = y.number /\ x.tag.channel = "stable")
    <3>1. y.number \in Nat /\ plan[r].number \in Nat
      BY <2>3 DEF Inv, TypeOK, Plan
    <3>2. ByteCopy(r) => x.tag.channel = "stable"
      BY <2>2 DEF Target, StableTag
    <3> QED BY <2>2, <2>3, <3>1, <3>2 DEF ForwardOK
  <2>5. ASSUME x.tag.channel \in {"beta", "rc"}, NEW y \in shipped
        PROVE  y.tag # StableTag(x.tag.base)
    <3>1. ~ByteCopy(r) /\ x.tag = plan[r].tag
      BY <2>2, <2>5 DEF Target, StableTag
    <3>2. y.tag \in tags
      BY DEF Packages, ShippedOK
    <3> QED BY <2>2, <2>3, <2>5, <3>1, <3>2 DEF ForwardOK
  <2> QED BY <2>4, <2>5
<1> QED BY <1>1, InvHolds, PackagesHold, OrderHolds, PTL
    DEF Spec, PublicMovesForward, NoDowngrade, StableClosesBase
=============================================================================
