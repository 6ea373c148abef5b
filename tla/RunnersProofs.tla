--------------------------- MODULE RunnersProofs ----------------------------
(***************************************************************************)
(* Proofs about where and how jobs run, for any number of invocations,     *)
(* repositories, workflow files, reports, outside changes, and paths,      *)
(* layers and entries of an image.                                         *)
(*                                                                         *)
(* A behaviour of MCRunners is one of a single component, so each theorem  *)
(* is an invariant of that component, kept by each of its actions.  The    *)
(* slots hold, in order:                                                   *)
(*   nightly   s1 lock, s2 pc, s3 row, s4 rows, s5 group, s6 expired,      *)
(*             s7 jsonl, s8 tmp, s9 summary, s10 prior                     *)
(*   mode      s1 manifest, s2 variable, s3 main, s4 groups, s5 smoke,     *)
(*             s6 pc, s7 request, s8 seen, s9 evidence, s10 found,         *)
(*             s11 unchecked, s12 late, s13 outside                        *)
(*   labels    s1 job, s2 runner, s3 stack, s4 todo, s5 visited, s6 result *)
(*   build     s1 stage, s2 pc, s3 docker, s4 rec, s5 dir, s6 left,        *)
(*             s7 tampers                                                  *)
(*   layers    s1 layers, s2 entries, s3 ca, s4 tree, s5 treeHolds, s6 fs, *)
(*             s7 world, s8 done, s9 phase, s10 laid, s11 linked           *)
(***************************************************************************)
EXTENDS MCRunners, Sequences, TLAPS

-----------------------------------------------------------------------------
(* The nightly runner                                                      *)

\* A prefix, element by element.
LEMMA PrefixFacts ==
  ASSUME NEW a \in Seq(Nightly!Statuses), NEW b \in Seq(Nightly!Statuses)
  PROVE  Nightly!IsPrefix(a, b) <=> Len(a) <= Len(b) /\ \A i \in 1 .. Len(a) : a[i] = b[i]
<1>1. PICK m \in Nat, n \in Nat : m = Len(a) /\ n = Len(b)
  OBVIOUS
<1>2. SubSeq(a, 1, Len(a)) = [i \in 1 .. m |-> a[i]]
  BY <1>1
<1>3. m <= n => SubSeq(b, 1, Len(a)) = [i \in 1 .. m |-> b[i]]
  BY <1>1
<1>4. [i \in 1 .. m |-> a[i]] = [i \in 1 .. m |-> b[i]] <=> \A i \in 1 .. m : a[i] = b[i]
  <2>1. ASSUME [i \in 1 .. m |-> a[i]] = [i \in 1 .. m |-> b[i]], NEW i \in 1 .. m PROVE a[i] = b[i]
    <3>1. [j \in 1 .. m |-> a[j]][i] = [j \in 1 .. m |-> b[j]][i]
      BY <2>1
    <3> QED BY <3>1
  <2> QED BY <2>1
<1> QED BY <1>1, <1>2, <1>3, <1>4 DEF Nightly!IsPrefix

\* What is appended leaves a prefix a prefix.
LEMMA PrefixOfAppend ==
  ASSUME NEW a \in Seq(Nightly!Statuses), NEW b \in Seq(Nightly!Statuses), NEW x \in Nightly!Statuses, Nightly!IsPrefix(a, b)
  PROVE  Nightly!IsPrefix(a, Append(b, x))
<1>1. Append(b, x) \in Seq(Nightly!Statuses) /\ Len(Append(b, x)) = Len(b) + 1 /\ \A i \in 1 .. Len(b) : Append(b, x)[i] = b[i]
  OBVIOUS
<1>2. Len(a) \in Nat /\ Len(b) \in Nat
  OBVIOUS
<1>3. Len(a) <= Len(b) /\ \A i \in 1 .. Len(a) : a[i] = b[i]
  BY PrefixFacts
<1>4. Len(a) <= Len(Append(b, x)) /\ \A i \in 1 .. Len(a) : a[i] = Append(b, x)[i]
  BY <1>1, <1>2, <1>3
<1> DEFINE c == Append(b, x)
<1> HIDE DEF c
<1>5. c \in Seq(Nightly!Statuses)
  BY <1>1 DEF c
<1>6. Nightly!IsPrefix(a, c)
  BY <1>4, <1>5, PrefixFacts DEF c
<1> QED BY <1>6 DEF c

LEMMA PrefixOfItself ==
  ASSUME NEW a \in Seq(Nightly!Statuses)
  PROVE  Nightly!IsPrefix(a, a) /\ Nightly!IsPrefix(<<>>, a)
<1> DEFINE e == <<>>
<1>1. e \in Seq(Nightly!Statuses) /\ Len(e) = 0 /\ Len(a) \in Nat
  OBVIOUS
<1> HIDE DEF e
<1>2. Nightly!IsPrefix(a, a)
  BY <1>1, PrefixFacts
<1>3. Len(e) <= Len(a) /\ \A i \in 1 .. Len(e) : e[i] = a[i]
  BY <1>1
<1>4. Nightly!IsPrefix(e, a)
  BY <1>1, <1>3, PrefixFacts
<1> QED BY <1>2, <1>4 DEF e

\* Every summary has a sequence of rows.
LEMMA SummaryFacts ==
  ASSUME NEW s \in Nightly!Summary \cup {Nightly!Missing}
  PROVE  s.results \in Seq(Nightly!Statuses)
<1>1. Nightly!Missing.results = <<>>
  BY DEF Nightly!Missing
<1>2. <<>> \in Seq(Nightly!Statuses)
  OBVIOUS
<1>3. s \in Nightly!Summary => s.results \in Seq(Nightly!Statuses)
  BY DEF Nightly!Summary
<1> QED BY <1>1, <1>2, <1>3

NightlyPositions ==
  {"idle", "begin", "inspect", "run", "kill", "row", "tmp", "rename", "final", "release",
   "done", "refused", "killed"}

\* The part of the invariant that is about one invocation.
NightlyOwn(p) ==
  /\ "leader" \in s5[p] => s2[p] \in {"run", "kill", "killed"}
  /\ s2[p] \in {"row", "tmp"} /\ s3[p] \in {"timeout", "interrupted"} => s5[p] = {}
  /\ Nightly!ReportOK(p)

LEMMA NightlyInit ==
  ASSUME Nightly!Init
  PROVE  Nightly!Inv
<1>1. Nightly!TypeOK
  BY DEF Nightly!Init, Nightly!TypeOK, Nightly!Ended, Nightly!Statuses, Nightly!Nobody
<1>2. Nightly!LockOK
  BY DEF Nightly!Init, Nightly!LockOK
<1>3. Nightly!IsPrefix(<<>>, <<>>)
  BY DEF Nightly!IsPrefix
<1>4. \A p \in Invocations : NightlyOwn(p)
  BY <1>3 DEF Nightly!Init, NightlyOwn, Nightly!ReportOK, Nightly!Missing
<1> QED BY <1>1, <1>2, <1>4 DEF Nightly!Inv, Nightly!LeadersOK, Nightly!GroupStopped, NightlyOwn

\* A step of one invocation leaves what is known of the others.
LEMMA NightlyMoves ==
  ASSUME Nightly!Inv, NEW p \in Invocations, Nightly!TypeOK', Nightly!LockOK', NightlyOwn(p)',
         \A q \in Invocations \ {p} :
           /\ s2'[q] = s2[q] /\ s3'[q] = s3[q] /\ s4'[q] = s4[q] /\ s5'[q] = s5[q]
           /\ s7'[q] = s7[q] /\ s8'[q] = s8[q] /\ s9'[q] = s9[q] /\ s10'[q] = s10[q]
  PROVE  Nightly!Inv'
<1>1. ASSUME NEW q \in Invocations \ {p} PROVE NightlyOwn(q)'
  <2>1. NightlyOwn(q)
    BY DEF Nightly!Inv, Nightly!LeadersOK, Nightly!GroupStopped, NightlyOwn
  <2> QED BY <1>1, <2>1 DEF NightlyOwn, Nightly!ReportOK, Nightly!LastRow, Nightly!Last
<1>2. \A q \in Invocations : NightlyOwn(q)'
  BY <1>1
<1> QED BY <1>2 DEF Nightly!Inv, Nightly!LeadersOK, Nightly!GroupStopped, NightlyOwn

\* The types of what a step may change.
LEMMA NightlyTyped ==
  ASSUME Nightly!TypeOK, NEW p \in Invocations, NEW w \in NightlyPositions,
         s2' = [s2 EXCEPT ![p] = w]
  PROVE  /\ s2' \in [Invocations -> NightlyPositions]
         /\ s2'[p] = w
         /\ \A q \in Invocations \ {p} : s2'[q] = s2[q]
BY DEF Nightly!TypeOK, NightlyPositions, Nightly!Ended

\* The lock is as it was, and its holder goes on or ends.
LEMMA NightlyKeepsLock ==
  ASSUME Nightly!Inv, NEW p \in Invocations, NEW w \in NightlyPositions,
         s2' = [s2 EXCEPT ![p] = w], s1' = s1,
         s2[p] \notin Nightly!Ended \cup {"idle"} \/ w \in Nightly!Ended \cup {"idle"}
  PROVE  Nightly!LockOK'
<1>1. s2'[p] = w /\ \A q \in Invocations \ {p} : s2'[q] = s2[q]
  BY NightlyTyped DEF Nightly!Inv
<1> QED BY <1>1 DEF Nightly!Inv, Nightly!LockOK

\* The holder lets the lock go and ends.
LEMMA NightlyFreesLock ==
  ASSUME Nightly!Inv, NEW p \in Invocations, NEW w \in Nightly!Ended,
         s2' = [s2 EXCEPT ![p] = w], s2[p] \notin Nightly!Ended \cup {"idle"}
  PROVE  Nightly!LockOK'
<1>1. s2'[p] = w /\ \A q \in Invocations \ {p} : s2'[q] = s2[q]
  BY NightlyTyped DEF Nightly!Inv, Nightly!Ended, NightlyPositions
<1>2. s1 = p
  BY DEF Nightly!Inv, Nightly!LockOK
<1> QED BY <1>1, <1>2 DEF Nightly!Inv, Nightly!LockOK

LEMMA NightlyAcquires ==
  ASSUME Nightly!Inv, NEW p \in Invocations, Nightly!Acquire(p)
  PROVE  Nightly!Inv'
<1>1. CASE s1 = Nightly!Nobody
  <2>1. s1' = p /\ s2' = [s2 EXCEPT ![p] = "begin"]
    BY <1>1 DEF Nightly!Acquire, Nightly!Goto
  <2>2. s2'[p] = "begin" /\ (\A q \in Invocations \ {p} : s2'[q] = s2[q]) /\ s2' \in [Invocations -> NightlyPositions]
    BY <2>1, NightlyTyped DEF Nightly!Inv, NightlyPositions
  <2>3. Nightly!LockOK'
    <3>1. \A q \in Invocations : s2[q] \in Nightly!Ended \cup {"idle"}
      BY <1>1, NightlyAssumption DEF Nightly!Inv, Nightly!LockOK, Nightly!InvocationsAssumption
    <3> QED BY <2>1, <2>2, <3>1 DEF Nightly!LockOK
  <2>4. Nightly!TypeOK'
    BY <2>1, <2>2 DEF Nightly!Acquire, Nightly!report, Nightly!Inv, Nightly!TypeOK, NightlyPositions, Nightly!Ended
  <2>5. NightlyOwn(p)'
    BY <2>2 DEF Nightly!Acquire, Nightly!report, Nightly!Inv, NightlyOwn, Nightly!LeadersOK, Nightly!ReportOK
  <2> QED BY <2>2, <2>3, <2>4, <2>5, NightlyMoves DEF Nightly!Acquire, Nightly!report
<1>2. CASE s1 # Nightly!Nobody
  <2>1. s1' = s1 /\ s2' = [s2 EXCEPT ![p] = "refused"]
    BY <1>2 DEF Nightly!Acquire, Nightly!Goto
  <2>2. s2'[p] = "refused" /\ (\A q \in Invocations \ {p} : s2'[q] = s2[q]) /\ s2' \in [Invocations -> NightlyPositions]
    BY <2>1, NightlyTyped DEF Nightly!Inv, NightlyPositions
  <2>3. Nightly!LockOK'
    BY <2>1, NightlyKeepsLock DEF NightlyPositions, Nightly!Ended
  <2>4. Nightly!TypeOK'
    BY <2>1, <2>2 DEF Nightly!Acquire, Nightly!report, Nightly!Inv, Nightly!TypeOK, NightlyPositions, Nightly!Ended
  <2>5. NightlyOwn(p)'
    BY <2>2 DEF Nightly!Acquire, Nightly!report, Nightly!Inv, NightlyOwn, Nightly!LeadersOK, Nightly!ReportOK
  <2> QED BY <2>2, <2>3, <2>4, <2>5, NightlyMoves DEF Nightly!Acquire, Nightly!report
<1> QED BY <1>1, <1>2

\* save_summary, first half: what is written aside has the rows so far.
LEMMA NightlyWritesTmp ==
  ASSUME Nightly!Inv, NEW p \in Invocations, NEW status \in {"running", "passed", "failed"},
         s2[p] \in {"begin", "tmp", "final"}, Nightly!WriteTmp(p, status), Nightly!Goto(p, "rename"),
         UNCHANGED <<s1, s3, s4, s5, s6, s7, s9, s10>>,
         status = "passed" => s7[p] = Nightly!AllPassed
  PROVE  Nightly!Inv'
<1> DEFINE new == [status |-> status, results |-> s4[p]]
<1>1. s2' = [s2 EXCEPT ![p] = "rename"] /\ s8' = [s8 EXCEPT ![p] = new]
  BY DEF Nightly!WriteTmp, Nightly!Goto
<1>2. s4[p] \in Seq(Nightly!Statuses) /\ s4[p] = s7[p]
  BY DEF Nightly!Inv, Nightly!TypeOK, Nightly!ReportOK
<1>3. new \in Nightly!Summary /\ new.status = status /\ new.results = s7[p]
  BY <1>2 DEF Nightly!Summary
<1> HIDE DEF new
<1>4. s2'[p] = "rename" /\ (\A q \in Invocations \ {p} : s2'[q] = s2[q]) /\ s2' \in [Invocations -> NightlyPositions]
  BY <1>1, NightlyTyped DEF Nightly!Inv, NightlyPositions
<1>5. s8'[p] = new /\ (\A q \in Invocations \ {p} : s8'[q] = s8[q]) /\ s8' \in [Invocations -> Nightly!Summary \cup {Nightly!Missing}]
  BY <1>1, <1>3 DEF Nightly!Inv, Nightly!TypeOK
<1>6. Nightly!LockOK'
  BY <1>1, NightlyKeepsLock DEF NightlyPositions, Nightly!Ended
<1>7. Nightly!TypeOK'
  BY <1>4, <1>5 DEF Nightly!Inv, Nightly!TypeOK, NightlyPositions, Nightly!Ended
<1>8. Nightly!IsPrefix(new.results, s7[p])
  BY <1>2, <1>3, PrefixOfItself
<1>9. NightlyOwn(p)'
  <2>1. "leader" \notin s5[p] /\ Nightly!ReportOK(p)
    BY DEF Nightly!Inv, Nightly!LeadersOK
  <2>2. s9[p].status # "passed" /\ s10[p].status # "passed"
    BY <2>1 DEF Nightly!ReportOK
  <2> QED BY <2>1, <2>2, <1>3, <1>4, <1>5, <1>8 DEF NightlyOwn, Nightly!ReportOK, Nightly!AllPassed
<1> QED BY <1>4, <1>5, <1>6, <1>7, <1>9, NightlyMoves

\* The verdict is "passed" only for as many passed rows as there are
\* repositories.
LEMMA VerdictFacts ==
  ASSUME Nightly!Inv, NEW p \in Invocations, s2[p] = "final"
  PROVE  /\ Nightly!Verdict(s4[p]) \in {"passed", "failed"}
         /\ Nightly!Verdict(s4[p]) = "passed" => s7[p] = Nightly!AllPassed
<1>1. s4[p] \in Seq(Nightly!Statuses) /\ s4[p] = s7[p] /\ Nightly!LastRow(p)
  BY DEF Nightly!Inv, Nightly!TypeOK, Nightly!ReportOK
<1>2. PICK n \in Nat : n = Len(s4[p]) /\ DOMAIN s4[p] = 1 .. n
  BY <1>1
<1>3. ASSUME Nightly!Verdict(s4[p]) = "passed" PROVE s4[p] = Nightly!AllPassed
  <2>1. \A i \in 1 .. n : s4[p][i] = "passed"
    BY <1>2, <1>3 DEF Nightly!Verdict
  <2>2. s4[p] # <<>> => n \in 1 .. n
    BY <1>1, <1>2
  <2>3. n = Repositories
    BY <1>1, <1>2, <2>1, <2>2 DEF Nightly!LastRow, Nightly!Last
  <2>4. s4[p] = [i \in 1 .. n |-> s4[p][i]]
    BY <1>1, <1>2
  <2> QED BY <2>1, <2>3, <2>4 DEF Nightly!AllPassed
<1> QED BY <1>1, <1>3 DEF Nightly!Verdict

LEMMA NightlySaves ==
  ASSUME Nightly!Inv, NEW p \in Invocations, Nightly!Begin(p) \/ Nightly!SaveRow(p) \/ Nightly!Finish(p)
  PROVE  Nightly!Inv'
<1>1. CASE Nightly!Begin(p)
  BY <1>1, NightlyWritesTmp DEF Nightly!Begin
<1>2. CASE Nightly!SaveRow(p)
  BY <1>2, NightlyWritesTmp DEF Nightly!SaveRow
<1>3. CASE Nightly!Finish(p)
  BY <1>3, VerdictFacts, NightlyWritesTmp DEF Nightly!Finish
<1> QED BY <1>1, <1>2, <1>3

\* The check of a repository, up to its row: the report is not touched.
LEMMA NightlyChecks ==
  ASSUME Nightly!Inv, NEW p \in Invocations, NEW w \in {"run", "kill", "row"},
         NEW status \in Nightly!Statuses, NEW members \in SUBSET {"leader", "descendant"}, NEW out \in BOOLEAN,
         s2[p] \in {"inspect", "run", "kill"},
         s2' = [s2 EXCEPT ![p] = w], s3' = [s3 EXCEPT ![p] = status], s5' = [s5 EXCEPT ![p] = members],
         s6' = [s6 EXCEPT ![p] = out], UNCHANGED <<s1, s4, s7, s8, s9, s10>>,
         w = "row" => "leader" \notin members /\ (status \in {"timeout", "interrupted"} => members = {})
  PROVE  Nightly!Inv'
<1>1. s2'[p] = w /\ (\A q \in Invocations \ {p} : s2'[q] = s2[q]) /\ s2' \in [Invocations -> NightlyPositions]
  BY NightlyTyped DEF Nightly!Inv, NightlyPositions
<1>2. /\ s3'[p] = status /\ (\A q \in Invocations \ {p} : s3'[q] = s3[q]) /\ s3' \in [Invocations -> Nightly!Statuses]
      /\ s5'[p] = members /\ (\A q \in Invocations \ {p} : s5'[q] = s5[q])
      /\ s5' \in [Invocations -> SUBSET {"leader", "descendant"}]
      /\ s6' \in [Invocations -> BOOLEAN]
  BY DEF Nightly!Inv, Nightly!TypeOK
<1>3. Nightly!LockOK'
  BY NightlyKeepsLock DEF NightlyPositions, Nightly!Ended
<1>4. Nightly!TypeOK'
  BY <1>1, <1>2 DEF Nightly!Inv, Nightly!TypeOK, NightlyPositions, Nightly!Ended
<1>5. NightlyOwn(p)'
  <2>1. NightlyOwn(p) /\ Nightly!ReportOK(p)
    BY DEF Nightly!Inv, Nightly!LeadersOK, Nightly!GroupStopped, NightlyOwn
  <2>2. Nightly!ReportOK(p)'
    BY <1>1, <2>1 DEF Nightly!ReportOK
  <2> QED BY <1>1, <1>2, <2>1, <2>2 DEF NightlyOwn
<1>6. \A q \in Invocations \ {p} :
        /\ s2'[q] = s2[q] /\ s3'[q] = s3[q] /\ s4'[q] = s4[q] /\ s5'[q] = s5[q]
        /\ s7'[q] = s7[q] /\ s8'[q] = s8[q] /\ s9'[q] = s9[q] /\ s10'[q] = s10[q]
  BY <1>1, <1>2
<1> QED BY <1>3, <1>4, <1>5, <1>6, NightlyMoves

LEMMA NightlyCheckSteps ==
  ASSUME Nightly!Inv, NEW p \in Invocations,
         Nightly!Inspect(p) \/ Nightly!CheckEnds(p) \/ Nightly!Terminate(p) \/ Nightly!KillGroup(p)
  PROVE  Nightly!Inv'
<1>0. /\ s3[p] \in Nightly!Statuses /\ s3 = [s3 EXCEPT ![p] = s3[p]]
      /\ s6[p] \in BOOLEAN /\ s6 = [s6 EXCEPT ![p] = s6[p]]
      /\ s5[p] \in SUBSET {"leader", "descendant"}
  BY DEF Nightly!Inv, Nightly!TypeOK
<1>1. CASE Nightly!Inspect(p)
  <2>0. s2[p] = "inspect" /\ UNCHANGED <<s1, s4, s7, s8, s9, s10>>
    BY <1>1 DEF Nightly!Inspect, Nightly!report
  <2>1. CASE \E s \in Nightly!Statuses \ {"passed"} :
               /\ s3' = [s3 EXCEPT ![p] = s] /\ s5' = [s5 EXCEPT ![p] = {}]
               /\ s2' = [s2 EXCEPT ![p] = "row"] /\ s6' = s6
    <3>1. PICK s \in Nightly!Statuses :
               /\ s3' = [s3 EXCEPT ![p] = s] /\ s5' = [s5 EXCEPT ![p] = {}]
               /\ s2' = [s2 EXCEPT ![p] = "row"] /\ s6' = [s6 EXCEPT ![p] = s6[p]]
      BY <2>1, <1>0
    <3> QED BY <2>0, <3>1, <1>0, NightlyChecks
  <2>2. CASE /\ s5' = [s5 EXCEPT ![p] = {"leader", "descendant"}] /\ s6' = [s6 EXCEPT ![p] = FALSE]
             /\ s2' = [s2 EXCEPT ![p] = "run"] /\ s3' = s3
    <3>1. s3' = [s3 EXCEPT ![p] = s3[p]]
      BY <2>2, <1>0
    <3> QED BY <2>0, <2>2, <3>1, <1>0, NightlyChecks
  <2> QED BY <1>1, <2>1, <2>2 DEF Nightly!Inspect, Nightly!Goto
<1>2. CASE Nightly!CheckEnds(p)
  <2>1. /\ s2[p] = "run" /\ UNCHANGED <<s1, s4, s6, s7, s8, s9, s10>>
        /\ s5' = [s5 EXCEPT ![p] = s5[p] \ {"leader"}] /\ s2' = [s2 EXCEPT ![p] = "row"]
    BY <1>2 DEF Nightly!CheckEnds, Nightly!report, Nightly!Goto
  <2>2. PICK s \in {"passed", "failed"} : s3' = [s3 EXCEPT ![p] = s]
    BY <1>2 DEF Nightly!CheckEnds
  <2>3. s \in Nightly!Statuses /\ s6' = [s6 EXCEPT ![p] = s6[p]] /\ s5[p] \ {"leader"} \in SUBSET {"leader", "descendant"}
    BY <2>1, <1>0 DEF Nightly!Statuses
  <2> QED BY <2>1, <2>2, <2>3, <1>0, NightlyChecks
<1>3. CASE Nightly!Terminate(p)
  <2> DEFINE s == IF s6[p] THEN "timeout" ELSE "interrupted"
  <2>1. /\ s2[p] = "run" /\ UNCHANGED <<s1, s4, s6, s7, s8, s9, s10>>
        /\ s3' = [s3 EXCEPT ![p] = s] /\ s2' = [s2 EXCEPT ![p] = "kill"]
    BY <1>3 DEF Nightly!Terminate, Nightly!report, Nightly!Goto
  <2>2. PICK rest \in SUBSET s5[p] : s5' = [s5 EXCEPT ![p] = rest]
    BY <1>3 DEF Nightly!Terminate
  <2>3. s \in Nightly!Statuses /\ s6' = [s6 EXCEPT ![p] = s6[p]] /\ rest \in SUBSET {"leader", "descendant"}
    BY <2>1, <2>2, <1>0 DEF Nightly!Statuses
  <2> HIDE DEF s
  <2> QED BY <2>1, <2>2, <2>3, <1>0, NightlyChecks
<1>4. CASE Nightly!KillGroup(p)
  <2>1. /\ s2[p] = "kill" /\ UNCHANGED <<s1, s4, s3, s6, s7, s8, s9, s10>>
        /\ s5' = [s5 EXCEPT ![p] = {}] /\ s2' = [s2 EXCEPT ![p] = "row"]
    BY <1>4 DEF Nightly!KillGroup, Nightly!report, Nightly!Goto
  <2>2. s3' = [s3 EXCEPT ![p] = s3[p]] /\ s6' = [s6 EXCEPT ![p] = s6[p]]
    BY <2>1, <1>0
  <2> QED BY <2>1, <2>2, <1>0, NightlyChecks
<1> QED BY <1>1, <1>2, <1>3, <1>4

\* The row goes to memory and to disk in one step.
LEMMA NightlyAppends ==
  ASSUME Nightly!Inv, NEW p \in Invocations, Nightly!AppendRow(p)
  PROVE  Nightly!Inv'
<1> DEFINE longer == Append(s7[p], s3[p])
<1>1. /\ s2[p] = "row" /\ s2' = [s2 EXCEPT ![p] = "tmp"] /\ UNCHANGED <<s1, s3, s5, s6, s8, s9, s10>>
      /\ s4' = [s4 EXCEPT ![p] = Append(s4[p], s3[p])] /\ s7' = [s7 EXCEPT ![p] = longer]
  BY DEF Nightly!AppendRow, Nightly!Goto
<1>2. /\ s3[p] \in Nightly!Statuses /\ s4[p] = s7[p] /\ s7[p] \in Seq(Nightly!Statuses)
      /\ Nightly!ReportOK(p)
  BY DEF Nightly!Inv, Nightly!TypeOK, Nightly!ReportOK
<1>3. longer \in Seq(Nightly!Statuses) /\ Append(s4[p], s3[p]) = longer
  BY <1>2
<1>4. \A s \in {s8[p], s9[p], s10[p]} : Nightly!IsPrefix(s.results, longer) /\ s.status # "passed"
  <2> SUFFICES ASSUME NEW s \in {s8[p], s9[p], s10[p]} PROVE Nightly!IsPrefix(s.results, longer) /\ s.status # "passed"
    OBVIOUS
  <2>1. s \in Nightly!Summary \cup {Nightly!Missing}
    BY DEF Nightly!Inv, Nightly!TypeOK
  <2>2. s.results \in Seq(Nightly!Statuses)
    BY <2>1, SummaryFacts
  <2>3. Nightly!IsPrefix(s.results, s7[p]) /\ s.status # "passed"
    BY <1>1, <1>2 DEF Nightly!ReportOK
  <2> QED BY <2>2, <2>3, <1>2, PrefixOfAppend
<1> HIDE DEF longer
<1>5. s2'[p] = "tmp" /\ (\A q \in Invocations \ {p} : s2'[q] = s2[q]) /\ s2' \in [Invocations -> NightlyPositions]
  BY <1>1, NightlyTyped DEF Nightly!Inv, NightlyPositions
<1>6. /\ s4'[p] = longer /\ s7'[p] = longer
      /\ \A q \in Invocations \ {p} : s4'[q] = s4[q] /\ s7'[q] = s7[q]
      /\ s4' \in [Invocations -> Seq(Nightly!Statuses)] /\ s7' \in [Invocations -> Seq(Nightly!Statuses)]
  BY <1>1, <1>3 DEF Nightly!Inv, Nightly!TypeOK
<1>7. Nightly!LockOK'
  BY <1>1, NightlyKeepsLock DEF NightlyPositions, Nightly!Ended
<1>8. Nightly!TypeOK'
  BY <1>1, <1>5, <1>6 DEF Nightly!Inv, Nightly!TypeOK, NightlyPositions, Nightly!Ended
<1>9. NightlyOwn(p)'
  <2>1. "leader" \notin s5[p] /\ (s3[p] \in {"timeout", "interrupted"} => s5[p] = {})
    BY <1>1 DEF Nightly!Inv, Nightly!LeadersOK, Nightly!GroupStopped
  <2> QED BY <2>1, <1>1, <1>4, <1>5, <1>6 DEF NightlyOwn, Nightly!ReportOK
<1> QED BY <1>1, <1>5, <1>6, <1>7, <1>8, <1>9, NightlyMoves

\* save_summary, second half.
LEMMA NightlyRenames ==
  ASSUME Nightly!Inv, NEW p \in Invocations, Nightly!Rename(p)
  PROVE  Nightly!Inv'
<1> DEFINE w == IF s8[p].status # "running" THEN "release" ELSE IF Nightly!LastRow(p) THEN "final" ELSE "inspect"
<1>1. /\ s2[p] = "rename" /\ s2' = [s2 EXCEPT ![p] = w] /\ UNCHANGED <<s1, s3, s4, s5, s6, s7, s8>>
      /\ s9' = [s9 EXCEPT ![p] = s8[p]] /\ s10' = [s10 EXCEPT ![p] = s9[p]]
  BY DEF Nightly!Rename, Nightly!Goto
<1>2. /\ w \in {"release", "final", "inspect"} /\ (s8[p].status = "passed" => w = "release")
      /\ (w = "final" => Nightly!LastRow(p))
  OBVIOUS
<1> HIDE DEF w
<1>3. s2'[p] = w /\ (\A q \in Invocations \ {p} : s2'[q] = s2[q]) /\ s2' \in [Invocations -> NightlyPositions]
  BY <1>1, <1>2, NightlyTyped DEF Nightly!Inv, NightlyPositions
<1>4. /\ s9'[p] = s8[p] /\ s10'[p] = s9[p]
      /\ \A q \in Invocations \ {p} : s9'[q] = s9[q] /\ s10'[q] = s10[q]
      /\ s9' \in [Invocations -> Nightly!Summary \cup {Nightly!Missing}]
      /\ s10' \in [Invocations -> Nightly!Summary \cup {Nightly!Missing}]
  BY <1>1 DEF Nightly!Inv, Nightly!TypeOK
<1>5. Nightly!LockOK'
  BY <1>1, <1>2, NightlyKeepsLock DEF NightlyPositions, Nightly!Ended
<1>6. Nightly!TypeOK'
  BY <1>1, <1>3, <1>4 DEF Nightly!Inv, Nightly!TypeOK, NightlyPositions, Nightly!Ended
<1>7. NightlyOwn(p)'
  <2>1. "leader" \notin s5[p] /\ Nightly!ReportOK(p)
    BY <1>1 DEF Nightly!Inv, Nightly!LeadersOK
  <2>2. s9[p].status # "passed" /\ s10[p].status # "passed"
    BY <2>1, <1>1 DEF Nightly!ReportOK
  <2>3. Nightly!LastRow(p)' <=> Nightly!LastRow(p)
    BY <1>1 DEF Nightly!LastRow, Nightly!Last
  <2>4. /\ s7'[p] = s7[p] /\ s4'[p] = s4[p] /\ s8'[p] = s8[p] /\ s5'[p] = s5[p]
        /\ Nightly!IsPrefix(s8[p].results, s7[p]) /\ Nightly!IsPrefix(s9[p].results, s7[p])
        /\ s8[p].status = "passed" => s7[p] = Nightly!AllPassed
        /\ s4[p] = s7[p]
    BY <1>1, <2>1 DEF Nightly!ReportOK
  <2>5. Nightly!ReportOK(p)'
    BY <2>2, <2>3, <2>4, <1>2, <1>3, <1>4 DEF Nightly!ReportOK, Nightly!AllPassed
  <2> QED BY <2>1, <2>4, <2>5, <1>2, <1>3 DEF NightlyOwn
<1> QED BY <1>1, <1>3, <1>4, <1>5, <1>6, <1>7, NightlyMoves

\* An invocation ends: the lock is free.
LEMMA NightlyEnds ==
  ASSUME Nightly!Inv, NEW p \in Invocations, Nightly!Release(p) \/ Nightly!Kill(p)
  PROVE  Nightly!Inv'
<1>1. PICK w \in {"done", "killed"} :
        /\ s2' = [s2 EXCEPT ![p] = w] /\ s1' = Nightly!Nobody /\ UNCHANGED <<s3, s4, s5, s6, s7, s8, s9, s10>>
        /\ s2[p] \notin Nightly!Ended \cup {"idle"} /\ (w = "done" => s2[p] = "release")
  BY DEF Nightly!Release, Nightly!Kill, Nightly!Goto, Nightly!report, Nightly!Ended
<1>2. s2'[p] = w /\ (\A q \in Invocations \ {p} : s2'[q] = s2[q]) /\ s2' \in [Invocations -> NightlyPositions]
  BY <1>1, NightlyTyped DEF Nightly!Inv, NightlyPositions
<1>3. Nightly!LockOK'
  BY <1>1, NightlyFreesLock DEF Nightly!Ended
<1>4. Nightly!TypeOK'
  BY <1>1, <1>2 DEF Nightly!Inv, Nightly!TypeOK, NightlyPositions, Nightly!Ended
<1>5. NightlyOwn(p)'
  BY <1>1, <1>2 DEF Nightly!Inv, NightlyOwn, Nightly!LeadersOK, Nightly!ReportOK
<1> QED BY <1>1, <1>2, <1>3, <1>4, <1>5, NightlyMoves

\* The clock, and members of a group that end by themselves.
LEMMA NightlyAside ==
  ASSUME Nightly!Inv, NEW p \in Invocations, Nightly!Expire(p) \/ Nightly!OrphanEnds(p)
  PROVE  Nightly!Inv'
<1>1. UNCHANGED <<s1, s2, s3, s4, s7, s8, s9, s10>>
  BY DEF Nightly!Expire, Nightly!OrphanEnds, Nightly!report
<1>2. /\ s5' \in [Invocations -> SUBSET {"leader", "descendant"}] /\ s6' \in [Invocations -> BOOLEAN]
      /\ \A q \in Invocations : s5'[q] \subseteq s5[q]
  BY DEF Nightly!Expire, Nightly!OrphanEnds, Nightly!Inv, Nightly!TypeOK
<1>3. Nightly!TypeOK'
  BY <1>1, <1>2 DEF Nightly!Inv, Nightly!TypeOK
<1>4. Nightly!LockOK' /\ Nightly!LeadersOK' /\ Nightly!GroupStopped'
  BY <1>1, <1>2 DEF Nightly!Inv, Nightly!LockOK, Nightly!LeadersOK, Nightly!GroupStopped
<1>5. \A q \in Invocations : Nightly!ReportOK(q)'
  BY <1>1 DEF Nightly!Inv, Nightly!ReportOK, Nightly!LastRow, Nightly!Last
<1> QED BY <1>3, <1>4, <1>5 DEF Nightly!Inv

\* The machine stops; the last summary, or the one before it, is left.
LEMMA NightlyPowerLoss ==
  ASSUME Nightly!Inv, Nightly!PowerLoss
  PROVE  Nightly!Inv'
<1>1. /\ s1' = Nightly!Nobody /\ UNCHANGED <<s3, s4, s6, s7, s8, s10>>
      /\ s2' = [q \in Invocations |-> IF s2[q] \in Nightly!Ended \cup {"idle"} THEN s2[q] ELSE "killed"]
      /\ s5' = [q \in Invocations |-> {}]
  BY DEF Nightly!PowerLoss
<1>2. \A q \in Invocations : s9'[q] \in {s9[q], s10[q]}
  BY DEF Nightly!PowerLoss
<1>3. s9' \in [Invocations -> Nightly!Summary \cup {Nightly!Missing}]
  <2>1. s9' \in [Invocations -> {s9[q] : q \in Invocations} \cup {s10[q] : q \in Invocations}]
    BY DEF Nightly!PowerLoss
  <2>2. \A q \in Invocations : s9[q] \in Nightly!Summary \cup {Nightly!Missing} /\ s10[q] \in Nightly!Summary \cup {Nightly!Missing}
    BY DEF Nightly!Inv, Nightly!TypeOK
  <2>3. \A q \in Invocations : s9'[q] \in Nightly!Summary \cup {Nightly!Missing}
    BY <1>2, <2>2
  <2>4. s9' = [q \in Invocations |-> s9'[q]]
    BY <2>1
  <2> QED BY <2>3, <2>4
<1>4. \A q \in Invocations : s2[q] \in NightlyPositions
  BY DEF Nightly!Inv, Nightly!TypeOK, NightlyPositions, Nightly!Ended
<1>5. \A q \in Invocations : s2'[q] \in Nightly!Ended \cup {"idle"} /\ (s2'[q] = s2[q] \/ s2'[q] = "killed") /\ s5'[q] = {}
  BY <1>1 DEF Nightly!Ended
<1>6. Nightly!TypeOK'
  BY <1>1, <1>3, <1>4 DEF Nightly!Inv, Nightly!TypeOK, NightlyPositions, Nightly!Ended
<1>7. Nightly!LockOK' /\ Nightly!LeadersOK' /\ Nightly!GroupStopped'
  BY <1>5 DEF Nightly!LockOK, Nightly!LeadersOK, Nightly!GroupStopped
<1>8. ASSUME NEW q \in Invocations PROVE Nightly!ReportOK(q)'
  <2>1. Nightly!ReportOK(q)
    BY DEF Nightly!Inv
  <2>2. s2'[q] # "rename" /\ s2'[q] # "final" /\ (s2'[q] = s2[q] \/ s2'[q] = "killed")
    BY <1>5 DEF Nightly!Ended
  <2> QED BY <2>1, <2>2, <1>1, <1>2 DEF Nightly!ReportOK, Nightly!AllPassed
<1> QED BY <1>6, <1>7, <1>8 DEF Nightly!Inv

LEMMA NightlyKeeps ==
  ASSUME part = "nightly" => Nightly!Inv, [Next]_vars
  PROVE  (part = "nightly" => Nightly!Inv)'
<1>1. CASE NightlyStep
  <2>1. part = "nightly" /\ part' = part /\ Nightly!Inv
    BY <1>1 DEF NightlyStep
  <2>2. ASSUME NEW p \in Invocations,
               \/ Nightly!Acquire(p) \/ Nightly!Begin(p) \/ Nightly!Inspect(p) \/ Nightly!CheckEnds(p) \/ Nightly!Expire(p)
               \/ Nightly!Terminate(p) \/ Nightly!KillGroup(p) \/ Nightly!AppendRow(p) \/ Nightly!SaveRow(p) \/ Nightly!Rename(p)
               \/ Nightly!Finish(p) \/ Nightly!Release(p) \/ Nightly!Kill(p) \/ Nightly!OrphanEnds(p)
        PROVE  Nightly!Inv'
    BY <2>1, <2>2, NightlyAcquires, NightlySaves, NightlyCheckSteps, NightlyAppends, NightlyRenames, NightlyEnds, NightlyAside
  <2> QED BY <1>1, <2>1, <2>2, NightlyPowerLoss DEF NightlyStep, Nightly!Next
<1>2. CASE ~NightlyStep /\ Next
  BY <1>2 DEF Next, ModeStep, LabelsStep, ArchiveStep, LayersStep, BuildStep
<1>3. CASE UNCHANGED vars
  BY <1>3 DEF vars, Nightly!Inv, Nightly!TypeOK, Nightly!LockOK, Nightly!LeadersOK, Nightly!GroupStopped,
     Nightly!ReportOK, Nightly!LastRow, Nightly!Last
<1> QED BY <1>1, <1>2, <1>3

\* run_nightly: what is known of every invocation and of its report on disk.
THEOREM NightlyInvHolds == Spec => [](part = "nightly" => Nightly!Inv)
<1>1. Init => (part = "nightly" => Nightly!Inv)
  BY NightlyInit DEF Init
<1>2. (part = "nightly" => Nightly!Inv) /\ [Next]_vars => (part = "nightly" => Nightly!Inv)'
  BY NightlyKeeps
<1> QED BY <1>1, <1>2, PTL DEF Spec

\* run_nightly: checks of one log root run one after the other unless an
\* invocation was killed from outside, a timed-out check is gone with its
\* descendants before its row is written, and the report on disk never claims
\* more than was checked, for any number of invocations and repositories.
THEOREM NightlyTruthHolds == Spec => []NightlyTruth
<1>1. ASSUME Nightly!Inv PROVE Nightly!SerialChecks
  BY <1>1 DEF Nightly!Inv, Nightly!LeadersOK, Nightly!LockOK, Nightly!SerialChecks, Nightly!Ended
<1>2. ASSUME Nightly!Inv PROVE Nightly!DurableTruth
  BY <1>2 DEF Nightly!Inv, Nightly!ReportOK, Nightly!AllPassed, Nightly!DurableTruth
<1>3. (part = "nightly" => Nightly!Inv) => NightlyTruth
  BY <1>1, <1>2 DEF NightlyTruth, Nightly!Inv
<1> QED BY <1>3, NightlyInvHolds, PTL

-----------------------------------------------------------------------------
(* The runner mode                                                         *)

ModeOwn(i) == Mode!ConfiguredOK(i) /\ Mode!LooksOK(i)
ModeSettings(g) == <<s4[g].id, s4[g].public, s4[g].restricted>>

LEMMA ModeInit ==
  ASSUME Mode!Init
  PROVE  Mode!Inv
<1>1. Mode!TypeOK
  <2>1. s1 \in Mode!Manifests /\ s3 \in 0 .. 1 /\ s2 \in [value : Mode!Values, version : Nat]
    BY DEF Mode!Init, Mode!Values
  <2>2. s4 \in [Mode!Groups -> Mode!GroupStates]
    BY <2>1 DEF Mode!Init, Mode!Manifests, Mode!GroupStates
  <2>3. s5 \in Mode!SmokeRuns
    BY DEF Mode!Init, Mode!SmokeRuns
  <2>4. Mode!NoEvidence \in Mode!Evidence
    BY DEF Mode!NoEvidence, Mode!Evidence
  <2>5. /\ s6 \in [Switches -> Mode!Positions] /\ s7 \in [Switches -> {"github", "k3s"}]
        /\ s11 = [i \in Switches |-> {}] /\ s12 = [i \in Switches |-> {}]
    BY DEF Mode!Init, Mode!Positions
  <2>7. s11 \in [Switches -> SUBSET Mode!Groups] /\ s12 \in [Switches -> SUBSET Mode!Items]
    BY <2>5
  <2>6. /\ s8 \in [Switches -> [value : Mode!Values, version : Nat]]
        /\ s9 \in [Switches -> Mode!Evidence] /\ s10 \in [Switches -> Mode!Evidence]
    BY <2>1, <2>4 DEF Mode!Init
  <2> QED BY <2>1, <2>2, <2>3, <2>5, <2>6, <2>7 DEF Mode!TypeOK
<1>2. \A i \in Switches : ModeOwn(i)
  BY DEF Mode!Init, ModeOwn, Mode!ConfiguredOK, Mode!LooksOK, Mode!After
<1> QED BY <1>1, <1>2 DEF Mode!Inv, ModeOwn

\* What is known of an invocation stays known when others move, as long as a
\* change of what it looked at is late for it.
LEMMA ModeOther ==
  ASSUME Mode!Inv, NEW i \in Switches, s1' = s1,
         s6'[i] = s6[i], s7'[i] = s7[i], s8'[i] = s8[i], s10'[i] = s10[i], s11'[i] = s11[i],
         s12[i] \subseteq s12'[i],
         Mode!Second(i) => /\ "variable" \in s12'[i] \/ s2' = s2
                           /\ "main" \in s12'[i] \/ s3' = s3
                           /\ "smoke" \in s12'[i] \/ s5' = s5
                           /\ \A g \in Mode!Groups :
                                /\ g \in s12'[i] \/ ModeSettings(g)' = ModeSettings(g)
                                /\ Mode!Access[g] \in s12'[i] \/ s4'[g].repositories = s4[g].repositories
  PROVE  ModeOwn(i)'
<1>1. ModeOwn(i) /\ Mode!TypeOK
  BY DEF Mode!Inv, ModeOwn
<1>2. Mode!ConfiguredOK(i)'
  BY <1>1 DEF ModeOwn, Mode!ConfiguredOK, Mode!Configured
<1>3. \A positions : (Mode!After(i, positions)' <=> Mode!After(i, positions))
  BY DEF Mode!After
<1>4. \A positions \in SUBSET {"run2", "list2", "groups2", "jobs2"} : Mode!After(i, positions) => Mode!Second(i)
  BY DEF Mode!After, Mode!Second
<1>5. s1.pools \subseteq Mode!Groups
  BY <1>1 DEF Mode!TypeOK, Mode!Manifests, Mode!Groups
<1>6. (s6[i] = "write" => Mode!Holds(i, "variable", s2 = s8[i]))'
  BY <1>1 DEF ModeOwn, Mode!LooksOK, Mode!Holds, Mode!Second
<1>7. (Mode!After(i, {"run2", "list2", "groups2", "jobs2"}) => Mode!Holds(i, "main", s3 = 0))'
  BY <1>1, <1>3, <1>4 DEF ModeOwn, Mode!LooksOK, Mode!Holds
<1>8. (Mode!After(i, {"list2", "groups2", "jobs2"}) => Mode!Holds(i, "smoke", s5.passed /\ s5.recent))'
  BY <1>1, <1>3, <1>4 DEF ModeOwn, Mode!LooksOK, Mode!Holds
<1>9. (Mode!After(i, {"groups2", "jobs2"}) =>
         \A g \in s1.pools : Mode!Holds(i, g, Mode!GroupOK(i, g)))'
  <2> SUFFICES ASSUME Mode!After(i, {"groups2", "jobs2"}), NEW g \in s1.pools
               PROVE  g \in s12'[i] \/ Mode!GroupOK(i, g)'
    BY <1>3 DEF Mode!Holds
  <2>1. g \in s12[i] \/ Mode!GroupOK(i, g)
    BY <1>1 DEF ModeOwn, Mode!LooksOK, Mode!Holds
  <2>2. g \in Mode!Groups /\ Mode!Second(i)
    BY <1>4, <1>5
  <2>3. ModeSettings(g)' = ModeSettings(g) => (Mode!GroupOK(i, g)' <=> Mode!GroupOK(i, g))
    BY DEF Mode!GroupOK, Mode!SettingsHold, ModeSettings
  <2> QED BY <2>1, <2>2, <2>3
<1>13. (Mode!After(i, {"groups2", "jobs2"}) =>
          \A g \in s1.pools \ s11[i] : Mode!Holds(i, Mode!Access[g], Mode!AccessHolds(g)))'
  <2> SUFFICES ASSUME Mode!After(i, {"groups2", "jobs2"}), NEW g \in s1.pools \ s11[i]
               PROVE  Mode!Access[g] \in s12'[i] \/ Mode!AccessHolds(g)'
    BY <1>3 DEF Mode!Holds
  <2>1. Mode!Access[g] \in s12[i] \/ Mode!AccessHolds(g)
    BY <1>1 DEF ModeOwn, Mode!LooksOK, Mode!Holds
  <2>2. g \in Mode!Groups /\ Mode!Second(i)
    BY <1>4, <1>5
  <2>3. s4'[g].repositories = s4[g].repositories => (Mode!AccessHolds(g)' <=> Mode!AccessHolds(g))
    BY DEF Mode!AccessHolds
  <2> QED BY <2>1, <2>2, <2>3
<1>10. (Mode!After(i, {"jobs2"}) => s11[i] = {})'
  BY <1>1, <1>3 DEF ModeOwn, Mode!LooksOK
<1>11. (Mode!After(i, {}) => Mode!Holds(i, "smoke", \A g \in s1.pools : s5.ids[g] = s10[i].ids[g]))'
  BY <1>1, <1>3, <1>4 DEF ModeOwn, Mode!LooksOK, Mode!Holds
<1>12. Mode!LooksOK(i)'
  BY <1>6, <1>7, <1>8, <1>9, <1>10, <1>11, <1>13 DEF Mode!LooksOK
<1> QED BY <1>2, <1>12 DEF ModeOwn

\* A step of one invocation that only reads.
LEMMA ModeReads ==
  ASSUME Mode!Inv, NEW i \in Switches, Mode!Quiet, Mode!TypeOK', ModeOwn(i)',
         \A j \in Switches \ {i} : /\ s6'[j] = s6[j] /\ s8'[j] = s8[j] /\ s10'[j] = s10[j]
                                   /\ s11'[j] = s11[j] /\ s12'[j] = s12[j]
  PROVE  Mode!Inv'
<1>1. ASSUME NEW j \in Switches \ {i} PROVE ModeOwn(j)'
  BY <1>1, ModeOther DEF Mode!Quiet, Mode!github, ModeSettings
<1> QED BY <1>1 DEF Mode!Inv, ModeOwn

\* The types of what a reading step of an invocation may change.
LEMMA ModeTyped ==
  ASSUME Mode!Inv, NEW i \in Switches, Mode!Quiet, NEW w \in Mode!Positions, s6' = [s6 EXCEPT ![i] = w],
         NEW v \in [value : Mode!Values, version : Nat], s8' = [s8 EXCEPT ![i] = v],
         NEW e \in Mode!Evidence, s9' = [s9 EXCEPT ![i] = e],
         NEW f \in Mode!Evidence, s10' = [s10 EXCEPT ![i] = f],
         NEW u \in SUBSET Mode!Groups, s11' = [s11 EXCEPT ![i] = u],
         NEW l \in SUBSET Mode!Items, s12' = [s12 EXCEPT ![i] = l],
         ModeOwn(i)'
  PROVE  Mode!Inv'
<1>1. /\ s6' \in [Switches -> Mode!Positions] /\ s8' \in [Switches -> [value : Mode!Values, version : Nat]]
      /\ s9' \in [Switches -> Mode!Evidence] /\ s10' \in [Switches -> Mode!Evidence]
      /\ s11' \in [Switches -> SUBSET Mode!Groups] /\ s12' \in [Switches -> SUBSET Mode!Items]
  BY DEF Mode!Inv, Mode!TypeOK
<1>2. Mode!TypeOK'
  BY <1>1 DEF Mode!Inv, Mode!TypeOK, Mode!Quiet, Mode!github
<1>3. \A j \in Switches \ {i} : /\ s6'[j] = s6[j] /\ s8'[j] = s8[j] /\ s10'[j] = s10[j]
                                /\ s11'[j] = s11[j] /\ s12'[j] = s12[j]
  BY DEF Mode!Inv, Mode!TypeOK
<1> QED BY <1>2, <1>3, ModeReads

\* The variables of an invocation, as they are.
LEMMA ModeOwnTypes ==
  ASSUME Mode!Inv, NEW i \in Switches
  PROVE  /\ s2 \in [value : Mode!Values, version : Nat]
         /\ s8[i] \in [value : Mode!Values, version : Nat] /\ s8 = [s8 EXCEPT ![i] = s8[i]]
         /\ s9[i] \in Mode!Evidence /\ s9 = [s9 EXCEPT ![i] = s9[i]]
         /\ s10[i] \in Mode!Evidence /\ s10 = [s10 EXCEPT ![i] = s10[i]]
         /\ s11[i] \in SUBSET Mode!Groups /\ s11 = [s11 EXCEPT ![i] = s11[i]]
         /\ s12[i] \in SUBSET Mode!Items /\ s12 = [s12 EXCEPT ![i] = s12[i]]
         /\ i \in DOMAIN s6 /\ i \in DOMAIN s8 /\ i \in DOMAIN s9 /\ i \in DOMAIN s10 /\ i \in DOMAIN s11 /\ i \in DOMAIN s12
         /\ s7[i] \in {"github", "k3s"}
         /\ Mode!ConfiguredOK(i) /\ Mode!LooksOK(i)
BY DEF Mode!Inv, Mode!TypeOK

\* Steps that only move the control point.
LEMMA ModeMoves ==
  ASSUME Mode!Inv, NEW i \in Switches, Mode!Quiet, NEW w \in Mode!Positions, s6' = [s6 EXCEPT ![i] = w],
         UNCHANGED <<s8, s9, s10, s11, s12>>, ModeOwn(i)'
  PROVE  Mode!Inv'
<1>1. /\ s8' = [s8 EXCEPT ![i] = s8[i]] /\ s9' = [s9 EXCEPT ![i] = s9[i]] /\ s10' = [s10 EXCEPT ![i] = s10[i]]
      /\ s11' = [s11 EXCEPT ![i] = s11[i]] /\ s12' = [s12 EXCEPT ![i] = s12[i]]
  BY ModeOwnTypes
<1> QED BY <1>1, ModeOwnTypes, ModeTyped

LEMMA ModeSimpleSteps ==
  ASSUME Mode!Inv, NEW i \in Switches,
         \/ Mode!Refuse(i) \/ Mode!LoadConfig(i) \/ Mode!DryRun(i) \/ Mode!Apply(i) \/ Mode!Readback(i)
  PROVE  Mode!Inv'
<1>0. i \in DOMAIN s6 /\ Mode!ConfiguredOK(i)
  BY ModeOwnTypes
<1>1. PICK w \in {"refused", "state", "planned", "main2", "latest", "done"} :
        /\ s6' = [s6 EXCEPT ![i] = w] /\ Mode!Quiet /\ UNCHANGED <<s8, s9, s10, s11, s12>>
        /\ w = "latest" => s7[i] # "k3s"
        /\ w # "refused" => Mode!Configured(s1)
  BY <1>0 DEF Mode!Refuse, Mode!LoadConfig, Mode!DryRun, Mode!Apply, Mode!Readback, Mode!Goto, Mode!ConfiguredOK
<1>2. s6'[i] = w /\ s1' = s1 /\ s7' = s7
  BY <1>0, <1>1 DEF Mode!Quiet
<1>3. Mode!ConfiguredOK(i)'
  BY <1>1, <1>2 DEF Mode!ConfiguredOK, Mode!Configured
<1>4. Mode!LooksOK(i)'
  BY <1>1, <1>2 DEF Mode!LooksOK, Mode!After
<1> QED BY <1>1, <1>3, <1>4, ModeMoves DEF ModeOwn, Mode!Positions

LEMMA ModeRepoState ==
  ASSUME Mode!Inv, NEW i \in Switches, Mode!RepoState(i)
  PROVE  Mode!Inv'
<1>0. i \in DOMAIN s6 /\ Mode!ConfiguredOK(i)
  BY ModeOwnTypes
<1>1. PICK w \in {"main1", "plan"} :
        /\ s6[i] = "state" /\ s6' = [s6 EXCEPT ![i] = w] /\ Mode!Quiet /\ s8' = [s8 EXCEPT ![i] = s2] /\ UNCHANGED <<s9, s10, s11, s12>>
  BY DEF Mode!RepoState, Mode!Goto
<1>2. s6'[i] = w /\ s1' = s1 /\ s7' = s7
  BY <1>0, <1>1 DEF Mode!Quiet
<1>3. Mode!ConfiguredOK(i)'
  BY <1>0, <1>1, <1>2 DEF Mode!ConfiguredOK, Mode!Configured
<1>4. Mode!LooksOK(i)'
  BY <1>1, <1>2 DEF Mode!LooksOK, Mode!After
<1>5. /\ s9' = [s9 EXCEPT ![i] = s9[i]] /\ s10' = [s10 EXCEPT ![i] = s10[i]]
      /\ s11' = [s11 EXCEPT ![i] = s11[i]] /\ s12' = [s12 EXCEPT ![i] = s12[i]]
  BY <1>1, ModeOwnTypes
<1> QED BY <1>1, <1>3, <1>4, <1>5, ModeOwnTypes, ModeTyped DEF ModeOwn, Mode!Positions

\* A look in the second check leaves nothing late about what was looked at.
LEMMA ModeLooked ==
  ASSUME Mode!Inv, NEW i \in Switches, NEW items \in SUBSET Mode!Items, Mode!Looked(i, items)
  PROVE  \E l \in SUBSET Mode!Items :
           /\ s12' = [s12 EXCEPT ![i] = l] /\ s12'[i] = l /\ (Mode!Second(i) => l = s12[i] \ items) /\ (~Mode!Second(i) => l = s12[i])
<1>1. i \in DOMAIN s12 /\ s12[i] \in SUBSET Mode!Items
  BY ModeOwnTypes
<1> DEFINE l == IF Mode!Second(i) THEN s12[i] \ items ELSE s12[i]
<1>2. l \in SUBSET Mode!Items /\ s12' = [s12 EXCEPT ![i] = l] /\ s12'[i] = l
  BY <1>1 DEF Mode!Looked
<1> QED BY <1>2

\* reviewed_main
LEMMA ModeReviewedMain ==
  ASSUME Mode!Inv, NEW i \in Switches, Mode!ReviewedMain(i)
  PROVE  Mode!Inv'
<1>0. i \in DOMAIN s6 /\ Mode!ConfiguredOK(i) /\ Mode!LooksOK(i)
  BY ModeOwnTypes
<1>1. PICK w \in {"run1", "run2"} :
        /\ s6[i] \in {"main1", "main2"} /\ s3 = 0 /\ s6' = [s6 EXCEPT ![i] = w] /\ Mode!Quiet /\ UNCHANGED <<s8, s9, s10, s11>>
  BY DEF Mode!ReviewedMain, Mode!Goto
<1>2. PICK l \in SUBSET Mode!Items : s12' = [s12 EXCEPT ![i] = l]
  BY ModeLooked DEF Mode!ReviewedMain, Mode!Items
<1>3. s6'[i] = w /\ s1' = s1 /\ s3' = s3
  BY <1>0, <1>1 DEF Mode!Quiet, Mode!github
<1>4. Mode!ConfiguredOK(i)'
  BY <1>0, <1>1, <1>3 DEF Mode!ConfiguredOK, Mode!Configured
<1>5. Mode!LooksOK(i)'
  BY <1>1, <1>3 DEF Mode!LooksOK, Mode!After, Mode!Holds
<1>6. /\ s8' = [s8 EXCEPT ![i] = s8[i]] /\ s9' = [s9 EXCEPT ![i] = s9[i]] /\ s10' = [s10 EXCEPT ![i] = s10[i]]
      /\ s11' = [s11 EXCEPT ![i] = s11[i]]
  BY <1>1, ModeOwnTypes
<1> QED BY <1>1, <1>2, <1>4, <1>5, <1>6, ModeOwnTypes, ModeTyped DEF ModeOwn, Mode!Positions

\* verify_smoke: the run
LEMMA ModeSmokeRun ==
  ASSUME Mode!Inv, NEW i \in Switches, Mode!SmokeRun(i)
  PROVE  Mode!Inv'
<1> DEFINE f == [Mode!NoEvidence EXCEPT !.attempt = s5.attempt]
<1>0. i \in DOMAIN s6 /\ Mode!ConfiguredOK(i) /\ Mode!LooksOK(i)
  BY ModeOwnTypes
<1>1. PICK w \in {"list1", "list2"} :
        /\ s6[i] \in {"run1", "run2"} /\ (w = "list2" => s6[i] = "run2") /\ s6' = [s6 EXCEPT ![i] = w] /\ Mode!Quiet /\ UNCHANGED <<s8, s9, s11>>
        /\ s5.passed /\ s5.recent /\ s10' = [s10 EXCEPT ![i] = f]
  BY DEF Mode!SmokeRun, Mode!Goto
<1>2. PICK l \in SUBSET Mode!Items :
        s12' = [s12 EXCEPT ![i] = l] /\ s12'[i] = l /\ (Mode!Second(i) => l = s12[i] \ {"smoke"})
  BY ModeLooked DEF Mode!SmokeRun, Mode!Items
<1>3. s6'[i] = w /\ s1' = s1 /\ s3' = s3 /\ s5' = s5
  BY <1>0, <1>1 DEF Mode!Quiet, Mode!github
<1>4. Mode!ConfiguredOK(i)'
  BY <1>0, <1>1, <1>3 DEF Mode!ConfiguredOK, Mode!Configured
<1>5. w = "list2" => "main" \in s12'[i] \/ s3 = 0
  BY <1>0, <1>1, <1>2 DEF Mode!LooksOK, Mode!After, Mode!Holds, Mode!Second
<1>6. Mode!LooksOK(i)'
  BY <1>1, <1>3, <1>5 DEF Mode!LooksOK, Mode!After, Mode!Holds
<1>7. f \in Mode!Evidence
  <2>1. s5.attempt \in 1 .. 2
    BY DEF Mode!Inv, Mode!TypeOK, Mode!SmokeRuns
  <2>2. f = [attempt |-> s5.attempt, ids |-> [g \in Mode!Groups |-> 0]]
    BY DEF Mode!NoEvidence
  <2>3. [g \in Mode!Groups |-> 0] \in [Mode!Groups -> 0 .. 2]
    OBVIOUS
  <2> QED BY <2>1, <2>2, <2>3 DEF Mode!Evidence
<1>8. s8' = [s8 EXCEPT ![i] = s8[i]] /\ s9' = [s9 EXCEPT ![i] = s9[i]] /\ s11' = [s11 EXCEPT ![i] = s11[i]]
  BY <1>1, ModeOwnTypes
<1> HIDE DEF f
<1> QED BY <1>1, <1>2, <1>4, <1>6, <1>7, <1>8, ModeOwnTypes, ModeTyped DEF ModeOwn, Mode!Positions

\* The name of a group and that of its repositories are items of their own.
LEMMA ModeItems ==
  /\ Mode!Groups \subseteq Mode!Items
  /\ \A g \in Mode!Groups :
       /\ Mode!Access[g] \in Mode!Items /\ Mode!Access[g] \notin Mode!Groups
       /\ g \notin {"variable", "main", "smoke"} /\ Mode!Access[g] \notin {"variable", "main", "smoke"}
       /\ \A h \in Mode!Groups : h # g => Mode!Access[h] # Mode!Access[g]
BY DEF Mode!Groups, Mode!Access, Mode!Items

\* verify_groups: the list
LEMMA ModeListGroups ==
  ASSUME Mode!Inv, NEW i \in Switches, Mode!ListGroups(i)
  PROVE  Mode!Inv'
<1> DEFINE ids == [g \in Mode!Groups |-> IF g \in s1.pools THEN s4[g].id ELSE 0]
           f == [s10[i] EXCEPT !.ids = ids]
<1>0. /\ i \in DOMAIN s6 /\ i \in DOMAIN s10 /\ i \in DOMAIN s11 /\ Mode!ConfiguredOK(i) /\ Mode!LooksOK(i)
      /\ s10[i] \in Mode!Evidence
  BY ModeOwnTypes
<1>a. s11' = [s11 EXCEPT ![i] = s1.pools] /\ s11'[i] = s1.pools /\ s10' = [s10 EXCEPT ![i] = f] /\ s10'[i] = f
  BY <1>0 DEF Mode!ListGroups
<1>b. ids \in [Mode!Groups -> 0 .. 2]
  <2>1. \A g \in Mode!Groups : s4[g].id \in 0 .. 2
    BY DEF Mode!Inv, Mode!TypeOK, Mode!GroupStates
  <2> QED BY <2>1
<1>d. s1.pools \in SUBSET Mode!Groups
  BY DEF Mode!Inv, Mode!TypeOK, Mode!Manifests, Mode!Groups
<1>c. f \in Mode!Evidence /\ \A g \in s1.pools : f.ids[g] = s4[g].id
  <2>1. \A g \in s1.pools : ids[g] = s4[g].id
    BY <1>d
  <2> HIDE DEF ids
  <2> QED BY <1>0, <1>b, <2>1 DEF Mode!Evidence
<1> HIDE DEF f
<1>1. PICK w \in {"groups1", "groups2"} :
        /\ s6[i] \in {"list1", "list2"} /\ (w = "groups2" => s6[i] = "list2") /\ s6' = [s6 EXCEPT ![i] = w]
        /\ Mode!Quiet /\ UNCHANGED <<s8, s9>>
        /\ \A g \in s1.pools : Mode!SettingsHold(g)
  BY DEF Mode!ListGroups, Mode!Goto
<1>2. PICK l \in SUBSET Mode!Items :
        s12' = [s12 EXCEPT ![i] = l] /\ s12'[i] = l /\ (Mode!Second(i) => l = s12[i] \ s1.pools)
  <2>1. s1.pools \in SUBSET Mode!Items
    BY <1>d, ModeItems
  <2> QED BY <2>1, ModeLooked DEF Mode!ListGroups
<1>3. s6'[i] = w /\ UNCHANGED <<s1, s2, s3, s4, s5, s7>>
  BY <1>0, <1>1 DEF Mode!Quiet, Mode!github
<1>4. Mode!ConfiguredOK(i)'
  BY <1>0, <1>1, <1>3 DEF Mode!ConfiguredOK, Mode!Configured
<1>5. ASSUME w = "groups2"
      PROVE  ("main" \in s12'[i] \/ s3 = 0) /\ ("smoke" \in s12'[i] \/ (s5.passed /\ s5.recent))
  <2>1. s6[i] = "list2" /\ Mode!Second(i)
    BY <1>1, <1>5 DEF Mode!Second
  <2>2. ("main" \in s12[i] \/ s3 = 0) /\ ("smoke" \in s12[i] \/ (s5.passed /\ s5.recent))
    BY <1>0, <2>1 DEF Mode!LooksOK, Mode!After, Mode!Holds
  <2>3. "main" \notin s1.pools /\ "smoke" \notin s1.pools
    BY <1>d, ModeItems
  <2> QED BY <1>2, <2>1, <2>2, <2>3
<1>6. \A g \in s1.pools : Mode!GroupOK(i, g)'
  BY <1>1, <1>3, <1>a, <1>c DEF Mode!GroupOK, Mode!SettingsHold
<1>7. Mode!LooksOK(i)'
  <2>1. s1'.pools \ s11'[i] = {} /\ s1'.pools = s1.pools
    BY <1>a, <1>3
  <2> QED BY <1>1, <1>3, <1>5, <1>6, <2>1 DEF Mode!LooksOK, Mode!After, Mode!Holds
<1>8. s8' = [s8 EXCEPT ![i] = s8[i]] /\ s9' = [s9 EXCEPT ![i] = s9[i]]
  BY <1>1, ModeOwnTypes
<1> QED BY <1>1, <1>2, <1>4, <1>7, <1>8, <1>a, <1>c, <1>d, ModeOwnTypes, ModeTyped DEF ModeOwn, Mode!Positions

\* verify_groups: the repositories of one group
LEMMA ModeVerifyGroup ==
  ASSUME Mode!Inv, NEW i \in Switches, NEW g \in Mode!Groups, Mode!VerifyGroup(i, g)
  PROVE  Mode!Inv'
<1> DEFINE u == s11[i] \ {g}
<1>0. /\ i \in DOMAIN s6 /\ i \in DOMAIN s11 /\ Mode!ConfiguredOK(i) /\ Mode!LooksOK(i)
      /\ s11[i] \in SUBSET Mode!Groups
  BY ModeOwnTypes
<1>a. s11' = [s11 EXCEPT ![i] = u] /\ s11'[i] = u /\ s10' = s10
  BY <1>0 DEF Mode!VerifyGroup
<1>d. u \in SUBSET Mode!Groups
  BY <1>0
<1>1. PICK w \in {"groups1", "jobs1", "groups2", "jobs2"} :
        /\ s6[i] \in {"groups1", "groups2"} /\ s6' = [s6 EXCEPT ![i] = w] /\ Mode!Quiet /\ UNCHANGED <<s8, s9>>
        /\ w \in {"groups2", "jobs2"} => s6[i] = "groups2"
        /\ w = "jobs2" => u = {}
        /\ Mode!AccessHolds(g)
  BY <1>a DEF Mode!VerifyGroup, Mode!Goto
<1>2. PICK l \in SUBSET Mode!Items :
        s12' = [s12 EXCEPT ![i] = l] /\ s12'[i] = l /\ (Mode!Second(i) => l = s12[i] \ {Mode!Access[g]})
  <2>1. {Mode!Access[g]} \in SUBSET Mode!Items
    BY ModeItems
  <2> QED BY <2>1, ModeLooked DEF Mode!VerifyGroup
<1>3. s6'[i] = w /\ UNCHANGED <<s1, s2, s3, s4, s5, s7>>
  BY <1>0, <1>1 DEF Mode!Quiet, Mode!github
<1>4. Mode!ConfiguredOK(i)'
  BY <1>0, <1>1, <1>3 DEF Mode!ConfiguredOK, Mode!Configured
<1>5. ASSUME s6[i] = "groups2"
      PROVE  /\ "main" \in s12'[i] \/ s3 = 0
             /\ "smoke" \in s12'[i] \/ (s5.passed /\ s5.recent)
             /\ \A h \in s1.pools : h \in s12'[i] \/ Mode!GroupOK(i, h)'
             /\ \A h \in s1.pools \ u : Mode!Access[h] \in s12'[i] \/ Mode!AccessHolds(h)'
  <2>1. /\ "main" \in s12[i] \/ s3 = 0
        /\ "smoke" \in s12[i] \/ (s5.passed /\ s5.recent)
        /\ \A h \in s1.pools : h \in s12[i] \/ Mode!GroupOK(i, h)
        /\ \A h \in s1.pools \ s11[i] : Mode!Access[h] \in s12[i] \/ Mode!AccessHolds(h)
    BY <1>0, <1>5 DEF Mode!LooksOK, Mode!After, Mode!Holds
  <2>2. s12'[i] = s12[i] \ {Mode!Access[g]}
    BY <1>2, <1>5 DEF Mode!Second
  <2>3. s1.pools \subseteq Mode!Groups
    BY DEF Mode!Inv, Mode!TypeOK, Mode!Manifests, Mode!Groups
  <2>4. ASSUME NEW h \in s1.pools PROVE h \in s12'[i] \/ Mode!GroupOK(i, h)'
    <3>1. h # Mode!Access[g] /\ (h \in s12[i] \/ Mode!GroupOK(i, h))
      BY <2>1, <2>3, ModeItems
    <3> QED BY <3>1, <2>2, <1>3, <1>a DEF Mode!GroupOK, Mode!SettingsHold
  <2>5. ASSUME NEW h \in s1.pools \ u PROVE Mode!Access[h] \in s12'[i] \/ Mode!AccessHolds(h)'
    <3>1. CASE h = g
      BY <3>1, <1>1, <1>3 DEF Mode!AccessHolds
    <3>2. CASE h # g
      <4>1. Mode!Access[h] # Mode!Access[g] /\ (Mode!Access[h] \in s12[i] \/ Mode!AccessHolds(h))
        BY <3>2, <2>1, <2>3, ModeItems
      <4> QED BY <4>1, <2>2, <1>3 DEF Mode!AccessHolds
    <3> QED BY <3>1, <3>2
  <2>6. "main" # Mode!Access[g] /\ "smoke" # Mode!Access[g]
    BY ModeItems
  <2> QED BY <2>1, <2>2, <2>4, <2>5, <2>6
<1>6. Mode!LooksOK(i)'
  <2>1. s11'[i] = u /\ s1'.pools = s1.pools
    BY <1>a, <1>3
  <2> HIDE DEF u
  <2> QED BY <1>1, <1>3, <1>5, <2>1 DEF Mode!LooksOK, Mode!After, Mode!Holds
<1>7. s8' = [s8 EXCEPT ![i] = s8[i]] /\ s9' = [s9 EXCEPT ![i] = s9[i]] /\ s10' = [s10 EXCEPT ![i] = s10[i]]
  BY <1>1, <1>a, ModeOwnTypes
<1> HIDE DEF u
<1> QED BY <1>1, <1>2, <1>4, <1>6, <1>7, <1>a, <1>d, ModeOwnTypes, ModeTyped DEF ModeOwn, Mode!Positions

\* The ends of the two evidence checks.
LEMMA ModeEvidence ==
  ASSUME Mode!Inv, NEW i \in Switches, Mode!FirstEvidence(i) \/ Mode!SecondEvidence(i)
  PROVE  Mode!Inv'
<1>0. i \in DOMAIN s6 /\ Mode!ConfiguredOK(i) /\ Mode!LooksOK(i)
  BY ModeOwnTypes
<1>1. PICK w \in {"plan", "latest"} :
        /\ s6[i] \in {"jobs1", "jobs2"} /\ s6' = [s6 EXCEPT ![i] = w] /\ Mode!Quiet /\ UNCHANGED <<s8, s10, s11, s12>>
        /\ w = "latest" => s6[i] = "jobs2"
        /\ Mode!JobsHold(i)
  BY DEF Mode!FirstEvidence, Mode!SecondEvidence, Mode!Goto
<1>2. PICK e \in Mode!Evidence : s9' = [s9 EXCEPT ![i] = e]
  BY ModeOwnTypes DEF Mode!FirstEvidence, Mode!SecondEvidence
<1>3. s6'[i] = w /\ UNCHANGED <<s1, s2, s3, s4, s5, s7>>
  BY <1>0, <1>1 DEF Mode!Quiet, Mode!github
<1>4. Mode!ConfiguredOK(i)'
  BY <1>0, <1>1, <1>3 DEF Mode!ConfiguredOK, Mode!Configured
<1>5. Mode!LooksOK(i)'
  <2>1. CASE w = "plan"
    BY <2>1, <1>3 DEF Mode!LooksOK, Mode!After
  <2>2. CASE w = "latest"
    <3>1. \A g \in s1.pools : s5.ids[g] = s10[i].ids[g]
      BY <1>1 DEF Mode!JobsHold
    <3>2. \A g \in s1.pools : Mode!GroupOK(i, g)' <=> Mode!GroupOK(i, g)
      BY <1>1, <1>3 DEF Mode!GroupOK, Mode!SettingsHold
    <3>3. \A g \in s1.pools : Mode!AccessHolds(g)' <=> Mode!AccessHolds(g)
      BY <1>3 DEF Mode!AccessHolds
    <3> QED BY <2>2, <1>0, <1>1, <1>3, <3>1, <3>2, <3>3 DEF Mode!LooksOK, Mode!After, Mode!Holds
  <2> QED BY <2>1, <2>2
<1>6. /\ s8' = [s8 EXCEPT ![i] = s8[i]] /\ s10' = [s10 EXCEPT ![i] = s10[i]]
      /\ s11' = [s11 EXCEPT ![i] = s11[i]] /\ s12' = [s12 EXCEPT ![i] = s12[i]]
  BY <1>1, ModeOwnTypes
<1> QED BY <1>1, <1>2, <1>4, <1>5, <1>6, ModeOwnTypes, ModeTyped DEF ModeOwn, Mode!Positions

\* The last read before the write.
LEMMA ModeReadLatest ==
  ASSUME Mode!Inv, NEW i \in Switches, Mode!ReadLatest(i)
  PROVE  Mode!Inv'
<1>0. i \in DOMAIN s6 /\ Mode!ConfiguredOK(i) /\ Mode!LooksOK(i)
  BY ModeOwnTypes
<1>1. /\ s6[i] = "latest" /\ s2 = s8[i] /\ s6' = [s6 EXCEPT ![i] = "write"] /\ Mode!Quiet /\ UNCHANGED <<s8, s9, s10, s11>>
  BY DEF Mode!ReadLatest, Mode!Unmoved, Mode!Goto
<1>2. PICK l \in SUBSET Mode!Items :
        s12' = [s12 EXCEPT ![i] = l] /\ s12'[i] = l /\ (Mode!Second(i) => l = s12[i] \ {"variable"})
  BY ModeLooked DEF Mode!ReadLatest, Mode!Items
<1>3. s6'[i] = "write" /\ UNCHANGED <<s1, s2, s3, s4, s5, s7>> /\ s12'[i] = s12[i] \ {"variable"}
  BY <1>0, <1>1, <1>2 DEF Mode!Quiet, Mode!github, Mode!Second
<1>4. Mode!ConfiguredOK(i)'
  BY <1>0, <1>1, <1>3 DEF Mode!ConfiguredOK, Mode!Configured
<1>5. Mode!LooksOK(i)'
  <2>1. \A g \in s1.pools : (Mode!GroupOK(i, g)' <=> Mode!GroupOK(i, g)) /\ (Mode!AccessHolds(g)' <=> Mode!AccessHolds(g))
    BY <1>1, <1>3 DEF Mode!GroupOK, Mode!SettingsHold, Mode!AccessHolds
  <2>2. \A g \in s1.pools : g # "variable" /\ Mode!Access[g] # "variable"
    BY ModeItems DEF Mode!Inv, Mode!TypeOK, Mode!Manifests, Mode!Groups
  <2> QED BY <1>0, <1>1, <1>3, <2>1, <2>2 DEF Mode!LooksOK, Mode!After, Mode!Holds
<1>6. /\ s8' = [s8 EXCEPT ![i] = s8[i]] /\ s9' = [s9 EXCEPT ![i] = s9[i]] /\ s10' = [s10 EXCEPT ![i] = s10[i]]
      /\ s11' = [s11 EXCEPT ![i] = s11[i]]
  BY <1>1, ModeOwnTypes
<1> QED BY <1>1, <1>2, <1>4, <1>5, <1>6, ModeOwnTypes, ModeTyped DEF ModeOwn, Mode!Positions

\* A change is late for everyone who has begun the second look.
LEMMA ModeChanged ==
  ASSUME Mode!Inv, NEW item \in Mode!Items, Mode!Changed(item)
  PROVE  /\ s12' \in [Switches -> SUBSET Mode!Items]
         /\ \A i \in Switches : s12[i] \subseteq s12'[i] /\ (Mode!Second(i) => item \in s12'[i])
BY DEF Mode!Inv, Mode!TypeOK, Mode!Changed

LEMMA ModeWrites ==
  ASSUME Mode!Inv, NEW i \in Switches, Mode!Write(i)
  PROVE  Mode!Inv'
<1>0. i \in DOMAIN s6 /\ Mode!ConfiguredOK(i) /\ s7[i] \in {"github", "k3s"} /\ s2 \in [value : Mode!Values, version : Nat]
  BY ModeOwnTypes
<1>1. /\ s6[i] = "write" /\ s6' = [s6 EXCEPT ![i] = "readback"] /\ UNCHANGED <<s1, s3, s4, s5, s7, s8, s9, s10, s11>>
      /\ s2' = [value |-> s7[i], version |-> s2.version + 1]
  BY DEF Mode!Write, Mode!Store
<1>2. /\ s12' \in [Switches -> SUBSET Mode!Items]
      /\ \A j \in Switches : s12[j] \subseteq s12'[j] /\ (Mode!Second(j) => "variable" \in s12'[j])
  BY ModeChanged DEF Mode!Write, Mode!Items
<1>3. s2' \in [value : Mode!Values, version : Nat]
  BY <1>0, <1>1 DEF Mode!Values
<1>4. s6' \in [Switches -> Mode!Positions] /\ s6'[i] = "readback" /\ \A j \in Switches \ {i} : s6'[j] = s6[j]
  BY <1>1 DEF Mode!Inv, Mode!TypeOK, Mode!Positions
<1>5. Mode!TypeOK'
  BY <1>1, <1>2, <1>3, <1>4 DEF Mode!Inv, Mode!TypeOK
<1>6. ModeOwn(i)'
  <2>1. Mode!ConfiguredOK(i)'
    BY <1>0, <1>1, <1>4 DEF Mode!ConfiguredOK, Mode!Configured
  <2>2. Mode!LooksOK(i)'
    BY <1>4 DEF Mode!LooksOK, Mode!After
  <2> QED BY <2>1, <2>2 DEF ModeOwn
<1>7. ASSUME NEW j \in Switches \ {i} PROVE ModeOwn(j)'
  BY <1>1, <1>2, <1>4, ModeOther DEF ModeSettings
<1> QED BY <1>5, <1>6, <1>7 DEF Mode!Inv, ModeOwn

\* Others change one item.
LEMMA ModeElsewhere ==
  ASSUME Mode!Inv, Mode!Others
  PROVE  Mode!Inv'
<1>0. UNCHANGED <<s1, s6, s7, s8, s9, s10, s11>>
  BY DEF Mode!Others, Mode!ChangeVariable, Mode!PushMain, Mode!ChangeSmoke, Mode!ChangeGroup, Mode!ChangeAccess, Mode!NoInvocation
<1>1. PICK item \in Mode!Items :
        /\ Mode!Changed(item)
        /\ item = "variable" \/ s2' = s2
        /\ item = "main" \/ s3' = s3
        /\ item = "smoke" \/ s5' = s5
        /\ \A g \in Mode!Groups : (g = item \/ ModeSettings(g)' = ModeSettings(g))
                                /\ (Mode!Access[g] = item \/ s4'[g].repositories = s4[g].repositories)
  <2>0. s4 \in [Mode!Groups -> Mode!GroupStates]
    BY DEF Mode!Inv, Mode!TypeOK
  <2>1. CASE Mode!ChangeVariable
    BY <2>1 DEF Mode!ChangeVariable, Mode!Items, ModeSettings
  <2>2. CASE Mode!PushMain
    BY <2>2 DEF Mode!PushMain, Mode!Items, ModeSettings
  <2>3. CASE Mode!ChangeSmoke
    BY <2>3 DEF Mode!ChangeSmoke, Mode!Items, ModeSettings
  <2>4. ASSUME NEW h \in Mode!Groups, Mode!ChangeGroup(h)
        PROVE  \A g \in Mode!Groups : (g = h \/ s4'[g] = s4[g]) /\ s4'[g].repositories = s4[g].repositories
    <3>1. PICK next \in {[s4[h] EXCEPT !.public = ~@], [s4[h] EXCEPT !.restricted = ~@], [s4[h] EXCEPT !.id = 3 - @]} :
            s4' = [s4 EXCEPT ![h] = next]
      BY <2>4 DEF Mode!ChangeGroup
    <3>2. next.repositories = s4[h].repositories
      BY <2>0, <3>1 DEF Mode!GroupStates
    <3> QED BY <2>0, <3>1, <3>2
  <2>5. ASSUME NEW h \in Mode!Groups, Mode!ChangeGroup(h)
        PROVE  h \in Mode!Items /\ Mode!Changed(h) /\ UNCHANGED <<s2, s3, s5>>
    BY <2>5 DEF Mode!ChangeGroup, Mode!Items
  <2>6. ASSUME NEW h \in Mode!Groups, Mode!ChangeAccess(h)
        PROVE  \A g \in Mode!Groups : (g = h \/ s4'[g] = s4[g]) /\ ModeSettings(g)' = ModeSettings(g)
    <3>1. PICK next : s4' = [s4 EXCEPT ![h].repositories = next]
      BY <2>6 DEF Mode!ChangeAccess
    <3>2. /\ s4'[h].id = s4[h].id /\ s4'[h].public = s4[h].public /\ s4'[h].restricted = s4[h].restricted
          /\ \A g \in Mode!Groups : g = h \/ s4'[g] = s4[g]
      BY <2>0, <3>1 DEF Mode!GroupStates
    <3> QED BY <3>2 DEF ModeSettings
  <2>7. ASSUME NEW h \in Mode!Groups, Mode!ChangeAccess(h)
        PROVE  Mode!Access[h] \in Mode!Items /\ Mode!Changed(Mode!Access[h]) /\ UNCHANGED <<s2, s3, s5>>
    BY <2>7, ModeItems DEF Mode!ChangeAccess
  <2>8. CASE \E h \in Mode!Groups : Mode!ChangeGroup(h)
    <3>1. PICK h \in Mode!Groups : Mode!ChangeGroup(h)
      BY <2>8
    <3>2. \A g \in Mode!Groups : g = h \/ ModeSettings(g)' = ModeSettings(g)
      BY <2>4, <3>1 DEF ModeSettings
    <3> QED BY <2>4, <2>5, <3>1, <3>2, ModeItems
  <2>9. CASE \E h \in Mode!Groups : Mode!ChangeAccess(h)
    <3>1. PICK h \in Mode!Groups : Mode!ChangeAccess(h)
      BY <2>9
    <3>2. \A g \in Mode!Groups : Mode!Access[g] = Mode!Access[h] \/ s4'[g].repositories = s4[g].repositories
      BY <2>6, <3>1
    <3> QED BY <2>6, <2>7, <3>1, <3>2, ModeItems
  <2> QED BY <2>1, <2>2, <2>3, <2>8, <2>9 DEF Mode!Others
<1>2. /\ s12' \in [Switches -> SUBSET Mode!Items]
      /\ \A j \in Switches : s12[j] \subseteq s12'[j] /\ (Mode!Second(j) => item \in s12'[j])
  BY <1>1, ModeChanged
<1>3. s2' \in [value : Mode!Values, version : Nat]
  <2>1. s2 \in [value : Mode!Values, version : Nat]
    BY DEF Mode!Inv, Mode!TypeOK
  <2>2. s2' = s2 \/ \E v \in Mode!Values : s2' = [value |-> v, version |-> s2.version + 1]
    BY DEF Mode!Others, Mode!ChangeVariable, Mode!PushMain, Mode!ChangeSmoke, Mode!ChangeGroup, Mode!ChangeAccess, Mode!Store
  <2> QED BY <2>1, <2>2
<1>4. s3' \in 0 .. 1
  <2>1. s3 \in 0 .. 1
    BY DEF Mode!Inv, Mode!TypeOK
  <2>2. s3' = s3 \/ s3' = 1 - s3
    BY DEF Mode!Others, Mode!ChangeVariable, Mode!PushMain, Mode!ChangeSmoke, Mode!ChangeGroup, Mode!ChangeAccess
  <2> QED BY <2>1, <2>2
<1>5. s4' \in [Mode!Groups -> Mode!GroupStates]
  <2>1. s4 \in [Mode!Groups -> Mode!GroupStates] /\ s1 \in Mode!Manifests
    BY DEF Mode!Inv, Mode!TypeOK
  <2>2. ASSUME NEW g \in Mode!Groups, Mode!ChangeGroup(g) PROVE s4' \in [Mode!Groups -> Mode!GroupStates]
    <3>1. s4[g] \in Mode!GroupStates
      BY <2>1
    <3>2. PICK next : s4' = [s4 EXCEPT ![g] = next] /\
             next \in {[s4[g] EXCEPT !.public = ~@], [s4[g] EXCEPT !.restricted = ~@],
                       [s4[g] EXCEPT !.id = 3 - @]}
      BY <2>2 DEF Mode!ChangeGroup
    <3>3. next \in Mode!GroupStates
      <4>1. CASE next = [s4[g] EXCEPT !.public = ~@] \/ next = [s4[g] EXCEPT !.restricted = ~@]
        BY <3>1, <4>1 DEF Mode!GroupStates
      <4>3. CASE next = [s4[g] EXCEPT !.id = 3 - @]
        <5>1. s4[g].id \in 1 .. 2 /\ 3 - s4[g].id \in 1 .. 2
          BY <3>1 DEF Mode!GroupStates
        <5>2. PICK n \in 1 .. 2 : next = [s4[g] EXCEPT !.id = n]
          BY <4>3, <5>1
        <5> QED BY <3>1, <5>2 DEF Mode!GroupStates
      <4> QED BY <3>2, <4>1, <4>3
    <3> QED BY <2>1, <3>2, <3>3
  <2>4. ASSUME NEW g \in Mode!Groups, Mode!ChangeAccess(g) PROVE s4' \in [Mode!Groups -> Mode!GroupStates]
    <3>1. s4[g] \in Mode!GroupStates /\ s1.group[g].repositories \in SUBSET Clients
      BY <2>1 DEF Mode!Manifests
    <3>2. PICK next : s4' = [s4 EXCEPT ![g].repositories = next] /\
                      next \in {s4[g].repositories \cup {Outsider}, s1.group[g].repositories}
      BY <2>4 DEF Mode!ChangeAccess
    <3>3. next \in SUBSET (Clients \cup {Outsider})
      BY <3>1, <3>2 DEF Mode!GroupStates
    <3> QED BY <2>1, <3>2, <3>3 DEF Mode!GroupStates
  <2>3. (\A g \in Mode!Groups : ~Mode!ChangeGroup(g) /\ ~Mode!ChangeAccess(g)) => s4' = s4
    BY DEF Mode!Others, Mode!ChangeVariable, Mode!PushMain, Mode!ChangeSmoke
  <2> QED BY <2>1, <2>2, <2>3, <2>4
<1>6. s5' \in Mode!SmokeRuns
  <2>1. s5 \in Mode!SmokeRuns /\ s4 \in [Mode!Groups -> Mode!GroupStates]
    BY DEF Mode!Inv, Mode!TypeOK
  <2>2. [g \in Mode!Groups |-> s4[g].id] \in [Mode!Groups -> 1 .. 2]
    BY <2>1 DEF Mode!GroupStates
  <2>3. ASSUME NEW ok \in BOOLEAN, s5' = [s5 EXCEPT !.attempt = 2, !.passed = ok, !.ids = [g \in Mode!Groups |-> s4[g].id]]
        PROVE  s5' \in Mode!SmokeRuns
    <3> DEFINE ids == [g \in Mode!Groups |-> s4[g].id]
    <3>1. s5' = [s5 EXCEPT !.attempt = 2, !.passed = ok, !.ids = ids] /\ ids \in [Mode!Groups -> 1 .. 2]
      BY <2>2, <2>3
    <3> HIDE DEF ids
    <3>2. s5' = [sha |-> s5.sha, attempt |-> 2, passed |-> ok, ids |-> ids, recent |-> s5.recent] /\ s5.sha \in Nat /\ s5.recent \in BOOLEAN
      BY <2>1, <3>1 DEF Mode!SmokeRuns
    <3> QED BY <3>1, <3>2 DEF Mode!SmokeRuns
  <2>4. s5' = [s5 EXCEPT !.recent = FALSE] => s5' \in Mode!SmokeRuns
    BY <2>1 DEF Mode!SmokeRuns
  <2> QED BY <2>1, <2>3, <2>4 DEF Mode!Others, Mode!ChangeVariable, Mode!PushMain, Mode!ChangeSmoke, Mode!ChangeGroup, Mode!ChangeAccess
<1>7. Mode!TypeOK'
  BY <1>0, <1>2, <1>3, <1>4, <1>5, <1>6 DEF Mode!Inv, Mode!TypeOK
<1>8. ASSUME NEW j \in Switches PROVE ModeOwn(j)'
  BY <1>0, <1>1, <1>2, ModeOther
<1> QED BY <1>7, <1>8 DEF Mode!Inv, ModeOwn

LEMMA ModeKeeps ==
  ASSUME part = "mode" => Mode!Inv, [Next]_vars
  PROVE  (part = "mode" => Mode!Inv)'
<1>1. CASE ModeStep
  <2>1. part = "mode" /\ part' = part /\ Mode!Inv
    BY <1>1 DEF ModeStep
  <2>2. ASSUME NEW i \in Switches, Mode!Step(i) PROVE Mode!Inv'
    BY <2>1, <2>2, ModeSimpleSteps, ModeRepoState, ModeReviewedMain, ModeSmokeRun, ModeListGroups, ModeVerifyGroup, ModeEvidence,
       ModeReadLatest, ModeWrites DEF Mode!Step
  <2> QED BY <1>1, <2>1, <2>2, ModeElsewhere DEF ModeStep, Mode!Next
<1>2. CASE ~ModeStep /\ Next
  BY <1>2 DEF Next, NightlyStep, LabelsStep, ArchiveStep, LayersStep, BuildStep
<1>3. CASE UNCHANGED vars
  BY <1>3 DEF vars, Mode!Inv, Mode!TypeOK, Mode!ConfiguredOK, Mode!Configured, Mode!LooksOK, Mode!After, Mode!Holds,
     Mode!GroupOK, Mode!SettingsHold, Mode!AccessHolds
<1> QED BY <1>1, <1>2, <1>3

\* apply_mode: what an invocation has looked at in its second check is as it
\* was then, or it is late.
THEOREM ModeInvHolds == Spec => [](part = "mode" => Mode!Inv)
<1>1. Init => (part = "mode" => Mode!Inv)
  BY ModeInit DEF Init
<1>2. (part = "mode" => Mode!Inv) /\ [Next]_vars => (part = "mode" => Mode!Inv)'
  BY ModeKeeps
<1> QED BY <1>1, <1>2, PTL DEF Spec

\* What an invocation about to write knows.
LEMMA ModeWriteIsCurrent ==
  ASSUME Mode!Inv
  PROVE  Mode!WritesCurrent
<1> SUFFICES ASSUME NEW i \in Switches, s6[i] = "write"
             PROVE  /\ "variable" \in s12[i] \/ s2 = s8[i]
                    /\ s7[i] = "k3s" =>
                         /\ "main" \in s12[i] \/ s3 = 0
                         /\ "smoke" \in s12[i] \/
                              (s5.passed /\ s5.recent /\ \A g \in s1.pools : g \in s12[i] \/ s5.ids[g] = s4[g].id)
                         /\ \A g \in s1.pools :
                              /\ g \in s12[i] \/ (~s4[g].public /\ (g = "release" => s4[g].restricted))
                              /\ Mode!Access[g] \in s12[i] \/ Outsider \notin s4[g].repositories
  BY DEF Mode!WritesCurrent, Mode!Writing
<1>1. Mode!LooksOK(i) /\ Mode!Configured(s1) /\ s1 \in Mode!Manifests
  BY DEF Mode!Inv, Mode!ConfiguredOK, Mode!TypeOK
<1>2. "variable" \in s12[i] \/ s2 = s8[i]
  BY <1>1 DEF Mode!LooksOK, Mode!Holds
<1>3. ASSUME s7[i] = "k3s"
      PROVE  /\ "main" \in s12[i] \/ s3 = 0
             /\ "smoke" \in s12[i] \/ (s5.passed /\ s5.recent /\ \A g \in s1.pools : s5.ids[g] = s10[i].ids[g])
             /\ \A g \in s1.pools : g \in s12[i] \/ Mode!GroupOK(i, g)
             /\ \A g \in s1.pools : Mode!Access[g] \in s12[i] \/ Mode!AccessHolds(g)
  BY <1>1, <1>3 DEF Mode!LooksOK, Mode!Holds, Mode!After
<1>4. ASSUME NEW g \in s1.pools
      PROVE  /\ Mode!GroupOK(i, g) => s4[g].id = s10[i].ids[g] /\ ~s4[g].public /\ (g = "release" => s4[g].restricted)
             /\ Mode!AccessHolds(g) => Outsider \notin s4[g].repositories
  <2>1. g \in Mode!Groups
    BY <1>1 DEF Mode!Manifests, Mode!Groups
  <2>2. s1.group[g].repositories \subseteq Clients
    BY <1>1, <2>1 DEF Mode!Manifests
  <2>3. Outsider \notin Clients
    BY RunnersAssumption DEF Mode!RunnerModeAssumption
  <2> QED BY <1>1, <2>2, <2>3 DEF Mode!GroupOK, Mode!SettingsHold, Mode!AccessHolds, Mode!Configured
<1> QED BY <1>2, <1>3, <1>4

\* runner_mode.apply_mode: a write replaces only the variable that was shown,
\* and an activation finds the reviewed main, a recent passing smoke run and
\* closed groups, except for what changed after the second look; for any
\* number of invocations, repositories and outside changes.
THEOREM SwitchIsAlwaysCurrent == Spec => SwitchIsCurrent
<1>1. (part = "mode" => Mode!Inv) /\ [Next]_vars => [part = "mode" => Mode!WritesCurrent]_vars
  BY ModeWriteIsCurrent
<1> QED BY <1>1, ModeInvHolds, PTL DEF Spec, SwitchIsCurrent

-----------------------------------------------------------------------------
(* The build of the runner images                                          *)

\* A new worker holds nothing of the job's.
LEMMA BuildWorker ==
  ASSUME NEW d \in Build!Worker
  PROVE  d \in Build!Dockers /\ ~Build!Builder(d)
<1>1. Build!Clean \in Build!Dockers /\ ~Build!Builder(Build!Clean)
  BY DEF Build!Clean, Build!Dockers, Build!Named, Build!Builder
<1>2. ASSUME NEW r \in {"container", "volume", "scanner", "image"}
      PROVE  [Build!Clean EXCEPT ![r] = "foreign"] \in Build!Dockers /\ ~Build!Builder([Build!Clean EXCEPT ![r] = "foreign"])
  <2>1. CASE r = "container"
    BY <2>1 DEF Build!Clean, Build!Dockers, Build!Named, Build!Builder
  <2>2. CASE r = "volume"
    BY <2>2 DEF Build!Clean, Build!Dockers, Build!Named, Build!Builder
  <2>3. CASE r = "scanner"
    BY <2>3 DEF Build!Clean, Build!Dockers, Build!Named, Build!Builder
  <2>4. CASE r = "image"
    BY <2>4 DEF Build!Clean, Build!Dockers, Build!Named, Build!Builder
  <2> QED BY <2>1, <2>2, <2>3, <2>4
<1> QED BY <1>1, <1>2 DEF Build!Worker

LEMMA BuildInit ==
  ASSUME Build!Init
  PROVE  Build!Inv
<1>1. Build!NoReport \in Build!Scans /\ Build!NoReport.of = Build!NoImage
  BY DEF Build!NoReport, Build!Scans, Build!Changes
<1>2. Build!NoRecord \in Build!Receipts /\ Build!NoRecord.report = Build!NoReport
  BY <1>1 DEF Build!NoRecord, Build!Receipts
<1>3. Build!Empty \in Build!Directories
  BY <1>1, <1>2 DEF Build!Empty, Build!Directories
<1>4. s3 \in Build!Dockers /\ ~Build!Builder(s3)
  BY BuildWorker DEF Build!Init
<1>5. Build!TypesOK
  BY <1>2, <1>3, <1>4 DEF Build!Init, Build!TypesOK, Build!Stages
<1>6. Build!JobOK
  BY <1>4 DEF Build!Init, Build!JobOK, Build!NoRecord
<1>7. Build!BaseOK /\ Build!ScannedOK
  BY <1>1, <1>2 DEF Build!Init, Build!BaseOK, Build!ScannedOK, Build!ReportOf
<1>8. \A s \in Build!Stages : s5[s] = Build!Empty /\ s6[s] = {}
  BY DEF Build!Init
<1>9. Build!Empty.receipt = Build!NoRecord /\ Build!Empty.saved = FALSE
  BY DEF Build!Empty
<1>10. \A s \in Build!Stages : Build!SavedOK(s)
  BY <1>1, <1>2, <1>8, <1>9 DEF Build!SavedOK, Build!ReportOf
<1>11. ~s5["private"].saved
  BY <1>8, <1>9 DEF Build!Stages
<1> QED BY <1>5, <1>6, <1>7, <1>8, <1>9, <1>10, <1>11 DEF Build!Init, Build!Inv, Build!GateSound, Build!LeftIsReported

\* A step of a job before its receipt is saved leaves what was saved.
LEMMA BuildMoves ==
  ASSUME Build!Inv, s1 \in Build!Stages \cup {"gate"}, s1' = s1, s6' = s6, s5' \in [Build!Stages -> Build!Directories],
         \A s \in Build!Stages : s5'[s].receipt = s5[s].receipt /\ s5'[s].saved = s5[s].saved,
         s3' \in Build!Dockers, s4' \in Build!Receipts, Build!JobOK', Build!BaseOK', Build!ScannedOK'
  PROVE  Build!Inv'
<1>1. Build!TypesOK'
  BY DEF Build!Inv, Build!TypesOK
<1>2. "public" \in Build!Stages /\ "private" \in Build!Stages
  BY DEF Build!Stages
<1>3. \A s \in Build!Stages : Build!SavedOK(s)'
  BY DEF Build!Inv, Build!SavedOK, Build!ReportOf
<1>4. Build!LeftIsReported'
  BY DEF Build!Inv, Build!LeftIsReported
<1>5. Build!GateSound'
  BY DEF Build!GateSound, Build!Stages
<1> QED BY <1>1, <1>2, <1>3, <1>4, <1>5 DEF Build!Inv

\* A step of a job that writes no file.
LEMMA BuildQuiet ==
  ASSUME Build!Inv, s1 \in Build!Stages, s1' = s1, s5' = s5, s6' = s6,
         s3' \in Build!Dockers, s4' \in Build!Receipts, Build!JobOK', Build!BaseOK', Build!ScannedOK'
  PROVE  Build!Inv'
<1>1. s5' \in [Build!Stages -> Build!Directories]
  BY DEF Build!Inv, Build!TypesOK
<1>2. \A s \in Build!Stages : s5'[s].receipt = s5[s].receipt /\ s5'[s].saved = s5[s].saved
  OBVIOUS
<1> QED BY <1>1, <1>2, BuildMoves

\* An exception, if what Docker holds now is still as the receipt says.
LEMMA BuildRaise ==
  ASSUME Build!Inv, s1 \in Build!Stages, NEW r \in Build!Receipts, s2' = "finally", s1' = s1, s5' = s5, s6' = s6,
         s4' = [r EXCEPT !.failed = TRUE], r.report = s4.report, r.archive = s4.archive, r.base = s4.base, r.built = s4.built,
         s3' \in Build!Dockers,
         Build!Builder(s3') => r.created \/ r.cleanupFailed,
         r.absent => s3'.volume # "foreign", r.builderRemoved => Build!Gone(s3'),
         r.scannerRemoved => s3'.scanner = "none", ~r.importRemoved
  PROVE  Build!Inv'
<1>1. /\ s4' \in Build!Receipts
      /\ s4'.imported = r.imported /\ s4'.absent = r.absent /\ s4'.created = r.created /\ s4'.archive = r.archive
      /\ s4'.base = r.base /\ s4'.built = r.built /\ s4'.builderRemoved = r.builderRemoved /\ s4'.report = r.report
      /\ s4'.scannerRemoved = r.scannerRemoved /\ s4'.cleanupFailed = r.cleanupFailed /\ s4'.importRemoved = r.importRemoved
  BY DEF Build!Receipts
<1>2. Build!JobOK'
  BY <1>1 DEF Build!JobOK, Build!Builder, Build!Gone
<1>3. Build!BaseOK'
  BY <1>1 DEF Build!Inv, Build!BaseOK
<1>4. Build!ScannedOK'
  BY <1>1 DEF Build!Inv, Build!ScannedOK, Build!ReportOf, Build!Early
<1> QED BY <1>1, <1>2, <1>3, <1>4, BuildQuiet

LEMMA BuildRaised ==
  ASSUME Build!Inv, s1 \in Build!Stages, Build!Raise, s3' = s3, s2 \notin {"save", "unimport"}
  PROVE  Build!Inv'
<1>1. s4 \in Build!Receipts /\ s3 \in Build!Dockers
  BY DEF Build!Inv, Build!TypesOK
<1>2. s2' = "finally" /\ s1' = s1 /\ s5' = s5 /\ s6' = s6 /\ s4' = [s4 EXCEPT !.failed = TRUE]
  BY DEF Build!Raise, Build!To
<1>3. /\ Build!Builder(s3') => s4.created \/ s4.cleanupFailed
      /\ s4.absent => s3'.volume # "foreign"
      /\ s4.builderRemoved => Build!Gone(s3')
      /\ s4.scannerRemoved => s3'.scanner = "none"
      /\ ~s4.importRemoved
  BY DEF Build!Inv, Build!JobOK
<1> QED BY <1>1, <1>2, <1>3, BuildRaise


LEMMA BuildPrepare ==
  ASSUME Build!Inv, s1 \in Build!Stages, Build!Prepare
  PROVE  Build!Inv'
<1>1. s3' = s3 /\ s3 \in Build!Dockers /\ s4 \in Build!Receipts
  BY DEF Build!Prepare, Build!Inv, Build!TypesOK
<1>2. CASE Build!To("load") /\ s4' = s4
  <2>1. s4' \in Build!Receipts
    BY <1>1, <1>2 DEF Build!Receipts, Build!Inv, Build!TypesOK
  <2>2. /\ s4'.created = s4.created /\ s4'.cleanupFailed = s4.cleanupFailed /\ s4'.builderRemoved = s4.builderRemoved
        /\ s4'.scannerRemoved = s4.scannerRemoved /\ s4'.importRemoved = s4.importRemoved /\ s4'.report = s4.report
        /\ s4'.archive = s4.archive /\ s4'.built = s4.built /\ s4'.base = s4.base /\ s4'.absent = s4.absent
    BY <1>1, <1>2 DEF Build!Receipts
  <2>3. Build!JobOK' /\ Build!BaseOK' /\ Build!ScannedOK'
    BY <1>1, <1>2, <2>2 DEF Build!Prepare, Build!Inv, Build!JobOK, Build!BaseOK, Build!ScannedOK, Build!ReportOf, Build!Early, Build!Builder, Build!Gone, Build!Stages, Build!To
  <2> QED BY <1>1, <1>2, <2>1, <2>3, BuildQuiet DEF Build!To
<1>3. CASE Build!Raise
  BY <1>1, <1>3, BuildRaised DEF Build!Prepare
<1> QED BY <1>2, <1>3 DEF Build!Prepare

LEMMA BuildContext ==
  ASSUME Build!Inv, s1 \in Build!Stages, Build!Context
  PROVE  Build!Inv'
<1>1. s3' = s3 /\ s3 \in Build!Dockers /\ s4 \in Build!Receipts
  BY DEF Build!Context, Build!Inv, Build!TypesOK
<1>2. CASE s1 = "public" /\ Build!To("volume") /\ s4' = s4
  <2>1. s4' \in Build!Receipts
    BY <1>1, <1>2 DEF Build!Receipts, Build!Inv, Build!TypesOK
  <2>2. /\ s4'.created = s4.created /\ s4'.cleanupFailed = s4.cleanupFailed /\ s4'.builderRemoved = s4.builderRemoved
        /\ s4'.scannerRemoved = s4.scannerRemoved /\ s4'.importRemoved = s4.importRemoved /\ s4'.report = s4.report
        /\ s4'.archive = s4.archive /\ s4'.built = s4.built /\ s4'.base = s4.base /\ s4'.absent = s4.absent
    BY <1>1, <1>2 DEF Build!Receipts
  <2>3. Build!JobOK' /\ Build!BaseOK' /\ Build!ScannedOK'
    BY <1>1, <1>2, <2>2 DEF Build!Context, Build!Inv, Build!JobOK, Build!BaseOK, Build!ScannedOK, Build!ReportOf, Build!Early, Build!Builder, Build!Gone, Build!Stages, Build!To
  <2> QED BY <1>1, <1>2, <2>1, <2>3, BuildQuiet DEF Build!To
<1>3. CASE s1 = "private" /\ Build!ParentHolds /\ Build!To("volume") /\ s4' = [s4 EXCEPT !.base = s5["public"].archive]
  <2>1. s4' \in Build!Receipts
    <3>1. s5["public"].archive \in Build!Images \cup {Build!NoImage}
      BY DEF Build!Inv, Build!TypesOK, Build!Directories, Build!Stages
    <3> QED BY <1>1, <1>3, <3>1 DEF Build!Receipts
  <2>2. /\ s4'.created = s4.created /\ s4'.cleanupFailed = s4.cleanupFailed /\ s4'.builderRemoved = s4.builderRemoved
        /\ s4'.scannerRemoved = s4.scannerRemoved /\ s4'.importRemoved = s4.importRemoved /\ s4'.report = s4.report
        /\ s4'.archive = s4.archive /\ s4'.built = s4.built /\ s4'.absent = s4.absent
    BY <1>1, <1>3 DEF Build!Receipts
  <2>3. Build!JobOK' /\ Build!BaseOK' /\ Build!ScannedOK'
    BY <1>1, <1>3, <2>2 DEF Build!Context, Build!Inv, Build!JobOK, Build!BaseOK, Build!ScannedOK, Build!ReportOf, Build!Early, Build!Builder, Build!Gone, Build!Stages, Build!To, Build!ParentHolds
  <2> QED BY <1>1, <1>3, <2>1, <2>3, BuildQuiet DEF Build!To
<1>4. CASE Build!Raise
  BY <1>1, <1>4, BuildRaised DEF Build!Context
<1> QED BY <1>2, <1>3, <1>4 DEF Build!Context, Build!Stages

LEMMA BuildProbeVolume ==
  ASSUME Build!Inv, s1 \in Build!Stages, Build!ProbeVolume
  PROVE  Build!Inv'
<1>1. s3' = s3 /\ s3 \in Build!Dockers /\ s4 \in Build!Receipts
  BY DEF Build!ProbeVolume, Build!Inv, Build!TypesOK
<1>2. CASE s3.volume = "none" /\ Build!To("create") /\ s4' = [s4 EXCEPT !.absent = TRUE]
  <2>1. s4' \in Build!Receipts
    BY <1>1, <1>2 DEF Build!Receipts, Build!Inv, Build!TypesOK
  <2>2. /\ s4'.created = s4.created /\ s4'.cleanupFailed = s4.cleanupFailed /\ s4'.builderRemoved = s4.builderRemoved
        /\ s4'.scannerRemoved = s4.scannerRemoved /\ s4'.importRemoved = s4.importRemoved /\ s4'.report = s4.report
        /\ s4'.archive = s4.archive /\ s4'.built = s4.built /\ s4'.base = s4.base
    BY <1>1, <1>2 DEF Build!Receipts
  <2>3. Build!JobOK' /\ Build!BaseOK' /\ Build!ScannedOK'
    BY <1>1, <1>2, <2>2 DEF Build!ProbeVolume, Build!Inv, Build!JobOK, Build!BaseOK, Build!ScannedOK, Build!ReportOf, Build!Early, Build!Builder, Build!Gone, Build!Stages, Build!To
  <2> QED BY <1>1, <1>2, <2>1, <2>3, BuildQuiet DEF Build!To
<1>3. CASE Build!Raise
  BY <1>1, <1>3, BuildRaised DEF Build!ProbeVolume
<1> QED BY <1>2, <1>3 DEF Build!ProbeVolume

LEMMA BuildQualify ==
  ASSUME Build!Inv, s1 \in Build!Stages, Build!Qualify
  PROVE  Build!Inv'
<1>1. s3' = s3 /\ s3 \in Build!Dockers /\ s4 \in Build!Receipts
  BY DEF Build!Qualify, Build!Inv, Build!TypesOK
<1>2. CASE Build!To(IF s1 = "public" THEN "preflight" ELSE "build") /\ s4' = [s4 EXCEPT !.id = TRUE]
  <2>1. s4' \in Build!Receipts
    BY <1>1, <1>2 DEF Build!Receipts, Build!Inv, Build!TypesOK
  <2>2. /\ s4'.created = s4.created /\ s4'.cleanupFailed = s4.cleanupFailed /\ s4'.builderRemoved = s4.builderRemoved
        /\ s4'.scannerRemoved = s4.scannerRemoved /\ s4'.importRemoved = s4.importRemoved /\ s4'.report = s4.report
        /\ s4'.archive = s4.archive /\ s4'.built = s4.built /\ s4'.base = s4.base /\ s4'.absent = s4.absent
    BY <1>1, <1>2 DEF Build!Receipts
  <2>3. Build!JobOK' /\ Build!BaseOK' /\ Build!ScannedOK'
    BY <1>1, <1>2, <2>2 DEF Build!Qualify, Build!Inv, Build!JobOK, Build!BaseOK, Build!ScannedOK, Build!ReportOf, Build!Early, Build!Builder, Build!Gone, Build!Stages, Build!To
  <2> QED BY <1>1, <1>2, <2>1, <2>3, BuildQuiet DEF Build!To
<1>3. CASE Build!Raise
  BY <1>1, <1>3, BuildRaised DEF Build!Qualify
<1> QED BY <1>2, <1>3 DEF Build!Qualify

LEMMA BuildPreflight ==
  ASSUME Build!Inv, s1 \in Build!Stages, Build!Preflight
  PROVE  Build!Inv'
<1>1. s3' = s3 /\ s3 \in Build!Dockers /\ s4 \in Build!Receipts
  BY DEF Build!Preflight, Build!Inv, Build!TypesOK
<1>2. CASE Build!To("build") /\ s4' = [s4 EXCEPT !.preflights = TRUE]
  <2>1. s4' \in Build!Receipts
    BY <1>1, <1>2 DEF Build!Receipts, Build!Inv, Build!TypesOK
  <2>2. /\ s4'.created = s4.created /\ s4'.cleanupFailed = s4.cleanupFailed /\ s4'.builderRemoved = s4.builderRemoved
        /\ s4'.scannerRemoved = s4.scannerRemoved /\ s4'.importRemoved = s4.importRemoved /\ s4'.report = s4.report
        /\ s4'.archive = s4.archive /\ s4'.built = s4.built /\ s4'.base = s4.base /\ s4'.absent = s4.absent
    BY <1>1, <1>2 DEF Build!Receipts
  <2>3. Build!JobOK' /\ Build!BaseOK' /\ Build!ScannedOK'
    BY <1>1, <1>2, <2>2 DEF Build!Preflight, Build!Inv, Build!JobOK, Build!BaseOK, Build!ScannedOK, Build!ReportOf, Build!Early, Build!Builder, Build!Gone, Build!Stages, Build!To
  <2> QED BY <1>1, <1>2, <2>1, <2>3, BuildQuiet DEF Build!To
<1>3. CASE Build!Raise
  BY <1>1, <1>3, BuildRaised DEF Build!Preflight
<1> QED BY <1>2, <1>3 DEF Build!Preflight

LEMMA BuildVerify ==
  ASSUME Build!Inv, s1 \in Build!Stages, Build!Verify
  PROVE  Build!Inv'
<1>1. s3' = s3 /\ s3 \in Build!Dockers /\ s4 \in Build!Receipts
  BY DEF Build!Verify, Build!Inv, Build!TypesOK
<1>2. CASE Build!To("scan") /\ s4' = [s4 EXCEPT !.verified = TRUE]
  <2>1. s4' \in Build!Receipts
    BY <1>1, <1>2 DEF Build!Receipts, Build!Inv, Build!TypesOK
  <2>2. /\ s4'.created = s4.created /\ s4'.cleanupFailed = s4.cleanupFailed /\ s4'.builderRemoved = s4.builderRemoved
        /\ s4'.scannerRemoved = s4.scannerRemoved /\ s4'.importRemoved = s4.importRemoved /\ s4'.report = s4.report
        /\ s4'.archive = s4.archive /\ s4'.built = s4.built /\ s4'.base = s4.base /\ s4'.absent = s4.absent
    BY <1>1, <1>2 DEF Build!Receipts
  <2>3. Build!JobOK' /\ Build!BaseOK' /\ Build!ScannedOK'
    BY <1>1, <1>2, <2>2 DEF Build!Verify, Build!Inv, Build!JobOK, Build!BaseOK, Build!ScannedOK, Build!ReportOf, Build!Early, Build!Builder, Build!Gone, Build!Stages, Build!To
  <2> QED BY <1>1, <1>2, <2>1, <2>3, BuildQuiet DEF Build!To
<1>3. CASE Build!Raise
  BY <1>1, <1>3, BuildRaised DEF Build!Verify
<1> QED BY <1>2, <1>3 DEF Build!Verify

LEMMA BuildAccept ==
  ASSUME Build!Inv, s1 \in Build!Stages, Build!Accept
  PROVE  Build!Inv'
<1>1. s3' = s3 /\ s3 \in Build!Dockers /\ s4 \in Build!Receipts
  BY DEF Build!Accept, Build!Inv, Build!TypesOK
<1>2. CASE Build!To("finally") /\ s4' = [s4 EXCEPT !.accepted = Build!ScanAcceptance(s4.archive, s4.report)]
  <2>1. s4' \in Build!Receipts
    <3>1. Build!ScanAcceptance(s4.archive, s4.report) \in BOOLEAN
      BY DEF Build!ScanAcceptance
    <3> QED BY <1>1, <1>2, <3>1 DEF Build!Receipts
  <2>2. /\ s4'.created = s4.created /\ s4'.cleanupFailed = s4.cleanupFailed /\ s4'.builderRemoved = s4.builderRemoved
        /\ s4'.scannerRemoved = s4.scannerRemoved /\ s4'.importRemoved = s4.importRemoved /\ s4'.report = s4.report
        /\ s4'.archive = s4.archive /\ s4'.built = s4.built /\ s4'.base = s4.base /\ s4'.absent = s4.absent
    BY <1>1, <1>2 DEF Build!Receipts
  <2>3. Build!JobOK' /\ Build!BaseOK' /\ Build!ScannedOK'
    BY <1>1, <1>2, <2>2 DEF Build!Accept, Build!Inv, Build!JobOK, Build!BaseOK, Build!ScannedOK, Build!ReportOf, Build!Early, Build!Builder, Build!Gone, Build!Stages, Build!To
  <2> QED BY <1>1, <1>2, <2>1, <2>3, BuildQuiet DEF Build!To
<1>3. CASE Build!Raise
  BY <1>1, <1>3, BuildRaised DEF Build!Accept
<1> QED BY <1>2, <1>3 DEF Build!Accept

LEMMA BuildFinally ==
  ASSUME Build!Inv, s1 \in Build!Stages, Build!Finally
  PROVE  Build!Inv'
<1>1. s3' = s3 /\ s4' = s4 /\ s3 \in Build!Dockers /\ s4 \in Build!Receipts
  BY DEF Build!Finally, Build!Inv, Build!TypesOK
<1>2. Build!JobOK' /\ Build!BaseOK' /\ Build!ScannedOK'
  BY <1>1 DEF Build!Finally, Build!Inv, Build!JobOK, Build!BaseOK, Build!ScannedOK, Build!ReportOf, Build!Early, Build!Builder,
              Build!Gone, Build!To
<1> QED BY <1>1, <1>2, BuildQuiet DEF Build!Finally, Build!To

\* The builder may be lost while it is used, and before it is removed.
LEMMA BuildLose ==
  ASSUME Build!Inv, s1 \in Build!Stages, Build!Lose
  PROVE  Build!Inv'
<1>1. /\ s4' = s4 /\ s3 \in Build!Dockers /\ s4 \in Build!Receipts
      /\ s3' = [s3 EXCEPT !.container = "none"]
  BY DEF Build!Lose, Build!Inv, Build!TypesOK
<1>2. /\ s3' \in Build!Dockers /\ s3'.container = "none" /\ s3'.instance = s3.instance /\ s3'.volume = s3.volume
      /\ s3'.scanner = s3.scanner /\ s3'.image = s3.image
  BY <1>1 DEF Build!Dockers, Build!Named
<1>3. Build!JobOK' /\ Build!BaseOK' /\ Build!ScannedOK'
  BY <1>1, <1>2 DEF Build!Lose, Build!Inv, Build!JobOK, Build!BaseOK, Build!ScannedOK, Build!ReportOf, Build!Builder, Build!Gone
<1> QED BY <1>1, <1>2, <1>3, BuildQuiet DEF Build!Lose

\* A Docker command of the first half of the job: what it makes is owed or not a builder, whether the client sees it or not.
LEMMA BuildCommand ==
  ASSUME Build!Inv, s1 \in Build!Stages, NEW after \in Build!Dockers, NEW r \in Build!Receipts, NEW where,
         <<s2, where>> \in {<<"load", "context">>, <<"create", "bootstrap">>, <<"bootstrap", "qualify">>},
         Build!Command(after, r, where),
         r.report = s4.report, r.archive = s4.archive, r.base = s4.base, r.built = s4.built, r.absent = s4.absent,
         r.builderRemoved = s4.builderRemoved, r.scannerRemoved = s4.scannerRemoved, r.importRemoved = s4.importRemoved,
         r.cleanupFailed = s4.cleanupFailed, s4.created => r.created,
         Build!Builder(after) => r.created \/ r.cleanupFailed,
         after.volume = s3.volume \/ after.volume = "ours"
  PROVE  Build!Inv'
<1>1. /\ s3 \in Build!Dockers /\ s4 \in Build!Receipts /\ s1' = s1 /\ s5' = s5 /\ s6' = s6
      /\ s2 \in {"load", "create", "bootstrap"} /\ where \in {"context", "bootstrap", "qualify"}
      /\ s2 = "load" => where = "context"
  BY DEF Build!Command, Build!To, Build!Inv, Build!TypesOK
<1>2. ~s4.builderRemoved /\ ~s4.scannerRemoved /\ ~s4.importRemoved
  BY <1>1 DEF Build!Inv, Build!JobOK
<1>3. ASSUME NEW d \in {s3, after}
      PROVE  (Build!Builder(d) => r.created \/ r.cleanupFailed) /\ (r.absent => d.volume # "foreign")
  BY <1>3 DEF Build!Inv, Build!JobOK
<1>4. CASE s3' = after /\ s4' = r /\ Build!To(where)
  <2>1. Build!JobOK'
    BY <1>1, <1>2, <1>3, <1>4 DEF Build!JobOK, Build!To
  <2>2. Build!BaseOK' /\ Build!ScannedOK'
    BY <1>1, <1>4 DEF Build!Inv, Build!BaseOK, Build!ScannedOK, Build!ReportOf, Build!Early, Build!To
  <2> QED BY <1>1, <1>4, <2>1, <2>2, BuildQuiet
<1>5. CASE s3' \in {s3, after} /\ s4' = [r EXCEPT !.failed = TRUE] /\ Build!To("finally")
  <2>1. s2' = "finally" /\ s3' \in Build!Dockers
    BY <1>1, <1>5 DEF Build!To
  <2>2. (Build!Builder(s3') => r.created \/ r.cleanupFailed) /\ (r.absent => s3'.volume # "foreign")
    BY <1>3, <1>5
  <2>3. ~r.builderRemoved /\ ~r.scannerRemoved /\ ~r.importRemoved
    BY <1>2
  <2> QED BY <1>1, <1>5, <2>1, <2>2, <2>3, BuildRaise
<1> QED BY <1>4, <1>5 DEF Build!Command

LEMMA BuildLoad ==
  ASSUME Build!Inv, s1 \in Build!Stages, Build!Load
  PROVE  Build!Inv'
<1>1. s3 \in Build!Dockers /\ s4 \in Build!Receipts /\ s2 = "load"
  BY DEF Build!Load, Build!Inv, Build!TypesOK
<1>2. CASE Build!Raise /\ s3' = s3
  BY <1>1, <1>2, BuildRaised
<1> DEFINE after == [s3 EXCEPT !.image = "ours"]
           r == [s4 EXCEPT !.imported = TRUE]
<1>3. CASE Build!Command(after, r, "context")
  <2>1. /\ after \in Build!Dockers /\ after.container = s3.container /\ after.instance = s3.instance /\ after.volume = s3.volume
    BY <1>1 DEF Build!Dockers, Build!Named
  <2>2. /\ r \in Build!Receipts /\ r.report = s4.report /\ r.archive = s4.archive /\ r.base = s4.base /\ r.built = s4.built
        /\ r.absent = s4.absent /\ r.builderRemoved = s4.builderRemoved /\ r.scannerRemoved = s4.scannerRemoved
        /\ r.importRemoved = s4.importRemoved /\ r.cleanupFailed = s4.cleanupFailed /\ r.created = s4.created
    BY <1>1 DEF Build!Receipts
  <2>3. Build!Builder(after) => r.created \/ r.cleanupFailed
    BY <2>1, <2>2 DEF Build!Inv, Build!JobOK, Build!Builder
  <2> HIDE DEF after, r
  <2> QED BY <1>1, <1>3, <2>1, <2>2, <2>3, BuildCommand
<1> QED BY <1>2, <1>3 DEF Build!Load

LEMMA BuildCreate ==
  ASSUME Build!Inv, s1 \in Build!Stages, Build!Create
  PROVE  Build!Inv'
<1>1. s3 \in Build!Dockers /\ s4 \in Build!Receipts /\ s2 = "create"
  BY DEF Build!Create, Build!Inv, Build!TypesOK
<1> DEFINE after == [s3 EXCEPT !.instance = TRUE]
           r == [s4 EXCEPT !.created = TRUE]
<1>2. Build!Command(after, r, "bootstrap")
  BY DEF Build!Create, Build!Owes
<1>3. after \in Build!Dockers /\ after.volume = s3.volume
  BY <1>1 DEF Build!Dockers
<1>4. /\ r \in Build!Receipts /\ r.report = s4.report /\ r.archive = s4.archive /\ r.base = s4.base /\ r.built = s4.built
      /\ r.absent = s4.absent /\ r.builderRemoved = s4.builderRemoved /\ r.scannerRemoved = s4.scannerRemoved
      /\ r.importRemoved = s4.importRemoved /\ r.cleanupFailed = s4.cleanupFailed /\ r.created
  BY <1>1 DEF Build!Receipts
<1> HIDE DEF after, r
<1> QED BY <1>1, <1>2, <1>3, <1>4, BuildCommand

LEMMA BuildBootstrap ==
  ASSUME Build!Inv, s1 \in Build!Stages, Build!Bootstrap
  PROVE  Build!Inv'
<1>1. s3 \in Build!Dockers /\ s4 \in Build!Receipts /\ s2 = "bootstrap"
  BY DEF Build!Bootstrap, Build!Inv, Build!TypesOK
<1> DEFINE made == [s3 EXCEPT !.container = "ours", !.volume = IF @ = "none" THEN "ours" ELSE @]
           after == IF s3.container = "none" THEN made ELSE s3
           r == [s4 EXCEPT !.created = TRUE]
<1>2. Build!Command(after, r, "qualify")
  BY DEF Build!Bootstrap
<1>3. after \in Build!Dockers /\ (after.volume = s3.volume \/ after.volume = "ours")
  <2>1. ASSUME NEW v \in Build!Named
        PROVE  LET m == [s3 EXCEPT !.container = "ours", !.volume = v] IN m \in Build!Dockers /\ m.volume = v
    BY <1>1 DEF Build!Dockers, Build!Named
  <2>2. made \in Build!Dockers /\ (made.volume = s3.volume \/ made.volume = "ours")
    <3>1. CASE s3.volume = "none"
      <4>1. made = [s3 EXCEPT !.container = "ours", !.volume = "ours"]
        BY <1>1, <3>1 DEF Build!Dockers
      <4> QED BY <2>1, <4>1 DEF Build!Named
    <3>2. CASE s3.volume # "none"
      <4>1. made = [s3 EXCEPT !.container = "ours", !.volume = s3.volume]
        BY <1>1, <3>2 DEF Build!Dockers
      <4>2. s3.volume \in Build!Named
        BY <1>1 DEF Build!Dockers
      <4>3. /\ [s3 EXCEPT !.container = "ours", !.volume = s3.volume] \in Build!Dockers
            /\ [s3 EXCEPT !.container = "ours", !.volume = s3.volume].volume = s3.volume
        BY <1>1, <4>2 DEF Build!Dockers, Build!Named
      <4> HIDE DEF made
      <4> QED BY <4>1, <4>3
    <3> QED BY <3>1, <3>2
  <2> QED BY <1>1, <2>2
<1>4. /\ r \in Build!Receipts /\ r.report = s4.report /\ r.archive = s4.archive /\ r.base = s4.base /\ r.built = s4.built
      /\ r.absent = s4.absent /\ r.builderRemoved = s4.builderRemoved /\ r.scannerRemoved = s4.scannerRemoved
      /\ r.importRemoved = s4.importRemoved /\ r.cleanupFailed = s4.cleanupFailed /\ r.created
  BY <1>1 DEF Build!Receipts
<1> HIDE DEF after, r
<1> QED BY <1>1, <1>2, <1>3, <1>4, BuildCommand

\* A removal only takes away, and takes the job's own builder.
BuildTakes ==
    /\ s3' \in Build!Dockers /\ s3'.container \in {s3.container, "none"} /\ (s3'.instance => s3.instance)
    /\ s3'.volume \in {s3.volume, "none"} /\ s3'.scanner = s3.scanner /\ s3'.image = s3.image

BuildRemoving == {"remove", "again", "remove_instance", "again_instance", "remove_volume", "again_volume"}

LEMMA BuildRemovalFails ==
  ASSUME Build!Inv, s1 \in Build!Stages, s2 \in BuildRemoving, BuildTakes, Build!RemovalFails
  PROVE  Build!Inv'
<1>1. s3 \in Build!Dockers /\ s4 \in Build!Receipts /\ s1' = s1 /\ s5' = s5 /\ s6' = s6
  BY DEF Build!RemovalFails, Build!Raise, Build!To, Build!Inv, Build!TypesOK
<1>2. /\ Build!Builder(s3') => s4.created \/ s4.cleanupFailed
      /\ s4.absent => s3'.volume # "foreign"
      /\ s4.builderRemoved => Build!Gone(s3')
      /\ s4.scannerRemoved => s3'.scanner = "none"
      /\ ~s4.importRemoved
  BY <1>1 DEF BuildTakes, BuildRemoving, Build!Inv, Build!JobOK, Build!Builder, Build!Gone
<1>3. CASE Build!Again
  <2>1. s4' = [s4 EXCEPT !.cleanupFailed = TRUE] /\ s2' = "unimport"
    BY <1>3 DEF Build!RemovalFails, Build!To
  <2>2. /\ s4' \in Build!Receipts /\ s4'.cleanupFailed
        /\ s4'.created = s4.created /\ s4'.builderRemoved = s4.builderRemoved /\ s4'.absent = s4.absent
        /\ s4'.scannerRemoved = s4.scannerRemoved /\ s4'.importRemoved = s4.importRemoved /\ s4'.report = s4.report
        /\ s4'.archive = s4.archive /\ s4'.built = s4.built /\ s4'.base = s4.base
    BY <1>1, <2>1 DEF Build!Receipts
  <2>3. Build!JobOK'
    BY <1>2, <2>1, <2>2 DEF Build!JobOK
  <2>4. Build!BaseOK' /\ Build!ScannedOK'
    BY <1>1, <2>1, <2>2 DEF Build!Inv, Build!BaseOK, Build!ScannedOK, Build!ReportOf, Build!Early
  <2>5. s3' \in Build!Dockers
    BY DEF BuildTakes
  <2> QED BY <1>1, <2>2, <2>3, <2>4, <2>5, BuildQuiet
<1>4. CASE ~Build!Again
  <2>1. s2' = "finally" /\ s4' = [s4 EXCEPT !.failed = TRUE] /\ s3' \in Build!Dockers
    BY <1>4 DEF Build!RemovalFails, Build!Raise, Build!To, BuildTakes
  <2> QED BY <1>1, <1>2, <2>1, BuildRaise
<1> QED BY <1>3, <1>4

LEMMA BuildRemovalGoesOn ==
  ASSUME Build!Inv, s1 \in Build!Stages, s2 \in BuildRemoving, BuildTakes,
         s4' = s4, s1' = s1, s5' = s5, s6' = s6,
         IF Build!Again THEN s2' \in {"again_instance", "again_volume"} ELSE s2' \in {"remove_instance", "remove_volume"}
  PROVE  Build!Inv'
<1>1. s3' \in Build!Dockers /\ s4' = s4 /\ s4 \in Build!Receipts /\ s1' = s1 /\ s5' = s5 /\ s6' = s6
  BY DEF Build!Inv, Build!TypesOK, BuildTakes
<1>2. Build!JobOK'
  BY <1>1 DEF BuildTakes, BuildRemoving, Build!Again, Build!Inv, Build!JobOK, Build!Builder, Build!Gone
<1>3. Build!BaseOK' /\ Build!ScannedOK'
  BY <1>1 DEF Build!Inv, Build!BaseOK, Build!ScannedOK, Build!ReportOf, Build!Early
<1> QED BY <1>1, <1>2, <1>3, BuildQuiet

LEMMA BuildRemoveContainer ==
  ASSUME Build!Inv, s1 \in Build!Stages, Build!RemoveContainer
  PROVE  Build!Inv'
<1>1. s3 \in Build!Dockers /\ s2 \in {"remove", "again"} /\ s2 \in BuildRemoving
  BY DEF Build!RemoveContainer, Build!Inv, Build!TypesOK, BuildRemoving
<1>2. s3' = s3 \/ s3' = [s3 EXCEPT !.container = "none"]
  BY DEF Build!RemoveContainer
<1>3. BuildTakes
  BY <1>1, <1>2 DEF BuildTakes, Build!Dockers, Build!Named
<1>4. Build!Then("remove_instance", "again_instance") \/ Build!RemovalFails
  BY DEF Build!RemoveContainer
<1>5. CASE Build!RemovalFails
  BY <1>1, <1>3, <1>5, BuildRemovalFails
<1>6. CASE Build!Then("remove_instance", "again_instance")
  BY <1>1, <1>3, <1>6, BuildRemovalGoesOn DEF Build!Then, Build!To
<1> QED BY <1>4, <1>5, <1>6

LEMMA BuildRemoveInstance ==
  ASSUME Build!Inv, s1 \in Build!Stages, Build!RemoveInstance
  PROVE  Build!Inv'
<1>1. s3 \in Build!Dockers /\ s2 \in {"remove_instance", "again_instance"} /\ s2 \in BuildRemoving
  BY DEF Build!RemoveInstance, Build!Inv, Build!TypesOK, BuildRemoving
<1>2. BuildTakes
  <2>1. CASE s3' = s3
    BY <1>1, <2>1 DEF BuildTakes, Build!Dockers
  <2>2. CASE s3' # s3
    <3>1. PICK volume \in {s3.volume, "none"} :
            s3' = [s3 EXCEPT !.instance = FALSE, !.volume = IF s3.volume = "ours" THEN volume ELSE @]
      BY <2>2 DEF Build!RemoveInstance
    <3>2. ASSUME NEW v \in {s3.volume, "none"}, s3' = [s3 EXCEPT !.instance = FALSE, !.volume = v]
          PROVE  BuildTakes
      BY <1>1, <3>2 DEF BuildTakes, Build!Dockers, Build!Named
    <3>3. CASE s3.volume = "ours"
      <4>1. s3' = [s3 EXCEPT !.instance = FALSE, !.volume = volume]
        BY <3>1, <3>3
      <4> QED BY <3>2, <4>1
    <3>4. CASE s3.volume # "ours"
      <4>1. s3' = [s3 EXCEPT !.instance = FALSE, !.volume = s3.volume]
        BY <1>1, <3>1, <3>4 DEF Build!Dockers
      <4> QED BY <3>2, <4>1
    <3> QED BY <3>3, <3>4
  <2> QED BY <2>1, <2>2
<1>3. Build!Then("remove_volume", "again_volume") \/ Build!RemovalFails
  BY DEF Build!RemoveInstance
<1>4. CASE Build!RemovalFails
  BY <1>1, <1>2, <1>4, BuildRemovalFails
<1>5. CASE Build!Then("remove_volume", "again_volume")
  BY <1>1, <1>2, <1>5, BuildRemovalGoesOn DEF Build!Then, Build!To
<1> QED BY <1>3, <1>4, <1>5

\* Once nothing of the builder is there, the receipt says so.
LEMMA BuildRemoveVolume ==
  ASSUME Build!Inv, s1 \in Build!Stages, Build!RemoveVolume
  PROVE  Build!Inv'
<1>1. s3 \in Build!Dockers /\ s4 \in Build!Receipts /\ s2 \in {"remove_volume", "again_volume"} /\ s2 \in BuildRemoving
  BY DEF Build!RemoveVolume, Build!Inv, Build!TypesOK, BuildRemoving
<1>2. s3' = s3 \/ s3' = [s3 EXCEPT !.volume = "none"]
  BY DEF Build!RemoveVolume
<1>3. BuildTakes
  BY <1>1, <1>2 DEF BuildTakes, Build!Dockers, Build!Named
<1>4. CASE Build!RemovalFails
  BY <1>1, <1>3, <1>4, BuildRemovalFails
<1>5. CASE /\ Build!Absent(s3') /\ s4' = [s4 EXCEPT !.builderRemoved = TRUE, !.created = FALSE]
           /\ Build!To(IF Build!Again THEN "unimport" ELSE "verify")
  <2>2. /\ s4' \in Build!Receipts /\ s4'.builderRemoved /\ ~s4'.created
        /\ s4'.cleanupFailed = s4.cleanupFailed /\ s4'.absent = s4.absent
        /\ s4'.scannerRemoved = s4.scannerRemoved /\ s4'.importRemoved = s4.importRemoved /\ s4'.report = s4.report
        /\ s4'.archive = s4.archive /\ s4'.built = s4.built /\ s4'.base = s4.base
    BY <1>1, <1>5 DEF Build!Receipts
  <2>3. s1' = s1 /\ s5' = s5 /\ s6' = s6 /\ s3' \in Build!Dockers /\ s2' \in {"unimport", "verify"} /\ (s2' = "verify" <=> ~Build!Again)
    BY <1>3, <1>5 DEF Build!To, BuildTakes
  <2>4. Build!Gone(s3') /\ ~Build!Builder(s3')
    BY <1>5 DEF Build!Absent, Build!Gone, Build!Builder
  <2>5. ~s4.importRemoved /\ (s4.scannerRemoved => s3.scanner = "none" /\ Build!Again)
    BY <1>1 DEF Build!Inv, Build!JobOK, Build!Again
  <2>6. Build!JobOK'
    BY <1>3, <2>2, <2>3, <2>4, <2>5 DEF Build!JobOK, Build!Gone, BuildTakes
  <2>7. Build!BaseOK' /\ Build!ScannedOK'
    BY <2>2, <2>3 DEF Build!Inv, Build!BaseOK, Build!ScannedOK, Build!ReportOf, Build!Early
  <2> QED BY <2>2, <2>3, <2>6, <2>7, BuildQuiet
<1> QED BY <1>4, <1>5 DEF Build!RemoveVolume

LEMMA BuildRemoveScanner ==
  ASSUME Build!Inv, s1 \in Build!Stages, Build!RemoveScanner
  PROVE  Build!Inv'
<1>1. s3 \in Build!Dockers /\ s4 \in Build!Receipts /\ s2 \in {"scanned", "unscan"} /\ s1' = s1 /\ s5' = s5 /\ s6' = s6
  BY DEF Build!RemoveScanner, Build!Raise, Build!To, Build!Inv, Build!TypesOK
<1>2. /\ s3' \in Build!Dockers /\ s3'.container = s3.container /\ s3'.instance = s3.instance /\ s3'.volume = s3.volume
      /\ s3'.image = s3.image
  BY <1>1 DEF Build!RemoveScanner, Build!Dockers, Build!Named
<1>3. /\ Build!Builder(s3') => s4.created \/ s4.cleanupFailed
      /\ s4.absent => s3'.volume # "foreign"
      /\ s4.builderRemoved => Build!Gone(s3')
      /\ ~s4.scannerRemoved /\ ~s4.importRemoved
  BY <1>1, <1>2 DEF Build!Inv, Build!JobOK, Build!Builder, Build!Gone
<1>4. CASE Build!Raise
  <2>1. s2' = "finally" /\ s4' = [s4 EXCEPT !.failed = TRUE]
    BY <1>4 DEF Build!Raise, Build!To
  <2> QED BY <1>1, <1>2, <1>3, <2>1, BuildRaise
<1>5. CASE s3'.scanner = "none" /\ s2' = "accept" /\ s4' = [s4 EXCEPT !.scannerRemoved = TRUE, !.scanned = TRUE]
  <2>1. /\ s4' \in Build!Receipts /\ s4'.scannerRemoved
        /\ s4'.created = s4.created /\ s4'.cleanupFailed = s4.cleanupFailed /\ s4'.absent = s4.absent
        /\ s4'.builderRemoved = s4.builderRemoved /\ s4'.importRemoved = s4.importRemoved /\ s4'.report = s4.report
        /\ s4'.archive = s4.archive /\ s4'.built = s4.built /\ s4'.base = s4.base
    BY <1>1, <1>5 DEF Build!Receipts
  <2>2. Build!JobOK'
    BY <1>3, <1>5, <2>1 DEF Build!JobOK
  <2>3. Build!BaseOK' /\ Build!ScannedOK'
    BY <1>1, <1>5, <2>1 DEF Build!Inv, Build!BaseOK, Build!ScannedOK, Build!ReportOf, Build!Early
  <2> QED BY <1>1, <1>2, <2>1, <2>2, <2>3, BuildQuiet
<1>6. CASE s3'.scanner = "none" /\ s2' = "finally" /\ s4' = [s4 EXCEPT !.scannerRemoved = TRUE, !.failed = TRUE]
  <2> DEFINE r == [s4 EXCEPT !.scannerRemoved = TRUE]
  <2>1. /\ r \in Build!Receipts
        /\ r.created = s4.created /\ r.cleanupFailed = s4.cleanupFailed /\ r.absent = s4.absent
        /\ r.builderRemoved = s4.builderRemoved /\ r.importRemoved = s4.importRemoved /\ r.report = s4.report
        /\ r.archive = s4.archive /\ r.built = s4.built /\ r.base = s4.base
    BY <1>1 DEF Build!Receipts
  <2>2. s4' = [r EXCEPT !.failed = TRUE]
    BY <1>1, <1>6 DEF Build!Receipts
  <2> HIDE DEF r
  <2> QED BY <1>1, <1>2, <1>3, <1>6, <2>1, <2>2, BuildRaise
<1>7. ASSUME s3' = [s3 EXCEPT !.scanner = "none"] PROVE s3'.scanner = "none"
  BY <1>1, <1>7 DEF Build!Dockers
<1> QED BY <1>4, <1>5, <1>6, <1>7 DEF Build!RemoveScanner, Build!To

LEMMA BuildUnimport ==
  ASSUME Build!Inv, s1 \in Build!Stages, Build!Unimport
  PROVE  Build!Inv'
<1>1. s3 \in Build!Dockers /\ s4 \in Build!Receipts /\ s2 = "unimport" /\ s2' = "save" /\ s1' = s1 /\ s5' = s5 /\ s6' = s6
  BY DEF Build!Unimport, Build!To, Build!Inv, Build!TypesOK
<1>2. /\ s3' \in Build!Dockers /\ s3'.container = s3.container /\ s3'.instance = s3.instance /\ s3'.volume = s3.volume
      /\ s3'.scanner = s3.scanner
  BY <1>1 DEF Build!Unimport, Build!Dockers, Build!Named
<1>3. /\ s4' \in Build!Receipts
      /\ s4'.created = s4.created /\ s4'.cleanupFailed = s4.cleanupFailed /\ s4'.absent = s4.absent
      /\ s4'.builderRemoved = s4.builderRemoved /\ s4'.scannerRemoved = s4.scannerRemoved /\ s4'.report = s4.report
      /\ s4'.archive = s4.archive /\ s4'.built = s4.built /\ s4'.base = s4.base
  BY <1>1 DEF Build!Unimport, Build!Receipts
<1>4. s4'.importRemoved => s3'.image = "none"
  <2>1. ~s4.importRemoved
    BY <1>1 DEF Build!Inv, Build!JobOK
  <2>2. s4'.importRemoved => s3' = [s3 EXCEPT !.image = "none"]
    BY <1>1, <2>1 DEF Build!Unimport, Build!Receipts
  <2> QED BY <1>1, <2>2 DEF Build!Dockers
<1>5. Build!JobOK'
  BY <1>1, <1>2, <1>3, <1>4 DEF Build!Inv, Build!JobOK, Build!Builder, Build!Gone
<1>6. Build!BaseOK' /\ Build!ScannedOK'
  BY <1>1, <1>3 DEF Build!Inv, Build!BaseOK, Build!ScannedOK, Build!ReportOf, Build!Early
<1> QED BY <1>1, <1>2, <1>3, <1>5, <1>6, BuildQuiet

\* What a build leaves out was a component.
LEMMA BuiltAreImages == Build!Built \subseteq Build!Images
  BY DEF Build!Built, Build!Images

\* The job writes its own archive.
LEMMA BuildImage ==
  ASSUME Build!Inv, s1 \in Build!Stages, NEW image \in Build!Images, Build!Build(image)
  PROVE  Build!Inv'
<1>1. s3' = s3 /\ s3 \in Build!Dockers /\ s4 \in Build!Receipts /\ s2 = "build" /\ s5 \in [Build!Stages -> Build!Directories]
  BY DEF Build!Build, Build!Inv, Build!TypesOK
<1>2. CASE Build!Raise
  BY <1>1, <1>2, BuildRaised
<1>3. CASE ~Build!Raise
  <2>1. /\ s2' = "remove" /\ s4' = [s4 EXCEPT !.built = TRUE, !.archive = image]
        /\ s5' = [s5 EXCEPT ![s1].archive = image] /\ s1' = s1 /\ s6' = s6
    BY <1>3 DEF Build!Build
  <2>2. /\ s4' \in Build!Receipts
        /\ s4'.created = s4.created /\ s4'.cleanupFailed = s4.cleanupFailed /\ s4'.absent = s4.absent
        /\ s4'.builderRemoved = s4.builderRemoved /\ s4'.scannerRemoved = s4.scannerRemoved /\ s4'.report = s4.report
        /\ s4'.importRemoved = s4.importRemoved /\ s4'.base = s4.base
    BY <1>1, <2>1 DEF Build!Receipts
  <2>3. /\ s5' \in [Build!Stages -> Build!Directories]
        /\ \A s \in Build!Stages : s5'[s].receipt = s5[s].receipt /\ s5'[s].saved = s5[s].saved
    BY <1>1, <2>1 DEF Build!Directories
  <2>4. Build!JobOK'
    BY <1>1, <2>1, <2>2 DEF Build!Inv, Build!JobOK, Build!Builder, Build!Gone
  <2>5. Build!BaseOK'
    BY <1>1, <2>1, <2>2, <2>3 DEF Build!Inv, Build!BaseOK, Build!Stages
  <2>6. Build!ScannedOK'
    BY <1>1, <2>1, <2>2 DEF Build!Inv, Build!ScannedOK, Build!ReportOf, Build!Early
  <2> QED BY <1>1, <2>1, <2>2, <2>3, <2>4, <2>5, <2>6, BuildMoves
<1> QED BY <1>2, <1>3

\* The report is of the archive that the receipt names.
LEMMA BuildScan ==
  ASSUME Build!Inv, s1 \in Build!Stages, NEW findings \in Reports, NEW changed \in Build!Changes, Build!Scan(findings, changed)
  PROVE  Build!Inv'
<1> DEFINE report == [of |-> s5[s1].archive, findings |-> findings, changed |-> changed]
<1>1. /\ s3 \in Build!Dockers /\ s4 \in Build!Receipts /\ s2 = "scan" /\ s5 \in [Build!Stages -> Build!Directories]
      /\ s1' = s1 /\ s6' = s6
  BY DEF Build!Scan, Build!Raise, Build!To, Build!Inv, Build!TypesOK
<1>2. CASE Build!Raise /\ s3' = s3
  BY <1>1, <1>2, BuildRaised
<1>3. /\ Build!Builder(s3) => s4.created \/ s4.cleanupFailed
      /\ s4.absent => s3.volume # "foreign"
      /\ s4.builderRemoved => Build!Gone(s3)
      /\ ~s4.scannerRemoved /\ ~s4.importRemoved
  BY <1>1 DEF Build!Inv, Build!JobOK
<1>4. CASE /\ s5[s1].archive = s4.archive /\ s3' = [s3 EXCEPT !.scanner = "ours"] /\ s2' = "scanned"
           /\ s4' = [s4 EXCEPT !.report = report] /\ s5' = [s5 EXCEPT ![s1].report = report]
  <2>1. report \in Build!Scans /\ report.of = s4.archive
    BY <1>1, <1>4 DEF Build!Scans, Build!Directories
  <2> HIDE DEF report
  <2>2. /\ s4' \in Build!Receipts /\ s4'.report = report /\ s4'.archive = s4.archive
        /\ s4'.created = s4.created /\ s4'.cleanupFailed = s4.cleanupFailed /\ s4'.absent = s4.absent
        /\ s4'.builderRemoved = s4.builderRemoved /\ s4'.scannerRemoved = s4.scannerRemoved
        /\ s4'.importRemoved = s4.importRemoved /\ s4'.base = s4.base /\ s4'.built = s4.built
    BY <1>1, <1>4, <2>1 DEF Build!Receipts
  <2>3. /\ s5' \in [Build!Stages -> Build!Directories]
        /\ \A s \in Build!Stages : s5'[s].receipt = s5[s].receipt /\ s5'[s].saved = s5[s].saved
    BY <1>1, <1>4, <2>1 DEF Build!Directories
  <2>4. s3' \in Build!Dockers /\ s3'.container = s3.container /\ s3'.instance = s3.instance /\ s3'.volume = s3.volume
    BY <1>1, <1>4 DEF Build!Dockers, Build!Named
  <2>5. Build!JobOK'
    BY <1>3, <1>4, <2>2, <2>4 DEF Build!JobOK, Build!Builder, Build!Gone
  <2>6. Build!BaseOK'
    BY <1>1, <1>4, <2>2, <2>3 DEF Build!Inv, Build!BaseOK, Build!Stages
  <2>7. Build!ScannedOK'
    BY <1>4, <2>1, <2>2 DEF Build!ScannedOK, Build!ReportOf, Build!Early
  <2> QED BY <1>1, <2>2, <2>3, <2>4, <2>5, <2>6, <2>7, BuildMoves
<1>5. CASE /\ s3' \in {s3, [s3 EXCEPT !.scanner = IF @ = "none" THEN "ours" ELSE @]} /\ Build!To("unscan") /\ s4' = s4
  <2>1. s3' \in Build!Dockers /\ s3'.container = s3.container /\ s3'.instance = s3.instance /\ s3'.volume = s3.volume
    BY <1>1, <1>5 DEF Build!Dockers, Build!Named
  <2>2. Build!JobOK'
    BY <1>3, <1>5, <2>1 DEF Build!JobOK, Build!Builder, Build!Gone, Build!To
  <2>3. Build!BaseOK' /\ Build!ScannedOK'
    BY <1>1, <1>5 DEF Build!Inv, Build!BaseOK, Build!ScannedOK, Build!ReportOf, Build!Early, Build!To
  <2> QED BY <1>1, <1>5, <2>1, <2>2, <2>3, BuildQuiet DEF Build!To
<1> QED BY <1>2, <1>4, <1>5 DEF Build!Scan

LEMMA BuildNothing ==
  /\ Build!NoReport \in Build!Scans /\ Build!NoReport.of = Build!NoImage
  /\ Build!NoRecord \in Build!Receipts /\ Build!NoRecord.report = Build!NoReport
  /\ ~Build!NoRecord.absent /\ ~Build!NoRecord.created /\ ~Build!NoRecord.built /\ ~Build!NoRecord.builderRemoved
  /\ ~Build!NoRecord.scannerRemoved /\ ~Build!NoRecord.importRemoved
<1>1. Build!NoReport \in Build!Scans /\ Build!NoReport.of = Build!NoImage
  BY DEF Build!NoReport, Build!Scans, Build!Changes
<1> QED BY <1>1 DEF Build!NoRecord, Build!Receipts

\* What a job leaves of its own, and what of that is a builder.
LEMMA BuildOurs ==
  ASSUME NEW d \in Build!Dockers
  PROVE  /\ Build!Ours(d) \subseteq {"container", "volume", "scanner", "image", "instance"}
         /\ Build!Ours(d) \cap {"container", "instance", "volume"} # {} => Build!Builder(d)
         /\ Build!Gone(d) /\ d.scanner = "none" /\ d.image = "none" => Build!Ours(d) = {}
         /\ Build!Gone(d) => ~Build!Builder(d)
<1>1. /\ "container" \in Build!Ours(d) <=> d.container = "ours"
      /\ "volume" \in Build!Ours(d) <=> d.volume = "ours"
      /\ "scanner" \in Build!Ours(d) <=> d.scanner = "ours"
      /\ "image" \in Build!Ours(d) <=> d.image = "ours"
      /\ "instance" \in Build!Ours(d) <=> d.instance
      /\ Build!Ours(d) \subseteq {"container", "volume", "scanner", "image", "instance"}
  <2> DEFINE A == {r \in {"container", "volume", "scanner", "image"} : d[r] = "ours"}
             B == IF d.instance THEN {"instance"} ELSE {}
  <2>1. /\ "container" \in A <=> d.container = "ours"
        /\ "volume" \in A <=> d.volume = "ours"
        /\ "scanner" \in A <=> d.scanner = "ours"
        /\ "image" \in A <=> d.image = "ours"
        /\ A \subseteq {"container", "volume", "scanner", "image"}
    OBVIOUS
  <2>2. ("instance" \in B <=> d.instance) /\ B \subseteq {"instance"}
    BY DEF Build!Dockers
  <2>3. Build!Ours(d) = A \cup B
    BY DEF Build!Ours
  <2> HIDE DEF A, B
  <2> QED BY <2>1, <2>2, <2>3
<1>2. Build!Ours(d) \cap {"container", "instance", "volume"} # {} => Build!Builder(d)
  BY <1>1 DEF Build!Builder
<1>3. Build!Gone(d) /\ d.scanner = "none" /\ d.image = "none" => Build!Ours(d) = {}
  BY <1>1 DEF Build!Gone
<1>4. Build!Gone(d) => ~Build!Builder(d)
  BY DEF Build!Gone, Build!Builder
<1>5. Build!Ours(d) \subseteq {"container", "volume", "scanner", "image", "instance"}
  BY <1>1
<1> QED BY <1>2, <1>3, <1>4, <1>5

\* The receipt is written, and the next job starts on a worker of its own.
LEMMA BuildSave ==
  ASSUME Build!Inv, s1 \in Build!Stages, Build!Save
  PROVE  Build!Inv'
<1>1. /\ s2 = "save" /\ s2' = "event" /\ s4' = Build!NoRecord
      /\ s3 \in Build!Dockers /\ s4 \in Build!Receipts /\ s5 \in [Build!Stages -> Build!Directories]
      /\ s6 \in [Build!Stages -> SUBSET {"container", "volume", "scanner", "image", "instance"}]
      /\ s5' = [s5 EXCEPT ![s1].receipt = s4, ![s1].saved = TRUE] /\ s6' = [s6 EXCEPT ![s1] = Build!Ours(s3)]
  BY DEF Build!Save, Build!Inv, Build!TypesOK
<1>2. PICK fresh \in Build!Worker : s3' = IF s1 = "public" THEN fresh ELSE Build!Clean
  BY DEF Build!Save
<1>3. s3' \in Build!Worker
  BY <1>2 DEF Build!Worker
<1>4. s3' \in Build!Dockers /\ ~Build!Builder(s3')
  BY <1>3, BuildWorker
<1>5. s1' \in {"private", "gate", "failed"}
  BY DEF Build!Save
<1>6. /\ s5' \in [Build!Stages -> Build!Directories] /\ s5'[s1].receipt = s4 /\ s5'[s1].saved
      /\ \A s \in Build!Stages \ {s1} : s5'[s] = s5[s]
  BY <1>1 DEF Build!Directories
<1>7. /\ s6' \in [Build!Stages -> SUBSET {"container", "volume", "scanner", "image", "instance"}]
      /\ s6'[s1] = Build!Ours(s3) /\ \A s \in Build!Stages \ {s1} : s6'[s] = s6[s]
  BY <1>1, BuildOurs
<1>8. Build!TypesOK'
  BY <1>1, <1>4, <1>5, <1>6, <1>7, BuildNothing DEF Build!TypesOK, Build!Stages
<1>9. Build!JobOK'
  BY <1>1, <1>4, BuildNothing DEF Build!JobOK
<1>10. Build!BaseOK' /\ Build!ScannedOK'
  BY <1>1, BuildNothing DEF Build!BaseOK, Build!ScannedOK, Build!ReportOf
<1>11. /\ s4.builderRemoved => Build!Gone(s3)
       /\ s4.scannerRemoved => s3.scanner = "none"
       /\ s4.importRemoved => s3.image = "none"
       /\ Build!Builder(s3) => s4.cleanupFailed
  BY <1>1 DEF Build!Inv, Build!JobOK
<1>12. \A s \in Build!Stages : Build!SavedOK(s)'
  <2>1. Build!ReportOf(s4)
    BY DEF Build!Inv, Build!ScannedOK
  <2>2. s4.builderRemoved /\ s4.scannerRemoved /\ s4.importRemoved => Build!Ours(s3) = {}
    BY <1>1, <1>11, BuildOurs
  <2>3. ASSUME NEW s \in Build!Stages \ {s1} PROVE Build!SavedOK(s)'
    BY <1>6, <1>7 DEF Build!Inv, Build!SavedOK, Build!ReportOf
  <2>4. ASSUME NEW s \in Build!Stages, s5'[s].receipt = s4, s5'[s].saved, s6'[s] = Build!Ours(s3) PROVE Build!SavedOK(s)'
    BY <2>1, <2>2, <2>4 DEF Build!SavedOK, Build!ReportOf
  <2>5. ASSUME NEW s \in Build!Stages PROVE Build!SavedOK(s)'
    BY <1>6, <1>7, <2>3, <2>4
  <2> QED BY <2>5
<1>13. ~s5'["private"].saved \/ s1 = "private"
  BY <1>6 DEF Build!Inv, Build!Stages
<1>14. s5'["private"].saved /\ s5'["private"].receipt.built => s5'["private"].receipt.base = s5'["public"].receipt.archive
  <2>1. CASE s1 = "private"
    <3>1. s5'["private"].receipt = s4 /\ s5'["public"] = s5["public"]
      BY <1>6, <2>1 DEF Build!Stages
    <3>2. s4.built => s4.base = s5["public"].receipt.archive
      BY <2>1 DEF Build!Inv, Build!BaseOK
    <3> QED BY <3>1, <3>2
  <2> QED BY <1>13, <2>1
<1>15. Build!LeftIsReported'
  <2>1. Build!Ours(s3) \cap {"container", "instance", "volume"} # {} => s4.cleanupFailed /\ ~s4.builderRemoved
    BY <1>1, <1>11, BuildOurs
  <2>2. ASSUME NEW s \in Build!Stages, s5'[s].saved, s6'[s] \cap {"container", "instance", "volume"} # {}
        PROVE  s5'[s].receipt.cleanupFailed /\ ~s5'[s].receipt.builderRemoved
    <3>1. CASE s = s1
      BY <1>6, <1>7, <2>1, <2>2, <3>1
    <3>2. CASE s # s1
      BY <1>6, <1>7, <2>2, <3>2 DEF Build!Inv, Build!LeftIsReported
    <3> QED BY <3>1, <3>2
  <2> QED BY <2>2 DEF Build!LeftIsReported
<1> QED BY <1>5, <1>8, <1>9, <1>10, <1>12, <1>14, <1>15 DEF Build!Inv, Build!GateSound

\* The end, before a job has begun or at the gate, leaves what the jobs wrote.
LEMMA BuildEnds ==
  ASSUME Build!Inv, s1' \in {"passed", "failed"}, s2' = s2, s3' = s3, s4' = s4, s5' = s5, s6' = s6, Build!GateSound'
  PROVE  Build!Inv'
<1>1. Build!TypesOK'
  BY DEF Build!Inv, Build!TypesOK
<1>2. Build!JobOK' /\ Build!ScannedOK' /\ Build!BaseOK'
  BY DEF Build!Inv, Build!JobOK, Build!ScannedOK, Build!BaseOK, Build!ReportOf, Build!Builder, Build!Gone
<1>3. \A s \in Build!Stages : Build!SavedOK(s)'
  BY DEF Build!Inv, Build!SavedOK, Build!ReportOf
<1>4. Build!LeftIsReported'
  BY DEF Build!Inv, Build!LeftIsReported
<1> QED BY <1>1, <1>2, <1>3, <1>4 DEF Build!Inv

LEMMA BuildBegin ==
  ASSUME Build!Inv, s1 \in Build!Stages, Build!Begin
  PROVE  Build!Inv'
<1>1. s2 = "event" /\ s3' = s3 /\ s4' = s4 /\ s5' = s5 /\ s6' = s6 /\ s3 \in Build!Dockers /\ s4 \in Build!Receipts
  BY DEF Build!Begin, Build!Inv, Build!TypesOK
<1>2. CASE s2' = "start" /\ s1' = s1
  <2>1. Build!JobOK' /\ Build!BaseOK' /\ Build!ScannedOK'
    BY <1>1, <1>2 DEF Build!Inv, Build!JobOK, Build!BaseOK, Build!ScannedOK, Build!ReportOf, Build!Early, Build!Builder, Build!Gone
  <2> QED BY <1>1, <1>2, <2>1, BuildQuiet
<1>3. CASE s1' = "failed" /\ s2' = s2
  <2>1. Build!GateSound'
    BY <1>3 DEF Build!GateSound
  <2> QED BY <1>1, <1>3, <2>1, BuildEnds
<1> QED BY <1>2, <1>3 DEF Build!Begin

\* The gate passes what the receipts show, and the receipts are true.
LEMMA BuildGate ==
  ASSUME Build!Inv, Build!Gate
  PROVE  Build!Inv'
<1>1. s1' \in {"passed", "failed"} /\ s2' = s2 /\ s3' = s3 /\ s4' = s4 /\ s5' = s5 /\ s6' = s6
  BY DEF Build!Gate
<1>2. ASSUME s1' = "passed" PROVE Build!GateSound'
  <2>1. \A s \in Build!Stages : Build!ReceiptHolds(s5[s]) /\ s5[s].receipt.accepted
    BY <1>2 DEF Build!Gate
  <2>2. ASSUME NEW s \in Build!Stages
        PROVE  /\ Build!Prerequisites \subseteq s5[s].receipt.archive /\ s6[s] = {}
               /\ \A v \in s5[s].receipt.report.findings : ~Build!Affects(v, s5[s].receipt.report, s5[s].receipt.archive)
    <3> DEFINE r == s5[s].receipt
    <3>1. /\ r.report.of # Build!NoImage /\ Build!ScanAcceptance(r.report.of, r.report)
          /\ s5[s].saved /\ r.builderRemoved /\ r.scannerRemoved /\ r.importRemoved
      BY <2>1 DEF Build!ReceiptHolds
    <3>2. r.report.of = r.archive /\ s6[s] = {}
      BY <3>1 DEF Build!Inv, Build!SavedOK, Build!ReportOf
    <3> HIDE DEF r
    <3>3. Build!ScanAcceptance(r.archive, r.report)
      BY <3>1, <3>2
    <3>4. Build!Prerequisites \subseteq r.archive
      BY <3>3 DEF Build!ScanAcceptance, Build!AssessComponents
    <3>5. ASSUME NEW v \in r.report.findings PROVE ~Build!Affects(v, r.report, r.archive)
      <4>1. r.report.changed = "none" /\ v \in DOMAIN Build!Policy /\ Build!Policy[v] \subseteq Build!AssessComponents(r.archive)
        BY <3>3 DEF Build!ScanAcceptance
      <4> QED BY <4>1 DEF Build!Affects, Build!AssessComponents
    <3>6. \A v \in r.report.findings : ~Build!Affects(v, r.report, r.archive)
      BY <3>5
    <3> QED BY <3>2, <3>4, <3>6 DEF r
  <2>3. s5["private"].receipt.base = s5["public"].receipt.archive
    BY <2>1 DEF Build!Inv, Build!ReceiptHolds, Build!Stages
  <2> QED BY <1>1, <2>2, <2>3 DEF Build!GateSound, Build!Affects
<1>3. Build!GateSound'
  BY <1>2 DEF Build!GateSound
<1> QED BY <1>1, <1>3, BuildEnds

\* Another process writes files, not receipts.
LEMMA BuildTamper ==
  ASSUME Build!Inv, NEW t \in Build!Stages, Build!Tamper(t)
  PROVE  Build!Inv'
<1>1. /\ s1 \in Build!Stages \cup {"gate"} /\ s1' = s1 /\ s2' = s2 /\ s3' = s3 /\ s4' = s4 /\ s6' = s6
      /\ s3 \in Build!Dockers /\ s4 \in Build!Receipts /\ s5 \in [Build!Stages -> Build!Directories]
  BY DEF Build!Tamper, Build!Inv, Build!TypesOK
<1>2. /\ s5' \in [Build!Stages -> Build!Directories]
      /\ \A s \in Build!Stages : s5'[s].receipt = s5[s].receipt /\ s5'[s].saved = s5[s].saved
  <2>1. CASE s5' = [s5 EXCEPT ![t].archive = {}]
    <3>1. {} \in Build!Images
      BY DEF Build!Images
    <3> QED BY <1>1, <2>1, <3>1 DEF Build!Directories
  <2>2. CASE s5' = [s5 EXCEPT ![t].report.findings = {}]
    <3>1. s5[t].report \in Build!Scans
      BY <1>1 DEF Build!Directories
    <3>2. [s5[t].report EXCEPT !.findings = {}] \in Build!Scans
      BY <3>1 DEF Build!Scans
    <3>3. PICK x \in Build!Scans : s5' = [s5 EXCEPT ![t].report = x]
      BY <2>2, <3>2
    <3> QED BY <1>1, <3>3 DEF Build!Directories
  <2> QED BY <2>1, <2>2 DEF Build!Tamper
<1>3. Build!JobOK' /\ Build!BaseOK' /\ Build!ScannedOK'
  BY <1>1, <1>2 DEF Build!Inv, Build!JobOK, Build!BaseOK, Build!ScannedOK, Build!ReportOf, Build!Builder, Build!Gone, Build!Stages
<1> QED BY <1>1, <1>2, <1>3, BuildMoves

LEMMA BuildKeeps ==
  ASSUME Build!Inv, Build!Next
  PROVE  Build!Inv'
<1>1. CASE Build!Gate
  BY <1>1, BuildGate
<1>2. CASE \E s \in Build!Stages : Build!Tamper(s)
  BY <1>2, BuildTamper
<1>3. ASSUME s1 \in Build!Stages, ~Build!Gate, ~\E s \in Build!Stages : Build!Tamper(s)
      PROVE  Build!Inv'
  <2>1. CASE Build!Begin \/ Build!Prepare \/ Build!Load \/ Build!Context \/ Build!ProbeVolume \/ Build!Create \/ Build!Bootstrap
    BY <1>3, <2>1, BuildBegin, BuildPrepare, BuildLoad, BuildContext, BuildProbeVolume, BuildCreate, BuildBootstrap
  <2>2. CASE Build!Qualify \/ Build!Preflight \/ (\E i \in Build!Built : Build!Build(i)) \/ Build!Lose
    BY <1>3, <2>2, BuiltAreImages, BuildQualify, BuildPreflight, BuildImage, BuildLose
  <2>3. CASE Build!RemoveContainer \/ Build!RemoveInstance \/ Build!RemoveVolume \/ Build!Verify
    BY <1>3, <2>3, BuildRemoveContainer, BuildRemoveInstance, BuildRemoveVolume, BuildVerify
  <2>4. CASE \E f \in Reports, c \in Build!Changes : Build!Scan(f, c)
    BY <1>3, <2>4, BuildScan
  <2>5. CASE Build!RemoveScanner \/ Build!Accept \/ Build!Finally \/ Build!Unimport \/ Build!Save
    BY <1>3, <2>5, BuildRemoveScanner, BuildAccept, BuildFinally, BuildUnimport, BuildSave
  <2> QED BY <1>3, <2>1, <2>2, <2>3, <2>4, <2>5 DEF Build!Next
<1> QED BY <1>1, <1>2, <1>3 DEF Build!Next

LEMMA BuildPart ==
  ASSUME part = "build" => Build!Inv, [Next]_vars
  PROVE  (part = "build" => Build!Inv)'
<1>1. CASE BuildStep
  <2>1. part = "build" /\ Build!Inv /\ Build!Next
    BY <1>1 DEF BuildStep
  <2> QED BY <2>1, BuildKeeps
<1>2. CASE ~BuildStep /\ Next
  BY <1>2 DEF Next, ModeStep, NightlyStep, LabelsStep, ArchiveStep, LayersStep
<1>3. CASE UNCHANGED vars
  <2>1. part' = part /\ s1' = s1 /\ s2' = s2 /\ s3' = s3 /\ s4' = s4 /\ s5' = s5 /\ s6' = s6
    BY <1>3 DEF vars
  <2>2. ASSUME Build!Inv PROVE Build!Inv'
    <3>1. Build!TypesOK' /\ Build!LeftIsReported'
      BY <2>1, <2>2 DEF Build!Inv, Build!TypesOK, Build!LeftIsReported
    <3>2. Build!JobOK' /\ Build!ScannedOK' /\ Build!BaseOK'
      BY <2>1, <2>2 DEF Build!Inv, Build!JobOK, Build!ScannedOK, Build!BaseOK, Build!ReportOf, Build!Builder, Build!Gone
    <3>3. \A s \in Build!Stages : Build!SavedOK(s)'
      BY <2>1, <2>2 DEF Build!Inv, Build!SavedOK, Build!ReportOf
    <3>4. Build!GateSound'
      BY <2>1, <2>2 DEF Build!Inv, Build!GateSound, Build!Affects
    <3> QED BY <2>1, <2>2, <3>1, <3>2, <3>3, <3>4 DEF Build!Inv
  <2> QED BY <2>1, <2>2
<1> QED BY <1>1, <1>2, <1>3

\* execute and its cleanups: a builder is owed its removal from before it
\* exists, and what the receipt reports as removed is gone.
THEOREM BuildInvHolds == Spec => [](part = "build" => Build!Inv)
<1>1. Init => (part = "build" => Build!Inv)
  BY BuildInit DEF Init
<1>2. (part = "build" => Build!Inv) /\ [Next]_vars => (part = "build" => Build!Inv)'
  BY BuildPart
<1> QED BY <1>1, <1>2, PTL DEF Spec

\* build_runner_image_artifacts: what passes the gate holds the backports, has
\* no advisory that applies and stands on the scanned archive, and a builder
\* that a job leaves is reported; for any reports of the scanner, whatever
\* fails, times out or is changed meanwhile, any number of times.
THEOREM ImageBuildIsSound == Spec => []ImageBuildSound
<1>1. (part = "build" => Build!Inv) => ImageBuildSound
  BY DEF ImageBuildSound, Build!Inv
<1> QED BY <1>1, BuildInvHolds, PTL

-----------------------------------------------------------------------------
(* What belongs to somebody else                                           *)

\* No step but the end of a job takes something of somebody else's.
LEMMA BuildKeepsForeign ==
  ASSUME Build!Inv, Build!Next
  PROVE  Build!KeepsForeign
<1> SUFFICES ASSUME s1' = s1, s3' # s3,
                    NEW r \in {"container", "volume", "scanner", "image"}, s3[r] = "foreign"
             PROVE  s3'[r] = "foreign"
  BY DEF Build!KeepsForeign
<1>1. s3 \in Build!Dockers /\ s4 \in Build!Receipts
  BY DEF Build!Inv, Build!TypesOK
<1>2. CASE Build!Load \/ Build!Create \/ Build!Bootstrap
  <2>1. CASE s3.image = "none" /\ s3' = [s3 EXCEPT !.image = "ours"]
    BY <1>1, <2>1 DEF Build!Dockers
  <2>2. CASE s3' = [s3 EXCEPT !.instance = TRUE]
    BY <1>1, <2>2 DEF Build!Dockers
  <2>3. CASE s3.container = "none" /\ s3' = [s3 EXCEPT !.container = "ours", !.volume = IF @ = "none" THEN "ours" ELSE @]
    BY <1>1, <2>3 DEF Build!Dockers
  <2> QED BY <1>2, <2>1, <2>2, <2>3 DEF Build!Load, Build!Create, Build!Bootstrap, Build!Command, Build!Raise
<1>3. CASE Build!Lose \/ Build!RemoveContainer
  <2>1. s3.container # "foreign" /\ s3' = [s3 EXCEPT !.container = "none"]
    BY <1>3 DEF Build!Lose, Build!RemoveContainer, Build!OurBuilder
  <2> QED BY <1>1, <2>1 DEF Build!Dockers
<1>4. CASE Build!RemoveInstance
  <2>1. PICK volume \in {s3.volume, "none"} :
          s3' = [s3 EXCEPT !.instance = FALSE, !.volume = IF s3.volume = "ours" THEN volume ELSE @]
    BY <1>4 DEF Build!RemoveInstance
  <2> QED BY <1>1, <2>1 DEF Build!Dockers
<1>5. CASE Build!RemoveVolume
  <2>1. s3' = [s3 EXCEPT !.volume = "none"]
    BY <1>5 DEF Build!RemoveVolume
  <2>2. s3.volume = "none" \/ s4.absent
    BY <1>1, <1>5, <2>1 DEF Build!RemoveVolume, Build!Dockers
  <2>3. s3.volume # "foreign"
    BY <2>2 DEF Build!Inv, Build!JobOK
  <2> QED BY <1>1, <2>1, <2>3 DEF Build!Dockers
<1>6. CASE \E f \in Reports, c \in Build!Changes : Build!Scan(f, c)
  <2>1. \/ s3.scanner = "none" /\ s3' = [s3 EXCEPT !.scanner = "ours"]
        \/ s3' = [s3 EXCEPT !.scanner = IF @ = "none" THEN "ours" ELSE @]
    BY <1>6 DEF Build!Scan
  <2> QED BY <1>1, <2>1 DEF Build!Dockers
<1>7. CASE Build!RemoveScanner
  <2>1. \/ s3.scanner # "foreign" /\ s3' = [s3 EXCEPT !.scanner = "none"]
        \/ s3' = [s3 EXCEPT !.scanner = IF @ = "ours" THEN "none" ELSE @]
    BY <1>7 DEF Build!RemoveScanner
  <2> QED BY <1>1, <2>1 DEF Build!Dockers
<1>8. CASE Build!Unimport
  <2>1. \/ s3.image # "foreign" /\ s3' = [s3 EXCEPT !.image = "none"]
        \/ s3' = [s3 EXCEPT !.image = IF @ = "ours" THEN "none" ELSE @]
    BY <1>8 DEF Build!Unimport
  <2> QED BY <1>1, <2>1 DEF Build!Dockers
<1>9. s1 \in Build!Stages => ~Build!Save
  BY DEF Build!Save, Build!Stages
<1>10. CASE Build!Begin \/ Build!Finally \/ Build!Gate \/ \E s \in Build!Stages : Build!Tamper(s)
  BY <1>10 DEF Build!Begin, Build!Finally, Build!Gate, Build!Tamper
<1>11. CASE Build!Prepare \/ Build!Context \/ Build!ProbeVolume \/ Build!Qualify \/ Build!Preflight
            \/ (\E i \in Build!Built : Build!Build(i)) \/ Build!Verify \/ Build!Accept
  <2>1. CASE Build!Prepare \/ Build!Context \/ Build!ProbeVolume
    BY <2>1, Zenon DEF Build!Prepare, Build!Context, Build!ProbeVolume
  <2>2. CASE Build!Qualify \/ Build!Preflight
    BY <2>2, Zenon DEF Build!Qualify, Build!Preflight
  <2>3. CASE Build!Verify \/ Build!Accept \/ \E i \in Build!Built : Build!Build(i)
    BY <2>3, Zenon DEF Build!Verify, Build!Accept, Build!Build
  <2> QED BY <1>11, <2>1, <2>2, <2>3
<1> QED BY <1>2, <1>3, <1>4, <1>5, <1>6, <1>7, <1>8, <1>9, <1>10, <1>11 DEF Build!Next

\* The merge links its output to a name that nobody has.
LEMMA ArchiveKeepsRival ==
  ASSUME Archive!Next
  PROVE  Archive!KeepsRival
<1>1. CASE Archive!Publish
  BY <1>1 DEF Archive!Publish, Archive!NoClobber, Archive!KeepsRival
<1>2. CASE Archive!Rival
  BY <1>2 DEF Archive!Rival, Archive!KeepsRival
<1>3. CASE Archive!Start
  BY <1>3, Zenon DEF Archive!Start, Archive!KeepsRival
<1>4. CASE Archive!Visit
  BY <1>4, Zenon DEF Archive!Visit, Archive!KeepsRival
<1>5. CASE Archive!EndNative
  BY <1>5, Zenon DEF Archive!EndNative, Archive!KeepsRival
<1>6. CASE Archive!Write
  BY <1>6, Zenon DEF Archive!Write, Archive!KeepsRival
<1>7. CASE Archive!EndMetadata \/ \E p \in Archive!Platforms : Archive!Touch(p)
  BY <1>7 DEF Archive!EndMetadata, Archive!Touch, Archive!KeepsRival
<1> QED BY <1>1, <1>2, <1>3, <1>4, <1>5, <1>6, <1>7 DEF Archive!Next

\* merge_oci_archives and build_runner_image_artifacts: the merge takes over no
\* name that somebody else's file has, and no cleanup removes somebody else's
\* container, volume, scanner or image; in every reachable state.
THEOREM OthersAreKept == Spec => OthersKept
<1>1. (part = "build" => Build!Inv) /\ [Next]_vars
        => [(part = "archive" => Archive!KeepsRival) /\ (part = "build" => Build!KeepsForeign)]_vars
  <2> SUFFICES ASSUME part = "build" => Build!Inv, Next
               PROVE  (part = "archive" => Archive!KeepsRival) /\ (part = "build" => Build!KeepsForeign)
    OBVIOUS
  <2>1. part = "archive" => Archive!Next
    BY DEF Next, ModeStep, NightlyStep, LabelsStep, ArchiveStep, LayersStep, BuildStep
  <2>2. part = "build" => Build!Next
    BY DEF Next, ModeStep, NightlyStep, LabelsStep, ArchiveStep, LayersStep, BuildStep
  <2> QED BY <2>1, <2>2, ArchiveKeepsRival, BuildKeepsForeign
<1> QED BY <1>1, BuildInvHolds, PTL DEF Spec, OthersKept

-----------------------------------------------------------------------------
(* Runner labels and consumers' workflows                                  *)

LEMMA LabelsSelected ==
  ASSUME NEW j \in Labels!Jobs, Labels!Renders(j)
  PROVE  LET r == Labels!Selected(j)
         IN  /\ r \in {"pool", "[]", "[ubuntu-latest]", "[matrix.os]"}
             /\ (r = "pool" /\ ~(j.private /\ (j.input = "pool" \/ (j.budget /\ ~j.hosted))))
                  => /\ j.event \in Labels!PullRequests => ~j.fork /\ j.profile # "release"
                     /\ j.event \notin Labels!PullRequests => j.event # "merge_group" /\ j.default
                     /\ j.event = "pull_request_target" => j.profile = "automation"
             /\ (j.budget /\ ~j.hosted) => r \in {"pool", "[]"}
<1> DEFINE trusted == \/ j.profile = "ci" /\ j.event = "pull_request" /\ ~j.fork
                      \/ j.profile = "automation" /\ j.event \in Labels!PullRequests /\ ~j.fork
                      \/ j.event \in {"push", "workflow_dispatch"} /\ j.default
           own == j.budget /\ ~j.hosted /\ j.private /\ j.event = "workflow_dispatch"
<1>1. /\ j.profile \in Labels!Profiles /\ j.input \in {"none", "default", "pool"} /\ j.mode \in {"github", "k3s"}
      /\ j.labels \in {Labels!Falsy, "pool"}
      /\ j.event \in {"pull_request", "pull_request_target", "push", "workflow_dispatch", "merge_group"}
      /\ j.browser \in BOOLEAN /\ j.budget \in BOOLEAN /\ j.fork \in BOOLEAN /\ j.default \in BOOLEAN /\ j.private \in BOOLEAN
      /\ j.linux \in BOOLEAN /\ j.hosted \in BOOLEAN
  BY DEF Labels!Jobs, Labels!Falsy
<1>2. Labels!Trusted(j) # Labels!Falsy <=> trusted \/ own
  <2>1. Labels!DefaultBranchEvent(j) # Labels!Falsy <=> j.event \in {"push", "workflow_dispatch"} /\ j.default
    BY DEF Labels!DefaultBranchEvent, Labels!Bool, Labels!Falsy
  <2>2. Labels!TrustedEvent(j) # Labels!Falsy <=> (j.event = "pull_request" /\ ~j.fork) \/ Labels!DefaultBranchEvent(j) # Labels!Falsy
    BY DEF Labels!TrustedEvent, Labels!Bool, Labels!Or, Labels!Falsy
  <2>3. Labels!MetadataEvent(j) # Labels!Falsy <=> (j.event \in Labels!PullRequests /\ ~j.fork) \/ Labels!DefaultBranchEvent(j) # Labels!Falsy
    BY DEF Labels!MetadataEvent, Labels!Bool, Labels!Or, Labels!PullRequests, Labels!Falsy
  <2> DEFINE plain == CASE j.profile = "ci" -> Labels!TrustedEvent(j)
                        [] j.profile = "automation" -> Labels!MetadataEvent(j)
                        [] j.profile = "release" -> Labels!DefaultBranchEvent(j)
  <2>4. plain # Labels!Falsy <=> trusted
    BY <1>1, <2>1, <2>2, <2>3 DEF Labels!Profiles
  <2> HIDE DEF plain
  <2>5. CASE j.budget
    <3>1. Labels!Trusted(j) = Labels!Or(plain, Labels!And(Labels!Bool(~j.hosted),
                                Labels!And(Labels!Bool(j.private), Labels!Bool(j.event = "workflow_dispatch"))))
      BY <2>5 DEF Labels!Trusted, plain
    <3> QED BY <2>4, <2>5, <3>1 DEF Labels!Or, Labels!And, Labels!Bool, Labels!Falsy
  <2>6. CASE ~j.budget
    <3>1. Labels!Trusted(j) = plain
      BY <2>6 DEF Labels!Trusted, plain
    <3> QED BY <2>4, <2>6, <3>1
  <2> QED BY <2>5, <2>6
<1>3. /\ Labels!Fallback(j) \in {"[]", "[ubuntu-latest]", "[matrix.os]"}
      /\ j.budget /\ ~j.hosted => Labels!Fallback(j) = "[]"
  BY <1>1 DEF Labels!Fallback, Labels!Or, Labels!And, Labels!Bool, Labels!Falsy
<1>4. \/ Labels!Managed(j) = Labels!Fallback(j)
      \/ Labels!Managed(j) = "[]"
      \/ Labels!Managed(j) = "pool" /\ Labels!Trusted(j) # Labels!Falsy
  BY <1>1 DEF Labels!Managed, Labels!Or, Labels!And, Labels!Bool, Labels!Falsy
<1>5. \/ Labels!Selected(j) = Labels!Managed(j)
      \/ Labels!Selected(j) = "pool" /\ (Labels!Trusted(j) # Labels!Falsy \/ (j.private /\ j.input = "pool"))
  BY <1>1 DEF Labels!Selected, Labels!Or, Labels!And, Labels!Bool, Labels!Falsy
<1>6. Labels!Selected(j) \in {"pool", "[]", "[ubuntu-latest]", "[matrix.os]"}
  BY <1>3, <1>4, <1>5
<1>7. Labels!Selected(j) = "pool" => trusted \/ own \/ (j.private /\ j.input = "pool")
  BY <1>2, <1>3, <1>4, <1>5
<1>8. trusted => /\ j.event \in Labels!PullRequests => ~j.fork /\ j.profile # "release"
                 /\ j.event \notin Labels!PullRequests => j.event # "merge_group" /\ j.default
                 /\ j.event = "pull_request_target" => j.profile = "automation"
  BY DEF Labels!PullRequests
<1>9. j.budget /\ ~j.hosted => Labels!Selected(j) \in {"pool", "[]"}
  BY <1>3, <1>4, <1>5
<1> HIDE DEF trusted
<1> QED BY <1>6, <1>7, <1>8, <1>9

\* What calls reach: the files themselves, and what a reached file calls.
LEMMA LabelsReaches ==
  ASSUME NEW calls \in SUBSET (Workflows \X Workflows), NEW fs \in SUBSET Workflows
  PROVE  /\ fs \subseteq Labels!Reach(calls, fs)
         /\ Labels!Reach(calls, fs) \subseteq Workflows
         /\ \A f \in Labels!Reach(calls, fs), g \in Workflows : <<f, g>> \in calls => g \in Labels!Reach(calls, fs)
         /\ \A all \in SUBSET Workflows : fs \subseteq all /\ Labels!Closed(calls, all) => Labels!Reach(calls, fs) \subseteq all
<1>1. fs \subseteq Labels!Reach(calls, fs) /\ Labels!Reach(calls, fs) \subseteq Workflows
  BY DEF Labels!Reach
<1>2. ASSUME NEW f \in Labels!Reach(calls, fs), NEW g \in Workflows, <<f, g>> \in calls
      PROVE  g \in Labels!Reach(calls, fs)
  <2>1. ASSUME NEW all \in SUBSET Workflows, fs \subseteq all, Labels!Closed(calls, all) PROVE g \in all
    <3>1. f \in all
      BY <2>1 DEF Labels!Reach
    <3> QED BY <1>2, <2>1, <3>1 DEF Labels!Closed
  <2> QED BY <2>1 DEF Labels!Reach
<1>3. ASSUME NEW all \in SUBSET Workflows, fs \subseteq all, Labels!Closed(calls, all)
      PROVE  Labels!Reach(calls, fs) \subseteq all
  BY <1>3 DEF Labels!Reach
<1> QED BY <1>1, <1>2, <1>3

\* What the adapter knows while it is busy.
LabelsBusy ==
    /\ s1 \in Labels!Consumers /\ s3 \in Seq(Workflows) /\ s4 \in [Workflows -> SUBSET Workflows]
    /\ s5 \in [Workflows -> {"ci", "release", "none"}]
    /\ Labels!LeftOK /\ Labels!StackOK /\ Labels!VisitedOK

LEMMA LabelsFacts ==
  ASSUME LabelsBusy
  PROVE  /\ s1.calls \in SUBSET (Workflows \X Workflows) /\ s1.roots \in [Workflows -> {"ci", "release", "none"}]
         /\ Labels!Roots \in SUBSET Workflows /\ \A f \in Workflows : Labels!Called(f) \in SUBSET Workflows
         /\ \A f, g \in Workflows : g \in Labels!Called(f) <=> <<f, g>> \in s1.calls
         /\ Labels!OnStack \subseteq Labels!Visited /\ Labels!Visited \subseteq Labels!Reach(s1.calls, Labels!Roots)
         /\ Labels!Visited \subseteq Workflows
         /\ \A k \in 1 .. Len(s3) : s3[k] \in Workflows /\ s3[k] \in Labels!Visited
  BY DEF LabelsBusy, Labels!Consumers, Labels!Roots, Labels!Called, Labels!StackOK, Labels!VisitedOK, Labels!OnStack,
         Labels!Visited, Labels!None

\* A refusal is right: the call closes a circle, or asks for a second profile.
LEMMA LabelsRefusal ==
  ASSUME LabelsBusy, s3 # <<>>, NEW f \in s4[Head(s3)], Labels!Conflicts(f, s5[Head(s3)])
  PROVE  ~Labels!Adaptable
<1> DEFINE h == Head(s3)
           R(fs) == Labels!Reach(s1.calls, fs)
<1>1. h = s3[1] /\ 1 \in 1 .. Len(s3) /\ h \in Workflows
  BY DEF LabelsBusy
<1>2. f \in Labels!Called(h) /\ f \in Workflows
  BY <1>1, LabelsFacts DEF LabelsBusy, Labels!StackOK
<1>3. h \in R(Labels!Roots) /\ h \in Labels!Visited
  BY <1>1, LabelsFacts
<1>4. <<h, f>> \in s1.calls
  BY <1>1, <1>2, LabelsFacts
<1> HIDE DEF h
<1>5. CASE Labels!Contains(s3, f)
  <2>1. PICK k \in 1 .. Len(s3) : s3[k] = f
    BY <1>5 DEF Labels!Contains
  <2>2. f \in R(Labels!Called(f))
    <3>1. CASE k = 1
      <4>1. f = h
        BY <1>1, <2>1, <3>1
      <4> QED BY <1>2, <4>1, LabelsFacts, LabelsReaches
    <3>2. CASE k # 1
      <4>1. h \in R(Labels!Called(f))
        BY <1>1, <2>1, <3>2 DEF LabelsBusy, Labels!StackOK
      <4> QED BY <1>2, <1>4, <4>1, LabelsFacts, LabelsReaches
    <3> QED BY <3>1, <3>2
  <2>3. f \in R(Labels!Roots)
    BY <2>1, LabelsFacts
  <2> QED BY <2>2, <2>3 DEF Labels!Adaptable
<1>6. CASE s5[f] # "none" /\ s5[f] # Labels!Profile(f, s5[h])
  <2>1. ASSUME NEW p \in [Workflows -> {"ci", "release", "none"}], Labels!Consistent(p, R(Labels!Roots)) PROVE FALSE
    <3>1. p[h] = s5[h] /\ p[f] = s5[f]
      BY <1>2, <1>3, <1>6, <2>1 DEF LabelsBusy, Labels!VisitedOK, Labels!Visited, Labels!None
    <3>2. p[f] = Labels!Profile(f, p[h])
      BY <1>3, <1>4, <2>1 DEF Labels!Consistent
    <3> QED BY <1>6, <3>1, <3>2
  <2> QED BY <2>1 DEF Labels!Adaptable, Labels!None
<1> QED BY <1>5, <1>6 DEF Labels!Conflicts, Labels!None, h

\* When every root was visited and the stack is empty, the files visited are
\* those that the roots reach, and their profiles are consistent.
LEMMA LabelsComplete ==
  ASSUME LabelsBusy, s3 = <<>>, \A f \in Labels!Roots : s5[f] # "none"
  PROVE  /\ Labels!Adaptable /\ Labels!Consistent(s5, Labels!Reach(s1.calls, Labels!Roots))
         /\ \A f \in Labels!Reach(s1.calls, Labels!Roots) : s5[f] # "none"
<1>1. Labels!OnStack = {} /\ Labels!Left = Labels!Visited
  BY DEF Labels!OnStack, Labels!Left
<1>2. Labels!Roots \subseteq Labels!Visited
  BY DEF Labels!Visited, Labels!Roots, Labels!None
<1>3. Labels!Closed(s1.calls, Labels!Visited)
  <2>1. ASSUME NEW c \in s1.calls, c[1] \in Labels!Visited PROVE c[2] \in Labels!Visited
    <3>1. c[1] \in Workflows /\ c[2] \in Workflows /\ c = <<c[1], c[2]>>
      BY LabelsFacts
    <3>2. c[2] \in Labels!Called(c[1])
      BY <3>1, LabelsFacts
    <3> QED BY <1>1, <2>1, <3>2 DEF LabelsBusy, Labels!LeftOK
  <2> QED BY <2>1 DEF Labels!Closed
<1>4. Labels!Reach(s1.calls, Labels!Roots) = Labels!Visited
  BY <1>2, <1>3, LabelsFacts, LabelsReaches
<1>5. \A f \in Labels!Visited : f \notin Labels!Reach(s1.calls, Labels!Called(f))
  BY <1>1 DEF LabelsBusy, Labels!LeftOK
<1>6. Labels!Consistent(s5, Labels!Visited)
  <2>1. \A f \in Labels!Roots : s5[f] = s1.roots[f]
    BY <1>2 DEF LabelsBusy, Labels!VisitedOK, Labels!Roots
  <2>2. ASSUME NEW c \in s1.calls, c[1] \in Labels!Visited PROVE s5[c[2]] = Labels!Profile(c[2], s5[c[1]])
    <3>1. c[1] \in Workflows /\ c[2] \in Workflows /\ c = <<c[1], c[2]>>
      BY LabelsFacts
    <3>2. c[2] \in Labels!Called(c[1])
      BY <3>1, LabelsFacts
    <3> QED BY <1>1, <2>2, <3>2 DEF LabelsBusy, Labels!LeftOK, Labels!Agrees
  <2> QED BY <2>1, <2>2 DEF Labels!Consistent
<1>7. s5 \in [Workflows -> {"ci", "release", "none"}]
  BY DEF LabelsBusy
<1> QED BY <1>4, <1>5, <1>6, <1>7 DEF Labels!Adaptable, Labels!Visited, Labels!None

\* A file is put on the stack.
LEMMA LabelsPush ==
  ASSUME LabelsBusy, s1' = s1, NEW f \in Workflows, s5[f] = "none", NEW profile \in {"ci", "release"},
         s1.roots[f] # "none" => profile = s1.roots[f], f \in Labels!Reach(s1.calls, Labels!Roots),
         \A p \in [Workflows -> {"ci", "release", "none"}] :
           Labels!Consistent(p, Labels!Reach(s1.calls, Labels!Roots)) => p[f] = profile,
         s5' = [s5 EXCEPT ![f] = profile], s3' = <<f>> \o s3, s4' \in [Workflows -> SUBSET Workflows],
         s4'[f] = Labels!Called(f),
         s3 # <<>> => /\ f \in Labels!Called(s3[1]) /\ profile = Labels!Profile(f, s5[s3[1]])
                      /\ s4'[s3[1]] = s4[s3[1]] \ {f}
                      /\ \A w \in Workflows \ {f, s3[1]} : s4'[w] = s4[w]
  PROVE  LabelsBusy'
<1>1. f \notin Labels!Visited /\ f \notin Labels!OnStack
  BY LabelsFacts DEF Labels!Visited, Labels!None
<1>2. s5' \in [Workflows -> {"ci", "release", "none"}] /\ s5'[f] = profile /\ \A g \in Workflows \ {f} : s5'[g] = s5[g]
  BY DEF LabelsBusy
<1>3. PICK n \in Nat : n = Len(s3)
  BY DEF LabelsBusy
<1>4. /\ s3' \in Seq(Workflows) /\ Len(s3') = n + 1 /\ s3'[1] = f
      /\ \A k \in 1 .. n : s3'[k + 1] = s3[k]
      /\ \A k \in 2 .. n + 1 : s3'[k] = s3[k - 1] /\ k - 1 \in 1 .. n
  BY <1>3 DEF LabelsBusy
<1>5. \A k \in 1 .. n : s3[k] \in Workflows /\ s3[k] \in Labels!Visited /\ s3[k] # f
  BY <1>1, <1>3, LabelsFacts
<1>6. Labels!Visited' = Labels!Visited \cup {f}
  BY <1>2 DEF Labels!Visited, Labels!None
<1>7. Labels!OnStack' = Labels!OnStack \cup {f}
  <2>1. ASSUME NEW k \in 1 .. Len(s3') PROVE s3'[k] \in Labels!OnStack \cup {f}
    <3>1. CASE k = 1
      BY <1>4, <3>1
    <3>2. CASE k # 1
      <4>1. s3'[k] = s3[k - 1] /\ k - 1 \in 1 .. Len(s3)
        BY <1>3, <1>4, <3>2
      <4> QED BY <4>1 DEF Labels!OnStack
    <3> QED BY <3>1, <3>2
  <2>2. ASSUME NEW k \in 1 .. Len(s3) PROVE \E l \in 1 .. Len(s3') : s3[k] = s3'[l]
    <3>1. k + 1 \in 1 .. Len(s3') /\ s3'[k + 1] = s3[k]
      BY <1>3, <1>4
    <3> QED BY <3>1
  <2>3. \E l \in 1 .. Len(s3') : f = s3'[l]
    BY <1>4
  <2> QED BY <2>1, <2>2, <2>3 DEF Labels!OnStack
<1>8. Labels!Left' = Labels!Left /\ Labels!Left \subseteq Labels!Visited /\ Labels!Left \subseteq Workflows
  BY <1>1, <1>6, <1>7, LabelsFacts DEF Labels!Left
<1>9. \A g \in Workflows : Labels!Called(g)' = Labels!Called(g)
  BY DEF Labels!Called
<1>10. \A g \in Labels!Visited : g \in Workflows /\ g # f /\ s5'[g] = s5[g]
  BY <1>1, <1>2, LabelsFacts
<1>11. Labels!LeftOK'
  <2>1. ASSUME NEW g \in Labels!Left
        PROVE  /\ \A x \in Labels!Called(g)' : x \in Labels!Left /\ Labels!Agrees(g, x)'
               /\ g \notin Labels!Reach(s1.calls, Labels!Called(g))'
    <3>1. /\ \A x \in Labels!Called(g) : x \in Labels!Left /\ Labels!Agrees(g, x)
          /\ g \notin Labels!Reach(s1.calls, Labels!Called(g))
      BY DEF LabelsBusy, Labels!LeftOK
    <3>2. ASSUME NEW x \in Labels!Called(g) PROVE x \in Labels!Left /\ Labels!Agrees(g, x)'
      BY <1>8, <1>10, <3>1 DEF Labels!Agrees, Labels!Profile
    <3>3. Labels!Reach(s1.calls, Labels!Called(g))' = Labels!Reach(s1.calls, Labels!Called(g))
      BY <1>8, <1>9
    <3> QED BY <1>8, <1>9, <3>1, <3>2, <3>3
  <2> QED BY <1>8, <2>1 DEF Labels!LeftOK
<1>12. Labels!OnStack' \subseteq Labels!Visited'
  BY <1>6, <1>7, LabelsFacts
<1>13. ASSUME NEW k \in 1 .. Len(s3'), NEW l \in 1 .. Len(s3'), k < l
       PROVE  s3'[k] # s3'[l] /\ s3'[k] \in Labels!Reach(s1.calls, Labels!Called(s3'[l]))
  <2>1. l - 1 \in 1 .. n /\ s3'[l] = s3[l - 1]
    BY <1>4, <1>13
  <2>2. CASE k = 1
    <3>1. s3'[k] = f /\ s3'[l] # f
      BY <1>4, <1>5, <2>1, <2>2
    <3>2. s3 # <<>> /\ s3[1] \in Workflows /\ <<s3[1], f>> \in s1.calls
      BY <1>3, <1>5, <2>1, LabelsFacts
    <3>3. CASE l - 1 = 1
      <4>1. f \in Labels!Called(s3[1])
        BY <3>2
      <4>2. Labels!Called(s3[1]) \subseteq Labels!Reach(s1.calls, Labels!Called(s3[1]))
        BY <3>2, LabelsFacts, LabelsReaches
      <4> QED BY <2>1, <3>1, <3>3, <4>1, <4>2
    <3>4. CASE l - 1 # 1
      <4>1. s3[1] \in Labels!Reach(s1.calls, Labels!Called(s3[l - 1]))
        <5>1. 1 \in 1 .. Len(s3) /\ l - 1 \in 1 .. Len(s3) /\ 1 < l - 1
          BY <1>3, <2>1, <3>4
        <5>2. \A a, b \in 1 .. Len(s3) : a < b => s3[a] \in Labels!Reach(s1.calls, Labels!Called(s3[b]))
          BY DEF LabelsBusy, Labels!StackOK
        <5> QED BY <5>1, <5>2
      <4>2. Labels!Called(s3[l - 1]) \in SUBSET Workflows
        BY <1>5, <2>1, LabelsFacts
      <4>3. f \in Labels!Reach(s1.calls, Labels!Called(s3[l - 1]))
        <5>1. s1.calls \in SUBSET (Workflows \X Workflows) /\ f \in Workflows
          BY LabelsFacts
        <5>2. \A x \in Labels!Reach(s1.calls, Labels!Called(s3[l - 1])), g \in Workflows :
                <<x, g>> \in s1.calls => g \in Labels!Reach(s1.calls, Labels!Called(s3[l - 1]))
          BY <4>2, <5>1, LabelsReaches
        <5> QED BY <3>2, <4>1, <5>1, <5>2
      <4> QED BY <2>1, <3>1, <4>3
    <3> QED BY <3>3, <3>4
  <2>3. CASE k # 1
    <3>1. k - 1 \in 1 .. Len(s3) /\ l - 1 \in 1 .. Len(s3) /\ k - 1 < l - 1 /\ s3'[k] = s3[k - 1]
      BY <1>3, <1>4, <1>13, <2>1, <2>3
    <3> QED BY <2>1, <3>1 DEF LabelsBusy, Labels!StackOK
  <2> QED BY <2>2, <2>3
<1>14. ASSUME NEW k \in 1 .. Len(s3'), NEW g \in Labels!Called(s3'[k]) \ s4'[s3'[k]]
       PROVE  /\ s5'[g] # "none" /\ s5'[g] = Labels!Profile(g, s5'[s3'[k]])
              /\ g \in Labels!Left \/ (k > 1 /\ g = s3'[k - 1])
  <2>1. k # 1
    BY <1>4
  <2>2. k - 1 \in 1 .. n /\ s3'[k] = s3[k - 1] /\ s3 # <<>>
    BY <1>3, <1>4, <2>1
  <2> DEFINE w == s3[k - 1]
  <2>3. w \in Workflows /\ w # f /\ s5'[w] = s5[w] /\ w \in Labels!Visited
    BY <1>2, <1>5, <2>2
  <2>4. g \in Workflows /\ g \in Labels!Called(w)
    BY <2>2, <2>3, LabelsFacts
  <2>5. CASE g \notin s4[w]
    <3>1. Labels!Agrees(w, g) /\ (g \in Labels!Left \/ (k - 1 > 1 /\ g = s3[k - 2]))
      BY <1>3, <2>2, <2>4, <2>5 DEF LabelsBusy, Labels!StackOK
    <3>2. g # f /\ s5'[g] = s5[g]
      BY <1>2, <2>4, <3>1 DEF Labels!Agrees, Labels!None
    <3>3. s5'[g] # "none" /\ s5'[g] = Labels!Profile(g, s5'[w])
      BY <2>3, <3>1, <3>2 DEF Labels!Agrees, Labels!None
    <3>4. k - 1 > 1 => s3[k - 2] = s3'[k - 1]
      BY <1>4, <2>2
    <3> QED BY <2>2, <3>1, <3>3, <3>4
  <2>6. CASE g \in s4[w]
    <3>1. w = s3[1] /\ g = f
      BY <2>2, <2>3, <2>6
    <3>2. k - 1 = 1
      <4>1. ASSUME k - 1 # 1 PROVE FALSE
        BY <1>3, <2>2, <3>1, <4>1 DEF LabelsBusy, Labels!StackOK
      <4> QED BY <4>1
    <3>3. s5'[f] # "none" /\ s5'[f] = Labels!Profile(f, s5'[w])
      BY <1>2, <2>2, <2>3, <3>1
    <3> QED BY <1>4, <2>2, <3>1, <3>2, <3>3
  <2> QED BY <2>5, <2>6
<1>15. ASSUME NEW k \in 1 .. Len(s3') PROVE s4'[s3'[k]] \subseteq Labels!Called(s3'[k])
  <2>1. CASE k = 1
    BY <1>4, <2>1
  <2>2. CASE k # 1
    <3>1. k - 1 \in 1 .. Len(s3) /\ s3'[k] = s3[k - 1] /\ s3 # <<>> /\ s3[k - 1] \in Workflows /\ s3[k - 1] # f
      BY <1>3, <1>4, <1>5, <2>2
    <3>2. s4[s3[k - 1]] \subseteq Labels!Called(s3[k - 1])
      BY <3>1 DEF LabelsBusy, Labels!StackOK
    <3> QED BY <3>1, <3>2
  <2> QED BY <2>1, <2>2
<1>16. Labels!StackOK'
  <2>1. \A k, l \in 1 .. Len(s3') : k < l => s3'[k] # s3'[l] /\ s3'[k] \in Labels!Reach(s1'.calls, Labels!Called(s3[l])')
    BY <1>13 DEF Labels!Called
  <2>2. \A k \in 1 .. Len(s3') : \A g \in Labels!Called(s3[k])' \ s4'[s3'[k]] :
          Labels!Agrees(s3[k], g)' /\ (g \in Labels!Left' \/ (k > 1 /\ g = s3'[k - 1]))
    BY <1>8, <1>14 DEF Labels!Called, Labels!Agrees, Labels!Profile, Labels!None
  <2>3. \A k \in 1 .. Len(s3') : s4'[s3'[k]] \subseteq Labels!Called(s3[k])'
    BY <1>15 DEF Labels!Called
  <2> QED BY <1>12, <2>1, <2>2, <2>3 DEF Labels!StackOK
<1>17. Labels!VisitedOK'
  <2> DEFINE reached == Labels!Reach(s1.calls, Labels!Roots)
  <2>1. Labels!Roots' = Labels!Roots
    BY DEF Labels!Roots
  <2>2. Labels!Visited' \subseteq reached
    BY <1>6, LabelsFacts
  <2>3. \A g \in Labels!Visited' : s1.roots[g] # "none" => s5'[g] = s1.roots[g]
    BY <1>2, <1>6, <1>10 DEF LabelsBusy, Labels!VisitedOK, Labels!None
  <2>4. ASSUME NEW p \in [Workflows -> {"ci", "release", "none"}], Labels!Consistent(p, reached)
        PROVE  \A g \in Labels!Visited' : s5'[g] = p[g]
    BY <1>2, <1>6, <1>10, <2>4 DEF LabelsBusy, Labels!VisitedOK, Labels!None
  <2>5. ASSUME NEW p \in [Workflows -> {"ci", "release", "none"}], Labels!Consistent(p, Labels!Reach(s1.calls, Labels!Roots))'
        PROVE  Labels!Consistent(p, reached)
    BY <2>1, <2>5 DEF Labels!Consistent, Labels!Profile
  <2>6. Labels!Reach(s1.calls, Labels!Roots)' = reached
    BY <2>1
  <2> QED BY <2>2, <2>3, <2>4, <2>5, <2>6 DEF Labels!VisitedOK, Labels!None
<1> QED BY <1>2, <1>4, <1>11, <1>16, <1>17 DEF LabelsBusy

\* A step that visits no file.
LEMMA LabelsStill ==
  ASSUME s1' = s1, s5' = s5
  PROVE  /\ Labels!VisitedOK => Labels!VisitedOK'
         /\ Labels!LeftOK /\ Labels!Left' = Labels!Left => Labels!LeftOK'
<1>1. Labels!Roots' = Labels!Roots /\ Labels!Visited' = Labels!Visited
  BY DEF Labels!Roots, Labels!Visited
<1>2. Labels!Reach(s1.calls, Labels!Roots)' = Labels!Reach(s1.calls, Labels!Roots)
  BY <1>1
<1>3. ASSUME NEW p, Labels!Consistent(p, Labels!Reach(s1.calls, Labels!Roots))'
      PROVE  Labels!Consistent(p, Labels!Reach(s1.calls, Labels!Roots))
  BY <1>1, <1>2, <1>3 DEF Labels!Consistent, Labels!Profile
<1>4. Labels!VisitedOK => Labels!VisitedOK'
  BY <1>1, <1>2, <1>3 DEF Labels!VisitedOK, Labels!None
<1>5. ASSUME Labels!LeftOK, Labels!Left' = Labels!Left PROVE Labels!LeftOK'
  <2>1. ASSUME NEW g \in Labels!Left
        PROVE  /\ \A x \in Labels!Called(g)' : x \in Labels!Left /\ Labels!Agrees(g, x)'
               /\ g \notin Labels!Reach(s1.calls, Labels!Called(g))'
    <3>1. Labels!Called(g)' = Labels!Called(g)
      BY DEF Labels!Called
    <3>2. ASSUME NEW x \in Labels!Called(g) PROVE x \in Labels!Left /\ Labels!Agrees(g, x)'
      BY <1>5 DEF Labels!LeftOK, Labels!Agrees, Labels!Profile
    <3>3. Labels!Reach(s1.calls, Labels!Called(g))' = Labels!Reach(s1.calls, Labels!Called(g))
      BY <3>1
    <3> QED BY <1>5, <3>1, <3>2, <3>3 DEF Labels!LeftOK
  <2> QED BY <1>5, <2>1 DEF Labels!LeftOK
<1> QED BY <1>4, <1>5

\* A call that leads to a file that was left with the same profile.
LEMMA LabelsAgain ==
  ASSUME LabelsBusy, s3 # <<>>, NEW f \in s4[s3[1]], ~Labels!Conflicts(f, s5[s3[1]]), s5[f] # "none",
         s1' = s1, s3' = s3, s5' = s5, s4' = [s4 EXCEPT ![s3[1]] = @ \ {f}]
  PROVE  LabelsBusy'
<1>1. 1 \in 1 .. Len(s3) /\ s3[1] \in Workflows /\ f \in Workflows
  BY LabelsFacts DEF LabelsBusy
<1>2. /\ s4' \in [Workflows -> SUBSET Workflows] /\ s4'[s3[1]] = s4[s3[1]] \ {f}
      /\ \A w \in Workflows \ {s3[1]} : s4'[w] = s4[w]
  BY <1>1 DEF LabelsBusy
<1>3. f \in Labels!Left /\ Labels!Agrees(s3[1], f)
  BY <1>1 DEF Labels!Conflicts, Labels!Contains, Labels!Left, Labels!Visited, Labels!OnStack, Labels!Agrees, Labels!None
<1>4. Labels!Visited' = Labels!Visited /\ Labels!OnStack' = Labels!OnStack /\ Labels!Left' = Labels!Left
  BY DEF Labels!Visited, Labels!OnStack, Labels!Left
<1>5. ASSUME NEW k \in 1 .. Len(s3), NEW g \in Labels!Called(s3[k]) \ s4'[s3[k]]
      PROVE  Labels!Agrees(s3[k], g) /\ (g \in Labels!Left \/ (k > 1 /\ g = s3[k - 1]))
  <2>1. CASE g \notin s4[s3[k]]
    BY <2>1 DEF LabelsBusy, Labels!StackOK
  <2>2. CASE g \in s4[s3[k]]
    <3>1. s3[k] = s3[1] /\ g = f
      BY <1>2, <2>2, LabelsFacts
    <3> QED BY <1>3, <3>1
  <2> QED BY <2>1, <2>2
<1>6. ASSUME NEW k \in 1 .. Len(s3) PROVE s4'[s3[k]] \subseteq Labels!Called(s3[k])
  <2>1. s4[s3[k]] \subseteq Labels!Called(s3[k])
    BY DEF LabelsBusy, Labels!StackOK
  <2> QED BY <1>2, <2>1, LabelsFacts
<1>7. Labels!StackOK'
  <2>1. /\ Labels!OnStack \subseteq Labels!Visited
        /\ \A k, l \in 1 .. Len(s3) : k < l => s3[k] # s3[l] /\ s3[k] \in Labels!Reach(s1.calls, Labels!Called(s3[l]))
    BY DEF LabelsBusy, Labels!StackOK
  <2>2. \A k, l \in 1 .. Len(s3') : k < l => s3'[k] # s3'[l] /\ s3'[k] \in Labels!Reach(s1'.calls, Labels!Called(s3[l])')
    BY <2>1 DEF Labels!Called
  <2>3. \A k \in 1 .. Len(s3') : \A g \in Labels!Called(s3[k])' \ s4'[s3'[k]] :
          Labels!Agrees(s3[k], g)' /\ (g \in Labels!Left' \/ (k > 1 /\ g = s3'[k - 1]))
    BY <1>4, <1>5 DEF Labels!Called, Labels!Agrees, Labels!Profile, Labels!None
  <2>4. \A k \in 1 .. Len(s3') : s4'[s3'[k]] \subseteq Labels!Called(s3[k])'
    BY <1>6 DEF Labels!Called
  <2> QED BY <1>4, <2>1, <2>2, <2>3, <2>4 DEF Labels!StackOK
<1>8. Labels!LeftOK'
  BY <1>4, LabelsStill DEF LabelsBusy
<1>9. Labels!VisitedOK'
  BY LabelsStill DEF LabelsBusy
<1> QED BY <1>2, <1>7, <1>8, <1>9 DEF LabelsBusy

\* What a file has called once it is left, it has called for good.
LEMMA LabelsLeave ==
  ASSUME LabelsBusy, s3 # <<>>, s4[s3[1]] = {}, s1' = s1, s3' = Tail(s3), s4' = s4, s5' = s5
  PROVE  LabelsBusy'
<1> DEFINE h == s3[1]
<1>1. PICK n \in Nat : n + 1 = Len(s3)
  BY DEF LabelsBusy
<1>2. s3' \in Seq(Workflows) /\ Len(s3') = n /\ \A k \in 1 .. n : s3'[k] = s3[k + 1] /\ k + 1 \in 1 .. Len(s3)
  BY <1>1 DEF LabelsBusy
<1>3. 1 \in 1 .. Len(s3) /\ h \in Workflows /\ h \in Labels!Visited /\ h \in Labels!OnStack
  BY <1>1, LabelsFacts DEF Labels!OnStack
<1>4. \A k \in 1 .. n : s3'[k] # h
  <2>1. ASSUME NEW k \in 1 .. n PROVE s3'[k] # h
    <3>1. k + 1 \in 1 .. Len(s3) /\ 1 < k + 1 /\ s3'[k] = s3[k + 1]
      BY <1>2
    <3> QED BY <1>3, <3>1 DEF LabelsBusy, Labels!StackOK
  <2> QED BY <2>1
<1>5. Labels!Visited' = Labels!Visited
  BY DEF Labels!Visited
<1>6. Labels!OnStack' = Labels!OnStack \ {h}
  <2>1. ASSUME NEW k \in 1 .. Len(s3') PROVE s3'[k] \in Labels!OnStack \ {h}
    BY <1>2, <1>4 DEF Labels!OnStack
  <2>2. ASSUME NEW k \in 1 .. Len(s3), s3[k] # h PROVE \E l \in 1 .. Len(s3') : s3[k] = s3'[l]
    <3>1. k - 1 \in 1 .. n /\ (k - 1) + 1 = k
      BY <1>1, <2>2
    <3>2. s3'[k - 1] = s3[k]
      BY <1>2, <3>1
    <3> QED BY <1>2, <3>1, <3>2
  <2> QED BY <2>1, <2>2 DEF Labels!OnStack
<1>7. Labels!Left' = Labels!Left \cup {h} /\ h \notin Labels!Left /\ Labels!Left \subseteq Workflows
  BY <1>3, <1>5, <1>6, LabelsFacts DEF Labels!Left
<1>8. \A g \in Labels!Called(h) : Labels!Agrees(h, g) /\ g \in Labels!Left
  BY <1>3 DEF LabelsBusy, Labels!StackOK
<1>9. h \notin Labels!Reach(s1.calls, Labels!Called(h))
  <2>1. Labels!Closed(s1.calls, Labels!Left)
    <3>1. ASSUME NEW c \in s1.calls, c[1] \in Labels!Left PROVE c[2] \in Labels!Left
      <4>1. c[1] \in Workflows /\ c[2] \in Workflows /\ c = <<c[1], c[2]>>
        BY LabelsFacts
      <4>2. c[2] \in Labels!Called(c[1])
        BY <4>1, LabelsFacts
      <4> QED BY <3>1, <4>2 DEF LabelsBusy, Labels!LeftOK
    <3> QED BY <3>1 DEF Labels!Closed
  <2>2. Labels!Called(h) \subseteq Labels!Left
    BY <1>8
  <2>3. Labels!Called(h) \in SUBSET Workflows /\ Labels!Left \in SUBSET Workflows
    BY <1>7, <2>2
  <2>4. Labels!Reach(s1.calls, Labels!Called(h)) \subseteq Labels!Left
    <3>1. s1.calls \in SUBSET (Workflows \X Workflows)
      BY LabelsFacts
    <3>2. PICK fs \in SUBSET Workflows : fs = Labels!Called(h)
      BY <2>3
    <3>3. PICK all \in SUBSET Workflows : all = Labels!Left
      BY <2>3
    <3>4. fs \subseteq all /\ Labels!Closed(s1.calls, all)
      BY <2>1, <2>2, <3>2, <3>3
    <3>5. Labels!Reach(s1.calls, fs) \subseteq all
      BY <3>1, <3>4, LabelsReaches
    <3> QED BY <3>2, <3>3, <3>5
  <2> QED BY <1>7, <2>4
<1>10. Labels!LeftOK'
  <2>1. ASSUME NEW g \in Labels!Left \cup {h}
        PROVE  /\ \A x \in Labels!Called(g) : x \in Labels!Left \cup {h} /\ Labels!Agrees(g, x)
               /\ g \notin Labels!Reach(s1.calls, Labels!Called(g))
    BY <1>8, <1>9 DEF LabelsBusy, Labels!LeftOK
  <2>2. ASSUME NEW g \in Labels!Left \cup {h}
        PROVE  /\ \A x \in Labels!Called(g)' : x \in Labels!Left \cup {h} /\ Labels!Agrees(g, x)'
               /\ g \notin Labels!Reach(s1.calls, Labels!Called(g))'
    <3>1. Labels!Called(g)' = Labels!Called(g)
      BY DEF Labels!Called
    <3>2. ASSUME NEW x \in Labels!Called(g) PROVE Labels!Agrees(g, x)'
      BY <2>1 DEF Labels!Agrees, Labels!Profile
    <3>3. Labels!Reach(s1.calls, Labels!Called(g))' = Labels!Reach(s1.calls, Labels!Called(g))
      BY <3>1
    <3> QED BY <2>1, <3>1, <3>2, <3>3
  <2> QED BY <1>7, <2>2 DEF Labels!LeftOK
<1> HIDE DEF h
<1>11. Labels!StackOK'
  <2>1. Labels!OnStack' \subseteq Labels!Visited'
    BY <1>5, <1>6, LabelsFacts
  <2>2. ASSUME NEW k \in 1 .. Len(s3'), NEW l \in 1 .. Len(s3'), k < l
        PROVE  s3'[k] # s3'[l] /\ s3'[k] \in Labels!Reach(s1.calls, Labels!Called(s3'[l]))
    <3>1. k + 1 \in 1 .. Len(s3) /\ l + 1 \in 1 .. Len(s3) /\ k + 1 < l + 1 /\ s3'[k] = s3[k + 1] /\ s3'[l] = s3[l + 1]
      BY <1>2, <2>2
    <3> QED BY <3>1 DEF LabelsBusy, Labels!StackOK
  <2>3. ASSUME NEW k \in 1 .. Len(s3'), NEW g \in Labels!Called(s3'[k]) \ s4[s3'[k]]
        PROVE  Labels!Agrees(s3'[k], g) /\ (g \in Labels!Left \cup {h} \/ (k > 1 /\ g = s3'[k - 1]))
    <3>1. k + 1 \in 1 .. Len(s3) /\ s3'[k] = s3[k + 1]
      BY <1>2
    <3>2. Labels!Agrees(s3[k + 1], g) /\ (g \in Labels!Left \/ g = s3[(k + 1) - 1])
      <4>1. \A a \in 1 .. Len(s3) : \A x \in Labels!Called(s3[a]) \ s4[s3[a]] :
              Labels!Agrees(s3[a], x) /\ (x \in Labels!Left \/ (a > 1 /\ x = s3[a - 1]))
        BY DEF LabelsBusy, Labels!StackOK
      <4>2. g \in Labels!Called(s3[k + 1]) \ s4[s3[k + 1]]
        BY <2>3, <3>1
      <4> QED BY <3>1, <4>1, <4>2
    <3>3. (k + 1) - 1 = k /\ (k = 1 \/ (k > 1 /\ k - 1 \in 1 .. n /\ s3'[k - 1] = s3[k]))
      BY <1>2
    <3> QED BY <3>1, <3>2, <3>3 DEF h
  <2>4. ASSUME NEW k \in 1 .. Len(s3') PROVE s4[s3'[k]] \subseteq Labels!Called(s3'[k])
    <3>1. k + 1 \in 1 .. Len(s3) /\ s3'[k] = s3[k + 1]
      BY <1>2
    <3> QED BY <3>1 DEF LabelsBusy, Labels!StackOK
  <2>5. \A k, l \in 1 .. Len(s3') : k < l => s3'[k] # s3'[l] /\ s3'[k] \in Labels!Reach(s1'.calls, Labels!Called(s3[l])')
    BY <2>2 DEF Labels!Called
  <2>6. \A k \in 1 .. Len(s3') : \A g \in Labels!Called(s3[k])' \ s4'[s3'[k]] :
          Labels!Agrees(s3[k], g)' /\ (g \in Labels!Left' \/ (k > 1 /\ g = s3'[k - 1]))
    BY <1>7, <2>3 DEF Labels!Called, Labels!Agrees, Labels!Profile, Labels!None
  <2>7. \A k \in 1 .. Len(s3') : s4'[s3'[k]] \subseteq Labels!Called(s3[k])'
    BY <2>4 DEF Labels!Called
  <2> QED BY <2>1, <2>5, <2>6, <2>7 DEF Labels!StackOK
<1>12. Labels!VisitedOK'
  BY LabelsStill DEF LabelsBusy
<1> QED BY <1>2, <1>10, <1>11, <1>12 DEF LabelsBusy

LEMMA LabelsInit ==
  ASSUME Labels!Init
  PROVE  Labels!Inv
<1>1. s3 = <<>> /\ Len(s3) = 0 /\ s3 \in Seq(Workflows)
  BY DEF Labels!Init
<1>2. Labels!TypeOK
  BY <1>1 DEF Labels!Init, Labels!TypeOK, Labels!None
<1>3. Labels!Visited = {} /\ Labels!OnStack = {} /\ Labels!Left = {}
  BY <1>1 DEF Labels!Init, Labels!Visited, Labels!OnStack, Labels!Left, Labels!None
<1>4. Labels!LeftOK /\ Labels!VisitedOK
  BY <1>3 DEF Labels!LeftOK, Labels!VisitedOK
<1>5. Labels!StackOK
  BY <1>1, <1>3 DEF Labels!StackOK
<1> QED BY <1>2, <1>4, <1>5 DEF Labels!Init, Labels!Inv, Labels!AdaptedIfConsistent

\* The visit goes on.
LEMMA LabelsGoesOn ==
  ASSUME Labels!Inv, s6 = "busy", s6' = "busy", s1' = s1, s2' = s2, LabelsBusy'
  PROVE  Labels!Inv'
<1>1. Labels!TypeOK'
  BY DEF Labels!Inv, Labels!TypeOK, LabelsBusy, Labels!None
<1> QED BY <1>1 DEF Labels!Inv, Labels!AdaptedIfConsistent, LabelsBusy

LEMMA LabelsIsBusy ==
  ASSUME Labels!Inv, s6 = "busy"
  PROVE  LabelsBusy
BY DEF Labels!Inv, Labels!TypeOK, LabelsBusy, Labels!None

\* Whether a consumer can be adapted does not depend on the visit.
LEMMA LabelsSameConsumer ==
  ASSUME s1' = s1
  PROVE  /\ Labels!Adaptable' <=> Labels!Adaptable
         /\ Labels!Reach(s1.calls, Labels!Roots)' = Labels!Reach(s1.calls, Labels!Roots)
         /\ \A p, seen : Labels!Consistent(p, seen)' <=> Labels!Consistent(p, seen)
<1>1. Labels!Roots' = Labels!Roots
  BY DEF Labels!Roots
<1>2. Labels!Reach(s1.calls, Labels!Roots)' = Labels!Reach(s1.calls, Labels!Roots)
  BY <1>1
<1>3. ASSUME NEW p, NEW seen PROVE Labels!Consistent(p, seen)' <=> Labels!Consistent(p, seen)
  BY <1>1 DEF Labels!Consistent, Labels!Profile
<1>4. ASSUME NEW f PROVE Labels!Reach(s1.calls, Labels!Called(f))' = Labels!Reach(s1.calls, Labels!Called(f))
  <2>1. Labels!Called(f)' = Labels!Called(f)
    BY DEF Labels!Called
  <2> QED BY <2>1
<1>5. Labels!Adaptable' <=> Labels!Adaptable
  <2>1. (\A f \in Labels!Reach(s1.calls, Labels!Roots) : f \notin Labels!Reach(s1.calls, Labels!Called(f)))'
          <=> \A f \in Labels!Reach(s1.calls, Labels!Roots) : f \notin Labels!Reach(s1.calls, Labels!Called(f))
    BY <1>2, <1>4
  <2>2. (\E p \in [Workflows -> {"ci", "release", Labels!None}] : Labels!Consistent(p, Labels!Reach(s1.calls, Labels!Roots)))'
          <=> \E p \in [Workflows -> {"ci", "release", Labels!None}] : Labels!Consistent(p, Labels!Reach(s1.calls, Labels!Roots))
    BY <1>1, <1>2 DEF Labels!Consistent, Labels!Profile
  <2> QED BY <2>1, <2>2 DEF Labels!Adaptable
<1> QED BY <1>2, <1>3, <1>5

LEMMA LabelsQueue ==
  ASSUME Labels!Inv, Labels!Queue
  PROVE  Labels!Inv'
<1>1. s1 \in Labels!Jobs /\ Labels!Renders(s1) /\ s1' = s1 /\ s6' = "queued" /\ s2' = Labels!Selected(s1)
  BY DEF Labels!Inv, Labels!Queue
<1>2. s2' \in {"pool", "[]", "[ubuntu-latest]", "[matrix.os]"}
  BY <1>1, LabelsSelected
<1>3. Labels!TypeOK'
  BY <1>1, <1>2 DEF Labels!Inv, Labels!Queue, Labels!TypeOK
<1> QED BY <1>1, <1>3 DEF Labels!Inv, Labels!AdaptedIfConsistent

LEMMA LabelsVisitRoot ==
  ASSUME Labels!Inv, Labels!VisitRoot
  PROVE  Labels!Inv'
<1>1. LabelsBusy /\ s6 = "busy" /\ s3 = <<>> /\ s1' = s1 /\ s2' = s2
  BY LabelsIsBusy DEF Labels!VisitRoot
<1>2. PICK f \in Labels!Roots : s5[f] = "none" /\ Labels!Visit(f, Labels!None, s4)
  BY DEF Labels!VisitRoot, Labels!None
<1>3. f \in Workflows /\ s1.roots[f] \in {"ci", "release"} /\ Labels!Profile(f, Labels!None) = s1.roots[f]
  BY <1>1, <1>2, LabelsFacts DEF Labels!Roots, Labels!Profile, Labels!None
<1>4. ~Labels!Conflicts(f, Labels!None)
  BY <1>1, <1>2 DEF Labels!Conflicts, Labels!Contains, Labels!None
<1>5. s5' = [s5 EXCEPT ![f] = s1.roots[f]] /\ s3' = <<f>> \o s3 /\ s4' = [s4 EXCEPT ![f] = Labels!Called(f)] /\ s6' = s6
  BY <1>2, <1>3, <1>4 DEF Labels!Visit, Labels!None
<1>6. s4' \in [Workflows -> SUBSET Workflows] /\ s4'[f] = Labels!Called(f)
  BY <1>1, <1>3, <1>5, LabelsFacts DEF LabelsBusy
<1>7. f \in Labels!Reach(s1.calls, Labels!Roots)
  BY <1>1, <1>2, LabelsFacts, LabelsReaches
<1>8. \A p \in [Workflows -> {"ci", "release", "none"}] :
        Labels!Consistent(p, Labels!Reach(s1.calls, Labels!Roots)) => p[f] = s1.roots[f]
  BY <1>2 DEF Labels!Consistent
<1>9. LabelsBusy'
  BY <1>1, <1>2, <1>3, <1>5, <1>6, <1>7, <1>8, LabelsPush
<1> QED BY <1>1, <1>5, <1>9, LabelsGoesOn

LEMMA LabelsFollowCall ==
  ASSUME Labels!Inv, Labels!FollowCall
  PROVE  Labels!Inv'
<1>1. LabelsBusy /\ s6 = "busy" /\ s3 # <<>> /\ s1' = s1 /\ s2' = s2
  BY LabelsIsBusy DEF Labels!FollowCall
<1>2. Head(s3) = s3[1] /\ 1 \in 1 .. Len(s3)
  BY <1>1 DEF LabelsBusy
<1>3. s3[1] \in Workflows /\ s3[1] \in Labels!Visited /\ s3[1] \in Labels!Reach(s1.calls, Labels!Roots)
  BY <1>1, <1>2, LabelsFacts
<1> DEFINE h == s3[1]
           rest(x) == [s4 EXCEPT ![h] = @ \ {x}]
<1>4. PICK f \in s4[h] : Labels!Visit(f, s5[h], rest(f))
  BY <1>2 DEF Labels!FollowCall
<1>5. f \in Workflows /\ f \in Labels!Called(h) /\ <<h, f>> \in s1.calls
  BY <1>1, <1>2, <1>3, LabelsFacts DEF LabelsBusy, Labels!StackOK
<1>6. CASE Labels!Conflicts(f, s5[h])
  <2>1. s6' = "refused" /\ s4' = rest(f) /\ s3' = s3 /\ s5' = s5
    BY <1>4, <1>6 DEF Labels!Visit
  <2>2. ~Labels!Adaptable
    BY <1>1, <1>2, <1>6, LabelsRefusal
  <2>3. ~Labels!Adaptable'
    BY <1>1, <2>2, LabelsSameConsumer
  <2>4. s4' \in [Workflows -> SUBSET Workflows]
    BY <1>1, <1>3, <2>1 DEF LabelsBusy
  <2>5. Labels!TypeOK'
    BY <1>1, <2>1, <2>4 DEF Labels!Inv, Labels!TypeOK
  <2> QED BY <1>1, <2>1, <2>3, <2>5 DEF Labels!Inv, Labels!AdaptedIfConsistent
<1>7. CASE ~Labels!Conflicts(f, s5[h]) /\ s5[f] # "none"
  <2>1. s4' = rest(f) /\ s3' = s3 /\ s5' = s5 /\ s6' = s6
    BY <1>4, <1>7 DEF Labels!Visit, Labels!None
  <2>2. LabelsBusy'
    BY <1>1, <1>7, <2>1, LabelsAgain
  <2> QED BY <1>1, <2>1, <2>2, LabelsGoesOn
<1>8. CASE ~Labels!Conflicts(f, s5[h]) /\ s5[f] = "none"
  <2> DEFINE profile == Labels!Profile(f, s5[h])
  <2>1. s5' = [s5 EXCEPT ![f] = profile] /\ s3' = <<f>> \o s3 /\ s4' = [rest(f) EXCEPT ![f] = Labels!Called(f)] /\ s6' = s6
    BY <1>4, <1>8 DEF Labels!Visit, Labels!None
  <2>2. profile \in {"ci", "release"} /\ (s1.roots[f] # "none" => profile = s1.roots[f])
    BY <1>1, <1>3, <1>5, LabelsFacts DEF LabelsBusy, Labels!Profile, Labels!Visited, Labels!None
  <2>3. f # h
    BY <1>3, <1>8 DEF Labels!Visited, Labels!None
  <2>4. /\ s4' \in [Workflows -> SUBSET Workflows] /\ s4'[f] = Labels!Called(f) /\ s4'[h] = s4[h] \ {f}
        /\ \A w \in Workflows \ {f, h} : s4'[w] = s4[w]
    BY <1>1, <1>3, <1>5, <2>1, <2>3, LabelsFacts DEF LabelsBusy
  <2>5. f \in Labels!Reach(s1.calls, Labels!Roots)
    BY <1>1, <1>3, <1>5, LabelsFacts, LabelsReaches
  <2>6. ASSUME NEW p \in [Workflows -> {"ci", "release", "none"}], Labels!Consistent(p, Labels!Reach(s1.calls, Labels!Roots))
        PROVE  p[f] = profile
    <3>1. p[h] = s5[h]
      BY <1>1, <1>3, <2>6 DEF LabelsBusy, Labels!VisitedOK, Labels!None
    <3>2. p[f] = Labels!Profile(f, p[h])
      BY <1>3, <1>5, <2>6 DEF Labels!Consistent
    <3> QED BY <3>1, <3>2
  <2> HIDE DEF profile
  <2>7. profile = Labels!Profile(f, s5[s3[1]])
    BY DEF profile
  <2>8. LabelsBusy'
    BY <1>1, <1>5, <1>8, <2>1, <2>2, <2>4, <2>5, <2>6, <2>7, LabelsPush
  <2> QED BY <1>1, <2>1, <2>8, LabelsGoesOn
<1> QED BY <1>6, <1>7, <1>8

LEMMA LabelsKeeps ==
  ASSUME Labels!Inv, Labels!Next
  PROVE  Labels!Inv'
<1>1. CASE Labels!Leave
  <2>1. LabelsBusy /\ s6 = "busy" /\ s6' = s6 /\ s3 # <<>> /\ s1' = s1 /\ s2' = s2 /\ s3' = Tail(s3) /\ s4' = s4 /\ s5' = s5
    BY <1>1, LabelsIsBusy DEF Labels!Leave
  <2>2. s4[s3[1]] = {}
    BY <1>1, <2>1 DEF Labels!Leave, LabelsBusy
  <2>3. LabelsBusy'
    BY <2>1, <2>2, LabelsLeave
  <2> QED BY <2>1, <2>3, LabelsGoesOn
<1>2. CASE Labels!Finish
  <2>1. LabelsBusy /\ s6' = "adapted" /\ s3 = <<>> /\ s1' = s1 /\ s2' = s2 /\ s3' = s3 /\ s4' = s4 /\ s5' = s5
    BY <1>2, LabelsIsBusy DEF Labels!Finish
  <2>2. \A f \in Labels!Roots : s5[f] # "none"
    BY <1>2 DEF Labels!Finish, Labels!None
  <2>3. /\ Labels!Adaptable /\ Labels!Consistent(s5, Labels!Reach(s1.calls, Labels!Roots))
        /\ \A f \in Labels!Reach(s1.calls, Labels!Roots) : s5[f] # "none"
    BY <2>1, <2>2, LabelsComplete
  <2>4. Labels!Adaptable' /\ Labels!Reach(s1.calls, Labels!Roots)' = Labels!Reach(s1.calls, Labels!Roots)
    BY <2>1, <2>3, LabelsSameConsumer
  <2>5. Labels!Consistent(s5, Labels!Reach(s1.calls, Labels!Roots))'
    <3>1. Labels!Roots' = Labels!Roots
      BY <2>1 DEF Labels!Roots
    <3> QED BY <2>1, <2>3, <2>4, <3>1 DEF Labels!Consistent, Labels!Profile
  <2>6. Labels!AdaptedIfConsistent'
    BY <2>1, <2>3, <2>4, <2>5 DEF Labels!AdaptedIfConsistent, Labels!None
  <2>7. Labels!TypeOK'
    BY <2>1 DEF Labels!Inv, Labels!TypeOK
  <2> QED BY <1>2, <2>1, <2>6, <2>7 DEF Labels!Inv, Labels!Finish
<1> QED BY <1>1, <1>2, LabelsQueue, LabelsVisitRoot, LabelsFollowCall DEF Labels!Next

LEMMA LabelsPart ==
  ASSUME part = "labels" => Labels!Inv, [Next]_vars
  PROVE  (part = "labels" => Labels!Inv)'
<1>1. CASE LabelsStep
  <2>1. part = "labels" /\ Labels!Inv /\ Labels!Next
    BY <1>1 DEF LabelsStep
  <2> QED BY <2>1, LabelsKeeps
<1>2. CASE ~LabelsStep /\ Next
  BY <1>2 DEF Next, ModeStep, NightlyStep, BuildStep, ArchiveStep, LayersStep
<1>3. CASE UNCHANGED vars
  <2>1. part' = part /\ s1' = s1 /\ s2' = s2 /\ s3' = s3 /\ s4' = s4 /\ s5' = s5 /\ s6' = s6
    BY <1>3 DEF vars
  <2>2. ASSUME Labels!Inv PROVE Labels!Inv'
    <3>1. Labels!TypeOK'
      BY <2>1, <2>2 DEF Labels!Inv, Labels!TypeOK
    <3>2. Labels!Visited' = Labels!Visited /\ Labels!OnStack' = Labels!OnStack /\ Labels!Left' = Labels!Left
      BY <2>1 DEF Labels!Visited, Labels!OnStack, Labels!Left
    <3>3. ASSUME Labels!LeftOK, Labels!VisitedOK PROVE Labels!LeftOK' /\ Labels!VisitedOK'
      BY <2>1, <3>2, <3>3, LabelsStill
    <3>4. ASSUME Labels!StackOK PROVE Labels!StackOK'
      <4>1. \A k, l \in 1 .. Len(s3') : k < l => s3'[k] # s3'[l] /\ s3'[k] \in Labels!Reach(s1'.calls, Labels!Called(s3[l])')
        BY <2>1, <3>4 DEF Labels!StackOK, Labels!Called
      <4>2. \A k \in 1 .. Len(s3') : \A g \in Labels!Called(s3[k])' \ s4'[s3'[k]] :
              Labels!Agrees(s3[k], g)' /\ (g \in Labels!Left' \/ (k > 1 /\ g = s3'[k - 1]))
        BY <2>1, <3>2, <3>4 DEF Labels!StackOK, Labels!Called, Labels!Agrees, Labels!Profile, Labels!None
      <4>3. \A k \in 1 .. Len(s3') : s4'[s3'[k]] \subseteq Labels!Called(s3[k])'
        BY <2>1, <3>4 DEF Labels!StackOK, Labels!Called
      <4> QED BY <3>2, <3>4, <4>1, <4>2, <4>3 DEF Labels!StackOK
    <3>5. Labels!AdaptedIfConsistent'
      <4>1. (Labels!Adaptable' <=> Labels!Adaptable)
            /\ Labels!Reach(s1.calls, Labels!Roots)' = Labels!Reach(s1.calls, Labels!Roots)
        BY <2>1, LabelsSameConsumer
      <4>2. Labels!Roots' = Labels!Roots
        BY <2>1 DEF Labels!Roots
      <4>3. Labels!Consistent(s5, Labels!Reach(s1.calls, Labels!Roots)) => Labels!Consistent(s5, Labels!Reach(s1.calls, Labels!Roots))'
        BY <2>1, <4>1, <4>2 DEF Labels!Consistent, Labels!Profile
      <4> QED BY <2>1, <2>2, <4>1, <4>3 DEF Labels!Inv, Labels!AdaptedIfConsistent, Labels!None
    <3>6. s6 = "queued" => s2' = Labels!Selected(s1)'
      <4>1. s6 = "queued" => s2 = Labels!Selected(s1)
        BY <2>2 DEF Labels!Inv
      <4> QED BY <2>1, <4>1
    <3> QED BY <2>1, <2>2, <3>1, <3>3, <3>4, <3>5, <3>6 DEF Labels!Inv
  <2> QED BY <2>1, <2>2
<1> QED BY <1>1, <1>2, <1>3

\* runner_labels and ConsumerRunnerAdapter.visit: files that the visit has left
\* call only such files, those on the stack reach what was put on it later, and
\* no consistent routing gives a visited file another profile.
THEOREM LabelsInvHolds == Spec => [](part = "labels" => Labels!Inv)
<1>1. Init => (part = "labels" => Labels!Inv)
  BY LabelsInit DEF Init
<1>2. (part = "labels" => Labels!Inv) /\ [Next]_vars => (part = "labels" => Labels!Inv)'
  BY LabelsPart
<1> QED BY <1>1, <1>2, PTL DEF Spec

\* runner_selection: an expression gives a pool only to whom the profile trusts,
\* and the adapter refuses a consumer exactly if it has a recursive call or a
\* file with two profiles, in whatever order it visits them; for consumers with
\* any number of workflow files.
THEOREM LabelsRouteByTrust == Spec => []RoutedByTrust
<1>1. (part = "labels" => Labels!Inv) /\ (part = "mode" => Mode!Inv) => RoutedByTrust
  <2>1. ASSUME Labels!Inv PROVE Labels!TypeOK /\ Labels!RoutedByTrust /\ Labels!AdaptedIfConsistent
    <3>1. ASSUME s6 = "queued" PROVE s1 \in Labels!Jobs /\ Labels!Renders(s1) /\ s2 = Labels!Selected(s1)
      BY <2>1, <3>1 DEF Labels!Inv
    <3>2. Labels!RoutedByTrust
      BY <3>1, LabelsSelected DEF Labels!RoutedByTrust
    <3> QED BY <2>1, <3>2 DEF Labels!Inv
  <2>2. Mode!Inv => Mode!TypeOK
    BY DEF Mode!Inv
  <2> QED BY <2>1, <2>2 DEF RoutedByTrust
<1> QED BY <1>1, LabelsInvHolds, ModeInvHolds, PTL

-----------------------------------------------------------------------------
(* The layers of an image                                                  *)

\* What an entry is.
LEMMA LayersEntryFacts ==
  ASSUME NEW e \in Layers!Entries
  PROVE  /\ e.kind \in Layers!Kinds \cup {"whiteout", "opaque"}
         /\ e.content \in Layers!Contents \cup {"none"} /\ e.mode \in {0, 1}
         /\ ~Layers!Hides(e) => e.kind \in Layers!Kinds /\ e.path \in ImagePaths /\ e.target \in ImagePaths
         /\ e.kind = "regular" => e.content \in Layers!Contents
         /\ e.kind # "hardlink" => e.target = e.path
<1>1. Layers!Folders \subseteq ImagePaths /\ Layers!Files \subseteq ImagePaths
  BY DEF Layers!Folders, Layers!Files, Layers!Parents
<1>2. CASE e \in Layers!FileEntries
  <2>1. PICK p \in Layers!Files, c \in Layers!Contents : e = [Layers!Entry("regular", p) EXCEPT !.content = c]
    BY <1>2 DEF Layers!FileEntries
  <2>2. e = [kind |-> "regular", path |-> p, content |-> c, mode |-> 0, target |-> p]
    BY <2>1 DEF Layers!Entry
  <2> QED BY <1>1, <2>2 DEF Layers!Contents, Layers!Kinds, Layers!Hides
<1>3. CASE e \in Layers!FolderEntries
  <2>1. PICK p \in Layers!Folders : \/ e = [Layers!Entry("regular", p) EXCEPT !.content = "other"]
                                   \/ \E kind \in {"directory", "symlink"} : e = Layers!Entry(kind, p)
    BY <1>3 DEF Layers!FolderEntries
  <2> QED BY <1>1, <2>1 DEF Layers!Entry, Layers!Contents, Layers!Kinds, Layers!Hides
<1>4. CASE e \in Layers!LinkEntries
  <2>1. PICK p \in Layers!Files : e \in {[Layers!Entry("hardlink", p) EXCEPT !.target = q, !.mode = 1] : q \in Layers!Files \ {p}}
    BY <1>4 DEF Layers!LinkEntries
  <2>2. PICK q \in Layers!Files : e = [Layers!Entry("hardlink", p) EXCEPT !.target = q, !.mode = 1]
    BY <2>1
  <2>3. e = [kind |-> "hardlink", path |-> p, content |-> "none", mode |-> 1, target |-> q]
    BY <2>2 DEF Layers!Entry
  <2> QED BY <1>1, <2>3 DEF Layers!Kinds, Layers!Hides
<1>5. CASE e \in Layers!HidingEntries
  <2>1. PICK p : e = Layers!Entry("whiteout", p) \/ e = Layers!Entry("opaque", p)
    BY <1>5 DEF Layers!HidingEntries
  <2> QED BY <2>1 DEF Layers!Entry, Layers!Kinds, Layers!Hides
<1> QED BY <1>2, <1>3, <1>4, <1>5 DEF Layers!Entries

\* What is taken away leaves the other paths of an inode together.
LEMMA LayersUnlink ==
  ASSUME NEW f, NEW gone, Layers!SoundDisk(f)
  PROVE  LET g == Layers!Unlink(f, gone) IN
         /\ DOMAIN g = DOMAIN f \ gone
         /\ \A p \in DOMAIN g : g[p].kind = f[p].kind /\ g[p].content = f[p].content /\ g[p].mode = f[p].mode
                                /\ g[p].peers = f[p].peers \ gone
         /\ Layers!SoundDisk(g)
<1> DEFINE g == Layers!Unlink(f, gone)
<1>1. DOMAIN g = DOMAIN f \ gone /\ \A p \in DOMAIN g : g[p] = [f[p] EXCEPT !.peers = @ \ gone]
  BY DEF Layers!Unlink
<1>2. \A p \in DOMAIN f : f[p] \in Layers!Inodes
  BY DEF Layers!SoundDisk
<1>3. \A p \in DOMAIN g : /\ g[p].kind = f[p].kind /\ g[p].content = f[p].content /\ g[p].mode = f[p].mode
                          /\ g[p].peers = f[p].peers \ gone /\ g[p] \in Layers!Inodes
  BY <1>1, <1>2 DEF Layers!Inodes
<1>4. g \in [DOMAIN g -> Layers!Inodes] /\ DOMAIN g \subseteq ImagePaths
  BY <1>1, <1>3 DEF Layers!Unlink, Layers!SoundDisk
<1>5. ASSUME NEW p \in DOMAIN g
      PROVE  /\ g[p].peers \subseteq DOMAIN g /\ \A q \in g[p].peers : g[q] = g[p]
             /\ IF g[p].kind = "regular" THEN p \in g[p].peers ELSE g[p].peers \subseteq {p}
  <2>1. f[p].peers \subseteq DOMAIN f /\ \A q \in f[p].peers : f[q] = f[p]
    BY <1>1, <1>5 DEF Layers!SoundDisk
  <2>2. IF f[p].kind = "regular" THEN p \in f[p].peers ELSE f[p].peers \subseteq {p}
    BY <1>1, <1>5 DEF Layers!SoundDisk
  <2>3. g[p].kind = f[p].kind /\ g[p].peers = f[p].peers \ gone /\ p \notin gone
    BY <1>1, <1>3, <1>5
  <2>4. \A q \in g[p].peers : q \in DOMAIN g /\ g[q] = g[p]
    BY <1>1, <1>5, <2>1, <2>3
  <2> QED BY <2>2, <2>3, <2>4
<1> HIDE DEF g
<1>6. Layers!SoundDisk(g)
  BY <1>4, <1>5 DEF Layers!SoundDisk
<1> QED BY <1>1, <1>3, <1>6 DEF g

\* The directories that an entry needs are made where nothing is.
LEMMA LayersBase ==
  ASSUME NEW e, Layers!SoundDisk(Layers!Freed(e))
  PROVE  LET f == Layers!Freed(e) b == Layers!Base(e) IN
         /\ DOMAIN f \subseteq DOMAIN b /\ \A p \in DOMAIN f : b[p] = f[p]
         /\ \A p \in DOMAIN b \ DOMAIN f : b[p] = Layers!Directory
         /\ e.path \in DOMAIN b => e.path \in DOMAIN f
         /\ Layers!SoundDisk(b)
<1> DEFINE f == Layers!Freed(e)
           made == {q \in Layers!Parents(e.path) : q \notin DOMAIN f}
           b == Layers!Base(e)
<1>1. b = [p \in DOMAIN f \cup made |-> IF p \in made THEN Layers!Directory ELSE f[p]]
  BY DEF Layers!Base
<1>2. e.path \notin made /\ made \subseteq ImagePaths /\ \A p \in made : p \notin DOMAIN f
  BY DEF Layers!Parents, Layers!Under, Layers!IsStrictPrefix
<1>3. f \in [DOMAIN f -> Layers!Inodes] /\ DOMAIN f \subseteq ImagePaths
      /\ \A p \in DOMAIN f :
          /\ f[p].peers \subseteq DOMAIN f /\ \A q \in f[p].peers : f[q] = f[p]
          /\ IF f[p].kind = "regular" THEN p \in f[p].peers ELSE f[p].peers \subseteq {p}
  BY DEF Layers!SoundDisk
<1>4. Layers!Directory \in Layers!Inodes /\ Layers!Directory.peers = {} /\ Layers!Directory.kind = "directory"
  BY DEF Layers!Directory, Layers!Inodes, Layers!Kinds
<1> HIDE DEF b, f, made
<1>5. DOMAIN b = DOMAIN f \cup made /\ (\A p \in DOMAIN f : b[p] = f[p]) /\ \A p \in made : b[p] = Layers!Directory
  BY <1>1, <1>2
<1>6. b \in [DOMAIN b -> Layers!Inodes] /\ DOMAIN b \subseteq ImagePaths
  BY <1>1, <1>2, <1>3, <1>4, <1>5
<1>7. ASSUME NEW p \in DOMAIN b
      PROVE  /\ b[p].peers \subseteq DOMAIN b /\ \A q \in b[p].peers : b[q] = b[p]
             /\ IF b[p].kind = "regular" THEN p \in b[p].peers ELSE b[p].peers \subseteq {p}
  <2>1. CASE p \in DOMAIN f
    BY <1>3, <1>5, <2>1
  <2>2. CASE p \in made
    BY <1>4, <1>5, <2>2
  <2> QED BY <1>5, <2>1, <2>2
<1>8. Layers!SoundDisk(b)
  BY <1>6, <1>7 DEF Layers!SoundDisk
<1> QED BY <1>2, <1>5, <1>8 DEF b, f

\* A new inode under one name.
LEMMA LayersCreate ==
  ASSUME NEW f, NEW e, Layers!SoundDisk(f), e.path \in ImagePaths, e.kind \in Layers!Kinds \ {"hardlink"},
         e.content \in Layers!Contents \cup {"none"}, e.mode \in {0, 1},
         e.path \in DOMAIN f => f[e.path].kind # "regular"
  PROVE  LET g == Layers!Create(f, e) IN
         /\ DOMAIN g = DOMAIN f \cup {e.path}
         /\ \A p \in DOMAIN f : p # e.path => g[p] = f[p]
         /\ g[e.path] = [kind |-> e.kind, content |-> e.content, mode |-> e.mode, peers |-> {e.path}]
         /\ Layers!SoundDisk(g)
<1> DEFINE new == [kind |-> e.kind, content |-> e.content, mode |-> e.mode, peers |-> {e.path}]
           g == Layers!Create(f, e)
<1>1. g = [q \in DOMAIN f \cup {e.path} |-> IF q = e.path THEN new ELSE f[q]]
  BY DEF Layers!Create, Layers!With
<1>2. new \in Layers!Inodes /\ new.peers = {e.path}
  BY DEF Layers!Inodes
<1>3. f \in [DOMAIN f -> Layers!Inodes] /\ DOMAIN f \subseteq ImagePaths
      /\ \A p \in DOMAIN f :
          /\ f[p].peers \subseteq DOMAIN f /\ \A q \in f[p].peers : f[q] = f[p]
          /\ IF f[p].kind = "regular" THEN p \in f[p].peers ELSE f[p].peers \subseteq {p}
  BY DEF Layers!SoundDisk
<1> HIDE DEF new, g
<1>4. DOMAIN g = DOMAIN f \cup {e.path} /\ (\A p \in DOMAIN f : p # e.path => g[p] = f[p]) /\ g[e.path] = new
  BY <1>1
<1>5. g \in [DOMAIN g -> Layers!Inodes] /\ DOMAIN g \subseteq ImagePaths
  BY <1>1, <1>2, <1>3, <1>4
<1>6. ASSUME NEW p \in DOMAIN g
      PROVE  /\ g[p].peers \subseteq DOMAIN g /\ \A q \in g[p].peers : g[q] = g[p]
             /\ IF g[p].kind = "regular" THEN p \in g[p].peers ELSE g[p].peers \subseteq {p}
  <2>1. CASE p = e.path
    BY <1>2, <1>4, <2>1
  <2>2. CASE p # e.path
    <3>1. p \in DOMAIN f /\ g[p] = f[p]
      BY <1>4, <1>6, <2>2
    <3>2. e.path \notin f[p].peers
      BY <1>3, <2>2, <3>1
    <3> QED BY <1>3, <1>4, <3>1, <3>2
  <2> QED BY <2>1, <2>2
<1>7. Layers!SoundDisk(g)
  BY <1>5, <1>6 DEF Layers!SoundDisk
<1> QED BY <1>4, <1>7 DEF g, new

\* A link joins its name to an inode.
LEMMA LayersLink ==
  ASSUME NEW f, NEW e, Layers!SoundDisk(f), e.path \in ImagePaths \ DOMAIN f, e.mode \in {0, 1},
         e.target \in DOMAIN f, f[e.target].kind = "regular"
  PROVE  LET g == Layers!Link(f, e) IN
         /\ DOMAIN g = DOMAIN f \cup {e.path}
         /\ \A p \in DOMAIN f : /\ g[p].kind = f[p].kind /\ g[p].content = f[p].content
                                /\ p # e.target /\ f[p].peers = {p} => g[p] = f[p]
         /\ g[e.path].kind = "regular"
         /\ Layers!SoundDisk(g)
<1> DEFINE peers == f[e.target].peers \cup {e.path}
           inode == [f[e.target] EXCEPT !.mode = e.mode, !.peers = peers]
           g == Layers!Link(f, e)
<1>1. g = [p \in DOMAIN f \cup {e.path} |-> IF p \in peers THEN inode ELSE f[p]]
  BY DEF Layers!Link
<1>2. f \in [DOMAIN f -> Layers!Inodes] /\ DOMAIN f \subseteq ImagePaths
      /\ \A p \in DOMAIN f :
          /\ f[p].peers \subseteq DOMAIN f /\ \A q \in f[p].peers : f[q] = f[p]
          /\ IF f[p].kind = "regular" THEN p \in f[p].peers ELSE f[p].peers \subseteq {p}
  BY DEF Layers!SoundDisk
<1>3. e.target \in f[e.target].peers /\ f[e.target].peers \subseteq DOMAIN f /\ \A p \in f[e.target].peers : f[p] = f[e.target]
  BY <1>2
<1>4. inode \in Layers!Inodes /\ inode.kind = "regular" /\ inode.content = f[e.target].content /\ inode.peers = peers
  <2>1. f[e.target] \in Layers!Inodes /\ peers \subseteq ImagePaths
    BY <1>2, <1>3
  <2> HIDE DEF peers
  <2> QED BY <2>1 DEF Layers!Inodes
<1> HIDE DEF inode, g
<1>5. DOMAIN g = DOMAIN f \cup {e.path} /\ \A p \in DOMAIN g : g[p] = IF p \in peers THEN inode ELSE f[p]
  BY <1>1
<1>6. \A p \in DOMAIN f : g[p].kind = f[p].kind /\ g[p].content = f[p].content
  BY <1>3, <1>4, <1>5
<1>7. \A p \in DOMAIN f : p # e.target /\ f[p].peers = {p} => g[p] = f[p]
  BY <1>3, <1>5
<1>8. g \in [DOMAIN g -> Layers!Inodes] /\ DOMAIN g \subseteq ImagePaths
  BY <1>1, <1>2, <1>4, <1>5
<1>9. ASSUME NEW p \in DOMAIN g
      PROVE  /\ g[p].peers \subseteq DOMAIN g /\ \A q \in g[p].peers : g[q] = g[p]
             /\ IF g[p].kind = "regular" THEN p \in g[p].peers ELSE g[p].peers \subseteq {p}
  <2>1. CASE p \in peers
    BY <1>3, <1>4, <1>5, <2>1
  <2>2. CASE p \notin peers
    <3>1. p \in DOMAIN f /\ g[p] = f[p]
      BY <1>5, <1>9, <2>2
    <3>2. ASSUME NEW q \in f[p].peers PROVE q \notin peers
      <4>1. q \in DOMAIN f /\ q # e.path /\ f[q] = f[p]
        BY <1>2, <3>1
      <4>2. ASSUME q \in f[e.target].peers PROVE FALSE
        <5>1. f[p] = f[e.target]
          BY <1>3, <4>1, <4>2
        <5>2. p \in f[p].peers
          BY <1>2, <3>1, <5>1
        <5> QED BY <2>2, <5>1, <5>2
      <4> QED BY <4>1, <4>2
    <3> QED BY <1>2, <1>5, <3>1, <3>2
  <2> QED BY <2>1, <2>2
<1>10. Layers!SoundDisk(g)
  BY <1>8, <1>9 DEF Layers!SoundDisk
<1> QED BY <1>4, <1>5, <1>6, <1>7, <1>10 DEF g

\* What the disk shows once an entry is unpacked.
LEMMA LayersUnpack ==
  ASSUME NEW e \in Layers!Entries, ~Layers!Hides(e), Layers!SoundDisk(s6), Layers!UnpackWorld(e) = "ok", Layers!Unpack(e)
  PROVE  /\ Layers!SoundDisk(s6')
         /\ \A p \in DOMAIN s6 : p # e.path /\ (Layers!Under(p, e.path) => e.kind = "directory") =>
              /\ p \in DOMAIN s6' /\ s6'[p].kind = s6[p].kind /\ s6'[p].content = s6[p].content
              /\ s6[p].peers = {p} /\ (e.kind = "hardlink" => p # e.target) => s6'[p] = s6[p]
         /\ e.path \in DOMAIN s6' /\ s6'[e.path].kind = Layers!OnDisk(e.kind)
         /\ e.kind = "regular" => s6'[e.path].content = e.content /\ s6'[e.path].mode = e.mode /\ s6'[e.path].peers = {e.path}
         /\ \A p \in DOMAIN s6' : p # e.path /\ s6'[p].kind # "directory" =>
              p \in DOMAIN s6 /\ s6[p].kind = s6'[p].kind /\ (Layers!Under(p, e.path) => e.kind = "directory")
<1> DEFINE f == Layers!Freed(e)
           b == Layers!Base(e)
<1>1. /\ e.kind \in Layers!Kinds /\ e.path \in ImagePaths /\ e.target \in ImagePaths
      /\ e.content \in Layers!Contents \cup {"none"} /\ e.mode \in {0, 1}
  BY LayersEntryFacts
<1>2. s7 = "ok" /\ Layers!Through(e) = {} /\ Layers!Linkable(e)
      /\ s6' = IF e.kind = "hardlink" THEN Layers!Link(b, e) ELSE Layers!Create(b, e)
  BY DEF Layers!UnpackWorld, Layers!Unpack
<1>3. /\ DOMAIN f = DOMAIN s6 \ Layers!Replaced(e)
      /\ \A p \in DOMAIN f : f[p].kind = s6[p].kind /\ f[p].content = s6[p].content /\ f[p].mode = s6[p].mode
                             /\ f[p].peers = s6[p].peers \ Layers!Replaced(e)
      /\ Layers!SoundDisk(f)
  BY LayersUnlink DEF Layers!Freed
<1>4. /\ DOMAIN f \subseteq DOMAIN b /\ \A p \in DOMAIN f : b[p] = f[p]
      /\ \A p \in DOMAIN b \ DOMAIN f : b[p] = Layers!Directory
      /\ e.path \in DOMAIN b => e.path \in DOMAIN f
      /\ Layers!SoundDisk(b)
  BY <1>3, LayersBase
<1>5. \A p \in DOMAIN s6 : p # e.path /\ (Layers!Under(p, e.path) => e.kind = "directory") => p \notin Layers!Replaced(e)
  BY DEF Layers!Replaced
<1>6. \A p \in DOMAIN s6 : p \notin Layers!Replaced(e) /\ s6[p].peers = {p} => f[p] = s6[p]
  <2>1. ASSUME NEW p \in DOMAIN s6, p \notin Layers!Replaced(e), s6[p].peers = {p} PROVE f[p] = s6[p]
    <3>1. p \in DOMAIN f /\ s6[p] \in Layers!Inodes /\ f[p] \in Layers!Inodes
      BY <1>3, <2>1 DEF Layers!SoundDisk
    <3>2. f[p].kind = s6[p].kind /\ f[p].content = s6[p].content /\ f[p].mode = s6[p].mode /\ f[p].peers = s6[p].peers
      BY <1>3, <2>1, <3>1
    <3> QED BY <3>1, <3>2 DEF Layers!Inodes
  <2> QED BY <2>1
<1>7. e.path \in DOMAIN f => f[e.path].kind = "directory" /\ e.kind = "directory"
  <2>1. e.path \in DOMAIN s6 => e.path \in Layers!Replaced(e) \/ (e.kind = "directory" /\ s6[e.path].kind = "directory")
    BY <1>1 DEF Layers!Replaced
  <2> QED BY <1>3, <2>1
<1>8. \A p \in DOMAIN f : p # e.path => p \in DOMAIN s6 /\ (Layers!Under(p, e.path) => e.kind = "directory")
  <2>1. Layers!SoundDisk(s6) => DOMAIN s6 \subseteq ImagePaths
    BY DEF Layers!SoundDisk
  <2> QED BY <1>3, <2>1 DEF Layers!Replaced
<1> HIDE DEF f, b
<1>9. Layers!Directory.kind = "directory"
  BY DEF Layers!Directory
<1>10. CASE e.kind = "hardlink"
  <2> DEFINE g == Layers!Link(b, e)
  <2>1. e.target \in DOMAIN f /\ f[e.target].kind = "regular"
    BY <1>2, <1>10 DEF Layers!Linkable, f
  <2>2. e.path \in ImagePaths \ DOMAIN b /\ e.target \in DOMAIN b /\ b[e.target].kind = "regular"
    BY <1>1, <1>4, <1>7, <1>10, <2>1
  <2>3. /\ DOMAIN g = DOMAIN b \cup {e.path}
        /\ \A p \in DOMAIN b : /\ g[p].kind = b[p].kind /\ g[p].content = b[p].content
                               /\ p # e.target /\ b[p].peers = {p} => g[p] = b[p]
        /\ g[e.path].kind = "regular"
        /\ Layers!SoundDisk(g)
    BY <1>1, <1>4, <2>2, LayersLink
  <2>4. s6' = g
    BY <1>2, <1>10 DEF b
  <2> HIDE DEF g
  <2>5. \A p \in DOMAIN s6 : p # e.path /\ (Layers!Under(p, e.path) => e.kind = "directory") =>
          /\ p \in DOMAIN g /\ g[p].kind = s6[p].kind /\ g[p].content = s6[p].content
          /\ s6[p].peers = {p} /\ p # e.target => g[p] = s6[p]
    BY <1>3, <1>4, <1>5, <1>6, <2>3
  <2>6. \A p \in DOMAIN g : p # e.path /\ g[p].kind # "directory" =>
          p \in DOMAIN s6 /\ s6[p].kind = g[p].kind /\ (Layers!Under(p, e.path) => e.kind = "directory")
    <3>1. ASSUME NEW p \in DOMAIN g, p # e.path, g[p].kind # "directory" PROVE p \in DOMAIN f /\ s6[p].kind = g[p].kind
      BY <1>3, <1>4, <1>9, <2>3, <3>1
    <3> QED BY <1>8, <3>1
  <2> QED BY <1>10, <2>3, <2>4, <2>5, <2>6 DEF Layers!OnDisk
<1>11. CASE e.kind # "hardlink"
  <2> DEFINE g == Layers!Create(b, e)
  <2>1. e.kind \in Layers!Kinds \ {"hardlink"} /\ (e.path \in DOMAIN b => b[e.path].kind # "regular")
    BY <1>1, <1>4, <1>7, <1>11
  <2>2. /\ DOMAIN g = DOMAIN b \cup {e.path}
        /\ \A p \in DOMAIN b : p # e.path => g[p] = b[p]
        /\ g[e.path] = [kind |-> e.kind, content |-> e.content, mode |-> e.mode, peers |-> {e.path}]
        /\ Layers!SoundDisk(g)
    BY <1>1, <1>4, <2>1, LayersCreate
  <2>3. s6' = g
    BY <1>2, <1>11 DEF b
  <2> HIDE DEF g
  <2>4. \A p \in DOMAIN s6 : p # e.path /\ (Layers!Under(p, e.path) => e.kind = "directory") =>
          /\ p \in DOMAIN g /\ g[p].kind = s6[p].kind /\ g[p].content = s6[p].content
          /\ s6[p].peers = {p} => g[p] = s6[p]
    BY <1>3, <1>4, <1>5, <1>6, <2>2
  <2>5. \A p \in DOMAIN g : p # e.path /\ g[p].kind # "directory" =>
          p \in DOMAIN s6 /\ s6[p].kind = g[p].kind /\ (Layers!Under(p, e.path) => e.kind = "directory")
    <3>1. ASSUME NEW p \in DOMAIN g, p # e.path, g[p].kind # "directory" PROVE p \in DOMAIN f /\ s6[p].kind = g[p].kind
      BY <1>3, <1>4, <1>9, <2>2, <3>1
    <3> QED BY <1>8, <3>1
  <2> QED BY <1>11, <2>2, <2>3, <2>4, <2>5 DEF Layers!OnDisk
<1> QED BY <1>10, <1>11

\* Records of the tree are records.
LEMMA LayersTreeTypes ==
  ASSUME NEW e \in Layers!Entries, Layers!TypesOK
  PROVE  /\ Layers!HideStep(e) => s4' \in [DOMAIN s4' -> Layers!Records] /\ DOMAIN s4' \subseteq ImagePaths /\ s5' \in BOOLEAN
                                  /\ DOMAIN s4' = DOMAIN s4 \ Layers!Hidden(e) /\ \A p \in DOMAIN s4' : s4'[p] = s4[p]
         /\ ~Layers!Hides(e) /\ Layers!AddStep(e) =>
              /\ s4' \in [DOMAIN s4' -> Layers!Records] /\ DOMAIN s4' \subseteq ImagePaths /\ s5' \in BOOLEAN
              /\ \A p \in ImagePaths : p # e.path =>
                    (p \in DOMAIN s4' <=> p \in DOMAIN s4 /\ (Layers!Under(p, e.path) => e.kind = "directory"))
              /\ \A p \in DOMAIN s4' : p # e.path => s4'[p] = s4[p]
              /\ e.path \in DOMAIN s4'
              /\ s4'[e.path] = [kind |-> e.kind, content |-> e.content, mode |-> e.mode, target |-> e.target, ambiguous |-> FALSE]
<1>1. s4 \in [DOMAIN s4 -> Layers!Records] /\ DOMAIN s4 \subseteq ImagePaths
  BY DEF Layers!TypesOK
<1>2. ASSUME Layers!HideStep(e)
      PROVE  s4' \in [DOMAIN s4' -> Layers!Records] /\ DOMAIN s4' \subseteq ImagePaths /\ s5' \in BOOLEAN
             /\ DOMAIN s4' = DOMAIN s4 \ Layers!Hidden(e) /\ \A p \in DOMAIN s4' : s4'[p] = s4[p]
  <2>1. s4' = [p \in DOMAIN s4 \ Layers!Hidden(e) |-> s4[p]] /\ s5' \in BOOLEAN
    BY <1>2 DEF Layers!HideStep, Layers!Without
  <2> QED BY <1>1, <2>1
<1>3. ASSUME ~Layers!Hides(e), Layers!AddStep(e)
      PROVE  /\ s4' \in [DOMAIN s4' -> Layers!Records] /\ DOMAIN s4' \subseteq ImagePaths /\ s5' \in BOOLEAN
             /\ \A p \in ImagePaths : p # e.path =>
                   (p \in DOMAIN s4' <=> p \in DOMAIN s4 /\ (Layers!Under(p, e.path) => e.kind = "directory"))
             /\ \A p \in DOMAIN s4' : p # e.path => s4'[p] = s4[p]
             /\ e.path \in DOMAIN s4'
             /\ s4'[e.path] = [kind |-> e.kind, content |-> e.content, mode |-> e.mode, target |-> e.target, ambiguous |-> FALSE]
  <2> DEFINE record == [kind |-> e.kind, content |-> e.content, mode |-> e.mode, target |-> e.target, ambiguous |-> FALSE]
             gone == IF e.kind = "directory" THEN {} ELSE {p \in ImagePaths : Layers!Under(p, e.path)}
             rest == Layers!Without(s4, gone)
  <2>1. s4' = [q \in DOMAIN rest \cup {e.path} |-> IF q = e.path THEN record ELSE rest[q]] /\ s5' \in BOOLEAN
    BY <1>3 DEF Layers!AddStep, Layers!With
  <2>2. rest = [q \in DOMAIN s4 \ gone |-> s4[q]]
    BY DEF Layers!Without
  <2>3. record \in Layers!Records /\ e.path \in ImagePaths
    BY <1>3, LayersEntryFacts DEF Layers!Records
  <2> HIDE DEF record, rest
  <2>4. DOMAIN s4' = (DOMAIN s4 \ gone) \cup {e.path} /\ s4'[e.path] = record
        /\ \A p \in DOMAIN s4 \ gone : p # e.path => s4'[p] = s4[p]
    BY <2>1, <2>2
  <2>5. \A p \in ImagePaths : p \in gone <=> Layers!Under(p, e.path) /\ e.kind # "directory"
    OBVIOUS
  <2> HIDE DEF gone
  <2>6. s4' \in [DOMAIN s4' -> Layers!Records] /\ DOMAIN s4' \subseteq ImagePaths
    BY <1>1, <2>1, <2>3, <2>4
  <2> QED BY <1>1, <2>1, <2>4, <2>5, <2>6 DEF record
<1> QED BY <1>2, <1>3

\* A link on the way of an entry is one in the tree, where the merge refuses it.
LEMMA LayersRedirected ==
  ASSUME NEW e \in Layers!Entries, Layers!TypesOK, Layers!TreeOK
  PROVE  /\ Layers!HideStep(e) /\ Layers!Hide(e) /\ s5' => s7' # "redirected"
         /\ ~Layers!Hides(e) /\ Layers!AddStep(e) /\ Layers!Unpack(e) /\ s5' => s7' # "redirected"
<1>1. ASSUME s5, s7 = "ok", NEW p \in DOMAIN s6, s6[p].kind = "symlink" PROVE p \in DOMAIN s4 /\ s4[p].kind # "directory"
  BY <1>1 DEF Layers!TreeOK, Layers!OnDisk
<1>2. s5 => s7 # "redirected"
  BY DEF Layers!TreeOK
<1>3. ASSUME Layers!HideStep(e), Layers!Hide(e), s5', s7' = "redirected" PROVE FALSE
  <2>1. s5 /\ Layers!HideChecks(e)
    BY <1>3 DEF Layers!HideStep
  <2>2. PICK p \in (Layers!Parents(e.path) \cup (IF e.kind = "opaque" THEN {e.path} ELSE {})) \cap DOMAIN s6 :
          s7 = "ok" /\ s6[p].kind = "symlink"
    BY <1>2, <1>3, <2>1 DEF Layers!Hide, Layers!HideWorld
  <2>3. p \in DOMAIN s4 /\ s4[p].kind # "directory"
    BY <1>1, <2>1, <2>2
  <2> QED BY <2>1, <2>2, <2>3 DEF Layers!HideChecks, Layers!InDirectories
<1>4. ASSUME ~Layers!Hides(e), Layers!AddStep(e), Layers!Unpack(e), s5', s7' = "redirected" PROVE FALSE
  <2>1. s5 /\ Layers!AddChecks(e)
    BY <1>4 DEF Layers!AddStep
  <2>2. PICK p \in Layers!Through(e) : s7 = "ok" /\ Layers!Freed(e)[p].kind = "symlink"
    BY <1>2, <1>4, <2>1 DEF Layers!Unpack, Layers!UnpackWorld
  <2>3. p \in DOMAIN s6 /\ s6[p].kind = "symlink"
    <3>1. Layers!SoundDisk(s6)
      BY DEF Layers!TypesOK
    <3> DEFINE f == Layers!Freed(e)
    <3>2. /\ DOMAIN f = DOMAIN s6 \ Layers!Replaced(e)
          /\ \A q \in DOMAIN f : f[q].kind = s6[q].kind /\ f[q].content = s6[q].content /\ f[q].mode = s6[q].mode
                                 /\ f[q].peers = s6[q].peers \ Layers!Replaced(e)
          /\ Layers!SoundDisk(f)
      BY <3>1, LayersUnlink DEF Layers!Freed
    <3> QED BY <2>2, <3>2 DEF Layers!Through
  <2>4. p \in DOMAIN s4 /\ s4[p].kind # "directory"
    BY <1>1, <2>1, <2>2, <2>3
  <2>5. p \in Layers!Parents(e.path) \cup Layers!Parents(e.target)
    BY <2>2 DEF Layers!Through
  <2>6. e.kind # "hardlink" => e.target = e.path
    BY LayersEntryFacts
  <2> QED BY <2>1, <2>4, <2>5, <2>6 DEF Layers!AddChecks, Layers!InDirectories
<1> QED BY <1>3, <1>4

\* What hides takes the same from the tree and from the disk.
LEMMA LayersHideKeeps ==
  ASSUME NEW e \in Layers!Entries, Layers!TypesOK, Layers!TreeOK, Layers!HideStep(e), Layers!Hide(e), s11' = s11
  PROVE  Layers!TreeOK'
<1>1. s5' => s7' # "redirected"
  BY LayersRedirected
<1>2. SUFFICES ASSUME s5', s7' = "ok"
               PROVE  /\ \A p \in DOMAIN s4' : p \in DOMAIN s6' /\ s6'[p].kind = Layers!OnDisk(s4'[p].kind) /\ Layers!Alone(p)'
                      /\ \A p \in DOMAIN s6' \ DOMAIN s4' : s6'[p].kind = "directory"
  BY <1>1 DEF Layers!TreeOK
<1>3. s5 /\ s7 = "ok" /\ s6' = Layers!Unlink(s6, Layers!Hidden(e))
  BY <1>2 DEF Layers!HideStep, Layers!Hide, Layers!HideWorld
<1>4. DOMAIN s4' = DOMAIN s4 \ Layers!Hidden(e) /\ \A p \in DOMAIN s4' : s4'[p] = s4[p]
  BY LayersTreeTypes
<1>5. /\ DOMAIN s6' = DOMAIN s6 \ Layers!Hidden(e)
      /\ \A p \in DOMAIN s6' : s6'[p].kind = s6[p].kind /\ s6'[p].content = s6[p].content /\ s6'[p].mode = s6[p].mode
                               /\ s6'[p].peers = s6[p].peers \ Layers!Hidden(e)
  <2>1. Layers!SoundDisk(s6)
    BY DEF Layers!TypesOK
  <2> DEFINE g == Layers!Unlink(s6, Layers!Hidden(e))
  <2>2. /\ DOMAIN g = DOMAIN s6 \ Layers!Hidden(e)
        /\ \A p \in DOMAIN g : g[p].kind = s6[p].kind /\ g[p].content = s6[p].content /\ g[p].mode = s6[p].mode
                               /\ g[p].peers = s6[p].peers \ Layers!Hidden(e)
        /\ Layers!SoundDisk(g)
    BY <2>1, LayersUnlink
  <2> HIDE DEF g
  <2>3. s6' = g
    BY <1>3 DEF g
  <2> QED BY <2>2, <2>3
<1>6. /\ \A p \in DOMAIN s4 : p \in DOMAIN s6 /\ s6[p].kind = Layers!OnDisk(s4[p].kind) /\ Layers!Alone(p)
      /\ \A p \in DOMAIN s6 \ DOMAIN s4 : s6[p].kind = "directory"
  BY <1>3 DEF Layers!TreeOK
<1>7. ASSUME NEW p \in DOMAIN s4' PROVE Layers!Alone(p)'
  <2>1. p \in DOMAIN s4 /\ p \in DOMAIN s6' /\ p \notin Layers!Hidden(e) /\ s4'[p] = s4[p] /\ Layers!Alone(p)
    BY <1>4, <1>5, <1>6, <1>7
  <2>2. ASSUME s4[p].kind = "regular", ~s4[p].ambiguous, p \notin s11
        PROVE  s6'[p].content = s4[p].content /\ s6'[p].mode = s4[p].mode /\ s6'[p].peers = {p}
    <3>1. s6[p].content = s4[p].content /\ s6[p].mode = s4[p].mode /\ s6[p].peers = {p}
      BY <2>1, <2>2 DEF Layers!Alone
    <3> QED BY <1>5, <2>1, <3>1
  <2> QED BY <2>1, <2>2 DEF Layers!Alone
<1> QED BY <1>4, <1>5, <1>6, <1>7

\* What is laid down is in the tree as it is on the disk.
LEMMA LayersAddKeeps ==
  ASSUME NEW e \in Layers!Entries, ~Layers!Hides(e), Layers!TypesOK, Layers!TreeOK, Layers!AddStep(e), Layers!Unpack(e), s11' = s11,
         e.kind = "hardlink" => {e.path, e.target} \subseteq s11
  PROVE  Layers!TreeOK'
<1>1. s5' => s7' # "redirected"
  BY LayersRedirected
<1>2. SUFFICES ASSUME s5', s7' = "ok"
               PROVE  /\ \A p \in DOMAIN s4' : p \in DOMAIN s6' /\ s6'[p].kind = Layers!OnDisk(s4'[p].kind) /\ Layers!Alone(p)'
                      /\ \A p \in DOMAIN s6' \ DOMAIN s4' : s6'[p].kind = "directory"
  BY <1>1 DEF Layers!TreeOK
<1>3. s5 /\ s7 = "ok" /\ Layers!UnpackWorld(e) = "ok" /\ Layers!SoundDisk(s6)
  BY <1>2 DEF Layers!AddStep, Layers!Unpack, Layers!UnpackWorld, Layers!TypesOK
<1>4. /\ Layers!SoundDisk(s6')
      /\ \A p \in DOMAIN s6 : p # e.path /\ (Layers!Under(p, e.path) => e.kind = "directory") =>
           /\ p \in DOMAIN s6' /\ s6'[p].kind = s6[p].kind /\ s6'[p].content = s6[p].content
           /\ s6[p].peers = {p} /\ (e.kind = "hardlink" => p # e.target) => s6'[p] = s6[p]
      /\ e.path \in DOMAIN s6' /\ s6'[e.path].kind = Layers!OnDisk(e.kind)
      /\ e.kind = "regular" => s6'[e.path].content = e.content /\ s6'[e.path].mode = e.mode /\ s6'[e.path].peers = {e.path}
      /\ \A p \in DOMAIN s6' : p # e.path /\ s6'[p].kind # "directory" =>
           p \in DOMAIN s6 /\ s6[p].kind = s6'[p].kind /\ (Layers!Under(p, e.path) => e.kind = "directory")
  BY <1>3, LayersUnpack
<1>5. /\ DOMAIN s4' \subseteq ImagePaths
      /\ \A p \in ImagePaths : p # e.path =>
            (p \in DOMAIN s4' <=> p \in DOMAIN s4 /\ (Layers!Under(p, e.path) => e.kind = "directory"))
      /\ \A p \in DOMAIN s4' : p # e.path => s4'[p] = s4[p]
      /\ e.path \in DOMAIN s4'
      /\ s4'[e.path] = [kind |-> e.kind, content |-> e.content, mode |-> e.mode, target |-> e.target, ambiguous |-> FALSE]
  BY LayersTreeTypes
<1>6. /\ \A p \in DOMAIN s4 : p \in DOMAIN s6 /\ s6[p].kind = Layers!OnDisk(s4[p].kind) /\ Layers!Alone(p)
      /\ \A p \in DOMAIN s6 \ DOMAIN s4 : s6[p].kind = "directory"
  BY <1>3 DEF Layers!TreeOK
<1>7. ASSUME NEW p \in DOMAIN s4', p # e.path
      PROVE  p \in DOMAIN s6' /\ s6'[p].kind = Layers!OnDisk(s4'[p].kind) /\ Layers!Alone(p)'
  <2>1. p \in DOMAIN s4 /\ (Layers!Under(p, e.path) => e.kind = "directory") /\ s4'[p] = s4[p]
    BY <1>5, <1>7
  <2>2. p \in DOMAIN s6 /\ s6[p].kind = Layers!OnDisk(s4[p].kind) /\ Layers!Alone(p)
    BY <1>6, <2>1
  <2>3. p \in DOMAIN s6' /\ s6'[p].kind = s6[p].kind
    BY <1>4, <1>7, <2>1, <2>2
  <2>4. ASSUME s4[p].kind = "regular", ~s4[p].ambiguous, p \notin s11
        PROVE  s6'[p].content = s4[p].content /\ s6'[p].mode = s4[p].mode /\ s6'[p].peers = {p}
    <3>1. s6[p].content = s4[p].content /\ s6[p].mode = s4[p].mode /\ s6[p].peers = {p}
      BY <2>2, <2>4 DEF Layers!Alone
    <3>2. e.kind = "hardlink" => p # e.target
      BY <2>4
    <3> QED BY <1>4, <1>7, <2>1, <2>2, <3>1, <3>2
  <2> QED BY <2>1, <2>2, <2>3, <2>4 DEF Layers!Alone
<1>8. Layers!Alone(e.path)' /\ s6'[e.path].kind = Layers!OnDisk(s4'[e.path].kind)
  BY <1>4, <1>5 DEF Layers!Alone
<1>9. ASSUME NEW p \in DOMAIN s6' \ DOMAIN s4' PROVE s6'[p].kind = "directory"
  <2>1. p # e.path /\ p \in ImagePaths
    BY <1>4, <1>5, <1>9 DEF Layers!SoundDisk
  <2>2. ASSUME s6'[p].kind # "directory" PROVE FALSE
    <3>1. p \in DOMAIN s6 /\ s6[p].kind = s6'[p].kind /\ (Layers!Under(p, e.path) => e.kind = "directory")
      BY <1>4, <1>9, <2>1, <2>2
    <3>2. p \notin DOMAIN s4
      BY <1>5, <1>9, <2>1, <3>1
    <3> QED BY <1>6, <2>2, <3>1, <3>2
  <2> QED BY <2>2
<1> QED BY <1>4, <1>5, <1>7, <1>8, <1>9

\* The anchor while an entry is read.
LEMMA LayersAnchorRead ==
  ASSUME NEW e \in Layers!Entries, Layers!TypesOK, Layers!AnchorOK, Layers!ReadEntry(e)
  PROVE  Layers!AnchorOK'
<1> DEFINE n == Len(s2)
<1>1. /\ s9 = "read" /\ s9' = "read" /\ s10' = s10 /\ s6' = s6 /\ s7' = s7 /\ s2' = Append(s2, e) /\ s3' = Layers!SentinelStep(s3, e)
  BY DEF Layers!ReadEntry
<1>2. s2 \in Seq(Layers!Entries) /\ n \in Nat /\ DOMAIN s2 = 1 .. n /\ DOMAIN s2' = 1 .. (n + 1) /\ s2'[n + 1] = e
      /\ \A i \in 1 .. n : s2'[i] = s2[i]
  BY <1>1 DEF Layers!TypesOK
<1>3. Layers!ToCome = 1 .. n /\ Layers!ToCome' = 1 .. (n + 1) /\ Layers!Shows' = Layers!Shows
  BY <1>1, <1>2 DEF Layers!ToCome, Layers!Shows
<1>4. Anchor \notin Layers!Parents(Anchor)
  BY DEF Layers!Parents, Layers!Under, Layers!IsStrictPrefix
<1>5. s3' # "refused" => s3 # "refused" /\ (~Layers!Hides(e) =>
        (e.path \in Layers!Parents(Anchor) => e.kind = "directory") /\ (e.path = Anchor => e.kind = "regular"))
  BY <1>1, <1>4 DEF Layers!SentinelStep
<1>6. s3' = "sentinel" => \/ s3 = "sentinel" /\ ~Layers!Sets(e) /\ (Layers!Hides(e) => ~Layers!HidesTarget(e))
                          \/ Layers!Sets(e) /\ e.content = "sentinel"
  BY <1>1, <1>4 DEF Layers!SentinelStep, Layers!Sets
<1>7. ASSUME s3' # "refused", NEW i \in DOMAIN s2', ~Layers!Hides(s2'[i])
      PROVE  (s2'[i].path \in Layers!Parents(Anchor) => s2'[i].kind = "directory") /\ (s2'[i].path = Anchor => s2'[i].kind = "regular")
  BY <1>2, <1>5, <1>7 DEF Layers!AnchorOK
<1>8. ASSUME s3' = "sentinel", s7' = "ok"
      PROVE  \/ \E i \in Layers!ToCome' : /\ Layers!Sets(s2'[i]) /\ s2'[i].content = "sentinel"
                                         /\ \A j \in Layers!ToCome' : Layers!Sets(s2'[j]) => j <= i
             \/ /\ Layers!Shows' /\ \A i \in Layers!ToCome' : ~Layers!Sets(s2'[i])
                /\ s9' # "add" => \A i \in DOMAIN s2' : Layers!Hides(s2'[i]) => ~Layers!HidesTarget(s2'[i])
  <2>1. CASE Layers!Sets(e) /\ e.content = "sentinel"
    BY <1>2, <1>3, <2>1
  <2>2. CASE s3 = "sentinel" /\ ~Layers!Sets(e) /\ (Layers!Hides(e) => ~Layers!HidesTarget(e))
    <3>1. CASE \E i \in Layers!ToCome : /\ Layers!Sets(s2[i]) /\ s2[i].content = "sentinel"
                                        /\ \A j \in Layers!ToCome : Layers!Sets(s2[j]) => j <= i
      BY <1>2, <1>3, <2>2, <3>1
    <3>2. CASE /\ Layers!Shows /\ \A i \in Layers!ToCome : ~Layers!Sets(s2[i])
               /\ \A i \in DOMAIN s2 : Layers!Hides(s2[i]) => ~Layers!HidesTarget(s2[i])
      BY <1>2, <1>3, <2>2, <3>2
    <3> QED BY <1>1, <1>8, <2>2, <3>1, <3>2 DEF Layers!AnchorOK
  <2> QED BY <1>6, <1>8, <2>1, <2>2
<1> QED BY <1>7, <1>8 DEF Layers!AnchorOK

\* An entry that does not set the anchor leaves it, unless it hides it or takes its directory away.
LEMMA LayersAnchorStays ==
  ASSUME NEW e \in Layers!Entries, Layers!TypesOK, s7' = "ok", Layers!Shows,
         \/ Layers!Hide(e) /\ ~Layers!HidesTarget(e)
         \/ ~Layers!Hides(e) /\ Layers!Unpack(e) /\ e.path # Anchor /\ (e.path \in Layers!Parents(Anchor) => e.kind = "directory")
  PROVE  Layers!Shows'
<1>1. Layers!SoundDisk(s6) /\ Anchor \in DOMAIN s6 /\ s6[Anchor].kind = "regular" /\ s6[Anchor].content = "sentinel"
  BY DEF Layers!TypesOK, Layers!Shows
<1>2. CASE Layers!Hide(e) /\ ~Layers!HidesTarget(e)
  <2>1. s6' = Layers!Unlink(s6, Layers!Hidden(e)) /\ Anchor \notin Layers!Hidden(e)
    BY <1>2 DEF Layers!Hide, Layers!HideWorld, Layers!HidesTarget
  <2>2. DOMAIN s6' = DOMAIN s6 \ Layers!Hidden(e)
        /\ \A p \in DOMAIN s6' : s6'[p].kind = s6[p].kind /\ s6'[p].content = s6[p].content
    <3> DEFINE g == Layers!Unlink(s6, Layers!Hidden(e))
    <3>1. /\ DOMAIN g = DOMAIN s6 \ Layers!Hidden(e)
          /\ \A p \in DOMAIN g : g[p].kind = s6[p].kind /\ g[p].content = s6[p].content /\ g[p].mode = s6[p].mode
                                 /\ g[p].peers = s6[p].peers \ Layers!Hidden(e)
          /\ Layers!SoundDisk(g)
      BY <1>1, LayersUnlink
    <3> HIDE DEF g
    <3>2. s6' = g
      BY <2>1 DEF g
    <3> QED BY <3>1, <3>2
  <2> QED BY <1>1, <2>1, <2>2 DEF Layers!Shows
<1>3. CASE ~Layers!Hides(e) /\ Layers!Unpack(e) /\ e.path # Anchor /\ (e.path \in Layers!Parents(Anchor) => e.kind = "directory")
  <2>1. Layers!UnpackWorld(e) = "ok"
    BY <1>3 DEF Layers!Unpack
  <2>2. Layers!Under(Anchor, e.path) => e.kind = "directory"
    BY <1>3, LayersEntryFacts DEF Layers!Parents
  <2>3. Anchor \in DOMAIN s6' /\ s6'[Anchor].kind = s6[Anchor].kind /\ s6'[Anchor].content = s6[Anchor].content
    BY <1>1, <1>3, <2>1, <2>2, LayersUnpack
  <2> QED BY <1>1, <2>3 DEF Layers!Shows
<1> QED BY <1>2, <1>3

\* The entry that sets the anchor.
LEMMA LayersAnchorSet ==
  ASSUME NEW e \in Layers!Entries, Layers!TypesOK, s7' = "ok", Layers!Sets(e), e.kind = "regular", e.content = "sentinel", Layers!Unpack(e)
  PROVE  Layers!Shows'
<1>1. ~Layers!Hides(e) /\ e.path = Anchor /\ Layers!SoundDisk(s6) /\ Layers!UnpackWorld(e) = "ok"
  BY DEF Layers!Sets, Layers!TypesOK, Layers!Unpack
<1>2. e.path \in DOMAIN s6' /\ s6'[e.path].kind = Layers!OnDisk(e.kind) /\ s6'[e.path].content = e.content
  BY <1>1, LayersUnpack
<1> QED BY <1>1, <1>2 DEF Layers!Shows, Layers!OnDisk

\* The entry that is laid down next keeps the anchor right.
LEMMA LayersAnchorMerge ==
  ASSUME Layers!TypesOK, Layers!AnchorOK, Layers!MergeEntry
  PROVE  Layers!AnchorOK'
<1> DEFINE e == s2[s10 + 1]
           n == Len(s2)
<1>1. /\ s9 # "read" /\ s9' = s9 /\ s10 < n /\ s10' = s10 + 1 /\ s2' = s2 /\ s3' = s3
      /\ IF Layers!Hides(e) # (s9 = "hide") THEN s6' = s6 /\ s7' = s7
         ELSE IF s9 = "hide" THEN Layers!Hide(e) ELSE Layers!Unpack(e)
  BY DEF Layers!MergeEntry
<1>2. s2 \in Seq(Layers!Entries) /\ n \in Nat /\ DOMAIN s2 = 1 .. n /\ s10 \in 0 .. n /\ s9 \in {"hide", "add"}
  BY <1>1 DEF Layers!TypesOK
<1>3. e \in Layers!Entries /\ s10 + 1 \in 1 .. n
  BY <1>1, <1>2
<1>4. Layers!ToCome = (IF s9 = "add" THEN (s10 + 1) .. n ELSE 1 .. n)
      /\ Layers!ToCome' = (IF s9 = "add" THEN (s10 + 2) .. n ELSE 1 .. n)
  BY <1>1, <1>2 DEF Layers!ToCome
<1>5. Layers!Hides(e) \in BOOLEAN
  BY DEF Layers!Hides
<1> HIDE DEF e
<1>6. s7' = "ok" => s7 = "ok"
  BY <1>1 DEF Layers!Hide, Layers!HideWorld, Layers!Unpack, Layers!UnpackWorld
<1>7. SUFFICES ASSUME s3 = "sentinel", s7' = "ok"
               PROVE  \/ \E i \in Layers!ToCome' : /\ Layers!Sets(s2[i]) /\ s2[i].content = "sentinel"
                                                  /\ \A j \in Layers!ToCome' : Layers!Sets(s2[j]) => j <= i
                      \/ /\ Layers!Shows' /\ \A i \in Layers!ToCome' : ~Layers!Sets(s2[i])
                         /\ s9 # "add" => \A i \in DOMAIN s2 : Layers!Hides(s2[i]) => ~Layers!HidesTarget(s2[i])
  BY <1>1 DEF Layers!AnchorOK
<1>8. ~Layers!Hides(e) => /\ e.path \in Layers!Parents(Anchor) => e.kind = "directory"
                          /\ e.path = Anchor => e.kind = "regular"
  BY <1>2, <1>3, <1>7 DEF Layers!AnchorOK, e
<1>9. CASE \E i \in Layers!ToCome : /\ Layers!Sets(s2[i]) /\ s2[i].content = "sentinel"
                                    /\ \A j \in Layers!ToCome : Layers!Sets(s2[j]) => j <= i
  <2>1. PICK i \in Layers!ToCome : /\ Layers!Sets(s2[i]) /\ s2[i].content = "sentinel"
                                   /\ \A j \in Layers!ToCome : Layers!Sets(s2[j]) => j <= i
    BY <1>9
  <2>2. CASE i \in Layers!ToCome'
    BY <1>2, <1>4, <2>1, <2>2
  <2>3. CASE i \notin Layers!ToCome'
    <3>1. s9 = "add" /\ i = s10 + 1 /\ s2[i] = e
      BY <1>2, <1>4, <2>1, <2>3 DEF e
    <3>2. Layers!Sets(e) /\ ~Layers!Hides(e) /\ e.kind = "regular" /\ e.content = "sentinel" /\ Layers!Unpack(e)
      BY <1>1, <1>5, <1>8, <2>1, <3>1 DEF Layers!Sets
    <3>3. Layers!Shows'
      BY <1>3, <1>7, <3>2, LayersAnchorSet
    <3>4. \A j \in Layers!ToCome' : ~Layers!Sets(s2[j])
      BY <1>2, <1>4, <2>1, <3>1
    <3> QED BY <3>1, <3>3, <3>4
  <2> QED BY <2>2, <2>3
<1>10. CASE /\ Layers!Shows /\ \A i \in Layers!ToCome : ~Layers!Sets(s2[i])
            /\ s9 # "add" => \A i \in DOMAIN s2 : Layers!Hides(s2[i]) => ~Layers!HidesTarget(s2[i])
  <2>1. \A i \in Layers!ToCome' : ~Layers!Sets(s2[i])
    BY <1>2, <1>4, <1>10
  <2>2. Layers!Shows'
    <3>1. CASE s6' = s6
      BY <1>10, <3>1 DEF Layers!Shows
    <3>2. CASE Layers!Hides(e) /\ s9 = "hide"
      <4>1. Layers!Hide(e) /\ ~Layers!HidesTarget(e)
        BY <1>1, <1>2, <1>3, <1>10, <3>2 DEF e
      <4> QED BY <1>3, <1>7, <1>10, <4>1, LayersAnchorStays
    <3>3. CASE ~Layers!Hides(e) /\ s9 = "add"
      <4>1. Layers!Unpack(e)
        BY <1>1, <1>5, <3>3
      <4>2. ~Layers!Sets(e)
        BY <1>2, <1>3, <1>4, <1>10, <3>3 DEF e
      <4>3. e.path # Anchor
        BY <3>3, <4>2 DEF Layers!Sets
      <4> QED BY <1>3, <1>7, <1>8, <1>10, <3>3, <4>1, <4>3, LayersAnchorStays
    <3> QED BY <1>1, <1>2, <1>5, <3>1, <3>2, <3>3
  <2> QED BY <1>10, <2>1, <2>2
<1> QED BY <1>1, <1>6, <1>7, <1>9, <1>10 DEF Layers!AnchorOK

\* The next entry is laid down.
LEMMA LayersMergeKeeps ==
  ASSUME Layers!Inv, Layers!MergeEntry
  PROVE  Layers!Inv'
<1> DEFINE e == s2[s10 + 1]
           n == Len(s2)
<1>1. /\ s9 # "read" /\ s9' = s9 /\ s10 < n /\ s10' = s10 + 1 /\ s11' = s11 /\ s1' = s1 /\ s2' = s2 /\ s3' = s3 /\ s8' = s8
      /\ IF Layers!Hides(e) # (s9 = "hide") THEN s4' = s4 /\ s5' = s5 /\ s6' = s6 /\ s7' = s7
         ELSE IF s9 = "hide" THEN Layers!HideStep(e) /\ Layers!Hide(e) ELSE Layers!AddStep(e) /\ Layers!Unpack(e)
  BY DEF Layers!MergeEntry
<1>2. Layers!TypesOK /\ Layers!TreeOK /\ Layers!MarksOK /\ Layers!AnchorOK
  BY DEF Layers!Inv
<1>3. s2 \in Seq(Layers!Entries) /\ n \in Nat /\ DOMAIN s2 = 1 .. n /\ s10 \in 0 .. n /\ s9 \in {"hide", "add"}
  BY <1>1, <1>2 DEF Layers!TypesOK
<1>4. e \in Layers!Entries /\ s10 + 1 \in DOMAIN s2
  BY <1>1, <1>3
<1>5. Layers!Hides(e) \in BOOLEAN
  BY DEF Layers!Hides
<1>6. e.kind = "hardlink" => {e.path, e.target} \subseteq s11
  BY <1>1, <1>2, <1>4 DEF Layers!MarksOK
<1>7. Layers!AnchorOK'
  BY <1>2, LayersAnchorMerge
<1> HIDE DEF e
<1>8. /\ s1' \in Nat /\ s8' \in Nat /\ s2' \in Seq(Layers!Entries) /\ s3' \in Layers!Contents \cup {"none", "refused"}
      /\ s9' \in {"read", "hide", "add"} /\ s10' \in 0 .. Len(s2')
      /\ IF s9' = "read" THEN s10' = 0 /\ s11' = {} ELSE s2' # <<>>
  <2>1. s1 \in Nat /\ s8 \in Nat /\ s3 \in Layers!Contents \cup {"none", "refused"} /\ (s9 # "read" => s2 # <<>>)
    BY <1>2 DEF Layers!TypesOK
  <2> QED BY <1>1, <1>3, <2>1
<1>9. Layers!SoundDisk(s6) /\ s7 \in {"ok", "redirected", "fails"} /\ s4 \in [DOMAIN s4 -> Layers!Records] /\ DOMAIN s4 \subseteq ImagePaths /\ s5 \in BOOLEAN
  BY <1>2 DEF Layers!TypesOK
<1>10. CASE s4' = s4 /\ s5' = s5 /\ s6' = s6 /\ s7' = s7
  <2>1. Layers!TypesOK'
    BY <1>8, <1>9, <1>10 DEF Layers!TypesOK
  <2>2. Layers!TreeOK'
    BY <1>1, <1>2, <1>10 DEF Layers!TreeOK, Layers!Alone
  <2>3. Layers!MarksOK'
    BY <1>1, <1>2, <1>10 DEF Layers!MarksOK
  <2> QED BY <1>7, <2>1, <2>2, <2>3 DEF Layers!Inv
<1>11. CASE Layers!HideStep(e) /\ Layers!Hide(e)
  <2>1. s4' \in [DOMAIN s4' -> Layers!Records] /\ DOMAIN s4' \subseteq ImagePaths /\ s5' \in BOOLEAN
        /\ DOMAIN s4' = DOMAIN s4 \ Layers!Hidden(e) /\ \A p \in DOMAIN s4' : s4'[p] = s4[p]
    BY <1>2, <1>4, <1>11, LayersTreeTypes
  <2>2. Layers!SoundDisk(s6')
    <3> DEFINE g == Layers!Unlink(s6, Layers!Hidden(e))
    <3>1. /\ DOMAIN g = DOMAIN s6 \ Layers!Hidden(e)
          /\ \A p \in DOMAIN g : g[p].kind = s6[p].kind /\ g[p].content = s6[p].content /\ g[p].mode = s6[p].mode
                                 /\ g[p].peers = s6[p].peers \ Layers!Hidden(e)
          /\ Layers!SoundDisk(g)
      BY <1>9, LayersUnlink
    <3> HIDE DEF g
    <3>2. s6' = g \/ s6' = s6
      BY <1>11 DEF g, Layers!Hide
    <3> QED BY <1>9, <3>1, <3>2
  <2>3. s7' \in {"ok", "redirected", "fails"}
    BY <1>9, <1>11 DEF Layers!Hide, Layers!HideWorld
  <2>4. Layers!TypesOK'
    BY <1>8, <2>1, <2>2, <2>3 DEF Layers!TypesOK
  <2>5. Layers!TreeOK'
    BY <1>1, <1>2, <1>4, <1>11, LayersHideKeeps
  <2>6. Layers!MarksOK'
    BY <1>1, <1>2, <2>1 DEF Layers!MarksOK
  <2> QED BY <1>7, <2>4, <2>5, <2>6 DEF Layers!Inv
<1>12. CASE ~Layers!Hides(e) /\ Layers!AddStep(e) /\ Layers!Unpack(e)
  <2>1. /\ s4' \in [DOMAIN s4' -> Layers!Records] /\ DOMAIN s4' \subseteq ImagePaths /\ s5' \in BOOLEAN
        /\ \A p \in ImagePaths : p # e.path =>
              (p \in DOMAIN s4' <=> p \in DOMAIN s4 /\ (Layers!Under(p, e.path) => e.kind = "directory"))
        /\ \A p \in DOMAIN s4' : p # e.path => s4'[p] = s4[p]
        /\ e.path \in DOMAIN s4'
        /\ s4'[e.path] = [kind |-> e.kind, content |-> e.content, mode |-> e.mode, target |-> e.target, ambiguous |-> FALSE]
    BY <1>2, <1>4, <1>12, LayersTreeTypes
  <2>2. Layers!SoundDisk(s6')
    <3>1. CASE Layers!UnpackWorld(e) = "ok"
      BY <1>4, <1>9, <1>12, <3>1, LayersUnpack
    <3>2. CASE Layers!UnpackWorld(e) # "ok"
      <4>1. s6' = s6
        BY <1>12, <3>2 DEF Layers!Unpack
      <4> QED BY <1>9, <4>1
    <3> QED BY <3>1, <3>2
  <2>3. s7' \in {"ok", "redirected", "fails"}
    BY <1>9, <1>12 DEF Layers!Unpack, Layers!UnpackWorld
  <2>4. Layers!TypesOK'
    BY <1>8, <2>1, <2>2, <2>3 DEF Layers!TypesOK
  <2>5. Layers!TreeOK'
    BY <1>1, <1>2, <1>4, <1>6, <1>12, LayersAddKeeps
  <2>6. \A p \in DOMAIN s4' : s4'[p].ambiguous => p \in s11
    <3>1. \A p \in DOMAIN s4 : s4[p].ambiguous => p \in s11
      BY <1>1, <1>2 DEF Layers!MarksOK
    <3>2. ~s4'[e.path].ambiguous
      BY <2>1
    <3> QED BY <2>1, <3>1, <3>2
  <2>7. Layers!MarksOK'
    BY <1>1, <1>2, <2>6 DEF Layers!MarksOK
  <2> QED BY <1>7, <2>4, <2>5, <2>7 DEF Layers!Inv
<1> QED BY <1>1, <1>3, <1>5, <1>10, <1>11, <1>12

\* The steps that lay nothing down.
LEMMA LayersOthersKeep ==
  ASSUME Layers!Inv,
         Layers!EndLayer \/ Layers!MergeAdditions \/ Layers!MergeEnds \/ \E e \in Layers!Entries : Layers!ReadEntry(e)
  PROVE  Layers!Inv'
<1> DEFINE n == Len(s2)
<1>1. Layers!TypesOK /\ Layers!TreeOK /\ Layers!MarksOK /\ Layers!AnchorOK
  BY DEF Layers!Inv
<1>2. /\ s1 \in Nat /\ s8 \in Nat /\ s2 \in Seq(Layers!Entries) /\ s3 \in Layers!Contents \cup {"none", "refused"}
      /\ s4 \in [DOMAIN s4 -> Layers!Records] /\ DOMAIN s4 \subseteq ImagePaths /\ s5 \in BOOLEAN
      /\ Layers!SoundDisk(s6) /\ s7 \in {"ok", "redirected", "fails"}
      /\ s9 \in {"read", "hide", "add"} /\ s10 \in 0 .. n /\ (IF s9 = "read" THEN s10 = 0 /\ s11 = {} ELSE s2 # <<>>)
      /\ n \in Nat /\ DOMAIN s2 = 1 .. n
  BY <1>1 DEF Layers!TypesOK
<1>3. ASSUME NEW e \in Layers!Entries, Layers!ReadEntry(e) PROVE Layers!Inv'
  <2>1. /\ s9 = "read" /\ s9' = s9 /\ s10' = s10 /\ s11' = s11 /\ s1' = s1 /\ s8' = s8 /\ s4' = s4 /\ s6' = s6 /\ s7' = s7
        /\ s2' = Append(s2, e) /\ s3' = Layers!SentinelStep(s3, e) /\ s5' = (s5 /\ ~Layers!Duplicate(e))
    BY <1>3 DEF Layers!ReadEntry
  <2>2. s2' \in Seq(Layers!Entries) /\ Len(s2') = n + 1
    BY <1>2, <2>1
  <2>3. s3' \in Layers!Contents \cup {"none", "refused"}
    BY <1>2, <2>1, LayersEntryFacts DEF Layers!SentinelStep
  <2>4. Layers!TypesOK'
    BY <1>2, <2>1, <2>2, <2>3 DEF Layers!TypesOK
  <2>5. Layers!TreeOK'
    BY <1>1, <2>1 DEF Layers!TreeOK, Layers!Alone
  <2>6. Layers!MarksOK'
    BY <2>1 DEF Layers!MarksOK
  <2>7. Layers!AnchorOK'
    BY <1>1, <1>3, LayersAnchorRead
  <2> QED BY <2>4, <2>5, <2>6, <2>7 DEF Layers!Inv
<1>4. CASE Layers!EndLayer
  <2>1. /\ s9 = "read" /\ s9' = "hide" /\ s10' = s10 /\ s11' = Layers!Linked(s4, s2) /\ s1' = s1 /\ s8' = s8 /\ s4' = s4 /\ s5' = s5
        /\ s6' = s6 /\ s7' = s7 /\ s2 # <<>> /\ s2' = s2 /\ s3' = s3
    BY <1>4 DEF Layers!EndLayer
  <2>2. Layers!TypesOK'
    BY <1>2, <2>1 DEF Layers!TypesOK
  <2>3. Layers!TreeOK'
    <3>1. s11 = {}
      BY <1>2, <2>1
    <3>2. \A p \in DOMAIN s4 : Layers!Alone(p) => Layers!Alone(p)'
      BY <2>1, <3>1 DEF Layers!Alone
    <3> QED BY <1>1, <2>1, <3>2 DEF Layers!TreeOK
  <2>4. Layers!MarksOK'
    <3>1. \A p \in DOMAIN s4 : s4[p].ambiguous => p \in Layers!Linked(s4, s2)
      BY DEF Layers!Linked
    <3>2. \A i \in DOMAIN s2 : s2[i].kind = "hardlink" => {s2[i].path, s2[i].target} \subseteq Layers!Linked(s4, s2)
      <4>1. \A i \in DOMAIN s2 : Layers!Ends(s2[i]) \subseteq Layers!LinkedHere(s4, s2)
        BY DEF Layers!LinkedHere
      <4>2. Layers!LinkedHere(s4, s2) \subseteq Layers!Linked(s4, s2)
        BY DEF Layers!Linked
      <4> QED BY <4>1, <4>2 DEF Layers!Ends
    <3> QED BY <2>1, <3>1, <3>2 DEF Layers!MarksOK
  <2>5. Layers!AnchorOK'
    <3>1. Layers!ToCome' = Layers!ToCome /\ Layers!Shows' = Layers!Shows
      BY <2>1 DEF Layers!ToCome, Layers!Shows
    <3> QED BY <1>1, <2>1, <3>1 DEF Layers!AnchorOK
  <2> QED BY <2>2, <2>3, <2>4, <2>5 DEF Layers!Inv
<1>5. CASE Layers!MergeAdditions
  <2>1. /\ s9 = "hide" /\ s9' = "add" /\ s10' = 0 /\ s11' = s11 /\ s1' = s1 /\ s8' = s8 /\ s4' = s4 /\ s5' = s5
        /\ s6' = s6 /\ s7' = s7 /\ s2' = s2 /\ s3' = s3
    BY <1>5 DEF Layers!MergeAdditions
  <2>2. Layers!TypesOK'
    BY <1>2, <2>1 DEF Layers!TypesOK
  <2>3. Layers!TreeOK'
    BY <1>1, <2>1 DEF Layers!TreeOK, Layers!Alone
  <2>4. Layers!MarksOK'
    BY <1>1, <2>1 DEF Layers!MarksOK
  <2>5. Layers!AnchorOK'
    <3>1. Layers!ToCome' = Layers!ToCome /\ Layers!Shows' = Layers!Shows
      BY <1>2, <2>1 DEF Layers!ToCome, Layers!Shows
    <3> QED BY <1>1, <2>1, <3>1 DEF Layers!AnchorOK
  <2> QED BY <2>2, <2>3, <2>4, <2>5 DEF Layers!Inv
<1>6. CASE Layers!MergeEnds
  <2>1. /\ s9 = "add" /\ s10 = n /\ s9' = "read" /\ s10' = 0 /\ s11' = {} /\ s1' = s1 + 1 /\ s8' = s8 + n /\ s5' = s5
        /\ s4' = [p \in DOMAIN s4 |-> [s4[p] EXCEPT !.ambiguous = p \in s11]]
        /\ s6' = s6 /\ s7' = s7 /\ s2' = <<>> /\ s3' = s3
    BY <1>6 DEF Layers!MergeEnds, Layers!Total
  <2>2. DOMAIN s4' = DOMAIN s4
        /\ \A p \in DOMAIN s4 : /\ s4'[p] \in Layers!Records /\ s4'[p].kind = s4[p].kind /\ s4'[p].content = s4[p].content
                                /\ s4'[p].mode = s4[p].mode /\ (s4'[p].ambiguous <=> p \in s11)
    <3>1. ASSUME NEW p \in DOMAIN s4
          PROVE  /\ s4'[p] \in Layers!Records /\ s4'[p].kind = s4[p].kind /\ s4'[p].content = s4[p].content
                 /\ s4'[p].mode = s4[p].mode /\ (s4'[p].ambiguous <=> p \in s11)
      <4>1. s4[p] \in Layers!Records /\ s4'[p] = [s4[p] EXCEPT !.ambiguous = p \in s11] /\ (p \in s11) \in BOOLEAN
        BY <1>2, <2>1
      <4>2. PICK a \in BOOLEAN : a = (p \in s11)
        BY <4>1
      <4>3. s4'[p] = [s4[p] EXCEPT !.ambiguous = a]
        BY <4>1, <4>2
      <4> QED BY <4>1, <4>2, <4>3 DEF Layers!Records
    <3> QED BY <2>1, <3>1
  <2>3. s4' \in [DOMAIN s4' -> Layers!Records]
    BY <2>1, <2>2
  <2>4. Layers!TypesOK'
    <3>1. s2' \in Seq(Layers!Entries) /\ Len(s2') = 0
      BY <2>1
    <3>2. s1' \in Nat /\ s8' \in Nat
      BY <1>2, <2>1
    <3> QED BY <1>2, <2>1, <2>2, <2>3, <3>1, <3>2 DEF Layers!TypesOK
  <2>5. Layers!TreeOK'
    <3>1. ASSUME NEW p \in DOMAIN s4, Layers!Alone(p) PROVE Layers!Alone(p)'
      <4>1. s4[p].ambiguous => p \in s11
        BY <1>1, <2>1 DEF Layers!MarksOK
      <4> QED BY <2>1, <2>2, <3>1, <4>1 DEF Layers!Alone
    <3> QED BY <1>1, <2>1, <2>2, <3>1 DEF Layers!TreeOK
  <2>6. Layers!MarksOK'
    BY <2>1 DEF Layers!MarksOK
  <2>7. Layers!AnchorOK'
    <3>1. Layers!ToCome = {}
      BY <1>2, <2>1 DEF Layers!ToCome
    <3>2. DOMAIN s2' = {} /\ Layers!Shows' = Layers!Shows
      BY <2>1 DEF Layers!Shows
    <3>3. Layers!ToCome' = {}
      BY <3>2 DEF Layers!ToCome
    <3> QED BY <1>1, <2>1, <3>1, <3>2, <3>3 DEF Layers!AnchorOK
  <2> QED BY <2>4, <2>5, <2>6, <2>7 DEF Layers!Inv
<1> QED BY <1>3, <1>4, <1>5, <1>6

\* Nothing is unpacked at first.
LEMMA LayersInit ==
  ASSUME Layers!Init
  PROVE  Layers!Inv
<1>1. /\ s1 = 0 /\ s2 = <<>> /\ s3 = "none" /\ s4 = [p \in {} |-> 0] /\ s5 = TRUE /\ s6 = [p \in {} |-> 0] /\ s7 = "ok" /\ s8 = 0
      /\ s9 = "read" /\ s10 = 0 /\ s11 = {}
  BY DEF Layers!Init
<1>2. s2 \in Seq(Layers!Entries) /\ Len(s2) = 0 /\ DOMAIN s2 = {} /\ DOMAIN s4 = {} /\ DOMAIN s6 = {}
  BY <1>1
<1>3. s4 \in [DOMAIN s4 -> Layers!Records] /\ s6 \in [DOMAIN s6 -> Layers!Inodes]
  BY <1>1, <1>2
<1>4. Layers!SoundDisk(s6)
  BY <1>2, <1>3 DEF Layers!SoundDisk
<1>5. Layers!TypesOK
  BY <1>1, <1>2, <1>3, <1>4 DEF Layers!TypesOK
<1> QED BY <1>1, <1>2, <1>5 DEF Layers!Inv, Layers!TreeOK, Layers!MarksOK, Layers!AnchorOK

\* effective_files and sentinel_layer: while the entries of a layer are read and
\* laid down one by one, the tree shows what the unpacked disk has, and the
\* anchor's state what it is going to have.
THEOREM LayersInvHolds == Spec => [](part = "layers" => Layers!Inv)
<1>1. Init => (part = "layers" => Layers!Inv)
  BY LayersInit DEF Init
<1>2. (part = "layers" => Layers!Inv) /\ [Next]_vars => (part = "layers" => Layers!Inv)'
  <2> SUFFICES ASSUME part = "layers" => Layers!Inv, [Next]_vars
               PROVE  (part = "layers" => Layers!Inv)'
    OBVIOUS
  <2>1. CASE LayersStep
    <3>1. part = "layers" /\ Layers!Inv /\ Layers!Next
      BY <2>1 DEF LayersStep
    <3> QED BY <3>1, LayersMergeKeeps, LayersOthersKeep DEF Layers!Next
  <2>2. CASE ~LayersStep /\ Next
    BY <2>2 DEF Next, ModeStep, NightlyStep, BuildStep, ArchiveStep, LabelsStep
  <2>3. CASE UNCHANGED vars
    <3>1. /\ part' = part /\ s1' = s1 /\ s2' = s2 /\ s3' = s3 /\ s4' = s4 /\ s5' = s5 /\ s6' = s6 /\ s7' = s7 /\ s8' = s8
          /\ s9' = s9 /\ s10' = s10 /\ s11' = s11
      BY <2>3 DEF vars
    <3>2. Layers!TypesOK => Layers!TypesOK'
      BY <3>1 DEF Layers!TypesOK
    <3>3. Layers!TreeOK => Layers!TreeOK'
      BY <3>1 DEF Layers!TreeOK, Layers!Alone
    <3>4. Layers!MarksOK => Layers!MarksOK'
      BY <3>1 DEF Layers!MarksOK
    <3>5. Layers!AnchorOK => Layers!AnchorOK'
      <4>1. Layers!ToCome' = Layers!ToCome /\ Layers!Shows' = Layers!Shows
        BY <3>1 DEF Layers!ToCome, Layers!Shows
      <4> QED BY <3>1, <4>1 DEF Layers!AnchorOK
    <3> QED BY <3>1, <3>2, <3>3, <3>4, <3>5 DEF Layers!Inv
  <2> QED BY <2>1, <2>2, <2>3
<1> QED BY <1>1, <1>2, PTL DEF Spec

\* runner_image_oci: a file that the layer reader accepts as evidence is the file
\* that the unpacked image has under that name, and an anchor that counts as
\* unconfigured is the sentinel on the disk; for any paths and any number of
\* layers and entries.
THEOREM LayersAreShown == Spec => []LayersShown
<1>1. (part = "layers" => Layers!Inv) => LayersShown
  <2> SUFFICES ASSUME Layers!Inv PROVE Layers!EvidenceIsShown /\ Layers!SentinelIsShown
    BY DEF LayersShown
  <2>1. Layers!TypesOK /\ Layers!TreeOK /\ Layers!AnchorOK
    BY DEF Layers!Inv
  <2>2. ASSUME s2 = <<>> PROVE s9 = "read" /\ s11 = {} /\ DOMAIN s2 = {}
    BY <2>1, <2>2 DEF Layers!TypesOK
  <2>3. Layers!EvidenceIsShown
    <3> SUFFICES ASSUME s2 = <<>>, s5, s7 # "fails"
                 PROVE  /\ s7 = "ok"
                        /\ \A p \in ImagePaths : Layers!Regular(p) =>
                             p \in DOMAIN s6 /\ s6[p].kind = "regular" /\ s6[p].content = s4[p].content /\ s6[p].mode = s4[p].mode
                        /\ Layers!PackageFiles => \A p \in DOMAIN Inventory : p \in DOMAIN s6 /\ s6[p].content = Inventory[p]
      BY DEF Layers!EvidenceIsShown
    <3>1. s7 = "ok"
      BY <2>1 DEF Layers!TypesOK, Layers!TreeOK
    <3>2. ASSUME NEW p, Layers!Regular(p)
          PROVE  p \in DOMAIN s6 /\ s6[p].kind = "regular" /\ s6[p].content = s4[p].content /\ s6[p].mode = s4[p].mode
      <4>1. p \in DOMAIN s4 /\ s4[p].kind = "regular" /\ ~s4[p].ambiguous
        BY <3>2 DEF Layers!Regular
      <4>2. p \in DOMAIN s6 /\ s6[p].kind = Layers!OnDisk(s4[p].kind) /\ Layers!Alone(p)
        BY <2>1, <3>1, <4>1 DEF Layers!TreeOK
      <4> QED BY <2>2, <4>1, <4>2 DEF Layers!OnDisk, Layers!Alone
    <3> QED BY <3>1, <3>2 DEF Layers!PackageFiles
  <2>4. Layers!SentinelIsShown
    <3>1. ASSUME s2 = <<>>, s3 = "sentinel", s7 = "ok" PROVE Layers!Shows
      BY <2>1, <2>2, <3>1 DEF Layers!AnchorOK, Layers!ToCome
    <3> QED BY <3>1 DEF Layers!SentinelIsShown, Layers!Shows
  <2> QED BY <2>3, <2>4
<1> QED BY <1>1, LayersInvHolds, PTL
=============================================================================
