--------------------------- MODULE TransfersProofs ---------------------------
(***************************************************************************)
(* Proofs about the bounded transfers and waits, for any number of         *)
(* operators and publications, any policy of images, any size of asset,    *)
(* queue or pipe, and any deadline.                                        *)
(*                                                                         *)
(* A behaviour of MCTransfers is one of a single component, so each theorem*)
(* is an invariant of that component, kept by each of its actions.  The    *)
(* slots hold, in order:                                                   *)
(*   wait      s1 call, s2 clones, s3 version, s4 floor, s5 now, s6 slow,  *)
(*             s7 pc, s8 loopFloor, s9 seen, s10 result                    *)
(*   registry  s1 release, s2 registry, s3 pc, s4 job, s5 at, s6 appeared, *)
(*             s7 replaced, s8 outside                                     *)
(*   pipeline  s1 pc, s2 failure, s3 input, s4 proof, s5 child, s6 stray,  *)
(*             s7 read, s8 out, s9 files, s10 pending, s11 kills           *)
(*   stream    s1 child, s2 emitted, s3 pipe, s4 open, s5 expired,         *)
(*             s6 reader, s7 held, s8 queue, s9 stopped, s10 main,         *)
(*             s11 ended, s12 written, s13 closed, s14 outcome             *)
(*   download  s1 todo, s2 file, s3 path, s4 size, s5 intact, s6 attempt,  *)
(*             s7 budget, s8 expired, s9 accepted, s10 pc, s11 cause       *)
(*   payload   s1 chunk, s2 sizes, s3 orig, s4 pc, s5 at, s6 seen,         *)
(*             s7 whole, s8 staged, s9 catalog, s10 pend, s11 final,       *)
(*             s12 returned, s13 verdict, s14 place, s15 stream,           *)
(*             s16 received, s17 taken, s18 hashes, s19 writes             *)
(***************************************************************************)
EXTENDS MCTransfers, Sequences, FiniteSets, FiniteSetTheorems, TLAPS

-----------------------------------------------------------------------------
(* Copies to the registries                                                *)

\* What the policy and the versions are.
LEMMA RegistryFacts ==
  /\ Len(Images) \in Nat /\ Len(Images) > 0 /\ Registry!Places = 1 .. Len(Images)
  /\ "latest" \notin Versions /\ Registry!None \notin Versions /\ "foreign" \notin Versions
  /\ Registry!None = "none"
<1>1. Images \in Seq({Images[k] : k \in DOMAIN Images}) /\ Images # <<>>
  BY RegistryAssumption DEF Registry!ImagesAssumption
<1>2. Len(Images) \in Nat /\ Len(Images) # 0
  BY <1>1
<1>3. "latest" \notin Versions /\ "none" \notin Versions /\ "foreign" \notin Versions
  BY RegistryAssumption DEF Registry!VersionsAssumption
<1> QED BY <1>2, <1>3 DEF Registry!Places, Registry!None

\* container_commands: the version tag of every image, then latest of every
\* image.
LEMMA CommandFacts ==
  ASSUME NEW j \in Registry!Jobs
  PROVE  LET todo == Registry!Commands(j) n == Len(Images) IN
         /\ Len(todo) \in Nat /\ Len(todo) >= n
         /\ \A m \in 1 .. n : todo[m] = <<m, j.version>>
         /\ \A m \in (n + 1) .. Len(todo) : m - n \in 1 .. n /\ todo[m] = <<m - n, "latest">>
<1> DEFINE n == Len(Images)
           first == [k \in Registry!Places |-> <<k, j.version>>]
           last == IF j.latest THEN [k \in Registry!Places |-> <<k, "latest">>] ELSE <<>>
           todo == first \o last
<1>1. n \in Nat /\ n > 0 /\ Registry!Places = 1 .. n
  BY RegistryFacts
<1>2. first \in Seq({<<k, j.version>> : k \in 1 .. n}) /\ Len(first) = n /\ \A m \in 1 .. n : first[m] = <<m, j.version>>
  BY <1>1
<1>3. last \in Seq({<<k, "latest">> : k \in 1 .. n}) /\ Len(last) \in {0, n} /\ \A m \in 1 .. Len(last) : last[m] = <<m, "latest">>
  <2>1. CASE j.latest
    <3>1. last = [k \in 1 .. n |-> <<k, "latest">>]
      BY <2>1, <1>1
    <3> QED BY <3>1, <1>1
  <2>2. CASE ~j.latest
    BY <2>2
  <2> QED BY <2>1, <2>2
<1> HIDE DEF first, last
<1>4. /\ Len(todo) = n + Len(last)
      /\ \A m \in 1 .. (n + Len(last)) : todo[m] = IF m <= n THEN first[m] ELSE last[m - n]
  <2> DEFINE S == {<<k, j.version>> : k \in 1 .. n} \cup {<<k, "latest">> : k \in 1 .. n}
  <2>1. first \in Seq(S) /\ last \in Seq(S)
    BY <1>2, <1>3
  <2> HIDE DEF S
  <2>2. /\ Len(first \o last) = Len(first) + Len(last)
        /\ \A m \in 1 .. (Len(first) + Len(last)) :
             (first \o last)[m] = IF m <= Len(first) THEN first[m] ELSE last[m - Len(first)]
    BY <2>1
  <2>3. Len(first) = n
    BY <1>2
  <2> QED BY <2>2, <2>3
<1>5. ASSUME NEW m \in 1 .. n
      PROVE  todo[m] = <<m, j.version>>
  <2>1. m \in 1 .. (n + Len(last)) /\ m <= n
    BY <1>1, <1>3
  <2> QED BY <2>1, <1>2, <1>4
<1>6. ASSUME NEW m \in (n + 1) .. Len(todo)
      PROVE  m - n \in 1 .. n /\ todo[m] = <<m - n, "latest">>
  <2>1. m \in 1 .. (n + Len(last)) /\ ~(m <= n) /\ m - n \in 1 .. Len(last) /\ m - n \in 1 .. n
    BY <1>1, <1>3, <1>4
  <2>2. todo[m] = last[m - n]
    BY <2>1, <1>4
  <2> QED BY <2>1, <2>2, <1>3
<1> QED BY <1>1, <1>3, <1>4, <1>5, <1>6 DEF Registry!Commands, first, last

\* Nobody has published and nothing is in a registry.
LEMMA RegistryInit ==
  ASSUME Registry!Init
  PROVE  Registry!Inv
<1>1. Registry!JobsOK
  BY DEF Registry!Init, Registry!JobsOK
<1>2. Registry!RegistryOK
  BY RegistryFacts DEF Registry!Init, Registry!RegistryOK, Registry!Tags
<1>3. Registry!FreeOK /\ Registry!CopiedOK
  BY DEF Registry!Init, Registry!FreeOK, Registry!CopiedOK
<1>4. Registry!LatestIsComplete /\ Registry!VersionsKept
  BY DEF Registry!Init, Registry!LatestIsComplete, Registry!VersionsKept, Registry!Tags
<1> QED BY <1>1, <1>2, <1>3, <1>4 DEF Registry!Inv

\* A step that copies nothing and takes its invocation to a position without
\* claims keeps the invariant.
LEMMA RegistryLeaves ==
  ASSUME Registry!Inv, NEW i \in Invocations,
         NEW where \in {"verify", "shown", "refused", "done", "failed"}, Registry!Goto(i, where),
         s4' = s4, s4[i] \in Registry!Jobs, s2' = s2, s6' = s6, s7' = s7
  PROVE  Registry!Inv'
<1>1. Registry!JobsOK'
  BY DEF Registry!Inv, Registry!JobsOK, Registry!Goto, Registry!Commands, Registry!Places
<1>2. Registry!RegistryOK' /\ Registry!LatestIsComplete' /\ Registry!VersionsKept'
  BY DEF Registry!Inv, Registry!RegistryOK, Registry!LatestIsComplete, Registry!VersionsKept, Registry!Places, Registry!Tags
<1>3. Registry!FreeOK' /\ Registry!CopiedOK'
  BY DEF Registry!Inv, Registry!JobsOK, Registry!FreeOK, Registry!CopiedOK, Registry!Goto, Registry!Unpublished, Registry!Places
<1> QED BY <1>1, <1>2, <1>3 DEF Registry!Inv

\* One publication begins.
LEMMA RegistryStartKeeps ==
  ASSUME Registry!Inv, NEW i \in Invocations, Registry!Start(i)
  PROVE  Registry!Inv'
<1>1. PICK j \in Registry!Jobs : s4' = [s4 EXCEPT ![i] = j]
  BY DEF Registry!Start
<1>2. Registry!JobsOK'
  BY <1>1 DEF Registry!Inv, Registry!JobsOK, Registry!Start, Registry!Goto, Registry!Commands, Registry!Places
<1>3. Registry!RegistryOK' /\ Registry!LatestIsComplete' /\ Registry!VersionsKept'
  BY DEF Registry!Start, Registry!Inv, Registry!RegistryOK, Registry!LatestIsComplete, Registry!VersionsKept, Registry!Places, Registry!Tags
<1>4. Registry!FreeOK' /\ Registry!CopiedOK'
  BY <1>1 DEF Registry!Start, Registry!Inv, Registry!JobsOK, Registry!FreeOK, Registry!CopiedOK, Registry!Goto, Registry!Unpublished, Registry!Places
<1> QED BY <1>2, <1>3, <1>4 DEF Registry!Inv

\* The assets and the mapping are compared with the evidence.
LEMMA RegistryVerifyKeeps ==
  ASSUME Registry!Inv, NEW i \in Invocations, Registry!Verify(i)
  PROVE  Registry!Inv'
<1>1. s4[i] \in Registry!Jobs /\ s4' = s4 /\ s2' = s2 /\ s6' = s6 /\ s7' = s7
  BY DEF Registry!Verify, Registry!Inv, Registry!JobsOK
<1>2. CASE Registry!Goto(i, "refused")
  BY <1>1, <1>2, RegistryLeaves
<1>3. CASE Registry!Goto(i, "look")
  <2>1. Registry!JobsOK'
    BY <1>1, <1>3, RegistryFacts DEF Registry!Inv, Registry!JobsOK, Registry!Goto, Registry!Commands, Registry!Places
  <2>2. Registry!RegistryOK' /\ Registry!LatestIsComplete' /\ Registry!VersionsKept'
    BY <1>1 DEF Registry!Inv, Registry!RegistryOK, Registry!LatestIsComplete, Registry!VersionsKept, Registry!Places, Registry!Tags
  <2>3. Registry!FreeOK' /\ Registry!CopiedOK'
    BY <1>1, <1>3 DEF Registry!Inv, Registry!JobsOK, Registry!FreeOK, Registry!CopiedOK, Registry!Goto, Registry!Unpublished, Registry!Places
  <2> QED BY <2>1, <2>2, <2>3 DEF Registry!Inv
<1> QED BY <1>2, <1>3 DEF Registry!Verify

\* One tag is looked for; after the last image the copies begin.
LEMMA RegistryLookKeeps ==
  ASSUME Registry!Inv, NEW i \in Invocations, Registry!Look(i)
  PROVE  Registry!Inv'
<1>1. /\ s4[i] \in Registry!Jobs /\ s4' = s4 /\ s2' = s2 /\ s6' = s6 /\ s7' = s7 /\ s3[i] = "look"
      /\ s5[i] \in Nat /\ s5[i] > 0 /\ s5[i] <= Len(Images)
  BY DEF Registry!Look, Registry!Inv, Registry!JobsOK
<1>2. Registry!RegistryOK' /\ Registry!LatestIsComplete' /\ Registry!VersionsKept'
  BY <1>1 DEF Registry!Inv, Registry!RegistryOK, Registry!LatestIsComplete, Registry!VersionsKept, Registry!Places, Registry!Tags
<1>3. CASE Registry!Goto(i, "refused") \/ Registry!Goto(i, "shown")
  BY <1>1, <1>3, RegistryLeaves
<1>4. CASE /\ Registry!Unpublished(i, s5[i]) /\ s5[i] < Len(Images)
           /\ s5' = [s5 EXCEPT ![i] = @ + 1] /\ s3' = s3
  <2>1. Registry!JobsOK'
    BY <1>1, <1>4, RegistryFacts DEF Registry!Inv, Registry!JobsOK, Registry!Commands, Registry!Places
  <2>2. Registry!FreeOK' /\ Registry!CopiedOK'
    BY <1>1, <1>4, RegistryFacts DEF Registry!Inv, Registry!JobsOK, Registry!FreeOK, Registry!CopiedOK, Registry!Unpublished, Registry!Places
  <2> QED BY <1>2, <2>1, <2>2 DEF Registry!Inv
<1>5. CASE Registry!Unpublished(i, s5[i]) /\ ~(s5[i] < Len(Images)) /\ Registry!Goto(i, "copy")
  <2>1. \A k \in Registry!Places : Registry!Unpublished(i, k) \/ <<i, k>> \in s6
    <3>1. \A k \in Registry!Places : k = s5[i] \/ k < s5[i]
      BY <1>1, <1>5, RegistryFacts
    <3> QED BY <3>1, <1>1, <1>5 DEF Registry!Inv, Registry!FreeOK
  <2>2. Registry!JobsOK'
    <3>1. 1 <= Len(Registry!Commands(s4[i]))
      BY <1>1, CommandFacts, RegistryFacts
    <3> QED BY <3>1, <1>1, <1>5 DEF Registry!Inv, Registry!JobsOK, Registry!Goto, Registry!Commands, Registry!Places
  <2>3. Registry!FreeOK' /\ Registry!CopiedOK'
    BY <1>1, <1>5, <2>1, RegistryFacts DEF Registry!Inv, Registry!JobsOK, Registry!FreeOK, Registry!CopiedOK, Registry!Unpublished, Registry!Goto, Registry!Places
  <2> QED BY <1>2, <2>2, <2>3 DEF Registry!Inv
<1> QED BY <1>3, <1>4, <1>5 DEF Registry!Look

\* A publication is killed.
LEMMA RegistryKillKeeps ==
  ASSUME Registry!Inv, NEW i \in Invocations, Registry!Kill(i)
  PROVE  Registry!Inv'
<1>1. s4[i] \in Registry!Jobs /\ s4' = s4 /\ s2' = s2 /\ s6' = s6 /\ s7' = s7 /\ Registry!Goto(i, "failed")
  BY DEF Registry!Kill, Registry!Inv, Registry!JobsOK
<1> QED BY <1>1, RegistryLeaves

\* One copy, whether or not its publication goes on after it.
LEMMA RegistryPutKeeps ==
  ASSUME Registry!Inv, NEW i \in Invocations, s3[i] = "copy", s4' = s4,
         NEW k, NEW tag, Registry!Commands(s4[i])[s5[i]] = <<k, tag>>, Registry!Put(i, k, tag),
         \/ s5[i] < Len(Registry!Commands(s4[i])) /\ s5' = [s5 EXCEPT ![i] = @ + 1] /\ s3' = s3
         \/ Registry!Goto(i, "done") \/ Registry!Goto(i, "failed")
  PROVE  Registry!Inv'
<1> DEFINE n == Len(Images)  v == s4[i].version
<1>1. /\ n \in Nat /\ n > 0 /\ Registry!Places = 1 .. n /\ s4[i] \in Registry!Jobs
      /\ v \in Versions /\ v # "latest" /\ v # Registry!None /\ v \in Registry!Tags /\ "latest" \in Registry!Tags
      /\ s5[i] \in Nat /\ s5[i] > 0 /\ s5[i] <= Len(Registry!Commands(s4[i]))
  BY RegistryFacts DEF Registry!Inv, Registry!JobsOK, Registry!Jobs, Registry!Tags
<1>2. \/ s5[i] <= n /\ k = s5[i] /\ tag = v
      \/ s5[i] > n /\ k \in 1 .. n /\ tag = "latest"
  <2>1. CASE s5[i] <= n
    BY <2>1, <1>1, CommandFacts
  <2>2. CASE s5[i] > n
    <3>1. s5[i] \in (n + 1) .. Len(Registry!Commands(s4[i]))
      BY <2>2, <1>1, CommandFacts
    <3>2. s5[i] - n \in 1 .. n /\ Registry!Commands(s4[i])[s5[i]] = <<s5[i] - n, "latest">>
      BY <3>1, <1>1, CommandFacts
    <3> QED BY <2>2, <3>2
  <2> QED BY <2>1, <2>2, <1>1
<1>3. k \in Registry!Places /\ tag \in Registry!Tags
  BY <1>1, <1>2
<1>4. /\ s2' = [s2 EXCEPT ![k][tag] = v]
      /\ s2 \in [Registry!Places -> [Registry!Tags -> Versions \cup {Registry!None, "foreign"}]]
  BY DEF Registry!Put, Registry!Inv, Registry!RegistryOK
<1>5. /\ s2' \in [Registry!Places -> [Registry!Tags -> Versions \cup {Registry!None, "foreign"}]]
      /\ \A l \in Registry!Places, t \in Registry!Tags : s2'[l][t] = IF l = k /\ t = tag THEN v ELSE s2[l][t]
  BY <1>1, <1>3, <1>4
<1>6. /\ s6 \subseteq s6'
      /\ tag # "latest" => \A o \in Invocations : o # i /\ s3[o] \in {"look", "copy"} /\ s4[o].version = tag => <<o, k>> \in s6'
      /\ s7' = IF tag # "latest" /\ s2[k][tag] # Registry!None THEN s7 \cup {<<i, k>>} ELSE s7
  BY DEF Registry!Put
<1>7. Registry!RegistryOK'
  <2>1. \A l \in Registry!Places : s2'[l]["latest"] # "foreign"
    BY <1>1, <1>5, RegistryFacts DEF Registry!Inv, Registry!RegistryOK
  <2> QED BY <1>5, <2>1 DEF Registry!RegistryOK, Registry!Places, Registry!Tags
<1>8. Registry!JobsOK'
  <2>2. CASE s5[i] < Len(Registry!Commands(s4[i])) /\ s5' = [s5 EXCEPT ![i] = @ + 1] /\ s3' = s3
    <3>1. Len(Registry!Commands(s4[i])) \in Nat
      BY <1>1, CommandFacts
    <3>2. s5[i] + 1 <= Len(Registry!Commands(s4[i]))
      BY <2>2, <3>1, <1>1
    <3> QED BY <2>2, <3>2, <1>1 DEF Registry!Inv, Registry!JobsOK, Registry!Commands, Registry!Places
  <2>3. CASE Registry!Goto(i, "done") \/ Registry!Goto(i, "failed")
    <3>1. PICK where \in {"done", "failed"} : Registry!Goto(i, where)
      BY <2>3
    <3> QED BY <3>1, <1>1 DEF Registry!Inv, Registry!JobsOK, Registry!Goto, Registry!Commands, Registry!Places
  <2> QED BY <2>2, <2>3
<1>9. \A l \in Registry!Places, t \in Registry!Tags : s2[l][t] # Registry!None => s2'[l][t] # Registry!None
  BY <1>1, <1>5
<1>10. Registry!VersionsKept'
  <2>1. tag # "latest" /\ s2[k][tag] # Registry!None => <<i, k>> \in s6
    BY <1>1, <1>2, <1>3 DEF Registry!Inv, Registry!FreeOK, Registry!Unpublished
  <2> QED BY <1>6, <2>1 DEF Registry!Inv, Registry!VersionsKept
<1>11. Registry!LatestIsComplete'
  <2> SUFFICES ASSUME NEW m \in Registry!Places, NEW l \in Registry!Places, s2'[m]["latest"] # Registry!None
               PROVE  s2'[l][s2'[m]["latest"]] # Registry!None
    BY DEF Registry!LatestIsComplete, Registry!Places
  <2>1. CASE m = k /\ tag = "latest"
    <3>1. s5[i] > n /\ l < s5[i]
      BY <2>1, <1>1, <1>2
    <3>2. s2[l][v] # Registry!None
      BY <3>1 DEF Registry!Inv, Registry!CopiedOK, Registry!Unpublished
    <3>3. s2'[m]["latest"] = v
      BY <2>1, <1>1, <1>5
    <3> QED BY <3>2, <3>3, <1>1, <1>9
  <2>2. CASE ~(m = k /\ tag = "latest")
    <3>1. s2'[m]["latest"] = s2[m]["latest"]
      BY <2>2, <1>1, <1>5
    <3>2. s2[m]["latest"] \in Registry!Tags
      <4>1. s2[m]["latest"] \in Versions \cup {Registry!None, "foreign"} /\ s2[m]["latest"] # "foreign"
        BY <1>1, <1>4 DEF Registry!Inv, Registry!RegistryOK
      <4> QED BY <4>1, <3>1 DEF Registry!Tags
    <3>3. s2[l][s2[m]["latest"]] # Registry!None
      BY <3>1 DEF Registry!Inv, Registry!LatestIsComplete
    <3> QED BY <3>1, <3>2, <3>3, <1>9
  <2> QED BY <2>1, <2>2
<1>12. \A o \in Invocations : o # i => s3'[o] = s3[o] /\ s5'[o] = s5[o]
  BY DEF Registry!Inv, Registry!JobsOK, Registry!Goto
<1>13. s3'[i] = "copy" => s5'[i] = s5[i] + 1
  BY DEF Registry!Inv, Registry!JobsOK, Registry!Goto
<1>14. s3'[i] # "look"
  BY DEF Registry!Inv, Registry!JobsOK, Registry!Goto
<1>15. \A o \in Invocations : s3[o] # "idle" => s4[o].version \in Versions /\ s4[o].version \in Registry!Tags /\ s4[o].version # "latest"
  BY RegistryFacts DEF Registry!Inv, Registry!JobsOK, Registry!Jobs, Registry!Tags
<1>16. Registry!FreeOK'
  <2> SUFFICES ASSUME NEW o \in Invocations, NEW l \in Registry!Places,
                      \/ s3'[o] = "look" /\ l < s5'[o]
                      \/ s3'[o] = "copy" /\ l >= s5'[o]
               PROVE  s2'[l][s4[o].version] = Registry!None \/ <<o, l>> \in s6'
    BY DEF Registry!FreeOK, Registry!Unpublished, Registry!Places
  <2>1. CASE o = i
    <3>1. l >= s5[i] + 1
      BY <2>1, <1>13, <1>14
    <3>2. l # k /\ l >= s5[i] /\ s3[i] = "copy"
      BY <3>1, <1>1, <1>2
    <3>3. s2[l][v] = Registry!None \/ <<i, l>> \in s6
      BY <3>2 DEF Registry!Inv, Registry!FreeOK, Registry!Unpublished
    <3>4. s2'[l][v] = s2[l][v]
      BY <3>2, <1>1, <1>5
    <3> QED BY <2>1, <3>3, <3>4, <1>6
  <2>2. CASE o # i
    <3>1. s3'[o] = s3[o] /\ s5'[o] = s5[o]
      BY <2>2, <1>12
    <3>2. s2[l][s4[o].version] = Registry!None \/ <<o, l>> \in s6
      BY <3>1 DEF Registry!Inv, Registry!FreeOK, Registry!Unpublished
    <3>3. CASE l = k /\ tag = s4[o].version
      BY <3>1, <3>3, <2>2, <1>6, <1>15
    <3>4. CASE ~(l = k /\ tag = s4[o].version)
      <4>1. s4[o].version \in Registry!Tags
        BY <3>1, <1>15
      <4>2. s2'[l][s4[o].version] = s2[l][s4[o].version]
        BY <4>1, <3>4, <1>5
      <4> QED BY <4>2, <3>2, <1>6
    <3> QED BY <3>3, <3>4
  <2> QED BY <2>1, <2>2
<1>17. Registry!CopiedOK'
  <2> SUFFICES ASSUME NEW o \in Invocations, NEW l \in Registry!Places, s3'[o] = "copy", l < s5'[o]
               PROVE  s2'[l][s4[o].version] # Registry!None
    BY DEF Registry!CopiedOK, Registry!Unpublished, Registry!Places
  <2>1. CASE o # i \/ l < s5[i]
    <3>1. s3[o] = "copy" /\ l < s5[o]
      BY <2>1, <1>12
    <3>2. s2[l][s4[o].version] # Registry!None
      BY <3>1 DEF Registry!Inv, Registry!CopiedOK, Registry!Unpublished
    <3> QED BY <3>1, <3>2, <1>9, <1>15
  <2>2. CASE o = i /\ ~(l < s5[i])
    <3>1. l = s5[i] /\ l <= n
      BY <2>2, <1>1, <1>13
    <3>2. l = k /\ tag = v
      BY <3>1, <1>1, <1>2
    <3> QED BY <2>2, <3>2, <1>1, <1>5
  <2> QED BY <2>1, <2>2
<1> QED BY <1>7, <1>8, <1>10, <1>11, <1>16, <1>17 DEF Registry!Inv

\* One command of the publication: copied and reported, copied and failed, or
\* not copied.
LEMMA RegistryCopyKeeps ==
  ASSUME Registry!Inv, NEW i \in Invocations, Registry!Copy(i)
  PROVE  Registry!Inv'
<1> DEFINE todo == Registry!Commands(s4[i])
<1>1. s4[i] \in Registry!Jobs /\ s4' = s4 /\ s3[i] = "copy" /\ s5[i] \in 1 .. Len(todo) /\ Len(todo) \in Nat
  <2>1. s4[i] \in Registry!Jobs /\ s4' = s4 /\ s3[i] = "copy"
    BY DEF Registry!Copy, Registry!Inv, Registry!JobsOK
  <2>2. Len(todo) \in Nat
    BY <2>1, CommandFacts
  <2> QED BY <2>1, <2>2 DEF Registry!Inv, Registry!JobsOK
<1>2. CASE Registry!Goto(i, "failed") /\ s2' = s2 /\ s6' = s6 /\ s7' = s7
  BY <1>1, <1>2, RegistryLeaves
<1>3. CASE /\ Registry!Put(i, todo[s5[i]][1], todo[s5[i]][2])
           /\ \/ s5[i] < Len(todo) /\ s5' = [s5 EXCEPT ![i] = @ + 1] /\ s3' = s3
              \/ Registry!Goto(i, "done") \/ Registry!Goto(i, "failed")
  <2>1. todo[s5[i]] = <<todo[s5[i]][1], todo[s5[i]][2]>>
    <3>1. CASE s5[i] <= Len(Images)
      <4>1. todo[s5[i]] = <<s5[i], s4[i].version>>
        BY <3>1, <1>1, CommandFacts, RegistryFacts
      <4> QED BY <4>1
    <3>2. CASE s5[i] > Len(Images)
      <4>1. s5[i] \in (Len(Images) + 1) .. Len(todo)
        BY <3>2, <1>1, RegistryFacts
      <4>2. todo[s5[i]] = <<s5[i] - Len(Images), "latest">>
        BY <4>1, <1>1, CommandFacts
      <4> QED BY <4>2
    <3> QED BY <3>1, <3>2, <1>1, RegistryFacts
  <2>2. PICK k, tag : todo[s5[i]] = <<k, tag>> /\ k = todo[s5[i]][1] /\ tag = todo[s5[i]][2]
    BY <2>1
  <2>3. Registry!Put(i, k, tag)
    BY <2>2, <1>3
  <2> HIDE DEF todo
  <2> QED BY <2>2, <2>3, <1>1, <1>3, RegistryPutKeeps DEF todo
<1> QED BY <1>2, <1>3 DEF Registry!Copy

\* Somebody edits a release, or pushes a version tag by hand.
LEMMA RegistryOthersKeep ==
  ASSUME Registry!Inv, Registry!Others
  PROVE  Registry!Inv'
<1>1. s3' = s3 /\ s4' = s4 /\ s5' = s5 /\ s7' = s7
  BY DEF Registry!Others
<1>2. Registry!JobsOK'
  BY <1>1 DEF Registry!Inv, Registry!JobsOK, Registry!Commands, Registry!Places
<1>3. CASE s2' = s2 /\ s6' = s6
  BY <1>1, <1>2, <1>3 DEF Registry!Inv, Registry!RegistryOK, Registry!FreeOK, Registry!CopiedOK, Registry!LatestIsComplete,
     Registry!VersionsKept, Registry!Unpublished, Registry!Places, Registry!Tags
<1>4. CASE \E k \in Registry!Places, v \in Versions :
             /\ s2' = [s2 EXCEPT ![k][v] = "foreign"]
             /\ s6' = s6 \cup {<<o, k>> : o \in {o \in Invocations : s3[o] \in {"look", "copy"} /\ s4[o].version = v}}
  <2>1. PICK k \in Registry!Places, v \in Versions :
             /\ s2' = [s2 EXCEPT ![k][v] = "foreign"]
             /\ s6' = s6 \cup {<<o, k>> : o \in {o \in Invocations : s3[o] \in {"look", "copy"} /\ s4[o].version = v}}
    BY <1>4
  <2>2. /\ v # "latest" /\ v \in Registry!Tags /\ "latest" \in Registry!Tags /\ Registry!None # "foreign"
        /\ s2 \in [Registry!Places -> [Registry!Tags -> Versions \cup {Registry!None, "foreign"}]]
    BY RegistryFacts DEF Registry!Tags, Registry!Inv, Registry!RegistryOK
  <2>3. /\ s2' \in [Registry!Places -> [Registry!Tags -> Versions \cup {Registry!None, "foreign"}]]
        /\ \A l \in Registry!Places, t \in Registry!Tags : s2'[l][t] = IF l = k /\ t = v THEN "foreign" ELSE s2[l][t]
    BY <2>1, <2>2
  <2>4. /\ s6 \subseteq s6'
        /\ \A o \in Invocations : s3[o] \in {"look", "copy"} /\ s4[o].version = v => <<o, k>> \in s6'
    BY <2>1
  <2>5. Registry!RegistryOK'
    <3>1. \A l \in Registry!Places : s2'[l]["latest"] # "foreign"
      BY <2>2, <2>3 DEF Registry!Inv, Registry!RegistryOK
    <3> QED BY <2>3, <3>1 DEF Registry!RegistryOK, Registry!Places, Registry!Tags
  <2>6. \A l \in Registry!Places, t \in Registry!Tags : s2[l][t] # Registry!None => s2'[l][t] # Registry!None
    BY <2>2, <2>3
  <2>7. \A o \in Invocations : s3[o] # "idle" => s4[o].version \in Registry!Tags
    BY DEF Registry!Inv, Registry!JobsOK, Registry!Jobs, Registry!Tags
  <2>8. Registry!CopiedOK'
    BY <1>1, <2>6, <2>7 DEF Registry!Inv, Registry!CopiedOK, Registry!Unpublished, Registry!Places
  <2>9. Registry!FreeOK'
    <3> SUFFICES ASSUME NEW o \in Invocations, NEW l \in Registry!Places,
                        \/ s3[o] = "look" /\ l < s5[o]
                        \/ s3[o] = "copy" /\ l >= s5[o]
                 PROVE  s2'[l][s4[o].version] = Registry!None \/ <<o, l>> \in s6'
      BY <1>1 DEF Registry!FreeOK, Registry!Unpublished, Registry!Places
    <3>1. s2[l][s4[o].version] = Registry!None \/ <<o, l>> \in s6
      BY DEF Registry!Inv, Registry!FreeOK, Registry!Unpublished
    <3>2. s4[o].version \in Registry!Tags
      BY <2>7
    <3> QED BY <3>1, <3>2, <2>3, <2>4
  <2>10. Registry!LatestIsComplete'
    <3> SUFFICES ASSUME NEW m \in Registry!Places, NEW l \in Registry!Places, s2'[m]["latest"] # Registry!None
                 PROVE  s2'[l][s2'[m]["latest"]] # Registry!None
      BY DEF Registry!LatestIsComplete, Registry!Places
    <3>1. s2'[m]["latest"] = s2[m]["latest"]
      BY <2>2, <2>3
    <3>2. s2[m]["latest"] \in Registry!Tags
      <4>1. s2[m]["latest"] \in Versions \cup {Registry!None, "foreign"} /\ s2[m]["latest"] # "foreign"
        BY <2>2 DEF Registry!Inv, Registry!RegistryOK
      <4> QED BY <4>1, <3>1 DEF Registry!Tags
    <3>3. s2[l][s2[m]["latest"]] # Registry!None
      BY <3>1 DEF Registry!Inv, Registry!LatestIsComplete
    <3> QED BY <3>1, <3>2, <3>3, <2>6
  <2>11. Registry!VersionsKept'
    BY <1>1, <2>4 DEF Registry!Inv, Registry!VersionsKept
  <2> QED BY <1>2, <2>5, <2>8, <2>9, <2>10, <2>11 DEF Registry!Inv
<1> QED BY <1>3, <1>4 DEF Registry!Others

\* Steps of the other components leave the registries alone.
LEMMA RegistryStutter ==
  ASSUME Registry!Inv, UNCHANGED <<s1, s2, s3, s4, s5, s6, s7, s8>>
  PROVE  Registry!Inv'
BY DEF Registry!Inv, Registry!JobsOK, Registry!RegistryOK, Registry!FreeOK, Registry!CopiedOK, Registry!LatestIsComplete,
   Registry!VersionsKept, Registry!Unpublished, Registry!Places, Registry!Tags, Registry!Commands

\* publish_verified containers: what is known of every publication and of the
\* registries, whichever publications race, fail and are killed.
THEOREM RegistryInvHolds == Spec => [](part = "registry" => Registry!Inv)
<1>1. Init => (part = "registry" => Registry!Inv)
  BY RegistryInit DEF Init
<1>2. Registry!Inv /\ Registry!Next => Registry!Inv'
  BY RegistryStartKeeps, RegistryVerifyKeeps, RegistryLookKeeps, RegistryCopyKeeps, RegistryKillKeeps, RegistryOthersKeep
     DEF Registry!Next, Registry!Step
<1>3. (part = "registry" => Registry!Inv) /\ [Next]_vars => (part = "registry" => Registry!Inv)'
  BY <1>2, RegistryStutter DEF Next, StreamStep, DownloadStep, PipelineStep, PayloadStep, RegistryStep, WaitStep, vars
<1> QED BY <1>1, <1>3, PTL DEF Spec

\* publish_verified containers: latest never names a version that some image
\* of the release lacks, and a version tag is replaced only if it appeared
\* after the publication's look.
THEOREM RegistryIsKept == Spec => []RegistryKept
<1>1. (part = "registry" => Registry!Inv) => RegistryKept
  BY DEF RegistryKept, Registry!Inv
<1> QED BY RegistryInvHolds, <1>1, PTL

-----------------------------------------------------------------------------
(* The recovery pipeline                                                   *)

\* Nobody has started and no name is taken.
LEMMA PipelineInit ==
  ASSUME Pipeline!Init
  PROVE  Pipeline!Inv
<1>1. Pipeline!TypesOK
  BY DEF Pipeline!Init, Pipeline!TypesOK, Pipeline!Positions, Pipeline!Commands, Pipeline!Names, Pipeline!Missing
<1>2. ASSUME NEW o \in Operators
      PROVE  Pipeline!ChildrenOK(o) /\ Pipeline!ProofOK(o) /\ Pipeline!GoodOK(o)
  <2>1. /\ s1[o] = "check" /\ s3.content = "reviewed" /\ s3.id = 0 /\ s4[o] = 0 /\ s7[o] = {}
        /\ s5[o][1] = "none" /\ s5[o][2] = "none"
    BY DEF Pipeline!Init, Pipeline!Commands
  <2> QED BY <2>1 DEF Pipeline!ChildrenOK, Pipeline!ProofOK, Pipeline!GoodOK
<1>3. Pipeline!PassedOK
  BY DEF Pipeline!Init, Pipeline!PassedOK, Pipeline!Names, Pipeline!Missing
<1> QED BY <1>1, <1>2, <1>3 DEF Pipeline!Inv

\* What one operator's run does is no concern of the others: they keep what is
\* known of them as long as the input stays and the names that are taken stay
\* taken.
LEMMA PipelineFrame ==
  ASSUME Pipeline!Inv, Pipeline!TypesOK', NEW o \in Operators, s3' = s3,
         \A p \in Operators \ {o} : /\ s1'[p] = s1[p] /\ s2'[p] = s2[p] /\ s4'[p] = s4[p] /\ s5'[p] = s5[p]
                                     /\ s6'[p] = s6[p] /\ s7'[p] = s7[p] /\ s8'[p] = s8[p],
         s9["destination"] # Pipeline!Missing => s9'["destination"] = s9["destination"],
         s9'["receipt"] = s9["receipt"] \/ s9'["receipt"].what # "passed",
         s1[o] # "ended" \/ \E c \in Pipeline!Commands : s5[o][c] = "running",
         Pipeline!ChildrenOK(o)', Pipeline!ProofOK(o)', Pipeline!GoodOK(o)'
  PROVE  Pipeline!Inv'
<1>1. \A p \in Operators \ {o} : Pipeline!Linked(p) => Pipeline!Linked(p)'
  BY DEF Pipeline!Linked, Pipeline!Missing
<1>2. ASSUME NEW p \in Operators \ {o}
      PROVE  (Pipeline!ChildrenOK(p) /\ Pipeline!ProofOK(p) /\ Pipeline!GoodOK(p))'
  <2>1. Pipeline!ChildrenOK(p) /\ Pipeline!ProofOK(p) /\ Pipeline!GoodOK(p)
    BY DEF Pipeline!Inv
  <2>2. Pipeline!ChildrenOK(p)'
    BY <2>1 DEF Pipeline!ChildrenOK
  <2>3. Pipeline!ProofOK(p)'
    BY <2>1 DEF Pipeline!ProofOK
  <2>4. Pipeline!GoodOK(p)'
    BY <1>1, <2>1 DEF Pipeline!GoodOK, Pipeline!ExitsHold, Pipeline!Commands
  <2> QED BY <2>2, <2>3, <2>4
<1>3. Pipeline!PassedOK'
  <2> SUFFICES ASSUME s9'["receipt"].what = "passed"
               PROVE  Pipeline!PassedOK'
    BY DEF Pipeline!PassedOK
  <2>1. s9'["receipt"] = s9["receipt"]
    OBVIOUS
  <2>2. PICK p \in Operators :
          /\ s9["receipt"].by = p /\ s1[p] = "ended" /\ s7[p] = {"reviewed"} /\ Pipeline!Linked(p)
          /\ \A c \in Pipeline!Commands : ~s6[p][c] /\ s5[p][c] = "reaped"
    BY <2>1 DEF Pipeline!Inv, Pipeline!PassedOK
  <2>3. p # o
    BY <2>2
  <2> QED BY <1>1, <2>1, <2>2, <2>3 DEF Pipeline!PassedOK, Pipeline!Commands
<1> QED BY <1>2, <1>3 DEF Pipeline!Inv

\* The refusals before the pipeline.
LEMMA PipelineBeforeKeeps ==
  ASSUME Pipeline!Inv, NEW o \in Operators, Pipeline!Check(o) \/ Pipeline!InputProof(o) \/ Pipeline!Intent(o)
  PROVE  Pipeline!Inv'
<1>1. /\ s2' = s2 /\ s3' = s3 /\ s5' = s5 /\ s6' = s6 /\ s7' = s7 /\ s8' = s8
      /\ s1[o] \in {"check", "proof", "intent", "publish_intent"}
  BY DEF Pipeline!Check, Pipeline!InputProof, Pipeline!Intent, Pipeline!Children
<1>2. PICK where \in {"proof", "intent", "publish_intent", "partial", "refused"} :
        /\ s1' = [s1 EXCEPT ![o] = where]
        /\ s1[o] = "proof" => s4' = [s4 EXCEPT ![o] = s3.id] /\ (where = "refused" \/ s3.content = "reviewed")
        /\ s1[o] # "proof" => s4' = s4
        /\ s1[o] = "check" => where \in {"proof", "refused"}
  BY DEF Pipeline!Check, Pipeline!InputProof, Pipeline!Intent, Pipeline!Pend, Pipeline!Publish, Pipeline!Go
<1>3. /\ s10' \subseteq Pipeline!Names
      /\ \/ s9' = s9
         \/ s9["intent"] = Pipeline!Missing /\ s9' = [s9 EXCEPT !["intent"] = [by |-> o, what |-> "intent"]]
  BY DEF Pipeline!Check, Pipeline!InputProof, Pipeline!Intent, Pipeline!Pend, Pipeline!Publish, Pipeline!Write, Pipeline!Free,
     Pipeline!Inv, Pipeline!TypesOK, Pipeline!Names
<1>4. Pipeline!TypesOK'
  <2>1. s1' \in [Operators -> Pipeline!Positions]
    BY <1>2 DEF Pipeline!Inv, Pipeline!TypesOK, Pipeline!Positions
  <2>2. s4' \in [Operators -> Nat]
    BY <1>1, <1>2 DEF Pipeline!Inv, Pipeline!TypesOK
  <2>3. s9' \in [Pipeline!Names -> [by: Operators \cup {"nobody"},
                                   what: {"none", "intent", "open", "part", "whole", "failed", "passed"}]]
    BY <1>3 DEF Pipeline!Inv, Pipeline!TypesOK, Pipeline!Names
  <2> QED BY <1>1, <1>3, <2>1, <2>2, <2>3 DEF Pipeline!Inv, Pipeline!TypesOK, Pipeline!Positions, Pipeline!Names, Pipeline!Commands
<1>5. s9'["destination"] = s9["destination"] /\ s9'["receipt"] = s9["receipt"]
  BY <1>3 DEF Pipeline!Inv, Pipeline!TypesOK, Pipeline!Names
<1>6. \A p \in Operators \ {o} : s1'[p] = s1[p] /\ s4'[p] = s4[p]
  BY <1>1, <1>2 DEF Pipeline!Inv, Pipeline!TypesOK
<1>7. s1'[o] = where /\ s4'[o] = (IF s1[o] = "proof" THEN s3.id ELSE s4[o])
  BY <1>1, <1>2 DEF Pipeline!Inv, Pipeline!TypesOK
<1>8. Pipeline!ChildrenOK(o) /\ Pipeline!ProofOK(o) /\ s3.id \in Nat
  BY DEF Pipeline!Inv, Pipeline!TypesOK
<1>9. Pipeline!ChildrenOK(o)'
  BY <1>1, <1>7, <1>8 DEF Pipeline!ChildrenOK
<1>10. Pipeline!ProofOK(o)'
  BY <1>1, <1>2, <1>7, <1>8 DEF Pipeline!ChildrenOK, Pipeline!ProofOK
<1>11. Pipeline!GoodOK(o)'
  BY <1>7 DEF Pipeline!GoodOK
<1> QED BY <1>1, <1>4, <1>5, <1>6, <1>9, <1>10, <1>11, PipelineFrame

\* The partial output and the commands; what fails goes to the teardown.
LEMMA PipelineLaunchKeeps ==
  ASSUME Pipeline!Inv, NEW o \in Operators, Pipeline!OpenPartial(o) \/ Pipeline!Launch(o)
  PROVE  Pipeline!Inv'
<1>1. s3' = s3 /\ s4' = s4 /\ s6' = s6 /\ s7' = s7 /\ s8' = s8 /\ s10' = s10 /\ s1[o] \in {"partial", "launch"}
  BY DEF Pipeline!OpenPartial, Pipeline!Launch, Pipeline!Children
<1>2. \/ s9' = s9
      \/ s9["partial"] = Pipeline!Missing /\ s9' = [s9 EXCEPT !["partial"] = [by |-> o, what |-> "open"]]
  BY DEF Pipeline!OpenPartial, Pipeline!Launch, Pipeline!Write, Pipeline!Free
<1>3. \/ s5' = s5 /\ s1' = [s1 EXCEPT ![o] = "teardown"] /\ s2' = [s2 EXCEPT ![o] = TRUE]
      \/ s5' = s5 /\ s1' = [s1 EXCEPT ![o] = "launch"] /\ s2' = s2 /\ s1[o] = "partial"
      \/ s5[o][1] = "none" /\ s5' = [s5 EXCEPT ![o][1] = "running"] /\ s1' = s1 /\ s2' = s2 /\ s1[o] = "launch"
      \/ s5[o][1] # "none" /\ s5' = [s5 EXCEPT ![o][2] = "running"] /\ s1' = [s1 EXCEPT ![o] = "watch"] /\ s2' = s2
         /\ s1[o] = "launch"
  BY DEF Pipeline!OpenPartial, Pipeline!Launch, Pipeline!Children, Pipeline!Fail, Pipeline!Go
<1>4. 1 \in Pipeline!Commands /\ 2 \in Pipeline!Commands
  BY DEF Pipeline!Commands
<1>5. Pipeline!TypesOK'
  <2>1. s1' \in [Operators -> Pipeline!Positions] /\ s2' \in [Operators -> BOOLEAN]
    BY <1>3 DEF Pipeline!Inv, Pipeline!TypesOK, Pipeline!Positions
  <2>2. s5' \in [Operators -> [Pipeline!Commands -> {"none", "running", "ok", "bad", "reaped"}]]
    <3>1. s5 \in [Operators -> [Pipeline!Commands -> {"none", "running", "ok", "bad", "reaped"}]]
      BY DEF Pipeline!Inv, Pipeline!TypesOK
    <3>2. ASSUME NEW c \in Pipeline!Commands
          PROVE  [s5 EXCEPT ![o][c] = "running"] \in [Operators -> [Pipeline!Commands -> {"none", "running", "ok", "bad", "reaped"}]]
      BY <3>1
    <3> QED BY <1>3, <1>4, <3>1, <3>2
  <2>3. s9' \in [Pipeline!Names -> [by: Operators \cup {"nobody"},
                                   what: {"none", "intent", "open", "part", "whole", "failed", "passed"}]]
    BY <1>2 DEF Pipeline!Inv, Pipeline!TypesOK, Pipeline!Names
  <2> QED BY <1>1, <2>1, <2>2, <2>3 DEF Pipeline!Inv, Pipeline!TypesOK, Pipeline!Commands, Pipeline!Names, Pipeline!Positions
<1>6. s9'["destination"] = s9["destination"] /\ s9'["receipt"] = s9["receipt"]
  BY <1>2 DEF Pipeline!Inv, Pipeline!TypesOK, Pipeline!Names
<1>7. \A p \in Operators \ {o} : s1'[p] = s1[p] /\ s2'[p] = s2[p] /\ s5'[p] = s5[p]
  BY <1>3 DEF Pipeline!Inv, Pipeline!TypesOK
<1>8. \/ s5'[o] = s5[o] /\ s1'[o] = "teardown" /\ s2'[o]
      \/ s5'[o] = s5[o] /\ s1'[o] = "launch" /\ s1[o] = "partial"
      \/ s5[o][1] = "none" /\ s5'[o][1] = "running" /\ s5'[o][2] = s5[o][2] /\ s1'[o] = "launch" /\ s1[o] = "launch"
      \/ s5[o][1] # "none" /\ s5'[o][1] = s5[o][1] /\ s5'[o][2] = "running" /\ s1'[o] = "watch" /\ s1[o] = "launch"
  BY <1>3, <1>4 DEF Pipeline!Inv, Pipeline!TypesOK
<1>9. Pipeline!ChildrenOK(o) /\ Pipeline!ProofOK(o)
  BY DEF Pipeline!Inv
<1>10. Pipeline!ChildrenOK(o)'
  BY <1>1, <1>8, <1>9 DEF Pipeline!ChildrenOK
<1>11. Pipeline!ProofOK(o)'
  BY <1>1, <1>8, <1>9 DEF Pipeline!ProofOK
<1>12. Pipeline!GoodOK(o)'
  BY <1>8 DEF Pipeline!GoodOK
<1> QED BY <1>1, <1>5, <1>6, <1>7, <1>10, <1>11, <1>12, PipelineFrame

\* The loop ends or gives up; after it the statuses and the input are judged.
LEMMA PipelineJudgeKeeps ==
  ASSUME Pipeline!Inv, NEW o \in Operators, Pipeline!Watch(o) \/ Pipeline!GiveUp(o) \/ Pipeline!Judge(o)
  PROVE  Pipeline!Inv'
<1>1. /\ s3' = s3 /\ s4' = s4 /\ s5' = s5 /\ s6' = s6 /\ s7' = s7 /\ s8' = s8 /\ s9' = s9 /\ s10' = s10
      /\ s1[o] \in {"watch", "judge"}
  BY DEF Pipeline!Watch, Pipeline!GiveUp, Pipeline!Judge, Pipeline!Children
<1>2. \/ s1' = [s1 EXCEPT ![o] = "teardown"] /\ s2' = [s2 EXCEPT ![o] = TRUE]
      \/ s1' = [s1 EXCEPT ![o] = "judge"] /\ s2' = s2
      \/ s1' = [s1 EXCEPT ![o] = "link"] /\ s2' = s2 /\ s1[o] = "judge" /\ Pipeline!ExitsHold(o) /\ s3.id = s4[o]
  BY DEF Pipeline!Watch, Pipeline!GiveUp, Pipeline!Judge, Pipeline!Fail, Pipeline!Go
<1>3. Pipeline!TypesOK'
  BY <1>1, <1>2 DEF Pipeline!Inv, Pipeline!TypesOK, Pipeline!Commands, Pipeline!Names, Pipeline!Positions
<1>4. \A p \in Operators \ {o} : s1'[p] = s1[p] /\ s2'[p] = s2[p]
  BY <1>2 DEF Pipeline!Inv, Pipeline!TypesOK
<1>5. \/ s1'[o] = "teardown" /\ s2'[o]
      \/ s1'[o] = "judge"
      \/ s1'[o] = "link" /\ s1[o] = "judge" /\ Pipeline!ExitsHold(o) /\ s3.id = s4[o]
  BY <1>2 DEF Pipeline!Inv, Pipeline!TypesOK
<1>6. Pipeline!ChildrenOK(o) /\ Pipeline!ProofOK(o)
  BY DEF Pipeline!Inv
<1>7. Pipeline!ChildrenOK(o)'
  BY <1>1, <1>5, <1>6 DEF Pipeline!ChildrenOK
<1>8. Pipeline!ProofOK(o)'
  BY <1>1, <1>5, <1>6 DEF Pipeline!ProofOK
<1>9. ASSUME s1[o] = "judge", Pipeline!ExitsHold(o), s3.id = s4[o]
      PROVE  s7[o] = {"reviewed"}
  <2>1. s7[o] # {}
    BY <1>6, <1>9 DEF Pipeline!ChildrenOK, Pipeline!ExitsHold, Pipeline!Commands
  <2>2. s7[o] \subseteq {"reviewed"}
    BY <1>6, <1>9 DEF Pipeline!ProofOK
  <2> QED BY <2>1, <2>2
<1>10. Pipeline!GoodOK(o)'
  BY <1>1, <1>5, <1>9 DEF Pipeline!GoodOK, Pipeline!ExitsHold, Pipeline!Commands
<1> QED BY <1>1, <1>3, <1>4, <1>7, <1>8, <1>10, PipelineFrame

\* The name appears, if it is free.
LEMMA PipelinePromoteKeeps ==
  ASSUME Pipeline!Inv, NEW o \in Operators, Pipeline!Promote(o)
  PROVE  Pipeline!Inv'
<1>1. /\ s3' = s3 /\ s4' = s4 /\ s5' = s5 /\ s6' = s6 /\ s7' = s7 /\ s8' = s8 /\ s10' = s10 /\ s1[o] = "link"
      /\ s1' = [s1 EXCEPT ![o] = "teardown"]
  BY DEF Pipeline!Promote, Pipeline!Children, Pipeline!Fail, Pipeline!Go
<1>2. \/ /\ s9["destination"] = Pipeline!Missing
         /\ s9' = [s9 EXCEPT !["destination"] = [by |-> o, what |-> s8[o]]]
         /\ s2' = s2 \/ s2' = [s2 EXCEPT ![o] = TRUE]
      \/ s9' = s9 /\ s2' = [s2 EXCEPT ![o] = TRUE]
  BY DEF Pipeline!Promote, Pipeline!Free, Pipeline!Write, Pipeline!Fail
<1>3. Pipeline!ChildrenOK(o) /\ Pipeline!ProofOK(o) /\ Pipeline!GoodOK(o)
  BY DEF Pipeline!Inv
<1>4. Pipeline!ExitsHold(o) /\ s7[o] = {"reviewed"} /\ s8[o] = "whole"
  BY <1>1, <1>3 DEF Pipeline!GoodOK, Pipeline!ChildrenOK, Pipeline!ExitsHold, Pipeline!Commands
<1>5. s9' \in [Pipeline!Names -> [by: Operators \cup {"nobody"},
                                 what: {"none", "intent", "open", "part", "whole", "failed", "passed"}]]
  BY <1>2, <1>4 DEF Pipeline!Inv, Pipeline!TypesOK, Pipeline!Names
<1>6. Pipeline!TypesOK'
  BY <1>1, <1>2, <1>5 DEF Pipeline!Inv, Pipeline!TypesOK, Pipeline!Positions, Pipeline!Names, Pipeline!Commands
<1>7. /\ s9["destination"] # Pipeline!Missing => s9'["destination"] = s9["destination"]
      /\ s9'["receipt"] = s9["receipt"]
      /\ ~s2'[o] => s9'["destination"] = [by |-> o, what |-> "whole"]
  BY <1>2, <1>4 DEF Pipeline!Inv, Pipeline!TypesOK, Pipeline!Names
<1>8. /\ s1'[o] = "teardown"
      /\ \A p \in Operators \ {o} : s1'[p] = s1[p] /\ s2'[p] = s2[p]
  BY <1>1, <1>2 DEF Pipeline!Inv, Pipeline!TypesOK
<1>9. Pipeline!ChildrenOK(o)'
  BY <1>1, <1>3, <1>8 DEF Pipeline!ChildrenOK
<1>10. Pipeline!ProofOK(o)'
  BY <1>1, <1>3, <1>8 DEF Pipeline!ProofOK
<1>11. Pipeline!GoodOK(o)'
  BY <1>1, <1>4, <1>7, <1>8 DEF Pipeline!GoodOK, Pipeline!Linked, Pipeline!ExitsHold, Pipeline!Commands
<1> QED BY <1>1, <1>6, <1>7, <1>8, <1>9, <1>10, <1>11, PipelineFrame

\* Every process group is ended, or the failure to do so is recorded.
LEMMA PipelineTeardownKeeps ==
  ASSUME Pipeline!Inv, NEW o \in Operators, Pipeline!Teardown(o)
  PROVE  Pipeline!Inv'
<1>1. /\ s3' = s3 /\ s4' = s4 /\ s7' = s7 /\ s8' = s8 /\ s9' = s9 /\ s10' = s10 /\ s1[o] = "teardown"
      /\ s1' = [s1 EXCEPT ![o] = "receipt"]
  BY DEF Pipeline!Teardown, Pipeline!Go
<1>2. Pipeline!ChildrenOK(o) /\ Pipeline!ProofOK(o) /\ Pipeline!GoodOK(o)
  BY DEF Pipeline!Inv
<1>3. /\ s5 \in [Operators -> [Pipeline!Commands -> {"none", "running", "ok", "bad", "reaped"}]]
      /\ s6 \in [Operators -> [Pipeline!Commands -> BOOLEAN]] /\ s2 \in [Operators -> BOOLEAN]
      /\ 1 \in Pipeline!Commands /\ 2 \in Pipeline!Commands
  BY DEF Pipeline!Inv, Pipeline!TypesOK, Pipeline!Commands
<1>4. s1' \in [Operators -> Pipeline!Positions] /\ s1'[o] = "receipt" /\ \A p \in Operators \ {o} : s1'[p] = s1[p]
  BY <1>1 DEF Pipeline!Inv, Pipeline!TypesOK, Pipeline!Positions
<1>5. Pipeline!ProofOK(o)'
  BY <1>1, <1>2, <1>4 DEF Pipeline!ProofOK
<1>6. CASE s2' = [s2 EXCEPT ![o] = TRUE] /\ s5' = s5 /\ s6' = s6
  <2>1. Pipeline!TypesOK'
    BY <1>1, <1>4, <1>6 DEF Pipeline!Inv, Pipeline!TypesOK, Pipeline!Names, Pipeline!Commands, Pipeline!Positions
  <2>2. Pipeline!ChildrenOK(o)'
    BY <1>1, <1>2, <1>4, <1>6 DEF Pipeline!ChildrenOK
  <2>3. s2'[o] /\ \A p \in Operators \ {o} : s2'[p] = s2[p]
    BY <1>3, <1>6
  <2>4. Pipeline!GoodOK(o)'
    BY <1>4, <2>3 DEF Pipeline!GoodOK
  <2> QED BY <1>1, <1>4, <1>5, <1>6, <2>1, <2>2, <2>3, <2>4, PipelineFrame
<1>7. CASE /\ s5' = [s5 EXCEPT ![o] = [c \in Pipeline!Commands |-> IF @[c] = "none" THEN "none" ELSE "reaped"]]
           /\ s6' = [s6 EXCEPT ![o] = [c \in Pipeline!Commands |-> FALSE]] /\ s2' = s2
  <2>1. s5'[o] = [c \in Pipeline!Commands |-> IF s5[o][c] = "none" THEN "none" ELSE "reaped"]
    BY <1>3, <1>7
  <2>2. s5' \in [Operators -> [Pipeline!Commands -> {"none", "running", "ok", "bad", "reaped"}]]
    BY <1>3, <1>7
  <2>3. s6' \in [Operators -> [Pipeline!Commands -> BOOLEAN]] /\ \A c \in Pipeline!Commands : ~s6'[o][c]
    BY <1>3, <1>7
  <2>4. \A p \in Operators \ {o} : s5'[p] = s5[p] /\ s6'[p] = s6[p]
    BY <1>3, <1>7
  <2>5. Pipeline!TypesOK'
    BY <1>1, <1>4, <1>7, <2>2, <2>3 DEF Pipeline!Inv, Pipeline!TypesOK, Pipeline!Names, Pipeline!Commands, Pipeline!Positions
  <2>6. \A c \in Pipeline!Commands : s5'[o][c] = IF s5[o][c] = "none" THEN "none" ELSE "reaped"
    BY <2>1
  <2>7. Pipeline!ChildrenOK(o)'
    BY <1>1, <1>2, <1>3, <1>4, <2>6 DEF Pipeline!ChildrenOK
  <2>8. Pipeline!GoodOK(o)'
    BY <1>1, <1>2, <1>4, <1>7, <2>3, <2>6 DEF Pipeline!GoodOK, Pipeline!Linked, Pipeline!ExitsHold, Pipeline!Commands
  <2> QED BY <1>1, <1>4, <1>5, <1>7, <2>4, <2>5, <2>7, <2>8, PipelineFrame
<1> QED BY <1>6, <1>7 DEF Pipeline!Teardown, Pipeline!Group

\* The receipt: what it says is the run's failure, so a passed one has all
\* that a run without a failure has behind it.
LEMMA PipelineReceiptKeeps ==
  ASSUME Pipeline!Inv, NEW o \in Operators, Pipeline!Receipt(o)
  PROVE  Pipeline!Inv'
<1>1. /\ s2' = s2 /\ s3' = s3 /\ s4' = s4 /\ s5' = s5 /\ s6' = s6 /\ s7' = s7 /\ s8' = s8
      /\ s1[o] \in {"receipt", "publish_receipt"}
  BY DEF Pipeline!Receipt, Pipeline!Children
<1>2. PICK where \in {"publish_receipt", "ended"} :
        /\ s1' = [s1 EXCEPT ![o] = where]
        /\ s9' = s9 \/ (/\ where = "ended" /\ s9["receipt"] = Pipeline!Missing
                        /\ s9' = [s9 EXCEPT !["receipt"] = [by |-> o, what |-> IF s2[o] THEN "failed" ELSE "passed"]])
  BY DEF Pipeline!Receipt, Pipeline!Pend, Pipeline!Publish, Pipeline!Write, Pipeline!Free, Pipeline!Go
<1>3. s10' \subseteq Pipeline!Names
  BY DEF Pipeline!Receipt, Pipeline!Pend, Pipeline!Inv, Pipeline!TypesOK, Pipeline!Names
<1>4. s1' \in [Operators -> Pipeline!Positions] /\ s1'[o] = where /\ \A p \in Operators \ {o} : s1'[p] = s1[p]
  BY <1>2 DEF Pipeline!Inv, Pipeline!TypesOK, Pipeline!Positions
<1>5. s9' \in [Pipeline!Names -> [by: Operators \cup {"nobody"},
                                 what: {"none", "intent", "open", "part", "whole", "failed", "passed"}]]
  BY <1>2 DEF Pipeline!Inv, Pipeline!TypesOK, Pipeline!Names
<1>6. Pipeline!TypesOK'
  BY <1>1, <1>3, <1>4, <1>5 DEF Pipeline!Inv, Pipeline!TypesOK, Pipeline!Positions, Pipeline!Names, Pipeline!Commands
<1>7. Pipeline!ChildrenOK(o) /\ Pipeline!ProofOK(o) /\ Pipeline!GoodOK(o)
  BY DEF Pipeline!Inv
<1>8. s9'["destination"] = s9["destination"]
  BY <1>2 DEF Pipeline!Inv, Pipeline!TypesOK, Pipeline!Names
<1>9. Pipeline!ChildrenOK(o)'
  BY <1>1, <1>4, <1>7 DEF Pipeline!ChildrenOK
<1>10. Pipeline!ProofOK(o)'
  BY <1>1, <1>4, <1>7 DEF Pipeline!ProofOK
<1>11. Pipeline!GoodOK(o)'
  BY <1>1, <1>4, <1>7, <1>8 DEF Pipeline!GoodOK, Pipeline!Linked, Pipeline!ExitsHold, Pipeline!Commands
<1>12. CASE s9'["receipt"] = s9["receipt"] \/ s9'["receipt"].what # "passed"
  BY <1>1, <1>4, <1>6, <1>8, <1>9, <1>10, <1>11, <1>12, PipelineFrame
<1>13. CASE s9'["receipt"] # s9["receipt"] /\ s9'["receipt"].what = "passed"
  <2>1. /\ where = "ended" /\ s9["receipt"] = Pipeline!Missing
        /\ s9' = [s9 EXCEPT !["receipt"] = [by |-> o, what |-> IF s2[o] THEN "failed" ELSE "passed"]]
    BY <1>2, <1>13
  <2>2. s9'["receipt"] = [by |-> o, what |-> IF s2[o] THEN "failed" ELSE "passed"]
    BY <2>1 DEF Pipeline!Inv, Pipeline!TypesOK, Pipeline!Names
  <2>3. ~s2[o] /\ s9'["receipt"].by = o
    BY <1>13, <2>2
  <2>4. s7[o] = {"reviewed"} /\ Pipeline!Linked(o) /\ \A c \in Pipeline!Commands : ~s6[o][c] /\ s5[o][c] = "reaped"
    BY <1>1, <1>7, <2>3 DEF Pipeline!GoodOK
  <2>5. Pipeline!PassedOK'
    BY <1>1, <1>4, <1>8, <2>1, <2>3, <2>4 DEF Pipeline!PassedOK, Pipeline!Linked, Pipeline!Commands
  <2>6. ASSUME NEW p \in Operators \ {o}
        PROVE  (Pipeline!ChildrenOK(p) /\ Pipeline!ProofOK(p) /\ Pipeline!GoodOK(p))'
    <3>1. Pipeline!ChildrenOK(p) /\ Pipeline!ProofOK(p) /\ Pipeline!GoodOK(p) /\ s1'[p] = s1[p]
      BY <1>4 DEF Pipeline!Inv
    <3>2. Pipeline!ChildrenOK(p)'
      BY <1>1, <3>1 DEF Pipeline!ChildrenOK
    <3>3. Pipeline!ProofOK(p)'
      BY <1>1, <3>1 DEF Pipeline!ProofOK
    <3>4. Pipeline!GoodOK(p)'
      BY <1>1, <1>8, <3>1 DEF Pipeline!GoodOK, Pipeline!Linked, Pipeline!ExitsHold, Pipeline!Commands
    <3> QED BY <3>2, <3>3, <3>4
  <2> QED BY <1>6, <1>9, <1>10, <1>11, <2>5, <2>6 DEF Pipeline!Inv
<1> QED BY <1>12, <1>13

\* The first command reads what the input file holds now.
LEMMA PipelineReadKeeps ==
  ASSUME Pipeline!Inv, NEW o \in Operators, Pipeline!Read(o)
  PROVE  Pipeline!Inv'
<1>1. /\ s1' = s1 /\ s2' = s2 /\ s3' = s3 /\ s4' = s4 /\ s5' = s5 /\ s6' = s6 /\ s8' = s8 /\ s9' = s9 /\ s10' = s10
      /\ s5[o][1] = "running" /\ s7' = [s7 EXCEPT ![o] = @ \cup {s3.content}]
  BY DEF Pipeline!Read
<1>2. s3.content \in {"reviewed", "other"} /\ s7 \in [Operators -> SUBSET {"reviewed", "other"}]
  BY DEF Pipeline!Inv, Pipeline!TypesOK
<1>3. /\ s7' \in [Operators -> SUBSET {"reviewed", "other"}] /\ s7'[o] = s7[o] \cup {s3.content}
      /\ \A p \in Operators \ {o} : s7'[p] = s7[p]
  BY <1>1, <1>2
<1>4. Pipeline!TypesOK'
  BY <1>1, <1>3 DEF Pipeline!Inv, Pipeline!TypesOK, Pipeline!Positions, Pipeline!Names, Pipeline!Commands
<1>5. Pipeline!ChildrenOK(o) /\ Pipeline!ProofOK(o) /\ Pipeline!GoodOK(o)
  BY DEF Pipeline!Inv
<1>6. Pipeline!ChildrenOK(o)'
  BY <1>1, <1>3, <1>5 DEF Pipeline!ChildrenOK
<1>7. Pipeline!ProofOK(o)'
  BY <1>1, <1>3, <1>5 DEF Pipeline!ProofOK
<1>8. Pipeline!GoodOK(o)'
  BY <1>1, <1>5 DEF Pipeline!GoodOK, Pipeline!ExitsHold, Pipeline!Commands
<1>9. \E c \in Pipeline!Commands : s5[o][c] = "running"
  BY <1>1 DEF Pipeline!Commands
<1> QED BY <1>1, <1>3, <1>4, <1>6, <1>7, <1>8, <1>9, PipelineFrame

\* A command ends, well or not, and perhaps leaves a descendant.
LEMMA PipelineExitKeeps ==
  ASSUME Pipeline!Inv, NEW o \in Operators, NEW c \in Pipeline!Commands, Pipeline!Exit(o, c)
  PROVE  Pipeline!Inv'
<1>1. /\ s1' = s1 /\ s2' = s2 /\ s3' = s3 /\ s4' = s4 /\ s7' = s7 /\ s9' = s9 /\ s10' = s10
      /\ s5[o][c] = "running"
  BY DEF Pipeline!Exit
<1>2. PICK status \in {"ok", "bad"} :
        /\ status = "ok" => IF c = 1 THEN s7[o] # {} ELSE s5[o][1] # "running"
        /\ s5' = [s5 EXCEPT ![o][c] = status]
        /\ s8' = IF c = 1 THEN s8 ELSE [s8 EXCEPT ![o] = IF status = "ok" /\ s5[o][1] = "ok" THEN "whole" ELSE "part"]
  BY DEF Pipeline!Exit
<1>3. PICK left \in BOOLEAN : s6' = [s6 EXCEPT ![o][c] = left]
  BY DEF Pipeline!Exit
<1>4. /\ s5 \in [Operators -> [Pipeline!Commands -> {"none", "running", "ok", "bad", "reaped"}]]
      /\ s8 \in [Operators -> {"none", "part", "whole"}]
  BY DEF Pipeline!Inv, Pipeline!TypesOK
<1>5. s6 \in [Operators -> [Pipeline!Commands -> BOOLEAN]]
  BY DEF Pipeline!Inv, Pipeline!TypesOK
<1>6. /\ s5' \in [Operators -> [Pipeline!Commands -> {"none", "running", "ok", "bad", "reaped"}]]
      /\ \A p \in Operators \ {o} : s5'[p] = s5[p]
      /\ \A d \in Pipeline!Commands : s5'[o][d] = IF d = c THEN status ELSE s5[o][d]
  BY <1>2, <1>4
<1>7. s6' \in [Operators -> [Pipeline!Commands -> BOOLEAN]] /\ \A p \in Operators \ {o} : s6'[p] = s6[p]
  BY <1>3, <1>5
<1>8. /\ s8' \in [Operators -> {"none", "part", "whole"}] /\ \A p \in Operators \ {o} : s8'[p] = s8[p]
      /\ s8'[o] = IF c = 1 THEN s8[o] ELSE IF status = "ok" /\ s5[o][1] = "ok" THEN "whole" ELSE "part"
  BY <1>2, <1>4
<1>9. Pipeline!TypesOK'
  BY <1>1, <1>6, <1>7, <1>8 DEF Pipeline!Inv, Pipeline!TypesOK, Pipeline!Positions, Pipeline!Names, Pipeline!Commands
<1>10. Pipeline!ChildrenOK(o) /\ Pipeline!ProofOK(o) /\ Pipeline!GoodOK(o)
  BY DEF Pipeline!Inv
<1>11. c = 1 \/ c = 2
  BY DEF Pipeline!Commands
<1>12. Pipeline!ChildrenOK(o)'
  <2>1. CASE c = 1
    <3>1. s5'[o][1] = status /\ s5'[o][2] = s5[o][2] /\ s8'[o] = s8[o] /\ s5[o][1] = "running"
      BY <2>1, <1>1, <1>6, <1>8 DEF Pipeline!Commands
    <3> QED BY <2>1, <3>1, <1>1, <1>2, <1>10 DEF Pipeline!ChildrenOK
  <2>2. CASE c = 2
    <3>1. s5'[o][1] = s5[o][1] /\ s5'[o][2] = status /\ s5[o][2] = "running"
      BY <2>2, <1>1, <1>6 DEF Pipeline!Commands
    <3> QED BY <2>2, <3>1, <1>1, <1>2, <1>8, <1>10 DEF Pipeline!ChildrenOK
  <2> QED BY <1>11, <2>1, <2>2
<1>13. Pipeline!ProofOK(o)'
  BY <1>1, <1>10 DEF Pipeline!ProofOK
<1>14. Pipeline!GoodOK(o)'
  BY <1>1, <1>10 DEF Pipeline!GoodOK, Pipeline!ExitsHold
<1> QED BY <1>1, <1>6, <1>7, <1>8, <1>9, <1>12, <1>13, <1>14, PipelineFrame

\* A parent is killed; its commands live on.
LEMMA PipelineKillKeeps ==
  ASSUME Pipeline!Inv, NEW o \in Operators, Pipeline!Kill(o)
  PROVE  Pipeline!Inv'
<1>1. /\ s2' = s2 /\ s3' = s3 /\ s4' = s4 /\ s5' = s5 /\ s6' = s6 /\ s7' = s7 /\ s8' = s8 /\ s9' = s9 /\ s10' = s10
      /\ s1[o] # "ended" /\ s1' = [s1 EXCEPT ![o] = "dead"]
  BY DEF Pipeline!Kill, Pipeline!Children, Pipeline!Go
<1>2. s1' \in [Operators -> Pipeline!Positions] /\ s1'[o] = "dead" /\ \A p \in Operators \ {o} : s1'[p] = s1[p]
  BY <1>1 DEF Pipeline!Inv, Pipeline!TypesOK, Pipeline!Positions
<1>3. Pipeline!TypesOK'
  BY <1>1, <1>2 DEF Pipeline!Inv, Pipeline!TypesOK, Pipeline!Positions, Pipeline!Names, Pipeline!Commands
<1>4. Pipeline!ChildrenOK(o) /\ Pipeline!ProofOK(o)
  BY DEF Pipeline!Inv
<1>5. Pipeline!ChildrenOK(o)'
  BY <1>1, <1>2, <1>4 DEF Pipeline!ChildrenOK
<1>6. Pipeline!ProofOK(o)' /\ Pipeline!GoodOK(o)'
  BY <1>1, <1>2, <1>4 DEF Pipeline!ProofOK, Pipeline!GoodOK
<1> QED BY <1>1, <1>2, <1>3, <1>5, <1>6, PipelineFrame

\* A replaced input has an identity that nobody has verified.
LEMMA PipelineReplaceKeeps ==
  ASSUME Pipeline!Inv, Pipeline!Replace
  PROVE  Pipeline!Inv'
<1>1. /\ s1' = s1 /\ s2' = s2 /\ s4' = s4 /\ s5' = s5 /\ s6' = s6 /\ s7' = s7 /\ s8' = s8 /\ s9' = s9 /\ s10' = s10
  BY DEF Pipeline!Replace, Pipeline!Children
<1>2. PICK content \in {"reviewed", "other"} : s3' = [content |-> content, id |-> s3.id + 1]
  BY DEF Pipeline!Replace
<1>3. s3.id \in Nat
  BY DEF Pipeline!Inv, Pipeline!TypesOK
<1>4. s3' \in [content: {"reviewed", "other"}, id: Nat] /\ s3'.id = s3.id + 1
  BY <1>2, <1>3
<1>5. Pipeline!TypesOK'
  BY <1>1, <1>4 DEF Pipeline!Inv, Pipeline!TypesOK, Pipeline!Positions, Pipeline!Names, Pipeline!Commands
<1>6. ASSUME NEW o \in Operators
      PROVE  (Pipeline!ChildrenOK(o) /\ Pipeline!ProofOK(o) /\ Pipeline!GoodOK(o))'
  <2>1. Pipeline!ChildrenOK(o) /\ Pipeline!ProofOK(o) /\ Pipeline!GoodOK(o) /\ s4[o] \in Nat
    BY DEF Pipeline!Inv, Pipeline!TypesOK
  <2>2. Pipeline!ChildrenOK(o)'
    BY <1>1, <2>1 DEF Pipeline!ChildrenOK
  <2>3. s4[o] < s3'.id
    BY <1>3, <1>4, <2>1 DEF Pipeline!ProofOK
  <2>4. Pipeline!ProofOK(o)'
    BY <1>1, <1>3, <1>4, <2>1, <2>3 DEF Pipeline!ProofOK
  <2>5. Pipeline!GoodOK(o)'
    BY <1>1, <2>1 DEF Pipeline!GoodOK, Pipeline!Linked, Pipeline!ExitsHold, Pipeline!Commands
  <2> QED BY <2>2, <2>4, <2>5
<1>7. Pipeline!PassedOK'
  BY <1>1 DEF Pipeline!Inv, Pipeline!PassedOK, Pipeline!Linked, Pipeline!Commands
<1> QED BY <1>5, <1>6, <1>7 DEF Pipeline!Inv

\* Steps of the other components leave the pipeline alone.
LEMMA PipelineStutter ==
  ASSUME Pipeline!Inv, UNCHANGED <<s1, s2, s3, s4, s5, s6, s7, s8, s9, s10>>
  PROVE  Pipeline!Inv'
<1>1. Pipeline!TypesOK'
  BY DEF Pipeline!Inv, Pipeline!TypesOK, Pipeline!Positions, Pipeline!Names, Pipeline!Commands
<1>2. ASSUME NEW o \in Operators
      PROVE  (Pipeline!ChildrenOK(o) /\ Pipeline!ProofOK(o) /\ Pipeline!GoodOK(o))'
  <2>1. Pipeline!ChildrenOK(o) /\ Pipeline!ProofOK(o) /\ Pipeline!GoodOK(o)
    BY DEF Pipeline!Inv
  <2>2. Pipeline!ChildrenOK(o)'
    BY <2>1 DEF Pipeline!ChildrenOK
  <2>3. Pipeline!ProofOK(o)'
    BY <2>1 DEF Pipeline!ProofOK
  <2>4. Pipeline!GoodOK(o)'
    BY <2>1 DEF Pipeline!GoodOK, Pipeline!Linked, Pipeline!ExitsHold, Pipeline!Commands
  <2> QED BY <2>2, <2>3, <2>4
<1>3. Pipeline!PassedOK'
  BY DEF Pipeline!Inv, Pipeline!PassedOK, Pipeline!Linked, Pipeline!Commands
<1> QED BY <1>1, <1>2, <1>3 DEF Pipeline!Inv

\* run_pipeline: what is known of every run for the output, whoever races for
\* the name, is killed, replaces the input or fails in the middle.
THEOREM PipelineInvHolds == Spec => [](part = "pipeline" => Pipeline!Inv)
<1>1. Init => (part = "pipeline" => Pipeline!Inv)
  BY PipelineInit DEF Init
<1>2. Pipeline!Inv /\ Pipeline!Next => Pipeline!Inv'
  <2>1. ASSUME Pipeline!Inv, NEW o \in Operators, Pipeline!Parent(o)
        PROVE  Pipeline!Inv'
    BY <2>1, PipelineBeforeKeeps, PipelineLaunchKeeps, PipelineJudgeKeeps, PipelinePromoteKeeps, PipelineTeardownKeeps,
       PipelineReceiptKeeps DEF Pipeline!Parent
  <2>2. Pipeline!Inv /\ Pipeline!Done => Pipeline!Inv'
    BY PipelineStutter DEF Pipeline!Done, Pipeline!vars
  <2> QED BY <2>1, <2>2, PipelineReadKeeps, PipelineExitKeeps, PipelineKillKeeps, PipelineReplaceKeeps DEF Pipeline!Next
<1>3. (part = "pipeline" => Pipeline!Inv) /\ [Next]_vars => (part = "pipeline" => Pipeline!Inv)'
  BY <1>2, PipelineStutter DEF Next, StreamStep, DownloadStep, PipelineStep, PayloadStep, RegistryStep, WaitStep, vars
<1> QED BY <1>1, <1>3, PTL DEF Spec

\* run_pipeline: a passed receipt stands next to the whole output of one run
\* whose commands all ended well and read nothing but the reviewed input, and
\* no process of its groups is left that could still write.
THEOREM ReceiptsAreTrue == Spec => []ReceiptIsTrue
<1>1. Pipeline!Inv => Pipeline!ReceiptIsTrue
  BY DEF Pipeline!Inv, Pipeline!PassedOK, Pipeline!ReceiptIsTrue, Pipeline!Linked
<1>2. (part = "pipeline" => Pipeline!Inv) => ReceiptIsTrue
  BY <1>1 DEF ReceiptIsTrue
<1> QED BY PipelineInvHolds, <1>2, PTL

-----------------------------------------------------------------------------
(* The streamed asset                                                      *)

\* The two ways in which sequences change here.
LEMMA TailFacts ==
  ASSUME NEW S, NEW q \in Seq(S), q # <<>>
  PROVE  /\ Len(q) \in Nat /\ Len(q) > 0 /\ Head(q) = q[1] /\ q[1] \in S
         /\ Tail(q) \in Seq(S) /\ Len(Tail(q)) = Len(q) - 1
         /\ \A i \in 1 .. (Len(q) - 1) : Tail(q)[i] = q[i + 1]
<1>1. Len(q) \in Nat /\ Len(q) # 0
  OBVIOUS
<1> QED BY <1>1

LEMMA AppendFacts ==
  ASSUME NEW S, NEW q \in Seq(S), NEW e \in S
  PROVE  /\ Len(q) \in Nat /\ Append(q, e) \in Seq(S) /\ Len(Append(q, e)) = Len(q) + 1
         /\ \A i \in 1 .. Len(q) : Append(q, e)[i] = q[i]
         /\ Append(q, e)[Len(q) + 1] = e
OBVIOUS

\* The sizes of the transfer.
LEMMA StreamFacts ==
  /\ Chunks \in Nat /\ Noise \in Nat /\ QueueSize \in Nat /\ "stdout" \in Stream!Kinds /\ "stderr" \in Stream!Kinds
  /\ \A k \in Stream!Kinds : Stream!Limit[k] \in 0 .. (Chunks + Noise)
  /\ Stream!Items = -1 .. (Chunks + Noise) /\ Stream!EOF = 0 /\ Stream!Broken = -1
BY StreamAssumption DEF Stream!SizesAssumption, Stream!Kinds, Stream!Limit, Stream!Items, Stream!EOF, Stream!Broken

\* Nothing has been written, read or queued.
LEMMA StreamInit ==
  ASSUME Stream!Init
  PROVE  Stream!Inv
<1>1. Stream!TypeOK
  <2>1. 0 \in Stream!Items /\ Len(<<>>) = 0 /\ 0 <= QueueSize
    BY StreamFacts
  <2>2. s2 \in [Stream!Kinds -> Nat] /\ s3 \in [Stream!Kinds -> Seq(Stream!Items)] /\ s7 \in [Stream!Kinds -> Stream!Items]
    BY <2>1 DEF Stream!Init, Stream!EOF
  <2>3. s8 \in Seq(Stream!Kinds \X Stream!Items) /\ Len(s8) <= QueueSize /\ s12 \in Seq(Stream!Items)
    BY <2>1 DEF Stream!Init
  <2>4. s4 \in [Stream!Kinds -> BOOLEAN] /\ s6 \in [Stream!Kinds -> {"off", "loop", "read", "send", "ended"}]
    BY DEF Stream!Init
  <2> QED BY <2>2, <2>3, <2>4 DEF Stream!Init, Stream!TypeOK
<1>2. \A k \in Stream!Kinds : Stream!PipeOK(k)
  BY StreamFacts DEF Stream!Init, Stream!PipeOK
<1>3. /\ s3["stdout"] = <<>> /\ s2["stdout"] = 0 /\ s6["stdout"] = "off" /\ Len(s8) = 0 /\ Len(s12) = 0 /\ s11 = {}
      /\ s10 = "start" /\ s14 = "none" /\ s9 = FALSE
  BY StreamFacts DEF Stream!Init
<1>4. Stream!HeldOK /\ Stream!Sent = 0
  <2>1. ~Stream!InHand
    BY <1>3 DEF Stream!InHand
  <2>2. Stream!Taken = 0
    <3>1. Len(s3["stdout"]) = 0
      BY <1>3
    <3>2. s2["stdout"] = 0
      BY <1>3
    <3> QED BY <3>1, <3>2 DEF Stream!Taken
  <2> QED BY <1>3, <2>1, <2>2 DEF Stream!HeldOK, Stream!Sent
<1>5. Stream!QueueOK
  BY <1>3, <1>4 DEF Stream!QueueOK
<1>6. Stream!EndedOK /\ Stream!InOrder /\ Stream!CompletedOK
  BY <1>3 DEF Stream!EndedOK, Stream!InOrder, Stream!CompletedOK
<1> QED BY <1>1, <1>2, <1>3, <1>4, <1>5, <1>6 DEF Stream!Inv

\* A step that leaves the queue and the file alone keeps what is known of them
\* if the reader of stdout has sent no more, or if the transfer is over.
LEMMA StreamQuiet ==
  ASSUME Stream!Inv, Stream!TypeOK', \A k \in Stream!Kinds : Stream!PipeOK(k)', Stream!HeldOK', Stream!CompletedOK',
         s8' = s8, s11' = s11, s12' = s12, s9' => ~Stream!Active',
         Stream!Active' => /\ Stream!Active /\ Stream!Sent' = Stream!Sent /\ s14' = s14 /\ (s10' = "wait" => s10 = "wait")
                           /\ s6["stdout"] = "ended" /\ Stream!PipeEnded => s6'["stdout"] = "ended" /\ Stream!PipeEnded'
  PROVE  Stream!Inv'
<1>1. Stream!InOrder'
  BY DEF Stream!Inv, Stream!InOrder
<1>2. ASSUME Stream!Active'
      PROVE  (Stream!QueueOK /\ Stream!EndedOK /\ Len(s12) <= Stream!Sent /\ s14 = "none")'
  <2>1. Stream!QueueOK /\ Stream!EndedOK /\ Len(s12) <= Stream!Sent /\ s14 = "none"
    BY <1>2 DEF Stream!Inv
  <2>2. Stream!QueueOK'
    BY <1>2, <2>1 DEF Stream!QueueOK, Stream!IsChunk
  <2>3. Stream!EndedOK'
    BY <1>2, <2>1 DEF Stream!EndedOK
  <2> QED BY <1>2, <2>1, <2>2, <2>3
<1> QED BY <1>1, <1>2 DEF Stream!Inv

\* The child writes a chunk, which is the next one of its pipe.
LEMMA StreamEmitKeeps ==
  ASSUME Stream!Inv, NEW k \in Stream!Kinds, Stream!Emit(k)
  PROVE  Stream!Inv'
<1>1. /\ s1' = s1 /\ s4' = s4 /\ s5' = s5 /\ s6' = s6 /\ s7' = s7 /\ s8' = s8 /\ s9' = s9 /\ s10' = s10 /\ s11' = s11
      /\ s12' = s12 /\ s13' = s13 /\ s14' = s14 /\ s4[k] /\ s2[k] < Stream!Limit[k]
      /\ s2' = [s2 EXCEPT ![k] = @ + 1] /\ s3' = [s3 EXCEPT ![k] = Append(@, s2[k] + 1)]
  BY DEF Stream!Emit, Stream!readerVars, Stream!mainVars
<1>2. /\ s2 \in [Stream!Kinds -> Nat] /\ s3 \in [Stream!Kinds -> Seq(Stream!Items)]
      /\ \A m \in Stream!Kinds : Stream!PipeOK(m)
  BY DEF Stream!Inv, Stream!TypeOK
<1>3. s2[k] \in Nat /\ s2[k] + 1 \in 1 .. (Chunks + Noise) /\ s2[k] + 1 \in Stream!Items /\ s2[k] + 1 <= Stream!Limit[k]
  <2>1. s2[k] \in Nat /\ Stream!Limit[k] \in Nat /\ Stream!Limit[k] <= Chunks + Noise /\ Chunks + Noise \in Nat
    BY <1>2, StreamFacts
  <2>2. s2[k] + 1 \in 1 .. (Chunks + Noise) /\ s2[k] + 1 <= Stream!Limit[k]
    BY <1>1, <2>1
  <2> QED BY <2>1, <2>2, StreamFacts
<1>4. /\ s2' \in [Stream!Kinds -> Nat] /\ s2'[k] = s2[k] + 1 /\ s3'[k] = Append(s3[k], s2[k] + 1)
      /\ \A m \in Stream!Kinds \ {k} : s2'[m] = s2[m] /\ s3'[m] = s3[m]
  BY <1>1, <1>2
<1>5. s3' \in [Stream!Kinds -> Seq(Stream!Items)]
  <2>1. Append(s3[k], s2[k] + 1) \in Seq(Stream!Items)
    BY <1>2, <1>3, AppendFacts
  <2> QED BY <1>1, <1>2, <2>1
<1>6. Stream!TypeOK'
  BY <1>1, <1>4, <1>5 DEF Stream!Inv, Stream!TypeOK, Stream!Items
<1>7. /\ Len(s3[k]) \in Nat /\ Len(s3'[k]) = Len(s3[k]) + 1 /\ s3'[k] \in Seq(1 .. (Chunks + Noise))
      /\ \A i \in 1 .. Len(s3[k]) : s3'[k][i] = s3[k][i]
      /\ s3'[k][Len(s3[k]) + 1] = s2[k] + 1
  <2>1. s3[k] \in Seq(1 .. (Chunks + Noise))
    BY <1>2 DEF Stream!PipeOK
  <2> QED BY <1>3, <1>4, <2>1, AppendFacts
<1>8. Stream!PipeOK(k)'
  <2>1. /\ s2[k] <= Stream!Limit[k] /\ Len(s3[k]) <= s2[k]
        /\ \A i \in 1 .. Len(s3[k]) : s3[k][i] = s2[k] - Len(s3[k]) + i
    BY <1>2 DEF Stream!PipeOK
  <2>2. ASSUME NEW i \in 1 .. Len(s3'[k])
        PROVE  s3'[k][i] = s2'[k] - Len(s3'[k]) + i
    <3>1. s2'[k] - Len(s3'[k]) = s2[k] - Len(s3[k])
      BY <1>3, <1>4, <1>7
    <3>2. CASE i = Len(s3[k]) + 1
      BY <3>1, <3>2, <1>3, <1>7
    <3>3. CASE i \in 1 .. Len(s3[k])
      BY <3>1, <3>3, <1>7, <2>1
    <3> QED BY <3>2, <3>3, <1>7
  <2>3. s2'[k] <= Stream!Limit[k] /\ Len(s3'[k]) <= s2'[k]
    BY <1>3, <1>4, <1>7, <2>1
  <2> QED BY <1>7, <2>2, <2>3 DEF Stream!PipeOK, Stream!Limit, Stream!Kinds
<1>9. \A m \in Stream!Kinds \ {k} : Stream!PipeOK(m)'
  BY <1>2, <1>4 DEF Stream!PipeOK, Stream!Limit, Stream!Kinds
<1>10. Stream!Taken' = Stream!Taken
  <2>1. CASE k = "stdout"
    BY <2>1, <1>3, <1>4, <1>7 DEF Stream!Taken
  <2>2. CASE k # "stdout"
    BY <2>2, <1>4, StreamFacts DEF Stream!Taken
  <2> QED BY <2>1, <2>2
<1>11. Stream!PipeEnded => Stream!PipeEnded'
  BY <1>1, <1>4, StreamFacts DEF Stream!PipeEnded
<1>12. Stream!HeldOK'
  BY <1>1, <1>10, <1>11 DEF Stream!Inv, Stream!HeldOK, Stream!InHand
<1>13. Stream!CompletedOK'
  BY <1>1, <1>4, StreamFacts DEF Stream!Inv, Stream!CompletedOK
<1>14. Stream!Sent' = Stream!Sent
  BY <1>1, <1>10 DEF Stream!Sent, Stream!InHand
<1>15. Stream!Active' <=> Stream!Active
  BY <1>1 DEF Stream!Active
<1>16. s9' => ~Stream!Active'
  BY <1>1, <1>15 DEF Stream!Inv
<1> QED BY <1>1, <1>6, <1>8, <1>9, <1>11, <1>12, <1>13, <1>14, <1>15, <1>16, StreamQuiet

\* A pipe loses its writers, the child ends, or the deadline passes.
LEMMA StreamChildKeeps ==
  ASSUME Stream!Inv, (\E k \in Stream!Kinds : Stream!ClosePipe(k)) \/ Stream!Exit \/ Stream!Die \/ Stream!Tick
  PROVE  Stream!Inv'
<1>1. /\ s2' = s2 /\ s3' = s3 /\ s6' = s6 /\ s7' = s7 /\ s8' = s8 /\ s9' = s9 /\ s10' = s10 /\ s11' = s11
      /\ s12' = s12 /\ s13' = s13 /\ s14' = s14
  BY DEF Stream!ClosePipe, Stream!Exit, Stream!Die, Stream!Tick, Stream!childVars, Stream!readerVars, Stream!mainVars
<1>2. s4 \in [Stream!Kinds -> BOOLEAN]
  BY DEF Stream!Inv, Stream!TypeOK
<1>3. s4' \in [Stream!Kinds -> BOOLEAN] /\ (~s4["stdout"] => ~s4'["stdout"])
  BY <1>2, StreamFacts DEF Stream!ClosePipe, Stream!Exit, Stream!Die, Stream!Tick, Stream!PipesAfterExit, Stream!childVars
<1>4. s1' \in {"running", "killed", "exited"} /\ s5' \in BOOLEAN
  BY DEF Stream!Inv, Stream!TypeOK, Stream!ClosePipe, Stream!Exit, Stream!Die, Stream!Tick, Stream!childVars
<1>5. Stream!TypeOK'
  BY <1>1, <1>3, <1>4 DEF Stream!Inv, Stream!TypeOK, Stream!Items
<1>6. \A k \in Stream!Kinds : Stream!PipeOK(k)'
  BY <1>1 DEF Stream!Inv, Stream!PipeOK, Stream!Limit
<1>7. Stream!PipeEnded => Stream!PipeEnded'
  BY <1>1, <1>3 DEF Stream!PipeEnded
<1>8. Stream!Taken' = Stream!Taken /\ Stream!Sent' = Stream!Sent
  BY <1>1 DEF Stream!Taken, Stream!Sent, Stream!InHand
<1>9. Stream!HeldOK'
  BY <1>1, <1>7, <1>8 DEF Stream!Inv, Stream!HeldOK, Stream!InHand
<1>10. Stream!CompletedOK'
  BY <1>1, <1>3 DEF Stream!Inv, Stream!CompletedOK
<1>11. (Stream!Active' <=> Stream!Active) /\ (s9' => ~Stream!Active')
  BY <1>1 DEF Stream!Active, Stream!Inv
<1> QED BY <1>1, <1>5, <1>6, <1>7, <1>8, <1>9, <1>10, <1>11, StreamQuiet

\* The head of a reader's loop.
LEMMA StreamLoopKeeps ==
  ASSUME Stream!Inv, NEW k \in Stream!Kinds, Stream!Loop(k)
  PROVE  Stream!Inv'
<1>1. /\ s1' = s1 /\ s2' = s2 /\ s3' = s3 /\ s4' = s4 /\ s5' = s5 /\ s7' = s7 /\ s8' = s8 /\ s9' = s9 /\ s10' = s10
      /\ s11' = s11 /\ s12' = s12 /\ s13' = s13 /\ s14' = s14 /\ s6[k] = "loop"
  BY DEF Stream!Loop, Stream!childVars, Stream!mainVars
<1>2. PICK where \in {"ended", "read"} : s6' = [s6 EXCEPT ![k] = where] /\ (where = "ended" => s9)
  BY DEF Stream!Loop
<1>3. /\ s6' \in [Stream!Kinds -> {"off", "loop", "read", "send", "ended"}] /\ s6'[k] = where
      /\ \A m \in Stream!Kinds \ {k} : s6'[m] = s6[m]
  BY <1>2 DEF Stream!Inv, Stream!TypeOK
<1>4. Stream!TypeOK'
  BY <1>1, <1>3 DEF Stream!Inv, Stream!TypeOK, Stream!Items
<1>5. \A m \in Stream!Kinds : Stream!PipeOK(m)'
  BY <1>1 DEF Stream!Inv, Stream!PipeOK, Stream!Limit
<1>6. s6'["stdout"] = "send" <=> s6["stdout"] = "send"
  BY <1>1, <1>3, StreamFacts
<1>7. s6["stdout"] = "ended" => s6'["stdout"] = "ended"
  BY <1>1, <1>3, StreamFacts
<1>8. Stream!Taken' = Stream!Taken /\ Stream!Sent' = Stream!Sent /\ (Stream!PipeEnded' <=> Stream!PipeEnded)
  BY <1>1, <1>6 DEF Stream!Taken, Stream!Sent, Stream!InHand, Stream!PipeEnded
<1>9. Stream!HeldOK'
  BY <1>1, <1>6, <1>8 DEF Stream!Inv, Stream!HeldOK, Stream!InHand
<1>10. Stream!CompletedOK'
  BY <1>1 DEF Stream!Inv, Stream!CompletedOK
<1>11. (Stream!Active' <=> Stream!Active) /\ (s9' => ~Stream!Active')
  BY <1>1 DEF Stream!Active, Stream!Inv
<1> QED BY <1>1, <1>4, <1>5, <1>7, <1>8, <1>9, <1>10, <1>11, StreamQuiet

\* os.read: the first chunk of the pipe goes into the reader's hands, or its
\* end when nobody can write to it any more; or the call fails.
LEMMA StreamReadKeeps ==
  ASSUME Stream!Inv, NEW k \in Stream!Kinds, Stream!Read(k) \/ Stream!ReadError(k)
  PROVE  Stream!Inv'
<1>1. /\ s1' = s1 /\ s2' = s2 /\ s4' = s4 /\ s5' = s5 /\ s8' = s8 /\ s9' = s9 /\ s10' = s10
      /\ s11' = s11 /\ s12' = s12 /\ s13' = s13 /\ s14' = s14 /\ s6[k] = "read" /\ s6' = [s6 EXCEPT ![k] = "send"]
  BY DEF Stream!Read, Stream!ReadError, Stream!childVars, Stream!mainVars
<1>2. /\ s2 \in [Stream!Kinds -> Nat] /\ s3 \in [Stream!Kinds -> Seq(Stream!Items)] /\ s7 \in [Stream!Kinds -> Stream!Items]
      /\ s6 \in [Stream!Kinds -> {"off", "loop", "read", "send", "ended"}] /\ \A m \in Stream!Kinds : Stream!PipeOK(m)
  BY DEF Stream!Inv, Stream!TypeOK
<1>3. /\ s6' \in [Stream!Kinds -> {"off", "loop", "read", "send", "ended"}] /\ s6'[k] = "send"
      /\ \A m \in Stream!Kinds \ {k} : s6'[m] = s6[m]
  BY <1>1, <1>2
<1>4. PICK item : s7' = [s7 EXCEPT ![k] = item]
        /\ \/ item = Head(s3[k]) /\ s3[k] # <<>> /\ s3' = [s3 EXCEPT ![k] = Tail(@)]
           \/ item = 0 /\ s3[k] = <<>> /\ ~s4[k] /\ s3' = s3
           \/ item = -1 /\ s3' = s3
  BY StreamFacts DEF Stream!Read, Stream!ReadError
<1>5. CASE item = Head(s3[k]) /\ s3[k] # <<>> /\ s3' = [s3 EXCEPT ![k] = Tail(@)]
  <2>1. /\ s3[k] \in Seq(1 .. (Chunks + Noise)) /\ s2[k] \in Nat /\ s2[k] <= Stream!Limit[k] /\ Len(s3[k]) <= s2[k]
        /\ \A i \in 1 .. Len(s3[k]) : s3[k][i] = s2[k] - Len(s3[k]) + i
    BY <1>2 DEF Stream!PipeOK
  <2>2. /\ s3'[k] = Tail(s3[k]) /\ s7'[k] = item
        /\ \A m \in Stream!Kinds \ {k} : s3'[m] = s3[m] /\ s7'[m] = s7[m]
    BY <1>2, <1>4, <1>5
  <2>3. /\ Len(s3[k]) \in Nat /\ Len(s3[k]) > 0 /\ item = s3[k][1] /\ item \in 1 .. (Chunks + Noise)
        /\ s3'[k] \in Seq(1 .. (Chunks + Noise)) /\ Len(s3'[k]) = Len(s3[k]) - 1
        /\ \A i \in 1 .. (Len(s3[k]) - 1) : s3'[k][i] = s3[k][i + 1]
    <3> DEFINE S == 1 .. (Chunks + Noise)
    <3>1. s3[k] \in Seq(S) /\ s3[k] # <<>> /\ item = Head(s3[k]) /\ s3'[k] = Tail(s3[k])
      BY <1>5, <2>1, <2>2
    <3> HIDE DEF S
    <3>2. /\ Len(s3[k]) \in Nat /\ Len(s3[k]) > 0 /\ Head(s3[k]) = s3[k][1] /\ s3[k][1] \in S
          /\ Tail(s3[k]) \in Seq(S) /\ Len(Tail(s3[k])) = Len(s3[k]) - 1
          /\ \A i \in 1 .. (Len(s3[k]) - 1) : Tail(s3[k])[i] = s3[k][i + 1]
      BY <3>1, TailFacts
    <3> QED BY <3>1, <3>2 DEF S
  <2>4. item \in Stream!Items /\ item > 0
    BY <2>3, StreamFacts
  <2>5. item = s2[k] - Len(s3'[k])
    <3>1. 1 \in 1 .. Len(s3[k])
      BY <2>3
    <3>2. item = s2[k] - Len(s3[k]) + 1
      BY <3>1, <2>1, <2>3
    <3>3. s2[k] \in Nat /\ Len(s3[k]) \in Nat /\ Len(s3'[k]) = Len(s3[k]) - 1
      BY <2>1, <2>3
    <3> QED BY <3>2, <3>3
  <2>6. Stream!PipeOK(k)'
    <3>1. ASSUME NEW i \in 1 .. Len(s3'[k])
          PROVE  s3'[k][i] = s2[k] - Len(s3'[k]) + i
      <4>1. i + 1 \in 1 .. Len(s3[k]) /\ i \in 1 .. (Len(s3[k]) - 1)
        BY <2>3
      <4>2. s3'[k][i] = s2[k] - Len(s3[k]) + (i + 1)
        BY <4>1, <2>1, <2>3
      <4>3. PICK e \in Nat, n \in Nat, m \in Int : e = s2[k] /\ n = Len(s3[k]) /\ m = Len(s3'[k]) /\ m = n - 1
        BY <2>1, <2>3
      <4>4. i \in Int
        BY <2>3
      <4>5. e - n + (i + 1) = e - m + i
        BY <4>3, <4>4
      <4> QED BY <4>2, <4>3, <4>5
    <3>2. Len(s3'[k]) <= s2[k]
      BY <2>1, <2>3
    <3> QED BY <1>1, <2>1, <2>3, <3>1, <3>2 DEF Stream!PipeOK, Stream!Limit, Stream!Kinds
  <2>7. \A m \in Stream!Kinds \ {k} : Stream!PipeOK(m)'
    BY <1>1, <1>2, <2>2 DEF Stream!PipeOK, Stream!Limit, Stream!Kinds
  <2>8. s3' \in [Stream!Kinds -> Seq(Stream!Items)] /\ s7' \in [Stream!Kinds -> Stream!Items]
    <3>1. Tail(s3[k]) \in Seq(Stream!Items)
      <4>1. s3[k] \in Seq(Stream!Items)
        BY <1>2
      <4> QED BY <4>1, <1>5, TailFacts
    <3> QED BY <1>2, <1>4, <1>5, <2>4, <3>1
  <2>9. Stream!TypeOK'
    BY <1>1, <1>3, <2>8 DEF Stream!Inv, Stream!TypeOK, Stream!Items
  <2>10. Stream!Sent' = Stream!Sent /\ Stream!HeldOK'
    <3>1. CASE k = "stdout"
      <4>1. Stream!InHand' /\ ~Stream!InHand
        BY <3>1, <1>1, <1>3, <2>2, <2>4 DEF Stream!InHand
      <4>2. Stream!Taken' = item /\ Stream!Taken = item - 1
        BY <3>1, <1>1, <2>1, <2>3, <2>5 DEF Stream!Taken
      <4>3. Stream!Sent' = Stream!Sent
        BY <4>1, <4>2, <2>3 DEF Stream!Sent
      <4>4. s7'["stdout"] = item /\ item # Stream!EOF
        BY <3>1, <2>2, <2>4, StreamFacts
      <4> QED BY <4>2, <4>3, <4>4 DEF Stream!HeldOK
    <3>2. CASE k # "stdout"
      <4>1. s3'["stdout"] = s3["stdout"] /\ s7'["stdout"] = s7["stdout"] /\ s6'["stdout"] = s6["stdout"]
        BY <3>2, <1>3, <2>2, StreamFacts
      <4> QED BY <4>1, <1>1 DEF Stream!Inv, Stream!HeldOK, Stream!InHand, Stream!Sent, Stream!Taken, Stream!PipeEnded
    <3> QED BY <3>1, <3>2
  <2>11. Stream!CompletedOK'
    BY <1>1 DEF Stream!Inv, Stream!CompletedOK
  <2>12. (Stream!Active' <=> Stream!Active) /\ (s9' => ~Stream!Active')
    BY <1>1 DEF Stream!Active, Stream!Inv
  <2>13. s6["stdout"] = "ended" /\ Stream!PipeEnded => s6'["stdout"] = "ended" /\ Stream!PipeEnded'
    BY <1>1, <1>3, <2>2, StreamFacts DEF Stream!PipeEnded
  <2> QED BY <1>1, <2>6, <2>7, <2>9, <2>10, <2>11, <2>12, <2>13, StreamQuiet
<1>6. CASE s3' = s3 /\ (item = -1 \/ (item = 0 /\ s3[k] = <<>> /\ ~s4[k]))
  <2>1. item \in Stream!Items /\ ~(item > 0)
    BY <1>6, StreamFacts
  <2>2. /\ s7' \in [Stream!Kinds -> Stream!Items] /\ s7'[k] = item
        /\ \A m \in Stream!Kinds \ {k} : s7'[m] = s7[m]
    BY <1>2, <1>4, <2>1
  <2>3. Stream!TypeOK'
    BY <1>1, <1>3, <1>6, <2>2 DEF Stream!Inv, Stream!TypeOK, Stream!Items
  <2>4. \A m \in Stream!Kinds : Stream!PipeOK(m)'
    BY <1>1, <1>2, <1>6 DEF Stream!PipeOK, Stream!Limit
  <2>5. Stream!Taken' = Stream!Taken /\ (Stream!PipeEnded' <=> Stream!PipeEnded)
    BY <1>1, <1>6 DEF Stream!Taken, Stream!PipeEnded
  <2>6. Stream!Sent' = Stream!Sent /\ Stream!HeldOK'
    <3>1. CASE k = "stdout"
      <4>1. ~Stream!InHand' /\ ~Stream!InHand
        BY <3>1, <1>1, <2>1, <2>2 DEF Stream!InHand
      <4>2. s7'["stdout"] = Stream!EOF => Stream!PipeEnded'
        BY <3>1, <1>6, <2>2, <2>5, StreamFacts DEF Stream!PipeEnded
      <4> QED BY <4>1, <4>2, <2>5 DEF Stream!Sent, Stream!HeldOK
    <3>2. CASE k # "stdout"
      <4>1. s7'["stdout"] = s7["stdout"] /\ s6'["stdout"] = s6["stdout"]
        BY <3>2, <1>3, <2>2, StreamFacts
      <4> QED BY <4>1, <2>5 DEF Stream!Inv, Stream!HeldOK, Stream!InHand, Stream!Sent
    <3> QED BY <3>1, <3>2
  <2>7. Stream!CompletedOK'
    BY <1>1 DEF Stream!Inv, Stream!CompletedOK
  <2>8. (Stream!Active' <=> Stream!Active) /\ (s9' => ~Stream!Active')
    BY <1>1 DEF Stream!Active, Stream!Inv
  <2>9. s6["stdout"] = "ended" => s6'["stdout"] = "ended"
    BY <1>1, <1>3, StreamFacts
  <2> QED BY <1>1, <2>3, <2>4, <2>5, <2>6, <2>7, <2>8, <2>9, StreamQuiet
<1> QED BY <1>4, <1>5, <1>6

\* The end of the queue: a chunk of stdout that is appended is the next one
\* sent, and nothing of stdout follows its end.
LEMMA StreamPush ==
  ASSUME Stream!Inv, Stream!QueueOK, Stream!EndedOK, Len(s12) <= Stream!Sent, Stream!Sent \in Nat, Stream!Sent' \in Nat,
         NEW x \in Stream!Kinds \X Stream!Items, s8' = Append(s8, x), s11' = s11, s12' = s12, s10' = s10,
         IF Stream!IsChunk(x) THEN x[2] = Stream!Sent' /\ Stream!Sent' = Stream!Sent + 1 ELSE Stream!Sent' = Stream!Sent,
         IF x[1] = "stdout" THEN s6["stdout"] = "send" ELSE s6'["stdout"] = s6["stdout"],
         x = <<"stdout", Stream!EOF>> => s6'["stdout"] = "ended" /\ Stream!PipeEnded,
         Stream!PipeEnded' <=> Stream!PipeEnded
  PROVE  Stream!QueueOK' /\ Stream!EndedOK' /\ (Len(s12) <= Stream!Sent)'
<1> DEFINE n == Len(s8)  w == Len(s12)
<1>1. s8 \in Seq(Stream!Kinds \X Stream!Items) /\ w \in Nat
  BY DEF Stream!Inv, Stream!TypeOK
<1>2. /\ n \in Nat /\ Len(s8') = n + 1 /\ s8'[n + 1] = x
      /\ \A i \in 1 .. n : s8'[i] = s8[i]
  BY <1>1, AppendFacts
<1>3. \A i \in 1 .. n : s8[i] \in Stream!Kinds \X Stream!Items /\ s8[i][2] \in Int
  BY <1>1, <1>2, StreamFacts
<1>4. Stream!Sent <= Stream!Sent' /\ (Stream!IsChunk(x) => Stream!Sent < x[2])
  OBVIOUS
<1> HIDE DEF n, w
<1>5. \A i \in 1 .. Len(s8') : i \in 1 .. n \/ i = n + 1
  BY <1>2
<1>6. \A i, j \in 1 .. Len(s8') : i < j /\ Stream!IsChunk(s8'[i]) /\ Stream!IsChunk(s8'[j]) => s8'[i][2] < s8'[j][2]
  <2> SUFFICES ASSUME NEW i \in 1 .. Len(s8'), NEW j \in 1 .. Len(s8'), i < j, Stream!IsChunk(s8'[i]), Stream!IsChunk(s8'[j])
               PROVE  s8'[i][2] < s8'[j][2]
    OBVIOUS
  <2>1. i \in 1 .. n /\ s8'[i] = s8[i]
    BY <1>2
  <2>2. CASE j \in 1 .. n
    BY <2>1, <2>2, <1>2 DEF Stream!QueueOK, n
  <2>3. CASE j = n + 1
    <3>1. s8[i][2] <= Stream!Sent /\ s8[i][2] \in Int
      BY <2>1, <1>3 DEF Stream!QueueOK, n
    <3>2. s8'[j] = x /\ x[2] = Stream!Sent + 1
      BY <2>3, <1>2
    <3> QED BY <3>1, <3>2, <2>1
  <2> QED BY <2>2, <2>3, <1>5
<1>7. \A i \in 1 .. Len(s8') : Stream!IsChunk(s8'[i]) => w < s8'[i][2] /\ s8'[i][2] <= Stream!Sent'
  <2> SUFFICES ASSUME NEW i \in 1 .. Len(s8'), Stream!IsChunk(s8'[i])
               PROVE  w < s8'[i][2] /\ s8'[i][2] <= Stream!Sent'
    OBVIOUS
  <2>1. CASE i \in 1 .. n
    <3>1. s8'[i] = s8[i] /\ w < s8[i][2] /\ s8[i][2] <= Stream!Sent /\ s8[i][2] \in Int
      BY <2>1, <1>2, <1>3 DEF Stream!QueueOK, n, w
    <3> QED BY <3>1, <1>4
  <2>2. CASE i = n + 1
    <3>1. s8'[i] = x /\ x[2] = Stream!Sent + 1 /\ x[2] = Stream!Sent'
      BY <2>2, <1>2
    <3>2. w <= Stream!Sent
      BY DEF w
    <3> QED BY <3>1, <3>2, <1>1
  <2> QED BY <2>1, <2>2, <1>5
<1>8. \A v \in (w + 1) .. Stream!Sent' : \E i \in 1 .. Len(s8') : s8'[i] = <<"stdout", v>>
  <2> SUFFICES ASSUME NEW v \in (w + 1) .. Stream!Sent'
               PROVE  \E i \in 1 .. Len(s8') : s8'[i] = <<"stdout", v>>
    OBVIOUS
  <2>1. CASE v \in (w + 1) .. Stream!Sent
    <3>1. PICK i \in 1 .. n : s8[i] = <<"stdout", v>>
      BY <2>1 DEF Stream!QueueOK, n, w
    <3> QED BY <3>1, <1>2
  <2>2. CASE v = Stream!Sent + 1 /\ Stream!Sent' = Stream!Sent + 1
    <3>1. Stream!IsChunk(x) /\ x[2] = v
      BY <2>2
    <3>2. x = <<"stdout", v>>
      BY <3>1 DEF Stream!IsChunk
    <3> QED BY <3>2, <1>2
  <2>3. PICK s \in Nat, t \in Nat : s = Stream!Sent /\ t = Stream!Sent' /\ (t = s \/ t = s + 1)
    OBVIOUS
  <2>4. v \in (w + 1) .. s \/ (v = s + 1 /\ t = s + 1)
    BY <2>3, <1>1 DEF w
  <2> QED BY <2>1, <2>2, <2>3, <2>4
<1>9. \A i \in 1 .. Len(s8') : s8'[i] = <<"stdout", Stream!EOF>> =>
        s6'["stdout"] = "ended" /\ Stream!PipeEnded' /\ \A j \in (i + 1) .. Len(s8') : s8'[j][1] # "stdout"
  <2> SUFFICES ASSUME NEW i \in 1 .. Len(s8'), s8'[i] = <<"stdout", Stream!EOF>>
               PROVE  s6'["stdout"] = "ended" /\ Stream!PipeEnded' /\ \A j \in (i + 1) .. Len(s8') : s8'[j][1] # "stdout"
    OBVIOUS
  <2>1. CASE i \in 1 .. n
    <3>1. s8[i] = <<"stdout", Stream!EOF>>
      BY <2>1, <1>2
    <3>2. s6["stdout"] = "ended" /\ Stream!PipeEnded /\ \A j \in (i + 1) .. n : s8[j][1] # "stdout"
      BY <2>1, <3>1 DEF Stream!QueueOK, n
    <3>3. x[1] # "stdout" /\ s6'["stdout"] = "ended"
      BY <3>2
    <3>4. \A j \in (i + 1) .. Len(s8') : s8'[j][1] # "stdout"
      <4> SUFFICES ASSUME NEW j \in (i + 1) .. Len(s8') PROVE s8'[j][1] # "stdout"
        OBVIOUS
      <4>1. (j \in (i + 1) .. n /\ j \in 1 .. n) \/ j = n + 1
        BY <2>1, <1>2
      <4>2. CASE j = n + 1
        BY <4>2, <3>3, <1>2
      <4>3. CASE j \in (i + 1) .. n /\ j \in 1 .. n
        BY <4>3, <3>2, <1>2
      <4> QED BY <4>1, <4>2, <4>3
    <3> QED BY <3>2, <3>3, <3>4
  <2>2. CASE i = n + 1
    <3>1. x = <<"stdout", Stream!EOF>>
      BY <2>2, <1>2
    <3>2. \A j \in (i + 1) .. Len(s8') : FALSE
      BY <2>2, <1>2
    <3> QED BY <3>1, <3>2
  <2> QED BY <2>1, <2>2, <1>5
<1>10. Stream!QueueOK'
  BY <1>6, <1>7, <1>8, <1>9 DEF Stream!QueueOK, Stream!IsChunk, Stream!EOF, w
<1>11. Stream!EndedOK'
  <2>1. ASSUME "stdout" \in s11
        PROVE  s6'["stdout"] = "ended" /\ Stream!PipeEnded' /\ \A i \in 1 .. Len(s8') : s8'[i][1] # "stdout"
    <3>1. s6["stdout"] = "ended" /\ Stream!PipeEnded /\ \A i \in 1 .. n : s8[i][1] # "stdout"
      BY <2>1 DEF Stream!EndedOK, n
    <3>2. x[1] # "stdout" /\ s6'["stdout"] = "ended"
      BY <3>1
    <3> QED BY <3>1, <3>2, <1>2, <1>5
  <2> QED BY <2>1 DEF Stream!EndedOK
<1> QED BY <1>4, <1>10, <1>11, <1>1 DEF w

\* How many chunks of stdout have been taken and sent is a number.
LEMMA StreamSentFacts ==
  ASSUME Stream!Inv
  PROVE  /\ Stream!Taken \in Nat /\ Stream!Sent \in Nat
         /\ Stream!InHand => Stream!Sent = Stream!Taken - 1 /\ Stream!Taken > 0
         /\ ~Stream!InHand => Stream!Sent = Stream!Taken
<1>1. s2["stdout"] \in Nat /\ Len(s3["stdout"]) \in Nat /\ Len(s3["stdout"]) <= s2["stdout"] /\ s7["stdout"] \in Int
  BY StreamFacts DEF Stream!Inv, Stream!TypeOK, Stream!PipeOK
<1>2. Stream!Taken \in Nat
  BY <1>1 DEF Stream!Taken
<1>3. Stream!InHand => Stream!Taken > 0
  BY DEF Stream!Inv, Stream!HeldOK, Stream!InHand
<1> QED BY <1>2, <1>3 DEF Stream!Sent

\* send: what the reader holds goes to the end of the queue, or is dropped
\* because the transfer is over.
LEMMA StreamSendKeeps ==
  ASSUME Stream!Inv, NEW k \in Stream!Kinds, Stream!Send(k)
  PROVE  Stream!Inv'
<1>1. /\ s1' = s1 /\ s2' = s2 /\ s3' = s3 /\ s4' = s4 /\ s5' = s5 /\ s7' = s7 /\ s9' = s9 /\ s10' = s10
      /\ s11' = s11 /\ s12' = s12 /\ s13' = s13 /\ s14' = s14 /\ s6[k] = "send"
  BY DEF Stream!Send, Stream!childVars, Stream!mainVars
<1>2. PICK where \in {"ended", "loop"} : s6' = [s6 EXCEPT ![k] = where] /\ (where = "ended" <=> s7[k] \in {0, -1})
  BY StreamFacts DEF Stream!Send, Stream!AfterSend
<1>3. /\ s6' \in [Stream!Kinds -> {"off", "loop", "read", "send", "ended"}] /\ s6'[k] = where
      /\ \A m \in Stream!Kinds \ {k} : s6'[m] = s6[m]
  BY <1>2 DEF Stream!Inv, Stream!TypeOK
<1>4. \A m \in Stream!Kinds : Stream!PipeOK(m)'
  BY <1>1 DEF Stream!Inv, Stream!PipeOK, Stream!Limit
<1>5. Stream!Taken' = Stream!Taken /\ (Stream!PipeEnded' <=> Stream!PipeEnded)
  BY <1>1 DEF Stream!Taken, Stream!PipeEnded
<1>6. IF k = "stdout" THEN ~Stream!InHand' ELSE Stream!InHand' <=> Stream!InHand
  BY <1>1, <1>3, StreamFacts DEF Stream!InHand
<1>7. Stream!HeldOK'
  <2>1. CASE k = "stdout"
    BY <2>1, <1>3, <1>6 DEF Stream!HeldOK
  <2>2. CASE k # "stdout"
    <3>1. s6'["stdout"] = s6["stdout"]
      BY <2>2, <1>3, StreamFacts
    <3> QED BY <3>1, <2>2, <1>1, <1>5, <1>6 DEF Stream!Inv, Stream!HeldOK
  <2> QED BY <2>1, <2>2
<1>8. Stream!CompletedOK' /\ Stream!InOrder'
  BY <1>1 DEF Stream!Inv, Stream!CompletedOK, Stream!InOrder
<1>9. (Stream!Active' <=> Stream!Active) /\ (s9' => ~Stream!Active')
  BY <1>1 DEF Stream!Active, Stream!Inv
<1>10. CASE s9 /\ s8' = s8
  <2>1. Stream!TypeOK'
    BY <1>1, <1>3, <1>10 DEF Stream!Inv, Stream!TypeOK, Stream!Items
  <2>2. ~Stream!Active'
    BY <1>1, <1>9, <1>10
  <2> QED BY <1>1, <1>4, <1>7, <1>8, <1>9, <1>10, <2>1, <2>2, StreamQuiet
<1>11. CASE ~s9 /\ Len(s8) < QueueSize /\ s8' = Append(s8, <<k, s7[k]>>)
  <2>1. PICK x \in Stream!Kinds \X Stream!Items : x = <<k, s7[k]>> /\ x[1] = k /\ x[2] = s7[k]
    <3>1. s7[k] \in Stream!Items
      BY DEF Stream!Inv, Stream!TypeOK
    <3>2. <<k, s7[k]>> \in Stream!Kinds \X Stream!Items /\ <<k, s7[k]>>[1] = k /\ <<k, s7[k]>>[2] = s7[k]
      BY <3>1
    <3> QED BY <3>2
  <2>2. s8' = Append(s8, x) /\ s8 \in Seq(Stream!Kinds \X Stream!Items) /\ Len(s8) \in Nat
    BY <1>11, <2>1 DEF Stream!Inv, Stream!TypeOK
  <2>3. s8' \in Seq(Stream!Kinds \X Stream!Items) /\ Len(s8') = Len(s8) + 1
    BY <2>2, AppendFacts
  <2>4. Len(s8') <= QueueSize
    BY <1>11, <2>2, <2>3, StreamFacts
  <2>5. Stream!TypeOK'
    BY <1>1, <1>3, <2>3, <2>4 DEF Stream!Inv, Stream!TypeOK, Stream!Items
  <2>6. /\ Stream!Taken \in Nat /\ Stream!Sent \in Nat
        /\ Stream!InHand => Stream!Sent = Stream!Taken - 1 /\ Stream!Taken > 0 /\ s7["stdout"] = Stream!Taken
        /\ ~Stream!InHand => Stream!Sent = Stream!Taken
    BY StreamSentFacts DEF Stream!Inv, Stream!HeldOK
  <2>7. Stream!IsChunk(x) <=> k = "stdout" /\ Stream!InHand
    BY <1>1, <2>1 DEF Stream!IsChunk, Stream!InHand
  <2>8. Stream!Sent' = (IF k = "stdout" THEN Stream!Taken ELSE Stream!Sent)
    BY <1>5, <1>6 DEF Stream!Sent
  <2>9. IF Stream!IsChunk(x) THEN x[2] = Stream!Sent' /\ Stream!Sent' = Stream!Sent + 1 ELSE Stream!Sent' = Stream!Sent
    <3>1. CASE Stream!IsChunk(x)
      BY <3>1, <2>1, <2>6, <2>7, <2>8
    <3>2. CASE ~Stream!IsChunk(x)
      BY <3>2, <2>6, <2>7, <2>8
    <3> QED BY <3>1, <3>2
  <2>10. IF x[1] = "stdout" THEN s6["stdout"] = "send" ELSE s6'["stdout"] = s6["stdout"]
    BY <1>1, <1>3, <2>1, StreamFacts
  <2>11. x = <<"stdout", Stream!EOF>> => s6'["stdout"] = "ended" /\ Stream!PipeEnded
    <3>1. SUFFICES ASSUME x = <<"stdout", Stream!EOF>>
                   PROVE  s6'["stdout"] = "ended" /\ Stream!PipeEnded
      OBVIOUS
    <3>2. k = "stdout" /\ s7["stdout"] = Stream!EOF
      BY <2>1, <3>1
    <3>3. Stream!PipeEnded
      BY <1>1, <3>2 DEF Stream!Inv, Stream!HeldOK
    <3>4. where = "ended"
      BY <1>2, <3>2, StreamFacts
    <3> QED BY <1>3, <3>2, <3>3, <3>4
  <2>12. ASSUME Stream!Active'
         PROVE  (Stream!QueueOK /\ Stream!EndedOK /\ Len(s12) <= Stream!Sent /\ s14 = "none")'
    <3>1. Stream!QueueOK /\ Stream!EndedOK /\ Len(s12) <= Stream!Sent /\ s14 = "none"
      BY <1>9, <2>12 DEF Stream!Inv
    <3>2. Stream!Sent' \in Nat
      BY <2>6, <2>8
    <3>3. Stream!QueueOK' /\ Stream!EndedOK' /\ (Len(s12) <= Stream!Sent)'
      BY <1>1, <1>5, <2>2, <2>6, <2>9, <2>10, <2>11, <3>1, <3>2, StreamPush
    <3> QED BY <1>1, <3>1, <3>3
  <2> QED BY <1>4, <1>7, <1>8, <1>9, <2>5, <2>12 DEF Stream!Inv
<1> QED BY <1>10, <1>11 DEF Stream!Send

\* The threads are started.
LEMMA StreamStartKeeps ==
  ASSUME Stream!Inv, Stream!StartThread
  PROVE  Stream!Inv'
<1>1. /\ s1' = s1 /\ s2' = s2 /\ s3' = s3 /\ s4' = s4 /\ s5' = s5 /\ s7' = s7 /\ s8' = s8 /\ s9' = s9
      /\ s11' = s11 /\ s12' = s12 /\ s13' = s13 /\ s10 = "start"
  BY DEF Stream!StartThread, Stream!Leave, Stream!childVars
<1>2. /\ s6' \in [Stream!Kinds -> {"off", "loop", "read", "send", "ended"}]
      /\ s6'["stdout"] = s6["stdout"] \/ (s6["stdout"] = "off" /\ s6'["stdout"] = "loop")
  BY StreamFacts DEF Stream!StartThread, Stream!Inv, Stream!TypeOK
<1>3. \/ s10' \in {"start", "drain"} /\ s14' = s14
      \/ s10' = "stop" /\ s14' = "raised"
  <2>1. CASE Stream!Leave("raised")
    BY <2>1 DEF Stream!Leave
  <2>2. CASE \E k \in Stream!Kinds : (s10' = IF k = "stderr" THEN "drain" ELSE "start") /\ s14' = s14
    BY <2>2
  <2> QED BY <2>1, <2>2 DEF Stream!StartThread
<1>4. Stream!TypeOK'
  BY <1>1, <1>2, <1>3 DEF Stream!Inv, Stream!TypeOK, Stream!Items
<1>5. \A m \in Stream!Kinds : Stream!PipeOK(m)'
  BY <1>1 DEF Stream!Inv, Stream!PipeOK, Stream!Limit
<1>6. Stream!Taken' = Stream!Taken /\ (Stream!PipeEnded' <=> Stream!PipeEnded) /\ (Stream!InHand' <=> Stream!InHand)
  BY <1>1, <1>2 DEF Stream!Taken, Stream!PipeEnded, Stream!InHand
<1>7. Stream!HeldOK' /\ Stream!Sent' = Stream!Sent
  BY <1>1, <1>2, <1>6 DEF Stream!Inv, Stream!HeldOK, Stream!Sent
<1>8. Stream!Active /\ ~s9
  BY <1>1 DEF Stream!Active, Stream!Inv
<1>9. Stream!CompletedOK'
  BY <1>3, <1>8 DEF Stream!Inv, Stream!CompletedOK
<1>10. Stream!Active' => s14' = s14 /\ s10' # "wait"
  BY <1>3 DEF Stream!Active
<1>11. s6["stdout"] = "ended" => s6'["stdout"] = "ended"
  BY <1>2
<1> QED BY <1>1, <1>4, <1>5, <1>6, <1>7, <1>8, <1>9, <1>10, <1>11, StreamQuiet

\* When both pipes have ended, the file has every chunk that was written.
LEMMA StreamWholeAtEnd ==
  ASSUME Stream!Inv, s10 = "wait"
  PROVE  ~s4["stdout"] /\ Len(s12) = s2["stdout"]
<1>1. Stream!QueueOK /\ Stream!EndedOK /\ Len(s12) <= Stream!Sent
  BY DEF Stream!Inv, Stream!Active
<1>2. s6["stdout"] = "ended" /\ Stream!PipeEnded /\ \A i \in 1 .. Len(s8) : s8[i][1] # "stdout"
  BY <1>1 DEF Stream!EndedOK
<1>3. Stream!Sent = Stream!Taken /\ Stream!Taken \in Nat
  BY <1>2, StreamSentFacts DEF Stream!InHand
<1>4. Stream!Taken = s2["stdout"]
  <2>1. Len(s3["stdout"]) = 0
    BY <1>2 DEF Stream!PipeEnded
  <2>2. s2["stdout"] \in Nat
    BY StreamFacts DEF Stream!Inv, Stream!TypeOK
  <2> QED BY <2>1, <2>2 DEF Stream!Taken
<1>5. \A v \in (Len(s12) + 1) .. Stream!Sent : FALSE
  <2> SUFFICES ASSUME NEW v \in (Len(s12) + 1) .. Stream!Sent
               PROVE  FALSE
    OBVIOUS
  <2>1. PICK i \in 1 .. Len(s8) : s8[i] = <<"stdout", v>>
    BY <1>1 DEF Stream!QueueOK
  <2> QED BY <2>1, <1>2
<1>6. Len(s12) \in Nat
  BY DEF Stream!Inv, Stream!TypeOK
<1>7. Len(s12) = Stream!Sent
  <2>1. PICK w \in Nat, s \in Nat : w = Len(s12) /\ s = Stream!Sent /\ w <= s
    BY <1>1, <1>3, <1>6
  <2>2. s \notin (w + 1) .. s
    BY <2>1, <1>5
  <2>3. w = s
    BY <2>1, <2>2
  <2> QED BY <2>1, <2>3
<1> QED BY <1>2, <1>3, <1>4, <1>7 DEF Stream!PipeEnded

\* The transfer ends one way or the other, and its cleanup runs.
LEMMA StreamLeaveKeeps ==
  ASSUME Stream!Inv, Stream!GiveUp \/ Stream!AwaitExit \/ Stream!Stop \/ Stream!Reap \/ Stream!Close
  PROVE  Stream!Inv'
<1>1. /\ s2' = s2 /\ s3' = s3 /\ s4' = s4 /\ s5' = s5 /\ s6' = s6 /\ s7' = s7 /\ s8' = s8
      /\ s11' = s11 /\ s12' = s12
  BY DEF Stream!GiveUp, Stream!AwaitExit, Stream!Stop, Stream!Reap, Stream!Close, Stream!Leave, Stream!childVars, Stream!readerVars
<1>2. s10' \in {"stop", "reap", "join", "ended"}
  BY DEF Stream!GiveUp, Stream!AwaitExit, Stream!Stop, Stream!Reap, Stream!Close, Stream!Leave
<1>3. s1' \in {"running", "killed", "exited"}
  BY DEF Stream!GiveUp, Stream!AwaitExit, Stream!Stop, Stream!Reap, Stream!Close, Stream!Leave, Stream!childVars, Stream!Inv, Stream!TypeOK
<1>4. s9' \in BOOLEAN /\ s13' \in BOOLEAN
  BY DEF Stream!GiveUp, Stream!AwaitExit, Stream!Stop, Stream!Reap, Stream!Close, Stream!Leave, Stream!Inv, Stream!TypeOK
<1>5. s14' = s14 \/ s14' \in {"raised", "unreaped"} \/ (s14' = "completed" /\ s10 = "wait")
  BY DEF Stream!GiveUp, Stream!AwaitExit, Stream!Stop, Stream!Reap, Stream!Close, Stream!Leave
<1>6. Stream!TypeOK'
  BY <1>1, <1>2, <1>3, <1>4, <1>5 DEF Stream!Inv, Stream!TypeOK, Stream!Items
<1>7. \A m \in Stream!Kinds : Stream!PipeOK(m)'
  BY <1>1 DEF Stream!Inv, Stream!PipeOK, Stream!Limit
<1>8. Stream!HeldOK'
  BY <1>1 DEF Stream!Inv, Stream!HeldOK, Stream!InHand, Stream!Taken, Stream!PipeEnded
<1>9. Stream!CompletedOK'
  BY <1>1, <1>5, StreamWholeAtEnd DEF Stream!Inv, Stream!CompletedOK
<1>10. ~Stream!Active'
  BY <1>2 DEF Stream!Active
<1> QED BY <1>1, <1>6, <1>7, <1>8, <1>9, <1>10, StreamQuiet

\* The head of the queue, if it is a chunk of stdout, is the file's next one.
LEMMA StreamHeadIsNext ==
  ASSUME Stream!Inv, Stream!QueueOK, s8 # <<>>, Stream!IsChunk(s8[1])
  PROVE  s8[1][2] = Len(s12) + 1 /\ s8[1][2] <= Stream!Sent
<1>1. Len(s8) \in Nat /\ Len(s8) > 0 /\ s8[1] \in Stream!Kinds \X Stream!Items /\ Len(s12) \in Nat
  BY TailFacts DEF Stream!Inv, Stream!TypeOK
<1>2. Stream!Sent \in Nat /\ s8[1][2] \in Int
  BY <1>1, StreamSentFacts, StreamFacts
<1>3. 1 \in 1 .. Len(s8)
  BY <1>1
<1>4. Len(s12) < s8[1][2] /\ s8[1][2] <= Stream!Sent
  BY <1>3 DEF Stream!QueueOK
<1>5. ~(Len(s12) + 1 < s8[1][2])
  <2> SUFFICES ASSUME Len(s12) + 1 < s8[1][2]
               PROVE  FALSE
    OBVIOUS
  <2>1. Len(s12) + 1 \in (Len(s12) + 1) .. Stream!Sent
    BY <1>1, <1>2, <1>4
  <2>2. PICK i \in 1 .. Len(s8) : s8[i] = <<"stdout", Len(s12) + 1>>
    BY <2>1 DEF Stream!QueueOK
  <2>3. s8[i][1] = "stdout" /\ s8[i][2] = Len(s12) + 1
    BY <2>2
  <2>4. Stream!IsChunk(s8[i])
    BY <2>3, <1>1 DEF Stream!IsChunk
  <2>5. i # 1
    BY <2>3, <1>1, <1>2
  <2>6. 1 < i
    BY <2>5, <1>1
  <2>7. s8[1][2] < s8[i][2]
    BY <2>4, <2>6, <1>3 DEF Stream!QueueOK
  <2> QED BY <2>3, <2>7, <1>1, <1>2
<1> QED BY <1>1, <1>2, <1>4, <1>5

\* Without its head the queue is as before, for the file as it is then.
LEMMA StreamPop ==
  ASSUME Stream!Inv, Stream!QueueOK, s8 # <<>>, s8' = Tail(s8), Stream!Sent' = Stream!Sent,
         s6' = s6, s3' = s3, s4' = s4,
         IF Stream!IsChunk(s8[1]) THEN Len(s12') = Len(s12) + 1 ELSE s12' = s12
  PROVE  Stream!QueueOK'
<1> DEFINE n == Len(s8)  w == Len(s12)
<1>1. s8 \in Seq(Stream!Kinds \X Stream!Items) /\ w \in Nat /\ Stream!Sent \in Nat
  BY StreamSentFacts DEF Stream!Inv, Stream!TypeOK
<1>2. n \in Nat /\ n > 0 /\ Len(s8') = n - 1 /\ \A i \in 1 .. (n - 1) : s8'[i] = s8[i + 1]
  BY <1>1, TailFacts
<1>3. \A i \in 1 .. n : s8[i] \in Stream!Kinds \X Stream!Items /\ s8[i][2] \in Int
  BY <1>1, <1>2, StreamFacts
<1> HIDE DEF n, w
<1>4. \A i \in 1 .. Len(s8') : i + 1 \in 1 .. n /\ s8'[i] = s8[i + 1] /\ 1 < i + 1
  BY <1>2
<1>5. \A i, j \in 1 .. Len(s8') : i < j /\ Stream!IsChunk(s8'[i]) /\ Stream!IsChunk(s8'[j]) => s8'[i][2] < s8'[j][2]
  <2> SUFFICES ASSUME NEW i \in 1 .. Len(s8'), NEW j \in 1 .. Len(s8'), i < j, Stream!IsChunk(s8'[i]), Stream!IsChunk(s8'[j])
               PROVE  s8'[i][2] < s8'[j][2]
    OBVIOUS
  <2>1. i + 1 < j + 1 /\ i + 1 \in 1 .. n /\ j + 1 \in 1 .. n /\ s8'[i] = s8[i + 1] /\ s8'[j] = s8[j + 1]
    BY <1>2, <1>4
  <2> QED BY <2>1 DEF Stream!QueueOK, n
<1>6. \A i \in 1 .. Len(s8') : Stream!IsChunk(s8'[i]) => Len(s12') < s8'[i][2] /\ s8'[i][2] <= Stream!Sent
  <2> SUFFICES ASSUME NEW i \in 1 .. Len(s8'), Stream!IsChunk(s8'[i])
               PROVE  Len(s12') < s8'[i][2] /\ s8'[i][2] <= Stream!Sent
    OBVIOUS
  <2>1. i + 1 \in 1 .. n /\ s8'[i] = s8[i + 1] /\ 1 < i + 1 /\ 1 \in 1 .. n
    BY <1>2, <1>4
  <2>2. w < s8[i + 1][2] /\ s8[i + 1][2] <= Stream!Sent
    BY <2>1 DEF Stream!QueueOK, n, w
  <2>3. CASE ~Stream!IsChunk(s8[1])
    BY <2>1, <2>2, <2>3 DEF w
  <2>4. CASE Stream!IsChunk(s8[1])
    <3>1. s8[1][2] < s8[i + 1][2]
      BY <2>1, <2>4 DEF Stream!QueueOK, n
    <3>2. s8[1][2] = w + 1
      BY <2>4, StreamHeadIsNext DEF w
    <3>3. Len(s12') = w + 1
      BY <2>4 DEF w
    <3> QED BY <3>1, <3>2, <3>3, <2>1, <2>2
  <2> QED BY <2>3, <2>4
<1>7. \A v \in (Len(s12') + 1) .. Stream!Sent : \E i \in 1 .. Len(s8') : s8'[i] = <<"stdout", v>>
  <2> SUFFICES ASSUME NEW v \in (Len(s12') + 1) .. Stream!Sent
               PROVE  \E i \in 1 .. Len(s8') : s8'[i] = <<"stdout", v>>
    OBVIOUS
  <2>1. v \in (w + 1) .. Stream!Sent /\ (Stream!IsChunk(s8[1]) => v > w + 1) /\ v > 0
    BY <1>1 DEF w
  <2>2. PICK i \in 1 .. n : s8[i] = <<"stdout", v>>
    BY <2>1 DEF Stream!QueueOK, n, w
  <2>3. i # 1
    <3> SUFFICES ASSUME i = 1
                 PROVE  FALSE
      OBVIOUS
    <3>1. s8[1][1] = "stdout" /\ s8[1][2] = v
      BY <2>2
    <3>2. Stream!IsChunk(s8[1])
      BY <3>1, <2>1 DEF Stream!IsChunk
    <3>3. v = w + 1
      BY <3>1, <3>2, StreamHeadIsNext DEF w
    <3> QED BY <3>2, <3>3, <2>1, <1>1
  <2>4. i - 1 \in 1 .. Len(s8') /\ i - 1 \in 1 .. (n - 1) /\ (i - 1) + 1 = i
    BY <2>3, <1>2
  <2>5. s8'[i - 1] = s8[i]
    BY <2>4, <1>2
  <2> QED BY <2>2, <2>4, <2>5
<1>8. \A i \in 1 .. Len(s8') : s8'[i] = <<"stdout", Stream!EOF>> =>
        s6["stdout"] = "ended" /\ Stream!PipeEnded /\ \A j \in (i + 1) .. Len(s8') : s8'[j][1] # "stdout"
  <2> SUFFICES ASSUME NEW i \in 1 .. Len(s8'), s8'[i] = <<"stdout", Stream!EOF>>
               PROVE  s6["stdout"] = "ended" /\ Stream!PipeEnded /\ \A j \in (i + 1) .. Len(s8') : s8'[j][1] # "stdout"
    OBVIOUS
  <2>1. i + 1 \in 1 .. n /\ s8[i + 1] = <<"stdout", Stream!EOF>>
    BY <1>4
  <2>2. s6["stdout"] = "ended" /\ Stream!PipeEnded /\ \A j \in ((i + 1) + 1) .. n : s8[j][1] # "stdout"
    BY <2>1 DEF Stream!QueueOK, n
  <2>3. ASSUME NEW j \in (i + 1) .. Len(s8')
        PROVE  s8'[j][1] # "stdout"
    <3>1. j \in 1 .. Len(s8') /\ j + 1 \in ((i + 1) + 1) .. n
      BY <1>2
    <3> QED BY <3>1, <2>2, <1>4
  <2> QED BY <2>2, <2>3
<1>9. Stream!PipeEnded' <=> Stream!PipeEnded
  BY DEF Stream!PipeEnded
<1> QED BY <1>5, <1>6, <1>7, <1>8, <1>9 DEF Stream!QueueOK, Stream!IsChunk, Stream!EOF

\* The main thread takes an item from the queue.
LEMMA StreamDrainKeeps ==
  ASSUME Stream!Inv, Stream!Drain
  PROVE  Stream!Inv'
<1> DEFINE kind == s8[1][1]  value == s8[1][2]
<1>1. /\ s1' = s1 /\ s2' = s2 /\ s3' = s3 /\ s4' = s4 /\ s5' = s5 /\ s6' = s6 /\ s7' = s7 /\ s9' = s9
      /\ s10 = "drain" /\ s8 # <<>> /\ s8' = Tail(s8)
  BY DEF Stream!Drain, Stream!childVars, Stream!readerVars
<1>2. /\ Stream!QueueOK /\ Stream!EndedOK /\ Len(s12) <= Stream!Sent /\ s14 = "none" /\ ~s9
  BY <1>1 DEF Stream!Inv, Stream!Active
<1>3. /\ s8 \in Seq(Stream!Kinds \X Stream!Items) /\ Len(s8) <= QueueSize /\ s12 \in Seq(Stream!Items) /\ Len(s12) \in Nat
      /\ s11 \subseteq Stream!Kinds /\ s13 \in BOOLEAN
  BY DEF Stream!Inv, Stream!TypeOK
<1>4. /\ Len(s8) \in Nat /\ Len(s8) > 0 /\ Head(s8) = s8[1] /\ s8[1] \in Stream!Kinds \X Stream!Items
      /\ s8' \in Seq(Stream!Kinds \X Stream!Items) /\ Len(s8') = Len(s8) - 1
      /\ \A i \in 1 .. (Len(s8) - 1) : s8'[i] = s8[i + 1]
  <2> DEFINE S == Stream!Kinds \X Stream!Items
  <2>1. s8 \in Seq(S)
    BY <1>3
  <2> HIDE DEF S
  <2>2. /\ Len(s8) \in Nat /\ Len(s8) > 0 /\ Head(s8) = s8[1] /\ s8[1] \in S
        /\ s8' \in Seq(S) /\ Len(s8') = Len(s8) - 1
        /\ \A i \in 1 .. (Len(s8) - 1) : s8'[i] = s8[i + 1]
    BY <2>1, <1>1, TailFacts
  <2> QED BY <2>2 DEF S
<1>5. Len(s8') <= QueueSize
  BY <1>3, <1>4, StreamFacts
<1>6. kind \in {"stdout", "stderr"} /\ value \in Stream!Items /\ s8[1] = <<kind, value>>
  BY <1>4 DEF Stream!Kinds
<1>7. value \in Int /\ (value = 0 \/ value = -1 \/ value > 0)
  BY <1>6, StreamFacts
<1>8. \/ /\ value = 0 /\ s11' = s11 \cup {kind} /\ s10' = (IF Stream!AllEnded(s11') THEN "wait" ELSE "drain")
         /\ s12' = s12 /\ s13' = s13 /\ s14' = s14
      \/ s10' = "stop" /\ s14' = "raised" /\ s11' = s11 /\ s12' = s12 /\ s13' = s13
      \/ value > 0 /\ kind = "stdout" /\ s12' = Append(s12, value) /\ s10' = s10 /\ s11' = s11 /\ s13' = s13 /\ s14' = s14
      \/ value > 0 /\ kind = "stderr" /\ s10' = s10 /\ s11' = s11 /\ s12' = s12 /\ s13' = s13 /\ s14' = s14
  BY <1>4, <1>6, <1>7 DEF Stream!Drain, Stream!Leave, Stream!EOF, Stream!Broken, Stream!mainVars
<1> HIDE DEF kind, value
<1>9. \A k \in Stream!Kinds : Stream!PipeOK(k)'
  BY <1>1 DEF Stream!Inv, Stream!PipeOK, Stream!Limit
<1>10. Stream!HeldOK' /\ Stream!Sent' = Stream!Sent /\ Stream!PipeEnded' = Stream!PipeEnded
  BY <1>1 DEF Stream!Inv, Stream!HeldOK, Stream!Sent, Stream!InHand, Stream!Taken, Stream!PipeEnded
<1>11. s12' \in Seq(Stream!Items)
  BY <1>3, <1>6, <1>8, AppendFacts
<1>12. s10' \in {"stop", "wait", "drain"} /\ s11' \subseteq Stream!Kinds /\ s13' \in BOOLEAN /\ s14' \in {"none", "raised"}
  BY <1>1, <1>2, <1>3, <1>6, <1>8 DEF Stream!Kinds
<1>13. Stream!TypeOK'
  BY <1>1, <1>4, <1>5, <1>11, <1>12 DEF Stream!Inv, Stream!TypeOK, Stream!Items
<1>14. Stream!CompletedOK'
  BY <1>12 DEF Stream!CompletedOK
<1>15. IF Stream!IsChunk(s8[1]) /\ s10' # "stop"
       THEN value = Len(s12) + 1 /\ value <= Stream!Sent /\ s12' = Append(s12, value) ELSE s12' = s12
  <2>1. Stream!IsChunk(s8[1]) <=> kind = "stdout" /\ value > 0
    BY DEF Stream!IsChunk, kind, value
  <2>2. Stream!IsChunk(s8[1]) => value = Len(s12) + 1 /\ value <= Stream!Sent
    BY <1>1, <1>2, StreamHeadIsNext DEF value
  <2> QED BY <1>1, <1>7, <1>8, <2>1, <2>2
<1>16. Stream!InOrder' /\ (s10' # "stop" => Len(s12') <= Stream!Sent)
  <2>1. CASE s12' = s12
    BY <1>2, <2>1 DEF Stream!Inv, Stream!InOrder
  <2>2. CASE value = Len(s12) + 1 /\ value <= Stream!Sent /\ s12' = Append(s12, value)
    <3>1. /\ Len(s12') = Len(s12) + 1 /\ \A i \in 1 .. Len(s12) : s12'[i] = s12[i]
          /\ s12'[Len(s12) + 1] = value
      BY <1>3, <1>6, <2>2, AppendFacts
    <3>2. \A i \in 1 .. Len(s12) : s12[i] = i
      BY DEF Stream!Inv, Stream!InOrder
    <3>3. ASSUME NEW i \in 1 .. Len(s12')
          PROVE  s12'[i] = i
      <4>1. i \in 1 .. Len(s12) \/ i = Len(s12) + 1
        BY <1>3, <3>1
      <4> QED BY <4>1, <3>1, <3>2, <2>2
    <3>4. Len(s12') <= Stream!Sent
      BY <2>2, <3>1
    <3> QED BY <3>3, <3>4 DEF Stream!InOrder
  <2> QED BY <1>15, <2>1, <2>2
<1>17. ASSUME Stream!Active'
       PROVE  (Stream!QueueOK /\ Stream!EndedOK /\ Len(s12) <= Stream!Sent /\ s14 = "none")'
  <2>1. s10' # "stop" /\ s14' = "none"
    BY <1>2, <1>8, <1>17 DEF Stream!Active
  <2>2. IF Stream!IsChunk(s8[1]) THEN Len(s12') = Len(s12) + 1 ELSE s12' = s12
    BY <1>3, <1>6, <1>15, <2>1, AppendFacts
  <2>3. Stream!QueueOK'
    BY <1>1, <1>2, <1>10, <2>2, StreamPop
  <2>4. \A i \in 1 .. Len(s8') : i + 1 \in 1 .. Len(s8) /\ i + 1 \in 2 .. Len(s8) /\ s8'[i] = s8[i + 1]
    BY <1>4
  <2>5. "stdout" \in s11' => "stdout" \in s11 \/ (kind = "stdout" /\ value = 0)
    BY <1>8
  <2>6. ASSUME "stdout" \in s11'
        PROVE  s6["stdout"] = "ended" /\ Stream!PipeEnded /\ \A i \in 1 .. Len(s8') : s8'[i][1] # "stdout"
    <3>1. CASE "stdout" \in s11
      BY <1>2, <2>4, <3>1 DEF Stream!EndedOK
    <3>2. CASE kind = "stdout" /\ value = 0
      <4>1. s8[1] = <<"stdout", Stream!EOF>> /\ 1 \in 1 .. Len(s8)
        BY <1>4, <1>6, <3>2 DEF Stream!EOF
      <4>2. s6["stdout"] = "ended" /\ Stream!PipeEnded /\ \A j \in (1 + 1) .. Len(s8) : s8[j][1] # "stdout"
        BY <1>2, <4>1 DEF Stream!QueueOK
      <4> QED BY <2>4, <4>2
    <3> QED BY <2>5, <2>6, <3>1, <3>2
  <2>7. s10' = "wait" => "stdout" \in s11'
    BY <1>1, <1>8, StreamFacts DEF Stream!AllEnded
  <2>8. Stream!EndedOK'
    BY <1>1, <1>10, <2>6, <2>7 DEF Stream!EndedOK
  <2> QED BY <1>10, <1>16, <2>1, <2>3, <2>8
<1>18. s9' => ~Stream!Active'
  BY <1>1, <1>2
<1> QED BY <1>9, <1>10, <1>13, <1>14, <1>16, <1>17, <1>18 DEF Stream!Inv

\* Steps of the other components leave the transfer alone.
LEMMA StreamStutter ==
  ASSUME Stream!Inv, UNCHANGED <<s1, s2, s3, s4, s5, s6, s7, s8, s9, s10, s11, s12, s13, s14>>
  PROVE  Stream!Inv'
<1>1. Stream!TypeOK' /\ \A k \in Stream!Kinds : Stream!PipeOK(k)'
  BY DEF Stream!Inv, Stream!TypeOK, Stream!PipeOK, Stream!Items, Stream!Limit
<1>2. (Stream!PipeEnded' <=> Stream!PipeEnded) /\ Stream!Sent' = Stream!Sent /\ Stream!HeldOK'
  BY DEF Stream!Inv, Stream!HeldOK, Stream!InHand, Stream!Taken, Stream!PipeEnded, Stream!Sent
<1>3. Stream!CompletedOK' /\ (Stream!Active' <=> Stream!Active)
  BY DEF Stream!Inv, Stream!CompletedOK, Stream!Active
<1>4. s9' => ~Stream!Active'
  BY <1>3 DEF Stream!Inv
<1> QED BY <1>1, <1>2, <1>3, <1>4, StreamQuiet

\* _stream_asset: where every chunk of stdout is, in each state of the child,
\* the two reader threads, the bounded queue and the main thread.
THEOREM StreamInvHolds == Spec => [](part = "stream" => Stream!Inv)
<1>1. Init => (part = "stream" => Stream!Inv)
  BY StreamInit DEF Init
<1>2. Stream!Inv /\ Stream!Next => Stream!Inv'
  <2>1. ASSUME Stream!Inv, NEW k \in Stream!Kinds,
               Stream!Emit(k) \/ Stream!ClosePipe(k) \/ Stream!Loop(k) \/ Stream!Read(k) \/ Stream!ReadError(k) \/ Stream!Send(k)
        PROVE  Stream!Inv'
    BY <2>1, StreamEmitKeeps, StreamChildKeeps, StreamLoopKeeps, StreamReadKeeps, StreamSendKeeps
  <2>2. Stream!Inv /\ (Stream!Exit \/ Stream!Die \/ Stream!Tick) => Stream!Inv'
    BY StreamChildKeeps
  <2> QED BY <2>1, <2>2, StreamStartKeeps, StreamLeaveKeeps, StreamDrainKeeps DEF Stream!Next
<1>3. (part = "stream" => Stream!Inv) /\ [Next]_vars => (part = "stream" => Stream!Inv)'
  BY <1>2, StreamStutter DEF Next, StreamStep, DownloadStep, PipelineStep, PayloadStep, RegistryStep, WaitStep, vars
<1> QED BY <1>1, <1>3, PTL DEF Spec

-----------------------------------------------------------------------------
(* The download of an inventory *)

\* The constants of the download.
LEMMA DownloadFacts ==
  /\ IsFiniteSet(Assets) /\ Download!NoFile \notin Assets /\ AssetSize \in [Assets -> Nat]
  /\ MaxAttempts \in Nat \ {0} /\ MaxBytes \in Nat
  /\ \A S : Download!Allowance(S) = MaxAttempts * Cardinality(Download!Content(S))
BY DownloadAssumption DEF Download!FilesAssumption, Download!BoundsAssumption, Download!Allowance,
   Download!Cardinality, Download!IsFiniteSet, Cardinality, IsFiniteSet

\* The chunks of some files are finitely many, and those of one file of them as
\* many as its size.
LEMMA ContentFacts ==
  ASSUME NEW S \in SUBSET Assets
  PROVE  /\ IsFiniteSet(Download!Content(S)) /\ Cardinality(Download!Content(S)) \in Nat
         /\ \A f \in S : Cardinality(Download!Content(S)) = Cardinality(Download!Content(S \ {f})) + AssetSize[f]
<1>1. ASSUME NEW f \in Assets
      PROVE  IsFiniteSet({f} \X (1 .. AssetSize[f])) /\ Cardinality({f} \X (1 .. AssetSize[f])) = AssetSize[f]
  <2>1. AssetSize[f] \in Nat
    BY DownloadFacts
  <2>2. IsFiniteSet(1 .. AssetSize[f]) /\ Cardinality(1 .. AssetSize[f]) = AssetSize[f]
    <3>1. PICK n \in Nat : n = AssetSize[f]
      BY <2>1
    <3>2. IsFiniteSet(1 .. n) /\ Cardinality(1 .. n) = IF 1 > n THEN 0 ELSE n - 1 + 1
      BY FS_Interval
    <3> QED BY <3>1, <3>2
  <2>3. IsFiniteSet({f}) /\ Cardinality({f}) = 1
    BY FS_Singleton
  <2>4. /\ IsFiniteSet({f} \X (1 .. AssetSize[f]))
        /\ Cardinality({f} \X (1 .. AssetSize[f])) = Cardinality({f}) * Cardinality(1 .. AssetSize[f])
    BY <2>2, <2>3, FS_Product
  <2> QED BY <2>1, <2>2, <2>3, <2>4
<1>2. ASSUME NEW T \in SUBSET Assets
      PROVE  IsFiniteSet(Download!Content(T)) /\ Cardinality(Download!Content(T)) \in Nat
  <2> DEFINE Blocks == {{f} \X (1 .. AssetSize[f]) : f \in T}
             g == [f \in T |-> {f} \X (1 .. AssetSize[f])]
  <2>1. IsFiniteSet(T)
    BY DownloadFacts, FS_Subset
  <2>2. g \in Surjection(T, Blocks)
    BY DEF Surjection
  <2>3. IsFiniteSet(Blocks)
    BY <2>1, <2>2, FS_Surjection
  <2>4. \A B \in Blocks : IsFiniteSet(B)
    BY <1>1
  <2>5. IsFiniteSet(UNION Blocks)
    BY <2>3, <2>4, FS_UNION
  <2> QED BY <2>5, FS_CardinalityType DEF Download!Content
<1>3. ASSUME NEW f \in S
      PROVE  Cardinality(Download!Content(S)) = Cardinality(Download!Content(S \ {f})) + AssetSize[f]
  <2> DEFINE A == Download!Content(S \ {f})
             B == {f} \X (1 .. AssetSize[f])
  <2>1. Download!Content(S) = A \cup B
    BY DEF Download!Content
  <2>2. A \cap B = {}
    BY DEF Download!Content
  <2>3. IsFiniteSet(A) /\ IsFiniteSet(B) /\ Cardinality(A) \in Nat /\ Cardinality(B) = AssetSize[f] /\ AssetSize[f] \in Nat
    BY <1>1, <1>2, DownloadFacts
  <2> HIDE DEF A, B
  <2>4. Cardinality(A \cup B) = Cardinality(A) + Cardinality(B) - Cardinality(A \cap B)
    BY <2>3, FS_Union
  <2>5. Cardinality(A \cap B) = 0
    BY <2>2, FS_EmptySet
  <2>6. Cardinality(A \cup B) = Cardinality(A) + AssetSize[f]
    BY <2>3, <2>4, <2>5
  <2> QED BY <2>1, <2>6 DEF A
<1> QED BY <1>2, <1>3

\* A file takes its part of the allowance: its size, once for every attempt.
LEMMA AllowanceFacts ==
  ASSUME NEW S \in SUBSET Assets
  PROVE  /\ Download!Allowance(S) \in Nat
         /\ \A f \in S : /\ Download!Allowance(S) = Download!Allowance(S \ {f}) + MaxAttempts * AssetSize[f]
                         /\ MaxAttempts * AssetSize[f] = (MaxAttempts - 1) * AssetSize[f] + AssetSize[f]
                         /\ (MaxAttempts - 1) * AssetSize[f] \in Nat
<1>1. \A m \in Nat \ {0}, c \in Nat, z \in Nat :
        m * c \in Nat /\ m * (c + z) = m * c + m * z /\ m * z = (m - 1) * z + z /\ (m - 1) * z \in Nat
  <2>1. \A m \in Nat, c \in Nat : m * c \in Nat
    OBVIOUS
  <2>2. \A m \in Nat \ {0} : m - 1 \in Nat
    OBVIOUS
  <2>3. \A m \in Nat, c \in Nat, z \in Nat : m * (c + z) = m * c + m * z /\ m * z = (m - 1) * z + z
    OBVIOUS
  <2> QED BY <2>1, <2>2, <2>3
<1>2. Cardinality(Download!Content(S)) \in Nat /\ MaxAttempts \in Nat \ {0}
  BY ContentFacts, DownloadFacts
<1>3. Download!Allowance(S) \in Nat
  BY <1>1, <1>2, DownloadFacts
<1>4. ASSUME NEW f \in S
      PROVE  /\ Download!Allowance(S) = Download!Allowance(S \ {f}) + MaxAttempts * AssetSize[f]
             /\ MaxAttempts * AssetSize[f] = (MaxAttempts - 1) * AssetSize[f] + AssetSize[f]
             /\ (MaxAttempts - 1) * AssetSize[f] \in Nat
  <2>1. AssetSize[f] \in Nat /\ S \ {f} \in SUBSET Assets
    BY DownloadFacts
  <2>2. PICK c \in Nat : c = Cardinality(Download!Content(S \ {f})) /\ Cardinality(Download!Content(S)) = c + AssetSize[f]
    BY <2>1, ContentFacts
  <2>3. MaxAttempts * (c + AssetSize[f]) = MaxAttempts * c + MaxAttempts * AssetSize[f]
    BY <1>1, <1>2, <2>1
  <2> QED BY <1>1, <1>2, <2>1, <2>2, <2>3, DownloadFacts
<1> QED BY <1>3, <1>4

\* Nothing has been downloaded or charged.
LEMMA DownloadInit ==
  ASSUME Download!Init
  PROVE  Download!Inv
<1>1. Download!TypeOK
  <2>1. 0 \in 0 .. MaxAttempts /\ 0 \in 0 .. MaxBytes /\ 0 \in Nat
    BY DownloadFacts
  <2>2. s6 \in 0 .. MaxAttempts /\ s7 \in 0 .. MaxBytes /\ s4 \in Nat
    BY <2>1 DEF Download!Init
  <2> QED BY <2>2 DEF Download!Init, Download!TypeOK
<1>2. Download!Allowance(Assets) \in Nat
  BY AllowanceFacts
<1>3. s7 + Download!Owed <= Download!Allowance(Assets)
  BY <1>2 DEF Download!Init, Download!Owed, Download!Staged
<1> QED BY <1>1, <1>3 DEF Download!Init, Download!Inv, Download!AcceptedExact, Download!NoLeftover, Download!Staged,
            Download!AllowanceSuffices

\* What is owed is never negative, and what has been charged and what is owed
\* fit into the allowance.
LEMMA OwedFacts ==
  ASSUME Download!Inv
  PROVE  /\ s7 \in Nat /\ Download!Allowance(s1) \in Nat /\ Download!Allowance(Assets) \in Nat
         /\ ~Download!Staged => s7 + Download!Allowance(s1) <= Download!Allowance(Assets)
         /\ Download!Staged =>
              /\ AssetSize[s2] \in Nat /\ s4 \in Nat /\ s4 <= AssetSize[s2] /\ s6 \in Nat /\ s6 <= MaxAttempts
              /\ (MaxAttempts - s6) * AssetSize[s2] \in Nat
              /\ s7 + (Download!Allowance(s1) + ((MaxAttempts - s6) * AssetSize[s2] + (AssetSize[s2] - s4))) <= Download!Allowance(Assets)
<1>1. s7 \in Nat /\ Download!Allowance(s1) \in Nat /\ Download!Allowance(Assets) \in Nat
  BY AllowanceFacts, DownloadFacts DEF Download!Inv, Download!TypeOK
<1>2. ~Download!Staged => s7 + Download!Allowance(s1) <= Download!Allowance(Assets)
  BY <1>1 DEF Download!Inv, Download!Owed
<1>3. ASSUME Download!Staged
      PROVE  /\ AssetSize[s2] \in Nat /\ s4 \in Nat /\ s4 <= AssetSize[s2] /\ s6 \in Nat /\ s6 <= MaxAttempts
             /\ (MaxAttempts - s6) * AssetSize[s2] \in Nat
             /\ s7 + (Download!Allowance(s1) + ((MaxAttempts - s6) * AssetSize[s2] + (AssetSize[s2] - s4))) <= Download!Allowance(Assets)
  <2>1. AssetSize[s2] \in Nat /\ s4 \in Nat /\ s4 <= AssetSize[s2] /\ s6 \in Nat /\ s6 <= MaxAttempts
    BY <1>3, DownloadFacts DEF Download!Inv, Download!TypeOK
  <2>2. MaxAttempts - s6 \in Nat
    BY <2>1, DownloadFacts
  <2>3. \A m \in Nat, z \in Nat : m * z \in Nat
    OBVIOUS
  <2>4. (MaxAttempts - s6) * AssetSize[s2] \in Nat
    BY <2>1, <2>2, <2>3
  <2> QED BY <1>3, <2>1, <2>4 DEF Download!Inv, Download!Owed
<1> QED BY <1>1, <1>2, <1>3

\* An error ends the download, and takes the own file away.
LEMMA RaiseKeeps ==
  ASSUME Download!Inv, NEW why \in {"budget", "exists", "surplus", "mismatch", "replaced", "denied", "timeout"},
         s10' = "failed", s11' = why, s3' \in {"nobody", "foreign"},
         s1' = s1, s2' = s2, s4' = s4, s5' = s5, s6' = s6, s7' = s7, s8' = s8, s9' = s9,
         why = "budget" => ~(MaxBytes >= Download!Allowance(Assets))
  PROVE  Download!Inv'
<1>1. Download!TypeOK'
  BY DEF Download!Inv, Download!TypeOK
<1>2. Download!AcceptedExact' /\ Download!NoLeftover' /\ ~Download!Staged'
  BY DEF Download!Inv, Download!AcceptedExact, Download!NoLeftover, Download!Staged
<1>3. Download!Allowance(s1)' = Download!Allowance(s1) /\ Download!Allowance(Assets)' = Download!Allowance(Assets)
  BY DEF Download!Allowance, Download!Content
<1>4. s7 + Download!Allowance(s1) <= Download!Allowance(Assets) /\ Download!Allowance(s1) \in Nat
  <2>1. CASE ~Download!Staged
    BY <2>1, OwedFacts
  <2>2. CASE Download!Staged
    <3>1. PICK z \in Nat, w \in Nat, p \in Nat : z = AssetSize[s2] /\ w = s4 /\ p = (MaxAttempts - s6) * AssetSize[s2]
      BY <2>2, OwedFacts
    <3>2. s7 + (Download!Allowance(s1) + (p + (z - w))) <= Download!Allowance(Assets) /\ w <= z
      BY <2>2, <3>1, OwedFacts
    <3> QED BY <3>2, OwedFacts
  <2> QED BY <2>1, <2>2
<1>5. Download!Owed' = Download!Allowance(s1)
  BY <1>2, <1>3, <1>4 DEF Download!Owed
<1>6. (s7 + Download!Owed <= Download!Allowance(Assets))'
  BY <1>3, <1>4, <1>5
<1>7. Download!AllowanceSuffices'
  BY <1>3 DEF Download!AllowanceSuffices
<1> QED BY <1>1, <1>2, <1>6, <1>7 DEF Download!Inv, Download!Staged

\* The destination after an error of a staged file.
LEMMA RaiseFacts ==
  ASSUME Download!Inv, NEW why, Download!Raise(why), Download!Staged \/ s10 = "next"
  PROVE  /\ s10' = "failed" /\ s11' = why /\ s3' \in {"nobody", "foreign"}
         /\ s1' = s1 /\ s2' = s2 /\ s4' = s4 /\ s5' = s5 /\ s6' = s6 /\ s7' = s7 /\ s8' = s8 /\ s9' = s9
<1>1. Download!Staged => s2 # Download!NoFile
  BY DownloadFacts DEF Download!Inv
<1>2. s10 = "next" => s3 # "own"
  BY DEF Download!Inv, Download!NoLeftover
<1> QED BY <1>1, <1>2 DEF Download!Raise, Download!RemoveOwn, Download!Inv, Download!TypeOK

\* A file is started: its part of the allowance is its own from now on.
LEMMA DownloadBeginKeeps ==
  ASSUME Download!Inv, Download!Begin
  PROVE  Download!Inv'
<1>1. PICK f \in s1 :
        IF ~Download!Fits(AssetSize[f]) THEN Download!Raise("budget")
        ELSE IF s3 # "nobody" THEN Download!Raise("exists")
        ELSE /\ s2' = f /\ s1' = s1 \ {f}
             /\ s3' = "own" /\ s4' = 0 /\ s5' = TRUE
             /\ s6' = 1 /\ s8' = FALSE /\ s10' = "stream"
             /\ s7' = s7 /\ s9' = s9 /\ s11' = s11
  BY DEF Download!Begin
<1>2. s10 = "next" /\ ~Download!Staged
  BY DEF Download!Begin, Download!Staged
<1>3. f \in Assets /\ AssetSize[f] \in Nat /\ s1 \in SUBSET Assets /\ s1 \ {f} \in SUBSET Assets
  BY DownloadFacts DEF Download!Inv, Download!TypeOK
<1>4. /\ s7 \in Nat /\ Download!Allowance(Assets) \in Nat /\ Download!Allowance(s1 \ {f}) \in Nat
      /\ s7 + Download!Allowance(s1) <= Download!Allowance(Assets)
  BY <1>2, <1>3, OwedFacts, AllowanceFacts
<1>5. /\ Download!Allowance(s1) = Download!Allowance(s1 \ {f}) + ((MaxAttempts - 1) * AssetSize[f] + AssetSize[f])
      /\ (MaxAttempts - 1) * AssetSize[f] \in Nat
  BY <1>3, AllowanceFacts
<1>6. CASE Download!Raise("budget") /\ ~Download!Fits(AssetSize[f])
  <2>1. ~(MaxBytes >= Download!Allowance(Assets))
    <3>1. PICK p \in Nat, a \in Nat, z \in Nat, all \in Nat :
            /\ p = (MaxAttempts - 1) * AssetSize[f] /\ a = Download!Allowance(s1 \ {f}) /\ z = AssetSize[f]
            /\ all = Download!Allowance(Assets)
      BY <1>3, <1>4, <1>5
    <3>2. s7 + (a + (p + z)) <= all
      BY <1>4, <1>5, <3>1
    <3>3. ~(z <= MaxBytes - s7)
      BY <1>6, <3>1 DEF Download!Fits
    <3>4. ~(MaxBytes >= all)
      BY <1>4, <3>2, <3>3, DownloadFacts
    <3> QED BY <3>1, <3>4
  <2> QED BY <1>2, <1>6, <2>1, RaiseFacts, RaiseKeeps
<1>7. CASE Download!Raise("exists")
  <2>1. /\ s10' = "failed" /\ s11' = "exists" /\ s3' \in {"nobody", "foreign"}
        /\ s1' = s1 /\ s2' = s2 /\ s4' = s4 /\ s5' = s5 /\ s6' = s6 /\ s7' = s7 /\ s8' = s8 /\ s9' = s9
    BY <1>2, <1>7, RaiseFacts
  <2> QED BY <2>1, RaiseKeeps
<1>8. CASE /\ s2' = f /\ s1' = s1 \ {f} /\ s3' = "own" /\ s4' = 0 /\ s5' = TRUE
           /\ s6' = 1 /\ s8' = FALSE /\ s10' = "stream" /\ s7' = s7 /\ s9' = s9 /\ s11' = s11
  <2>1. Download!TypeOK'
    <3>1. 1 \in 0 .. MaxAttempts /\ 0 \in Nat
      BY DownloadFacts
    <3>2. s6' \in 0 .. MaxAttempts /\ s4' \in Nat
      BY <1>8, <3>1
    <3> QED BY <1>3, <1>8, <3>2 DEF Download!Inv, Download!TypeOK
  <2>2. Download!AcceptedExact' /\ Download!NoLeftover' /\ Download!Staged'
    BY <1>8 DEF Download!Inv, Download!AcceptedExact, Download!NoLeftover, Download!Staged
  <2>3. s2' \in Assets /\ s4' <= AssetSize[s2']
    BY <1>3, <1>8
  <2>4. (s7 + Download!Owed <= Download!Allowance(Assets))'
    <3>1. Download!Owed' = Download!Allowance(s1 \ {f}) + ((MaxAttempts - 1) * AssetSize[f] + (AssetSize[f] - 0))
      BY <1>8, <2>2 DEF Download!Owed, Download!Allowance, Download!Content
    <3>2. Download!Owed' = Download!Allowance(s1)
      BY <1>3, <1>5, <3>1
    <3>3. Download!Allowance(Assets)' = Download!Allowance(Assets)
      BY DEF Download!Allowance, Download!Content
    <3> QED BY <1>4, <1>8, <3>2, <3>3
  <2>5. Download!AllowanceSuffices'
    BY <1>8 DEF Download!Inv, Download!AllowanceSuffices, Download!Allowance, Download!Content
  <2> QED BY <1>8, <2>1, <2>2, <2>3, <2>4, <2>5 DEF Download!Inv
<1> QED BY <1>1, <1>6, <1>7, <1>8

\* A chunk is written and charged, or refused.
LEMMA DownloadWriteKeeps ==
  ASSUME Download!Inv, Download!Write
  PROVE  Download!Inv'
<1>1. s10 = "stream" /\ Download!Staged
  BY DEF Download!Write, Download!Staged
<1>2. PICK z \in Nat, w \in Nat, p \in Nat, a \in Nat, all \in Nat :
        /\ z = AssetSize[s2] /\ w = s4 /\ p = (MaxAttempts - s6) * AssetSize[s2] /\ a = Download!Allowance(s1)
        /\ all = Download!Allowance(Assets)
  BY <1>1, OwedFacts
<1>3. s7 \in Nat /\ s7 + (a + (p + (z - w))) <= all /\ w <= z
  BY <1>1, <1>2, OwedFacts
<1>4. CASE Download!Raise("surplus")
  <2>1. /\ s10' = "failed" /\ s11' = "surplus" /\ s3' \in {"nobody", "foreign"}
        /\ s1' = s1 /\ s2' = s2 /\ s4' = s4 /\ s5' = s5 /\ s6' = s6 /\ s7' = s7 /\ s8' = s8 /\ s9' = s9
    BY <1>1, <1>4, RaiseFacts
  <2> QED BY <2>1, RaiseKeeps
<1>5. CASE s4 < AssetSize[s2] /\ ~Download!Fits(1) /\ Download!Raise("budget")
  <2>1. ~(MaxBytes >= all)
    <3>1. ~(1 <= MaxBytes - s7) /\ w < z
      BY <1>2, <1>5 DEF Download!Fits
    <3> QED BY <1>3, <3>1, DownloadFacts
  <2>2. ~(MaxBytes >= Download!Allowance(Assets))
    BY <1>2, <2>1
  <2> QED BY <1>1, <1>5, <2>2, RaiseFacts, RaiseKeeps
<1>6. CASE /\ s4 < AssetSize[s2] /\ Download!Fits(1)
           /\ s4' = s4 + 1 /\ s7' = s7 + 1 /\ s5' \in {s5, FALSE}
           /\ s1' = s1 /\ s2' = s2 /\ s3' = s3 /\ s6' = s6 /\ s8' = s8 /\ s9' = s9 /\ s10' = s10 /\ s11' = s11
  <2>1. s4' \in Nat /\ s4' = w + 1 /\ w < z /\ s7' \in 0 .. MaxBytes
    BY <1>2, <1>3, <1>6, DownloadFacts DEF Download!Fits
  <2>2. Download!TypeOK'
    BY <1>6, <2>1 DEF Download!Inv, Download!TypeOK
  <2>3. Download!AcceptedExact' /\ Download!NoLeftover' /\ Download!Staged'
    BY <1>1, <1>6 DEF Download!Inv, Download!AcceptedExact, Download!NoLeftover, Download!Staged
  <2>4. s2' \in Assets /\ s4' <= AssetSize[s2']
    <3>1. s2 \in Assets /\ w + 1 <= z
      BY <1>1, <2>1 DEF Download!Inv
    <3> QED BY <1>2, <1>6, <2>1, <3>1
  <2>5. (s7 + Download!Owed <= Download!Allowance(Assets))'
    <3>1. Download!Owed' = Download!Allowance(s1) + ((MaxAttempts - s6) * AssetSize[s2] + (AssetSize[s2] - s4'))
      BY <1>6, <2>3 DEF Download!Owed, Download!Allowance, Download!Content
    <3>2. Download!Owed' = a + (p + (z - (w + 1)))
      BY <1>2, <2>1, <3>1
    <3>3. Download!Allowance(Assets)' = all
      BY <1>2 DEF Download!Allowance, Download!Content
    <3>4. (s7 + 1) + (a + (p + (z - (w + 1)))) <= all
      BY <1>3
    <3> QED BY <1>6, <3>2, <3>3, <3>4
  <2>6. Download!AllowanceSuffices'
    BY <1>6 DEF Download!Inv, Download!AllowanceSuffices, Download!Allowance, Download!Content
  <2> QED BY <1>1, <1>6, <2>2, <2>3, <2>4, <2>5, <2>6 DEF Download!Inv
<1> QED BY <1>4, <1>5, <1>6 DEF Download!Write

\* A step that leaves the staged file, the charges and the outcome alone.
LEMMA DownloadQuiet ==
  ASSUME Download!Inv, Download!TypeOK', Download!NoLeftover',
         s1' = s1, s2' = s2, s4' = s4, s5' = s5, s6' = s6, s7' = s7, s9' = s9, s11' = s11,
         Download!Staged' <=> Download!Staged,
         s10' = "retry" => s6' < MaxAttempts,
         s10' = "accept" => s4' = AssetSize[s2'] /\ s5'
  PROVE  Download!Inv'
<1>1. Download!AcceptedExact' /\ Download!AllowanceSuffices'
  BY DEF Download!Inv, Download!AcceptedExact, Download!AllowanceSuffices, Download!Allowance, Download!Content
<1>2. Download!Owed' = Download!Owed /\ Download!Allowance(Assets)' = Download!Allowance(Assets)
  BY DEF Download!Owed, Download!Allowance, Download!Content
<1>3. (s7 + Download!Owed <= Download!Allowance(Assets))'
  BY <1>2 DEF Download!Inv
<1>4. Download!Staged' => s2' \in Assets /\ s4' <= AssetSize[s2']
  BY DEF Download!Inv
<1> QED BY <1>1, <1>3, <1>4 DEF Download!Inv

\* The transfer is accepted, refused or repeated.
LEMMA DownloadStreamEndsKeeps ==
  ASSUME Download!Inv, Download!StreamEnds
  PROVE  Download!Inv'
<1>1. /\ s10 = "stream" /\ Download!Staged
      /\ s1' = s1 /\ s2' = s2 /\ s4' = s4 /\ s5' = s5 /\ s6' = s6 /\ s7' = s7 /\ s8' = s8 /\ s9' = s9
  BY DEF Download!StreamEnds, Download!Staged
<1>2. CASE s10' = "failed" /\ s11' = "mismatch" /\ Download!RemoveOwn
  <2>1. s3' \in {"nobody", "foreign"}
    BY <1>2 DEF Download!RemoveOwn, Download!Inv, Download!TypeOK
  <2> QED BY <1>1, <1>2, <2>1, RaiseKeeps
<1>3. CASE /\ s3' = s3 /\ s11' = s11
           /\ \/ s10' = "accept" /\ s4 = AssetSize[s2] /\ s5
              \/ s10' = "retry" /\ s6 < MaxAttempts
  <2>1. Download!TypeOK' /\ Download!NoLeftover' /\ Download!Staged'
    BY <1>1, <1>3 DEF Download!Inv, Download!TypeOK, Download!NoLeftover, Download!Staged
  <2>2. (s10' = "retry" => s6' < MaxAttempts) /\ (s10' = "accept" => s4' = AssetSize[s2'] /\ s5')
    BY <1>1, <1>3
  <2> QED BY <1>1, <1>3, <2>1, <2>2, DownloadQuiet
<1> QED BY <1>2, <1>3 DEF Download!StreamEnds

\* An attempt that is left pays for a whole file.
LEMMA DownloadRetryKeeps ==
  ASSUME Download!Inv, Download!Retry
  PROVE  Download!Inv'
<1>1. s10 = "retry" /\ Download!Staged
  BY DEF Download!Retry, Download!Staged
<1>2. s6 < MaxAttempts /\ s2 \in Assets
  BY <1>1 DEF Download!Inv
<1>3. PICK z \in Nat, w \in Nat, p \in Nat, a \in Nat, all \in Nat :
        /\ z = AssetSize[s2] /\ w = s4 /\ p = (MaxAttempts - (s6 + 1)) * AssetSize[s2] /\ a = Download!Allowance(s1)
        /\ all = Download!Allowance(Assets) /\ (MaxAttempts - s6) * AssetSize[s2] = p + z
  <2>1. AssetSize[s2] \in Nat /\ s6 \in Nat /\ MaxAttempts - (s6 + 1) \in Nat
    BY <1>1, <1>2, OwedFacts, DownloadFacts
  <2>2. \A m \in Nat, z \in Nat : m * z \in Nat
    OBVIOUS
  <2>3. (MaxAttempts - (s6 + 1)) * AssetSize[s2] \in Nat
    BY <2>1, <2>2
  <2>4. \A m \in Nat, z \in Nat : (m + 1) * z = m * z + z
    OBVIOUS
  <2>5. ((MaxAttempts - (s6 + 1)) + 1) * AssetSize[s2] = (MaxAttempts - (s6 + 1)) * AssetSize[s2] + AssetSize[s2]
    BY <2>1, <2>4
  <2>6. (MaxAttempts - (s6 + 1)) + 1 = MaxAttempts - s6
    BY <2>1, DownloadFacts
  <2> QED BY <1>1, <2>1, <2>3, <2>5, <2>6, OwedFacts
<1>4. s7 \in Nat /\ s7 + (a + ((p + z) + (z - w))) <= all /\ w <= z
  BY <1>1, <1>3, OwedFacts
<1>5. CASE Download!Raise("replaced")
  <2>1. /\ s10' = "failed" /\ s11' = "replaced" /\ s3' \in {"nobody", "foreign"}
        /\ s1' = s1 /\ s2' = s2 /\ s4' = s4 /\ s5' = s5 /\ s6' = s6 /\ s7' = s7 /\ s8' = s8 /\ s9' = s9
    BY <1>1, <1>5, RaiseFacts
  <2> QED BY <2>1, RaiseKeeps
<1>6. CASE ~Download!Fits(AssetSize[s2]) /\ Download!Raise("budget")
  <2>1. ~(MaxBytes >= all)
    <3>1. ~(z <= MaxBytes - s7)
      BY <1>3, <1>6 DEF Download!Fits
    <3> QED BY <1>4, <3>1, DownloadFacts
  <2>2. ~(MaxBytes >= Download!Allowance(Assets))
    BY <1>3, <2>1
  <2> QED BY <1>1, <1>6, <2>2, RaiseFacts, RaiseKeeps
<1>7. CASE /\ s4' = 0 /\ s5' = TRUE /\ s6' = s6 + 1 /\ s10' = "stream"
           /\ s1' = s1 /\ s2' = s2 /\ s3' = s3 /\ s7' = s7 /\ s8' = s8 /\ s9' = s9 /\ s11' = s11
  <2>1. s6' \in 0 .. MaxAttempts /\ s4' \in Nat
    BY <1>1, <1>2, <1>7, OwedFacts, DownloadFacts
  <2>2. Download!TypeOK'
    BY <1>7, <2>1 DEF Download!Inv, Download!TypeOK
  <2>3. Download!AcceptedExact' /\ Download!NoLeftover' /\ Download!Staged'
    BY <1>7 DEF Download!Inv, Download!AcceptedExact, Download!NoLeftover, Download!Staged
  <2>4. s2' \in Assets /\ s4' <= AssetSize[s2']
    BY <1>2, <1>3, <1>7
  <2>5. (s7 + Download!Owed <= Download!Allowance(Assets))'
    <3>1. Download!Owed' = Download!Allowance(s1) + ((MaxAttempts - (s6 + 1)) * AssetSize[s2] + (AssetSize[s2] - 0))
      BY <1>7, <2>3 DEF Download!Owed, Download!Allowance, Download!Content
    <3>2. Download!Owed' = a + (p + (z - 0))
      BY <1>3, <3>1
    <3>3. Download!Allowance(Assets)' = all
      BY <1>3 DEF Download!Allowance, Download!Content
    <3>4. s7 + (a + (p + (z - 0))) <= all
      BY <1>4
    <3> QED BY <1>7, <3>2, <3>3, <3>4
  <2>6. Download!AllowanceSuffices'
    BY <1>7 DEF Download!Inv, Download!AllowanceSuffices, Download!Allowance, Download!Content
  <2> QED BY <1>7, <2>2, <2>3, <2>4, <2>5, <2>6 DEF Download!Inv
<1> QED BY <1>5, <1>6, <1>7 DEF Download!Retry

\* The verified file is taken away.
LEMMA DownloadAcceptKeeps ==
  ASSUME Download!Inv, Download!Accept
  PROVE  Download!Inv'
<1>1. s10 = "accept" /\ Download!Staged
  BY DEF Download!Accept, Download!Staged
<1>2. s2 \in Assets /\ s4 = AssetSize[s2] /\ s5 /\ s4 \in Nat /\ s5 \in BOOLEAN
  BY <1>1 DEF Download!Inv, Download!TypeOK
<1>3. CASE Download!Raise("replaced")
  <2>1. /\ s10' = "failed" /\ s11' = "replaced" /\ s3' \in {"nobody", "foreign"}
        /\ s1' = s1 /\ s2' = s2 /\ s4' = s4 /\ s5' = s5 /\ s6' = s6 /\ s7' = s7 /\ s8' = s8 /\ s9' = s9
    BY <1>1, <1>3, RaiseFacts
  <2> QED BY <2>1, RaiseKeeps
<1>4. CASE /\ s9' = s9 \cup {[name |-> s2, size |-> s4, intact |-> s5]}
           /\ s2' = Download!NoFile /\ s3' = "nobody" /\ s10' = (IF s1 = {} THEN "done" ELSE "next")
           /\ s1' = s1 /\ s4' = s4 /\ s5' = s5 /\ s6' = s6 /\ s7' = s7 /\ s8' = s8 /\ s11' = s11
  <2>1. s9' \subseteq [name : Assets, size : Nat, intact : BOOLEAN]
    <3>1. [name |-> s2, size |-> s4, intact |-> s5] \in [name : Assets, size : Nat, intact : BOOLEAN]
      BY <1>2
    <3>2. s9 \subseteq [name : Assets, size : Nat, intact : BOOLEAN]
      BY DEF Download!Inv, Download!TypeOK
    <3> QED BY <1>4, <3>1, <3>2
  <2>2. s10' \in {"done", "next"}
    BY <1>4
  <2>3. Download!TypeOK'
    BY <1>4, <2>1, <2>2 DEF Download!Inv, Download!TypeOK
  <2>4. Download!AcceptedExact'
    BY <1>2, <1>4 DEF Download!Inv, Download!AcceptedExact
  <2>5. Download!NoLeftover' /\ ~Download!Staged'
    BY <1>4, <2>2 DEF Download!NoLeftover, Download!Staged
  <2>6. (s7 + Download!Owed <= Download!Allowance(Assets))'
    <3>1. PICK z \in Nat, w \in Nat, p \in Nat, a \in Nat, all \in Nat :
            /\ z = AssetSize[s2] /\ w = s4 /\ p = (MaxAttempts - s6) * AssetSize[s2] /\ a = Download!Allowance(s1)
            /\ all = Download!Allowance(Assets)
      BY <1>1, OwedFacts
    <3>2. s7 \in Nat /\ s7 + (a + (p + (z - w))) <= all /\ w <= z
      BY <1>1, <3>1, OwedFacts
    <3>3. Download!Owed' = a + 0 /\ Download!Allowance(Assets)' = all
      BY <1>4, <2>5, <3>1 DEF Download!Owed, Download!Allowance, Download!Content
    <3>4. s7 + (a + 0) <= all
      BY <3>2
    <3> QED BY <1>4, <3>3, <3>4
  <2>7. Download!AllowanceSuffices'
    BY <1>4 DEF Download!Inv, Download!AllowanceSuffices, Download!Allowance, Download!Content
  <2> QED BY <2>2, <2>3, <2>4, <2>5, <2>6, <2>7 DEF Download!Inv
<1> QED BY <1>3, <1>4 DEF Download!Accept

\* A denial, the deadline, or somebody else at the destination.
LEMMA DownloadOthersKeep ==
  ASSUME Download!Inv, Download!Abort \/ Download!Expire \/ Download!TimedOut \/ Download!Replace
  PROVE  Download!Inv'
<1>1. CASE Download!Abort \/ Download!TimedOut
  <2>1. PICK why \in {"denied", "timeout"} : Download!Raise(why)
    BY <1>1 DEF Download!Abort, Download!TimedOut
  <2>2. Download!Staged
    BY <1>1 DEF Download!Abort, Download!TimedOut, Download!Staged
  <2>3. /\ s10' = "failed" /\ s11' = why /\ s3' \in {"nobody", "foreign"}
        /\ s1' = s1 /\ s2' = s2 /\ s4' = s4 /\ s5' = s5 /\ s6' = s6 /\ s7' = s7 /\ s8' = s8 /\ s9' = s9
    BY <2>1, <2>2, RaiseFacts
  <2> QED BY <2>3, RaiseKeeps
<1>2. CASE Download!Expire \/ Download!Replace
  <2>1. /\ s1' = s1 /\ s2' = s2 /\ s4' = s4 /\ s5' = s5 /\ s6' = s6 /\ s7' = s7 /\ s9' = s9 /\ s10' = s10 /\ s11' = s11
        /\ s8' \in BOOLEAN /\ (s3' = s3 \/ s3' = "foreign")
    BY <1>2 DEF Download!Expire, Download!Replace, Download!staging, Download!Inv, Download!TypeOK
  <2>2. Download!TypeOK' /\ Download!NoLeftover' /\ (Download!Staged' <=> Download!Staged)
    BY <2>1 DEF Download!Inv, Download!TypeOK, Download!NoLeftover, Download!Staged
  <2>3. (s10' = "retry" => s6' < MaxAttempts) /\ (s10' = "accept" => s4' = AssetSize[s2'] /\ s5')
    BY <2>1 DEF Download!Inv
  <2> QED BY <2>1, <2>2, <2>3, DownloadQuiet
<1> QED BY <1>1, <1>2

\* Steps of the other components leave the download alone.
LEMMA DownloadStutter ==
  ASSUME Download!Inv, UNCHANGED <<s1, s2, s3, s4, s5, s6, s7, s8, s9, s10, s11>>
  PROVE  Download!Inv'
<1>1. Download!TypeOK' /\ Download!NoLeftover' /\ (Download!Staged' <=> Download!Staged)
  BY DEF Download!Inv, Download!TypeOK, Download!NoLeftover, Download!Staged
<1>2. (s10' = "retry" => s6' < MaxAttempts) /\ (s10' = "accept" => s4' = AssetSize[s2'] /\ s5')
  BY DEF Download!Inv
<1> QED BY <1>1, <1>2, DownloadQuiet

\* download_asset and DownloadBudget: the invariant of the download holds for
\* every inventory, every number of attempts and every budget.
THEOREM DownloadInvHolds == Spec => [](part = "download" => Download!Inv)
<1>1. Init => (part = "download" => Download!Inv)
  BY DownloadInit DEF Init
<1>2. Download!Inv /\ Download!Next => Download!Inv'
  BY DownloadBeginKeeps, DownloadWriteKeeps, DownloadStreamEndsKeeps, DownloadRetryKeeps, DownloadAcceptKeeps,
     DownloadOthersKeep DEF Download!Next, Download!Step
<1>3. (part = "download" => Download!Inv) /\ [Next]_vars => (part = "download" => Download!Inv)'
  BY <1>2, DownloadStutter DEF Next, StreamStep, DownloadStep, PipelineStep, PayloadStep, RegistryStep, WaitStep, vars
<1> QED BY <1>1, <1>3, PTL DEF Spec

\* download_asset and DownloadBudget: a file is accepted only with exactly its
\* bytes, the allowance of one inventory per attempt never refuses a retry, and
\* no way out leaves an incomplete file behind.
THEOREM DownloadIsSound == Spec => []DownloadSound
<1>1. (part = "download" => Download!Inv) => DownloadSound
  BY DEF Download!Inv, DownloadSound
<1> QED BY DownloadInvHolds, <1>1, PTL

\* _stream_asset: the file receives the child's chunks without a gap, a
\* repetition or a swap, and a transfer that completes has all of them, for
\* every payload, queue and pipe size.
THEOREM ReturnIsComplete == Spec => []CompleteOnReturn
<1>1. (part = "stream" => Stream!Inv) /\ (part = "download" => Download!Inv) => CompleteOnReturn
  BY DEF Stream!Inv, Download!Inv, Stream!CompletedOK, Stream!CompleteOnReturn, CompleteOnReturn, TypeOK
<1> QED BY StreamInvHolds, DownloadInvHolds, <1>1, PTL

-----------------------------------------------------------------------------
(* The wait for the executing run                                          *)

\* The named versions of GitHub's record are numbers.
USE DEF Wait!Previous, Wait!Queued, Wait!GateQueued, Wait!GateRunning, Wait!GatePassed, Wait!JobStarted,
        Wait!StepRunning, Wait!Ended, Wait!Rerun, Wait!RerunRunning

(***************************************************************************)
(* The inductive invariant of the wait: a round that begins with the end   *)
(* visible everywhere is refused in its first answer, a first attempt has  *)
(* no clones, and time past the deadline is time spent in requests.        *)
(***************************************************************************)
RoundInv ==
    /\ s8 >= Wait!Ended => s10 = "refused"
    /\ s1.attempt = 1 \/ ~s1.gate => s2 = {}
    /\ s5 <= Deadline + s6
    /\ s7 = "sleep" => s5 < Deadline

WaitInv == Wait!TypeOK /\ RoundInv /\ Wait!EndedNotAccepted /\ Wait!EvidenceIsFresh /\ Wait!RefusedForCause

(***************************************************************************)
(* What the answers say of GitHub's real record: a completed attempt or    *)
(* job, and a foreign attempt, show an end or the attempt before.          *)
(***************************************************************************)
LEMMA AnswersAreTrue ==
    ASSUME Wait!TypeOK, NEW v \in Wait!Answers
    PROVE  /\ v \in Nat /\ s4 <= v /\ v <= s3
           /\ v \in Wait!AttemptAnswers /\ Wait!AttemptStatus(v) = "completed" => v >= Wait!Ended
           /\ v \in Wait!AttemptAnswers /\ Wait!JobStatus(v) = "completed" => v >= Wait!Ended
           /\ Wait!RunAttempt(v) # s1.attempt \/ Wait!RunStatus(v) = "completed" => v >= Wait!Ended \/ v = Wait!Previous
           /\ v >= Wait!Ended => Wait!RunAttempt(v) # s1.attempt \/ Wait!RunStatus(v) = "completed"
BY DEF Wait!TypeOK, Wait!Answers, Wait!AttemptAnswers, Wait!AttemptStatus, Wait!JobStatus, Wait!RunAttempt, Wait!RunStatus, Wait!Calls

(***************************************************************************)
(* A step of the caller summarised: what it reads decides how it moves.    *)
(***************************************************************************)
LEMMA PollSummary ==
    ASSUME Wait!TypeOK, Wait!ReadRun \/ Wait!ReadAttempt \/ Wait!ReadJobs \/ Wait!ReadGate \/ Wait!ReadBoundary
    PROVE  /\ UNCHANGED <<s1, s2, s3, s4, s5, s6>>
           /\ s10 = "none"
           /\ \/ s7' \in Wait!Phases \ {"done", "run"} /\ s10' = "none"
              \/ s7' = "done" /\ s10' \in {"accepted", "refused", "expired"}
           /\ s7' = "sleep" => s5 < Deadline
           /\ s10' = "accepted" =>
                 s5 < Deadline /\ (~s1.gate \/ s1.attempt = 1 \/ s2 = {})
           /\ s10' = "refused" => s3 >= Wait!Ended \/ s9' = "previous" \/ s2 # {}
           /\ \/ s8' = s8
              \/ s8' = s4 /\ (s4 >= Wait!Ended => s10' = "refused")
           /\ s9' \in {"current", "previous"}
<1>1. CASE Wait!ReadRun
  <2>1. PICK v \in Wait!Answers :
          /\ s9' = IF v = Wait!Previous THEN "previous" ELSE s9
          /\ IF Wait!RunAttempt(v) # s1.attempt \/ Wait!RunStatus(v) = "completed"
             THEN Wait!End("refused")
             ELSE IF s1.context /\ (s1.proof \/ Wait!RunStatus(v) # "in_progress")
             THEN Wait!BeforeDeadline("attempt")
             ELSE IF Wait!RunStatus(v) = "in_progress" THEN Wait!Executing ELSE Wait!Pending
    BY <1>1 DEF Wait!ReadRun
  <2>2. /\ v \in Nat /\ s4 <= v /\ v <= s3
        /\ Wait!RunAttempt(v) # s1.attempt \/ Wait!RunStatus(v) = "completed" => v >= Wait!Ended \/ v = Wait!Previous
        /\ v >= Wait!Ended => Wait!RunAttempt(v) # s1.attempt \/ Wait!RunStatus(v) = "completed"
    BY AnswersAreTrue
  <2>3. s7 = "run" /\ s8' = s4 /\ UNCHANGED <<s1, s2, s3, s4, s5, s6>>
    BY <1>1 DEF Wait!ReadRun, Wait!github
  <2>4. s10 = "none"
    BY <2>3 DEF Wait!TypeOK
  <2>5. CASE Wait!RunAttempt(v) # s1.attempt \/ Wait!RunStatus(v) = "completed"
    BY <2>1, <2>2, <2>3, <2>4, <2>5 DEF Wait!End, Wait!TypeOK
  <2>6. CASE ~(Wait!RunAttempt(v) # s1.attempt \/ Wait!RunStatus(v) = "completed")
    <3>1. ~(v >= Wait!Ended)
      BY <2>2, <2>6
    <3>2. ~(s4 >= Wait!Ended)
      BY <2>2, <3>1 DEF Wait!TypeOK
    <3>3. s9' \in {"current", "previous"}
      BY <2>1 DEF Wait!TypeOK
    <3>4. \/ Wait!BeforeDeadline("attempt") \/ Wait!Executing \/ Wait!Pending
      BY <2>1, <2>6
    <3> QED
      BY <2>3, <2>4, <3>2, <3>3, <3>4
         DEF Wait!BeforeDeadline, Wait!Executing, Wait!Pending, Wait!Accept, Wait!Ask, Wait!End, Wait!Phases
  <2> QED
    BY <2>5, <2>6
<1>2. CASE Wait!ReadAttempt
  <2>1. PICK v \in Wait!AttemptAnswers :
          IF Wait!AttemptStatus(v) = "completed" THEN Wait!End("refused")
          ELSE IF Wait!AttemptStatus(v) = "in_progress" /\ ~s1.proof
          THEN IF s5 < Deadline THEN Wait!Executing ELSE Wait!End("expired")
          ELSE Wait!BeforeDeadline("jobs")
    BY <1>2 DEF Wait!ReadAttempt
  <2>2. v \in Wait!Answers /\ v \in Nat /\ v <= s3 /\ (Wait!AttemptStatus(v) = "completed" => v >= Wait!Ended)
    BY AnswersAreTrue DEF Wait!AttemptAnswers
  <2>3. s7 = "attempt" /\ UNCHANGED <<s1, s2, s3, s4, s5, s6, s8, s9>>
    BY <1>2 DEF Wait!ReadAttempt, Wait!github
  <2>4. s10 = "none"
    BY <2>3 DEF Wait!TypeOK
  <2> QED
    BY <2>1, <2>2, <2>3, <2>4 DEF Wait!BeforeDeadline, Wait!Executing, Wait!Accept, Wait!Ask, Wait!End, Wait!Phases, Wait!TypeOK
<1>3. CASE Wait!ReadJobs
  <2>1. PICK v \in Wait!AttemptAnswers :
          IF Wait!JobStatus(v) = "completed" THEN Wait!End("refused")
          ELSE IF s5 >= Deadline THEN Wait!End("expired")
          ELSE IF v = Wait!StepRunning THEN Wait!Executing ELSE Wait!Pending
    BY <1>3 DEF Wait!ReadJobs
  <2>2. v \in Wait!Answers /\ v \in Nat /\ v <= s3 /\ (Wait!JobStatus(v) = "completed" => v >= Wait!Ended)
    BY AnswersAreTrue DEF Wait!AttemptAnswers
  <2>3. s7 = "jobs" /\ UNCHANGED <<s1, s2, s3, s4, s5, s6, s8, s9>>
    BY <1>3 DEF Wait!ReadJobs, Wait!github
  <2>4. s10 = "none"
    BY <2>3 DEF Wait!TypeOK
  <2> QED
    BY <2>1, <2>2, <2>3, <2>4 DEF Wait!BeforeDeadline, Wait!Pending, Wait!Executing, Wait!Accept, Wait!Ask, Wait!End, Wait!Phases, Wait!TypeOK
<1>4. CASE Wait!ReadGate
  <2>1. s7 = "gate" /\ UNCHANGED <<s1, s2, s3, s4, s5, s6, s8, s9>>
    BY <1>4 DEF Wait!ReadGate, Wait!github
  <2>2. Wait!Pending \/ (s1.attempt = 1 /\ Wait!Accept) \/ Wait!Ask("boundary")
    BY <1>4 DEF Wait!ReadGate
  <2>3. s10 = "none"
    BY <2>1 DEF Wait!TypeOK
  <2> QED
    BY <2>1, <2>2, <2>3 DEF Wait!BeforeDeadline, Wait!Pending, Wait!Accept, Wait!Ask, Wait!End, Wait!Phases, Wait!TypeOK
<1>5. CASE Wait!ReadBoundary
  BY <1>5 DEF Wait!ReadBoundary, Wait!github, Wait!FreshJobs, Wait!Accept, Wait!End, Wait!Phases, Wait!TypeOK
<1> QED
  BY <1>1, <1>2, <1>3, <1>4, <1>5

LEMMA WaitStutter ==
    ASSUME WaitInv, UNCHANGED <<s1, s2, s3, s4, s5, s6, s7, s8, s9, s10>>
    PROVE  WaitInv'
BY DEF WaitInv, Wait!TypeOK, RoundInv, Wait!EndedNotAccepted, Wait!EvidenceIsFresh, Wait!RefusedForCause

LEMMA WaitInit ==
    ASSUME Wait!Init
    PROVE  WaitInv
BY WaitAssumption
   DEF Wait!DeadlineAssumption, Wait!MaxSlowAssumption, Wait!Init, WaitInv, Wait!TypeOK, RoundInv, Wait!EndedNotAccepted, Wait!EvidenceIsFresh, Wait!RefusedForCause,
       Wait!Calls, Wait!Phases, Wait!Results

LEMMA WaitNext ==
    ASSUME WaitInv, Wait!Next
    PROVE  WaitInv'
<1> USE WaitAssumption DEF Wait!DeadlineAssumption, Wait!MaxSlowAssumption
<1>1. CASE Wait!ReadRun \/ Wait!ReadAttempt \/ Wait!ReadJobs \/ Wait!ReadGate \/ Wait!ReadBoundary
  <2>1. Wait!TypeOK
    BY DEF WaitInv
  <2>2. /\ s1' = s1 /\ s2' = s2 /\ s3' = s3
        /\ s4' = s4 /\ s5' = s5 /\ s6' = s6
        /\ s8' = s8 \/ s8' = s4
    BY <1>1, <2>1, PollSummary
  <2>3. Wait!TypeOK'
    <3>1. (s1 \in Wait!Calls /\ s2 \subseteq {"gate", "checks"})'
      BY <2>1, <2>2 DEF Wait!TypeOK, Wait!Calls
    <3>2. (/\ s3 \in Wait!StepRunning .. Wait!RerunRunning
           /\ s4 \in 0 .. s3
           /\ s6 \in 0 .. MaxSlow
           /\ s5 \in s6 .. Deadline + MaxSlow
           /\ s8 \in 0 .. s4)'
      BY <2>1, <2>2 DEF Wait!TypeOK
    <3>3. (/\ s7 \in Wait!Phases
           /\ s9 \in {"current", "previous"}
           /\ s10 \in Wait!Results
           /\ s7 = "done" <=> s10 # "none")'
      BY <1>1, <2>1, PollSummary DEF Wait!Phases, Wait!Results
    <3> QED
      BY <3>1, <3>2, <3>3 DEF Wait!TypeOK
  <2>4. RoundInv'
    BY <1>1, <2>1, PollSummary DEF WaitInv, RoundInv, Wait!TypeOK
  <2>5. Wait!EndedNotAccepted'
    BY <2>3, <2>4 DEF RoundInv, Wait!EndedNotAccepted, Wait!TypeOK
  <2>6. Wait!EvidenceIsFresh'
    BY <1>1, <2>1, <2>2, PollSummary DEF WaitInv, RoundInv, Wait!TypeOK, Wait!EvidenceIsFresh, Wait!Calls
  <2>7. Wait!RefusedForCause'
    BY <1>1, <2>1, PollSummary DEF WaitInv, RoundInv, Wait!TypeOK, Wait!RefusedForCause
  <2> QED
    BY <2>3, <2>4, <2>5, <2>6, <2>7 DEF WaitInv
<1>2. CASE Wait!Sleep
  BY <1>2 DEF WaitInv, Wait!TypeOK, RoundInv, Wait!EndedNotAccepted, Wait!EvidenceIsFresh, Wait!RefusedForCause,
              Wait!Sleep, Wait!Ask, Wait!github, Wait!Phases
<1>3. CASE Wait!RequestFails
  BY <1>3 DEF WaitInv, Wait!TypeOK, RoundInv, Wait!EndedNotAccepted, Wait!EvidenceIsFresh, Wait!RefusedForCause,
              Wait!RequestFails, Wait!End, Wait!github, Wait!Phases, Wait!Results
<1>4. CASE Wait!RequestTakesTime
  BY <1>4 DEF WaitInv, Wait!TypeOK, RoundInv, Wait!EndedNotAccepted, Wait!EvidenceIsFresh, Wait!RefusedForCause,
              Wait!RequestTakesTime, Wait!github
<1>5. CASE Wait!Conclude
  BY <1>5 DEF WaitInv, Wait!TypeOK, RoundInv, Wait!EndedNotAccepted, Wait!EvidenceIsFresh, Wait!RefusedForCause, Wait!Conclude
<1>6. CASE Wait!CatchUp
  BY <1>6 DEF WaitInv, Wait!TypeOK, RoundInv, Wait!EndedNotAccepted, Wait!EvidenceIsFresh, Wait!RefusedForCause, Wait!CatchUp
<1>7. CASE Wait!Done
  BY <1>7, WaitStutter DEF Wait!Done, Wait!vars
<1> QED
  BY <1>1, <1>2, <1>3, <1>4, <1>5, <1>6, <1>7 DEF Wait!Next, Wait!Poll, Wait!Done

LEMMA WaitKeeps ==
  ASSUME part = "wait" => WaitInv, [Next]_vars
  PROVE  (part = "wait" => WaitInv)'
<1>1. CASE WaitStep
  BY <1>1, WaitNext DEF WaitStep
<1>2. CASE UNCHANGED vars
  BY <1>2, WaitStutter DEF vars
<1> QED BY <1>1, <1>2 DEF Next, StreamStep, DownloadStep, PipelineStep, PayloadStep, RegistryStep

\* wait_for_executing_run: what is known of the wait at every point.
THEOREM WaitInvHolds == Spec => [](part = "wait" => WaitInv)
<1>1. Init => (part = "wait" => WaitInv)
  BY WaitInit DEF Init
<1>2. (part = "wait" => WaitInv) /\ [Next]_vars => (part = "wait" => WaitInv)'
  BY WaitKeeps
<1> QED BY <1>1, <1>2, PTL DEF Spec

\* wait_for_executing_run: for every deadline and duration of a request, no
\* round accepts an attempt whose end every replica showed when the round
\* began, nothing is accepted on the evidence of cloned jobs, and answers that
\* are merely late never make the wait refuse.
THEOREM VerdictIsRight == Spec => []WaitSound
<1>1. (part = "wait" => WaitInv) => WaitSound
  BY DEF WaitInv, WaitSound, Wait!WaitSound
<1> QED BY <1>1, WaitInvHolds, PTL

\* execution_deadline: no step accepts the attempt after the deadline, however
\* long the last requests took.
THEOREM NothingLateIsAccepted ==
  Spec => [][part = "wait" => Wait!AcceptsInTime]_vars
<1>1. ASSUME part = "wait" => WaitInv, Next, part = "wait", s10' = "accepted", s10 = "none"
      PROVE  s5 < Deadline
  <2>0. WaitInv /\ Wait!Next
    BY <1>1 DEF Next, WaitStep, StreamStep, DownloadStep, PipelineStep, PayloadStep, RegistryStep
  <2>1. CASE Wait!ReadRun \/ Wait!ReadAttempt \/ Wait!ReadJobs \/ Wait!ReadGate \/ Wait!ReadBoundary
    BY <1>1, <2>0, <2>1, PollSummary DEF WaitInv
  <2>2. CASE Wait!Sleep \/ Wait!RequestFails \/ Wait!RequestTakesTime \/ Wait!Conclude \/ Wait!CatchUp \/ Wait!Done
    BY <1>1, <2>2 DEF Wait!Sleep, Wait!RequestFails, Wait!RequestTakesTime, Wait!Conclude, Wait!CatchUp, Wait!Done,
       Wait!Ask, Wait!End, Wait!vars
  <2> QED BY <2>0, <2>1, <2>2 DEF Wait!Next, Wait!Poll
<1>2. (part = "wait" => WaitInv) /\ [Next]_vars =>
        [part = "wait" => Wait!AcceptsInTime]_vars
  BY <1>1 DEF Wait!AcceptsInTime
<1> QED BY <1>2, WaitInvHolds, PTL DEF Spec

-----------------------------------------------------------------------------
(* The recovery payload                                                    *)

\* The parts of an original of this size: they are as many as there are
\* multiples of the part size below it, and each reaches to the next or to the
\* end.
LEMMA PayloadCuts ==
  ASSUME s1 \in Nat \ {0}, NEW size \in Nat, NEW n \in Nat
  PROVE  /\ Payload!PartCount(size) \in 0 .. size /\ n * s1 \in Nat
         /\ n < Payload!PartCount(size) <=> n * s1 < size
         /\ n < Payload!PartCount(size) => /\ Payload!PartBytes(size, n) \in 1 .. s1
                                           /\ Payload!Reach(size, n) = n * s1
                                           /\ Payload!Reach(size, n + 1) = n * s1 + Payload!PartBytes(size, n)
                                           /\ Payload!Reach(size, n + 1) <= size
         /\ n >= Payload!PartCount(size) => Payload!Reach(size, n) = size
         /\ Payload!Reach(size, n) \in 0 .. size
<1> DEFINE c == s1
           q == (size + c - 1) \div c
<1>1. c \in Nat /\ c >= 1 /\ size + c - 1 \in Nat
  OBVIOUS
<1>2. q \in Nat /\ q * c <= size + c - 1 /\ size + c - 1 < (q + 1) * c
  BY <1>1
<1>3. n * c \in Nat /\ (n + 1) * c = n * c + c /\ (q + 1) * c = q * c + c
  BY <1>1, <1>2
<1>4. ASSUME n < q PROVE (n + 1) * c <= q * c
  BY <1>1, <1>2, <1>4
<1>5. ASSUME n >= q PROVE q * c <= n * c
  BY <1>1, <1>2, <1>5
<1>6. n < q <=> n * c < size
  BY <1>1, <1>2, <1>3, <1>4, <1>5
<1>7. q <= size
  <2>1. ASSUME q > size PROVE FALSE
    <3>1. PICK d \in Nat : q = size + 1 + d
      BY <1>2, <2>1
    <3>2. q * c = size * c + c + d * c
      BY <1>1, <3>1
    <3>3. size * c >= size /\ d * c >= 0
      BY <1>1
    <3> QED BY <1>1, <1>2, <3>2, <3>3
  <2> QED BY <1>2, <2>1
<1>8. q = Payload!PartCount(size)
  BY DEF Payload!PartCount
<1> HIDE DEF q
<1> QED BY <1>1, <1>2, <1>3, <1>6, <1>7, <1>8 DEF Payload!PartBytes, Payload!Reach

\* The part size and the sizes of the originals.
LEMMA PayloadSizes ==
  ASSUME Payload!TypesOK
  PROVE  /\ NumFiles \in Nat \ {0} /\ Payload!Files = 1 .. NumFiles /\ PayloadBytes \in Nat /\ s1 \in Nat \ {0}
         /\ \A f \in Payload!Files : s2[f] \in 0 .. PayloadBytes /\ s2[f] \in Nat
<1>1. s1 \in Nat \ {0} /\ s2 \in [Payload!Files -> 0 .. PayloadBytes]
  BY DEF Payload!TypesOK
<1>2. NumFiles \in Nat \ {0} /\ Payload!Files = 1 .. NumFiles /\ PayloadBytes \in Nat
  BY PayloadAssumption DEF Payload!FilesAssumption, Payload!Files
<1> QED BY <1>1, <1>2

\* A part of an original is a part of the catalog.
LEMMA PayloadParts ==
  ASSUME Payload!TypesOK, NEW f \in Payload!Files, NEW n \in Nat
  PROVE  /\ <<f, n>> \in Payload!AllParts <=> n < Payload!PartCount(s2[f])
         /\ s2[f] \in 0 .. PayloadBytes /\ s2[f] \in Nat /\ PayloadBytes \in Nat
         /\ Payload!Bytes(<<f, n>>) = Payload!PartBytes(s2[f], n)
<1>1. s1 \in Nat \ {0} /\ s2[f] \in 0 .. PayloadBytes /\ PayloadBytes \in Nat /\ s2[f] \in Nat
  BY PayloadSizes
<1>2. Payload!PartCount(s2[f]) \in 0 .. s2[f]
  BY <1>1, PayloadCuts
<1> QED BY <1>1, <1>2 DEF Payload!AllParts, Payload!Bytes

\* What a part of the catalog is.
LEMMA PayloadPart ==
  ASSUME Payload!TypesOK, NEW piece \in Payload!AllParts
  PROVE  /\ piece[1] \in Payload!Files /\ piece[2] \in Nat /\ piece = <<piece[1], piece[2]>>
         /\ piece[2] < Payload!PartCount(s2[piece[1]])
         /\ Payload!Bytes(piece) \in Nat /\ Payload!Inventory(Payload!Bytes(piece)) \in Payload!Contents
<1>1. piece[1] \in Payload!Files /\ piece[2] \in 0 .. PayloadBytes /\ piece = <<piece[1], piece[2]>>
      /\ piece[2] < Payload!PartCount(s2[piece[1]])
  BY DEF Payload!AllParts
<1>2. PayloadBytes \in Nat /\ s1 \in Nat \ {0} /\ s2[piece[1]] \in Nat
  BY <1>1, PayloadSizes
<1>3. Payload!PartBytes(s2[piece[1]], piece[2]) \in 1 .. s1
  BY <1>1, <1>2, PayloadCuts
<1>4. Payload!Bytes(piece) \in Nat
  BY <1>2, <1>3 DEF Payload!Bytes
<1> QED BY <1>1, <1>2, <1>4 DEF Payload!Inventory, Payload!Contents

\* Zeros after zeros.
LEMMA PayloadInventory ==
  ASSUME NEW a \in Nat, NEW b \in Nat
  PROVE  /\ Payload!Inventory(a) \in Seq({0, 1}) /\ Len(Payload!Inventory(a)) = a
         /\ Payload!Inventory(a) \o Payload!Inventory(b) = Payload!Inventory(a + b)
BY DEF Payload!Inventory

\* One sequence after another.
LEMMA PayloadConcat ==
  ASSUME NEW S, NEW a \in Seq(S), NEW b \in Seq(S)
  PROVE  /\ a \o b \in Seq(S) /\ Len(a \o b) = Len(a) + Len(b) /\ \A i \in 1 .. Len(a) : (a \o b)[i] = a[i]
         /\ \A j \in 1 .. Len(b) : (a \o b)[Len(a) + j] = b[j]
OBVIOUS

\* A part ends where the next one begins, or before.
LEMMA PayloadTimes ==
  ASSUME NEW k \in Nat, NEW n \in Nat, NEW c \in Nat, k + 1 <= n
  PROVE  k * c \in Nat /\ k * c + c <= n * c
<1>1. PICK d \in Nat : n = k + 1 + d
  OBVIOUS
<1>2. n * c = k * c + c + d * c /\ d * c >= 0 /\ k * c \in Nat
  BY <1>1
<1> QED BY <1>2

\* The next place of interleaved: one part more has been yielded, if this place has one.
LEMMA PayloadAdvance ==
  ASSUME Payload!TypesOK, Payload!Advance
  PROVE  /\ s14' \in Nat \X Payload!Files
         /\ \A piece \in Payload!AllParts : Payload!Given(piece, s14') <=> Payload!Given(piece, s14) \/ piece = Payload!Yielded
         /\ Payload!Yields <=> Payload!Yielded \in Payload!AllParts
         /\ ~Payload!Given(Payload!Yielded, s14) /\ Payload!Given(Payload!Yielded, s14')
<1>1. /\ NumFiles \in Nat \ {0} /\ Payload!Files = 1 .. NumFiles
  BY PayloadSizes
<1>2. s14 \in Nat \X Payload!Files
  BY DEF Payload!TypesOK
<1>3. PICK round \in Nat, f \in Payload!Files : s14 = <<round, f>>
  BY <1>2
<1>4. s14' = IF f < NumFiles THEN <<round, f + 1>> ELSE <<round + 1, 1>>
  BY <1>3 DEF Payload!Advance
<1>5. ASSUME NEW piece \in Payload!AllParts
      PROVE  Payload!Given(piece, s14') <=> Payload!Given(piece, s14) \/ piece = Payload!Yielded
  <2>1. piece[1] \in 1 .. NumFiles /\ piece[2] \in Nat /\ piece = <<piece[1], piece[2]>>
    BY <1>1, PayloadPart
  <2> QED BY <1>1, <1>3, <1>4, <2>1 DEF Payload!Given, Payload!Follows, Payload!Yielded
<1>6. Payload!Yields <=> Payload!Yielded \in Payload!AllParts
  <2>1. <<f, round>> \in Payload!AllParts <=> round < Payload!PartCount(s2[f])
    BY PayloadParts
  <2> QED BY <1>3, <2>1 DEF Payload!Yields, Payload!Yielded
<1> QED BY <1>1, <1>3, <1>4, <1>5, <1>6 DEF Payload!Given, Payload!Follows, Payload!Yielded

\* What a member of a stream is.
LEMMA PayloadMembers ==
  ASSUME NEW parts \in Seq(Payload!Members), NEW m \in 1 .. Len(parts)
  PROVE  /\ parts[m] \in Payload!Members /\ parts[m].part \in Payload!AllParts /\ parts[m].data \in Payload!Contents
         /\ parts[m] = [part |-> parts[m].part, data |-> parts[m].data]
<1>1. parts[m] \in Payload!Members
  OBVIOUS
<1> QED BY <1>1 DEF Payload!Members

\* One more member of a stream in its turn.
LEMMA PayloadTurn ==
  ASSUME Payload!TypesOK, Payload!Advance, NEW parts \in Seq(Payload!Members), NEW k \in 0 .. Len(parts),
         Payload!InTurn(parts, k), Payload!UpTo(parts, k, s14)
  PROVE  /\ ~Payload!Yields => Payload!UpTo(parts, k, s14')
         /\ Payload!Yields /\ k < Len(parts) /\ parts[k + 1] = [part |-> Payload!Yielded, data |-> s9[Payload!Yielded]] =>
              Payload!InTurn(parts, k + 1) /\ Payload!UpTo(parts, k + 1, s14')
<1>1. \A m \in 1 .. Len(parts) : parts[m].part \in Payload!AllParts
  BY PayloadMembers
<1>2. k \in Nat /\ \A m \in 1 .. k : m \in 1 .. Len(parts)
  OBVIOUS
<1>3. \A piece \in Payload!AllParts : Payload!Given(piece, s14') <=> Payload!Given(piece, s14) \/ piece = Payload!Yielded
  BY PayloadAdvance
<1>4. Payload!Yields <=> Payload!Yielded \in Payload!AllParts
  BY PayloadAdvance
<1>5. (\A m \in 1 .. k : Payload!Given(parts[m].part, s14))
      /\ \A piece \in Payload!AllParts : Payload!Given(piece, s14) => \E m \in 1 .. k : parts[m].part = piece
  BY DEF Payload!UpTo
<1>6. ~Payload!Yields => Payload!UpTo(parts, k, s14')
  BY <1>1, <1>2, <1>3, <1>4, <1>5 DEF Payload!UpTo
<1>7. ASSUME Payload!Yields, k < Len(parts), parts[k + 1] = [part |-> Payload!Yielded, data |-> s9[Payload!Yielded]]
      PROVE  Payload!InTurn(parts, k + 1) /\ Payload!UpTo(parts, k + 1, s14')
  <2>1. parts[k + 1].part = Payload!Yielded /\ parts[k + 1].data = s9[parts[k + 1].part] /\ Payload!Yielded \in Payload!AllParts
    BY <1>4, <1>7
  <2>2. \A m \in 1 .. k + 1 : m \in 1 .. k \/ m = k + 1
    BY <1>2
  <2>3. \A m \in 1 .. k : Payload!Follows(parts[m].part, Payload!Yielded)
    BY <1>5 DEF Payload!Given, Payload!Yielded
  <2>4. Payload!InTurn(parts, k + 1)
    <3>1. \A m \in 1 .. k + 1 : parts[m].data = s9[parts[m].part]
      BY <2>1, <2>2 DEF Payload!InTurn
    <3>2. ASSUME NEW m \in 1 .. k + 1, NEW n \in 1 .. k + 1, m < n PROVE Payload!Follows(parts[m].part, parts[n].part)
      <4>1. m \in 1 .. k
        BY <1>2, <3>2
      <4>2. CASE n = k + 1
        BY <2>1, <2>3, <4>1, <4>2
      <4>3. CASE n \in 1 .. k
        BY <3>2, <4>1, <4>3 DEF Payload!InTurn
      <4> QED BY <2>2, <4>2, <4>3
    <3> QED BY <3>1, <3>2 DEF Payload!InTurn
  <2>5. Payload!UpTo(parts, k + 1, s14')
    <3>1. \A m \in 1 .. k + 1 : Payload!Given(parts[m].part, s14')
      BY <1>1, <1>2, <1>3, <1>5, <2>1, <2>2
    <3>2. ASSUME NEW piece \in Payload!AllParts, Payload!Given(piece, s14') PROVE \E m \in 1 .. k + 1 : parts[m].part = piece
      <4>1. CASE Payload!Given(piece, s14)
        <5>1. PICK m \in 1 .. k : parts[m].part = piece
          BY <1>5, <4>1
        <5> QED BY <1>2, <5>1
      <4>2. CASE piece = Payload!Yielded
        BY <1>2, <2>1, <4>2
      <4> QED BY <1>3, <3>2, <4>1, <4>2
    <3> QED BY <3>1, <3>2 DEF Payload!UpTo
  <2> QED BY <2>4, <2>5
<1> QED BY <1>6, <1>7

\* At the end of interleaved, every part was yielded.
LEMMA PayloadExhausted ==
  ASSUME Payload!TypesOK, Payload!Exhausted, NEW parts, NEW k \in Nat, Payload!UpTo(parts, k, s14)
  PROVE  Payload!Whole(parts, k)
<1>1. s14 \in Nat \X Payload!Files
  BY DEF Payload!TypesOK
<1>2. ASSUME NEW piece \in Payload!AllParts PROVE Payload!Given(piece, s14)
  <2>1. piece[1] \in Payload!Files /\ piece[2] \in Nat /\ piece[2] < Payload!PartCount(s2[piece[1]])
    BY PayloadPart
  <2>2. Payload!PartCount(s2[piece[1]]) <= s14[1] /\ s14[1] \in Nat
    BY <1>1, <2>1 DEF Payload!Exhausted
  <2>3. Payload!PartCount(s2[piece[1]]) \in 0 .. s2[piece[1]] /\ s2[piece[1]] \in Nat
    BY <2>1, PayloadSizes, PayloadCuts
  <2> QED BY <2>1, <2>2, <2>3 DEF Payload!Given, Payload!Follows
<1> QED BY <1>2 DEF Payload!UpTo, Payload!Whole

\* Two streams in turn with every part are the same member by member: the part
\* that is yielded next is the next member of an unaltered stream.
LEMMA PayloadNextMember ==
  ASSUME Payload!TypesOK, NEW parts \in Seq(Payload!Members), NEW k \in 0 .. Len(parts),
         Payload!InTurn(parts, Len(parts)), Payload!Whole(parts, Len(parts)), Payload!UpTo(parts, k, s14)
  PROVE  /\ Payload!Yields => k < Len(parts) /\ parts[k + 1] = [part |-> Payload!Yielded, data |-> s9[Payload!Yielded]]
         /\ Payload!Exhausted => k = Len(parts)
<1>1. \A m \in 1 .. Len(parts) : parts[m].part \in Payload!AllParts /\ parts[m] = [part |-> parts[m].part, data |-> parts[m].data]
  BY PayloadMembers
<1>2. k \in Nat /\ k <= Len(parts) /\ \A m \in 1 .. k : m \in 1 .. Len(parts)
  OBVIOUS
<1>3. s14 \in Nat \X Payload!Files
  BY DEF Payload!TypesOK
<1>4. PICK round \in Nat, f \in Payload!Files : s14 = <<round, f>> /\ f \in Nat
  BY <1>3, PayloadSizes
<1>5. \A piece \in Payload!AllParts : piece[1] \in Nat /\ piece[2] \in Nat /\ piece = <<piece[1], piece[2]>>
  BY PayloadPart, PayloadSizes
<1>6. \A piece \in Payload!AllParts : ~Payload!Follows(piece, piece)
  BY <1>5 DEF Payload!Follows
<1>7. ASSUME k < Len(parts)
      PROVE  ~Payload!Given(parts[k + 1].part, s14)
  <2>1. k + 1 \in 1 .. Len(parts)
    BY <1>2, <1>7
  <2>2. ASSUME Payload!Given(parts[k + 1].part, s14) PROVE FALSE
    <3>1. PICK m \in 1 .. k : parts[m].part = parts[k + 1].part
      BY <1>1, <2>1, <2>2 DEF Payload!UpTo
    <3>2. Payload!Follows(parts[m].part, parts[k + 1].part)
      BY <1>2, <2>1, <3>1 DEF Payload!InTurn
    <3> QED BY <1>1, <1>6, <2>1, <3>1, <3>2
  <2> QED BY <2>2
<1>8. ASSUME Payload!Yields
      PROVE  k < Len(parts) /\ parts[k + 1] = [part |-> Payload!Yielded, data |-> s9[Payload!Yielded]]
  <2>1. Payload!Yielded = <<f, round>> /\ <<f, round>> \in Payload!AllParts
    BY <1>4, <1>8, PayloadParts DEF Payload!Yields, Payload!Yielded
  <2>2. PICK m \in 1 .. Len(parts) : parts[m].part = <<f, round>>
    BY <2>1 DEF Payload!Whole
  <2>3. m \notin 1 .. k
    <3>1. m \in 1 .. k => Payload!Given(<<f, round>>, s14)
      BY <2>2 DEF Payload!UpTo
    <3> QED BY <1>4, <3>1 DEF Payload!Given, Payload!Follows
  <2>4. k < Len(parts) /\ k + 1 \in 1 .. Len(parts)
    BY <1>2, <2>2, <2>3
  <2>5. m = k + 1
    <3>1. ASSUME m # k + 1 PROVE FALSE
      <4>1. k + 1 < m
        BY <1>2, <2>2, <2>3, <3>1
      <4>2. Payload!Follows(parts[k + 1].part, <<f, round>>)
        BY <2>2, <2>4, <4>1 DEF Payload!InTurn
      <4> QED BY <1>4, <1>7, <2>4, <4>2 DEF Payload!Given
    <3> QED BY <3>1
  <2>6. parts[k + 1].data = s9[<<f, round>>]
    BY <2>2, <2>4, <2>5 DEF Payload!InTurn
  <2> QED BY <1>1, <2>1, <2>2, <2>4, <2>5, <2>6
<1>9. ASSUME Payload!Exhausted, k < Len(parts) PROVE FALSE
  <2>1. Payload!Whole(parts, k)
    BY <1>2, <1>9, PayloadExhausted
  <2>2. k + 1 \in 1 .. Len(parts)
    BY <1>2, <1>9
  <2>3. PICK m \in 1 .. k : parts[m].part = parts[k + 1].part
    BY <1>1, <2>1, <2>2 DEF Payload!Whole
  <2>4. Payload!Follows(parts[m].part, parts[k + 1].part)
    BY <1>2, <2>2, <2>3 DEF Payload!InTurn
  <2> QED BY <1>1, <1>6, <2>2, <2>3, <2>4
<1> QED BY <1>2, <1>8, <1>9

\* pack and verify leave the staging directory and its catalog alone.
LEMMA PayloadPrepareStays ==
  ASSUME Payload!Inv, UNCHANGED <<s1, s2, s4, s5, s6, s7, s8, s9, s10, s11, s12>>
  PROVE  /\ Payload!WholeOK' /\ Payload!CatalogOK' /\ Payload!StagedOK' /\ Payload!ManifestOK'
         /\ Payload!AllParts' = Payload!AllParts /\ Payload!Members' = Payload!Members
<1>1. Payload!WholeOK /\ Payload!CatalogOK /\ Payload!StagedOK /\ Payload!ManifestOK
  BY DEF Payload!Inv
<1>2. Payload!AllParts' = Payload!AllParts
  BY DEF Payload!AllParts, Payload!PartCount
<1>3. Payload!Writing' <=> Payload!Writing
  BY DEF Payload!Writing
<1>4. Payload!WholeOK'
  BY <1>1 DEF Payload!WholeOK, Payload!Writing, Payload!Cuts, Payload!PartCount, Payload!PartBytes, Payload!Reach
<1>5. Payload!CatalogOK'
  BY <1>1, <1>2 DEF Payload!CatalogOK, Payload!Bytes, Payload!PartBytes
<1>6. Payload!StagedOK'
  BY <1>1, <1>2, <1>3 DEF Payload!StagedOK, Payload!Stored, Payload!Before
<1>7. Payload!ManifestOK'
  BY <1>1 DEF Payload!ManifestOK
<1>8. Payload!Members' = Payload!Members
  BY <1>2 DEF Payload!Members
<1> QED BY <1>2, <1>4, <1>5, <1>6, <1>7, <1>8

\* Once the catalog has its name, every part is on disk, as it is in the inventory.
LEMMA PayloadComplete ==
  ASSUME Payload!Inv, s11 # "none"
  PROVE  /\ DOMAIN s8 = Payload!AllParts
         /\ \A piece \in Payload!AllParts : /\ piece \in DOMAIN s8 /\ piece \in DOMAIN s9
                                           /\ s8[piece] = [data |-> s9[piece], disk |-> "name"]
                                           /\ s9[piece] = Payload!Inventory(Payload!Bytes(piece)) /\ s9[piece] \in Payload!Contents
                                           /\ Payload!CheckedPart(piece)
<1>1. Payload!TypesOK /\ s5[1] = NumFiles + 1 /\ Payload!CatalogOK /\ Payload!StagedOK
  BY DEF Payload!Inv, Payload!ManifestOK
<1>2. ASSUME NEW piece \in Payload!AllParts
      PROVE  /\ piece \in DOMAIN s8 /\ piece \in DOMAIN s9
             /\ s8[piece] = [data |-> s9[piece], disk |-> "name"]
             /\ s9[piece] = Payload!Inventory(Payload!Bytes(piece)) /\ s9[piece] \in Payload!Contents
             /\ Payload!CheckedPart(piece)
  <2>1. piece[1] \in 1 .. NumFiles /\ NumFiles \in Nat /\ Payload!Inventory(Payload!Bytes(piece)) \in Payload!Contents
    BY <1>1, PayloadSizes, PayloadPart
  <2>2. piece[1] < s5[1] /\ Payload!Before(piece)
    BY <1>1, <2>1 DEF Payload!Before
  <2>3. Payload!Stored(piece) /\ s9[piece] = Payload!Inventory(Payload!Bytes(piece))
    BY <1>1, <2>2 DEF Payload!StagedOK, Payload!CatalogOK
  <2> QED BY <2>1, <2>3 DEF Payload!Stored, Payload!CheckedPart
<1>3. DOMAIN s8 \subseteq Payload!AllParts
  BY <1>1 DEF Payload!StagedOK
<1> QED BY <1>2, <1>3

\* Pack begins with an empty stream.
LEMMA PayloadPackKeeps ==
  ASSUME Payload!Inv, Payload!Pack
  PROVE  Payload!Inv'
<1>1. /\ s4 \in {"prepared", "down", "failed"} /\ s11 \in {"there", "synced"}
      /\ s13' = "packing" /\ s14' = <<0, 1>> /\ s15' = <<>>
      /\ UNCHANGED <<s1, s2, s3, s4, s5, s6, s7, s8, s9, s10, s11, s12, s16, s17, s18>>
  BY DEF Payload!Pack, Payload!StagingComplete, Payload!First, Payload!Nothing, Payload!Prepare, Payload!Manifest
<1>2. /\ Payload!WholeOK' /\ Payload!CatalogOK' /\ Payload!StagedOK' /\ Payload!ManifestOK'
      /\ Payload!AllParts' = Payload!AllParts /\ Payload!Members' = Payload!Members
  BY <1>1, PayloadPrepareStays
<1>3. Payload!TypesOK'
  <2>1. Payload!TypesOK /\ 1 \in Payload!Files
    BY PayloadSizes DEF Payload!Inv
  <2>2. s15' \in Seq(Payload!Members) /\ s14' \in Nat \X Payload!Files
    BY <1>1, <2>1
  <2> QED BY <1>1, <1>2, <2>1, <2>2 DEF Payload!TypesOK
<1>4. s4 \in {"prepared", "down"} /\ s11 = "synced"
  BY <1>1 DEF Payload!Inv, Payload!ManifestOK
<1>5. Payload!StreamOK'
  <2>1. Len(s15') = 0
    BY <1>1
  <2>2. \A piece \in Payload!AllParts : ~Payload!Given(piece, <<0, 1>>)
    <3>1. Payload!TypesOK
      BY DEF Payload!Inv
    <3>2. \A piece \in Payload!AllParts : piece[2] \in Nat /\ piece[1] \in Nat /\ piece[1] >= 1
      BY <3>1, PayloadPart, PayloadSizes
    <3> QED BY <3>2 DEF Payload!Given, Payload!Follows
  <2>3. Payload!UpTo(s15, Len(s15), s14)' /\ Payload!InTurn(s15, Len(s15))'
    BY <1>1, <1>2, <2>1, <2>2 DEF Payload!UpTo, Payload!InTurn
  <2> QED BY <1>1, <1>4, <2>3 DEF Payload!StreamOK
<1> QED BY <1>2, <1>3, <1>5 DEF Payload!Inv

\* A part is packed as the catalog has it.
LEMMA PayloadPackPartKeeps ==
  ASSUME Payload!Inv, Payload!PackPart
  PROVE  Payload!Inv'
<1> DEFINE y == Payload!Yielded
           n == Len(s15)
<1>1. /\ s13 = "packing" /\ Payload!Advance /\ ~Payload!Exhausted
      /\ UNCHANGED <<s1, s2, s3, s4, s5, s6, s7, s8, s9, s10, s11, s12, s16, s17, s18>>
  BY DEF Payload!PackPart, Payload!Prepare, Payload!Manifest
<1>2. /\ Payload!WholeOK' /\ Payload!CatalogOK' /\ Payload!StagedOK' /\ Payload!ManifestOK'
      /\ Payload!AllParts' = Payload!AllParts /\ Payload!Members' = Payload!Members
  BY <1>1, PayloadPrepareStays
<1>3. /\ Payload!TypesOK /\ s4 \in {"prepared", "down"} /\ s11 = "synced" /\ s15 \in Seq(Payload!Members) /\ n \in Nat
      /\ Payload!InTurn(s15, n) /\ Payload!UpTo(s15, n, s14)
  <2>1. Payload!TypesOK /\ Payload!StreamOK /\ s15 \in Seq(Payload!Members)
    BY DEF Payload!Inv, Payload!TypesOK
  <2> QED BY <1>1, <2>1 DEF Payload!StreamOK
<1>4. s14' \in Nat \X Payload!Files /\ (Payload!Yields <=> y \in Payload!AllParts)
  BY <1>1, <1>3, PayloadAdvance
<1>5. CASE ~Payload!Yields
  <2>1. s13' = s13 /\ s15' = s15
    BY <1>5 DEF Payload!PackPart
  <2>2. Payload!TypesOK'
    BY <1>1, <1>2, <1>3, <1>4, <2>1 DEF Payload!TypesOK
  <2>3. Payload!UpTo(s15, n, s14')
    BY <1>1, <1>3, <1>5, PayloadTurn
  <2>4. Payload!UpTo(s15, Len(s15), s14)' /\ Payload!InTurn(s15, Len(s15))'
    BY <1>1, <1>2, <1>3, <2>1, <2>3 DEF Payload!UpTo, Payload!InTurn
  <2>5. Payload!StreamOK'
    BY <1>1, <1>3, <2>1, <2>4 DEF Payload!StreamOK
  <2> QED BY <1>2, <2>2, <2>5 DEF Payload!Inv
<1>6. CASE Payload!Yields
  <2>1. y \in Payload!AllParts /\ s8[y].data = s9[y] /\ s9[y] \in Payload!Contents /\ Payload!CheckedPart(y)
    <3>1. s11 # "none"
      BY <1>3
    <3> QED BY <1>4, <1>6, <3>1, PayloadComplete
  <2>2. s13' = "packing" /\ s15' = Append(s15, [part |-> y, data |-> s9[y]])
    BY <1>6, <2>1 DEF Payload!PackPart
  <2>3. PICK parts \in Seq(Payload!Members) : parts = s15'
    <3>1. [part |-> y, data |-> s9[y]] \in Payload!Members
      BY <2>1 DEF Payload!Members
    <3> QED BY <1>3, <2>2, <3>1
  <2>4. Len(parts) = n + 1 /\ parts[n + 1] = [part |-> y, data |-> s9[y]] /\ \A m \in 1 .. n : parts[m] = s15[m]
    BY <1>3, <2>2, <2>3
  <2>5. Payload!InTurn(parts, n) /\ Payload!UpTo(parts, n, s14)
    BY <1>3, <2>4 DEF Payload!InTurn, Payload!UpTo
  <2>6. Payload!InTurn(parts, n + 1) /\ Payload!UpTo(parts, n + 1, s14')
    BY <1>1, <1>3, <1>6, <2>4, <2>5, PayloadTurn
  <2>7. Payload!UpTo(s15, Len(s15), s14)' /\ Payload!InTurn(s15, Len(s15))'
    BY <1>1, <1>2, <2>3, <2>4, <2>6 DEF Payload!UpTo, Payload!InTurn
  <2>8. Payload!TypesOK'
    BY <1>1, <1>2, <1>3, <1>4, <2>3 DEF Payload!TypesOK
  <2>9. Payload!StreamOK'
    BY <1>1, <1>3, <2>2, <2>7 DEF Payload!StreamOK
  <2> QED BY <1>2, <2>8, <2>9 DEF Payload!Inv
<1> QED BY <1>5, <1>6

\* The stream has every part when pack ends.
LEMMA PayloadPackEndsKeeps ==
  ASSUME Payload!Inv, Payload!PackEnds
  PROVE  Payload!Inv'
<1>1. /\ s13 = "packing" /\ Payload!Exhausted /\ s13' = "packed"
      /\ UNCHANGED <<s1, s2, s3, s4, s5, s6, s7, s8, s9, s10, s11, s12, s14, s15, s16, s17, s18>>
  BY DEF Payload!PackEnds, Payload!Prepare, Payload!Manifest
<1>2. /\ Payload!WholeOK' /\ Payload!CatalogOK' /\ Payload!StagedOK' /\ Payload!ManifestOK'
      /\ Payload!AllParts' = Payload!AllParts /\ Payload!Members' = Payload!Members
  BY <1>1, PayloadPrepareStays
<1>3. /\ Payload!TypesOK /\ s4 \in {"prepared", "down"} /\ s11 = "synced" /\ s15 \in Seq(Payload!Members) /\ Len(s15) \in Nat
      /\ Payload!InTurn(s15, Len(s15)) /\ Payload!UpTo(s15, Len(s15), s14)
  <2>1. Payload!TypesOK /\ Payload!StreamOK /\ s15 \in Seq(Payload!Members)
    BY DEF Payload!Inv, Payload!TypesOK
  <2> QED BY <1>1, <2>1 DEF Payload!StreamOK
<1>4. Payload!Whole(s15, Len(s15))
  BY <1>1, <1>3, PayloadExhausted
<1>5. Payload!TypesOK'
  BY <1>1, <1>2, <1>3 DEF Payload!TypesOK
<1>6. Payload!Whole(s15, Len(s15))' /\ Payload!InTurn(s15, Len(s15))'
  BY <1>1, <1>2, <1>3, <1>4 DEF Payload!Whole, Payload!InTurn
<1>7. Payload!StreamOK'
  BY <1>1, <1>3, <1>6 DEF Payload!StreamOK
<1> QED BY <1>2, <1>5, <1>7 DEF Payload!Inv

\* However it was cut or mixed up, a stream consists of members.
LEMMA PayloadDeliverKeeps ==
  ASSUME Payload!Inv, Payload!Deliver
  PROVE  Payload!Inv'
<1>1. /\ s13 = "packed" /\ s13' = "verifying" /\ s14' = <<0, 1>> /\ s17' = 0 /\ s18' = [f \in Payload!Files |-> <<>>]
      /\ UNCHANGED <<s1, s2, s3, s4, s5, s6, s7, s8, s9, s10, s11, s12, s15>>
  BY DEF Payload!Deliver, Payload!Prepare, Payload!Manifest, Payload!First, Payload!Nothing
<1>2. /\ Payload!WholeOK' /\ Payload!CatalogOK' /\ Payload!StagedOK' /\ Payload!ManifestOK'
      /\ Payload!AllParts' = Payload!AllParts /\ Payload!Members' = Payload!Members
  BY <1>1, PayloadPrepareStays
<1>3. /\ Payload!TypesOK /\ s4 \in {"prepared", "down"} /\ s11 = "synced" /\ s15 \in Seq(Payload!Members) /\ Len(s15) \in Nat
      /\ Payload!InTurn(s15, Len(s15)) /\ Payload!Whole(s15, Len(s15))
  <2>1. Payload!TypesOK /\ Payload!StreamOK /\ s15 \in Seq(Payload!Members)
    BY DEF Payload!Inv, Payload!TypesOK
  <2> QED BY <1>1, <2>1 DEF Payload!StreamOK
<1>4. s16' \in Seq(Payload!Members)
  <2>1. CASE s16' = s15
    BY <1>3, <2>1
  <2>2. CASE \E n \in 0 .. Len(s15) : s16' = SubSeq(s15, 1, n)
    BY <1>3, <2>2
  <2>3. ASSUME NEW i \in DOMAIN s15,
               s16' \in {Payload!RemoveAt(s15, i), Payload!InsertAt(s15, i, s15[i]), [s15 EXCEPT ![i].data = <<>>]}
        PROVE  s16' \in Seq(Payload!Members)
    <3>1. i \in 1 .. Len(s15) /\ s15[i] \in Payload!Members /\ DOMAIN s15 = 1 .. Len(s15)
      BY <1>3, PayloadMembers
    <3>2. CASE s16' = SubSeq(s15, 1, i - 1) \o SubSeq(s15, i + 1, Len(s15))
      BY <1>3, <3>1, <3>2
    <3>3. CASE s16' = SubSeq(s15, 1, i - 1) \o <<s15[i]>> \o SubSeq(s15, i, Len(s15))
      BY <1>3, <3>1, <3>3
    <3>4. CASE s16' = [s15 EXCEPT ![i].data = <<>>]
      <4>1. [s15[i] EXCEPT !.data = <<>>] \in Payload!Members
        <5>1. s15[i].part \in Payload!AllParts /\ s15[i] = [part |-> s15[i].part, data |-> s15[i].data]
          BY <1>3, <3>1, PayloadMembers
        <5>2. [s15[i] EXCEPT !.data = <<>>] = [part |-> s15[i].part, data |-> <<>>]
          BY <5>1
        <5>3. <<>> \in Payload!Contents
          BY DEF Payload!Contents
        <5> QED BY <5>1, <5>2, <5>3 DEF Payload!Members
      <4>2. s16' = [s15 EXCEPT ![i] = [s15[i] EXCEPT !.data = <<>>]]
        BY <3>4
      <4> QED BY <1>3, <3>1, <4>1, <4>2
    <3> QED BY <2>3, <3>2, <3>3, <3>4 DEF Payload!RemoveAt, Payload!InsertAt
  <2>4. ASSUME NEW i \in DOMAIN s15, NEW j \in DOMAIN s15, s16' = [s15 EXCEPT ![i] = s15[j], ![j] = s15[i]]
        PROVE  s16' \in Seq(Payload!Members)
    <3>1. s15[i] \in Payload!Members /\ s15[j] \in Payload!Members
      BY <1>3, PayloadMembers
    <3> QED BY <1>3, <2>4, <3>1
  <2> QED BY <2>1, <2>2, <2>3, <2>4 DEF Payload!Deliver, Payload!Nothing
<1>5. NumFiles \in Nat \ {0} /\ Payload!Files = 1 .. NumFiles /\ s1 \in Nat /\ \A f \in Payload!Files : s2[f] \in Nat
  BY <1>3, PayloadSizes
<1>6. Payload!TypesOK'
  <2>1. s14' \in Nat \X Payload!Files /\ s17' \in 0 .. Len(s16')
    BY <1>1, <1>4, <1>5
  <2> QED BY <1>1, <1>2, <1>3, <1>4, <2>1 DEF Payload!TypesOK
<1>7. Payload!HashesOK'
  <2>1. \A f \in Payload!Files : ~(f < 1) /\ Payload!Reach(s2[f], 0)' = 0
    BY <1>1, <1>5 DEF Payload!Reach
  <2>2. Payload!Inventory(0) = <<>> /\ <<>> \in Payload!Contents
    BY DEF Payload!Inventory, Payload!Contents
  <2>3. \A f \in Payload!Files : s18'[f] = Payload!Inventory(Payload!Reach(s2[f], IF f < s14[2] THEN s14[1] + 1 ELSE s14[1]))'
    BY <1>1, <2>1, <2>2 DEF Payload!Inventory
  <2> QED BY <1>1, <2>2, <2>3 DEF Payload!HashesOK, Payload!Contents, Payload!Files
<1>8. Payload!StreamOK'
  <2>1. \A piece \in Payload!AllParts : ~Payload!Given(piece, <<0, 1>>)
    <3>1. \A piece \in Payload!AllParts : piece[2] \in Nat /\ piece[1] \in Nat /\ piece[1] >= 1
      BY <1>3, PayloadPart, PayloadSizes
    <3> QED BY <3>1 DEF Payload!Given, Payload!Follows
  <2>2. Payload!UpTo(s16, s17, s14)' /\ Payload!InTurn(s16, s17)'
    BY <1>1, <1>2, <2>1 DEF Payload!UpTo, Payload!InTurn
  <2>3. Payload!Whole(s15, Len(s15))' /\ Payload!InTurn(s15, Len(s15))'
    BY <1>1, <1>2, <1>3 DEF Payload!Whole, Payload!InTurn
  <2> QED BY <1>1, <1>3, <1>7, <2>2, <2>3 DEF Payload!StreamOK
<1> QED BY <1>2, <1>6, <1>8 DEF Payload!Inv

\* The digests after one place more.
LEMMA PayloadHashes ==
  ASSUME Payload!TypesOK, Payload!HashesOK, Payload!Advance, s1' = s1, s2' = s2,
         IF Payload!Yields THEN s18' = [s18 EXCEPT ![s14[2]] = @ \o Payload!Inventory(Payload!Bytes(Payload!Yielded))] ELSE s18' = s18
  PROVE  Payload!HashesOK'
<1>1. NumFiles \in Nat \ {0} /\ Payload!Files = 1 .. NumFiles /\ s1 \in Nat \ {0} /\ \A f \in Payload!Files : s2[f] \in Nat
  BY PayloadSizes
<1>2. PICK round \in Nat, f \in Payload!Files : s14 = <<round, f>>
  <2>1. s14 \in Nat \X Payload!Files
    BY DEF Payload!TypesOK
  <2> QED BY <2>1
<1>3. s14' = IF f < NumFiles THEN <<round, f + 1>> ELSE <<round + 1, 1>>
  BY <1>2 DEF Payload!Advance
<1>4. s18 \in [Payload!Files -> Payload!Contents]
      /\ \A g \in Payload!Files : s18[g] = Payload!Inventory(Payload!Reach(s2[g], IF g < f THEN round + 1 ELSE round))
  BY <1>2 DEF Payload!HashesOK
<1>5. s18[f] = Payload!Inventory(Payload!Reach(s2[f], round))
  BY <1>1, <1>4
<1>6. s18' \in [Payload!Files -> Payload!Contents] /\ (\A g \in Payload!Files \ {f} : s18'[g] = s18[g])
      /\ s18'[f] = Payload!Inventory(Payload!Reach(s2[f], round + 1))
  <2>1. CASE Payload!Yields
    <3>1. round < Payload!PartCount(s2[f]) /\ Payload!Bytes(Payload!Yielded) = Payload!PartBytes(s2[f], round)
      BY <1>2, <2>1 DEF Payload!Yields, Payload!Yielded, Payload!Bytes
    <3>2. /\ Payload!PartBytes(s2[f], round) \in Nat /\ Payload!Reach(s2[f], round) \in Nat
          /\ Payload!Reach(s2[f], round + 1) = Payload!Reach(s2[f], round) + Payload!PartBytes(s2[f], round)
      <4>1. /\ Payload!PartBytes(s2[f], round) \in 1 .. s1 /\ Payload!Reach(s2[f], round) = round * s1 /\ round * s1 \in Nat
            /\ Payload!Reach(s2[f], round + 1) = round * s1 + Payload!PartBytes(s2[f], round)
        BY <1>1, <3>1, PayloadCuts
      <4> QED BY <1>1, <4>1
    <3>3. Payload!Inventory(Payload!Reach(s2[f], round)) \o Payload!Inventory(Payload!PartBytes(s2[f], round))
            = Payload!Inventory(Payload!Reach(s2[f], round + 1))
          /\ Payload!Inventory(Payload!Reach(s2[f], round + 1)) \in Payload!Contents
      <4>1. Payload!Reach(s2[f], round + 1) \in Nat
        BY <3>2
      <4> QED BY <3>2, <4>1, PayloadInventory DEF Payload!Contents
    <3>4. s18' = [s18 EXCEPT ![f] = s18[f] \o Payload!Inventory(Payload!PartBytes(s2[f], round))]
      BY <1>2, <2>1, <3>1
    <3> QED BY <1>4, <1>5, <3>3, <3>4
  <2>2. CASE ~Payload!Yields
    <3>1. round >= Payload!PartCount(s2[f])
      <4>1. Payload!PartCount(s2[f]) \in 0 .. s2[f]
        BY <1>1, PayloadCuts
      <4> QED BY <1>1, <1>2, <2>2, <4>1 DEF Payload!Yields
    <3>2. Payload!Reach(s2[f], round) = s2[f]
      BY <1>1, <3>1, PayloadCuts
    <3>3. Payload!Reach(s2[f], round + 1) = s2[f]
      <4>1. round + 1 \in Nat /\ round + 1 >= Payload!PartCount(s2[f])
        <5>1. Payload!PartCount(s2[f]) \in 0 .. s2[f]
          BY <1>1, PayloadCuts
        <5> QED BY <1>1, <3>1, <5>1
      <4> QED BY <1>1, <4>1, PayloadCuts
    <3> QED BY <1>4, <1>5, <2>2, <3>2, <3>3
  <2> QED BY <2>1, <2>2
<1>7. ASSUME NEW g \in Payload!Files
      PROVE  s18'[g] = Payload!Inventory(Payload!Reach(s2[g], IF g < s14'[2] THEN s14'[1] + 1 ELSE s14'[1]))
  <2>1. g \in 1 .. NumFiles /\ f \in 1 .. NumFiles /\ round \in Nat
    BY <1>1
  <2>2. (IF g < s14'[2] THEN s14'[1] + 1 ELSE s14'[1]) = IF g = f THEN round + 1 ELSE IF g < f THEN round + 1 ELSE round
    BY <1>1, <1>3, <2>1
  <2> QED BY <1>4, <1>6, <2>2
<1> QED BY <1>6, <1>7 DEF Payload!HashesOK, Payload!Inventory, Payload!Reach, Payload!Contents, Payload!Files

\* A member is taken if it is the expected one, and only another one is refused.
LEMMA PayloadVerifyPartKeeps ==
  ASSUME Payload!Inv, Payload!VerifyPart
  PROVE  Payload!Inv'
<1> DEFINE y == Payload!Yielded
<1>1. /\ s13 = "verifying" /\ Payload!Advance /\ ~Payload!Exhausted
      /\ UNCHANGED <<s1, s2, s3, s4, s5, s6, s7, s8, s9, s10, s11, s12, s15, s16>>
  BY DEF Payload!VerifyPart, Payload!Prepare, Payload!Manifest
<1>2. /\ Payload!WholeOK' /\ Payload!CatalogOK' /\ Payload!StagedOK' /\ Payload!ManifestOK'
      /\ Payload!AllParts' = Payload!AllParts /\ Payload!Members' = Payload!Members
  BY <1>1, PayloadPrepareStays
<1>3. /\ Payload!TypesOK /\ s4 \in {"prepared", "down"} /\ s11 = "synced"
      /\ s15 \in Seq(Payload!Members) /\ s16 \in Seq(Payload!Members) /\ s17 \in 0 .. Len(s16) /\ Len(s16) \in Nat
      /\ Payload!InTurn(s15, Len(s15)) /\ Payload!Whole(s15, Len(s15))
      /\ Payload!InTurn(s16, s17) /\ Payload!UpTo(s16, s17, s14) /\ Payload!HashesOK
  <2>1. /\ Payload!TypesOK /\ Payload!StreamOK /\ s15 \in Seq(Payload!Members) /\ s16 \in Seq(Payload!Members)
        /\ s17 \in 0 .. Len(s16)
    BY DEF Payload!Inv, Payload!TypesOK
  <2> QED BY <1>1, <2>1 DEF Payload!StreamOK
<1>4. s14' \in Nat \X Payload!Files /\ (Payload!Yields <=> y \in Payload!AllParts)
  BY <1>1, <1>3, PayloadAdvance
<1>5. Payload!Whole(s15, Len(s15))' /\ Payload!InTurn(s15, Len(s15))'
  BY <1>1, <1>2, <1>3 DEF Payload!Whole, Payload!InTurn
<1>6. CASE ~Payload!Yields
  <2>1. s13' = s13 /\ s17' = s17 /\ s18' = s18
    BY <1>6 DEF Payload!VerifyPart
  <2>2. Payload!TypesOK'
    BY <1>1, <1>2, <1>3, <1>4, <2>1 DEF Payload!TypesOK
  <2>3. Payload!UpTo(s16, s17, s14')
    BY <1>1, <1>3, <1>6, PayloadTurn
  <2>4. Payload!UpTo(s16, s17, s14)' /\ Payload!InTurn(s16, s17)'
    BY <1>1, <1>2, <1>3, <2>1, <2>3 DEF Payload!UpTo, Payload!InTurn
  <2>5. Payload!HashesOK'
    BY <1>1, <1>3, <1>6, <2>1, PayloadHashes
  <2>6. Payload!StreamOK'
    BY <1>1, <1>3, <1>5, <2>1, <2>4, <2>5 DEF Payload!StreamOK
  <2> QED BY <1>2, <2>2, <2>6 DEF Payload!Inv
<1>7. CASE Payload!Yields /\ Payload!IsExpected
  <2>1. /\ s17 < Len(s16) /\ s16[s17 + 1] = [part |-> y, data |-> s9[y]]
        /\ s13' = s13 /\ s17' = s17 + 1 /\ s18' = [s18 EXCEPT ![s14[2]] = @ \o s16[s17 + 1].data]
    BY <1>7 DEF Payload!VerifyPart, Payload!IsExpected
  <2>2. Payload!TypesOK'
    <3>1. s17' \in 0 .. Len(s16')
      BY <1>1, <1>3, <2>1
    <3> QED BY <1>1, <1>2, <1>3, <1>4, <2>1, <3>1 DEF Payload!TypesOK
  <2>3. Payload!InTurn(s16, s17 + 1) /\ Payload!UpTo(s16, s17 + 1, s14')
    BY <1>1, <1>3, <1>7, <2>1, PayloadTurn
  <2>4. Payload!UpTo(s16, s17, s14)' /\ Payload!InTurn(s16, s17)'
    BY <1>1, <1>2, <2>1, <2>3 DEF Payload!UpTo, Payload!InTurn
  <2>5. Payload!HashesOK'
    <3>1. s9[y] = Payload!Inventory(Payload!Bytes(y))
      <4>1. s11 # "none" /\ y \in Payload!AllParts
        BY <1>3, <1>4, <1>7
      <4> QED BY <4>1, PayloadComplete
    <3>2. s18' = [s18 EXCEPT ![s14[2]] = @ \o Payload!Inventory(Payload!Bytes(y))]
      BY <2>1, <3>1
    <3> QED BY <1>1, <1>3, <1>7, <3>2, PayloadHashes
  <2>6. Payload!StreamOK'
    BY <1>1, <1>3, <1>5, <2>1, <2>4, <2>5 DEF Payload!StreamOK
  <2> QED BY <1>2, <2>2, <2>6 DEF Payload!Inv
<1>8. CASE Payload!Yields /\ ~Payload!IsExpected
  <2>1. s13' = "refused" /\ s17' = s17 /\ s18' = s18
    BY <1>8 DEF Payload!VerifyPart
  <2>2. Payload!TypesOK'
    BY <1>1, <1>2, <1>3, <1>4, <2>1 DEF Payload!TypesOK
  <2>3. s16 # s15
    <3>1. ASSUME s16 = s15 PROVE Payload!IsExpected
      <4>1. s17 \in 0 .. Len(s15) /\ Payload!UpTo(s15, s17, s14)
        BY <1>3, <3>1
      <4>2. s17 < Len(s15) /\ s15[s17 + 1] = [part |-> y, data |-> s9[y]]
        BY <1>3, <1>8, <4>1, PayloadNextMember
      <4> QED BY <3>1, <4>2 DEF Payload!IsExpected
    <3> QED BY <1>8, <3>1
  <2>4. Payload!StreamOK'
    BY <1>1, <1>3, <1>5, <2>1, <2>3 DEF Payload!StreamOK
  <2> QED BY <1>2, <2>2, <2>4 DEF Payload!Inv
<1> QED BY <1>6, <1>7, <1>8

\* At the end, an unaltered stream has no other member and fits every digest.
LEMMA PayloadVerifyEndsKeeps ==
  ASSUME Payload!Inv, Payload!VerifyEnds
  PROVE  Payload!Inv'
<1>1. /\ s13 = "verifying" /\ Payload!Exhausted /\ s13' = IF Payload!Accepted THEN "verified" ELSE "refused"
      /\ UNCHANGED <<s1, s2, s3, s4, s5, s6, s7, s8, s9, s10, s11, s12, s14, s15, s16, s17, s18>>
  BY DEF Payload!VerifyEnds, Payload!Prepare, Payload!Manifest
<1>2. /\ Payload!WholeOK' /\ Payload!CatalogOK' /\ Payload!StagedOK' /\ Payload!ManifestOK'
      /\ Payload!AllParts' = Payload!AllParts /\ Payload!Members' = Payload!Members
  BY <1>1, PayloadPrepareStays
<1>3. /\ Payload!TypesOK /\ s4 \in {"prepared", "down"} /\ s11 = "synced"
      /\ s15 \in Seq(Payload!Members) /\ s16 \in Seq(Payload!Members) /\ s17 \in 0 .. Len(s16) /\ Len(s16) \in Nat
      /\ Payload!InTurn(s15, Len(s15)) /\ Payload!Whole(s15, Len(s15))
      /\ Payload!InTurn(s16, s17) /\ Payload!UpTo(s16, s17, s14) /\ Payload!HashesOK
  <2>1. /\ Payload!TypesOK /\ Payload!StreamOK /\ s15 \in Seq(Payload!Members) /\ s16 \in Seq(Payload!Members)
        /\ s17 \in 0 .. Len(s16)
    BY DEF Payload!Inv, Payload!TypesOK
  <2> QED BY <1>1, <2>1 DEF Payload!StreamOK
<1>4. Payload!TypesOK'
  BY <1>1, <1>2, <1>3 DEF Payload!TypesOK
<1>5. Payload!Whole(s15, Len(s15))' /\ Payload!InTurn(s15, Len(s15))'
  BY <1>1, <1>2, <1>3 DEF Payload!Whole, Payload!InTurn
<1>6. CASE Payload!Accepted
  <2>1. s17 = Len(s16) /\ s13' = "verified"
    BY <1>1, <1>6 DEF Payload!Accepted
  <2>2. Payload!Whole(s16, Len(s16))
    BY <1>1, <1>3, <2>1, PayloadExhausted
  <2>3. Payload!Whole(s16, Len(s16))' /\ Payload!InTurn(s16, Len(s16))'
    BY <1>1, <1>2, <1>3, <2>1, <2>2 DEF Payload!Whole, Payload!InTurn
  <2>4. Payload!StreamOK'
    BY <1>1, <1>3, <1>5, <2>1, <2>3 DEF Payload!StreamOK
  <2> QED BY <1>2, <1>4, <2>4 DEF Payload!Inv
<1>7. CASE ~Payload!Accepted
  <2>1. ASSUME s16 = s15 PROVE Payload!Accepted
    <3>1. s17 \in 0 .. Len(s15) /\ Payload!UpTo(s15, s17, s14)
      BY <1>3, <2>1
    <3>2. s17 = Len(s16)
      BY <1>1, <1>3, <2>1, <3>1, PayloadNextMember
    <3>3. ASSUME NEW f \in Payload!Files PROVE s18[f] = Payload!Inventory(s2[f])
      <4>1. PICK round \in Nat, g \in Payload!Files : s14 = <<round, g>>
        <5>1. s14 \in Nat \X Payload!Files
          BY <1>3 DEF Payload!TypesOK
        <5> QED BY <5>1
      <4>2. s1 \in Nat \ {0} /\ s2[f] \in Nat
        BY <1>3, PayloadSizes
      <4>3. Payload!PartCount(s2[f]) \in 0 .. s2[f] /\ round >= Payload!PartCount(s2[f])
        BY <1>1, <4>1, <4>2, PayloadCuts DEF Payload!Exhausted
      <4>4. round + 1 \in Nat /\ round + 1 >= Payload!PartCount(s2[f])
        BY <4>2, <4>3
      <4>5. Payload!Reach(s2[f], round) = s2[f] /\ Payload!Reach(s2[f], round + 1) = s2[f]
        BY <4>2, <4>3, <4>4, PayloadCuts
      <4>6. s18[f] = Payload!Inventory(Payload!Reach(s2[f], IF f < g THEN round + 1 ELSE round))
        BY <1>3, <4>1 DEF Payload!HashesOK
      <4> QED BY <4>5, <4>6
    <3> QED BY <3>2, <3>3 DEF Payload!Accepted
  <2>2. s13' = "refused" /\ s16 # s15
    BY <1>1, <1>7, <2>1
  <2>3. Payload!StreamOK'
    BY <1>1, <1>3, <1>5, <2>2 DEF Payload!StreamOK
  <2> QED BY <1>2, <1>4, <2>3 DEF Payload!Inv
<1> QED BY <1>6, <1>7

\* While prepare works, there is no stream yet.
LEMMA PayloadNoStream ==
  ASSUME Payload!Inv, s4 \notin {"prepared", "down"}
  PROVE  /\ s13 = "none" /\ (s13' = s13 => Payload!StreamOK')
         /\ Payload!TypesOK /\ Payload!WholeOK /\ Payload!CatalogOK /\ Payload!StagedOK /\ Payload!ManifestOK /\ ~s12
<1>1. Payload!TypesOK /\ Payload!WholeOK /\ Payload!CatalogOK /\ Payload!StagedOK /\ Payload!ManifestOK /\ Payload!StreamOK
  BY DEF Payload!Inv
<1>2. s13 = "none"
  BY <1>1 DEF Payload!StreamOK
<1>3. ~s12
  BY <1>1 DEF Payload!ManifestOK, Payload!TypesOK
<1> QED BY <1>1, <1>2, <1>3 DEF Payload!StreamOK

\* The names of the catalog's parts depend on the sizes only.
LEMMA PayloadSameSizes ==
  ASSUME s1' = s1, s2' = s2
  PROVE  /\ Payload!AllParts' = Payload!AllParts /\ Payload!Members' = Payload!Members
         /\ Payload!CatalogOK /\ s5' = s5 /\ s9' = s9 => Payload!CatalogOK'
<1>1. Payload!AllParts' = Payload!AllParts
  BY DEF Payload!AllParts, Payload!PartCount
<1> QED BY <1>1 DEF Payload!Members, Payload!CatalogOK, Payload!Bytes, Payload!PartBytes

\* An original is opened, or all of them are done.
LEMMA PayloadOpenKeeps ==
  ASSUME Payload!Inv, Payload!Open
  PROVE  Payload!Inv'
<1>1. /\ s4 = "open" /\ UNCHANGED <<s1, s2, s3, s5, s8, s9, s10, s11, s12, s13, s14, s15, s16, s17, s18>>
  BY DEF Payload!Open, Payload!Rest, Payload!Manifest, Payload!Transfer
<1>2. /\ Payload!StreamOK' /\ Payload!TypesOK /\ Payload!WholeOK /\ Payload!CatalogOK /\ Payload!StagedOK /\ Payload!ManifestOK /\ ~s12
      /\ Payload!AllParts' = Payload!AllParts /\ Payload!Members' = Payload!Members /\ Payload!CatalogOK'
  BY <1>1, PayloadNoStream, PayloadSameSizes
<1>3. s11 = "none" /\ s5[2] = 0 /\ s5[1] \in 1 .. NumFiles + 1 /\ NumFiles \in Nat /\ ~Payload!Writing
  <2>1. s5 \in (1 .. NumFiles + 1) \X Nat
    BY <1>2 DEF Payload!TypesOK
  <2> QED BY <1>1, <1>2, <2>1, PayloadSizes DEF Payload!ManifestOK, Payload!WholeOK, Payload!Writing
<1>4. CASE s5[1] > NumFiles
  <2>1. s4' = "manifest" /\ s6' = s6 /\ s7' = s7
    BY <1>4 DEF Payload!Open
  <2>2. Payload!TypesOK'
    BY <1>1, <1>2, <2>1 DEF Payload!TypesOK, Payload!Ready
  <2>3. Payload!WholeOK' /\ ~Payload!Writing'
    BY <2>1 DEF Payload!WholeOK, Payload!Writing
  <2>4. Payload!StagedOK'
    BY <1>1, <1>2, <1>3, <2>1, <2>3 DEF Payload!StagedOK, Payload!Stored, Payload!Before
  <2>5. Payload!ManifestOK'
    BY <1>1, <1>2, <1>3, <1>4, <2>1 DEF Payload!ManifestOK
  <2> QED BY <1>2, <2>2, <2>3, <2>4, <2>5 DEF Payload!Inv
<1>5. CASE ~(s5[1] > NumFiles)
  <2>1. s4' \in {"parts", "failed"} /\ s6' = s3[s5[1]].id /\ s7' = <<>> /\ s5[1] \in Payload!Files
    BY <1>3, <1>5 DEF Payload!Open, Payload!Nothing, Payload!Files
  <2>2. Payload!TypesOK'
    <3>1. s6' \in Nat
      BY <1>2, <2>1 DEF Payload!TypesOK
    <3>2. s7' \in Payload!Contents
      BY <2>1 DEF Payload!Contents
    <3> QED BY <1>1, <1>2, <2>1, <3>1, <3>2 DEF Payload!TypesOK
  <2>3. ~Payload!Writing'
    BY <2>1 DEF Payload!Writing
  <2>4. Payload!WholeOK'
    <3>1. s1 \in Nat \ {0} /\ s2[s5[1]] \in Nat
      BY <1>2, <2>1, PayloadSizes
    <3>2. 0 <= Payload!PartCount(s2[s5[1]]) /\ Payload!Reach(s2[s5[1]], 0) = 0
      BY <3>1, PayloadCuts DEF Payload!Reach
    <3>3. Payload!Cuts(s5[1], 0)'
      BY <1>1, <2>1, <3>2 DEF Payload!Cuts, Payload!PartCount, Payload!Reach
    <3> QED BY <1>1, <1>3, <2>1, <2>3, <3>3 DEF Payload!WholeOK, Payload!Files
  <2>5. Payload!StagedOK'
    BY <1>1, <1>2, <1>3, <2>1, <2>3 DEF Payload!StagedOK, Payload!Stored, Payload!Before
  <2>6. Payload!ManifestOK'
    BY <1>1, <1>2, <1>3, <2>1 DEF Payload!ManifestOK, Payload!Ready
  <2> QED BY <1>2, <2>2, <2>4, <2>5, <2>6 DEF Payload!Inv
<1> QED BY <1>4, <1>5

\* What is read of an original for a part.
LEMMA PayloadRead ==
  ASSUME Payload!TypesOK, s5[1] \in Payload!Files, s5[2] < Payload!PartCount(s2[s5[1]])
  PROVE  /\ s5 \in Payload!AllParts /\ s5 = <<s5[1], s5[2]>> /\ Payload!Read \in Payload!Contents
         /\ ~Payload!Truncated => Len(Payload!Read) = Payload!Bytes(s5)
<1> DEFINE f == s5[1]
           n == s5[2]
<1>1. n \in Nat /\ s5 = <<f, n>> /\ s3[f].bytes \in Seq({0, 1}) /\ s1 \in Nat \ {0} /\ s2[f] \in Nat
  <2>1. s5 \in (1 .. NumFiles + 1) \X Nat /\ s3[f] \in [bytes : Payload!Contents, id : Nat]
    BY DEF Payload!TypesOK
  <2> QED BY <2>1, PayloadSizes DEF Payload!Contents
<1>2. s5 \in Payload!AllParts /\ Payload!Bytes(s5) = Payload!PartBytes(s2[f], n)
  BY <1>1, PayloadParts
<1>3. n * s1 \in Nat /\ Payload!PartBytes(s2[f], n) \in 1 .. s1
  BY <1>1, PayloadCuts
<1>4. PICK from \in Nat, bytes \in Nat, b \in Seq({0, 1}) : from = n * s1 /\ bytes = Payload!Bytes(s5) /\ b = s3[f].bytes
  BY <1>1, <1>2, <1>3
<1>5. Payload!Read = SubSeq(b, from + 1, IF Payload!Truncated THEN Len(b) ELSE from + bytes) /\ (Payload!Truncated <=> Len(b) < from + bytes)
  BY <1>4 DEF Payload!Read, Payload!Truncated
<1>6. CASE Payload!Truncated
  BY <1>1, <1>2, <1>5, <1>6 DEF Payload!Contents
<1>7. CASE ~Payload!Truncated
  <2>1. Payload!Read = SubSeq(b, from + 1, from + bytes) /\ from + bytes <= Len(b)
    BY <1>1, <1>5, <1>7
  <2>2. Payload!Read \in Seq({0, 1}) /\ Len(Payload!Read) = bytes
    <3>1. SubSeq(b, from + 1, from + bytes) \in Seq({0, 1}) /\ Len(SubSeq(b, from + 1, from + bytes)) = bytes
      <4>1. SubSeq(b, from + 1, from + bytes) = [i \in 1 .. bytes |-> b[from + i]]
        BY <2>1
      <4>2. \A i \in 1 .. bytes : b[from + i] \in {0, 1}
        BY <2>1
      <4> QED BY <4>1, <4>2
    <3> QED BY <2>1, <3>1
  <2> QED BY <1>1, <1>2, <1>4, <2>2 DEF Payload!Contents
<1> QED BY <1>6, <1>7

\* A part is written: what was read so far is what the parts hold, with this one.
LEMMA PayloadWriteKeeps ==
  ASSUME Payload!Inv, Payload!WritePart
  PROVE  Payload!Inv'
<1> DEFINE f == s5[1]
           n == s5[2]
           size == s2[f]
           data == Payload!Read
<1>1. /\ s4 = "parts" /\ n < Payload!PartCount(size)
      /\ s4' = (IF Payload!Truncated THEN "failed" ELSE "fsync")
      /\ s8' = Payload!With(s8, s5, [data |-> data, disk |-> "nothing"])
      /\ s9' = Payload!With(s9, s5, data) /\ s7' = s7 \o data
      /\ UNCHANGED <<s1, s2, s3, s5, s6, s10, s11, s12, s13, s14, s15, s16, s17, s18>>
  BY DEF Payload!WritePart, Payload!Rest, Payload!Manifest, Payload!Transfer
<1>2. /\ Payload!StreamOK' /\ Payload!TypesOK /\ Payload!WholeOK /\ Payload!CatalogOK /\ Payload!StagedOK /\ Payload!ManifestOK /\ ~s12
      /\ Payload!AllParts' = Payload!AllParts /\ Payload!Members' = Payload!Members
  BY <1>1, PayloadNoStream, PayloadSameSizes
<1>3. s11 = "none" /\ f \in Payload!Files /\ Payload!Cuts(f, n) /\ ~Payload!Writing
  BY <1>1, <1>2 DEF Payload!ManifestOK, Payload!WholeOK, Payload!Writing
<1>4. /\ s5 \in Payload!AllParts /\ s5 = <<f, n>> /\ data \in Payload!Contents
      /\ ~Payload!Truncated => Len(data) = Payload!Bytes(s5)
  BY <1>1, <1>2, <1>3, PayloadRead
<1>5. n \in Nat /\ f \in Nat /\ s1 \in Nat \ {0} /\ size \in Nat /\ s7 \in Payload!Contents
  <2>1. s5 \in (1 .. NumFiles + 1) \X Nat /\ s7 \in Payload!Contents
    BY <1>2 DEF Payload!TypesOK
  <2> QED BY <1>2, <1>3, <2>1, PayloadSizes
<1>6. /\ DOMAIN s9' = DOMAIN s9 \cup {s5} /\ s9'[s5] = data /\ \A piece \in DOMAIN s9 : piece # s5 => s9'[piece] = s9[piece]
      /\ DOMAIN s8' = DOMAIN s8 \cup {s5} /\ s8'[s5] = [data |-> data, disk |-> "nothing"]
      /\ \A piece \in DOMAIN s8 : piece # s5 => s8'[piece] = s8[piece]
  BY <1>1 DEF Payload!With
<1>7. Payload!TypesOK'
  <2>1. s7' \in Payload!Contents
    BY <1>1, <1>4, <1>5 DEF Payload!Contents
  <2>2. s4' \in {"fsync", "failed"}
    BY <1>1
  <2> QED BY <1>1, <1>2, <2>1, <2>2 DEF Payload!TypesOK
<1>8. Payload!CatalogOK'
  <2>1. ASSUME NEW piece \in Payload!AllParts, piece[1] < s5[1]
        PROVE  piece \in DOMAIN s9' /\ s9'[piece] = Payload!Inventory(Payload!Bytes(piece))
    <3>1. piece # s5
      BY <1>5, <2>1
    <3> QED BY <1>2, <1>6, <2>1, <3>1 DEF Payload!CatalogOK
  <2> QED BY <1>1, <1>2, <2>1 DEF Payload!CatalogOK, Payload!Bytes, Payload!PartBytes, Payload!Inventory
<1>9. Payload!ManifestOK'
  BY <1>1, <1>2, <1>3 DEF Payload!ManifestOK, Payload!Ready
<1>10. Payload!StagedOK'
  <2>1. CASE Payload!Truncated
    BY <1>1, <1>3, <2>1 DEF Payload!StagedOK
  <2>2. CASE ~Payload!Truncated
    <3>1. s4' = "fsync" /\ Payload!Writing'
      BY <1>1, <2>2 DEF Payload!Writing
    <3>2. ~Payload!Before(s5)
      BY <1>5 DEF Payload!Before
    <3>3. /\ \A piece \in Payload!AllParts : Payload!Before(piece) => Payload!Stored(piece)
          /\ DOMAIN s8 \subseteq Payload!AllParts /\ \A piece \in DOMAIN s8 : Payload!Before(piece)
      BY <1>1, <1>2, <1>3 DEF Payload!StagedOK
    <3>4. \A piece : Payload!Before(piece)' <=> Payload!Before(piece)
      BY <1>1 DEF Payload!Before
    <3>5. \A piece \in Payload!AllParts : Payload!Before(piece) => Payload!Stored(piece)'
      BY <1>6, <3>2, <3>3 DEF Payload!Stored
    <3>6. DOMAIN s8' \subseteq Payload!AllParts /\ \A piece \in DOMAIN s8' : Payload!Before(piece) \/ piece = s5
      BY <1>4, <1>6, <3>3
    <3>7. s5 \in DOMAIN s8' /\ s5 \in DOMAIN s9' /\ s8'[s5] = [data |-> s9'[s5], disk |-> IF s4' = "fsync" THEN "nothing" ELSE "data"]
      BY <1>6, <3>1
    <3> QED BY <1>1, <1>2, <3>1, <3>4, <3>5, <3>6, <3>7 DEF Payload!StagedOK
  <2> QED BY <2>1, <2>2
<1>11. Payload!WholeOK'
  <2>1. CASE Payload!Truncated
    BY <1>1, <2>1 DEF Payload!WholeOK, Payload!Writing
  <2>2. CASE ~Payload!Truncated
    <3>1. s4' = "fsync" /\ Payload!Writing'
      BY <1>1, <2>2 DEF Payload!Writing
    <3>2. PICK bytes \in Nat : bytes = Payload!PartBytes(size, n) /\ bytes = Payload!Bytes(s5)
      BY <1>2, <1>4, PayloadPart DEF Payload!Bytes
    <3>3. PICK from \in Nat : from = n * s1
      BY <1>5
    <3>4. Payload!Reach(size, n) = from /\ Payload!Reach(size, n + 1) = from + bytes
      BY <1>1, <1>5, <3>2, <3>3, PayloadCuts
    <3>5. Len(s7) = from /\ Len(s7') = from + bytes /\ Len(data) = bytes
          /\ (\A i \in 1 .. from : s7'[i] = s7[i]) /\ \A j \in 1 .. bytes : s7'[from + j] = data[j]
      <4>1. Len(s7) = from /\ Len(data) = bytes /\ s7 \in Seq({0, 1}) /\ data \in Seq({0, 1}) /\ s7' = s7 \o data
        BY <1>1, <1>3, <1>4, <1>5, <2>2, <3>2, <3>4 DEF Payload!Cuts, Payload!Contents
      <4> HIDE DEF data
      <4>2. Len(s7 \o data) = Len(s7) + Len(data) /\ (\A i \in 1 .. Len(s7) : (s7 \o data)[i] = s7[i])
            /\ \A j \in 1 .. Len(data) : (s7 \o data)[Len(s7) + j] = data[j]
        <5>1. s7 \in Seq({0, 1}) /\ data \in Seq({0, 1})
          BY <4>1
        <5> QED BY ONLY <5>1, PayloadConcat
      <4>3. Len(s7) = from /\ Len(data) = bytes /\ s7' = s7 \o data
        BY <4>1
      <4> QED BY ONLY <4>2, <4>3
    <3>6. ASSUME NEW k \in 0 .. n
          PROVE  /\ <<f, k>> \in DOMAIN s9' /\ s9'[<<f, k>>] \in Payload!Contents /\ Len(s9'[<<f, k>>]) = Payload!PartBytes(size, k)
                 /\ \A j \in 1 .. Payload!PartBytes(size, k) : s9'[<<f, k>>][j] = s7'[k * s1 + j]
      <4>1. CASE k = n
        BY <1>4, <1>6, <3>2, <3>3, <3>5, <4>1
      <4>2. CASE k \in 0 .. n - 1
        <5>1. <<f, k>> # s5 /\ k \in Nat /\ k + 1 <= n
          BY <1>4, <1>5, <4>2
        <5>2. k * s1 \in Nat /\ Payload!PartBytes(size, k) \in 1 .. s1
          <6>1. Payload!PartCount(size) \in 0 .. size
            BY <1>5, PayloadCuts
          <6>2. k < Payload!PartCount(size)
            BY <1>1, <1>5, <5>1, <6>1
          <6> QED BY <1>5, <5>1, <6>2, PayloadCuts
        <5>3. k * s1 + s1 <= from
          BY <1>5, <3>3, <5>1, PayloadTimes
        <5>4. /\ <<f, k>> \in DOMAIN s9 /\ s9[<<f, k>>] \in Payload!Contents /\ Len(s9[<<f, k>>]) = Payload!PartBytes(size, k)
              /\ \A j \in 1 .. Payload!PartBytes(size, k) : s9[<<f, k>>][j] = s7[k * s1 + j]
          BY <1>3, <4>2 DEF Payload!Cuts
        <5>5. \A j \in 1 .. Payload!PartBytes(size, k) : k * s1 + j \in 1 .. from
          BY <1>5, <5>2, <5>3
        <5>6. s9'[<<f, k>>] = s9[<<f, k>>] /\ <<f, k>> \in DOMAIN s9'
          BY <1>6, <5>1, <5>4
        <5>7. \A j \in 1 .. Payload!PartBytes(size, k) : s7'[k * s1 + j] = s7[k * s1 + j]
          BY <3>5, <5>5
        <5> QED BY <5>4, <5>6, <5>7
      <4>3. k = n \/ k \in 0 .. n - 1
        BY <1>5
      <4> QED BY <4>1, <4>2, <4>3
    <3>7. Payload!Cuts(f, n + 1)'
      <4>1. n + 1 <= Payload!PartCount(size) /\ (n + 1) - 1 = n
        <5>1. Payload!PartCount(size) \in 0 .. size
          BY <1>5, PayloadCuts
        <5> QED BY <1>1, <1>5, <5>1
      <4>2. Len(s7') = Payload!Reach(size, n + 1)
        BY <3>4, <3>5
      <4> QED BY <1>1, <3>6, <4>1, <4>2 DEF Payload!Cuts, Payload!PartCount, Payload!PartBytes, Payload!Reach
    <3> QED BY <1>1, <1>3, <3>1, <3>7 DEF Payload!WholeOK, Payload!Files
  <2> QED BY <2>1, <2>2
<1> QED BY <1>2, <1>7, <1>8, <1>9, <1>10, <1>11 DEF Payload!Inv

\* The data of a part is synchronized, then its name.
LEMMA PayloadSyncKeeps ==
  ASSUME Payload!Inv, Payload!SyncPart \/ Payload!SyncParts
  PROVE  Payload!Inv'
<1>1. /\ s4 \in {"fsync", "sync directory"} /\ UNCHANGED <<s1, s2, s3, s6, s7, s9, s10, s11, s12, s13, s14, s15, s16, s17, s18>>
  BY DEF Payload!SyncPart, Payload!SyncParts, Payload!Rest, Payload!Manifest, Payload!Transfer
<1>2. /\ Payload!StreamOK' /\ Payload!TypesOK /\ Payload!WholeOK /\ Payload!CatalogOK /\ Payload!StagedOK /\ Payload!ManifestOK /\ ~s12
      /\ Payload!AllParts' = Payload!AllParts /\ Payload!Members' = Payload!Members /\ (s5' = s5 => Payload!CatalogOK')
  BY <1>1, PayloadNoStream, PayloadSameSizes
<1>3. Payload!Writing /\ s11 = "none" /\ s5[1] \in Payload!Files /\ Payload!Cuts(s5[1], s5[2] + 1)
  BY <1>1, <1>2 DEF Payload!ManifestOK, Payload!WholeOK, Payload!Writing
<1>4. /\ \A piece \in Payload!AllParts : Payload!Before(piece) => Payload!Stored(piece)
      /\ DOMAIN s8 \subseteq Payload!AllParts /\ (\A piece \in DOMAIN s8 : Payload!Before(piece) \/ piece = s5)
      /\ s5 \in DOMAIN s8 /\ s5 \in DOMAIN s9 /\ s8[s5] = [data |-> s9[s5], disk |-> IF s4 = "fsync" THEN "nothing" ELSE "data"]
  BY <1>1, <1>2, <1>3 DEF Payload!StagedOK
<1>5. s5 \in (1 .. NumFiles + 1) \X Nat /\ NumFiles \in Nat /\ Payload!Files = 1 .. NumFiles
  BY <1>2, PayloadSizes DEF Payload!TypesOK
<1>6. s5[1] \in 1 .. NumFiles + 1 /\ s5[1] \in Nat /\ s5[2] \in Nat /\ s5 = <<s5[1], s5[2]>> /\ ~Payload!Before(s5)
  BY <1>5 DEF Payload!Before
<1>8. CASE Payload!SyncPart
  <2>1. s4 = "fsync" /\ s4' = "sync directory" /\ s5' = s5 /\ s8' = [s8 EXCEPT ![s5].disk = "data"]
    BY <1>8 DEF Payload!SyncPart
  <2>2. DOMAIN s8' = DOMAIN s8 /\ s8'[s5] = [data |-> s9[s5], disk |-> "data"]
        /\ \A piece \in DOMAIN s8 : piece # s5 => s8'[piece] = s8[piece]
    <3>1. s8' = [s8 EXCEPT ![s5] = [s8[s5] EXCEPT !.disk = "data"]]
      BY <2>1
    <3>2. s8[s5] = [data |-> s9[s5], disk |-> "nothing"]
      BY <1>4, <2>1
    <3>3. [s8[s5] EXCEPT !.disk = "data"] = [data |-> s9[s5], disk |-> "data"]
      BY <3>2
    <3> QED BY <1>4, <3>1, <3>3
  <2>3. Payload!TypesOK'
    BY <1>1, <1>2, <2>1 DEF Payload!TypesOK
  <2>4. Payload!Writing'
    BY <2>1 DEF Payload!Writing
  <2>5. Payload!WholeOK'
    BY <1>1, <1>2, <1>3, <2>1, <2>4 DEF Payload!WholeOK, Payload!Cuts, Payload!PartCount, Payload!PartBytes, Payload!Reach, Payload!Files
  <2>6. Payload!StagedOK'
    <3>1. \A piece \in Payload!AllParts : Payload!Before(piece)' => Payload!Stored(piece)'
      <4>1. ASSUME NEW piece \in Payload!AllParts, Payload!Before(piece)' PROVE Payload!Stored(piece)'
        <5>1. Payload!Before(piece) /\ piece # s5
          BY <1>6, <2>1, <4>1 DEF Payload!Before
        <5> QED BY <1>1, <1>4, <2>2, <5>1 DEF Payload!Stored
      <4> QED BY <4>1
    <3>2. \A piece \in DOMAIN s8' : Payload!Before(piece)' \/ piece = s5'
      BY <1>4, <2>1, <2>2 DEF Payload!Before
    <3> QED BY <1>1, <1>2, <1>4, <2>1, <2>2, <2>4, <3>1, <3>2 DEF Payload!StagedOK
  <2>7. Payload!ManifestOK'
    BY <1>1, <1>2, <1>3, <2>1 DEF Payload!ManifestOK, Payload!Ready
  <2> QED BY <1>2, <2>1, <2>3, <2>5, <2>6, <2>7 DEF Payload!Inv
<1>9. CASE Payload!SyncParts
  <2>1. s4 = "sync directory" /\ s4' = "parts" /\ s5' = <<s5[1], s5[2] + 1>> /\ s8' = [s8 EXCEPT ![s5].disk = "name"]
    BY <1>9 DEF Payload!SyncParts
  <2>2. DOMAIN s8' = DOMAIN s8 /\ s8'[s5] = [data |-> s9[s5], disk |-> "name"]
        /\ \A piece \in DOMAIN s8 : piece # s5 => s8'[piece] = s8[piece]
    <3>1. s8' = [s8 EXCEPT ![s5] = [s8[s5] EXCEPT !.disk = "name"]]
      BY <2>1
    <3>2. s8[s5] = [data |-> s9[s5], disk |-> "data"]
      BY <1>4, <2>1
    <3>3. [s8[s5] EXCEPT !.disk = "name"] = [data |-> s9[s5], disk |-> "name"]
      BY <3>2
    <3> QED BY <1>4, <3>1, <3>3
  <2>3. s5' \in (1 .. NumFiles + 1) \X Nat
    <3>1. s5[2] + 1 \in Nat
      BY <1>6
    <3> QED BY <1>6, <2>1, <3>1
  <2>4. Payload!TypesOK'
    BY <1>1, <1>2, <2>1, <2>3 DEF Payload!TypesOK
  <2>5. ~Payload!Writing'
    BY <2>1 DEF Payload!Writing
  <2>6. Payload!WholeOK'
    <3>1. PICK f, n : f = s5[1] /\ n = s5[2] + 1 /\ Payload!Cuts(f, n)
      BY <1>3
    <3>2. f = s5'[1] /\ n = s5'[2]
      BY <2>1, <3>1
    <3>3. Payload!Cuts(f, n)'
      BY <1>1, <3>1 DEF Payload!Cuts, Payload!PartCount, Payload!PartBytes, Payload!Reach
    <3>4. Payload!Cuts(s5[1], s5[2])'
      BY <3>2, <3>3
    <3> QED BY <1>3, <2>1, <2>5, <3>1, <3>2, <3>4 DEF Payload!WholeOK, Payload!Files
  <2>7. Payload!CatalogOK'
    BY <1>1, <1>2, <2>1 DEF Payload!CatalogOK, Payload!Bytes, Payload!PartBytes
  <2>8. Payload!StagedOK'
    <3>1. \A piece \in Payload!AllParts : Payload!Before(piece)' <=> Payload!Before(piece) \/ piece = s5
      <4>1. ASSUME NEW piece \in Payload!AllParts PROVE Payload!Before(piece)' <=> Payload!Before(piece) \/ piece = s5
        <5>1. piece[1] \in Nat /\ piece[2] \in Nat /\ piece = <<piece[1], piece[2]>>
          BY <1>2, <1>5, PayloadPart
        <5>2. s5'[1] = s5[1] /\ s5'[2] = s5[2] + 1
          BY <2>1
        <5>3. piece = s5 <=> piece[1] = s5[1] /\ piece[2] = s5[2]
          BY <1>6, <5>1
        <5> QED BY <1>6, <5>1, <5>2, <5>3 DEF Payload!Before
      <4> QED BY <4>1
    <3>2. \A piece \in Payload!AllParts : Payload!Before(piece)' => Payload!Stored(piece)'
      <4>1. ASSUME NEW piece \in Payload!AllParts, Payload!Before(piece)' PROVE Payload!Stored(piece)'
        <5>1. CASE piece = s5
          BY <1>1, <1>4, <2>2, <5>1 DEF Payload!Stored
        <5>2. CASE piece # s5 /\ Payload!Stored(piece)
          BY <1>1, <2>2, <5>2 DEF Payload!Stored
        <5> QED BY <1>4, <3>1, <4>1, <5>1, <5>2
      <4> QED BY <4>1
    <3>3. DOMAIN s8' \subseteq Payload!AllParts /\ \A piece \in DOMAIN s8' : Payload!Before(piece)'
      BY <1>4, <2>2, <3>1
    <3> QED BY <1>2, <2>5, <3>2, <3>3 DEF Payload!StagedOK
  <2>9. Payload!ManifestOK'
    BY <1>1, <1>2, <1>3, <2>1 DEF Payload!ManifestOK, Payload!Ready
  <2> QED BY <1>2, <2>4, <2>6, <2>7, <2>8, <2>9 DEF Payload!Inv
<1> QED BY <1>8, <1>9

\* An original that holds in whole has the parts of the inventory.
LEMMA PayloadCompareKeeps ==
  ASSUME Payload!Inv, Payload!Compare
  PROVE  Payload!Inv'
<1> DEFINE f == s5[1]
           n == s5[2]
           size == s2[f]
<1>1. s4 = "parts" /\ n = Payload!PartCount(size)
      /\ UNCHANGED <<s1, s2, s3, s6, s7, s8, s9, s10, s11, s12, s13, s14, s15, s16, s17, s18>>
  BY DEF Payload!Compare, Payload!Rest, Payload!Manifest, Payload!Transfer
<1>2. /\ Payload!StreamOK' /\ Payload!TypesOK /\ Payload!WholeOK /\ Payload!CatalogOK /\ Payload!StagedOK /\ Payload!ManifestOK /\ ~s12
      /\ Payload!AllParts' = Payload!AllParts /\ Payload!Members' = Payload!Members /\ (s5' = s5 => Payload!CatalogOK')
  BY <1>1, PayloadNoStream, PayloadSameSizes
<1>3. s11 = "none" /\ f \in Payload!Files /\ Payload!Cuts(f, n) /\ ~Payload!Writing
  BY <1>1, <1>2 DEF Payload!ManifestOK, Payload!WholeOK, Payload!Writing
<1>4. /\ s5 \in (1 .. NumFiles + 1) \X Nat /\ n \in Nat /\ f \in Nat /\ NumFiles \in Nat /\ f <= NumFiles
      /\ s1 \in Nat \ {0} /\ size \in Nat
  <2>1. s5 \in (1 .. NumFiles + 1) \X Nat
    BY <1>2 DEF Payload!TypesOK
  <2> QED BY <1>2, <1>3, <2>1, PayloadSizes
<1>5. CASE Payload!OriginalHolds(f)
  <2>1. s4' = "open" /\ s5' = <<f + 1, 0>> /\ s7 = Payload!Inventory(size)
    BY <1>5 DEF Payload!Compare, Payload!OriginalHolds
  <2>2. ~Payload!Writing' /\ Payload!WholeOK'
    BY <2>1 DEF Payload!Writing, Payload!WholeOK
  <2>3. Payload!TypesOK'
    <3>1. s5' \in (1 .. NumFiles + 1) \X Nat
      BY <1>4, <2>1
    <3> QED BY <1>1, <1>2, <2>1, <3>1 DEF Payload!TypesOK
  <2>4. ASSUME NEW piece \in Payload!AllParts, piece[1] < f + 1
        PROVE  piece \in DOMAIN s9 /\ s9[piece] = Payload!Inventory(Payload!Bytes(piece)) /\ Payload!Before(piece)
    <3>1. piece[1] \in Nat /\ piece[2] \in Nat /\ piece = <<piece[1], piece[2]>> /\ piece[2] < Payload!PartCount(s2[piece[1]])
      BY <1>2, PayloadPart, PayloadSizes
    <3>2. CASE piece[1] < f
      BY <1>2, <2>4, <3>2 DEF Payload!CatalogOK, Payload!Before
    <3>3. CASE piece[1] = f
      <4>1. PICK k \in Nat : piece = <<f, k>> /\ k < n
        BY <1>1, <3>1, <3>3
      <4>2. PICK bytes \in Nat : bytes = Payload!PartBytes(size, k) /\ bytes = Payload!Bytes(piece)
        BY <1>2, <4>1, PayloadPart DEF Payload!Bytes
      <4>3. k * s1 \in Nat /\ k * s1 + bytes <= size
        <5>1. k < Payload!PartCount(size)
          BY <1>1, <4>1
        <5>2. k * s1 \in Nat /\ Payload!Reach(size, k + 1) = k * s1 + Payload!PartBytes(size, k) /\ Payload!Reach(size, k + 1) <= size
          BY <1>4, <5>1, PayloadCuts
        <5> QED BY <4>2, <5>2
      <4>4. piece \in DOMAIN s9 /\ s9[piece] \in Payload!Contents /\ Len(s9[piece]) = bytes
            /\ \A j \in 1 .. bytes : s9[piece][j] = s7[k * s1 + j]
        <5>1. k \in 0 .. n - 1
          BY <1>4, <4>1
        <5> QED BY <1>3, <4>1, <4>2, <5>1 DEF Payload!Cuts
      <4>5. \A j \in 1 .. bytes : k * s1 + j \in 1 .. size
        BY <1>4, <4>3
      <4>6. \A j \in 1 .. bytes : s9[piece][j] = 0
        BY <2>1, <4>4, <4>5 DEF Payload!Inventory
      <4>7. s9[piece] = Payload!Inventory(bytes)
        BY <4>4, <4>6 DEF Payload!Contents, Payload!Inventory
      <4>8. Payload!Before(piece)
        BY <4>1 DEF Payload!Before
      <4> QED BY <4>2, <4>4, <4>7, <4>8
    <3> QED BY <1>4, <2>4, <3>1, <3>2, <3>3
  <2>5. Payload!CatalogOK'
    BY <1>1, <1>2, <2>1, <2>4 DEF Payload!CatalogOK, Payload!Bytes, Payload!PartBytes, Payload!Inventory
  <2>6. Payload!StagedOK'
    <3>1. /\ \A piece \in Payload!AllParts : Payload!Before(piece) => Payload!Stored(piece)
          /\ DOMAIN s8 \subseteq Payload!AllParts /\ \A piece \in DOMAIN s8 : Payload!Before(piece)
      BY <1>1, <1>2, <1>3 DEF Payload!StagedOK
    <3>2. \A piece \in Payload!AllParts : Payload!Before(piece)' <=> piece[1] < f + 1
      <4>1. \A piece \in Payload!AllParts : piece[1] \in Nat /\ piece[2] \in Nat
        BY <1>2, PayloadPart, PayloadSizes
      <4> QED BY <1>4, <2>1, <4>1 DEF Payload!Before
    <3>3. \A piece \in Payload!AllParts : Payload!Before(piece)' => Payload!Stored(piece)'
      BY <1>1, <2>4, <3>1, <3>2 DEF Payload!Stored
    <3>4. \A piece \in DOMAIN s8 : Payload!Before(piece)'
      <4>1. \A piece \in Payload!AllParts : piece[1] \in Nat /\ piece[2] \in Nat
        BY <1>2, PayloadPart, PayloadSizes
      <4> QED BY <1>4, <3>1, <3>2, <4>1 DEF Payload!Before
    <3> QED BY <1>1, <1>2, <2>2, <3>1, <3>3, <3>4 DEF Payload!StagedOK
  <2>7. Payload!ManifestOK'
    BY <1>1, <1>2, <1>3, <2>1 DEF Payload!ManifestOK, Payload!Ready
  <2> QED BY <1>2, <2>2, <2>3, <2>5, <2>6, <2>7 DEF Payload!Inv
<1>6. CASE ~Payload!OriginalHolds(f)
  <2>1. s4' = "failed" /\ s5' = s5
    BY <1>6 DEF Payload!Compare
  <2>2. Payload!TypesOK'
    BY <1>1, <1>2, <2>1 DEF Payload!TypesOK
  <2>3. Payload!WholeOK' /\ Payload!StagedOK'
    BY <1>1, <1>3, <2>1 DEF Payload!WholeOK, Payload!StagedOK, Payload!Writing
  <2>4. Payload!ManifestOK'
    BY <1>1, <1>2, <1>3, <2>1 DEF Payload!ManifestOK, Payload!Ready
  <2> QED BY <1>2, <2>1, <2>2, <2>3, <2>4 DEF Payload!Inv
<1> QED BY <1>5, <1>6

\* The manifest is written behind all parts.
LEMMA PayloadManifestKeeps ==
  ASSUME Payload!Inv, Payload!PrepareManifest
  PROVE  Payload!Inv'
<1>1. /\ s4 \in {"manifest", "pended", "link", "linked", "unlink"}
      /\ UNCHANGED <<s1, s2, s3, s5, s6, s7, s8, s9, s12, s13, s14, s15, s16, s17, s18>>
  BY DEF Payload!PrepareManifest, Payload!WriteManifest, Payload!Rest, Payload!Transfer
<1>2. /\ Payload!StreamOK' /\ Payload!TypesOK /\ Payload!WholeOK /\ Payload!CatalogOK /\ Payload!StagedOK /\ Payload!ManifestOK /\ ~s12
      /\ Payload!AllParts' = Payload!AllParts /\ Payload!Members' = Payload!Members /\ Payload!CatalogOK'
  BY <1>1, PayloadNoStream, PayloadSameSizes
<1>3. /\ s4' \in {"pended", "link", "linked", "unlink", "unlinked"} /\ s11' \in {"none", "there", "synced", "removed"}
      /\ s4' \in {"pended", "link"} => s11' = "none"
      /\ s4' \in {"unlink", "unlinked"} => s11' = "synced"
  BY <1>1, <1>2 DEF Payload!PrepareManifest, Payload!WriteManifest, Payload!ManifestOK, Payload!TypesOK
<1>4. Payload!TypesOK'
  BY <1>1, <1>2, <1>3 DEF Payload!TypesOK, Payload!Ready
<1>5. Payload!WholeOK' /\ ~Payload!Writing' /\ ~Payload!Writing
  BY <1>1, <1>3 DEF Payload!WholeOK, Payload!Writing
<1>6. Payload!StagedOK'
  BY <1>1, <1>2, <1>3, <1>5 DEF Payload!StagedOK, Payload!Stored, Payload!Before
<1>7. Payload!ManifestOK'
  BY <1>1, <1>2, <1>3 DEF Payload!ManifestOK, Payload!Ready
<1> QED BY <1>2, <1>4, <1>5, <1>6, <1>7 DEF Payload!Inv

\* Both names are settled when prepare returns.
LEMMA PayloadReturnKeeps ==
  ASSUME Payload!Inv, Payload!Return
  PROVE  Payload!Inv'
<1>1. /\ s4 = "unlinked" /\ s4' = "prepared" /\ s10' = "none" /\ s12' = TRUE
      /\ UNCHANGED <<s1, s2, s3, s5, s6, s7, s8, s9, s11, s13, s14, s15, s16, s17, s18>>
  BY DEF Payload!Return, Payload!Transfer, Payload!LastSync
<1>2. /\ Payload!StreamOK' /\ Payload!TypesOK /\ Payload!WholeOK /\ Payload!CatalogOK /\ Payload!StagedOK /\ Payload!ManifestOK
      /\ Payload!AllParts' = Payload!AllParts /\ Payload!Members' = Payload!Members /\ Payload!CatalogOK'
  BY <1>1, PayloadNoStream, PayloadSameSizes
<1>3. Payload!TypesOK'
  BY <1>1, <1>2 DEF Payload!TypesOK, Payload!Ready
<1>4. Payload!WholeOK' /\ ~Payload!Writing' /\ ~Payload!Writing
  BY <1>1 DEF Payload!WholeOK, Payload!Writing
<1>5. Payload!StagedOK'
  BY <1>1, <1>2, <1>4 DEF Payload!StagedOK, Payload!Stored, Payload!Before
<1>6. Payload!ManifestOK'
  BY <1>1, <1>2 DEF Payload!ManifestOK, Payload!Ready
<1> QED BY <1>2, <1>3, <1>4, <1>5, <1>6 DEF Payload!Inv

\* A failure removes the catalog's name; what lies behind it stays.
LEMMA PayloadNoRoomKeeps ==
  ASSUME Payload!Inv, Payload!NoRoom
  PROVE  Payload!Inv'
<1>1. /\ s4 \notin {"prepared", "failed", "down"} /\ s4' = "failed" /\ s11' = (IF s11 = "none" THEN "none" ELSE "removed")
      /\ UNCHANGED <<s1, s2, s3, s5, s6, s7, s8, s9, s10, s12, s13, s14, s15, s16, s17, s18>>
  BY DEF Payload!NoRoom, Payload!Rest, Payload!Transfer
<1>2. /\ Payload!StreamOK' /\ Payload!TypesOK /\ Payload!WholeOK /\ Payload!CatalogOK /\ Payload!StagedOK /\ Payload!ManifestOK /\ ~s12
      /\ Payload!AllParts' = Payload!AllParts /\ Payload!Members' = Payload!Members /\ Payload!CatalogOK'
  BY <1>1, PayloadNoStream, PayloadSameSizes
<1>3. Payload!TypesOK'
  BY <1>1, <1>2 DEF Payload!TypesOK
<1>4. Payload!WholeOK' /\ ~Payload!Writing'
  BY <1>1 DEF Payload!WholeOK, Payload!Writing
<1>5. Payload!StagedOK'
  <2>1. s11 # "none" => ~Payload!Writing
    BY <1>2 DEF Payload!ManifestOK, Payload!Writing
  <2> QED BY <1>1, <1>2, <1>4, <2>1 DEF Payload!StagedOK, Payload!Stored, Payload!Before
<1>6. Payload!ManifestOK'
  BY <1>1, <1>2 DEF Payload!ManifestOK, Payload!Ready
<1> QED BY <1>2, <1>3, <1>4, <1>5, <1>6 DEF Payload!Inv

\* Whatever others write, an original keeps being one.
LEMMA PayloadWriteOriginalKeeps ==
  ASSUME Payload!Inv, Payload!WriteOriginal
  PROVE  Payload!Inv'
<1>1. /\ s4 \notin {"prepared", "failed", "down"}
      /\ UNCHANGED <<s1, s2, s4, s5, s6, s7, s8, s9, s10, s11, s12, s13, s14, s15, s16, s17, s18>>
  BY DEF Payload!WriteOriginal, Payload!Manifest, Payload!Transfer
<1>2. /\ Payload!WholeOK' /\ Payload!CatalogOK' /\ Payload!StagedOK' /\ Payload!ManifestOK' /\ Payload!StreamOK' /\ Payload!TypesOK
      /\ Payload!AllParts' = Payload!AllParts /\ Payload!Members' = Payload!Members
  BY <1>1, PayloadPrepareStays, PayloadNoStream
<1>3. PICK f \in Payload!Files :
        \E b \in {[s3[f].bytes EXCEPT ![i] = 1 - @] : i \in DOMAIN s3[f].bytes} \cup {Append(s3[f].bytes, 0)}
                 \cup {Payload!Front(s3[f].bytes) : i \in DOMAIN s3[f].bytes} :
          s3' = [s3 EXCEPT ![f] = [bytes |-> b, id |-> @.id + 1]]
  BY DEF Payload!WriteOriginal
<1>4. s3 \in [Payload!Files -> [bytes : Payload!Contents, id : Nat]]
  BY <1>2 DEF Payload!TypesOK
<1>5. s3[f].bytes \in Seq({0, 1}) /\ s3[f].id \in Nat
  BY <1>4 DEF Payload!Contents
<1>6. PICK b : /\ s3' = [s3 EXCEPT ![f] = [bytes |-> b, id |-> s3[f].id + 1]]
               /\ \/ \E i \in DOMAIN s3[f].bytes : b = [s3[f].bytes EXCEPT ![i] = 1 - s3[f].bytes[i]]
                  \/ b = Append(s3[f].bytes, 0)
                  \/ \E i \in DOMAIN s3[f].bytes : b = Payload!Front(s3[f].bytes)
  BY <1>3, <1>4
<1>7. b \in Seq({0, 1})
  <2>1. ASSUME NEW bytes \in Seq({0, 1}), NEW i \in DOMAIN bytes PROVE [bytes EXCEPT ![i] = 1 - bytes[i]] \in Seq({0, 1})
    <3>1. bytes[i] \in {0, 1} /\ 1 - bytes[i] \in {0, 1}
      BY <2>1
    <3> QED BY <2>1, <3>1
  <2>2. ASSUME NEW bytes \in Seq({0, 1}), NEW i \in DOMAIN bytes PROVE Payload!Front(bytes) \in Seq({0, 1})
    BY <2>2 DEF Payload!Front
  <2>3. ASSUME NEW bytes \in Seq({0, 1}) PROVE Append(bytes, 0) \in Seq({0, 1})
    BY <2>3
  <2> QED BY <1>5, <1>6, <2>1, <2>2, <2>3
<1>8. s3' \in [Payload!Files -> [bytes : Payload!Contents, id : Nat]]
  <2>1. [bytes |-> b, id |-> s3[f].id + 1] \in [bytes : Payload!Contents, id : Nat]
    BY <1>5, <1>7 DEF Payload!Contents
  <2> QED BY <1>4, <1>6, <2>1
<1>9. Payload!TypesOK'
  BY <1>1, <1>2, <1>8 DEF Payload!TypesOK, Payload!Files
<1> QED BY <1>2, <1>9 DEF Payload!Inv

\* Power loss takes nothing of what lies behind a catalog that has its name.
LEMMA PayloadPowerLossKeeps ==
  ASSUME Payload!Inv, Payload!PowerLoss
  PROVE  Payload!Inv'
<1>1. /\ s13 # "packing" /\ s4 # "down" /\ s4' = "down"
      /\ UNCHANGED <<s1, s2, s3, s5, s6, s7, s9, s12, s13, s14, s15, s16, s17, s18>>
  BY DEF Payload!PowerLoss, Payload!Transfer
<1>2. Payload!TypesOK /\ Payload!CatalogOK /\ Payload!StagedOK /\ Payload!ManifestOK /\ Payload!StreamOK
  BY DEF Payload!Inv
<1>3. /\ s11' \in {"none", "synced"} /\ s10' \in {"none", "synced"}
      /\ s11' # "none" => s11 # "none"
      /\ s11 = "synced" => s11' = "synced"
      /\ s10 = "none" => s10' = "none"
  BY DEF Payload!PowerLoss, Payload!Survives
<1>4. PICK kept \in SUBSET {p \in DOMAIN s8 : s8[p].disk # "name"}, torn \in SUBSET {p \in DOMAIN s8 : s8[p].disk = "nothing"} :
        s8' = [p \in {q \in DOMAIN s8 : s8[q].disk = "name" \/ q \in kept} |->
                 IF p \in torn THEN [s8[p] EXCEPT !.data = <<>>] ELSE s8[p]]
  BY DEF Payload!PowerLoss, Payload!Nothing
<1>5. /\ Payload!AllParts' = Payload!AllParts /\ Payload!Members' = Payload!Members /\ Payload!CatalogOK'
  BY <1>1, <1>2, PayloadSameSizes
<1>6. Payload!TypesOK'
  BY <1>1, <1>2, <1>3, <1>5 DEF Payload!TypesOK, Payload!Files
<1>7. Payload!WholeOK' /\ ~Payload!Writing'
  BY <1>1 DEF Payload!WholeOK, Payload!Writing
<1>8. Payload!StagedOK'
  <2>1. CASE s11' = "none"
    BY <1>1, <2>1 DEF Payload!StagedOK
  <2>2. CASE s11' # "none"
    <3>1. /\ DOMAIN s8 = Payload!AllParts
          /\ \A p \in Payload!AllParts : p \in DOMAIN s9 /\ s8[p] = [data |-> s9[p], disk |-> "name"]
      BY <1>3, <2>2, PayloadComplete
    <3>2. \A p \in DOMAIN s8 : s8[p].disk = "name"
      BY <3>1
    <3>3. DOMAIN s8' = DOMAIN s8 /\ \A p \in DOMAIN s8 : s8'[p] = s8[p]
      BY <1>4, <3>2
    <3>4. s5[1] = NumFiles + 1
      BY <1>2, <1>3, <2>2 DEF Payload!ManifestOK
    <3>5. \A p \in Payload!AllParts : Payload!Before(p)' /\ Payload!Stored(p)'
      <4>1. ASSUME NEW p \in Payload!AllParts PROVE Payload!Before(p)' /\ Payload!Stored(p)'
        <5>1. p[1] \in 1 .. NumFiles /\ NumFiles \in Nat
          BY <1>2, PayloadPart, PayloadSizes
        <5>2. Payload!Before(p)'
          BY <1>1, <3>4, <5>1 DEF Payload!Before
        <5> QED BY <1>1, <3>1, <3>3, <5>2 DEF Payload!Stored
      <4> QED BY <4>1
    <3> QED BY <1>5, <1>7, <3>1, <3>3, <3>5 DEF Payload!StagedOK
  <2> QED BY <2>1, <2>2
<1>9. Payload!ManifestOK'
  BY <1>1, <1>2, <1>3 DEF Payload!ManifestOK, Payload!Ready, Payload!TypesOK
<1>10. Payload!StreamOK'
  <2>1. s13 # "none" => s11' = "synced"
    BY <1>2, <1>3 DEF Payload!StreamOK
  <2>2. s13 \in {"packed", "verifying", "verified", "refused"} => Payload!InTurn(s15, Len(s15))' /\ Payload!Whole(s15, Len(s15))'
    BY <1>1, <1>2, <1>5 DEF Payload!StreamOK, Payload!InTurn, Payload!Whole
  <2>3. s13 = "verifying" => Payload!InTurn(s16, s17)' /\ Payload!UpTo(s16, s17, s14)' /\ Payload!HashesOK'
    BY <1>1, <1>2, <1>5 DEF Payload!StreamOK, Payload!InTurn, Payload!UpTo, Payload!HashesOK, Payload!Files, Payload!Reach
  <2>4. s13 = "verified" => Payload!InTurn(s16, Len(s16))' /\ Payload!Whole(s16, Len(s16))'
    BY <1>1, <1>2, <1>5 DEF Payload!StreamOK, Payload!InTurn, Payload!Whole
  <2>5. s13 # "stopped" /\ (s13 = "refused" => s16 # s15)
    BY <1>2 DEF Payload!StreamOK
  <2> QED BY <1>1, <2>1, <2>2, <2>3, <2>4, <2>5 DEF Payload!StreamOK
<1> QED BY <1>5, <1>6, <1>7, <1>8, <1>9, <1>10 DEF Payload!Inv

\* Originals that are as the inventory lists them, and nothing staged.
LEMMA PayloadInit ==
  ASSUME Payload!Init
  PROVE  Payload!Inv
<1>1. NumFiles \in Nat \ {0} /\ PayloadBytes \in Nat /\ s1 \in Nat \ {0} /\ Payload!Files = 1 .. NumFiles
      /\ s2 \in [Payload!Files -> 0 .. PayloadBytes]
  <2>1. s1 \in PartSizes /\ s2 \in [Payload!Files -> 0 .. PayloadBytes]
    BY DEF Payload!Init
  <2>2. NumFiles \in Nat \ {0} /\ PayloadBytes \in Nat
    BY PayloadAssumption DEF PayloadAssumption, Payload!FilesAssumption
  <2>3. PartSizes \subseteq Nat \ {0}
    BY PayloadAssumption DEF PayloadAssumption, Payload!PartSizesAssumption
  <2> QED BY <2>1, <2>2, <2>3 DEF Payload!Files
<1>2. \A f \in Payload!Files : Payload!Inventory(s2[f]) \in Payload!Contents
  <2>1. \A a \in Nat : Payload!Inventory(a) \in Payload!Contents
    BY PayloadInventory DEF Payload!Contents
  <2>2. \A f \in Payload!Files : s2[f] \in Nat
    BY <1>1
  <2> QED BY <2>1, <2>2
<1>3. s3 \in [Payload!Files -> [bytes : Payload!Contents, id : Nat]]
  BY <1>2 DEF Payload!Init
<1>4. s7 \in Payload!Contents /\ s15 \in Seq(Payload!Members) /\ s16 \in Seq(Payload!Members) /\ s17 \in 0 .. Len(s16)
  BY DEF Payload!Init, Payload!Nothing, Payload!Contents
<1>5. s5 \in (1 .. NumFiles + 1) \X Nat /\ s14 \in Nat \X Payload!Files
  BY <1>1 DEF Payload!Init, Payload!First
<1>6. Payload!TypesOK
  BY <1>1, <1>3, <1>4, <1>5 DEF Payload!Init, Payload!TypesOK
<1>7. Payload!WholeOK /\ Payload!ManifestOK /\ Payload!StreamOK
  BY DEF Payload!Init, Payload!WholeOK, Payload!ManifestOK, Payload!StreamOK, Payload!Writing, Payload!Ready
<1>8. \A p \in Payload!AllParts : ~(p[1] < s5[1]) /\ ~Payload!Before(p)
  <2>1. \A p \in Payload!AllParts : p[1] \in 1 .. NumFiles /\ p[2] \in Nat
    BY <1>1, <1>6, PayloadPart
  <2> QED BY <2>1 DEF Payload!Init, Payload!Before
<1>9. Payload!CatalogOK /\ Payload!StagedOK
  BY <1>8 DEF Payload!Init, Payload!CatalogOK, Payload!StagedOK, Payload!Writing
<1> QED BY <1>6, <1>7, <1>9 DEF Payload!Inv

\* Steps of other components, and none at all.
LEMMA PayloadStutter ==
  ASSUME Payload!Inv, UNCHANGED <<s1, s2, s3, s4, s5, s6, s7, s8, s9, s10, s11, s12, s13, s14, s15, s16, s17, s18>>
  PROVE  Payload!Inv'
<1>1. /\ Payload!WholeOK' /\ Payload!CatalogOK' /\ Payload!StagedOK' /\ Payload!ManifestOK'
      /\ Payload!AllParts' = Payload!AllParts /\ Payload!Members' = Payload!Members /\ Payload!TypesOK /\ Payload!StreamOK
  BY PayloadPrepareStays DEF Payload!Inv
<1>2. Payload!TypesOK'
  BY <1>1 DEF Payload!TypesOK, Payload!Files
<1>3. Payload!StreamOK'
  <2>1. \A parts, k : Payload!InTurn(parts, k) => Payload!InTurn(parts, k)'
    BY DEF Payload!InTurn
  <2>2. Payload!HashesOK => Payload!HashesOK'
    BY DEF Payload!HashesOK, Payload!Files, Payload!Reach
  <2> QED BY <1>1, <2>1, <2>2 DEF Payload!StreamOK, Payload!Whole, Payload!UpTo
<1> QED BY <1>1, <1>2, <1>3 DEF Payload!Inv

\* arc_recovery_payload: while originals are cut, packed and verified part by
\* part, what is on disk, in the catalog and on the way agrees with the inventory.
THEOREM PayloadInvHolds == Spec => [](part = "payload" => Payload!Inv)
<1>1. Init => (part = "payload" => Payload!Inv)
  BY PayloadInit DEF Init
<1>2. Payload!Inv /\ Payload!Next => Payload!Inv'
  BY PayloadOpenKeeps, PayloadWriteKeeps, PayloadSyncKeeps, PayloadCompareKeeps, PayloadManifestKeeps, PayloadReturnKeeps,
     PayloadNoRoomKeeps, PayloadWriteOriginalKeeps, PayloadPowerLossKeeps, PayloadPackKeeps, PayloadPackPartKeeps,
     PayloadPackEndsKeeps, PayloadDeliverKeeps, PayloadVerifyPartKeeps, PayloadVerifyEndsKeeps DEF Payload!Next
<1>3. (part = "payload" => Payload!Inv) /\ [Next]_vars => (part = "payload" => Payload!Inv)'
  BY <1>2, PayloadStutter DEF Next, StreamStep, DownloadStep, PipelineStep, PayloadStep, RegistryStep, WaitStep, vars
<1> QED BY <1>1, <1>3, PTL DEF Spec

\* Members in turn that are all of the catalog's reassemble to the originals.
LEMMA PayloadReassembles ==
  ASSUME Payload!Inv, s11 # "none", NEW parts \in Seq(Payload!Members),
         Payload!InTurn(parts, Len(parts)), Payload!Whole(parts, Len(parts))
  PROVE  Payload!Reassembles(parts)
<1>1. DOMAIN parts = 1 .. Len(parts) /\ Payload!TypesOK
  BY DEF Payload!Inv
<1>2. \A m \in 1 .. Len(parts) : /\ parts[m].part \in Payload!AllParts
                                 /\ parts[m] = [part |-> parts[m].part, data |-> Payload!Inventory(Payload!Bytes(parts[m].part))]
  <2>1. ASSUME NEW m \in 1 .. Len(parts)
        PROVE  /\ parts[m].part \in Payload!AllParts
               /\ parts[m] = [part |-> parts[m].part, data |-> Payload!Inventory(Payload!Bytes(parts[m].part))]
    <3>1. parts[m].part \in Payload!AllParts /\ parts[m] = [part |-> parts[m].part, data |-> parts[m].data]
      BY PayloadMembers
    <3>2. parts[m].data = s9[parts[m].part] /\ s9[parts[m].part] = Payload!Inventory(Payload!Bytes(parts[m].part))
      BY <3>1, PayloadComplete DEF Payload!InTurn
    <3> QED BY <3>1, <3>2
  <2> QED BY <2>1
<1>3. ASSUME NEW p \in Payload!AllParts
      PROVE  \E m \in DOMAIN parts : parts[m] = [part |-> p, data |-> Payload!Inventory(Payload!Bytes(p))]
  <2>1. PICK m \in 1 .. Len(parts) : parts[m].part = p
    BY DEF Payload!Whole
  <2> QED BY <1>1, <1>2, <2>1
<1>4. ASSUME NEW m \in DOMAIN parts, NEW n \in DOMAIN parts, m < n, parts[m].part[1] = parts[n].part[1]
      PROVE  parts[m].part[2] < parts[n].part[2]
  <2>1. parts[m].part[1] \in Nat /\ Payload!Follows(parts[m].part, parts[n].part)
    <3>1. parts[m].part[1] \in Payload!Files
      BY <1>1, <1>2, PayloadPart
    <3> QED BY <1>1, <1>4, <3>1, PayloadSizes DEF Payload!InTurn
  <2> QED BY <1>4, <2>1 DEF Payload!Follows
<1> QED BY <1>1, <1>2, <1>3, <1>4 DEF Payload!Reassembles

\* pack and verify: what is packed to the end, and what is accepted, is every
\* original exactly as it was inventoried, an intact stream is accepted, and
\* what prepare returned from survives a power failure; for any originals, any
\* part size and any interference.
THEOREM PayloadIsSound == Spec => []PayloadSound
<1>1. (part = "payload" => Payload!Inv) => PayloadSound
  <2> SUFFICES ASSUME Payload!Inv PROVE Payload!PackedIsOriginal /\ Payload!IntactIsVerified /\ Payload!PreparedSurvives
    BY DEF PayloadSound
  <2>1. Payload!TypesOK /\ Payload!ManifestOK /\ Payload!StreamOK
    BY DEF Payload!Inv
  <2>2. s15 \in Seq(Payload!Members) /\ s16 \in Seq(Payload!Members)
    BY <2>1 DEF Payload!TypesOK
  <2>3. Payload!PackedIsOriginal
    <3>1. s13 \in {"packed", "verifying", "verified", "refused"} => Payload!Reassembles(s15)
      BY <2>1, <2>2, PayloadReassembles DEF Payload!StreamOK
    <3>2. s13 = "verified" => Payload!Reassembles(s16)
      BY <2>1, <2>2, PayloadReassembles DEF Payload!StreamOK
    <3> QED BY <3>1, <3>2 DEF Payload!PackedIsOriginal
  <2>4. Payload!IntactIsVerified
    BY <2>1 DEF Payload!StreamOK, Payload!IntactIsVerified
  <2>5. Payload!PreparedSurvives
    <3>1. s12 => s11 = "synced" /\ s10 = "none"
      BY <2>1 DEF Payload!ManifestOK
    <3> QED BY <3>1, PayloadComplete DEF Payload!PreparedSurvives, Payload!StagingComplete
  <2> QED BY <2>3, <2>4, <2>5
<1> QED BY <1>1, PayloadInvHolds, PTL
=============================================================================
