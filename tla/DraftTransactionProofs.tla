----------------------- MODULE DraftTransactionProofs -----------------------
(***************************************************************************)
(* What DraftTransaction guarantees for every set of assets and            *)
(* identifiers and any number of outside changes.                          *)
(***************************************************************************)
EXTENDS DraftTransaction, TLAPS

\* Identifiers are unique and were handed out.
Identified ==
  /\ \A r, s \in releases : r.id = s.id => r = s
  /\ \A r \in releases : r.id \in used
  /\ release \in used \cup {0}

\* Only the call writes the marker; before and while it is pending, nothing of
\* it exists, so it is executed at most once.
CreatedOnce ==
  /\ OneRelease
  /\ \A r \in releases : r.body = "payload" => r.made = "call"
  /\ (delayed \/ pc \in {"absent", "tag", "create"}) => \A r \in releases : r.made # "call"
  /\ pc \in {"absent", "tag", "create"} => ~delayed

\* The release the publisher looks at or works on is its own.
HoldsOwn == pc \in Working \cup {"readback"} => \A r \in Current : r.made = "call"

\* What was compared is still there, unless it changed later.
ComparedOK(r) ==
  /\ \A n \in checked : r.assets[n] = "exact" \/ n \in late
  /\ pc \in Listed \cup {"done"} => r.assets[Extra] = "none" \/ Extra \in late

Compared ==
  /\ \A r \in Current : ComparedOK(r)
  /\ pc \in {"confirm", "tagcheck", "publish"} => checked = Assets

\* What the transaction made public.
PublicOK ==
  \A r \in releases : r.public = "call" =>
    /\ r.id = release /\ pc \in Terminal /\ checked = Assets
    /\ r.assets[Extra] = "none" \/ Extra \in late

\* The last looks at the source and the tag.
SourceLooks ==
  /\ pc \in {"tagcheck", "publish"} => (Automatic /\ head # "source" => "head" \in late)
  /\ pc = "publish" => (tagRef # "source" => "tag" \in late)
  /\ PublishedSource

\* The last looks of the readback.
ReadbackLooks ==
  pc # "failed" =>
    /\ step > 9 => active \/ "run" \in late
    /\ step > 10 => head = "source" \/ "source" \in late
    /\ step > 11 => ledger = "consumed" \/ "ledger" \in late

StepOK ==
  /\ pc \in {"absent", "tag", "create"} => step = 1 /\ release = 0
  /\ pc = "readback" => step \in 1 .. 13
  /\ pc \in {"absent", "tag", "create", "readback", "upload", "list"} => checked = {}

Inv ==
  /\ TypeOK /\ Identified /\ CreatedOnce /\ HoldsOwn /\ Compared /\ PublicOK
  /\ SourceLooks /\ ReadbackLooks /\ StepOK
-----------------------------------------------------------------------------
(* Proofs *)

USE DEF Goto, Expect

\* The reads of the readback at the positions the invariant names.
LEMMA LooksFacts ==
  /\ Len(Looks) = 13
  /\ Looks[9] = "run" /\ Looks[10] = "source" /\ Looks[11] = "ledger"
  /\ \A i \in 1 .. 13 : Looks[i] = "relist" => i = 5
  BY DEF Looks

\* A new draft is a release.
LEMMA DraftType == \A i \in Ids : CreatedDraft(i) \in Releases
  BY DEF CreatedDraft, Releases, Nothing

\* Editing a release keeps identifiers, origins and the types.
LEMMA EditKeeps ==
  ASSUME Inv, NEW r \in releases, NEW s \in Releases,
         s.id = r.id, s.made = r.made, s.body \in {r.body, "edited"}, Update(r, s)
  PROVE  /\ releases' \subseteq Releases /\ used' = used
         /\ \A x, y \in releases' : x.id = y.id => x = y
         /\ OneRelease'
         /\ \A x \in releases' : \E y \in releases :
               /\ x.id = y.id /\ x.made = y.made /\ x.body \in {y.body, "edited"}
               /\ x = y \/ (y = r /\ x = s)
<1>1. /\ releases' = (releases \ {r}) \cup {s} /\ used' = used
      /\ releases \subseteq Releases
      /\ \A x, y \in releases : x.id = y.id => x = y
      /\ \A x, y \in releases : x.made = "call" /\ y.made = "call" => x = y
  BY DEF Inv, TypeOK, Identified, CreatedOnce, OneRelease, Update
<1>2. releases' \subseteq Releases
  BY <1>1
<1>3. \A x, y \in releases' : x.id = y.id => x = y
  BY <1>1
<1>4. OneRelease'
  BY <1>1 DEF OneRelease
<1>5. \A x \in releases' : x \in releases \/ x = s
  BY <1>1
<1> QED BY <1>1, <1>2, <1>3, <1>4, <1>5

LEMMA InitInv ==
  ASSUME Init
  PROVE  Inv
<1>1. TypeOK
  <2>1. active \in BOOLEAN /\ delayed \in BOOLEAN
    BY Zenon DEF Init
  <2>2. step \in 1 .. Len(Looks) + 1 /\ outside \in 0 .. MaxOutside
    BY OutsideAssumption, LooksFacts DEF Init
  <2> QED BY <2>1, <2>2 DEF Init, TypeOK, Phases
<1>2. CreatedOnce /\ Identified /\ HoldsOwn /\ PublicOK
  BY DEF Init, CreatedOnce, OneRelease, Identified, HoldsOwn, PublicOK, Current
<1>3. Compared
  BY DEF Init, Compared, Current
<1>4. SourceLooks /\ ReadbackLooks /\ StepOK
  BY DEF Init, SourceLooks, PublishedSource, ReadbackLooks, StepOK
<1> QED BY <1>1, <1>2, <1>3, <1>4 DEF Inv

\* Nothing under the tag yet.
LEMMA InvEnsureAbsent ==
  ASSUME Inv, EnsureAbsent
  PROVE  Inv'
<1>1. TypeOK'
  BY DEF Inv, EnsureAbsent, own, hub, world, TypeOK, Phases, Working,
     Terminal
<1>2. Identified'
  BY DEF Inv, EnsureAbsent, own, hub, world, Identified
<1>3. CreatedOnce'
  BY DEF Inv, EnsureAbsent, own, hub, world, CreatedOnce, OneRelease
<1>4. HoldsOwn'
  BY DEF Inv, EnsureAbsent, own, hub, world, HoldsOwn, Working, Current
<1>5. Compared'
  BY DEF Inv, EnsureAbsent, own, hub, world, Compared, ComparedOK, Current,
     Listed
<1>6. PublicOK'
  BY DEF Inv, EnsureAbsent, own, hub, world, PublicOK, Terminal
<1>7. SourceLooks'
  BY DEF Inv, EnsureAbsent, own, hub, world, SourceLooks, PublishedSource
<1>8. ReadbackLooks'
  BY DEF Inv, EnsureAbsent, own, hub, world, ReadbackLooks
<1>9. StepOK'
  BY DEF Inv, EnsureAbsent, own, hub, world, StepOK
<1> QED BY <1>1, <1>2, <1>3, <1>4, <1>5, <1>6, <1>7, <1>8, <1>9 DEF Inv

\* The tag is created or refused.
LEMMA InvCreateTag ==
  ASSUME Inv, CreateTag
  PROVE  Inv'
<1>1. TypeOK'
  BY DEF Inv, CreateTag, own, hub, world, TypeOK, Phases, Working, Terminal
<1>2. Identified'
  BY DEF Inv, CreateTag, own, hub, world, Identified
<1>3. CreatedOnce'
  BY DEF Inv, CreateTag, own, hub, world, CreatedOnce, OneRelease
<1>4. HoldsOwn'
  BY DEF Inv, CreateTag, own, hub, world, HoldsOwn, Working, Current
<1>5. Compared'
  BY DEF Inv, CreateTag, own, hub, world, Compared, ComparedOK, Current,
     Listed
<1>6. PublicOK'
  BY DEF Inv, CreateTag, own, hub, world, PublicOK, Terminal
<1>7. SourceLooks'
  BY DEF Inv, CreateTag, own, hub, world, SourceLooks, PublishedSource
<1>8. ReadbackLooks'
  BY DEF Inv, CreateTag, own, hub, world, ReadbackLooks
<1>9. StepOK'
  BY DEF Inv, CreateTag, own, hub, world, StepOK
<1> QED BY <1>1, <1>2, <1>3, <1>4, <1>5, <1>6, <1>7, <1>8, <1>9 DEF Inv

\* The one creation call, answered or not.
LEMMA InvCreateRelease ==
  ASSUME Inv, CreateRelease
  PROVE  Inv'
<1> USE DEF CreateRelease, Unanswered, Ambiguous
<1>1. CASE \E i \in Ids : Store(i, CreatedDraft(i)) /\ UNCHANGED delayed
                          /\ \/ Goto("upload") /\ release' = i
                             \/ Unanswered /\ UNCHANGED release
  <2>1. PICK i \in Ids : /\ Store(i, CreatedDraft(i)) /\ UNCHANGED delayed
                        /\ \/ Goto("upload") /\ release' = i
                           \/ Unanswered /\ UNCHANGED release
    BY <1>1
  <2>2. /\ CreatedDraft(i) \in Releases /\ CreatedDraft(i).id = i
        /\ CreatedDraft(i).made = "call" /\ CreatedDraft(i).public = "no"
    BY DraftType DEF CreatedDraft
  <2> DEFINE d == CreatedDraft(i)
  <2> HIDE DEF d
  <2>3. releases' = releases \cup {d} /\ used' = used \cup {i} /\ i \notin used
    BY <2>1 DEF Store, Free, d
  <2>4. d \in Releases /\ d.id = i /\ d.made = "call" /\ d.public = "no"
    BY <2>2 DEF d
  <2>5. TypeOK'
    <3>1. delayed' \in BOOLEAN /\ active' \in BOOLEAN
      BY <2>1, Zenon DEF Inv, TypeOK, CreateRelease, world
    <3>2. pc' \in Phases
      BY <2>1, <2>3, <2>4 DEF Phases, Working, Terminal
    <3> QED
      BY <3>1, <3>2, <2>1, <2>3, <2>4, LooksFacts DEF Inv, TypeOK, CreateRelease, world, hub
  <2>6. Identified'
    BY <2>1, <2>3, <2>4 DEF Inv, world, own, hub, Identified, TypeOK, Phases,
       Working, Terminal, Releases, Names
  <2>7. CreatedOnce'
    BY <2>1, <2>3, <2>4 DEF Inv, world, own, hub, CreatedOnce, OneRelease,
       TypeOK, Phases, Working, Terminal, Identified, Releases, Names
  <2>8. HoldsOwn'
    BY <2>1, <2>3, <2>4, IdsAssumption DEF Inv, StepOK, world, own, hub,
       HoldsOwn, Working, Current, TypeOK, Phases, Terminal, Identified,
       CreatedOnce, OneRelease, Releases, Names
  <2>9. Compared'
    BY <2>1, <2>3, <2>4, AssetsAssumption, IdsAssumption DEF Inv, world, own,
       hub, Compared, ComparedOK, Current, Listed, TypeOK, Phases, Working,
       Terminal, Identified, StepOK, Releases, Names
  <2>10. PublicOK'
    BY <2>1, <2>3, <2>4, AssetsAssumption DEF Inv, world, own, hub, PublicOK,
       Terminal, TypeOK, Phases, Working, Identified, Compared, ComparedOK,
       Current, Listed, Releases, Names
  <2>11. SourceLooks'
    BY <2>1, <2>3, <2>4 DEF Inv, world, own, hub, SourceLooks,
       PublishedSource, TypeOK, Phases, Working, Terminal, PublicOK,
       Releases, Names
  <2>12. ReadbackLooks'
    BY <2>1, <2>3, <2>4, LooksFacts DEF Inv, world, own, hub, ReadbackLooks,
       TypeOK, Phases, Working, Terminal, StepOK, Releases, Names
  <2>13. StepOK'
    BY <2>1, <2>3, <2>4, LooksFacts DEF Inv, world, own, hub, StepOK, TypeOK,
       Phases, Working, Terminal, Releases, Names
  <2> QED BY <2>5, <2>6, <2>7, <2>8, <2>9, <2>10, <2>11, <2>12, <2>13 DEF Inv
<1>2. CASE Unanswered /\ delayed' \in {delayed, TRUE} /\ UNCHANGED <<hub, release>>
  <2>1. TypeOK'
    <3>1. delayed' \in BOOLEAN /\ active' \in BOOLEAN
      BY <1>2, Zenon DEF Inv, TypeOK, CreateRelease, world
    <3>2. pc' \in Phases
      BY <1>2 DEF Phases, Working, Terminal
    <3> QED
      BY <3>1, <3>2, <1>2, LooksFacts DEF Inv, TypeOK, CreateRelease, world, hub
  <2>2. Identified'
    BY <1>2 DEF Inv, world, own, hub, Identified, TypeOK, Phases, Working,
       Terminal, Releases, Names
  <2>3. CreatedOnce'
    BY <1>2 DEF Inv, world, own, hub, CreatedOnce, OneRelease, TypeOK,
       Phases, Working, Terminal, Identified, Releases, Names
  <2>4. HoldsOwn'
    BY <1>2, IdsAssumption DEF Inv, StepOK, world, own, hub, HoldsOwn,
       Working, Current, TypeOK, Phases, Terminal, Identified, CreatedOnce,
       OneRelease, Releases, Names
  <2>5. Compared'
    BY <1>2, AssetsAssumption, IdsAssumption DEF Inv, world, own, hub,
       Compared, ComparedOK, Current, Listed, TypeOK, Phases, Working,
       Terminal, Identified, StepOK, Releases, Names
  <2>6. PublicOK'
    BY <1>2, AssetsAssumption DEF Inv, world, own, hub, PublicOK, Terminal,
       TypeOK, Phases, Working, Identified, Compared, ComparedOK, Current,
       Listed, Releases, Names
  <2>7. SourceLooks'
    BY <1>2 DEF Inv, world, own, hub, SourceLooks, PublishedSource, TypeOK,
       Phases, Working, Terminal, PublicOK, Releases, Names
  <2>8. ReadbackLooks'
    BY <1>2, LooksFacts DEF Inv, world, own, hub, ReadbackLooks, TypeOK,
       Phases, Working, Terminal, StepOK, Releases, Names
  <2>9. StepOK'
    BY <1>2, LooksFacts DEF Inv, world, own, hub, StepOK, TypeOK, Phases,
       Working, Terminal, Releases, Names
  <2> QED BY <2>1, <2>2, <2>3, <2>4, <2>5, <2>6, <2>7, <2>8, <2>9 DEF Inv
<1> QED BY <1>1, <1>2

\* The late execution of a call the publisher gave up.
LEMMA InvDelayedCreate ==
  ASSUME Inv, DelayedCreate
  PROVE  Inv'
<1> PICK i \in Ids : Store(i, CreatedDraft(i))
  BY DEF DelayedCreate
<1> DEFINE d == CreatedDraft(i)
<1>a. d \in Releases /\ d.id = i /\ d.made = "call" /\ d.public = "no"
  BY DraftType DEF CreatedDraft
<1>b. releases' = releases \cup {d} /\ used' = used \cup {i} /\ i \notin used
  BY DEF Store, Free
<1> HIDE DEF d
<1>1. TypeOK'
  BY <1>a, <1>b DEF Inv, DelayedCreate, own, hub, world, TypeOK, Phases,
     Working, Terminal
<1>2. Identified'
  BY <1>a, <1>b DEF Inv, DelayedCreate, own, hub, world, Identified
<1>3. CreatedOnce'
  BY <1>a, <1>b DEF Inv, DelayedCreate, own, hub, world, CreatedOnce,
     OneRelease
<1>4. HoldsOwn'
  BY <1>a, <1>b DEF Inv, DelayedCreate, own, hub, world, HoldsOwn, Working,
     Current
<1>5. Compared'
  BY <1>a, <1>b, AssetsAssumption, IdsAssumption DEF Inv, DelayedCreate,
     world, own, hub, Compared, ComparedOK, Current, Listed, TypeOK, Phases,
     Working, Terminal, Identified, StepOK, Releases, Names
<1>6. PublicOK'
  BY <1>a, <1>b DEF Inv, DelayedCreate, own, hub, world, PublicOK, Terminal
<1>7. SourceLooks'
  BY <1>a, <1>b DEF Inv, DelayedCreate, own, hub, world, SourceLooks,
     PublishedSource
<1>8. ReadbackLooks'
  BY <1>a, <1>b DEF Inv, DelayedCreate, own, hub, world, ReadbackLooks
<1>9. StepOK'
  BY <1>a, <1>b DEF Inv, DelayedCreate, own, hub, world, StepOK
<1> QED BY <1>1, <1>2, <1>3, <1>4, <1>5, <1>6, <1>7, <1>8, <1>9 DEF Inv

\* One read of the readback.
LEMMA InvReadback ==
  ASSUME Inv, Readback
  PROVE  Inv'
<1>a. pc = "readback" /\ step \in 1 .. 13 /\ step' = step + 1
  BY DEF Inv, StepOK, Readback
<1>b. pc' # "failed" => Holds(Looks[step])
  BY DEF Readback
<1>c. pc' \in {"readback", "upload", "failed"} /\ (pc' = "readback" => step # 13)
  BY LooksFacts DEF Readback
<1>d. release' = release \/ \E r \in releases : release' = r.id /\ Exact(r)
  BY DEF Readback, SameInventory, Tagged
<1>1. TypeOK'
  BY <1>a, <1>c, <1>d, LooksFacts DEF Inv, TypeOK, Readback, Phases, Working,
     Terminal, Releases, world, hub
<1>2. Identified'
  BY <1>a, <1>c, <1>d DEF Inv, Readback, Exact, own, hub, world, Identified
<1>3. CreatedOnce'
  BY <1>a, <1>c, <1>d DEF Inv, Readback, Exact, own, hub, world, CreatedOnce,
     OneRelease
<1>4. HoldsOwn'
  BY <1>a, <1>c, <1>d, IdsAssumption DEF Inv, Readback, Exact, world, own,
     hub, HoldsOwn, Working, Current, TypeOK, Phases, Terminal, Identified,
     CreatedOnce, OneRelease, Releases, Names
<1>5. Compared'
  BY <1>a, <1>c, <1>d DEF Inv, Readback, Compared, ComparedOK, StepOK, Listed
<1>6. PublicOK'
  BY <1>a, <1>c, <1>d DEF Inv, Readback, Exact, own, hub, world, PublicOK,
     Terminal
<1>7. SourceLooks'
  BY <1>a, <1>c, <1>d DEF Inv, Readback, Exact, own, hub, world, SourceLooks,
     PublishedSource
<1>8. ReadbackLooks'
  <2>1. pc' # "failed" /\ step = 9 => active
    BY <1>b, LooksFacts DEF Holds
  <2>2. pc' # "failed" /\ step = 10 => head = "source"
    BY <1>b, LooksFacts DEF Holds
  <2>3. pc' # "failed" /\ step = 11 => ledger = "consumed"
    BY <1>b, LooksFacts DEF Holds
  <2> QED
    BY <1>a, <2>1, <2>2, <2>3 DEF Inv, ReadbackLooks, Readback, world
<1>9. StepOK'
  BY <1>a, <1>c DEF Inv, StepOK, Readback
<1> QED BY <1>1, <1>2, <1>3, <1>4, <1>5, <1>6, <1>7, <1>8, <1>9 DEF Inv

\* One upload.
LEMMA InvUpload ==
  ASSUME Inv, NEW n \in Assets, Upload(n)
  PROVE  Inv'
<1>n. n \in Names
  BY DEF Names
<1>e. /\ releases' \subseteq Releases /\ used' = used
      /\ \A x, y \in releases' : x.id = y.id => x = y
      /\ OneRelease'
      /\ \A x \in releases' : \E y \in releases :
           /\ x.id = y.id /\ x.made = y.made /\ x.body \in {y.body, "edited"}
           /\ x.public = y.public
           /\ \A m \in Names \ {n} : x.assets[m] = y.assets[m]
  <2>1. CASE UNCHANGED hub
    BY <2>1 DEF Inv, hub, TypeOK, Identified, CreatedOnce, OneRelease
  <2>2. CASE \E r \in Current : Update(r, [r EXCEPT !.assets[n] = "exact"])
    <3> PICK r \in Current : Update(r, [r EXCEPT !.assets[n] = "exact"])
      BY <2>2
    <3> DEFINE s == [r EXCEPT !.assets[n] = "exact"]
    <3>1. r \in releases /\ r \in Releases
      BY DEF Current, Inv, TypeOK
    <3>2. /\ s \in Releases /\ s.id = r.id /\ s.made = r.made /\ s.body = r.body
          /\ s.public = r.public /\ \A m \in Names \ {n} : s.assets[m] = r.assets[m]
      BY <1>n, <3>1 DEF Releases
    <3>3. Update(r, s)
      OBVIOUS
    <3> HIDE DEF s
    <3> QED BY <3>1, <3>2, <3>3, EditKeeps
  <2> QED BY <2>1, <2>2 DEF Upload, hub
<1>1. TypeOK'
  BY <1>e DEF Inv, TypeOK, Upload, Phases, Working, Terminal, world
<1>2. Identified'
  BY <1>e DEF Inv, Identified, Upload
<1>3. CreatedOnce'
  <2>1. OneRelease' /\ pc' \notin {"absent", "tag", "create"} /\ delayed' = delayed /\ pc = "upload"
    BY <1>e DEF Upload, world
  <2>2. ASSUME NEW x \in releases'
        PROVE  /\ x.body = "payload" => x.made = "call"
               /\ delayed => x.made # "call"
    <3>1. PICK y \in releases : x.made = y.made /\ x.body \in {y.body, "edited"}
      BY <1>e
    <3> QED BY <3>1 DEF Inv, CreatedOnce
  <2> QED BY <2>1, <2>2 DEF CreatedOnce
<1>4. HoldsOwn'
  BY <1>e DEF Inv, Upload, Update, own, hub, world, HoldsOwn, Working,
     Current
<1>5. Compared'
  BY <1>e, AssetsAssumption, IdsAssumption DEF Inv, Upload, Update, world,
     own, hub, Compared, ComparedOK, Current, Listed, TypeOK, Phases,
     Working, Terminal, Identified, StepOK, Releases, Names
<1>6. PublicOK'
  BY <1>e DEF Inv, Upload, Update, own, hub, world, PublicOK, Terminal
<1>7. SourceLooks'
  BY <1>e DEF Inv, SourceLooks, PublishedSource, Upload, world
<1>8. ReadbackLooks'
  BY <1>e DEF Inv, Upload, Update, own, hub, world, ReadbackLooks
<1>9. StepOK'
  BY <1>e DEF Inv, Upload, Update, own, hub, world, StepOK
<1> QED BY <1>1, <1>2, <1>3, <1>4, <1>5, <1>6, <1>7, <1>8, <1>9 DEF Inv

\* The inventory is compared.
LEMMA InvListAssets ==
  ASSUME Inv, ListAssets
  PROVE  Inv'
<1>1. TypeOK'
  BY DEF Inv, ListAssets, InventoryMatches, own, hub, world, TypeOK, Phases,
     Working, Terminal
<1>2. Identified'
  BY DEF Inv, ListAssets, InventoryMatches, own, hub, world, Identified
<1>3. CreatedOnce'
  BY DEF Inv, ListAssets, InventoryMatches, own, hub, world, CreatedOnce,
     OneRelease
<1>4. HoldsOwn'
  BY DEF Inv, ListAssets, InventoryMatches, own, hub, world, HoldsOwn,
     Working, Current
<1>5. Compared'
  BY AssetsAssumption, IdsAssumption DEF Inv, ListAssets, InventoryMatches,
     world, own, hub, Compared, ComparedOK, Current, Listed, TypeOK, Phases,
     Working, Terminal, Identified, StepOK, Releases, Names
<1>6. PublicOK'
  BY DEF Inv, ListAssets, InventoryMatches, own, hub, world, PublicOK,
     Terminal
<1>7. SourceLooks'
  BY DEF Inv, ListAssets, InventoryMatches, own, hub, world, SourceLooks,
     PublishedSource
<1>8. ReadbackLooks'
  BY DEF Inv, ListAssets, InventoryMatches, own, hub, world, ReadbackLooks
<1>9. StepOK'
  BY DEF Inv, ListAssets, InventoryMatches, own, hub, world, StepOK
<1> QED BY <1>1, <1>2, <1>3, <1>4, <1>5, <1>6, <1>7, <1>8, <1>9 DEF Inv

\* One file is compared.
LEMMA InvVerify ==
  ASSUME Inv, NEW n \in Assets, Verify(n)
  PROVE  Inv'
<1>1. TypeOK'
  BY DEF Inv, Verify, own, hub, world, TypeOK, Phases, Working, Terminal
<1>2. Identified'
  BY DEF Inv, Verify, own, hub, world, Identified
<1>3. CreatedOnce'
  BY DEF Inv, Verify, own, hub, world, CreatedOnce, OneRelease
<1>4. HoldsOwn'
  BY DEF Inv, Verify, own, hub, world, HoldsOwn, Working, Current
<1>5. Compared'
  BY AssetsAssumption, IdsAssumption DEF Inv, Verify, world, own, hub,
     Compared, ComparedOK, Current, Listed, TypeOK, Phases, Working,
     Terminal, Identified, StepOK, Releases, Names
<1>6. PublicOK'
  BY DEF Inv, Verify, own, hub, world, PublicOK, Terminal
<1>7. SourceLooks'
  BY DEF Inv, Verify, own, hub, world, SourceLooks, PublishedSource
<1>8. ReadbackLooks'
  BY DEF Inv, Verify, own, hub, world, ReadbackLooks
<1>9. StepOK'
  BY DEF Inv, Verify, own, hub, world, StepOK
<1> QED BY <1>1, <1>2, <1>3, <1>4, <1>5, <1>6, <1>7, <1>8, <1>9 DEF Inv

\* The last look at the source.
LEMMA InvConfirmSource ==
  ASSUME Inv, ConfirmSource
  PROVE  Inv'
<1>1. TypeOK'
  BY DEF Inv, ConfirmSource, own, hub, world, TypeOK, Phases, Working,
     Terminal
<1>2. Identified'
  BY DEF Inv, ConfirmSource, own, hub, world, Identified
<1>3. CreatedOnce'
  BY DEF Inv, ConfirmSource, own, hub, world, CreatedOnce, OneRelease
<1>4. HoldsOwn'
  BY DEF Inv, ConfirmSource, own, hub, world, HoldsOwn, Working, Current
<1>5. Compared'
  BY DEF Inv, ConfirmSource, own, hub, world, Compared, ComparedOK, Current,
     Listed
<1>6. PublicOK'
  BY DEF Inv, ConfirmSource, own, hub, world, PublicOK, Terminal
<1>7. SourceLooks'
  BY DEF Inv, ConfirmSource, own, hub, world, SourceLooks, PublishedSource
<1>8. ReadbackLooks'
  BY DEF Inv, ConfirmSource, own, hub, world, ReadbackLooks
<1>9. StepOK'
  BY DEF Inv, ConfirmSource, own, hub, world, StepOK
<1> QED BY <1>1, <1>2, <1>3, <1>4, <1>5, <1>6, <1>7, <1>8, <1>9 DEF Inv

\* The last look at the tag.
LEMMA InvCheckTag ==
  ASSUME Inv, CheckTag
  PROVE  Inv'
<1>1. TypeOK'
  BY DEF Inv, CheckTag, own, hub, world, TypeOK, Phases, Working, Terminal
<1>2. Identified'
  BY DEF Inv, CheckTag, own, hub, world, Identified
<1>3. CreatedOnce'
  BY DEF Inv, CheckTag, own, hub, world, CreatedOnce, OneRelease
<1>4. HoldsOwn'
  BY DEF Inv, CheckTag, own, hub, world, HoldsOwn, Working, Current
<1>5. Compared'
  BY DEF Inv, CheckTag, own, hub, world, Compared, ComparedOK, Current,
     Listed
<1>6. PublicOK'
  BY DEF Inv, CheckTag, own, hub, world, PublicOK, Terminal
<1>7. SourceLooks'
  BY DEF Inv, CheckTag, own, hub, world, SourceLooks, PublishedSource
<1>8. ReadbackLooks'
  BY DEF Inv, CheckTag, own, hub, world, ReadbackLooks
<1>9. StepOK'
  BY DEF Inv, CheckTag, own, hub, world, StepOK
<1> QED BY <1>1, <1>2, <1>3, <1>4, <1>5, <1>6, <1>7, <1>8, <1>9 DEF Inv

\* The release becomes public.
LEMMA InvPublish ==
  ASSUME Inv, Publish
  PROVE  Inv'
<1>e. /\ releases' \subseteq Releases /\ used' = used
      /\ \A x, y \in releases' : x.id = y.id => x = y
      /\ OneRelease'
      /\ \A x \in releases' : \E y \in releases :
           x.id = y.id /\ x.made = y.made /\ x.body \in {y.body, "edited"}
  <2>1. CASE UNCHANGED hub
    BY <2>1 DEF Inv, hub, TypeOK, Identified, CreatedOnce, OneRelease
  <2>2. CASE \E r \in Current : Update(r, [r EXCEPT !.public = "call"])
    <3> PICK r \in Current : Update(r, [r EXCEPT !.public = "call"])
      BY <2>2
    <3> DEFINE s == [r EXCEPT !.public = "call"]
    <3>1. r \in releases /\ r \in Releases
      BY DEF Current, Inv, TypeOK
    <3>2. s \in Releases /\ s.id = r.id /\ s.made = r.made /\ s.body = r.body
      BY <3>1 DEF Releases
    <3>3. Update(r, s)
      OBVIOUS
    <3> HIDE DEF s
    <3> QED BY <3>1, <3>2, <3>3, EditKeeps
  <2> QED BY <2>1, <2>2 DEF Publish, hub
<1>1. TypeOK'
  BY <1>e DEF Inv, TypeOK, Publish, Phases, Working, Terminal, world, own
<1>2. Identified'
  BY <1>e DEF Inv, Identified, Publish, own
<1>3. CreatedOnce'
  BY <1>e DEF Inv, CreatedOnce, Publish
<1>4. HoldsOwn'
  BY DEF Inv, Publish, Update, own, hub, world, HoldsOwn, Working, Current
<1>5. Compared'
  BY AssetsAssumption, IdsAssumption DEF Inv, Publish, Update, world, own,
     hub, Compared, ComparedOK, Current, Listed, TypeOK, Phases, Working,
     Terminal, Identified, StepOK, Releases, Names
<1>6. PublicOK'
  BY AssetsAssumption DEF Inv, Publish, Update, world, own, hub, PublicOK,
     Terminal, TypeOK, Phases, Working, Identified, Compared, ComparedOK,
     Current, Listed, Releases, Names
<1>7. SourceLooks'
  BY DEF Inv, Publish, Update, own, hub, world, SourceLooks, PublishedSource
<1>8. ReadbackLooks'
  BY DEF Inv, Publish, Update, own, hub, world, ReadbackLooks
<1>9. StepOK'
  BY DEF Inv, Publish, Update, own, hub, world, StepOK
<1> QED BY <1>1, <1>2, <1>3, <1>4, <1>5, <1>6, <1>7, <1>8, <1>9 DEF Inv

\* The publisher stops.
LEMMA InvFail ==
  ASSUME Inv, Fail
  PROVE  Inv'
<1>1. TypeOK'
  BY DEF Inv, Fail, Halt, own, hub, world, TypeOK, Phases, Working, Terminal
<1>2. Identified'
  BY DEF Inv, Fail, Halt, own, hub, world, Identified
<1>3. CreatedOnce'
  BY DEF Inv, Fail, Halt, own, hub, world, CreatedOnce, OneRelease
<1>4. HoldsOwn'
  BY DEF Inv, Fail, Halt, own, hub, world, HoldsOwn, Working, Current
<1>5. Compared'
  BY DEF Inv, Fail, Halt, own, hub, world, Compared, ComparedOK, Current,
     Listed
<1>6. PublicOK'
  BY DEF Inv, Fail, Halt, own, hub, world, PublicOK, Terminal
<1>7. SourceLooks'
  BY DEF Inv, Fail, Halt, own, hub, world, SourceLooks, PublishedSource
<1>8. ReadbackLooks'
  BY DEF Inv, Fail, Halt, own, hub, world, ReadbackLooks
<1>9. StepOK'
  BY DEF Inv, Fail, Halt, own, hub, world, StepOK
<1> QED BY <1>1, <1>2, <1>3, <1>4, <1>5, <1>6, <1>7, <1>8, <1>9 DEF Inv

\* The default branch moves.
LEMMA InvMoveHead ==
  ASSUME Inv, Outside, MoveHead
  PROVE  Inv'
<1>1. TypeOK'
  <2>1. late' \subseteq Names \cup {"head", "source", "tag", "ledger", "run"}
    BY DEF Inv, TypeOK, MoveHead
  <2>2. outside' \in 0 .. MaxOutside
    BY OutsideAssumption DEF Inv, TypeOK, Outside
  <2> QED
    BY <2>1, <2>2 DEF Inv, MoveHead, TypeOK, own, hub, Phases, Working,
       Terminal
<1>2. Identified'
  BY DEF Inv, Outside, MoveHead, LookedLast, ReadsAfter, own, hub, world,
     Identified
<1>3. CreatedOnce'
  BY DEF Inv, Outside, MoveHead, LookedLast, ReadsAfter, own, hub, world,
     CreatedOnce, OneRelease
<1>4. HoldsOwn'
  BY DEF Inv, Outside, MoveHead, LookedLast, ReadsAfter, own, hub, world,
     HoldsOwn, Working, Current
<1>5. Compared'
  BY DEF Inv, Outside, MoveHead, LookedLast, ReadsAfter, own, hub, world,
     Compared, ComparedOK, Current, Listed
<1>6. PublicOK'
  BY DEF Inv, Outside, MoveHead, LookedLast, ReadsAfter, own, hub, world,
     PublicOK, Terminal
<1>7. SourceLooks'
  BY DEF Inv, Outside, MoveHead, LookedLast, ReadsAfter, world, own, hub,
     SourceLooks, PublishedSource, TypeOK, Phases, Working, Terminal,
     PublicOK, Releases, Names
<1>8. ReadbackLooks'
  BY LooksFacts DEF Inv, Outside, MoveHead, LookedLast, ReadsAfter, world,
     own, hub, ReadbackLooks, TypeOK, Phases, Working, Terminal, StepOK,
     Releases, Names
<1>9. StepOK'
  BY DEF Inv, Outside, MoveHead, LookedLast, ReadsAfter, own, hub, world,
     StepOK
<1> QED BY <1>1, <1>2, <1>3, <1>4, <1>5, <1>6, <1>7, <1>8, <1>9 DEF Inv

\* The tag moves.
LEMMA InvMoveTag ==
  ASSUME Inv, Outside, MoveTag
  PROVE  Inv'
<1>1. TypeOK'
  <2>1. late' \subseteq Names \cup {"head", "source", "tag", "ledger", "run"}
    BY DEF Inv, TypeOK, MoveTag, Remember
  <2>2. outside' \in 0 .. MaxOutside
    BY OutsideAssumption DEF Inv, TypeOK, Outside
  <2> QED
    BY <2>1, <2>2 DEF Inv, MoveTag, TypeOK, own, hub, Phases, Working,
       Terminal
<1>2. Identified'
  BY DEF Inv, Outside, MoveTag, Remember, own, hub, world, Identified
<1>3. CreatedOnce'
  BY DEF Inv, Outside, MoveTag, Remember, own, hub, world, CreatedOnce,
     OneRelease
<1>4. HoldsOwn'
  BY DEF Inv, Outside, MoveTag, Remember, own, hub, world, HoldsOwn, Working,
     Current
<1>5. Compared'
  BY DEF Inv, Outside, MoveTag, Remember, own, hub, world, Compared,
     ComparedOK, Current, Listed
<1>6. PublicOK'
  BY DEF Inv, Outside, MoveTag, Remember, own, hub, world, PublicOK, Terminal
<1>7. SourceLooks'
  BY DEF Inv, Outside, MoveTag, Remember, world, own, hub, SourceLooks,
     PublishedSource, TypeOK, Phases, Working, Terminal, PublicOK, Releases,
     Names
<1>8. ReadbackLooks'
  BY DEF Inv, Outside, MoveTag, Remember, own, hub, world, ReadbackLooks
<1>9. StepOK'
  BY DEF Inv, Outside, MoveTag, Remember, own, hub, world, StepOK
<1> QED BY <1>1, <1>2, <1>3, <1>4, <1>5, <1>6, <1>7, <1>8, <1>9 DEF Inv

\* The ledger is written.
LEMMA InvWriteLedger ==
  ASSUME Inv, Outside, WriteLedger
  PROVE  Inv'
<1>1. TypeOK'
  <2>1. late' \subseteq Names \cup {"head", "source", "tag", "ledger", "run"}
    BY DEF Inv, TypeOK, WriteLedger, Remember
  <2>2. outside' \in 0 .. MaxOutside
    BY OutsideAssumption DEF Inv, TypeOK, Outside
  <2> QED
    BY <2>1, <2>2 DEF Inv, WriteLedger, TypeOK, own, hub, Phases, Working,
       Terminal
<1>2. Identified'
  BY DEF Inv, Outside, WriteLedger, Remember, LookedLast, ReadsAfter, own,
     hub, world, Identified
<1>3. CreatedOnce'
  BY DEF Inv, Outside, WriteLedger, Remember, LookedLast, ReadsAfter, own,
     hub, world, CreatedOnce, OneRelease
<1>4. HoldsOwn'
  BY DEF Inv, Outside, WriteLedger, Remember, LookedLast, ReadsAfter, own,
     hub, world, HoldsOwn, Working, Current
<1>5. Compared'
  BY DEF Inv, Outside, WriteLedger, Remember, LookedLast, ReadsAfter, own,
     hub, world, Compared, ComparedOK, Current, Listed
<1>6. PublicOK'
  BY DEF Inv, Outside, WriteLedger, Remember, LookedLast, ReadsAfter, own,
     hub, world, PublicOK, Terminal
<1>7. SourceLooks'
  BY DEF Inv, Outside, WriteLedger, Remember, LookedLast, ReadsAfter, own,
     hub, world, SourceLooks, PublishedSource
<1>8. ReadbackLooks'
  BY LooksFacts DEF Inv, Outside, WriteLedger, Remember, LookedLast,
     ReadsAfter, world, own, hub, ReadbackLooks, TypeOK, Phases, Working,
     Terminal, StepOK, Releases, Names
<1>9. StepOK'
  BY DEF Inv, Outside, WriteLedger, Remember, LookedLast, ReadsAfter, own,
     hub, world, StepOK
<1> QED BY <1>1, <1>2, <1>3, <1>4, <1>5, <1>6, <1>7, <1>8, <1>9 DEF Inv

\* The attempt ends.
LEMMA InvEndRun ==
  ASSUME Inv, Outside, EndRun
  PROVE  Inv'
<1>1. TypeOK'
  <2>1. late' \subseteq Names \cup {"head", "source", "tag", "ledger", "run"}
    BY DEF Inv, TypeOK, EndRun, Remember
  <2>2. outside' \in 0 .. MaxOutside
    BY OutsideAssumption DEF Inv, TypeOK, Outside
  <2> QED
    BY <2>1, <2>2 DEF Inv, EndRun, TypeOK, own, hub, Phases, Working,
       Terminal
<1>2. Identified'
  BY DEF Inv, Outside, EndRun, Remember, LookedLast, ReadsAfter, own, hub,
     world, Identified
<1>3. CreatedOnce'
  BY DEF Inv, Outside, EndRun, Remember, LookedLast, ReadsAfter, own, hub,
     world, CreatedOnce, OneRelease
<1>4. HoldsOwn'
  BY DEF Inv, Outside, EndRun, Remember, LookedLast, ReadsAfter, own, hub,
     world, HoldsOwn, Working, Current
<1>5. Compared'
  BY DEF Inv, Outside, EndRun, Remember, LookedLast, ReadsAfter, own, hub,
     world, Compared, ComparedOK, Current, Listed
<1>6. PublicOK'
  BY DEF Inv, Outside, EndRun, Remember, LookedLast, ReadsAfter, own, hub,
     world, PublicOK, Terminal
<1>7. SourceLooks'
  BY DEF Inv, Outside, EndRun, Remember, LookedLast, ReadsAfter, own, hub,
     world, SourceLooks, PublishedSource
<1>8. ReadbackLooks'
  BY LooksFacts DEF Inv, Outside, EndRun, Remember, LookedLast, ReadsAfter,
     world, own, hub, ReadbackLooks, TypeOK, Phases, Working, Terminal,
     StepOK, Releases, Names
<1>9. StepOK'
  BY DEF Inv, Outside, EndRun, Remember, LookedLast, ReadsAfter, own, hub,
     world, StepOK
<1> QED BY <1>1, <1>2, <1>3, <1>4, <1>5, <1>6, <1>7, <1>8, <1>9 DEF Inv

\* Somebody creates a release.
LEMMA InvOtherRelease ==
  ASSUME Inv, Outside, OtherRelease
  PROVE  Inv'
<1> PICK i \in Ids, t \in {"ours", "other"} :
      Store(i, [id |-> i, made |-> "outside", tag |-> t, body |-> "edited",
                public |-> "no", assets |-> Nothing])
  BY DEF OtherRelease
<1> DEFINE d == [id |-> i, made |-> "outside", tag |-> t, body |-> "edited",
                 public |-> "no", assets |-> Nothing]
<1>a. d \in Releases /\ d.id = i /\ d.made = "outside" /\ d.public = "no"
      /\ d.body = "edited"
  BY DEF Releases, Nothing
<1>b. releases' = releases \cup {d} /\ used' = used \cup {i} /\ i \notin used
  BY DEF Store, Free
<1> HIDE DEF d
<1>1. TypeOK'
  BY <1>a, <1>b, OutsideAssumption DEF Inv, TypeOK, Outside, OtherRelease,
     world, own
<1>2. Identified'
  BY <1>a, <1>b DEF Inv, Outside, OtherRelease, own, hub, world, Identified
<1>3. CreatedOnce'
  BY <1>a, <1>b DEF Inv, Outside, OtherRelease, own, hub, world, CreatedOnce,
     OneRelease
<1>4. HoldsOwn'
  BY <1>a, <1>b, IdsAssumption DEF Inv, Outside, OtherRelease, world, own,
     hub, HoldsOwn, Working, Current, TypeOK, Phases, Terminal, Identified,
     CreatedOnce, OneRelease, Releases, Names
<1>5. Compared'
  BY <1>a, <1>b, AssetsAssumption, IdsAssumption DEF Inv, Outside,
     OtherRelease, world, own, hub, Compared, ComparedOK, Current, Listed,
     TypeOK, Phases, Working, Terminal, Identified, StepOK, Releases, Names
<1>6. PublicOK'
  BY <1>a, <1>b DEF Inv, Outside, OtherRelease, own, hub, world, PublicOK,
     Terminal
<1>7. SourceLooks'
  BY <1>a, <1>b DEF Inv, Outside, OtherRelease, own, hub, world, SourceLooks,
     PublishedSource
<1>8. ReadbackLooks'
  BY <1>a, <1>b DEF Inv, Outside, OtherRelease, own, hub, world,
     ReadbackLooks
<1>9. StepOK'
  BY <1>a, <1>b DEF Inv, Outside, OtherRelease, own, hub, world, StepOK
<1> QED BY <1>1, <1>2, <1>3, <1>4, <1>5, <1>6, <1>7, <1>8, <1>9 DEF Inv

\* Somebody changes a release.
LEMMA InvChangeRelease ==
  ASSUME Inv, Outside, NEW r \in releases, ChangeRelease(r)
  PROVE  Inv'
<1>1. TypeOK'
  <2>1. r \in Releases
    BY DEF Inv, TypeOK
  <2>2. [r EXCEPT !.body = "edited"] \in Releases /\ [r EXCEPT !.public = "outside"] \in Releases
    BY <2>1 DEF Releases
  <2>3. releases' \subseteq Releases /\ used' = used
    BY <2>2 DEF Inv, TypeOK, ChangeRelease, Update
  <2> QED BY <2>3, OutsideAssumption DEF Inv, TypeOK, Outside, ChangeRelease, world, own
<1>2. Identified'
  BY DEF Inv, Outside, ChangeRelease, Update, world, own, hub, Identified,
     TypeOK, Phases, Working, Terminal, Releases, Names
<1>3. CreatedOnce'
  BY DEF Inv, Outside, ChangeRelease, Update, world, own, hub, CreatedOnce,
     OneRelease, TypeOK, Phases, Working, Terminal, Identified, Releases,
     Names
<1>4. HoldsOwn'
  BY IdsAssumption DEF Inv, Outside, ChangeRelease, Update, world, own, hub,
     HoldsOwn, Working, Current, TypeOK, Phases, Terminal, Identified,
     CreatedOnce, OneRelease, Releases, Names
<1>5. Compared'
  BY AssetsAssumption, IdsAssumption DEF Inv, Outside, ChangeRelease, Update,
     world, own, hub, Compared, ComparedOK, Current, Listed, TypeOK, Phases,
     Working, Terminal, Identified, StepOK, Releases, Names
<1>6. PublicOK'
  BY AssetsAssumption DEF Inv, Outside, ChangeRelease, Update, world, own,
     hub, PublicOK, Terminal, TypeOK, Phases, Working, Identified, Compared,
     ComparedOK, Current, Listed, Releases, Names
<1>7. SourceLooks'
  BY DEF Inv, Outside, ChangeRelease, Update, world, own, hub, SourceLooks,
     PublishedSource, TypeOK, Phases, Working, Terminal, PublicOK, Releases,
     Names
<1>8. ReadbackLooks'
  BY DEF Inv, Outside, ChangeRelease, Update, own, hub, world, ReadbackLooks
<1>9. StepOK'
  BY DEF Inv, Outside, ChangeRelease, Update, own, hub, world, StepOK
<1> QED BY <1>1, <1>2, <1>3, <1>4, <1>5, <1>6, <1>7, <1>8, <1>9 DEF Inv

\* Somebody changes a file of a release.
LEMMA InvChangeAsset ==
  ASSUME Inv, Outside, NEW r \in releases, NEW n \in Names, ChangeAsset(r, n)
  PROVE  Inv'
<1>1. TypeOK'
  <2>1. late' \subseteq Names \cup {"head", "source", "tag", "ledger", "run"}
    BY DEF Inv, TypeOK, ChangeAsset, Remember
  <2>2. releases' \subseteq Releases /\ used' = used
    <3>1. PICK a \in {"none", "foreign"} : Update(r, [r EXCEPT !.assets[n] = a])
      BY DEF ChangeAsset
    <3>2. r \in Releases
      BY DEF Inv, TypeOK
    <3>3. [r EXCEPT !.assets[n] = a] \in Releases
      BY <3>2 DEF Releases
    <3> QED BY <3>1, <3>3 DEF Inv, TypeOK, Update
  <2> QED
    BY <2>1, <2>2, OutsideAssumption DEF Inv, TypeOK, ChangeAsset, Outside,
       world, own
<1>2. Identified'
  BY DEF Inv, Outside, ChangeAsset, Update, Remember, world, own, hub,
     Identified, TypeOK, Phases, Working, Terminal, Releases, Names
<1>3. CreatedOnce'
  BY DEF Inv, Outside, ChangeAsset, Update, Remember, world, own, hub,
     CreatedOnce, OneRelease, TypeOK, Phases, Working, Terminal, Identified,
     Releases, Names
<1>4. HoldsOwn'
  BY IdsAssumption DEF Inv, Outside, ChangeAsset, Update, Remember, world,
     own, hub, HoldsOwn, Working, Current, TypeOK, Phases, Terminal,
     Identified, CreatedOnce, OneRelease, Releases, Names
<1>5. Compared'
  BY AssetsAssumption, IdsAssumption DEF Inv, Outside, ChangeAsset, Update,
     Remember, world, own, hub, Compared, ComparedOK, Current, Listed,
     TypeOK, Phases, Working, Terminal, Identified, StepOK, Releases, Names
<1>6. PublicOK'
  BY AssetsAssumption DEF Inv, Outside, ChangeAsset, Update, Remember, world,
     own, hub, PublicOK, Terminal, TypeOK, Phases, Working, Identified,
     Compared, ComparedOK, Current, Listed, Releases, Names
<1>7. SourceLooks'
  BY DEF Inv, Outside, ChangeAsset, Update, Remember, world, own, hub,
     SourceLooks, PublishedSource, TypeOK, Phases, Working, Terminal,
     PublicOK, Releases, Names
<1>8. ReadbackLooks'
  BY DEF Inv, Outside, ChangeAsset, Update, Remember, own, hub, world,
     ReadbackLooks
<1>9. StepOK'
  BY DEF Inv, Outside, ChangeAsset, Update, Remember, own, hub, world, StepOK
<1> QED BY <1>1, <1>2, <1>3, <1>4, <1>5, <1>6, <1>7, <1>8, <1>9 DEF Inv

\* Every behaviour of the transaction keeps the inductive invariant.
THEOREM InvHolds == Spec => []Inv
<1>1. Inv /\ [Next]_vars => Inv'
  <2> SUFFICES ASSUME Inv, [Next]_vars PROVE Inv'
    OBVIOUS
  <2>1. CASE Step
    BY <2>1, InvEnsureAbsent, InvCreateTag, InvCreateRelease, InvReadback, InvUpload,
       InvListAssets, InvVerify, InvConfirmSource, InvCheckTag, InvPublish DEF Step
  <2>2. CASE DelayedCreate
    BY <2>2, InvDelayedCreate
  <2>3. CASE Fail
    BY <2>3, InvFail
  <2>4. CASE Others
    BY <2>4, InvMoveHead, InvMoveTag, InvWriteLedger, InvEndRun, InvOtherRelease,
       InvChangeRelease, InvChangeAsset DEF Others
  <2>5. CASE UNCHANGED vars
    BY <2>5 DEF Inv, vars, hub, world, own, TypeOK, Identified, CreatedOnce, OneRelease,
       HoldsOwn, Current, Compared, ComparedOK, PublicOK, SourceLooks, PublishedSource,
       ReadbackLooks, StepOK
  <2> QED BY <2>1, <2>2, <2>3, <2>4, <2>5 DEF Next
<1> QED BY InitInv, <1>1, PTL DEF Spec

\* Type correctness of the transaction.
THEOREM TypeCorrect == Spec => []TypeOK
<1>1. Inv => TypeOK
  BY DEF Inv
<1> QED BY InvHolds, <1>1, PTL

\* However the answer to the creation is lost or delayed, at most one release
\* is created (create_release_once never replays the POST).
THEOREM CreatesOneRelease == Spec => []OneRelease
<1>1. Inv => OneRelease
  BY DEF Inv, CreatedOnce
<1> QED BY InvHolds, <1>1, PTL

\* The release that is filled and published is the one this transaction
\* created, also when it was found again by the readback.
THEOREM WorksOnOwnDraft == Spec => []OwnDraft
<1>1. Inv => OwnDraft
  BY DEF Inv, HoldsOwn, OwnDraft
<1> QED BY InvHolds, <1>1, PTL

\* What the transaction makes public are the staged names and bytes, up to
\* changes made to a file after it was compared.
THEOREM PublishesWhatItChecked == Spec => []PublishedAsChecked
<1>1. Inv => PublishedAsChecked
  <2> SUFFICES ASSUME Inv, NEW r \in releases, r.public = "call", NEW n \in Names,
                      r.assets[n] # (IF n \in Assets THEN "exact" ELSE "none")
               PROVE  n \in late
    BY DEF PublishedAsChecked
  <2>1. r \in Current /\ checked = Assets /\ (r.assets[Extra] = "none" \/ Extra \in late)
    BY DEF Inv, PublicOK, Current
  <2>2. CASE n \in Assets
    BY <2>1, <2>2 DEF Inv, Compared, ComparedOK
  <2>3. CASE n = Extra
    BY <2>1, <2>3, AssetsAssumption
  <2> QED BY <2>2, <2>3 DEF Names
<1> QED BY InvHolds, <1>1, PTL

\* A published release has its tag at the source, and an automatic one stems
\* from the default branch, up to changes after the last look.
THEOREM PublishesItsSource == Spec => []PublishedSource
<1>1. Inv => PublishedSource
  BY DEF Inv, SourceLooks
<1> QED BY InvHolds, <1>1, PTL

\* A draft is adopted after a lost answer only if the run, the source and the
\* ledger were unchanged when the second confirmation looked.
THEOREM AdoptsConfirmed == Spec => []AdoptionConfirmed
<1>1. Inv => AdoptionConfirmed
  BY LooksFacts DEF Inv, TypeOK, ReadbackLooks, AdoptionConfirmed
<1> QED BY InvHolds, <1>1, PTL

\* What the theorems above say of _publish_prepared and create_release_once
\* together.
THEOREM TransactionIsSound == Spec => []DraftSound
<1>1. OneRelease /\ OwnDraft /\ AdoptionConfirmed /\ PublishedAsChecked /\ PublishedSource
        => DraftSound
  BY DEF DraftSound
<1> QED
  BY <1>1, CreatesOneRelease, WorksOnOwnDraft, AdoptsConfirmed, PublishesWhatItChecked,
     PublishesItsSource, PTL

=============================================================================
