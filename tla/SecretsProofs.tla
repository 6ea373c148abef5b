---------------------------- MODULE SecretsProofs ----------------------------
(***************************************************************************)
(* Proofs about the paths that secrets take, for any number of operators,  *)
(* runs and invocations, any manifest and any bound on faults.             *)
(*                                                                         *)
(* A behaviour of MCSecrets is one of a single component, so each theorem  *)
(* is an invariant of that component, kept by each of its actions.  The    *)
(* slots hold, in order:                                                   *)
(*   files    s1 pc, s2 job, s3 held, s4 disk, s5 kills, s6 drill, s7 tool *)
(*   hcp      s1 pc, s2 catalog, s3 apply, s4 lock, s5 key, s6 ledger,     *)
(*            s7 state, s8 hcp, s9 terraform, s10 ever, s11 faults         *)
(*   journal  s1 meta, s2 inflight, s3 lock, s4 intent, s5 accepted,       *)
(*            s6 observed, s7 result, s8 pc, s9 at, s10 accepts,           *)
(*            s11 observes, s12 phase, s13 landed, s14 disturbed,          *)
(*            s15 faults, s16 outside                                      *)
(***************************************************************************)
EXTENDS MCSecrets, Sequences, FiniteSetTheorems, TLAPS

-----------------------------------------------------------------------------
(* Private files                                                           *)

\* What the jobs of SecretFiles say: encrypt writes a new catalog file, the
\* other commands the output.
LEMMA JobFacts ==
  ASSUME NEW j \in Files!Jobs
  PROVE  /\ j.catalog \in Files!Catalogs /\ j.catalog.value \in Files!Values /\ j # Files!NoJob
         /\ j.command \in {"encrypt", "materialize", "recovery-check", "fetch"}
         /\ j.command = "encrypt" => j.to = "second"
         /\ j.command = "fetch" => j.from \in Files!Values
         /\ j.command \in {"materialize", "recovery-check"} => j.from \in Files!CatalogFiles
<1>1. CASE j \in [command : {"encrypt"}, catalog : Files!Catalogs, from : {"first", "none"}, to : {"second"}]
  BY <1>1 DEF Files!Catalogs, Files!Values, Files!NoJob
<1>2. CASE j \in [command : {"materialize", "recovery-check"}, catalog : Files!Catalogs, from : Files!CatalogFiles, to : {Files!Output}]
  BY <1>2 DEF Files!Catalogs, Files!Values, Files!NoJob
<1>3. CASE j \in [command : {"fetch"}, catalog : {c \in Files!Catalogs : c.rev = 2}, from : Files!Values, to : {Files!Output}]
  BY <1>3 DEF Files!Catalogs, Files!Values, Files!NoJob
<1> QED BY <1>1, <1>2, <1>3 DEF Files!Jobs

\* The private files begin with one catalog and nobody at work.
LEMMA FilesInit ==
  ASSUME Files!Init
  PROVE  Files!Inv
<1>1. Files!JobsOK
  BY DEF Files!Init, Files!JobsOK, Files!NoJob
<1>2. Files!DiskOK
  BY DEF Files!Init, Files!DiskOK, Files!CatalogFiles, Files!Output, Files!Absent, Files!Torn, Files!Catalogs, Files!Bytes, Files!Values
<1>3. Files!OneWriter /\ Files!Carries
  BY DEF Files!Init, Files!OneWriter, Files!Carries
<1>4. \E t : t \in Files!Tools
  <2>1. [wrong |-> "opens", tampered |-> "opens", everyone |-> TRUE, removes |-> TRUE] \in Files!Tools
    BY DEF Files!Tools, Files!Behaviours
  <2> QED BY <2>1
<1>5. s7 \in Files!Tools /\ s6 \in {0, 1}
  BY <1>4 DEF Files!Init
<1>6. Files!DrillOK
  BY <1>5 DEF Files!DrillOK
<1> QED BY <1>1, <1>2, <1>3, <1>6 DEF Files!Inv

\* An operator's step other than a write to the disk keeps what is known of it.
LEMMA FilesQuiet ==
  ASSUME Files!Inv, Files!JobsOK', UNCHANGED <<s4, s6, s7>>,
         NEW o \in Operators, NEW w, s1' = [s1 EXCEPT ![o] = w], w # "write",
         \A p \in Operators \ {o} : s2'[p] = s2[p] /\ s3'[p] = s3[p],
         w \in {"existing", "link", "unlink", "created", "unchanged"} => s3'[o] = s2'[o].catalog.value,
         w \in {"unlink", "created", "unchanged"} => s4[Files!Output].links > 0 /\ s4[Files!Output].data = Files!Bytes(s3'[o])
  PROVE  Files!Inv'
<1> USE DEF Files!Inv
<1>1. \A p \in Operators : s1'[p] = IF p = o THEN w ELSE s1[p]
  BY DEF Files!JobsOK
<1>2. Files!DiskOK' /\ Files!DrillOK'
  BY DEF Files!DiskOK, Files!DrillOK
<1>3. Files!OneWriter'
  BY <1>1 DEF Files!OneWriter
<1>4. Files!Carries'
  BY <1>1 DEF Files!Carries, Files!Bytes
<1> QED BY <1>2, <1>3, <1>4

\* Every step of an operator or of the drill keeps the invariant, and no
\* complete file is replaced, cut or removed.
LEMMA FilesStepKeeps ==
  ASSUME Files!Inv, Files!Next
  PROVE  Files!Inv' /\ Files!KeepsWhole
<1> USE DEF Files!Inv
<1>d. s4 \in [{"first", "second", "output"} -> [data : Files!Catalogs \cup {Files!Torn} \cup {Files!Bytes(v) : v \in Files!Values}, links : {0, 1, 2}]]
  BY DEF Files!DiskOK, Files!CatalogFiles, Files!Output
<1>k. s4' = s4 => Files!KeepsWhole
  BY DEF Files!KeepsWhole, Files!Whole
<1>1. ASSUME NEW o \in Operators, NEW j \in Files!Jobs, Files!Start(o, j)
      PROVE  Files!Inv' /\ Files!KeepsWhole
  <2>0. PICK w \in {"encrypt", "load"} : s1' = [s1 EXCEPT ![o] = w] /\ (w = "encrypt" <=> j.command = "encrypt")
    BY <1>1 DEF Files!Start, Files!Go
  <2>1. s2' = [s2 EXCEPT ![o] = j] /\ s1[o] = "idle" /\ UNCHANGED <<s3, s4, s6, s7>>
    BY <1>1 DEF Files!Start
  <2>2. Files!JobsOK'
    BY <2>0, <2>1, JobFacts DEF Files!JobsOK
  <2>3. \A p \in Operators \ {o} : s2'[p] = s2[p] /\ s3'[p] = s3[p]
    BY <2>1 DEF Files!JobsOK
  <2>4. Files!Inv'
    BY <2>0, <2>1, <2>2, <2>3, FilesQuiet
  <2> QED BY <1>k, <2>1, <2>4
<1>2. ASSUME NEW o \in Operators, Files!Encrypt(o) \/ Files!RecoveryCheck(o) \/ Files!Kill(o)
      PROVE  Files!Inv' /\ Files!KeepsWhole
  <2>0. PICK w \in {"create", "refused", "verified", "dead"} :
          s1' = [s1 EXCEPT ![o] = w] /\ (w = "create" => s1[o] = "encrypt") /\ s1[o] # "idle"
    BY <1>2 DEF Files!Encrypt, Files!RecoveryCheck, Files!Kill, Files!Go
  <2>1. UNCHANGED <<s2, s3, s4, s6, s7>>
    BY <1>2 DEF Files!Encrypt, Files!RecoveryCheck, Files!Kill
  <2>2. Files!JobsOK'
    BY <2>0, <2>1 DEF Files!JobsOK
  <2>4. Files!Inv'
    BY <2>0, <2>1, <2>2, FilesQuiet
  <2> QED BY <1>k, <2>1, <2>4
<1>3. ASSUME NEW o \in Operators, Files!CreatePrivate(o)
      PROVE  Files!Inv' /\ Files!KeepsWhole
  <2>0. s1[o] = "create" /\ s2[o].to = "second" /\ UNCHANGED <<s2, s3, s6, s7>>
    BY <1>3, JobFacts DEF Files!CreatePrivate, Files!JobsOK
  <2>1. CASE s4["second"].links = 0
    <3>1. s4' = [s4 EXCEPT !["second"] = [data |-> Files!Torn, links |-> 1]] /\ s1' = [s1 EXCEPT ![o] = "write"]
      BY <1>3, <2>0, <2>1 DEF Files!CreatePrivate, Files!Go
    <3>2. /\ s4'["output"] = s4["output"] /\ s4'["second"] = [data |-> Files!Torn, links |-> 1]
          /\ s4["first"] = s4'["first"]
      BY <1>d, <3>1
    <3>3. Files!DiskOK'
      BY <1>d, <3>1 DEF Files!DiskOK, Files!CatalogFiles, Files!Output
    <3>4. Files!JobsOK' /\ Files!DrillOK'
      BY <2>0, <3>1 DEF Files!JobsOK, Files!DrillOK
    <3>5. \A p \in Operators : s1[p] # "write"
      BY <2>1 DEF Files!OneWriter
    <3>6. Files!OneWriter'
      BY <3>1, <3>2, <3>5 DEF Files!OneWriter, Files!JobsOK
    <3>7. Files!Carries'
      BY <2>0, <3>1, <3>2 DEF Files!Carries, Files!JobsOK, Files!Output, Files!Bytes
    <3>8. Files!KeepsWhole
      BY <1>d, <2>1, <3>2 DEF Files!KeepsWhole, Files!Whole
    <3> QED BY <3>3, <3>4, <3>6, <3>7, <3>8
  <2>2. CASE s4["second"].links # 0
    <3>1. s4' = s4 /\ s1' = [s1 EXCEPT ![o] = "refused"]
      BY <1>3, <2>0, <2>2 DEF Files!CreatePrivate, Files!Go
    <3>2. Files!JobsOK'
      BY <2>0, <3>1 DEF Files!JobsOK
    <3>3. Files!Inv'
      BY <2>0, <3>1, <3>2, FilesQuiet
    <3> QED BY <1>k, <3>1, <3>3
  <2> QED BY <2>1, <2>2
<1>4. ASSUME NEW o \in Operators, Files!WritePrivate(o)
      PROVE  Files!Inv' /\ Files!KeepsWhole
  <2>0. /\ s1[o] = "write" /\ s2[o].to = "second" /\ UNCHANGED <<s2, s3, s6, s7>> /\ s2[o].catalog \in Files!Catalogs
        /\ s1' = [s1 EXCEPT ![o] = "encrypted"]
    BY <1>4, JobFacts DEF Files!WritePrivate, Files!JobsOK, Files!Go
  <2>1. s4' = [s4 EXCEPT !["second"] = [data |-> s2[o].catalog, links |-> s4["second"].links]]
    <3>1. s4["second"] \in [data : Files!Catalogs \cup {Files!Torn} \cup {Files!Bytes(v) : v \in Files!Values}, links : {0, 1, 2}]
      BY <1>d
    <3>2. [s4["second"] EXCEPT !.data = s2[o].catalog] = [data |-> s2[o].catalog, links |-> s4["second"].links]
      BY <3>1
    <3> QED BY <1>4, <1>d, <2>0, <3>2 DEF Files!WritePrivate
  <2>2. /\ s4'["output"] = s4["output"] /\ s4'["first"] = s4["first"]
        /\ s4["second"] = [data |-> Files!Torn, links |-> 1]
    BY <1>d, <2>0, <2>1 DEF Files!OneWriter
  <2>3. Files!DiskOK'
    BY <1>d, <2>0, <2>1 DEF Files!DiskOK, Files!CatalogFiles, Files!Output
  <2>4. Files!JobsOK' /\ Files!DrillOK'
    BY <2>0 DEF Files!JobsOK, Files!DrillOK
  <2>6. Files!OneWriter'
    BY <2>0 DEF Files!OneWriter, Files!JobsOK
  <2>7. Files!Carries'
    BY <2>0, <2>2 DEF Files!Carries, Files!JobsOK, Files!Output, Files!Bytes
  <2>8. Files!KeepsWhole
    BY <1>d, <2>2 DEF Files!KeepsWhole, Files!Whole
  <2> QED BY <2>3, <2>4, <2>6, <2>7, <2>8
<1>5. ASSUME NEW o \in Operators, Files!Load(o)
      PROVE  Files!Inv' /\ Files!KeepsWhole
  <2>0. s1[o] = "load" /\ s2[o].command # "recovery-check" /\ UNCHANGED <<s2, s4, s6, s7>>
    BY <1>5 DEF Files!Load
  <2>j. s2[o] \in Files!Jobs /\ s2[o].command # "encrypt"
    BY <2>0 DEF Files!JobsOK
  <2>1. \/ s1' = [s1 EXCEPT ![o] = "existing"] /\ s3' = [s3 EXCEPT ![o] = s2[o].catalog.value]
        \/ s1' = [s1 EXCEPT ![o] = "refused"] /\ s3' = s3
    BY <1>5 DEF Files!Load, Files!Approved, Files!Go
  <2>2. Files!JobsOK'
    BY <2>0, <2>j, <2>1, JobFacts DEF Files!JobsOK
  <2>3. PICK w \in {"existing", "refused"} : s1' = [s1 EXCEPT ![o] = w] /\ (w = "existing" => s3'[o] = s2[o].catalog.value)
    BY <2>1 DEF Files!JobsOK
  <2>4. \A p \in Operators \ {o} : s3'[p] = s3[p]
    BY <2>1 DEF Files!JobsOK
  <2>5. Files!Inv'
    BY <2>0, <2>2, <2>3, <2>4, FilesQuiet
  <2> QED BY <1>k, <2>0, <2>5
<1>6. ASSUME NEW o \in Operators, Files!ExistingMatches(o)
      PROVE  Files!Inv' /\ Files!KeepsWhole
  <2>0. s1[o] = "existing" /\ UNCHANGED <<s2, s3, s4, s6, s7>>
    BY <1>6 DEF Files!ExistingMatches
  <2>1. PICK w \in {"link", "unchanged", "refused"} : s1' = [s1 EXCEPT ![o] = w]
          /\ (w = "unchanged" => s4[Files!Output] = [data |-> Files!Bytes(s3[o]), links |-> 1])
    BY <1>6 DEF Files!ExistingMatches, Files!Go
  <2>2. Files!JobsOK'
    BY <2>0, <2>1 DEF Files!JobsOK
  <2>3. s3[o] = s2[o].catalog.value
    BY <2>0 DEF Files!Carries
  <2>4. w = "unchanged" => s4[Files!Output].links > 0 /\ s4[Files!Output].data = Files!Bytes(s3'[o])
    BY <2>0, <2>1
  <2>5. s3'[o] = s2'[o].catalog.value
    BY <2>0, <2>3
  <2>6. Files!Inv'
    BY <2>0, <2>1, <2>2, <2>4, <2>5, FilesQuiet
  <2> QED BY <1>k, <2>0, <2>6
<1>7. ASSUME NEW o \in Operators, Files!Link(o)
      PROVE  Files!Inv' /\ Files!KeepsWhole
  <2>0. s1[o] = "link" /\ UNCHANGED <<s2, s3, s6, s7>> /\ s3[o] \in Files!Values /\ s3[o] = s2[o].catalog.value
    <3>1. s1[o] = "link" /\ UNCHANGED <<s2, s3, s6, s7>>
      BY <1>7 DEF Files!Link
    <3>2. s3[o] = s2[o].catalog.value /\ s2[o] \in Files!Jobs
      BY <3>1 DEF Files!Carries, Files!JobsOK
    <3> QED BY <3>1, <3>2, JobFacts
  <2>1. CASE s4["output"].links = 0
    <3>1. s4' = [s4 EXCEPT !["output"] = [data |-> Files!Bytes(s3[o]), links |-> 2]] /\ s1' = [s1 EXCEPT ![o] = "unlink"]
      BY <1>7, <2>1 DEF Files!Link, Files!Go, Files!NameIsFree, Files!Output
    <3>2. /\ s4'["output"] = [data |-> Files!Bytes(s3[o]), links |-> 2] /\ s4'["second"] = s4["second"]
          /\ s4["first"] = s4'["first"]
      BY <1>d, <3>1
    <3>3. Files!DiskOK'
      BY <1>d, <2>0, <3>1 DEF Files!DiskOK, Files!CatalogFiles, Files!Output
    <3>4. Files!JobsOK' /\ Files!DrillOK'
      BY <2>0, <3>1 DEF Files!JobsOK, Files!DrillOK
    <3>5. \A p \in Operators : s1[p] \notin {"unlink", "created", "unchanged"}
      BY <2>1 DEF Files!Carries, Files!Output
    <3>6. Files!OneWriter'
      BY <3>1, <3>2 DEF Files!OneWriter, Files!JobsOK
    <3>7. Files!Carries'
      BY <2>0, <3>1, <3>2, <3>5 DEF Files!Carries, Files!JobsOK, Files!Output, Files!Bytes
    <3>8. Files!KeepsWhole
      BY <1>d, <2>1, <3>2 DEF Files!KeepsWhole, Files!Whole
    <3> QED BY <3>3, <3>4, <3>6, <3>7, <3>8
  <2>2. CASE s4["output"].links # 0
    <3>1. s4' = s4 /\ s1' = [s1 EXCEPT ![o] = "refused"]
      BY <1>7, <2>2 DEF Files!Link, Files!Go, Files!NameIsFree, Files!Output
    <3>2. Files!JobsOK'
      BY <2>0, <3>1 DEF Files!JobsOK
    <3>3. Files!Inv'
      BY <2>0, <3>1, <3>2, FilesQuiet
    <3> QED BY <1>k, <3>1, <3>3
  <2> QED BY <2>1, <2>2
<1>8. ASSUME NEW o \in Operators, Files!Unlink(o)
      PROVE  Files!Inv' /\ Files!KeepsWhole
  <2>0. s1[o] = "unlink" /\ UNCHANGED <<s2, s3, s6, s7>> /\ s1' = [s1 EXCEPT ![o] = "created"]
    BY <1>8 DEF Files!Unlink, Files!Go
  <2>1. s4' = [s4 EXCEPT !["output"] = [data |-> s4["output"].data, links |-> 1]]
    <3>1. s4["output"] \in [data : Files!Catalogs \cup {Files!Torn} \cup {Files!Bytes(v) : v \in Files!Values}, links : {0, 1, 2}]
      BY <1>d
    <3>2. [s4["output"] EXCEPT !.links = 1] = [data |-> s4["output"].data, links |-> 1]
      BY <3>1
    <3> QED BY <1>8, <1>d, <3>2 DEF Files!Unlink, Files!Output
  <2>2. /\ s4'["output"] = [data |-> s4["output"].data, links |-> 1] /\ s4'["second"] = s4["second"]
        /\ s4'["first"] = s4["first"]
    BY <1>d, <2>1
  <2>3. Files!DiskOK'
    BY <1>d, <2>1 DEF Files!DiskOK, Files!CatalogFiles, Files!Output
  <2>4. Files!JobsOK' /\ Files!DrillOK'
    BY <2>0 DEF Files!JobsOK, Files!DrillOK
  <2>6. Files!OneWriter'
    BY <2>0, <2>2 DEF Files!OneWriter, Files!JobsOK
  <2>7. Files!Carries'
    BY <2>0, <2>2 DEF Files!Carries, Files!JobsOK, Files!Output, Files!Bytes
  <2>8. Files!KeepsWhole
    BY <1>d, <2>2 DEF Files!KeepsWhole, Files!Whole
  <2> QED BY <2>3, <2>4, <2>6, <2>7, <2>8
<1>9. CASE Files!DrillStep
  <2>0. UNCHANGED <<s1, s2, s3, s4, s7>> /\ s6 \in 1 .. 10
    BY <1>9 DEF Files!DrillStep, Files!Steps
  <2>1. Files!JobsOK' /\ Files!DiskOK' /\ Files!OneWriter' /\ Files!Carries'
    BY <2>0 DEF Files!JobsOK, Files!DiskOK, Files!OneWriter, Files!Carries, Files!Bytes
  <2>l. Len(Files!Steps) = 10
    BY DEF Files!Steps
  <2>2. s6' = 12 \/ (s6' = s6 + 1 /\ Files!StepHolds(Files!Steps[s6]))
    BY <1>9, <2>l DEF Files!DrillStep
  <2>3. s6' = 12 => Files!DrillOK'
    BY <2>0 DEF Files!DrillOK
  <2>4. ASSUME s6' = s6 + 1, Files!StepHolds(Files!Steps[s6])
        PROVE  /\ s6 = 3 => s7.everyone
               /\ s6 = 5 => s7.wrong = "refuses"
               /\ s6 = 6 => s7.tampered = "refuses"
               /\ s6 = 10 => s7.removes
    <3>1. /\ Files!Steps[3] = "decrypt" /\ Files!Steps[5] = "wrong key"
          /\ Files!Steps[6] = "tampered" /\ Files!Steps[10] = "cleanup"
      BY DEF Files!Steps
    <3> QED BY <2>4, <3>1 DEF Files!StepHolds, Files!Refused
  <2>5. ASSUME s6' = s6 + 1, Files!StepHolds(Files!Steps[s6])
        PROVE  Files!DrillOK'
    BY <2>0, <2>4, <2>5 DEF Files!DrillOK
  <2> QED BY <1>k, <2>0, <2>1, <2>2, <2>3, <2>5
<1> QED BY <1>1, <1>2, <1>3, <1>4, <1>5, <1>6, <1>7, <1>8, <1>9 DEF Files!Next

\* A stuttering step of the slots keeps the files' invariant.
LEMMA FilesStutter ==
  ASSUME Files!Inv, UNCHANGED vars
  PROVE  Files!Inv'
BY DEF vars, Files!Inv, Files!JobsOK, Files!DiskOK, Files!OneWriter, Files!Carries, Files!DrillOK, Files!Bytes

\* The files' invariant holds in every behaviour that is about them.
THEOREM FilesInvHolds == Spec => [](part = "files" => Files!Inv)
<1>1. Init => (part = "files" => Files!Inv)
  BY FilesInit DEF Init
<1>2. (part = "files" => Files!Inv) /\ [Next]_vars => (part = "files" => Files!Inv)'
  BY FilesStepKeeps, FilesStutter DEF Next, JournalStep, HcpStep, FilesStep, vars
<1> QED BY <1>1, <1>2, PTL DEF Spec

\* materialize and drill: an operator who is told that the output was created
\* or is unchanged finds the approved catalog's value in it, and the drill
\* passes only with an age program that refuses wrong keys and changed
\* bytes and encrypts for every recipient.
THEOREM SecretFilesAreSound == Spec => []SecretFilesSound
<1>1. Files!Inv => Files!DeliveredIsApproved
  BY DEF Files!Inv, Files!Carries, Files!DeliveredIsApproved, Files!Bytes
<1>2. Files!Inv => Files!DrillIsSound
  <2> SUFFICES ASSUME Files!Inv, s6 = 11
               PROVE  s7 = [wrong |-> "refuses", tampered |-> "refuses", everyone |-> TRUE, removes |-> TRUE]
    BY DEF Files!DrillIsSound, Files!Steps
  <2>1. /\ s7 \in [wrong : Files!Behaviours, tampered : Files!Behaviours, everyone : BOOLEAN, removes : BOOLEAN]
        /\ s7.wrong = "refuses" /\ s7.tampered = "refuses" /\ s7.everyone /\ s7.removes
    BY DEF Files!Inv, Files!DrillOK, Files!Tools
  <2>2. s7.everyone = TRUE /\ s7.removes = TRUE
    BY <2>1
  <2> QED BY <2>1, <2>2
<1>3. (part = "files" => Files!Inv) => SecretFilesSound
  BY <1>1, <1>2 DEF SecretFilesSound
<1> QED BY FilesInvHolds, <1>3, PTL

\* private_io and materialize: a private file that was written completely is
\* never replaced, cut or removed, whichever commands race and are killed.
THEOREM WholeFilesDoStay == Spec => [][part = "files" => Files!KeepsWhole]_vars
<1>1. (part = "files" => Files!Inv) /\ [Next]_vars => [part = "files" => Files!KeepsWhole]_vars
  BY FilesStepKeeps DEF Next, JournalStep, HcpStep, FilesStep
<1> QED BY FilesInvHolds, <1>1, PTL DEF Spec

-----------------------------------------------------------------------------
(* Revisions in HCP                                                        *)

\* What a catalog says: revisions and values of some of the variables.
LEMMA CatalogFacts ==
  ASSUME NEW c \in Hcp!Catalogs
  PROVE  /\ c.gen \in Nat /\ c.gen > 0 /\ DOMAIN c.entries \subseteq Names
         /\ \A n \in DOMAIN c.entries : /\ c.entries[n] \in [rev : Nat, value : HcpValues]
                                        /\ c.entries[n].rev \in Nat /\ c.entries[n].rev > 0
<1>1. c.gen \in 1 .. MaxGeneration /\ c.entries \in UNION {[ns -> Hcp!Entry] : ns \in (SUBSET Names) \ {{}}}
  BY DEF Hcp!Catalogs
<1>2. PICK ns \in SUBSET Names : c.entries \in [ns -> Hcp!Entry]
  BY <1>1
<1>3. \A n \in ns : c.entries[n] \in [rev : 1 .. MaxRevision, value : HcpValues]
  BY <1>2 DEF Hcp!Entry
<1>4. \A n \in ns : c.entries[n] \in [rev : Nat, value : HcpValues] /\ c.entries[n].rev \in Nat /\ c.entries[n].rev > 0
  BY <1>3, HcpAssumption DEF Hcp!BoundsAssumption
<1> QED BY <1>1, <1>2, <1>4, HcpAssumption DEF Hcp!BoundsAssumption

\* A ledger file that was never finished says nothing.
LEMMA TornFacts == Hcp!Torn.gen = 0 /\ DOMAIN Hcp!Torn.entries = {} /\ Hcp!Torn \notin Hcp!Catalogs
<1>1. Hcp!Torn.gen = 0 /\ DOMAIN Hcp!Torn.entries = {}
  BY DEF Hcp!Torn
<1> QED BY <1>1, CatalogFacts

\* Every intent follows an unfinished one, and itself.
LEMMA FollowsFacts ==
  ASSUME NEW c \in Hcp!Catalogs \cup {Hcp!Torn}
  PROVE  Hcp!Follows(c, Hcp!Torn) /\ Hcp!Follows(c, c)
<1>1. c.gen \in Nat /\ \A n \in DOMAIN c.entries : c.entries[n].rev \in Nat
  BY CatalogFacts, TornFacts
<1>2. Hcp!Follows(c, c)
  BY <1>1 DEF Hcp!Follows
<1>3. Hcp!Torn.gen = c.gen => Hcp!Torn = c
  BY CatalogFacts, TornFacts
<1>4. Hcp!Follows(c, Hcp!Torn)
  BY <1>1, <1>3, TornFacts DEF Hcp!Follows
<1> QED BY <1>2, <1>4

\* HCP and its directory begin empty.
LEMMA HcpInit ==
  ASSUME Hcp!Init
  PROVE  Hcp!Inv
<1>1. Hcp!RunsOK
  BY DEF Hcp!Init, Hcp!RunsOK
<1>2. Hcp!LedgerOK /\ Hcp!RecordedOK /\ Hcp!TerraformOK
  BY DEF Hcp!Init, Hcp!LedgerOK, Hcp!RecordedOK, Hcp!TerraformOK
<1>3. s8 \in [Names -> [rev : Nat, value : HcpValues \cup {"none"}]] /\ \A n \in Names : s8[n].rev = 0
  BY DEF Hcp!Init
<1>4. Hcp!GivenOK
  BY <1>3 DEF Hcp!Init, Hcp!GivenOK
<1> QED BY <1>1, <1>2, <1>4 DEF Hcp!Inv

\* A step that moves a run, and changes neither the ledger nor what Terraform
\* and HCP have, keeps the rest.
LEMMA HcpQuiet ==
  ASSUME Hcp!Inv, Hcp!RunsOK', UNCHANGED <<s6, s7, s8, s9, s10>>,
         \A q \in Runs : s1'[q] = "run" /\ s3'[q] => s1[q] = "run" /\ s3[q] /\ s2'[q] = s2[q]
  PROVE  Hcp!Inv'
<1>1. Hcp!LedgerOK' /\ Hcp!TerraformOK' /\ Hcp!GivenOK'
  BY DEF Hcp!Inv, Hcp!LedgerOK, Hcp!TerraformOK, Hcp!GivenOK, Hcp!Follows
<1>2. Hcp!RecordedOK'
  BY DEF Hcp!Inv, Hcp!RecordedOK, Hcp!LedgerHolds, Hcp!Follows
<1> QED BY <1>1, <1>2 DEF Hcp!Inv

\* A run that holds the lock moves on with it, or leaves and frees it.
LEMMA HcpMoves ==
  ASSUME Hcp!RunsOK, UNCHANGED <<s2, s3>>, NEW r \in Runs, s1[r] \in {"state", "intent", "run", "wait"},
         \/ \E w \in {"intent", "run", "wait"} : Hcp!Go(r, w) /\ UNCHANGED s4
         \/ \E w \in {"refused", "planned", "applied", "failed", "dead"} : Hcp!Leave(r, w)
  PROVE  Hcp!RunsOK'
<1>1. PICK w \in {"intent", "run", "wait", "refused", "planned", "applied", "failed", "dead"} :
        /\ s1' = [s1 EXCEPT ![r] = w]
        /\ s4' = s4 \/ (s4' = NoRun /\ w \notin {"intent", "run", "wait"})
  BY DEF Hcp!Go, Hcp!Leave
<1>2. s4 = r
  BY DEF Hcp!RunsOK
<1> QED BY <1>1, <1>2, HcpAssumption DEF Hcp!RunsOK, Hcp!NobodyAssumption

\* Every step of a run or of Terraform keeps the invariant, and no variable
\* of HCP goes back to an earlier revision.
LEMMA HcpStepKeeps ==
  ASSUME Hcp!Inv, Hcp!Next
  PROVE  Hcp!Inv' /\ Hcp!RevisionGrows
<1> USE DEF Hcp!Inv
<1>g. s8' = s8 => Hcp!RevisionGrows
  BY DEF Hcp!RevisionGrows, Hcp!GivenOK
<1>1. ASSUME NEW r \in Runs, NEW c \in Hcp!Catalogs, NEW a \in BOOLEAN, Hcp!Start(r, c, a)
      PROVE  Hcp!Inv' /\ Hcp!RevisionGrows
  <2>1. /\ s1[r] = "idle" /\ s1' = [s1 EXCEPT ![r] = "lock"]
        /\ s2' = [s2 EXCEPT ![r] = c] /\ s3' = [s3 EXCEPT ![r] = a]
        /\ UNCHANGED <<s4, s6, s7, s8, s9, s10>>
    BY <1>1 DEF Hcp!Start, Hcp!Go, Hcp!Files
  <2>2. Hcp!RunsOK'
    BY <2>1 DEF Hcp!RunsOK
  <2>3. \A q \in Runs : s1'[q] = "run" /\ s3'[q] => s1[q] = "run" /\ s3[q] /\ s2'[q] = s2[q]
    BY <2>1 DEF Hcp!RunsOK
  <2> QED BY <1>g, <2>1, <2>2, <2>3, HcpQuiet
<1>2. ASSUME NEW r \in Runs, Hcp!VerifyRoot(r)
      PROVE  Hcp!Inv' /\ Hcp!RevisionGrows
  <2>1. /\ s1[r] = "lock" /\ UNCHANGED <<s2, s3, s6, s7, s8, s9, s10>>
        /\ \/ s4 = NoRun /\ s4' = r /\ s1' = [s1 EXCEPT ![r] = "state"]
           \/ s4' = s4 /\ s1' = [s1 EXCEPT ![r] = "refused"]
    BY <1>2 DEF Hcp!VerifyRoot, Hcp!Go, Hcp!Files
  <2>2. Hcp!RunsOK'
    BY <2>1, HcpAssumption DEF Hcp!RunsOK, Hcp!NobodyAssumption
  <2>3. \A q \in Runs : s1'[q] = "run" => s1[q] = "run"
    BY <2>1 DEF Hcp!RunsOK
  <2> QED BY <1>g, <2>1, <2>2, <2>3, HcpQuiet
<1>3. ASSUME NEW r \in Runs, Hcp!VerifyState(r) \/ Hcp!WriteKey(r) \/ Hcp!Kill(r)
      PROVE  Hcp!Inv' /\ Hcp!RevisionGrows
  <2>1. UNCHANGED <<s2, s3, s6, s7, s8, s9, s10>>
    BY <1>3 DEF Hcp!VerifyState, Hcp!WriteKey, Hcp!Kill, Hcp!Files
  <2>2. /\ s1[r] \in {"state", "intent", "run", "wait"}
        /\ \/ Hcp!Go(r, "intent") /\ UNCHANGED s4
           \/ UNCHANGED <<s1, s4>>
           \/ \E w \in {"refused", "dead"} : Hcp!Leave(r, w)
    BY <1>3 DEF Hcp!VerifyState, Hcp!WriteKey, Hcp!Kill
  <2>3. UNCHANGED <<s1, s4>> => Hcp!RunsOK'
    BY <2>1 DEF Hcp!RunsOK
  <2>4. Hcp!RunsOK'
    BY <2>1, <2>2, <2>3, HcpMoves
  <2>5. \A q \in Runs : s1'[q] = "run" => s1[q] = "run"
    BY <2>2 DEF Hcp!RunsOK, Hcp!Go, Hcp!Leave
  <2> QED BY <1>g, <2>1, <2>4, <2>5, HcpQuiet
<1>4. ASSUME NEW r \in Runs, Hcp!RecordIntent(r)
      PROVE  Hcp!Inv' /\ Hcp!RevisionGrows
  <2>1. s1[r] = "intent" /\ UNCHANGED <<s2, s3, s5, s7, s8, s9, s10>>
    BY <1>4 DEF Hcp!RecordIntent
  <2>2. \/ Hcp!Leave(r, "refused") /\ s6' = s6
        \/ Hcp!Go(r, "run") /\ s4' = s4 /\ s6' = s6 /\ ~s3[r]
        \/ Hcp!Go(r, "run") /\ s4' = s4 /\ s6' = s6 \cup {s2[r]} /\ Hcp!LedgerHolds(s2[r])
        \/ Hcp!Leave(r, "dead") /\ s6' = s6 \cup {Hcp!Torn}
    BY <1>4 DEF Hcp!RecordIntent
  <2>3. Hcp!RunsOK'
    BY <2>1, <2>2, HcpMoves
  <2>4. \A q \in Runs : s1[q] # "run" /\ (q # r => s1'[q] # "run")
    <3>1. s4 = r /\ \A q \in Runs : s1[q] = "run" => s4 = q
      BY <2>1 DEF Hcp!RunsOK
    <3>2. \A q \in Runs : q # r => s1'[q] = s1[q]
      BY <2>2 DEF Hcp!RunsOK, Hcp!Go, Hcp!Leave
    <3> QED BY <2>1, <3>1, <3>2
  <2>5. CASE s6' = s6 /\ (s1'[r] # "run" \/ ~s3[r])
    <3>1. \A q \in Runs : ~(s1'[q] = "run" /\ s3'[q])
      BY <2>1, <2>4, <2>5
    <3> QED BY <1>g, <2>1, <2>3, <2>5, <3>1, HcpQuiet
  <2>6. ASSUME NEW c, s6' = s6 \cup {c}, c \in Hcp!Catalogs \cup {Hcp!Torn}, \A p \in s6 : Hcp!Follows(c, p)
        PROVE  Hcp!LedgerOK' /\ Hcp!TerraformOK' /\ Hcp!GivenOK'
    <3>1. Hcp!Follows(c, c)
      BY <2>6, FollowsFacts
    <3>2. \A p, q \in s6' : Hcp!Follows(p, q) \/ Hcp!Follows(q, p)
      BY <2>6, <3>1 DEF Hcp!LedgerOK
    <3>3. Hcp!LedgerOK'
      BY <2>6, <3>2 DEF Hcp!LedgerOK, Hcp!Follows
    <3>4. Hcp!TerraformOK'
      BY <2>1, <2>6 DEF Hcp!TerraformOK
    <3>5. Hcp!GivenOK'
      BY <2>1, <2>6 DEF Hcp!GivenOK
    <3> QED BY <3>3, <3>4, <3>5
  <2>7. CASE Hcp!Go(r, "run") /\ s6' = s6 \cup {s2[r]} /\ Hcp!LedgerHolds(s2[r])
    <3>1. s2[r] \in Hcp!Catalogs
      BY <2>1 DEF Hcp!RunsOK
    <3>2. Hcp!LedgerOK' /\ Hcp!TerraformOK' /\ Hcp!GivenOK'
      BY <2>6, <2>7, <3>1 DEF Hcp!LedgerHolds
    <3>3. \A p \in s6' : Hcp!Follows(s2[r], p)
      BY <2>7, <3>1, FollowsFacts DEF Hcp!LedgerHolds
    <3>4. Hcp!RecordedOK'
      BY <2>1, <2>4, <2>7, <3>3 DEF Hcp!RecordedOK, Hcp!LedgerHolds, Hcp!Follows
    <3> QED BY <1>g, <2>1, <2>3, <3>2, <3>4
  <2>8. CASE Hcp!Leave(r, "dead") /\ s6' = s6 \cup {Hcp!Torn}
    <3>1. \A p \in s6 : Hcp!Follows(p, Hcp!Torn)
      BY FollowsFacts DEF Hcp!LedgerOK
    <3>2. \A p, q \in s6' : Hcp!Follows(p, q) \/ Hcp!Follows(q, p)
      BY <2>8, <3>1, FollowsFacts DEF Hcp!LedgerOK
    <3>3. Hcp!LedgerOK'
      BY <2>8, <3>2 DEF Hcp!LedgerOK, Hcp!Follows, Hcp!Torn
    <3>4. Hcp!TerraformOK' /\ Hcp!GivenOK'
      BY <2>1, <2>8 DEF Hcp!TerraformOK, Hcp!GivenOK
    <3>5. Hcp!RecordedOK'
      BY <2>4, <2>8 DEF Hcp!RecordedOK, Hcp!RunsOK, Hcp!Leave, Hcp!Go
    <3> QED BY <1>g, <2>1, <2>3, <3>3, <3>4, <3>5
  <2>9. Hcp!Leave(r, "refused") => s1'[r] # "run"
    BY DEF Hcp!Leave, Hcp!Go, Hcp!RunsOK
  <2> QED BY <2>2, <2>5, <2>7, <2>8, <2>9
<1>5. ASSUME NEW r \in Runs, Hcp!RunTerraform(r)
      PROVE  Hcp!Inv' /\ Hcp!RevisionGrows
  <2>1. s1[r] = "run" /\ UNCHANGED <<s2, s3, s6, s7, s8, s10>>
    BY <1>5 DEF Hcp!RunTerraform, Hcp!Files
  <2>2. \/ (Hcp!Leave(r, "failed") \/ Hcp!Leave(r, "planned")) /\ s9' = s9
        \/ /\ s9 = {} /\ s3[r] /\ Hcp!Go(r, "wait") /\ s4' = s4
           /\ s9' = {[of |-> r, catalog |-> s2[r], todo |-> Hcp!Due(s2[r]), seen |-> s7]}
    BY <1>5 DEF Hcp!RunTerraform, Hcp!StateLock
  <2>3. Hcp!RunsOK'
    BY <2>1, <2>2, HcpMoves
  <2>4. \A q \in Runs : s1'[q] = "run" => s1[q] = "run"
    BY <2>2 DEF Hcp!RunsOK, Hcp!Leave, Hcp!Go
  <2>5. CASE s9' = s9
    BY <1>g, <2>1, <2>3, <2>4, <2>5, HcpQuiet
  <2>6. CASE s3[r] /\ s9' = {[of |-> r, catalog |-> s2[r], todo |-> Hcp!Due(s2[r]), seen |-> s7]}
    <3>1. s2[r] \in s6 /\ (\A p \in s6 : Hcp!Follows(s2[r], p)) /\ s2[r] \in Hcp!Catalogs
      BY <2>1, <2>6 DEF Hcp!RecordedOK, Hcp!LedgerHolds, Hcp!RunsOK
    <3>2. \A n \in DOMAIN s2[r].entries : s8[n].rev <= s2[r].entries[n].rev
      <4> SUFFICES ASSUME NEW n \in DOMAIN s2[r].entries
                   PROVE  s8[n].rev <= s2[r].entries[n].rev
        OBVIOUS
      <4>1. n \in Names /\ s2[r].entries[n].rev \in Nat /\ s8[n].rev \in Nat
        BY <3>1, CatalogFacts DEF Hcp!GivenOK
      <4>2. CASE s8[n].rev > 0
        <5>1. PICK p \in s6 : n \in DOMAIN p.entries /\ s8[n] = p.entries[n]
          BY <4>1, <4>2 DEF Hcp!GivenOK
        <5>2. s2[r].entries[n].rev >= p.entries[n].rev
          BY <3>1, <5>1 DEF Hcp!Follows
        <5> QED BY <4>1, <5>1, <5>2
      <4> QED BY <4>1, <4>2
    <3>3. Hcp!Due(s2[r]) \subseteq DOMAIN s2[r].entries /\ DOMAIN s2[r].entries \subseteq Names /\ s7 \in [Names -> Nat]
      BY <3>1, CatalogFacts DEF Hcp!Due, Hcp!GivenOK
    <3>4. Hcp!TerraformOK'
      BY <2>1, <2>6, <3>1, <3>2, <3>3 DEF Hcp!TerraformOK
    <3>5. Hcp!LedgerOK' /\ Hcp!GivenOK'
      BY <2>1 DEF Hcp!LedgerOK, Hcp!GivenOK, Hcp!Follows
    <3>6. Hcp!RecordedOK'
      BY <2>1, <2>4 DEF Hcp!RecordedOK, Hcp!LedgerHolds, Hcp!Follows
    <3> QED BY <1>g, <2>1, <2>3, <3>4, <3>5, <3>6
  <2> QED BY <2>2, <2>5, <2>6
<1>6. ASSUME NEW r \in Runs, Hcp!Timeout(r)
      PROVE  Hcp!Inv' /\ Hcp!RevisionGrows
  <2>1. s1[r] = "wait" /\ UNCHANGED <<s2, s3, s6, s7, s8, s10>> /\ s9' \subseteq s9 /\ Hcp!Leave(r, "failed")
    BY <1>6 DEF Hcp!Timeout, Hcp!Files
  <2>2. Hcp!RunsOK'
    BY <2>1, HcpMoves
  <2>3. \A q \in Runs : s1'[q] = "run" => s1[q] = "run"
    BY <2>1 DEF Hcp!RunsOK, Hcp!Leave, Hcp!Go
  <2>4. Hcp!LedgerOK' /\ Hcp!GivenOK'
    BY <2>1 DEF Hcp!LedgerOK, Hcp!GivenOK, Hcp!Follows
  <2>5. Hcp!RecordedOK'
    BY <2>1, <2>3 DEF Hcp!RecordedOK, Hcp!LedgerHolds, Hcp!Follows
  <2>6. Hcp!TerraformOK'
    BY <2>1 DEF Hcp!TerraformOK
  <2> QED BY <1>g, <2>1, <2>2, <2>4, <2>5, <2>6
<1>7. ASSUME NEW t \in s9, Hcp!TerraformEnds(t)
      PROVE  Hcp!Inv' /\ Hcp!RevisionGrows
  <2>1. t \in [of : Runs, catalog : Hcp!Catalogs, todo : SUBSET Names, seen : [Names -> Nat]]
    BY DEF Hcp!TerraformOK
  <2>2. s7' = t.seen /\ s9' = s9 \ {t} /\ UNCHANGED <<s2, s3, s6, s8, s10>>
    BY <1>7 DEF Hcp!TerraformEnds
  <2>3. \/ s1[t.of] = "wait" /\ (Hcp!Leave(t.of, "applied") \/ Hcp!Leave(t.of, "failed"))
        \/ UNCHANGED <<s1, s4>>
    BY <1>7 DEF Hcp!TerraformEnds
  <2>4. UNCHANGED <<s1, s4>> => Hcp!RunsOK'
    BY <2>2 DEF Hcp!RunsOK
  <2>5. Hcp!RunsOK'
    BY <2>1, <2>2, <2>3, <2>4, HcpMoves
  <2>6. \A q \in Runs : s1'[q] = "run" => s1[q] = "run"
    BY <2>1, <2>3 DEF Hcp!RunsOK, Hcp!Leave, Hcp!Go
  <2>7. Hcp!RecordedOK'
    BY <2>2, <2>6 DEF Hcp!RecordedOK, Hcp!LedgerHolds, Hcp!Follows
  <2>8. Hcp!LedgerOK' /\ Hcp!GivenOK' /\ Hcp!TerraformOK'
    BY <2>1, <2>2 DEF Hcp!LedgerOK, Hcp!GivenOK, Hcp!TerraformOK, Hcp!Follows
  <2> QED BY <1>g, <2>2, <2>5, <2>7, <2>8
<1>8. ASSUME NEW t \in s9, NEW n \in Names, Hcp!TerraformWrites(t, n)
      PROVE  Hcp!Inv' /\ Hcp!RevisionGrows
  <2> DEFINE e == t.catalog.entries[n]
  <2>1. /\ t \in [of : Runs, catalog : Hcp!Catalogs, todo : SUBSET Names, seen : [Names -> Nat]]
        /\ s9 = {t} /\ t.catalog \in s6 /\ n \in t.todo /\ t.todo \subseteq DOMAIN t.catalog.entries
    BY <1>8 DEF Hcp!TerraformOK, Hcp!TerraformWrites
  <2>2. n \in DOMAIN t.catalog.entries /\ e \in [rev : Nat, value : HcpValues] /\ e.rev \in Nat
    BY <2>1, CatalogFacts
  <2>3. PICK u : u = [t EXCEPT !.todo = t.todo \ {n}, !.seen = [t.seen EXCEPT ![n] = e.rev]]
    OBVIOUS
  <2>4. /\ s8' = [s8 EXCEPT ![n] = e] /\ s10' = s10 \cup {<<n, e.rev, e.value>>}
        /\ s9' = {u} /\ s7' \in {s7, u.seen} /\ UNCHANGED <<s1, s2, s3, s4, s6>>
    BY <1>8, <2>1, <2>3 DEF Hcp!TerraformWrites
  <2>5. /\ u \in [of : Runs, catalog : Hcp!Catalogs, todo : SUBSET Names, seen : [Names -> Nat]]
        /\ u.catalog = t.catalog /\ u.todo \subseteq t.todo
    BY <2>1, <2>2, <2>3
  <2>6. Hcp!RunsOK' /\ Hcp!LedgerOK' /\ Hcp!RecordedOK'
    BY <2>4 DEF Hcp!RunsOK, Hcp!LedgerOK, Hcp!RecordedOK, Hcp!LedgerHolds, Hcp!Follows
  <2>7. /\ s8 \in [Names -> [rev : Nat, value : HcpValues \cup {"none"}]]
        /\ \A m \in Names : s8'[m] = IF m = n THEN e ELSE s8[m]
        /\ s8' \in [Names -> [rev : Nat, value : HcpValues \cup {"none"}]]
    BY <2>2, <2>4 DEF Hcp!GivenOK
  <2>8. s8[n].rev <= e.rev
    BY <2>1, <2>2 DEF Hcp!TerraformOK
  <2>9. Hcp!RevisionGrows
    <3> SUFFICES ASSUME NEW m \in Names
                 PROVE  s8'[m].rev >= s8[m].rev
      BY DEF Hcp!RevisionGrows
    <3>1. s8[m].rev \in Nat
      BY <2>7
    <3> QED BY <2>2, <2>7, <2>8, <3>1
  <2>10. Hcp!TerraformOK'
    <3>1. \A m \in DOMAIN t.catalog.entries : s8'[m].rev <= t.catalog.entries[m].rev
      BY <2>1, <2>2, <2>7, CatalogFacts DEF Hcp!TerraformOK
    <3> QED BY <2>1, <2>4, <2>5, <3>1 DEF Hcp!TerraformOK
  <2>11. Hcp!GivenOK'
    <3>1. s7' \in [Names -> Nat]
      BY <2>4, <2>5 DEF Hcp!GivenOK
    <3>2. \A m \in Names : s8'[m].rev > 0 => \E p \in s6' : m \in DOMAIN p.entries /\ s8'[m] = p.entries[m]
      BY <2>1, <2>2, <2>4, <2>7 DEF Hcp!GivenOK
    <3>3. \A x \in s10' : \E p \in s6' : \E m \in DOMAIN p.entries : x = <<m, p.entries[m].rev, p.entries[m].value>>
      BY <2>1, <2>2, <2>4 DEF Hcp!GivenOK
    <3> QED BY <2>7, <3>1, <3>2, <3>3 DEF Hcp!GivenOK
  <2> QED BY <2>6, <2>9, <2>10, <2>11
<1> QED BY <1>1, <1>2, <1>3, <1>4, <1>5, <1>6, <1>7, <1>8 DEF Hcp!Next

\* A stuttering step of the slots keeps the invariant.
LEMMA HcpStutter ==
  ASSUME Hcp!Inv, UNCHANGED vars
  PROVE  Hcp!Inv'
BY DEF vars, Hcp!Inv, Hcp!RunsOK, Hcp!LedgerOK, Hcp!RecordedOK, Hcp!TerraformOK, Hcp!GivenOK, Hcp!LedgerHolds, Hcp!Follows

\* The invariant of HCP's directory holds in every behaviour that is about it.
THEOREM HcpInvHolds == Spec => [](part = "hcp" => Hcp!Inv)
<1>1. Init => (part = "hcp" => Hcp!Inv)
  BY HcpInit DEF Init
<1>2. (part = "hcp" => Hcp!Inv) /\ [Next]_vars => (part = "hcp" => Hcp!Inv)'
  BY HcpStepKeeps, HcpStutter DEF Next, JournalStep, HcpStep, FilesStep, vars
<1> QED BY <1>1, <1>2, PTL DEF Spec

\* hcp: however often runs are killed, time out or are repeated with another
\* catalog, HCP is never given two values for one revision of a variable.
THEOREM HcpRevisionsTellValues == Spec => []HcpRevisionTellsValue
<1>1. ASSUME Hcp!Inv, NEW x \in s10, NEW y \in s10, x[1] = y[1], x[2] = y[2]
      PROVE  x = y
  <2>p1. PICK p \in s6 : \E n \in DOMAIN p.entries : x = <<n, p.entries[n].rev, p.entries[n].value>>
    BY <1>1 DEF Hcp!Inv, Hcp!GivenOK
  <2>1. PICK n \in DOMAIN p.entries : x = <<n, p.entries[n].rev, p.entries[n].value>>
    BY <2>p1
  <2>q2. PICK q \in s6 : \E m \in DOMAIN q.entries : y = <<m, q.entries[m].rev, q.entries[m].value>>
    BY <1>1 DEF Hcp!Inv, Hcp!GivenOK
  <2>2. PICK m \in DOMAIN q.entries : y = <<m, q.entries[m].rev, q.entries[m].value>>
    BY <2>q2
  <2>3. n = m /\ p.entries[n].rev = q.entries[n].rev
    BY <1>1, <2>1, <2>2
  <2>4. Hcp!Follows(p, q) \/ Hcp!Follows(q, p)
    BY <1>1 DEF Hcp!Inv, Hcp!LedgerOK
  <2>5. p.entries[n] = q.entries[n]
    BY <2>2, <2>3, <2>4 DEF Hcp!Follows
  <2> QED BY <2>1, <2>2, <2>3, <2>5
<1>2. (part = "hcp" => Hcp!Inv) => HcpRevisionTellsValue
  BY <1>1 DEF HcpRevisionTellsValue, Hcp!HcpRevisionTellsValue
<1> QED BY HcpInvHolds, <1>2, PTL

\* hcp: no variable ever goes back to an earlier revision, not even when a
\* Terraform process outlives the run that started it and another run
\* delivers a newer catalog meanwhile.
THEOREM HcpRevisionsGrow == Spec => [][part = "hcp" => Hcp!RevisionGrows]_vars
<1>1. (part = "hcp" => Hcp!Inv) /\ [Next]_vars => [part = "hcp" => Hcp!RevisionGrows]_vars
  BY HcpStepKeeps DEF Next, JournalStep, HcpStep, FilesStep
<1> QED BY HcpInvHolds, <1>1, PTL DEF Spec

\* hcp, private_io and materialize: no step takes a revision back, and none
\* touches a file that was written completely.
THEOREM NothingIsTakenBack == Spec => NothingTakenBack
<1>1. [part = "hcp" => Hcp!RevisionGrows]_vars /\ [part = "files" => Files!KeepsWhole]_vars
        => [(part = "hcp" => Hcp!RevisionGrows) /\ (part = "files" => Files!KeepsWhole)]_vars
  OBVIOUS
<1> QED BY HcpRevisionsGrow, WholeFilesDoStay, <1>1, PTL DEF NothingTakenBack

-----------------------------------------------------------------------------
(* The journal of deliveries to GitHub                                     *)

\* What the assumptions say of a manifest, the bounds and the operations.
LEMMA ManifestFacts ==
  /\ Len(Secrets) \in Nat /\ Len(Secrets) > 0
  /\ Journal!Places = 1 .. Len(Secrets) /\ Journal!Counts = 0 .. Len(Secrets)
  /\ JournalFaults \in Nat /\ MaxOutside \in Nat
  /\ Journal!Nobody \notin Invocations
  /\ \A i \in Invocations : Operation[i] \in Journal!Operations
  /\ \A o \in Journal!Operations : \E i \in Invocations : o = Operation[i]
<1>1. /\ Secrets \in Seq({Secrets[k] : k \in Journal!Places}) /\ Secrets # <<>>
      /\ JournalFaults \in Nat /\ MaxOutside \in Nat
  BY JournalAssumption DEF Journal!ManifestAssumption, Journal!BoundsAssumption
<1>2. Len(Secrets) \in Nat /\ DOMAIN Secrets = 1 .. Len(Secrets)
  BY <1>1
<1>3. Len(Secrets) # 0
  BY <1>1
<1>4. Journal!Nobody \notin Invocations
  BY JournalAssumption DEF Journal!NobodyAssumption
<1> QED BY <1>1, <1>2, <1>3, <1>4 DEF Journal!Places, Journal!Counts, Journal!Operations

\* The journal's instance has its own names for the notions of FiniteSets.
LEMMA SameCardinality ==
  ASSUME NEW S
  PROVE  (Journal!IsFiniteSet(S) <=> IsFiniteSet(S)) /\ Journal!Cardinality(S) = Cardinality(S)
<1>1. Journal!IsFiniteSet(S) <=> IsFiniteSet(S)
  BY DEF Journal!IsFiniteSet, IsFiniteSet
<1>2. Journal!Cardinality(S) = Cardinality(S)
  BY DEF Journal!Cardinality, Cardinality
<1> QED BY <1>1, <1>2

\* The writes of an operation are finitely many, and a new one counts as one more.
LEMMA WritesFinite ==
  ASSUME Journal!LandedOK, NEW o
  PROVE  /\ IsFiniteSet(s13) /\ Cardinality(s13) \in Nat
         /\ Journal!Cardinality(Journal!WritesOf(o)) \in Nat
         /\ \A w : w \notin s13 =>
              Journal!Cardinality(Journal!WritesOf(o) \cup {w}) = Journal!Cardinality(Journal!WritesOf(o)) + 1
<1>1. Journal!WritesOf(o) \subseteq s13 /\ IsFiniteSet(s13)
  BY SameCardinality DEF Journal!WritesOf, Journal!LandedOK
<1>2. IsFiniteSet(Journal!WritesOf(o))
  BY <1>1, FS_Subset
<1>3. Cardinality(s13) \in Nat /\ Cardinality(Journal!WritesOf(o)) \in Nat
  BY <1>1, <1>2, FS_CardinalityType
<1>4. \A w : w \notin s13 => Cardinality(Journal!WritesOf(o) \cup {w}) = Cardinality(Journal!WritesOf(o)) + 1
  BY <1>1, <1>2, FS_AddElement
<1> QED BY <1>1, <1>3, <1>4, SameCardinality

\* Nothing is at work, written or recorded at first.
LEMMA JournalInit ==
  ASSUME Journal!Init
  PROVE  Journal!Inv
<1>1. Journal!TypeOK
  BY ManifestFacts DEF Journal!Init, Journal!TypeOK, Journal!Expected, Journal!NoResult, Journal!Phases
<1>2. Journal!OneAtWork /\ Journal!OneAttempt
  BY DEF Journal!Init, Journal!OneAtWork, Journal!OneAttempt, Journal!Attempted, Journal!Past
<1>3. Journal!LandedOK
  BY FS_EmptySet, SameCardinality DEF Journal!Init, Journal!LandedOK
<1>4. Journal!CountsOK /\ Journal!ReceiptsOK
  BY DEF Journal!Init, Journal!CountsOK, Journal!Counted, Journal!ReceiptsOK, Journal!Past
<1>5. Journal!OutcomeOK /\ Journal!ApprovedOK /\ Journal!ReplacesApproved
  BY DEF Journal!Init, Journal!OutcomeOK, Journal!ApprovedOK, Journal!Approved, Journal!ReplacesApproved, Journal!NoResult
<1> QED BY <1>1, <1>2, <1>3, <1>4, <1>5 DEF Journal!Inv

\* A step of one invocation that leaves what took effect alone keeps what is
\* known of the others; what is asked of it is about itself.
LEMMA JournalLocal ==
  ASSUME Journal!Inv, Journal!TypeOK', Journal!OneAtWork', Journal!ReceiptsOK',
         NEW i \in Invocations, NEW w, s8' = [s8 EXCEPT ![i] = w], UNCHANGED <<s1, s13, s14>>,
         \A j \in Invocations \ {i} :
           s9'[j] = s9[j] /\ s10'[j] = s10[j] /\ s11'[j] = s11[j] /\ s12'[j] = s12[j],
         \A j \in Invocations, k \in Journal!Places :
           j # i \/ s8[i] \notin Journal!Past => (<<j, k>> \in s2' <=> <<j, k>> \in s2),
         \A v \in s13 : <<v.by, v.place>> \notin s2',
         s4' = s4 \/ (s8[i] = "intent" /\ s4' = s4 \cup {Operation[i]}),
         w \in Journal!Past => s8[i] \in Journal!Past \/ (s8[i] = "intent" /\ Operation[i] \in s4'),
         w \in {"preflight", "intent"} => Operation[i] \notin s4',
         Journal!Counted(i)', Journal!Approved(i)',
         \A o \in Journal!Operations : s7'[o] = s7[o] \/ (o = Operation[i] /\ s8[i] \in Journal!Past /\ w = "ended"),
         s7' # s7 =>
           /\ s7'[Operation[i]].status = "complete" =>
                \A k \in Journal!Places : \E v \in s13 : v.op = Operation[i] /\ v.place = k
           /\ s7'[Operation[i]].status = "stopped" /\ s7'[Operation[i]].phase # "write" =>
                Journal!Cardinality(Journal!WritesOf(Operation[i])) = s7'[Operation[i]].accepted /\ Journal!Settled(i)'
  PROVE  Journal!Inv'
<1> USE DEF Journal!Inv
<1>0. /\ s8 \in [Invocations -> {"new", "locked", "preflight", "intent", "revalidate", "write", "await",
                                 "receipt", "observe", "note", "complete", "stop", "ended"}]
      /\ s13 \subseteq [op : Journal!Operations, by : Invocations, place : Journal!Places,
                        over : [created : Nat, updated : Nat], late : BOOLEAN]
  BY DEF Journal!TypeOK
<1>1. \A j \in Invocations : s8'[j] = IF j = i THEN w ELSE s8[j]
  BY <1>0
<1>2. \A j \in Invocations : j # i => (Journal!Attempted(j)' <=> Journal!Attempted(j))
  <2> SUFFICES ASSUME NEW j \in Invocations, j # i PROVE Journal!Attempted(j)' <=> Journal!Attempted(j)
    OBVIOUS
  <2>1. s8'[j] = s8[j]
    BY <1>1
  <2> QED BY <2>1 DEF Journal!Attempted
<1>3. Journal!Attempted(i)' => Journal!Attempted(i) \/ (s8[i] = "intent" /\ Operation[i] \in s4')
  <2>1. CASE s8'[i] \in Journal!Past
    <3>1. w \in Journal!Past
      BY <1>1, <2>1
    <3> QED BY <3>1 DEF Journal!Attempted
  <2>2. CASE s8'[i] \notin Journal!Past
    BY <2>2 DEF Journal!Attempted
  <2> QED BY <2>1, <2>2
<1>4. Journal!OneAttempt'
  <2>1. ASSUME NEW j \in Invocations, s8'[j] \in {"preflight", "intent"}
        PROVE  Operation[j] \notin s4'
    <3>1. j # i => s8[j] = s8'[j] /\ Operation[j] \notin s4
      BY <1>1, <2>1 DEF Journal!OneAttempt
    <3>2. j # i => s8[i] # "intent"
      BY <2>1, <3>1 DEF Journal!OneAtWork
    <3> QED BY <1>1, <2>1, <3>1, <3>2
  <2>2. ASSUME NEW j \in Invocations, Journal!Attempted(j)'
        PROVE  Operation[j] \in s4'
    BY <1>2, <1>3, <2>2 DEF Journal!OneAttempt
  <2>3. ASSUME NEW j \in Invocations, NEW k \in Invocations, Operation[j] = Operation[k],
               Journal!Attempted(j)', Journal!Attempted(k)'
        PROVE  j = k
    BY <1>2, <1>3, <2>3 DEF Journal!OneAttempt
  <2> QED BY <2>1, <2>2, <2>3 DEF Journal!OneAttempt
<1>5. Journal!LandedOK'
  BY DEF Journal!LandedOK
<1>6. Journal!CountsOK'
  <2>1. ASSUME NEW j \in Invocations, j # i
        PROVE  Journal!Counted(j)'
    <3>1. /\ s8'[j] = s8[j] /\ s9'[j] = s9[j] /\ s10'[j] = s10[j] /\ s11'[j] = s11[j] /\ s12'[j] = s12[j]
          /\ Journal!WritesOf(Operation[j])' = Journal!WritesOf(Operation[j])
          /\ Journal!Settled(j)' <=> Journal!Settled(j)
      BY <1>1, <2>1 DEF Journal!WritesOf, Journal!Settled
    <3>2. Journal!Counted(j) /\ s9[j] \in Journal!Places
      BY DEF Journal!CountsOK, Journal!TypeOK
    <3> QED BY <2>1, <3>1, <3>2 DEF Journal!Counted
  <2> QED BY <2>1 DEF Journal!CountsOK
<1>7. Journal!OutcomeOK'
  <2> SUFFICES ASSUME NEW o \in Journal!Operations, s7'[o].status # "none"
               PROVE  /\ o \in s4' /\ \A j \in Invocations : Operation[j] = o => s8'[j] \notin Journal!Past
                      /\ s7'[o].status = "complete" => \A k \in Journal!Places : \E v \in s13' : v.op = o /\ v.place = k
                      /\ s7'[o].status = "stopped" /\ s7'[o].phase # "write" =>
                           /\ Journal!Cardinality(Journal!WritesOf(o)') = s7'[o].accepted
                           /\ \A j \in Invocations : Operation[j] = o => Journal!Settled(j)'
    BY DEF Journal!OutcomeOK, Journal!WritesOf, Journal!Settled
  <2>w. Journal!WritesOf(o)' = Journal!WritesOf(o)
    BY DEF Journal!WritesOf
  <2>1. CASE s7'[o] = s7[o]
    <3>1. o \in s4 /\ \A j \in Invocations : Operation[j] = o => s8[j] \notin Journal!Past
      BY <2>1 DEF Journal!OutcomeOK
    <3>2. Operation[i] = o => s8[i] # "intent"
      BY <3>1 DEF Journal!OneAttempt
    <3>3. \A j \in Invocations : Operation[j] = o => s8'[j] \notin Journal!Past
      BY <1>1, <3>1, <3>2
    <3>4. \A j \in Invocations : Operation[j] = o => (Journal!Settled(j)' <=> Journal!Settled(j))
      BY <3>1 DEF Journal!Settled
    <3> QED BY <2>1, <2>w, <3>1, <3>3, <3>4 DEF Journal!OutcomeOK
  <2>2. CASE s7'[o] # s7[o]
    <3>1. o = Operation[i] /\ s8[i] \in Journal!Past /\ w = "ended" /\ s7' # s7
      BY <2>2
    <3>2. o \in s4 /\ \A j \in Invocations : Operation[j] = o /\ Journal!Attempted(j) => j = i
      BY <3>1 DEF Journal!OneAttempt, Journal!Attempted
    <3>3. \A j \in Invocations : Operation[j] = o => s8'[j] \notin Journal!Past
      BY <1>1, <3>1, <3>2 DEF Journal!Attempted, Journal!Past
    <3>4. \A j \in Invocations : Operation[j] = o /\ j # i => Journal!Settled(j)'
      BY <3>2 DEF Journal!Attempted, Journal!Settled
    <3> QED BY <2>w, <3>1, <3>2, <3>3, <3>4
  <2> QED BY <2>1, <2>2
<1>8. Journal!ApprovedOK'
  <2>1. ASSUME NEW j \in Invocations, j # i
        PROVE  Journal!Approved(j)'
    <3>1. s8'[j] = s8[j] /\ s9'[j] = s9[j] /\ s9[j] \in Journal!Places /\ Journal!Approved(j)
      BY <1>1, <2>1 DEF Journal!TypeOK, Journal!ApprovedOK
    <3> QED BY <2>1, <3>1 DEF Journal!Approved, Journal!Expected
  <2> QED BY <2>1 DEF Journal!ApprovedOK
<1>9. Journal!ReplacesApproved'
  BY DEF Journal!ReplacesApproved, Journal!Expected
<1> QED BY <1>4, <1>5, <1>6, <1>7, <1>8, <1>9

\* Whoever is at work has the lock: an invocation that goes on keeps it, and
\* one that ends frees its own.
LEMMA JournalLocks ==
  ASSUME Journal!TypeOK, Journal!OneAtWork, NEW i \in Invocations,
         \/ Journal!End(i)
         \/ s8[i] \notin {"new", "ended"} /\ s3' = s3 /\ \E w : Journal!Goto(i, w)
  PROVE  Journal!OneAtWork'
<1>1. s8 \in [Invocations -> {"new", "locked", "preflight", "intent", "revalidate", "write", "await",
                              "receipt", "observe", "note", "complete", "stop", "ended"}]
  BY DEF Journal!TypeOK
<1>2. CASE Journal!End(i)
  BY <1>1, <1>2 DEF Journal!End, Journal!Goto, Journal!OneAtWork
<1>3. CASE s8[i] \notin {"new", "ended"} /\ s3' = s3 /\ \E w : Journal!Goto(i, w)
  BY <1>1, <1>3 DEF Journal!Goto, Journal!OneAtWork
<1> QED BY <1>2, <1>3

\* An invocation that ends without an outcome, with the intent or without.
LEMMA JournalEnds ==
  ASSUME Journal!Inv, NEW i \in Invocations, Journal!End(i),
         UNCHANGED <<s1, s2, s5, s6, s7, s9, s10, s11, s12, s13, s14, s16>>, s15' \in 0 .. JournalFaults,
         s4' = s4 \/ (s8[i] = "intent" /\ s4' = s4 \cup {Operation[i]})
  PROVE  Journal!Inv'
<1>1. s8' = [s8 EXCEPT ![i] = "ended"] /\ s3' = (IF s3 = i THEN Journal!Nobody ELSE s3)
  BY DEF Journal!End, Journal!Goto
<1>2. Journal!TypeOK'
  BY <1>1, ManifestFacts DEF Journal!Inv, Journal!TypeOK
<1>3. Journal!OneAtWork'
  BY JournalLocks DEF Journal!Inv
<1>4. Journal!ReceiptsOK'
  BY DEF Journal!Inv, Journal!ReceiptsOK
<1>5. s8'[i] = "ended"
  BY <1>1 DEF Journal!Inv, Journal!TypeOK
<1>6. Journal!Counted(i)' /\ Journal!Approved(i)'
  BY <1>5 DEF Journal!Counted, Journal!Approved, Journal!Past
<1>7. \A v \in s13 : <<v.by, v.place>> \notin s2'
  BY DEF Journal!Inv, Journal!LandedOK
<1> QED BY <1>1, <1>2, <1>3, <1>4, <1>6, <1>7, JournalLocal DEF Journal!Past

\* An exception inside the try block: unless a write was under way, the
\* counters still tell what was written.
LEMMA JournalRaises ==
  ASSUME Journal!Inv, NEW i \in Invocations, NEW where \in Journal!Phases, Journal!Raise(i, where),
         s8[i] \in Journal!Past,
         UNCHANGED <<s1, s3, s4, s5, s6, s7, s13, s14, s16>>, s15' \in 0 .. JournalFaults,
         s2' = s2 \/ (where = "write" /\ s2' = s2 \ {<<i, s9[i]>>}),
         where # "write" => Journal!Cardinality(Journal!WritesOf(Operation[i])) = s10[i] /\ Journal!Settled(i)
  PROVE  Journal!Inv'
<1>1. s8' = [s8 EXCEPT ![i] = "stop"] /\ s12' = [s12 EXCEPT ![i] = where] /\ UNCHANGED <<s9, s10, s11>>
  BY DEF Journal!Raise, Journal!Goto
<1>2. Journal!TypeOK'
  BY <1>1 DEF Journal!Inv, Journal!TypeOK
<1>3. Journal!OneAtWork'
  BY JournalLocks DEF Journal!Inv, Journal!Past, Journal!Raise
<1>4. Journal!ReceiptsOK'
  BY DEF Journal!Inv, Journal!ReceiptsOK
<1>5. s8'[i] = "stop" /\ s12'[i] = where
  BY <1>1 DEF Journal!Inv, Journal!TypeOK
<1>6. Journal!Approved(i)'
  BY <1>5 DEF Journal!Approved
<1>7. Journal!Counted(i)'
  <2>1. \A k \in 1 .. s10[i] : \E v \in s13 : v.by = i /\ v.place = k
    BY DEF Journal!Inv, Journal!CountsOK, Journal!Counted
  <2>2. where # "write" =>
          Journal!Cardinality(Journal!WritesOf(Operation[i])') = s10'[i] /\ Journal!Settled(i)'
    BY <1>1 DEF Journal!WritesOf, Journal!Settled
  <2> QED BY <1>1, <1>5, <2>1, <2>2 DEF Journal!Counted, Journal!WritesOf, Journal!Settled, Journal!Past
<1>8. \A v \in s13 : <<v.by, v.place>> \notin s2'
  BY DEF Journal!Inv, Journal!LandedOK
<1>9. \A j \in Invocations, k \in Journal!Places :
        j # i \/ s8[i] \notin Journal!Past => (<<j, k>> \in s2' <=> <<j, k>> \in s2)
  OBVIOUS
<1>10. \A j \in Invocations \ {i} : s12'[j] = s12[j]
  BY <1>1 DEF Journal!Inv, Journal!TypeOK
<1> QED BY <1>1, <1>2, <1>3, <1>4, <1>6, <1>7, <1>8, <1>9, <1>10, JournalLocal DEF Journal!Past

\* An invocation that moves on to a place where it has no more than before to
\* show, or has shown it.
LEMMA JournalMoves ==
  ASSUME Journal!Inv, NEW i \in Invocations, NEW w, Journal!Goto(i, w), s8[i] \notin {"new", "ended"},
         w \in {"preflight", "intent", "revalidate", "write", "observe", "note"},
         UNCHANGED <<s1, s2, s3, s6, s7, s9, s10, s11, s12, s13, s14, s16>>, s15' \in 0 .. JournalFaults,
         s4' \subseteq Journal!Operations, s5' \subseteq Journal!Operations \X Journal!Places,
         s4' = s4 \/ (s8[i] = "intent" /\ s4' = s4 \cup {Operation[i]}),
         w \in Journal!Past => s8[i] \in Journal!Past \/ (s8[i] = "intent" /\ Operation[i] \in s4'),
         w \in {"preflight", "intent"} => Operation[i] \notin s4',
         Journal!ReceiptsOK', Journal!Counted(i)', Journal!Approved(i)'
  PROVE  Journal!Inv'
<1>1. s8' = [s8 EXCEPT ![i] = w]
  BY DEF Journal!Goto
<1>2. Journal!TypeOK'
  BY <1>1 DEF Journal!Inv, Journal!TypeOK
<1>3. Journal!OneAtWork'
  BY JournalLocks DEF Journal!Inv
<1>4. \A v \in s13 : <<v.by, v.place>> \notin s2'
  BY DEF Journal!Inv, Journal!LandedOK
<1> QED BY <1>1, <1>2, <1>3, <1>4, JournalLocal

\* Every step of an invocation keeps the invariant.
LEMMA JournalInvocationKeeps ==
  ASSUME Journal!Inv, NEW i \in Invocations, Journal!Step(i) \/ Journal!Unanswered(i) \/ Journal!Die(i)
  PROVE  Journal!Inv'
<1> USE DEF Journal!github, Journal!journal, Journal!local
<1>0. /\ s8 \in [Invocations -> {"new", "locked", "preflight", "intent", "revalidate", "write", "await",
                                 "receipt", "observe", "note", "complete", "stop", "ended"}]
      /\ s9[i] \in Journal!Places /\ s10[i] \in Journal!Counts /\ s11[i] \in Journal!Counts
      /\ s12[i] \in Journal!Phases /\ s15 \in 0 .. JournalFaults /\ Operation[i] \in Journal!Operations
      /\ s4 \subseteq Journal!Operations /\ s5 \subseteq Journal!Operations \X Journal!Places
      /\ s13 \subseteq [op : Journal!Operations, by : Invocations, place : Journal!Places,
                        over : [created : Nat, updated : Nat], late : BOOLEAN]
  BY ManifestFacts DEF Journal!Inv, Journal!TypeOK
<1>c. Journal!Counted(i) /\ Journal!Approved(i)
  BY DEF Journal!Inv, Journal!CountsOK, Journal!ApprovedOK
<1>f. /\ Journal!Fault => s15' \in 0 .. JournalFaults
      /\ s15' = s15 => s15' \in 0 .. JournalFaults
  BY <1>0, ManifestFacts DEF Journal!Fault
<1>r. s5' = s5 /\ s13' = s13 => Journal!ReceiptsOK'
  BY DEF Journal!Inv, Journal!ReceiptsOK
<1>w. s13' = s13 => Journal!WritesOf(Operation[i])' = Journal!WritesOf(Operation[i])
  BY DEF Journal!WritesOf
<1>1. CASE Journal!Lock(i)
  <2>1. CASE s3 = Journal!Nobody
    <3>1. /\ s3' = i /\ s8' = [s8 EXCEPT ![i] = "locked"] /\ s8[i] = "new"
          /\ UNCHANGED <<s1, s2, s4, s5, s6, s7, s9, s10, s11, s12, s13, s14, s15, s16>>
      BY <1>1, <2>1 DEF Journal!Lock, Journal!Goto
    <3>2. Journal!TypeOK'
      BY <3>1 DEF Journal!Inv, Journal!TypeOK
    <3>3. Journal!OneAtWork'
      BY <1>0, <2>1, <3>1, ManifestFacts DEF Journal!Inv, Journal!OneAtWork
    <3>4. s8'[i] = "locked"
      BY <1>0, <3>1
    <3>5. Journal!Counted(i)' /\ Journal!Approved(i)'
      BY <1>c, <3>1, <3>4 DEF Journal!Counted, Journal!Approved, Journal!Past
    <3>6. \A v \in s13 : <<v.by, v.place>> \notin s2'
      BY <3>1 DEF Journal!Inv, Journal!LandedOK
    <3> QED BY <1>r, <3>1, <3>2, <3>3, <3>5, <3>6, JournalLocal DEF Journal!Past
  <2>2. CASE s3 # Journal!Nobody
    <3>1. Journal!End(i) /\ UNCHANGED <<s1, s2, s4, s5, s6, s7, s9, s10, s11, s12, s13, s14, s15, s16>>
      BY <1>1, <2>2 DEF Journal!Lock
    <3> QED BY <1>f, <3>1, JournalEnds
  <2> QED BY <2>1, <2>2
<1>2. CASE Journal!CheckIntent(i)
  <2>1. /\ s8[i] = "locked"
        /\ \/ Journal!End(i)
           \/ Journal!Goto(i, "preflight") /\ s3' = s3 /\ Operation[i] \notin s4
        /\ UNCHANGED <<s1, s2, s4, s5, s6, s7, s9, s10, s11, s12, s13, s14, s15, s16>>
    BY <1>2 DEF Journal!CheckIntent
  <2>2. CASE Journal!End(i)
    BY <1>f, <2>1, <2>2, JournalEnds
  <2>3. CASE Journal!Goto(i, "preflight") /\ s3' = s3 /\ Operation[i] \notin s4
    <3>1. s8'[i] = "preflight"
      BY <1>0, <2>3 DEF Journal!Goto
    <3>2. Journal!Counted(i)' /\ Journal!Approved(i)'
      BY <1>c, <2>1, <3>1 DEF Journal!Counted, Journal!Approved, Journal!Past
    <3> QED BY <1>0, <1>f, <1>r, <2>1, <2>3, <3>2, JournalMoves DEF Journal!Past
  <2> QED BY <2>1, <2>2, <2>3
<1>3. CASE Journal!Preflight(i)
  <2>1. /\ s8[i] = "preflight" /\ s15' \in 0 .. JournalFaults
        /\ \/ Journal!End(i)
           \/ Journal!Goto(i, "intent") /\ s3' = s3
        /\ UNCHANGED <<s1, s2, s4, s5, s6, s7, s9, s10, s11, s12, s13, s14, s16>>
    BY <1>3, <1>f DEF Journal!Preflight, Journal!Refused
  <2>2. CASE Journal!End(i)
    BY <2>1, <2>2, JournalEnds
  <2>3. CASE Journal!Goto(i, "intent") /\ s3' = s3
    <3>1. s8'[i] = "intent"
      BY <1>0, <2>3 DEF Journal!Goto
    <3>2. Journal!Counted(i)' /\ Journal!Approved(i)'
      BY <1>c, <2>1, <3>1 DEF Journal!Counted, Journal!Approved, Journal!Past
    <3>3. Operation[i] \notin s4
      BY <2>1 DEF Journal!Inv, Journal!OneAttempt
    <3> QED BY <1>0, <1>r, <2>1, <2>3, <3>2, <3>3, JournalMoves DEF Journal!Past
  <2> QED BY <2>1, <2>2, <2>3
<1>4. CASE Journal!RecordIntent(i)
  <2>1. /\ s8[i] = "intent" /\ s15' \in 0 .. JournalFaults
        /\ \/ Journal!End(i) /\ s4' \in {s4, s4 \cup {Operation[i]}}
           \/ Journal!Goto(i, "revalidate") /\ s3' = s3 /\ s4' = s4 \cup {Operation[i]}
        /\ UNCHANGED <<s1, s2, s5, s6, s7, s9, s10, s11, s12, s13, s14, s16>>
    BY <1>4, <1>f DEF Journal!RecordIntent
  <2>2. CASE Journal!End(i) /\ s4' \in {s4, s4 \cup {Operation[i]}}
    BY <2>1, <2>2, JournalEnds
  <2>3. CASE Journal!Goto(i, "revalidate") /\ s3' = s3 /\ s4' = s4 \cup {Operation[i]}
    <3>1. s8'[i] = "revalidate"
      BY <1>0, <2>3 DEF Journal!Goto
    <3>2. \A j \in Invocations : Operation[j] = Operation[i] => ~Journal!Attempted(j)
      BY <2>1 DEF Journal!Inv, Journal!OneAttempt
    <3>3. Journal!WritesOf(Operation[i]) = {} /\ Journal!Settled(i) /\ \A v \in s13 : v.by # i
      BY <1>0, <3>2 DEF Journal!Inv, Journal!LandedOK, Journal!WritesOf, Journal!Settled, Journal!Attempted
    <3>4. Journal!Cardinality(Journal!WritesOf(Operation[i])) = 0
      BY <3>3, SameCardinality, FS_EmptySet
    <3>5. s9[i] = 1 /\ s10[i] = 0 /\ s11[i] = 0
      BY <1>c, <2>1 DEF Journal!Counted
    <3>6. s9'[i] = 1 /\ s10'[i] = 0 /\ s11'[i] = 0 /\ Journal!Settled(i)' /\ \A v \in s13' : v.by # i
      BY <2>1, <3>3, <3>5 DEF Journal!Settled
    <3>c. Journal!Cardinality(Journal!WritesOf(Operation[i])') = 0
      BY <1>w, <2>1, <3>4
    <3>e. \A k \in 1 .. 0 : FALSE
      OBVIOUS
    <3>7. Journal!Counted(i)'
      BY <3>1, <3>6, <3>c, <3>e DEF Journal!Counted
    <3>8. Journal!Approved(i)'
      BY <3>1 DEF Journal!Approved
    <3> QED BY <1>0, <1>r, <2>1, <2>3, <3>7, <3>8, JournalMoves DEF Journal!Past
  <2> QED BY <2>1, <2>2, <2>3
<1>5. CASE Journal!Revalidate(i)
  <2>1. /\ s8[i] = "revalidate" /\ s15' \in 0 .. JournalFaults
        /\ \/ Journal!Raise(i, "revalidation")
           \/ Journal!Goto(i, "write") /\ s1[s9[i]] = Journal!Expected /\ UNCHANGED <<s9, s10, s11, s12>>
        /\ UNCHANGED <<s1, s2, s3, s4, s5, s6, s7, s13, s14, s16>>
    BY <1>5, <1>f DEF Journal!Revalidate, Journal!Refused
  <2>2. CASE Journal!Raise(i, "revalidation")
    <3>1. Journal!Cardinality(Journal!WritesOf(Operation[i])) = s10[i] /\ Journal!Settled(i)
      BY <1>c, <2>1 DEF Journal!Counted
    <3> QED BY <2>1, <2>2, <3>1, JournalRaises DEF Journal!Past, Journal!Phases
  <2>3. CASE Journal!Goto(i, "write") /\ s1[s9[i]] = Journal!Expected /\ UNCHANGED <<s9, s10, s11, s12>>
    <3>1. s8'[i] = "write"
      BY <1>0, <2>3 DEF Journal!Goto
    <3>2. Journal!Counted(i)'
      BY <1>c, <1>w, <2>1, <2>3, <3>1 DEF Journal!Counted, Journal!Settled, Journal!Past
    <3>3. Journal!Approved(i)'
      BY <2>1, <2>3 DEF Journal!Approved, Journal!Expected
    <3> QED BY <1>0, <1>r, <2>1, <2>3, <3>2, <3>3, JournalMoves DEF Journal!Past
  <2> QED BY <2>1, <2>2, <2>3
<1>6. CASE Journal!Send(i)
  <2>1. /\ s8[i] = "write" /\ s8' = [s8 EXCEPT ![i] = "await"] /\ s2' = s2 \cup {<<i, s9[i]>>}
        /\ UNCHANGED <<s1, s3, s4, s5, s6, s7, s9, s10, s11, s12, s13, s14, s15, s16>>
    BY <1>6 DEF Journal!Send, Journal!Goto
  <2>2. Journal!TypeOK'
    BY <1>0, <2>1 DEF Journal!Inv, Journal!TypeOK
  <2>3. Journal!OneAtWork'
    BY <2>1, JournalLocks DEF Journal!Inv, Journal!Goto
  <2>4. s8'[i] = "await"
    BY <1>0, <2>1
  <2>5. \A v \in s13 : v.by = i => v.place < s9[i] /\ v.place \in Nat /\ s9[i] \in Nat
    BY <1>0, <1>c, <2>1, ManifestFacts DEF Journal!Counted
  <2>6. \A v \in s13 : <<v.by, v.place>> \notin s2'
    <3>1. \A v \in s13 : v.by # i \/ v.place # s9[i]
      BY <2>5
    <3> QED BY <2>1, <3>1 DEF Journal!Inv, Journal!LandedOK
  <2>7. /\ s10[i] = s9[i] - 1 /\ s11[i] = s9[i] - 1 /\ Journal!Cardinality(Journal!WritesOf(Operation[i])) = s9[i] - 1
        /\ \A k \in Journal!Places : <<i, k>> \notin s2
        /\ \A k \in 1 .. s10[i] : \E v \in s13 : v.by = i /\ v.place = k
    BY <1>c, <2>1 DEF Journal!Counted, Journal!Settled, Journal!Past
  <2>8. Journal!Counted(i)'
    BY <1>w, <2>1, <2>4, <2>5, <2>7 DEF Journal!Counted, Journal!Past
  <2>9. Journal!Approved(i)'
    BY <1>c, <2>1 DEF Journal!Approved, Journal!Expected
  <2>10. \A j \in Invocations, k \in Journal!Places :
          j # i \/ s8[i] \notin Journal!Past => (<<j, k>> \in s2' <=> <<j, k>> \in s2)
    BY <2>1 DEF Journal!Past
  <2> QED BY <1>r, <2>1, <2>2, <2>3, <2>6, <2>8, <2>9, <2>10, JournalLocal DEF Journal!Past
<1>7. CASE Journal!Answered(i)
  <2>1. PICK v \in s13 : /\ s8[i] = "await" /\ v.by = i /\ v.place = s9[i]
                         /\ \/ /\ s10' = [s10 EXCEPT ![i] = s10[i] + 1] /\ Journal!Goto(i, "receipt")
                               /\ UNCHANGED <<s9, s11, s12>>
                            \/ Journal!Raise(i, "write")
                         /\ UNCHANGED <<s1, s2, s3, s4, s5, s6, s7, s13, s14, s15, s16>>
    BY <1>7 DEF Journal!Answered
  <2>2. CASE Journal!Raise(i, "write")
    BY <1>f, <2>1, <2>2, JournalRaises DEF Journal!Past, Journal!Phases
  <2>3. CASE s10' = [s10 EXCEPT ![i] = s10[i] + 1] /\ Journal!Goto(i, "receipt") /\ UNCHANGED <<s9, s11, s12>>
    <3>1. s8' = [s8 EXCEPT ![i] = "receipt"] /\ s8'[i] = "receipt"
      BY <1>0, <2>3 DEF Journal!Goto
    <3>2. <<i, s9[i]>> \notin s2
      BY <2>1 DEF Journal!Inv, Journal!LandedOK
    <3>3. /\ s10[i] = s9[i] - 1 /\ s11[i] = s9[i] - 1 /\ Journal!Cardinality(Journal!WritesOf(Operation[i])) = s9[i]
          /\ \A k \in Journal!Places : <<i, k>> \notin s2
          /\ \A k \in 1 .. s10[i] : \E u \in s13 : u.by = i /\ u.place = k
          /\ \A u \in s13 : u.by = i => u.place <= s9[i]
      BY <1>c, <2>1, <3>2 DEF Journal!Counted, Journal!Past
    <3>4. s10'[i] = s9[i] /\ \A j \in Invocations \ {i} : s10'[j] = s10[j]
      BY <1>0, <2>3, <3>3, ManifestFacts DEF Journal!Inv, Journal!TypeOK
    <3>5. \A k \in 1 .. s9[i] : \E u \in s13 : u.by = i /\ u.place = k
      <4>1. s9[i] \in Nat
        BY <1>0, ManifestFacts
      <4>2. v \in s13 /\ v.by = i /\ v.place = s9[i]
        BY <2>1
      <4> SUFFICES ASSUME NEW k \in 1 .. s9[i] PROVE \E u \in s13 : u.by = i /\ u.place = k
        OBVIOUS
      <4>3. k = s9[i] \/ k \in 1 .. s10[i]
        <5>1. s10[i] = s9[i] - 1
          BY <3>3
        <5> QED BY <4>1, <5>1
      <4>4. CASE k = s9[i]
        BY <4>2, <4>4
      <4>5. CASE k \in 1 .. s10[i]
        BY <3>3, <4>5
      <4> QED BY <4>3, <4>4, <4>5
    <3>6. Journal!TypeOK'
      <4>1. s10' \in [Invocations -> Journal!Counts]
        <5>1. s10[i] + 1 \in Journal!Counts
          BY <1>0, <3>3, ManifestFacts
        <5>2. s10 \in [Invocations -> Journal!Counts]
          BY DEF Journal!Inv, Journal!TypeOK
        <5> QED BY <2>3, <5>1, <5>2
      <4> QED BY <2>1, <2>3, <3>1, <4>1 DEF Journal!Inv, Journal!TypeOK
    <3>7. Journal!OneAtWork'
      BY <2>1, <2>3, JournalLocks DEF Journal!Inv
    <3>8. Journal!Counted(i)' /\ Journal!Approved(i)'
      BY <1>w, <2>1, <2>3, <3>1, <3>3, <3>4, <3>5 DEF Journal!Counted, Journal!Approved, Journal!Settled, Journal!Past
    <3>9. \A u \in s13 : <<u.by, u.place>> \notin s2'
      BY <2>1 DEF Journal!Inv, Journal!LandedOK
    <3> QED BY <1>r, <2>1, <2>3, <3>1, <3>4, <3>6, <3>7, <3>8, <3>9, JournalLocal DEF Journal!Past
  <2> QED BY <2>1, <2>2, <2>3
<1>8. CASE Journal!Unanswered(i)
  <2>1. /\ s8[i] = "await" /\ Journal!Raise(i, "write") /\ s15' \in 0 .. JournalFaults
        /\ s2' = s2 \/ s2' = s2 \ {<<i, s9[i]>>}
        /\ UNCHANGED <<s1, s3, s4, s5, s6, s7, s13, s14, s16>>
    BY <1>8, <1>f DEF Journal!Unanswered
  <2> QED BY <2>1, JournalRaises DEF Journal!Past, Journal!Phases
<1>9. CASE Journal!RecordAccepted(i)
  <2>1. /\ s8[i] = "receipt" /\ s15' \in 0 .. JournalFaults
        /\ \/ Journal!Raise(i, "receipt") /\ s5' = s5
           \/ Journal!Goto(i, "observe") /\ s5' = s5 \cup {<<Operation[i], s9[i]>>} /\ UNCHANGED <<s9, s10, s11, s12>>
        /\ UNCHANGED <<s1, s2, s3, s4, s6, s7, s13, s14, s16>>
    BY <1>9, <1>f DEF Journal!RecordAccepted
  <2>2. CASE Journal!Raise(i, "receipt") /\ s5' = s5
    <3>1. Journal!Cardinality(Journal!WritesOf(Operation[i])) = s10[i] /\ Journal!Settled(i)
      BY <1>c, <2>1 DEF Journal!Counted
    <3> QED BY <2>1, <2>2, <3>1, JournalRaises DEF Journal!Past, Journal!Phases
  <2>3. CASE Journal!Goto(i, "observe") /\ s5' = s5 \cup {<<Operation[i], s9[i]>>} /\ UNCHANGED <<s9, s10, s11, s12>>
    <3>1. s8'[i] = "observe"
      BY <1>0, <2>3 DEF Journal!Goto
    <3>2. s9[i] \in 1 .. s10[i] /\ \A k \in 1 .. s10[i] : \E v \in s13 : v.by = i /\ v.place = k
      BY <1>0, <1>c, <2>1, ManifestFacts DEF Journal!Counted, Journal!Past
    <3>3. \E v \in s13 : v.op = Operation[i] /\ v.place = s9[i]
      BY <3>2 DEF Journal!Inv, Journal!LandedOK
    <3>4. Journal!ReceiptsOK'
      BY <2>1, <2>3, <3>3 DEF Journal!Inv, Journal!ReceiptsOK
    <3>5. Journal!Counted(i)' /\ Journal!Approved(i)'
      BY <1>c, <1>w, <2>1, <2>3, <3>1 DEF Journal!Counted, Journal!Approved, Journal!Settled, Journal!Past
    <3> QED BY <1>0, <2>1, <2>3, <3>4, <3>5, JournalMoves DEF Journal!Past
  <2> QED BY <2>1, <2>2, <2>3
<1>10. CASE Journal!Observe(i)
  <2>1. /\ s8[i] = "observe" /\ s15' \in 0 .. JournalFaults
        /\ \/ Journal!Raise(i, "observation")
           \/ Journal!Goto(i, "note") /\ UNCHANGED <<s9, s10, s11, s12>>
        /\ UNCHANGED <<s1, s2, s3, s4, s5, s6, s7, s13, s14, s16>>
    BY <1>10, <1>f DEF Journal!Observe
  <2>2. CASE Journal!Raise(i, "observation")
    <3>1. Journal!Cardinality(Journal!WritesOf(Operation[i])) = s10[i] /\ Journal!Settled(i)
      BY <1>c, <2>1 DEF Journal!Counted
    <3> QED BY <2>1, <2>2, <3>1, JournalRaises DEF Journal!Past, Journal!Phases
  <2>3. CASE Journal!Goto(i, "note") /\ UNCHANGED <<s9, s10, s11, s12>>
    <3>1. s8'[i] = "note"
      BY <1>0, <2>3 DEF Journal!Goto
    <3>2. Journal!Counted(i)' /\ Journal!Approved(i)'
      BY <1>c, <1>w, <2>1, <2>3, <3>1 DEF Journal!Counted, Journal!Approved, Journal!Settled, Journal!Past
    <3> QED BY <1>0, <1>r, <2>1, <2>3, <3>2, JournalMoves DEF Journal!Past
  <2> QED BY <2>1, <2>2, <2>3
<1>11. CASE Journal!RecordObserved(i)
  <2>1. /\ s8[i] = "note" /\ s15' \in 0 .. JournalFaults
        /\ \/ Journal!Raise(i, "observation") /\ s6' = s6
           \/ /\ s6' = s6 \cup {<<Operation[i], s9[i]>>} /\ s11' = [s11 EXCEPT ![i] = s11[i] + 1]
              /\ \/ /\ s9[i] < Len(Secrets) /\ s9' = [s9 EXCEPT ![i] = s9[i] + 1]
                    /\ s8' = [s8 EXCEPT ![i] = "revalidate"]
                 \/ ~(s9[i] < Len(Secrets)) /\ s9' = s9 /\ s8' = [s8 EXCEPT ![i] = "complete"]
              /\ UNCHANGED <<s10, s12>>
        /\ UNCHANGED <<s1, s2, s3, s4, s5, s7, s13, s14, s16>>
    BY <1>11, <1>f DEF Journal!RecordObserved, Journal!More, Journal!Goto
  <2>2. CASE Journal!Raise(i, "observation") /\ s6' = s6
    <3>1. Journal!Cardinality(Journal!WritesOf(Operation[i])) = s10[i] /\ Journal!Settled(i)
      BY <1>c, <2>1 DEF Journal!Counted
    <3> QED BY <2>1, <2>2, <3>1, JournalRaises DEF Journal!Past, Journal!Phases
  <2>3. ASSUME NEW w \in {"revalidate", "complete"}, s8' = [s8 EXCEPT ![i] = w],
               s6' = s6 \cup {<<Operation[i], s9[i]>>}, s11' = [s11 EXCEPT ![i] = s11[i] + 1], UNCHANGED <<s10, s12>>,
               \/ w = "revalidate" /\ s9[i] < Len(Secrets) /\ s9' = [s9 EXCEPT ![i] = s9[i] + 1]
               \/ w = "complete" /\ ~(s9[i] < Len(Secrets)) /\ s9' = s9
        PROVE  Journal!Inv'
    <3>1. /\ s9 \in [Invocations -> Journal!Places] /\ s11 \in [Invocations -> Journal!Counts]
          /\ s9[i] \in Nat /\ s9[i] > 0 /\ s9[i] <= Len(Secrets) /\ s10[i] = s9[i] /\ s11[i] = s9[i] - 1
          /\ Journal!Cardinality(Journal!WritesOf(Operation[i])) = s9[i]
          /\ \A k \in 1 .. s9[i] : \E v \in s13 : v.by = i /\ v.place = k
          /\ \A v \in s13 : v.by = i => v.place <= s9[i] /\ v.place \in Nat
          /\ \A k \in Journal!Places : <<i, k>> \notin s2
      <4>1. s9 \in [Invocations -> Journal!Places] /\ s11 \in [Invocations -> Journal!Counts]
        BY DEF Journal!Inv, Journal!TypeOK
      <4>2. s9[i] \in Nat /\ s9[i] > 0 /\ s9[i] <= Len(Secrets)
        BY <1>0, ManifestFacts
      <4>3. /\ s10[i] = s9[i] /\ s11[i] = s9[i] - 1 /\ Journal!Cardinality(Journal!WritesOf(Operation[i])) = s9[i]
            /\ Journal!Settled(i) /\ \A v \in s13 : v.by = i => v.place <= s9[i]
            /\ \A k \in 1 .. s10[i] : \E v \in s13 : v.by = i /\ v.place = k
        BY <1>c, <2>1 DEF Journal!Counted, Journal!Past
      <4>4. \A v \in s13 : v.place \in Nat
        BY <1>0, ManifestFacts
      <4> QED BY <4>1, <4>2, <4>3, <4>4 DEF Journal!Settled
    <3>2. /\ s8'[i] = w /\ s11'[i] = s9[i] /\ s9'[i] = (IF w = "revalidate" THEN s9[i] + 1 ELSE s9[i])
          /\ \A j \in Invocations \ {i} : s9'[j] = s9[j] /\ s11'[j] = s11[j]
      <4>1. s8'[i] = w
        BY <1>0, <2>3
      <4>2. s11'[i] = s9[i] /\ \A j \in Invocations \ {i} : s11'[j] = s11[j]
        <5>1. s11'[i] = s11[i] + 1 /\ \A j \in Invocations \ {i} : s11'[j] = s11[j]
          BY <2>3, <3>1
        <5>2. s11[i] + 1 = s9[i]
          BY <3>1
        <5> QED BY <5>1, <5>2
      <4>3. s9'[i] = (IF w = "revalidate" THEN s9[i] + 1 ELSE s9[i]) /\ \A j \in Invocations \ {i} : s9'[j] = s9[j]
        <5>1. CASE w = "revalidate"
          <6>1. s9' = [s9 EXCEPT ![i] = s9[i] + 1]
            BY <2>3, <5>1
          <6> QED BY <3>1, <5>1, <6>1
        <5>2. CASE w = "complete"
          <6>1. s9' = s9
            BY <2>3, <5>2
          <6> QED BY <5>2, <6>1
        <5> QED BY <5>1, <5>2
      <4> QED BY <4>1, <4>2, <4>3
    <3>3. s9' \in [Invocations -> Journal!Places] /\ s11' \in [Invocations -> Journal!Counts]
      <4>1. s11[i] + 1 \in Journal!Counts /\ (s9[i] < Len(Secrets) => s9[i] + 1 \in Journal!Places)
        BY <3>1, ManifestFacts
      <4>2. s11' \in [Invocations -> Journal!Counts]
        BY <2>3, <3>1, <4>1
      <4>3. s9' \in [Invocations -> Journal!Places]
        BY <2>3, <3>1, <4>1
      <4> QED BY <4>2, <4>3
    <3>4. Journal!TypeOK'
      <4>1. s8' \in [Invocations -> {"new", "locked", "preflight", "intent", "revalidate", "write", "await",
                                     "receipt", "observe", "note", "complete", "stop", "ended"}]
        BY <1>0, <2>3
      <4>2. s6' \subseteq Journal!Operations \X Journal!Places
        <5>1. s6 \subseteq Journal!Operations \X Journal!Places
          BY DEF Journal!Inv, Journal!TypeOK
        <5>2. Operation[i] \in Journal!Operations
          BY ManifestFacts
        <5>3. s9[i] \in Journal!Places
          BY <3>1
        <5> QED BY <2>3, <5>1, <5>2, <5>3
      <4> QED BY <2>1, <2>3, <3>3, <4>1, <4>2 DEF Journal!Inv, Journal!TypeOK
    <3>5. Journal!OneAtWork'
      BY <2>1, <2>3, JournalLocks DEF Journal!Inv, Journal!Goto
    <3>6. \A v \in s13 : v.by = i => v.place < s9[i] + 1
      BY <3>1
    <3>7. w = "complete" => s9[i] = Len(Secrets)
      BY <2>3, <3>1, ManifestFacts
    <3>8. Journal!Counted(i)' /\ Journal!Approved(i)'
      BY <1>w, <2>1, <2>3, <3>1, <3>2, <3>6, <3>7 DEF Journal!Counted, Journal!Approved, Journal!Settled, Journal!Past
    <3>9. \A v \in s13 : <<v.by, v.place>> \notin s2'
      BY <2>1 DEF Journal!Inv, Journal!LandedOK
    <3> QED BY <1>r, <2>1, <2>3, <3>2, <3>4, <3>5, <3>8, <3>9, JournalLocal DEF Journal!Past
  <2> QED BY <2>1, <2>2, <2>3
<1>12. ASSUME NEW outcome \in [status : {"complete", "stopped"}, phase : Journal!Phases, accepted : Journal!Counts],
              s8[i] \in {"complete", "stop"}, Journal!End(i),
              s7' = s7 \/ s7' = [s7 EXCEPT ![Operation[i]] = outcome], s15' \in 0 .. JournalFaults,
              UNCHANGED <<s1, s2, s4, s5, s6, s9, s10, s11, s12, s13, s14, s16>>,
              outcome.status = "complete" => s8[i] = "complete",
              outcome.status = "stopped" => s8[i] = "stop" /\ outcome.phase = s12[i] /\ outcome.accepted = s10[i]
       PROVE  Journal!Inv'
  <2>1. s8' = [s8 EXCEPT ![i] = "ended"] /\ s3' = (IF s3 = i THEN Journal!Nobody ELSE s3) /\ s8'[i] = "ended"
    BY <1>0, <1>12 DEF Journal!End, Journal!Goto
  <2>2. /\ s7 \in [Journal!Operations -> [status : {"none", "complete", "stopped"}, phase : Journal!Phases, accepted : Journal!Counts]]
        /\ s7' \in [Journal!Operations -> [status : {"none", "complete", "stopped"}, phase : Journal!Phases, accepted : Journal!Counts]]
    BY <1>0, <1>12 DEF Journal!Inv, Journal!TypeOK
  <2>3. Journal!TypeOK'
    BY <1>12, <2>1, <2>2, ManifestFacts DEF Journal!Inv, Journal!TypeOK
  <2>4. Journal!OneAtWork'
    BY <1>12, JournalLocks DEF Journal!Inv
  <2>5. Journal!Counted(i)' /\ Journal!Approved(i)'
    BY <2>1 DEF Journal!Counted, Journal!Approved, Journal!Past
  <2>6. \A v \in s13 : <<v.by, v.place>> \notin s2'
    BY <1>12 DEF Journal!Inv, Journal!LandedOK
  <2>7. \A o \in Journal!Operations : s7'[o] = s7[o] \/ o = Operation[i]
    BY <1>12, <2>2
  <2>8. s7' # s7 => s7'[Operation[i]] = outcome
    BY <1>0, <1>12, <2>2
  <2>9. s8[i] = "complete" => \A k \in Journal!Places : \E v \in s13 : v.op = Operation[i] /\ v.place = k
    <3>1. s8[i] = "complete" => \A k \in Journal!Places : \E v \in s13 : v.by = i /\ v.place = k
      BY <1>c, ManifestFacts DEF Journal!Counted, Journal!Past
    <3> QED BY <3>1 DEF Journal!Inv, Journal!LandedOK
  <2>10. s8[i] = "stop" /\ s12[i] # "write" =>
           Journal!Cardinality(Journal!WritesOf(Operation[i])) = s10[i] /\ Journal!Settled(i)'
    BY <1>c, <1>12 DEF Journal!Counted, Journal!Settled
  <2>11. s7' # s7 =>
           /\ s7'[Operation[i]].status = "complete" =>
                \A k \in Journal!Places : \E v \in s13 : v.op = Operation[i] /\ v.place = k
           /\ s7'[Operation[i]].status = "stopped" /\ s7'[Operation[i]].phase # "write" =>
                Journal!Cardinality(Journal!WritesOf(Operation[i])) = s7'[Operation[i]].accepted /\ Journal!Settled(i)'
    BY <1>12, <2>8, <2>9, <2>10
  <2> QED BY <1>r, <1>12, <2>1, <2>3, <2>4, <2>5, <2>6, <2>7, <2>11, JournalLocal DEF Journal!Past
<1>13. CASE Journal!RecordComplete(i)
  <2>1. /\ s8[i] = "complete" /\ s15' \in 0 .. JournalFaults
        /\ \/ Journal!Raise(i, "observation") /\ UNCHANGED <<s7, s3>>
           \/ /\ s7' = [s7 EXCEPT ![Operation[i]] = [status |-> "complete", phase |-> "none", accepted |-> s10[i]]]
              /\ Journal!End(i) /\ UNCHANGED <<s9, s10, s11, s12>>
        /\ UNCHANGED <<s1, s2, s4, s5, s6, s13, s14, s16>>
    BY <1>13, <1>f DEF Journal!RecordComplete
  <2>2. CASE Journal!Raise(i, "observation") /\ UNCHANGED <<s7, s3>>
    <3>1. Journal!Cardinality(Journal!WritesOf(Operation[i])) = s10[i] /\ Journal!Settled(i)
      BY <1>c, <2>1 DEF Journal!Counted
    <3> QED BY <2>1, <2>2, <3>1, JournalRaises DEF Journal!Past, Journal!Phases
  <2>3. PICK outcome : outcome = [status |-> "complete", phase |-> "none", accepted |-> s10[i]]
    OBVIOUS
  <2>4. /\ outcome \in [status : {"complete", "stopped"}, phase : Journal!Phases, accepted : Journal!Counts]
        /\ outcome.status = "complete"
    BY <1>0, <2>3 DEF Journal!Phases
  <2>5. CASE s7' = [s7 EXCEPT ![Operation[i]] = outcome] /\ Journal!End(i) /\ UNCHANGED <<s9, s10, s11, s12>>
    BY <1>12, <2>1, <2>4, <2>5
  <2> QED BY <2>1, <2>2, <2>3, <2>5
<1>14. CASE Journal!RecordStopped(i)
  <2>1. PICK outcome : outcome = [status |-> "stopped", phase |-> s12[i], accepted |-> s10[i]]
    OBVIOUS
  <2>2. /\ s8[i] = "stop" /\ s15' \in 0 .. JournalFaults /\ Journal!End(i)
        /\ s7' = s7 \/ s7' = [s7 EXCEPT ![Operation[i]] = outcome]
        /\ UNCHANGED <<s1, s2, s4, s5, s6, s9, s10, s11, s12, s13, s14, s16>>
    BY <1>14, <1>f, <2>1 DEF Journal!RecordStopped, Journal!Outcome
  <2>3. /\ outcome \in [status : {"complete", "stopped"}, phase : Journal!Phases, accepted : Journal!Counts]
        /\ outcome.status = "stopped" /\ outcome.phase = s12[i] /\ outcome.accepted = s10[i]
    BY <1>0, <2>1
  <2> QED BY <1>12, <2>2, <2>3
<1>15. CASE Journal!Die(i)
  <2>1. /\ Journal!End(i) /\ s15' \in 0 .. JournalFaults
        /\ s4' = s4 \/ (s8[i] = "intent" /\ s4' = s4 \cup {Operation[i]})
        /\ UNCHANGED <<s1, s2, s5, s6, s7, s9, s10, s11, s12, s13, s14, s16>>
    BY <1>15, <1>f DEF Journal!Die
  <2> QED BY <2>1, JournalEnds
<1> QED BY <1>1, <1>2, <1>3, <1>4, <1>5, <1>6, <1>7, <1>8, <1>9, <1>10, <1>11, <1>13, <1>14, <1>15 DEF Journal!Step

\* The metadata that a change leaves.
LEMMA NewerFacts ==
  ASSUME Journal!TypeOK, Journal!LandedOK, NEW k \in Journal!Places
  PROVE  Journal!Newer(k) \in [created : Nat, updated : Nat]
<1>1. Journal!Cardinality(s13) \in Nat /\ s16 \in Nat
  <2>1. IsFiniteSet(s13)
    BY SameCardinality DEF Journal!LandedOK
  <2>2. Journal!Cardinality(s13) \in Nat
    BY <2>1, SameCardinality, FS_CardinalityType
  <2>3. s16 \in 0 .. MaxOutside
    BY DEF Journal!TypeOK
  <2> QED BY <2>2, <2>3, ManifestFacts
<1>2. Journal!Now \in Nat
  BY <1>1 DEF Journal!Now
<1>3. s1[k] \in [created : Nat, updated : Nat]
  BY DEF Journal!TypeOK
<1> QED BY <1>2, <1>3 DEF Journal!Newer

\* Disturbs notes every invocation that is about to replace the secret.
LEMMA DisturbsFacts ==
  ASSUME Journal!TypeOK, NEW k \in Journal!Places, NEW others \in SUBSET Invocations, Journal!Disturbs(k, others)
  PROVE  /\ s14 \subseteq s14' /\ s14' \subseteq Journal!Operations \X Journal!Places
         /\ \A j \in others : s8[j] \in {"write", "await"} /\ s9[j] = k => <<Operation[j], k>> \in s14'
<1>1. s14 \subseteq Journal!Operations \X Journal!Places
  BY DEF Journal!TypeOK
<1> QED BY <1>1, ManifestFacts DEF Journal!Disturbs, Journal!Writing

\* A request that takes effect, late or not, keeps the invariant.
LEMMA JournalLandKeeps ==
  ASSUME Journal!Inv, NEW i \in Invocations, NEW k \in Journal!Places, Journal!Land(i, k)
  PROVE  Journal!Inv'
<1> USE DEF Journal!Inv, Journal!github, Journal!journal, Journal!local
<1>1. PICK late \in BOOLEAN : late <=> ~(s8[i] = "await" /\ s9[i] = k)
  OBVIOUS
<1>2. PICK r : r = [op |-> Operation[i], by |-> i, place |-> k, over |-> s1[k], late |-> late]
  OBVIOUS
<1>3. /\ <<i, k>> \in s2 /\ s2' = s2 \ {<<i, k>>} /\ s1' = [s1 EXCEPT ![k] = Journal!Newer(k)]
      /\ s13' = s13 \cup {r} /\ Journal!Disturbs(k, IF late THEN Invocations ELSE {})
      /\ UNCHANGED <<s3, s4, s5, s6, s7, s8, s9, s10, s11, s12, s15, s16>>
  <2>1. late = ~(s8[i] = "await" /\ s9[i] = k)
    BY <1>1
  <2> QED BY <1>2, <2>1 DEF Journal!Land
<1>4. /\ s1 \in [Journal!Places -> [created : Nat, updated : Nat]] /\ s9 \in [Invocations -> Journal!Places]
      /\ s2 \subseteq Invocations \X Journal!Places
      /\ s13 \subseteq [op : Journal!Operations, by : Invocations, place : Journal!Places,
                        over : [created : Nat, updated : Nat], late : BOOLEAN]
  BY DEF Journal!TypeOK
<1>5. /\ r \in [op : Journal!Operations, by : Invocations, place : Journal!Places,
                over : [created : Nat, updated : Nat], late : BOOLEAN]
      /\ r.op = Operation[i] /\ r.by = i /\ r.place = k /\ r.over = s1[k] /\ r.late = late /\ r \notin s13
  <2>1. r.by = i /\ r.place = k
    BY <1>2
  <2>2. r \notin s13
    BY <1>3, <2>1 DEF Journal!LandedOK
  <2> QED BY <1>1, <1>2, <1>4, <2>2, ManifestFacts
<1>6. /\ s14 \subseteq s14' /\ s14' \subseteq Journal!Operations \X Journal!Places
      /\ late => \A j \in Invocations : s8[j] \in {"write", "await"} /\ s9[j] = k => <<Operation[j], k>> \in s14'
  BY <1>3, DisturbsFacts
<1>7. s1' \in [Journal!Places -> [created : Nat, updated : Nat]] /\ \A l \in Journal!Places : l # k => s1'[l] = s1[l]
  BY <1>3, <1>4, NewerFacts
<1>8. Journal!TypeOK'
  BY <1>3, <1>5, <1>6, <1>7 DEF Journal!TypeOK
<1>9. Journal!OneAtWork'
  BY <1>3 DEF Journal!OneAtWork
<1>10. \A j \in Invocations : Journal!Attempted(j)' <=> Journal!Attempted(j)
  <2>1. ASSUME NEW j \in Invocations, Journal!Attempted(j)'
        PROVE  Journal!Attempted(j)
    BY <1>3, <1>5, <2>1 DEF Journal!Attempted
  <2>2. ASSUME NEW j \in Invocations, Journal!Attempted(j)
        PROVE  Journal!Attempted(j)'
    BY <1>3, <1>5, <2>2 DEF Journal!Attempted
  <2> QED BY <2>1, <2>2
<1>11. Journal!OneAttempt'
  BY <1>3, <1>10 DEF Journal!OneAttempt
<1>12. Journal!LandedOK'
  <2>1. IsFiniteSet(s13')
    BY <1>3, WritesFinite, FS_AddElement
  <2>2. \A w \in s13' : w.op = Operation[w.by] /\ <<w.by, w.place>> \notin s2'
    BY <1>3, <1>5 DEF Journal!LandedOK
  <2> QED BY <2>1, <2>2, SameCardinality DEF Journal!LandedOK
<1>13. \A o : Journal!WritesOf(o)' = IF o = Operation[i] THEN Journal!WritesOf(o) \cup {r} ELSE Journal!WritesOf(o)
  BY <1>3, <1>5 DEF Journal!WritesOf
<1>14. Journal!Attempted(i) /\ ~Journal!Settled(i)
  BY <1>3 DEF Journal!Attempted, Journal!Settled
<1>15. Journal!CountsOK'
  <2>1. ASSUME NEW j \in Invocations, j # i
        PROVE  Journal!Counted(j)'
    <3>1. s8[j] \in Journal!Past => Operation[j] # Operation[i]
      BY <1>14, <2>1 DEF Journal!OneAttempt, Journal!Attempted
    <3>2. s8[j] \in Journal!Past => Journal!WritesOf(Operation[j])' = Journal!WritesOf(Operation[j])
      BY <1>13, <3>1
    <3>3. \A w \in s13' : w.by = j => w \in s13
      BY <1>3, <1>5, <2>1
    <3>4. \A l \in Journal!Places : <<j, l>> \in s2' <=> <<j, l>> \in s2
      BY <1>3, <2>1
    <3>5. Journal!Counted(j) /\ s9[j] \in Journal!Places
      BY <1>4 DEF Journal!CountsOK
    <3> QED BY <1>3, <3>2, <3>3, <3>4, <3>5 DEF Journal!Counted, Journal!Settled, Journal!Past
  <2>2. Journal!Counted(i)'
    <3>1. Journal!Counted(i) /\ s9[i] \in Nat
      BY <1>4, ManifestFacts DEF Journal!CountsOK
    <3>2. s8[i] \notin {"revalidate", "write", "receipt", "observe", "note", "complete"} /\ ~(s8[i] = "stop" /\ s12[i] # "write")
      BY <1>14, <3>1 DEF Journal!Counted
    <3>3. s8[i] \in Journal!Past => \A l \in 1 .. s10[i] : \E w \in s13' : w.by = i /\ w.place = l
      BY <1>3, <3>1 DEF Journal!Counted
    <3>4. CASE s8[i] = "await"
      <4>1. /\ s10[i] = s9[i] - 1 /\ s11[i] = s9[i] - 1 /\ k = s9[i]
            /\ \A l \in Journal!Places : <<i, l>> \in s2 => l = s9[i]
            /\ Journal!Cardinality(Journal!WritesOf(Operation[i])) = s9[i] - 1
            /\ \A w \in s13 : w.by = i => w.place <= s9[i]
        BY <1>3, <3>1, <3>4 DEF Journal!Counted
      <4>2. Journal!Cardinality(Journal!WritesOf(Operation[i])') = s9[i]
        <5>1. Journal!Cardinality(Journal!WritesOf(Operation[i]) \cup {r}) = Journal!Cardinality(Journal!WritesOf(Operation[i])) + 1
          BY <1>5, WritesFinite
        <5>2. Journal!WritesOf(Operation[i])' = Journal!WritesOf(Operation[i]) \cup {r}
          BY <1>13
        <5> QED BY <3>1, <4>1, <5>1, <5>2
      <4>3. \A w \in s13' : w.by = i => w.place <= s9[i]
        BY <1>3, <1>5, <3>1, <4>1
      <4>4. <<i, s9[i]>> \notin s2' /\ \A l \in Journal!Places : <<i, l>> \in s2' => l = s9[i]
        BY <1>3, <4>1
      <4> QED BY <1>3, <3>3, <3>4, <4>1, <4>2, <4>3, <4>4 DEF Journal!Counted, Journal!Past
    <3>5. CASE s8[i] # "await"
      BY <1>3, <3>1, <3>2, <3>3, <3>5 DEF Journal!Counted
    <3> QED BY <3>4, <3>5
  <2> QED BY <2>1, <2>2 DEF Journal!CountsOK
<1>16. Journal!ReceiptsOK'
  BY <1>3 DEF Journal!ReceiptsOK
<1>17. Journal!OutcomeOK'
  <2> SUFFICES ASSUME NEW o \in Journal!Operations
               PROVE  /\ s7'[o].status # "none" => o \in s4' /\ \A j \in Invocations : Operation[j] = o => s8'[j] \notin Journal!Past
                      /\ s7'[o].status = "complete" => \A l \in Journal!Places : \E w \in s13' : w.op = o /\ w.place = l
                      /\ s7'[o].status = "stopped" /\ s7'[o].phase # "write" =>
                           /\ Journal!Cardinality(Journal!WritesOf(o)') = s7'[o].accepted
                           /\ \A j \in Invocations : Operation[j] = o => Journal!Settled(j)'
    BY DEF Journal!OutcomeOK, Journal!WritesOf, Journal!Settled
  <2>1. s7'[o].status # "none" => o \in s4' /\ \A j \in Invocations : Operation[j] = o => s8'[j] \notin Journal!Past
    BY <1>3 DEF Journal!OutcomeOK
  <2>2. s7'[o].status = "complete" => \A l \in Journal!Places : \E w \in s13' : w.op = o /\ w.place = l
    BY <1>3 DEF Journal!OutcomeOK
  <2>3. ASSUME s7[o].status = "stopped", s7[o].phase # "write"
        PROVE  /\ Journal!Cardinality(Journal!WritesOf(o)') = s7[o].accepted
               /\ \A j \in Invocations : Operation[j] = o => Journal!Settled(j)'
    <3>1. /\ Journal!Cardinality(Journal!WritesOf(o)) = s7[o].accepted
          /\ \A j \in Invocations : Operation[j] = o => Journal!Settled(j)
      BY <2>3 DEF Journal!OutcomeOK
    <3>2. Operation[i] # o
      BY <1>14, <3>1
    <3>3. Journal!WritesOf(o)' = Journal!WritesOf(o)
      BY <1>13, <3>2
    <3>4. \A j \in Invocations : Journal!Settled(j) => Journal!Settled(j)'
      BY <1>3 DEF Journal!Settled
    <3> QED BY <3>1, <3>3, <3>4
  <2> QED BY <1>3, <2>1, <2>2, <2>3
<1>18. Journal!ApprovedOK'
  <2> SUFFICES ASSUME NEW j \in Invocations,
                      s8[j] = "write" \/ (s8[j] = "await" /\ <<j, s9[j]>> \in s2')
               PROVE  s1'[s9[j]] = Journal!Expected \/ <<Operation[j], s9[j]>> \in s14'
    BY <1>3 DEF Journal!ApprovedOK, Journal!Approved, Journal!Expected
  <2>1. s1[s9[j]] = Journal!Expected \/ <<Operation[j], s9[j]>> \in s14
    BY <1>3 DEF Journal!ApprovedOK, Journal!Approved
  <2>2. CASE s9[j] # k
    BY <1>4, <1>6, <1>7, <2>1, <2>2
  <2>3. CASE s9[j] = k /\ late
    BY <1>6, <2>3
  <2>4. CASE s9[j] = k /\ ~late
    <3>1. s8[i] = "await" /\ s9[i] = k
      BY <1>1, <2>4
    <3>2. j = i
      BY <3>1 DEF Journal!OneAtWork
    <3> QED BY <1>3, <3>1, <3>2
  <2> QED BY <2>2, <2>3, <2>4
<1>19. Journal!ReplacesApproved'
  <2>1. ASSUME ~late
        PROVE  <<r.op, r.place>> \in s14' \/ r.over = Journal!Expected
    <3>1. s8[i] = "await" /\ s9[i] = k
      BY <1>1, <2>1
    <3>2. s1[k] = Journal!Expected \/ <<Operation[i], k>> \in s14
      BY <1>3, <3>1 DEF Journal!ApprovedOK, Journal!Approved
    <3> QED BY <1>5, <1>6, <3>2
  <2>2. \A w \in s13 : w.late \/ <<w.op, w.place>> \in s14' \/ w.over = Journal!Expected
    BY <1>6 DEF Journal!ReplacesApproved
  <2>3. \A w \in s13' : w.late \/ <<w.op, w.place>> \in s14' \/ w.over = Journal!Expected
    BY <1>3, <1>5, <2>1, <2>2
  <2> QED BY <2>3 DEF Journal!ReplacesApproved, Journal!Expected
<1> QED BY <1>8, <1>9, <1>11, <1>12, <1>15, <1>16, <1>17, <1>18, <1>19

\* What is known of counters, receipts and outcomes is not about metadata.
LEMMA JournalFrame ==
  ASSUME Journal!Inv, UNCHANGED <<s2, s3, s4, s5, s6, s7, s8, s9, s10, s11, s12, s13>>
  PROVE  Journal!CountsOK' /\ Journal!ReceiptsOK' /\ Journal!OutcomeOK'
<1>1. /\ \A o : Journal!WritesOf(o)' = Journal!WritesOf(o)
      /\ \A i : Journal!Settled(i)' <=> Journal!Settled(i)
  BY DEF Journal!WritesOf, Journal!Settled
<1>2. Journal!CountsOK'
  <2> SUFFICES ASSUME NEW i \in Invocations
               PROVE  Journal!Counted(i)'
    BY DEF Journal!CountsOK
  <2>1. Journal!Counted(i)
    BY DEF Journal!Inv, Journal!CountsOK
  <2> QED BY <1>1, <2>1 DEF Journal!Counted
<1>3. Journal!ReceiptsOK'
  BY DEF Journal!Inv, Journal!ReceiptsOK
<1>4. Journal!OutcomeOK'
  BY <1>1 DEF Journal!Inv, Journal!OutcomeOK
<1> QED BY <1>2, <1>3, <1>4

\* Another writer keeps the invariant.
LEMMA JournalOutsideKeeps ==
  ASSUME Journal!Inv, NEW k \in Journal!Places, Journal!ChangeOutside(k)
  PROVE  Journal!Inv'
<1> USE DEF Journal!Inv, Journal!github, Journal!journal, Journal!local
<1>1. PICK m : /\ m \in {Journal!Newer(k), Journal!Missing} /\ s1' = [s1 EXCEPT ![k] = m]
               /\ s16 < MaxOutside /\ s16' = s16 + 1 /\ Journal!Disturbs(k, Invocations)
               /\ UNCHANGED <<s2, s3, s4, s5, s6, s7, s8, s9, s10, s11, s12, s13, s15>>
  BY DEF Journal!ChangeOutside
<1>2. /\ s14 \subseteq s14' /\ s14' \subseteq Journal!Operations \X Journal!Places
      /\ \A j \in Invocations : s8[j] \in {"write", "await"} /\ s9[j] = k => <<Operation[j], k>> \in s14'
  BY <1>1, DisturbsFacts
<1>3. s1 \in [Journal!Places -> [created : Nat, updated : Nat]] /\ s9 \in [Invocations -> Journal!Places]
  BY DEF Journal!TypeOK
<1>4. m \in [created : Nat, updated : Nat]
  BY <1>1, NewerFacts DEF Journal!Missing
<1>5. s1' \in [Journal!Places -> [created : Nat, updated : Nat]] /\ \A l \in Journal!Places : l # k => s1'[l] = s1[l]
  BY <1>1, <1>3, <1>4
<1>6. s16' \in 0 .. MaxOutside
  BY <1>1, ManifestFacts DEF Journal!TypeOK
<1>7. Journal!TypeOK'
  BY <1>1, <1>2, <1>5, <1>6 DEF Journal!TypeOK
<1>8. Journal!OneAtWork' /\ Journal!OneAttempt' /\ Journal!LandedOK'
  BY <1>1 DEF Journal!OneAtWork, Journal!OneAttempt, Journal!LandedOK, Journal!Attempted
<1>9. Journal!CountsOK' /\ Journal!ReceiptsOK' /\ Journal!OutcomeOK'
  BY <1>1, JournalFrame
<1>10. Journal!ApprovedOK'
  <2> SUFFICES ASSUME NEW j \in Invocations, s8[j] = "write" \/ (s8[j] = "await" /\ <<j, s9[j]>> \in s2)
               PROVE  s1'[s9[j]] = Journal!Expected \/ <<Operation[j], s9[j]>> \in s14'
    BY <1>1 DEF Journal!ApprovedOK, Journal!Approved, Journal!Expected
  <2>1. s1[s9[j]] = Journal!Expected \/ <<Operation[j], s9[j]>> \in s14
    BY DEF Journal!ApprovedOK, Journal!Approved
  <2>2. s9[j] # k \/ <<Operation[j], s9[j]>> \in s14'
    BY <1>2
  <2> QED BY <1>2, <1>3, <1>5, <2>1, <2>2
<1>11. Journal!ReplacesApproved'
  BY <1>1, <1>2 DEF Journal!ReplacesApproved, Journal!Expected
<1> QED BY <1>7, <1>8, <1>9, <1>10, <1>11

\* A stuttering step of the slots keeps the invariant.
LEMMA JournalStutter ==
  ASSUME Journal!Inv, UNCHANGED vars
  PROVE  Journal!Inv'
<1> USE DEF vars, Journal!Inv
<1>1. Journal!TypeOK'
  BY DEF Journal!TypeOK
<1>2. Journal!OneAtWork' /\ Journal!OneAttempt' /\ Journal!LandedOK'
  BY DEF Journal!OneAtWork, Journal!OneAttempt, Journal!LandedOK, Journal!Attempted
<1>3. Journal!CountsOK' /\ Journal!ReceiptsOK' /\ Journal!OutcomeOK'
  BY JournalFrame
<1>4. Journal!ApprovedOK' /\ Journal!ReplacesApproved'
  BY DEF Journal!ApprovedOK, Journal!Approved, Journal!ReplacesApproved, Journal!Expected
<1> QED BY <1>1, <1>2, <1>3, <1>4

\* The journal's invariant holds in every behaviour that is about it.
THEOREM JournalInvHolds == Spec => [](part = "journal" => Journal!Inv)
<1>1. Init => (part = "journal" => Journal!Inv)
  BY JournalInit DEF Init
<1>2. Journal!Inv /\ Journal!Next => Journal!Inv'
  BY JournalInvocationKeeps, JournalLandKeeps, JournalOutsideKeeps DEF Journal!Next
<1>3. (part = "journal" => Journal!Inv) /\ [Next]_vars => (part = "journal" => Journal!Inv)'
  BY <1>2, JournalStutter DEF Next, JournalStep, HcpStep, FilesStep, vars
<1> QED BY <1>1, <1>3, PTL DEF Spec

\* An operation is attempted once, so no secret gets two of its writes.
LEMMA OneWrite ==
  ASSUME Journal!Inv
  PROVE  Journal!OneWritePerOperation
<1> SUFFICES ASSUME NEW o \in Journal!Operations, NEW k \in Journal!Places
             PROVE  Journal!Cardinality({x \in Journal!Sent(o) : x[2] = k}) <= 1
  BY DEF Journal!OneWritePerOperation
<1> DEFINE S == {x \in Journal!Sent(o) : x[2] = k}
<1>1. ASSUME NEW x \in Journal!Sent(o)
      PROVE  x[1] \in Invocations /\ x = <<x[1], x[2]>> /\ Operation[x[1]] = o /\ Journal!Attempted(x[1])
  <2>1. CASE \E w \in s13 : w.op = o /\ x = <<w.by, w.place>>
    BY <2>1 DEF Journal!Inv, Journal!LandedOK, Journal!TypeOK, Journal!Attempted
  <2>2. CASE x \in s2 /\ Operation[x[1]] = o
    <3>1. x \in Invocations \X Journal!Places
      BY <2>2 DEF Journal!Inv, Journal!TypeOK
    <3>2. x[1] \in Invocations /\ x[2] \in Journal!Places /\ x = <<x[1], x[2]>>
      BY <3>1
    <3> QED BY <2>2, <3>2 DEF Journal!Attempted
  <2> QED BY <2>1, <2>2 DEF Journal!Sent
<1>2. \A x, y \in S : x = y
  <2> SUFFICES ASSUME NEW x \in S, NEW y \in S
               PROVE  x = y
    OBVIOUS
  <2>1. x[1] = y[1]
    BY <1>1 DEF Journal!Inv, Journal!OneAttempt
  <2> QED BY <1>1, <2>1
<1>3. S = {} \/ \E x : S = {x}
  BY <1>2
<1>4. Cardinality(S) \in {0, 1}
  BY <1>3, FS_EmptySet, FS_Singleton
<1>5. Journal!Cardinality(S) = Cardinality(S)
  BY SameCardinality
<1> QED BY <1>4, <1>5

\* The outcomes and receipts of the invariant are the journal's truth.
LEMMA JournalIsTrue ==
  ASSUME Journal!Inv
  PROVE  Journal!JournalTruth
<1> SUFFICES ASSUME NEW o \in Journal!Operations
             PROVE  /\ Journal!Sent(o) # {} => o \in s4
                    /\ \A k \in Journal!Places : <<o, k>> \in s5 => \E w \in s13 : w.op = o /\ w.place = k
                    /\ s7[o].status = "complete" => {w.place : w \in {w \in s13 : w.op = o}} = Journal!Places
                    /\ s7[o].status = "stopped" /\ s7[o].phase # "write" =>
                         /\ Journal!Cardinality({w \in s13 : w.op = o}) = s7[o].accepted
                         /\ \A x \in s2 : Operation[x[1]] # o
  BY DEF Journal!JournalTruth
<1>0. /\ s2 \subseteq Invocations \X Journal!Places
      /\ s13 \subseteq [op : Journal!Operations, by : Invocations, place : Journal!Places,
                        over : [created : Nat, updated : Nat], late : BOOLEAN]
  BY DEF Journal!Inv, Journal!TypeOK
<1>1. Journal!Sent(o) # {} => o \in s4
  <2>1. ASSUME NEW w \in s13, w.op = o
        PROVE  o \in s4
    BY <1>0, <2>1 DEF Journal!Inv, Journal!LandedOK, Journal!OneAttempt, Journal!Attempted
  <2>2. ASSUME NEW x \in s2, Operation[x[1]] = o
        PROVE  o \in s4
    BY <1>0, <2>2 DEF Journal!Inv, Journal!OneAttempt, Journal!Attempted
  <2> QED BY <2>1, <2>2 DEF Journal!Sent
<1>2. \A k \in Journal!Places : <<o, k>> \in s5 => \E w \in s13 : w.op = o /\ w.place = k
  BY DEF Journal!Inv, Journal!ReceiptsOK
<1>3. s7[o].status = "complete" => {w.place : w \in {w \in s13 : w.op = o}} = Journal!Places
  <2>1. s7[o].status = "complete" => \A k \in Journal!Places : \E w \in s13 : w.op = o /\ w.place = k
    BY DEF Journal!Inv, Journal!OutcomeOK
  <2> QED BY <1>0, <2>1
<1>4. ASSUME s7[o].status = "stopped", s7[o].phase # "write"
      PROVE  Journal!Cardinality({w \in s13 : w.op = o}) = s7[o].accepted /\ \A x \in s2 : Operation[x[1]] # o
  <2>1. Journal!Cardinality(Journal!WritesOf(o)) = s7[o].accepted /\ \A i \in Invocations : Operation[i] = o => Journal!Settled(i)
    BY <1>4 DEF Journal!Inv, Journal!OutcomeOK
  <2>2. \A x \in s2 : Operation[x[1]] # o
    BY <1>0, <2>1 DEF Journal!Settled
  <2> QED BY <2>1, <2>2 DEF Journal!WritesOf
<1> QED BY <1>1, <1>2, <1>3, <1>4

\* github_api.deliver: an operation writes every secret at most once however
\* often it is run and wherever its invocations die, the journal never
\* understates what was or may still be written, and a write replaces exactly
\* the approved metadata unless the secret changed after the last look.
THEOREM JournalTruthHolds == Spec => []JournalTruth
<1>1. (part = "journal" => Journal!Inv) => JournalTruth
  BY OneWrite, JournalIsTrue DEF JournalTruth, Journal!Inv
<1> QED BY JournalInvHolds, <1>1, PTL

=============================================================================
