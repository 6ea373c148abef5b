----------------------------- MODULE SecretFiles -----------------------------
(***************************************************************************)
(* Encrypted catalogs and delivered values as private files, and the       *)
(* recovery drill (tools/secret_control: catalog_delivery.py, recovery.py, *)
(* materialize.py, private_io.py, drill.py and the commands of __main__.py *)
(* that use them).  Operators share a directory, nothing locks it, and any *)
(* of them can be killed between two system calls.                         *)
(***************************************************************************)
EXTENDS Naturals, Sequences, FiniteSets

CONSTANTS Operators, MaxKills

VARIABLES
    pc, job, held,   \* of each operator: where it is, the command it was given, the value in its memory
    disk,            \* of each file name: its bytes and how many names they have
    kills,
    drill, tool      \* the step that the drill is at, and the age program that it uses

vars == <<pc, job, held, disk, kills, drill, tool>>

CatalogFiles == {"first", "second"}
Output == "output"
Values == {"a", "b", "c"}

\* A catalog with one entry, as its encrypted bytes tell it from every other.
\* Two of them are different successors of the first.
Catalogs == {[gen |-> 1, rev |-> 1, value |-> "a"], [gen |-> 2, rev |-> 1, value |-> "a"],
             [gen |-> 2, rev |-> 2, value |-> "b"], [gen |-> 2, rev |-> 2, value |-> "c"]}
Torn == [gen |-> 0, rev |-> 0, value |-> "none"]
Absent == [data |-> Torn, links |-> 0]
Whole(f) == disk[f].links > 0 /\ disk[f].data # Torn

\* encrypt is given a catalog, the file of its predecessor or "none", and a new file; materialize and
\* recovery-check the catalog whose digest was approved; fetch the bytes that the vault returns for it.
NoJob == [command |-> "none", catalog |-> Torn, from |-> "none", to |-> "none"]
Jobs == [command : {"encrypt"}, catalog : Catalogs, from : {"first", "none"}, to : {"second"}]
        \cup [command : {"materialize", "recovery-check"}, catalog : Catalogs, from : CatalogFiles, to : {Output}]
        \cup [command : {"fetch"}, catalog : {c \in Catalogs : c.rev = 2}, from : Values, to : {Output}]

Steps == <<"keys", "encrypt", "decrypt", "rollback", "wrong key", "tampered", "key loss", "materialize", "private", "cleanup">>

\* What an age program may do: with a wrong key or changed bytes, for the second recipient, and whether
\* the temporary directory can be removed in the end.
Behaviours == {"refuses", "opens", "hangs"}
Tools == [wrong : Behaviours, tampered : Behaviours, everyone : BOOLEAN, removes : BOOLEAN]

\* The operators begin with one catalog; or the drill runs.
Init ==
    /\ pc = [o \in Operators |-> "idle"] /\ job = [o \in Operators |-> NoJob] /\ held = [o \in Operators |-> "none"]
    /\ disk = [[f \in CatalogFiles \cup {Output} |-> Absent] EXCEPT
                !["first"] = [data |-> [gen |-> 1, rev |-> 1, value |-> "a"], links |-> 1]]
    /\ kills = 0
    /\ \/ drill = 0 /\ tool = CHOOSE t \in Tools : TRUE
       \/ drill = 1 /\ tool \in Tools

Go(o, where) == pc' = [pc EXCEPT ![o] = where]

Start(o, j) ==
    /\ drill = 0 /\ pc[o] = "idle" /\ Go(o, IF j.command = "encrypt" THEN "encrypt" ELSE "load")
    /\ job' = [job EXCEPT ![o] = j]
    /\ UNCHANGED <<held, disk, kills, drill, tool>>

\* lineage: one step after its predecessor, with a new revision for a new value.
Succeeds(c, p) == c.gen = p.gen + 1 /\ c.rev = p.rev + (IF c.value = p.value THEN 0 ELSE 1)
Lineage(c, from) ==
    IF from = "none" THEN c.gen = 1 /\ c.rev = 1 ELSE Whole(from) /\ Succeeds(c, disk[from].data)

Encrypt(o) ==
    /\ pc[o] = "encrypt"
    /\ Go(o, IF Lineage(job[o].catalog, job[o].from) THEN "create" ELSE "refused")
    /\ UNCHANGED <<job, held, disk, kills, drill, tool>>

\* new_private creates the file exclusively, and then writes it.
CreatePrivate(o) ==
    /\ pc[o] = "create"
    /\ IF disk[job[o].to].links = 0
       THEN disk' = [disk EXCEPT ![job[o].to] = [data |-> Torn, links |-> 1]] /\ Go(o, "write")
       ELSE Go(o, "refused") /\ UNCHANGED disk
    /\ UNCHANGED <<job, held, kills, drill, tool>>

WritePrivate(o) ==
    /\ pc[o] = "write"
    /\ disk' = [disk EXCEPT ![job[o].to].data = job[o].catalog] /\ Go(o, "encrypted")
    /\ UNCHANGED <<job, held, kills, drill, tool>>

\* The generation is compared and the digest is not.
SameGeneration(c, f) == Whole(f) /\ disk[f].data.gen = c.gen

\* load and check compare the digest of the bytes that they read once, before they decrypt them.
Approved(c, f) == Whole(f) /\ disk[f].data = c

RecoveryCheck(o) ==
    /\ pc[o] = "load" /\ job[o].command = "recovery-check"
    /\ Go(o, IF Approved(job[o].catalog, job[o].from) THEN "verified" ELSE "refused")
    /\ UNCHANGED <<job, held, disk, kills, drill, tool>>

Load(o) ==
    LET j == job[o]
        value == IF j.command = "fetch" THEN j.from ELSE disk[j.from].data.value
    IN  /\ pc[o] = "load" /\ j.command # "recovery-check"
        /\ \/ /\ IF j.command = "fetch" THEN value = j.catalog.value ELSE Approved(j.catalog, j.from)
              /\ Go(o, "existing") /\ held' = [held EXCEPT ![o] = value]
           \/ /\ IF j.command = "fetch" THEN value # j.catalog.value ELSE ~Approved(j.catalog, j.from)
              /\ Go(o, "refused") /\ UNCHANGED held
        /\ UNCHANGED <<job, disk, kills, drill, tool>>

Bytes(v) == [gen |-> 0, rev |-> 0, value |-> v]

\* _existing_matches: the output is not there, or is private and has these bytes.
ExistingMatches(o) ==
    /\ pc[o] = "existing"
    /\ Go(o, IF disk[Output].links = 0 THEN "link"
             ELSE IF disk[Output] = [data |-> Bytes(held[o]), links |-> 1] THEN "unchanged" ELSE "refused")
    /\ UNCHANGED <<job, held, disk, kills, drill, tool>>

\* The output is replaced (rename).
Renamed == TRUE

\* A hard link is only made where the name is free.
NameIsFree == disk[Output].links = 0

\* The temporary file is written and synced, then linked to the output's name.
Link(o) ==
    /\ pc[o] = "link"
    /\ IF NameIsFree THEN disk' = [disk EXCEPT ![Output] = [data |-> Bytes(held[o]), links |-> 2]] /\ Go(o, "unlink")
       ELSE Go(o, "refused") /\ UNCHANGED disk
    /\ UNCHANGED <<job, held, kills, drill, tool>>

Unlink(o) ==
    /\ pc[o] = "unlink"
    /\ disk' = [disk EXCEPT ![Output].links = 1] /\ Go(o, "created")
    /\ UNCHANGED <<job, held, kills, drill, tool>>

Kill(o) ==
    /\ pc[o] \notin {"idle", "refused", "encrypted", "verified", "unchanged", "created", "dead"}
    /\ kills < MaxKills /\ kills' = kills + 1 /\ Go(o, "dead")
    /\ UNCHANGED <<job, held, disk, drill, tool>>

-----------------------------------------------------------------------------

\* _refused: only the intended refusal counts, not a timeout or another failure.
Refused(how) == how = "refuses"

\* The two generations of the drill.
Trial == <<[gen |-> 1, rev |-> 1, value |-> "a"], [gen |-> 2, rev |-> 2, value |-> "b"]>>

\* _exercise: whether a step of the drill finds what it looks for.  The materialize step
\* exercises the actions above, which do the same whatever the age program does.
StepHolds(step) ==
    CASE step = "wrong key" -> Refused(tool.wrong)
      [] step = "tampered" -> Refused(tool.tampered)
      [] step \in {"decrypt", "key loss"} -> tool.everyone
      [] step = "rollback" -> ~Succeeds(Trial[1], Trial[2])
      [] step = "encrypt" -> Succeeds(Trial[2], Trial[1])
      [] step = "cleanup" -> tool.removes
      [] OTHER -> TRUE

\* run_drill takes the steps in order, and passes once the directory is gone.
DrillStep ==
    /\ drill \in 1..Len(Steps)
    /\ drill' = IF StepHolds(Steps[drill]) THEN drill + 1 ELSE Len(Steps) + 2
    /\ UNCHANGED <<pc, job, held, disk, kills, tool>>

Next ==
    \/ \E o \in Operators :
        \/ \E j \in Jobs : Start(o, j)
        \/ Encrypt(o) \/ CreatePrivate(o) \/ WritePrivate(o)
        \/ RecoveryCheck(o) \/ Load(o) \/ ExistingMatches(o) \/ Link(o) \/ Unlink(o) \/ Kill(o)
    \/ DrillStep

Spec == Init /\ [][Next]_vars

-----------------------------------------------------------------------------

(***************************************************************************)
(* Whatever is encrypted next to it and whoever else delivers to the same  *)
(* place, an operator who is told that the output was created or is        *)
(* unchanged finds the value of the catalog that was approved in it: now,  *)
(* and for as long as the output has its name.                             *)
(***************************************************************************)
DeliveredIsApproved ==
    \A o \in Operators : pc[o] \in {"created", "unchanged"} => disk[Output].data = Bytes(job[o].catalog.value)

(***************************************************************************)
(* A private file that was written completely is never replaced, cut or    *)
(* removed by these commands, whichever of them race and are killed.       *)
(***************************************************************************)
KeepsWhole == \A f \in DOMAIN disk : Whole(f) => disk'[f].data = disk[f].data /\ disk'[f].links > 0

(***************************************************************************)
(* The drill passes only with an age program that refuses wrong keys       *)
(* and changed bytes and encrypts for every recipient, once its directory  *)
(* is gone: a program that hangs does not count as one that refuses.       *)
(***************************************************************************)
DrillIsSound ==
    drill = Len(Steps) + 1 => tool = [wrong |-> "refuses", tampered |-> "refuses", everyone |-> TRUE, removes |-> TRUE]

-----------------------------------------------------------------------------
(* Why it holds.                                                           *)

\* An operator is given one job, and keeps it.
JobsOK ==
    /\ job \in [Operators -> Jobs \cup {NoJob}]
    /\ pc \in [Operators -> {"idle", "encrypt", "create", "write", "encrypted", "load", "verified", "existing",
                             "link", "unlink", "created", "unchanged", "refused", "dead"}]
    /\ held \in [Operators -> Values \cup {"none"}]
    /\ \A o \in Operators :
        /\ pc[o] # "idle" => job[o] # NoJob
        /\ pc[o] \in {"encrypt", "create", "write"} => job[o].command = "encrypt"
        /\ pc[o] \in {"load", "existing", "link", "unlink", "created", "unchanged"} => job[o].command # "encrypt"

DiskOK ==
    disk \in [CatalogFiles \cup {Output} ->
        [data : Catalogs \cup {Torn} \cup {Bytes(v) : v \in Values}, links : {0, 1, 2}]]

\* A file that is being written is its writer's alone.
OneWriter ==
    \A o \in Operators : pc[o] = "write" =>
        /\ disk["second"] = [data |-> Torn, links |-> 1]
        /\ \A p \in Operators : pc[p] = "write" => p = o

\* What an operator carries to the output is the approved value, and the
\* output that it made or found has it.
Carries ==
    \A o \in Operators :
        /\ pc[o] \in {"existing", "link", "unlink", "created", "unchanged"} => held[o] = job[o].catalog.value
        /\ pc[o] \in {"unlink", "created", "unchanged"} => disk[Output].links > 0 /\ disk[Output].data = Bytes(held[o])

\* What the drill has seen of the age program on its way.
DrillOK ==
    /\ drill \in 0 .. 12 /\ tool \in Tools
    /\ drill \in 4 .. 11 => tool.everyone
    /\ drill \in 6 .. 11 => tool.wrong = "refuses"
    /\ drill \in 7 .. 11 => tool.tampered = "refuses"
    /\ drill = 11 => tool.removes

Inv == JobsOK /\ DiskOK /\ OneWriter /\ Carries /\ DrillOK
=============================================================================
