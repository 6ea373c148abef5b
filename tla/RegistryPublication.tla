------------------------ MODULE RegistryPublication ------------------------
(***************************************************************************)
(* publish_verified.py containers: the images of a stable release are      *)
(* copied to their registries.  Every version tag is looked for before the *)
(* first copy, the copies go one by one, version tags first and latest     *)
(* last, and skopeo copies unconditionally: what appeared between the look *)
(* and the copy is replaced.  A stopped publication leaves what it copied. *)
(***************************************************************************)
EXTENDS Naturals, Sequences, SequencesExt

CONSTANTS
    Invocations,     \* runs of the command, for any of the versions
    Images,          \* destinations, in the order of the policy's mapping
    Versions,        \* stable versions with a release
    MaxOutside       \* edits of releases and registries by others, and kills

\* The policy maps at least one image.
ImagesAssumption == Images \in Seq({Images[k] : k \in DOMAIN Images}) /\ Images # <<>>
\* A stable version is a number, so it is none of the words used beside it.
VersionsAssumption == Versions \cap {"latest", "none", "foreign"} = {}

VARIABLES
    release,         \* of each version: whether its assets are those of the evidence
    registry,        \* of each image: what its tags name
    pc, job,         \* of each invocation: position and arguments
    at,              \* the next image to look at, or the next command
    appeared,        \* history: version tags that appeared after an invocation's look
    replaced,        \* history: version tags that an invocation replaced
    outside

vars == <<release, registry, pc, job, at, appeared, replaced, outside>>

None == "none"
Places == 1 .. Len(Images)
Tags == Versions \cup {"latest"}
Jobs == [version: Versions, latest: BOOLEAN, execute: BOOLEAN, mapping: {"original", "changed"}]
NoJob == [version |-> None, latest |-> FALSE, execute |-> FALSE, mapping |-> "original"]

Init ==
    /\ release = [v \in Versions |-> "sound"]
    /\ registry = [k \in Places |-> [t \in Tags |-> None]]
    /\ pc = [i \in Invocations |-> "idle"] /\ job = [i \in Invocations |-> NoJob]
    /\ at = [i \in Invocations |-> 1]
    /\ appeared = {} /\ replaced = {} /\ outside = 0

-----------------------------------------------------------------------------

Goto(i, where) == pc' = [pc EXCEPT ![i] = where] /\ at' = [at EXCEPT ![i] = 1]

Start(i) ==
    /\ pc[i] = "idle"
    /\ \E j \in Jobs : job' = [job EXCEPT ![i] = j]
    /\ Goto(i, "verify")
    /\ UNCHANGED <<release, registry, appeared, replaced, outside>>

\* verified_assets: every byte is compared with the evidence of the candidate;
\* verified_publication_config: the destinations are the candidate's.
Verify(i) ==
    /\ pc[i] = "verify"
    /\ Goto(i, IF release[job[i].version] = "sound" /\ job[i].mapping = "original" THEN "look" ELSE "refused")
    /\ UNCHANGED <<release, registry, job, appeared, replaced, outside>>

\* require_unpublished_version: the list of tags lacks the version; a
\* repository that is not there yet counts as an empty list.
Unpublished(i, k) == registry[k][job[i].version] = None

\* Any other answer than a list or a repository that does not exist refuses.
Look(i) ==
    /\ pc[i] = "look"
    /\ \/ /\ Unpublished(i, at[i])
          /\ IF at[i] < Len(Images) THEN at' = [at EXCEPT ![i] = @ + 1] /\ UNCHANGED pc
             ELSE Goto(i, IF job[i].execute THEN "copy" ELSE "shown")
       \/ Goto(i, "refused")
    /\ UNCHANGED <<release, registry, job, appeared, replaced, outside>>

\* An order in which every image is finished before the next.
ImageByImage(j) ==
    FlattenSeq([k \in Places |-> <<<<k, j.version>>>> \o (IF j.latest THEN <<<<k, "latest">>>> ELSE <<>>)])

\* container_commands: all version tags, then all latest tags.
Commands(j) ==
    [k \in Places |-> <<k, j.version>>] \o (IF j.latest THEN [k \in Places |-> <<k, "latest">>] ELSE <<>>)

Put(i, k, tag) ==
    /\ registry' = [registry EXCEPT ![k][tag] = job[i].version]
    /\ replaced' = IF tag # "latest" /\ registry[k][tag] # None THEN replaced \cup {<<i, k>>} ELSE replaced
    /\ appeared' = IF tag = "latest" THEN appeared
                   ELSE appeared \cup {<<o, k>> : o \in {o \in Invocations : pc[o] \in {"look", "copy"} /\ job[o].version = tag /\ o # i}}

\* subprocess.run(check=True): a command that fails may have copied or not.
Copy(i) ==
    /\ pc[i] = "copy"
    /\ LET todo == Commands(job[i]) command == todo[at[i]] IN
       \/ /\ Put(i, command[1], command[2])
          /\ \/ IF at[i] < Len(todo) THEN at' = [at EXCEPT ![i] = @ + 1] /\ UNCHANGED pc ELSE Goto(i, "done")
             \/ Goto(i, "failed")
       \/ Goto(i, "failed") /\ UNCHANGED <<registry, appeared, replaced>>
    /\ UNCHANGED <<release, job, outside>>

Kill(i) ==
    /\ pc[i] \in {"verify", "look", "copy"} /\ outside < MaxOutside
    /\ Goto(i, "failed") /\ outside' = outside + 1
    /\ UNCHANGED <<release, registry, job, appeared, replaced>>

\* Somebody edits a release, or pushes a version tag by hand.
Others ==
    /\ outside < MaxOutside /\ outside' = outside + 1
    /\ \/ /\ \E v \in Versions : release' = [release EXCEPT ![v] = "changed"]
          /\ UNCHANGED <<registry, appeared>>
       \/ /\ \E k \in Places, v \in Versions :
                /\ registry' = [registry EXCEPT ![k][v] = "foreign"]
                /\ appeared' = appeared \cup {<<o, k>> : o \in {o \in Invocations : pc[o] \in {"look", "copy"} /\ job[o].version = v}}
          /\ UNCHANGED release
    /\ UNCHANGED <<pc, job, at, replaced>>

Step(i) == Start(i) \/ Verify(i) \/ Look(i) \/ Copy(i)
Next == (\E i \in Invocations : Step(i) \/ Kill(i)) \/ Others
Spec == Init /\ [][Next]_vars

-----------------------------------------------------------------------------

(***************************************************************************)
(* Publications race, fail between two copies and are killed: latest never *)
(* names a version that some image of the release does not have.           *)
(***************************************************************************)
LatestIsComplete == \A k, l \in Places : registry[k]["latest"] # None => registry[l][registry[k]["latest"]] # None

(***************************************************************************)
(* "Never overwrite an existing version tag, even on retries": a version   *)
(* tag is replaced only if it appeared after the invocation had begun to   *)
(* look, which the copy cannot notice.                                     *)
(***************************************************************************)
VersionsKept == replaced \subseteq appeared

-----------------------------------------------------------------------------

(***************************************************************************)
(* Why it holds.  A publication that copies has shown that every tag of its*)
(* version was free when it looked, so what is there now either appeared   *)
(* since or is its own; and it gets to latest, which only it writes with   *)
(* its version, when every place has the version.  A tag once set stays.   *)
(***************************************************************************)
JobsOK ==
    /\ pc \in [Invocations -> {"idle", "verify", "look", "shown", "refused", "copy", "done", "failed"}]
    /\ job \in [Invocations -> Jobs \cup {NoJob}] /\ at \in [Invocations -> Nat \ {0}]
    /\ \A i \in Invocations : /\ pc[i] # "idle" => job[i] \in Jobs
                              /\ pc[i] = "look" => at[i] <= Len(Images)
                              /\ pc[i] = "copy" => at[i] <= Len(Commands(job[i]))

RegistryOK ==
    /\ registry \in [Places -> [Tags -> Versions \cup {None, "foreign"}]]
    /\ \A k \in Places : registry[k]["latest"] # "foreign"

\* What was free at the look appeared since, unless it is still free.
FreeOK ==
    \A i \in Invocations, k \in Places :
        \/ pc[i] = "look" /\ k < at[i]
        \/ pc[i] = "copy" /\ k >= at[i]
        => Unpublished(i, k) \/ <<i, k>> \in appeared

\* What the copies of one publication have reached.
CopiedOK == \A i \in Invocations, k \in Places : pc[i] = "copy" /\ k < at[i] => ~Unpublished(i, k)

Inv == JobsOK /\ RegistryOK /\ FreeOK /\ CopiedOK /\ LatestIsComplete /\ VersionsKept
=============================================================================
