---------------------------- MODULE VersionFiles ----------------------------
(***************************************************************************)
(* scripts/version_plan.py: a frozen plan's version is written into the    *)
(* fields that the release policy declares, in files of a checkout.  All   *)
(* edits are prepared in memory, checked against each other, and only then *)
(* do the files take their new content, one after the other; the run may   *)
(* be killed in between and started again.                                 *)
(*                                                                         *)
(* A file has two cells that a declaration may own and the rest of its     *)
(* text.  Versions are names: "1.0" is the last base, "1.1" the planned    *)
(* one, "1.1-rc" and "1.1rc" its candidate, "n7" the native build number   *)
(* as an integer, "s7" as a string, "a7" as an Apple bundle version.       *)
(***************************************************************************)
EXTENDS Naturals, Sequences, SequencesExt

CONSTANTS
    Paths,           \* the version files
    Policies,        \* sequences of declarations
    MaxKills,        \* kills in one behaviour
    MaxEdits         \* edits by somebody else in one behaviour

VARIABLES
    policy, plan,    \* the frozen inputs
    head, disk,      \* the committed and the present content of the files
    pc,
    before, after,   \* originals and edited, in memory, of the files that were read
    staged,          \* files with a temporary file beside them
    evidence,        \* .release-inputs.json
    kills, edits,
    at               \* how many declarations were applied in memory

vars == <<policy, plan, head, disk, pc, before, after, staged, evidence, kills, edits, at>>

Cells == {"v", "w"}
Unset == [v |-> "none", w |-> "none", rest |-> "none"]
Refused == [v |-> "refused", w |-> "refused", rest |-> "refused"]
Nothing == [f \in Paths |-> Unset]
Numbers == {"n6", "n7"}
NotScalar == {"none", "table", "twice"}

-----------------------------------------------------------------------------
(* The plan and its projections.                                           *)

Plans == [channel: {"stable", "rc"}, promotion: {"promote-bytes", "final-build"}, build: {"none", "n7"}]
BasePlan(p) == [p EXCEPT !.channel = "stable"]

\* A candidate whose bytes will be promoted carries the final version inside its packages.
PackageVersion(p, ecosystem) ==
    IF p.channel = "stable" \/ p.promotion = "promote-bytes" THEN "1.1"
    ELSE IF ecosystem = "pep440" THEN "1.1rc" ELSE "1.1-rc"

ProjectedValue(p, d) ==
    CASE d.value = "base"        -> "1.1"
      [] d.value = "full"        -> IF p.channel = "stable" THEN "1.1" ELSE "1.1-rc"
      [] d.value = "package"     -> PackageVersion(p, d.ecosystem)
      [] d.value = "build"       -> p.build
      [] d.value = "apple-build" -> IF p.build = "none" THEN "none" ELSE "a7"

\* What a policy may declare; a file has one syntax, which its declarations share.
Formats == {"json", "npm-lock", "toml", "python", "plist", "pbxproj", "text"}
Declarable == [path : Paths, format : Formats, field : Cells, value : {"base", "full", "package", "build", "apple-build"},
               ecosystem : {"semver", "pep440"}]
Syntax(format) == IF format = "npm-lock" THEN "json" ELSE format
PoliciesAssumption == \A p \in Policies :
    /\ p \in Seq(Declarable)
    /\ \A i \in DOMAIN p : p[i].format = "text" => p[i].field = "v"
    /\ \A i, j \in DOMAIN p : p[i].path = p[j].path => Syntax(p[i].format) = Syntax(p[j].format)

Counter(d) == d.value \in {"build", "apple-build"}

Selector(d) == <<d.path, d.format, d.field>>
ValidPolicy == \A i, j \in DOMAIN policy : i # j => Selector(policy[i]) # Selector(policy[j])

\* Every projection exists: a build number is needed only where one is declared.
ValidPlan ==
    /\ ValidPolicy
    /\ \A i \in DOMAIN policy : ProjectedValue(plan, policy[i]) # "none"

-----------------------------------------------------------------------------
(* The editors: each finds the cells it owns, or refuses.                  *)

\* An integer field takes an integer; a string field takes the value's text.
Text(value) == IF value = "n7" THEN "s7" ELSE value
Scalar(value, old) == IF old \notin Numbers THEN Text(value) ELSE IF value \in Numbers THEN value ELSE "refused"

\* A package lock repeats its own version in the root entry, when it has one.
JsonFields(d, content) ==
    IF d.format # "npm-lock" THEN {d.field} ELSE {"v"} \cup (IF content.w = "none" THEN {} ELSE {"w"})
JsonEdit(d, content, value) ==
    LET fields == JsonFields(d, content)
    IN  IF \E c \in fields : content[c] \in {"none", "table"} \/ Scalar(value, content[c]) = "refused" THEN Refused
        ELSE [c \in DOMAIN content |-> IF c \in fields THEN Scalar(value, content[c]) ELSE content[c]]

\* Exactly one explicit assignment.
TomlEdit(d, content, value) ==
    IF content[d.field] \in NotScalar \/ Scalar(value, content[d.field]) = "refused" THEN Refused
    ELSE [content EXCEPT ![d.field] = Scalar(value, @)]
PythonEdit(d, content, value) == TomlEdit(d, content, value)

\* Apple fields hold numeric versions only.
AppleEdit(d, content, value) ==
    IF content[d.field] \in NotScalar \/ value \notin (IF d.field = "v" THEN {"1.0", "1.1"} ELSE {"a7"}) THEN Refused
    ELSE [content EXCEPT ![d.field] = value]
PlistEdit(d, content, value) == IF content[d.field] \in Numbers THEN Refused ELSE AppleEdit(d, content, value)
PbxEdit(d, content, value) == AppleEdit(d, content, value)

TextEdit(d, content, value) == [content EXCEPT !.v = Text(value)]

Edit(d, content, value) ==
    IF content = Refused THEN Refused
    ELSE CASE d.format \in {"json", "npm-lock"} -> JsonEdit(d, content, value)
           [] d.format = "toml"    -> TomlEdit(d, content, value)
           [] d.format = "python"  -> PythonEdit(d, content, value)
           [] d.format = "plist"   -> PlistEdit(d, content, value)
           [] d.format = "pbxproj" -> PbxEdit(d, content, value)
           [] d.format = "text"    -> TextEdit(d, content, value)

Declarations(f) == SelectSeq(policy, LAMBDA d : d.path = f)

\* Every declaration of a file in turn.
Edited(f, content) ==
    FoldLeft(LAMBDA c, d : Edit(d, c, ProjectedValue(plan, d)), content, Declarations(f))

-----------------------------------------------------------------------------
(* One invocation of "sync".                                               *)

Init ==
    /\ policy \in Policies /\ plan \in Plans
    /\ \E old \in {"1.0", "1.1"}, w \in {"none", "1.1", "a7", "n6", "table"} :
        head = [f \in Paths |-> [v |-> old, w |-> w, rest |-> "text"]]
    /\ disk = head
    /\ pc = "start"
    /\ before = Nothing /\ after = Nothing /\ staged = {} /\ evidence = Nothing
    /\ kills = 0 /\ edits = 0 /\ at = 0

Files == {policy[i].path : i \in DOMAIN policy}
Drift == {f \in Files : before[f] # after[f]}
Inputs == <<policy, plan, head>>

\* A file is as committed or carries exactly the plan's edits, which it takes.
Uncommitted(f) == Edited(f, head[f]) # Refused /\ disk[f] \in {head[f], Edited(f, head[f])}

\* The committed fields hold the planned base, and nothing else has changed in a declared file.
VerifyCheckout ==
    /\ \A f \in Files : Uncommitted(f)
    /\ \A i \in DOMAIN policy : Counter(policy[i]) \/
        LET d == policy[i] IN Edit(d, head[d.path], ProjectedValue(BasePlan(plan), d)) = head[d.path]

Start ==
    /\ pc = "start"
    /\ pc' = IF ValidPlan /\ VerifyCheckout THEN "read" ELSE "refused"
    /\ UNCHANGED <<Inputs, disk, before, after, staged, evidence, kills, edits, at>>

\* Each edit went through when it was made; a later one may have overwritten it.
Unrefused(edited) == \A i \in DOMAIN policy : edited[policy[i].path] # Refused

\* Every declared expectation still holds after all edits.
Consistent(edited) ==
    \A i \in DOMAIN policy :
        LET d == policy[i] IN Edit(d, edited[d.path], ProjectedValue(plan, d)) = edited[d.path]

\* One declaration more: its file is read if no other one had it, and edited in memory.
Prepare ==
    /\ pc = "read" /\ at < Len(policy) /\ at' = at + 1
    /\ LET d == policy[at + 1]
           original == IF before[d.path] = Unset THEN disk[d.path] ELSE before[d.path]
           content == IF before[d.path] = Unset THEN disk[d.path] ELSE after[d.path]
           edited == Edit(d, content, ProjectedValue(plan, d))
       IN  IF edited = Refused THEN pc' = "refused" /\ UNCHANGED <<before, after>>
           ELSE /\ before' = [before EXCEPT ![d.path] = original]
                /\ after' = [after EXCEPT ![d.path] = edited]
                /\ UNCHANGED pc
    /\ UNCHANGED <<Inputs, disk, staged, evidence, kills, edits>>

Agree ==
    /\ pc = "read" /\ at = Len(policy)
    /\ pc' = IF Consistent(after) THEN "prepared" ELSE "refused"
    /\ UNCHANGED <<Inputs, disk, before, after, staged, evidence, kills, edits, at>>

\* With --check any drift is refused; otherwise content is compared again before anything is written.
Recheck ==
    /\ pc = "prepared"
    /\ pc' \in (IF Drift = {} THEN {"checked"} ELSE {"refused"})
               \cup {IF \A f \in Files : disk[f] = before[f] THEN "stage" ELSE "refused"}
    /\ UNCHANGED <<Inputs, disk, before, after, staged, evidence, kills, edits, at>>

Stage ==
    /\ pc = "stage"
    /\ staged' = Drift
    /\ pc' = "replace"
    /\ UNCHANGED <<Inputs, disk, before, after, evidence, kills, edits, at>>

\* One file more, after a last look at it; a file that changed ends the run and removes the temporaries.
Replace(f) ==
    /\ pc = "replace" /\ f \in staged
    /\ IF disk[f] = before[f]
       THEN disk' = [disk EXCEPT ![f] = after[f]] /\ staged' = staged \ {f} /\ UNCHANGED pc
       ELSE pc' = "refused" /\ staged' = {} /\ UNCHANGED disk
    /\ UNCHANGED <<Inputs, before, after, evidence, kills, edits, at>>

WriteEvidence ==
    /\ pc = "replace" /\ staged = {}
    /\ evidence' = after
    /\ pc' = "done"
    /\ UNCHANGED <<Inputs, disk, before, after, staged, kills, edits, at>>

\* Temporaries of a killed run stay behind under names that no later run reads.
Kill ==
    /\ kills < MaxKills
    /\ pc \in {"read", "prepared", "stage", "replace"}
    /\ kills' = kills + 1
    /\ pc' = "start" /\ before' = Nothing /\ after' = Nothing /\ staged' = {} /\ at' = 0
    /\ UNCHANGED <<Inputs, disk, evidence, edits>>

SomebodyEdits(f) ==
    /\ edits < MaxEdits
    /\ edits' = edits + 1
    /\ disk' \in {[disk EXCEPT ![f].rest = "edited"], [disk EXCEPT ![f].v = "1.0"]}
    /\ UNCHANGED <<Inputs, pc, before, after, staged, evidence, kills, at>>

Step == Start \/ Prepare \/ Agree \/ Recheck \/ Stage \/ (\E f \in Paths : Replace(f)) \/ WriteEvidence
Next == Step \/ Kill \/ \E f \in Paths : SomebodyEdits(f)

Spec == Init /\ [][Next]_vars /\ WF_vars(Step)

-----------------------------------------------------------------------------

(***************************************************************************)
(* The evidence of a sync is true of every declaration at once: no         *)
(* declaration's value was overwritten by a later one, an integer stayed   *)
(* an integer, and beside the declared cells a file holds what it held.    *)
(***************************************************************************)
Holds(d, content) ==
    \A c \in (IF d.format = "npm-lock" THEN {c \in Cells : content[c] # "none"} ELSE {d.field}) :
        content[c] \in {ProjectedValue(plan, d), Text(ProjectedValue(plan, d))}
EvidenceTrue ==
    pc = "done" =>
        /\ \A i \in DOMAIN policy : Holds(policy[i], evidence[policy[i].path])
        /\ edits = 0 => \A i \in DOMAIN policy : LET f == policy[i].path
                                                IN  evidence[f] = disk[f] /\ evidence[f].rest = head[f].rest
        /\ edits = 0 => \A i \in DOMAIN policy :
            LET d == policy[i]
            IN  d.format \in {"json", "toml", "python"} /\ head[d.path][d.field] \in Numbers
                    => evidence[d.path][d.field] \in Numbers

\* The policy can be applied to the commit.
Applicable ==
    /\ ValidPlan /\ VerifyCheckout
    /\ \A f \in Files : Edited(f, head[f]) # Refused
    /\ Consistent([f \in Paths |-> Edited(f, head[f])])

(***************************************************************************)
(* A sync that is killed anywhere, between two files too, can be run       *)
(* again: unless somebody else edits the files, it completes, or the check *)
(* mode reports what is left to write.                                     *)
(***************************************************************************)
Untouched == edits = 0
Synced == pc \in {"done", "checked"} \/ (pc = "refused" /\ Drift # {})
SyncResumes == (Applicable /\ []Untouched) => <>Synced

-----------------------------------------------------------------------------
(* Why it holds *)

Real(content) == DOMAIN content = {"v", "w", "rest"} /\ content.rest \in {"text", "edited"}
TypesOK ==
    /\ policy \in Policies /\ edits \in Nat /\ at \in 0..Len(policy)
    /\ DOMAIN head = Paths /\ DOMAIN disk = Paths /\ DOMAIN before = Paths /\ DOMAIN after = Paths
    /\ \A f \in Paths : Real(head[f]) /\ Real(disk[f])

\* The files of the declarations so far are in memory.
ReadOK == pc # "refused" =>
    \A f \in Paths : IF \E i \in 1..at : policy[i].path = f THEN Real(before[f]) /\ Real(after[f]) ELSE before[f] = Unset

\* All declarations agree on what is written, and only files that were read are.
AgreeOK ==
    /\ pc \in {"prepared", "stage", "replace", "checked", "done"} => at = Len(policy) /\ Consistent(after)
    /\ pc = "replace" => staged \subseteq Files
    /\ pc = "done" => staged = {} /\ evidence = after

\* What an edit leaves alone: the rest of a file, and that a number is one.
Keeps(old, content, typed) ==
    content.rest = old.rest /\ (typed => \A c \in Cells : old[c] \in Numbers => content[c] \in Numbers)
Typed(f) == \E i \in DOMAIN policy : policy[i].path = f /\ policy[i].format \in {"json", "toml", "python"}
Kept(f, content) == Keeps(head[f], content, Typed(f))

\* Unless somebody else edits, a file holds what was read of it until it is replaced.
DiskOK == edits = 0 /\ pc # "refused" => \A f \in Paths :
    /\ Kept(f, disk[f])
    /\ before[f] # Unset => Kept(f, after[f]) /\ disk[f] = IF pc \in {"replace", "done"} /\ f \notin staged THEN after[f] ELSE before[f]

Inv == TypesOK /\ ReadOK /\ AgreeOK /\ DiskOK
=============================================================================
