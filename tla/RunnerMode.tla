----------------------------- MODULE RunnerMode -----------------------------
(***************************************************************************)
(* scripts/runner_mode.py: invocations that switch one private repository  *)
(* between hosted runners and its own pools by writing CI_RUNNER_MODE.     *)
(* GitHub has no compare-and-swap for variables, so an invocation reads    *)
(* its evidence (main, a smoke run, the runner groups, the jobs of the     *)
(* run) twice and the variable once more before it writes.  Others change  *)
(* all of these at any time.                                               *)
(***************************************************************************)
EXTENDS Naturals

CONSTANTS
  Invocations,   \* runs of the tool
  Consumers,     \* configured repositories
  App,           \* the repository being switched
  Outsider,      \* a repository that is not configured
  MaxOutside     \* bound on changes made by others

RunnerModeAssumption == App \in Consumers /\ Outsider \notin Consumers /\ MaxOutside \in Nat

VARIABLES
  manifest,      \* the operator's configuration: pools and group policies
  variable,      \* CI_RUNNER_MODE with the version that its timestamps show
  main,          \* commit at the tip of main
  groups,        \* the organization's runner groups
  smoke,         \* the smoke run the operator names
  pc, request,   \* control point and arguments of an invocation
  seen,          \* the variable at its first look
  evidence,      \* what its first evidence check returned
  found,         \* what its current evidence check has read so far
  unchecked,     \* groups its current check has not read
  late,          \* history: what changed after its second look
  outside

github == <<variable, main, groups, smoke, outside>>
vars == <<manifest, github, pc, request, seen, evidence, found, unchecked, late>>

Groups == {"ci", "release"}
\* The repositories of a group are read, and change, apart from its settings.
Access == [ci |-> "ciAccess", release |-> "releaseAccess"]
Items == Groups \cup {"ciAccess", "releaseAccess", "variable", "main", "smoke"}

\* A manifest as written by the operator: the job smoke-linux uses the first
\* group, an optional job smoke-release the second; for each group, who may
\* use it and whether it is restricted to the two reviewed workflows.
Manifests == [pools : {{"ci"}, {"ci", "release"}},
              group : [Groups -> [repositories : SUBSET Consumers, restricted : BOOLEAN]]]

\* configure: selections are not empty, every pool admits its consumer, and a
\* release pool is restricted.
Configured(m) ==
  /\ \A g \in Groups : m.group[g].repositories # {}
  /\ \A g \in m.pools : App \in m.group[g].repositories
  /\ "release" \in m.pools => m.group["release"].restricted

\* A runner group of the organization.
GroupStates == [id : 1 .. 2, repositories : SUBSET (Consumers \cup {Outsider}),
                public : BOOLEAN, restricted : BOOLEAN]

Values == {"unset", "github", "k3s"}
Evidence == [attempt : 1 .. 2, ids : [Groups -> 0 .. 2]]
NoEvidence == [attempt |-> 1, ids |-> [g \in Groups |-> 0]]

\* The smoke run: its latest attempt, and which group each job ran in.
SmokeRuns == [sha : Nat, attempt : 1 .. 2, passed : BOOLEAN, ids : [Groups -> 1 .. 2], recent : BOOLEAN]

Init ==
  /\ manifest \in Manifests
  /\ variable = [value |-> "unset", version |-> 0]
  /\ main = 0
  /\ groups = [g \in Groups |->
       [id |-> 1, repositories |-> manifest.group[g].repositories, public |-> FALSE,
        restricted |-> manifest.group[g].restricted]]
  /\ smoke = [sha |-> 0, attempt |-> 1, passed |-> TRUE, ids |-> [g \in Groups |-> 1], recent |-> TRUE]
  /\ pc = [i \in Invocations |-> "load"]
  /\ request \in [Invocations -> {"github", "k3s"}]
  /\ seen = [i \in Invocations |-> variable]
  /\ evidence = [i \in Invocations |-> NoEvidence]
  /\ found = [i \in Invocations |-> NoEvidence]
  /\ unchecked = [i \in Invocations |-> {}]
  /\ late = [i \in Invocations |-> {}]
  /\ outside = 0

-----------------------------------------------------------------------------
Goto(i, p) == pc' = [pc EXCEPT ![i] = p]

\* The second evidence check and what follows it.
Second(i) == pc[i] \in {"main2", "run2", "list2", "groups2", "jobs2", "latest", "write"}

\* A change is late for an invocation that has begun its second look.
Changed(item) ==
  late' = [i \in Invocations |-> IF Second(i) THEN late[i] \cup {item} ELSE late[i]]

\* Looking again at an item in the second check leaves nothing late about it.
Looked(i, items) == late' = [late EXCEPT ![i] = IF Second(i) THEN @ \ items ELSE @]

Quiet == UNCHANGED <<manifest, github, request>>

\* PreflightError, a failed or timed out gh call.
Refuse(i) ==
  /\ pc[i] \notin {"refused", "done", "planned"}
  /\ Goto(i, "refused")
  /\ Quiet /\ UNCHANGED <<seen, evidence, found, unchecked, late>>

\* load_config
LoadConfig(i) ==
  /\ pc[i] = "load"
  /\ Configured(manifest)
  /\ Goto(i, "state")
  /\ Quiet /\ UNCHANGED <<seen, evidence, found, unchecked, late>>

\* run_switch: the variable as it is, then the evidence if k3s is requested.
RepoState(i) ==
  /\ pc[i] = "state"
  /\ seen' = [seen EXCEPT ![i] = variable]
  /\ Goto(i, IF request[i] = "k3s" THEN "main1" ELSE "plan")
  /\ Quiet /\ UNCHANGED <<evidence, found, unchecked, late>>

\* reviewed_main: the operator reviewed commit 0.
ReviewedMain(i) ==
  /\ pc[i] \in {"main1", "main2"}
  /\ main = 0
  /\ Goto(i, IF pc[i] = "main1" THEN "run1" ELSE "run2")
  /\ Looked(i, {"main"})
  /\ Quiet /\ UNCHANGED <<seen, evidence, found, unchecked>>

\* verify_smoke up to the groups: the run, its age and its attempt.
SmokeRun(i) ==
  /\ pc[i] \in {"run1", "run2"}
  /\ smoke.sha = 0 /\ smoke.passed /\ smoke.recent
  /\ found' = [found EXCEPT ![i] = [NoEvidence EXCEPT !.attempt = smoke.attempt]]
  /\ Goto(i, IF pc[i] = "run1" THEN "list1" ELSE "list2")
  /\ Looked(i, {"smoke"})
  /\ Quiet /\ UNCHANGED <<seen, evidence, unchecked>>

\* selected_group and verify_release_workflows.
SettingsHold(g) == ~groups[g].public /\ (manifest.group[g].restricted => groups[g].restricted)

\* All groups are listed in one request; their settings are taken from it.
ListGroups(i) ==
  /\ pc[i] \in {"list1", "list2"}
  /\ \A g \in manifest.pools : SettingsHold(g)
  /\ found' = [found EXCEPT ![i].ids = [g \in Groups |-> IF g \in manifest.pools THEN groups[g].id ELSE 0]]
  /\ unchecked' = [unchecked EXCEPT ![i] = manifest.pools]
  /\ Goto(i, IF pc[i] = "list1" THEN "groups1" ELSE "groups2")
  /\ Looked(i, manifest.pools)
  /\ Quiet /\ UNCHANGED <<seen, evidence>>

AccessHolds(g) ==
  /\ App \in groups[g].repositories
  /\ groups[g].repositories \subseteq manifest.group[g].repositories

\* verify_group_repositories, one group after the other and by the listed id:
\* a group that was deleted meanwhile is not found.
VerifyGroup(i, g) ==
  /\ pc[i] \in {"groups1", "groups2"}
  /\ g \in unchecked[i]
  /\ groups[g].id = found[i].ids[g] /\ AccessHolds(g)
  /\ unchecked' = [unchecked EXCEPT ![i] = @ \ {g}]
  /\ Goto(i, IF unchecked'[i] # {} THEN pc[i] ELSE IF pc[i] = "groups1" THEN "jobs1" ELSE "jobs2")
  /\ Looked(i, {Access[g]})
  /\ Quiet /\ UNCHANGED <<seen, evidence, found>>

\* The jobs of that attempt ran in the groups that have these names now.
JobsHold(i) ==
  /\ smoke.attempt = found[i].attempt => smoke.passed
  /\ \A g \in manifest.pools : smoke.ids[g] = found[i].ids[g]

\* The end of the first evidence check.
FirstEvidence(i) ==
  /\ pc[i] = "jobs1"
  /\ JobsHold(i)
  /\ evidence' = [evidence EXCEPT ![i] = found[i]]
  /\ Goto(i, "plan")
  /\ Quiet /\ UNCHANGED <<seen, found, unchecked, late>>

\* run_switch without --apply: a dry run ends with the plan.
DryRun(i) ==
  /\ pc[i] = "plan"
  /\ Goto(i, "planned")
  /\ Quiet /\ UNCHANGED <<seen, evidence, found, unchecked, late>>

\* Mutant of Apply: the evidence of the plan is trusted.
ApplyPlan(i) ==
  /\ pc[i] = "plan"
  /\ Goto(i, "latest")
  /\ Quiet /\ UNCHANGED <<seen, evidence, found, unchecked, late>>

\* apply_mode begins with the evidence once more.
Apply(i) ==
  /\ pc[i] = "plan"
  /\ Goto(i, IF request[i] = "k3s" THEN "main2" ELSE "latest")
  /\ Quiet /\ UNCHANGED <<seen, evidence, found, unchecked, late>>

\* It has to be the same evidence.
SecondEvidence(i) ==
  /\ pc[i] = "jobs2"
  /\ JobsHold(i)
  /\ found[i] = evidence[i]
  /\ Goto(i, "latest")
  /\ Quiet /\ UNCHANGED <<seen, evidence, found, unchecked, late>>

\* The variable as a whole, with its times, is what was seen first.
Unmoved(i) == variable = seen[i]

\* The last read before the write.
ReadLatest(i) ==
  /\ pc[i] = "latest"
  /\ Unmoved(i)
  /\ Goto(i, "write")
  /\ Looked(i, {"variable"})
  /\ Quiet /\ UNCHANGED <<seen, evidence, found, unchecked>>

Store(value) == variable' = [value |-> value, version |-> variable.version + 1]

\* POST creates the variable and PATCH changes it; each is refused when the
\* variable is, or is not, there by now.  The answer may be lost.
Write(i) ==
  /\ pc[i] = "write"
  /\ (seen[i].value = "unset") = (variable.value = "unset")
  /\ Store(request[i])
  /\ Changed("variable")
  /\ pc' = [pc EXCEPT ![i] = "readback"]
  /\ UNCHANGED <<manifest, main, groups, smoke, outside, request, seen, evidence, found, unchecked>>

\* The readback has to show the value that was written.
Readback(i) ==
  /\ pc[i] = "readback"
  /\ variable.value = request[i]
  /\ Goto(i, "done")
  /\ Quiet /\ UNCHANGED <<seen, evidence, found, unchecked, late>>

-----------------------------------------------------------------------------
(* Others *)

Elsewhere == outside < MaxOutside /\ outside' = outside + 1
NoInvocation == UNCHANGED <<manifest, pc, request, seen, evidence, found, unchecked>>

ChangeVariable ==
  /\ Elsewhere
  /\ \E v \in Values \ {variable.value} : Store(v)
  /\ Changed("variable")
  /\ NoInvocation /\ UNCHANGED <<main, groups, smoke>>

PushMain ==
  /\ Elsewhere
  /\ main' = 1 - main
  /\ Changed("main")
  /\ NoInvocation /\ UNCHANGED <<variable, groups, smoke>>

\* An owner edits a group, or deletes it and creates one with its name.
ChangeGroup(g) ==
  /\ Elsewhere
  /\ \E next \in {[groups[g] EXCEPT !.public = ~@], [groups[g] EXCEPT !.restricted = ~@],
                  [groups[g] EXCEPT !.id = 3 - @]} :
       groups' = [groups EXCEPT ![g] = next]
  /\ Changed(g)
  /\ NoInvocation /\ UNCHANGED <<variable, main, smoke>>

\* An owner opens a group to another repository, or closes it again.
ChangeAccess(g) ==
  /\ Elsewhere
  /\ \E next \in {groups[g].repositories \cup {Outsider}, manifest.group[g].repositories} \ {groups[g].repositories} :
       groups' = [groups EXCEPT ![g].repositories = next]
  /\ Changed(Access[g])
  /\ NoInvocation /\ UNCHANGED <<variable, main, smoke>>

\* The smoke run is run again, in the groups as they are now, or gets old.
ChangeSmoke ==
  /\ Elsewhere
  /\ \/ /\ smoke.attempt = 1
        /\ \E ok \in BOOLEAN :
             smoke' = [smoke EXCEPT !.attempt = 2, !.passed = ok,
                                    !.ids = [g \in Groups |-> groups[g].id]]
     \/ smoke.recent /\ smoke' = [smoke EXCEPT !.recent = FALSE]
  /\ Changed("smoke")
  /\ NoInvocation /\ UNCHANGED <<variable, main, groups>>

Step(i) ==
  \/ LoadConfig(i) \/ RepoState(i) \/ ReviewedMain(i) \/ SmokeRun(i) \/ ListGroups(i)
  \/ \E g \in Groups : VerifyGroup(i, g)
  \/ FirstEvidence(i) \/ DryRun(i) \/ Apply(i) \/ SecondEvidence(i)
  \/ ReadLatest(i) \/ Write(i) \/ Readback(i) \/ Refuse(i)

Others == ChangeVariable \/ PushMain \/ ChangeSmoke \/ \E g \in Groups : ChangeGroup(g) \/ ChangeAccess(g)

Next == Others \/ \E i \in Invocations : Step(i)

Spec == Init /\ [][Next]_vars

-----------------------------------------------------------------------------
Positions ==
  {"load", "state", "main1", "run1", "list1", "groups1", "jobs1", "plan", "main2", "run2", "list2", "groups2", "jobs2",
   "latest", "write", "readback", "planned", "done", "refused"}

TypeOK ==
  /\ manifest \in Manifests
  /\ variable \in [value : Values, version : Nat]
  /\ main \in 0 .. 1
  /\ groups \in [Groups -> GroupStates]
  /\ smoke \in SmokeRuns
  /\ pc \in [Invocations -> Positions]
  /\ request \in [Invocations -> {"github", "k3s"}]
  /\ seen \in [Invocations -> [value : Values, version : Nat]]
  /\ evidence \in [Invocations -> Evidence] /\ found \in [Invocations -> Evidence]
  /\ unchecked \in [Invocations -> SUBSET Groups]
  /\ late \in [Invocations -> SUBSET Items]

Writing(i) == pc[i] = "write" /\ pc'[i] = "readback"

\* apply_mode: whatever was changed before the second look is not missed.  A
\* write replaces only the variable that was shown, and an activation finds
\* the reviewed main, a recent passing smoke run that ran in the groups of
\* today, and every required group closed to other repositories, except for
\* what changed after the tool looked for the second time.
WritesCurrent ==
  \A i \in Invocations : Writing(i) =>
    /\ "variable" \in late[i] \/ variable = seen[i]
    /\ request[i] = "k3s" =>
         /\ "main" \in late[i] \/ main = 0
         /\ "smoke" \in late[i] \/
              (smoke.passed /\ smoke.recent /\
               \A g \in manifest.pools : g \in late[i] \/ smoke.ids[g] = groups[g].id)
         /\ \A g \in manifest.pools :
              /\ g \in late[i] \/ (~groups[g].public /\ (g = "release" => groups[g].restricted))
              /\ Access[g] \in late[i] \/ Outsider \notin groups[g].repositories
SwitchIsCurrent == [][WritesCurrent]_vars

-----------------------------------------------------------------------------
(***************************************************************************)
(* Why it holds.  What an invocation has looked at in its second check is  *)
(* as it was then, or it changed since and is late.                        *)
(***************************************************************************)
Holds(i, item, condition) == item \in late[i] \/ condition

\* Where an activation is, or comes from when it is about to write.
After(i, positions) == pc[i] \in positions \/ (pc[i] \in {"latest", "write"} /\ request[i] = "k3s")

ConfiguredOK(i) == pc[i] \notin {"load", "refused"} => Configured(manifest)

\* A group that was listed is the one the jobs are compared with.
GroupOK(i, g) == SettingsHold(g) /\ groups[g].id = found[i].ids[g]

LooksOK(i) ==
  /\ pc[i] = "write" => Holds(i, "variable", variable = seen[i])
  /\ After(i, {"run2", "list2", "groups2", "jobs2"}) => Holds(i, "main", main = 0)
  /\ After(i, {"list2", "groups2", "jobs2"}) => Holds(i, "smoke", smoke.passed /\ smoke.recent)
  /\ After(i, {"groups2", "jobs2"}) =>
       /\ \A g \in manifest.pools : Holds(i, g, GroupOK(i, g))
       /\ \A g \in manifest.pools \ unchecked[i] : Holds(i, Access[g], AccessHolds(g))
  /\ After(i, {"jobs2"}) => unchecked[i] = {}
  /\ After(i, {}) => Holds(i, "smoke", \A g \in manifest.pools : smoke.ids[g] = found[i].ids[g])

Inv == TypeOK /\ \A i \in Invocations : ConfiguredOK(i) /\ LooksOK(i)
=============================================================================
