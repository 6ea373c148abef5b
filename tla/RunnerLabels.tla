---------------------------- MODULE RunnerLabels ----------------------------
(***************************************************************************)
(* scripts/runner_selection.py.  A behaviour chooses the circumstances of  *)
(* a job and evaluates the `runs-on` expression that runner_labels renders *)
(* for it, with GitHub's rule that && and || return one of their operands; *)
(* or it adapts a consumer's workflow files, following the local calls     *)
(* from the declared roots (ConsumerRunnerAdapter.visit).                  *)
(***************************************************************************)
EXTENDS Naturals, Sequences, FiniteSets, SequencesExt

CONSTANTS Files          \* workflow files of a consumer

FilesAssumption == IsFiniteSet(Files)

VARIABLES
  job,                   \* circumstances of a job, or the graph to adapt
  runner,                \* the label list its expression evaluates to
  stack,                 \* files being visited, the innermost first
  todo,                  \* calls that a file on the stack has left to follow
  visited,               \* profile given to each file so far
  result                 \* "busy", "adapted" or "refused"

vars == <<job, runner, stack, todo, visited, result>>

-----------------------------------------------------------------------------
(* GitHub's expressions; an empty string, false and null are all falsy *)

Falsy == "falsy"
Bool(b) == IF b THEN "true" ELSE Falsy
And(a, b) == IF a = Falsy THEN a ELSE b
Or(a, b) == IF a = Falsy THEN b ELSE a

Profiles == {"ci", "automation", "release"}

\* What a job's expression can depend on.  `input` is the explicit runner
\* input: none, its default value, or a pool named by the caller.
Jobs == [profile : Profiles, input : {"none", "default", "pool"}, browser : BOOLEAN, budget : BOOLEAN,
         event : {"pull_request", "pull_request_target", "push", "workflow_dispatch", "merge_group"},
         fork : BOOLEAN, default : BOOLEAN, private : BOOLEAN, linux : BOOLEAN,
         mode : {"github", "k3s"}, labels : {Falsy, "pool"}, hosted : BOOLEAN]

\* runner_labels refuses other combinations of its arguments.
Renders(j) ==
  /\ j.budget => j.profile = "ci"
  /\ j.browser => j.profile = "ci" /\ j.input = "none"
  /\ ~j.browser => j.linux

DefaultBranchEvent(j) == Bool(j.event \in {"push", "workflow_dispatch"} /\ j.default)

TrustedEvent(j) == Or(Bool(j.event = "pull_request" /\ ~j.fork), DefaultBranchEvent(j))

MetadataEvent(j) ==
  Or(Bool(j.event \in {"pull_request", "pull_request_target"} /\ ~j.fork), DefaultBranchEvent(j))

\* The trust condition of the profile, widened by the hosted budget.
Trusted(j) ==
  LET plain == CASE j.profile = "ci" -> TrustedEvent(j)
                 [] j.profile = "automation" -> MetadataEvent(j)
                 [] j.profile = "release" -> DefaultBranchEvent(j)
  IN IF j.budget
     THEN Or(plain, And(Bool(~j.hosted), And(Bool(j.private), Bool(j.event = "workflow_dispatch"))))
     ELSE plain

\* The hosted runner, or no runner at all once hosted runners are disabled.
Fallback(j) ==
  LET label == IF j.browser THEN "[matrix.os]" ELSE "[ubuntu-latest]"
  IN IF j.budget THEN Or(And(Bool(~j.hosted), "[]"), label) ELSE label

\* The selection by variables.
Managed(j) ==
  Or(And(Bool(j.browser => j.linux),
         And(Bool(j.mode = "k3s"), And(Trusted(j), Or(j.labels, "[]")))),
     Fallback(j))

\* Mutant of Selected: the input is honoured wherever the job comes from.
SelectedByAnyone(j) ==
  IF j.input = "none" THEN Managed(j)
  ELSE Or(And(Bool(j.budget => j.hosted), And(Bool(j.input = "pool"), "pool")), Managed(j))

\* An explicit input of a private or trusted caller comes first.
Selected(j) ==
  IF j.input = "none" THEN Managed(j)
  ELSE Or(And(Bool(j.budget => j.hosted),
              And(Or(Bool(j.private), Trusted(j)), And(Bool(j.input = "pool"), "pool"))),
          Managed(j))

-----------------------------------------------------------------------------
(* ConsumerRunnerAdapter: roots carry a profile, local calls inherit it *)

\* A consumer's files: the declared roots with their profiles, the calls.
Consumers == [roots : [Files -> {"ci", "release", "none"}], calls : SUBSET (Files \X Files)]

None == "none"
Called(f) == {g \in Files : <<f, g>> \in job.calls}
Roots == {f \in Files : job.roots[f] # None}

Init ==
  /\ \/ job \in {j \in Jobs : Renders(j)} /\ result = "job"
     \/ job \in Consumers /\ result = "busy"
  /\ runner = Falsy
  /\ stack = <<>>
  /\ todo = [f \in Files |-> {}]
  /\ visited = [f \in Files |-> None]

\* The job is queued: GitHub evaluates its expression.
Queue ==
  /\ result = "job"
  /\ runner' = Selected(job)
  /\ result' = "queued"
  /\ UNCHANGED <<job, stack, todo, visited>>

Profile(f, inherited) == IF job.roots[f] # None THEN job.roots[f] ELSE inherited

\* visit refuses a recursive call, and a second visit with another profile.
Conflicts(f, inherited) ==
  Contains(stack, f) \/ (visited[f] # None /\ visited[f] # Profile(f, inherited))

\* visit: a file is adapted once and its calls are followed; `left` are the
\* calls that the files on the stack have left.
Visit(f, inherited, left) ==
  \/ Conflicts(f, inherited) /\ result' = "refused" /\ todo' = left /\ UNCHANGED <<stack, visited>>
  \/ /\ ~Conflicts(f, inherited)
     /\ IF visited[f] # None
        THEN todo' = left /\ UNCHANGED <<stack, visited>>
        ELSE /\ visited' = [visited EXCEPT ![f] = Profile(f, inherited)]
             /\ stack' = <<f>> \o stack
             /\ todo' = [left EXCEPT ![f] = Called(f)]
     /\ UNCHANGED result

\* render_consumer takes the next root.
VisitRoot ==
  /\ result = "busy" /\ stack = <<>>
  /\ \E f \in Roots : visited[f] = None /\ Visit(f, None, todo)
  /\ UNCHANGED <<job, runner>>

\* The file that is being visited follows its next local call.
FollowCall ==
  /\ result = "busy" /\ stack # <<>>
  /\ \E f \in todo[Head(stack)] :
       Visit(f, visited[Head(stack)], [todo EXCEPT ![Head(stack)] = @ \ {f}])
  /\ UNCHANGED <<job, runner>>

\* adapt_jobs of the file is over.
Leave ==
  /\ result = "busy" /\ stack # <<>>
  /\ todo[Head(stack)] = {}
  /\ stack' = Tail(stack)
  /\ UNCHANGED <<job, runner, todo, visited, result>>

Finish ==
  /\ result = "busy" /\ stack = <<>>
  /\ \A f \in Roots : visited[f] # None
  /\ result' = "adapted"
  /\ UNCHANGED <<job, runner, stack, todo, visited>>

Next == Queue \/ VisitRoot \/ FollowCall \/ Leave \/ Finish

Spec == Init /\ [][Next]_vars

-----------------------------------------------------------------------------
TypeOK ==
  /\ runner \in {Falsy, "pool", "[]", "[ubuntu-latest]", "[matrix.os]"}
  /\ stack \in Seq(Files)
  /\ todo \in [Files -> SUBSET Files]
  /\ visited \in [Files -> {"ci", "release", None}]
  /\ result \in {"job", "queued", "busy", "adapted", "refused"}

PullRequests == {"pull_request", "pull_request_target"}

\* runner_labels: in a public repository no variable, input or budget setting
\* lets a fork, a merge queue or another branch onto a pool, and release pools
\* take no pull request at all; in a private one only an explicit input of its
\* own caller, or its own dispatch once hosted runners are disabled, can do
\* more.  With hosted runners disabled a budgeted job never gets one.
RoutedByTrust ==
  result = "queued" =>
    /\ (runner = "pool" /\ ~(job.private /\ (job.input = "pool" \/ (job.budget /\ ~job.hosted))))
         => /\ job.event \in PullRequests => ~job.fork /\ job.profile # "release"
            /\ job.event \notin PullRequests => job.event # "merge_group" /\ job.default
            /\ job.event = "pull_request_target" => job.profile = "automation"
    /\ (job.budget /\ ~job.hosted) => runner \in {"pool", "[]"}

\* The profiles that a consistent routing gives, for the files in `seen`.
Consistent(p, seen) ==
  /\ \A f \in Roots : p[f] = job.roots[f]
  /\ \A c \in job.calls : c[1] \in seen => p[c[2]] = Profile(c[2], p[c[1]])

\* The files that calls reach from a set of files: the least set that has them
\* and what its members call.
Closed(calls, fs) == \A c \in calls : c[1] \in fs => c[2] \in fs
Reach(calls, fs) == {g \in Files : \A all \in SUBSET Files : fs \subseteq all /\ Closed(calls, all) => g \in all}

\* ConsumerRunnerAdapter: whatever the order of roots and calls, a consumer is
\* adapted exactly if no file calls itself and one profile fits every path to
\* a file, and then every file has that profile.
Adaptable ==
  /\ \A f \in Reach(job.calls, Roots) : f \notin Reach(job.calls, Called(f))
  /\ \E p \in [Files -> {"ci", "release", None}] : Consistent(p, Reach(job.calls, Roots))
AdaptedIfConsistent ==
  result \in {"adapted", "refused"} =>
    /\ result = "adapted" <=> Adaptable
    /\ result = "adapted" =>
         Consistent(visited, Reach(job.calls, Roots)) /\ \A f \in Reach(job.calls, Roots) : visited[f] # None

-----------------------------------------------------------------------------
(***************************************************************************)
(* Why it holds.  A file that the visit has left behind calls only such    *)
(* files, so what it reaches was left before it and does not hold the file *)
(* itself; a file on the stack reaches all that were put on it later.  And *)
(* no consistent routing gives a visited file another profile.             *)
(***************************************************************************)
Visited == {f \in Files : visited[f] # None}
OnStack == {stack[k] : k \in 1 .. Len(stack)}
Left == Visited \ OnStack

\* A call that was followed led to a file with the profile that it inherits.
Agrees(f, g) == visited[g] # None /\ visited[g] = Profile(g, visited[f])

LeftOK ==
  \A f \in Left :
    /\ \A g \in Called(f) : g \in Left /\ Agrees(f, g)
    /\ f \notin Reach(job.calls, Called(f))

StackOK ==
  /\ OnStack \subseteq Visited
  /\ \A k, l \in 1 .. Len(stack) : k < l => stack[k] # stack[l] /\ stack[k] \in Reach(job.calls, Called(stack[l]))
  /\ \A k \in 1 .. Len(stack) : \A g \in Called(stack[k]) \ todo[stack[k]] :
       Agrees(stack[k], g) /\ (g \in Left \/ (k > 1 /\ g = stack[k - 1]))
  /\ \A k \in 1 .. Len(stack) : todo[stack[k]] \subseteq Called(stack[k])

VisitedOK ==
  /\ Visited \subseteq Reach(job.calls, Roots)
  /\ \A f \in Visited : job.roots[f] # None => visited[f] = job.roots[f]
  /\ \A p \in [Files -> {"ci", "release", None}] :
       Consistent(p, Reach(job.calls, Roots)) => \A f \in Visited : visited[f] = p[f]

Inv ==
  /\ TypeOK
  /\ result \in {"job", "queued"} => job \in Jobs /\ Renders(job)
  /\ result = "queued" => runner = Selected(job)
  /\ result \in {"busy", "adapted", "refused"} => job \in Consumers
  /\ result = "busy" => LeftOK /\ StackOK /\ VisitedOK
  /\ AdaptedIfConsistent
=============================================================================
