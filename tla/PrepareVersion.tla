--------------------------- MODULE PrepareVersion ---------------------------
(***************************************************************************)
(* scripts/prepare_version.py: the next base version is chosen from the    *)
(* tags of the remote repository, every declared version file is moved to  *)
(* it, and the change is pushed to the topic branch of that version, with  *)
(* one pull request.  A topic left by an earlier preparation is taken over *)
(* if it holds nothing but generated version changes.                      *)
(*                                                                         *)
(* A tree of the repository is the number of unrelated changes on main     *)
(* that it contains, its base version, and whether it holds a change that  *)
(* no preparation makes.  A branch is the newest commit of main under it,  *)
(* by its tree, then the trees of its own commits: branches of the same    *)
(* trees are one, so a push is refused at most as often as by git.         *)
(***************************************************************************)
EXTENDS Naturals, FiniteSets, Sequences, SequencesExt

CONSTANTS
    Preparers,       \* concurrent preparations
    Limit,           \* greatest component of a version
    MaxEvents        \* outside events and interruptions in one behaviour

\* The versions that occur below exist.
LimitAssumption == Limit \in Nat /\ Limit >= 2

VARIABLES
    main,            \* the default branch: a tree
    tags, reachable, \* stable tags of the remote, and those that main contains
    topic, pulls,    \* topic branches of the remote, and open pull requests by version
    pc, work,        \* each preparation's position and local values
    events

vars == <<main, tags, reachable, topic, pulls, pc, work, events>>

Versions == (0..Limit) \X (0..Limit) \X (0..Limit)
Base == <<0, 1, 0>>
Tree(changes, base, foreign) == [changes |-> changes, base |-> base, foreign |-> foreign]
Absent == <<>>                          \* no branch
Own(c) == IF c = Absent THEN <<>> ELSE Tail(c)
Kinds == {"next-patch", "patch", "minor", "major", "requested"}

\* map(int, value.split(".")): versions are compared number by number.
Less(a, b) ==
    \/ a[1] < b[1]
    \/ a[1] = b[1] /\ a[2] < b[2]
    \/ a[1] = b[1] /\ a[2] = b[2] /\ a[3] < b[3]
WithPatch(v, n) == <<v[1], v[2], n>>
Newest(vs) == CHOOSE v \in vs : \A w \in vs : ~Less(v, w)

BumpedVersion(current, released, kind) ==
    CASE kind = "next-patch" -> IF released = {} \/ Less(Newest(released), current) THEN current
                                ELSE WithPatch(Newest(released), Newest(released)[3] + 1)
      [] kind = "major" -> <<current[1] + 1, 0, 0>>
      [] kind = "minor" -> <<current[1], current[2] + 1, 0>>
      [] OTHER -> WithPatch(current, current[3] + 1)

\* The first free patch number from the selected one on.
FirstFree(v, occupied) ==
    WithPatch(v, Min({n \in v[3]..(v[3] + Cardinality(occupied)) : WithPatch(v, n) \notin occupied}))

\* Tags that main does not contain are not looked at.
Reachable(released, occupied) == released

Occupied(released, occupied) == occupied

\* The chosen version, or "refused".
ChooseVersion(current, released, occupied, kind, requested) ==
    LET selected == IF kind = "requested" THEN requested ELSE BumpedVersion(current, released, kind)
        used == Occupied(released, occupied)
    IN  IF Less(selected, current) \/ (kind # "next-patch" /\ selected \in used) THEN <<>>
        ELSE IF kind = "next-patch" THEN FirstFree(selected, used) ELSE selected

\* The version that the checkout's declared version file holds.
CurrentBase(tree) == tree.base

NoWork == [checkout |-> Tree(0, Base, FALSE), fetched |-> {}, occupied |-> {}, kind |-> "next-patch", target |-> <<>>,
           existing |-> FALSE, listed |-> Absent, seen |-> Absent]

\* Topics left by an earlier preparation on an older main: with its pull request, or with an
\* edit that somebody pushed and took back.
LeftPrepared == <<Tree(0, Base, FALSE), Tree(0, <<0, 1, 1>>, FALSE)>>
LeftTakenBack == LeftPrepared \o <<Tree(0, <<0, 1, 1>>, TRUE), Tree(0, <<0, 1, 1>>, FALSE)>>

Init ==
    /\ main = Tree(1, Base, FALSE)
    /\ \E old, other \in {{}, {<<0, 0, 1>>}, {Base}, {<<0, 1, 1>>}} : reachable = old /\ tags = old \cup other
    /\ \E left \in {Absent, LeftPrepared, LeftTakenBack} :
         /\ topic = [v \in Versions |-> IF v = <<0, 1, 1>> THEN left ELSE Absent]
         /\ pulls = IF left = LeftPrepared THEN {<<0, 1, 1>>} ELSE {}
         /\ left # Absent => tags = reachable           \* fewer combinations
    /\ pc = [p \in Preparers |-> "idle"]
    /\ work = [p \in Preparers |-> NoWork]
    /\ events = 0

-----------------------------------------------------------------------------
(* One preparation.                                                        *)

Remote == <<main, tags, reachable, topic, pulls, events>>
To(p, where) == pc' = [pc EXCEPT ![p] = where]

Begin(p) ==
    /\ pc[p] = "idle"
    /\ work' = [work EXCEPT ![p] = [NoWork EXCEPT !.checkout = main]]
    /\ To(p, "fetch")
    /\ UNCHANGED Remote

\* The refreshed history has the checkout as its newest commit.
Fetch(p) ==
    /\ pc[p] = "fetch"
    /\ To(p, IF work[p].checkout = main THEN "tags" ELSE "refused")
    /\ work' = [work EXCEPT ![p].fetched = reachable]
    /\ UNCHANGED Remote

\* One read of the remote's tags gives both the reachable history and the occupied names.
AdvertisedTags(p) ==
    /\ pc[p] = "tags"
    /\ \E kind \in Kinds, requested \in {<<0, 1, 0>>, <<0, 2, 0>>} :
        LET target == ChooseVersion(CurrentBase(work[p].checkout), work[p].fetched \cap tags, tags, kind, requested)
        IN  /\ kind # "requested" => requested = Base
            /\ target = <<>> \/ target \in Versions
            /\ work' = [work EXCEPT ![p].occupied = tags, ![p].kind = kind, ![p].target = target]
            /\ \/ To(p, IF target = <<>> THEN "refused" ELSE "list")
               \/ target # <<>> /\ To(p, "done")         \* a dry run, or an update of local files
    /\ UNCHANGED Remote

ListPulls(p) ==
    /\ pc[p] = "list"
    /\ work' = [work EXCEPT ![p].existing = work[p].target \in pulls, ![p].listed = topic[work[p].target]]
    /\ To(p, "topic")
    /\ UNCHANGED Remote

\* The topic's tree is the common ancestor's with the version fields moved, and nothing else.
\* Trees are compared, not the commits between: an edit that was taken back passes.
VerifyOwnedTopic(p, c) ==
    LET ancestor == IF Head(c).changes < work[p].checkout.changes THEN Head(c) ELSE work[p].checkout
    IN  Last(c) = [ancestor EXCEPT !.base = work[p].target]

RemoteTopic(p) ==
    /\ pc[p] = "topic"
    /\ LET now == topic[work[p].target]
       IN  /\ work' = [work EXCEPT ![p].seen = now]
           /\ To(p, IF work[p].existing /\ (now = Absent \/ work[p].listed # now) THEN "refused"
                    ELSE IF now # Absent /\ ~VerifyOwnedTopic(p, now) THEN "refused"
                    ELSE "build")
    /\ UNCHANGED Remote

\* The files of a worktree of the checkout's commit are moved to the version.
Prepared(p) == [work[p].checkout EXCEPT !.base = work[p].target]

Build(p) ==
    /\ pc[p] = "build"
    /\ To(p, IF ~work[p].existing /\ Prepared(p) = work[p].checkout THEN "done"
             ELSE IF work[p].seen # Absent /\ Last(work[p].seen) = Prepared(p) THEN "pull" ELSE "push")
    /\ UNCHANGED <<Remote, work>>

\* The new commit has the verified topic and the checkout as parents.
NewCommit(p) == <<work[p].checkout>> \o Own(work[p].seen) \o <<Prepared(p)>>

\* Without force, a push moves a branch only onward: it creates one, or goes on from each commit the branch has.
Onward(new, old) ==
    old # Absent => Head(old).changes <= Head(new).changes /\ IsStrictPrefix(Own(old), Own(new))
Pushable(p) == Onward(NewCommit(p), topic[work[p].target])

Push(p) ==
    /\ pc[p] = "push"
    /\ IF Pushable(p) THEN topic' = [topic EXCEPT ![work[p].target] = NewCommit(p)] /\ To(p, "pull")
       ELSE UNCHANGED topic /\ To(p, "refused")
    /\ UNCHANGED <<main, tags, reachable, pulls, work, events>>

\* gh pr create fails if the branch has an open pull request, does not exist or has no commit of its own.
CreatePull(p) ==
    /\ pc[p] = "pull"
    /\ LET v == work[p].target
       IN  IF work[p].existing THEN To(p, "done") /\ UNCHANGED pulls
           ELSE IF v \in pulls \/ Own(topic[v]) = <<>> THEN To(p, "refused") /\ UNCHANGED pulls
           ELSE To(p, "done") /\ pulls' = pulls \cup {v}
    /\ UNCHANGED <<main, tags, reachable, topic, work, events>>

Step(p) ==
    \/ Begin(p) \/ Fetch(p) \/ AdvertisedTags(p) \/ ListPulls(p) \/ RemoteTopic(p)
    \/ Build(p) \/ Push(p) \/ CreatePull(p)

-----------------------------------------------------------------------------

Event == events < MaxEvents /\ events' = events + 1

\* A command fails or the process is killed, and somebody starts it again; a push may have taken effect.
Interrupt(p) ==
    /\ Event
    /\ pc[p] # "idle"
    /\ To(p, "idle")
    /\ work' = [work EXCEPT ![p] = NoWork]
    /\ topic' \in {topic} \cup (IF pc[p] = "push" /\ Pushable(p)
                                THEN {[topic EXCEPT ![work[p].target] = NewCommit(p)]} ELSE {})
    /\ UNCHANGED <<main, tags, reachable, pulls>>

\* Main takes an unrelated change or a preparation, or a stable version is tagged on main or elsewhere.
RepositoryEvent ==
    /\ Event
    /\ \/ /\ main' = [main EXCEPT !.changes = @ + 1]
          /\ UNCHANGED <<tags, reachable, topic, pulls>>
       \/ \E v \in pulls :
            /\ main' = Tree(main.changes + 1, v, FALSE)       \* main's content is reviewed
            /\ pulls' = pulls \ {v} /\ topic' = [topic EXCEPT ![v] = Absent]
            /\ UNCHANGED <<tags, reachable>>
       \/ /\ tags' = tags \cup {main.base} /\ reachable' = reachable \cup {main.base}
          /\ UNCHANGED <<main, topic, pulls>>
       \/ \E v \in {Base, <<0, 1, 1>>, <<0, 2, 0>>} : tags' = tags \cup {v} /\ UNCHANGED <<main, reachable, topic, pulls>>
    /\ UNCHANGED <<pc, work>>

\* Somebody pushes commits of their own to a topic branch, which they may take back at once or later.
ForeignCommits(v) ==
    LET edit == Tree(main.changes, v, TRUE)
        line == IF topic[v] = Absent THEN <<main>> ELSE topic[v]
    IN  {<<edit>>} \cup {<<t>> : t \in ToSet(line)} \cup {<<edit, t>> : t \in ToSet(line)}
ForeignPush(v) ==
    /\ Event
    /\ topic' \in
         {[topic EXCEPT ![v] = (IF @ = Absent THEN <<main>> ELSE @) \o new] : new \in ForeignCommits(v)}
         \cup IF topic[v] = Absent THEN {[topic EXCEPT ![v] = <<main>>]} ELSE {}
    /\ UNCHANGED <<main, tags, reachable, pulls, pc, work>>

\* Somebody deletes a topic branch, which closes its pull request.
Delete(v) ==
    /\ Event
    /\ topic[v] # Absent
    /\ topic' = [topic EXCEPT ![v] = Absent] /\ pulls' = pulls \ {v}
    /\ UNCHANGED <<main, tags, reachable, pc, work>>

Next ==
    \/ \E p \in Preparers : Step(p) \/ Interrupt(p)
    \/ RepositoryEvent
    \/ \E v \in {<<0, 1, 1>>, <<0, 2, 0>>} : ForeignPush(v) \/ Delete(v)
Spec == Init /\ [][Next]_vars

-----------------------------------------------------------------------------

(***************************************************************************)
(* A chosen version is no tag of the remote, reachable or not, is not      *)
(* below the active base, and without an explicit request is above every   *)
(* reachable stable tag.                                                   *)
(***************************************************************************)
ChosenIsFree ==
    \A p \in Preparers : work[p].target # <<>> =>
        /\ work[p].target \notin work[p].occupied
        /\ ~Less(work[p].target, work[p].checkout.base)
        /\ work[p].kind = "next-patch" => \A v \in work[p].fetched \cap work[p].occupied : Less(v, work[p].target)

OwnedTopic(c, v) == c # Absent => ~Last(c).foreign /\ Last(c).base = v

(***************************************************************************)
(* A push by a preparation, the last act of a killed one included, takes   *)
(* the topic to main's tree moved to the version, and undoes nothing of    *)
(* anybody else: the topic keeps all commits it has at that moment, and    *)
(* the one that the push was prepared on held no edit then that no         *)
(* preparation makes.                                                      *)
(***************************************************************************)
PushesOwned ==
    \A p \in Preparers : pc[p] = "push" /\ pc'[p] # "push" /\ topic' # topic =>
        LET v == work[p].target
        IN  /\ Onward(topic'[v], topic[v])
            /\ Last(topic'[v]) = Tree(work[p].checkout.changes, v, FALSE)
            /\ OwnedTopic(work[p].seen, v)
TopicIsOwned == [][PushesOwned]_vars

-----------------------------------------------------------------------------

(***************************************************************************)
(* Why it holds.  Main holds nothing unreviewed, so neither does what a    *)
(* topic's tree was compared with, nor a topic that passed; and git lets   *)
(* nothing else go.                                                        *)
(***************************************************************************)
Trees == [changes : Nat, base : Versions, foreign : BOOLEAN]
Branches == {Absent} \cup {c \in Seq(Trees) : c # Absent /\ ~Head(c).foreign}
Works == [checkout : Trees, fetched : SUBSET Versions, occupied : SUBSET Versions, kind : Kinds,
          target : Versions \cup {<<>>}, existing : BOOLEAN, listed : Branches, seen : Branches]
Positions == {"idle", "fetch", "tags", "list", "topic", "build", "push", "pull", "refused", "done"}

TypesOK ==
    /\ main \in Trees /\ ~main.foreign /\ tags \subseteq Versions /\ reachable \subseteq Versions
    /\ topic \in [Versions -> Branches] /\ pulls \subseteq Versions
    /\ pc \in [Preparers -> Positions] /\ work \in [Preparers -> Works]

PreparerOK(p) ==
    /\ ~work[p].checkout.foreign
    /\ pc[p] \in {"fetch", "tags"} => work[p].target = <<>>
    /\ pc[p] \in {"list", "topic", "build", "push", "pull"} => work[p].target \in Versions
    /\ pc[p] \in {"build", "push", "pull"} => OwnedTopic(work[p].seen, work[p].target)

Inv ==
    /\ TypesOK /\ ChosenIsFree
    /\ \A p \in Preparers : PreparerOK(p)
=============================================================================
