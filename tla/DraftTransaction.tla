-------------------------- MODULE DraftTransaction --------------------------
(***************************************************************************)
(* One publication transaction of scripts/release_control.py               *)
(* (_publish_prepared): create the tag, create a draft release, upload the *)
(* staged assets to it, read everything back and make it public.           *)
(*                                                                         *)
(* Every call goes to GitHub, where maintainers and other workflows change *)
(* the same release, tag, branch and ledger between any two calls, and     *)
(* every answer can be lost.  When the answer to the draft creation is     *)
(* lost the versioned publisher does not repeat the call: it reads back    *)
(* whether the one call it made produced one untouched draft               *)
(* (create_release_once, _reconcile_created_release, create_confirmation). *)
(***************************************************************************)
EXTENDS Integers, FiniteSets, Sequences

CONSTANTS
  Assets,      \* the names of the staged files
  Extra,       \* a name that is not staged
  Ids,         \* the release identifiers GitHub can hand out
  Automatic,   \* TRUE for push betas and scheduled nightlies
  Reconciles,  \* TRUE for the versioned publisher (confirm_create is given)
  MaxOutside   \* bound: changes made by anybody else

ASSUME AssetsAssumption == IsFiniteSet(Assets) /\ Assets # {} /\ Extra \notin Assets
ASSUME IdsAssumption == Ids # {} /\ 0 \notin Ids
ASSUME FlagsAssumption == Automatic \in BOOLEAN /\ Reconciles \in BOOLEAN
ASSUME OutsideAssumption == MaxOutside \in Nat

VARIABLES
  releases,  \* the releases of the repository
  used,      \* the identifiers handed out so far; GitHub never reuses one
  tagRef,    \* the release tag: absent, at the source commit, or elsewhere
  head,      \* the default branch: as captured before publication, or moved
  ledger,    \* the version ledger: as this run wrote it, or written again
  active,    \* the workflow attempt is still executing
  delayed,   \* a creation that timed out may still be executed
  pc,        \* what the publisher does next
  step,      \* its position in the readback
  listed,    \* the first release inventory of the readback
  release,   \* the release it works on, 0 for none
  sent,      \* the assets it has uploaded
  checked,   \* the assets it has downloaded and compared
  outside,   \* the number of outside changes so far
  late       \* history: what changed after the publisher last looked at it

world == <<tagRef, head, ledger, active>>
own == <<step, listed, release, sent, checked>>
hub == <<releases, used>>
vars == <<hub, world, delayed, pc, own, outside, late>>

-----------------------------------------------------------------------------
(* Releases *)

Names == Assets \cup {Extra}

Nothing == [n \in Names |-> "none"]

\* "made" is a history field: was the release created by this transaction?
\* "body" holds the create marker with its random nonce until it is edited.
Releases ==
  [id : Ids, made : {"call", "outside"}, tag : {"ours", "other"},
   body : {"payload", "edited"}, public : {"no", "call", "outside"},
   assets : [Names -> {"none", "exact", "foreign"}]]

\* The draft a POST with the payload of the transaction creates.
CreatedDraft(i) ==
  [id |-> i, made |-> "call", tag |-> "ours", body |-> "payload",
   public |-> "no", assets |-> Nothing]

Free == Ids \ used

\* GitHub stores a new release under a fresh identifier.
Store(i, r) == i \in Free /\ releases' = releases \cup {r} /\ used' = used \cup {i}

\* checked_release: the exact request, unpublished and without assets.
Exact(r) == r.tag = "ours" /\ r.body = "payload" /\ r.public = "no" /\ r.assets = Nothing

\* The identifiers and tags of a release inventory.
Inventory(set) == {<<r.id, r.tag>> : r \in set}

Tagged(set) == {r \in set : r.tag = "ours"}

\* The release with the identifier the publisher holds, if it still exists.
Current == {r \in releases : r.id = release}

Update(r, s) == releases' = (releases \ {r}) \cup {s} /\ UNCHANGED used

-----------------------------------------------------------------------------
(* The publisher *)

Terminal == {"done", "failed"}

\* The phases in which the publisher has a release to fill and publish.
Working == {"upload", "list", "verify", "confirm", "tagcheck", "publish"}

Phases == {"absent", "tag", "create", "readback"} \cup Working \cup Terminal

Goto(phase) == pc' = phase

Halt == Goto("failed") /\ UNCHANGED own

\* An outcome of a look: go on, or stop with the draft left as it is.
Expect(condition, phase) == Goto(IF condition THEN phase ELSE "failed")

\* ensure_absent: no tag, no release and no draft under this tag.
EnsureAbsent ==
  /\ pc = "absent"
  /\ Expect(tagRef = "none" /\ Tagged(releases) = {}, "tag")
  /\ UNCHANGED <<hub, world, delayed, own, outside, late>>

\* POST git/refs is refused when the tag exists; its answer can be lost.
CreateTag ==
  /\ pc = "tag"
  /\ \/ tagRef = "none" /\ tagRef' = "source" /\ pc' \in {"create", "failed"}
     \/ tagRef # "none" /\ UNCHANGED tagRef /\ Goto("failed")
  /\ UNCHANGED <<hub, head, ledger, active, delayed, own, outside, late>>

\* Where the publisher goes when it does not know whether the draft exists.
Ambiguous == {"failed"} \cup (IF Reconciles THEN {"readback"} ELSE {})

\* A timeout, a 5xx or a broken response (AmbiguousCreate), or a denial.
Unanswered == pc' \in Ambiguous

\* POST releases: answered, or executed without an answer, or not executed
\* yet when the publisher stops waiting for it.
CreateRelease ==
  /\ pc = "create"
  /\ \/ \E i \in Ids :
          /\ Store(i, CreatedDraft(i))
          /\ UNCHANGED delayed
          /\ \/ Goto("upload") /\ release' = i
             \/ Unanswered /\ UNCHANGED release
     \/ Unanswered /\ delayed' \in {delayed, TRUE} /\ UNCHANGED <<hub, release>>
  /\ step' = 1
  /\ UNCHANGED <<world, listed, sent, checked, outside, late>>

\* GitHub executes the creation the publisher no longer waits for.
DelayedCreate ==
  /\ delayed
  /\ \E i \in Ids : Store(i, CreatedDraft(i))
  /\ delayed' = FALSE
  /\ UNCHANGED <<world, pc, own, outside, late>>

\* Mutant of Looks: the final confirmation is missing.
ConfirmedOnce ==
  <<"run", "source", "ledger", "list", "relist", "release", "assets", "tag",
    "release", "assets">>

\* The reads of _reconcile_created_release, with the reads of the two
\* confirmations (create_confirmation) written out.
Looks ==
  <<"run", "source", "ledger", "list", "relist", "release", "assets", "tag",
    "run", "source", "ledger", "release", "assets">>

\* Two equal inventories with one exact release under the tag.
SameInventory ==
  /\ Inventory(listed) = Inventory(releases)
  /\ \E r \in releases : Tagged(releases) = {r} /\ Exact(r)
  /\ \A r \in Tagged(listed) : Exact(r)

\* What each read requires.
Holds(kind) ==
  CASE kind = "run"     -> active
    [] kind = "source"  -> head = "source"
    [] kind = "ledger"  -> ledger = "consumed"
    [] kind = "list"    -> TRUE
    [] kind = "relist"  -> SameInventory
    [] kind = "release" -> \E r \in Current : Exact(r)
    [] kind = "assets"  -> \E r \in Current : r.assets = Nothing
    [] kind = "tag"     -> tagRef = "source"

\* One GET of the readback; after the last one the draft is adopted.
Readback ==
  /\ pc = "readback"
  /\ Expect(Holds(Looks[step]), IF step = Len(Looks) THEN "upload" ELSE "readback")
  /\ step' = step + 1
  /\ listed' = IF Looks[step] = "list" THEN releases ELSE listed
  /\ IF Looks[step] = "relist" /\ SameInventory
     THEN \E r \in Tagged(releases) : release' = r.id
     ELSE UNCHANGED release
  /\ UNCHANGED <<hub, world, delayed, sent, checked, outside, late>>

\* One POST per file to the known release; never repeated.  GitHub refuses a
\* name that exists; a lost answer stops the publisher.
Upload(n) ==
  /\ pc = "upload" /\ n \notin sent
  /\ \/ \E r \in Current :
          /\ r.assets[n] = "none"
          /\ Update(r, [r EXCEPT !.assets[n] = "exact"])
          /\ \/ /\ sent' = sent \cup {n}
                /\ Goto(IF sent' = Assets THEN "list" ELSE "upload")
             \/ Goto("failed") /\ UNCHANGED sent
     \/ /\ \A r \in Current : r.assets[n] # "none"
        /\ Goto("failed") /\ UNCHANGED <<hub, sent>>
  /\ UNCHANGED <<world, delayed, step, listed, release, checked, outside, late>>

\* The uploaded inventory has exactly the staged names.
InventoryMatches(r) == {n \in Names : r.assets[n] # "none"} = Assets

ListAssets ==
  /\ pc = "list"
  /\ Expect(\E r \in Current : InventoryMatches(r), "verify")
  /\ UNCHANGED <<hub, world, delayed, own, outside, late>>

\* verify_uploaded_asset: download by the listed identifier and compare.  A
\* file that was replaced has another identifier or other bytes.
Verify(n) ==
  /\ pc = "verify" /\ n \notin checked
  /\ IF \E r \in Current : r.assets[n] = "exact"
     THEN /\ checked' = checked \cup {n}
          /\ Goto(IF checked' = Assets THEN "confirm" ELSE "verify")
     ELSE Goto("failed") /\ UNCHANGED checked
  /\ UNCHANGED <<hub, world, delayed, step, listed, release, sent, outside, late>>

\* confirm_automatic_source: the default branch is still the captured one.
ConfirmSource ==
  /\ pc = "confirm"
  /\ Expect(Automatic => head = "source", "tagcheck")
  /\ UNCHANGED <<hub, world, delayed, own, outside, late>>

CheckTag ==
  /\ pc = "tagcheck"
  /\ Expect(tagRef = "source", "publish")
  /\ UNCHANGED <<hub, world, delayed, own, outside, late>>

\* PATCH draft = false; its answer can be lost as well.
Publish ==
  /\ pc = "publish"
  /\ \/ \E r \in Current :
          /\ Update(r, [r EXCEPT !.public = "call"])
          /\ pc' \in {"done", "failed"}
     \/ Current = {} /\ Goto("failed") /\ UNCHANGED hub
  /\ UNCHANGED <<world, delayed, own, outside, late>>

\* The process dies, or a call fails without having had an effect: the job
\* limit, a denied request, the readback's deadline or request limit.
Fail ==
  /\ pc \notin Terminal
  /\ Halt
  /\ UNCHANGED <<hub, world, delayed, outside, late>>

Step ==
  \/ EnsureAbsent \/ CreateTag \/ CreateRelease \/ Readback
  \/ \E n \in Assets : Upload(n)
  \/ ListAssets
  \/ \E n \in Assets : Verify(n)
  \/ ConfirmSource \/ CheckTag \/ Publish

-----------------------------------------------------------------------------
(* Everybody else *)

Outside == outside < MaxOutside /\ outside' = outside + 1

\* The readback ends with the second confirmation, the release and its assets:
\* how many reads follow the last look at the run, the source and the ledger.
ReadsAfter == [run |-> 4, source |-> 3, ledger |-> 2]

\* The readback has made its last look of this kind.
LookedLast(kind) == pc # "readback" \/ step > Len(Looks) - ReadsAfter[kind]

\* The inventory of the draft has been read.
Listed == {"verify", "confirm", "tagcheck", "publish"}

\* Remember a change the publisher no longer looks for.
Remember(condition, what) == late' = IF condition THEN late \cup {what} ELSE late

\* A push to the default branch, or a renamed default branch.
MoveHead ==
  /\ head' = "moved"
  /\ late' = late \cup {w \in {"head", "source"} :
                 \/ w = "head" /\ pc \in {"tagcheck", "publish"} \cup Terminal
                 \/ w = "source" /\ LookedLast("source")}
  /\ UNCHANGED <<hub, tagRef, ledger, active, delayed, pc, own>>

\* The release tag is created, moved or deleted by somebody else.
MoveTag ==
  /\ tagRef' \in {"none", "moved"} \ {tagRef}
  /\ Remember(pc \in {"publish"} \cup Terminal, "tag")
  /\ UNCHANGED <<hub, head, ledger, active, delayed, pc, own>>

\* Another run writes the version ledger.
WriteLedger ==
  /\ ledger' = "changed"
  /\ Remember(LookedLast("ledger"), "ledger")
  /\ UNCHANGED <<hub, tagRef, head, active, delayed, pc, own>>

\* The attempt is concluded or superseded by a new attempt.
EndRun ==
  /\ active' = FALSE
  /\ Remember(LookedLast("run"), "run")
  /\ UNCHANGED <<hub, tagRef, head, ledger, delayed, pc, own>>

\* Somebody creates a release, under this tag or another one.
OtherRelease ==
  /\ \E i \in Ids, t \in {"ours", "other"} :
       Store(i, [id |-> i, made |-> "outside", tag |-> t, body |-> "edited",
                 public |-> "no", assets |-> Nothing])
  /\ UNCHANGED <<world, delayed, pc, own, late>>

\* Somebody edits, publishes or deletes a release.
ChangeRelease(r) ==
  /\ \/ Update(r, [r EXCEPT !.body = "edited"])
     \/ Update(r, [r EXCEPT !.public = "outside"])
     \/ releases' = releases \ {r} /\ UNCHANGED used
  /\ UNCHANGED <<world, delayed, pc, own, late>>

\* Somebody adds, replaces or removes a file of a release.
ChangeAsset(r, n) ==
  /\ \E a \in {"none", "foreign"} : Update(r, [r EXCEPT !.assets[n] = a])
  /\ Remember(\/ n \in checked
              \/ n = Extra /\ pc \in Listed \cup Terminal, n)
  /\ UNCHANGED <<world, delayed, pc, own>>

Others ==
  /\ Outside
  /\ \/ MoveHead \/ MoveTag \/ WriteLedger \/ EndRun \/ OtherRelease
     \/ \E r \in releases : ChangeRelease(r) \/ \E n \in Names : ChangeAsset(r, n)

Init ==
  /\ releases = {} /\ used = {} /\ tagRef \in {"none", "moved"}
  /\ head = "source" /\ ledger = "consumed" /\ active = TRUE
  /\ delayed = FALSE
  /\ pc = "absent" /\ step = 1 /\ listed = {} /\ release = 0
  /\ sent = {} /\ checked = {}
  /\ outside = 0 /\ late = {}

Next == Step \/ DelayedCreate \/ Fail \/ Others

Spec == Init /\ [][Next]_vars

-----------------------------------------------------------------------------
(* Properties *)

TypeOK ==
  /\ releases \subseteq Releases /\ used \subseteq Ids
  /\ tagRef \in {"none", "source", "moved"}
  /\ head \in {"source", "moved"} /\ ledger \in {"consumed", "changed"}
  /\ active \in BOOLEAN /\ delayed \in BOOLEAN
  /\ pc \in Phases /\ step \in 1 .. Len(Looks) + 1
  /\ listed \subseteq Releases /\ release \in Ids \cup {0}
  /\ sent \subseteq Assets /\ checked \subseteq Assets
  /\ outside \in 0 .. MaxOutside
  /\ late \subseteq Names \cup {"head", "source", "tag", "ledger", "run"}

\* However the answer to the creation is lost, the transaction creates at most
\* one release: publication writes are never replayed (create_release_once).
OneRelease == \A r, s \in releases : r.made = "call" /\ s.made = "call" => r = s

\* Assets are uploaded to, and published in, the release this transaction
\* created, never a draft of somebody else under the same tag.
OwnDraft == pc \in Working => \A r \in Current : r.made = "call"

\* What the transaction makes public has exactly the staged names and bytes;
\* a difference can only stem from a change to an asset after it was compared
\* (or, for a foreign name, after the inventory was read).
PublishedAsChecked ==
  \A r \in releases : r.public = "call" =>
    \A n \in Names : r.assets[n] # (IF n \in Assets THEN "exact" ELSE "none") => n \in late

\* A public release has its tag at the source commit, and an automatic one was
\* built from the current default branch, up to changes made after the
\* publisher's last look (confirm_automatic_source, the tag read).
PublishedSource ==
  (\E r \in releases : r.public = "call") =>
    /\ tagRef # "source" => "tag" \in late
    /\ (Automatic /\ head # "source") => "head" \in late

\* A draft adopted after a lost answer belongs to a run that was executing, on
\* the captured source and with the ledger as this run wrote it, when the
\* second confirmation looked: no change since the creation goes unnoticed.
AdoptionConfirmed ==
  (step > Len(Looks) /\ pc # "failed") =>
    /\ active \/ "run" \in late
    /\ head = "source" \/ "source" \in late
    /\ ledger = "consumed" \/ "ledger" \in late

\* However the answer to the creation is lost or late and whatever others
\* change meanwhile: one release at most, the transaction's own, adopted only
\* when confirmed, and published with the files and the source it checked.
DraftSound ==
  OneRelease /\ OwnDraft /\ AdoptionConfirmed /\ PublishedAsChecked /\ PublishedSource
=============================================================================
