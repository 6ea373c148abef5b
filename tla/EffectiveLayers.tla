-------------------------- MODULE EffectiveLayers --------------------------
(***************************************************************************)
(* The two readers of an image's layers in scripts/runner_image_oci.py:    *)
(* sentinel_layer follows the one file that must stay unconfigured, and    *)
(* effective_files computes the tree that all layers show, whose regular   *)
(* files are the evidence on installed packages.  Neither unpacks          *)
(* anything; "fs" is what unpacking the layers onto a disk would give.     *)
(***************************************************************************)
EXTENDS Naturals, Sequences, FiniteSets, SequencesExt

CONSTANTS
    Paths,           \* paths of the image, each a sequence of names
    Target,          \* opt/victron-ci-reserve/guard-ca.crt
    Package,         \* the inventory of an installed package: its files
    MaxEntries,      \* entries of all layers together
    MaxLayers

VARIABLES
    layers, entries, \* layers that are laid down, and the entries of the one being read
    ca,              \* sentinel_layer's state: "none", the content, or "refused"
    tree, treeHolds, \* effective_files' tree, and no check of it failed
    fs, world,       \* the unpacked disk; "ok", "redirected" (an entry went through a link) or "fails"
    done,
    phase, laid,     \* "read"; "hide" and "add" lay the entries down, these many so far
    linked           \* the merge's ambiguous paths

vars == <<layers, entries, ca, tree, treeHolds, fs, world, done, phase, laid, linked>>

Contents == {"sentinel", "other"}
Under(p, q) == IsStrictPrefix(q, p)
Parents(p) == {q \in Paths : Under(p, q)}
Without(f, gone) == [p \in DOMAIN f \ gone |-> f[p]]
With(f, p, r) == [q \in DOMAIN f \cup {p} |-> IF q = p THEN r ELSE f[q]]

Folders == UNION {Parents(p) : p \in Paths}
Files == Paths \ Folders
Entry(kind, path) == [kind |-> kind, path |-> path, content |-> "none", mode |-> 0, target |-> path]
FileEntries == {[Entry("regular", p) EXCEPT !.content = c] : p \in Files, c \in Contents}
FolderEntries ==
    {[Entry("regular", p) EXCEPT !.content = "other"] : p \in Folders}
    \cup {Entry("directory", p) : p \in Folders} \cup {Entry("symlink", p) : p \in Folders}
LinkEntries == UNION {{[Entry("hardlink", p) EXCEPT !.target = q, !.mode = 1] : q \in Files \ {p}} : p \in Files}
HidingEntries == {Entry("whiteout", p) : p \in Paths} \cup {Entry("opaque", p) : p \in Folders \cup {<<>>}}
Entries == FileEntries \cup FolderEntries \cup LinkEntries \cup HidingEntries

Hides(e) == e.kind \in {"whiteout", "opaque"}
Hidden(e) == {p \in Paths : Under(p, e.path) \/ (e.kind = "whiteout" /\ p = e.path)}

-----------------------------------------------------------------------------
(* sentinel_layer: the entries in the order of the archive.                *)

\* The file's whiteout, one of a directory above it, or an opaque directory above it.
HidesTarget(e) == Target \in Hidden(e)

SentinelStep(state, e) ==
    IF state = "refused" THEN "refused"
    ELSE IF Hides(e) THEN IF HidesTarget(e) THEN "none" ELSE state
    ELSE IF e.path \in Parents(Target) THEN IF e.kind = "directory" THEN state ELSE "refused"
    ELSE IF e.path # Target THEN state
    ELSE IF e.kind = "regular" THEN e.content ELSE "refused"

-----------------------------------------------------------------------------
(* merge_effective_layer.                                                  *)

\* Only the endpoints of this layer's links are remembered.
Ends(e) == IF e.kind = "hardlink" THEN {e.path, e.target} ELSE {}
LinkedHere(t, es) == UNION {Ends(es[i]) : i \in DOMAIN es}

\* Paths that were an endpoint of a hard link, in this or in a lower layer, are not evidence any more.
Linked(t, es) ==
    {p \in DOMAIN t : t[p].ambiguous}
    \cup (UNION {{p, t[p].target} : p \in {q \in DOMAIN t : t[q].kind = "hardlink"}})
    \cup LinkedHere(t, es)

InDirectories(t, p) == \A q \in Parents(p) \cap DOMAIN t : t[q].kind = "directory"

\* The lower layers lose what the entry hides, and no check failed.
HideChecks(e) == InDirectories(tree, e.path) /\ (e.kind = "opaque" /\ e.path \in DOMAIN tree => tree[e.path].kind = "directory")
HideStep(e) ==
    /\ tree' = Without(tree, Hidden(e))
    /\ treeHolds' = (treeHolds /\ HideChecks(e))

\* The entry is laid over what is there.
AddChecks(e) == InDirectories(tree, e.path) /\ (e.kind = "hardlink" => InDirectories(tree, e.target))
AddStep(e) ==
    LET record == [kind |-> e.kind, content |-> e.content, mode |-> e.mode, target |-> e.target, ambiguous |-> FALSE]
        gone == IF e.kind = "directory" THEN {} ELSE {p \in Paths : Under(p, e.path)}
    IN  /\ tree' = With(Without(tree, gone), e.path, record)
        /\ treeHolds' = (treeHolds /\ AddChecks(e))

-----------------------------------------------------------------------------
(* Unpacking, with the links of an inode as a set of paths.                *)

Unlink(f, gone) == [p \in DOMAIN f \ gone |-> [f[p] EXCEPT !.peers = @ \ gone]]
Directory == [kind |-> "directory", content |-> "none", mode |-> 0, peers |-> {}]

\* A directory stays where one is; anything else replaces what has its name, with all below.
Replaced(e) ==
    IF e.kind = "directory" /\ e.path \in DOMAIN fs /\ fs[e.path].kind = "directory" THEN {}
    ELSE {p \in Paths : p = e.path \/ (Under(p, e.path) /\ e.kind # "directory")}
Freed(e) == Unlink(fs, Replaced(e))

\* With the directories above it.
Base(e) ==
    LET f == Freed(e)
        made == {q \in Parents(e.path) : q \notin DOMAIN f}
    IN  [p \in DOMAIN f \cup made |-> IF p \in made THEN Directory ELSE f[p]]

Through(e) == {p \in Parents(e.path) \cup Parents(e.target) : p \in DOMAIN Freed(e) /\ Freed(e)[p].kind # "directory"}
Linkable(e) == e.kind = "hardlink" => e.target \in DOMAIN Freed(e) /\ Freed(e)[e.target].kind = "regular"

\* A link joins the paths of an inode, whose mode it sets.
Link(f, e) ==
    LET peers == f[e.target].peers \cup {e.path}
        inode == [f[e.target] EXCEPT !.mode = e.mode, !.peers = peers]
    IN  [p \in DOMAIN f \cup {e.path} |-> IF p \in peers THEN inode ELSE f[p]]

Create(f, e) == With(f, e.path, [kind |-> e.kind, content |-> e.content, mode |-> e.mode, peers |-> {e.path}])

UnpackWorld(e) ==
    IF world # "ok" THEN world
    ELSE IF \E p \in Through(e) : Freed(e)[p].kind = "symlink" THEN "redirected"
    ELSE IF Through(e) # {} \/ ~Linkable(e) THEN "fails" ELSE "ok"
Unpack(e) ==
    /\ world' = UnpackWorld(e)
    /\ fs' = IF UnpackWorld(e) # "ok" THEN fs ELSE IF e.kind = "hardlink" THEN Link(Base(e), e) ELSE Create(Base(e), e)

\* A whiteout whose parent is a link acts on what the link leads to.
HideWorld(e) ==
    IF world = "ok" /\ \E p \in (Parents(e.path) \cup (IF e.kind = "opaque" THEN {e.path} ELSE {})) \cap DOMAIN fs : fs[p].kind = "symlink"
    THEN "redirected" ELSE world
Hide(e) ==
    /\ world' = HideWorld(e)
    /\ fs' = IF HideWorld(e) # "ok" THEN fs ELSE Unlink(fs, Hidden(e))

-----------------------------------------------------------------------------

Init ==
    /\ layers = 0 /\ entries = <<>>
    /\ ca = "none" /\ tree = [p \in {} |-> 0] /\ treeHolds = TRUE
    /\ fs = [p \in {} |-> 0] /\ world = "ok" /\ done = 0
    /\ phase = "read" /\ laid = 0 /\ linked = {}

Total == done + Len(entries)
Duplicate(e) == \E i \in DOMAIN entries : entries[i].path = e.path /\ (IF Hides(e) THEN entries[i].kind = e.kind ELSE ~Hides(entries[i]))

\* The next entry of the archive; a second one of the same name is refused by the merge's reader.
ReadEntry(e) ==
    /\ phase = "read" /\ layers < MaxLayers /\ Total < MaxEntries
    /\ entries' = Append(entries, e)
    /\ ca' = SentinelStep(ca, e)
    /\ treeHolds' = (treeHolds /\ ~Duplicate(e))
    /\ UNCHANGED <<layers, tree, fs, world, done, phase, laid, linked>>

\* All entries of the layer are read, and are laid down next.
EndLayer ==
    /\ phase = "read" /\ layers < MaxLayers /\ entries # <<>>
    /\ phase' = "hide" /\ linked' = Linked(tree, entries)
    /\ UNCHANGED <<layers, entries, ca, tree, treeHolds, fs, world, done, laid>>

\* merge_effective_layer: whiteouts act on the lower layers, then the layer's entries are laid over them.
MergeEntry ==
    /\ phase # "read" /\ laid < Len(entries) /\ laid' = laid + 1
    /\ LET e == entries[laid + 1]
       IN  IF Hides(e) # (phase = "hide") THEN UNCHANGED <<tree, treeHolds, fs, world>>
           ELSE IF phase = "hide" THEN HideStep(e) /\ Hide(e)
           ELSE AddStep(e) /\ Unpack(e)
    /\ UNCHANGED <<layers, entries, ca, done, phase, linked>>

MergeAdditions ==
    /\ phase = "hide" /\ laid = Len(entries)
    /\ phase' = "add" /\ laid' = 0
    /\ UNCHANGED <<layers, entries, ca, tree, treeHolds, fs, world, done, linked>>

\* The ambiguous paths that are left are marked, and the next layer is read.
MergeEnds ==
    /\ phase = "add" /\ laid = Len(entries)
    /\ tree' = [p \in DOMAIN tree |-> [tree[p] EXCEPT !.ambiguous = p \in linked]]
    /\ phase' = "read" /\ laid' = 0 /\ linked' = {}
    /\ layers' = layers + 1 /\ entries' = <<>> /\ done' = Total
    /\ UNCHANGED <<ca, treeHolds, fs, world>>

Next == (\E e \in Entries : ReadEntry(e)) \/ EndLayer \/ MergeEntry \/ MergeAdditions \/ MergeEnds
Spec == Init /\ [][Next]_vars

-----------------------------------------------------------------------------
(* The evidence.                                                           *)

\* effective_regular.
Regular(p) ==
    /\ p \in DOMAIN tree /\ tree[p].kind = "regular" /\ ~tree[p].ambiguous
    /\ InDirectories(tree, p)

\* package_files: every file of the inventory is a regular file with the recorded sum.
PackageFiles == \A p \in DOMAIN Package : Regular(p) /\ tree[p].content = Package[p]

(***************************************************************************)
(* A regular file that the reader accepts as evidence is, with its content *)
(* and its mode, the file that the unpacked image has under that name:     *)
(* whatever whiteouts, opaque directories, replaced directories and hard   *)
(* links the layers have, and never by way of a symbolic link.  The        *)
(* evidence on a package is about files that are there.                    *)
(***************************************************************************)
EvidenceIsShown ==
    entries = <<>> /\ treeHolds /\ world # "fails" =>
        /\ world = "ok"
        /\ \A p \in Paths : Regular(p) =>
            p \in DOMAIN fs /\ fs[p].kind = "regular" /\ fs[p].content = tree[p].content /\ fs[p].mode = tree[p].mode
        /\ PackageFiles => \A p \in DOMAIN Package : p \in DOMAIN fs /\ fs[p].content = Package[p]

(***************************************************************************)
(* When the trust anchor counts as unconfigured, the unpacked image has    *)
(* the sentinel in its place, unless an entry is laid through a link,      *)
(* which only the other reader refuses.                                    *)
(***************************************************************************)
SentinelIsShown ==
    entries = <<>> /\ ca = "sentinel" /\ world = "ok" =>
        Target \in DOMAIN fs /\ fs[Target].kind = "regular" /\ fs[Target].content = "sentinel"
-----------------------------------------------------------------------------
(* Why it holds *)

Kinds == {"regular", "directory", "symlink", "hardlink"}
Records == [kind : Kinds, content : Contents \cup {"none"}, mode : {0, 1}, target : Paths, ambiguous : BOOLEAN]
Inodes == [kind : Kinds \ {"hardlink"}, content : Contents \cup {"none"}, mode : {0, 1}, peers : SUBSET Paths]

\* Paths of one inode show the same, and only regular files have other paths.
SoundDisk(f) ==
    /\ f \in [DOMAIN f -> Inodes] /\ DOMAIN f \subseteq Paths
    /\ \A p \in DOMAIN f :
        /\ f[p].peers \subseteq DOMAIN f /\ \A q \in f[p].peers : f[q] = f[p]
        /\ IF f[p].kind = "regular" THEN p \in f[p].peers ELSE f[p].peers \subseteq {p}

TypesOK ==
    /\ layers \in Nat /\ done \in Nat /\ entries \in Seq(Entries) /\ ca \in Contents \cup {"none", "refused"}
    /\ tree \in [DOMAIN tree -> Records] /\ DOMAIN tree \subseteq Paths /\ treeHolds \in BOOLEAN
    /\ SoundDisk(fs) /\ world \in {"ok", "redirected", "fails"}
    /\ phase \in {"read", "hide", "add"} /\ laid \in 0..Len(entries) /\ (IF phase = "read" THEN laid = 0 /\ linked = {} ELSE entries # <<>>)

\* What the tree knows is on the disk, where all it does not know are directories; a file that is
\* not marked has an inode of its own.
OnDisk(kind) == IF kind = "hardlink" THEN "regular" ELSE kind
Alone(p) ==
    tree[p].kind = "regular" /\ ~tree[p].ambiguous /\ p \notin linked =>
        fs[p].content = tree[p].content /\ fs[p].mode = tree[p].mode /\ fs[p].peers = {p}
TreeOK ==
    /\ treeHolds => world # "redirected"
    /\ treeHolds /\ world = "ok" =>
        /\ \A p \in DOMAIN tree : p \in DOMAIN fs /\ fs[p].kind = OnDisk(tree[p].kind) /\ Alone(p)
        /\ \A p \in DOMAIN fs \ DOMAIN tree : fs[p].kind = "directory"

\* While a layer is laid down, its links and whatever was marked before are going to be marked.
MarksOK ==
    phase # "read" =>
        /\ \A p \in DOMAIN tree : tree[p].ambiguous => p \in linked
        /\ \A i \in DOMAIN entries : entries[i].kind = "hardlink" => {entries[i].path, entries[i].target} \subseteq linked

\* The anchor is as the last entry of the layer makes it that is still to be laid down, or nothing
\* that is still to come changes what the disk shows.
Sets(e) == ~Hides(e) /\ e.path = Target
Shows == Target \in DOMAIN fs /\ fs[Target].kind = "regular" /\ fs[Target].content = "sentinel"
ToCome == {i \in DOMAIN entries : phase = "add" => i > laid}
AnchorOK ==
    /\ ca # "refused" => \A i \in DOMAIN entries : ~Hides(entries[i]) =>
        /\ entries[i].path \in Parents(Target) => entries[i].kind = "directory"
        /\ entries[i].path = Target => entries[i].kind = "regular"
    /\ ca = "sentinel" /\ world = "ok" =>
        \/ \E i \in ToCome : /\ Sets(entries[i]) /\ entries[i].content = "sentinel"
                             /\ \A j \in ToCome : Sets(entries[j]) => j <= i
        \/ /\ Shows /\ \A i \in ToCome : ~Sets(entries[i])
           /\ phase # "add" => \A i \in DOMAIN entries : Hides(entries[i]) => ~HidesTarget(entries[i])

Inv == TypesOK /\ TreeOK /\ MarksOK /\ AnchorOK
=============================================================================
