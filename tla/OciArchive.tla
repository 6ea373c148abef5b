----------------------------- MODULE OciArchive -----------------------------
(***************************************************************************)
(* Three readers of OCI archives: scripts/merge_oci_archives.py joins two  *)
(* native archives into one for both platforms, scripts/version_plan.py    *)
(* (_OciMetadata) checks the version inside a built archive, the joined    *)
(* one for instance, and scripts/runner_image_oci.py accepts a runner      *)
(* image.  An archive is a graph of blobs; a blob's name is the hash of    *)
(* its content, so a graph has no cycle, but a blob may be referred to     *)
(* from several places, be missing, or hold other bytes than its name.     *)
(***************************************************************************)
EXTENDS Naturals, Sequences, FiniteSets, TLC

CONSTANTS
    Variants,        \* how an input differs from a sound archive
    MaxDepth,        \* 8 in the code
    MaxVisits        \* 1024 in the code

VARIABLES
    job,             \* "merge", "metadata" or "runner"
    inputs,          \* the archive of each platform
    archive,         \* the archive that is being walked
    platform,        \* of that archive, or "both"
    pc, todo,        \* position, and the descriptors still to visit with their depth
    visits, leaves, images, attestations,
    merged,          \* the joined archive
    touched,         \* platforms whose archive changed after it was opened
    output           \* the output path: "none", "ours" or somebody's "rival"

vars == <<job, inputs, archive, platform, pc, todo, visits, leaves, images, attestations, merged, touched, output>>

Platforms == {"amd64", "arm64"}
Version == "v"

-----------------------------------------------------------------------------
(* Archives.                                                               *)

Blob(kind) ==
    [kind |-> kind, intact |-> TRUE, children |-> <<>>, config |-> <<>>, layers |-> <<>>, arch |-> "none",
     version |-> "none", diff |-> "none", subject |-> <<>>, predicate |-> "none", artifact |-> FALSE]
Statement(subject) == [Blob("statement") EXCEPT !.subject = subject, !.predicate = "provenance"]
Desc(blob, arch) == [blob |-> blob, arch |-> arch, size |-> TRUE, reference |-> <<>>]

\* A native build: one image and one attestation of it under an index; the layer is shared.
Native(p) ==
    LET N(n) == <<p, n>>
        image == Desc(N("img"), p)
        attestation == [Desc(N("att"), "unknown") EXCEPT !.reference = N("img")]
    IN  [root |-> <<Desc(N("idx"), "none")>>,
         blobs |->
            N("idx") :> [Blob("index") EXCEPT !.children = <<image, attestation>>] @@
            N("img") :> [Blob("manifest") EXCEPT !.config = N("cfg"), !.layers = <<Desc(<<"both", "lay">>, "none")>>] @@
            N("cfg") :> [Blob("config") EXCEPT !.arch = p, !.version = Version, !.diff = "d"] @@
            <<"both", "lay">> :> [Blob("layer") EXCEPT !.diff = "d"] @@
            N("att") :> [Blob("manifest") EXCEPT !.config = N("empty"), !.artifact = TRUE, !.subject = N("img"),
                                                 !.layers = <<Desc(N("stm"), "none")>>] @@
            N("empty") :> [Blob("config") EXCEPT !.arch = "unknown"] @@
            N("stm") :> Statement(N("img"))]

\* The native archive with one thing changed.
Variant(p, how) ==
    LET a == Native(p)
        N(n) == <<p, n>>
        other == CHOOSE q \in Platforms : q # p
        second == (N("img2") :> a.blobs[N("img")]) @@ a.blobs
    IN  CASE how = "sound"     -> a
          [] how = "flat"      -> [a EXCEPT !.root = a.blobs[N("idx")].children]
          [] how = "legacy"    -> [a EXCEPT !.blobs[N("att")].artifact = FALSE, !.blobs[N("att")].subject = <<>>]
          [] how = "bare"      -> [a EXCEPT !.blobs[N("idx")].children = <<@[1], Desc(N("att"), "unknown")>>]
          [] how = "stray"     -> [a EXCEPT !.blobs = (N("x") :> Blob("layer")) @@ @]
          [] how = "corrupt"   -> [a EXCEPT !.blobs[<<"both", "lay">>].intact = FALSE]
          [] how = "missing"   -> [a EXCEPT !.blobs = [b \in DOMAIN @ \ {N("stm")} |-> @[b]]]
          [] how = "size"      -> [a EXCEPT !.blobs[N("img")].layers = <<[Desc(<<"both", "lay">>, "none") EXCEPT !.size = FALSE]>>]
          [] how = "arch"      -> [a EXCEPT !.blobs[N("cfg")].arch = other]
          [] how = "version"   -> [a EXCEPT !.blobs[N("cfg")].version = "w"]
          [] how = "diff"      -> [a EXCEPT !.blobs[N("cfg")].diff = "e"]
          [] how = "statement" -> [a EXCEPT !.blobs[N("stm")].subject = N("cfg")]
          [] how = "spare"     -> [a EXCEPT !.blobs = (N("stm2") :> Statement(N("cfg"))) @@ @,
                                            !.blobs[N("att")].layers = <<Desc(N("stm2"), "none")>> \o @]
          [] how = "inventory" -> [a EXCEPT !.blobs[N("stm")].predicate = "sbom"]
          [] how = "subject"   -> [a EXCEPT !.blobs[N("att")].subject = N("cfg")]
          [] how = "twice"     -> [a EXCEPT !.root = @ \o @]
          [] how = "unproved"  -> [a EXCEPT !.blobs[N("idx")].children = <<@[1]>>]
          [] how = "imageless" -> [a EXCEPT !.blobs[N("idx")].children = <<@[2]>>]
          [] how = "second"    -> [a EXCEPT !.blobs = second, !.root = @ \o <<Desc(N("img2"), p)>>]
          [] how = "deep"      -> [a EXCEPT !.blobs = (N("out") :> [Blob("index") EXCEPT !.children = a.root]) @@ @,
                                            !.root = <<Desc(N("out"), "none")>>]

-----------------------------------------------------------------------------
(* The walk of a graph.                                                    *)

Present(a, d) == d.blob \in DOMAIN a.blobs /\ d.size
Has(a, b) == b \in DOMAIN a.blobs
Intact(a) == \A b \in DOMAIN a.blobs : a.blobs[b].intact
IsAttestation(a, d) == d.reference # <<>> \/ a.blobs[d.blob].artifact

\* merge_oci_archives: the image is of the input's platform and version, and its layers have the
\* bytes that its config names.
NativeImage(a, d) ==
    LET m == a.blobs[d.blob]
    IN  /\ Has(a, m.config) /\ a.blobs[m.config].kind = "config"
        /\ d.arch = platform /\ a.blobs[m.config].arch = platform /\ a.blobs[m.config].version = Version
        /\ \A i \in DOMAIN m.layers : Present(a, m.layers[i]) /\ a.blobs[m.layers[i].blob].diff = a.blobs[m.config].diff

SubjectOf(a, d) == IF a.blobs[d.blob].artifact THEN a.blobs[d.blob].subject ELSE d.reference

NativeAttestation(a, d) ==
    LET m == a.blobs[d.blob]
        subject == SubjectOf(a, d)
    IN  /\ d.arch = "unknown" /\ Has(a, m.config) /\ a.blobs[m.config].arch = "unknown"
        /\ Has(a, subject) /\ d.reference \in {<<>>, subject}
        /\ m.layers # <<>>
        /\ \A i \in DOMAIN m.layers : Present(a, m.layers[i]) /\ a.blobs[m.layers[i].blob].subject = subject

\* version_plan: only metadata is hashed, layers are there in the right size, and the field holds the version.
MetadataImage(a, d) ==
    LET m == a.blobs[d.blob]
    IN  /\ Has(a, m.config) /\ a.blobs[m.config].intact /\ a.blobs[m.config].kind = "config"
        /\ a.blobs[m.config].arch \notin {"none", "unknown"} /\ d.arch \in {"none", a.blobs[m.config].arch}
        /\ a.blobs[m.config].version = Version
        /\ \A i \in DOMAIN m.layers : Present(a, m.layers[i])

MetadataAttestation(a, d) ==
    LET m == a.blobs[d.blob]
    IN  /\ d.arch = "unknown" /\ Has(a, m.config) /\ a.blobs[m.config].intact /\ a.blobs[m.config].arch = "unknown"
        /\ m.artifact => Has(a, m.subject) /\ d.reference \in {<<>>, m.subject}
        /\ m.layers # <<>> /\ \A i \in DOMAIN m.layers : Present(a, m.layers[i])

\* Every attestation is of one of this archive's runnable images, and there is an image.
MetadataComplete == images # {} /\ \A s \in attestations : s \in {<<>>} \cup images

\* Exactly one image, and every attestation is of it.
NativeComplete == Cardinality(images) = 1 /\ \A s \in attestations : s \in images

Strict == pc \in {"amd64", "arm64"}
Walked == <<visits, leaves, images, attestations>>
Descend(seq, depth) == [i \in DOMAIN seq |-> [desc |-> seq[i], depth |-> depth]]
Open(a, p, where) ==
    /\ archive' = a /\ platform' = p /\ pc' = where
    /\ todo' = Descend(a.root, 0)
    /\ visits' = 0 /\ leaves' = <<>> /\ images' = {} /\ attestations' = {}
Refuse == pc' = "refused" /\ UNCHANGED <<archive, platform, todo, Walked>>

\* The next descriptor, in the order of the recursion.
Visit ==
    /\ Strict \/ pc = "metadata"
    /\ todo # <<>>
    /\ LET d == Head(todo).desc
           depth == Head(todo).depth
           leaf == IF IsAttestation(archive, d)
                   THEN IF Strict THEN NativeAttestation(archive, d) ELSE MetadataAttestation(archive, d)
                   ELSE IF Strict THEN NativeImage(archive, d) ELSE MetadataImage(archive, d)
       IN  IF depth > MaxDepth \/ visits >= MaxVisits \/ ~Present(archive, d) \/ ~archive.blobs[d.blob].intact THEN Refuse
           ELSE IF archive.blobs[d.blob].kind = "index"
           THEN /\ todo' = Descend(archive.blobs[d.blob].children, depth + 1) \o Tail(todo)
                /\ visits' = visits + 1
                /\ UNCHANGED <<pc, archive, platform, leaves, images, attestations>>
           ELSE IF ~leaf \/ (Strict /\ \E i \in DOMAIN leaves : leaves[i].blob = d.blob) THEN Refuse
           ELSE /\ todo' = Tail(todo) /\ visits' = visits + 1
                /\ leaves' = Append(leaves, d)
                /\ images' = IF IsAttestation(archive, d) THEN images ELSE images \cup {d.blob}
                /\ attestations' = IF IsAttestation(archive, d) THEN attestations \cup {SubjectOf(archive, d)} ELSE attestations
                /\ UNCHANGED <<pc, archive, platform>>
    /\ UNCHANGED <<job, inputs, merged, touched, output>>

-----------------------------------------------------------------------------
(* runner_image_oci: one index, one amd64 image that one of the statements *)
(* gives the provenance of, whatever the others are about, and no blob     *)
(* that is not referred to.                                                *)

RunnerAccepts(a) ==
    /\ Intact(a) /\ Len(a.root) = 1 /\ Present(a, a.root[1]) /\ a.blobs[a.root[1].blob].kind = "index"
    /\ LET children == a.blobs[a.root[1].blob].children
           runtimes == {i \in DOMAIN children : children[i].reference = <<>>}
           proofs == DOMAIN children \ runtimes
           M(i) == a.blobs[children[i].blob]
           used == UNION {{children[i].blob, M(i).config} \cup {M(i).layers[j].blob : j \in DOMAIN M(i).layers}
                          : i \in DOMAIN children} \cup {a.root[1].blob}
       IN  /\ \A i \in DOMAIN children : Present(a, children[i]) /\ M(i).kind = "manifest" /\ Has(a, M(i).config)
           /\ \A i, j \in DOMAIN children : i # j => children[i].blob # children[j].blob
           /\ \A i \in DOMAIN children : \A j \in DOMAIN M(i).layers : Present(a, M(i).layers[j])
           /\ Cardinality(runtimes) = 1
           /\ \A i \in runtimes : /\ children[i].arch = "amd64" /\ a.blobs[M(i).config].arch = "amd64"
                                  /\ a.blobs[M(i).config].version = Version
                                  /\ \A j \in DOMAIN M(i).layers : a.blobs[M(i).layers[j].blob].diff = a.blobs[M(i).config].diff
           /\ \A i \in proofs : a.blobs[M(i).config].arch = "unknown"
           /\ \A i \in proofs, r \in runtimes : M(i).artifact => M(i).subject = children[r].blob /\ children[i].reference = M(i).subject
           /\ \E i \in proofs, r \in runtimes : \E j \in DOMAIN M(i).layers :
                LET statement == a.blobs[M(i).layers[j].blob]
                IN  statement.predicate = "provenance" /\ statement.subject = children[r].blob
           /\ used = DOMAIN a.blobs

-----------------------------------------------------------------------------

Nil == [root |-> <<>>, blobs |-> <<>>]

Init ==
    /\ job \in {"merge", "metadata", "runner"}
    /\ \E v \in Variants, w \in {"sound", "legacy"}, p \in Platforms :
        inputs = [q \in Platforms |-> Variant(q, IF q = p THEN v ELSE w)]
    /\ archive = Nil /\ platform = "none" /\ pc = "start" /\ todo = <<>>
    /\ visits = 0 /\ leaves = <<>> /\ images = {} /\ attestations = {}
    /\ merged = Nil /\ touched = {} /\ output = "none"

Start ==
    /\ pc = "start"
    /\ CASE job = "merge" /\ output = "none" /\ Intact(inputs["amd64"]) -> Open(inputs["amd64"], "amd64", "amd64")
         [] job = "metadata" -> Open(inputs["amd64"], "both", "metadata")
         [] job = "runner" -> /\ pc' = IF RunnerAccepts(inputs["amd64"]) THEN "accepted" ELSE "refused"
                              /\ UNCHANGED <<archive, platform, todo, Walked>>
         [] OTHER -> Refuse
    /\ UNCHANGED <<job, inputs, merged, touched, output>>

\* The second input after the first; the leaves of both wait in "merged".
EndNative ==
    /\ Strict /\ todo = <<>>
    /\ IF ~NativeComplete \/ platform \in touched THEN Refuse /\ UNCHANGED merged
       ELSE /\ merged' = [merged EXCEPT !.root = @ \o leaves]
            /\ IF pc = "arm64" THEN pc' = "write" /\ UNCHANGED <<archive, platform, todo, Walked>>
               ELSE IF Intact(inputs["arm64"]) THEN Open(inputs["arm64"], "arm64", "arm64") ELSE Refuse
    /\ UNCHANGED <<job, inputs, touched, output>>

\* The blobs of both inputs under one index, images before attestations, in a temporary file.
Write ==
    /\ pc = "write"
    /\ LET image(d) == d.arch # "unknown"
           index == [Blob("index") EXCEPT !.children = SelectSeq(merged.root, image)
                                                       \o SelectSeq(merged.root, LAMBDA d : ~image(d))]
       IN  merged' = [root |-> <<Desc(<<"both", "idx">>, "none")>>,
                      blobs |-> (<<"both", "idx">> :> index) @@ inputs["amd64"].blobs @@ inputs["arm64"].blobs]
    /\ pc' = "written"
    /\ UNCHANGED <<job, inputs, archive, platform, todo, Walked, touched, output>>

\* Nobody looks at the inputs again.
Trusted == TRUE

\* Neither input changed while it was copied.
Unchanged == touched = {}

\* os.link: nobody has the output name.
NoClobber == output = "none"

\* A link fails if the output has appeared meanwhile.
Publish ==
    /\ pc = "written"
    /\ IF Unchanged /\ NoClobber
       THEN output' = "ours" /\ Open(merged, "both", "metadata")
       ELSE Refuse /\ UNCHANGED output
    /\ UNCHANGED <<job, inputs, merged, touched>>

EndMetadata ==
    /\ pc = "metadata" /\ todo = <<>>
    /\ pc' = IF MetadataComplete THEN "accepted" ELSE "refused"
    /\ UNCHANGED <<job, inputs, archive, platform, todo, Walked, merged, touched, output>>

\* Another process writes into an input that is open, or creates the output.
Touch(p) ==
    /\ job = "merge" /\ pc \in {"amd64", "arm64", "write"} /\ p \notin touched
    /\ touched' = touched \cup {p}
    /\ inputs' = [inputs EXCEPT ![p].blobs = [b \in DOMAIN @ |-> [@[b] EXCEPT !.intact = b # <<"both", "lay">>]]]
    /\ UNCHANGED <<job, archive, platform, pc, todo, Walked, merged, output>>
Rival ==
    /\ job = "merge" /\ output = "none" /\ pc \notin {"refused", "accepted", "metadata"}
    /\ output' = "rival"
    /\ UNCHANGED <<job, inputs, archive, platform, pc, todo, Walked, merged, touched>>

Next == Start \/ Visit \/ EndNative \/ Write \/ Publish \/ EndMetadata \/ (\E p \in Platforms : Touch(p)) \/ Rival
Spec == Init /\ [][Next]_vars

-----------------------------------------------------------------------------

\* Blobs that the root refers to, at any distance, and the manifests among them.
Refers(a, b) ==
    LET blob == a.blobs[b]
    IN  {blob.children[i].blob : i \in DOMAIN blob.children} \cup {blob.layers[i].blob : i \in DOMAIN blob.layers}
            \cup (IF blob.config = <<>> THEN {} ELSE {blob.config})
Closure(a, bs) ==
    LET within[n \in Nat] ==
            IF n = 0 THEN bs
            ELSE LET near == within[n - 1] IN near \cup UNION {Refers(a, b) : b \in near \cap DOMAIN a.blobs}
    IN  within[Cardinality(DOMAIN a.blobs)]
Reachable(a) == Closure(a, {a.root[i].blob : i \in DOMAIN a.root})
Runnable(a) == {b \in Reachable(a) : a.blobs[b].kind = "manifest" /\ a.blobs[a.blobs[b].config].arch # "unknown"}
Statements(a) == {b \in Reachable(a) : a.blobs[b].kind = "statement"}
Layers(a, b) == {a.blobs[b].layers[i].blob : i \in DOMAIN a.blobs[b].layers}

(***************************************************************************)
(* What a reader accepts, it accepts of the whole graph, as a closure over *)
(* its references tells: every reference leads to a blob, every image that *)
(* can be run carries the version, and in a joined or a runner image every *)
(* blob has the bytes of its name, each platform has at most one image,    *)
(* whose layers are the ones its config names, and an attestation that     *)
(* names a subject names an image.  In a joined archive every statement is *)
(* about an image of it; a runner image has the provenance of its image.   *)
(***************************************************************************)
Provenance(a) == {b \in Statements(a) : a.blobs[b].predicate = "provenance"}
GraphHolds(a, strict) ==
    /\ Reachable(a) \subseteq DOMAIN a.blobs
    /\ \A b \in Runnable(a) : a.blobs[a.blobs[b].config].version = Version
    /\ strict =>
        /\ \A b \in Reachable(a) : a.blobs[b].intact
        /\ \A p \in Platforms : Cardinality({b \in Runnable(a) : a.blobs[a.blobs[b].config].arch = p}) <= 1
        /\ \A b \in Runnable(a) : \A l \in Layers(a, b) : a.blobs[l].diff = a.blobs[a.blobs[b].config].diff
        /\ \A b \in Reachable(a) : a.blobs[b].artifact => a.blobs[b].subject \in Runnable(a)
AcceptedIsSound ==
    /\ pc = "accepted" /\ job # "merge" => GraphHolds(inputs["amd64"], job = "runner")
    /\ pc = "accepted" /\ job = "runner" =>
        \E b \in Provenance(inputs["amd64"]) : inputs["amd64"].blobs[b].subject \in Runnable(inputs["amd64"])
    /\ output = "ours" =>
        /\ GraphHolds(merged, TRUE) /\ Cardinality(Runnable(merged)) = 2
        /\ \A b \in Statements(merged) : merged.blobs[b].subject \in Runnable(merged)

(***************************************************************************)
(* An archive that the merge publishes is one that the version check       *)
(* accepts, whatever form its inputs' attestations have.                   *)
(***************************************************************************)
MergedVerifies == job = "merge" /\ output = "ours" => pc # "refused"

\* The merge never takes over a name that somebody else's file has.
KeepsRival == output = "rival" => output' = "rival"
OutputKept == [][KeepsRival]_vars
=============================================================================
