--------------------------- MODULE RecoveryPayload ---------------------------
(***************************************************************************)
(* arc_recovery_payload.py: prepare cuts originals into parts of at most   *)
(* chunk bytes and publishes a catalog, pack writes the parts as one       *)
(* interleaved stream, verify checks a received stream against the         *)
(* catalog.  Originals are written to meanwhile, the disk reserve may be   *)
(* exhausted at every gate, power may fail at every step (what was not     *)
(* synchronized may then be gone, torn or back) and a stream may be cut or *)
(* mixed up on its way.                                                    *)
(***************************************************************************)
EXTENDS Integers, Sequences, SequencesExt

CONSTANTS
    NumFiles,        \* originals
    MaxBytes,        \* length of an original
    PartSizes,       \* what chunk may be
    MaxWrites        \* writes to originals by others

FilesAssumption == NumFiles \in Nat \ {0} /\ MaxBytes \in Nat
PartSizesAssumption == PartSizes \subseteq Nat \ {0}

VARIABLES
    chunk, sizes,    \* the size of a part, and of each original in the reviewed inventory, which lists every byte as 0
    orig,            \* each original: its bytes, and its identity, which every write changes
    pc, at,          \* prepare, and the original and the part it is at
    seen, whole,     \* of this original: its identity when it was opened, and what was read of it
    staged,          \* part files in the staging directory: their data, and what is on disk: "nothing", "data", its "name" too
    catalog,         \* the digests of the parts
    pend, final,     \* manifest.json.pending and manifest.json: "none", "there", "synced", "removed"
    returned,        \* history: prepare has returned
    verdict,         \* how far pack and verify are, and what they say
    place,           \* the round of interleaved, and the original, that pack or verify is at
    stream,          \* what pack wrote
    received, taken, \* what arrived, and how many members of it verify has taken
    hashes,          \* verify's digest of each original
    writes

vars == <<chunk, sizes, orig, pc, at, seen, whole, staged, catalog, pend, final, returned,
          verdict, place, stream, received, taken, hashes, writes>>

Files == 1..NumFiles
Nothing == <<>>

-----------------------------------------------------------------------------
(* The catalog *)

Inventory(size) == [i \in 1..size |-> 0]

\* check_catalog: the last part is shorter, an empty original has none.
PartCount(size) == (size + chunk - 1) \div chunk
PartBytes(size, n) == IF chunk <= size - n * chunk THEN chunk ELSE size - n * chunk
AllParts == {part \in Files \X (0..MaxBytes) : part[2] < PartCount(sizes[part[1]])}
Bytes(part) == PartBytes(sizes[part[1]], part[2])

\* interleaved: first parts of all originals, then second parts.
First == <<0, 1>>
Exhausted == \A f \in Files : PartCount(sizes[f]) <= place[1]
Yields == place[1] < PartCount(sizes[place[2]])
Yielded == <<place[2], place[1]>>
Advance == place' = IF place[2] < NumFiles THEN <<place[1], place[2] + 1>> ELSE <<place[1] + 1, 1>>

Init ==
    /\ chunk \in PartSizes /\ sizes \in [Files -> 0..MaxBytes]
    /\ orig = [f \in Files |-> [bytes |-> Inventory(sizes[f]), id |-> 0]]
    /\ pc = "open" /\ at = <<1, 0>> /\ seen = 0 /\ whole = Nothing
    /\ staged = [part \in {} |-> 0] /\ catalog = [part \in {} |-> 0]
    /\ pend = "none" /\ final = "none" /\ returned = FALSE
    /\ verdict = "none" /\ place = First /\ stream = Nothing /\ received = Nothing /\ taken = 0
    /\ hashes = [f \in Files |-> Nothing] /\ writes = 0

-----------------------------------------------------------------------------
(* prepare *)

Manifest == <<pend, final>>
Transfer == <<verdict, place, stream, received, taken, hashes>>
Rest == <<chunk, sizes, orig, returned, Transfer, writes>>

With(f, x, v) == [y \in DOMAIN f \cup {x} |-> IF y = x THEN v ELSE f[y]]

\* The identity and the size of an original are taken when it is opened.
Open ==
    /\ pc = "open"
    /\ IF at[1] > NumFiles THEN pc' = "manifest" /\ UNCHANGED <<seen, whole>>
       ELSE /\ pc' = IF Len(orig[at[1]].bytes) = sizes[at[1]] THEN "parts" ELSE "failed"
            /\ seen' = orig[at[1]].id /\ whole' = Nothing
    /\ UNCHANGED <<at, staged, catalog, Manifest, Rest>>

\* An original that has become shorter ends before the part does.
Truncated == Len(orig[at[1]].bytes) < at[2] * chunk + Bytes(at)
Read == SubSeq(orig[at[1]].bytes, at[2] * chunk + 1, IF Truncated THEN Len(orig[at[1]].bytes) ELSE at[2] * chunk + Bytes(at))

WritePart ==
    /\ pc = "parts" /\ at[2] < PartCount(sizes[at[1]])
    /\ pc' = IF Truncated THEN "failed" ELSE "fsync"
    /\ staged' = With(staged, at, [data |-> Read, disk |-> "nothing"])
    /\ catalog' = With(catalog, at, Read) /\ whole' = whole \o Read
    /\ UNCHANGED <<at, seen, Manifest, Rest>>

SyncPart ==
    /\ pc = "fsync" /\ pc' = "sync directory" /\ staged' = [staged EXCEPT ![at].disk = "data"]
    /\ UNCHANGED <<at, seen, whole, catalog, Manifest, Rest>>

SyncParts ==
    /\ pc = "sync directory" /\ pc' = "parts" /\ staged' = [staged EXCEPT ![at].disk = "name"]
    /\ at' = <<at[1], at[2] + 1>>
    /\ UNCHANGED <<seen, whole, catalog, Manifest, Rest>>

\* Nothing was written to the original since it was opened, and all of it together is what the inventory lists.
OriginalHolds(f) == Len(orig[f].bytes) <= sizes[f] /\ orig[f].id = seen /\ whole = Inventory(sizes[f])

Compare ==
    /\ pc = "parts" /\ at[2] = PartCount(sizes[at[1]])
    /\ IF OriginalHolds(at[1]) THEN pc' = "open" /\ at' = <<at[1] + 1, 0>> ELSE pc' = "failed" /\ UNCHANGED at
    /\ UNCHANGED <<seen, whole, staged, catalog, Manifest, Rest>>

\* manifest.json.pending, a synchronization, manifest.json, a synchronization, no more pending.
WriteManifest ==
    \/ pc = "manifest" /\ pend' = "there" /\ pc' = "pended" /\ UNCHANGED final
    \/ pc = "pended" /\ pend' = "synced" /\ pc' = "link" /\ UNCHANGED final
    \/ pc = "link" /\ final' = "there" /\ pc' = "linked" /\ UNCHANGED pend
    \/ pc = "linked" /\ final' = "synced" /\ pc' = "unlink" /\ UNCHANGED pend
    \/ pc = "unlink" /\ pend' = "removed" /\ pc' = "unlinked" /\ UNCHANGED final
PrepareManifest == WriteManifest /\ UNCHANGED <<at, seen, whole, staged, catalog, Rest>>

\* The directory is not synchronized after the last change.
Unsynced == pend

\* The last synchronization, and prepare returns.
LastSync == "none"
Return ==
    /\ pc = "unlinked" /\ pend' = LastSync /\ pc' = "prepared" /\ returned' = TRUE
    /\ UNCHANGED <<chunk, sizes, orig, at, seen, whole, staged, catalog, final, Transfer, writes>>

\* No room at some gate: a name that was already linked is removed again.
NoRoom ==
    /\ pc \notin {"prepared", "failed", "down"} /\ pc' = "failed"
    /\ final' = IF final = "none" THEN "none" ELSE "removed"
    /\ UNCHANGED <<at, seen, whole, staged, catalog, pend, Rest>>

-----------------------------------------------------------------------------
(* Others *)

\* A byte changes, one is added, or one is lost.
WriteOriginal ==
    /\ writes < MaxWrites /\ writes' = writes + 1 /\ pc \notin {"prepared", "failed", "down"}
    /\ \E f \in Files : LET bytes == orig[f].bytes IN
        \E b \in {[bytes EXCEPT ![i] = 1 - @] : i \in DOMAIN bytes} \cup {Append(bytes, 0)} \cup {Front(bytes) : i \in DOMAIN bytes} :
            orig' = [orig EXCEPT ![f] = [bytes |-> b, id |-> @.id + 1]]
    /\ UNCHANGED <<chunk, sizes, pc, at, seen, whole, staged, catalog, Manifest, returned, Transfer>>

\* Names that were not synchronized may be gone or, if removed, back; data may be torn.
Survives(name, now) ==
    CASE name = "there" -> now \in {"none", "synced"}
      [] name = "removed" -> now \in {"none", "synced"}
      [] OTHER -> now = name

\* A pack that it stops leaves a stream that is cut, like one that is cut on its way.
PowerLoss ==
    /\ pc # "down" /\ verdict # "packing" /\ pc' = "down"
    /\ \E p, q \in {"none", "synced"} : Survives(pend, p) /\ Survives(final, q) /\ pend' = p /\ final' = q
    /\ \E kept \in SUBSET {part \in DOMAIN staged : staged[part].disk # "name"},
           torn \in SUBSET {part \in DOMAIN staged : staged[part].disk = "nothing"} :
          staged' = [part \in {q \in DOMAIN staged : staged[q].disk = "name" \/ q \in kept} |->
                        IF part \in torn THEN [staged[part] EXCEPT !.data = Nothing] ELSE staged[part]]
    /\ UNCHANGED <<chunk, sizes, orig, at, seen, whole, catalog, returned, Transfer, writes>>

-----------------------------------------------------------------------------
(* pack and verify *)

Prepare == <<chunk, sizes, orig, pc, at, seen, whole, staged, catalog, Manifest, returned, writes>>

\* check_staging: exactly the catalog's files.
StagingComplete == final \in {"there", "synced"} /\ pend \notin {"there", "synced"} /\ DOMAIN staged = AllParts

\* CheckedPart: the file has the digest of the catalog.
CheckedPart(part) == staged[part].data = catalog[part]

Pack ==
    /\ pc \in {"prepared", "down", "failed"} /\ verdict = "none" /\ StagingComplete
    /\ verdict' = "packing" /\ place' = First /\ stream' = Nothing
    /\ UNCHANGED <<Prepare, received, taken, hashes>>

PackPart ==
    /\ verdict = "packing" /\ ~Exhausted /\ Advance
    /\ IF ~Yields THEN UNCHANGED <<verdict, stream>>
       ELSE /\ stream' = Append(stream, [part |-> Yielded, data |-> staged[Yielded].data])
            /\ verdict' = IF CheckedPart(Yielded) THEN "packing" ELSE "stopped"
    /\ UNCHANGED <<Prepare, received, taken, hashes>>

PackEnds ==
    /\ verdict = "packing" /\ Exhausted /\ verdict' = "packed"
    /\ UNCHANGED <<Prepare, place, stream, received, taken, hashes>>

\* Whole, cut, with a part lost, repeated or changed, or two of them swapped.
Deliver ==
    /\ verdict = "packed" /\ verdict' = "verifying"
    /\ \/ received' = stream
       \/ \E n \in 0..Len(stream) : received' = SubSeq(stream, 1, n)
       \/ \E i \in DOMAIN stream : received' \in {RemoveAt(stream, i), InsertAt(stream, i, stream[i]), [stream EXCEPT ![i].data = Nothing]}
       \/ \E i, j \in DOMAIN stream : received' = [stream EXCEPT ![i] = stream[j], ![j] = stream[i]]
    /\ place' = First /\ taken' = 0 /\ hashes' = [f \in Files |-> Nothing]
    /\ UNCHANGED <<Prepare, stream>>

\* The next member is the expected one, with its digest.
IsExpected == taken < Len(received) /\ received[taken + 1] = [part |-> Yielded, data |-> catalog[Yielded]]

VerifyPart ==
    /\ verdict = "verifying" /\ ~Exhausted /\ Advance
    /\ IF ~Yields THEN UNCHANGED <<verdict, taken, hashes>>
       ELSE IF IsExpected THEN taken' = taken + 1 /\ hashes' = [hashes EXCEPT ![place[2]] = @ \o received[taken + 1].data] /\ UNCHANGED verdict
       ELSE verdict' = "refused" /\ UNCHANGED <<taken, hashes>>
    /\ UNCHANGED <<Prepare, stream, received>>

\* There is no other member, and each original has its digest.
Accepted == taken = Len(received) /\ \A f \in Files : hashes[f] = Inventory(sizes[f])

VerifyEnds ==
    /\ verdict = "verifying" /\ Exhausted /\ verdict' = IF Accepted THEN "verified" ELSE "refused"
    /\ UNCHANGED <<Prepare, place, stream, received, taken, hashes>>

Next ==
    \/ Open \/ WritePart \/ SyncPart \/ SyncParts \/ Compare \/ PrepareManifest \/ Return \/ NoRoom
    \/ WriteOriginal \/ PowerLoss \/ Pack \/ PackPart \/ PackEnds \/ Deliver \/ VerifyPart \/ VerifyEnds
Spec == Init /\ [][Next]_vars

-----------------------------------------------------------------------------

\* Every part is there, the parts of an original in their order, each with the bytes of the inventory.
Reassembles(parts) ==
    /\ \A part \in AllParts : \E m \in DOMAIN parts : parts[m] = [part |-> part, data |-> Inventory(Bytes(part))]
    /\ \A m \in DOMAIN parts : parts[m].part \in AllParts
    /\ \A m, n \in DOMAIN parts : m < n /\ parts[m].part[1] = parts[n].part[1] => parts[m].part[2] < parts[n].part[2]

(***************************************************************************)
(* Whatever is written to the originals while they are cut, lost with the  *)
(* power or on the way: what pack writes to its end, and what verify       *)
(* accepts, reassembles to every original exactly as it was inventoried.   *)
(***************************************************************************)
PackedIsOriginal ==
    /\ verdict \in {"packed", "verifying", "verified", "refused"} => Reassembles(stream)
    /\ verdict = "verified" => Reassembles(received)

(***************************************************************************)
(* A directory whose files are complete is packed to the end, and a stream *)
(* that arrives as it was packed is verified: a catalog that was published *)
(* never turns out not to fit its own parts.                               *)
(***************************************************************************)
IntactIsVerified == verdict # "stopped" /\ (verdict = "refused" => received # stream)

(***************************************************************************)
(* Once prepare has returned, power may fail at any time and pack still    *)
(* accepts the staging directory: every part and both names were on disk   *)
(* by then, in this order.                                                 *)
(***************************************************************************)
PreparedSurvives == returned => StagingComplete /\ \A part \in AllParts : CheckedPart(part)

-----------------------------------------------------------------------------
(* Why it holds *)

Contents == Seq({0, 1})
Members == [part : AllParts, data : Contents]
Ready == {"manifest", "pended", "link", "linked", "unlink", "unlinked", "prepared"}
Writing == pc \in {"fsync", "sync directory"}

TypesOK ==
    /\ chunk \in Nat \ {0} /\ sizes \in [Files -> 0..MaxBytes]
    /\ orig \in [Files -> [bytes : Contents, id : Nat]] /\ seen \in Nat /\ whole \in Contents
    /\ at \in (1..NumFiles + 1) \X Nat /\ place \in Nat \X Files
    /\ stream \in Seq(Members) /\ received \in Seq(Members) /\ taken \in 0..Len(received)
    /\ pc \in {"open", "parts", "fsync", "sync directory", "failed", "down"} \cup Ready
    /\ final \in {"none", "there", "synced", "removed"} /\ returned \in BOOLEAN

\* What was read of the original is what the catalog's parts hold, one after the other.
Reach(size, n) == IF n * chunk <= size THEN n * chunk ELSE size
Cuts(f, n) ==
    /\ n <= PartCount(sizes[f]) /\ Len(whole) = Reach(sizes[f], n)
    /\ \A k \in 0..n - 1 :
        /\ <<f, k>> \in DOMAIN catalog /\ catalog[<<f, k>>] \in Contents /\ Len(catalog[<<f, k>>]) = PartBytes(sizes[f], k)
        /\ \A j \in 1..PartBytes(sizes[f], k) : catalog[<<f, k>>][j] = whole[k * chunk + j]
WholeOK ==
    /\ pc = "open" => at[2] = 0
    /\ pc = "parts" \/ Writing => at[1] \in Files /\ Cuts(at[1], IF Writing THEN at[2] + 1 ELSE at[2])

\* The parts of an original that was compared are those of the inventory.
CatalogOK == \A part \in AllParts : part[1] < at[1] => part \in DOMAIN catalog /\ catalog[part] = Inventory(Bytes(part))

\* All parts but the one being written are on disk, and stay there once the catalog is.
Before(part) == part[1] < at[1] \/ (part[1] = at[1] /\ part[2] < at[2])
Stored(part) ==
    /\ part \in DOMAIN staged /\ part \in DOMAIN catalog
    /\ staged[part] = [data |-> catalog[part], disk |-> "name"]
StagedOK ==
    pc \notin {"failed", "down"} \/ final # "none" =>
        /\ \A part \in AllParts : Before(part) => Stored(part)
        /\ DOMAIN staged \subseteq AllParts /\ \A part \in DOMAIN staged : Before(part) \/ (Writing /\ part = at)
        /\ Writing => at \in DOMAIN staged /\ at \in DOMAIN catalog
                      /\ staged[at] = [data |-> catalog[at], disk |-> IF pc = "fsync" THEN "nothing" ELSE "data"]

\* The catalog's name comes after all parts, and both names are settled when prepare returns.
ManifestOK ==
    /\ pc \in Ready \/ final # "none" => at[1] = NumFiles + 1
    /\ pc \in {"open", "parts", "fsync", "sync directory", "manifest", "pended", "link"} => final = "none"
    /\ pc = "failed" => final \in {"none", "removed"}
    /\ pc = "down" => final \in {"none", "synced"}
    /\ pc \in {"unlink", "unlinked"} => final = "synced"
    /\ pc = "prepared" => returned
    /\ returned => pc \in {"prepared", "down"} /\ final = "synced" /\ pend = "none"

\* The first k members are parts of the catalog, in the order of interleaved.
Follows(a, b) == a[2] < b[2] \/ (a[2] = b[2] /\ a[1] < b[1])
InTurn(parts, k) ==
    /\ \A m \in 1..k : parts[m].data = catalog[parts[m].part]
    /\ \A m, n \in 1..k : m < n => Follows(parts[m].part, parts[n].part)
Whole(parts, k) == \A part \in AllParts : \E m \in 1..k : parts[m].part = part

\* They are those that interleaved has yielded before it is at p.
Given(part, p) == Follows(part, <<p[2], p[1]>>)
UpTo(parts, k, p) ==
    /\ \A m \in 1..k : Given(parts[m].part, p)
    /\ \A part \in AllParts : Given(part, p) => \E m \in 1..k : parts[m].part = part

\* An original's digest covers its parts that were taken.
HashesOK == hashes \in [Files -> Contents]
            /\ \A f \in Files : hashes[f] = Inventory(Reach(sizes[f], IF f < place[2] THEN place[1] + 1 ELSE place[1]))

StreamOK ==
    /\ verdict # "none" => pc \in {"prepared", "down"} /\ final = "synced"
    /\ verdict # "stopped"
    /\ verdict = "packing" => InTurn(stream, Len(stream)) /\ UpTo(stream, Len(stream), place)
    /\ verdict \in {"packed", "verifying", "verified", "refused"} => InTurn(stream, Len(stream)) /\ Whole(stream, Len(stream))
    /\ verdict = "verifying" => InTurn(received, taken) /\ UpTo(received, taken, place) /\ HashesOK
    /\ verdict = "verified" => InTurn(received, Len(received)) /\ Whole(received, Len(received))
    /\ verdict = "refused" => received # stream

Inv == TypesOK /\ WholeOK /\ CatalogOK /\ StagedOK /\ ManifestOK /\ StreamOK
=============================================================================
