---------------------------- MODULE AssetDownload ----------------------------
(***************************************************************************)
(* The sequential download of a release inventory in                       *)
(* scripts/release_control.py: download_asset stages one file exclusively, *)
(* GitHub.download_asset repeats whole transfers within one deadline, the  *)
(* _AssetWriter checks and charges every chunk, and one DownloadBudget is  *)
(* shared by all files, failed prefixes included.                          *)
(*                                                                         *)
(* Module AssetStream models a single transfer; here it is a sequence of   *)
(* chunks, right or wrong ones, and a result.                              *)
(***************************************************************************)
EXTENDS Integers, FiniteSets

CONSTANTS
  Files,        \* the assets of the inventory
  Size,         \* their expected sizes, in chunks
  MaxAttempts,  \* API_READ_ATTEMPTS
  MaxBytes      \* the byte budget of the inventory, in chunks

NoFile == "none"

FilesAssumption == IsFiniteSet(Files) /\ NoFile \notin Files /\ Size \in [Files -> Nat]
BoundsAssumption == MaxAttempts \in Nat \ {0} /\ MaxBytes \in Nat

VARIABLES
  todo,      \* files that have not been started
  file,      \* the file being staged, or NoFile
  path,      \* whose file is at the destination path
  size,      \* chunks in the staging file
  intact,    \* they are a prefix of the asset: what the checksum will tell
  attempt,   \* the current attempt
  budget,    \* chunks charged so far
  expired,   \* the transfer deadline of this file has passed
  accepted,  \* files that were accepted
  pc,        \* what the download does next
  cause      \* why it stopped

vars == <<todo, file, path, size, intact, attempt, budget, expired, accepted, pc, cause>>
staging == <<file, path, size, intact>>

Init ==
  /\ todo = Files /\ file = NoFile
  /\ path \in {"nobody", "foreign"}
  /\ size = 0 /\ intact = TRUE /\ attempt = 0
  /\ budget = 0 /\ expired = FALSE
  /\ accepted = {} /\ pc = "next" /\ cause = "none"

-----------------------------------------------------------------------------

\* DownloadBudget.check, without the disk floor: room for the whole request.
Fits(n) == n <= MaxBytes - budget

\* Mutant of RemoveOwn: the incomplete file stays.
RemoveNothing == UNCHANGED path

\* On failure download_asset removes the destination only if it is its own.
RemoveOwn == path' = IF path = "own" THEN "nobody" ELSE path

\* An exception leaves download_asset and the whole inventory.
Raise(why) ==
  /\ pc' = "failed" /\ cause' = why
  /\ IF file = NoFile THEN UNCHANGED path ELSE RemoveOwn
  /\ UNCHANGED <<todo, file, size, intact, attempt, budget, expired, accepted>>

\* download_asset: the full size must fit before the file is created, and an
\* existing destination is never opened.
Begin ==
  /\ pc = "next"
  /\ \E f \in todo :
       IF ~Fits(Size[f]) THEN Raise("budget")
       ELSE IF path # "nobody" THEN Raise("exists")
       ELSE /\ file' = f /\ todo' = todo \ {f}
            /\ path' = "own" /\ size' = 0 /\ intact' = TRUE
            /\ attempt' = 1 /\ expired' = FALSE /\ pc' = "stream"
            /\ UNCHANGED <<budget, accepted, cause>>

\* _AssetWriter.write: a chunk within the expected size and the budget is
\* written, hashed and charged; a surplus chunk is refused before it is.
Write ==
  /\ pc = "stream"
  /\ \/ size >= Size[file] /\ Raise("surplus")
     \/ size < Size[file] /\ ~Fits(1) /\ Raise("budget")
     \/ /\ size < Size[file] /\ Fits(1)
        /\ size' = size + 1 /\ budget' = budget + 1
        /\ intact' \in {intact, FALSE}
        /\ UNCHANGED <<todo, file, path, attempt, expired, accepted, pc, cause>>

\* The child has exited: its status ends the loop, or, for transport loss on
\* any but the last attempt, leads to another attempt.  Then the size and the
\* checksum must be the expected ones (_AssetWriter.identity).
StreamEnds ==
  /\ pc = "stream" /\ ~expired
  /\ \/ /\ size = Size[file] /\ intact
        /\ pc' = "accept" /\ UNCHANGED <<path, cause>>
     \/ /\ ~(size = Size[file] /\ intact)
        /\ pc' = "failed" /\ cause' = "mismatch" /\ RemoveOwn
     \/ attempt < MaxAttempts /\ pc' = "retry" /\ UNCHANGED <<path, cause>>
  /\ UNCHANGED <<todo, file, size, intact, attempt, budget, expired, accepted>>

\* reset_for_retry: only for the own file, and with room for the whole asset.
Retry ==
  /\ pc = "retry" /\ ~expired
  /\ IF path # "own" THEN Raise("replaced")
     ELSE IF ~Fits(Size[file]) THEN Raise("budget")
     ELSE /\ size' = 0 /\ intact' = TRUE
          /\ attempt' = attempt + 1 /\ pc' = "stream"
          /\ UNCHANGED <<todo, file, path, budget, expired, accepted, cause>>

\* The destination must still be the own file; the caller verifies it, deletes
\* it or takes it away, and goes on with the next one.
Accept ==
  /\ pc = "accept"
  /\ IF path # "own" THEN Raise("replaced")
     ELSE /\ accepted' = accepted \cup {[name |-> file, size |-> size, intact |-> intact]}
          /\ file' = NoFile /\ path' = "nobody"
          /\ pc' = IF todo = {} THEN "done" ELSE "next"
          /\ UNCHANGED <<todo, size, intact, attempt, budget, expired, cause>>

\* A denial, a full disk, a short write or an interruption.
Abort ==
  /\ pc \in {"stream", "retry"}
  /\ Raise("denied")

\* ASSET_DOWNLOAD_TIMEOUT passes; timeouts are never retried.
Expire ==
  /\ pc \in {"stream", "retry"} /\ ~expired
  /\ expired' = TRUE
  /\ UNCHANGED <<todo, staging, attempt, budget, accepted, pc, cause>>

TimedOut ==
  /\ pc \in {"stream", "retry"} /\ expired
  /\ Raise("timeout")

\* Somebody else replaces the file at the destination path.
Replace ==
  /\ path = "own"
  /\ path' = "foreign"
  /\ UNCHANGED <<todo, file, size, intact, attempt, budget, expired, accepted, pc, cause>>

Step == Begin \/ Write \/ StreamEnds \/ Retry \/ Accept \/ TimedOut

Next == Step \/ Abort \/ Expire \/ Replace

Spec == Init /\ [][Next]_vars /\ WF_vars(Step)

-----------------------------------------------------------------------------
(* Properties *)

TypeOK ==
  /\ todo \subseteq Files /\ file \in Files \cup {NoFile}
  /\ path \in {"nobody", "own", "foreign"}
  /\ size \in Nat /\ intact \in BOOLEAN
  /\ attempt \in 0 .. MaxAttempts
  /\ budget \in 0 .. MaxBytes /\ expired \in BOOLEAN
  /\ accepted \subseteq [name : Files, size : Nat, intact : BOOLEAN]
  /\ pc \in {"next", "stream", "retry", "accept", "done", "failed"}
  /\ cause \in {"none", "budget", "exists", "surplus", "mismatch", "replaced", "denied", "timeout"}

\* A file is accepted only with exactly its expected bytes, however many
\* prefixes of failed attempts were staged before (reset_for_retry, identity).
AcceptedExact == \A a \in accepted : a.size = Size[a.name] /\ a.intact

\* The publisher's allowance of three times the inventory is enough: no retry
\* is ever refused for the budget (_publish_prepared, release-workflow.md).
Content(S) == UNION {{f} \X (1 .. Size[f]) : f \in S}   \* the chunks of some files
Allowance(S) == MaxAttempts * Cardinality(Content(S))
AllowanceSuffices == MaxBytes >= Allowance(Files) => cause # "budget"

\* No way out of a transfer leaves an incomplete file of its own behind.
NoLeftover == pc \in {"next", "done", "failed"} => path # "own"

\* The inventory is verified or the download stops with an error.
Over == pc \in {"done", "failed"}
DownloadEnds == <>Over

-----------------------------------------------------------------------------

(***************************************************************************)
(* Why it holds.  What has been charged and what may still be charged, one *)
(* full size for every attempt that is left, never exceed the allowance of *)
(* the inventory.  The destination is the own file only while it is staged,*)
(* and identity has compared it before it is accepted.                     *)
(***************************************************************************)
Staged == pc \in {"stream", "retry", "accept"}

\* What the files that are not started, and the staged one, may still take.
Owed == Allowance(todo) + IF Staged THEN (MaxAttempts - attempt) * Size[file] + (Size[file] - size) ELSE 0

Inv ==
  /\ TypeOK /\ AcceptedExact /\ NoLeftover
  /\ Staged => file \in Files /\ size <= Size[file]
  /\ pc = "retry" => attempt < MaxAttempts
  /\ pc = "accept" => size = Size[file] /\ intact
  /\ budget + Owed <= Allowance(Files)
  /\ AllowanceSuffices
=============================================================================
