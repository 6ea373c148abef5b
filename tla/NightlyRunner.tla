---------------------------- MODULE NightlyRunner ----------------------------
(***************************************************************************)
(* The local nightly checks of scripts/run_nightly.py: invocations that    *)
(* share a log root compete for one file lock; the holder checks the       *)
(* selected repositories one after the other, each in a process group of   *)
(* its own with a time limit, and keeps a durable report.  An invocation   *)
(* can be interrupted, killed, or lost with the whole machine.             *)
(***************************************************************************)
EXTENDS Integers, Sequences, SequencesExt

CONSTANTS
  Invocations,  \* runs of the script against the same log root
  Repositories  \* the number of selected repositories

RepositoriesAssumption == Repositories \in Nat \ {0}

Nobody == "nobody"
InvocationsAssumption == Nobody \notin Invocations

VARIABLES
  lock,     \* the invocation that holds .nightly.lock
  pc,       \* what each invocation does next
  row,      \* the status of the repository at hand
  rows,     \* summary["results"] in memory
  group,    \* the living members of the check's process group
  expired,  \* its time limit has passed
  jsonl,    \* results.jsonl on disk
  tmp,      \* summary.tmp on disk
  summary,  \* summary.json on disk
  prior     \* the summary.json before the last rename, which is not synced

report == <<jsonl, tmp, summary, prior>>
vars == <<lock, pc, row, rows, group, expired, report>>

Statuses == {"passed", "failed", "timeout", "interrupted"}
Missing == [status |-> "missing", results |-> <<>>]
Summary == [status : {"running", "passed", "failed"}, results : Seq(Statuses)]

Ended == {"done", "refused", "killed"}

Init ==
  /\ lock = Nobody
  /\ pc = [p \in Invocations |-> "idle"]
  /\ row = [p \in Invocations |-> "failed"]
  /\ rows = [p \in Invocations |-> <<>>]
  /\ group = [p \in Invocations |-> {}]
  /\ expired = [p \in Invocations |-> FALSE]
  /\ jsonl = [p \in Invocations |-> <<>>]
  /\ tmp = [p \in Invocations |-> Missing]
  /\ summary = [p \in Invocations |-> Missing]
  /\ prior = [p \in Invocations |-> Missing]

-----------------------------------------------------------------------------
(* The invocation *)

Goto(p, phase) == pc' = [pc EXCEPT ![p] = phase]

\* locked_logs: flock without waiting; a second invocation stops at once.
Acquire(p) ==
  /\ pc[p] = "idle"
  /\ IF lock = Nobody
     THEN lock' = p /\ Goto(p, "begin")
     ELSE Goto(p, "refused") /\ UNCHANGED lock
  /\ UNCHANGED <<row, rows, group, expired, report>>

\* save_summary, first half: write and sync summary.tmp.
WriteTmp(p, status) ==
  tmp' = [tmp EXCEPT ![p] = [status |-> status, results |-> rows[p]]]

\* run_fleet: a fresh report directory with a summary that says "running".
Begin(p) ==
  /\ pc[p] = "begin"
  /\ WriteTmp(p, "running") /\ Goto(p, "rename")
  /\ UNCHANGED <<lock, row, rows, group, expired, jsonl, summary, prior>>

\* inspect_checkout: identity, entrypoints and a clean tree, or a row without a
\* check: failed, interrupted, or "timeout" when a git command takes too long.
\* Otherwise the check starts in a session of its own.
Inspect(p) ==
  /\ pc[p] = "inspect"
  /\ \/ /\ \E s \in Statuses \ {"passed"} : row' = [row EXCEPT ![p] = s]
        /\ group' = [group EXCEPT ![p] = {}]
        /\ Goto(p, "row") /\ UNCHANGED expired
     \/ /\ group' = [group EXCEPT ![p] = {"leader", "descendant"}]
        /\ expired' = [expired EXCEPT ![p] = FALSE]
        /\ Goto(p, "run") /\ UNCHANGED row
  /\ UNCHANGED <<lock, rows, report>>

\* process.wait returns; descendants that outlive a finished check are left.
CheckEnds(p) ==
  /\ pc[p] = "run" /\ "leader" \in group[p]
  /\ \E s \in {"passed", "failed"} : row' = [row EXCEPT ![p] = s]
  /\ group' = [group EXCEPT ![p] = @ \ {"leader"}]
  /\ Goto(p, "row")
  /\ UNCHANGED <<lock, rows, expired, report>>

\* The time limit passes.
Expire(p) ==
  /\ pc[p] = "run" /\ ~expired[p]
  /\ expired' = [expired EXCEPT ![p] = TRUE]
  /\ UNCHANGED <<lock, pc, row, rows, group, report>>

\* stop_process_group after a timeout or Ctrl-C: SIGTERM, which members may
\* ignore, and a wait of five seconds for the leader.
Terminate(p) ==
  /\ pc[p] = "run"
  /\ row' = [row EXCEPT ![p] = IF expired[p] THEN "timeout" ELSE "interrupted"]
  /\ \E left \in SUBSET group[p] : group' = [group EXCEPT ![p] = left]
  /\ Goto(p, "kill")
  /\ UNCHANGED <<lock, rows, expired, report>>

\* Mutant of KillGroup: the leader is expected to obey SIGTERM.
AwaitLeader(p) ==
  /\ pc[p] = "kill" /\ "leader" \notin group[p]
  /\ group' = [group EXCEPT ![p] = {}]
  /\ Goto(p, "row")
  /\ UNCHANGED <<lock, row, rows, expired, report>>

\* SIGKILL for the group, also when its leader is gone, and reap the leader.
KillGroup(p) ==
  /\ pc[p] = "kill"
  /\ group' = [group EXCEPT ![p] = {}]
  /\ Goto(p, "row")
  /\ UNCHANGED <<lock, row, rows, expired, report>>

\* The row is complete: append it in memory and to results.jsonl, synced.
AppendRow(p) ==
  /\ pc[p] = "row"
  /\ rows' = [rows EXCEPT ![p] = Append(@, row[p])]
  /\ jsonl' = [jsonl EXCEPT ![p] = Append(@, row[p])]
  /\ Goto(p, "tmp")
  /\ UNCHANGED <<lock, row, group, expired, tmp, summary, prior>>

SaveRow(p) ==
  /\ pc[p] = "tmp"
  /\ WriteTmp(p, "running") /\ Goto(p, "rename")
  /\ UNCHANGED <<lock, row, rows, group, expired, jsonl, summary, prior>>

\* All repositories are done, or an interruption ends the loop.
LastRow(p) == Len(rows[p]) = Repositories \/ (rows[p] # <<>> /\ Last(rows[p]) = "interrupted")

\* save_summary, second half: the rename makes the summary visible.
Rename(p) ==
  /\ pc[p] = "rename"
  /\ summary' = [summary EXCEPT ![p] = tmp[p]]
  /\ prior' = [prior EXCEPT ![p] = summary[p]]
  /\ Goto(p, IF tmp[p].status # "running" THEN "release"
             ELSE IF LastRow(p) THEN "final" ELSE "inspect")
  /\ UNCHANGED <<lock, row, rows, group, expired, jsonl, tmp>>

\* Mutant of Verdict: only rows that failed count.
NoFailedRow(results) == IF \E i \in DOMAIN results : results[i] = "failed" THEN "failed" ELSE "passed"

\* all(row["status"] == "passed")
Verdict(results) == IF \A i \in DOMAIN results : results[i] = "passed" THEN "passed" ELSE "failed"

Finish(p) ==
  /\ pc[p] = "final"
  /\ WriteTmp(p, Verdict(rows[p])) /\ Goto(p, "rename")
  /\ UNCHANGED <<lock, row, rows, group, expired, jsonl, summary, prior>>

Release(p) ==
  /\ pc[p] = "release"
  /\ lock' = Nobody /\ Goto(p, "done")
  /\ UNCHANGED <<row, rows, group, expired, report>>

-----------------------------------------------------------------------------
(* Failures *)

\* The invocation dies; the kernel releases its lock, and the check, in its
\* own session, runs on.
Kill(p) ==
  /\ pc[p] \notin Ended \cup {"idle"}
  /\ lock' = Nobody /\ Goto(p, "killed")
  /\ UNCHANGED <<row, rows, group, expired, report>>

\* An orphaned check or a descendant ends by itself.
OrphanEnds(p) ==
  /\ pc[p] \notin {"run", "kill"}
  /\ \E m \in group[p] : group' = [group EXCEPT ![p] = @ \ {m}]
  /\ UNCHANGED <<lock, pc, row, rows, expired, report>>

\* The machine stops: processes and locks vanish, and a rename that was not
\* synced with its directory can be undone.
PowerLoss ==
  /\ \E p \in Invocations : pc[p] \notin Ended \cup {"idle"}
  /\ lock' = Nobody
  /\ pc' = [p \in Invocations |-> IF pc[p] \in Ended \cup {"idle"} THEN pc[p] ELSE "killed"]
  /\ group' = [p \in Invocations |-> {}]
  /\ summary' \in {s \in [Invocations -> {summary[p] : p \in Invocations} \cup
                                         {prior[p] : p \in Invocations}] :
                     \A p \in Invocations : s[p] \in {summary[p], prior[p]}}
  /\ UNCHANGED <<row, rows, expired, jsonl, tmp, prior>>

Steps(p) ==
  \/ Acquire(p) \/ Begin(p) \/ Inspect(p) \/ (expired[p] /\ Terminate(p)) \/ KillGroup(p)
  \/ AppendRow(p) \/ SaveRow(p) \/ Rename(p) \/ Finish(p) \/ Release(p)

Next ==
  \/ \E p \in Invocations :
       \/ Acquire(p) \/ Begin(p) \/ Inspect(p) \/ CheckEnds(p) \/ Expire(p)
       \/ Terminate(p) \/ KillGroup(p) \/ AppendRow(p) \/ SaveRow(p) \/ Rename(p)
       \/ Finish(p) \/ Release(p) \/ Kill(p) \/ OrphanEnds(p)
  \/ PowerLoss

\* The script and the clock keep running; a check may hang for ever.
Fairness == \A p \in Invocations : WF_vars(Steps(p)) /\ WF_vars(Expire(p))

Spec == Init /\ [][Next]_vars /\ Fairness

-----------------------------------------------------------------------------
(* Properties *)

TypeOK ==
  /\ lock \in Invocations \cup {Nobody}
  /\ pc \in [Invocations -> {"idle", "begin", "inspect", "run", "kill", "row", "tmp",
                             "rename", "final", "release"} \cup Ended]
  /\ row \in [Invocations -> Statuses]
  /\ rows \in [Invocations -> Seq(Statuses)] /\ jsonl \in [Invocations -> Seq(Statuses)]
  /\ group \in [Invocations -> SUBSET {"leader", "descendant"}]
  /\ expired \in [Invocations -> BOOLEAN]
  /\ tmp \in [Invocations -> Summary \cup {Missing}]
  /\ summary \in [Invocations -> Summary \cup {Missing}]
  /\ prior \in [Invocations -> Summary \cup {Missing}]

\* Checks run serially across invocations of one log root; two checks are only
\* alive together when the invocation of one of them was killed from outside.
SerialChecks ==
  \A p, q \in Invocations :
    p # q /\ "leader" \in group[p] /\ "leader" \in group[q] => "killed" \in {pc[p], pc[q]}

\* A timed-out or interrupted check is gone with all its descendants before its
\* row is reported (stop_process_group).
GroupStopped ==
  \A p \in Invocations :
    pc[p] \in {"row", "tmp"} /\ row[p] \in {"timeout", "interrupted"} => group[p] = {}

\* The summary on disk never claims more than was checked: "passed" stands for
\* every selected repository, and its rows are synced in results.jsonl, at
\* whatever point the invocation or the machine stopped.
DurableTruth ==
  \A p \in Invocations :
    /\ IsPrefix(summary[p].results, jsonl[p])
    /\ summary[p].status = "passed" =>
         jsonl[p] = [i \in 1 .. Repositories |-> "passed"]

\* Every invocation ends although checks may hang: the time limit bounds each
\* of them, and a second invocation never waits for the lock.
Over(p) == pc[p] \in Ended
InvocationsEnd == \A p \in Invocations : <>Over(p)

-----------------------------------------------------------------------------
(***************************************************************************)
(* Why it holds.  Whoever works holds the lock.  The rows in memory are    *)
(* the rows on disk, every summary that was ever written has some of the   *)
(* first of them, and one that says "passed" was written last of all.      *)
(***************************************************************************)
LockOK == \A p \in Invocations : pc[p] \notin Ended \cup {"idle"} => lock = p

LeadersOK == \A p \in Invocations : "leader" \in group[p] => pc[p] \in {"run", "kill", "killed"}

AllPassed == [i \in 1 .. Repositories |-> "passed"]

ReportOK(p) ==
  /\ rows[p] = jsonl[p]
  /\ \A s \in {tmp[p], summary[p], prior[p]} :
       /\ IsPrefix(s.results, jsonl[p])
       /\ s.status = "passed" => jsonl[p] = AllPassed /\ pc[p] \in {"rename", "release", "done", "killed"}
  /\ pc[p] = "rename" => summary[p].status # "passed" /\ prior[p].status # "passed"
  /\ pc[p] = "final" => LastRow(p)

Inv == TypeOK /\ LockOK /\ LeadersOK /\ GroupStopped /\ \A p \in Invocations : ReportOK(p)
=============================================================================
