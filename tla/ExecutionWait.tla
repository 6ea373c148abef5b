--------------------------- MODULE ExecutionWait ---------------------------
(***************************************************************************)
(* How a publishing job proves that it belongs to the attempt that is      *)
(* executing now: wait_for_executing_run and what it calls.  The job polls *)
(* GitHub's record of the run, of the attempt and of its jobs.  Each       *)
(* answer may come from a replica that lags behind, the attempt may be     *)
(* cancelled and run again between two answers, and a rerun may carry      *)
(* clones of jobs that an earlier attempt executed.  Answers that are only *)
(* late must be waited for, for five minutes at most; conflicting ones end *)
(* the wait at once.                                                       *)
(*                                                                         *)
(* The record of an attempt goes through the versions below in this order. *)
(* The waiting job itself is the job "mine", so the wait begins when the   *)
(* version is step_running.                                                *)
(***************************************************************************)
EXTENDS Integers, FiniteSets

CONSTANTS
    Deadline,   \* EXECUTING_RUN_WAIT_SECONDS, in sleeps of two seconds
    MaxSlow     \* bound: units of time that requests take altogether

DeadlineAssumption == Deadline \in Nat \ {0}
MaxSlowAssumption == MaxSlow \in Nat

Previous == 0       \* the record still shows the attempt before this one
Queued == 1
GateQueued == 2
GateRunning == 3
GatePassed == 4
JobStarted == 5     \* between two steps of the waiting job
StepRunning == 6
Ended == 7          \* cancelled, timed out or finished
Rerun == 8          \* a later attempt of the same run is queued
RerunRunning == 9

VARIABLES
    call,       \* the caller's arguments and environment
    clones,     \* prerequisite jobs that the attempt did not execute itself
    version,    \* GitHub's record as it really is
    floor,      \* the oldest version that a replica still serves
    now,        \* time since the wait began
    slow,       \* how much of it was spent in requests
    pc,         \* the answer the caller waits for
    loopFloor,  \* history: floor when the current round of polling began
    seen,       \* history: did an answer show the attempt before this one?
    result

vars == <<call, clones, version, floor, now, slow, pc, loopFloor, seen, result>>
github == <<call, clones, version, floor>>

Phases == {"run", "attempt", "jobs", "gate", "boundary", "sleep", "done"}
Results == {"none", "accepted", "refused", "expired", "failed"}

\* publish_versioned asks for the gate and a proof, the unversioned publisher
\* for the gate, prepare and promote for neither.  A workflow that passes no
\* check-run ID has no context and relies on the aggregate status.
Calls == {c \in [attempt : {1, 2}, gate : BOOLEAN, proof : BOOLEAN, context : BOOLEAN] :
             c.proof => c.gate}

----------------------------------------------------------------------------
(* What GitHub answers from the version v of its record.                   *)

RunAttempt(v) ==
    IF v = Previous THEN call.attempt - 1
    ELSE IF v >= Rerun THEN call.attempt + 1 ELSE call.attempt

AttemptStatus(v) ==
    IF v <= Queued THEN "queued"
    ELSE IF v >= Ended THEN "completed" ELSE "in_progress"

RunStatus(v) ==
    IF v = Previous THEN "completed"
    ELSE IF v = Rerun THEN "queued"
    ELSE IF v = RerunRunning THEN "in_progress" ELSE AttemptStatus(v)

GateStatus(v) ==
    IF ~call.gate \/ v <= Queued THEN "absent"
    ELSE IF "gate" \in clones \/ v >= GatePassed THEN "success"
    ELSE IF v = GateQueued THEN "queued" ELSE "in_progress"

JobStatus(v) ==
    IF v < GatePassed THEN "absent"
    ELSE IF v = GatePassed THEN "queued"
    ELSE IF v >= Ended THEN "completed" ELSE "in_progress"

\* A request for the run; an attempt's own record exists from Queued on.
Answers == floor .. version
AttemptAnswers == {v \in Answers : v >= Queued}

----------------------------------------------------------------------------
Init ==
    /\ call \in Calls
    /\ clones \in SUBSET {"gate", "checks"}
    /\ (call.attempt = 1 \/ ~call.gate) => clones = {}
    /\ version = StepRunning
    /\ floor \in Previous .. StepRunning
    /\ call.attempt = 1 => floor >= Queued
    /\ now = 0 /\ slow = 0
    /\ pc = "run"
    /\ loopFloor = floor
    /\ seen = "current"
    /\ result = "none"

End(r) == pc' = "done" /\ result' = r
Ask(phase) == pc' = phase /\ UNCHANGED result

\* execution_deadline: no further request, and no acceptance, once expired.
BeforeDeadline(phase) == IF now < Deadline THEN Ask(phase) ELSE End("expired")

Accept == IF now < Deadline THEN End("accepted") ELSE End("expired")

\* Not ready yet: sleep while the shared time lasts.
Pending == BeforeDeadline("sleep")

\* The executing caller goes on to the gate, if it needs one.
Executing == IF call.gate THEN Ask("gate") ELSE Accept

\* Mutant: only the status of the record counts.
ReadStatus ==
    /\ pc = "run"
    /\ loopFloor' = floor
    /\ \E v \in Answers :
         /\ seen' = IF v = Previous THEN "previous" ELSE seen
         /\ IF call.context /\ (call.proof \/ RunStatus(v) # "in_progress")
            THEN BeforeDeadline("attempt")
            ELSE IF RunStatus(v) = "in_progress" THEN Executing ELSE Pending
    /\ UNCHANGED <<github, now, slow>>

\* The aggregate record, checked for identity and status in every round.
ReadRun ==
    /\ pc = "run"
    /\ loopFloor' = floor
    /\ \E v \in Answers :
         /\ seen' = IF v = Previous THEN "previous" ELSE seen
         /\ IF RunAttempt(v) # call.attempt \/ RunStatus(v) = "completed"
            THEN End("refused")
            ELSE IF call.context /\ (call.proof \/ RunStatus(v) # "in_progress")
            THEN BeforeDeadline("attempt")
            ELSE IF RunStatus(v) = "in_progress" THEN Executing ELSE Pending
    /\ UNCHANGED <<github, now, slow>>

\* The record of the exact attempt: it must be active, and may be ahead of
\* the aggregate one.
ReadAttempt ==
    /\ pc = "attempt"
    /\ \E v \in AttemptAnswers :
         IF AttemptStatus(v) = "completed" THEN End("refused")
         ELSE IF AttemptStatus(v) = "in_progress" /\ ~call.proof
         THEN IF now < Deadline THEN Executing ELSE End("expired")
         ELSE BeforeDeadline("jobs")
    /\ UNCHANGED <<github, now, slow, loopFloor, seen>>

\* The job with the caller's own check-run ID: absent, queued or between two
\* steps is not ready; one running step is the proof; anything else conflicts.
ReadJobs ==
    /\ pc = "jobs"
    /\ \E v \in AttemptAnswers :
         IF JobStatus(v) = "completed" THEN End("refused")
         ELSE IF now >= Deadline THEN End("expired")
         ELSE IF v = StepRunning THEN Executing ELSE Pending
    /\ UNCHANGED <<github, now, slow, loopFloor, seen>>

\* The Release gate of the attempt: pending, or passed.
ReadGate ==
    /\ pc = "gate"
    /\ \E v \in AttemptAnswers :
         IF GateStatus(v) # "success" THEN Pending
         ELSE IF call.attempt = 1 THEN Accept ELSE Ask("boundary")
    /\ UNCHANGED <<github, now, slow, loopFloor, seen>>

\* Mutant of FreshJobs: the caller's own running job counts as not executed.
FinishedJobs == clones = {} /\ JobStatus(version) = "completed"

\* A rerun: every successful job must have executed since the attempt began.
\* A clone has the attempt's number and keeps its old times.
FreshJobs == clones = {}

ReadBoundary ==
    /\ pc = "boundary"
    /\ IF FreshJobs THEN Accept ELSE End("refused")
    /\ UNCHANGED <<github, now, slow, loopFloor, seen>>

Sleep ==
    /\ pc = "sleep"
    /\ now' = now + 1
    /\ Ask("run")
    /\ UNCHANGED <<github, slow, loopFloor, seen>>

\* A request that fails, after its own retries, ends the wait.
RequestFails ==
    /\ pc \in {"run", "attempt", "jobs", "gate", "boundary"}
    /\ End("failed")
    /\ UNCHANGED <<github, now, slow, loopFloor, seen>>

----------------------------------------------------------------------------
(* GitHub and the time that requests take.                                 *)

RequestTakesTime ==
    /\ pc \notin {"sleep", "done"}
    /\ slow < MaxSlow
    /\ slow' = slow + 1 /\ now' = now + 1
    /\ UNCHANGED <<github, pc, loopFloor, seen, result>>

\* Cancelling leaves the job's process a while to go on.
Conclude ==
    /\ pc # "done"
    /\ version < RerunRunning
    /\ version' = version + 1
    /\ UNCHANGED <<call, clones, floor, now, slow, pc, loopFloor, seen, result>>

CatchUp ==
    /\ pc # "done"
    /\ floor < version
    /\ floor' = floor + 1
    /\ UNCHANGED <<call, clones, version, now, slow, pc, loopFloor, seen, result>>

Poll == ReadRun \/ ReadAttempt \/ ReadJobs \/ ReadGate \/ ReadBoundary \/ Sleep
Done == pc = "done" /\ UNCHANGED vars

Next == Poll \/ RequestFails \/ RequestTakesTime \/ Conclude \/ CatchUp \/ Done

(***************************************************************************)
(* Each request has a time limit of its own and the job is running, so the *)
(* caller keeps taking steps.  Nothing makes GitHub end an attempt.        *)
(***************************************************************************)
Spec == Init /\ [][Next]_vars /\ WF_vars(Poll)

----------------------------------------------------------------------------
(* Properties                                                              *)

TypeOK ==
    /\ call \in Calls
    /\ clones \subseteq {"gate", "checks"}
    /\ version \in StepRunning .. RerunRunning
    /\ floor \in 0 .. version
    /\ slow \in 0 .. MaxSlow
    /\ now \in slow .. Deadline + MaxSlow
    /\ pc \in Phases
    /\ loopFloor \in 0 .. floor
    /\ seen \in {"current", "previous"}
    /\ result \in Results
    /\ pc = "done" <=> result # "none"

(***************************************************************************)
(* The end of an attempt is not overlooked: once every replica shows it,   *)
(* no round of polling that begins afterwards accepts the attempt, whether *)
(* or not it was run again meanwhile.                                      *)
(***************************************************************************)
EndedNotAccepted == result = "accepted" => loopFloor < Ended

(***************************************************************************)
(* A publisher is accepted only with evidence that this attempt produced:  *)
(* no prerequisite job of it is a clone of an earlier attempt's success.   *)
(***************************************************************************)
EvidenceIsFresh == result = "accepted" /\ call.gate => clones = {}

(***************************************************************************)
(* Lag alone never makes the wait fail.  A refusal means that the attempt  *)
(* has ended, that it lacks fresh evidence, or that an answer still showed *)
(* the attempt before this one, which is taken for a conflict.             *)
(***************************************************************************)
RefusedForCause ==
    result = "refused" =>
        version >= Ended \/ seen = "previous" \/ (call.gate /\ clones # {})

(***************************************************************************)
(* The verdict of the wait is right: neither an attempt that has ended nor *)
(* cloned evidence is accepted, and lag alone is never a refusal.          *)
(***************************************************************************)
WaitSound == EndedNotAccepted /\ EvidenceIsFresh /\ RefusedForCause

(***************************************************************************)
(* Nothing is accepted once the five shared minutes are over, however long *)
(* the last requests took.                                                 *)
(***************************************************************************)
AcceptsInTime == result' = "accepted" /\ result = "none" => now < Deadline

(***************************************************************************)
(* The attempt goes on with fresh jobs, and the replicas caught up with    *)
(* the running step in time; then the wait accepts, unless a request fails *)
(* or the attempt ends.                                                    *)
(***************************************************************************)
CaughtUp ==
    /\ pc = "run" /\ floor = StepRunning /\ version = StepRunning /\ clones = {}
    /\ now + MaxSlow - slow < Deadline

Accepted == result \in {"accepted", "failed"} \/ version >= Ended
============================================================================
