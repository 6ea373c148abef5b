--------------------------- MODULE RecoveryPipeline ---------------------------
(***************************************************************************)
(* run of arc_recovery_pipeline.py: one pipeline of two commands, one      *)
(* exclusive output.  The parent proves the input, leaves an intent,       *)
(* starts the commands in sessions of their own, keeps what the last one   *)
(* writes in NAME.partial, links it to NAME, ends every process group and  *)
(* leaves a receipt; only a passed receipt is acceptance.  Operators may   *)
(* race for one name, a parent may be killed, disk space, the input and    *)
(* the commands do as they please.                                         *)
(***************************************************************************)
EXTENDS Naturals

CONSTANTS
    Operators,      \* invocations for the same output
    MaxReplaced,    \* replacements of the input file
    MaxKills        \* parents killed

VARIABLES
    pc,             \* of each parent
    failure,        \* whether it has recorded one
    input,          \* the input file: content and identity
    proof,          \* the identity that each parent has verified
    child,          \* of each operator: its two commands
    stray,          \* whether a command has left a descendant in its group
    read,           \* history: the contents that the first command has read
    out,            \* what the last command has written
    files,          \* the four names next to the output: who wrote them, and what
    pending,        \* the names whose .pending exists
    kills

vars == <<pc, failure, input, proof, child, stray, read, out, files, pending, kills>>

Commands == 1..2
Missing == [by |-> "nobody", what |-> "none"]
Names == {"destination", "partial", "intent", "receipt"}

Init ==
    /\ pc = [o \in Operators |-> "check"] /\ failure = [o \in Operators |-> FALSE]
    /\ input = [content |-> "reviewed", id |-> 0] /\ proof = [o \in Operators |-> 0]
    /\ child = [o \in Operators |-> [c \in Commands |-> "none"]] /\ stray = [o \in Operators |-> [c \in Commands |-> FALSE]]
    /\ read = [o \in Operators |-> {}] /\ out = [o \in Operators |-> "none"]
    /\ files = [n \in Names |-> Missing] /\ pending = {} /\ kills = 0

Go(o, where) == pc' = [pc EXCEPT ![o] = where]
Fail(o) == failure' = [failure EXCEPT ![o] = TRUE] /\ Go(o, "teardown")
Free(n) == files[n] = Missing
Write(o, n, what) == files' = [files EXCEPT ![n] = [by |-> o, what |-> what]]
Children == <<child, stray, read, out>>

-----------------------------------------------------------------------------
(* Before the pipeline: a refusal leaves no receipt *)

Check(o) ==
    /\ pc[o] = "check" /\ Go(o, IF \A n \in Names : Free(n) THEN "proof" ELSE "refused")
    /\ UNCHANGED <<failure, input, proof, Children, files, pending, kills>>

\* input_proof: the reviewed content, and the identity to compare later.
InputProof(o) ==
    /\ pc[o] = "proof" /\ Go(o, IF input.content = "reviewed" THEN "intent" ELSE "refused")
    /\ proof' = [proof EXCEPT ![o] = input.id]
    /\ UNCHANGED <<failure, input, Children, files, pending, kills>>

\* durable_json, first half: the name must be free, NAME.pending is created exclusively; disk_gate may refuse before or after.
Pend(o, n, then, refused) ==
    \/ Free(n) /\ n \notin pending /\ pending' = pending \cup {n} /\ (Go(o, then) \/ Go(o, refused))
    \/ UNCHANGED pending /\ Go(o, refused)

\* Second half: the link; a refusal of disk_gate after it takes the name away again.
Publish(o, n, what, then, refused) ==
    \/ Free(n) /\ Write(o, n, what) /\ Go(o, then)
    \/ UNCHANGED files /\ Go(o, refused)

Intent(o) ==
    \/ /\ pc[o] = "intent" /\ Pend(o, "intent", "publish_intent", "refused")
       /\ UNCHANGED <<failure, input, proof, Children, files, kills>>
    \/ /\ pc[o] = "publish_intent" /\ Publish(o, "intent", "intent", "partial", "refused")
       /\ UNCHANGED <<failure, input, proof, Children, pending, kills>>

-----------------------------------------------------------------------------
(* The pipeline *)

\* The partial output is opened exclusively; there may be no room.
OpenPartial(o) ==
    /\ pc[o] = "partial"
    /\ \/ Free("partial") /\ Write(o, "partial", "open") /\ Go(o, "launch") /\ UNCHANGED failure
       \/ UNCHANGED files /\ Fail(o)
    /\ UNCHANGED <<input, proof, Children, pending, kills>>

\* The commands start one after the other; the deadline may pass before any of them.
Launch(o) ==
    /\ pc[o] = "launch"
    /\ \/ /\ child[o][1] = "none" /\ child' = [child EXCEPT ![o][1] = "running"] /\ UNCHANGED <<pc, failure>>
       \/ /\ child[o][1] # "none" /\ child' = [child EXCEPT ![o][2] = "running"] /\ Go(o, "watch") /\ UNCHANGED failure
       \/ /\ Fail(o) /\ UNCHANGED child
    /\ UNCHANGED <<input, proof, stray, read, out, files, pending, kills>>

\* The commands: the first reads the input; each ends well or not, and may leave a descendant behind.
Read(o) ==
    /\ child[o][1] = "running" /\ read' = [read EXCEPT ![o] = @ \cup {input.content}]
    /\ UNCHANGED <<pc, failure, input, proof, child, stray, out, files, pending, kills>>

Exit(o, c) ==
    /\ child[o][c] = "running"
    /\ \E status \in {"ok", "bad"} :
        /\ status = "ok" => IF c = 1 THEN read[o] # {} ELSE child[o][1] # "running"
        /\ child' = [child EXCEPT ![o][c] = status]
        \* The last command cannot tell a feeder that failed from one that was done.
        /\ out' = IF c = 1 THEN out ELSE [out EXCEPT ![o] = IF status = "ok" /\ child[o][1] = "ok" THEN "whole" ELSE "part"]
    /\ \E left \in BOOLEAN : stray' = [stray EXCEPT ![o][c] = left]
    /\ UNCHANGED <<pc, failure, input, proof, read, files, pending, kills>>

Exited(o) == \A c \in Commands : child[o][c] \in {"ok", "bad"}
\* A descendant of the last command keeps its pipe open.
Drained(o) == Exited(o) /\ ~stray[o][2]

\* Like a shell without pipefail.
LastExit(o) == child[o][2] = "ok"

\* Every status is zero, seen without reaping any child.
ExitsHold(o) == \A c \in Commands : child[o][c] = "ok"

\* The loop ends when nothing can come any more.
Watch(o) ==
    /\ pc[o] = "watch" /\ Drained(o) /\ Go(o, "judge")
    /\ UNCHANGED <<failure, input, proof, Children, files, pending, kills>>

\* A command failed, the deadline passed, a limit or the disk reserve was met.
GivesUp(o) == TRUE

GiveUp(o) ==
    /\ pc[o] = "watch" /\ GivesUp(o) /\ Fail(o)
    /\ UNCHANGED <<input, proof, Children, files, pending, kills>>

\* After the last byte: the statuses, and the input is still the file that was verified.
Judge(o) ==
    /\ pc[o] = "judge"
    /\ IF ExitsHold(o) /\ input.id = proof[o] THEN Go(o, "link") /\ UNCHANGED failure ELSE Fail(o)
    /\ UNCHANGED <<input, proof, Children, files, pending, kills>>

\* The name appears; the synchronization after it may still fail.
Promote(o) ==
    /\ pc[o] = "link"
    /\ \/ Free("destination") /\ Write(o, "destination", out[o]) /\ ((Go(o, "teardown") /\ UNCHANGED failure) \/ Fail(o))
       \/ UNCHANGED files /\ Fail(o)
    /\ UNCHANGED <<input, proof, Children, pending, kills>>

\* killpg, with every leader still unreaped so that the group is surely ours.
Group(o) == [c \in Commands |-> FALSE]

Teardown(o) ==
    /\ pc[o] = "teardown" /\ Go(o, "receipt")
    /\ \/ /\ child' = [child EXCEPT ![o] = [c \in Commands |-> IF @[c] = "none" THEN "none" ELSE "reaped"]]
          /\ stray' = [stray EXCEPT ![o] = Group(o)] /\ UNCHANGED failure
       \* A group could not be ended within two seconds.
       \/ failure' = [failure EXCEPT ![o] = TRUE] /\ UNCHANGED <<child, stray>>
    /\ UNCHANGED <<input, proof, read, out, files, pending, kills>>

Receipt(o) ==
    \/ /\ pc[o] = "receipt" /\ Pend(o, "receipt", "publish_receipt", "ended")
       /\ UNCHANGED <<failure, input, proof, Children, files, kills>>
    \/ /\ pc[o] = "publish_receipt" /\ Publish(o, "receipt", IF failure[o] THEN "failed" ELSE "passed", "ended", "ended")
       /\ UNCHANGED <<failure, input, proof, Children, pending, kills>>

-----------------------------------------------------------------------------
(* Around it *)

\* The commands of a killed parent live on, in sessions of their own.
Kill(o) ==
    /\ pc[o] \notin {"refused", "ended", "dead"} /\ kills < MaxKills /\ kills' = kills + 1 /\ Go(o, "dead")
    /\ UNCHANGED <<failure, input, proof, Children, files, pending>>

Replace ==
    /\ input.id < MaxReplaced /\ \E content \in {"reviewed", "other"} : input' = [content |-> content, id |-> input.id + 1]
    /\ UNCHANGED <<pc, failure, proof, Children, files, pending, kills>>

Done == (\A o \in Operators : pc[o] \in {"refused", "ended", "dead"}) /\ UNCHANGED vars

Parent(o) ==
    \/ Check(o) \/ InputProof(o) \/ Intent(o) \/ OpenPartial(o) \/ Launch(o) \/ Watch(o) \/ GiveUp(o) \/ Judge(o)
    \/ Promote(o) \/ Teardown(o) \/ Receipt(o)

Next == (\E o \in Operators : Parent(o) \/ Read(o) \/ (\E c \in Commands : Exit(o, c)) \/ Kill(o)) \/ Replace \/ Done

\* The parent is scheduled; nothing is assumed of the commands.
Fairness == \A o \in Operators : WF_vars(Parent(o))
Spec == Init /\ [][Next]_vars /\ Fairness

-----------------------------------------------------------------------------

(***************************************************************************)
(* A passed receipt is the only acceptance.  Whoever raced for the name,   *)
(* was killed, replaced the input or failed in the middle of the pipe: it  *)
(* stands next to the whole output of one run whose commands all ended     *)
(* well and read nothing but the reviewed input, and no process of its     *)
(* groups is left that could still write.                                  *)
(***************************************************************************)
ReceiptIsTrue ==
    files["receipt"].what = "passed" =>
        LET o == files["receipt"].by IN
        /\ files["destination"] = [by |-> o, what |-> "whole"]
        /\ read[o] = {"reviewed"}
        /\ \A c \in Commands : ~stray[o][c] /\ child[o][c] # "running"

(***************************************************************************)
(* A command that hangs, or a descendant that keeps the pipe open, cannot  *)
(* hold the run: every parent that is not killed ends, and its commands    *)
(* with it.                                                                *)
(***************************************************************************)
Over(o) == pc[o] \in {"refused", "ended", "dead"}
RecoveryEnds == \A o \in Operators : <>Over(o)

-----------------------------------------------------------------------------

(***************************************************************************)
(* Why it holds.  While the input still has the identity that was verified,*)
(* nothing but the reviewed content was read; so what is judged good is    *)
(* whole and was read from it, and no command is left that could read on.  *)
(* A run that has not failed by its teardown has linked that output under  *)
(* the name, and names are never taken from whoever has them.              *)
(***************************************************************************)
Positions == {"check", "proof", "intent", "publish_intent", "partial", "launch", "watch", "judge", "link", "teardown",
              "receipt", "publish_receipt", "ended", "refused", "dead"}

TypesOK ==
    /\ pc \in [Operators -> Positions] /\ failure \in [Operators -> BOOLEAN]
    /\ input \in [content: {"reviewed", "other"}, id: Nat] /\ proof \in [Operators -> Nat]
    /\ child \in [Operators -> [Commands -> {"none", "running", "ok", "bad", "reaped"}]]
    /\ stray \in [Operators -> [Commands -> BOOLEAN]] /\ read \in [Operators -> SUBSET {"reviewed", "other"}]
    /\ out \in [Operators -> {"none", "part", "whole"}]
    /\ files \in [Names -> [by: Operators \cup {"nobody"},
                           what: {"none", "intent", "open", "part", "whole", "failed", "passed"}]]
    /\ pending \subseteq Names

\* The commands are started in order, after the proof, and the second ends well only after the first.
ChildrenOK(o) ==
    /\ pc[o] \in {"check", "proof", "intent", "publish_intent", "partial"} => child[o][1] = "none" /\ read[o] = {}
    /\ pc[o] \in {"check", "proof", "intent", "publish_intent", "partial", "launch"} => child[o][2] = "none"
    /\ child[o][2] # "none" => child[o][1] # "none"
    /\ child[o][1] = "none" => read[o] = {}
    /\ child[o][1] = "ok" => read[o] # {}
    /\ child[o][2] = "ok" => child[o][1] # "running" /\ (child[o][1] = "ok" => out[o] = "whole")

\* An input that has the verified identity has the reviewed content, and had it all the time.
ProofOK(o) ==
    /\ proof[o] <= input.id
    /\ pc[o] \in {"intent", "publish_intent", "partial", "launch", "watch", "judge"} /\ proof[o] = input.id
         => input.content = "reviewed" /\ read[o] \subseteq {"reviewed"}

Linked(o) == files["destination"] = [by |-> o, what |-> "whole"]

\* What a run that goes on without a failure has behind it.
GoodOK(o) ==
    /\ pc[o] = "link" => ExitsHold(o) /\ read[o] = {"reviewed"}
    /\ pc[o] = "teardown" /\ ~failure[o] => ExitsHold(o) /\ read[o] = {"reviewed"} /\ Linked(o)
    /\ pc[o] \in {"receipt", "publish_receipt"} /\ ~failure[o] =>
         read[o] = {"reviewed"} /\ Linked(o) /\ \A c \in Commands : ~stray[o][c] /\ child[o][c] = "reaped"

PassedOK ==
    files["receipt"].what = "passed" =>
        \E o \in Operators :
            /\ files["receipt"].by = o /\ pc[o] = "ended"
            /\ read[o] = {"reviewed"} /\ Linked(o) /\ \A c \in Commands : ~stray[o][c] /\ child[o][c] = "reaped"

Inv == TypesOK /\ (\A o \in Operators : ChildrenOK(o) /\ ProofOK(o) /\ GoodOK(o)) /\ PassedOK
=============================================================================
