----------------------------- MODULE AssetStream -----------------------------
(***************************************************************************)
(* One asset transfer of scripts/release_control.py (_stream_asset): a     *)
(* child process writes to two pipes, two daemon threads read them into a  *)
(* bounded queue, and the main thread drains the queue into the file until *)
(* both pipes ended and the child exited, or a deadline, a full disk, a    *)
(* surplus byte or a reader's error ends the transfer.  Whatever happens,  *)
(* the cleanup stops the readers, kills and reaps the child and closes the *)
(* pipes.                                                                  *)
(***************************************************************************)
EXTENDS Integers, Sequences, FiniteSets

CONSTANTS
  Payload,    \* the number of chunks the child has for stdout
  Expected,   \* the expected size of the asset, in chunks
  Noise,      \* the number of chunks the child may write to stderr
  QueueSize,  \* maxsize of the queue
  PipeSize,   \* what a pipe holds, in chunks
  Inherited   \* TRUE: a descendant of the child may keep the pipes open

SizesAssumption ==
  /\ Payload \in Nat /\ Expected \in Nat /\ Noise \in Nat
  /\ QueueSize \in Nat \ {0} /\ PipeSize \in Nat \ {0}
InheritedAssumption == Inherited \in BOOLEAN

Kinds == {"stdout", "stderr"}

\* What a reader can put into the queue: a chunk, the end, or its exception.
EOF == 0
Broken == -1

VARIABLES
  child,     \* the transfer process
  emitted,   \* chunks the child has written, per pipe
  pipe,      \* chunks in the pipe
  open,      \* the pipe still has a writer
  expired,   \* the deadline has passed
  reader,    \* what each reader thread does next
  held,      \* the item it is about to send
  queue,     \* the events queue
  stopped,   \* the stop event
  main,      \* what the main thread does next
  ended,     \* the pipes whose end it has seen
  written,   \* the chunks in the file
  closed,    \* the main thread has closed its pipe objects
  outcome    \* how the transfer ended

childVars == <<child, emitted, open>>
readerVars == <<reader, held>>
mainVars == <<main, ended, written, closed, outcome>>
vars == <<child, emitted, pipe, open, expired, reader, held, queue, stopped,
          main, ended, written, closed, outcome>>

Limit == [k \in Kinds |-> IF k = "stdout" THEN Payload ELSE Noise]

Init ==
  /\ child = "running"
  /\ emitted = [k \in Kinds |-> 0]
  /\ pipe = [k \in Kinds |-> <<>>]
  /\ open = [k \in Kinds |-> TRUE]
  /\ expired = FALSE
  /\ reader = [k \in Kinds |-> "off"]
  /\ held = [k \in Kinds |-> EOF]
  /\ queue = <<>>
  /\ stopped = FALSE
  /\ main = "start"
  /\ ended = {}
  /\ written = <<>>
  /\ closed = FALSE
  /\ outcome = "none"

-----------------------------------------------------------------------------
(* The child and the clock *)

\* The child writes a chunk; it blocks while the pipe is full.
Emit(k) ==
  /\ child = "running" /\ open[k]
  /\ emitted[k] < Limit[k] /\ Len(pipe[k]) < PipeSize
  /\ emitted' = [emitted EXCEPT ![k] = @ + 1]
  /\ pipe' = [pipe EXCEPT ![k] = Append(@, emitted[k] + 1)]
  /\ UNCHANGED <<child, open, expired, readerVars, queue, stopped, mainVars>>

\* The child closes a pipe before it exits.
ClosePipe(k) ==
  /\ child = "running" /\ open[k]
  /\ open' = [open EXCEPT ![k] = FALSE]
  /\ UNCHANGED <<child, emitted, pipe, expired, readerVars, queue, stopped, mainVars>>

\* The exit of the child closes its pipes, except those a descendant holds.
PipesAfterExit == {o \in [Kinds -> BOOLEAN] :
                     \A k \in Kinds : o[k] => open[k] /\ Inherited}

\* The child ends on its own, with or without having written everything.
Exit ==
  /\ child = "running"
  /\ child' = "exited"
  /\ open' \in PipesAfterExit
  /\ UNCHANGED <<emitted, pipe, expired, readerVars, queue, stopped, mainVars>>

\* A killed child ends; one in an uninterruptible call may never do so.
Die ==
  /\ child = "killed"
  /\ child' = "exited"
  /\ open' \in PipesAfterExit
  /\ UNCHANGED <<emitted, pipe, expired, readerVars, queue, stopped, mainVars>>

Tick ==
  /\ ~expired
  /\ expired' = TRUE
  /\ UNCHANGED <<childVars, pipe, readerVars, queue, stopped, mainVars>>

-----------------------------------------------------------------------------
(* The reader threads *)

\* The head of read's loop.
Loop(k) ==
  /\ reader[k] = "loop"
  /\ reader' = [reader EXCEPT ![k] = IF stopped THEN "ended" ELSE "read"]
  /\ UNCHANGED <<childVars, pipe, expired, held, queue, stopped, mainVars>>

\* os.read returns a chunk, or nothing at the end of the pipe.  A thread that
\* is inside the call stays there when the pipe object is closed.
Read(k) ==
  /\ reader[k] = "read"
  /\ \/ /\ pipe[k] # <<>>
        /\ held' = [held EXCEPT ![k] = Head(pipe[k])]
        /\ pipe' = [pipe EXCEPT ![k] = Tail(@)]
     \/ /\ pipe[k] = <<>> /\ ~open[k]
        /\ held' = [held EXCEPT ![k] = EOF]
        /\ UNCHANGED pipe
  /\ reader' = [reader EXCEPT ![k] = "send"]
  /\ UNCHANGED <<childVars, expired, queue, stopped, mainVars>>

\* os.read fails, or fileno because the pipe object is closed by now.
ReadError(k) ==
  /\ reader[k] = "read"
  /\ held' = [held EXCEPT ![k] = Broken]
  /\ reader' = [reader EXCEPT ![k] = "send"]
  /\ UNCHANGED <<childVars, pipe, expired, queue, stopped, mainVars>>

AfterSend(k) == IF held[k] \in {EOF, Broken} THEN "ended" ELSE "loop"

\* Mutant of Send: the wait for room ignores the stop event.
SendBlocking(k) ==
  /\ reader[k] = "send"
  /\ Len(queue) < QueueSize
  /\ queue' = Append(queue, <<k, held[k]>>)
  /\ reader' = [reader EXCEPT ![k] = AfterSend(k)]
  /\ UNCHANGED <<childVars, pipe, expired, held, stopped, mainVars>>

\* send: wait for room in the queue, or give up once the transfer stopped.
Send(k) ==
  /\ reader[k] = "send"
  /\ \/ stopped /\ UNCHANGED queue
     \/ ~stopped /\ Len(queue) < QueueSize /\ queue' = Append(queue, <<k, held[k]>>)
  /\ reader' = [reader EXCEPT ![k] = AfterSend(k)]
  /\ UNCHANGED <<childVars, pipe, expired, held, stopped, mainVars>>

Reader(k) == Loop(k) \/ Read(k) \/ Send(k)

-----------------------------------------------------------------------------
(* The main thread *)

\* Every way out of the transfer leads through the finally block.
Leave(result) ==
  /\ outcome' = result
  /\ main' = "stop"
  /\ UNCHANGED <<ended, written, closed>>

\* Both threads are started one after the other; a start can fail.
StartThread ==
  /\ main = "start"
  /\ \/ \E k \in Kinds :
          /\ reader[k] = "off" /\ (k = "stderr" => reader["stdout"] # "off")
          /\ reader' = [reader EXCEPT ![k] = "loop"]
          /\ main' = IF k = "stderr" THEN "drain" ELSE "start"
          /\ UNCHANGED <<ended, written, closed, outcome>>
     \/ Leave("raised") /\ UNCHANGED reader
  /\ UNCHANGED <<childVars, pipe, expired, held, queue, stopped>>

\* The deadline, or the disk floor of output.check().
GiveUp ==
  /\ main \in {"drain", "wait"}
  /\ Leave("raised")
  /\ UNCHANGED <<childVars, pipe, expired, readerVars, queue, stopped>>

\* len(ended) == 2
AllEnded(set) == set = Kinds

\* events.get: an end, an exception, a chunk for the file, or diagnostics.
Drain ==
  /\ main = "drain" /\ ~expired
  /\ queue # <<>>
  /\ queue' = Tail(queue)
  /\ LET kind == Head(queue)[1]
         value == Head(queue)[2]
     IN  CASE value = EOF ->
                /\ ended' = ended \cup {kind}
                /\ main' = IF AllEnded(ended') THEN "wait" ELSE "drain"
                /\ UNCHANGED <<written, closed, outcome>>
           [] value = Broken -> Leave("raised")
           [] value > 0 /\ kind = "stdout" ->
                IF Len(written) < Expected
                THEN /\ written' = Append(written, value)
                     /\ UNCHANGED <<main, ended, closed, outcome>>
                ELSE Leave("raised")
           [] value > 0 /\ kind = "stderr" -> UNCHANGED mainVars
  /\ UNCHANGED <<childVars, pipe, expired, readerVars, stopped>>

\* Mutant of AwaitExit: the transfer is over as soon as the child has exited.
ReturnOnExit ==
  /\ main \in {"drain", "wait"} /\ ~expired
  /\ child = "exited"
  /\ Leave("completed")
  /\ UNCHANGED <<childVars, pipe, expired, readerVars, queue, stopped>>

\* process.wait: both pipes have ended, the exit status is still to come.
AwaitExit ==
  /\ main = "wait" /\ ~expired
  /\ child = "exited"
  /\ Leave("completed")
  /\ UNCHANGED <<childVars, pipe, expired, readerVars, queue, stopped>>

\* stopped.set(), and kill the child unless it has exited.
Stop ==
  /\ main = "stop"
  /\ stopped' = TRUE
  /\ child' = IF child = "running" THEN "killed" ELSE child
  /\ main' = "reap"
  /\ UNCHANGED <<emitted, pipe, open, expired, readerVars, queue, ended, written, closed, outcome>>

\* process.wait(timeout=5); a child that cannot be reaped is an error.
Reap ==
  /\ main = "reap"
  /\ \/ child = "exited" /\ UNCHANGED outcome
     \/ child = "killed" /\ outcome' = "unreaped"
  /\ main' = "join"
  /\ UNCHANGED <<childVars, pipe, expired, readerVars, queue, stopped, ended, written, closed>>

\* thread.join(timeout=1) for each started thread, then close both pipes.
Close ==
  /\ main = "join"
  /\ closed' = TRUE
  /\ main' = "ended"
  /\ UNCHANGED <<childVars, pipe, expired, readerVars, queue, stopped, ended, written, outcome>>

Main == StartThread \/ Drain \/ AwaitExit \/ (expired /\ GiveUp) \/ Stop \/ Reap \/ Close

Next ==
  \/ \E k \in Kinds : Emit(k) \/ ClosePipe(k)
  \/ Exit \/ Die \/ Tick
  \/ \E k \in Kinds : Loop(k) \/ Read(k) \/ ReadError(k) \/ Send(k)
  \/ StartThread \/ GiveUp \/ Drain \/ AwaitExit \/ Stop \/ Reap \/ Close

\* The clock, the main thread and the readers run on; a killed child dies
\* sooner or later.  The child owes nothing: it may fall silent for ever.
Fairness ==
  /\ WF_vars(Tick) /\ WF_vars(Main) /\ WF_vars(Die)
  /\ \A k \in Kinds : WF_vars(Reader(k))

Spec == Init /\ [][Next]_vars /\ Fairness

-----------------------------------------------------------------------------
(* Properties *)

Items == -1 .. (Payload + Noise)

TypeOK ==
  /\ child \in {"running", "killed", "exited"}
  /\ emitted \in [Kinds -> Nat] /\ open \in [Kinds -> BOOLEAN]
  /\ pipe \in [Kinds -> Seq(Items)]
  /\ expired \in BOOLEAN /\ stopped \in BOOLEAN /\ closed \in BOOLEAN
  /\ reader \in [Kinds -> {"off", "loop", "read", "send", "ended"}]
  /\ held \in [Kinds -> Items]
  /\ queue \in Seq(Kinds \X Items) /\ Len(queue) <= QueueSize
  /\ main \in {"start", "drain", "wait", "stop", "reap", "join", "ended"}
  /\ ended \subseteq Kinds
  /\ written \in Seq(Items)
  /\ outcome \in {"none", "raised", "completed", "unreaped"}

\* Two threads share the queue, yet the file receives the child's chunks
\* without a gap, a repetition or a swap; and a transfer that completes has all
\* of them: nothing is left in the pipe, in a reader's hands or in the queue,
\* even when the child exits long before its output is drained.
InOrder == \A i \in 1 .. Len(written) : written[i] = i

CompleteOnReturn ==
  InOrder /\ (outcome = "completed" => Len(written) = emitted["stdout"])

\* After the transfer ended the child is gone, unless the caller has been told
\* that it could not be reaped.
ChildGone == main = "ended" => child = "exited" \/ outcome = "unreaped"

\* A silent child, a full queue or a reader that failed cannot keep the caller
\* waiting: every transfer ends (the deadline covers all waits), and with its
\* child gone.
Over == main = "ended" /\ ChildGone
TransferEnds == <>Over

\* No reader thread outlives the transfer for ever, although it may be waiting
\* for room in a queue that nobody drains any more.  Only a pipe that a
\* descendant of the child keeps open can still hold its reader.
ReadersGone == \A k \in Kinds : reader[k] \in {"off", "ended"} \/ open[k]
ReadersEnd == <>[]ReadersGone

-----------------------------------------------------------------------------

(***************************************************************************)
(* Why it holds.  Every chunk of stdout that was written to the pipe is in *)
(* one place: in the pipe, in the reader's hands, in the queue or in the   *)
(* file, and as long as nobody gave up those in the queue are the next ones*)
(* for the file, in order.  The end of stdout is read from an empty pipe   *)
(* that nobody can write to any more and goes into the queue last.         *)
(***************************************************************************)
PipeOK(k) ==
  /\ emitted[k] <= Limit[k] /\ Len(pipe[k]) <= emitted[k]
  /\ pipe[k] \in Seq(1 .. (Payload + Noise))
  /\ \A i \in 1 .. Len(pipe[k]) : pipe[k][i] = emitted[k] - Len(pipe[k]) + i

\* The chunks of stdout that its reader has taken, and those it has sent.
Taken == emitted["stdout"] - Len(pipe["stdout"])
InHand == reader["stdout"] = "send" /\ held["stdout"] > 0
Sent == IF InHand THEN Taken - 1 ELSE Taken

PipeEnded == ~open["stdout"] /\ pipe["stdout"] = <<>>

HeldOK ==
  /\ InHand => held["stdout"] = Taken
  /\ reader["stdout"] = "send" /\ held["stdout"] = EOF => PipeEnded

IsChunk(x) == x[1] = "stdout" /\ x[2] > 0

QueueOK ==
  /\ \A i, j \in 1 .. Len(queue) : i < j /\ IsChunk(queue[i]) /\ IsChunk(queue[j]) => queue[i][2] < queue[j][2]
  /\ \A i \in 1 .. Len(queue) : IsChunk(queue[i]) => Len(written) < queue[i][2] /\ queue[i][2] <= Sent
  /\ \A v \in (Len(written) + 1) .. Sent : \E i \in 1 .. Len(queue) : queue[i] = <<"stdout", v>>
  /\ \A i \in 1 .. Len(queue) : queue[i] = <<"stdout", EOF>> =>
       reader["stdout"] = "ended" /\ PipeEnded /\ \A j \in (i + 1) .. Len(queue) : queue[j][1] # "stdout"

EndedOK ==
  /\ "stdout" \in ended =>
       reader["stdout"] = "ended" /\ PipeEnded /\ \A i \in 1 .. Len(queue) : queue[i][1] # "stdout"
  /\ main = "wait" => "stdout" \in ended

\* Nobody has given up or completed the transfer.
Active == main \in {"start", "drain", "wait"}

CompletedOK == outcome = "completed" => ~open["stdout"] /\ Len(written) = emitted["stdout"]

Inv ==
  /\ TypeOK /\ (\A k \in Kinds : PipeOK(k)) /\ HeldOK
  /\ stopped => ~Active
  /\ Active => QueueOK /\ EndedOK /\ Len(written) <= Sent /\ outcome = "none"
  /\ InOrder /\ CompletedOK
=============================================================================
