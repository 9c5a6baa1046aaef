--------------------------- MODULE RollbackWorker ---------------------------
(* src/qwasar_runtime/worker.py: `serve`. The reader admits a generation only *)
(* when none is active and answers the others itself; the queue holds one     *)
(* job. The reader is at reading, finally, put, done, or raised when          *)
(* put_nowait found the queue full; the main thread at get, push, window,     *)
(* over, tell, finally or exit.                                               *)
EXTENDS ChildPipe

VARIABLES admitted,   \* the keys of `active`
          stopped     \* admitted generations whose event is set

rollbackVars == <<admitted, stopped>>

RollbackInit == admitted = {} /\ stopped = {}

\* Mutant: only the generation at work counts as active.
AdmitWhenIdle(i) ==
    /\ IF mainpc \in {"window", "over", "tell", "finally"}
       THEN Emit(i, "terminal") /\ UNCHANGED <<readpc, queue, taken, admitted>>
       ELSE /\ admitted' = admitted \cup {i} /\ UNCHANGED lines
            /\ IF queue = <<>> THEN queue' = <<i>> /\ taken' = taken \cup {i} /\ readpc' = readpc
                               ELSE readpc' = "raised" /\ UNCHANGED <<queue, taken>>
    /\ UNCHANGED stopped

\* Under the state lock: 409, or an event and put_nowait into a queue of one.
Admit(i) ==
    /\ IF admitted # {}
       THEN Emit(i, "terminal") /\ UNCHANGED <<readpc, queue, taken, admitted>>
       ELSE /\ admitted' = {i} /\ UNCHANGED lines
            /\ IF queue = <<>> THEN queue' = <<i>> /\ taken' = taken \cup {i} /\ readpc' = readpc
                               ELSE readpc' = "raised" /\ UNCHANGED <<queue, taken>>
    /\ UNCHANGED stopped

TakeGenerate ==
    /\ ReadLine("generate") /\ Admit(Head(stdin).id)
    /\ UNCHANGED <<mainpc, job, windows>>

\* A cancel of a generation that is not active is dropped.
TakeCancel ==
    /\ ReadLine("cancel")
    /\ stopped' = stopped \cup ({Head(stdin).id} \cap admitted)
    /\ UNCHANGED <<lines, threadVars, admitted>>

TakeShutdown ==
    /\ ReadLine("shutdown") /\ stopped' = admitted /\ readpc' = "finally"
    /\ UNCHANGED <<lines, queue, mainpc, job, windows, taken, admitted>>

\* Mutant: the empty line of a closed pipe is skipped as a bad line is.
TakeEofSkipped == AtEof /\ UNCHANGED <<pipeVars, threadVars, rollbackVars>>

TakeEof ==
    /\ AtEof /\ readpc' = "finally"
    /\ UNCHANGED <<pipeVars, queue, mainpc, job, windows, taken, rollbackVars>>

CancelAll ==
    /\ readpc = "finally" /\ stopped' = admitted /\ readpc' = "put"
    /\ UNCHANGED <<pipeVars, queue, mainpc, job, windows, taken, admitted>>

\* jobs.put(None) waits for room.
PutLast ==
    /\ readpc = "put" /\ queue = <<>> /\ queue' = <<NoId>> /\ readpc' = "done"
    /\ UNCHANGED <<pipeVars, mainpc, job, windows, taken, rollbackVars>>

InputThread == TakeGenerate \/ TakeCancel \/ TakeShutdown \/ TakeEof \/ CancelAll \/ PutLast

Fetch == GetJob /\ UNCHANGED rollbackVars

\* Engine.generate yields started, or the request is refused before.
Open ==
    /\ mainpc = "push" /\ windows' = MaxWindows
    /\ \/ mainpc' = "window" /\ Emit(job, "started")
       \/ mainpc' = "over" /\ UNCHANGED lines
    /\ UNCHANGED <<stdin, serverVars, readpc, queue, job, taken, rollbackVars>>

\* A result of the backend, after the look at the event.
Piece ==
    /\ mainpc = "window" /\ job \notin stopped /\ windows > 0 /\ windows' = windows - 1
    /\ Emit(job, "delta") \/ UNCHANGED lines
    /\ UNCHANGED <<stdin, serverVars, readpc, queue, mainpc, job, taken, rollbackVars>>

\* The terminal event: the generation is popped, and then the line is written.
Pop ==
    /\ mainpc \in {"window", "over"} /\ mainpc' = "tell"
    /\ admitted' = admitted \ {job} /\ stopped' = stopped \ {job}
    /\ UNCHANGED <<pipeVars, readpc, queue, job, windows, taken>>

\* Mutant: the line is written again by the finally clause.
SayLastTwice ==
    /\ mainpc = "tell" /\ mainpc' \in {"tell", "finally"} /\ Emit(job, "terminal")
    /\ UNCHANGED <<stdin, serverVars, readpc, queue, job, windows, taken, rollbackVars>>

SayLast ==
    /\ mainpc = "tell" /\ mainpc' = "finally" /\ Emit(job, "terminal")
    /\ UNCHANGED <<stdin, serverVars, readpc, queue, job, windows, taken, rollbackVars>>

\* finally: popped once more.
Release ==
    /\ mainpc = "finally" /\ mainpc' = "get"
    /\ admitted' = admitted \ {job} /\ stopped' = stopped \ {job}
    /\ UNCHANGED <<pipeVars, readpc, queue, job, windows, taken>>

Worker == Fetch \/ Open \/ Piece \/ Pop \/ SayLast \/ Release

RollbackNext == \/ Server /\ UNCHANGED rollbackVars
                \/ InputThread
                \/ Worker

RollbackSpec == PipeInit /\ RollbackInit
                /\ [][RollbackNext]_<<pipeVars, threadVars, rollbackVars>>

----
(* The reader's put_nowait never finds the queue full (an exception that would *)
(* end the reader and leave the server unheard, worker.py:60): whatever is in  *)
(* the queue is still in `active`, for the main thread takes it out first.     *)
QueueHasRoom == readpc # "raised"
=============================================================================
