--------------------------- MODULE ResidentWorker ---------------------------
(* engine/forward/worker.py: `_serve` with its reader thread, and the Worker *)
(* it drives. The reader hands lines to the main thread through an unbounded *)
(* queue and handles cancel and shutdown itself, under the worker's lock.    *)
(* The reader is at reading, finally, put or done; the main thread at get,   *)
(* push, begun, window, ending, tell or exit.                                *)
EXTENDS ChildPipe

VARIABLES active,    \* Worker.active
          event,     \* the event Worker._cancel is set (it exists while active)
          pending,   \* Worker._pending_cancel
          heard,     \* history: ids whose cancel was read
          latest,    \* history: the id of the last cancel read
          stopping   \* history: request_stop was called

residentVars == <<active, event, pending, heard, latest, stopping>>

ResidentInit == /\ active = NoId /\ event = FALSE /\ pending = NoId
                /\ heard = {} /\ latest = NoId /\ stopping = FALSE

\* Mutant: a cancel of a generation that is still queued is dropped.
NoteCancelActiveOnly(i) == /\ event' = (event \/ active = i)
                           /\ pending' = pending

\* note_cancel: reaches the active generation, or waits for it in one slot.
NoteCancel(i) == IF active = i THEN event' = TRUE /\ pending' = pending
                               ELSE event' = event /\ pending' = i

\* request_stop: only an active generation has an event to set.
RequestStop == event' = (event \/ active # NoId) /\ stopping' = TRUE

ReadCancel ==
    /\ ReadLine("cancel")
    /\ NoteCancel(Head(stdin).id)
    /\ heard' = heard \cup {Head(stdin).id} /\ latest' = Head(stdin).id
    /\ UNCHANGED <<lines, threadVars, active, stopping>>

ReadGenerate ==
    /\ ReadLine("generate")
    /\ queue' = Append(queue, Head(stdin).id) /\ taken' = taken \cup {Head(stdin).id}
    /\ UNCHANGED <<lines, readpc, mainpc, job, windows, residentVars>>

ReadShutdown ==
    /\ ReadLine("shutdown") /\ RequestStop /\ readpc' = "finally"
    /\ UNCHANGED <<lines, queue, mainpc, job, windows, taken, active, pending, heard, latest>>

ReadEof ==
    /\ AtEof /\ readpc' = "finally"
    /\ UNCHANGED <<pipeVars, queue, mainpc, job, windows, taken, residentVars>>

\* The reader's finally block: request_stop(), then jobs.put(None).
StopAll ==
    /\ readpc = "finally" /\ RequestStop /\ readpc' = "put"
    /\ UNCHANGED <<pipeVars, queue, mainpc, job, windows, taken, active, pending, heard, latest>>

\* Mutant: the end of the process goes before the work that is queued.
PutEndFirst ==
    /\ readpc = "put" /\ queue' = <<NoId>> \o queue /\ readpc' = "done"
    /\ UNCHANGED <<pipeVars, mainpc, job, windows, taken, residentVars>>

PutEnd ==
    /\ readpc = "put" /\ queue' = Append(queue, NoId) /\ readpc' = "done"
    /\ UNCHANGED <<pipeVars, mainpc, job, windows, taken, residentVars>>

Reader == ReadCancel \/ ReadGenerate \/ ReadShutdown \/ ReadEof \/ StopAll \/ PutEnd

Get == GetJob /\ UNCHANGED residentVars

\* push refuses the request, or prepare_chat fails: a terminal without _begin.
Reject ==
    /\ mainpc = "push" /\ Emit(job, "terminal") /\ mainpc' = "get"
    /\ UNCHANGED <<stdin, serverVars, readpc, queue, job, windows, taken, residentVars>>

\* _begin
Begin ==
    /\ mainpc = "push" /\ mainpc' = "begun" /\ windows' = MaxWindows
    /\ active' = job
    /\ event' = (pending = job) /\ pending' = IF pending = job THEN NoId ELSE pending
    /\ UNCHANGED <<pipeVars, readpc, queue, job, taken, heard, latest, stopping>>

Announce ==
    /\ mainpc = "begun" /\ mainpc' = "window" /\ Emit(job, "started")
    /\ UNCHANGED <<stdin, serverVars, readpc, queue, job, windows, taken, residentVars>>

\* run_turn: the event is looked at between windows; a window may give text.
Window ==
    /\ mainpc = "window" /\ ~event /\ windows > 0 /\ windows' = windows - 1
    /\ Emit(job, "delta") \/ UNCHANGED lines
    /\ UNCHANGED <<stdin, serverVars, readpc, queue, mainpc, job, taken, residentVars>>

\* It is cancelled, comes to its end, or the session refuses it.
TurnOver ==
    /\ mainpc = "window" /\ mainpc' = "ending"
    /\ UNCHANGED <<pipeVars, readpc, queue, job, windows, taken, residentVars>>

\* _end
EndTurn ==
    /\ mainpc = "ending" /\ mainpc' = "tell" /\ active' = NoId /\ event' = FALSE
    /\ UNCHANGED <<pipeVars, readpc, queue, job, windows, taken, pending, heard, latest, stopping>>

\* push returned: the loop of _serve writes the terminal line.
Tell ==
    /\ mainpc = "tell" /\ mainpc' = "get" /\ Emit(job, "terminal")
    /\ UNCHANGED <<stdin, serverVars, readpc, queue, job, windows, taken, residentVars>>

MainThread == Get \/ Reject \/ Begin \/ Announce \/ Window \/ TurnOver \/ EndTurn \/ Tell

ResidentNext == \/ Server /\ UNCHANGED residentVars
                \/ Reader
                \/ MainThread

ResidentSpec == PipeInit /\ ResidentInit
                /\ [][ResidentNext]_<<pipeVars, threadVars, residentVars>>

----
(* The last cancel that was read reaches its generation, whenever it is read: *)
(* until the generation is over it is in the event or in the slot, in either  *)
(* order with the generate it overtakes (worker.py:164). An earlier cancel of *)
(* another queued generation may be lost, for there is one slot.              *)
CancelReaches ==
    latest # NoId => \/ pending = latest
                     \/ active = latest /\ event
                     \/ job = latest /\ mainpc = "tell"
                     \/ Said(latest, "terminal")

(* A generation is cancelled only by a cancel of its own or by the end of the *)
(* process: neither the event nor the slot serves another one (worker.py:153).*)
OwnCancelOnly == event => active \in heard \/ stopping

(* A cancel stops the generation it names, and nothing else does.             *)
CancelExact == CancelReaches /\ OwnCancelOnly
=============================================================================
