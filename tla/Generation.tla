----------------------------- MODULE Generation -----------------------------
(***************************************************************************)
(* `generate` of server/service.rs on top of the supervisor: admission of  *)
(* a request, the task that follows its events until a terminal, what the  *)
(* store records, what the client is told, and the give-back of the single *)
(* admission.  Clients may read slowly or leave, a user may POST a cancel, *)
(* SQLite may fail, the server may be told to stop.                        *)
(***************************************************************************)
EXTENDS Supervisor

CONSTANTS
    OutCap,        \* frames a client stream buffers (128 in the code)
    Streaming      \* requests whose body says "stream": true

ASSUME GenerationAssumption ==
    /\ OutCap \in Nat \ {0}
    /\ Streaming \subseteq Requests

VARIABLES
    task,       \* request -> where its handler, then its task, stands
    forced,     \* request -> forced_failure (with its cancellation deadline)
    terminal,   \* request -> the terminal the task ended with
    sawDelta,   \* requests for which saw_delta is set
    admitted,   \* request -> what ready_sender carried
    row,        \* request -> status of its row in `responses`
    out,        \* request -> frames sent and not yet read by the client
    todo,       \* request -> final frames still to be sent
    gone,       \* requests whose client disconnected
    got,        \* request -> pieces of text its client has received
    verdict,    \* request -> how the client saw the request end
    asked       \* requests for which a user has posted a cancel

taskVars == <<task, forced, terminal, sawDelta, admitted, row>>
clientVars == <<out, todo, gone, got, verdict, asked>>
genVars == <<task, forced, terminal, sawDelta, admitted, row,
             out, todo, gone, got, verdict, asked>>
vars == <<supVars, genVars>>

ForcedCodes == {"cancelled", "client_disconnected", "worker_timeout",
                "client_backpressure"}

\* The status `failure` is given for each forced code.
ForcedStatus(code) ==
    IF code \in {"cancelled", "client_disconnected"} THEN "cancelled" ELSE "failed"

\* A terminal as the task keeps it: status, pieces of text in its message,
\* and whether a storage error replaced what the worker said.
Ending(s, n, e) == [status |-> s, deltas |-> n, storage |-> e]
Endings == [status : Outcomes, deltas : 0..MaxDeltas, storage : BOOLEAN]

\* Frames of a client's stream.
Frames == {"role", "delta", "text", "finish", "error"}

\* Option::None is no code, no frame and no verdict.
ASSUME NoneAssumption == None \notin ForcedCodes \cup Frames \cup {"success", "error"}

Success(s) == s \in {"completed", "incomplete"}

GenInit ==
    /\ task = [r \in Requests |-> "idle"]
    /\ forced = [r \in Requests |-> None]
    /\ terminal = [r \in Requests |-> Ending("failed", 0, FALSE)]
    /\ sawDelta = {}
    /\ admitted = [r \in Requests |-> None]
    /\ row = [r \in Requests |-> "absent"]
    /\ out = [r \in Requests |-> <<>>]
    /\ todo = [r \in Requests |-> <<>>]
    /\ gone = {}
    /\ got = [r \in Requests |-> 0]
    /\ verdict = [r \in Requests |-> None]
    /\ asked = {}

Goto(r, pc) == task' = [task EXCEPT ![r] = pc]

-----------------------------------------------------------------------------
\* Admission: start() has no await, but two handlers may run it in parallel.

\* 503 unless the worker is ready.
Arrive(r) ==
    /\ task[r] = "idle"
    /\ IF Available
       THEN Goto(r, "checked") /\ UNCHANGED verdict
       ELSE Goto(r, "rejected") /\ verdict' = [verdict EXCEPT ![r] = "error"]
    /\ UNCHANGED <<supVars, forced, terminal, sawDelta, admitted,
                   row, out, todo, gone, got, asked>>

\* 409 when another request holds the admission.
Claim(r) ==
    /\ task[r] = "checked"
    /\ \/ ClaimBusy /\ Goto(r, "claimed") /\ UNCHANGED verdict
       \/ /\ busy /\ UNCHANGED busy
          /\ Goto(r, "rejected")
          /\ verdict' = [verdict EXCEPT ![r] = "error"]
    /\ UNCHANGED <<status, stopping, resetting, pending, cancelled, changed,
                   restart, runVars, childVars, reqVars, resetVars,
                   forced, terminal, sawDelta, admitted, row, out, todo, gone,
                   got, asked>>

Start(r) ==
    /\ task[r] = "claimed"
    /\ Publish(r)
    /\ Goto(r, "begin")
    /\ UNCHANGED <<status, busy, stopping, resetting, restart, runVars,
                   childVars, chan, closed, woken, forced, terminal,
                   sawDelta, admitted, row, clientVars>>

\* store.begin inserts the in_progress row, then the task is spawned.
Begin(r) ==
    /\ task[r] = "begin"
    /\ row' = [row EXCEPT ![r] = "in_progress"]
    /\ Goto(r, "top")
    /\ UNCHANGED <<supVars, forced, terminal, sawDelta, admitted,
                   clientVars>>

\* When the insert fails the client gets a 500 and a spawned task resets the
\* worker before it gives the admission back.
BeginError(r) ==
    /\ "insert" \in Faults
    /\ task[r] = "begin"
    /\ Goto(r, "undo")
    /\ CallReset(<<r, "task">>)
    /\ verdict' = [verdict EXCEPT ![r] = "error"]
    /\ UNCHANGED <<workerVars, runVars, childVars, reqVars, woken,
                   forced, terminal, sawDelta, admitted, row, out, todo, gone,
                   got, asked>>

BeginUndone(r) ==
    /\ task[r] = "undo"
    /\ rst[<<r, "task">>] = "returned"
    /\ Release(r)
    /\ DropReceiver(r)
    /\ Goto(r, "rejected")
    /\ UNCHANGED <<status, stopping, resetting, cancelled, restart, runVars,
                   childVars, dispatch, resetVars, forced,
                   terminal, sawDelta, admitted, row, clientVars>>

-----------------------------------------------------------------------------
\* The generation task's loop, lines 277-379.

\* A cancel posted by a user is noticed at the top of the loop.
LoopTop(r) ==
    /\ task[r] = "top"
    /\ forced' = [forced EXCEPT ![r] =
                    IF @ = None /\ cancelled = r THEN "cancelled" ELSE @]
    /\ Goto(r, "select")
    /\ UNCHANGED <<supVars, terminal, sawDelta, admitted, row,
                   clientVars>>

\* Give up on the request: remember why and ask the worker to cancel.  How
\* long the task waits for that command to be written is no more than delay.
ForceFailure(r, code) ==
    /\ forced' = [forced EXCEPT ![r] = code]
    /\ Goto(r, "top")

\* The client is gone, or no event came before the request deadline.
GiveUp(r) ==
    /\ task[r] = "select"
    /\ forced[r] = None
    /\ ForceFailure(r, IF r \in gone THEN "client_disconnected" ELSE "worker_timeout")
    /\ Cancel(r, chan[r])
    /\ UNCHANGED <<status, busy, stopping, resetting, pending, changed, restart,
                   runVars, childVars, dispatch, closed, resetVars,
                   terminal, sawDelta, admitted, row, clientVars>>

\* Mutant: the deadline ends the request without a reap.
CancelDeadlineNoReap(r) ==
    /\ task[r] = "select"
    /\ forced[r] # None
    /\ terminal' = [terminal EXCEPT ![r] = Ending(ForcedStatus(forced[r]), 0, FALSE)]
    /\ forced' = [forced EXCEPT ![r] = None]
    /\ Goto(r, "finish")
    /\ UNCHANGED <<supVars, sawDelta, admitted, row, clientVars>>

\* The cancellation deadline: the child did not stop, so it must be reaped.
CancelDeadline(r) ==
    /\ task[r] = "select"
    /\ forced[r] # None
    /\ Goto(r, "reset")
    /\ CallReset(<<r, "task">>)
    /\ UNCHANGED <<workerVars, runVars, childVars, reqVars, woken,
                   forced, terminal, sawDelta, admitted, row, clientVars>>

ResetDone(r) ==
    /\ task[r] = "reset"
    /\ rst[<<r, "task">>] = "returned"
    /\ terminal' = [terminal EXCEPT ![r] = Ending(ForcedStatus(forced[r]), 0, FALSE)]
    /\ forced' = [forced EXCEPT ![r] = None]
    /\ Goto(r, "finish")
    /\ UNCHANGED <<supVars, sawDelta, admitted, row, clientVars>>

\* The next event.  A pending disconnection is served first (biased select).
CanRecv(r) ==
    /\ task[r] = "select"
    /\ chan[r] # <<>>
    /\ ~(forced[r] = None /\ r \in gone)

\* Mutant: the admission is given back before the result is committed.
RecvTerminalUncommitted(r) ==
    /\ CanRecv(r)
    /\ Head(chan[r]).type = "terminal"
    /\ terminal' = [terminal EXCEPT ![r] =
                      Ending(Head(chan[r]).status, Head(chan[r]).deltas, FALSE)]
    /\ forced' = [forced EXCEPT ![r] = None]
    /\ chan' = [chan EXCEPT ![r] = Tail(@)]
    /\ Goto(r, "release")
    /\ UNCHANGED <<workerVars, runVars, childVars, dispatch, closed, resetVars,
                   sawDelta, admitted, row, clientVars>>

RecvTerminal(r) ==
    /\ CanRecv(r)
    /\ LET event == Head(chan[r]) IN
       /\ event.type = "terminal"
       /\ terminal' = [terminal EXCEPT ![r] =
                         IF forced[r] = None
                         THEN Ending(event.status, event.deltas, FALSE)
                         ELSE Ending(ForcedStatus(forced[r]), 0, FALSE)]
    /\ forced' = [forced EXCEPT ![r] = None]
    /\ chan' = [chan EXCEPT ![r] = Tail(@)]
    /\ Goto(r, "finish")
    /\ UNCHANGED <<workerVars, runVars, childVars, dispatch, closed, resetVars,
                   sawDelta, admitted, row, clientVars>>

\* The frame a non-terminal event puts on the client's stream, if any.
Frame(r, event) ==
    IF r \notin Streaming THEN None
    ELSE IF event.type = "started" THEN "role"
    ELSE IF event.type = "delta" THEN "delta" ELSE None

\* started opens the HTTP response; deltas are forwarded with try_send.
RecvEvent(r) ==
    /\ CanRecv(r)
    /\ LET event == Head(chan[r])
           frame == Frame(r, event)
           live  == forced[r] = None
       IN /\ event.type # "terminal"
          /\ live /\ frame # None => Len(out[r]) < OutCap
          /\ admitted' = [admitted EXCEPT ![r] =
                            IF live /\ event.type = "started" /\ @ = None
                            THEN "ok" ELSE @]
          /\ sawDelta' = IF live /\ frame = "delta" THEN sawDelta \cup {r} ELSE sawDelta
          /\ out' = IF live /\ frame # None
                    THEN [out EXCEPT ![r] = Append(@, frame)] ELSE out
    /\ chan' = [chan EXCEPT ![r] = Tail(@)]
    /\ Goto(r, "top")
    /\ UNCHANGED <<workerVars, runVars, childVars, dispatch, closed, resetVars,
                   forced, terminal, row, todo, gone, got, verdict,
                   asked>>

\* Mutant: the frame is dropped and the request goes on.
BackpressureIgnored(r) ==
    /\ CanRecv(r)
    /\ Head(chan[r]).type # "terminal" /\ forced[r] = None
    /\ Frame(r, Head(chan[r])) # None
    /\ Len(out[r]) >= OutCap
    /\ admitted' = [admitted EXCEPT ![r] =
                      IF Head(chan[r]).type = "started" /\ @ = None THEN "ok" ELSE @]
    /\ sawDelta' = IF Head(chan[r]).type = "delta" THEN sawDelta \cup {r} ELSE sawDelta
    /\ chan' = [chan EXCEPT ![r] = Tail(@)]
    /\ Goto(r, "top")
    /\ UNCHANGED <<workerVars, runVars, childVars, dispatch, closed, resetVars,
                   forced, terminal, row, clientVars>>

\* The bounded stream is full: the frame is lost and so is the request.
Backpressure(r) ==
    /\ CanRecv(r)
    /\ LET event == Head(chan[r]) IN
       /\ event.type # "terminal"
       /\ forced[r] = None
       /\ Frame(r, event) # None
       /\ Len(out[r]) >= OutCap
       /\ admitted' = [admitted EXCEPT ![r] =
                         IF event.type = "started" /\ @ = None THEN "ok" ELSE @]
       /\ sawDelta' = IF event.type = "delta" THEN sawDelta \cup {r} ELSE sawDelta
    /\ ForceFailure(r, "client_backpressure")
    /\ Cancel(r, Tail(chan[r]))
    /\ UNCHANGED <<status, busy, stopping, resetting, pending, changed, restart,
                   runVars, childVars, dispatch, closed, resetVars,
                   terminal, row, clientVars>>

-----------------------------------------------------------------------------
\* The end of the task, lines 380-476.

\* store.finish commits; a completed row needs the snapshot of its terminal.
Finish(r) ==
    /\ task[r] = "finish"
    /\ row' = [row EXCEPT ![r] = terminal[r].status]
    /\ Goto(r, "release")
    /\ UNCHANGED <<supVars, forced, terminal, sawDelta, admitted,
                   clientVars>>

\* The commit failed (a completed terminal without snapshot, or SQLite): the
\* request fails, and the attempt to record that may fail as well.
FinishError(r) ==
    /\ task[r] = "finish"
    /\ "update" \in Faults \/ terminal[r].status = "completed"
    /\ terminal' = [terminal EXCEPT ![r] = Ending("failed", 0, TRUE)]
    /\ \/ row' = [row EXCEPT ![r] = "failed"]
       \/ "update" \in Faults /\ UNCHANGED row
    /\ Goto(r, "release")
    /\ UNCHANGED <<supVars, forced, sawDelta, admitted, clientVars>>

\* Final frames: what no delta carried, then the end of the stream.
FinalFrames(r) ==
    IF r \notin Streaming THEN <<>>
    ELSE IF ~Success(terminal[r].status) THEN <<"error">>
    ELSE IF r \in sawDelta THEN <<"finish">> ELSE <<"text", "finish">>

\* The admission is given back, then ready_sender is used if it still is
\* there: a handler that is told Err answers with the terminal's error.  The
\* terminal's status decides; that a success carries no error is left out.
ReleaseTask(r) ==
    /\ task[r] = "release"
    /\ Release(r)
    /\ admitted' = [admitted EXCEPT ![r] =
                      IF @ # None THEN @
                      ELSE IF Success(terminal[r].status) THEN "ok" ELSE "err"]
    /\ verdict' = [verdict EXCEPT ![r] =
                      IF admitted'[r] = "err" /\ r \notin gone THEN "error" ELSE @]
    /\ todo' = [todo EXCEPT ![r] = FinalFrames(r)]
    /\ Goto(r, "reply")
    /\ UNCHANGED <<status, stopping, resetting, cancelled, restart, runVars,
                   childVars, reqVars, resetVars, forced, terminal,
                   sawDelta, row, out, gone, got, asked>>

\* The client's end of the stream still exists: it is dropped with the
\* connection, and by a handler that answered with an error.
Listening(r) == r \notin gone /\ admitted[r] # "err"

\* send_frame waits for room in the client's stream ...
Reply(r) ==
    /\ task[r] = "reply"
    /\ todo[r] # <<>>
    /\ Listening(r) /\ Len(out[r]) < OutCap
    /\ out' = [out EXCEPT ![r] = Append(@, Head(todo[r]))]
    /\ todo' = [todo EXCEPT ![r] = Tail(@)]
    /\ UNCHANGED <<supVars, taskVars, gone, got, verdict, asked>>

\* ... and gives up on the rest when the client left or reads too slowly.
ReplyLost(r) ==
    /\ task[r] = "reply"
    /\ todo[r] # <<>>
    /\ ~Listening(r) \/ Len(out[r]) >= OutCap
    /\ todo' = [todo EXCEPT ![r] = <<>>]
    /\ UNCHANGED <<supVars, taskVars, out, gone, got, verdict, asked>>

\* final_sender answers a request without a stream; the task drops its
\* receiver of worker events.
Done(r) ==
    /\ task[r] = "reply"
    /\ todo[r] = <<>>
    /\ verdict' = [verdict EXCEPT ![r] =
                     IF r \in Streaming \/ r \in gone \/ @ # None THEN @
                     ELSE IF Success(terminal[r].status) THEN "success" ELSE "error"]
    /\ got' = [got EXCEPT ![r] = IF verdict'[r] = "success" THEN terminal[r].deltas ELSE @]
    /\ DropReceiver(r)
    /\ Goto(r, "done")
    /\ UNCHANGED <<workerVars, runVars, childVars, dispatch, resetVars,
                   forced, terminal, sawDelta, admitted, row, out,
                   todo, gone, asked>>

-----------------------------------------------------------------------------
\* Clients and accidents.

\* The client reads one frame of an opened stream.
ClientRead(r) ==
    /\ admitted[r] = "ok" /\ r \notin gone /\ out[r] # <<>>
    /\ LET frame == Head(out[r]) IN
       /\ got' = [got EXCEPT ![r] = CASE frame = "delta" -> @ + 1
                                      [] frame = "text" -> terminal[r].deltas
                                      [] OTHER -> @]
       /\ verdict' = [verdict EXCEPT ![r] = CASE frame = "finish" -> "success"
                                              [] frame = "error" -> "error"
                                              [] OTHER -> @]
    /\ out' = [out EXCEPT ![r] = Tail(@)]
    /\ UNCHANGED <<supVars, taskVars, todo, gone, asked>>

\* The client closes its connection: both receivers of the task are dropped.
ClientLeave(r) ==
    /\ "leave" \in Faults
    /\ task[r] \notin {"idle", "checked", "claimed", "begin", "rejected", "undo"}
    /\ r \notin gone /\ verdict[r] = None
    /\ gone' = gone \cup {r}
    /\ UNCHANGED <<supVars, taskVars, out, todo, got, verdict, asked>>

\* POST /v1/responses/{id}/cancel, at most once per request (a bound).
UserCancel(r) ==
    /\ "cancel" \in Faults
    /\ r \notin asked
    /\ row[r] # "absent" /\ pending = r
    /\ asked' = asked \cup {r}
    /\ Cancel(r, chan[r])
    /\ UNCHANGED <<status, busy, stopping, resetting, pending, changed, restart,
                   runVars, childVars, dispatch, closed, resetVars, taskVars,
                   out, todo, gone, got, verdict>>

\* The owner of the receiver is dropped without releasing: what
\* server/tests/worker_lifecycle.rs does with an aborted start.
Abandon(r) ==
    /\ "abandon" \in Faults
    /\ task[r] \in {"begin", "select"}
    /\ DropReceiver(r)
    /\ Goto(r, "abandoned")
    /\ UNCHANGED <<workerVars, runVars, childVars, dispatch, resetVars,
                   forced, terminal, sawDelta, admitted, row,
                   clientVars>>

-----------------------------------------------------------------------------
TaskStep(r) == \/ Claim(r) \/ Start(r) \/ Begin(r) \/ BeginUndone(r)
               \/ LoopTop(r) \/ GiveUp(r)
               \/ CancelDeadline(r) \/ ResetDone(r)
               \/ RecvTerminal(r) \/ RecvEvent(r) \/ Backpressure(r)
               \/ Finish(r) \/ ReleaseTask(r) \/ Reply(r) \/ ReplyLost(r) \/ Done(r)

ClientStep(r) == \/ Arrive(r) \/ ClientRead(r) \/ ClientLeave(r)
                 \/ UserCancel(r) \/ Abandon(r)

FaultStep(r) == BeginError(r) \/ FinishError(r)

Init == SupInit /\ GenInit

Next == \/ SupNext /\ UNCHANGED genVars
        \/ \E r \in Requests : TaskStep(r) \/ ClientStep(r) \/ FaultStep(r)

Spec == Init /\ [][Next]_vars

\* The runtime keeps polling ready tasks and timers do expire; a spawn that
\* can be retried for ever succeeds in the end.  Nothing is assumed of the
\* child, of clients or of users.
Fairness ==
    /\ WF_vars(RunStep /\ UNCHANGED genVars)
    /\ SF_vars(RunSpawn /\ UNCHANGED genVars)
    /\ \A r \in Requests : WF_vars(TaskStep(r))
    /\ \A r \in Requests : WF_vars(DispatchStep(r) /\ UNCHANGED genVars)
    /\ \A c \in Callers : WF_vars(ResetStep(c) /\ UNCHANGED genVars)

FairSpec == Spec /\ Fairness

-----------------------------------------------------------------------------
GenTypeOK ==
    /\ task \in [Requests -> {"idle", "checked", "claimed", "begin", "undo", "top",
                              "select", "reset", "finish", "release", "reply",
                              "done", "rejected", "abandoned"}]
    /\ forced \in [Requests -> ForcedCodes \cup {None}]
    /\ terminal \in [Requests -> Endings]
    /\ sawDelta \subseteq Requests
    /\ admitted \in [Requests -> {None, "ok", "err"}]
    /\ row \in [Requests -> Outcomes \cup {"absent", "in_progress"}]
    /\ out \in [Requests -> Seq(Frames)]
    /\ \A r \in Requests : Len(out[r]) <= OutCap
    /\ todo \in [Requests -> Seq(Frames)]
    /\ gone \subseteq Requests
    /\ got \in [Requests -> Nat]
    /\ verdict \in [Requests -> {None, "success", "error"}]
    /\ asked \subseteq Requests

\* Every variable has its type; a request's event channel and its client's
\* stream never hold more than their capacity, whoever else (a user's cancel,
\* run() at a reap) puts events into them.
TypeOK == SupTypeOK /\ GenTypeOK

\* The GPU may still work for r: its generate line is being written, waits
\* in the child's stdin, or is the child's running job.
Engaged(r) == dispatch[r] = "writing" \/ r \in inbox \/ child.job = r

\* One generation at a time, and the admission is only given back (after a
\* terminal, a timeout, a lost client, a failed insert or an abandoned
\* request) once no child can still be working for it.
ExclusiveGpu == \A r \in Requests : Engaged(r) => busy /\ pending = r

\* A child is never killed because an event of an earlier request meets a
\* later one: a well-behaved child is never caught by the id check.
NoStaleEvent ==
    runpc = "line" /\ line.id # None /\ pending # None => line.id = pending

\* Between admission and release a request stays the pending one, so its
\* channel keeps a sender: `events.recv()` never yields None.
AdmissionHeld ==
    \A r \in Requests :
        task[r] \in {"begin", "undo", "top", "select", "reset", "finish", "release"}
            => busy /\ pending = r

\* A client that is told of success got every piece of the text, and the
\* response is committed with that status.
NoTruncatedSuccess ==
    \A r \in Requests : verdict[r] = "success" =>
        got[r] = terminal[r].deltas /\ row[r] = terminal[r].status /\ Success(row[r])

\* When nobody holds the admission no row is left in progress, except for an
\* abandoned request or after SQLite refused both updates.
NoOrphanRow ==
    ~busy => \A r \in Requests : row[r] = "in_progress" =>
                 task[r] = "abandoned" \/ terminal[r].storage

\* The admission always comes back, whatever the child and the clients do.
BusyReleased == busy ~> ~busy \/ stopping

\* After a shutdown the run task ends and leaves no child behind.
StopEnds == stopping ~> (runpc = "ended" /\ child.st = "none")

\* Every admitted request reaches its end, unless the server is stopped: a
\* request inside reset() then waits for the end of the process.
EveryRequestEnds ==
    \A r \in Requests :
        task[r] = "begin" ~> task[r] \in {"done", "rejected", "abandoned"} \/ stopping
=============================================================================
