----------------------------- MODULE Supervisor -----------------------------
(***************************************************************************)
(* The GPU worker supervisor of server/worker.rs: the one `Worker` object  *)
(* shared by every HTTP request, its `run` loop (spawn a child, read its   *)
(* events, kill and reap it, back off, respawn), the dispatch task that    *)
(* `start` spawns for a request, and `reset`, which waits for a reap.      *)
(*                                                                         *)
(* The child process is the environment: it may answer, stay silent,       *)
(* break the protocol or die at any moment.  Time is not modelled: a       *)
(* timer may expire whenever its owner waits for it.                       *)
(*                                                                         *)
(* Who calls start, cancel, reset and release is in module Generation.     *)
(***************************************************************************)
EXTENDS Naturals, Sequences

CONSTANTS
    Requests,   \* response ids; api::new_id never returns one twice
    None,       \* Rust's Option::None
    ChanCap,    \* capacity of a request's event channel (256 in the code)
    PipeCap,    \* lines the child's stdout pipe holds before a write blocks
    Announces,  \* BOOLEAN: does the child emit `started`?
    MaxDeltas,  \* deltas a child may emit for one request
    Answers,    \* statuses a child may end a request with
    Faults      \* accidents that may happen, see FaultKinds

Outcomes == {"completed", "incomplete", "cancelled", "failed"}

\* The server is stopped; SQLite refuses an insert or an update; a client
\* disconnects; a user posts a cancel; a task is dropped with its receiver;
\* the child writes a line that is not of the protocol.
FaultKinds == {"stop", "insert", "update", "leave", "cancel", "abandon", "garble"}

ASSUME SupervisorAssumption ==
    /\ None \notin Requests
    /\ ChanCap \in Nat \ {0}
    /\ PipeCap \in Nat \ {0}
    /\ Announces \in BOOLEAN
    /\ MaxDeltas \in Nat
    /\ Answers \subseteq Outcomes
    /\ Faults \subseteq FaultKinds

VARIABLES
    \* Fields of `Worker`.  `pending` stands for the id and its sender;
    \* `changed` and `restart` are the stored permits of the two Notify.
    status, busy, stopping, resetting, pending, cancelled, changed, restart,
    \* The `run` task: where it is, the `pending` it cloned, the line it read.
    runpc, held, line,
    \* The child: the process, generate commands it has not taken, its stdout.
    child, inbox, stdout,
    \* Per request: the dispatch task, the event channel, dropped receivers.
    dispatch, chan, closed,
    \* Callers inside `reset`, and those whose subscription saw a new epoch.
    rst, woken

workerVars == <<status, busy, stopping, resetting, pending, cancelled,
                changed, restart>>
runVars    == <<runpc, held, line>>
childVars  == <<child, inbox, stdout>>
reqVars    == <<dispatch, chan, closed>>
resetVars  == <<rst, woken>>
supVars    == <<status, busy, stopping, resetting, pending, cancelled,
                changed, restart, runpc, held, line, child, inbox, stdout,
                dispatch, chan, closed, rst, woken>>

-----------------------------------------------------------------------------
\* What travels over stdout and the event channels.  `deltas` of a terminal
\* counts the pieces its complete message consists of.

EventTypes == {"ready", "garbage", "started", "delta", "terminal", "cancelling"}
Event == [type   : EventTypes \ {"terminal"},
          id     : Requests \cup {None},
          status : {None},
          deltas : {0}]
         \cup
         [type   : {"terminal"},
          id     : Requests \cup {None},
          status : Outcomes,
          deltas : 0..MaxDeltas]

Plain(t, r)       == [type |-> t, id |-> r, status |-> None, deltas |-> 0]
Terminal(r, s, n) == [type |-> "terminal", id |-> r, status |-> s, deltas |-> n]
NoLine            == Plain("garbage", None)

\* The child process: its state, its running job, and of that job whether
\* `started` was announced and how many deltas were emitted.
Process == [st   : {"none", "loading", "up", "dead"},
            job  : Requests \cup {None},
            told : BOOLEAN,
            sent : 0..MaxDeltas]

NoChild  == [st |-> "none", job |-> None, told |-> FALSE, sent |-> 0]
NewChild == [st |-> "loading", job |-> None, told |-> FALSE, sent |-> 0]
Exited   == [st |-> "dead", job |-> None, told |-> FALSE, sent |-> 0]
Running(r) == [st |-> "up", job |-> r, told |-> FALSE, sent |-> 0]

Alive == child.st \in {"loading", "up"}

\* A reset is called by a request's dispatch task or by its generation task.
Callers == Requests \X {"dispatch", "task"}

SupInit ==
    /\ status = "starting"
    /\ busy = FALSE /\ stopping = FALSE /\ resetting = FALSE
    /\ pending = None /\ cancelled = None
    /\ changed = FALSE /\ restart = FALSE
    /\ runpc = "top" /\ held = None /\ line = NoLine
    /\ child = NoChild /\ inbox = {} /\ stdout = <<>>
    /\ dispatch = [r \in Requests |-> "none"]
    /\ chan = [r \in Requests |-> <<>>]
    /\ closed = {}
    /\ rst = [c \in Callers |-> "idle"]
    /\ woken = {}

-----------------------------------------------------------------------------
\* Operations the HTTP handlers call.

\* start, lines 135-137: what must be seen before the admission is claimed.
Available == status = "ready" /\ ~stopping

\* Mutant: the flag is stored instead of compared and exchanged.
ClaimBusyStored == busy' = TRUE

\* start, lines 138-144: compare_exchange(false, true).
ClaimBusy == ~busy /\ busy' = TRUE

\* start, lines 145-163: the request becomes pending and its dispatch task
\* runs up to its first await.  Without a child there is no stdin to write
\* to: the write fails at once and the task goes on to `reset`.
Publish(r) ==
    /\ pending' = r
    /\ cancelled' = None
    /\ changed' = TRUE
    /\ IF child.st = "none"
       THEN /\ dispatch' = [dispatch EXCEPT ![r] = "reset"]
            /\ rst' = [rst EXCEPT ![<<r, "dispatch">>] = "armed"]
       ELSE /\ dispatch' = [dispatch EXCEPT ![r] = "writing"]
            /\ UNCHANGED rst

\* Mutant: send instead of try_send, whatever the channel holds.
CancelUnbounded(r, queue) ==
    /\ cancelled' = IF pending = r THEN r ELSE cancelled
    /\ chan' = [chan EXCEPT ![r] =
                  IF pending = r THEN Append(queue, Plain("cancelling", r)) ELSE queue]

\* cancel: flag the active request and nudge its task; try_send drops the
\* event when the channel is full.  The command written to the child asks
\* for something the child may do anyway (answer early), so it is not kept.
\* `queue` is the channel's content: the caller may just have received.
Cancel(r, queue) ==
    /\ cancelled' = IF pending = r THEN r ELSE cancelled
    /\ chan' = [chan EXCEPT ![r] =
                  IF pending = r /\ Len(queue) < ChanCap
                  THEN Append(queue, Plain("cancelling", r)) ELSE queue]

\* release: only the request that is still pending gives the admission back.
Release(r) ==
    IF pending = r
    THEN pending' = None /\ busy' = FALSE /\ changed' = TRUE
    ELSE UNCHANGED <<pending, busy, changed>>

\* Entering `reset`, lines 182-191: subscribe to the reap epoch, then look
\* whether the id is still pending.  ResetArm and ResetReturn are the rest.
CallReset(c) ==
    rst' = [rst EXCEPT ![c] = IF pending = c[1] THEN "armed" ELSE "returned"]

\* The owner of a request's events drops the receiver and what it holds.
DropReceiver(r) ==
    /\ closed' = closed \cup {r}
    /\ chan' = [chan EXCEPT ![r] = <<>>]

\* Mutant: the run task is not woken.
ShutdownSilent ==
    /\ "stop" \in Faults
    /\ ~stopping
    /\ stopping' = TRUE
    /\ UNCHANGED <<status, busy, resetting, pending, cancelled, changed, restart,
                   runVars, childVars, reqVars, resetVars>>

\* shutdown: on SIGTERM or Ctrl-C.
Shutdown ==
    /\ "stop" \in Faults
    /\ ~stopping
    /\ stopping' = TRUE
    /\ restart' = TRUE
    /\ UNCHANGED <<status, busy, resetting, pending, cancelled, changed,
                   runVars, childVars, reqVars, resetVars>>

-----------------------------------------------------------------------------
\* The rest of reset(id).

\* Mutant: the run task is not woken.
ResetArmSilent(c) ==
    /\ rst[c] = "armed"
    /\ status' = "restarting"
    /\ resetting' = TRUE
    /\ rst' = [rst EXCEPT ![c] = "waiting"]
    /\ UNCHANGED <<busy, stopping, pending, cancelled, changed, restart, runVars,
                   childVars, reqVars, woken>>

\* Ask for the reap.  The pending lock was dropped: anything may have
\* happened since CallReset.
ResetArm(c) ==
    /\ rst[c] = "armed"
    /\ status' = "restarting"
    /\ resetting' = TRUE
    /\ restart' = TRUE
    /\ rst' = [rst EXCEPT ![c] = "waiting"]
    /\ UNCHANGED <<busy, stopping, pending, cancelled, changed, runVars,
                   childVars, reqVars, woken>>

\* Mutant: any wake-up counts.
ResetReturnEarly(c) ==
    /\ rst[c] = "waiting"
    /\ rst' = [rst EXCEPT ![c] = "returned"]
    /\ woken' = woken \ {c}
    /\ UNCHANGED <<workerVars, runVars, childVars, reqVars>>

\* reaped.changed() returns once the epoch moved past the subscribed one.
ResetReturn(c) ==
    /\ rst[c] = "waiting"
    /\ c \in woken
    /\ rst' = [rst EXCEPT ![c] = "returned"]
    /\ woken' = woken \ {c}
    /\ UNCHANGED <<workerVars, runVars, childVars, reqVars>>

\* reaped.send_modify: every subscription made so far sees the new epoch.
BumpReaped ==
    woken' = woken \cup {c \in Callers : rst[c] \in {"armed", "waiting"}}

-----------------------------------------------------------------------------
\* The dispatch task, lines 151-163.

\* The generate line reached the child's stdin.
DispatchWrite(r) ==
    /\ dispatch[r] = "writing"
    /\ r \notin closed
    /\ Alive
    /\ inbox' = inbox \cup {r}
    /\ dispatch' = [dispatch EXCEPT ![r] = "done"]
    /\ UNCHANGED <<workerVars, runVars, child, stdout, chan, closed, resetVars>>

\* The receiver was dropped, the write failed, or it took over ten seconds.
DispatchFail(r) ==
    /\ dispatch[r] = "writing"
    /\ dispatch' = [dispatch EXCEPT ![r] = "reset"]
    /\ CallReset(<<r, "dispatch">>)
    /\ UNCHANGED <<workerVars, runVars, childVars, chan, closed, woken>>

\* After the reset an abandoned request's admission is given back here.
DispatchEnd(r) ==
    /\ dispatch[r] = "reset"
    /\ rst[<<r, "dispatch">>] = "returned"
    /\ dispatch' = [dispatch EXCEPT ![r] = "done"]
    /\ IF r \in closed THEN Release(r) ELSE UNCHANGED <<pending, busy, changed>>
    /\ UNCHANGED <<status, stopping, resetting, cancelled, restart, runVars,
                   childVars, chan, closed, resetVars>>

-----------------------------------------------------------------------------
\* run, lines 212-317.

\* The outer loop ends after a shutdown.
RunStop ==
    /\ runpc = "top"
    /\ stopping
    /\ status' = "stopped"
    /\ runpc' = "ended"
    /\ UNCHANGED <<busy, stopping, resetting, pending, cancelled, changed,
                   restart, held, line, childVars, reqVars, resetVars>>

\* command.spawn() succeeds; the new child's stdin becomes the writer.
RunSpawn ==
    /\ runpc = "top"
    /\ ~stopping
    /\ status' = "loading"
    /\ child' = NewChild
    /\ runpc' = "loop"
    /\ UNCHANGED <<busy, stopping, resetting, pending, cancelled, changed,
                   restart, held, line, inbox, stdout, reqVars, resetVars>>

\* command.spawn() fails.
RunSpawnError ==
    /\ runpc = "top"
    /\ ~stopping
    /\ status' = "failed"
    /\ runpc' = "backoff"
    /\ UNCHANGED <<busy, stopping, resetting, pending, cancelled, changed,
                   restart, held, line, childVars, reqVars, resetVars>>

\* Top of the read loop: leave it, or clone `pending` and wait.
RunLoop ==
    /\ runpc = "loop"
    /\ runpc' = IF stopping \/ resetting THEN "reap" ELSE "select"
    /\ held' = IF stopping \/ resetting THEN None ELSE pending
    /\ UNCHANGED <<workerVars, line, childVars, reqVars, resetVars>>

\* The biased select: a restart permit, then a changed permit, ...
RunPermit ==
    /\ runpc = "select"
    /\ restart \/ changed
    /\ restart' = FALSE
    /\ changed' = (restart /\ changed)
    /\ runpc' = "loop"
    /\ held' = None
    /\ UNCHANGED <<status, busy, stopping, resetting, pending, cancelled, line, childVars, reqVars, resetVars>>

\* ... then a dropped receiver of the cloned request, ...
RunDisconnected ==
    /\ runpc = "select"
    /\ ~restart /\ ~changed
    /\ held \in closed
    /\ runpc' = "reap"
    /\ held' = None
    /\ UNCHANGED <<workerVars, line, childVars, reqVars, resetVars>>

\* ... then the next line of stdout, or its end.
RunRead ==
    /\ runpc = "select"
    /\ ~restart /\ ~changed
    /\ held \notin closed
    /\ \/ /\ stdout # <<>>
          /\ line' = Head(stdout)
          /\ stdout' = Tail(stdout)
          /\ runpc' = "line"
       \/ /\ stdout = <<>>
          /\ child.st = "dead"
          /\ runpc' = "reap"
          /\ UNCHANGED <<line, stdout>>
    /\ held' = None
    /\ UNCHANGED <<workerVars, child, inbox, reqVars, resetVars>>

\* A line that is too long, no JSON, or a ready of another protocol ends the
\* child; so does an event of a request other than the pending one.  With no
\* request pending an event is dropped.
RunLine ==
    /\ runpc = "line"
    /\ status' = IF line.type = "ready" THEN "ready" ELSE status
    /\ IF line.type \notin {"ready", "garbage"} /\ line.id = pending
       THEN runpc' = "send" /\ held' = pending /\ UNCHANGED line
       ELSE /\ runpc' = IF line.type # "ready" /\ (line.type = "garbage" \/ pending # None)
                       THEN "reap" ELSE "loop"
            /\ line' = NoLine
            /\ UNCHANGED held
    /\ UNCHANGED <<busy, stopping, resetting, pending, cancelled, changed,
                   restart, childVars, reqVars, resetVars>>

\* The event enters the request's channel.
RunSend ==
    /\ runpc = "send"
    /\ held \notin closed
    /\ Len(chan[held]) < ChanCap
    /\ chan' = [chan EXCEPT ![held] = Append(@, line)]
    /\ runpc' = "loop"
    /\ held' = None /\ line' = NoLine
    /\ UNCHANGED <<workerVars, childVars, dispatch, closed, resetVars>>

\* A restart permit, a dropped receiver, or five seconds on a full channel.
RunSendFail ==
    /\ runpc = "send"
    /\ \/ restart /\ restart' = FALSE
       \/ held \in closed /\ UNCHANGED restart
       \/ Len(chan[held]) >= ChanCap /\ UNCHANGED restart
    /\ runpc' = "reap"
    /\ held' = None /\ line' = NoLine
    /\ UNCHANGED <<status, busy, stopping, resetting, pending, cancelled, changed,
                   childVars, reqVars, resetVars>>

\* child.kill() and child.wait(): nothing of this child runs any more.
RunReap ==
    /\ runpc = "reap"
    /\ status' = "restarting"
    /\ child' = NoChild
    /\ inbox' = {}
    /\ stdout' = <<>>
    /\ runpc' = "reaped"
    /\ UNCHANGED <<busy, stopping, resetting, pending, cancelled, changed,
                   restart, held, line, reqVars, resetVars>>

\* The writer lock is fair, so a write queued on the old stdin fails before
\* run() takes the lock to drop it; then the reap is announced.  A dispatch
\* task is taken to be polled, and its write queued, before that.
RunAnnounce ==
    /\ runpc = "reaped"
    /\ \A r \in Requests : dispatch[r] # "writing"
    /\ resetting' = FALSE
    /\ BumpReaped
    /\ runpc' = "announced"
    /\ UNCHANGED <<status, busy, stopping, pending, cancelled, changed,
                   restart, held, line, childVars, reqVars, rst>>

\* Whoever is pending now has lost its child.
RunLost ==
    /\ runpc = "announced"
    /\ held' = pending
    /\ runpc' = IF pending = None THEN "backoff" ELSE "notify"
    /\ UNCHANGED <<workerVars, line, childVars, reqVars, resetVars>>

\* Mutant: an abandoned request is not released at the reap.
RunNotifyNoRelease ==
    /\ runpc = "notify"
    /\ runpc' = "backoff"
    /\ held' = None
    /\ chan' = IF held \notin closed /\ Len(chan[held]) < ChanCap
               THEN [chan EXCEPT ![held] = Append(@, Terminal(held, "failed", 0))]
               ELSE chan
    /\ UNCHANGED <<workerVars, line, childVars, dispatch, closed, resetVars>>

\* That request is told (terminal worker_lost), or, when nobody listens any
\* more, released; the send gives up after five seconds on a full channel.
RunNotify ==
    /\ runpc = "notify"
    /\ runpc' = "backoff"
    /\ held' = None
    /\ IF held \in closed
       THEN Release(held) /\ UNCHANGED chan
       ELSE /\ chan' = IF Len(chan[held]) < ChanCap
                       THEN [chan EXCEPT ![held] =
                               Append(@, Terminal(held, "failed", 0))]
                       ELSE chan
            /\ UNCHANGED <<pending, busy, changed>>
    /\ UNCHANGED <<status, stopping, resetting, cancelled, restart, line, childVars,
                   dispatch, closed, resetVars>>

\* The one second pause, lines 306-314: skipped on shutdown, ...
RunPause ==
    /\ runpc = "backoff"
    /\ stopping \/ ~restart
    /\ runpc' = IF stopping THEN "top" ELSE "sleeping"
    /\ UNCHANGED <<workerVars, held, line, childVars, reqVars, resetVars>>

\* ... cut short by a restart permit, which also counts as a reap, ...
RunPauseReset ==
    /\ runpc \in {"backoff", "sleeping"}
    /\ runpc = "backoff" => ~stopping
    /\ restart
    /\ restart' = FALSE
    /\ resetting' = FALSE
    /\ BumpReaped
    /\ runpc' = "top"
    /\ UNCHANGED <<status, busy, stopping, pending, cancelled, changed,
                   held, line, childVars, reqVars, rst>>

\* ... or slept through.
RunWake ==
    /\ runpc = "sleeping"
    /\ runpc' = "top"
    /\ UNCHANGED <<workerVars, held, line, childVars, reqVars, resetVars>>

-----------------------------------------------------------------------------
\* The child process, as far as the supervisor can tell: jobs run one at a
\* time, in events of the job's id, a terminal being the last of them.

ChildReady ==
    /\ child.st = "loading"
    /\ Len(stdout) < PipeCap
    /\ child' = [child EXCEPT !.st = "up"]
    /\ stdout' = Append(stdout, Plain("ready", None))
    /\ UNCHANGED <<workerVars, runVars, inbox, reqVars, resetVars>>

ChildTake(r) ==
    /\ child.st = "up" /\ child.job = None
    /\ r \in inbox
    /\ inbox' = inbox \ {r}
    /\ child' = Running(r)
    /\ UNCHANGED <<workerVars, runVars, stdout, reqVars, resetVars>>

ChildStarted ==
    /\ Announces
    /\ child.st = "up" /\ child.job # None /\ ~child.told
    /\ Len(stdout) < PipeCap
    /\ stdout' = Append(stdout, Plain("started", child.job))
    /\ child' = [child EXCEPT !.told = TRUE]
    /\ UNCHANGED <<workerVars, runVars, inbox, reqVars, resetVars>>

ChildDelta ==
    /\ child.st = "up" /\ child.job # None /\ child.sent < MaxDeltas
    /\ Announces => child.told
    /\ Len(stdout) < PipeCap
    /\ stdout' = Append(stdout, Plain("delta", child.job))
    /\ child' = [child EXCEPT !.sent = @ + 1]
    /\ UNCHANGED <<workerVars, runVars, inbox, reqVars, resetVars>>

ChildTerminal(s) ==
    /\ child.st = "up" /\ child.job # None
    /\ Len(stdout) < PipeCap
    /\ stdout' = Append(stdout, Terminal(child.job, s, child.sent))
    /\ child' = Running(None)
    /\ UNCHANGED <<workerVars, runVars, inbox, reqVars, resetVars>>

\* The process dies; what it wrote can still be read.
ChildDie ==
    /\ Alive
    /\ child' = Exited
    /\ inbox' = {}
    /\ UNCHANGED <<workerVars, runVars, stdout, reqVars, resetVars>>

\* A live child writes a line that is not of protocol 1.
ChildGarble ==
    /\ "garble" \in Faults
    /\ Alive
    /\ Len(stdout) < PipeCap
    /\ stdout' = Append(stdout, NoLine)
    /\ UNCHANGED <<workerVars, runVars, child, inbox, reqVars, resetVars>>

-----------------------------------------------------------------------------
RunStep == \/ RunStop \/ RunSpawn \/ RunSpawnError
           \/ RunLoop \/ RunPermit \/ RunDisconnected \/ RunRead \/ RunLine
           \/ RunSend \/ RunSendFail \/ RunReap \/ RunAnnounce
           \/ RunLost \/ RunNotify
           \/ RunPause \/ RunPauseReset \/ RunWake

DispatchStep(r) == DispatchWrite(r) \/ DispatchFail(r) \/ DispatchEnd(r)

ResetStep(c) == ResetArm(c) \/ ResetReturn(c)

ChildStep == \/ ChildReady \/ ChildStarted \/ ChildDelta \/ ChildDie \/ ChildGarble
             \/ \E r \in Requests : ChildTake(r)
             \/ \E s \in Answers : ChildTerminal(s)

SupNext == \/ RunStep
           \/ ChildStep
           \/ \E r \in Requests : DispatchStep(r)
           \/ \E c \in Callers : ResetStep(c)
           \/ Shutdown

-----------------------------------------------------------------------------
SupTypeOK ==
    /\ status \in {"starting", "loading", "ready", "restarting", "failed", "stopped"}
    /\ busy \in BOOLEAN /\ stopping \in BOOLEAN /\ resetting \in BOOLEAN
    /\ changed \in BOOLEAN /\ restart \in BOOLEAN
    /\ pending \in Requests \cup {None}
    /\ cancelled \in Requests \cup {None}
    /\ runpc \in {"top", "loop", "select", "line", "send", "reap", "reaped",
                  "announced", "notify", "backoff", "sleeping", "ended"}
    /\ held \in Requests \cup {None}
    /\ line \in Event
    /\ child \in Process
    /\ inbox \subseteq Requests
    /\ stdout \in Seq(Event)
    /\ dispatch \in [Requests -> {"none", "writing", "reset", "done"}]
    /\ chan \in [Requests -> Seq(Event)]
    /\ \A r \in Requests : Len(chan[r]) <= ChanCap
    /\ closed \subseteq Requests
    /\ rst \in [Callers -> {"idle", "armed", "waiting", "returned"}]
    /\ woken \subseteq Callers

=============================================================================
