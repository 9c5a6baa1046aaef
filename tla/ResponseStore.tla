---------------------------- MODULE ResponseStore ----------------------------
(***************************************************************************)
(* The durable side of a request: the `responses` table of server/store.rs *)
(* as `generate` in server/service.rs uses it, and `serve`, which takes    *)
(* the lock on the database file and repairs the table before it answers.  *)
(*                                                                         *)
(* Every operation of the store is one SQL statement in a transaction of   *)
(* its own (WAL, synchronous=FULL), hence one action; between two of them  *)
(* other handlers run and the process may be killed.  Several processes    *)
(* may be started on the same file.  What the worker does between Begin    *)
(* and Finish is module Generation; here it ends with any terminal.        *)
(***************************************************************************)
CONSTANTS
    Requests,    \* HTTP requests that generate; each gets an id of its own
    None,        \* Option::None
    Servers,     \* server processes started on the database file
    KeyOf,       \* request -> its Idempotency-Key, or None
    BodyOf,      \* request -> its body
    StoreFaults  \* accidents that may happen, see StoreFaultKinds

Outcomes == {"completed", "incomplete", "cancelled", "failed"}

\* The process is killed; a graceful shutdown outlives its connections;
\* SQLite refuses an insert or an update; a client disconnects; the worker
\* is not ready or the history is ambiguous.
StoreFaultKinds == {"crash", "drain", "insert", "update", "leave", "refuse"}

ASSUME StoreAssumption ==
    /\ None \notin Requests /\ None \notin Servers
    /\ DOMAIN KeyOf = Requests /\ DOMAIN BodyOf = Requests
    /\ StoreFaults \subseteq StoreFaultKinds

VARIABLES
    rows,     \* the table: request -> status and whether it has a snapshot
    owner,    \* the process that holds the lock on the file
    phase,    \* server -> "off" (systemd starts it), "opening", "serving",
              \* "draining" or "stopped" (only its user starts it again)
    stale,    \* server -> ids its open() selected and has not updated yet
    busy,     \* server -> the worker's admission
    pc,       \* request -> where its handler, then its task, stands
    host,     \* request -> the server that received it
    parent,   \* request -> the stored response it continues
    said,     \* request -> status of the terminal its task ended with
    gone,     \* requests whose client disconnected
    answer    \* request -> what its client was told

serverVars  == <<owner, phase, stale>>
requestVars == <<pc, host, parent, said, gone, answer>>
storeVars   == <<rows, owner, phase, stale, busy, pc, host, parent, said, gone, answer>>

-----------------------------------------------------------------------------
Row(s, snap) == [status |-> s, snapshot |-> snap]
Rows == {Row(s, FALSE) : s \in {"absent", "in_progress", "incomplete", "cancelled", "failed"}}
        \cup {Row("completed", TRUE)}

\* An answer names the response whose result it carries, when it is one.
Tell(kind, of) == [kind |-> kind, of |-> of]
Told == [kind : {"none", "success", "error", "busy", "conflict"}, of : Requests \cup {None}]

Success(s) == s \in {"completed", "incomplete"}

\* The spawned task of a request is running.
InTask(r) == pc[r] \in {"running", "fallback", "reply"}

Exists(r) == rows[r].status # "absent"

\* The row an idempotency key belongs to (the column is UNIQUE).
Holder(k, q) == k # None /\ KeyOf[q] = k /\ Exists(q)

Goto(r, label) == pc' = [pc EXCEPT ![r] = label]

Answer(r, kind, of) == answer' = [answer EXCEPT ![r] = Tell(kind, of)]

Init ==
    /\ rows = [r \in Requests |-> Row("absent", FALSE)]
    /\ owner = None
    /\ phase = [s \in Servers |-> "off"]
    /\ stale = [s \in Servers |-> {}]
    /\ busy = [s \in Servers |-> FALSE]
    /\ pc = [r \in Requests |-> "idle"]
    /\ host = [r \in Requests |-> None]
    /\ parent = [r \in Requests |-> None]
    /\ said = [r \in Requests |-> "failed"]
    /\ gone = {}
    /\ answer = [r \in Requests |-> Tell("none", None)]

-----------------------------------------------------------------------------
\* The process: serve() and Store::open().

\* Mutant: the file is opened without the lock.
AcquireUnlocked(s) ==
    /\ phase[s] \in {"off", "stopped"}
    /\ owner' = s
    /\ phase' = [phase EXCEPT ![s] = "opening"]
    /\ stale' = [stale EXCEPT ![s] = {r \in Requests : rows[r].status = "in_progress"}]
    /\ UNCHANGED <<rows, busy, requestVars>>

\* Mutant: nothing is selected for repair.
AcquireBlind(s) ==
    /\ phase[s] \in {"off", "stopped"}
    /\ owner = None
    /\ owner' = s
    /\ phase' = [phase EXCEPT ![s] = "opening"]
    /\ UNCHANGED <<rows, stale, busy, requestVars>>

\* Mutant: every row is selected.
AcquireEveryRow(s) ==
    /\ phase[s] \in {"off", "stopped"}
    /\ owner = None
    /\ owner' = s
    /\ phase' = [phase EXCEPT ![s] = "opening"]
    /\ stale' = [stale EXCEPT ![s] = {r \in Requests : Exists(r)}]
    /\ UNCHANGED <<rows, busy, requestVars>>

\* try_lock, then the rows a former process left in progress are selected.
\* A process that cannot have the lock ends.
Acquire(s) ==
    /\ phase[s] \in {"off", "stopped"}
    /\ owner = None
    /\ owner' = s
    /\ phase' = [phase EXCEPT ![s] = "opening"]
    /\ stale' = [stale EXCEPT ![s] = {r \in Requests : rows[r].status = "in_progress"}]
    /\ UNCHANGED <<rows, busy, requestVars>>

\* One UPDATE for each of them, by id alone: "server_restarted".
FailStale(s, r) ==
    /\ phase[s] = "opening"
    /\ r \in stale[s]
    /\ rows' = [rows EXCEPT ![r] = Row("failed", FALSE)]
    /\ stale' = [stale EXCEPT ![s] = @ \ {r}]
    /\ UNCHANGED <<owner, phase, busy, requestVars>>

Serve(s) ==
    /\ phase[s] = "opening"
    /\ stale[s] = {}
    /\ phase' = [phase EXCEPT ![s] = "serving"]
    /\ UNCHANGED <<rows, owner, stale, busy, requestVars>>

\* The end of a process takes its handlers and tasks with it.
Halt(s, as) ==
    /\ phase' = [phase EXCEPT ![s] = as]
    /\ owner' = IF owner = s THEN None ELSE owner
    /\ stale' = [stale EXCEPT ![s] = {}]
    /\ busy' = [busy EXCEPT ![s] = FALSE]
    /\ pc' = [r \in Requests |->
                IF host[r] = s /\ pc[r] \notin {"idle", "done"} THEN "lost" ELSE pc[r]]
    /\ UNCHANGED <<rows, host, parent, said, gone, answer>>

\* It is killed, by an accident or by a stop that did not wait for it any
\* longer (TimeoutStopSec, or 10 seconds of `qwasar.py stop`).
Crash(s) ==
    /\ "crash" \in StoreFaults
    /\ phase[s] \in {"opening", "serving"}
    /\ \E as \in {"off", "stopped"} : Halt(s, as)

\* axum's graceful shutdown waits for the connections, not for the tasks of
\* clients that left; then the lock is dropped.
Drain(s) ==
    /\ "drain" \in StoreFaults
    /\ phase[s] = "serving"
    /\ \A r \in Requests : host[r] = s =>
          pc[r] \in {"undo", "done"} \/ (r \in gone /\ InTask(r))
    /\ phase' = [phase EXCEPT ![s] = "draining"]
    /\ owner' = None
    /\ UNCHANGED <<rows, stale, busy, requestVars>>

\* Exit code 0, which Restart=on-failure takes for the end.
Exit(s) ==
    /\ phase[s] = "draining"
    /\ Halt(s, "stopped")

-----------------------------------------------------------------------------
\* A request, up to the start of its task.

\* A response may be continued once it is completed and has its snapshot.
Eligible(p) == rows[p].status = "completed" /\ rows[p].snapshot

\* A request arrives; the previous_response_id it may carry is looked up.
Receive(r, s, p) ==
    /\ pc[r] = "idle"
    /\ phase[s] = "serving"
    /\ host' = [host EXCEPT ![r] = s]
    /\ IF p = None \/ Eligible(p)
       THEN Goto(r, "lookup") /\ parent' = [parent EXCEPT ![r] = p] /\ UNCHANGED answer
       ELSE Goto(r, "done") /\ Answer(r, "error", None) /\ UNCHANGED parent
    /\ UNCHANGED <<rows, serverVars, busy, said, gone>>

\* No response has the key: the request is new.
LookupNew(r) ==
    /\ pc[r] = "lookup"
    /\ ~\E q \in Requests : Holder(KeyOf[r], q)
    /\ Goto(r, "start")
    /\ UNCHANGED <<rows, serverVars, busy, host, parent, said, gone, answer>>

\* A response has it: 409 for another body or while it is in progress, else
\* its stored result is replayed.
LookupKnown(r) ==
    /\ pc[r] = "lookup"
    /\ \E q \in Requests :
         /\ Holder(KeyOf[r], q)
         /\ CASE BodyOf[q] # BodyOf[r]           -> Answer(r, "conflict", None)
              [] BodyOf[q] = BodyOf[r] /\ rows[q].status = "in_progress" -> Answer(r, "busy", None)
              [] BodyOf[q] = BodyOf[r] /\ Success(rows[q].status) -> Answer(r, "success", q)
              [] OTHER                           -> Answer(r, "error", q)
    /\ Goto(r, "done")
    /\ UNCHANGED <<rows, serverVars, busy, host, parent, said, gone>>

\* The history is ambiguous, a lookup failed or the worker is not ready.
Refuse(r) ==
    /\ "refuse" \in StoreFaults
    /\ pc[r] \in {"lookup", "start"}
    /\ Goto(r, "done")
    /\ Answer(r, "error", None)
    /\ UNCHANGED <<rows, serverVars, busy, host, parent, said, gone>>

\* worker.start: the admission, and with it the dispatch to the worker.
Start(r) ==
    /\ pc[r] = "start"
    /\ IF busy[host[r]]
       THEN Goto(r, "done") /\ Answer(r, "busy", None) /\ UNCHANGED busy
       ELSE Goto(r, "begin") /\ busy' = [busy EXCEPT ![host[r]] = TRUE] /\ UNCHANGED answer
    /\ UNCHANGED <<rows, serverVars, host, parent, said, gone>>

\* Mutant: the idempotency column is not UNIQUE.
InsertableTwice(r) == ~Exists(r)

\* PRIMARY KEY and UNIQUE.
Insertable(r) ==
    /\ ~Exists(r)
    /\ ~\E q \in Requests : Holder(KeyOf[r], q)

\* store.begin
Begin(r) ==
    /\ pc[r] = "begin"
    /\ Insertable(r)
    /\ rows' = [rows EXCEPT ![r] = Row("in_progress", FALSE)]
    /\ Goto(r, "running")
    /\ UNCHANGED <<serverVars, busy, host, parent, said, gone, answer>>

\* The insert is refused: 500, and the worker is reset.
BeginError(r) ==
    /\ pc[r] = "begin"
    /\ ~Insertable(r) \/ "insert" \in StoreFaults
    /\ Goto(r, "undo")
    /\ Answer(r, "error", None)
    /\ UNCHANGED <<rows, serverVars, busy, host, parent, said, gone>>

Undo(r) ==
    /\ pc[r] = "undo"
    /\ busy' = [busy EXCEPT ![host[r]] = FALSE]
    /\ Goto(r, "done")
    /\ UNCHANGED <<rows, serverVars, host, parent, said, gone, answer>>

-----------------------------------------------------------------------------
\* The task.

\* store.finish needs a snapshot for a completed response, and a row that is
\* still in progress.
Closable(r, s, snap) ==
    /\ s = "completed" => snap
    /\ rows[r].status = "in_progress"

\* Mutant: the snapshot is stored whatever the status.
FinishKeepsSnapshot(r, s, snap) ==
    /\ pc[r] = "running"
    /\ Closable(r, s, snap)
    /\ rows' = [rows EXCEPT ![r] = Row(s, snap)]
    /\ said' = [said EXCEPT ![r] = s]
    /\ Goto(r, "reply")
    /\ UNCHANGED <<serverVars, busy, host, parent, gone, answer>>

\* The worker's terminal is committed; only a completed one with its snapshot.
Finish(r, s, snap) ==
    /\ pc[r] = "running"
    /\ Closable(r, s, snap)
    /\ rows' = [rows EXCEPT ![r] = Row(s, s = "completed")]
    /\ said' = [said EXCEPT ![r] = s]
    /\ Goto(r, "reply")
    /\ UNCHANGED <<serverVars, busy, host, parent, gone, answer>>

\* Mutant: a failed commit is not reported.
FinishErrorIgnored(r, s, snap) ==
    /\ pc[r] = "running"
    /\ ~Closable(r, s, snap) \/ "update" \in StoreFaults
    /\ said' = [said EXCEPT ![r] = s]
    /\ Goto(r, "fallback")
    /\ UNCHANGED <<rows, serverVars, busy, host, parent, gone, answer>>

\* It is refused: the request fails ...
FinishError(r, s, snap) ==
    /\ pc[r] = "running"
    /\ ~Closable(r, s, snap) \/ "update" \in StoreFaults
    /\ said' = [said EXCEPT ![r] = "failed"]
    /\ Goto(r, "fallback")
    /\ UNCHANGED <<rows, serverVars, busy, host, parent, gone, answer>>

\* ... and is recorded as failed, unless that is refused as well.
Fallback(r) ==
    /\ pc[r] = "fallback"
    /\ \/ /\ Closable(r, "failed", FALSE)
          /\ rows' = [rows EXCEPT ![r] = Row("failed", FALSE)]
       \/ /\ ~Closable(r, "failed", FALSE) \/ "update" \in StoreFaults
          /\ UNCHANGED rows
    /\ Goto(r, "reply")
    /\ UNCHANGED <<serverVars, busy, host, parent, said, gone, answer>>

\* The admission is released and the client, if it still is there, answered.
Reply(r) ==
    /\ pc[r] = "reply"
    /\ busy' = [busy EXCEPT ![host[r]] = FALSE]
    /\ IF r \in gone
       THEN UNCHANGED answer
       ELSE Answer(r, IF Success(said[r]) THEN "success" ELSE "error", r)
    /\ Goto(r, "done")
    /\ UNCHANGED <<rows, serverVars, host, parent, said, gone>>

Leave(r) ==
    /\ "leave" \in StoreFaults
    /\ InTask(r) /\ r \notin gone
    /\ gone' = gone \cup {r}
    /\ UNCHANGED <<rows, serverVars, busy, pc, host, parent, said, answer>>

-----------------------------------------------------------------------------
ServerStep(s) == \/ Acquire(s) \/ Serve(s) \/ Crash(s) \/ Drain(s) \/ Exit(s)
                 \/ \E r \in Requests : FailStale(s, r)

HandlerStep(r) == \/ LookupNew(r) \/ LookupKnown(r) \/ Start(r)
                  \/ Begin(r) \/ BeginError(r) \/ Undo(r)

TaskStep(r) == \/ \E s \in Outcomes, snap \in BOOLEAN : Finish(r, s, snap) \/ FinishError(r, s, snap)
               \/ Fallback(r) \/ Reply(r)

ClientStep(r) == \/ \E s \in Servers, p \in (Requests \ {r}) \cup {None} : Receive(r, s, p)
                 \/ Refuse(r) \/ Leave(r)

Next == \/ \E s \in Servers : ServerStep(s)
        \/ \E r \in Requests : HandlerStep(r) \/ TaskStep(r) \/ ClientStep(r)

Spec == Init /\ [][Next]_storeVars

\* Handlers and tasks are polled, and a drained process ends.  systemd starts a
\* server that died, without limit (Restart=on-failure,
\* StartLimitIntervalSec=0), but none that was stopped; and it is not killed
\* each time before it has repaired the table.
StoreFairness ==
    /\ \A r \in Requests : WF_storeVars(HandlerStep(r)) /\ WF_storeVars(TaskStep(r))
    /\ \A s \in Servers : /\ WF_storeVars(phase[s] = "off" /\ Acquire(s)) /\ WF_storeVars(Serve(s))
                          /\ WF_storeVars(Exit(s))
                          /\ \A r \in Requests : SF_storeVars(FailStale(s, r))

FairSpec == Spec /\ StoreFairness

-----------------------------------------------------------------------------
\* Every variable has its type; of all rows only completed ones carry a
\* snapshot, and those always do: partial output is never continued.
TypeOK ==
    /\ rows \in [Requests -> Rows]
    /\ owner \in Servers \cup {None}
    /\ phase \in [Servers -> {"off", "opening", "serving", "draining", "stopped"}]
    /\ stale \in [Servers -> SUBSET Requests]
    /\ busy \in [Servers -> BOOLEAN]
    /\ pc \in [Requests -> {"idle", "lookup", "start", "begin", "undo", "running",
                            "fallback", "reply", "done", "lost"}]
    /\ host \in [Requests -> Servers \cup {None}]
    /\ parent \in [Requests -> Requests \cup {None}]
    /\ said \in [Requests -> Outcomes]
    /\ gone \subseteq Requests
    /\ answer \in [Requests -> Told]

\* The table implements the life cycle a response is promised: opened once,
\* one response per key, and closed for good - across handlers that race,
\* refused updates, crashes and restarts.
Lifecycle == INSTANCE ResponseLifecycle
                 WITH Responses <- Requests, life <- [r \in Requests |-> rows[r].status]
KeepsLifecycle == Lifecycle!Spec

\* Two clients that used one key and were both told of success were given
\* the same response.
OneAnswerPerKey ==
    \A r, q \in Requests :
        /\ KeyOf[r] # None /\ KeyOf[r] = KeyOf[q]
        /\ answer[r].kind = "success" /\ answer[q].kind = "success"
        => answer[r].of = answer[q].of

\* What a client was told of as a success is stored as one for good, and it
\* answers the body the client sent.
SuccessIsDurable ==
    \A r \in Requests : answer[r].kind = "success" =>
        LET of == answer[r].of IN
        /\ Success(rows[of].status)
        /\ BodyOf[of] = BodyOf[r]

\* A process that answers requests has no row in progress but those of its
\* own tasks: "original request still running" is never said of a request
\* that died with an earlier process.
OpenRowsOwned ==
    \A s \in Servers, r \in Requests :
        phase[s] = "serving" /\ rows[r].status = "in_progress" => host[r] = s /\ pc[r] # "lost"

\* No other process closes the row of a request that is being served.
LiveRowKept ==
    \A r \in Requests :
        pc[r] = "running" /\ phase[host[r]] = "serving" => rows[r].status = "in_progress"

\* A response that was continued stays eligible: what a generation was built
\* upon is never lost or overwritten by a later restart.
ParentStays == \A r \in Requests : parent[r] # None => Eligible(parent[r])

\* Its task is done and has recorded nothing (both updates were refused), and
\* the process serves on.
Unrecorded(r) == pc[r] = "done" /\ phase[host[r]] = "serving"

\* A row in progress is closed in the end, by its task or by the repair of the
\* next server, whatever died in between.  Only two things leave it open: the
\* server is stopped and nobody ever starts it again (a stop exits with 0 or
\* by its own signal, and is not restarted), or its task could record nothing
\* and the process then serves for ever.
RowsClose ==
    \A r \in Requests :
        rows[r].status = "in_progress" ~>
            \/ rows[r].status \in Outcomes
            \/ [](\A s \in Servers : phase[s] = "stopped")
            \/ [](Unrecorded(r))

\* docs/manual-v1.md: the key replays the same request without generating it
\* again, so two requests with one key are never both given to the worker.
NeverGeneratedTwice ==
    \A r, q \in Requests :
        r # q /\ KeyOf[r] # None /\ KeyOf[r] = KeyOf[q] /\ Exists(r) => pc[q] # "begin"
=============================================================================
