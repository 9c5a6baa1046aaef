# Qwarz: a verification project in TLA+

Qwarz serves one language model on one GPU. A Rust server (`server/`) speaks
three HTTP dialects, keeps every response in SQLite and supervises one Python
child process; the child (`engine/forward/`, or `qwasar_runtime/` as the
rollback) owns the GPU, one resident cache and one generation at a time. The
modules here follow a request through all of it: from the client's messages to
the prompt, through the admission and the pipes to the threads of a worker,
through the turn and its parser back to the client's stream, and below that the
caches, the CUDA graphs, the draft model and the sampling that must not be
noticed. Around it stand the set-up of the venv, the scripts that configure
other programs and start the server, and the benchmark runner.

Paths in this file are relative to the root of the repository.

## 1. Inventory

| Part | State it keeps | Operations | Interacts through |
|---|---|---|---|
| Worker supervisor, `server/worker.rs` | `busy`, `pending`, `cancelled`, `status`, `stopping`, `resetting`, two `Notify`, the `reaped` epoch, the child | `spawn`, `start`, `cancel`, `reset`, `release`, `shutdown`, the loop of `run` | event channel of a request (256), child's stdin and stdout |
| Generation task, `server/service.rs` `generate` | forced failure, deadlines, terminal, what was streamed | admission, insert, event loop, commit, release, reply | supervisor, store, client stream (128), two one-shot channels |
| Response store, `server/store.rs` | tables `responses` and `images` | `open` (repair), `begin`, `finish`, `idempotent`, `parent`, `match_parent`, `get`, images | one mutex, SQLite in WAL mode |
| Server process, `service.rs` `serve`, `main.rs` | lock on the database file | start, graceful shutdown, exit | systemd restarts it on failure |
| Normalisation, `server/api.rs` | none | `prepare`, `normalize_messages`, `history_key`, ... | pure |
| Wire streams, `stream.rs`, `anthropic.rs` | open blocks, indices | `created`, `delta`, `finish` | pure, per request |
| Resident worker, `engine/forward/worker.py` | `active`, `_cancel`, `_pending_cancel`, job queue | reader thread, `push`, `note_cancel`, `request_stop` | supervisor by JSON lines, session |
| Chat turn, `engine/forward/chat.py` | stream of text pieces | `prepare_chat`, `run_turn`, `on_accepted` | session by callbacks |
| Resident session, `engine/forward/session.py`, `cycle.py` | tape, commit snapshot, prefix marks, draft | `generate`, `commit`, `cancel` | runner (recurrent state, pages), draft cache |
| Runner, `engine/forward/resident.py`, `token.py`, `projections.py` | recurrent states, stash, pages, recorded graphs | `forward`, `rewind`, `capture`, `restore`, `reset` | CUDA graphs over fixed addresses |
| Draft, `engine/forward/draft.py`, `cycle.py` | store of rows, carry, roll graphs | `ingest`, `roll`, `repair`, `truncate` | the target's hidden rows |
| Sampling, `engine/forward/sample.py` | none | `sample_window`, `speculative_window` | rows of logits, proposals |
| Vision, `qwasar_runtime/vision.py`, `engine/forward/vision*.py` | LRU of embeddings, next id | `embed`, `canonical_tape`, `mix_rows` | prompts and tapes by ids |
| Rendering, `qwasar_runtime/rendering.py` | none | `render` puts stored segments in place of messages | parent snapshot chosen by the store |
| Parsing, `qwasar_runtime/parsing.py` | `StreamParser`'s buffer and channel | `feed`, `finish`, `validate_messages` | pure |
| Rollback worker, `qwasar_runtime/engine.py`, `worker.py` | `active`, cache, jobs | reader thread, `generate` | supervisor, ExLlamaV3's generator |
| Attention adapter, `qwasar_runtime/xqa.py` | layer states, graphs, scratch, one prims plan | append and attend, prefill | cache tensors of the generator |
| Draft walk and rendezvous, `draft_graph.py`, `rendezvous.py` | graphs, staged block table, stash of sampled tokens | `run`, `_maybe_stash`, `_receive_logits` | patched into the generator |
| Set-up, `scripts/bootstrap_runtime.py` | the venv | `install`, `check` | git, pip, patch |
| Configuration, `scripts/configure_*.py` | other programs' settings | read, decide, backup, replace | files the user edits |
| Start and stop, `scripts/qwasar.py` | record of the process, lock | `serve`, `start`, `stop` | process table, port, systemd |
| Benchmark runner, `qwasar_bench/` | conversations, counters, samples | manifest, requests, publication | the server's HTTP interface |

What is hard here: two tasks and a child race for one admission; the supervisor
may kill and reap the child at any point of a request; channels and pipes are
bounded; a client may leave, be slow or cancel at any time; SQLite may refuse a
statement; the process may be killed between two statements, or overlap with
its successor; a client's resent conversation is ambiguous by nature; text is
cut into pieces anywhere; the resident cache is rewound piece by piece in an
order that must keep five structures in agreement; a recorded graph repeats
kernels at addresses of the past and none of the Python beside them; and
scripts may be killed between any two files. `PROJECT.json` lists these hazards
line by line.

What makes each part correct, in short:

* supervisor and task: one generation at a time; the admission returns exactly
  when no child can work for its holder; no event crosses from one request to
  another; every request ends; success means complete text and a commit;
* workers: one generation at a time, started, told and ended once; a cancel
  stops the generation it names and nothing else; the end of the pipe ends the
  process after every answer;
* turn, parser and streams: what was streamed is what is stored, the status is
  true, and every dialect's client puts the same message together;
* store: a response is opened once, one response per key, closed for good; after
  a restart nothing of the former process stays open; a success is durable;
* history: a conversation continues what it grew from, with its own tokens;
* session, runner, draft, attention: a generation depends on its own prompt and
  output and on nothing that was cached, recorded, restored or cancelled before;
* sampling: speculation does not change the distribution;
* pictures: an id never stands for two pictures;
* around it: nothing of the user's is lost, one managed server, a benchmark's
  samples measure what its manifest says.

## 2. Modules

| Module | Models | Depends on |
|---|---|---|
| `Supervisor` | `Worker`: `run`, `start`'s dispatch task, `cancel`, `reset`, `release`, `shutdown`; the child as environment | |
| `Generation` | `generate` from admission to answer, with its client | `Supervisor` |
| `ResponseLifecycle` | abstract promise of the store | |
| `ResponseStore` | the `responses` table, `serve`, restarts | `ResponseLifecycle` by refinement |
| `ChildProtocol` | abstract promise of a worker: what the lines of one process may be | |
| `ChildPipe` | the pipes, queue and job that both workers have | `ChildProtocol` by refinement |
| `ResidentWorker`, `RollbackWorker` | the two threads of each worker | `ChildPipe` |
| `StreamParser`, `WireStreams` | pure: the text parser, the three dialects' events | |
| `AnswerTurn` | what the turns of both engines share, with the streams of the server | `StreamParser`, `WireStreams` |
| `ResidentTurn`, `RollbackTurn` | `run_turn`; `Engine.generate` | `AnswerTurn` |
| `Messages` | from the client's messages to the worker's check | |
| `ToolCalls` | reading of call lists, values and their coercion | |
| `HistoryMatch` | `history_key`, `match_parent`, `render` | |
| `ResidentSession` | `Session.generate`, `prefill_held`, the windows, `_apply_inject`, `cancel`, the marks | |
| `RunnerGraphs` | `ModelRunner` and the recurrent state, eager and recorded | |
| `DraftCache` | `MTPDraft` driven by `DraftCycle` | |
| `XqaGraphs` | the attention adapter: decode graphs, both prefill paths | |
| `DraftWalk` | draft graph and rendezvous | |
| `Sampling` | `_target_rows`, `speculative_window`, `sample_window`, the drafts | |
| `Pictures` | embedding cache, ids, rows and reuse of tapes | |
| `Bootstrap` | `install` and `check` | |
| `Settings` | the eight `configure_*.py` | |
| `ServerScript` | `qwasar.py` with the processes it starts | |
| `BenchRun` | `run_manifest` with both clients and the server's stream | |
| `GenerationProofs`, `StoreProofs`, `WorkerProofs`, `SessionProofs`, `PromptProofs`, `TurnProofs`, `ScriptProofs` | proofs, a module for every family of components | the modules they are about |
| `OrderLemmas` | least and greatest members of sets of naturals, cited by several proofs | |
| `MC...` | constants of the runs; `MCParts` instantiates every part that shares nothing with another | |

Definitions named `...` with a "Mutant:" comment are plausible wrong versions of
the definition that follows them; they are used nowhere in a specification and
serve to see that each property can fail.

### Supervisor and Generation

One action is the code between two awaits (or between two operations on shared
state, where handlers run in parallel on several threads). `runpc` is the place
of `Worker::run`: `top` (213), `reading` (249), `line` (256-279), `send`
(280-287), `reap` (289-291), `reaped`/`announced`/`notify` (292-303), `backoff`
and `sleeping` (306-314), `ended` (316). `task[r]` is the place of `generate`
for request `r`; `dispatch[r]` the place of the task that `start` spawns (151).
`rst` and `woken` are the callers inside `reset` and those whose watch channel
saw a new epoch, so that a subscription made after a reap does not see that
reap. `changed` and `restart` are the stored permits of the two `Notify`.
`chan[r]` and `stdout` are bounded queues of event records; an event's text is a
count of pieces.

Decisions a reader should know:

* Time is not modelled. A `sleep`, a `timeout` or a deadline may expire whenever
  somebody waits for it; `biased` selects are kept as guards where they decide.
* The child is the environment: it takes commands in order, may announce, emit
  up to `MaxDeltas` pieces, end a request with any status in `Answers`, write a
  line outside the protocol, or die, at any point. What a `cancel` command does
  to it is covered by these choices, so the command itself is not kept. A Python
  exception other than those `push` catches ends the process (worker.py:517).
* `recv()` yielding `None` (service.rs:315-321) is not an action: the run `pair`
  and the theorem `AdmissionKept` show that the sender lives as long as the task.
* tokio's mutex is fair, so `run` takes the writer back only after the writes
  that are queued on it (292). The task that `start` spawns is taken to be polled
  by then, too: a first poll that the runtime puts off past a whole reap (a write
  to the next child, or a reset asked for after the announcement) is not explored.
* The terminal that releases a request is asked for its status only; that a
  successful one carries no error as well (service.rs:401) is left out, and no
  property depends on it.
* `incomplete` is a success for the client, as in 493-499.
* `abandon` stands for a receiver that is dropped before the task exists, as
  `server/tests/worker_lifecycle.rs` does; a user cancels a request once.

### ResponseStore and ResponseLifecycle

Each SQL statement is one action (autocommit, `synchronous=FULL`). A process has
phases `off`, `opening` (lock taken, repair running), `serving`, `draining`
(shutdown finished, lock dropped, tasks of clients that left still running) and
`stopped`. A process that died is `off` and is started by systemd; one that was
told to stop exits with 0, or is killed by the stop when that takes too long
(`TimeoutStopSec`, the ten seconds of `qwasar.py stop`), and is `stopped`:
`Restart=on-failure` leaves it alone, and only its user may start it again.
Handlers of two servers interleave; `Halt` ends a process with all its handlers.
`rows[r]` carries the status and whether a snapshot is present. The generation
between `Begin` and `Finish` may end with any status, with or without snapshot.

### The workers

`ChildPipe` has what both processes share: command lines written by the server
and not yet read, the closed pipe, what was said of each generation, the queue
between the reader thread and the main thread, and the job at work. An action is
what a thread does under one lock or between two operations that the other
thread can see. `ResidentWorker`'s reader handles `cancel` and `shutdown` itself
and queues generations without a limit; `RollbackWorker`'s reader admits one
generation, answers every other one with 409 itself, and puts into a queue of
one. Both are shown to implement `ChildProtocol`, which says what the server may
rely on: per generation a `started`, deltas, one terminal and nothing after it,
and one generation at a time.

* Response ids are fresh uuids and asked for once.
* Of the resident worker's `push` the chat path is modelled; raw `ids` requests
  are made by the acceptance matrix only.
* An exception that ends the process is not an action here: it belongs to
  `Supervisor` as `ChildDie`.

### Turns, parser and streams

`AnswerTurn` has the request, the tokens produced, the parser, what was
published, the streams of the three dialects with the clients that read them,
and the final message. `ResidentTurn` adds the windows of `continue_drafted`
and the incremental decoding with its anchor; `RollbackTurn` adds the
generator's job, whose text it holds back itself, and the restart of the job at
a close. A token's text is a short sequence of glyphs; the small vocabularies
contain tokens that end inside a character, the beginning of a marker, tags, the
close and the stop token, so every cut that matters happens. Three differences
between the engines are kept as they are, since nothing promises otherwise: a
required tool call that was not made ends `incomplete` with `missing_tool_call`
in the resident engine and `failed` with `generation_failed` in the rollback
engine (`engine.py` 285-317); a character that is held back when the reasoning
is closed is told after the close by the resident engine and lost by the other;
and the injected close may pass `max_tokens` in the resident engine.

### Messages, ToolCalls and HistoryMatch

`Messages` builds requests from parts (text, Droid's captions, pictures, calls
and results) in each dialect and runs the converters, `normalize_messages`,
`attach_missing_tool_calls`, `cap_images` and both checks. `RelayedWhole` is
about histories in which nothing but Droid's pictures stands between a call and
its results: with a system message after a pictured result the server accepts
what the worker refuses. `cap_images` counts a picture that comes twice by its
first place (`api.rs:480`). `ToolCalls` writes calls as the template does, with
values that may quote tags, JSON that may be slipped, and reads them with the
backtracking of `_parse_parameters`; unions of types and the formats of schemas
are left out.

Clients keep their conversation, resend it with or without reasoning, ask, drop
their last turn, and happen to use the same words. A stored row has the
messages, the tape and the segments of a completed response. An answer's tokens
are identified with its text and its reasoning, and a segment with the answer
it was made for, so "the prompt has the tokens of another answer" is visible as
a segment in a place where another answer stood. A generation that ends
`incomplete` leaves no row.

### ResidentSession

Device data are represented by the tokens they were computed from: `state` (the
recurrent state), each row of `pages`, and the draft's carry are sequences of
tokens, so "is this state the state of that prefix" is an equation. `cursor` and
`committed` equal the length of the tape whenever `generate` is called;
`Session.prefill` and `Session.turn`, which would break this, are called by the
tests and the acceptance matrix only. The two ways to rewind a window (the
single-pass rewind, and restore and replay) have the same effect and are one
action; so are drafts that were rolled and drafts copied from the prompt. The
cancel flag is seen between windows (374, 447, 459). A `RuntimeError` of the
consistency checks ends the process and belongs to `Supervisor` (`ChildDie`);
that those checks never fire is what `DraftInStep` and `RestsOnTape` say.
Any turn may be cancelled, at any window. A cancelled turn leaves the marks that
its prefill took beyond the commit, and one of them may be restored under the
tokens of another prompt (see `session_stale`). Two history variables, which no
step reads, say exactly when that has happened: `left` has the positions of the
marks left so, and `misled` is set when one of them is restored for a prompt
whose tokens it was not computed from, until the session is emptied. `StateOfTurn`
is the property as one would want it and is violated; `OwnState`, `RestsOnTape`
and `DraftInStep` say that there is no other way to go wrong: they hold while
`~misled`, for sessions in which any number of turns was cancelled, with stale
marks lying about, dropped, or restored under the very tokens they are of. The
bound on the number of marks has no exception.

### RunnerGraphs, DraftCache, XqaGraphs, DraftWalk

What is computed from tokens is represented by those tokens, and a recorded
graph by the addresses it was recorded with; a replay does what the kernels do
at those addresses and skips the Python beside them.

* `RunnerGraphs` runs every forward twice: on `device` as the code does, and on
  `shadow` as if everything were eager. `GraphsTransparent` compares them.
* `DraftCache` keeps a row per token of the target; rows hold the token they
  were made of and whether their hidden row was the right one.
* `XqaGraphs` has one layer; layers share the scratch, and the prims plan, which
  is keyed by lengths and therefore good for all of them. `truth` is the cache
  if each call had appended by itself. A prefill that another graph recorded
  keeps its scratch pinned. Two things are taken as they are meant: the number of
  rows the host knows (`_known_total`) is the one in `cache_seqlens`, and the
  limit of 256 layer states is above what one runner needs, so that no state is
  dropped which a graph of the runner itself still launches (`xqa.py:282`).
* `DraftWalk` takes the generator (pages, forwards, acceptance) as external. Of
  the eager walk only the table it runs over is kept. What keeps a job out of
  the sampled window is its penalties or what it `asks` besides a token
  (probabilities, a mask, healing); rejection sampling in the verify is off.

### Sampling

A state holds not one outcome but the probability of every outcome: `mass` maps
each window to its share of `Whole`, and a step multiplies and divides exactly.
So `TargetLaw` (sample.py:159, "the output keeps the target law") is an
equation between two exact distributions. Rows of logits are small weights;
temperature and the exponential are taken as done. Ties, zero weights, top-k,
top-p, padded rows of the output head, a hot head that knows some tokens only,
and copied drafts are among the inputs.

### Pictures

A prompt is a sequence of texts and pictures; each picture is embedded once and
stands in the prompt as ids of this process, which the LRU may forget and give
anew. `OwnPictures` says that the rows at each place are of that place's
picture, whether computed now or reused from a tape, and that the tape stored by
the server has the form every later prompt will have. Ids begin again at a
restart of the process. The rollback engine skips the check of a picture's data
on a cache hit, the resident engine always decodes; neither changes the ids.

### Bootstrap, Settings, ServerScript, BenchRun

* `Bootstrap` cuts an install anywhere. `ReadyIsPatched` leaves out the crash
  between the patch and the removal of the old build (`cutShort`), after which
  `check` is content with an extension that was built before the patch. (On
  another path `bootstrap_runtime.py:202` names `FLASHINFER_COMMIT`, which is
  not imported.)
* `Settings`: a file is a sequence of what the decisions tell apart. All eight
  scripts write with the same steps: read, decide, backup, temporary file,
  replace; codex's three files are written one after the other. The user may
  edit at any time, and an edit between the read and the replace is lost. Droid
  and Codex fold a second entry under our name into one, also if it is somebody
  else's. Droid's `index` is left out, and so is an indented
  `model_catalog_json` line. Two files are replaced as a whole: Claude's
  environment, which is ours, and a Codex profile that chooses neither a provider
  nor a model; what stood in them is kept in the backup only.
* `ServerScript` is the script next to a systemd unit that runs its `serve` and
  to foreign servers, over a table of processes. A number is not given again
  within one look at a process (the check and the call behind it); the next
  process takes the smallest free number, and calls of the script are made in
  order, once each. A server that was killed leaves its worker holding
  `server.lock`, so the next `serve` refuses; a start that is cut between
  `Popen` and the record leaves a server nobody manages (`scriptCut`). Status,
  logs, and the database lock of the server, which the port already implies,
  are left out.
* `BenchRun` reads a manifest with its profiles, asks its cases through either
  client, and publishes. Another client of the server may be served at any time
  (`others`); a sample during which this happened is marked (`disturbed`) and its
  usage is not claimed, since the counters are the server's. The Responses
  client accepts `response.completed` only. A run may end as an error although
  its directory was published (the fsync after the rename). A restart of the
  server between two reads of its counters, the parsing of keys and numbers and
  `compare.py` are left out.

## 3. Runs

| Run | Question | Result |
|---|---|---|
| `pair` | two requests, dying children, failing inserts: `ExclusiveGpu`, `NoStaleEvent`, `AdmissionHeld` | holds |
| `stream` | one streamed request, slow or leaving client, user cancel, failing update, a child that breaks the protocol: `TypeOK`, `NoTruncatedSuccess`, `NoOrphanRow` | holds |
| `live` | one request, abandoned receivers, failing inserts, shutdown: `BusyReleased`, `EveryRequestEnds`, `StopEnds` under fairness | holds |
| `store_keys` | three requests with one key, two processes, every accident: what clients were told stays true of the table | holds |
| `store_live` | crashes, stops, refused statements and restarts of one process: the table implements `ResponseLifecycle`, and an open row is closed in the end, unless the server stays stopped or serves on for ever after both updates were refused | holds |
| `store_once` | a key is never generated twice (manual) | violated |
| `history_cut` | own tokens after a turn that was cut short | violated |
| `session_marks` | prefix marks, eviction, full restarts and any turn cancelled at any window: `OwnState`, `RestsOnTape`, `DraftInStep` | holds |
| `session_stale` | `StateOfTurn`, the first of them without its exception | violated |
| `session_held` | a prompt always leaves a token to hold | violated |
| `parts` | one property for each of eighteen parts, see below | holds |
| `runner_past` | a forward starts at the cursor | violated |

`parts` explores parts that share neither state nor threads: the first state
says which part it is, and the variables of the others stay as they are. It has
about 365 000 states.

| Part | Property | What it says |
|---|---|---|
| resident | `CancelExact` | a cancel stops the generation it names, however early it comes, and no other |
| both workers | `ExitAnswersAll`, `KeepsProtocol`, `EofEnds` | all answers before the exit; the lines implement `ChildProtocol`; the end of the pipe ends the process |
| rollback | `QueueHasRoom` | the reader never finds its queue full |
| both turns | `AnswerExact` | the message is the split of the whole text, however its tokens came |
| both turns | `ClientsAgree` | the deltas are that message; in every dialect the client rebuilds it, from blocks opened once, in order, and closed; the status is true |
| history | `HistoryHolds` | a conversation continues itself, with its own tokens; a client that keeps the reasoning is served |
| messages | `RelayedWhole` | the worker accepts what the server accepts; the newest pictures, in order |
| calls | `CallsReadBack` | calls written as the template writes them are read again |
| runner | `GraphsTransparent` | recorded graphs are never noticed |
| draft | `RowsFollowTarget` | the draft has the right row for every token of the target |
| xqa, prefill | `AppendedOnce` | each row is appended once, to the live cache, and read |
| walk | `OwnWindow` | the walk runs over the job's own pages; each position gets its own token |
| bootstrap | `ReadyIsPatched` | what `check` calls ready was built from the patched source |
| sampling | `TargetLaw` | speculation keeps the law of the target |
| pictures | `OwnPictures` | each place shows its own picture |
| settings | `SettingsKept` | nothing of the user's is lost; a second run changes nothing |
| bench | `BenchFaithful` | published samples measure what the manifest says |
| script | `OneManaged` | one server with one worker; the script reports and signals its own only |

Bounds and why they suffice. `ExclusiveGpu`, `NoStaleEvent` and `AdmissionHeld`
are about the hand-over from one request to the next, so two requests (a
symmetric set) and capacities of one, which make every channel fill, reach all
of it; the theorems below cover any number. `stream` needs two pieces of text
and a client buffer of one, so that a frame can be lost after a frame was read.
`live` needs no second request: what it could wait for is the admission, and
that this comes back is `BusyReleased`; both promises end with a shutdown (see
the hazard at `worker.rs:194`). The store needs three requests on one key to
have a replay, a loser and a continued parent, and two processes to overlap;
again the theorems cover any number. In `ResidentSession` pages and chunks of
two tokens, prompts of up to five and three marks reach eviction (at most two
page cuts and the chunk ends are marked); answers of one token with a close of
one suffice for an overshoot. Eviction needs a fourth place for a mark and
therefore five tokens; behind a turn that left marks beyond its commit only what
comes of prompts of up to four tokens is explored, and nothing behind a mark that
misled, where the properties have nothing to say (`CONSTRAINT Explored`). The
theorems of `SessionProofs` have no such bound.

In `parts`:

* workers: two ids, `MaxCancels = 2` and `MaxWindows = 1` let a cancel overtake
  its generation while another one is at work; the theorems cover any number;
* turns: `MaxNew = 3` tokens of two vocabularies, with and without a budget of
  two (`Caps`), hold every cut of a character, a marker and a close at the limit;
* history: `Clients` of which one drops the reasoning, `MaxTurns = 3` and
  `MaxRows = 3` suffice for a look-alike row, an edit and a longer match;
* requests: `MaxMessages = 4` with two pictures and `MaxImages = 1`;
  `MaxCalls`, `MaxArguments` and `MaxGlyphs` of two hold a value that quotes a
  close and a second parameter behind it;
* graphs: `RunnerRows = 6` with `Width = 2`, `Stash = 3`, `Heads = ColdRows = 4`
  and pages of four have every kind of forward, bucket and capture;
  `Capacity = 7` and `Steps = 3` for the draft; two cache pages, `MaxStates = 1`
  (an eviction at every change of layout), `Warmups = 2`, `PrefillRows = 2`,
  `PrimsRows = 2`, `PrimsQuery = 3` and `MaxEpoch = 1` rebuilt cache whose `id`
  may come again; tables of up to three pages in buckets of two and
  `MaxWidth = 3` for the walk, which a theorem covers at any size;
* sampling: three tokens, a head of two, windows of `WindowSteps = 2`, nine pairs
  of laws and five samplers; `Shares = 12` and `Whole = 95800320` make every
  division exact;
* pictures: two of different size, `LruEntries = 1`, so that each embedding
  evicts the other, `PromptParts = 2`, `MaxTapes = 1`, ids up to `LastId = 15`;
* settings: files of at most `MaxLength = 2` entries and `MaxEdits = 1` edit;
* bench: fifteen files, some to be run and the others each to be refused for a
  reason of its own, conversations of `MaxHistories = 1`, `MaxOthers = 1`;
* script: two numbers, two calls and `MaxStarts = 3` processes: a record, a
  number given again and an orphaned worker; `ManagesOne` covers any number.

Deadlock is checked except where the system may really stop: after a shutdown
(`live`), when all requests of the instance were served (`store_...`), when
the clients have used up their turns (`history_cut`), and in `parts`, where most
parts come to an end.

### What is violated

* `store_once`: look-up, dispatch and insertion of an idempotency key are three
  steps (`service.rs` 195, 237, 253). The loser is told `storage_error` and its
  generation is reset, but it was started, against manual-v1.md:191. That both
  clients are never given different answers is `OneAnswerPerKey`, which holds.
* `history_cut`: a segment is matched by the visible text of its message only.
* `session_stale`: `Session.cancel` leaves the marks beyond the commit, and a
  marked position is never captured again. The Python class behaves in this way
  when it is driven through the steps of the trace with a recording runner.
* `session_held`: the tape may equal the next prompt; `limit=len(ids)-1` is not
  applied on the path that keeps the tape.
* `runner_past`: `gdn_forward` runs the chunk kernel, which starts from nothing,
  for every span of 48 rows or more while `state.ready` is unset
  (`projections.py:250`), and only that kernel and the replay of the cold prefill
  set it. After a first span of fewer than 48 tokens the flag is still unset, so
  the next long span loses what came before. `ResidentSession` takes the forward
  as it is meant, so its properties assume that this does not happen.

Limits that no document denies are left as limits of what is claimed. Between
the SELECT and the UPDATE of `Store::open`, a task that outlived its process's
lock may complete its row, and the UPDATE by id overwrites it: so the life cycle
is checked with one process at a time (`store_live`) and proved without draining
processes (`LifecycleKept`), while the answers given to clients do not depend on
it (`store_keys` has both). The history key leaves the system prompt out while
the comparison of tapes does not, so `HistoryHolds` is about clients that share
one system prompt. And with drafts copied from the prompt the draft's carry may
lie in a buffer that the next verify overwrites (`cycle.py:72`): the row is
wrong and costs acceptance only, and `RowsFollowTarget` leaves out exactly it.

### Fairness

`Generation.Fairness`: tokio polls every task that can move (weak fairness for
`run`, for each request's task, dispatch and reset), and timers expire. Spawning
the child is strongly fair: a back-off may end in either of two ways but not for
ever in the same. Nothing is assumed of the child, of clients or of users.
`ResponseStore.StoreFairness`: handlers and tasks are polled, and a drained
process ends. systemd starts a server that died (`Restart=on-failure`,
`StartLimitIntervalSec=0` in `integrations/systemd`): weak fairness of `Acquire`
from `off` only. Nobody is assumed to start one that was stopped, so `RowsClose`
says of a row in progress that it is closed, or the server stays stopped for
ever, or the row's task is done, both its updates were refused, and the process
serves on without a restart that could repair it. The process is not killed
every single time before it has repaired a row (strong fairness of `FailStale`).
`MCParts.Spec`: the
reader thread and the main thread of each worker are scheduled by the operating
system (weak fairness of each); nothing is assumed of the server that writes to
them. The other parts have no liveness properties: their calls are sequential,
or (`script`) promise nothing of the kind.

## 4. Proofs

All proofs are checked by TLAPS for every value of the constants that satisfies
the named assumptions, which TLC evaluates on every run that has those modules:
`SupervisorAssumption`, `GenerationAssumption` and `NoneAssumption` (`None` is
neither a code nor a frame), `StoreAssumption`, `PipeAssumption`, `TurnAssumption`,
`SpanAssumption`, `SessionAssumption`, `HistoryAssumption`, `WalkAssumption`, `DraftAssumption`,
`RunnerAssumption`, `XqaAssumption`, `PhotosAssumption`, `SettingsAssumption` and
`ScriptAssumption`. They say that sizes
are naturals, that model values are not members of the sets they stand apart
from, and what the engine's own constants satisfy (a page fits a chunk, a stash
is at least as wide as a window, and so on). Some theorems have a hypothesis of
their own, which a run shows to be needed or which the system's deployment
gives; they are marked below.

**Generation** (`GenerationProofs`)

* `TypeCorrect`: `Spec => []TypeOK`.
* `GpuExclusive`, `AdmissionKept`. Neither property is inductive: that a child no
  longer works for a request is known to the code only by evidence, a terminal
  event, a reap that a `reset` waited for, or a lost child. The invariant `IInv`
  therefore says of every place where such evidence may be (`OverInv` for tasks
  and resets, `PipeInv`, `LineInv` and `ChanInv` for a terminal in the pipe, in
  the hands of `run` and in a channel) that the work is `Over`, a condition which
  no step undoes; and it ties `busy`, `pending` and the tasks together
  (`AdmissionInv`, `DispatchInv`, `ChildInv`). `InvNext` has one lemma per group
  of actions.
* `EventsAreCurrent`, `RowsAreClosed`, `SuccessIsWhole` (the properties
  `NoStaleEvent`, `NoOrphanRow`, `NoTruncatedSuccess`). `DeliveryInv` stands on
  `IInv`. `CurrentInv`: whatever is in the pipe or in the hands of `run` belongs
  to the pending request. `QuietInv`: a request whose end is known, or whose line
  was not yet written, has nothing there. So the pieces of a request can be
  counted (`CountInv`): what its client has, its stream, its channel, `run` and
  the pipe hold are together the pieces the child has sent, and a terminal
  carries that number. `OrderInv` and `FrameInv` keep a terminal last in its
  channel and an end last in its stream; `RowInv` and `ToldInv` tie the row to
  the terminal and the answer to the row.

**Response store** (`StoreProofs`)

* `StoreTyped`, `OneAnswer`, `Durable`, `OpenOwned`, `LiveKept` and `ParentKept`
  prove the six invariants of `store_keys`, for any requests, keys, bodies,
  processes and accidents. The invariant `IInv` rests on who may write to the
  table when: a process repairs or serves only while it is the owner of the lock
  (`LockInv`); handlers live in a process that serves, and in a draining one only
  tasks of clients that left (`HostInv`). Hence nobody repairs while anybody is
  answered, what is answered or continued is closed and was not selected for
  repair (`AnswerInv`, `ParentInv`), and rows and tasks agree (`RowInv`,
  `OpenInv`, `KeyInv`).
* `LifecycleKept` is the refinement: `ResponseStore!Spec` implements
  `ResponseLifecycle!Spec` when no process drains (a hypothesis: see the limits
  in section 3). It adds `RepairInv`: what is selected for repair stays in
  progress until its UPDATE.

**Workers** (`WorkerProofs`, first part)

* `PipeInv` is about what both workers share and says where a generation can be:
  in the pipe (`InPipe`), in the queue (`InQueue`) or at the main thread
  (`AtMain`), in one of them only (`Placed`), and that what was said of it fits
  its place. Lemmas state that each kind of step keeps it and is a step of
  `ChildProtocol` or a stutter.
* `CancelIsExact`, `ResidentAnswers` and `ResidentKeepsProtocol`, for any ids,
  cancels and windows: `WorkerInv` adds where the last cancel is (event, slot, or
  its generation over) and whose the event is.
* `RoomInQueue`, `RollbackAnswers` and `RollbackKeepsProtocol`: `RollbackInv` adds
  that what is queued or at work is still in `active`, which is why `put_nowait`
  always has room.

**Turns** (`TurnProofs`)

* `ResidentClientsAgree` and `RollbackClientsAgree` (`ClientsAgree`), for any
  vocabularies, caps, `MaxNew` and `Span`. `ClientsAgree` only speaks of a turn
  that is done. The invariants behind it, `ResidentTurnInv` and
  `RollbackTurnInv`, say of every step that what was published is what the
  parser has of the message (`InStep`): `Hearing(R, C)` is a closed form of the
  three streams, their clients and the deltas once the text R was heard as
  reasoning and then C as content. `ResidentWindows` and `RollbackJobs` add where
  the limit and the end token are, from which the status is true (`Honest`).
* A closed form is enough because of two facts. A parser tells all its reasoning
  before any content (`ReasonsFirst`, and of the pieces of one `feed` too), so a
  piece only ever extends R while C is empty, or C. And what is held back (the
  start of a marker, white space before a call, half a character) is in
  `pending`, `leading` or the undecoded tail, all of which the final message has
  and `Tails` publishes (`MessageHeard`).
* The folds (`Heard` over pieces, `Visible` and `Decode` over tokens, `HearAll`
  over a batch) are recursive functions (`FoldIs`, `FoldKeeps`). What each step
  of a fold keeps, its last value has: shown at the least index where it would
  fail, as in the other modules.
* Of the end of the streams it is shown that the blocks of text are closed, that
  none is written again (`ResponsesShut`, `AnthropicShut`) and that a call comes
  whole behind them (`CallWhole`), whichever of the three a message has; every
  client then has the message's blocks in order (`WiresEnd`).
* `ResidentAnswerExact` and `RollbackAnswerExact` (`AnswerExact`), for the same
  constants. The invariants `ResidentExact` and `RollbackExact` say where the
  parser is against the text of all tokens, in two parts.
  `Split(p, X)`: the parser p has split the text X it was fed. It is at one of
  three places (`Thinks`, `Talks`, `InCall`), each with the marker that is sought
  (`Sought`: no place of it begins in what was said) and with what is held back
  for it (`Waits`). `feed` keeps this for any piece (`FeedSplits`), from one lemma
  for each way a pass can go, and the message of such a parser is `WholeMessage`
  of X (`MessageSplits`).
  `Ahead(V, ids, fed, X)`: of the text of the tokens V, X was fed; since the last
  anchor these were `ids`, with `fed` of their text, and both texts have the same
  rest. The rest is empty or ends in a replacement, so a close that is injected
  where it is not empty cuts a character (`CutOrSound`): the one exception
  `AnswerExact` makes.
* The two meet in `Follows` and, at the end of the tokens, in `HasAll`. The steps
  of the code are lemmas about them: a push (`PushFollows`), the flush
  (`FlushFollows`), the injected close (`FollowsShut`, `AllShut`), an event of a
  batch (`HearFollows`).

**Resident session** (`SessionProofs`)

* `TurnsAreOwn` (`OwnState`), `TapeIsHeld` (`RestsOnTape`) and `DraftIsInStep`
  (`DraftInStep`), for any tokens, prompts, cut points, sizes and pool of marks,
  from one invariant `SessionInv` about the present: the tape between turns, and
  in a turn as much of its prompt and output as was read. `Standing`: state, pages
  and draft are those of the present, which begins with the tape. `MarksPresent`:
  every mark that no cancelled turn left is of a prefix of it, which is what the
  dropping of marks at every rewind is for. `Committed`: what a cancelled turn
  returns to is the tape. `MarksFit`: there are no more marks than the pool has.
* No hypothesis beyond `SessionAssumption`: any turn may be cancelled. What the
  three say is conditioned by `~misled` (but for the bound on the marks), and so
  is the invariant (`Clean`): a mark that is not in `left` is of a prefix of the
  present (`MarksPresent`); of one in `left` nothing is known but its place, and
  restoring it sets `misled` unless its tokens are those of the tape. That
  `misled` can be set is the finding of section 3 (`session_stale`).

**Histories and pictures** (`PromptProofs`)

* `HistoryIsOwn` (`HistoryHolds`), for any clients, questions, answers, thoughts
  and numbers of turns. The invariant `HistoryInv` names, for every stored row,
  the conversation it really grew from and what its client showed of it
  (`RowsAreWhole`), finds a row for every turn of every client (`OwnRows`) and
  says what a request under way was given (`Asked`). A closed form of `Render`
  says where each segment is put; with it, equal keys give tapes that differ in
  nothing but thoughts.
* Hypotheses: every turn is stored (`Endings = {"completed"}`; `history_cut` is
  the other case) and the clients share one system prompt, which the history key
  leaves out.
* `PicturesAreOwn` (`OwnPictures`), for any pictures, numbers of patches, sizes of
  the cache, prompts and tapes. Nothing in the state says to whom an id that is
  no longer in the cache was given, so the invariant says that an *owner map*
  exists, from the ids given out so far to a picture and a patch (`PicturesInv`):
  every record of the cache and every cell of every tape agrees with it, and no
  id is at or above `nextId`. A new record extends the map, an eviction leaves it
  alone, and a tape that agrees with a prompt id by id therefore has its rows.
  `PhotosAssumption`: a picture has a patch or more and the cache has a size.

**Graphs and caches of the engines** (`WorkerProofs`, second part)

* `WindowIsOwn`, for any tables, buckets, addresses and widths: the staged table
  is the last one uploaded, and a stash which is not of the last forward has been
  dropped (`WalkInv`).
* `DraftFollows` (`RowsFollowTarget`): `DraftInv` says of every row below
  `position` of which token and hidden row it was made, in the store and in its
  FP8 shadow, and that a mark lies behind `position`; a recorded roll is replayed
  only on the address it was recorded with.
* `GraphsUnnoticed` (`GraphsTransparent`): `RunnerInv` says that the device
  is where a shadow is that ran every forward eagerly, even in what is not read
  again, and that a slot which was captured writes to the stash that is there;
  the lemma `BucketReaches` is that a bucket has every page its verify may read.
* `RowsAppendedOnce` (`AppendedOnce`), for decode graphs and both prefill paths.
  `XqaInv`: the pages are those of the history in which every call appends by
  itself; the scratch that a graph recorded is held (`ScratchInv`); a plan is for
  the total it is kept under (`PrimsInv`). Nothing need be known of the graphs
  that are kept, since a graph is matched against the live cache by the call that
  replays it.

**Set-up and scripts** (`ScriptProofs`)

* `VenvIsPatched` (`ReadyIsPatched`), for any number of interrupted installs:
  `BootInv` says that a build beside the patched source is the build of it or
  gone, but while the old one is about to be unlinked; that one cut is the case
  which `ReadyIsPatched` leaves out.
* `ManagesOne` (`OneManaged`), for any number of processes, commands, kills and
  reuses of process numbers. `ScriptInv`: the server's lock is held by a server
  or a worker that inherited it (`LockHeld`, `Families`); a number that a command
  has just recognised by its start time is not yet reused or belongs to nobody
  (`Recognised`); one start is under way while the lifecycle lock is held
  (`OneStart`); and every start is on record (`Recorded`).
* `SettingsAreKept` (`SettingsKept`), for files, edits and kills of any number.
  Two facts about each of the nine decisions, for documents of any length: it
  keeps every foreign item, in its order, and of what it has written it makes
  nothing new (a second decision keeps). `SettingsInv` carries them through the
  steps: what a run is about to write is the decision on the file as it read it,
  the old content is in a backup before the replace (`AtWork`), and the files
  before the one at work are settled (`SettledBefore`), unless the user edited.
  `SettingsAssumption`: no content of a file is like no file at all.

`OrderLemmas` has the facts these proofs share about the least and the greatest
member of a set of naturals; that a least one exists is what takes the place of
induction.

**Only model-checked.** `RelayedWhole` and `CallsReadBack` compute over messages
and text by folds or RECURSIVE operators, and `TargetLaw` sums over all outcomes
of a window: what they return for every input needs induction over data with an
operator as parameter, which is out of this prover's reach. Where a result has a
closed form the way round is to define the recursion as a function and to compare
it with the form at the least index where they differ (`TurnProofs` does so for
what a client has heard and for the text of tokens, `PromptProofs` for `Render`
and for the list of a prompt's pictures, `ScriptProofs` for the filter of the
settings). `BenchFaithful` has not been attempted.
All liveness (`BusyReleased`, `EveryRequestEnds`, `StopEnds`, `RowsClose`,
`EofEnds`) and anything with `ENABLED` stays with TLC.

## 5. Not modelled

* Tensor code, CUDA kernels and third-party patches: floating point.
* The acceptance matrix (`matrix.py`), diagnostics, the engine's command line and
  the benchmark's studies and probes: sequential offline programs, or files that
  nothing reads back.
* `setup/`: interactive installers and terminal screens.
* The images table of the store, sampling parameters and tool definitions of a
  request, data URLs, the wording of responses.
* Times: measurements and metrics.

`PROJECT.json` gives the reason component by component.

## 6. Plan

1. `Supervisor`, `Generation`, `ResponseLifecycle`, `ResponseStore` and their
   proofs; `HistoryMatch`, `ResidentSession`: done.
2. The workers with their proofs, the turns, the parser and the streams, the
   request's way in, the tool calls: done, checked.
3. Runner, draft, attention, draft walk (proved), sampling, pictures: done,
   checked.
4. Set-up, settings, start and stop, benchmark run: done, checked.
5. Proofs: every invariant of `pair`, `stream`, `store_keys` and
   `session_marks`, and of `parts` those of the workers, turns, histories,
   pictures, graphs, draft, attention, set-up, settings and scripts: done. Next:
   `BenchFaithful`.
6. Next models: the images table of the store with the requests that read it;
   retention of diagnostics; `setup`'s order of steps.
