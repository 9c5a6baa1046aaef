------------------------------- MODULE BenchRun -------------------------------
(* One run of a benchmark manifest: the runner asks its cases one by one of a  *)
(* server, through a client that keeps the conversations (chat completions)    *)
(* or leaves them to the server (responses), and publishes the samples as one  *)
(* directory (qwasar_bench/workloads.py, runner.py, openai_client.py). A       *)
(* message is <<"user", case>> or <<"assistant", request, text, calls>>; the   *)
(* text of an answer is the numbers of its pieces. Times are left out.         *)
EXTENDS Naturals, Sequences, FiniteSets, SequencesExt, FiniteSetsExt

CONSTANTS Directory,       \* the files, by name: [keys, extends, context, cases]
          Named,           \* names that a run may be given
          BucketLimits,    \* context buckets: [lower, upper]
          NoSession,       \* None: a case without session and turn
          Framings,        \* how an answer may be cut into pieces: sequences of "text", "reasoning", calls
          MaxHistories,    \* max_history_entries
          MaxOthers        \* requests of other clients of the server

VARIABLES named, loading, manifest, protocol, runPhase, planAt, previous, histories, served, counters,
          countersBefore, result, samples, workplace, published, others, disturbed
benchVars == <<named, loading, manifest, protocol, runPhase, planAt, previous, histories, served, counters,
               countersBefore, result, samples, workplace, published, others, disturbed>>

----
\* _load_manifest_values: a profile has two keys; the model of the outermost counts.
ManifestKeys == {"version", "model", "generation", "cases"}
ProfileKeys  == {"extends", "model"}
Outermost(context) == IF loading.context = 0 THEN context ELSE loading.context

\* _parse_case; the types of the values are left out.
CaseFits(case, context) ==
    /\ case.bucket \in DOMAIN BucketLimits
    /\ BucketLimits[case.bucket].lower <= case.target /\ case.target <= BucketLimits[case.bucket].upper
    /\ case.target <= context /\ 1 <= case.appended /\ case.appended <= case.target /\ 1 <= case.repetitions
    /\ CASE case.mode = "fresh"      -> case.session = NoSession /\ case.turn = NoSession
         [] case.mode = "persistent" -> case.session # NoSession /\ case.turn # NoSession
         [] OTHER -> FALSE

\* _validate_cases: what the cases must be together.
TurnsOf(m, session) == SelectSeq(m, LAMBDA c : c.session = session)
ByTurn(turns) == SortSeq(turns, LAMBDA a, b : a.turn < b.turn)
Grows(turns) ==
    \A k \in DOMAIN turns :
        LET grown == turns[k].target - (IF k = 1 THEN 0 ELSE turns[k - 1].target)
        IN  turns[k].turn = k - 1 /\ turns[k].bucket = turns[1].bucket /\ grown > 0 /\ turns[k].appended = grown
SessionsOf(m) == {m[i].session : i \in DOMAIN m} \ {NoSession}
ValidCases(m) ==
    /\ m # <<>>
    /\ \A i, j \in DOMAIN m : m[i].id = m[j].id => i = j
    /\ \A s \in SessionsOf(m) : Grows(ByTurn(TurnsOf(m, s)))

\* The sessions in the order of their first cases.
SessionOrder(m) ==
    LET first(s) == Min({i \in DOMAIN m : m[i].session = s})
    IN  SetToSortSeq(SessionsOf(m), LAMBDA a, b : first(a) < first(b))
Repeated(n, OfPass(_)) == FlattenSeq([k \in 1..n |-> OfPass(k)])
Most(turns, Field(_)) == Max({Field(turns[k]) : k \in DOMAIN turns})

\* Requests of the plan: a case, the repetition it is a sample of (0: of none),
\* and whether it continues the request before it.
PlanRequest(case, repetition, continues) == [case |-> case, repetition |-> repetition, continues |-> continues]

\* _run_fresh_cases
FreshPlan(m) ==
    LET OfCase(c) == [k \in 1..c.warmups |-> PlanRequest(c, 0, FALSE)]
                     \o [k \in 1..c.repetitions |-> PlanRequest(c, k, FALSE)]
        fresh == TurnsOf(m, NoSession)
    IN  FlattenSeq([i \in DOMAIN fresh |-> OfCase(fresh[i])])

\* _run_persistent_sessions, one session: every pass asks all its turns.
SessionPlan(turns) ==
    LET Warmup(p) == [k \in DOMAIN turns |-> PlanRequest(turns[k], 0, k > 1)]
        Pass(p)   == [k \in DOMAIN turns |->
                        PlanRequest(turns[k], IF p <= turns[k].repetitions THEN p ELSE 0, k > 1)]
    IN  Repeated(Most(turns, LAMBDA c : c.warmups), Warmup)
        \o Repeated(Most(turns, LAMBDA c : c.repetitions), Pass)

Plan(m) ==
    LET order == SessionOrder(m)
    IN  FreshPlan(m) \o FlattenSeq([i \in DOMAIN order |-> SessionPlan(ByTurn(TurnsOf(m, order[i])))])

----
(* A stream of server-sent events: lines with data, and the empty lines that  *)
(* end an event; it may be cut behind any line.                               *)
EventEnd == [line |-> "blank"]
Comment == [line |-> "comment"]
DataLine(frame) == [line |-> "data", frame |-> frame]
Lines(frames) == <<Comment>> \o FlattenSeq([i \in DOMAIN frames |-> <<DataLine(frames[i]), EventEnd>>])

\* parse_sse: an empty line ends an event, and so does the end of the stream;
\* the data of an event are joined.
ParseSse(lines) ==
    LET Take(read, x) ==
            CASE x.line = "data" -> [read EXCEPT !.data = Append(@, x.frame)]
              [] x.line = "blank" /\ read.data # <<>> -> [events |-> Append(read.events, read.data), data |-> <<>>]
              [] OTHER -> read
        read == FoldLeft(Take, [events |-> <<>>, data |-> <<>>], lines)
    IN  IF read.data = <<>> THEN read.events ELSE Append(read.events, read.data)

\* What is sent for an answer: its pieces, numbered, and the end of the stream.
Frames(framing) == [i \in DOMAIN framing |-> [kind |-> framing[i], piece |-> i]] \o <<[kind |-> "end", piece |-> 0]>>
PiecesOf(events, kind) ==
    LET some == SelectSeq(events, LAMBDA e : e[1].kind = kind) IN [i \in DOMAIN some |-> some[i][1].piece]

\* Mutant: a stream that was cut counts as complete.
CompleteAlways(events) == TRUE

\* [DONE], or response.completed, was seen.
Complete(events) == \E i \in DOMAIN events : events[i][1].kind = "end"

\* _consume_stream and _consume_chat_stream take a stream whose events are JSON.
Accepts(events) == Complete(events) /\ \A i \in DOMAIN events : Len(events[i]) = 1
\* _consume_chat_stream, _consume_stream: the message of the pieces, the calls
\* put together by their index (_merge_tool_call_delta).
CallKinds == {"call 0", "call 1"}
MessageOf(events) == [text |-> PiecesOf(events, "text"), reasoning |-> PiecesOf(events, "reasoning"),
                      calls |-> [c \in CallKinds |-> PiecesOf(events, c)]]

----
Request == Plan(manifest)[planAt]
NoAnswer == [id |-> 0]
RunStep(from, to) == runPhase = from /\ runPhase' = to

BenchInit ==
    /\ named \in Named /\ loading = [at |-> named, seen |-> {}, context |-> 0] /\ manifest = <<>>
    /\ protocol \in {"chat", "responses"}
    /\ runPhase = "read" /\ planAt = 1 /\ previous = 0 /\ histories = <<>> /\ served = <<>>
    /\ counters = [prompt |-> 0, completion |-> 0] /\ countersBefore = counters
    /\ result = NoAnswer /\ samples = <<>> /\ workplace = "none" /\ published = "none"
    /\ others = 0 /\ disturbed = {}

OnlyPhase == UNCHANGED <<named, loading, manifest, protocol, planAt, previous, histories, served, counters,
                         countersBefore, result, samples, others, disturbed>>

\* One file of the chain of profiles, up to the manifest they stand for.
OtherThanLoading == UNCHANGED <<named, protocol, planAt, previous, histories, served, counters, countersBefore,
                                result, samples, workplace, published, others, disturbed>>
ManifestFile == Directory[loading.at]
CanRead ==
    /\ loading.at \in DOMAIN Directory /\ loading.at \notin loading.seen
    /\ ManifestFile.keys = IF "extends" \in ManifestFile.keys THEN ProfileKeys ELSE ManifestKeys
RefuseFile == ~CanRead /\ RunStep("read", "refused") /\ UNCHANGED <<loading, manifest>> /\ OtherThanLoading
ReadProfile ==
    /\ runPhase = "read" /\ CanRead /\ "extends" \in ManifestFile.keys
    /\ loading' = [at |-> ManifestFile.extends, seen |-> loading.seen \cup {loading.at}, context |-> Outermost(ManifestFile.context)]
    /\ UNCHANGED <<runPhase, manifest>> /\ OtherThanLoading
ReadManifest ==
    /\ CanRead /\ "extends" \notin ManifestFile.keys /\ RunStep("read", "load")
    /\ loading' = [loading EXCEPT !.context = Outermost(ManifestFile.context)] /\ manifest' = ManifestFile.cases
    /\ OtherThanLoading

\* The rest of load_manifest and the first lines of run_manifest: refused, or begun.
ValidManifest == /\ \A i \in DOMAIN manifest : CaseFits(manifest[i], loading.context)
                 /\ ValidCases(manifest)
Load ==
    /\ \/ (~ValidManifest \/ published # "none") /\ RunStep("load", "refused") /\ UNCHANGED workplace
       \/ ValidManifest /\ published = "none" /\ RunStep("load", "ask") /\ workplace' = "begun"
    /\ UNCHANGED published /\ OnlyPhase

\* Any error ends the run and takes its directory away.
Abandon == runPhase' = "failed" /\ workplace' = "none"

\* _health_counters, of the chat client: before a request and behind it.
HealthCounters == counters
HealthFails ==
    /\ protocol = "chat" /\ ((runPhase = "ask" /\ planAt <= Len(Plan(manifest))) \/ runPhase = "answered")
    /\ Abandon /\ UNCHANGED published /\ OnlyPhase

(* create_stream of the chat client up to the POST: the conversation of the   *)
(* parent is put in front and moved to the end of the histories, and the      *)
(* counters are read.                                                         *)
ParentId == IF Request.continues THEN previous ELSE 0
HistoryWith(id) == {i \in DOMAIN histories : histories[i].id = id}
CanSend(client) == protocol = client /\ runPhase = "ask" /\ planAt <= Len(Plan(manifest))
OnlySent == UNCHANGED <<named, loading, manifest, protocol, planAt, previous, served, counters, result, samples,
                        published, others, disturbed>>
SendChat ==
    /\ CanSend("chat") /\ OnlySent
    /\ \/ /\ ParentId # 0 /\ HistoryWith(ParentId) = {}
          /\ Abandon /\ UNCHANGED <<histories, countersBefore>>
       \/ /\ ParentId # 0 => HistoryWith(ParentId) # {}
          /\ runPhase' = "sent" /\ countersBefore' = HealthCounters
          /\ histories' = IF ParentId = 0 THEN histories
                          ELSE LET i == CHOOSE k \in HistoryWith(ParentId) : TRUE
                               IN  RemoveAt(histories, i) \o <<histories[i]>>
          /\ UNCHANGED workplace
\* The other client names the parent.
SendResponses == CanSend("responses") /\ runPhase' = "sent" /\ OnlySent /\ UNCHANGED <<histories, countersBefore, workplace>>

\* The messages of the parent, as the client or the server remembers them.
ParentMessages ==
    CASE ParentId = 0 -> <<>>
      [] ParentId # 0 /\ protocol = "chat" -> Last(histories).messages
      [] OTHER -> served[ParentId].messages

\* The server answers in pieces and counts; the stream may be cut.
ServeRequest ==
    /\ runPhase = "sent"
    /\ \E framing \in Framings :
         LET lines  == Lines(Frames(framing))
             prompt == ParentMessages \o <<<<"user", Request.case.id>>>>
             said   == MessageOf([i \in DOMAIN framing |-> <<Frames(framing)[i]>>])
             id     == Len(served) + 1
         IN  /\ served' = Append(served, [case |-> Request.case, prompt |-> prompt, output |-> Len(framing),
                                          messages |-> prompt \o <<<<"assistant", id, said>>>>])
             /\ counters' = [prompt |-> counters.prompt + Len(prompt),
                             completion |-> counters.completion + Len(framing)]
             /\ \E cut \in 0..Len(lines) :
                  LET events == ParseSse(SubSeq(lines, 1, cut)) IN
                  IF Accepts(events)
                  THEN /\ runPhase' = "answered" /\ UNCHANGED workplace
                       /\ result' = [id |-> id, messages |-> prompt \o <<<<"assistant", id, MessageOf(events)>>>>,
                                     usage |-> [prompt |-> Len(prompt), completion |-> Len(framing)]]
                  ELSE Abandon /\ UNCHANGED result
    /\ UNCHANGED <<named, loading, manifest, protocol, planAt, previous, histories, countersBefore, samples,
                   published, others, disturbed>>

\* _remember: the oldest conversations are forgotten.
Remembered == LET all == Append(histories, [id |-> result.id, messages |-> result.messages])
              IN  IF Len(all) > MaxHistories THEN SubSeq(all, Len(all) - MaxHistories + 1, Len(all)) ELSE all

\* A sample: what the client measured, of which case. Times and metrics are left out.
SampleOf(usage) == [case |-> Request.case.id, repetition |-> Request.repetition,
                    request |-> result.id, usage |-> usage]

\* The counters are read again; the result is a sample of its case or of none.
Measure ==
    /\ runPhase = "answered"
    /\ LET counted == [prompt |-> HealthCounters.prompt - countersBefore.prompt, completion |-> HealthCounters.completion - countersBefore.completion]
           usage   == IF protocol = "chat" THEN counted ELSE result.usage
       IN  samples' = IF Request.repetition = 0 THEN samples
                      ELSE Append(samples, SampleOf(usage))
    /\ histories' = IF protocol = "chat" THEN Remembered ELSE histories
    /\ previous' = result.id /\ planAt' = planAt + 1 /\ runPhase' = "ask"
    /\ UNCHANGED <<named, loading, manifest, protocol, served, counters, countersBefore, result, workplace,
                   published, others, disturbed>>

\* The files are written one after the other, then the directory gets its name.
WriteFiles ==
    /\ planAt > Len(Plan(manifest)) /\ RunStep("ask", "written") /\ workplace' = "whole"
    /\ UNCHANGED published /\ OnlyPhase
\* The rename fails where a directory of that name is by now; behind it only
\* the sync can fail, and then the run is an error although it is published.
PublishRun ==
    /\ runPhase = "written" /\ workplace' = "none"
    /\ IF published = "none" THEN runPhase' \in {"published", "failed"} /\ published' = workplace
       ELSE runPhase' = "failed" /\ UNCHANGED published
    /\ OnlyPhase

\* The disk is full, the user interrupts; or the process is killed, and its
\* directory stays. All that the run knew is gone, and nobody asks again.
Running == runPhase \in {"ask", "sent", "answered", "written"}
Forgotten ==
    /\ planAt' = 1 /\ previous' = 0 /\ histories' = <<>> /\ served' = <<>> /\ countersBefore' = counters
    /\ result' = NoAnswer /\ samples' = <<>> /\ disturbed' = {}
    /\ UNCHANGED <<named, loading, manifest, protocol, counters, published, others>>
Interrupt == Running /\ Abandon /\ Forgotten
Kill == Running /\ runPhase' = "killed" /\ UNCHANGED workplace /\ Forgotten

\* Another client asks the server; another run publishes under the same name.
OtherRequest ==
    /\ runPhase \in {"ask", "sent", "answered"} /\ others < MaxOthers /\ others' = others + 1
    /\ counters' = [prompt |-> counters.prompt + 1, completion |-> counters.completion + 1]
    /\ disturbed' = IF runPhase = "sent" THEN disturbed \cup {Len(served) + 1}
                    ELSE IF runPhase = "answered" THEN disturbed \cup {result.id} ELSE disturbed
    /\ UNCHANGED <<named, loading, manifest, protocol, runPhase, planAt, previous, histories, served,
                   countersBefore, result, samples, workplace, published>>
OtherRun ==
    /\ published = "none" /\ runPhase \in {"load", "ask", "written"} /\ published' = "other"
    /\ UNCHANGED <<runPhase, workplace>> /\ OnlyPhase

BenchNext ==
    \/ RefuseFile \/ ReadProfile \/ ReadManifest \/ Load \/ HealthFails \/ SendChat \/ SendResponses
    \/ ServeRequest \/ Measure \/ WriteFiles \/ PublishRun
    \/ Interrupt \/ Kill \/ OtherRequest \/ OtherRun

----
\* The turns that a case continues, itself included.
Upto(c) == IF c.session = NoSession THEN <<c>>
           ELSE SelectSeq(ByTurn(TurnsOf(manifest, c.session)), LAMBDA d : d.turn <= c.turn)
Appended(c) == FoldLeft(LAMBDA sum, d : sum + d.appended, 0, Upto(c))
CasesIn(prompt) == SelectSeq(prompt, LAMBDA x : x[1] = "user")
AnswersIn(prompt) == {prompt[i] : i \in {k \in DOMAIN prompt : prompt[k][1] = "assistant"}}
SampleIsOwn(s) ==
    LET r == served[s.request]
    IN  /\ r.case.id = s.case
        /\ CasesIn(r.prompt) = [k \in DOMAIN Upto(r.case) |-> <<"user", Upto(r.case)[k].id>>]
        /\ \A i \in DOMAIN r.prompt :
             r.prompt[i][1] = "assistant" => r.prompt[i] = Last(served[r.prompt[i][2]].messages)
        /\ s.request \notin disturbed => s.usage = [prompt |-> Len(r.prompt), completion |-> r.output]

(* What a run asks fits the context of the model that the named file pins,    *)
(* however the file came by its cases (workloads.py:252). A directory that is *)
(* published holds every case as often as the manifest says; each sample was  *)
(* measured on the conversation of its own session and its own pass, with the *)
(* answers as the server gave them, and counts its own tokens unless another  *)
(* client was served meanwhile (openai_client.py:422). No conversation is     *)
(* forgotten before it is continued, and a run that failed leaves nothing     *)
(* behind.                                                                     *)
BenchFaithful ==
    /\ published \in {"none", "other", "whole"}
    /\ runPhase \in {"failed", "refused", "published"} => workplace = "none"
    /\ workplace # "none" => \A i \in DOMAIN manifest : Appended(manifest[i]) <= Directory[named].context
    /\ runPhase = "ask" /\ protocol = "chat" /\ planAt <= Len(Plan(manifest)) /\ ParentId # 0 => HistoryWith(ParentId) # {}
    /\ published = "whole" =>
        /\ \A i \in DOMAIN manifest : \A k \in 1..manifest[i].repetitions :
             Cardinality({j \in DOMAIN samples : samples[j].case = manifest[i].id /\ samples[j].repetition = k}) = 1
        /\ \A j \in DOMAIN samples : SampleIsOwn(samples[j])
        /\ \A j, k \in DOMAIN samples :
             j # k /\ samples[j].case = samples[k].case =>
                 AnswersIn(served[samples[j].request].prompt) \cap AnswersIn(served[samples[k].request].prompt) = {}
=============================================================================
