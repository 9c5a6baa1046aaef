------------------------------- MODULE MCParts -------------------------------
(* One instance of every part that has neither state nor threads in common   *)
(* with the others, so that TLC explores each by itself: the first state says *)
(* which, and the rest stay as they were.                                     *)
EXTENDS ResidentWorker, RollbackWorker, ResidentTurn, RollbackTurn,
        HistoryMatch, Messages, ToolCalls,
        RunnerGraphs, DraftCache, XqaGraphs, DraftWalk, Bootstrap,
        Sampling, Pictures, Settings, BenchRun, ServerScript, TLC

CONSTANTS i1, i2, c1, c2, q1, q2, a1, t1, t2, p1

TwoIds == {i1, i2}
SomeVocabularies == {{"w", "<", "k", "h"}, {"s", "t", "c", "k"}}
SomeCaps == {0, 2}
BothClients == {c1, c2}
JustOne     == {c1}
Questions2  == {q1, q2}
OneReply    == {a1}
BothThoughts == {t1, t2}
SamePrompt   == [c \in Clients |-> p1]
DraftKinds == {"greedy", "hot", "wide"}
Wide == {"wide"}
SomeTables == {<<1>>, <<1, 2>>, <<2, 1>>, <<1, 2, 3>>}
TwoPictures == {"a", "b"}
TwoPhotos   == {"small", "large"}
PhotoSizes  == [x \in TwoPhotos |-> IF x = "small" THEN 1 ELSE 2]

\* Rows with ties, with a token of no weight, with all weights alike.
SomeTargets == {<<<<2, 1, 1>>, <<3, 1, 0>>, <<0, 1, 2>>>>, <<<<1, 1, 1>>, <<0, 1, 2>>, <<3, 1, 0>>>>,
                <<<<0, 1, 2>>, <<2, 1, 1>>, <<1, 1, 1>>>>}
SomeProposers == {<<<<1, 1>>, <<1, 3>>>>, <<<<2, 1>>, <<1, 0>>>>, <<<<0, 1>>, <<3, 1>>>>}
PaddedRows == <<5>>
HotIds     == <<3, 1>>
SamplerOf(k, p, speculative) == [top_k |-> k, top_p |-> p, speculative |-> speculative]
SomeSamplers == {SamplerOf(3, 12, TRUE), SamplerOf(2, 12, TRUE), SamplerOf(3, 8, TRUE),
                 SamplerOf(3, 12, FALSE), SamplerOf(1, 12, FALSE)}

\* A case asked twice behind a warm-up; a session out of order with one turn asked
\* more often; two sessions interleaved, by profiles of a model with more context.
\* To be refused: a turn left out, tokens that do not add up, a name used twice, a
\* change of the bucket, a turn without a session, a profile of a smaller model, one
\* with cases of its own, one of a file that is not there, two of each other.
CaseOf(id, session, turn, total, appended, warmups, repetitions) ==
    [id |-> id, mode |-> IF session = NoSession THEN "fresh" ELSE "persistent", session |-> session, turn |-> turn,
     bucket |-> IF total <= 2 THEN "short" ELSE "long", target |-> total, appended |-> appended,
     warmups |-> warmups, repetitions |-> repetitions]
SomeBuckets == [b \in {"short", "long"} |-> IF b = "short" THEN [lower |-> 1, upper |-> 2] ELSE [lower |-> 3, upper |-> 6]]
FileOf(keys, from, context, cases) == [keys |-> keys, extends |-> from, context |-> context, cases |-> cases]
ManifestOf(context, cases) == FileOf(ManifestKeys, "none", context, cases)
ProfileOf(from, context) == FileOf(ProfileKeys, from, context, <<>>)
SomeDirectory ==
    [n \in {"warm", "late", "two", "gap", "sum", "twin", "moves", "loose", "large", "larger", "small", "own", "lost", "ping", "pong"} |->
     CASE n = "warm"   -> ManifestOf(2, <<CaseOf("a", NoSession, NoSession, 1, 1, 1, 2)>>)
       [] n = "late"   -> ManifestOf(2, <<CaseOf("b", 1, 1, 4, 1, 0, 1), CaseOf("c", 1, 0, 3, 3, 1, 2)>>)
       [] n = "two"    -> ManifestOf(2, <<CaseOf("d", 1, 0, 1, 1, 0, 1), CaseOf("e", 2, 0, 1, 1, 0, 1), CaseOf("f", 1, 1, 2, 1, 0, 1)>>)
       [] n = "gap"    -> ManifestOf(2, <<CaseOf("g", 1, 0, 1, 1, 0, 1), CaseOf("h", 1, 2, 2, 1, 0, 1)>>)
       [] n = "sum"    -> ManifestOf(2, <<CaseOf("i", 1, 0, 2, 2, 0, 1), CaseOf("j", 1, 1, 2, 1, 0, 1)>>)
       [] n = "twin"   -> ManifestOf(2, <<CaseOf("k", NoSession, NoSession, 1, 1, 0, 1), CaseOf("k", NoSession, NoSession, 1, 1, 0, 1)>>)
       [] n = "moves"  -> ManifestOf(4, <<CaseOf("l", 1, 0, 1, 1, 0, 1), CaseOf("m", 1, 1, 3, 2, 0, 1)>>)
       [] n = "loose"  -> ManifestOf(2, <<CaseOf("n", NoSession, 0, 1, 1, 0, 1)>>)
       [] n = "large"  -> ProfileOf("two", 2)
       [] n = "larger" -> ProfileOf("late", 4)
       [] n = "small"  -> ProfileOf("large", 1)
       [] n = "own"    -> FileOf(ProfileKeys \cup {"cases"}, "two", 2, <<>>)
       [] n = "lost"   -> ProfileOf("none", 2)
       [] n = "ping"   -> ProfileOf("pong", 2)
       [] n = "pong"   -> ProfileOf("ping", 2)]
SomeNames == DOMAIN SomeDirectory \ {"pong", "large"}
SomeFramings == {<<"reasoning", "text">>, <<"call 0", "call 1", "call 0">>}

VARIABLE part
workerVars   == <<pipeVars, threadVars, residentVars, rollbackVars>>
turnsVars    == <<turnVars, residentTurnVars, rollbackTurnVars>>
graphVars    == <<runnerVars, draftVars, xqaVars, walkVars>>
requestVars  == <<historyVars, messagesVars, callVars>>
aroundVars   == <<bootVars, samplingVars, photoVars, settingsVars, benchVars, scriptVars>>
vars == <<part, workerVars, turnsVars, requestVars, graphVars, aroundVars>>

Parts == {"resident", "rollback", "resident turn", "rollback turn", "history", "messages",
          "calls", "runner", "draft", "xqa", "prefill", "walk", "bootstrap",
          "sampling", "pictures", "settings", "bench", "script"}

OneOf(x, S) == x = CHOOSE y \in S : TRUE

Init == /\ part \in Parts
        /\ PipeInit /\ ResidentInit /\ RollbackInit
        /\ TurnInit /\ ResidentTurnInit /\ RollbackTurnInit
        /\ HistoryInit /\ MessagesInit /\ CallsInit
        /\ RunnerInit /\ DraftInit /\ XqaInit /\ WalkInit
        /\ BootInit
        /\ SamplingInit /\ (part # "sampling" => /\ OneOf(targets, Targets) /\ OneOf(proposer, Proposers)
                                                 /\ OneOf(sampler, Samplers))
        /\ PhotosInit /\ (part # "pictures" => engine = "resident")
        /\ SettingsInit /\ (part # "settings" => tool = "claude" /\ settings["claude"] = Absent)
        /\ BenchInit /\ (part # "bench" => OneOf(named, Named) /\ protocol = "chat")
        /\ ScriptInit

InWorkers  == UNCHANGED <<part, turnsVars, requestVars, graphVars, aroundVars>>
InTurns    == UNCHANGED <<part, workerVars, requestVars, graphVars, aroundVars>>
InRequests == UNCHANGED <<part, workerVars, turnsVars, graphVars, aroundVars>>
InGraphs   == UNCHANGED <<part, workerVars, turnsVars, requestVars, aroundVars>>

ResidentPart == part = "resident" /\ ResidentNext /\ UNCHANGED rollbackVars /\ InWorkers
RollbackPart == part = "rollback" /\ RollbackNext /\ UNCHANGED residentVars /\ InWorkers
ResidentTurnPart == part = "resident turn" /\ ResidentTurnNext /\ UNCHANGED rollbackTurnVars /\ InTurns
RollbackTurnPart == part = "rollback turn" /\ RollbackTurnNext /\ UNCHANGED residentTurnVars /\ InTurns
HistoryPart  == part = "history" /\ HistoryNext /\ UNCHANGED <<messagesVars, callVars>> /\ InRequests
MessagesPart == part = "messages" /\ MessagesNext /\ UNCHANGED <<historyVars, callVars>> /\ InRequests
CallsPart    == part = "calls" /\ CallsNext /\ UNCHANGED <<historyVars, messagesVars>> /\ InRequests
RunnerPart   == part = "runner" /\ RunnerNext /\ UNCHANGED <<draftVars, xqaVars, walkVars>> /\ InGraphs
DraftPart    == part = "draft" /\ DraftNext /\ UNCHANGED <<runnerVars, xqaVars, walkVars>> /\ InGraphs
XqaPart      == part = "xqa" /\ XqaNext /\ UNCHANGED <<runnerVars, draftVars, walkVars>> /\ InGraphs
PrefillPart  == part = "prefill" /\ XqaPrefillNext /\ UNCHANGED <<runnerVars, draftVars, walkVars>> /\ InGraphs
WalkPart     == part = "walk" /\ WalkNext /\ UNCHANGED <<runnerVars, draftVars, xqaVars>> /\ InGraphs
Around == UNCHANGED <<part, workerVars, turnsVars, requestVars, graphVars>>
BootPart     == /\ part = "bootstrap" /\ BootNext /\ Around
                /\ UNCHANGED <<samplingVars, photoVars, settingsVars, benchVars, scriptVars>>
SamplingPart == /\ part = "sampling" /\ SamplingNext /\ Around
                /\ UNCHANGED <<bootVars, photoVars, settingsVars, benchVars, scriptVars>>
PhotosPart   == /\ part = "pictures" /\ PhotosNext /\ Around
                /\ UNCHANGED <<bootVars, samplingVars, settingsVars, benchVars, scriptVars>>
SettingsPart == /\ part = "settings" /\ SettingsNext /\ Around
                /\ UNCHANGED <<bootVars, samplingVars, photoVars, benchVars, scriptVars>>
BenchPart    == /\ part = "bench" /\ BenchNext /\ Around
                /\ UNCHANGED <<bootVars, samplingVars, photoVars, settingsVars, scriptVars>>
ScriptPart   == /\ part = "script" /\ ScriptNext /\ Around
                /\ UNCHANGED <<bootVars, samplingVars, photoVars, settingsVars, benchVars>>

Next == \/ ResidentPart \/ RollbackPart \/ ResidentTurnPart \/ RollbackTurnPart
        \/ HistoryPart \/ MessagesPart \/ CallsPart
        \/ RunnerPart \/ DraftPart \/ XqaPart \/ PrefillPart \/ WalkPart
        \/ BootPart \/ SamplingPart \/ PhotosPart \/ SettingsPart \/ BenchPart \/ ScriptPart

ReaderOf     == \/ part = "resident" /\ Reader /\ UNCHANGED rollbackVars /\ InWorkers
                \/ part = "rollback" /\ InputThread /\ UNCHANGED residentVars /\ InWorkers
MainThreadOf == \/ part = "resident" /\ MainThread /\ UNCHANGED rollbackVars /\ InWorkers
                \/ part = "rollback" /\ Worker /\ UNCHANGED residentVars /\ InWorkers

Spec == Init /\ [][Next]_vars /\ WF_vars(ReaderOf) /\ WF_vars(MainThreadOf)
=============================================================================
