------------------------------ MODULE ChildPipe ------------------------------
(* What the two worker processes (ResidentWorker, RollbackWorker) have in    *)
(* common: the two pipes to the server, a reader thread, a queue of jobs and *)
(* a main thread that runs one generation at a time.                         *)
EXTENDS Naturals, Sequences, FiniteSets

CONSTANTS Ids,          \* response ids: each is asked for once (a fresh uuid)
          NoId,
          MaxCancels,   \* bound: cancel lines written
          MaxWindows    \* bound: decode windows of a generation

ASSUME PipeAssumption == NoId \notin Ids /\ MaxCancels \in Nat /\ MaxWindows \in Nat

VARIABLES stdin,        \* command lines written and not yet read
          closed,       \* the server closed the pipe
          asked,        \* generations written
          cancels,      \* cancel lines written
          lines,        \* lines[i]: what was said of generation i
          readpc,       \* the reader thread
          queue,        \* jobs for the main thread, NoId for the end
          mainpc,       \* the main thread
          job,          \* the generation it works on
          windows,      \* windows that generation still may run
          taken         \* history: generations the reader queued

serverVars == <<closed, asked, cancels>>
threadVars == <<readpc, queue, mainpc, job, windows, taken>>
pipeVars   == <<stdin, serverVars, lines>>

Line(op, i) == [op |-> op, id |-> i]

\* The server (worker.rs) writes a generate, a cancel of any response, even of
\* one that has just ended, a shutdown, or closes the pipe.
Write(l) == ~closed /\ stdin' = Append(stdin, l)

AskLine(i)    == /\ i \notin asked /\ asked' = asked \cup {i}
                 /\ Write(Line("generate", i)) /\ UNCHANGED <<closed, cancels>>
CancelLine(i) == /\ cancels < MaxCancels /\ cancels' = cancels + 1
                 /\ Write(Line("cancel", i)) /\ UNCHANGED <<closed, asked>>
StopLine      == /\ Write(Line("shutdown", NoId)) /\ closed' = TRUE
                 /\ UNCHANGED <<asked, cancels>>
Close         == /\ ~closed /\ closed' = TRUE /\ UNCHANGED <<stdin, asked, cancels>>

Server == /\ \/ \E i \in Ids : AskLine(i) \/ CancelLine(i)
             \/ StopLine \/ Close
          /\ UNCHANGED <<lines, threadVars>>

\* The reader takes the next line, which is a command of this kind.
ReadLine(op) == /\ readpc = "reading" /\ stdin # <<>> /\ Head(stdin).op = op
                /\ stdin' = Tail(stdin) /\ UNCHANGED serverVars
AtEof        == readpc = "reading" /\ stdin = <<>> /\ closed

\* emit: a line is written under the output lock.
Emit(i, kind) == lines' = [lines EXCEPT ![i] = Append(@, kind)]
Said(i, kind) == \E k \in DOMAIN lines[i] : lines[i][k] = kind

\* jobs.get(): a generation, or the end of the process.
GetJob == /\ mainpc = "get" /\ queue # <<>>
          /\ queue' = Tail(queue) /\ job' = Head(queue)
          /\ mainpc' = IF Head(queue) = NoId THEN "exit" ELSE "push"
          /\ UNCHANGED <<pipeVars, readpc, windows, taken>>

PipeInit == /\ stdin = <<>> /\ closed = FALSE /\ asked = {} /\ cancels = 0
            /\ lines = [i \in Ids |-> <<>>]
            /\ readpc = "reading" /\ queue = <<>> /\ mainpc = "get" /\ job = NoId
            /\ windows = 0 /\ taken = {}

----
(* The process leaves its loop only after it has answered every generation    *)
(* the reader queued, whatever was cancelled or stopped before.               *)
ExitAnswersAll == mainpc = "exit" => \A i \in taken : Said(i, "terminal")

(* The lines follow ChildProtocol: one generation at a time, started before   *)
(* its deltas, one terminal and nothing after it, from two threads that write.*)
Protocol == INSTANCE ChildProtocol
KeepsProtocol == Protocol!Spec

(* When the server closes the pipe, or has said shutdown, the process exits   *)
(* by itself, whatever it is working on.                                      *)
EofEnds == closed ~> mainpc = "exit"
=============================================================================
