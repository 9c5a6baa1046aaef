----------------------------- MODULE ServerScript -----------------------------
(* The script that starts and stops the server (scripts/qwasar.py), next to a *)
(* unit of systemd that runs its `serve`, and to servers it did not start. A  *)
(* process is known by its number, which is given again, and by the time it   *)
(* was started, which is not: the count of the starts. Numbers are not given  *)
(* again within one look at a process (a check and the call behind it).       *)
EXTENDS Naturals

CONSTANTS Pids,
          Commands,      \* calls of the script
          MaxStarts,     \* processes ever started
          Nobody         \* no process has the number

Processes == [what : {"serve", "server", "worker", "stranger", "its worker"},
              step : {"lock", "gpu", "bind", "open", "closing", "loading", "ready"},
              parent : Nat, start : Nat]

ASSUME ScriptAssumption ==
    /\ Pids \subseteq Nat \ {0} /\ Commands \subseteq Nat \ {0} /\ Pids \cap Commands = {}
    /\ MaxStarts \in Nat /\ Nobody \notin Processes

VARIABLES procs, starts, serverLock, port, pidFile, lifecycle, commands, scriptCut
scriptVars == <<procs, starts, serverLock, port, pidFile, lifecycle, commands, scriptCut>>

NoRecord == [pid |-> 0, start |-> 0]
\* hit: what its last word or its last signal was about.
IdleCommand == [step |-> "idle", identity |-> NoRecord, worker |-> 0, hit |-> "nothing"]

ScriptInit ==
    /\ procs = [p \in Pids |-> Nobody] /\ starts = 0 /\ serverLock = {} /\ port = 0
    /\ pidFile = NoRecord /\ lifecycle = 0 /\ commands = [c \in Commands |-> IdleCommand]
    /\ scriptCut = FALSE

----
\* Processes: what runs under a number, how far it is, and whose child it is.
Alive(p) == p \in Pids /\ procs[p] # Nobody
Is(p, what, step) == Alive(p) /\ procs[p].what = what /\ procs[p].step = step
Process(what, step, parent) ==
    [what |-> what, step |-> step, parent |-> parent, start |-> starts + 1]
Looking(c) == commands[c].step \in {"health", "parent", "signal", "kill"}
LookedAt == {commands[c].identity.pid : c \in {d \in Commands : Looking(d)}}
            \cup {commands[c].worker : c \in {d \in Commands : Looking(d)}}
\* The number of the next process: the smallest, so that numbers come again soon.
Free == {p \in Pids : ~Alive(p)} \ LookedAt
NewPid == {p \in Free : \A q \in Free : p <= q}
Become(p, process) == procs' = [procs EXCEPT ![p] = process] /\ starts' = starts + 1

\* The kernel takes back what p had; its children are another's from then on.
TakenBack(p) == [q \in Pids |-> IF q = p \/ ~Alive(q) \/ procs[q].parent # p
                              THEN (IF q = p THEN Nobody ELSE procs[q])
                              ELSE [procs[q] EXCEPT !.parent = 0]]
Exit(p) == /\ procs' = TakenBack(p) /\ serverLock' = serverLock \ {p}
           /\ port' = IF port = p THEN 0 ELSE port
StepTo(p, step) == procs' = [procs EXCEPT ![p].step = step]

\* Mutant: the lock is closed by the exec.
ExecClosing(p) == procs' = [procs EXCEPT ![p].what = "server", ![p].step = "bind"] /\ serverLock' = {}

\* same_process: the start must be the recorded one, and the program ours.
SameProcess(identity) ==
    /\ Alive(identity.pid) /\ procs[identity.pid].start = identity.start
    /\ procs[identity.pid].what \in {"serve", "server"}

\* check_gpu: nobody may have a model in the memory of the device.
GpuFree == \A p \in Pids : ~(Alive(p) /\ procs[p].step = "ready")
\* health: some server answers at the port.
Answers == port # 0

----
\* `serve`: the lock, the device, then the server in the same process.
Scripts == UNCHANGED <<pidFile, lifecycle, commands, scriptCut>>
ServeLock(p) ==
    /\ Is(p, "serve", "lock")
    /\ IF serverLock = {} THEN serverLock' = {p} /\ StepTo(p, "gpu") /\ UNCHANGED port ELSE Exit(p)
    /\ UNCHANGED starts /\ Scripts
\* The descriptor of the lock is inheritable: the server keeps it, and so do its workers.
Exec(p) == procs' = [procs EXCEPT ![p].what = "server", ![p].step = "bind"] /\ UNCHANGED serverLock
Serve(p) ==
    /\ Is(p, "serve", "gpu")
    /\ IF GpuFree THEN Exec(p) /\ UNCHANGED port ELSE Exit(p)
    /\ UNCHANGED starts /\ Scripts

\* The server: the port, then a worker at a time; a worker that lost its server ends.
Bind(p) ==
    /\ Is(p, "server", "bind")
    /\ IF port = 0 THEN port' = p /\ StepTo(p, "open") /\ UNCHANGED serverLock ELSE Exit(p)
    /\ UNCHANGED starts /\ Scripts
HasWorker(p) == \E w \in Pids : Alive(w) /\ procs[w].parent = p
SpawnWorker(p) ==
    /\ Is(p, "server", "open") /\ ~HasWorker(p) /\ starts < MaxStarts
    /\ \E w \in NewPid : /\ Become(w, Process("worker", "loading", p))
                        /\ serverLock' = IF p \in serverLock THEN serverLock \cup {w} ELSE serverLock
    /\ UNCHANGED port /\ Scripts
LoadWorker(w) == Is(w, "worker", "loading") /\ StepTo(w, "ready") /\ UNCHANGED <<starts, serverLock, port>> /\ Scripts
EndWorker(w) ==
    /\ Alive(w) /\ procs[w].what = "worker" /\ Exit(w) /\ UNCHANGED starts /\ Scripts
\* A server ends when it was told to, behind its worker, or of itself at any time.
EndServer(p) == Alive(p) /\ procs[p].what \in {"serve", "server"} /\ Exit(p) /\ UNCHANGED starts /\ Scripts

\* systemd, or somebody by hand, runs `serve`.
RunServe ==
    /\ starts < MaxStarts /\ \E p \in NewPid : Become(p, Process("serve", "lock", 0))
    /\ UNCHANGED <<serverLock, port>> /\ Scripts
\* A server that was not started by the script, with its worker; and its end.
StrangerServes ==
    /\ port = 0 /\ starts < MaxStarts
    /\ \E p \in NewPid, w \in Free :
         /\ p # w /\ port' = p
         /\ procs' = [procs EXCEPT ![p] = Process("stranger", "open", 0), ![w] = Process("its worker", "ready", p)]
    /\ starts' = starts + 1 /\ UNCHANGED serverLock /\ Scripts
StrangerLeaves ==
    /\ \E p \in Pids : /\ Is(p, "stranger", "open") /\ port' = 0
                       /\ procs' = [q \in Pids |-> IF q = p \/ (Alive(q) /\ procs[q].parent = p) THEN Nobody ELSE procs[q]]
    /\ UNCHANGED <<starts, serverLock>> /\ Scripts

----
\* The commands. Each reads, decides and goes on; the lifecycle lock is let go at its end.
World == UNCHANGED <<procs, starts, serverLock, port>>
Quiet == UNCHANGED <<pidFile, scriptCut>>
At(c, step) == commands[c].step = step
Go(c, step) == commands' = [commands EXCEPT ![c].step = step] /\ UNCHANGED lifecycle
LeaveAs(c, result, hit) ==
    /\ commands' = [commands EXCEPT ![c] = [IdleCommand EXCEPT !.step = result, !.hit = hit]]
    /\ lifecycle' = IF lifecycle = c THEN 0 ELSE lifecycle
Leave(c, result) == LeaveAs(c, result, commands[c].hit)
OverSteps == {"idle", "ready", "error", "stopped", "killed it"}

\* The calls are given in their order; a call is given once.
DueNext(c) == At(c, "idle") /\ \A d \in Commands : d < c => ~At(d, "idle")
BeginCommand(c) ==
    /\ DueNext(c) /\ lifecycle = 0 /\ lifecycle' = c
    /\ \E command \in {"start", "stop"} :
         commands' = [commands EXCEPT ![c] = [IdleCommand EXCEPT !.step = command]]
    /\ World /\ Quiet
\* wait-ready --pid, of the unit.
BeginWait(c) ==
    /\ DueNext(c)
    /\ \E p \in Pids :
         /\ Alive(p) /\ procs[p].what \in {"serve", "server"}
         /\ commands' = [commands EXCEPT ![c] = [IdleCommand EXCEPT !.step = "check",
                                                 !.identity = [pid |-> p, start |-> procs[p].start]]]
    /\ World /\ Quiet /\ UNCHANGED lifecycle

StartRecord(c) ==
    /\ At(c, "start") /\ World /\ Quiet
    /\ IF SameProcess(pidFile)
       THEN commands' = [commands EXCEPT ![c].step = "check", ![c].identity = pidFile] /\ UNCHANGED lifecycle
       ELSE Go(c, "port")
\* An answer may take longer than health waits.
StartChecks(c) ==
    /\ At(c, "port") /\ World /\ Quiet
    /\ \/ (Answers \/ ~GpuFree) /\ Leave(c, "error")
       \/ GpuFree /\ Go(c, "build")
BuildFails(c)  == At(c, "build") /\ World /\ Quiet /\ Leave(c, "error")
StartSpawn(c) ==
    /\ At(c, "build") /\ starts < MaxStarts
    /\ \E p \in NewPid :
         /\ Become(p, Process("serve", "lock", c))
         /\ commands' = [commands EXCEPT ![c].step = "write file", ![c].identity = [pid |-> p, start |-> starts + 1]]
    /\ UNCHANGED <<serverLock, port, lifecycle>> /\ Quiet
WriteFile(c) == /\ At(c, "write file") /\ pidFile' = commands[c].identity /\ Go(c, "check")
                /\ World /\ UNCHANGED scriptCut

\* wait_ready: the process, the answer at the port, the parent of the worker it names.
WaitCheck(c) == At(c, "check") /\ World /\ Quiet /\ IF SameProcess(commands[c].identity) THEN Go(c, "health") ELSE Leave(c, "error")
ReadyWorkers == {w \in Pids : Alive(w) /\ procs[w].parent = port /\ procs[w].step = "ready"}
WaitHealth(c) ==
    /\ At(c, "health") /\ World /\ Quiet
    /\ \/ Go(c, "check")
       \/ /\ Answers
          /\ \E w \in ReadyWorkers : commands' = [commands EXCEPT ![c].step = "parent", ![c].worker = w]
          /\ UNCHANGED lifecycle
IsParent(c) == Alive(commands[c].worker) /\ procs[commands[c].worker].parent = commands[c].identity.pid
AnsweredBy(c) == LET w == procs[commands[c].worker] IN
            IF w.step = "ready" /\ Alive(w.parent) /\ procs[w.parent].start = commands[c].identity.start
            THEN "own" ELSE "other"
WaitParent(c) == /\ At(c, "parent") /\ World /\ Quiet
                 /\ IF IsParent(c) THEN LeaveAs(c, "ready", AnsweredBy(c)) ELSE Go(c, "check")
WaitLong(c) == At(c, "check") /\ World /\ Quiet /\ Leave(c, "error")

\* stop: SIGTERM, ten seconds, SIGKILL.
StopRecord(c) ==
    /\ At(c, "stop") /\ World /\ Quiet
    /\ IF SameProcess(pidFile)
       THEN commands' = [commands EXCEPT ![c].step = "signal", ![c].identity = pidFile] /\ UNCHANGED lifecycle
       ELSE Leave(c, "stopped")
\* Until it serves, the signal ends it at once. An error where it has just gone.
Terminate(c) ==
    /\ At(c, "signal") /\ UNCHANGED starts /\ Quiet
    /\ LET p == commands[c].identity.pid IN
       \/ ~Alive(p) /\ Leave(c, "error") /\ UNCHANGED <<procs, serverLock, port>>
       \/ /\ Alive(p) /\ UNCHANGED lifecycle
          /\ commands' = [commands EXCEPT ![c].step = "wait end", ![c].hit = procs[p].what]
          /\ IF procs[p].step = "open" THEN StepTo(p, "closing") /\ UNCHANGED <<serverLock, port>>
             ELSE Exit(p)
StopPoll(c) == At(c, "wait end") /\ ~SameProcess(commands[c].identity) /\ World /\ Quiet /\ Leave(c, "stopped")
StopLong(c) == At(c, "wait end") /\ SameProcess(commands[c].identity) /\ World /\ Quiet /\ Go(c, "kill")
StopKill(c) ==
    /\ At(c, "kill") /\ UNCHANGED starts /\ Quiet
    /\ LET p == commands[c].identity.pid IN
       \/ ~Alive(p) /\ Leave(c, "error") /\ UNCHANGED <<procs, serverLock, port>>
       \/ Alive(p) /\ LeaveAs(c, "killed it", procs[p].what) /\ Exit(p)

\* The script is killed; write_text empties the file before it writes.
CutScript(c) ==
    /\ commands[c].step \notin OverSteps /\ Leave(c, "error") /\ World
    /\ IF At(c, "write file") THEN scriptCut' = TRUE /\ pidFile' \in {pidFile, NoRecord}
       ELSE UNCHANGED <<scriptCut, pidFile>>

ScriptNext ==
    \/ \E p \in Pids : \/ ServeLock(p) \/ Serve(p) \/ Bind(p)
                       \/ SpawnWorker(p) \/ LoadWorker(p) \/ EndWorker(p) \/ EndServer(p)
    \/ RunServe \/ StrangerServes \/ StrangerLeaves
    \/ \E c \in Commands : \/ BeginCommand(c) \/ BeginWait(c) \/ StartRecord(c) \/ StartChecks(c) \/ BuildFails(c)
                           \/ StartSpawn(c) \/ WriteFile(c) \/ WaitCheck(c) \/ WaitHealth(c)
                           \/ WaitParent(c) \/ WaitLong(c)
                           \/ StopRecord(c) \/ Terminate(c) \/ StopPoll(c) \/ StopLong(c) \/ StopKill(c) \/ CutScript(c)
ScriptSpec == ScriptInit /\ [][ScriptNext]_scriptVars

----
Servers == {p \in Pids : Alive(p) /\ procs[p].what = "server"}
Workers == {w \in Pids : Alive(w) /\ procs[w].what = "worker"}
Started(p) == Alive(p) /\ procs[p].what \in {"serve", "server"} /\ procs[p].parent \in Commands

(* One server at a time runs of those that the script starts, with one worker *)
(* of its own: none beside the worker of one that was killed, which may still *)
(* have the device and still has the lock (qwasar.py:99, :102). Ready is said  *)
(* of the very process that was asked for, whoever answers at the port, and   *)
(* no other process is signalled. What `start` started is on record, unless   *)
(* a start was cut short before that.                                         *)
OneManaged ==
    /\ \A p \in Servers : \A q \in Servers \cup Workers : q = p \/ procs[q].parent = p
    /\ \A v, w \in Workers : v = w
    /\ \A c \in Commands : commands[c].hit \in {"nothing", "own", "serve", "server"}
    /\ \A p \in Pids : Started(p) => \/ scriptCut
                                     \/ pidFile = [pid |-> p, start |-> procs[p].start]
                                     \/ \E c \in Commands : /\ At(c, "write file")
                                                            /\ commands[c].identity = [pid |-> p, start |-> procs[p].start]
=============================================================================
