----------------------------- MODULE ScriptProofs -----------------------------
(* What the scripts promise, for every number of processes and of calls: the *)
(* venv that check calls ready holds the patched extension (Bootstrap), and  *)
(* one managed server runs at a time, with one worker, is the one that is    *)
(* waited for and signalled, and is on record (ServerScript), and the        *)
(* settings of the user's agents are kept (Settings).                        *)
EXTENDS Bootstrap, ServerScript, Settings, OrderLemmas, TLAPS

----
(* Bootstrap.                                                                 *)
Sources == {"absent", "upstream", "other", "patched"}
DiskTypes ==
    /\ disk \in [python : BOOLEAN, torch : BOOLEAN, gdn : Sources, built : Sources \cup {"none"},
                 kernel : Sources, cutlass : BOOLEAN]
    /\ cutShort \in BOOLEAN

\* A build beside the patched source is the build of it, or gone; but while
\* the old one is about to be unlinked, and after that was cut short.
BuildFits == disk.gdn = "patched" /\ step # "unlink" /\ ~cutShort => disk.built \in {"none", "patched"}

BootInv == DiskTypes /\ BuildFits

LEMMA BootStarts == ASSUME BootInit PROVE BootInv
<1>1. disk.gdn = "absent" /\ disk \in [python : BOOLEAN, torch : BOOLEAN, gdn : Sources, kernel : Sources,
                                       built : Sources \cup {"none"}, cutlass : BOOLEAN]
  BY DEF BootInit, NoVenv, Sources
<1>2. cutShort \in BOOLEAN
  BY DEF BootInit
<1> QED BY <1>1, <1>2 DEF BootInv, DiskTypes, BuildFits

LEMMA BootSteps == ASSUME BootInv, [BootNext]_bootVars PROVE BootInv'
<1>0. /\ disk \in [python : BOOLEAN, torch : BOOLEAN, gdn : Sources, built : Sources \cup {"none"},
                   kernel : Sources, cutlass : BOOLEAN]
      /\ cutShort \in BOOLEAN /\ BuildFits
  BY DEF BootInv, DiskTypes
<1>1. CASE Install
  BY <1>0, <1>1 DEF Install, Goto, BootInv, DiskTypes, BuildFits, Sources
<1>2. CASE Torch
  BY <1>0, <1>2 DEF Torch, Goto, BootInv, DiskTypes, BuildFits, Sources
<1>3. CASE Gdn
  BY <1>0, <1>3 DEF Gdn, Goto, BootInv, DiskTypes, BuildFits, Sources
<1>4. CASE Unlink
  BY <1>0, <1>4 DEF Unlink, Unlinked, Goto, BootInv, DiskTypes, BuildFits, Sources
<1>5. CASE Rebuild
  BY <1>0, <1>5 DEF Rebuild, Loaded, Goto, BootInv, DiskTypes, BuildFits, Sources
<1>6. CASE Flash
  BY <1>0, <1>6 DEF Flash, Goto, BootInv, DiskTypes, BuildFits, Sources
<1>7. CASE FlashPatch
  BY <1>0, <1>7 DEF FlashPatch, Goto, BootInv, DiskTypes, BuildFits, Sources
<1>8. CASE Finish
  BY <1>0, <1>8 DEF Finish, Goto, Same, BootInv, DiskTypes, BuildFits, Sources
<1>9. CASE CutShort
  BY <1>0, <1>9 DEF CutShort, Goto, BootInv, DiskTypes, BuildFits, Sources
<1>10. CASE BootOperator
  <2>1. step' = step
    BY <1>10 DEF BootOperator, Operator
  <2>2. CASE \E v \in {"upstream", "other"} : disk' = [disk EXCEPT !.gdn = v, !.built = v] /\ cutShort' = FALSE
    BY <1>0, <2>2 DEF BootInv, DiskTypes, BuildFits, Sources
  <2>3. CASE (\E v \in {"upstream", "other"} : disk' = [disk EXCEPT !.kernel = v]) /\ cutShort' = cutShort
    BY <1>0, <2>1, <2>3 DEF BootInv, DiskTypes, BuildFits, Sources
  <2>4. CASE Same
    BY <1>0, <2>1, <2>4 DEF Same, BootInv, DiskTypes, BuildFits, Sources
  <2> QED BY <1>10, <2>2, <2>3, <2>4 DEF BootOperator, Operator
<1>11. CASE UNCHANGED bootVars
  BY <1>0, <1>11 DEF bootVars, BootInv, DiskTypes, BuildFits, Sources
<1> QED
  BY <1>1, <1>2, <1>3, <1>4, <1>5, <1>6, <1>7, <1>8, <1>9, <1>10, <1>11 DEF BootNext

LEMMA BootHolds == ASSUME BootInv PROVE ReadyIsPatched
BY DEF BootInv, DiskTypes, BuildFits, Sources, ReadyIsPatched, Missing, Loaded

(* A venv in which check misses nothing imports an extension built from the   *)
(* patched source, at whatever step earlier installs were cut short, but for  *)
(* the one between the patch and the unlink (bootstrap_runtime.py:171).       *)
THEOREM VenvIsPatched == BootSpec => []ReadyIsPatched
<1>1. BootSpec => []BootInv
  BY BootStarts, BootSteps, PTL DEF BootSpec
<1>2. BootInv => ReadyIsPatched
  BY BootHolds
<1> QED BY <1>1, <1>2, PTL
----
(* ServerScript: what its values are.                                         *)
CommandSteps == {"idle", "start", "stop", "port", "build", "write file", "check", "health", "parent",
                 "signal", "wait end", "kill", "ready", "error", "stopped", "killed it"}
Hits    == {"nothing", "own", "serve", "server"}
Records == [pid : Nat, start : Nat]
Calls   == [step : CommandSteps, identity : Records, worker : Nat, hit : Hits]
WorldTypes ==
    /\ procs \in [Pids -> Processes \cup {Nobody}] /\ starts \in Nat
    /\ serverLock \subseteq Pids /\ port \in Pids \cup {0}
ScriptTypes ==
    /\ WorldTypes /\ pidFile \in Records /\ commands \in [Commands -> Calls] /\ scriptCut \in BOOLEAN

----
(* Whose child a process is, and how far each kind of process can be.         *)
Serving(p) == procs[p].what \in {"serve", "server"}
ChildOf(p, r) == \/ procs[p].what = "worker" /\ procs[r].what = "server"
                 \/ procs[p].what = "its worker" /\ procs[r].what = "stranger"
Families == \A p \in Pids : Alive(p) =>
    /\ Serving(p) => procs[p].parent \in Commands \cup {0} /\ procs[p].step # "ready"
    /\ procs[p].what = "serve" => procs[p].step \in {"lock", "gpu"}
    /\ procs[p].what = "worker" => procs[p].step \in {"loading", "ready"}
    /\ procs[p].what \in {"worker", "its worker"} => procs[p].parent \in Pids \cup {0}
    /\ procs[p].what = "stranger" => procs[p].parent = 0
    /\ \A r \in Pids : procs[p].parent = r => Alive(r) /\ ChildOf(p, r)

\* The lock of the server: who is past it has it, and its worker; nobody else
\* has, but for a worker that is left of a server that is gone.
MustHold(p) == procs[p].what \in {"server", "worker"} \/ (procs[p].what = "serve" /\ procs[p].step = "gpu")
WorkerOf(w, p) == procs[w].what = "worker" /\ procs[w].parent = p
LockHeld ==
    /\ \A p \in serverLock : Alive(p) /\ procs[p].what \in {"serve", "server", "worker"}
    /\ \A p \in Pids : Alive(p) /\ MustHold(p) => p \in serverLock
    /\ \A p, q \in serverLock : p = q \/ WorkerOf(q, p) \/ WorkerOf(p, q)

WorldInv == WorldTypes /\ Families /\ LockHeld

\* A process that is there after a step was there before it, or has a number
\* that nobody looks at; one that was there is what it was.
Kept(q) ==
    /\ Alive(q) /\ procs'[q].start = procs[q].start
    /\ procs[q].step = "ready" => procs'[q].step = "ready"
    /\ Serving(q)' <=> Serving(q)
    /\ procs'[q].parent \in {procs[q].parent, 0}
Follows   == \A q \in Pids : Alive(q)' => Kept(q) \/ q \in Free
Unstarted == \A q \in Pids : Alive(q)' => Kept(q) \/ procs'[q].parent \notin Commands

LEMMA Numbers == 0 \notin Pids /\ 0 \notin Commands /\ Pids \subseteq Nat /\ Commands \subseteq Nat
                 /\ \A p \in Pids : p \notin Commands
BY ScriptAssumption

\* A process goes a step further.
LEMMA StepMoves ==
    ASSUME WorldTypes, NEW p \in Pids, Alive(p), NEW s \in {"gpu", "open", "closing", "ready"}, StepTo(p, s)
    PROVE  /\ procs' \in [Pids -> Processes \cup {Nobody}]
           /\ \A q \in Pids : q # p => procs'[q] = procs[q]
           /\ Alive(p)' /\ procs'[p].what = procs[p].what /\ procs'[p].step = s
           /\ procs'[p].parent = procs[p].parent /\ procs'[p].start = procs[p].start
<1>1. procs \in [Pids -> Processes \cup {Nobody}] /\ procs[p] \in Processes
  BY DEF WorldTypes, Alive
<1>2. procs' = [procs EXCEPT ![p] = [procs[p] EXCEPT !.step = s]]
  BY <1>1 DEF StepTo
<1>3. [procs[p] EXCEPT !.step = s] \in Processes
  BY <1>1 DEF Processes
<1>4. procs'[p] = [procs[p] EXCEPT !.step = s] /\ \A q \in Pids : q # p => procs'[q] = procs[q]
  BY <1>1, <1>2
<1>5. procs' \in [Pids -> Processes \cup {Nobody}]
  BY <1>1, <1>2, <1>3
<1>6. Alive(p)'
  BY <1>3, <1>4, ScriptAssumption DEF Alive
<1> QED BY <1>1, <1>4, <1>5, <1>6 DEF Processes

\* A process takes a number that is free.
LEMMA Becoming ==
    ASSUME WorldTypes, NEW p \in Free, NEW process \in Processes, Become(p, process)
    PROVE  /\ p \in Pids /\ ~Alive(p)
           /\ procs' \in [Pids -> Processes \cup {Nobody}] /\ starts' \in Nat
           /\ \A q \in Pids : q # p => procs'[q] = procs[q]
           /\ Alive(p)' /\ procs'[p] = process
<1>1. p \in Pids /\ ~Alive(p) /\ procs \in [Pids -> Processes \cup {Nobody}] /\ starts \in Nat
  BY DEF WorldTypes, Free
<1>2. procs' = [procs EXCEPT ![p] = process] /\ starts' = starts + 1
  BY DEF Become
<1> QED BY <1>1, <1>2, ScriptAssumption DEF Alive

\* A process ends, and its children are nobody's.
LEMMA Exits ==
    ASSUME WorldTypes, Families, LockHeld, NEW p \in Pids, Alive(p), Exit(p), starts' = starts
    PROVE  WorldInv' /\ Follows /\ Unstarted
<1>1. /\ procs \in [Pids -> Processes \cup {Nobody}] /\ procs' = TakenBack(p)
      /\ serverLock' = serverLock \ {p} /\ serverLock \subseteq Pids
  BY DEF WorldTypes, Exit
<1>2. ASSUME NEW q \in Pids, q = p \/ ~Alive(q)
      PROVE  procs'[q] = Nobody /\ ~Alive(q)'
  BY <1>1, <1>2 DEF TakenBack, Alive
<1>3. ASSUME NEW q \in Pids, q # p, Alive(q)
      PROVE  /\ procs'[q] \in Processes /\ Alive(q)' /\ procs'[q].what = procs[q].what
             /\ procs'[q].step = procs[q].step /\ procs'[q].start = procs[q].start
             /\ procs'[q].parent = IF procs[q].parent = p THEN 0 ELSE procs[q].parent
  <2>1. procs[q] \in Processes
    BY <1>1, <1>3 DEF Alive
  <2>2. procs'[q] = IF procs[q].parent # p THEN procs[q] ELSE [procs[q] EXCEPT !.parent = 0]
    BY <1>1, <1>3 DEF TakenBack
  <2>3. [procs[q] EXCEPT !.parent = 0] \in Processes
    BY <2>1 DEF Processes
  <2>4. Alive(q)'
    BY <2>1, <2>2, <2>3, ScriptAssumption DEF Alive
  <2> QED BY <2>1, <2>2, <2>3, <2>4 DEF Processes
<1>4. WorldTypes'
  <2>1. procs' \in [Pids -> Processes \cup {Nobody}]
    <3>1. procs' = [q \in Pids |-> procs'[q]]
      BY <1>1 DEF TakenBack
    <3>2. \A q \in Pids : procs'[q] \in Processes \cup {Nobody}
      BY <1>2, <1>3
    <3> QED BY <3>1, <3>2
  <2>2. port' \in Pids \cup {0}
    BY DEF WorldTypes, Exit
  <2> QED BY <1>1, <2>1, <2>2 DEF WorldTypes
<1>5. Families'
  <2>1. ASSUME NEW q \in Pids, Alive(q)'
        PROVE  /\ Serving(q)' => procs'[q].parent \in Commands \cup {0} /\ procs'[q].step # "ready"
               /\ procs'[q].what = "serve" => procs'[q].step \in {"lock", "gpu"}
               /\ procs'[q].what = "worker" => procs'[q].step \in {"loading", "ready"}
               /\ procs'[q].what \in {"worker", "its worker"} => procs'[q].parent \in Pids \cup {0}
               /\ procs'[q].what = "stranger" => procs'[q].parent = 0
    <3>1. Alive(q) /\ q # p
      BY <1>2, <2>1
    <3>2. procs'[q].parent \in {procs[q].parent, 0} /\ procs'[q].what = procs[q].what /\ procs'[q].step = procs[q].step
      BY <1>3, <3>1
    <3> QED BY <3>1, <3>2 DEF Families, Serving
  <2>2. ASSUME NEW q \in Pids, Alive(q)', NEW r \in Pids, procs'[q].parent = r
        PROVE  Alive(r)' /\ ChildOf(q, r)'
    <3>1. Alive(q) /\ q # p /\ procs'[q].parent = procs[q].parent /\ procs[q].parent # p /\ procs'[q].what = procs[q].what
      BY <1>2, <1>3, <2>2, Numbers
    <3>2. Alive(r) /\ r # p /\ ChildOf(q, r)
      BY <3>1, <2>2 DEF Families
    <3>3. Alive(r)' /\ procs'[r].what = procs[r].what
      BY <1>3, <3>2
    <3> QED BY <3>1, <3>2, <3>3 DEF ChildOf
  <2> QED BY <2>1, <2>2 DEF Families
<1>6. LockHeld'
  <2>1. ASSUME NEW q \in serverLock' PROVE Alive(q)' /\ procs'[q].what \in {"serve", "server", "worker"}
    BY <1>1, <1>3, <2>1 DEF LockHeld
  <2>2. ASSUME NEW q \in Pids, Alive(q)', MustHold(q)' PROVE q \in serverLock'
    BY <1>1, <1>2, <1>3, <2>2 DEF LockHeld, MustHold
  <2>3. ASSUME NEW q \in serverLock', NEW r \in serverLock', q # r
        PROVE  WorkerOf(r, q)' \/ WorkerOf(q, r)'
    <3>1. q \in serverLock /\ r \in serverLock /\ q # p /\ r # p /\ q \in Pids /\ r \in Pids /\ Alive(q) /\ Alive(r)
      BY <1>1 DEF LockHeld
    <3> QED BY <3>1, <1>3, <2>3 DEF LockHeld, WorkerOf
  <2> QED BY <2>1, <2>2, <2>3 DEF LockHeld
<1>7. Follows /\ Unstarted
  BY <1>2, <1>3 DEF Follows, Unstarted, Kept, Serving
<1> QED BY <1>4, <1>5, <1>6, <1>7 DEF WorldInv
\* A process goes on, and has the lock where that is past it.
LEMMA Steps ==
    ASSUME WorldInv, NEW p \in Pids, Alive(p), NEW s \in {"gpu", "open", "closing", "ready"}, StepTo(p, s),
           starts' = starts, port' \in Pids \cup {0},
           \/ procs[p].what = "serve" /\ s = "gpu" /\ serverLock = {} /\ serverLock' = {p}
           \/ procs[p].what = "server" /\ s \in {"open", "closing"} /\ serverLock' = serverLock
           \/ procs[p].what = "worker" /\ s = "ready" /\ serverLock' = serverLock
    PROVE  WorldInv' /\ Follows /\ Unstarted
<1>0. WorldTypes /\ Families /\ LockHeld
  BY DEF WorldInv
<1>1. /\ procs' \in [Pids -> Processes \cup {Nobody}]
      /\ \A q \in Pids : q # p => procs'[q] = procs[q]
      /\ Alive(p)' /\ procs'[p].what = procs[p].what /\ procs'[p].step = s
      /\ procs'[p].parent = procs[p].parent /\ procs'[p].start = procs[p].start
  BY <1>0, StepMoves
<1>2. WorldTypes'
  BY <1>0, <1>1 DEF WorldTypes
<1>3. ASSUME NEW q \in Pids
      PROVE  /\ Alive(q)' <=> Alive(q)
             /\ Alive(q) => /\ procs'[q].what = procs[q].what /\ procs'[q].parent = procs[q].parent
                            /\ procs'[q].start = procs[q].start /\ procs'[q].step \in {procs[q].step, s}
                            /\ q # p => procs'[q].step = procs[q].step
  BY <1>1 DEF Alive
<1>4. procs[p].step # "ready" \/ s = "ready"
  BY <1>0 DEF Families, Serving
<1>5. Families'
  <2>1. ASSUME NEW q \in Pids, Alive(q)'
        PROVE  /\ Serving(q)' => procs'[q].parent \in Commands \cup {0} /\ procs'[q].step # "ready"
               /\ procs'[q].what = "serve" => procs'[q].step \in {"lock", "gpu"}
               /\ procs'[q].what = "worker" => procs'[q].step \in {"loading", "ready"}
               /\ procs'[q].what \in {"worker", "its worker"} => procs'[q].parent \in Pids \cup {0}
               /\ procs'[q].what = "stranger" => procs'[q].parent = 0
    <3>1. CASE q = p
      BY <1>0, <1>1, <1>3, <2>1, <3>1 DEF Families, Serving
    <3>2. CASE q # p
      BY ZenonT(30), <1>0, <1>3, <2>1, <3>2 DEF Families, Serving
    <3> QED BY <3>1, <3>2
  <2>2. ASSUME NEW q \in Pids, Alive(q)', NEW r \in Pids, procs'[q].parent = r
        PROVE  Alive(r)' /\ ChildOf(q, r)'
    <3>1. Alive(q) /\ Alive(r) /\ ChildOf(q, r)
      BY <1>0, <1>3, <2>2 DEF Families
    <3> QED BY <3>1, <1>3 DEF ChildOf
  <2> QED BY <2>1, <2>2 DEF Families
<1>6. LockHeld'
  <2>1. CASE procs[p].what = "serve" /\ s = "gpu" /\ serverLock = {} /\ serverLock' = {p}
    <3>1. \A q \in Pids : Alive(q)' /\ MustHold(q)' => q = p
      BY <1>0, <1>1, <1>3, <2>1 DEF LockHeld, MustHold
    <3> QED BY <1>1, <2>1, <3>1 DEF LockHeld
  <2>2. CASE procs[p].what \in {"server", "worker"} /\ serverLock' = serverLock
    <3>1. ASSUME NEW q \in Pids, Alive(q)', MustHold(q)' PROVE q \in serverLock'
      <4>1. Alive(q) /\ MustHold(q)
        BY <1>3, <2>2, <3>1 DEF MustHold
      <4> QED BY <4>1, <1>0, <2>2 DEF LockHeld
    <3>2. ASSUME NEW q \in serverLock' PROVE Alive(q)' /\ procs'[q].what \in {"serve", "server", "worker"}
      BY <1>0, <1>3, <2>2 DEF LockHeld, WorldTypes
    <3>3. ASSUME NEW q \in serverLock', NEW r \in serverLock', q # r
          PROVE  WorkerOf(r, q)' \/ WorkerOf(q, r)'
      <4>1. q \in Pids /\ r \in Pids /\ Alive(q) /\ Alive(r) /\ (WorkerOf(r, q) \/ WorkerOf(q, r))
        BY <1>0, <2>2, <3>3 DEF LockHeld, WorldTypes
      <4> QED BY <4>1, <1>3 DEF WorkerOf
    <3> QED BY <3>1, <3>2, <3>3 DEF LockHeld
  <2> QED BY <2>1, <2>2
<1>7. \A q \in Pids : Alive(q)' => Kept(q)
  <2> SUFFICES ASSUME NEW q \in Pids, Alive(q)' PROVE Kept(q)
    OBVIOUS
  <2>1. procs[q].step = "ready" => procs'[q].step = "ready"
    BY <1>1, <1>3, <1>4
  <2> QED BY <2>1, <1>3 DEF Kept, Serving
<1> QED BY <1>2, <1>5, <1>6, <1>7 DEF WorldInv, Follows, Unstarted

\* `serve` becomes the server, with the lock that it has.
LEMMA Execs ==
    ASSUME WorldInv, NEW p \in Pids, Is(p, "serve", "gpu"), Exec(p), UNCHANGED <<starts, port>>
    PROVE  WorldInv' /\ Follows /\ Unstarted
<1>0. WorldTypes /\ Families /\ LockHeld /\ Alive(p) /\ procs[p].what = "serve" /\ procs[p].step = "gpu"
  BY DEF WorldInv, Is
<1>1. procs \in [Pids -> Processes \cup {Nobody}] /\ procs[p] \in Processes /\ serverLock' = serverLock
  BY <1>0 DEF WorldTypes, Alive, Exec
<1>2. procs' = [procs EXCEPT ![p] = [procs[p] EXCEPT !.what = "server", !.step = "bind"]]
  BY <1>1 DEF Exec
<1>3. [procs[p] EXCEPT !.what = "server", !.step = "bind"] \in Processes
  BY <1>1 DEF Processes
<1>4. procs'[p] = [procs[p] EXCEPT !.what = "server", !.step = "bind"] /\ \A q \in Pids : q # p => procs'[q] = procs[q]
  BY <1>1, <1>2
<1>5. WorldTypes'
  BY <1>0, <1>1, <1>2, <1>3 DEF WorldTypes
<1>6. /\ Alive(p)' /\ procs'[p].what = "server" /\ procs'[p].step = "bind"
      /\ procs'[p].parent = procs[p].parent /\ procs'[p].start = procs[p].start
  BY <1>1, <1>3, <1>4, ScriptAssumption DEF Alive, Processes
<1>7. \A q \in Pids : Alive(q)' <=> Alive(q)
  BY <1>0, <1>4, <1>6 DEF Alive
<1>8. Families'
  <2>1. ASSUME NEW q \in Pids, Alive(q)'
        PROVE  /\ Serving(q)' => procs'[q].parent \in Commands \cup {0} /\ procs'[q].step # "ready"
               /\ procs'[q].what = "serve" => procs'[q].step \in {"lock", "gpu"}
               /\ procs'[q].what = "worker" => procs'[q].step \in {"loading", "ready"}
               /\ procs'[q].what \in {"worker", "its worker"} => procs'[q].parent \in Pids \cup {0}
               /\ procs'[q].what = "stranger" => procs'[q].parent = 0
    <3>1. CASE q = p
      BY <1>0, <1>6, <3>1 DEF Families, Serving
    <3>2. CASE q # p
      BY <1>0, <1>4, <1>7, <2>1, <3>2 DEF Families, Serving
    <3> QED BY <3>1, <3>2
  <2>2. ASSUME NEW q \in Pids, Alive(q)', NEW r \in Pids, procs'[q].parent = r
        PROVE  Alive(r)' /\ ChildOf(q, r)'
    <3>1. Alive(q) /\ Alive(r) /\ ChildOf(q, r)
      <4>1. procs[q].parent = r
        BY <1>4, <1>6, <2>2
      <4> QED BY <4>1, <1>0, <1>7, <2>2 DEF Families
    <3>2. q # p /\ r # p
      BY <3>1, <1>0 DEF ChildOf
    <3> QED BY <3>1, <3>2, <1>4, <1>7 DEF ChildOf
  <2> QED BY <2>1, <2>2 DEF Families
<1>9. LockHeld'
  <2>1. p \in serverLock
    BY <1>0 DEF LockHeld, MustHold
  <2>2. ASSUME NEW q \in Pids, Alive(q)', MustHold(q)' PROVE q \in serverLock'
    <3>1. q # p => q \in serverLock
      BY <1>0, <1>4, <1>7, <2>2 DEF LockHeld, MustHold
    <3> QED BY <2>1, <3>1, <1>1
  <2>3. ASSUME NEW q \in serverLock' PROVE Alive(q)' /\ procs'[q].what \in {"serve", "server", "worker"}
    <3>1. q \in serverLock /\ q \in Pids /\ Alive(q) /\ procs[q].what \in {"serve", "server", "worker"}
      BY <1>0, <1>1 DEF LockHeld, WorldTypes
    <3> QED BY <3>1, <1>4, <1>6, <1>7
  <2>4. ASSUME NEW q \in serverLock', NEW r \in serverLock', q # r
        PROVE  WorkerOf(r, q)' \/ WorkerOf(q, r)'
    <3>1. q \in Pids /\ r \in Pids /\ (WorkerOf(r, q) \/ WorkerOf(q, r))
      BY <1>0, <1>1, <2>4 DEF LockHeld, WorldTypes
    <3>2. \A a, b \in Pids : WorkerOf(a, b) => WorkerOf(a, b)'
      BY <1>0, <1>4 DEF WorkerOf
    <3> QED BY <3>1, <3>2
  <2> QED BY <2>2, <2>3, <2>4 DEF LockHeld
<1>10. \A q \in Pids : Alive(q)' => Kept(q)
  <2> SUFFICES ASSUME NEW q \in Pids, Alive(q)' PROVE Kept(q)
    OBVIOUS
  <2>1. CASE q = p
    BY <2>1, <1>0, <1>6 DEF Kept, Serving
  <2>2. CASE q # p
    BY <2>2, <1>4, <1>7 DEF Kept, Serving
  <2> QED BY <2>1, <2>2
<1> QED BY <1>5, <1>8, <1>9, <1>10 DEF WorldInv, Follows, Unstarted
\* A process begins: `serve`, or the only worker of the server that has the lock.
LEMMA Begins ==
    ASSUME WorldInv, NEW p \in Free, NEW process \in Processes, Become(p, process), port' = port,
           \/ /\ process.what = "serve" /\ process.step = "lock" /\ process.parent \in Commands \cup {0}
              /\ serverLock' = serverLock
           \/ \E r \in Pids : /\ process.what = "worker" /\ process.step = "loading" /\ process.parent = r
                              /\ Is(r, "server", "open") /\ ~HasWorker(r) /\ serverLock' = serverLock \cup {p}
    PROVE  WorldInv' /\ Follows /\ (process.parent \notin Commands => Unstarted)
<1>0. WorldTypes /\ Families /\ LockHeld
  BY DEF WorldInv
<1>1. /\ p \in Pids /\ ~Alive(p)
      /\ procs' \in [Pids -> Processes \cup {Nobody}] /\ starts' \in Nat
      /\ \A q \in Pids : q # p => procs'[q] = procs[q]
      /\ Alive(p)' /\ procs'[p] = process
  BY <1>0, Becoming
<1>2. WorldTypes'
  BY <1>0, <1>1 DEF WorldTypes
<1>3. \A q \in Pids : q # p => (Alive(q)' <=> Alive(q))
  BY <1>1 DEF Alive
<1>4. ASSUME NEW q \in Pids, Alive(q) PROVE procs[q].parent # p
  BY <1>0, <1>1, <1>4 DEF Families
<1>5. p \notin serverLock
  BY <1>0, <1>1 DEF LockHeld
<1>6. Families'
  <2>1. ASSUME NEW q \in Pids, Alive(q)'
        PROVE  /\ Serving(q)' => procs'[q].parent \in Commands \cup {0} /\ procs'[q].step # "ready"
               /\ procs'[q].what = "serve" => procs'[q].step \in {"lock", "gpu"}
               /\ procs'[q].what = "worker" => procs'[q].step \in {"loading", "ready"}
               /\ procs'[q].what \in {"worker", "its worker"} => procs'[q].parent \in Pids \cup {0}
               /\ procs'[q].what = "stranger" => procs'[q].parent = 0
    <3>1. CASE q = p
      BY <1>1, <3>1 DEF Serving
    <3>2. CASE q # p
      BY <1>0, <1>1, <1>3, <2>1, <3>2 DEF Families, Serving
    <3> QED BY <3>1, <3>2
  <2>2. ASSUME NEW q \in Pids, Alive(q)', NEW r \in Pids, procs'[q].parent = r
        PROVE  Alive(r)' /\ ChildOf(q, r)'
    <3>1. CASE q = p
      <4>1. process.what = "worker" /\ Is(r, "server", "open")
        BY <1>1, <2>2, <3>1, Numbers
      <4>2. r # p /\ procs'[r].what = "server"
        BY <4>1, <1>1 DEF Is
      <4> QED BY <4>1, <4>2, <1>1, <1>3, <3>1 DEF Is, ChildOf
    <3>2. CASE q # p
      <4>1. Alive(q) /\ procs[q].parent = r
        BY <1>1, <1>3, <2>2, <3>2
      <4>2. Alive(r) /\ ChildOf(q, r) /\ r # p
        BY <4>1, <1>0, <1>4 DEF Families
      <4> QED BY <4>2, <3>2, <1>1, <1>3 DEF ChildOf
    <3> QED BY <3>1, <3>2
  <2> QED BY <2>1, <2>2 DEF Families
<1>7. \A q \in serverLock : q \in Pids /\ q # p /\ Alive(q) /\ Alive(q)' /\ procs'[q] = procs[q]
  BY <1>0, <1>1, <1>3, <1>5 DEF LockHeld, WorldTypes
<1>8. LockHeld'
  <2>1. CASE process.what = "serve" /\ process.step = "lock" /\ serverLock' = serverLock
    <3>1. ASSUME NEW q \in Pids, Alive(q)', MustHold(q)' PROVE q \in serverLock'
      <4>1. q # p
        BY <1>1, <2>1, <3>1 DEF MustHold
      <4> QED BY <4>1, <1>0, <1>1, <1>3, <2>1, <3>1 DEF LockHeld, MustHold
    <3>2. ASSUME NEW q \in serverLock' PROVE Alive(q)' /\ procs'[q].what \in {"serve", "server", "worker"}
      BY <1>0, <1>7, <2>1 DEF LockHeld
    <3>3. ASSUME NEW q \in serverLock', NEW r \in serverLock', q # r
          PROVE  WorkerOf(r, q)' \/ WorkerOf(q, r)'
      <4>1. WorkerOf(r, q) \/ WorkerOf(q, r)
        BY <1>0, <2>1, <3>3 DEF LockHeld
      <4>2. procs'[q] = procs[q] /\ procs'[r] = procs[r]
        BY <1>7, <2>1
      <4> QED BY <4>1, <4>2 DEF WorkerOf
    <3> QED BY <3>1, <3>2, <3>3 DEF LockHeld
  <2>2. ASSUME NEW r \in Pids, process.what = "worker", process.parent = r, Is(r, "server", "open"),
               ~HasWorker(r), serverLock' = serverLock \cup {p}
        PROVE  LockHeld'
    <3>1. r \in serverLock /\ Alive(r) /\ procs[r].what = "server"
      BY <1>0, <2>2 DEF LockHeld, MustHold, Is
    <3>2. serverLock = {r}
      <4> SUFFICES ASSUME NEW q \in serverLock, q # r PROVE FALSE
        BY <3>1
      <4>1. WorkerOf(q, r)
        BY <3>1, <1>0 DEF LockHeld, WorkerOf
      <4> QED BY <4>1, <1>7, <2>2 DEF HasWorker, WorkerOf
    <3>3. ASSUME NEW q \in Pids, Alive(q)', MustHold(q)' PROVE q \in serverLock'
      <4>1. CASE q = p
        BY <4>1, <2>2
      <4>2. CASE q # p
        BY <4>2, <1>0, <1>1, <1>3, <2>2, <3>3 DEF LockHeld, MustHold
      <4> QED BY <4>1, <4>2
    <3>4. WorkerOf(p, r)'
      BY <1>1, <2>2 DEF WorkerOf
    <3>5. Alive(r)' /\ procs'[r].what = "server" /\ procs'[p].what = "worker"
      BY <1>1, <1>7, <2>2, <3>1
    <3> QED BY <1>1, <2>2, <3>2, <3>3, <3>4, <3>5 DEF LockHeld
  <2> QED BY <2>1, <2>2
<1>9. \A q \in Pids : q # p /\ Alive(q)' => Kept(q)
  BY <1>1, <1>3 DEF Kept, Serving
<1> QED BY <1>1, <1>2, <1>6, <1>8, <1>9 DEF WorldInv, Follows, Unstarted

LEMMA ProcessFields ==
    ASSUME NEW x, NEW a, NEW b, NEW d, x = Process(a, b, d)
    PROVE  x.what = a /\ x.step = b /\ x.parent = d
BY DEF Process

LEMMA StrangersServe ==
    ASSUME WorldInv, StrangerServes
    PROVE  WorldInv' /\ Follows /\ Unstarted
<1>0. WorldTypes /\ Families /\ LockHeld
  BY DEF WorldInv
<1>1. PICK p \in NewPid, w \in Free :
         /\ p # w /\ port' = p
         /\ procs' = [procs EXCEPT ![p] = Process("stranger", "open", 0), ![w] = Process("its worker", "ready", p)]
  BY DEF StrangerServes
<1>2. p \in Free /\ p \in Pids /\ w \in Pids /\ ~Alive(p) /\ ~Alive(w) /\ starts' = starts + 1 /\ serverLock' = serverLock
  BY DEF NewPid, Free, StrangerServes
<1>3. procs \in [Pids -> Processes \cup {Nobody}] /\ starts \in Nat
  BY <1>0 DEF WorldTypes
<1>p. Process("stranger", "open", 0) \in Processes /\ Process("its worker", "ready", p) \in Processes
  <2>1. starts + 1 \in Nat /\ p \in Nat /\ 0 \in Nat
    BY <1>2, <1>3, Numbers
  <2> QED BY <2>1 DEF Processes, Process
<1>q. /\ procs'[p] = Process("stranger", "open", 0) /\ procs'[w] = Process("its worker", "ready", p)
      /\ \A q \in Pids : q # p /\ q # w => procs'[q] = procs[q]
  BY <1>1, <1>2, <1>3
<1>4. /\ procs'[p].what = "stranger" /\ procs'[p].step = "open" /\ procs'[p].parent = 0
      /\ procs'[w].what = "its worker" /\ procs'[w].step = "ready" /\ procs'[w].parent = p
      /\ \A q \in Pids : q # p /\ q # w => procs'[q] = procs[q]
  <2>1. PICK x, y : x = procs'[p] /\ y = procs'[w]
    OBVIOUS
  <2>2. x.what = "stranger" /\ x.step = "open" /\ x.parent = 0
    <3>1. x = Process("stranger", "open", 0)
      BY <1>q, <2>1
    <3> QED BY <3>1, ProcessFields
  <2>3. y.what = "its worker" /\ y.step = "ready" /\ y.parent = p
    <3>1. y = Process("its worker", "ready", p)
      BY <1>q, <2>1
    <3> QED BY <3>1 DEF Process
  <2> QED BY <1>q, <2>1, <2>2, <2>3
<1>5. procs'[p] \in Processes /\ procs'[w] \in Processes
  BY <1>p, <1>q
<1>6. WorldTypes'
  <2>1. procs' \in [Pids -> Processes \cup {Nobody}]
    BY <1>1, <1>3, <1>p
  <2>2. starts' \in Nat
    BY <1>2, <1>3
  <2> QED BY <2>1, <2>2, <1>0, <1>1, <1>2 DEF WorldTypes
<1>7. Alive(p)' /\ Alive(w)' /\ \A q \in Pids : q # p /\ q # w => (Alive(q)' <=> Alive(q))
  BY <1>2, <1>4, <1>5, ScriptAssumption DEF Alive
<1>8. ASSUME NEW q \in Pids, Alive(q) PROVE procs[q].parent # p /\ procs[q].parent # w /\ q # p /\ q # w
  BY <1>0, <1>2, <1>8 DEF Families
<1>9. Families'
  <2>1. ASSUME NEW q \in Pids, Alive(q)'
        PROVE  /\ Serving(q)' => procs'[q].parent \in Commands \cup {0} /\ procs'[q].step # "ready"
               /\ procs'[q].what = "serve" => procs'[q].step \in {"lock", "gpu"}
               /\ procs'[q].what = "worker" => procs'[q].step \in {"loading", "ready"}
               /\ procs'[q].what \in {"worker", "its worker"} => procs'[q].parent \in Pids \cup {0}
               /\ procs'[q].what = "stranger" => procs'[q].parent = 0
    <3>1. CASE q = p \/ q = w
      BY <1>2, <1>4, <3>1 DEF Serving
    <3>2. CASE q # p /\ q # w
      BY ZenonT(30), <1>0, <1>4, <1>7, <2>1, <3>2 DEF Families, Serving
    <3> QED BY <3>1, <3>2
  <2>2. ASSUME NEW q \in Pids, Alive(q)', NEW r \in Pids, procs'[q].parent = r
        PROVE  Alive(r)' /\ ChildOf(q, r)'
    <3>1. CASE q = p
      BY <1>4, <2>2, <3>1, Numbers
    <3>2. CASE q = w
      <4>1. r = p
        BY <1>4, <2>2, <3>2
      <4> QED BY <4>1, <3>2, <1>4, <1>7 DEF ChildOf
    <3>3. CASE q # p /\ q # w
      <4>1. Alive(q) /\ procs[q].parent = r
        BY <1>4, <1>7, <2>2, <3>3
      <4>2. Alive(r) /\ ChildOf(q, r) /\ r # p /\ r # w
        BY <4>1, <1>0, <1>8 DEF Families
      <4> QED BY <4>2, <3>3, <1>4, <1>7 DEF ChildOf
    <3> QED BY <3>1, <3>2, <3>3
  <2> QED BY <2>1, <2>2 DEF Families
<1>10. \A q \in serverLock : q \in Pids /\ Alive(q) /\ Alive(q)' /\ procs'[q] = procs[q]
  BY <1>0, <1>4, <1>7, <1>8 DEF LockHeld, WorldTypes
<1>11. LockHeld'
  <2>1. ASSUME NEW q \in Pids, Alive(q)', MustHold(q)' PROVE q \in serverLock'
    <3>1. q # p /\ q # w
      BY <1>4, <2>1 DEF MustHold
    <3> QED BY <3>1, <1>0, <1>2, <1>4, <1>7, <2>1 DEF LockHeld, MustHold
  <2>2. ASSUME NEW q \in serverLock' PROVE Alive(q)' /\ procs'[q].what \in {"serve", "server", "worker"}
    BY <1>0, <1>2, <1>10 DEF LockHeld
  <2>3. ASSUME NEW q \in serverLock', NEW r \in serverLock', q # r
        PROVE  WorkerOf(r, q)' \/ WorkerOf(q, r)'
    <3>1. WorkerOf(r, q) \/ WorkerOf(q, r)
      BY <1>0, <1>2, <2>3 DEF LockHeld
    <3>2. procs'[q] = procs[q] /\ procs'[r] = procs[r]
      BY <1>2, <1>10
    <3> QED BY <3>1, <3>2 DEF WorkerOf
  <2> QED BY <2>1, <2>2, <2>3 DEF LockHeld
<1>12. \A q \in Pids : q # p /\ q # w /\ Alive(q)' => Kept(q)
  BY <1>4, <1>7 DEF Kept, Serving
<1>13. procs'[p].parent \notin Commands /\ procs'[w].parent \notin Commands
  BY <1>2, <1>4, Numbers
<1> QED BY <1>2, <1>6, <1>9, <1>11, <1>12, <1>13 DEF WorldInv, Follows, Unstarted

LEMMA StrangersLeave ==
    ASSUME WorldInv, StrangerLeaves
    PROVE  WorldInv' /\ Follows /\ Unstarted
<1>0. WorldTypes /\ Families /\ LockHeld
  BY DEF WorldInv
<1>1. PICK p \in Pids :
         /\ Is(p, "stranger", "open") /\ port' = 0
         /\ procs' = [q \in Pids |-> IF q = p \/ (Alive(q) /\ procs[q].parent = p) THEN Nobody ELSE procs[q]]
  BY DEF StrangerLeaves
<1>2. procs \in [Pids -> Processes \cup {Nobody}] /\ UNCHANGED <<starts, serverLock>> /\ Alive(p) /\ procs[p].what = "stranger"
  BY <1>0, <1>1 DEF WorldTypes, StrangerLeaves, Is
<1>3. ASSUME NEW q \in Pids
      PROVE  /\ Alive(q)' => Alive(q) /\ q # p /\ procs[q].parent # p /\ procs'[q] = procs[q]
             /\ Alive(q) /\ q # p /\ procs[q].parent # p => Alive(q)' /\ procs'[q] = procs[q]
  BY <1>1 DEF Alive
<1>4. ASSUME NEW q \in Pids, Alive(q), procs[q].what \in {"serve", "server", "worker"}
      PROVE  q # p /\ procs[q].parent # p
  <2>1. procs[q].parent = p => ChildOf(q, p)
    BY <1>0, <1>4 DEF Families
  <2> QED BY <2>1, <1>2, <1>4 DEF ChildOf
<1>5. WorldTypes'
  BY <1>0, <1>1, <1>2 DEF WorldTypes
<1>6. Families'
  <2>1. ASSUME NEW q \in Pids, Alive(q)'
        PROVE  /\ Serving(q)' => procs'[q].parent \in Commands \cup {0} /\ procs'[q].step # "ready"
               /\ procs'[q].what = "serve" => procs'[q].step \in {"lock", "gpu"}
               /\ procs'[q].what = "worker" => procs'[q].step \in {"loading", "ready"}
               /\ procs'[q].what \in {"worker", "its worker"} => procs'[q].parent \in Pids \cup {0}
               /\ procs'[q].what = "stranger" => procs'[q].parent = 0
    BY <1>0, <1>3, <2>1 DEF Families, Serving
  <2>2. ASSUME NEW q \in Pids, Alive(q)', NEW r \in Pids, procs'[q].parent = r
        PROVE  Alive(r)' /\ ChildOf(q, r)'
    <3>1. Alive(q) /\ procs[q].parent = r /\ r # p /\ procs'[q] = procs[q]
      BY <1>3, <2>2
    <3>2. Alive(r) /\ ChildOf(q, r)
      BY <3>1, <1>0 DEF Families
    <3>3. procs[r].parent # p
      <4>1. procs[r].what \in {"server", "stranger"}
        BY <3>2 DEF ChildOf
      <4>2. CASE procs[r].what = "server"
        BY <4>2, <3>2, <1>4
      <4>3. CASE procs[r].what = "stranger"
        BY <4>3, <3>2, <1>0, Numbers DEF Families
      <4> QED BY <4>1, <4>2, <4>3
    <3> QED BY <3>1, <3>2, <3>3, <1>3 DEF ChildOf
  <2> QED BY <2>1, <2>2 DEF Families
<1>7. \A q \in serverLock : q \in Pids /\ Alive(q)' /\ procs'[q] = procs[q]
  BY <1>0, <1>3, <1>4 DEF LockHeld, WorldTypes
<1>8. LockHeld'
  <2>1. ASSUME NEW q \in Pids, Alive(q)', MustHold(q)' PROVE q \in serverLock'
    BY <1>0, <1>2, <1>3, <2>1 DEF LockHeld, MustHold
  <2>2. ASSUME NEW q \in serverLock' PROVE Alive(q)' /\ procs'[q].what \in {"serve", "server", "worker"}
    BY <1>0, <1>2, <1>7 DEF LockHeld
  <2>3. ASSUME NEW q \in serverLock', NEW r \in serverLock', q # r
        PROVE  WorkerOf(r, q)' \/ WorkerOf(q, r)'
    <3>1. WorkerOf(r, q) \/ WorkerOf(q, r)
      BY <1>0, <1>2, <2>3 DEF LockHeld
    <3>2. procs'[q] = procs[q] /\ procs'[r] = procs[r]
      BY <1>2, <1>7
    <3> QED BY <3>1, <3>2 DEF WorkerOf
  <2> QED BY <2>1, <2>2, <2>3 DEF LockHeld
<1>9. \A q \in Pids : Alive(q)' => Kept(q)
  BY <1>3 DEF Kept, Serving
<1> QED BY <1>5, <1>6, <1>8, <1>9 DEF WorldInv, Follows, Unstarted
----
(* What the calls of the script know.                                         *)
\* A process that a call looks at, if it is still there, is the recorded one,
\* and a worker that it looks at is a ready one.
RecognisedAt(c) == Looking(c) =>
    /\ commands[c].identity.pid \in Pids
    /\ Alive(commands[c].identity.pid) => SameProcess(commands[c].identity)
    /\ commands[c].step = "parent" =>
          /\ commands[c].worker \in Pids
          /\ Alive(commands[c].worker) => procs[commands[c].worker].step = "ready"
Recognised == \A c \in Commands : RecognisedAt(c)

\* One call starts at a time, none beside a server that was started before;
\* that server is on record, or its start is about to write it.
Starting(c) == commands[c].step \in {"start", "port", "build", "write file"}
Identity(p) == [pid |-> p, start |-> procs[p].start]
OneStart == \A c \in Commands : Starting(c) => lifecycle = c
Recorded ==
    scriptCut \/ \A p \in Pids : Started(p) =>
        /\ pidFile = Identity(p) \/ \E c \in Commands : At(c, "write file")
        /\ \A c \in Commands : /\ commands[c].step \notin {"port", "build"}
                               /\ At(c, "write file") => commands[c].identity = Identity(p)

ScriptInv == ScriptTypes /\ Families /\ LockHeld /\ Recognised /\ OneStart /\ Recorded

LEMMA ScriptStarts == ASSUME ScriptInit PROVE ScriptInv
<1>1. procs = [p \in Pids |-> Nobody] /\ starts = 0 /\ serverLock = {} /\ port = 0 /\ pidFile = NoRecord
      /\ commands = [c \in Commands |-> IdleCommand] /\ scriptCut = FALSE
  BY DEF ScriptInit
<1>2. NoRecord \in Records
  BY DEF NoRecord, Records
<1>3. IdleCommand \in Calls /\ IdleCommand.step = "idle"
  BY <1>2 DEF IdleCommand, Calls, CommandSteps, Hits
<1>4. WorldTypes
  BY <1>1 DEF WorldTypes
<1>5. commands \in [Commands -> Calls] /\ \A c \in Commands : commands[c].step = "idle"
  BY <1>1, <1>3
<1>6. \A p \in Pids : ~Alive(p)
  BY <1>1 DEF Alive
<1>7. Families /\ LockHeld
  BY <1>1, <1>6 DEF Families, LockHeld
<1>8. Recognised /\ OneStart
  BY <1>5 DEF Recognised, RecognisedAt, Looking, OneStart, Starting
<1>9. Recorded
  BY <1>6 DEF Recorded, Started
<1>10. scriptCut \in BOOLEAN
  BY <1>1
<1> QED BY <1>1, <1>2, <1>4, <1>5, <1>7, <1>8, <1>9, <1>10 DEF ScriptInv, ScriptTypes

\* Nothing happens to the processes.
LEMMA Stays == ASSUME WorldInv, World PROVE WorldInv' /\ Follows /\ Unstarted
<1>1. procs' = procs /\ starts' = starts /\ serverLock' = serverLock /\ port' = port
  BY DEF World
<1>2. WorldTypes'
  BY <1>1 DEF WorldInv, WorldTypes
<1>3. \A p \in Pids : Alive(p)' <=> Alive(p)
  BY <1>1 DEF Alive
<1>4. \A p, q \in Pids : ChildOf(p, q)' <=> ChildOf(p, q)
  BY <1>1 DEF ChildOf
<1>5. Families'
  BY <1>1, <1>3, <1>4 DEF WorldInv, Families, Serving
<1>6. \A p, q \in Pids : WorkerOf(p, q)' <=> WorkerOf(p, q)
  BY <1>1 DEF WorkerOf
<1>7. serverLock \subseteq Pids
  BY DEF WorldInv, WorldTypes
<1>8. LockHeld'
  BY <1>1, <1>3, <1>6, <1>7 DEF WorldInv, LockHeld, MustHold
<1>9. \A q \in Pids : Alive(q)' => Kept(q)
  BY <1>1, <1>3 DEF Kept, Serving
<1> QED BY <1>2, <1>5, <1>8, <1>9 DEF WorldInv, Follows, Unstarted

\* A call that looks is not led astray by what happens to the processes.
LEMMA LooksOn ==
    ASSUME WorldTypes, WorldTypes', Follows, NEW c \in Commands, commands[c] \in Calls, RecognisedAt(c),
           commands'[c] = commands[c]
    PROVE  RecognisedAt(c)'
<1> SUFFICES ASSUME Looking(c) PROVE RecognisedAt(c)'
  BY DEF RecognisedAt, Looking
<1>1. PICK p \in Pids : p = commands[c].identity.pid
  BY DEF RecognisedAt
<1>2. \A w \in {commands[d].identity.pid : d \in {e \in Commands : Looking(e)}}
             \cup {commands[d].worker : d \in {e \in Commands : Looking(e)}} : w \notin Free
  BY DEF Free, LookedAt
<1>3. p \notin Free
  BY <1>1, <1>2
<1>4. ASSUME Alive(p)' PROVE SameProcess(commands[c].identity)'
  <2>1. Kept(p)
    BY <1>3, <1>4 DEF Follows
  <2>2. SameProcess(commands[c].identity)
    BY <1>1, <2>1 DEF RecognisedAt, Kept
  <2>3. procs[p].start = commands[c].identity.start /\ Serving(p)
    BY <1>1, <2>2 DEF SameProcess, Serving
  <2>4. procs'[p].start = commands[c].identity.start /\ Serving(p)'
    BY <2>1, <2>3 DEF Kept
  <2> QED BY <1>1, <1>4, <2>4 DEF SameProcess, Serving
<1>5. ASSUME commands[c].step = "parent", Alive(commands[c].worker)'
      PROVE  procs'[commands[c].worker].step = "ready"
  <2>1. PICK w \in Pids : w = commands[c].worker
    BY <1>5 DEF RecognisedAt
  <2>2. w \notin Free
    BY <1>2, <2>1
  <2>3. Kept(w)
    BY <1>5, <2>1, <2>2 DEF Follows, Alive
  <2> QED BY <1>5, <2>1, <2>3 DEF Kept, RecognisedAt
<1> QED BY <1>1, <1>4, <1>5 DEF RecognisedAt, Looking
\* Nothing is started but by StartSpawn.
LEMMA NoneStarted ==
    ASSUME Unstarted, NEW p \in Pids, Started(p)'
    PROVE  Started(p) /\ Identity(p)' = Identity(p)
<1>1. Alive(p)' /\ Serving(p)' /\ procs'[p].parent \in Commands
  BY DEF Started, Serving
<1>2. Kept(p)
  BY <1>1 DEF Unstarted
<1>3. procs[p].parent = procs'[p].parent
  BY <1>1, <1>2, Numbers DEF Kept
<1> QED BY <1>1, <1>2, <1>3 DEF Kept, Started, Serving, Identity

\* A call goes to a step, and the other calls do not.
Turns(c, s) ==
    /\ commands' \in [Commands -> Calls] /\ commands'[c].step = s
    /\ \A d \in Commands : d # c => commands'[d] = commands[d]

LEMMA CallMoves ==
    ASSUME commands \in [Commands -> Calls], NEW c \in Commands, NEW x \in Calls,
           commands' = [commands EXCEPT ![c] = x]
    PROVE  Turns(c, x.step) /\ commands'[c] = x
BY DEF Turns

LEMMA GoMoves ==
    ASSUME commands \in [Commands -> Calls], NEW c \in Commands, NEW s \in CommandSteps, Go(c, s)
    PROVE  /\ Turns(c, s) /\ lifecycle' = lifecycle
           /\ commands'[c].identity = commands[c].identity /\ commands'[c].worker = commands[c].worker
<1>1. commands[c] \in Calls
  OBVIOUS
<1>2. PICK x : x = [commands[c] EXCEPT !.step = s]
  OBVIOUS
<1>3. x \in Calls /\ x.step = s /\ x.identity = commands[c].identity /\ x.worker = commands[c].worker
  BY <1>1, <1>2 DEF Calls
<1>4. commands' = [commands EXCEPT ![c] = x] /\ lifecycle' = lifecycle
  BY <1>2 DEF Go
<1> QED BY <1>3, <1>4, CallMoves

LEMMA LeaveMoves ==
    ASSUME commands \in [Commands -> Calls], NEW c \in Commands, NEW s \in OverSteps, NEW h \in Hits, LeaveAs(c, s, h)
    PROVE  Turns(c, s) /\ lifecycle' = IF lifecycle = c THEN 0 ELSE lifecycle
<1>1. PICK x : x = [IdleCommand EXCEPT !.step = s, !.hit = h]
  OBVIOUS
<1>2. x \in Calls /\ x.step = s
  <2>1. NoRecord \in Records
    BY DEF NoRecord, Records
  <2> QED BY <1>1, <2>1 DEF IdleCommand, Calls, CommandSteps, OverSteps, Hits
<1>3. commands' = [commands EXCEPT ![c] = x] /\ lifecycle' = IF lifecycle = c THEN 0 ELSE lifecycle
  BY <1>1 DEF LeaveAs
<1> QED BY <1>2, <1>3, CallMoves

LEMMA LeaveKeeps ==
    ASSUME commands \in [Commands -> Calls], NEW c \in Commands, NEW s \in OverSteps, Leave(c, s)
    PROVE  Turns(c, s) /\ lifecycle' = IF lifecycle = c THEN 0 ELSE lifecycle
<1>1. commands[c].hit \in Hits
  BY DEF Calls
<1>2. LeaveAs(c, s, commands[c].hit)
  BY DEF Leave
<1> QED BY <1>1, <1>2, LeaveMoves

\* The calls stay as they are while the processes move.
LEMMA Onlooking ==
    ASSUME ScriptInv, WorldInv', Follows, Unstarted, Scripts
    PROVE  ScriptInv'
<1>0. /\ WorldTypes /\ pidFile \in Records /\ commands \in [Commands -> Calls] /\ scriptCut \in BOOLEAN
      /\ Recognised /\ OneStart /\ Recorded
  BY DEF ScriptInv, ScriptTypes
<1>1. pidFile' = pidFile /\ lifecycle' = lifecycle /\ commands' = commands /\ scriptCut' = scriptCut
  BY DEF Scripts
<1>2. ScriptTypes' /\ Families' /\ LockHeld'
  BY <1>0, <1>1 DEF WorldInv, ScriptTypes
<1>3. Recognised'
  <2> SUFFICES ASSUME NEW c \in Commands PROVE RecognisedAt(c)'
    BY DEF Recognised
  <2> QED BY <1>0, <1>1, <1>2, LooksOn DEF Recognised, ScriptTypes
<1>4. OneStart'
  BY <1>0, <1>1 DEF OneStart, Starting
<1>5. Recorded'
  BY <1>0, <1>1, NoneStarted DEF Recorded, At
<1> QED BY <1>2, <1>3, <1>4, <1>5 DEF ScriptInv

\* A call that goes to any step but those of a start.
LEMMA Goes ==
    ASSUME ScriptInv, WorldInv', Follows, Unstarted, NEW c \in Commands, NEW s \in CommandSteps, Turns(c, s),
           s \notin {"start", "port", "build", "write file"}, commands[c].step # "write file",
           UNCHANGED <<pidFile, scriptCut>>,
           lifecycle' = lifecycle \/ lifecycle' = (IF lifecycle = c THEN 0 ELSE lifecycle),
           RecognisedAt(c)'
    PROVE  ScriptInv'
<1>0. /\ WorldTypes /\ pidFile \in Records /\ commands \in [Commands -> Calls] /\ scriptCut \in BOOLEAN
      /\ Recognised /\ OneStart /\ Recorded
  BY DEF ScriptInv, ScriptTypes
<1>1. commands' \in [Commands -> Calls] /\ commands'[c].step = s /\ \A d \in Commands : d # c => commands'[d] = commands[d]
  BY DEF Turns
<1>2. ScriptTypes' /\ Families' /\ LockHeld'
  BY <1>0, <1>1 DEF WorldInv, ScriptTypes
<1>3. Recognised'
  <2> SUFFICES ASSUME NEW d \in Commands, d # c PROVE RecognisedAt(d)'
    BY DEF Recognised
  <2>1. WorldTypes' /\ commands[d] \in Calls /\ RecognisedAt(d) /\ commands'[d] = commands[d]
    BY <1>0, <1>1, <1>2 DEF Recognised, ScriptTypes
  <2> QED BY <1>0, <2>1, LooksOn
<1>4. OneStart'
  <2> SUFFICES ASSUME NEW d \in Commands, Starting(d)' PROVE lifecycle' = d
    BY DEF OneStart
  <2>1. d # c
    BY <1>1 DEF Starting
  <2>2. lifecycle = d
    BY <1>0, <1>1, <2>1 DEF OneStart, Starting
  <2> QED BY <2>1, <2>2
<1>5. Recorded'
  <2>1. scriptCut' = scriptCut /\ pidFile' = pidFile
    OBVIOUS
  <2>c. CASE scriptCut
    <3>1. scriptCut' = TRUE
      BY <1>0, <2>c, <2>1
    <3> QED BY <3>1 DEF Recorded
  <2> SUFFICES ASSUME ~scriptCut, NEW p \in Pids, Started(p)'
               PROVE  /\ pidFile' = Identity(p)' \/ \E d \in Commands : At(d, "write file")'
                      /\ \A d \in Commands : /\ commands'[d].step \notin {"port", "build"}
                                             /\ At(d, "write file")' => commands'[d].identity = Identity(p)'
    BY <2>c DEF Recorded
  <2>2. Started(p) /\ Identity(p)' = Identity(p)
    BY NoneStarted
  <2>3. \A d \in Commands : At(d, "write file") => d # c /\ At(d, "write file")'
    BY <1>1 DEF At
  <2>4. pidFile = Identity(p) \/ \E d \in Commands : At(d, "write file")
    BY <1>0, <2>2 DEF Recorded
  <2>5. ASSUME NEW d \in Commands
        PROVE  /\ commands'[d].step \notin {"port", "build"}
               /\ At(d, "write file")' => commands'[d].identity = Identity(p)
    <3>1. CASE d = c
      BY <1>1, <3>1 DEF At
    <3>2. CASE d # c
      BY <1>0, <1>1, <2>2, <3>2 DEF Recorded, At
    <3> QED BY <3>1, <3>2
  <2> QED BY <2>1, <2>2, <2>3, <2>4, <2>5
<1> QED BY <1>2, <1>3, <1>4, <1>5 DEF ScriptInv

\* A call that looks at nothing has nothing to recognise.
LEMMA Blind ==
    ASSUME NEW c \in Commands, NEW s, Turns(c, s), s \notin {"health", "parent", "signal", "kill"}
    PROVE  RecognisedAt(c)'
BY DEF Turns, RecognisedAt, Looking
----
(* The steps of the processes.                                                *)
LEMMA InWorld == ASSUME ScriptInv PROVE WorldInv /\ procs \in [Pids -> Processes \cup {Nobody}] /\ port \in Pids \cup {0}
BY DEF ScriptInv, ScriptTypes, WorldInv, WorldTypes

LEMMA ServeLockStep == ASSUME ScriptInv, NEW p \in Pids, ServeLock(p) PROVE ScriptInv'
<1>0. /\ WorldInv /\ WorldTypes /\ Families /\ LockHeld /\ Scripts /\ starts' = starts
      /\ Alive(p) /\ procs[p].what = "serve"
  BY InWorld DEF WorldInv, ServeLock, Is
<1>1. CASE serverLock = {} /\ serverLock' = {p} /\ StepTo(p, "gpu") /\ port' = port
  <2>1. WorldInv' /\ Follows /\ Unstarted
    BY <1>0, <1>1, InWorld, Steps
  <2> QED BY <1>0, <2>1, Onlooking
<1>2. CASE Exit(p)
  <2>1. WorldInv' /\ Follows /\ Unstarted
    BY <1>0, <1>2, Exits
  <2> QED BY <1>0, <2>1, Onlooking
<1> QED BY <1>1, <1>2 DEF ServeLock

LEMMA ServeStep == ASSUME ScriptInv, NEW p \in Pids, Serve(p) PROVE ScriptInv'
<1>0. /\ WorldInv /\ WorldTypes /\ Families /\ LockHeld /\ Scripts /\ starts' = starts
      /\ Is(p, "serve", "gpu") /\ Alive(p)
  BY InWorld DEF WorldInv, Serve, Is
<1>1. CASE Exec(p) /\ port' = port
  <2>1. WorldInv' /\ Follows /\ Unstarted
    BY <1>0, <1>1, Execs
  <2> QED BY <1>0, <2>1, Onlooking
<1>2. CASE Exit(p)
  <2>1. WorldInv' /\ Follows /\ Unstarted
    BY <1>0, <1>2, Exits
  <2> QED BY <1>0, <2>1, Onlooking
<1> QED BY <1>1, <1>2 DEF Serve

LEMMA BindStep == ASSUME ScriptInv, NEW p \in Pids, Bind(p) PROVE ScriptInv'
<1>0. /\ WorldInv /\ WorldTypes /\ Families /\ LockHeld /\ Scripts /\ starts' = starts
      /\ Alive(p) /\ procs[p].what = "server"
  BY InWorld DEF WorldInv, Bind, Is
<1>1. CASE port' = p /\ StepTo(p, "open") /\ serverLock' = serverLock
  <2>1. WorldInv' /\ Follows /\ Unstarted
    BY <1>0, <1>1, Steps
  <2> QED BY <1>0, <2>1, Onlooking
<1>2. CASE Exit(p)
  <2>1. WorldInv' /\ Follows /\ Unstarted
    BY <1>0, <1>2, Exits
  <2> QED BY <1>0, <2>1, Onlooking
<1> QED BY <1>1, <1>2 DEF Bind

LEMMA NewProcess ==
    ASSUME WorldTypes, NEW what \in {"serve", "worker"}, NEW at \in {"lock", "loading"}, NEW parent \in Nat
    PROVE  /\ Process(what, at, parent) \in Processes /\ Process(what, at, parent).what = what
           /\ Process(what, at, parent).step = at /\ Process(what, at, parent).parent = parent
<1>1. starts + 1 \in Nat
  BY DEF WorldTypes
<1>2. PICK x : x = Process(what, at, parent)
  OBVIOUS
<1>3. x.what = what /\ x.step = at /\ x.parent = parent
  BY <1>2, ProcessFields
<1>4. x \in Processes
  BY <1>1, <1>2 DEF Process, Processes
<1> QED BY <1>2, <1>3, <1>4

LEMMA SpawnWorkerStep == ASSUME ScriptInv, NEW r \in Pids, SpawnWorker(r) PROVE ScriptInv'
<1>0. WorldInv /\ WorldTypes /\ LockHeld /\ Scripts /\ Is(r, "server", "open") /\ ~HasWorker(r) /\ port' = port
  BY InWorld DEF WorldInv, SpawnWorker
<1>1. r \in serverLock
  BY <1>0 DEF LockHeld, MustHold, Is
<1>2. PICK w \in NewPid : Become(w, Process("worker", "loading", r)) /\ serverLock' = serverLock \cup {w}
  BY <1>1 DEF SpawnWorker
<1>3. w \in Free /\ r \in Nat /\ r \notin Commands
  BY Numbers DEF NewPid
<1>4. PICK x : x = Process("worker", "loading", r)
  OBVIOUS
<1>5. x \in Processes /\ x.what = "worker" /\ x.step = "loading" /\ x.parent = r
  BY <1>0, <1>3, <1>4, NewProcess
<1>6. Become(w, x)
  BY <1>2, <1>4
<1>7. WorldInv' /\ Follows /\ Unstarted
  BY <1>0, <1>2, <1>3, <1>5, <1>6, Begins
<1> QED BY <1>0, <1>7, Onlooking

LEMMA LoadWorkerStep == ASSUME ScriptInv, NEW p \in Pids, LoadWorker(p) PROVE ScriptInv'
<1>0. /\ WorldInv /\ Scripts /\ UNCHANGED <<starts, serverLock, port>> /\ port \in Pids \cup {0}
      /\ Alive(p) /\ procs[p].what = "worker" /\ StepTo(p, "ready")
  BY InWorld DEF LoadWorker, Is
<1>1. WorldInv' /\ Follows /\ Unstarted
  BY <1>0, Steps
<1> QED BY <1>0, <1>1, Onlooking

LEMMA EndStep == ASSUME ScriptInv, NEW p \in Pids, EndWorker(p) \/ EndServer(p) PROVE ScriptInv'
<1>0. WorldTypes /\ Families /\ LockHeld /\ Scripts /\ Alive(p) /\ Exit(p) /\ starts' = starts
  BY InWorld DEF WorldInv, EndWorker, EndServer
<1>1. WorldInv' /\ Follows /\ Unstarted
  BY <1>0, Exits
<1> QED BY <1>0, <1>1, Onlooking

LEMMA RunServeStep == ASSUME ScriptInv, RunServe PROVE ScriptInv'
<1>0. WorldInv /\ WorldTypes /\ Scripts /\ serverLock' = serverLock /\ port' = port
  BY InWorld DEF WorldInv, RunServe
<1>1. PICK p \in NewPid : Become(p, Process("serve", "lock", 0))
  BY DEF RunServe
<1>2. p \in Free
  BY DEF NewPid
<1>3. PICK x : x = Process("serve", "lock", 0)
  OBVIOUS
<1>4. x \in Processes /\ x.what = "serve" /\ x.step = "lock" /\ x.parent = 0
  BY <1>0, <1>3, NewProcess
<1>5. Become(p, x)
  BY <1>1, <1>3
<1>6. WorldInv' /\ Follows /\ Unstarted
  BY <1>0, <1>2, <1>4, <1>5, Begins, Numbers
<1> QED BY <1>0, <1>6, Onlooking

LEMMA StrangerStep == ASSUME ScriptInv, StrangerServes \/ StrangerLeaves PROVE ScriptInv'
<1>1. Scripts
  BY DEF StrangerServes, StrangerLeaves
<1>2. WorldInv' /\ Follows /\ Unstarted
  BY InWorld, StrangersServe, StrangersLeave
<1> QED BY <1>1, <1>2, Onlooking
----
(* The steps of the calls.                                                    *)
LEMMA InCalls ==
    ASSUME ScriptInv
    PROVE  /\ WorldInv /\ WorldTypes /\ Families /\ LockHeld /\ Recognised /\ OneStart /\ Recorded
           /\ pidFile \in Records /\ commands \in [Commands -> Calls] /\ scriptCut \in BOOLEAN
BY DEF ScriptInv, ScriptTypes, WorldInv

\* A call ends, with what it said before or with a hit, and the processes stay.
LEMMA Ends ==
    ASSUME ScriptInv, NEW c \in Commands, NEW s \in OverSteps, NEW h \in Hits, LeaveAs(c, s, h) \/ Leave(c, s),
           WorldInv', Follows, Unstarted, Quiet, commands[c].step # "write file"
    PROVE  ScriptInv'
<1>1. Turns(c, s) /\ lifecycle' = IF lifecycle = c THEN 0 ELSE lifecycle
  BY InCalls, LeaveMoves, LeaveKeeps
<1>2. s \in CommandSteps /\ s \notin {"health", "parent", "signal", "kill", "start", "port", "build", "write file"}
  BY DEF OverSteps, CommandSteps
<1>3. RecognisedAt(c)'
  BY <1>1, <1>2, Blind
<1>4. UNCHANGED <<pidFile, scriptCut>>
  BY DEF Quiet
<1> QED BY <1>1, <1>2, <1>3, <1>4, Goes

\* A call goes back to its check, or on to its wait.
LEMMA Waits ==
    ASSUME ScriptInv, NEW c \in Commands, NEW s \in {"check", "wait end"}, Turns(c, s), lifecycle' = lifecycle,
           WorldInv', Follows, Unstarted, Quiet, commands[c].step # "write file"
    PROVE  ScriptInv'
<1>1. RecognisedAt(c)'
  BY Blind
<1>2. s \in CommandSteps /\ UNCHANGED <<pidFile, scriptCut>>
  BY DEF CommandSteps, Quiet
<1> QED BY <1>1, <1>2, Goes

\* A call begins to look at a process that it recognised.
LEMMA Looks ==
    ASSUME ScriptInv, NEW c \in Commands, NEW s \in {"health", "signal", "kill"}, Turns(c, s), lifecycle' = lifecycle,
           World, Quiet, SameProcess(commands'[c].identity), commands[c].step # "write file"
    PROVE  ScriptInv'
<1>1. WorldInv' /\ Follows /\ Unstarted
  BY InCalls, Stays
<1>2. procs' = procs
  BY DEF World
<1>3. commands'[c].step = s
  BY DEF Turns
<1>4. Alive(commands'[c].identity.pid)
  BY DEF SameProcess
<1>5. SameProcess(commands[c].identity)'
  BY <1>2 DEF SameProcess, Alive
<1>6. RecognisedAt(c)'
  BY <1>3, <1>4, <1>5 DEF RecognisedAt, Alive
<1>7. s \in CommandSteps /\ UNCHANGED <<pidFile, scriptCut>>
  BY DEF CommandSteps, Quiet
<1> QED BY <1>1, <1>6, <1>7, Goes

LEMMA BeginCommandStep == ASSUME ScriptInv, NEW c \in Commands, BeginCommand(c) PROVE ScriptInv'
<1>0. /\ World /\ pidFile' = pidFile /\ scriptCut' = scriptCut /\ lifecycle = 0 /\ lifecycle' = c /\ At(c, "idle")
  BY DEF BeginCommand, Quiet, DueNext
<1>1. PICK command \in {"start", "stop"} : commands' = [commands EXCEPT ![c] = [IdleCommand EXCEPT !.step = command]]
  BY DEF BeginCommand
<1>2. PICK x : x = [IdleCommand EXCEPT !.step = command]
  OBVIOUS
<1>3. x \in Calls /\ x.step = command
  <2>1. NoRecord \in Records
    BY DEF NoRecord, Records
  <2> QED BY <1>2, <2>1 DEF IdleCommand, Calls, CommandSteps, Hits
<1>4. Turns(c, command)
  <2>1. commands' = [commands EXCEPT ![c] = x]
    BY <1>1, <1>2
  <2> QED BY <1>3, <2>1, InCalls, CallMoves
<1>5. WorldInv' /\ Follows /\ Unstarted /\ procs' = procs
  BY <1>0, InCalls, Stays DEF World
<1>6. ScriptTypes' /\ Families' /\ LockHeld'
  BY <1>0, <1>4, <1>5, InCalls DEF WorldInv, ScriptTypes, Turns
<1>7. \A d \in Commands : ~Starting(d)
  BY <1>0, InCalls, Numbers DEF OneStart
<1>8. \A d \in Commands : d # c => commands'[d] = commands[d]
  BY <1>4 DEF Turns
<1>9. OneStart'
  BY <1>0, <1>7, <1>8 DEF OneStart, Starting
<1>10. Recognised'
  <2> SUFFICES ASSUME NEW d \in Commands PROVE RecognisedAt(d)'
    BY DEF Recognised
  <2>1. CASE d = c
    BY <1>4, <2>1, Blind
  <2>2. CASE d # c
    BY <1>5, <1>6, <1>8, <2>2, InCalls, LooksOn DEF Recognised, ScriptTypes
  <2> QED BY <2>1, <2>2
<1>11. Recorded'
  <2>1. \A p \in Pids : Started(p)' <=> Started(p)
    BY <1>5 DEF Started, Alive
  <2>2. \A p \in Pids : Identity(p)' = Identity(p)
    BY <1>5 DEF Identity
  <2>3. \A d \in Commands : commands[d].step \notin {"port", "build", "write file"}
    BY <1>7 DEF Starting
  <2>4. \A d \in Commands : commands'[d].step \notin {"port", "build", "write file"}
    <3> SUFFICES ASSUME NEW d \in Commands PROVE commands'[d].step \notin {"port", "build", "write file"}
      OBVIOUS
    <3>1. CASE d = c
      BY <1>4, <3>1 DEF Turns
    <3>2. CASE d # c
      BY <1>8, <2>3, <3>2
    <3> QED BY <3>1, <3>2
  <2>5. scriptCut \/ \A p \in Pids : Started(p) => pidFile = Identity(p)
    BY <2>3, InCalls DEF Recorded, At
  <2>6. scriptCut' \/ \A p \in Pids : Started(p)' => pidFile' = Identity(p)'
    BY <1>0, <2>1, <2>2, <2>5, InCalls
  <2> QED BY <2>4, <2>6 DEF Recorded, At
<1> QED BY <1>6, <1>9, <1>10, <1>11 DEF ScriptInv

LEMMA BeginWaitStep == ASSUME ScriptInv, NEW c \in Commands, BeginWait(c) PROVE ScriptInv'
<1>0. World /\ Quiet /\ lifecycle' = lifecycle /\ At(c, "idle")
  BY DEF BeginWait, DueNext
<1>1. PICK p \in Pids :
         /\ Alive(p)
         /\ commands' = [commands EXCEPT ![c] = [IdleCommand EXCEPT !.step = "check",
                                                 !.identity = [pid |-> p, start |-> procs[p].start]]]
  BY DEF BeginWait
<1>2. PICK x : x = [IdleCommand EXCEPT !.step = "check", !.identity = [pid |-> p, start |-> procs[p].start]]
  OBVIOUS
<1>3. x \in Calls /\ x.step = "check"
  <2>1. procs[p] \in Processes
    BY <1>1, InCalls DEF WorldTypes, Alive
  <2>2. [pid |-> p, start |-> procs[p].start] \in Records
    BY <2>1, Numbers DEF Records, Processes
  <2>3. NoRecord \in Records
    BY DEF NoRecord, Records
  <2> QED BY <1>2, <2>2, <2>3 DEF IdleCommand, Calls, CommandSteps, Hits
<1>4. Turns(c, "check")
  <2>1. commands' = [commands EXCEPT ![c] = x]
    BY <1>1, <1>2
  <2> QED BY <1>3, <2>1, InCalls, CallMoves
<1>5. WorldInv' /\ Follows /\ Unstarted
  BY <1>0, InCalls, Stays
<1> QED BY <1>0, <1>4, <1>5, Waits DEF At
\* While one call starts, no other does.
LEMMA Alone ==
    ASSUME ScriptInv, NEW c \in Commands, Starting(c), NEW s, Turns(c, s)
    PROVE  \A d \in Commands : d # c => commands'[d] = commands[d] /\ ~Starting(d)
BY InCalls DEF OneStart, Turns

LEMMA Starts ==
    ASSUME ScriptInv, NEW c \in Commands, Starting(c), NEW s, Turns(c, s), s \notin {"health", "parent", "signal", "kill"},
           WorldInv', Follows, pidFile' \in Records, scriptCut' \in BOOLEAN, Recorded',
           lifecycle' = lifecycle \/ s = "error"
    PROVE  ScriptInv'
<1>1. \A d \in Commands : d # c => commands'[d] = commands[d] /\ ~Starting(d)
  BY Alone
<1>2. ScriptTypes' /\ Families' /\ LockHeld'
  BY DEF WorldInv, ScriptTypes, Turns
<1>3. OneStart'
  <2> SUFFICES ASSUME NEW d \in Commands, Starting(d)' PROVE lifecycle' = d
    BY DEF OneStart
  <2>1. d = c
    BY <1>1 DEF Starting
  <2>2. lifecycle = c /\ s # "error"
    BY <2>1, InCalls DEF OneStart, Starting, Turns
  <2> QED BY <2>1, <2>2
<1>4. Recognised'
  <2> SUFFICES ASSUME NEW d \in Commands PROVE RecognisedAt(d)'
    BY DEF Recognised
  <2>1. CASE d = c
    BY <2>1, Blind
  <2>2. CASE d # c
    BY <1>1, <1>2, <2>2, InCalls, LooksOn DEF Recognised, ScriptTypes
  <2> QED BY <2>1, <2>2
<1> QED BY <1>2, <1>3, <1>4 DEF ScriptInv

\* Where nothing is started any more, the next step of a start may be taken.
LEMMA Nothing ==
    ASSUME ScriptInv, NEW c \in Commands, Starting(c), NEW s \in {"port", "build"}, Turns(c, s), World, Quiet,
           lifecycle' = lifecycle, scriptCut \/ \A p \in Pids : ~Started(p)
    PROVE  ScriptInv'
<1>1. WorldInv' /\ Follows /\ Unstarted
  BY InCalls, Stays
<1>2. pidFile' = pidFile /\ scriptCut' = scriptCut
  BY DEF Quiet
<1>3. scriptCut' \/ \A p \in Pids : ~Started(p)'
  BY <1>1, <1>2, InCalls, NoneStarted
<1>4. Recorded'
  BY <1>3 DEF Recorded
<1> QED BY <1>1, <1>2, <1>4, InCalls, Starts

LEMMA StartRecordStep == ASSUME ScriptInv, NEW c \in Commands, StartRecord(c) PROVE ScriptInv'
<1>0. World /\ Quiet /\ commands[c].step = "start" /\ Starting(c)
  BY DEF StartRecord, At, Starting
<1>1. CASE SameProcess(pidFile)
  <2>1. commands' = [commands EXCEPT ![c].step = "check", ![c].identity = pidFile] /\ lifecycle' = lifecycle
    BY <1>1 DEF StartRecord
  <2>2. PICK x : x = [commands[c] EXCEPT !.step = "check", !.identity = pidFile]
    OBVIOUS
  <2>3. x \in Calls /\ x.step = "check"
    BY <2>2, InCalls DEF Calls, CommandSteps
  <2>4. Turns(c, "check")
    <3>1. commands' = [commands EXCEPT ![c] = x]
      BY <2>1, <2>2
    <3> QED BY <2>3, <3>1, InCalls, CallMoves
  <2> QED BY <1>0, <2>1, <2>4, InCalls, Stays, Waits
<1>2. CASE ~SameProcess(pidFile)
  <2>1. Turns(c, "port") /\ lifecycle' = lifecycle
    BY <1>2, InCalls, GoMoves DEF StartRecord, CommandSteps
  <2>2. \A d \in Commands : ~At(d, "write file")
    BY <1>0, <2>1, Alone DEF At, Starting
  <2>3. ASSUME ~scriptCut, NEW p \in Pids, Started(p) PROVE FALSE
    <3>1. pidFile = Identity(p)
      BY <2>2, <2>3, InCalls DEF Recorded
    <3>2. pidFile.pid = p /\ pidFile.start = procs[p].start
      BY <3>1 DEF Identity
    <3>3. SameProcess(pidFile)
      BY <3>2, <2>3 DEF SameProcess, Started
    <3> QED BY <3>3, <1>2
  <2> QED BY <1>0, <2>1, <2>3, Nothing
<1> QED BY <1>1, <1>2

LEMMA StartChecksStep == ASSUME ScriptInv, NEW c \in Commands, StartChecks(c) PROVE ScriptInv'
<1>0. World /\ Quiet /\ commands[c].step = "port" /\ Starting(c) /\ WorldInv' /\ Follows /\ Unstarted
  BY InCalls, Stays DEF StartChecks, At, Starting
<1>1. CASE Leave(c, "error")
  BY <1>0, <1>1, Ends DEF OverSteps, Hits
<1>2. CASE Go(c, "build")
  <2>1. Turns(c, "build") /\ lifecycle' = lifecycle
    BY <1>2, InCalls, GoMoves DEF CommandSteps
  <2>2. scriptCut \/ \A p \in Pids : ~Started(p)
    BY <1>0, InCalls DEF Recorded
  <2> QED BY <1>0, <2>1, <2>2, Nothing
<1> QED BY <1>1, <1>2 DEF StartChecks

LEMMA BuildFailsStep == ASSUME ScriptInv, NEW c \in Commands, BuildFails(c) PROVE ScriptInv'
<1>0. World /\ Quiet /\ commands[c].step = "build" /\ WorldInv' /\ Follows /\ Unstarted /\ Leave(c, "error")
  BY InCalls, Stays DEF BuildFails, At
<1> QED BY <1>0, Ends DEF OverSteps, Hits

LEMMA StartSpawnStep == ASSUME ScriptInv, NEW c \in Commands, StartSpawn(c) PROVE ScriptInv'
<1>0. /\ pidFile' = pidFile /\ scriptCut' = scriptCut /\ lifecycle' = lifecycle /\ serverLock' = serverLock
      /\ port' = port /\ commands[c].step = "build" /\ Starting(c)
  BY DEF StartSpawn, At, Quiet, Starting
<1>1. PICK p \in NewPid :
         /\ Become(p, Process("serve", "lock", c))
         /\ commands' = [commands EXCEPT ![c].step = "write file", ![c].identity = [pid |-> p, start |-> starts + 1]]
  BY DEF StartSpawn
<1>2. p \in Free /\ p \in Pids /\ c \in Nat
  BY Numbers DEF NewPid, Free
<1>3. PICK x : x = Process("serve", "lock", c)
  OBVIOUS
<1>4. x \in Processes /\ x.what = "serve" /\ x.step = "lock" /\ x.parent = c /\ x.start = starts + 1
  <2>1. x \in Processes /\ x.what = "serve" /\ x.step = "lock" /\ x.parent = c
    BY <1>2, <1>3, InCalls, NewProcess
  <2>2. x.start = starts + 1
    BY <1>3 DEF Process
  <2> QED BY <2>1, <2>2
<1>5. Become(p, x)
  BY <1>1, <1>3
<1>6. WorldInv' /\ Follows
  BY <1>0, <1>2, <1>4, <1>5, InCalls, Begins
<1>7. procs'[p] = x /\ \A q \in Pids : q # p => procs'[q] = procs[q]
  BY <1>2, <1>4, <1>5, InCalls, Becoming
<1>8. PICK id : id = [pid |-> p, start |-> starts + 1]
  OBVIOUS
<1>9. id \in Records
  BY <1>2, <1>8, InCalls, Numbers DEF Records, WorldTypes
<1>10. PICK y : y = [commands[c] EXCEPT !.step = "write file", !.identity = id]
  OBVIOUS
<1>11. y \in Calls /\ y.step = "write file" /\ y.identity = id
  BY <1>9, <1>10, InCalls DEF Calls, CommandSteps
<1>12. Turns(c, "write file") /\ commands'[c] = y
  <2>1. commands' = [commands EXCEPT ![c] = y]
    BY <1>1, <1>8, <1>10
  <2> QED BY <1>11, <2>1, InCalls, CallMoves
<1>13. \A d \in Commands : d # c => commands'[d] = commands[d] /\ ~Starting(d)
  BY <1>0, <1>12, Alone
<1>14. Recorded'
  <2>c. CASE scriptCut
    <3>1. scriptCut' = TRUE
      BY <1>0, <2>c, InCalls
    <3> QED BY <3>1 DEF Recorded
  <2> SUFFICES ASSUME ~scriptCut, NEW q \in Pids, Started(q)'
               PROVE  /\ \E d \in Commands : At(d, "write file")'
                      /\ \A d \in Commands : /\ commands'[d].step \notin {"port", "build"}
                                             /\ At(d, "write file")' => commands'[d].identity = Identity(q)'
    BY <2>c DEF Recorded
  <2>1. q = p
    <3>1. ~Started(q)
      BY <1>0, InCalls DEF Recorded
    <3> QED BY <3>1, <1>7 DEF Started, Alive
  <2>2. Identity(q)' = id
    BY <2>1, <1>4, <1>7, <1>8 DEF Identity
  <2>3. At(c, "write file")' /\ commands'[c].identity = id
    BY <1>11, <1>12 DEF At
  <2>4. \A d \in Commands : d # c => commands'[d].step \notin {"port", "build", "write file"}
    BY <1>13 DEF Starting
  <2> QED BY <2>2, <2>3, <2>4 DEF At
<1> QED BY <1>0, <1>6, <1>12, <1>14, InCalls, Starts
LEMMA WriteFileStep == ASSUME ScriptInv, NEW c \in Commands, WriteFile(c) PROVE ScriptInv'
<1>0. /\ World /\ scriptCut' = scriptCut /\ At(c, "write file") /\ Starting(c) /\ pidFile' = commands[c].identity
      /\ WorldInv' /\ Follows /\ Unstarted
  BY InCalls, Stays DEF WriteFile, At, Starting
<1>1. Turns(c, "check") /\ lifecycle' = lifecycle
  BY InCalls, GoMoves DEF WriteFile, CommandSteps
<1>2. pidFile' \in Records
  BY <1>0, InCalls DEF Calls
<1>3. \A d \in Commands : commands'[d].step \notin {"port", "build", "write file"}
  <2>1. \A d \in Commands : d # c => commands'[d] = commands[d] /\ ~Starting(d)
    BY <1>0, <1>1, Alone
  <2> QED BY <1>1, <2>1 DEF Turns, Starting
<1>4. Recorded'
  <2>c. CASE scriptCut
    <3>1. scriptCut' = TRUE
      BY <1>0, <2>c, InCalls
    <3> QED BY <3>1 DEF Recorded
  <2> SUFFICES ASSUME ~scriptCut, NEW p \in Pids, Started(p)' PROVE pidFile' = Identity(p)'
    BY <1>3, <2>c DEF Recorded, At
  <2>1. Started(p) /\ Identity(p)' = Identity(p)
    BY <1>0, NoneStarted
  <2>2. commands[c].identity = Identity(p)
    BY <1>0, <2>1, InCalls DEF Recorded
  <2> QED BY <1>0, <2>1, <2>2
<1> QED BY <1>0, <1>1, <1>2, <1>4, InCalls, Starts

LEMMA WaitCheckStep == ASSUME ScriptInv, NEW c \in Commands, WaitCheck(c) PROVE ScriptInv'
<1>0. World /\ Quiet /\ commands[c].step = "check" /\ WorldInv' /\ Follows /\ Unstarted
  BY InCalls, Stays DEF WaitCheck, At
<1>1. CASE SameProcess(commands[c].identity) /\ Go(c, "health")
  <2>1. Turns(c, "health") /\ lifecycle' = lifecycle /\ commands'[c].identity = commands[c].identity
    BY <1>1, InCalls, GoMoves DEF CommandSteps
  <2> QED BY <1>0, <1>1, <2>1, Looks
<1>2. CASE Leave(c, "error")
  BY <1>0, <1>2, Ends DEF OverSteps, Hits
<1> QED BY <1>1, <1>2 DEF WaitCheck

LEMMA WaitHealthStep == ASSUME ScriptInv, NEW c \in Commands, WaitHealth(c) PROVE ScriptInv'
<1>0. World /\ Quiet /\ commands[c].step = "health" /\ WorldInv' /\ Follows /\ Unstarted
  BY InCalls, Stays DEF WaitHealth, At
<1>1. CASE Go(c, "check")
  <2>1. Turns(c, "check") /\ lifecycle' = lifecycle
    BY <1>1, InCalls, GoMoves DEF CommandSteps
  <2> QED BY <1>0, <2>1, Waits
<1>2. ASSUME NEW w \in ReadyWorkers, commands' = [commands EXCEPT ![c].step = "parent", ![c].worker = w],
             lifecycle' = lifecycle
      PROVE  ScriptInv'
  <2>1. w \in Pids /\ w \in Nat /\ procs[w].step = "ready"
    BY Numbers DEF ReadyWorkers
  <2>2. PICK x : x = [commands[c] EXCEPT !.step = "parent", !.worker = w]
    OBVIOUS
  <2>3. x \in Calls /\ x.step = "parent" /\ x.worker = w /\ x.identity = commands[c].identity
    BY <2>1, <2>2, InCalls DEF Calls, CommandSteps
  <2>4. Turns(c, "parent") /\ commands'[c] = x
    <3>1. commands' = [commands EXCEPT ![c] = x]
      BY <1>2, <2>2
    <3> QED BY <2>3, <3>1, InCalls, CallMoves
  <2>5. RecognisedAt(c) /\ Looking(c)
    BY <1>0, InCalls DEF Recognised, Looking
  <2>6. procs' = procs
    BY <1>0 DEF World
  <2>7. commands'[c].identity.pid \in Pids
    BY <2>3, <2>4, <2>5 DEF RecognisedAt
  <2>8. Alive(commands[c].identity.pid)' => SameProcess(commands[c].identity)'
    BY <2>3, <2>4, <2>5, <2>6 DEF RecognisedAt, SameProcess, Alive
  <2>9. RecognisedAt(c)'
    BY <2>1, <2>3, <2>4, <2>6, <2>7, <2>8 DEF RecognisedAt
  <2> QED BY <1>0, <1>2, <2>4, <2>9, Goes DEF CommandSteps, Quiet
<1> QED BY <1>1, <1>2 DEF WaitHealth

\* The worker that answered is one's own child, and so is the answer.
LEMMA OwnAnswer ==
    ASSUME ScriptInv, NEW c \in Commands, commands[c].step = "parent", IsParent(c)
    PROVE  AnsweredBy(c) = "own"
<1>1. RecognisedAt(c) /\ Looking(c)
  BY InCalls DEF Recognised, Looking
<1>2. PICK w \in Pids : w = commands[c].worker
  BY <1>1 DEF RecognisedAt
<1>3. PICK p \in Pids : p = commands[c].identity.pid
  BY <1>1 DEF RecognisedAt
<1>4. Alive(w) /\ procs[w].parent = p /\ procs[w].step = "ready"
  BY <1>1, <1>2, <1>3 DEF IsParent, RecognisedAt
<1>5. Alive(p)
  BY <1>4, InCalls DEF Families
<1>6. procs[p].start = commands[c].identity.start
  BY <1>1, <1>3, <1>5 DEF RecognisedAt, SameProcess
<1> QED BY <1>2, <1>4, <1>5, <1>6 DEF AnsweredBy

LEMMA WaitParentStep == ASSUME ScriptInv, NEW c \in Commands, WaitParent(c) PROVE ScriptInv'
<1>0. World /\ Quiet /\ commands[c].step = "parent" /\ WorldInv' /\ Follows /\ Unstarted
  BY InCalls, Stays DEF WaitParent, At
<1>1. CASE IsParent(c)
  <2>1. LeaveAs(c, "ready", "own")
    BY <1>0, <1>1, OwnAnswer DEF WaitParent
  <2> QED BY <1>0, <2>1, Ends DEF OverSteps, Hits
<1>2. CASE ~IsParent(c)
  <2>1. Turns(c, "check") /\ lifecycle' = lifecycle
    BY <1>2, InCalls, GoMoves DEF WaitParent, CommandSteps
  <2> QED BY <1>0, <2>1, Waits
<1> QED BY <1>1, <1>2

LEMMA WaitLongStep == ASSUME ScriptInv, NEW c \in Commands, WaitLong(c) PROVE ScriptInv'
<1>0. World /\ Quiet /\ commands[c].step = "check" /\ WorldInv' /\ Follows /\ Unstarted /\ Leave(c, "error")
  BY InCalls, Stays DEF WaitLong, At
<1> QED BY <1>0, Ends DEF OverSteps, Hits

LEMMA StopRecordStep == ASSUME ScriptInv, NEW c \in Commands, StopRecord(c) PROVE ScriptInv'
<1>0. World /\ Quiet /\ commands[c].step = "stop" /\ WorldInv' /\ Follows /\ Unstarted
  BY InCalls, Stays DEF StopRecord, At
<1>1. CASE SameProcess(pidFile)
  <2>1. commands' = [commands EXCEPT ![c].step = "signal", ![c].identity = pidFile] /\ lifecycle' = lifecycle
    BY <1>1 DEF StopRecord
  <2>2. PICK x : x = [commands[c] EXCEPT !.step = "signal", !.identity = pidFile]
    OBVIOUS
  <2>3. x \in Calls /\ x.step = "signal" /\ x.identity = pidFile
    BY <2>2, InCalls DEF Calls, CommandSteps
  <2>4. Turns(c, "signal") /\ commands'[c] = x
    <3>1. commands' = [commands EXCEPT ![c] = x]
      BY <2>1, <2>2
    <3> QED BY <2>3, <3>1, InCalls, CallMoves
  <2>5. SameProcess(commands'[c].identity)
    BY <1>1, <2>3, <2>4
  <2> QED BY <1>0, <2>1, <2>4, <2>5, Looks
<1>2. CASE Leave(c, "stopped")
  BY <1>0, <1>2, Ends DEF OverSteps, Hits
<1> QED BY <1>1, <1>2 DEF StopRecord

\* Who is signalled is a server that was recognised.
LEMMA Signalled ==
    ASSUME ScriptInv, NEW c \in Commands, commands[c].step \in {"signal", "kill"}, NEW p,
           p = commands[c].identity.pid, Alive(p)
    PROVE  p \in Pids /\ Serving(p) /\ procs[p].what \in Hits
<1>1. RecognisedAt(c) /\ Looking(c)
  BY InCalls DEF Recognised, Looking
<1>2. p \in Pids /\ SameProcess(commands[c].identity)
  BY <1>1 DEF RecognisedAt
<1> QED BY <1>2 DEF SameProcess, Serving, Hits

LEMMA TerminateStep == ASSUME ScriptInv, NEW c \in Commands, Terminate(c) PROVE ScriptInv'
<1>0. Quiet /\ commands[c].step = "signal" /\ starts' = starts
  BY DEF Terminate, At
<1>1. PICK p : p = commands[c].identity.pid
  OBVIOUS
<1>2. CASE ~Alive(p) /\ Leave(c, "error") /\ UNCHANGED <<procs, serverLock, port>>
  <2>1. WorldInv' /\ Follows /\ Unstarted
    BY <1>0, <1>2, InCalls, Stays DEF World
  <2> QED BY <1>0, <1>2, <2>1, Ends DEF OverSteps, Hits
<1>3. CASE Alive(p) /\ ~(~Alive(p) /\ Leave(c, "error") /\ UNCHANGED <<procs, serverLock, port>>)
  <2>0. /\ p \in Pids /\ Serving(p) /\ procs[p].what \in Hits /\ Alive(p) /\ lifecycle' = lifecycle
        /\ commands' = [commands EXCEPT ![c].step = "wait end", ![c].hit = procs[p].what]
        /\ IF procs[p].step = "open" THEN StepTo(p, "closing") /\ UNCHANGED <<serverLock, port>> ELSE Exit(p)
    BY <1>0, <1>1, <1>3, Signalled DEF Terminate
  <2>1. PICK x : x = [commands[c] EXCEPT !.step = "wait end", !.hit = procs[p].what]
    OBVIOUS
  <2>2. x \in Calls /\ x.step = "wait end"
    BY <2>0, <2>1, InCalls DEF Calls, CommandSteps
  <2>3. Turns(c, "wait end")
    <3>1. commands' = [commands EXCEPT ![c] = x]
      BY <2>0, <2>1
    <3> QED BY <2>2, <3>1, InCalls, CallMoves
  <2>4. WorldInv' /\ Follows /\ Unstarted
    <3>1. CASE procs[p].step = "open" /\ StepTo(p, "closing") /\ UNCHANGED <<serverLock, port>>
      <4>1. procs[p].what = "server"
        BY <2>0, <3>1, InCalls DEF Families, Serving
      <4> QED BY <1>0, <2>0, <3>1, <4>1, InCalls, InWorld, Steps
    <3>2. CASE Exit(p)
      BY <1>0, <2>0, <3>2, InCalls, Exits
    <3> QED BY <2>0, <3>1, <3>2
  <2> QED BY <1>0, <2>0, <2>3, <2>4, Waits
<1> QED BY <1>1, <1>2, <1>3 DEF Terminate

LEMMA StopPollStep == ASSUME ScriptInv, NEW c \in Commands, StopPoll(c) PROVE ScriptInv'
<1>0. World /\ Quiet /\ commands[c].step = "wait end" /\ WorldInv' /\ Follows /\ Unstarted /\ Leave(c, "stopped")
  BY InCalls, Stays DEF StopPoll, At
<1> QED BY <1>0, Ends DEF OverSteps, Hits

LEMMA StopLongStep == ASSUME ScriptInv, NEW c \in Commands, StopLong(c) PROVE ScriptInv'
<1>0. World /\ Quiet /\ commands[c].step = "wait end" /\ SameProcess(commands[c].identity) /\ Go(c, "kill")
  BY DEF StopLong, At
<1>1. Turns(c, "kill") /\ lifecycle' = lifecycle /\ commands'[c].identity = commands[c].identity
  BY <1>0, InCalls, GoMoves DEF CommandSteps
<1> QED BY <1>0, <1>1, Looks

LEMMA StopKillStep == ASSUME ScriptInv, NEW c \in Commands, StopKill(c) PROVE ScriptInv'
<1>0. Quiet /\ commands[c].step = "kill" /\ starts' = starts
  BY DEF StopKill, At
<1>1. PICK p : p = commands[c].identity.pid
  OBVIOUS
<1>2. CASE ~Alive(p) /\ Leave(c, "error") /\ UNCHANGED <<procs, serverLock, port>>
  <2>1. WorldInv' /\ Follows /\ Unstarted
    BY <1>0, <1>2, InCalls, Stays DEF World
  <2> QED BY <1>0, <1>2, <2>1, Ends DEF OverSteps, Hits
<1>3. CASE Alive(p) /\ LeaveAs(c, "killed it", procs[p].what) /\ Exit(p)
  <2>1. p \in Pids /\ procs[p].what \in Hits
    BY <1>0, <1>1, <1>3, Signalled
  <2>2. WorldInv' /\ Follows /\ Unstarted
    BY <1>0, <1>3, <2>1, InCalls, Exits
  <2> QED BY <1>0, <1>3, <2>1, <2>2, Ends DEF OverSteps
<1> QED BY <1>1, <1>2, <1>3 DEF StopKill

LEMMA CutScriptStep == ASSUME ScriptInv, NEW c \in Commands, CutScript(c) PROVE ScriptInv'
<1>0. World /\ Leave(c, "error") /\ WorldInv' /\ Follows /\ Unstarted
  BY InCalls, Stays DEF CutScript
<1>1. CASE At(c, "write file")
  <2>1. scriptCut' = TRUE /\ pidFile' \in {pidFile, NoRecord}
    BY <1>1 DEF CutScript
  <2>2. Turns(c, "error")
    BY <1>0, InCalls, LeaveKeeps DEF OverSteps
  <2>3. pidFile' \in Records
    BY <2>1, InCalls DEF NoRecord, Records
  <2>4. Recorded'
    BY <2>1 DEF Recorded
  <2>5. Starting(c)
    BY <1>1 DEF At, Starting
  <2> QED BY <1>0, <2>1, <2>2, <2>3, <2>4, <2>5, Starts
<1>2. CASE ~At(c, "write file")
  <2>1. Quiet
    BY <1>2 DEF CutScript, Quiet
  <2> QED BY <1>0, <1>2, <2>1, Ends DEF OverSteps, Hits, At
<1> QED BY <1>1, <1>2

----
LEMMA ScriptSteps == ASSUME ScriptInv, [ScriptNext]_scriptVars PROVE ScriptInv'
<1>1. CASE \E p \in Pids : \/ ServeLock(p) \/ Serve(p) \/ Bind(p)
                           \/ SpawnWorker(p) \/ LoadWorker(p) \/ EndWorker(p) \/ EndServer(p)
  BY <1>1, ServeLockStep, ServeStep, BindStep, SpawnWorkerStep, LoadWorkerStep, EndStep
<1>2. CASE RunServe \/ StrangerServes \/ StrangerLeaves
  BY <1>2, RunServeStep, StrangerStep
<1>3. CASE \E c \in Commands : \/ BeginCommand(c) \/ BeginWait(c) \/ StartRecord(c) \/ StartChecks(c) \/ BuildFails(c)
                               \/ StartSpawn(c) \/ WriteFile(c)
  BY <1>3, BeginCommandStep, BeginWaitStep, StartRecordStep, StartChecksStep, BuildFailsStep, StartSpawnStep, WriteFileStep
<1>4. CASE \E c \in Commands : WaitCheck(c) \/ WaitHealth(c) \/ WaitParent(c) \/ WaitLong(c)
  BY <1>4, WaitCheckStep, WaitHealthStep, WaitParentStep, WaitLongStep
<1>5. CASE \E c \in Commands : \/ StopRecord(c) \/ Terminate(c) \/ StopPoll(c) \/ StopLong(c) \/ StopKill(c) \/ CutScript(c)
  BY <1>5, StopRecordStep, TerminateStep, StopPollStep, StopLongStep, StopKillStep, CutScriptStep
<1>6. CASE UNCHANGED scriptVars
  <2>1. World /\ Scripts
    BY <1>6 DEF scriptVars, World, Scripts
  <2> QED BY <2>1, InCalls, Stays, Onlooking
<1> QED BY <1>1, <1>2, <1>3, <1>4, <1>5, <1>6 DEF ScriptNext

LEMMA ScriptHolds == ASSUME ScriptInv PROVE OneManaged
<1>0. WorldTypes /\ Families /\ LockHeld /\ Recorded /\ commands \in [Commands -> Calls]
  BY InCalls
<1>1. \A p \in Servers \cup Workers : p \in serverLock /\ p \in Pids /\ Alive(p) /\ procs[p].what \in {"server", "worker"}
  BY <1>0 DEF LockHeld, MustHold, Servers, Workers
<1>2. ASSUME NEW p \in Servers, NEW q \in Servers \cup Workers, q # p PROVE procs[q].parent = p
  <2>1. WorkerOf(q, p) \/ WorkerOf(p, q)
    BY <1>0, <1>1, <1>2 DEF LockHeld
  <2> QED BY <2>1 DEF WorkerOf, Servers
<1>3. ASSUME NEW v \in Workers, NEW w \in Workers, v # w PROVE FALSE
  <2>1. WorkerOf(v, w) \/ WorkerOf(w, v)
    BY <1>0, <1>1, <1>3 DEF LockHeld
  <2>2. ChildOf(v, w) \/ ChildOf(w, v)
    BY <1>0, <1>1, <2>1 DEF Families, WorkerOf
  <2> QED BY <2>2 DEF ChildOf, Workers
<1>4. \A c \in Commands : commands[c].hit \in {"nothing", "own", "serve", "server"}
  BY <1>0 DEF Calls, Hits
<1>5. ASSUME NEW p \in Pids, Started(p), ~scriptCut, pidFile # Identity(p)
      PROVE  \E c \in Commands : At(c, "write file") /\ commands[c].identity = Identity(p)
  BY <1>0, <1>5 DEF Recorded
<1> QED BY <1>2, <1>3, <1>4, <1>5 DEF OneManaged, Identity

(* However calls of the script, the unit of systemd, other servers and crashes *)
(* interleave, with any number of processes: at most one managed server runs,  *)
(* with at most one worker, which is its own; ready is said, and signals are   *)
(* sent, to the process that was meant; and what `start` started is on record  *)
(* unless the start was cut short (qwasar.py:95-162).                          *)
THEOREM ManagesOne == ScriptSpec => []OneManaged
<1>1. ScriptInit => ScriptInv
  BY ScriptStarts
<1>2. ScriptInv /\ [ScriptNext]_scriptVars => ScriptInv'
  BY ScriptSteps
<1>3. ScriptInv => OneManaged
  BY ScriptHolds
<1> QED BY <1>1, <1>2, <1>3, PTL DEF ScriptSpec

----
(* Settings: the files of agents. A document is a sequence of strings; Only    *)
(* picks from it, by a recursive function.                                    *)
Doc(d) == d \in Seq(AllItems)

\* What the scripts write into a document.
LEMMA WrittenItems ==
    {"ours", "title local", "fast other", "key", "tiny ours", "smol ours", "provider ours", "model ours",
     "catalog ours"} \subseteq AllItems
<1>1. {"hermes", "qwen", "roles", "profile"} \subseteq Files
  BY DEF Files
<1>2. \A f \in {"hermes", "qwen", "roles", "profile"} : Items(f) \subseteq AllItems
  BY <1>1 DEF AllItems
<1>3. "ours" \in Items("hermes") /\ "title local" \in Items("hermes")
  BY DEF Items, OfEntry, Title
<1>4. "fast other" \in Items("qwen") /\ "key" \in Items("qwen")
  BY DEF Items, Fast
<1>5. "tiny ours" \in Items("roles") /\ "smol ours" \in Items("roles")
  BY DEF Items
<1>6. {"provider ours", "model ours", "catalog ours"} \subseteq Items("profile")
  BY DEF Items
<1> QED BY <1>2, <1>3, <1>4, <1>5, <1>6

\* What is picked after n items, as a function; Only is its last value.
LEMMA OnlyRule ==
    ASSUME NEW d, Doc(d), NEW items
    PROVE  \E f : /\ Only(d, items) = f[Len(d)] /\ f[0] = <<>>
                  /\ \A n \in 1..Len(d) : f[n] = Picked(d[n], f[n - 1], items)
<1> DEFINE Picks(f, x) == f = [i \in 0..x |-> IF i = 0 THEN <<>> ELSE Picked(d[i], f[i - 1], items)]
           pf == CHOOSE f : Picks(f, Len(d))
<1>0. Len(d) \in Nat
  BY DEF Doc
<1>1. Only(d, items) = pf[Len(d)]
  BY Zenon DEF Only
<1>2. \A n \in Nat : \E f : Picks(f, n)
  <2> DEFINE D == {x \in Nat : ~ \E f : Picks(f, x)}
  <2>1. SUFFICES ASSUME D # {} PROVE FALSE
    OBVIOUS
  <2>2. PICK x \in D : \A y \in D : x <= y
    BY <2>1, LeastExists
  <2>3. x \in Nat /\ ~ \E f : Picks(f, x)
    BY <2>2
  <2>4. CASE x = 0
    <3> DEFINE e == [i \in 0..x |-> <<>>]
    <3>1. Picks(e, x)
      BY <2>4
    <3> QED BY <3>1, <2>3
  <2>5. CASE x # 0
    <3>1. x - 1 \in Nat /\ x - 1 \notin D
      <4>1. x - 1 \in Nat /\ ~ (x <= x - 1)
        BY <2>3, <2>5
      <4> HIDE DEF D
      <4> QED BY <4>1, <2>2
    <3>2. PICK f : Picks(f, x - 1)
      BY <3>1
    <3> DEFINE last == Picked(d[x], f[x - 1], items)
               g == [i \in 0..x |-> IF i < x THEN f[i] ELSE last]
    <3>3. ASSUME NEW i \in 0..x
          PROVE  g[i] = IF i = 0 THEN <<>> ELSE Picked(d[i], g[i - 1], items)
      <4>1. CASE i < x
        <5>1. i \in 0..(x - 1) /\ g[i] = f[i] /\ (i # 0 => g[i - 1] = f[i - 1])
          BY <4>1, <2>3
        <5>2. f[i] = IF i = 0 THEN <<>> ELSE Picked(d[i], f[i - 1], items)
          BY <3>2, <5>1
        <5> QED BY <5>1, <5>2
      <4>2. CASE i = x
        <5>1. g[i] = last /\ i # 0
          BY <4>2, <2>3, <2>5
        <5>2. i - 1 \in 0..x /\ i - 1 < x
          BY <4>2, <2>3, <2>5
        <5>3. g[i - 1] = f[i - 1]
          BY <5>2
        <5> QED BY <5>1, <5>3, <4>2
      <4> QED BY <4>1, <4>2, <2>3
    <3>4. g = [i \in 0..x |-> g[i]]
      OBVIOUS
    <3>5. Picks(g, x)
      <4> HIDE DEF g
      <4> QED BY <3>3, <3>4
    <3> QED BY <3>5, <2>3
  <2> QED BY <2>4, <2>5
<1>a. Picks(pf, Len(d))
  BY Zenon, <1>0, <1>2
<1> HIDE DEF pf
<1>3. pf[0] = <<>>
  BY <1>0, <1>a
<1>4. ASSUME NEW n \in 1..Len(d) PROVE pf[n] = Picked(d[n], pf[n - 1], items)
  <2>1. n \in 0..Len(d) /\ n # 0
    BY <1>0
  <2> QED BY <2>1, <1>a
<1> QED BY <1>1, <1>3, <1>4

\* Two documents of which the same is picked: their items agree, place by
\* place, but for those that are not picked.
LEMMA OnlyPointwise ==
    ASSUME NEW d, Doc(d), NEW e, Doc(e), NEW K, NEW J, Len(d) = Len(e),
           \A i \in 1..Len(d) : (d[i] \in K /\ e[i] \in J /\ d[i] = e[i]) \/ (d[i] \notin K /\ e[i] \notin J)
    PROVE  Only(d, K) = Only(e, J)
<1>1. PICK f : /\ Only(d, K) = f[Len(d)] /\ f[0] = <<>>
               /\ \A n \in 1..Len(d) : f[n] = Picked(d[n], f[n - 1], K)
  BY OnlyRule
<1>2. PICK g : /\ Only(e, J) = g[Len(e)] /\ g[0] = <<>>
               /\ \A n \in 1..Len(e) : g[n] = Picked(e[n], g[n - 1], J)
  BY OnlyRule
<1>0. Len(d) \in Nat
  BY DEF Doc
<1> DEFINE D == {n \in 0..Len(d) : f[n] # g[n]}
<1>3. D = {}
  <2> SUFFICES ASSUME D # {} PROVE FALSE
    OBVIOUS
  <2>1. PICK n \in D : \A m \in D : n <= m
    <3>1. D \subseteq Nat
      BY <1>0
    <3> QED BY <3>1, LeastExists
  <2>2. n \in 0..Len(d) /\ f[n] # g[n] /\ n # 0
    BY <2>1, <1>1, <1>2
  <2>3. n \in 1..Len(d) /\ n - 1 \in 0..Len(d) /\ ~ (n <= n - 1)
    BY <2>2, <1>0
  <2>4. f[n - 1] = g[n - 1]
    BY <2>3, <2>1
  <2>5. f[n] = g[n]
    BY <2>3, <2>4, <1>1, <1>2 DEF Picked
  <2> QED BY <2>2, <2>5
<1>4. Len(d) \in 0..Len(d)
  BY <1>0
<1> QED BY <1>1, <1>2, <1>3, <1>4

\* Nothing is picked but items of the document, and all of them that may be.
LEMMA OnlyHas ==
    ASSUME NEW d, Doc(d), NEW K
    PROVE  /\ Doc(Only(d, K)) /\ \A x : x \in ToSet(Only(d, K)) <=> x \in ToSet(d) /\ x \in K
<1>1. PICK f : /\ Only(d, K) = f[Len(d)] /\ f[0] = <<>>
               /\ \A n \in 1..Len(d) : f[n] = Picked(d[n], f[n - 1], K)
  BY OnlyRule
<1>0. Len(d) \in Nat /\ DOMAIN d = 1..Len(d) /\ \A i \in 1..Len(d) : d[i] \in AllItems
  BY DEF Doc
<1> DEFINE Good(n) == f[n] \in Seq(AllItems) /\ {f[n][i] : i \in 1..Len(f[n])} = {d[i] : i \in 1..n} \cap K
           D == {n \in 0..Len(d) : ~ Good(n)}
<1>2. Good(0)
  BY <1>1
<1>3. ASSUME NEW n \in 1..Len(d), Good(n - 1) PROVE Good(n)
  <2> DEFINE a == f[n - 1]
  <2>1. a \in Seq(AllItems) /\ {a[i] : i \in 1..Len(a)} = {d[i] : i \in 1..(n - 1)} \cap K /\ Len(a) \in Nat
    <3>1. a \in Seq(AllItems) /\ {a[i] : i \in 1..Len(a)} = {d[i] : i \in 1..(n - 1)} \cap K
      BY Zenon, <1>3
    <3> QED BY <3>1
  <2>2. f[n] = IF d[n] \in K THEN Append(a, d[n]) ELSE a
    BY <1>1 DEF Picked
  <2>3. {d[i] : i \in 1..n} = {d[i] : i \in 1..(n - 1)} \cup {d[n]}
    <3>1. 1..n = 1..(n - 1) \cup {n}
      BY <1>0
    <3> QED BY <3>1
  <2>4. {Append(a, d[n])[i] : i \in 1..Len(Append(a, d[n]))} = {a[i] : i \in 1..Len(a)} \cup {d[n]}
        /\ Append(a, d[n]) \in Seq(AllItems)
    <3>1. /\ Append(a, d[n]) \in Seq(AllItems) /\ Len(Append(a, d[n])) = Len(a) + 1
          /\ Append(a, d[n])[Len(a) + 1] = d[n] /\ \A i \in 1..Len(a) : Append(a, d[n])[i] = a[i]
      BY <2>1, <1>0
    <3>2. 1..(Len(a) + 1) = 1..Len(a) \cup {Len(a) + 1}
      BY <2>1
    <3> QED BY <3>1, <3>2
  <2> HIDE DEF a
  <2>5. CASE d[n] \in K
    BY <2>1, <2>2, <2>3, <2>4, <2>5
  <2>6. CASE d[n] \notin K
    BY <2>1, <2>2, <2>3, <2>6
  <2> QED BY <2>5, <2>6
<1>4. D = {}
  <2> SUFFICES ASSUME D # {} PROVE FALSE
    OBVIOUS
  <2>1. PICK n \in D : \A m \in D : n <= m
    <3>1. D \subseteq Nat
      BY <1>0
    <3> QED BY <3>1, LeastExists
  <2>2. n \in 0..Len(d) /\ ~ Good(n)
    BY <2>1
  <2> HIDE DEF Good
  <2>3. n # 0 /\ n \in 1..Len(d) /\ n - 1 \in 0..Len(d) /\ ~ (n <= n - 1)
    BY <2>2, <1>2, <1>0
  <2>5. Good(n - 1)
    BY <2>3, <2>1
  <2> QED BY <2>5, <2>3, <2>2, <1>3
<1>5. Good(Len(d))
  <2>1. Len(d) \in 0..Len(d)
    BY <1>0
  <2> HIDE DEF Good
  <2> QED BY <2>1, <1>4
<1> DEFINE b == f[Len(d)]
<1>6. b \in Seq(AllItems) /\ {b[i] : i \in 1..Len(b)} = {d[i] : i \in 1..Len(d)} \cap K /\ b = Only(d, K)
  BY <1>5, <1>1
<1> HIDE DEF b
<1>7. ToSet(b) = {b[i] : i \in 1..Len(b)} /\ ToSet(d) = {d[i] : i \in 1..Len(d)}
  BY <1>6, <1>0 DEF ToSet
<1> QED BY <1>6, <1>7 DEF Doc

\* An item at the end; an item at the front that is not picked.
LEMMA OnlyAppend ==
    ASSUME NEW d, Doc(d), NEW x \in AllItems, NEW K
    PROVE  Doc(Append(d, x)) /\ Only(Append(d, x), K) = Picked(x, Only(d, K), K)
<1> DEFINE e == Append(d, x)
<1>0. /\ Len(d) \in Nat /\ Doc(e) /\ Len(e) = Len(d) + 1 /\ e[Len(d) + 1] = x
      /\ \A i \in 1..Len(d) : e[i] = d[i]
  BY DEF Doc
<1> HIDE DEF e
<1>1. PICK f : /\ Only(d, K) = f[Len(d)] /\ f[0] = <<>>
               /\ \A n \in 1..Len(d) : f[n] = Picked(d[n], f[n - 1], K)
  BY OnlyRule
<1>2. PICK g : /\ Only(e, K) = g[Len(e)] /\ g[0] = <<>>
               /\ \A n \in 1..Len(e) : g[n] = Picked(e[n], g[n - 1], K)
  BY <1>0, OnlyRule
<1> DEFINE D == {n \in 0..Len(d) : f[n] # g[n]}
<1>3. D = {}
  <2> SUFFICES ASSUME D # {} PROVE FALSE
    OBVIOUS
  <2>1. PICK n \in D : \A m \in D : n <= m
    <3>1. D \subseteq Nat
      BY <1>0
    <3> QED BY <3>1, LeastExists
  <2>2. n \in 0..Len(d) /\ f[n] # g[n] /\ n # 0
    BY <2>1, <1>1, <1>2
  <2>3. n \in 1..Len(d) /\ n - 1 \in 0..Len(d) /\ ~ (n <= n - 1) /\ n \in 1..Len(e)
    BY <2>2, <1>0
  <2>4. f[n - 1] = g[n - 1] /\ e[n] = d[n]
    BY <2>3, <2>1, <1>0
  <2>5. f[n] = g[n]
    BY <2>3, <2>4, <1>1, <1>2
  <2> QED BY <2>2, <2>5
<1>4. f[Len(d)] = g[Len(d)]
  <2>1. Len(d) \in 0..Len(d)
    BY <1>0
  <2> QED BY <2>1, <1>3
<1>5. g[Len(e)] = Picked(x, g[Len(d)], K)
  <2>1. Len(d) + 1 \in 1..Len(e) /\ (Len(d) + 1) - 1 = Len(d) /\ Len(e) = Len(d) + 1 /\ e[Len(d) + 1] = x
    BY <1>0
  <2> HIDE DEF D
  <2>2. g[Len(d) + 1] = Picked(e[Len(d) + 1], g[(Len(d) + 1) - 1], K)
    BY <2>1, <1>2
  <2> QED BY Zenon, <2>1, <2>2
<1> QED BY <1>0, <1>1, <1>2, <1>4, <1>5 DEF e

LEMMA OnlyFront ==
    ASSUME NEW d, Doc(d), NEW x \in AllItems, NEW K, x \notin K
    PROVE  Doc(<<x>> \o d) /\ Only(<<x>> \o d, K) = Only(d, K)
<1> DEFINE e == <<x>> \o d
<1>0. /\ Len(d) \in Nat /\ Doc(e) /\ Len(e) = Len(d) + 1 /\ e[1] = x
      /\ \A i \in 1..Len(d) : e[i + 1] = d[i]
  <2>1. d \in Seq(AllItems) /\ Len(d) \in Nat
    BY DEF Doc
  <2>3. e \in Seq(AllItems)
    <3>1. \A S : \A y \in S : \A s \in Seq(S) : <<y>> \o s \in Seq(S)
      OBVIOUS
    <3> QED BY Zenon, <3>1, <2>1
  <2>4. Len(e) = Len(d) + 1
    BY <2>1
  <2>5. e[1] = x
    BY <2>1
  <2>6. ASSUME NEW i \in 1..Len(d) PROVE e[i + 1] = d[i]
    BY <2>1
  <2> HIDE DEF e
  <2> QED BY <2>1, <2>3, <2>4, <2>5, <2>6 DEF Doc
<1> HIDE DEF e
<1>1. PICK f : /\ Only(d, K) = f[Len(d)] /\ f[0] = <<>>
               /\ \A n \in 1..Len(d) : f[n] = Picked(d[n], f[n - 1], K)
  BY OnlyRule
<1>2. PICK g : /\ Only(e, K) = g[Len(e)] /\ g[0] = <<>>
               /\ \A n \in 1..Len(e) : g[n] = Picked(e[n], g[n - 1], K)
  BY <1>0, OnlyRule
<1> DEFINE D == {n \in 0..Len(d) : f[n] # g[n + 1]}
<1>3. D = {}
  <2> SUFFICES ASSUME D # {} PROVE FALSE
    OBVIOUS
  <2>1. PICK n \in D : \A m \in D : n <= m
    <3>1. D \subseteq Nat
      BY <1>0
    <3> QED BY <3>1, LeastExists
  <2>2. n \in 0..Len(d) /\ f[n] # g[n + 1]
    BY <2>1
  <2>3. n + 1 \in 1..Len(e) /\ (n + 1) - 1 = n
    BY <2>2, <1>0
  <2>4. g[n + 1] = Picked(e[n + 1], g[n], K)
    <3> HIDE DEF D
    <3>1. g[n + 1] = Picked(e[n + 1], g[(n + 1) - 1], K)
      BY <2>3, <1>2
    <3> QED BY Zenon, <3>1, <2>3
  <2>5. CASE n = 0
    <3>1. g[1] = Picked(e[1], g[0], K)
      BY <2>4, <2>5
    <3> QED BY <3>1, <1>0, <1>1, <1>2, <2>2, <2>5 DEF Picked
  <2>6. CASE n # 0
    <3>1. n \in 1..Len(d) /\ n - 1 \in 0..Len(d) /\ ~ (n <= n - 1) /\ (n - 1) + 1 = n
      BY <2>2, <2>6, <1>0
    <3>2. f[n - 1] = g[(n - 1) + 1]
      BY <3>1, <2>1
    <3>3. f[n - 1] = g[n] /\ e[n + 1] = d[n]
      BY <3>1, <3>2, <1>0
    <3>4. f[n] = Picked(d[n], f[n - 1], K)
      BY <3>1, <1>1
    <3> QED BY Zenon, <2>2, <2>4, <3>3, <3>4
  <2> QED BY <2>5, <2>6
<1>4. f[Len(d)] = g[Len(d) + 1]
  <2>1. Len(d) \in 0..Len(d)
    BY <1>0
  <2> QED BY <2>1, <1>3
<1> QED BY <1>0, <1>1, <1>2, <1>4 DEF e

\* What is picked of what was picked.
LEMMA OnlyOnly ==
    ASSUME NEW d, Doc(d), NEW J, NEW K, \A x \in ToSet(d) : x \in K => x \in J
    PROVE  Only(Only(d, J), K) = Only(d, K)
<1>0. Len(d) \in Nat /\ \A i \in 1..Len(d) : d[i] \in AllItems /\ d[i] \in ToSet(d)
  BY DEF Doc, ToSet
<1>1. PICK f : /\ Only(d, J) = f[Len(d)] /\ f[0] = <<>>
               /\ \A n \in 1..Len(d) : f[n] = Picked(d[n], f[n - 1], J)
  BY OnlyRule
<1>2. PICK g : /\ Only(d, K) = g[Len(d)] /\ g[0] = <<>>
               /\ \A n \in 1..Len(d) : g[n] = Picked(d[n], g[n - 1], K)
  BY OnlyRule
<1>3. Doc(<<>>) /\ Only(<<>>, K) = <<>>
  <2>1. Doc(<<>>) /\ Len(<<>>) = 0
    BY DEF Doc
  <2>2. PICK h : Only(<<>>, K) = h[Len(<<>>)] /\ h[0] = <<>>
    BY <2>1, OnlyRule
  <2> QED BY <2>1, <2>2
<1> DEFINE Good(n) == Doc(f[n]) /\ Only(f[n], K) = g[n]
           D == {n \in 0..Len(d) : ~ Good(n)}
<1>4. ASSUME NEW n \in 1..Len(d), Good(n - 1) PROVE Good(n)
  <2>1. f[n] = Picked(d[n], f[n - 1], J) /\ g[n] = Picked(d[n], g[n - 1], K) /\ d[n] \in AllItems /\ d[n] \in ToSet(d)
    BY <1>0, <1>1, <1>2
  <2>2. Doc(f[n - 1]) /\ Only(f[n - 1], K) = g[n - 1]
    BY <1>4
  <2>3. CASE d[n] \in J
    <3>1. f[n] = Append(f[n - 1], d[n])
      BY <2>1, <2>3 DEF Picked
    <3>2. Doc(Append(f[n - 1], d[n])) /\ Only(Append(f[n - 1], d[n]), K) = Picked(d[n], Only(f[n - 1], K), K)
      BY <2>1, <2>2, OnlyAppend
    <3> QED BY Zenon, <3>1, <3>2, <2>1, <2>2
  <2>4. CASE d[n] \notin J
    <3>1. f[n] = f[n - 1] /\ g[n] = g[n - 1]
      BY <2>1, <2>4 DEF Picked
    <3> QED BY Zenon, <3>1, <2>2
  <2> QED BY <2>3, <2>4
<1>5. Good(0)
  BY Zenon, <1>1, <1>2, <1>3
<1> HIDE DEF Good
<1>6. D = {}
  <2> SUFFICES ASSUME D # {} PROVE FALSE
    OBVIOUS
  <2>1. PICK n \in D : \A m \in D : n <= m
    <3>1. D \subseteq Nat
      BY <1>0
    <3> QED BY <3>1, LeastExists
  <2>2. n \in 0..Len(d) /\ ~ Good(n)
    BY <2>1
  <2>3. n # 0 /\ n \in 1..Len(d) /\ n - 1 \in 0..Len(d) /\ ~ (n <= n - 1)
    BY <2>2, <1>5, <1>0
  <2>4. Good(n - 1)
    BY <2>3, <2>1
  <2> QED BY <2>4, <2>3, <2>2, <1>4
<1>7. Good(Len(d))
  <2>1. Len(d) \in 0..Len(d)
    BY <1>0
  <2> QED BY <2>1, <1>6
<1> QED BY <1>1, <1>2, <1>7 DEF Good

\* Sets that agree on the items of a document pick the same of it.
LEMMA OnlyAgrees ==
    ASSUME NEW d, Doc(d), NEW J, NEW K, \A x \in ToSet(d) : x \in K <=> x \in J
    PROVE  Only(d, K) = Only(d, J)
<1>1. \A i \in 1..Len(d) : d[i] \in ToSet(d)
  BY DEF Doc, ToSet
<1>2. \A i \in 1..Len(d) : (d[i] \in K /\ d[i] \in J /\ d[i] = d[i]) \/ (d[i] \notin K /\ d[i] \notin J)
  BY <1>1
<1> QED BY <1>2, OnlyPointwise

\* Nothing is picked by a set that has none of the items.
LEMMA OnlyNothing ==
    ASSUME NEW d, Doc(d), NEW K, \A x \in ToSet(d) : x \notin K
    PROVE  Only(d, K) = <<>>
<1>1. Doc(Only(d, K)) /\ ToSet(Only(d, K)) = {}
  BY OnlyHas
<1>2. \A e : Doc(e) /\ ToSet(e) = {} => e = <<>>
  <2> SUFFICES ASSUME NEW e, Doc(e), ToSet(e) = {} PROVE e = <<>>
    OBVIOUS
  <2>1. e \in Seq(AllItems) /\ Len(e) \in Nat
    BY DEF Doc
  <2>2. Len(e) = 0
    <3>1. ~ (1 \in DOMAIN e)
      BY DEF ToSet
    <3> QED BY <2>1, <3>1
  <2> QED BY <2>1, <2>2
<1> QED BY <1>1, <1>2

----
\* What a document holds after one of its items is exchanged for another one,
\* after an item is added to it, and after one is put before it.
LEMMA SwappedHas ==
    ASSUME NEW d, Doc(d), NEW old, NEW new \in AllItems, new # old
    PROVE  /\ Doc(Swapped(d, old, new)) /\ Len(Swapped(d, old, new)) = Len(d)
           /\ \A i \in 1..Len(d) : Swapped(d, old, new)[i] = IF d[i] = old THEN new ELSE d[i]
           /\ ~ Has(Swapped(d, old, new), old)
           /\ Has(d, old) => Has(Swapped(d, old, new), new)
           /\ \A x : x # old /\ x # new => (Has(Swapped(d, old, new), x) <=> Has(d, x))
<1> DEFINE e == Swapped(d, old, new)
<1>1. d \in Seq(AllItems) /\ Len(d) \in Nat /\ DOMAIN d = 1..Len(d) /\ \A i \in 1..Len(d) : d[i] \in AllItems
  BY DEF Doc
<1>2. e = [i \in 1..Len(d) |-> IF d[i] = old THEN new ELSE d[i]]
  BY <1>1 DEF Swapped
<1>3. /\ e \in Seq(AllItems) /\ Len(e) = Len(d) /\ DOMAIN e = 1..Len(d)
      /\ \A i \in 1..Len(d) : e[i] = IF d[i] = old THEN new ELSE d[i]
  <2>1. \A i \in 1..Len(d) : (IF d[i] = old THEN new ELSE d[i]) \in AllItems
    BY <1>1
  <2>2. e \in [1..Len(d) -> AllItems]
    BY <1>2, <2>1
  <2>3. \A S : \A n \in Nat : \A s \in [1..n -> S] : s \in Seq(S) /\ Len(s) = n /\ DOMAIN s = 1..n
    OBVIOUS
  <2>4. e \in Seq(AllItems) /\ Len(e) = Len(d) /\ DOMAIN e = 1..Len(d)
    BY Zenon, <1>1, <2>2, <2>3
  <2> QED BY <1>2, <2>4
<1> HIDE DEF e
<1>4. ToSet(e) = {e[i] : i \in 1..Len(d)} /\ ToSet(d) = {d[i] : i \in 1..Len(d)}
  BY <1>1, <1>3 DEF ToSet
<1>5. ~ Has(e, old)
  BY <1>3, <1>4 DEF Has
<1>6. Has(d, old) => Has(e, new)
  BY <1>3, <1>4 DEF Has
<1>7. \A x : x # old /\ x # new => (Has(e, x) <=> Has(d, x))
  BY <1>3, <1>4 DEF Has
<1> QED BY <1>3, <1>5, <1>6, <1>7 DEF e, Doc

LEMMA AppendHas ==
    ASSUME NEW d, Doc(d), NEW y \in AllItems
    PROVE  /\ Doc(Append(d, y)) /\ Len(Append(d, y)) = Len(d) + 1
           /\ Append(d, y)[Len(d) + 1] = y /\ \A i \in 1..Len(d) : Append(d, y)[i] = d[i]
           /\ \A x : Has(Append(d, y), x) <=> Has(d, x) \/ x = y
<1> DEFINE e == Append(d, y)
<1>1. d \in Seq(AllItems) /\ Len(d) \in Nat /\ DOMAIN d = 1..Len(d)
  BY DEF Doc
<1>2. /\ e \in Seq(AllItems) /\ Len(e) = Len(d) + 1 /\ DOMAIN e = 1..(Len(d) + 1)
      /\ e[Len(d) + 1] = y /\ \A i \in 1..Len(d) : e[i] = d[i]
  <2>2. \A S : \A s \in Seq(S) : DOMAIN s = 1..Len(s)
    OBVIOUS
  <2>3. /\ e \in Seq(AllItems) /\ Len(e) = Len(d) + 1
        /\ e[Len(d) + 1] = y /\ \A i \in 1..Len(d) : e[i] = d[i]
    <3>0. d \in Seq(AllItems) /\ Len(d) \in Nat
      BY DEF Doc
    <3>1. Len(e) = Len(d) + 1
      BY <3>0
    <3>4. e[Len(d) + 1] = y
      <4>1. \A S : \A s \in Seq(S) : \A x \in S : Append(s, x)[Len(s) + 1] = x
        OBVIOUS
      <4> QED BY Zenon, <1>1, <4>1
    <3>3. Doc(e)
      <4>1. \A S : \A s \in Seq(S) : \A x \in S : Append(s, x) \in Seq(S)
        OBVIOUS
      <4> QED BY Zenon, <1>1, <4>1 DEF Doc
    <3>2. ASSUME NEW i \in 1..Len(d) PROVE e[i] = d[i]
      BY <1>1
    <3> QED BY <3>1, <3>2, <3>3, <3>4 DEF Doc
  <2> HIDE DEF e
  <2>4. DOMAIN e = 1..Len(e)
    BY Zenon, <2>2, <2>3
  <2> QED BY Zenon, <2>3, <2>4
<1> HIDE DEF e
<1>3. ToSet(e) = {e[i] : i \in 1..(Len(d) + 1)} /\ ToSet(d) = {d[i] : i \in 1..Len(d)}
  BY <1>1, <1>2 DEF ToSet
<1>4. 1..(Len(d) + 1) = 1..Len(d) \cup {Len(d) + 1}
  BY <1>1
<1>5. ToSet(e) = ToSet(d) \cup {y}
  <2>1. ASSUME NEW x PROVE x \in ToSet(e) <=> x \in ToSet(d) \/ x = y
    BY <1>2, <1>3, <1>4
  <2> QED BY <2>1
<1> QED BY <1>2, <1>5 DEF e, Doc, Has

----
\* FirstOwn is the first entry that is under our name or at our address.
FirstAt(d, p) == p \in 1..Len(d) /\ d[p] \in OfEntry /\ \A q \in 1..Len(d) : d[q] \in OfEntry => p <= q

LEMMA FirstOwnIs ==
    ASSUME NEW d, Doc(d), NEW p, FirstAt(d, p)
    PROVE  FirstOwn(d) = d[p]
<1> DEFINE own == {i \in DOMAIN d : d[i] \in OfEntry}
<1>1. Len(d) \in Nat /\ DOMAIN d = 1..Len(d)
  BY DEF Doc
<1>2. p \in own /\ own \subseteq Nat /\ own # {} /\ \A q \in own : p <= q
  BY <1>1 DEF FirstAt
<1>3. FirstOwn(d) = d[Min(own)]
  <2>1. FirstOwn(d) = IF own = {} THEN "none" ELSE d[Min(own)]
    BY Zenon DEF FirstOwn
  <2> QED BY <2>1, <1>2
<1> HIDE DEF own
<1>4. Min(own) \in own /\ \A q \in own : Min(own) <= q
  BY <1>2, MinIsLeast
<1>5. Min(own) = p
  <2>1. p \in Nat /\ Min(own) \in Nat /\ p <= Min(own) /\ Min(own) <= p
    BY Zenon, <1>2, <1>4
  <2> QED BY <2>1
<1> QED BY <1>3, <1>5

LEMMA FirstOwnNot ==
    ASSUME NEW d, Doc(d), \A q \in 1..Len(d) : d[q] \notin OfEntry
    PROVE  FirstOwn(d) = "none"
<1>1. DOMAIN d = 1..Len(d)
  BY DEF Doc
<1> QED BY <1>1 DEF FirstOwn

LEMMA FirstOwnExists ==
    ASSUME NEW d, Doc(d)
    PROVE  \/ FirstOwn(d) = "none" /\ \A q \in 1..Len(d) : d[q] \notin OfEntry
           \/ \E p : FirstAt(d, p) /\ FirstOwn(d) = d[p]
<1> DEFINE own == {i \in 1..Len(d) : d[i] \in OfEntry}
<1>0. Len(d) \in Nat
  BY DEF Doc
<1>1. CASE own = {}
  BY <1>1, FirstOwnNot
<1>2. CASE own # {}
  <2>1. PICK p \in own : \A q \in own : p <= q
    <3>1. own \subseteq Nat
      BY <1>0
    <3> QED BY <3>1, <1>2, LeastExists
  <2>2. FirstAt(d, p)
    BY <2>1 DEF FirstAt
  <2> QED BY <2>2, FirstOwnIs
<1> QED BY <1>1, <1>2

\* What FirstOwn is depends on the entries' places alone.
LEMMA FirstOwnLike ==
    ASSUME NEW d, Doc(d), NEW e, Doc(e), Len(d) <= Len(e),
           \A i \in 1..Len(d) : d[i] = e[i] \/ (d[i] \notin OfEntry /\ e[i] \notin OfEntry),
           \A i \in 1..Len(e) : i > Len(d) => e[i] \notin OfEntry
    PROVE  FirstOwn(e) = FirstOwn(d)
<1>0. Len(d) \in Nat /\ Len(e) \in Nat
  BY DEF Doc
<1>1. CASE FirstOwn(d) = "none" /\ \A q \in 1..Len(d) : d[q] \notin OfEntry
  <2>1. \A q \in 1..Len(e) : e[q] \notin OfEntry
    BY <1>0, <1>1
  <2> QED BY <1>1, <2>1, FirstOwnNot
<1>2. CASE \E p : FirstAt(d, p) /\ FirstOwn(d) = d[p]
  <2>1. PICK p : FirstAt(d, p) /\ FirstOwn(d) = d[p]
    BY <1>2
  <2>2. FirstAt(e, p) /\ e[p] = d[p]
    BY <2>1, <1>0 DEF FirstAt
  <2> QED BY <2>1, <2>2, FirstOwnIs
<1> QED BY <1>1, <1>2, FirstOwnExists

----
\* What a script keeps of a document: what is none of its business.
Keeps(d, e) ==
    /\ Doc(e) /\ \A x \in Theirs : Has(d, x) => Has(e, x)
    /\ \A K : K \subseteq Theirs /\ (\A x \in K : Has(d, x)) => Only(e, K) = Only(d, K)

LEMMA KeepsItself ==
    ASSUME NEW d, Doc(d)
    PROVE  Keeps(d, d)
BY DEF Keeps

LEMMA KeepsOn ==
    ASSUME NEW d, NEW e, NEW f, Keeps(d, e), Keeps(e, f)
    PROVE  Keeps(d, f)
<1>1. ASSUME NEW K, K \subseteq Theirs, \A x \in K : Has(d, x) PROVE Only(f, K) = Only(d, K)
  <2>1. \A x \in K : Has(e, x)
    BY <1>1 DEF Keeps
  <2> QED BY <1>1, <2>1 DEF Keeps
<1> QED BY <1>1 DEF Keeps

LEMMA KeepsSwapped ==
    ASSUME NEW d, Doc(d), NEW old, NEW new \in AllItems, new # old,
           old \notin Theirs, new \notin Theirs \/ ~ Has(d, new)
    PROVE  Keeps(d, Swapped(d, old, new))
<1> DEFINE e == Swapped(d, old, new)
<1>1. /\ Doc(e) /\ Len(e) = Len(d) /\ \A i \in 1..Len(d) : e[i] = IF d[i] = old THEN new ELSE d[i]
      /\ \A x : x # old /\ x # new => (Has(e, x) <=> Has(d, x))
  BY SwappedHas
<1> HIDE DEF e
<1>2. ASSUME NEW x \in Theirs, Has(d, x) PROVE Has(e, x)
  BY <1>1, <1>2
<1>3. ASSUME NEW K, K \subseteq Theirs, \A x \in K : Has(d, x) PROVE Only(e, K) = Only(d, K)
  <2>1. old \notin K /\ new \notin K
    BY <1>3
  <2>2. \A i \in 1..Len(d) : (d[i] \in K /\ e[i] \in K /\ d[i] = e[i]) \/ (d[i] \notin K /\ e[i] \notin K)
    BY <1>1, <2>1
  <2> QED BY <1>1, <2>2, OnlyPointwise
<1> QED BY <1>1, <1>2, <1>3 DEF e, Keeps

LEMMA KeepsAppended ==
    ASSUME NEW d, Doc(d), NEW y \in AllItems, y \notin Theirs \/ ~ Has(d, y)
    PROVE  Keeps(d, Append(d, y))
<1>1. Doc(Append(d, y)) /\ \A x : Has(Append(d, y), x) <=> Has(d, x) \/ x = y
  BY AppendHas
<1>2. ASSUME NEW K, K \subseteq Theirs, \A x \in K : Has(d, x) PROVE Only(Append(d, y), K) = Only(d, K)
  <2>1. y \notin K
    BY <1>2
  <2>2. Only(Append(d, y), K) = Picked(y, Only(d, K), K)
    BY OnlyAppend
  <2> QED BY <2>1, <2>2 DEF Picked
<1> QED BY <1>1, <1>2 DEF Keeps

LEMMA FirstOwnAppended ==
    ASSUME NEW d, Doc(d), NEW y \in AllItems, y \notin OfEntry
    PROVE  FirstOwn(Append(d, y)) = FirstOwn(d)
<1> DEFINE e == Append(d, y)
<1>1. Doc(e) /\ Len(e) = Len(d) + 1 /\ e[Len(d) + 1] = y /\ \A i \in 1..Len(d) : e[i] = d[i]
  BY AppendHas
<1>2. Len(d) \in Nat
  BY DEF Doc
<1> HIDE DEF e
<1>3. ASSUME NEW i \in 1..Len(e), i > Len(d) PROVE e[i] \notin OfEntry
  <2>1. i = Len(d) + 1
    BY <1>1, <1>2, <1>3
  <2> QED BY <2>1, <1>1
<1>4. Len(d) <= Len(e) /\ \A i \in 1..Len(d) : d[i] = e[i] \/ (d[i] \notin OfEntry /\ e[i] \notin OfEntry)
  BY <1>1, <1>2
<1>5. FirstOwn(e) = FirstOwn(d)
  BY <1>1, <1>3, <1>4, FirstOwnLike
<1> QED BY <1>5 DEF e

LEMMA FirstOwnSwapped ==
    ASSUME NEW d, Doc(d), NEW old, NEW new \in AllItems, new # old, old \notin OfEntry, new \notin OfEntry
    PROVE  FirstOwn(Swapped(d, old, new)) = FirstOwn(d)
<1> DEFINE e == Swapped(d, old, new)
<1>1. Doc(e) /\ Len(e) = Len(d) /\ \A i \in 1..Len(d) : e[i] = IF d[i] = old THEN new ELSE d[i]
  BY SwappedHas
<1>2. Len(d) \in Nat
  BY DEF Doc
<1> HIDE DEF e
<1>3. ASSUME NEW i \in 1..Len(e), i > Len(d) PROVE e[i] \notin OfEntry
  <2>1. FALSE
    BY <1>1, <1>2, <1>3
  <2> QED BY <2>1, <1>1
<1>4. Len(d) <= Len(e) /\ \A i \in 1..Len(d) : d[i] = e[i] \/ (d[i] \notin OfEntry /\ e[i] \notin OfEntry)
  BY <1>1, <1>2
<1>5. FirstOwn(e) = FirstOwn(d)
  BY <1>1, <1>3, <1>4, FirstOwnLike
<1> QED BY <1>5 DEF e

\* An entry that is not somebody else's is registered, once and for all.
LEMMA RegisteredIs ==
    ASSUME NEW d, Doc(d), FirstOwn(d) # "alien"
    PROVE  /\ Keeps(d, Registered(d)) /\ Doc(Registered(d))
           /\ FirstOwn(Registered(d)) = "ours"
           /\ \A x : x \notin OfEntry => (Has(Registered(d), x) <=> Has(d, x))
<1>0. Len(d) \in Nat
  BY DEF Doc
<1>1. CASE FirstOwn(d) = "none" /\ \A q \in 1..Len(d) : d[q] \notin OfEntry
  <2> DEFINE e == Append(d, "ours")
  <2>1. Registered(d) = e
    BY <1>1 DEF Registered
  <2>2. /\ Doc(e) /\ Len(e) = Len(d) + 1 /\ e[Len(d) + 1] = "ours" /\ \A i \in 1..Len(d) : e[i] = d[i]
        /\ \A x : Has(e, x) <=> Has(d, x) \/ x = "ours"
    <3>1. "ours" \in AllItems
      BY WrittenItems
    <3> QED BY <3>1, AppendHas
  <2>3. Keeps(d, e)
    <3>1. "ours" \notin Theirs /\ "ours" \in AllItems
      BY WrittenItems DEF Theirs
    <3> QED BY <3>1, KeepsAppended
  <2> HIDE DEF e
  <2>4. FirstAt(e, Len(d) + 1)
    <3>1. ASSUME NEW q \in 1..Len(e), e[q] \in OfEntry PROVE Len(d) + 1 <= q
      <4> SUFFICES ASSUME ~ (Len(d) + 1 <= q) PROVE FALSE
        OBVIOUS
      <4>1. q \in 1..Len(d)
        BY <1>0
      <4> QED BY <4>1, <2>2, <1>1, <3>1
    <3> QED BY <3>1, <2>2, <1>0 DEF FirstAt, OfEntry
  <2>5. FirstOwn(e) = "ours"
    BY <2>2, <2>4, FirstOwnIs
  <2> QED BY <2>1, <2>2, <2>3, <2>5 DEF OfEntry
<1>2. CASE \E p : FirstAt(d, p) /\ FirstOwn(d) = d[p]
  <2>1. PICK p : FirstAt(d, p) /\ FirstOwn(d) = d[p]
    BY <1>2
  <2>2. d[p] \in {"ours", "old"} /\ p \in 1..Len(d)
    BY <2>1 DEF FirstAt, OfEntry
  <2>3. CASE d[p] = "ours"
    <3>1. Registered(d) = d
      BY <2>1, <2>3 DEF Registered
    <3> QED BY <3>1, <2>1, <2>3, KeepsItself
  <2>4. CASE d[p] = "old"
    <3> DEFINE e == Swapped(d, "old", "ours")
    <3>1. Registered(d) = e
      BY <2>1, <2>4 DEF Registered
    <3>2. /\ Doc(e) /\ Len(e) = Len(d) /\ \A i \in 1..Len(d) : e[i] = IF d[i] = "old" THEN "ours" ELSE d[i]
          /\ \A x : x # "old" /\ x # "ours" => (Has(e, x) <=> Has(d, x))
      <4>1. "ours" \in AllItems
        BY WrittenItems
      <4> QED BY <4>1, SwappedHas
    <3>3. Keeps(d, e)
      <4>1. "ours" \notin Theirs /\ "ours" \in AllItems /\ "old" \notin Theirs
        BY WrittenItems DEF Theirs
      <4> QED BY <4>1, KeepsSwapped
    <3> HIDE DEF e
    <3>4. FirstAt(e, p)
      BY <2>1, <2>2, <2>4, <3>2 DEF FirstAt, OfEntry
    <3>5. FirstOwn(e) = "ours"
      <4>1. FirstOwn(e) = e[p]
        BY <3>2, <3>4, FirstOwnIs
      <4> QED BY <4>1, <3>2, <2>2, <2>4
    <3> QED BY <3>1, <3>2, <3>3, <3>5 DEF OfEntry
  <2> QED BY <2>2, <2>3, <2>4
<1> QED BY <1>1, <1>2, FirstOwnExists

\* What is registered stays as it is.
LEMMA RegisteredStays ==
    ASSUME NEW d, FirstOwn(d) = "ours"
    PROVE  Registered(d) = d
BY DEF Registered

----
\* A script that writes a file keeps what is not its business, and would not
\* write again what it wrote.
LEMMA ModelsWrites ==
    ASSUME NEW d, Doc(d), Models(d).do = "write"
    PROVE  Keeps(d, Models(d).doc) /\ Models(Models(d).doc).do = "keep"
<1>1. FirstOwn(d) # "alien" /\ Models(d) = WriteDoc(Registered(d))
  BY DEF Models, RefuseDoc, WriteIfNew, KeepDoc, WriteDoc
<1>2. Keeps(d, Registered(d)) /\ FirstOwn(Registered(d)) = "ours"
  BY <1>1, RegisteredIs
<1>3. Models(Registered(d)) = KeepDoc
  <2>1. Registered(Registered(d)) = Registered(d)
    BY <1>2, RegisteredStays
  <2> QED BY <2>1, <1>2 DEF Models, WriteIfNew
<1> QED BY <1>1, <1>2, <1>3 DEF WriteDoc, KeepDoc

LEMMA TitlePinnedIs ==
    ASSUME NEW d, Doc(d)
    PROVE  /\ Keeps(d, TitlePinned(d)) /\ FirstOwn(TitlePinned(d)) = FirstOwn(d)
           /\ TitlePinned(TitlePinned(d)) = TitlePinned(d)
<1> DEFINE t == TitlePinned(d)
<1>0. /\ "title local" \in AllItems /\ "title local" # "title auto"
      /\ "title local" \notin Theirs /\ "title auto" \notin Theirs
      /\ "title local" \notin OfEntry /\ "title auto" \notin OfEntry
  BY WrittenItems DEF Theirs, OfEntry
<1>1. CASE t = d
  BY <1>1, KeepsItself
<1>2. CASE t = Swapped(d, "title auto", "title local") /\ Has(d, "title auto")
  <2> DEFINE u == Swapped(d, "title auto", "title local")
  <2>1. Keeps(d, u)
    BY <1>0, KeepsSwapped
  <2>2. FirstOwn(u) = FirstOwn(d)
    BY <1>0, FirstOwnSwapped
  <2>3. Has(u, "title local")
    BY <1>0, <1>2, SwappedHas
  <2> HIDE DEF u
  <2>4. TitlePinned(u) = u
    BY <2>3 DEF TitlePinned, Has
  <2> QED BY <1>2, <2>1, <2>2, <2>4 DEF u
<1>3. CASE t = Append(d, "title local")
  <2> DEFINE u == Append(d, "title local")
  <2>1. Keeps(d, u)
    BY <1>0, KeepsAppended
  <2>2. FirstOwn(u) = FirstOwn(d)
    BY <1>0, FirstOwnAppended
  <2>3. Has(u, "title local")
    BY <1>0, AppendHas
  <2> HIDE DEF u
  <2>4. TitlePinned(u) = u
    BY <2>3 DEF TitlePinned, Has
  <2> QED BY <1>3, <2>1, <2>2, <2>4 DEF u
<1> QED BY <1>1, <1>2, <1>3 DEF TitlePinned

LEMMA HermesWrites ==
    ASSUME NEW d, Doc(d), Hermes(d).do = "write"
    PROVE  Keeps(d, Hermes(d).doc) /\ Hermes(Hermes(d).doc).do = "keep"
<1> DEFINE r == Registered(d)
           t == TitlePinned(r)
<1>1. FirstOwn(d) # "alien" /\ Hermes(d) = WriteDoc(t)
  BY DEF Hermes, RefuseDoc, WriteIfNew, KeepDoc, WriteDoc
<1>2. Keeps(d, r) /\ Doc(r) /\ FirstOwn(r) = "ours"
  BY <1>1, RegisteredIs
<1> HIDE DEF r
<1>3. Keeps(r, t) /\ FirstOwn(t) = FirstOwn(r) /\ TitlePinned(t) = t
  BY <1>2, TitlePinnedIs
<1> HIDE DEF t
<1>4. Registered(t) = t
  BY <1>2, <1>3, RegisteredStays
<1>5. Hermes(t) = KeepDoc
  BY <1>2, <1>3, <1>4 DEF Hermes, WriteIfNew
<1>6. Keeps(d, t)
  BY <1>2, <1>3, KeepsOn
<1> QED BY <1>1, <1>5, <1>6 DEF WriteDoc, KeepDoc

LEMMA FrontHas ==
    ASSUME NEW d, Doc(d), NEW y \in AllItems
    PROVE  /\ Doc(<<y>> \o d) /\ Len(<<y>> \o d) = Len(d) + 1 /\ (<<y>> \o d)[1] = y
           /\ \A x : Has(<<y>> \o d, x) <=> Has(d, x) \/ x = y
<1> DEFINE e == <<y>> \o d
<1>1. d \in Seq(AllItems) /\ Len(d) \in Nat /\ DOMAIN d = 1..Len(d)
  BY DEF Doc
<1>2. e \in Seq(AllItems)
  <2>1. \A S : \A x \in S : \A s \in Seq(S) : <<x>> \o s \in Seq(S)
    OBVIOUS
  <2> QED BY Zenon, <2>1, <1>1
<1>3. Len(e) = Len(d) + 1
  BY <1>1
<1>4. e[1] = y
  BY <1>1
<1>5. ASSUME NEW j \in 1..Len(d) PROVE e[j + 1] = d[j]
  BY <1>1
<1> HIDE DEF e
<1>6. ASSUME NEW x PROVE x \in ToSet(e) <=> x \in ToSet(d) \/ x = y
  <2>1. DOMAIN e = 1..(Len(d) + 1)
    BY <1>2, <1>3
  <2>2. ToSet(e) = {e[j] : j \in 1..(Len(d) + 1)} /\ ToSet(d) = {d[j] : j \in 1..Len(d)}
    BY <2>1, <1>1 DEF ToSet
  <2>3. ASSUME NEW j \in 1..Len(d) PROVE d[j] \in ToSet(e)
    <3>1. j + 1 \in 1..(Len(d) + 1)
      BY <1>1
    <3> QED BY <3>1, <2>2, <1>5
  <2>4. ASSUME NEW j \in 1..(Len(d) + 1) PROVE e[j] = y \/ e[j] \in ToSet(d)
    <3>1. j = 1 \/ (j - 1 \in 1..Len(d) /\ (j - 1) + 1 = j)
      BY <1>1
    <3>2. CASE j = 1
      BY <3>2, <1>4
    <3>3. CASE j - 1 \in 1..Len(d) /\ (j - 1) + 1 = j
      <4>1. e[j] = d[j - 1]
        BY <3>3, <1>5
      <4> QED BY <4>1, <3>3, <2>2
    <3> QED BY <3>1, <3>2, <3>3
  <2>5. y \in ToSet(e)
    <3>1. 1 \in 1..(Len(d) + 1)
      BY <1>1
    <3> QED BY <3>1, <1>4, <2>2
  <2> QED BY <2>2, <2>3, <2>4, <2>5
<1> QED BY <1>2, <1>3, <1>4, <1>6 DEF e, Has, Doc

LEMMA FrontedWrites ==
    ASSUME NEW d, Doc(d), NEW dropped, dropped \cap Theirs = {}, Fronted(d, dropped).do = "write"
    PROVE  Keeps(d, Fronted(d, dropped).doc) /\ Fronted(Fronted(d, dropped).doc, dropped).do = "keep"
<1> DEFINE Z == OfEntry \cup dropped
           J == ToSet(d) \ Z
           w == Only(d, J)
           e == <<"ours">> \o w
<1>0. "ours" \in AllItems /\ Theirs \cap Z = {} /\ "ours" \in OfEntry /\ "ours" \in Z /\ "ours" \notin Theirs
  BY WrittenItems DEF Theirs, OfEntry
<1>1. Fronted(d, dropped) = WriteDoc(e)
  BY DEF Fronted, RefuseDoc, WriteIfNew, KeepDoc, WriteDoc, Without
<1>2. Doc(w) /\ \A x : Has(w, x) <=> Has(d, x) /\ x \in J
  BY OnlyHas DEF Has
<1> HIDE DEF w
<1>3. /\ Doc(e) /\ Len(e) = Len(w) + 1 /\ e[1] = "ours"
      /\ \A x : Has(e, x) <=> Has(w, x) \/ x = "ours"
  BY <1>0, <1>2, FrontHas
<1>4. Keeps(d, e)
  <2>1. ASSUME NEW x \in Theirs, Has(d, x) PROVE Has(e, x)
    <3>1. x \in J
      BY <2>1, <1>0 DEF Has
    <3> QED BY <3>1, <2>1, <1>2, <1>3
  <2>2. ASSUME NEW K, K \subseteq Theirs, \A x \in K : Has(d, x) PROVE Only(e, K) = Only(d, K)
    <3>1. "ours" \notin K
      BY <2>2, <1>0
    <3>2. Only(e, K) = Only(w, K)
      BY <3>1, <1>0, <1>2, OnlyFront
    <3>3. \A x \in ToSet(d) : x \in K => x \in J
      BY <2>2, <1>0
    <3>4. Only(w, K) = Only(d, K)
      BY <3>3, OnlyOnly DEF w
    <3> QED BY <3>2, <3>4
  <2> QED BY <2>1, <2>2, <1>3 DEF Keeps
<1>5. FirstOwn(e) = "ours"
  <2>1. FirstAt(e, 1)
    <3>1. Len(w) \in Nat
      BY <1>2 DEF Doc
    <3> HIDE DEF e
    <3> QED BY <3>1, <1>0, <1>3 DEF FirstAt
  <2> QED BY <2>1, <1>3, FirstOwnIs
<1>6. Only(e, ToSet(e) \ Z) = w
  <2>1. Only(e, ToSet(e) \ Z) = Only(w, ToSet(e) \ Z)
    BY <1>0, <1>2, OnlyFront
  <2>2. \A x \in ToSet(w) : x \in ToSet(e) \ Z <=> x \in J
    BY <1>2, <1>3 DEF Has
  <2>3. Only(w, ToSet(e) \ Z) = Only(w, J)
    <3> HIDE DEF e, J
    <3> QED BY <2>2, <1>2, OnlyAgrees
  <2>4. Only(w, J) = w
    <3>1. Only(Only(d, J), J) = Only(d, J)
      <4> HIDE DEF J
      <4> QED BY OnlyOnly
    <3> QED BY <3>1 DEF w
  <2> QED BY <2>1, <2>3, <2>4
<1>7. Fronted(e, dropped) = KeepDoc
  <2>1. Without(e, OfEntry \cup dropped) = w
    BY <1>6 DEF Without
  <2> QED BY <2>1, <1>5 DEF Fronted, WriteIfNew
<1> QED BY <1>1, <1>4, <1>7 DEF WriteDoc, KeepDoc

LEMMA RoleIs ==
    ASSUME NEW d, Doc(d), NEW mine, NEW other, NEW pinned \in AllItems,
           mine # other, mine # pinned, mine \notin Theirs, pinned \notin Theirs
    PROVE  /\ Keeps(d, Role(d, mine, other, pinned)) /\ Doc(Role(d, mine, other, pinned))
           /\ ~ Has(Role(d, mine, other, pinned), mine)
           /\ \/ Has(Role(d, mine, other, pinned), other)
              \/ Has(Role(d, mine, other, pinned), pinned)
           /\ \A x : x # mine /\ x # pinned => (Has(Role(d, mine, other, pinned), x) <=> Has(d, x))
<1> DEFINE r == Role(d, mine, other, pinned)
<1>1. CASE Has(d, mine)
  <2> DEFINE u == Swapped(d, mine, pinned)
  <2>1. r = u
    BY <1>1 DEF Role
  <2>2. Keeps(d, u)
    BY KeepsSwapped
  <2>3. /\ Doc(u) /\ ~ Has(u, mine) /\ Has(u, pinned)
        /\ \A x : x # mine /\ x # pinned => (Has(u, x) <=> Has(d, x))
    BY <1>1, SwappedHas
  <2> HIDE DEF u
  <2> QED BY <2>1, <2>2, <2>3
<1>2. CASE ~ Has(d, mine) /\ ~ Has(d, other) /\ ~ Has(d, pinned)
  <2> DEFINE u == Append(d, pinned)
  <2>1. r = u
    BY <1>2 DEF Role, Has
  <2>2. Keeps(d, u)
    BY KeepsAppended
  <2>3. Doc(u) /\ \A x : Has(u, x) <=> Has(d, x) \/ x = pinned
    BY AppendHas
  <2> HIDE DEF u
  <2> QED BY <1>2, <2>1, <2>2, <2>3
<1>3. CASE ~ Has(d, mine) /\ (Has(d, other) \/ Has(d, pinned))
  <2>1. r = d
    BY <1>3 DEF Role, Has
  <2> QED BY <1>3, <2>1, KeepsItself
<1> QED BY <1>1, <1>2, <1>3

LEMMA RoleStays ==
    ASSUME NEW d, NEW mine, NEW other, NEW pinned, ~ Has(d, mine), Has(d, other) \/ Has(d, pinned)
    PROVE  Role(d, mine, other, pinned) = d
BY DEF Role, Has

LEMMA RolesWrites ==
    ASSUME NEW d, Doc(d), Roles(d).do = "write"
    PROVE  Keeps(d, Roles(d).doc) /\ Roles(Roles(d).doc).do = "keep"
<1> DEFINE t == Role(d, "tiny qwasar", "tiny other", "tiny ours")
           r == Role(t, "smol qwasar", "smol other", "smol ours")
<1>0. /\ "tiny ours" \in AllItems /\ "smol ours" \in AllItems
      /\ "tiny qwasar" \notin Theirs /\ "tiny ours" \notin Theirs
      /\ "smol qwasar" \notin Theirs /\ "smol ours" \notin Theirs
      /\ "smol qwasar" # "smol other" /\ "smol qwasar" # "smol ours"
  BY WrittenItems DEF Theirs
<1>1. Roles(d) = WriteDoc(r)
  BY DEF Roles, WriteIfNew, KeepDoc, WriteDoc
<1>2. /\ Keeps(d, t) /\ Doc(t) /\ ~ Has(t, "tiny qwasar") /\ (Has(t, "tiny other") \/ Has(t, "tiny ours"))
  BY <1>0, RoleIs
<1> HIDE DEF t
<1>3. /\ Keeps(t, r) /\ ~ Has(r, "smol qwasar") /\ (Has(r, "smol other") \/ Has(r, "smol ours"))
      /\ \A x : x # "smol qwasar" /\ x # "smol ours" => (Has(r, x) <=> Has(t, x))
  <2>1. Keeps(t, r)
    BY <1>0, <1>2, RoleIs
  <2>4. ~ Has(r, "smol qwasar")
    BY Zenon, <1>0, <1>2, RoleIs
  <2>2. Has(r, "smol other") \/ Has(r, "smol ours")
    BY <1>0, <1>2, RoleIs
  <2>3. \A x : x # "smol qwasar" /\ x # "smol ours" => (Has(r, x) <=> Has(t, x))
    BY <1>0, <1>2, RoleIs
  <2> QED BY <2>1, <2>2, <2>3, <2>4
<1> HIDE DEF r
<1>4. ~ Has(r, "tiny qwasar") /\ (Has(r, "tiny other") \/ Has(r, "tiny ours"))
  BY <1>2, <1>3
<1>5. Role(r, "tiny qwasar", "tiny other", "tiny ours") = r
  BY <1>4, RoleStays
<1>6. Role(r, "smol qwasar", "smol other", "smol ours") = r
  BY <1>3, RoleStays
<1>7. Roles(r) = KeepDoc
  BY <1>5, <1>6 DEF Roles, WriteIfNew
<1>8. Keeps(d, r)
  BY <1>2, <1>3, KeepsOn
<1> QED BY <1>1, <1>7, <1>8 DEF WriteDoc, KeepDoc

\* With a fast model of its own, the settings of Qwen Code keep it.
LEMMA FastPinnedIs ==
    ASSUME NEW d, Doc(d)
    PROVE  /\ Keeps(d, FastPinned(d)) /\ FirstOwn(FastPinned(d)) = FirstOwn(d)
           /\ FastPinned(FastPinned(d)) = FastPinned(d)
           /\ Has(d, "key") => Has(FastPinned(d), "key")
<1> DEFINE t == FastPinned(d)
<1>0. /\ "fast other" \in AllItems /\ "fast other" # "fast qwasar"
      /\ "fast qwasar" \notin Theirs /\ "fast other" \notin OfEntry /\ "fast qwasar" \notin OfEntry
      /\ "key" # "fast other" /\ "key" # "fast qwasar"
  BY WrittenItems DEF Theirs, OfEntry
<1>1. CASE t = d
  BY <1>1, KeepsItself
<1>2. CASE t = Swapped(d, "fast qwasar", "fast other") /\ Has(d, "fast qwasar") /\ ~ Has(d, "fast other")
  <2> DEFINE u == Swapped(d, "fast qwasar", "fast other")
  <2>1. Keeps(d, u)
    BY <1>0, <1>2, KeepsSwapped
  <2>2. FirstOwn(u) = FirstOwn(d)
    BY <1>0, FirstOwnSwapped
  <2>3. Has(u, "fast other") /\ (Has(d, "key") => Has(u, "key"))
    BY <1>0, <1>2, SwappedHas
  <2> HIDE DEF u
  <2>4. FastPinned(u) = u
    BY <2>3 DEF FastPinned
  <2> QED BY <1>2, <2>1, <2>2, <2>3, <2>4 DEF u
<1>3. CASE t = Append(d, "fast other") /\ ~ Has(d, "fast other")
  <2> DEFINE u == Append(d, "fast other")
  <2>1. Keeps(d, u)
    BY <1>0, <1>3, KeepsAppended
  <2>2. FirstOwn(u) = FirstOwn(d)
    BY <1>0, FirstOwnAppended
  <2>3. Has(u, "fast other") /\ (Has(d, "key") => Has(u, "key"))
    BY <1>0, AppendHas
  <2> HIDE DEF u
  <2>4. FastPinned(u) = u
    BY <2>3 DEF FastPinned
  <2> QED BY <1>3, <2>1, <2>2, <2>3, <2>4 DEF u
<1> QED BY <1>1, <1>2, <1>3 DEF FastPinned

LEMMA QwenWrites ==
    ASSUME NEW d, Doc(d), Qwen(d).do = "write"
    PROVE  Keeps(d, Qwen(d).doc) /\ Qwen(Qwen(d).doc).do = "keep"
<1> DEFINE r == Registered(d)
           k == IF Has(d, "key") THEN r ELSE Append(r, "key")
           t == FastPinned(k)
<1>0. "key" \in AllItems /\ "key" \notin Theirs /\ "key" \notin OfEntry
  BY WrittenItems DEF Theirs, OfEntry
<1>1. FirstOwn(d) # "alien" /\ Qwen(d) = WriteDoc(t)
  BY DEF Qwen, RefuseDoc, WriteIfNew, KeepDoc, WriteDoc
<1>2. /\ Keeps(d, r) /\ Doc(r) /\ FirstOwn(r) = "ours"
      /\ \A x : x \notin OfEntry => (Has(r, x) <=> Has(d, x))
  BY <1>1, RegisteredIs
<1> HIDE DEF r
<1>3. Keeps(d, k) /\ Doc(k) /\ FirstOwn(k) = "ours" /\ Has(k, "key")
  <2>1. CASE Has(d, "key")
    BY <2>1, <1>0, <1>2
  <2>2. CASE ~ Has(d, "key")
    <3> DEFINE a == Append(r, "key")
    <3>1. Doc(a) /\ Has(a, "key")
      BY <1>0, <1>2, AppendHas
    <3>2. Keeps(r, a)
      BY <1>0, <1>2, KeepsAppended
    <3>3. FirstOwn(a) = FirstOwn(r)
      BY <1>0, <1>2, FirstOwnAppended
    <3> HIDE DEF a
    <3>4. Keeps(d, a)
      BY <1>2, <3>2, KeepsOn
    <3> QED BY <2>2, <1>2, <3>1, <3>3, <3>4 DEF a
  <2> QED BY <2>1, <2>2
<1> HIDE DEF k
<1>4. Keeps(k, t) /\ FirstOwn(t) = FirstOwn(k) /\ FastPinned(t) = t /\ Has(t, "key")
  BY <1>3, FastPinnedIs
<1> HIDE DEF t
<1>5. Registered(t) = t
  BY <1>3, <1>4, RegisteredStays
<1>6. Qwen(t) = KeepDoc
  BY <1>3, <1>4, <1>5 DEF Qwen, WriteIfNew
<1>7. Keeps(d, t)
  BY <1>3, <1>4, KeepsOn
<1> QED BY <1>1, <1>6, <1>7 DEF WriteDoc, KeepDoc

LEMMA ProviderWrites ==
    ASSUME NEW d, Doc(d), Provider(d).do = "write"
    PROVE  Keeps(d, Provider(d).doc) /\ Provider(Provider(d).doc).do = "keep"
<1> DEFINE t == Append(d, "ours")
<1>0. "ours" \in AllItems /\ "ours" \notin Theirs
  BY WrittenItems DEF Theirs
<1>1. ~ Has(d, "alien") /\ Provider(d) = WriteDoc(t)
  BY DEF Provider, RefuseDoc, KeepDoc, WriteDoc
<1>2. Keeps(d, t)
  BY <1>0, KeepsAppended
<1>3. Has(t, "ours") /\ ~ Has(t, "alien")
  <2>1. \A x : Has(t, x) <=> Has(d, x) \/ x = "ours"
    BY <1>0, AppendHas
  <2> HIDE DEF t
  <2> QED BY <2>1, <1>1
<1> HIDE DEF t
<1>4. Provider(t) = KeepDoc
  BY <1>3 DEF Provider
<1> QED BY <1>1, <1>2, <1>4 DEF WriteDoc, KeepDoc

\* A profile of codex that chose nothing is written anew, and chooses then.
HasChosen(d) == ToSet(d) \cap Chosen # {}

LEMMA ProfileWrites ==
    ASSUME NEW d, Doc(d), Profile(d).do = "write"
    PROVE  /\ ~ HasChosen(d) \/ Keeps(d, Profile(d).doc)
           /\ Doc(Profile(d).doc) /\ HasChosen(Profile(d).doc)
           /\ Profile(Profile(d).doc).do = "keep"
<1>0. /\ "provider ours" \in AllItems /\ "model ours" \in AllItems /\ "catalog ours" \in AllItems
      /\ "catalog ours" \notin Theirs /\ "catalog other" \notin Theirs
      /\ "provider ours" \in Chosen /\ "catalog ours" # "catalog other"
  BY WrittenItems DEF Theirs, Chosen
<1>1. ASSUME NEW e, Has(e, "provider ours"), Has(e, "model ours"), Has(e, "catalog ours"), ~ Has(e, "catalog other")
      PROVE  HasChosen(e) /\ Profile(e).do = "keep"
  <2>1. HasChosen(e)
    BY <1>0, <1>1 DEF HasChosen, Has
  <2> QED BY <2>1, <1>1 DEF Profile, HasChosen, KeepDoc
<1>2. CASE ~ HasChosen(d)
  <2>1. Profile(d) = WriteDoc(Template)
    BY <1>2 DEF Profile, HasChosen
  <2>2. Doc(Template) /\ ToSet(Template) = {"provider ours", "model ours", "catalog ours"}
    <3>1. \A S : \A x, y, z \in S : <<x, y, z>> \in Seq(S)
      OBVIOUS
    <3>2. Doc(Template)
      BY Zenon, <3>1, <1>0 DEF Doc, Template
    <3>3. \A x, y, z : DOMAIN <<x, y, z>> = 1..3
      OBVIOUS
    <3>4. ToSet(Template) = {Template[j] : j \in 1..3}
      BY <3>3 DEF ToSet, Template
    <3>5. Template[1] = "provider ours" /\ Template[2] = "model ours" /\ Template[3] = "catalog ours"
      BY DEF Template
    <3> HIDE DEF Template
    <3>6. 1..3 = {1, 2, 3}
      OBVIOUS
    <3> QED BY <3>2, <3>4, <3>5, <3>6
  <2>3. /\ Has(Template, "provider ours") /\ Has(Template, "model ours") /\ Has(Template, "catalog ours")
        /\ ~ Has(Template, "catalog other")
    BY <2>2 DEF Has
  <2>4. HasChosen(Template) /\ Profile(Template).do = "keep"
    BY <1>1, <2>3
  <2>5. Profile(d).doc = Template
    BY <2>1 DEF WriteDoc
  <2> QED BY <1>2, <2>2, <2>4, <2>5
<1>3. CASE /\ HasChosen(d) /\ Has(d, "provider ours") /\ Has(d, "model ours") /\ Has(d, "catalog other")
           /\ Profile(d) = WriteDoc(Swapped(d, "catalog other", "catalog ours"))
  <2> DEFINE t == Swapped(d, "catalog other", "catalog ours")
  <2>5. Profile(d).doc = t
    <3>1. \A x : WriteDoc(x).doc = x
      BY DEF WriteDoc
    <3> QED BY Zenon, <3>1, <1>3
  <2>1. Keeps(d, t)
    BY <1>0, KeepsSwapped
  <2>2. Doc(t) /\ ~ Has(t, "catalog other")
    BY <1>0, <1>3, SwappedHas
  <2>6. Has(t, "catalog ours")
    BY <1>0, <1>3, SwappedHas
  <2>3. Has(t, "provider ours") /\ Has(t, "model ours")
    BY <1>0, <1>3, SwappedHas
  <2> HIDE DEF t
  <2>4. HasChosen(t) /\ Profile(t).do = "keep"
    BY <1>1, <2>2, <2>3, <2>6
  <2> QED BY <2>1, <2>2, <2>4, <2>5
<1>4. CASE /\ HasChosen(d) /\ Has(d, "provider ours") /\ Has(d, "model ours") /\ ~ Has(d, "catalog other")
           /\ Profile(d) = WriteDoc(Append(d, "catalog ours"))
  <2> DEFINE t == Append(d, "catalog ours")
  <2>5. Profile(d).doc = t
    <3>1. \A x : WriteDoc(x).doc = x
      BY DEF WriteDoc
    <3> QED BY Zenon, <3>1, <1>4
  <2>1. Keeps(d, t)
    BY <1>0, KeepsAppended
  <2>2. Doc(t) /\ \A x : Has(t, x) <=> Has(d, x) \/ x = "catalog ours"
    BY <1>0, AppendHas
  <2> HIDE DEF t
  <2>4. HasChosen(t) /\ Profile(t).do = "keep"
    BY <1>1, <1>4, <2>2
  <2> QED BY <2>1, <2>2, <2>4, <2>5
<1> QED BY <1>2, <1>3, <1>4 DEF Profile, HasChosen, RefuseDoc, KeepDoc

LEMMA ClaudeWrites ==
    ASSUME NEW d, Claude(d).do = "write"
    PROVE  Doc(Claude(d).doc) /\ Claude(Claude(d).doc).do = "keep"
<1>1. Claude(d).doc = <<"ours">>
  BY DEF Claude, KeepDoc, RefuseDoc, WriteDoc
<1>2. Doc(<<"ours">>)
  <2>1. \A S : \A x \in S : <<x>> \in Seq(S)
    OBVIOUS
  <2>2. "ours" \in AllItems
    BY WrittenItems
  <2> QED BY Zenon, <2>1, <2>2 DEF Doc
<1> QED BY <1>1, <1>2 DEF Claude, KeepDoc

----
\* What a script decides of a file, of whichever it is.
NothingTheirs(f, d) == f = "claude" \/ (f = "profile" /\ ~ HasChosen(d))

LEMMA DecisionOf ==
    ASSUME NEW d, Doc(d)
    PROVE  /\ Decision("models", d) = Models(d) /\ Decision("roles", d) = Roles(d)
           /\ Decision("hermes", d) = Hermes(d) /\ Decision("droid", d) = Fronted(d, {"legacy"})
           /\ Decision("catalog", d) = Fronted(d, {}) /\ Decision("profile", d) = Profile(d)
           /\ Decision("provider", d) = Provider(d) /\ Decision("qwen", d) = Qwen(d)
           /\ Decision("claude", d) = Claude(d)
<1>1. d # Absent
  BY SettingsAssumption DEF Doc
<1> QED BY <1>1 DEF Decision, Droid, Catalog

LEMMA DecisionWrites ==
    ASSUME NEW f \in Files, NEW d, Doc(d), Decision(f, d).do = "write"
    PROVE  /\ Doc(Decision(f, d).doc) /\ Decision(f, Decision(f, d).doc).do = "keep"
           /\ NothingTheirs(f, d) \/ Keeps(d, Decision(f, d).doc)
           /\ f = "profile" => HasChosen(Decision(f, d).doc)
<1>1. CASE f = "models"
  <2>1. Models(d).do = "write"
    BY <1>1, DecisionOf
  <2>2. Keeps(d, Models(d).doc) /\ Models(Models(d).doc).do = "keep"
    BY <2>1, ModelsWrites
  <2>3. Doc(Models(d).doc)
    BY <2>2 DEF Keeps
  <2>4. Decision("models", Models(d).doc) = Models(Models(d).doc)
    BY <2>3, DecisionOf
  <2> QED BY <1>1, <2>2, <2>3, <2>4, DecisionOf
<1>2. CASE f = "roles"
  <2>1. Roles(d).do = "write"
    BY <1>2, DecisionOf
  <2>2. Keeps(d, Roles(d).doc) /\ Roles(Roles(d).doc).do = "keep"
    BY <2>1, RolesWrites
  <2>3. Doc(Roles(d).doc)
    BY <2>2 DEF Keeps
  <2>4. Decision("roles", Roles(d).doc) = Roles(Roles(d).doc)
    BY <2>3, DecisionOf
  <2> QED BY <1>2, <2>2, <2>3, <2>4, DecisionOf
<1>3. CASE f = "hermes"
  <2>1. Hermes(d).do = "write"
    BY <1>3, DecisionOf
  <2>2. Keeps(d, Hermes(d).doc) /\ Hermes(Hermes(d).doc).do = "keep"
    BY <2>1, HermesWrites
  <2>3. Doc(Hermes(d).doc)
    BY <2>2 DEF Keeps
  <2>4. Decision("hermes", Hermes(d).doc) = Hermes(Hermes(d).doc)
    BY <2>3, DecisionOf
  <2> QED BY <1>3, <2>2, <2>3, <2>4, DecisionOf
<1>4. CASE f = "droid"
  <2>0. {"legacy"} \cap Theirs = {}
    BY DEF Theirs
  <2> DEFINE Z == {"legacy"}
  <2>1. Fronted(d, Z).do = "write"
    BY <1>4, DecisionOf
  <2>2. Keeps(d, Fronted(d, Z).doc) /\ Fronted(Fronted(d, Z).doc, Z).do = "keep"
    BY <2>0, <2>1, FrontedWrites
  <2>3. Doc(Fronted(d, Z).doc)
    BY <2>2 DEF Keeps
  <2>4. Decision("droid", Fronted(d, Z).doc) = Fronted(Fronted(d, Z).doc, Z)
    BY <2>3, DecisionOf
  <2> QED BY <1>4, <2>2, <2>3, <2>4, DecisionOf
<1>5. CASE f = "catalog"
  <2>0. {} \cap Theirs = {}
    OBVIOUS
  <2> DEFINE Z == {}
  <2>1. Fronted(d, Z).do = "write"
    BY <1>5, DecisionOf
  <2>2. Keeps(d, Fronted(d, Z).doc) /\ Fronted(Fronted(d, Z).doc, Z).do = "keep"
    BY <2>0, <2>1, FrontedWrites
  <2>3. Doc(Fronted(d, Z).doc)
    BY <2>2 DEF Keeps
  <2>4. Decision("catalog", Fronted(d, Z).doc) = Fronted(Fronted(d, Z).doc, Z)
    BY <2>3, DecisionOf
  <2> QED BY <1>5, <2>2, <2>3, <2>4, DecisionOf
<1>6. CASE f = "profile"
  <2>1. Profile(d).do = "write"
    BY <1>6, DecisionOf
  <2>2. /\ ~ HasChosen(d) \/ Keeps(d, Profile(d).doc)
        /\ Doc(Profile(d).doc) /\ HasChosen(Profile(d).doc)
        /\ Profile(Profile(d).doc).do = "keep"
    BY <2>1, ProfileWrites
  <2>4. Decision("profile", Profile(d).doc) = Profile(Profile(d).doc)
    BY <2>2, DecisionOf
  <2> QED BY <1>6, <2>2, <2>4, DecisionOf DEF NothingTheirs
<1>7. CASE f = "provider"
  <2>1. Provider(d).do = "write"
    BY <1>7, DecisionOf
  <2>2. Keeps(d, Provider(d).doc) /\ Provider(Provider(d).doc).do = "keep"
    BY <2>1, ProviderWrites
  <2>3. Doc(Provider(d).doc)
    BY <2>2 DEF Keeps
  <2>4. Decision("provider", Provider(d).doc) = Provider(Provider(d).doc)
    BY <2>3, DecisionOf
  <2> QED BY <1>7, <2>2, <2>3, <2>4, DecisionOf
<1>8. CASE f = "qwen"
  <2>1. Qwen(d).do = "write"
    BY <1>8, DecisionOf
  <2>2. Keeps(d, Qwen(d).doc) /\ Qwen(Qwen(d).doc).do = "keep"
    BY <2>1, QwenWrites
  <2>3. Doc(Qwen(d).doc)
    BY <2>2 DEF Keeps
  <2>4. Decision("qwen", Qwen(d).doc) = Qwen(Qwen(d).doc)
    BY <2>3, DecisionOf
  <2> QED BY <1>8, <2>2, <2>3, <2>4, DecisionOf
<1>9. CASE f = "claude"
  <2>1. Claude(d).do = "write"
    BY <1>9, DecisionOf
  <2>2. Doc(Claude(d).doc) /\ Claude(Claude(d).doc).do = "keep"
    BY <2>1, ClaudeWrites
  <2>4. Decision("claude", Claude(d).doc) = Claude(Claude(d).doc)
    BY <2>2, DecisionOf
  <2> QED BY <1>9, <2>2, <2>4, DecisionOf DEF NothingTheirs
<1> QED BY <1>1, <1>2, <1>3, <1>4, <1>5, <1>6, <1>7, <1>8, <1>9 DEF Files

----
(* The inductive invariant: what is at work follows from the file as it was    *)
(* read, which the user has not edited since; the files before it are settled. *)
Contents == Seq(AllItems) \cup {Absent}
Stages == {"off", "read", "backup", "make", "fill", "replace"}
SettingsTypes ==
    /\ tool \in DOMAIN FilesOf
    /\ settings \in [MyFiles -> Contents] /\ written \in [MyFiles -> Contents]
    /\ saved \in [MyFiles -> SUBSET Contents]
    /\ configuring \in [step : Stages, at : Nat, original : Contents, desired : Seq(AllItems)]
    /\ outcome \in {"none", "running", "registered", "ended"}

Working == configuring.step \in {"backup", "make", "fill", "replace"}
AtAFile ==
    /\ configuring.step # "off" => outcome \in {"running", "none"} /\ configuring.at # 0
    /\ configuring.step = "read" => configuring.at <= Len(FilesOf[tool]) + 1
    /\ Working => configuring.at <= Len(FilesOf[tool])
AtWork ==
    /\ Working => /\ Decision(File, configuring.original) = WriteDoc(configuring.desired)
                  /\ File \notin raced => settings[File] = configuring.original
    /\ Working /\ configuring.step # "backup" => configuring.original \in {Absent} \cup saved[File]
    /\ configuring.step = "replace" => temporary = configuring.desired
SettledBefore ==
    configuring.step # "off" /\ outcome = "running" =>
        \A i \in 1..(configuring.at - 1) : Decision(FilesOf[tool][i], settings[FilesOf[tool][i]]).do = "keep"
ChosenStays(f) ==
    f = "profile" /\ written[f] # Absent /\ HasChosen(written[f]) => settings[f] # Absent /\ HasChosen(settings[f])
AllKept == \A f \in MyFiles \ raced : KeptOf(f) /\ ChosenStays(f)
NoneIsNone == \A f \in MyFiles : settings[f] = Absent => written[f] = Absent
SettingsInv == SettingsTypes /\ AtAFile /\ AtWork /\ SettledBefore /\ NoneIsNone /\ AllKept /\ Settled

\* The files of a tool are one after the other, none of them twice.
InLine(s) ==
    /\ Len(s) \in Nat /\ DOMAIN s = 1..Len(s) /\ \A i \in 1..Len(s) : s[i] \in Files
    /\ \A i, j \in 1..Len(s) : s[i] = s[j] => i = j

LEMMA FilesInLine ==
    ASSUME NEW t \in DOMAIN FilesOf
    PROVE  InLine(FilesOf[t])
<1>1. \A x \in Files : InLine(<<x>>)
  BY DEF InLine
<1>2. \A x, y \in Files : x # y => InLine(<<x, y>>)
  BY DEF InLine
<1>3. \A x, y, z \in Files : x # y /\ x # z /\ y # z => InLine(<<x, y, z>>)
  BY DEF InLine
<1>4. t \in {"pi", "opencode", "omp", "hermes", "droid", "codex", "qwen", "claude"}
  BY DEF FilesOf
<1>5. {"models", "roles", "hermes", "droid", "catalog", "profile", "provider", "qwen", "claude"} = Files
  BY DEF Files
<1>6. /\ FilesOf["pi"] = <<"models">> /\ FilesOf["opencode"] = <<"models">> /\ FilesOf["omp"] = <<"models", "roles">>
      /\ FilesOf["hermes"] = <<"hermes">> /\ FilesOf["droid"] = <<"droid">>
      /\ FilesOf["codex"] = <<"catalog", "profile", "provider">>
      /\ FilesOf["qwen"] = <<"qwen">> /\ FilesOf["claude"] = <<"claude">>
  BY DEF FilesOf
<1>7. InLine(<<"models">>) /\ InLine(<<"hermes">>) /\ InLine(<<"droid">>) /\ InLine(<<"qwen">>) /\ InLine(<<"claude">>)
  BY <1>1, <1>5
<1>8. InLine(<<"models", "roles">>)
  BY <1>2, <1>5
<1>9. InLine(<<"catalog", "profile", "provider">>)
  BY <1>3, <1>5
<1> HIDE DEF InLine, FilesOf
<1> QED BY <1>4, <1>6, <1>7, <1>8, <1>9

\* What is kept of a file when it holds `now`, the user left `w` and `s` is saved.
Left(f, now, w, s) ==
    /\ w \in {Absent, now} \cup s
    /\ now # Absent => Only(now, ToSet(OfTheUser(f, w))) = OfTheUser(f, w)
ChoseStill(f, now, w) == f = "profile" /\ w # Absent /\ HasChosen(w) => now # Absent /\ HasChosen(now)

LEMMA NothingHas == ToSet(<<>>) = {} /\ Doc(<<>>)
BY DEF ToSet, Doc

LEMMA LeftAlone ==
    ASSUME NEW f, NEW now \in Contents, NEW s
    PROVE  Left(f, now, now, s) /\ ChoseStill(f, now, now)
<1>1. CASE now = Absent
  BY <1>1 DEF Left, ChoseStill
<1>2. CASE now # Absent
  <2>1. Doc(now)
    BY <1>2 DEF Contents, Doc
  <2>2. CASE OfTheUser(f, now) = <<>>
    <3>1. Only(now, {}) = <<>>
      BY <2>1, OnlyNothing
    <3> QED BY <3>1, <2>2, NothingHas DEF Left, ChoseStill
  <2>3. CASE OfTheUser(f, now) = Only(now, Theirs)
    <3> DEFINE K == ToSet(Only(now, Theirs))
    <3>1. \A x \in ToSet(now) : x \in K <=> x \in Theirs
      BY <2>1, OnlyHas
    <3>2. Only(now, K) = Only(now, Theirs)
      <4> HIDE DEF K
      <4> QED BY <2>1, <3>1, OnlyAgrees
    <3> QED BY <3>2, <2>3 DEF Left, ChoseStill
  <2> QED BY <2>2, <2>3 DEF OfTheUser
<1> QED BY <1>1, <1>2

LEMMA LeftSaved ==
    ASSUME NEW f, NEW now, NEW w, NEW s, NEW more, Left(f, now, w, s), s \subseteq more
    PROVE  Left(f, now, w, more)
BY DEF Left

\* A file that is written anew has what the user left in it, and is settled.
LEMMA LeftWritten ==
    ASSUME NEW f \in Files, NEW now \in Contents, NEW w \in Contents, NEW s, NEW new,
           Left(f, now, w, s), ChoseStill(f, now, w), now = Absent => w = Absent,
           Decision(f, now) = WriteDoc(new), now \in {Absent} \cup s
    PROVE  Left(f, new, w, s) /\ ChoseStill(f, new, w)
<1> DEFINE d == IF now = Absent THEN <<>> ELSE now
           kept == OfTheUser(f, w)
           K == ToSet(kept)
<1>0. Doc(d) /\ d # Absent /\ <<>> # Absent
  <2>1. Absent \notin Seq(AllItems) /\ <<>> \in Seq(AllItems)
    BY SettingsAssumption
  <2> QED BY <2>1 DEF Contents, Doc
<1>1. Decision(f, d) = WriteDoc(new)
  <2>1. Decision(f, d) = Decision(f, now)
    BY <1>0 DEF Decision
  <2> QED BY <2>1
<1>2. /\ Doc(new) /\ (NothingTheirs(f, d) \/ Keeps(d, new)) /\ (f = "profile" => HasChosen(new))
  <2>1. Decision(f, d).do = "write" /\ Decision(f, d).doc = new
    <3>1. \A x : WriteDoc(x).do = "write" /\ WriteDoc(x).doc = x
      BY DEF WriteDoc
    <3> QED BY Zenon, <3>1, <1>1
  <2> HIDE DEF d
  <2> QED BY <1>0, <2>1, DecisionWrites
<1>3. new # Absent
  BY <1>2, SettingsAssumption DEF Doc
<1>4. ChoseStill(f, new, w)
  BY <1>2, <1>3 DEF ChoseStill
<1>5. w \in {Absent, new} \cup s
  BY DEF Left
<1>6. Only(new, K) = kept
  <2>1. CASE kept = <<>>
    <3>1. Only(new, {}) = <<>>
      BY <1>2, OnlyNothing
    <3> QED BY <3>1, <2>1, NothingHas
  <2>2. CASE kept # <<>>
    <3>1. /\ w # Absent /\ f # "claude" /\ (f = "profile" => HasChosen(w))
          /\ kept = Only(w, Theirs)
      BY <2>2 DEF OfTheUser, HasChosen
    <3>2. now # Absent /\ d = now /\ Only(now, K) = kept /\ Doc(now) /\ Doc(w)
      BY <3>1 DEF Left, Contents, Doc
    <3>3. K \subseteq Theirs
      BY <3>1, <3>2, OnlyHas
    <3>4. \A x \in K : Has(d, x)
      <4>1. \A x : x \in ToSet(Only(now, K)) <=> x \in ToSet(now) /\ x \in K
        <5> HIDE DEF K
        <5> QED BY <3>2, OnlyHas
      <4> QED BY <4>1, <3>2 DEF Has
    <3>5. ~ NothingTheirs(f, d)
      BY <3>1, <3>2 DEF NothingTheirs, ChoseStill
    <3>6. Only(new, K) = Only(d, K)
      <4> HIDE DEF K, d
      <4> QED BY <3>3, <3>4, <3>5, <1>2 DEF Keeps
    <3> QED BY <3>2, <3>6
  <2> QED BY <2>1, <2>2
<1> QED BY <1>4, <1>5, <1>6 DEF Left

----
\* The files of the tool at work, and the file that is at work.
LEMMA FilesAtWork ==
    ASSUME SettingsTypes
    PROVE  /\ InLine(FilesOf[tool]) /\ MyFiles = {FilesOf[tool][i] : i \in 1..Len(FilesOf[tool])}
           /\ MyFiles \subseteq Files
<1>1. InLine(FilesOf[tool])
  BY FilesInLine DEF SettingsTypes
<1>2. MyFiles = {FilesOf[tool][i] : i \in 1..Len(FilesOf[tool])}
  BY <1>1 DEF MyFiles, ToSet, InLine
<1> QED BY <1>1, <1>2 DEF InLine

LEMMA FileAtWork ==
    ASSUME SettingsInv, configuring.step # "off", configuring.at <= Len(FilesOf[tool])
    PROVE  /\ configuring.at \in 1..Len(FilesOf[tool]) /\ File \in MyFiles /\ File \in Files
           /\ settings[File] \in Contents /\ written[File] \in Contents
<1>1. configuring.at \in Nat /\ configuring.at # 0 /\ Len(FilesOf[tool]) \in Nat
  BY FilesAtWork DEF SettingsInv, SettingsTypes, AtAFile, InLine
<1>2. configuring.at \in 1..Len(FilesOf[tool])
  BY <1>1
<1>3. File \in MyFiles /\ File \in Files
  BY <1>2, FilesAtWork DEF SettingsInv, File
<1> QED BY <1>2, <1>3 DEF SettingsInv, SettingsTypes

\* What is kept is kept while no file changes.
LEMMA KeptUnedited ==
    ASSUME SettingsInv, UNCHANGED <<tool, settings, written, saved, raced>>
    PROVE  NoneIsNone' /\ AllKept'
<1>1. MyFiles' = MyFiles
  BY DEF MyFiles
<1>2. NoneIsNone'
  BY <1>1 DEF SettingsInv, NoneIsNone
<1>3. ASSUME NEW f \in MyFiles \ raced PROVE KeptOf(f)' /\ ChosenStays(f)'
  <2>1. KeptOf(f) /\ ChosenStays(f)
    BY DEF SettingsInv, AllKept
  <2> QED BY <2>1 DEF KeptOf, ChosenStays
<1> QED BY <1>1, <1>2, <1>3 DEF AllKept

\* The invariant has no more to say when no script is at work.
LEMMA InvWhenOff ==
    ASSUME SettingsInv, UNCHANGED <<tool, settings, written, saved, raced>>,
           configuring' = NotConfiguring, outcome' \in {"none", "ended"}
    PROVE  SettingsInv'
<1>1. SettingsTypes'
  <2>1. NotConfiguring \in [step : Stages, at : Nat, original : Contents, desired : Seq(AllItems)]
    BY DEF NotConfiguring, Stages, Contents
  <2> QED BY <2>1 DEF SettingsInv, SettingsTypes, MyFiles
<1>2. configuring'.step = "off"
  BY DEF NotConfiguring
<1>3. AtAFile' /\ AtWork' /\ SettledBefore' /\ Settled'
  BY <1>2 DEF AtAFile, AtWork, SettledBefore, Settled, Working
<1> QED BY <1>1, <1>3, KeptUnedited DEF SettingsInv

LEMMA SettingsStarts == ASSUME SettingsInit PROVE SettingsInv
<1>1. /\ tool \in DOMAIN FilesOf /\ written = settings /\ saved = [f \in MyFiles |-> {}]
      /\ configuring = NotConfiguring /\ outcome = "none"
  BY DEF SettingsInit
<1>2. settings \in [MyFiles -> Contents]
  <2>1. PICK file \in MyFiles : \E d \in {Absent} \cup Documents(file) :
                settings = [f \in MyFiles |-> IF f = file THEN d ELSE Absent]
    BY DEF SettingsInit, MyFiles
  <2>2. PICK d \in {Absent} \cup Documents(file) : settings = [f \in MyFiles |-> IF f = file THEN d ELSE Absent]
    BY <2>1
  <2>3. file \in Files
    <3>1. InLine(FilesOf[tool])
      BY <1>1, FilesInLine
    <3> QED BY <3>1 DEF MyFiles, ToSet, InLine
  <2>4. d \in Contents
    <3>1. CASE d \in Documents(file)
      <4>1. Items(file) \subseteq AllItems
        BY <2>3 DEF AllItems
      <4>2. PICK n \in 0..MaxLength : d \in [1..n -> Items(file)]
        BY <3>1 DEF Documents
      <4>3. n \in Nat
        BY SettingsAssumption
      <4>4. d \in [1..n -> AllItems]
        BY <4>1, <4>2
      <4>5. \A S : \A m \in Nat : \A x \in [1..m -> S] : x \in Seq(S)
        OBVIOUS
      <4> QED BY Zenon, <4>3, <4>4, <4>5 DEF Contents
    <3> QED BY <3>1, <2>2 DEF Contents
  <2>5. Absent \in Contents
    BY DEF Contents
  <2> QED BY <2>2, <2>4, <2>5
<1>3. SettingsTypes
  <2>1. NotConfiguring \in [step : Stages, at : Nat, original : Contents, desired : Seq(AllItems)]
    BY DEF NotConfiguring, Stages, Contents
  <2> QED BY <1>1, <1>2, <2>1 DEF SettingsTypes
<1>4. configuring.step = "off"
  BY <1>1 DEF NotConfiguring
<1>5. AtAFile /\ AtWork /\ SettledBefore /\ Settled
  BY <1>1, <1>4 DEF AtAFile, AtWork, SettledBefore, Settled, Working
<1>6. ASSUME NEW f \in MyFiles PROVE KeptOf(f) /\ ChosenStays(f)
  <2>1. settings[f] \in Contents /\ written[f] = settings[f]
    BY <1>1, <1>2
  <2>2. Left(f, settings[f], settings[f], saved[f]) /\ ChoseStill(f, settings[f], settings[f])
    BY <2>1, LeftAlone
  <2> QED BY <2>1, <2>2 DEF Left, ChoseStill, KeptOf, ChosenStays
<1> QED BY <1>1, <1>3, <1>5, <1>6 DEF SettingsInv, NoneIsNone, AllKept

----
\* One lemma per action.
LEMMA ConfigureKeeps == ASSUME SettingsInv, Configure PROVE SettingsInv'
<1>1. /\ UNCHANGED <<tool, settings, written, saved, raced>> /\ outcome' = "running"
      /\ configuring' = [step |-> "read", at |-> 1, original |-> <<>>, desired |-> <<>>]
  BY DEF Configure, NotConfiguring
<1>2. configuring'.step = "read" /\ configuring'.at = 1
  BY <1>1
<1>3. SettingsTypes'
  <2>1. [step |-> "read", at |-> 1, original |-> <<>>, desired |-> <<>>]
            \in [step : Stages, at : Nat, original : Contents, desired : Seq(AllItems)]
    BY DEF Stages, Contents
  <2> QED BY <1>1, <2>1 DEF SettingsInv, SettingsTypes, MyFiles
<1>4. AtAFile'
  <2>1. Len(FilesOf[tool]) \in Nat
    BY FilesAtWork DEF SettingsInv, InLine
  <2> QED BY <1>1, <1>2, <2>1 DEF AtAFile, Working
<1>5. AtWork' /\ SettledBefore' /\ Settled'
  BY <1>1, <1>2 DEF AtWork, SettledBefore, Settled, Working
<1> QED BY <1>1, <1>3, <1>4, <1>5, KeptUnedited DEF SettingsInv

LEMMA LastFileKeeps == ASSUME SettingsInv, LastFile PROVE SettingsInv'
<1>1. /\ UNCHANGED <<tool, settings, written, saved, raced>>
      /\ configuring' = NotConfiguring /\ outcome' = IF outcome = "running" THEN "registered" ELSE "none"
  BY DEF LastFile
<1>2. CASE outcome' = "none"
  BY <1>1, <1>2, InvWhenOff
<1>3. CASE outcome' = "registered" /\ outcome = "running"
  <2>1. SettingsTypes'
    <3>1. NotConfiguring \in [step : Stages, at : Nat, original : Contents, desired : Seq(AllItems)]
      BY DEF NotConfiguring, Stages, Contents
    <3> QED BY <1>1, <1>3, <3>1 DEF SettingsInv, SettingsTypes, MyFiles
  <2>2. configuring'.step = "off"
    BY <1>1 DEF NotConfiguring
  <2>3. AtAFile' /\ AtWork' /\ SettledBefore'
    BY <2>2, <1>3 DEF AtAFile, AtWork, SettledBefore, Working
  <2>4. \A f \in MyFiles : Decision(f, settings[f]).do = "keep"
    <3>1. configuring.at \in Nat /\ configuring.at > Len(FilesOf[tool]) /\ Len(FilesOf[tool]) \in Nat /\ configuring.step # "off"
      BY FilesAtWork DEF SettingsInv, SettingsTypes, LastFile, InLine
    <3>2. \A j \in 1..Len(FilesOf[tool]) : Decision(FilesOf[tool][j], settings[FilesOf[tool][j]]).do = "keep"
      BY <3>1, <1>3 DEF SettingsInv, SettledBefore
    <3>3. MyFiles = {FilesOf[tool][j] : j \in 1..Len(FilesOf[tool])}
      BY FilesAtWork DEF SettingsInv
    <3> QED BY <3>2, <3>3
  <2>5. Settled'
    BY <1>1, <2>4 DEF Settled, MyFiles
  <2> QED BY <1>1, <2>1, <2>3, <2>5, KeptUnedited DEF SettingsInv
<1> QED BY <1>1, <1>2, <1>3

\* A script that goes on to the next file leaves this one settled.
LEMMA NextFileFits ==
    ASSUME SettingsInv, configuring.step # "off", configuring.at <= Len(FilesOf[tool]),
           configuring' = NextFile, UNCHANGED <<tool, outcome>>,
           outcome = "running" => /\ Decision(File, settings'[File]).do = "keep"
                                  /\ \A f \in MyFiles : f # File => settings'[f] = settings[f]
    PROVE  /\ configuring' \in [step : Stages, at : Nat, original : Contents, desired : Seq(AllItems)]
           /\ configuring'.step = "read" /\ AtAFile' /\ AtWork' /\ SettledBefore' /\ Settled'
<1>1. configuring' = [step |-> "read", at |-> configuring.at + 1, original |-> <<>>, desired |-> <<>>]
  BY DEF NextFile, NotConfiguring
<1>2. configuring.at \in 1..Len(FilesOf[tool]) /\ Len(FilesOf[tool]) \in Nat /\ InLine(FilesOf[tool])
  BY FileAtWork, FilesAtWork DEF SettingsInv, InLine
<1>3. configuring'.step = "read" /\ configuring'.at = configuring.at + 1
  BY <1>1
<1>4. configuring' \in [step : Stages, at : Nat, original : Contents, desired : Seq(AllItems)]
  BY <1>1, <1>2 DEF Stages, Contents
<1>5. outcome \in {"running", "none"}
  BY DEF SettingsInv, AtAFile
<1>6. AtAFile' /\ AtWork' /\ Settled'
  BY <1>2, <1>3, <1>5 DEF AtAFile, AtWork, Settled, Working
<1>7. SettledBefore'
  <2>1. SUFFICES ASSUME outcome = "running", NEW j \in 1..(configuring'.at - 1)
                 PROVE  Decision(FilesOf[tool][j], settings'[FilesOf[tool][j]]).do = "keep"
    BY DEF SettledBefore
  <2>2. j \in 1..configuring.at /\ j \in 1..Len(FilesOf[tool])
    BY <1>2, <1>3
  <2>3. CASE j = configuring.at
    BY <2>1, <2>3 DEF File
  <2>4. CASE j # configuring.at
    <3>1. j \in 1..(configuring.at - 1)
      BY <1>2, <2>2, <2>4
    <3>2. FilesOf[tool][j] # File
      BY <1>2, <2>2, <2>4 DEF File, InLine
    <3>3. FilesOf[tool][j] \in MyFiles
      BY <2>2, FilesAtWork DEF SettingsInv
    <3>4. Decision(FilesOf[tool][j], settings[FilesOf[tool][j]]).do = "keep"
      BY <3>1, <2>1 DEF SettingsInv, SettledBefore
    <3> QED BY <2>1, <3>2, <3>3, <3>4
  <2> QED BY <2>3, <2>4
<1> QED BY <1>3, <1>4, <1>6, <1>7

\* A script at work on a file goes on with it.
LEMMA WorkFits ==
    ASSUME SettingsInv, Working, Working', UNCHANGED <<tool, settings, outcome, written, raced>>,
           configuring' \in [step : Stages, at : Nat, original : Contents, desired : Seq(AllItems)],
           configuring'.at = configuring.at, configuring'.original = configuring.original,
           configuring'.desired = configuring.desired
    PROVE  /\ AtAFile' /\ SettledBefore' /\ Settled' /\ File' = File
           /\ Decision(File', configuring'.original) = WriteDoc(configuring'.desired)
           /\ File' \notin raced' => settings'[File'] = configuring'.original
<1>1. configuring.step # "off" /\ configuring.at <= Len(FilesOf[tool])
  BY DEF SettingsInv, AtAFile, Working
<1>2. configuring'.step # "off" /\ configuring'.step # "read"
  BY DEF Working
<1>3. File' = File
  BY DEF File
<1>4. AtAFile'
  BY <1>1, <1>2 DEF SettingsInv, AtAFile, Working
<1>5. SettledBefore'
  BY <1>1, <1>2 DEF SettingsInv, SettledBefore
<1>6. Settled'
  BY <1>1 DEF SettingsInv, Settled, AtAFile
<1>7. Decision(File, configuring.original) = WriteDoc(configuring.desired)
      /\ (File \notin raced => settings[File] = configuring.original)
  BY DEF SettingsInv, AtWork
<1> QED BY <1>3, <1>4, <1>5, <1>6, <1>7

LEMMA ReadSettingsKeeps == ASSUME SettingsInv, ReadSettings PROVE SettingsInv'
<1> DEFINE decision == Decision(File, settings[File])
<1>0. /\ configuring.step = "read" /\ configuring.at <= Len(FilesOf[tool])
      /\ UNCHANGED <<tool, settings, temporary, saved, written, raced>>
  BY DEF ReadSettings
<1>1. /\ configuring.at \in 1..Len(FilesOf[tool]) /\ File \in MyFiles /\ File \in Files /\ settings[File] \in Contents
      /\ configuring.step # "off"
  BY <1>0, FileAtWork
<1>2. CASE decision.do = "keep" /\ configuring' = NextFile /\ UNCHANGED outcome
  <2>1. Decision(File, settings'[File]).do = "keep"
    BY <1>0, <1>2
  <2>2. /\ configuring' \in [step : Stages, at : Nat, original : Contents, desired : Seq(AllItems)]
        /\ AtAFile' /\ AtWork' /\ SettledBefore' /\ Settled'
    BY <1>0, <1>1, <1>2, <2>1, NextFileFits
  <2>3. SettingsTypes'
    BY <1>0, <1>2, <2>2 DEF SettingsInv, SettingsTypes, MyFiles
  <2> QED BY <1>0, <2>2, <2>3, KeptUnedited DEF SettingsInv
<1>3. CASE decision.do = "refuse" /\ configuring' = NotConfiguring /\ outcome' = "ended"
  BY <1>0, <1>3, InvWhenOff
<1>4. CASE /\ decision.do = "write" /\ UNCHANGED outcome
           /\ configuring' = [configuring EXCEPT !.step = IF settings[File] = Absent THEN "make" ELSE "backup",
                                 !.original = settings[File], !.desired = decision.doc]
  <2>1. Decision(File, settings[File]) = WriteDoc(decision.doc) /\ decision.doc \in Seq(AllItems)
    <3> DEFINE d == IF settings[File] = Absent THEN <<>> ELSE settings[File]
    <3>1. Doc(d) /\ <<>> # Absent
      <4>1. Absent \notin Seq(AllItems) /\ <<>> \in Seq(AllItems)
        BY SettingsAssumption
      <4> QED BY <4>1, <1>1 DEF Contents, Doc
    <3>2. Decision(File, d) = decision
      BY <3>1 DEF Decision
    <3>3. Doc(decision.doc)
      <4> HIDE DEF d, decision
      <4>1. Decision(File, d).do = "write"
        BY <3>2, <1>4
      <4>2. Doc(Decision(File, d).doc)
        BY <4>1, <3>1, <1>1, DecisionWrites
      <4> QED BY <4>2, <3>2
    <3>4. decision = WriteDoc(decision.doc)
      <4> DEFINE OfAKind(x) == x = KeepDoc \/ x = RefuseDoc \/ x = WriteDoc(x.doc)
      <4>1. \A new : OfAKind(WriteDoc(new)) /\ OfAKind(KeepDoc) /\ OfAKind(RefuseDoc)
        BY DEF WriteDoc
      <4> HIDE DEF OfAKind
      <4>2. OfAKind(Models(d)) /\ OfAKind(Roles(d)) /\ OfAKind(Hermes(d))
        BY <4>1 DEF Models, Roles, Hermes, WriteIfNew
      <4>3. OfAKind(Fronted(d, {"legacy"})) /\ OfAKind(Fronted(d, {}))
        BY <4>1 DEF Fronted, WriteIfNew
      <4>4. OfAKind(Profile(d)) /\ OfAKind(Provider(d))
        BY <4>1 DEF Profile, Provider
      <4>5. OfAKind(Qwen(d)) /\ OfAKind(Claude(d))
        BY <4>1 DEF Qwen, Claude, WriteIfNew
      <4>6. OfAKind(Decision(File, d))
        <5> HIDE DEF d
        <5> QED BY <4>2, <4>3, <4>4, <4>5, <3>1, <1>1, DecisionOf DEF Files
      <4>7. KeepDoc.do = "keep" /\ RefuseDoc.do = "refuse"
        BY DEF KeepDoc, RefuseDoc
      <4> HIDE DEF decision
      <4> QED BY <4>6, <4>7, <3>2, <1>4 DEF OfAKind
    <3> QED BY <3>3, <3>4 DEF Doc
  <2> HIDE DEF decision
  <2>2. configuring \in [step : Stages, at : Nat, original : Contents, desired : Seq(AllItems)]
    BY DEF SettingsInv, SettingsTypes
  <2>3. /\ configuring'.step = IF settings[File] = Absent THEN "make" ELSE "backup"
        /\ configuring'.at = configuring.at /\ configuring'.original = settings[File]
        /\ configuring'.desired = decision.doc
    BY <2>2, <1>4
  <2>4. configuring' \in [step : Stages, at : Nat, original : Contents, desired : Seq(AllItems)]
    BY <2>1, <2>2, <1>1, <1>4 DEF Stages
  <2>5. SettingsTypes'
    BY <1>0, <1>4, <2>4 DEF SettingsInv, SettingsTypes, MyFiles
  <2>6. File' = File
    BY <1>0, <2>3 DEF File
  <2>7. AtAFile'
    BY <1>0, <1>1, <1>4, <2>3 DEF SettingsInv, AtAFile, Working
  <2>8. AtWork'
    BY <1>0, <2>1, <2>3, <2>6 DEF AtWork
  <2>9. SettledBefore' /\ Settled'
    BY <1>0, <1>4, <2>3 DEF SettingsInv, SettledBefore, Settled, AtAFile
  <2> QED BY <1>0, <2>5, <2>7, <2>8, <2>9, KeptUnedited DEF SettingsInv
<1> QED BY <1>2, <1>3, <1>4 DEF ReadSettings

LEMMA BackupKeeps == ASSUME SettingsInv, Backup PROVE SettingsInv'
<1>0. /\ configuring.step = "backup" /\ saved' = [saved EXCEPT ![File] = @ \cup {configuring.original}]
      /\ configuring' = [configuring EXCEPT !.step = "make"]
      /\ UNCHANGED <<tool, settings, temporary, outcome, written, raced>>
  BY DEF Backup
<1>1. configuring \in [step : Stages, at : Nat, original : Contents, desired : Seq(AllItems)]
      /\ saved \in [MyFiles -> SUBSET Contents]
  BY DEF SettingsInv, SettingsTypes
<1>2. /\ configuring'.step = "make" /\ configuring'.at = configuring.at
      /\ configuring'.original = configuring.original /\ configuring'.desired = configuring.desired
  BY <1>0, <1>1
<1>3. configuring' \in [step : Stages, at : Nat, original : Contents, desired : Seq(AllItems)]
  BY <1>0, <1>1 DEF Stages
<1>4. Working /\ Working'
  BY <1>0, <1>2 DEF Working
<1>5. File \in MyFiles
  BY <1>0, <1>4, FileAtWork DEF SettingsInv, AtAFile
<1>6. /\ AtAFile' /\ SettledBefore' /\ Settled' /\ File' = File
      /\ Decision(File', configuring'.original) = WriteDoc(configuring'.desired)
      /\ File' \notin raced' => settings'[File'] = configuring'.original
  BY <1>0, <1>2, <1>3, <1>4, WorkFits
<1>7. configuring.original \in saved'[File] /\ \A f \in MyFiles : saved[f] \subseteq saved'[f]
  BY <1>0, <1>1, <1>5
<1>8. AtWork'
  BY <1>2, <1>6, <1>7 DEF AtWork
<1>9. SettingsTypes'
  <2>1. saved' \in [MyFiles -> SUBSET Contents]
    BY <1>0, <1>1
  <2> QED BY <1>0, <1>3, <2>1 DEF SettingsInv, SettingsTypes, MyFiles
<1>10. NoneIsNone'
  BY <1>0 DEF SettingsInv, NoneIsNone, MyFiles
<1>11. AllKept'
  <2>1. MyFiles' = MyFiles
    BY <1>0 DEF MyFiles
  <2>2. ASSUME NEW f \in MyFiles \ raced PROVE KeptOf(f)' /\ ChosenStays(f)'
    <3>1. KeptOf(f) /\ ChosenStays(f)
      BY DEF SettingsInv, AllKept
    <3> QED BY <3>1, <1>0, <1>7 DEF KeptOf, ChosenStays
  <2> QED BY <2>1, <2>2, <1>0 DEF AllKept
<1> QED BY <1>6, <1>8, <1>9, <1>10, <1>11 DEF SettingsInv

LEMMA MakeTemporaryKeeps == ASSUME SettingsInv, MakeTemporary PROVE SettingsInv'
<1>0. /\ configuring.step = "make" /\ configuring' = [configuring EXCEPT !.step = "fill"]
      /\ UNCHANGED <<tool, settings, saved, outcome, written, raced>>
  BY DEF MakeTemporary
<1>1. configuring \in [step : Stages, at : Nat, original : Contents, desired : Seq(AllItems)]
  BY DEF SettingsInv, SettingsTypes
<1>2. /\ configuring'.step = "fill" /\ configuring'.at = configuring.at
      /\ configuring'.original = configuring.original /\ configuring'.desired = configuring.desired
  BY <1>0, <1>1
<1>3. configuring' \in [step : Stages, at : Nat, original : Contents, desired : Seq(AllItems)]
  BY <1>0, <1>1 DEF Stages
<1>4. Working /\ Working'
  BY <1>0, <1>2 DEF Working
<1>6. /\ AtAFile' /\ SettledBefore' /\ Settled' /\ File' = File
      /\ Decision(File', configuring'.original) = WriteDoc(configuring'.desired)
      /\ File' \notin raced' => settings'[File'] = configuring'.original
  BY <1>0, <1>2, <1>3, <1>4, WorkFits
<1>7. configuring.original \in {Absent} \cup saved[File]
  BY <1>0, <1>4 DEF SettingsInv, AtWork
<1>8. AtWork'
  BY <1>0, <1>2, <1>6, <1>7 DEF AtWork
<1>9. SettingsTypes'
  BY <1>0, <1>3 DEF SettingsInv, SettingsTypes, MyFiles
<1> QED BY <1>0, <1>6, <1>8, <1>9, KeptUnedited DEF SettingsInv

LEMMA FillTemporaryKeeps == ASSUME SettingsInv, FillTemporary PROVE SettingsInv'
<1>0. /\ configuring.step = "fill" /\ configuring' = [configuring EXCEPT !.step = "replace"]
      /\ temporary' = configuring.desired
      /\ UNCHANGED <<tool, settings, saved, outcome, written, raced>>
  BY DEF FillTemporary
<1>1. configuring \in [step : Stages, at : Nat, original : Contents, desired : Seq(AllItems)]
  BY DEF SettingsInv, SettingsTypes
<1>2. /\ configuring'.step = "replace" /\ configuring'.at = configuring.at
      /\ configuring'.original = configuring.original /\ configuring'.desired = configuring.desired
  BY <1>0, <1>1
<1>3. configuring' \in [step : Stages, at : Nat, original : Contents, desired : Seq(AllItems)]
  BY <1>0, <1>1 DEF Stages
<1>4. Working /\ Working'
  BY <1>0, <1>2 DEF Working
<1>6. /\ AtAFile' /\ SettledBefore' /\ Settled' /\ File' = File
      /\ Decision(File', configuring'.original) = WriteDoc(configuring'.desired)
      /\ File' \notin raced' => settings'[File'] = configuring'.original
  BY <1>0, <1>2, <1>3, <1>4, WorkFits
<1>7. configuring.original \in {Absent} \cup saved[File]
  BY <1>0, <1>4 DEF SettingsInv, AtWork
<1>8. AtWork'
  BY <1>0, <1>2, <1>6, <1>7 DEF AtWork
<1>9. SettingsTypes'
  BY <1>0, <1>3 DEF SettingsInv, SettingsTypes, MyFiles
<1> QED BY <1>0, <1>6, <1>8, <1>9, KeptUnedited DEF SettingsInv

LEMMA ReplaceKeeps == ASSUME SettingsInv, Replace PROVE SettingsInv'
<1>0. /\ configuring.step = "replace" /\ settings' = [settings EXCEPT ![File] = temporary]
      /\ configuring' = NextFile /\ UNCHANGED <<tool, saved, outcome, written, raced>>
  BY DEF Replace
<1> DEFINE new == configuring.desired
<1>1. /\ Decision(File, configuring.original) = WriteDoc(new) /\ temporary = new
      /\ File \notin raced => settings[File] = configuring.original
      /\ configuring.original \in {Absent} \cup saved[File]
  BY <1>0 DEF SettingsInv, AtWork, Working
<1>2. configuring.step # "off" /\ configuring.at <= Len(FilesOf[tool])
  BY <1>0 DEF SettingsInv, AtAFile, Working
<1>3. /\ File \in MyFiles /\ File \in Files /\ settings[File] \in Contents /\ written[File] \in Contents
  BY <1>2, FileAtWork
<1>4. new \in Seq(AllItems) /\ configuring.original \in Contents
  BY DEF SettingsInv, SettingsTypes
<1>a. settings \in [MyFiles -> Contents]
  BY DEF SettingsInv, SettingsTypes
<1>5. settings'[File] = new /\ \A f \in MyFiles : f # File => settings'[f] = settings[f]
  BY <1>0, <1>1, <1>3, <1>a
<1>6. Decision(File, new).do = "keep"
  <2> DEFINE d == IF configuring.original = Absent THEN <<>> ELSE configuring.original
  <2>1. Doc(d) /\ <<>> # Absent
    <3>1. Absent \notin Seq(AllItems) /\ <<>> \in Seq(AllItems)
      BY SettingsAssumption
    <3> QED BY <3>1, <1>4 DEF Contents, Doc
  <2>2. Decision(File, d) = WriteDoc(new)
    <3>1. Decision(File, d) = Decision(File, configuring.original)
      BY <2>1 DEF Decision
    <3> QED BY <3>1, <1>1
  <2> HIDE DEF d, new
  <2>3. Decision(File, d).do = "write" /\ Decision(File, d).doc = new
    <3>1. \A x : WriteDoc(x).do = "write" /\ WriteDoc(x).doc = x
      BY DEF WriteDoc
    <3> QED BY Zenon, <3>1, <2>2
  <2>4. Decision(File, Decision(File, d).doc).do = "keep"
    BY <1>3, <2>1, <2>3, DecisionWrites
  <2> QED BY <2>3, <2>4
<1> HIDE DEF new
<1>7. /\ configuring' \in [step : Stages, at : Nat, original : Contents, desired : Seq(AllItems)]
      /\ AtAFile' /\ AtWork' /\ SettledBefore' /\ Settled'
  BY <1>0, <1>2, <1>5, <1>6, NextFileFits
<1>8. SettingsTypes'
  <2>1. new \in Contents
    BY <1>4 DEF Contents
  <2>2. settings' \in [MyFiles -> Contents]
    BY <1>0, <1>1, <1>a, <2>1
  <2> QED BY <1>0, <1>7, <2>2 DEF SettingsInv, SettingsTypes, MyFiles
<1>9. MyFiles' = MyFiles
  BY <1>0 DEF MyFiles
<1>10. NoneIsNone'
  <2>1. new # Absent
    BY <1>4, SettingsAssumption
  <2>2. ASSUME NEW f \in MyFiles, settings'[f] = Absent PROVE written[f] = Absent
    <3>1. f # File
      BY <2>1, <2>2, <1>5
    <3> QED BY <3>1, <2>2, <1>5 DEF SettingsInv, NoneIsNone
  <2> QED BY <2>2, <1>0, <1>9 DEF NoneIsNone
<1>11. AllKept'
  <2>1. ASSUME NEW f \in MyFiles \ raced PROVE KeptOf(f)' /\ ChosenStays(f)'
    <3>1. KeptOf(f) /\ ChosenStays(f) /\ (settings[f] = Absent => written[f] = Absent)
      BY DEF SettingsInv, AllKept, NoneIsNone
    <3>2. CASE f # File
      <4>1. settings'[f] = settings[f]
        BY <3>2, <1>5
      <4> QED BY <4>1, <3>1, <1>0 DEF KeptOf, ChosenStays
    <3>3. CASE f = File
      <4>1. settings[File] = configuring.original
        BY <3>3, <1>1
      <4>2. Left(File, settings[File], written[File], saved[File]) /\ ChoseStill(File, settings[File], written[File])
        BY <3>1, <3>3 DEF KeptOf, ChosenStays, Left, ChoseStill
      <4>3. Left(File, new, written[File], saved[File]) /\ ChoseStill(File, new, written[File])
        <5>1. Decision(File, settings[File]) = WriteDoc(new) /\ settings[File] \in {Absent} \cup saved[File]
          BY <4>1, <1>1
        <5>2. settings[File] = Absent => written[File] = Absent
          BY <3>1, <3>3
        <5> QED BY <5>1, <5>2, <4>2, <1>3, LeftWritten
      <4> QED BY <4>3, <3>3, <1>0, <1>5 DEF KeptOf, ChosenStays, Left, ChoseStill
    <3> QED BY <3>2, <3>3
  <2> QED BY <2>1, <1>0, <1>9 DEF AllKept
<1> QED BY <1>7, <1>8, <1>10, <1>11 DEF SettingsInv

LEMMA UserEditKeeps == ASSUME SettingsInv, UserEdit PROVE SettingsInv'
<1> DEFINE Edits(f) == {Append(settings[f], x) : x \in Items(f)}
                           \cup (IF settings[f] = <<>> THEN {} ELSE {Tail(settings[f])})
<1>1. PICK f \in MyFiles :
         /\ settings[f] # Absent
         /\ \E d \in Edits(f) : settings' = [settings EXCEPT ![f] = d] /\ written' = [written EXCEPT ![f] = d]
         /\ raced' = IF configuring.step \notin {"off", "read"} /\ f = File THEN raced \cup {f} ELSE raced \ {f}
  BY DEF UserEdit
<1>2. PICK d \in Edits(f) : settings' = [settings EXCEPT ![f] = d] /\ written' = [written EXCEPT ![f] = d]
  BY <1>1
<1>0. outcome' = "none" /\ UNCHANGED <<tool, temporary, saved, configuring>> /\ MyFiles' = MyFiles
  BY DEF UserEdit, MyFiles
<1>3. f \in Files /\ settings \in [MyFiles -> Contents] /\ written \in [MyFiles -> Contents]
  BY FilesAtWork DEF SettingsInv, SettingsTypes
<1>4. d \in Seq(AllItems)
  <2>1. settings[f] \in Seq(AllItems)
    BY <1>1, <1>3 DEF Contents
  <2>2. \A S : \A s \in Seq(S) : s # <<>> => Tail(s) \in Seq(S)
    OBVIOUS
  <2>3. \A S : \A s \in Seq(S) : \A x \in S : Append(s, x) \in Seq(S)
    OBVIOUS
  <2>4. CASE \E x \in Items(f) : d = Append(settings[f], x)
    <3>1. PICK x \in Items(f) : d = Append(settings[f], x)
      BY <2>4
    <3>2. x \in AllItems
      BY <1>3 DEF AllItems
    <3> QED BY Zenon, <3>1, <3>2, <2>1, <2>3
  <2>5. CASE settings[f] # <<>> /\ d = Tail(settings[f])
    BY Zenon, <2>1, <2>2, <2>5
  <2> QED BY <2>4, <2>5
<1>5. d \in Contents /\ d # Absent
  BY <1>4, SettingsAssumption DEF Contents
<1>6. /\ settings' \in [MyFiles -> Contents] /\ written' \in [MyFiles -> Contents]
      /\ settings'[f] = d /\ written'[f] = d
      /\ \A g \in MyFiles : g # f => settings'[g] = settings[g] /\ written'[g] = written[g]
  BY <1>2, <1>3, <1>5
<1>7. SettingsTypes'
  BY <1>0, <1>6 DEF SettingsInv, SettingsTypes
<1>8. AtAFile' /\ SettledBefore' /\ Settled'
  BY <1>0 DEF SettingsInv, AtAFile, SettledBefore, Settled, Working
<1>9. File' = File
  BY <1>0 DEF File
<1>10. AtWork'
  <2>1. ASSUME Working, File \notin raced' PROVE settings'[File] = configuring.original
    <3>1. configuring.step # "off" /\ configuring.step # "read" /\ configuring.at <= Len(FilesOf[tool])
      BY <2>1 DEF SettingsInv, AtAFile, Working
    <3>2. File \in MyFiles
      BY <3>1, FileAtWork
    <3>3. f # File /\ File \notin raced
      BY <3>1, <2>1, <1>1
    <3>4. settings[File] = configuring.original
      BY <2>1, <3>3 DEF SettingsInv, AtWork
    <3> QED BY <3>2, <3>3, <3>4, <1>6
  <2> QED BY <2>1, <1>0, <1>9 DEF SettingsInv, AtWork, Working
<1>11. NoneIsNone'
  BY <1>0, <1>5, <1>6 DEF SettingsInv, NoneIsNone
<1>12. AllKept'
  <2>1. ASSUME NEW g \in MyFiles \ raced' PROVE KeptOf(g)' /\ ChosenStays(g)'
    <3>1. CASE g = f
      <4>1. Left(f, d, d, saved[f]) /\ ChoseStill(f, d, d)
        BY <1>5, LeftAlone
      <4> QED BY <4>1, <3>1, <1>0, <1>6 DEF KeptOf, ChosenStays, Left, ChoseStill
    <3>2. CASE g # f
      <4>1. g \notin raced /\ settings'[g] = settings[g] /\ written'[g] = written[g]
        BY <3>2, <1>1, <1>6
      <4>2. KeptOf(g) /\ ChosenStays(g)
        BY <4>1 DEF SettingsInv, AllKept
      <4> QED BY <4>1, <4>2, <1>0 DEF KeptOf, ChosenStays
    <3> QED BY <3>1, <3>2
  <2> QED BY <2>1, <1>0 DEF AllKept
<1> QED BY <1>7, <1>8, <1>10, <1>11, <1>12 DEF SettingsInv

LEMMA SettingsSteps == ASSUME SettingsInv, [SettingsNext]_settingsVars PROVE SettingsInv'
<1>1. CASE Configure
  BY <1>1, ConfigureKeeps
<1>2. CASE LastFile
  BY <1>2, LastFileKeeps
<1>3. CASE ReadSettings
  BY <1>3, ReadSettingsKeeps
<1>4. CASE Backup
  BY <1>4, BackupKeeps
<1>5. CASE MakeTemporary
  BY <1>5, MakeTemporaryKeeps
<1>6. CASE FillTemporary
  BY <1>6, FillTemporaryKeeps
<1>7. CASE Replace
  BY <1>7, ReplaceKeeps
<1>8. CASE Fail \/ Die
  BY <1>8, InvWhenOff DEF Fail, Die
<1>9. CASE UserEdit
  BY <1>9, UserEditKeeps
<1>10. CASE UNCHANGED settingsVars
  <2>1. UNCHANGED <<tool, settings, temporary, saved, configuring, outcome, written, raced>>
    BY <1>10 DEF settingsVars
  <2>2. SettingsTypes' /\ AtAFile' /\ AtWork' /\ SettledBefore' /\ Settled'
    BY <2>1 DEF SettingsInv, SettingsTypes, AtAFile, AtWork, SettledBefore, Settled, Working, File, MyFiles
  <2> QED BY <2>1, <2>2, KeptUnedited DEF SettingsInv
<1> QED BY <1>1, <1>2, <1>3, <1>4, <1>5, <1>6, <1>7, <1>8, <1>9, <1>10 DEF SettingsNext

(* The settings of an agent are safe with scripts/configure_*.py, however many *)
(* runs there are and wherever each is cut short, for documents of any length   *)
(* and any number of edits: what the user left in a file is there or in a       *)
(* backup, the foreign part of it is in the file in its order, and a file that  *)
(* a run has registered would be left as it is by another.                      *)
THEOREM SettingsAreKept == SettingsSpec => []SettingsKept
<1>1. SettingsInv => SettingsKept
  BY DEF SettingsInv, AllKept, SettingsKept
<1> QED BY <1>1, SettingsStarts, SettingsSteps, PTL DEF SettingsSpec
=============================================================================
