----------------------------- MODULE StoreProofs -----------------------------
(***************************************************************************)
(* The invariants of ResponseStore and its refinement of ResponseLifecycle *)
(* for any number of requests, keys and processes.                         *)
(*                                                                         *)
(* The argument: a process that answers requests holds the lock, so while  *)
(* another one repairs the table only tasks of clients that left can still *)
(* write to it; nobody is told, and nothing continues, what they write.    *)
(***************************************************************************)
EXTENDS ResponseStore, TLAPS

-----------------------------------------------------------------------------
\* The inductive invariant.

Open(r) == rows[r].status = "in_progress"

\* A handler or task of the request is alive.
Working(r) == pc[r] \notin {"idle", "done", "lost"}

\* The lock belongs to the one process that repairs or serves.
LockInv ==
    /\ \A s \in Servers : phase[s] \in {"opening", "serving"} <=> owner = s
    /\ \A s \in Servers : phase[s] # "opening" => stale[s] = {}

\* Handlers and tasks live in a process; in a draining one only tasks of
\* clients that left (and the reset after a refused insert) remain.
HostInv ==
    \A r \in Requests : Working(r) =>
        /\ host[r] \in Servers
        /\ phase[host[r]] \in {"serving", "draining"}
        /\ phase[host[r]] = "draining" => pc[r] = "undo" \/ (InTask(r) /\ r \in gone)

\* A row follows its task ...
RowInv ==
    /\ \A r \in Requests : pc[r] \in {"idle", "lookup", "start", "begin"} => ~Exists(r)
    /\ \A r \in Requests : InTask(r) => Exists(r)
    /\ \A r \in Requests : pc[r] = "running" /\ phase[host[r]] = "serving" => Open(r)
    /\ \A r \in Requests : pc[r] = "fallback" => said[r] = "failed"
    /\ \A r \in Requests : pc[r] = "reply" /\ phase[host[r]] = "serving" /\ Success(said[r])
                              => rows[r].status = said[r]

\* ... and an open row its process.
OpenInv ==
    /\ \A s \in Servers, r \in Requests :
          Open(r) => /\ phase[s] = "serving" => host[r] = s /\ pc[r] # "lost"
                     /\ phase[s] = "opening" => r \in stale[s]
    /\ \A s \in Servers : \A r \in stale[s] : Exists(r)

\* A key has one row.
KeyInv == \A r, q \in Requests : Exists(r) /\ Holder(KeyOf[r], q) => q = r

\* What a client was told is stored, and no repair is going to change it.
AnswerInv ==
    \A r \in Requests : answer[r].kind = "success" =>
        /\ answer[r].of \in Requests
        /\ Success(rows[answer[r].of].status)
        /\ BodyOf[answer[r].of] = BodyOf[r]
        /\ answer[r].of = r \/ Holder(KeyOf[r], answer[r].of)
        /\ \A s \in Servers : answer[r].of \notin stale[s]

\* Nor what a request continues.
ParentInv ==
    \A r \in Requests : parent[r] # None =>
        /\ parent[r] \in Requests
        /\ Eligible(parent[r])
        /\ \A s \in Servers : parent[r] \notin stale[s]

IInv == TypeOK /\ LockInv /\ HostInv /\ RowInv /\ OpenInv /\ KeyInv /\ AnswerInv /\ ParentInv

-----------------------------------------------------------------------------
\* Rows and answers.

LEMMA RowMade ==
    /\ \A s \in Outcomes : Row(s, s = "completed") \in Rows
    /\ Row("absent", FALSE) \in Rows /\ Row("in_progress", FALSE) \in Rows
    /\ Row("failed", FALSE) \in Rows
  BY DEF Row, Rows, Outcomes

LEMMA RowRead ==
    ASSUME NEW s, NEW b
    PROVE  Row(s, b).status = s /\ Row(s, b).snapshot = b
  BY DEF Row

LEMMA ToldMade ==
    ASSUME NEW k \in {"none", "success", "error", "busy", "conflict"}, NEW q \in Requests \cup {None}
    PROVE  Tell(k, q) \in Told /\ Tell(k, q).kind = k /\ Tell(k, q).of = q
  BY DEF Tell, Told

\* While a process serves nobody repairs the table.
LEMMA NoRepair ==
    ASSUME IInv, NEW s \in Servers, phase[s] = "serving"
    PROVE  \A t \in Servers : stale[t] = {} /\ phase[t] # "opening"
                              /\ (phase[t] = "serving" => t = s)
  BY DEF IInv, LockInv

LEMMA StoreInit == Init => IInv
<1> SUFFICES ASSUME Init PROVE IInv
  OBVIOUS
<1>1. TypeOK
  <2>1. Tell("none", None) \in Told
    BY ToldMade
  <2> QED BY <2>1, RowMade DEF Init, TypeOK, Outcomes
<1>2. \A r \in Requests : rows[r].status = "absent" /\ answer[r].kind = "none"
  BY DEF Init, Row, Tell
<1>3. LockInv /\ HostInv
  BY StoreAssumption DEF Init, LockInv, HostInv, Working
<1>4. RowInv /\ OpenInv
  BY <1>2 DEF Init, RowInv, OpenInv, InTask, Exists, Open
<1>5. KeyInv /\ AnswerInv /\ ParentInv
  BY <1>2 DEF Init, KeyInv, AnswerInv, ParentInv, Exists
<1> QED BY <1>1, <1>3, <1>4, <1>5 DEF IInv

-----------------------------------------------------------------------------
\* The process.

\* Each part only depends on these variables.
LEMMA Kept ==
    ASSUME IInv
    PROVE  /\ UNCHANGED serverVars => LockInv'
           /\ UNCHANGED <<pc, host, phase, gone>> => HostInv'
           /\ UNCHANGED <<rows, pc, host, said, phase, stale>> => RowInv'
           /\ UNCHANGED <<rows, pc, host, phase, stale>> => OpenInv'
           /\ UNCHANGED rows => KeyInv'
           /\ UNCHANGED <<rows, answer, stale>> => AnswerInv'
           /\ UNCHANGED <<rows, parent, stale>> => ParentInv'
<1>1. UNCHANGED serverVars => LockInv'
  BY DEF IInv, LockInv, serverVars
<1>2. UNCHANGED <<pc, host, phase, gone>> => HostInv'
  BY DEF IInv, HostInv, Working, InTask
<1>3. UNCHANGED <<rows, pc, host, said, phase, stale>> => RowInv'
  BY DEF IInv, RowInv, InTask, Exists, Open, Success
<1>7. UNCHANGED <<rows, pc, host, phase, stale>> => OpenInv'
  BY DEF IInv, OpenInv, Exists, Open
<1>4. UNCHANGED rows => KeyInv'
  BY DEF IInv, KeyInv, Exists, Holder
<1>5. UNCHANGED <<rows, answer, stale>> => AnswerInv'
  BY DEF IInv, AnswerInv, Exists, Holder
<1>6. UNCHANGED <<rows, parent, stale>> => ParentInv'
  BY DEF IInv, ParentInv, Eligible
<1> QED BY <1>1, <1>2, <1>3, <1>4, <1>5, <1>6, <1>7

\* Rows in progress are nobody's answer and nobody's parent.
LEMMA AcquireInv ==
    ASSUME IInv, NEW s \in Servers, Acquire(s)
    PROVE  IInv'
<1>1. \A t \in Servers : /\ phase'[t] = IF t = s THEN "opening" ELSE phase[t]
                         /\ stale'[t] = IF t = s THEN {r \in Requests : Open(r)} ELSE stale[t]
  BY DEF Acquire, IInv, TypeOK, Open
<1>2. /\ phase[s] \in {"off", "stopped"} /\ owner = None /\ owner' = s
      /\ UNCHANGED <<rows, busy, pc, host, parent, said, gone, answer>>
  BY DEF Acquire, requestVars
<1>3. TypeOK'
  BY <1>2 DEF Acquire, IInv, TypeOK
<1>4. LockInv'
  BY <1>1, <1>2, StoreAssumption DEF IInv, LockInv
<1>5. HostInv'
  BY <1>1, <1>2 DEF IInv, HostInv, Working, InTask
<1>6. RowInv'
  BY ZenonT(30), <1>1, <1>2 DEF IInv, RowInv, HostInv, Working, InTask, Exists, Open, Success
<1>20. OpenInv'
  BY ZenonT(30), <1>1, <1>2 DEF IInv, OpenInv, Exists, Open
<1>7. KeyInv'
  BY <1>2, Kept
<1>8. AnswerInv'
  BY <1>1, <1>2 DEF IInv, AnswerInv, Exists, Holder, Open, Success
<1>9. ParentInv'
  BY <1>1, <1>2 DEF IInv, ParentInv, Eligible, Open
<1> QED BY <1>3, <1>4, <1>5, <1>6, <1>7, <1>8, <1>9, <1>20 DEF IInv

\* Only a row that was selected changes; while it is selected nobody serves.
LEMMA FailStaleInv ==
    ASSUME IInv, NEW s \in Servers, NEW q \in Requests, FailStale(s, q)
    PROVE  IInv'
<1>1. /\ \A t \in Servers : stale'[t] = IF t = s THEN stale[t] \ {q} ELSE stale[t]
      /\ \A r \in Requests : rows'[r] = IF r = q THEN Row("failed", FALSE) ELSE rows[r]
  BY DEF FailStale, IInv, TypeOK
<1>2. /\ phase[s] = "opening" /\ q \in stale[s]
      /\ UNCHANGED <<owner, phase, busy, pc, host, parent, said, gone, answer>>
  BY DEF FailStale, requestVars
<1>3. Row("failed", FALSE).status = "failed" /\ Row("failed", FALSE).snapshot = FALSE
  BY RowRead
<1>4. \A t \in Servers : phase[t] # "serving"
  BY <1>2 DEF IInv, LockInv
<1>5. Exists(q)
  BY <1>2 DEF IInv, OpenInv
<1>6. TypeOK'
  BY <1>2, RowMade DEF FailStale, IInv, TypeOK
<1>7. LockInv'
  BY <1>1, <1>2 DEF IInv, LockInv
<1>8. HostInv'
  BY <1>2, Kept
<1>9. RowInv'
  <2>1. \A r \in Requests : Working(r) => phase'[host'[r]] # "serving"
    BY <1>2, <1>4 DEF IInv, HostInv
  <2>2. \A r \in Requests : Exists(r)' <=> Exists(r)
    BY <1>1, <1>3, <1>5 DEF Exists
  <2> QED BY <1>2, <2>1, <2>2 DEF IInv, RowInv, InTask, Working
<1>20. OpenInv'
  <2>1. \A r \in Requests : Open(r)' => r # q /\ Open(r)
    BY <1>1, <1>3 DEF Open
  <2>2. \A t \in Servers : stale[t] \subseteq Requests
    BY DEF IInv, TypeOK
  <2>3. \A r \in Requests : Exists(r) => Exists(r)'
    BY <1>1, <1>3 DEF Exists
  <2>4. \A t \in Servers : \A r \in stale'[t] : r \in stale[t]
    BY <1>1
  <2>5. \A t \in Servers : \A r \in stale[t] : r # q => r \in stale'[t]
    BY <1>1
  <2> QED BY <1>2, <1>4, <2>1, <2>2, <2>3, <2>4, <2>5 DEF IInv, OpenInv
<1>10. KeyInv'
  BY ZenonT(30), <1>1, <1>3, <1>5 DEF IInv, KeyInv, Exists, Holder
<1>11. AnswerInv'
  BY ZenonT(30), <1>1, <1>2 DEF IInv, AnswerInv, Exists, Holder
<1>12. ParentInv'
  BY <1>1, <1>2 DEF IInv, ParentInv, Eligible
<1> QED BY <1>6, <1>7, <1>8, <1>9, <1>10, <1>11, <1>12, <1>20 DEF IInv

LEMMA ServeInv ==
    ASSUME IInv, NEW s \in Servers, Serve(s)
    PROVE  IInv'
<1>1. \A t \in Servers : phase'[t] = IF t = s THEN "serving" ELSE phase[t]
  BY DEF Serve, IInv, TypeOK
<1>2. /\ phase[s] = "opening" /\ stale[s] = {}
      /\ UNCHANGED <<rows, owner, stale, busy, pc, host, parent, said, gone, answer>>
  BY DEF Serve, requestVars
<1>3. \A r \in Requests : ~Open(r)
  BY <1>2 DEF IInv, OpenInv
<1>4. TypeOK'
  BY <1>2 DEF Serve, IInv, TypeOK
<1>5. LockInv'
  BY <1>1, <1>2 DEF IInv, LockInv
<1>6. HostInv'
  BY <1>1, <1>2 DEF IInv, HostInv, Working, InTask
<1>7. RowInv'
  BY <1>1, <1>2, <1>3 DEF IInv, RowInv, HostInv, Working, InTask, Exists, Open, Success
<1>20. OpenInv'
  BY <1>1, <1>2, <1>3 DEF IInv, OpenInv, RowInv, HostInv, Working, InTask, Exists, Open, Success
<1>8. KeyInv' /\ AnswerInv' /\ ParentInv'
  BY <1>2, Kept
<1> QED BY <1>4, <1>5, <1>6, <1>7, <1>8, <1>20 DEF IInv

LEMMA HaltInv ==
    ASSUME IInv, NEW s \in Servers, NEW as \in {"off", "stopped"}, Halt(s, as),
           phase[s] \in {"opening", "serving", "draining"}
    PROVE  IInv'
<1>1. /\ \A t \in Servers : /\ phase'[t] = IF t = s THEN as ELSE phase[t]
                            /\ stale'[t] = IF t = s THEN {} ELSE stale[t]
      /\ owner' = IF owner = s THEN None ELSE owner
      /\ \A r \in Requests : pc'[r] = IF host[r] = s /\ pc[r] \notin {"idle", "done"} THEN "lost" ELSE pc[r]
      /\ phase[s] \in {"opening", "serving", "draining"}
      /\ as # "opening" /\ as # "serving" /\ as # "draining"
  BY DEF Halt, IInv, TypeOK
<1>2. UNCHANGED <<rows, host, parent, said, gone, answer>>
  BY DEF Halt
<1>3. TypeOK'
  BY DEF Halt, IInv, TypeOK
<1>4. LockInv'
  BY <1>1, StoreAssumption DEF IInv, LockInv
<1>11. \A r \in Requests : Working(r)' => /\ Working(r) /\ pc'[r] = pc[r] /\ host'[r] = host[r]
                                          /\ host[r] \in Servers /\ host[r] # s
  BY <1>1, <1>2 DEF IInv, HostInv, Working
<1>12. \A r \in Requests : pc[r] \in {"idle", "done"} => pc'[r] = pc[r]
  BY <1>1
<1>13. \A t \in Servers : phase'[t] = "serving" => t # s /\ phase[t] = "serving"
  BY <1>1
<1>5. HostInv'
  <2>1. \A r \in Requests : Working(r)' => phase'[host'[r]] = phase[host[r]]
    BY <1>1, <1>11
  <2> QED BY <1>2, <1>11, <2>1 DEF IInv, HostInv, InTask
<1>6. RowInv'
  <2>1. \A r \in Requests : pc'[r] # "lost" => pc'[r] = pc[r]
    BY <1>1
  <2>2. \A r \in Requests : pc'[r] \in {"running", "reply"} /\ phase'[host'[r]] = "serving"
                                => pc'[r] = pc[r] /\ phase[host[r]] = "serving"
    BY <1>11, <1>13 DEF Working
  <2> QED BY <1>2, <2>1, <2>2 DEF IInv, RowInv, InTask, Exists, Open, Success
<1>20. OpenInv'
  <2>1. \A t \in Servers : phase'[t] = "opening" => t # s /\ phase[t] = "opening"
    BY <1>1
  <2>2. \A t \in Servers : t # s => stale'[t] = stale[t]
    BY <1>1
  <2>3. \A t \in Servers : \A r \in stale'[t] : r \in stale[t]
    BY <1>1
  <2>4. \A r \in Requests : host[r] # s => pc'[r] = pc[r]
    BY <1>1
  <2> QED BY <1>2, <1>13, <2>1, <2>2, <2>3, <2>4 DEF IInv, OpenInv, Exists, Open
<1>7. KeyInv'
  BY <1>2, Kept
<1>8. AnswerInv'
  BY <1>1, <1>2 DEF IInv, AnswerInv, Exists, Holder
<1>9. ParentInv'
  BY <1>1, <1>2 DEF IInv, ParentInv, Eligible
<1> QED BY <1>3, <1>4, <1>5, <1>6, <1>7, <1>8, <1>9, <1>20 DEF IInv

LEMMA DrainInv ==
    ASSUME IInv, NEW s \in Servers, Drain(s)
    PROVE  IInv'
<1>1. \A t \in Servers : phase'[t] = IF t = s THEN "draining" ELSE phase[t]
  BY DEF Drain, IInv, TypeOK
<1>2. /\ phase[s] = "serving" /\ owner' = None
      /\ \A r \in Requests : host[r] = s => pc[r] \in {"undo", "done"} \/ (r \in gone /\ InTask(r))
      /\ UNCHANGED <<rows, stale, busy, pc, host, parent, said, gone, answer>>
  BY DEF Drain, requestVars
<1>3. TypeOK'
  BY <1>2 DEF Drain, IInv, TypeOK
<1>4. LockInv'
  BY <1>1, <1>2, StoreAssumption DEF IInv, LockInv
<1>5. HostInv'
  BY <1>1, <1>2 DEF IInv, HostInv, Working, InTask
<1>6. RowInv'
  BY <1>1, <1>2 DEF IInv, RowInv, HostInv, Working, InTask, Exists, Open, Success
<1>20. OpenInv'
  BY <1>1, <1>2 DEF IInv, OpenInv, RowInv, HostInv, Working, InTask, Exists, Open, Success
<1>7. KeyInv' /\ AnswerInv' /\ ParentInv'
  BY <1>2, Kept
<1> QED BY <1>3, <1>4, <1>5, <1>6, <1>7, <1>20 DEF IInv

-----------------------------------------------------------------------------
\* Handlers.

\* A handler goes on or ends; it never opens a row by that.
LEMMA Moved ==
    ASSUME IInv, NEW r \in Requests, NEW label \in {"start", "begin", "undo", "done"},
           Working(r), pc' = [pc EXCEPT ![r] = label],
           label \in {"start", "begin"} => pc[r] \in {"lookup", "start"},
           label = "undo" => pc[r] = "begin",
           UNCHANGED <<rows, owner, phase, stale, host, said, gone>>
    PROVE  LockInv' /\ HostInv' /\ RowInv' /\ OpenInv' /\ KeyInv'
<1>1. \A q \in Requests : pc'[q] = IF q = r THEN label ELSE pc[q]
  BY DEF IInv, TypeOK
<1>2. LockInv' /\ KeyInv'
  BY Kept DEF serverVars
<1>3. HostInv'
  BY <1>1 DEF IInv, HostInv, Working, InTask
<1>4. RowInv'
  BY <1>1 DEF IInv, RowInv, InTask, Exists, Open, Success
<1>5. OpenInv'
  BY <1>1 DEF IInv, OpenInv, Exists, Open
<1> QED BY <1>2, <1>3, <1>4, <1>5

\* A handler before its insert runs in a process that serves.
LEMMA Served ==
    ASSUME IInv, NEW r \in Requests, pc[r] \in {"lookup", "start", "begin"}
    PROVE  host[r] \in Servers /\ phase[host[r]] = "serving" /\ Working(r)
  BY DEF IInv, HostInv, Working, InTask

\* An answer that is not a success tells nothing of the table.
LEMMA NoSuccess ==
    ASSUME IInv, NEW r \in Requests, NEW k \in {"error", "busy", "conflict"},
           NEW q \in Requests \cup {None}, answer' = [answer EXCEPT ![r] = Tell(k, q)],
           UNCHANGED <<rows, stale>>
    PROVE  AnswerInv' /\ answer' \in [Requests -> Told]
<1>1. Tell(k, q) \in Told /\ Tell(k, q).kind = k
  BY ToldMade
<1>2. answer' \in [Requests -> Told]
  BY <1>1 DEF IInv, TypeOK
<1>3. \A u \in Requests : u # r => answer'[u] = answer[u]
  BY DEF IInv, TypeOK
<1>4. answer'[r].kind # "success"
  BY <1>1 DEF IInv, TypeOK
<1> QED BY <1>2, <1>3, <1>4 DEF IInv, AnswerInv, Exists, Holder

LEMMA ReceiveInv ==
    ASSUME IInv, NEW r \in Requests, NEW s \in Servers, NEW p \in (Requests \ {r}) \cup {None},
           Receive(r, s, p)
    PROVE  IInv'
<1>1. PICK label \in {"lookup", "done"} :
         /\ pc' = [pc EXCEPT ![r] = label]
         /\ label = "lookup" => /\ p = None \/ Eligible(p)
                                /\ parent' = [parent EXCEPT ![r] = p] /\ answer' = answer
         /\ label = "done" => /\ answer' = [answer EXCEPT ![r] = Tell("error", None)]
                              /\ parent' = parent
  BY DEF Receive, Goto, Answer
<1>2. /\ pc[r] = "idle" /\ phase[s] = "serving" /\ host' = [host EXCEPT ![r] = s]
      /\ UNCHANGED <<rows, owner, phase, stale, busy, said, gone>>
  BY DEF Receive, serverVars
<1>3. \A q \in Requests : /\ pc'[q] = IF q = r THEN label ELSE pc[q]
                          /\ host'[q] = IF q = r THEN s ELSE host[q]
  BY <1>1, <1>2 DEF IInv, TypeOK
<1>4. ~Exists(r)
  BY <1>2 DEF IInv, RowInv
<1>5. LockInv' /\ KeyInv'
  BY <1>2, Kept DEF serverVars
<1>6. HostInv'
  BY <1>2, <1>3 DEF IInv, HostInv, Working, InTask
<1>7. RowInv'
  BY <1>2, <1>3, <1>4 DEF IInv, RowInv, InTask, Exists, Open, Success
<1>8. OpenInv'
  BY <1>2, <1>3, <1>4 DEF IInv, OpenInv, Exists, Open
<1>9. AnswerInv' /\ answer' \in [Requests -> Told]
  <2>1. CASE label = "lookup"
    BY <1>1, <1>2, <2>1, Kept DEF IInv, TypeOK
  <2>2. CASE label = "done"
    BY <1>1, <1>2, <2>2, NoSuccess
  <2> QED BY <2>1, <2>2
<1>10. ParentInv'
  <2>1. CASE label = "lookup"
    <3>1. \A q \in Requests : parent'[q] = IF q = r THEN p ELSE parent[q]
      BY <1>1, <2>1 DEF IInv, TypeOK
    <3>2. \A t \in Servers : stale[t] = {}
      BY <1>2, NoRepair
    <3> QED BY <1>1, <1>2, <2>1, <3>1, <3>2 DEF IInv, ParentInv, Eligible
  <2>2. CASE label = "done"
    BY <1>1, <1>2, <2>2, Kept
  <2> QED BY <2>1, <2>2
<1>11. TypeOK'
  <2>1. parent' = parent \/ parent' = [parent EXCEPT ![r] = p]
    BY <1>1
  <2>2. parent' \in [Requests -> Requests \cup {None}]
    BY <2>1 DEF IInv, TypeOK
  <2> QED BY <1>1, <1>2, <1>9, <2>2 DEF IInv, TypeOK
<1> QED BY <1>5, <1>6, <1>7, <1>8, <1>9, <1>10, <1>11 DEF IInv

LEMMA LookupNewInv ==
    ASSUME IInv, NEW r \in Requests, LookupNew(r)
    PROVE  IInv'
<1>1. /\ pc[r] = "lookup" /\ pc' = [pc EXCEPT ![r] = "start"]
      /\ UNCHANGED <<rows, owner, phase, stale, busy, host, parent, said, gone, answer>>
  BY DEF LookupNew, Goto, serverVars
<1>2. LockInv' /\ HostInv' /\ RowInv' /\ OpenInv' /\ KeyInv'
  BY <1>1, Served, Moved
<1>3. AnswerInv' /\ ParentInv'
  BY <1>1, Kept
<1>4. TypeOK'
  BY <1>1 DEF IInv, TypeOK
<1> QED BY <1>2, <1>3, <1>4 DEF IInv

\* A replay tells what is stored under the key.
LEMMA LookupKnownInv ==
    ASSUME IInv, NEW r \in Requests, LookupKnown(r)
    PROVE  IInv'
<1>1. /\ pc[r] = "lookup" /\ pc' = [pc EXCEPT ![r] = "done"]
      /\ UNCHANGED <<rows, owner, phase, stale, busy, host, parent, said, gone>>
  BY DEF LookupKnown, Goto, serverVars
<1>2. PICK q \in Requests :
         /\ Holder(KeyOf[r], q)
         /\ \/ answer' = [answer EXCEPT ![r] = Tell("conflict", None)]
            \/ answer' = [answer EXCEPT ![r] = Tell("busy", None)]
            \/ /\ BodyOf[q] = BodyOf[r] /\ Success(rows[q].status)
               /\ answer' = [answer EXCEPT ![r] = Tell("success", q)]
            \/ answer' = [answer EXCEPT ![r] = Tell("error", q)]
  BY DEF LookupKnown, Answer
<1>3. LockInv' /\ HostInv' /\ RowInv' /\ OpenInv' /\ KeyInv'
  BY <1>1, Served, Moved
<1>4. ParentInv'
  BY <1>1, Kept
<1>5. AnswerInv' /\ answer' \in [Requests -> Told]
  <2>1. CASE /\ BodyOf[q] = BodyOf[r] /\ Success(rows[q].status)
             /\ answer' = [answer EXCEPT ![r] = Tell("success", q)]
    <3>1. Tell("success", q) \in Told /\ Tell("success", q).of = q
      BY ToldMade
    <3>2. \A u \in Requests : answer'[u] = IF u = r THEN Tell("success", q) ELSE answer[u]
      BY <2>1 DEF IInv, TypeOK
    <3>3. \A t \in Servers : stale[t] = {}
      BY <1>1, Served, NoRepair
    <3>4. AnswerInv'
      BY <1>1, <1>2, <2>1, <3>1, <3>2, <3>3 DEF IInv, AnswerInv, Exists, Holder
    <3> QED BY <2>1, <3>1, <3>4 DEF IInv, TypeOK
  <2>2. CASE \E k \in {"error", "busy", "conflict"}, u \in Requests \cup {None} :
                answer' = [answer EXCEPT ![r] = Tell(k, u)]
    BY <1>1, <2>2, NoSuccess
  <2> QED BY <1>2, <2>1, <2>2
<1>6. TypeOK'
  BY <1>1, <1>5 DEF IInv, TypeOK
<1> QED BY <1>3, <1>4, <1>5, <1>6 DEF IInv

LEMMA RefuseInv ==
    ASSUME IInv, NEW r \in Requests, Refuse(r)
    PROVE  IInv'
<1>1. /\ pc[r] \in {"lookup", "start"} /\ pc' = [pc EXCEPT ![r] = "done"]
      /\ answer' = [answer EXCEPT ![r] = Tell("error", None)]
      /\ UNCHANGED <<rows, owner, phase, stale, busy, host, parent, said, gone>>
  BY DEF Refuse, Goto, Answer, serverVars
<1>2. LockInv' /\ HostInv' /\ RowInv' /\ OpenInv' /\ KeyInv'
  BY <1>1, Served, Moved
<1>3. ParentInv'
  BY <1>1, Kept
<1>4. AnswerInv' /\ answer' \in [Requests -> Told]
  BY <1>1, NoSuccess
<1>5. TypeOK'
  BY <1>1, <1>4 DEF IInv, TypeOK
<1> QED BY <1>2, <1>3, <1>4, <1>5 DEF IInv

LEMMA StartInv ==
    ASSUME IInv, NEW r \in Requests, Start(r)
    PROVE  IInv'
<1>1. /\ pc[r] = "start"
      /\ UNCHANGED <<rows, owner, phase, stale, host, parent, said, gone>>
  BY DEF Start, serverVars
<1>2. \/ /\ pc' = [pc EXCEPT ![r] = "done"] /\ UNCHANGED busy
         /\ answer' = [answer EXCEPT ![r] = Tell("busy", None)]
      \/ /\ pc' = [pc EXCEPT ![r] = "begin"] /\ UNCHANGED answer
         /\ busy' = [busy EXCEPT ![host[r]] = TRUE]
  BY DEF Start, Goto, Answer
<1>3. LockInv' /\ HostInv' /\ RowInv' /\ OpenInv' /\ KeyInv'
  BY <1>1, <1>2, Served, Moved
<1>4. ParentInv'
  BY <1>1, Kept
<1>5. AnswerInv' /\ answer' \in [Requests -> Told]
  <2>1. CASE answer' = [answer EXCEPT ![r] = Tell("busy", None)]
    BY <1>1, <2>1, NoSuccess
  <2>2. CASE UNCHANGED answer
    BY <1>1, <2>2, Kept DEF IInv, TypeOK
  <2> QED BY <1>2, <2>1, <2>2
<1>6. TypeOK'
  <2>1. pc' \in [Requests -> {"idle", "lookup", "start", "begin", "undo", "running",
                             "fallback", "reply", "done", "lost"}]
    BY <1>2 DEF IInv, TypeOK
  <2>2. busy' \in [Servers -> BOOLEAN]
    BY <1>2 DEF IInv, TypeOK
  <2> QED BY <1>1, <1>5, <2>1, <2>2 DEF IInv, TypeOK
<1> QED BY <1>3, <1>4, <1>5, <1>6 DEF IInv

\* The new row is the only one of its key, and nobody repairs the table.
LEMMA BeginInv ==
    ASSUME IInv, NEW r \in Requests, Begin(r)
    PROVE  IInv'
<1> DEFINE new == Row("in_progress", FALSE)
<1>1. /\ pc[r] = "begin" /\ pc' = [pc EXCEPT ![r] = "running"] /\ Insertable(r)
      /\ rows' = [rows EXCEPT ![r] = new]
      /\ UNCHANGED <<owner, phase, stale, busy, host, parent, said, gone, answer>>
  BY DEF Begin, Goto, serverVars
<1>2. /\ host[r] \in Servers /\ phase[host[r]] = "serving"
      /\ \A t \in Servers : stale[t] = {} /\ phase[t] # "opening" /\ (phase[t] = "serving" => t = host[r])
  BY <1>1, Served, NoRepair
<1>4. ~Exists(r)
  BY <1>1 DEF Insertable
<1>13. new \in Rows /\ new.status = "in_progress"
  BY RowMade, RowRead
<1> HIDE DEF new
<1>3. \A q \in Requests : /\ pc'[q] = IF q = r THEN "running" ELSE pc[q]
                          /\ rows'[q] = IF q = r THEN new ELSE rows[q]
  BY <1>1 DEF IInv, TypeOK
<1>5. LockInv'
  BY <1>1, Kept DEF serverVars
<1>6. HostInv'
  BY <1>1, <1>2, <1>3 DEF IInv, HostInv, Working, InTask
<1>7. RowInv'
  BY <1>1, <1>2, <1>3, <1>4, <1>13 DEF IInv, RowInv, InTask, Exists, Open, Success
<1>8. OpenInv'
  BY <1>1, <1>2, <1>3, <1>4, <1>13 DEF IInv, OpenInv, Exists, Open
<1>9. KeyInv'
  BY <1>1, <1>3, <1>4, <1>13 DEF IInv, KeyInv, Exists, Holder, Insertable
<1>10. AnswerInv'
  BY <1>1, <1>2, <1>3, <1>4, <1>13 DEF IInv, AnswerInv, Exists, Holder, Success
<1>11. ParentInv'
  BY <1>1, <1>2, <1>3, <1>4, <1>13 DEF IInv, ParentInv, Eligible, Exists
<1>12. TypeOK'
  BY <1>1, <1>13 DEF IInv, TypeOK
<1> QED BY <1>5, <1>6, <1>7, <1>8, <1>9, <1>10, <1>11, <1>12 DEF IInv

LEMMA BeginErrorInv ==
    ASSUME IInv, NEW r \in Requests, BeginError(r)
    PROVE  IInv'
<1>1. /\ pc[r] = "begin" /\ pc' = [pc EXCEPT ![r] = "undo"]
      /\ answer' = [answer EXCEPT ![r] = Tell("error", None)]
      /\ UNCHANGED <<rows, owner, phase, stale, busy, host, parent, said, gone>>
  BY DEF BeginError, Goto, Answer, serverVars
<1>2. LockInv' /\ HostInv' /\ RowInv' /\ OpenInv' /\ KeyInv'
  BY <1>1, Served, Moved
<1>3. ParentInv'
  BY <1>1, Kept
<1>4. AnswerInv' /\ answer' \in [Requests -> Told]
  BY <1>1, NoSuccess
<1>5. TypeOK'
  BY <1>1, <1>4 DEF IInv, TypeOK
<1> QED BY <1>2, <1>3, <1>4, <1>5 DEF IInv

LEMMA UndoInv ==
    ASSUME IInv, NEW r \in Requests, Undo(r)
    PROVE  IInv'
<1>1. /\ pc[r] = "undo" /\ pc' = [pc EXCEPT ![r] = "done"]
      /\ busy' = [busy EXCEPT ![host[r]] = FALSE]
      /\ UNCHANGED <<rows, owner, phase, stale, host, parent, said, gone, answer>>
  BY DEF Undo, Goto, serverVars
<1>2. LockInv' /\ HostInv' /\ RowInv' /\ OpenInv' /\ KeyInv'
  BY <1>1, Moved DEF Working
<1>3. AnswerInv' /\ ParentInv'
  BY <1>1, Kept
<1>4. TypeOK'
  BY <1>1 DEF IInv, TypeOK
<1> QED BY <1>2, <1>3, <1>4 DEF IInv

-----------------------------------------------------------------------------
\* The task.

\* The row of a task may be closed: nobody was told of it or continues it.
LEMMA Closed ==
    ASSUME IInv, NEW r \in Requests, NEW new \in Rows, Open(r),
           new.status \notin {"absent", "in_progress"},
           rows' = [rows EXCEPT ![r] = new],
           UNCHANGED <<owner, phase, stale, answer, parent>>
    PROVE  /\ \A q \in Requests : rows'[q] = IF q = r THEN new ELSE rows[q]
           /\ LockInv' /\ KeyInv' /\ AnswerInv' /\ ParentInv'
<1>1. \A q \in Requests : rows'[q] = IF q = r THEN new ELSE rows[q]
  BY DEF IInv, TypeOK
<1>2. LockInv'
  BY Kept DEF serverVars
<1>3. KeyInv'
  BY <1>1 DEF IInv, KeyInv, Exists, Holder, Open
<1>4. AnswerInv'
  BY <1>1 DEF IInv, AnswerInv, Exists, Holder, Open, Success
<1>5. ParentInv'
  BY <1>1 DEF IInv, ParentInv, Eligible, Open
<1> QED BY <1>1, <1>2, <1>3, <1>4, <1>5

LEMMA FinishInv ==
    ASSUME IInv, NEW r \in Requests, NEW s \in Outcomes, NEW snap \in BOOLEAN, Finish(r, s, snap)
    PROVE  IInv'
<1> DEFINE new == Row(s, s = "completed")
<1>1. /\ pc[r] = "running" /\ Open(r) /\ pc' = [pc EXCEPT ![r] = "reply"]
      /\ rows' = [rows EXCEPT ![r] = new]
      /\ said' = [said EXCEPT ![r] = s]
      /\ UNCHANGED <<owner, phase, stale, busy, host, parent, gone, answer>>
  BY DEF Finish, Closable, Goto, serverVars, Open
<1>2. new \in Rows /\ new.status = s
  BY RowMade, RowRead
<1>3. s \notin {"absent", "in_progress"}
  BY DEF Outcomes
<1> HIDE DEF new
<1>4. /\ \A q \in Requests : rows'[q] = IF q = r THEN new ELSE rows[q]
      /\ LockInv' /\ KeyInv' /\ AnswerInv' /\ ParentInv'
  BY <1>1, <1>2, <1>3, Closed
<1>5. \A q \in Requests : /\ pc'[q] = IF q = r THEN "reply" ELSE pc[q]
                          /\ said'[q] = IF q = r THEN s ELSE said[q]
  BY <1>1 DEF IInv, TypeOK
<1>6. HostInv'
  BY <1>1, <1>5 DEF IInv, HostInv, Working, InTask
<1>7. RowInv'
  BY <1>1, <1>2, <1>3, <1>4, <1>5 DEF IInv, RowInv, InTask, Exists, Open, Success
<1>8. OpenInv'
  BY <1>1, <1>2, <1>3, <1>4, <1>5 DEF IInv, OpenInv, Exists, Open
<1>9. TypeOK'
  BY <1>1, <1>2 DEF IInv, TypeOK
<1> QED BY <1>4, <1>6, <1>7, <1>8, <1>9 DEF IInv

LEMMA FinishErrorInv ==
    ASSUME IInv, NEW r \in Requests, NEW s \in Outcomes, NEW snap \in BOOLEAN,
           FinishError(r, s, snap)
    PROVE  IInv'
<1>1. /\ pc[r] = "running" /\ pc' = [pc EXCEPT ![r] = "fallback"]
      /\ said' = [said EXCEPT ![r] = "failed"]
      /\ UNCHANGED <<rows, owner, phase, stale, busy, host, parent, gone, answer>>
  BY DEF FinishError, Goto, serverVars
<1>2. \A q \in Requests : /\ pc'[q] = IF q = r THEN "fallback" ELSE pc[q]
                          /\ said'[q] = IF q = r THEN "failed" ELSE said[q]
  BY <1>1 DEF IInv, TypeOK
<1>3. LockInv' /\ KeyInv' /\ AnswerInv' /\ ParentInv'
  BY <1>1, Kept DEF serverVars
<1>4. HostInv'
  BY <1>1, <1>2 DEF IInv, HostInv, Working, InTask
<1>5. RowInv'
  BY <1>1, <1>2 DEF IInv, RowInv, InTask, Exists, Open, Success
<1>6. OpenInv'
  BY <1>1, <1>2 DEF IInv, OpenInv, Exists, Open
<1>7. TypeOK'
  BY <1>1 DEF IInv, TypeOK, Outcomes
<1> QED BY <1>3, <1>4, <1>5, <1>6, <1>7 DEF IInv

LEMMA FallbackInv ==
    ASSUME IInv, NEW r \in Requests, Fallback(r)
    PROVE  IInv'
<1> DEFINE new == Row("failed", FALSE)
<1>1. /\ pc[r] = "fallback" /\ pc' = [pc EXCEPT ![r] = "reply"]
      /\ UNCHANGED <<owner, phase, stale, busy, host, parent, said, gone, answer>>
      /\ (Open(r) /\ rows' = [rows EXCEPT ![r] = new]) \/ UNCHANGED rows
  BY DEF Fallback, Closable, Goto, serverVars, Open
<1>2. new \in Rows /\ new.status = "failed"
  BY RowMade, RowRead
<1> HIDE DEF new
<1>3. \A q \in Requests : pc'[q] = IF q = r THEN "reply" ELSE pc[q]
  BY <1>1 DEF IInv, TypeOK
<1>4. HostInv'
  BY <1>1, <1>3 DEF IInv, HostInv, Working, InTask
<1>5. said[r] = "failed" /\ ~Success(said[r])
  BY <1>1 DEF IInv, RowInv, Success
<1>6. CASE Open(r) /\ rows' = [rows EXCEPT ![r] = new]
  <2>1. /\ \A q \in Requests : rows'[q] = IF q = r THEN new ELSE rows[q]
        /\ LockInv' /\ KeyInv' /\ AnswerInv' /\ ParentInv'
    BY <1>1, <1>2, <1>6, Closed
  <2>2. RowInv'
    BY <1>1, <1>2, <1>3, <1>5, <2>1 DEF IInv, RowInv, InTask, Exists, Open, Success
  <2>3. OpenInv'
    <3>1. \A q \in Requests : Open(q)' => q # r /\ Open(q)
      BY <1>2, <2>1 DEF Open
    <3>2. \A t \in Servers : \A q \in stale[t] : q \in Requests
      BY DEF IInv, TypeOK
    <3>3. \A q \in Requests : Exists(q) => Exists(q)'
      BY <1>2, <2>1 DEF Exists
    <3>4. \A q \in Requests : pc[q] # "lost" => pc'[q] # "lost"
      BY <1>3
    <3> QED BY <1>1, <3>1, <3>2, <3>3, <3>4 DEF IInv, OpenInv
  <2>4. TypeOK'
    BY <1>1, <1>2, <1>6 DEF IInv, TypeOK
  <2> QED BY <1>4, <2>1, <2>2, <2>3, <2>4 DEF IInv
<1>7. CASE UNCHANGED rows
  <2>1. LockInv' /\ KeyInv' /\ AnswerInv' /\ ParentInv'
    BY <1>1, <1>7, Kept DEF serverVars
  <2>2. RowInv'
    BY <1>1, <1>3, <1>5, <1>7 DEF IInv, RowInv, InTask, Exists, Open, Success
  <2>3. OpenInv'
    BY <1>1, <1>3, <1>7 DEF IInv, OpenInv, Exists, Open
  <2>4. TypeOK'
    BY <1>1, <1>7 DEF IInv, TypeOK
  <2> QED BY <1>4, <2>1, <2>2, <2>3, <2>4 DEF IInv
<1> QED BY <1>1, <1>6, <1>7

\* A client that is still there has its task in a process that serves.
LEMMA ReplyInv ==
    ASSUME IInv, NEW r \in Requests, Reply(r)
    PROVE  IInv'
<1>1. /\ pc[r] = "reply" /\ pc' = [pc EXCEPT ![r] = "done"]
      /\ busy' = [busy EXCEPT ![host[r]] = FALSE]
      /\ UNCHANGED <<rows, owner, phase, stale, host, parent, said, gone>>
  BY DEF Reply, Goto, serverVars
<1>2. \/ r \in gone /\ UNCHANGED answer
      \/ /\ r \notin gone /\ Success(said[r])
         /\ answer' = [answer EXCEPT ![r] = Tell("success", r)]
      \/ answer' = [answer EXCEPT ![r] = Tell("error", r)]
  BY DEF Reply, Answer
<1>3. LockInv' /\ HostInv' /\ RowInv' /\ OpenInv' /\ KeyInv'
  BY <1>1, Moved DEF Working
<1>4. ParentInv'
  BY <1>1, Kept
<1>5. AnswerInv' /\ answer' \in [Requests -> Told]
  <2>1. CASE UNCHANGED answer
    BY <1>1, <2>1, Kept DEF IInv, TypeOK
  <2>2. CASE answer' = [answer EXCEPT ![r] = Tell("error", r)]
    BY <1>1, <2>2, NoSuccess
  <2>3. CASE /\ r \notin gone /\ Success(said[r])
             /\ answer' = [answer EXCEPT ![r] = Tell("success", r)]
    <3>1. Tell("success", r) \in Told /\ Tell("success", r).of = r
      BY ToldMade
    <3>2. \A u \in Requests : answer'[u] = IF u = r THEN Tell("success", r) ELSE answer[u]
      BY <2>3 DEF IInv, TypeOK
    <3>3. host[r] \in Servers /\ phase[host[r]] = "serving"
      BY <1>1, <2>3 DEF IInv, HostInv, Working, InTask
    <3>4. Success(rows[r].status)
      BY <1>1, <2>3, <3>3 DEF IInv, RowInv
    <3>5. \A t \in Servers : stale[t] = {}
      BY <3>3, NoRepair
    <3>6. AnswerInv'
      BY <1>1, <3>1, <3>2, <3>4, <3>5 DEF IInv, AnswerInv, Exists, Holder
    <3> QED BY <2>3, <3>1, <3>6 DEF IInv, TypeOK
  <2> QED BY <1>2, <2>1, <2>2, <2>3
<1>6. TypeOK'
  BY <1>1, <1>5 DEF IInv, TypeOK
<1> QED BY <1>3, <1>4, <1>5, <1>6 DEF IInv

LEMMA LeaveInv ==
    ASSUME IInv, NEW r \in Requests, Leave(r)
    PROVE  IInv'
<1>1. /\ gone' = gone \cup {r}
      /\ UNCHANGED <<rows, owner, phase, stale, busy, pc, host, parent, said, answer>>
  BY DEF Leave, serverVars
<1>2. LockInv' /\ RowInv' /\ OpenInv' /\ KeyInv' /\ AnswerInv' /\ ParentInv'
  BY <1>1, Kept DEF serverVars
<1>3. HostInv'
  BY <1>1 DEF IInv, HostInv, Working, InTask
<1>4. TypeOK'
  BY <1>1 DEF IInv, TypeOK
<1> QED BY <1>2, <1>3, <1>4 DEF IInv

-----------------------------------------------------------------------------
\* The theorems.

LEMMA NextInv == IInv /\ [Next]_storeVars => IInv'
<1> SUFFICES ASSUME IInv, [Next]_storeVars PROVE IInv'
  OBVIOUS
<1>1. ASSUME NEW s \in Servers, ServerStep(s) PROVE IInv'
  <2>1. CASE Acquire(s)
    BY <2>1, AcquireInv
  <2>2. CASE Serve(s)
    BY <2>2, ServeInv
  <2>3. CASE Crash(s)
    BY <2>3, HaltInv DEF Crash
  <2>4. CASE Drain(s)
    BY <2>4, DrainInv
  <2>5. CASE Exit(s)
    BY <2>5, HaltInv DEF Exit
  <2>6. CASE \E r \in Requests : FailStale(s, r)
    BY <2>6, FailStaleInv
  <2> QED BY <1>1, <2>1, <2>2, <2>3, <2>4, <2>5, <2>6 DEF ServerStep
<1>2. ASSUME NEW r \in Requests, HandlerStep(r) PROVE IInv'
  BY <1>2, LookupNewInv, LookupKnownInv, StartInv, BeginInv, BeginErrorInv, UndoInv
  DEF HandlerStep
<1>3. ASSUME NEW r \in Requests, TaskStep(r) PROVE IInv'
  <2>1. CASE \E s \in Outcomes, snap \in BOOLEAN : Finish(r, s, snap)
    BY <2>1, FinishInv
  <2>2. CASE \E s \in Outcomes, snap \in BOOLEAN : FinishError(r, s, snap)
    BY <2>2, FinishErrorInv
  <2>3. CASE Fallback(r) \/ Reply(r)
    BY <2>3, FallbackInv, ReplyInv
  <2> QED BY <1>3, <2>1, <2>2, <2>3 DEF TaskStep
<1>4. ASSUME NEW r \in Requests, ClientStep(r) PROVE IInv'
  BY <1>4, ReceiveInv, RefuseInv, LeaveInv DEF ClientStep
<1>5. CASE UNCHANGED storeVars
  <2>1. UNCHANGED <<rows, owner, phase, stale, busy, pc, host, parent, said, gone, answer>>
    BY <1>5 DEF storeVars
  <2>2. TypeOK'
    BY <2>1 DEF IInv, TypeOK
  <2> QED BY <2>1, <2>2, Kept DEF IInv, serverVars
<1> QED BY <1>1, <1>2, <1>3, <1>4, <1>5 DEF Next

LEMMA Inductive == Spec => []IInv
  BY StoreInit, NextInv, PTL DEF Spec

\* Every variable of the table, its processes and its requests keeps its
\* type; in particular completed rows, and no others, carry a snapshot.
THEOREM StoreTyped == Spec => []TypeOK
  BY Inductive, PTL DEF IInv

\* For any number of requests with one key, over any crashes, restarts and
\* refused updates: all that are told of success are given one response.
THEOREM OneAnswer == Spec => []OneAnswerPerKey
<1>1. IInv => OneAnswerPerKey
  BY DEF IInv, AnswerInv, KeyInv, OneAnswerPerKey, Exists, Holder, Success
<1> QED BY <1>1, Inductive, PTL

\* A success a client was told of is a stored success from then on, of a
\* request with the same body.
THEOREM Durable == Spec => []SuccessIsDurable
<1>1. IInv => SuccessIsDurable
  BY DEF IInv, AnswerInv, SuccessIsDurable
<1> QED BY <1>1, Inductive, PTL

\* A process that answers requests owns every row in progress.
THEOREM OpenOwned == Spec => []OpenRowsOwned
<1>1. IInv => OpenRowsOwned
  BY DEF IInv, OpenInv, OpenRowsOwned, Open
<1> QED BY <1>1, Inductive, PTL

\* The row of a request that is being served is closed by nobody else.
THEOREM LiveKept == Spec => []LiveRowKept
<1>1. IInv => LiveRowKept
  BY DEF IInv, RowInv, LiveRowKept, Open
<1> QED BY <1>1, Inductive, PTL

\* What a generation continues stays completed, with its snapshot.
THEOREM ParentKept == Spec => []ParentStays
<1>1. IInv => ParentStays
  BY DEF IInv, ParentInv, ParentStays
<1> QED BY <1>1, Inductive, PTL

-----------------------------------------------------------------------------
\* The life cycle.  A task that outlives its server may close a row while the
\* next process is about to fail it, so this needs that no process drains.

\* No process drains, and what is selected for repair is still in progress.
RepairInv ==
    /\ \A s \in Servers : phase[s] # "draining"
    /\ \A s \in Servers : \A r \in stale[s] : Open(r)

LEMMA RepairNext ==
    ASSUME "drain" \notin StoreFaults, IInv, RepairInv, [Next]_storeVars
    PROVE  RepairInv'
<1> USE DEF RepairInv
<1>1. ASSUME NEW s \in Servers, Acquire(s) PROVE RepairInv'
  BY <1>1 DEF Acquire, IInv, TypeOK, Open
<1>2. ASSUME NEW s \in Servers, NEW q \in Requests, FailStale(s, q) PROVE RepairInv'
  <2>1. /\ \A t \in Servers : stale'[t] = IF t = s THEN stale[t] \ {q} ELSE stale[t]
        /\ \A r \in Requests : r # q => rows'[r] = rows[r]
        /\ phase[s] = "opening" /\ phase' = phase
    BY <1>2 DEF FailStale, IInv, TypeOK
  <2>2. \A t \in Servers : t # s => stale[t] = {}
    BY <2>1 DEF IInv, LockInv
  <2>3. \A t \in Servers : stale[t] \subseteq Requests
    BY DEF IInv, TypeOK
  <2>4. \A t \in Servers : \A r \in stale'[t] : t = s /\ r \in stale[s] /\ r # q
    BY <2>1, <2>2
  <2>5. \A t \in Servers : \A r \in stale'[t] : Open(r)'
    BY <2>1, <2>3, <2>4 DEF Open
  <2> QED BY <2>1, <2>5
<1>3. ASSUME NEW s \in Servers, Serve(s) PROVE RepairInv'
  BY <1>3 DEF Serve, requestVars, IInv, TypeOK, Open
<1>4. ASSUME NEW s \in Servers, NEW as \in {"off", "stopped"}, Halt(s, as) PROVE RepairInv'
  BY <1>4 DEF Halt, IInv, TypeOK, Open
<1>5. ASSUME NEW r \in Requests, UNCHANGED <<phase, stale>>,
             pc[r] \in {"begin", "running", "fallback"}
      PROVE  RepairInv'
  <2>1. host[r] \in Servers /\ phase[host[r]] = "serving"
    BY <1>5 DEF IInv, HostInv, Working
  <2> QED BY <1>5, <2>1, NoRepair
<1>6. CASE UNCHANGED <<rows, phase, stale>>
  BY <1>6 DEF Open
<1>7. ASSUME NEW s \in Servers, ServerStep(s) PROVE RepairInv'
  BY <1>1, <1>2, <1>3, <1>4, <1>7 DEF ServerStep, Crash, Drain, Exit
<1>8. ASSUME NEW r \in Requests, HandlerStep(r) \/ TaskStep(r) \/ ClientStep(r) PROVE RepairInv'
  <2>1. CASE \/ Begin(r) \/ Fallback(r)
             \/ \E s \in Outcomes, snap \in BOOLEAN : Finish(r, s, snap)
    BY <1>5, <2>1 DEF Begin, Fallback, Finish, serverVars
  <2>2. CASE LookupNew(r) \/ LookupKnown(r) \/ Start(r) \/ BeginError(r) \/ Undo(r)
    BY <1>6, <2>2 DEF LookupNew, LookupKnown, Start, BeginError, Undo, serverVars
  <2>3. CASE Reply(r) \/ \E s \in Outcomes, snap \in BOOLEAN : FinishError(r, s, snap)
    BY <1>6, <2>3 DEF Reply, FinishError, serverVars
  <2>4. CASE ClientStep(r)
    BY <1>6, <2>4 DEF ClientStep, Receive, Refuse, Leave, serverVars
  <2> QED BY <1>8, <2>1, <2>2, <2>3, <2>4 DEF HandlerStep, TaskStep
<1>9. CASE UNCHANGED storeVars
  BY <1>6, <1>9 DEF storeVars
<1> QED BY <1>7, <1>8, <1>9 DEF Next

life == [r \in Requests |-> rows[r].status]

LEMMA LifeInit == Init => Lifecycle!Init
<1> SUFFICES ASSUME Init PROVE Lifecycle!Init
  OBVIOUS
<1>1. \A r \in Requests : rows[r].status = "absent"
  BY DEF Init, Row
<1> QED BY <1>1 DEF Lifecycle!Init

\* A row that was in progress is closed.
LEMMA LifeClosed ==
    ASSUME IInv, NEW r \in Requests, Open(r), NEW new \in Rows, new.status \in Outcomes,
           rows' = [rows EXCEPT ![r] = new]
    PROVE  Lifecycle!Next
<1> DEFINE outcome == new.status
<1>1. life[r] = "in_progress"
  BY DEF life, Open
<1>2. rows' \in [Requests -> Rows] /\ \A q \in Requests : rows'[q] = IF q = r THEN new ELSE rows[q]
  BY DEF IInv, TypeOK
<1>3. life' = [life EXCEPT ![r] = outcome]
  BY <1>2 DEF life
<1>4. outcome \in Outcomes
  OBVIOUS
<1> HIDE DEF outcome
<1>5. Lifecycle!Close(r, outcome)
  BY <1>1, <1>3 DEF life, Lifecycle!Close
<1> QED BY <1>4, <1>5 DEF Lifecycle!Next

LEMMA LifeOpened ==
    ASSUME IInv, NEW r \in Requests, Begin(r)
    PROVE  Lifecycle!Next
<1> DEFINE new == Row("in_progress", FALSE)
<1>1. Insertable(r) /\ rows' = [rows EXCEPT ![r] = new]
  BY DEF Begin
<1>2. new.status = "in_progress"
  BY RowRead
<1> HIDE DEF new
<1>3. \A q \in Requests : rows'[q] = IF q = r THEN new ELSE rows[q]
  BY <1>1 DEF IInv, TypeOK
<1>4. life' = [life EXCEPT ![r] = "in_progress"]
  BY <1>2, <1>3 DEF life
<1>5. life[r] = "absent"
  BY <1>1 DEF life, Insertable, Exists
<1>6. ~Lifecycle!Claimed(r)
  BY <1>1 DEF Insertable, Holder, Exists, Lifecycle!Claimed
<1>7. Lifecycle!Open(r)
  BY <1>4, <1>5, <1>6 DEF life, Lifecycle!Open
<1> QED BY <1>7 DEF Lifecycle!Next

LEMMA LifeNext ==
    ASSUME IInv, RepairInv, [Next]_storeVars
    PROVE  [Lifecycle!Next]_life
<1>1. CASE UNCHANGED rows
  BY <1>1 DEF life
<1>2. ASSUME NEW s \in Outcomes PROVE Row(s, s = "completed") \in Rows /\ Row(s, s = "completed").status \in Outcomes
  BY RowMade, RowRead
<1>3. Row("failed", FALSE) \in Rows /\ Row("failed", FALSE).status \in Outcomes
  BY ZenonT(30), RowMade, RowRead DEF Outcomes
<1>4. ASSUME NEW s \in Servers, NEW r \in Requests, FailStale(s, r) PROVE Lifecycle!Next
  <2>1. Open(r) /\ rows' = [rows EXCEPT ![r] = Row("failed", FALSE)]
    BY <1>4 DEF FailStale, RepairInv
  <2> QED BY <1>3, <2>1, LifeClosed
<1>5. ASSUME NEW s \in Servers, ServerStep(s) PROVE [Lifecycle!Next]_life
  BY <1>1, <1>4, <1>5 DEF ServerStep, Acquire, Serve, Crash, Drain, Exit, Halt
<1>6. ASSUME NEW r \in Requests, NEW s \in Outcomes, NEW snap \in BOOLEAN, Finish(r, s, snap)
      PROVE  Lifecycle!Next
  <2>1. Open(r) /\ rows' = [rows EXCEPT ![r] = Row(s, s = "completed")]
    BY <1>6 DEF Finish, Closable, Open
  <2> QED BY <1>2, <2>1, LifeClosed
<1>7. ASSUME NEW r \in Requests, Fallback(r) PROVE [Lifecycle!Next]_life
  <2>1. (Open(r) /\ rows' = [rows EXCEPT ![r] = Row("failed", FALSE)]) \/ UNCHANGED rows
    BY <1>7 DEF Fallback, Closable, Open
  <2> QED BY <1>1, <1>3, <2>1, LifeClosed
<1>8. ASSUME NEW r \in Requests, HandlerStep(r) PROVE [Lifecycle!Next]_life
  BY <1>1, <1>8, LifeOpened DEF HandlerStep, LookupNew, LookupKnown, Start, BeginError, Undo
<1>9. ASSUME NEW r \in Requests, TaskStep(r) PROVE [Lifecycle!Next]_life
  BY <1>1, <1>6, <1>7, <1>9 DEF TaskStep, FinishError, Reply
<1>10. ASSUME NEW r \in Requests, ClientStep(r) PROVE [Lifecycle!Next]_life
  BY <1>1, <1>10 DEF ClientStep, Receive, Refuse, Leave
<1>11. CASE UNCHANGED storeVars
  BY <1>1, <1>11 DEF storeVars
<1> QED BY <1>5, <1>8, <1>9, <1>10, <1>11 DEF Next

\* Without draining processes the table implements the life cycle: whatever
\* crashes and restarts, a response is opened once, a key has one response,
\* and no closed response is written again.
THEOREM LifecycleKept ==
    ASSUME "drain" \notin StoreFaults
    PROVE  Spec => KeepsLifecycle
<1>1. Init => RepairInv
  BY DEF Init, RepairInv
<1>2. IInv /\ RepairInv /\ [Next]_storeVars => RepairInv'
  BY RepairNext
<1>3. IInv /\ RepairInv /\ [Next]_storeVars => [Lifecycle!Next]_life
  BY LifeNext
<1> QED BY <1>1, <1>2, <1>3, LifeInit, Inductive, PTL DEF Spec, KeepsLifecycle, Lifecycle!Spec, life
=============================================================================
