--------------------------- MODULE GenerationProofs ---------------------------
(***************************************************************************)
(* Type correctness of the supervisor's own steps and of Generation, then  *)
(* ExclusiveGpu, AdmissionHeld, NoStaleEvent, NoOrphanRow and              *)
(* NoTruncatedSuccess, for every value of the constants.                   *)
(*                                                                         *)
(* The argument: a request's work on the GPU is over for good once its     *)
(* generate line was handed over (or given up) and no child holds it any   *)
(* more.  A terminal event, a reap that a reset waited for, and a lost     *)
(* child are each proof of that, and nothing else gives `pending` back.    *)
(* So whatever is in the pipe or in the hands of run() belongs to the      *)
(* pending request, and the pieces of a request can be counted: what its   *)
(* client has, what its stream, its channel, run() and the pipe hold are   *)
(* together the pieces the child has sent, and a terminal carries that     *)
(* number.                                                                 *)
(***************************************************************************)
EXTENDS Generation, FiniteSetTheorems, SequenceTheorems, TLAPS

-----------------------------------------------------------------------------
\* The supervisor's own steps.

\* The events the model builds are of the protocol.
LEMMA EventKinds ==
    /\ \A r \in Requests \cup {None}, t \in EventTypes \ {"terminal"} : Plain(t, r) \in Event
    /\ \A r \in Requests \cup {None}, s \in Outcomes, n \in 0..MaxDeltas :
           Terminal(r, s, n) \in Event
    /\ NoLine \in Event
BY SupervisorAssumption DEF Plain, Terminal, NoLine, Event, EventTypes, Outcomes

\* The states a child process starts from, and the ones it ends in.
LEMMA ProcessStates ==
    /\ NoChild \in Process /\ NewChild \in Process /\ Exited \in Process
    /\ \A r \in Requests \cup {None} : Running(r) \in Process
BY SupervisorAssumption DEF Process, NoChild, NewChild, Exited, Running

\* What a live child changes of its own state.
LEMMA ProcessSteps ==
    ASSUME child \in Process
    PROVE  /\ child.job \in Requests \cup {None}
           /\ child.sent \in 0..MaxDeltas
           /\ [child EXCEPT !.st = "up"] \in Process
           /\ [child EXCEPT !.told = TRUE] \in Process
           /\ child.sent < MaxDeltas => [child EXCEPT !.sent = @ + 1] \in Process
<1>1. child.job \in Requests \cup {None} /\ child.sent \in 0..MaxDeltas
  BY DEF Process
<1>2. [child EXCEPT !.st = "up"] \in Process
  BY DEF Process
<1>3. [child EXCEPT !.told = TRUE] \in Process
  BY DEF Process
<1>4. ASSUME child.sent < MaxDeltas PROVE [child EXCEPT !.sent = @ + 1] \in Process
  <2>1. child.sent + 1 \in 0..MaxDeltas
    BY <1>1, <1>4, SupervisorAssumption
  <2> QED BY <2>1 DEF Process
<1> QED BY <1>1, <1>2, <1>3, <1>4

\* Reading a line of stdout.
LEMMA PipePop ==
    ASSUME stdout \in Seq(Event), stdout # <<>>
    PROVE  Head(stdout) \in Event /\ Tail(stdout) \in Seq(Event)
BY HeadTailProperties

\* Writing a line of stdout.
LEMMA PipePush ==
    ASSUME stdout \in Seq(Event), NEW e \in Event
    PROVE  Append(stdout, e) \in Seq(Event)
BY AppendProperties

\* Event channels of the right type, within their capacity.
ChansOK(c) == c \in [Requests -> Seq(Event)] /\ \A r \in Requests : Len(c[r]) <= ChanCap

\* An event that finds room keeps every channel within its capacity.
LEMMA ChanPush ==
    ASSUME ChansOK(chan), NEW r, NEW e \in Event,
           r \in Requests => Len(chan[r]) < ChanCap
    PROVE  ChansOK([chan EXCEPT ![r] = Append(@, e)])
<1> DEFINE c == [chan EXCEPT ![r] = Append(@, e)]
<1>1. ASSUME NEW q \in Requests PROVE c[q] \in Seq(Event) /\ Len(c[q]) <= ChanCap
  <2>1. CASE q = r
    <3>1. c[q] = Append(chan[q], e) /\ chan[q] \in Seq(Event)
      BY <2>1 DEF ChansOK
    <3>2. Append(chan[q], e) \in Seq(Event) /\ Len(Append(chan[q], e)) = Len(chan[q]) + 1
      BY <3>1, AppendProperties
    <3>3. Len(chan[q]) < ChanCap /\ Len(chan[q]) \in Nat
      BY <2>1, <3>1, LenProperties
    <3> QED BY <3>1, <3>2, <3>3, SupervisorAssumption
  <2>2. CASE q # r
    BY <2>2 DEF ChansOK
  <2> QED BY <2>1, <2>2
<1>2. DOMAIN c = Requests /\ c = [q \in Requests |-> c[q]]
  BY DEF ChansOK
<1> HIDE DEF c
<1>3. ChansOK(c)
  BY <1>1, <1>2 DEF ChansOK
<1> QED BY <1>3 DEF c

\* Every step of the run() task keeps the types.
LEMMA RunTypes ==
    ASSUME SupTypeOK, RunStep
    PROVE  SupTypeOK'
<1>1. CASE RunStop
  BY <1>1 DEF SupTypeOK, RunStop, childVars, reqVars, resetVars
<1>2. CASE RunSpawn
  BY <1>2, ProcessStates DEF SupTypeOK, RunSpawn, reqVars, resetVars
<1>3. CASE RunSpawnError
  BY <1>3 DEF SupTypeOK, RunSpawnError, childVars, reqVars, resetVars
<1>4. CASE RunLoop
  BY <1>4 DEF SupTypeOK, RunLoop, workerVars, childVars, reqVars, resetVars
<1>5. CASE RunPermit
  <2>1. changed' \in BOOLEAN /\ restart' \in BOOLEAN
    BY <1>5, Zenon DEF RunPermit
  <2>2. held' \in Requests \cup {None} /\ runpc' = "loop"
    BY <1>5 DEF RunPermit
  <2> QED
    BY <1>5, <2>1, <2>2 DEF SupTypeOK, RunPermit, childVars, reqVars, resetVars
<1>6. CASE RunDisconnected
  BY <1>6 DEF SupTypeOK, RunDisconnected, workerVars, childVars, reqVars, resetVars
<1>7. CASE RunRead
  <2>1. line' \in Event /\ stdout' \in Seq(Event)
    BY <1>7, PipePop DEF SupTypeOK, RunRead
  <2>2. runpc' \in {"line", "reap"} /\ held' = None
    BY <1>7 DEF RunRead
  <2> QED
    BY <1>7, <2>1, <2>2 DEF SupTypeOK, RunRead, workerVars, reqVars, resetVars
<1>8. CASE RunLine
  BY <1>8, EventKinds DEF SupTypeOK, RunLine, childVars, reqVars, resetVars
<1>9. CASE RunSend
  <2>1. ChansOK(chan')
    BY <1>9, ChanPush DEF SupTypeOK, RunSend, ChansOK
  <2> QED
    BY <1>9, <2>1, EventKinds DEF SupTypeOK, RunSend, workerVars, childVars, resetVars, ChansOK
<1>10. CASE RunSendFail
  <2>1. restart' \in BOOLEAN
    BY <1>10 DEF SupTypeOK, RunSendFail
  <2> QED
    BY <1>10, <2>1, EventKinds DEF SupTypeOK, RunSendFail, childVars, reqVars, resetVars
<1>11. CASE RunReap
  BY <1>11, ProcessStates DEF SupTypeOK, RunReap, reqVars, resetVars
<1>12. CASE RunAnnounce
  <2>1. woken' \subseteq Callers
    BY <1>12 DEF SupTypeOK, RunAnnounce, BumpReaped
  <2>2. /\ resetting' = FALSE /\ runpc' = "announced"
        /\ UNCHANGED <<status, busy, stopping, pending, cancelled, changed, restart,
                       held, line, child, inbox, stdout, dispatch, chan, closed, rst>>
    BY <1>12 DEF RunAnnounce, childVars, reqVars
  <2> QED
    BY <2>1, <2>2 DEF SupTypeOK
<1>13. CASE RunLost
  BY <1>13 DEF SupTypeOK, RunLost, workerVars, childVars, reqVars, resetVars
<1>14. CASE RunNotify
  <2>1. Terminal(held, "failed", 0) \in Event
    BY EventKinds, SupervisorAssumption DEF SupTypeOK, Outcomes
  <2>2. ChansOK(chan')
    <3>1. CASE UNCHANGED chan
      BY <3>1 DEF SupTypeOK, ChansOK
    <3>2. CASE Len(chan[held]) < ChanCap
      <4>1. ChansOK([chan EXCEPT ![held] = Append(@, Terminal(held, "failed", 0))])
        BY <2>1, <3>2, ChanPush DEF SupTypeOK, ChansOK
      <4> QED BY <1>14, <3>1, <3>2, <4>1 DEF RunNotify
    <3> QED BY <1>14, <3>1, <3>2 DEF RunNotify
  <2>3. pending' \in Requests \cup {None} /\ busy' \in BOOLEAN /\ changed' \in BOOLEAN
    BY <1>14 DEF SupTypeOK, RunNotify, Release
  <2> QED
    BY <1>14, <2>2, <2>3 DEF SupTypeOK, RunNotify, childVars, resetVars, ChansOK
<1>15. CASE RunPause
  BY <1>15 DEF SupTypeOK, RunPause, workerVars, childVars, reqVars, resetVars
<1>16. CASE RunPauseReset
  <2>1. woken' \subseteq Callers
    BY <1>16 DEF SupTypeOK, RunPauseReset, BumpReaped
  <2>2. /\ restart' = FALSE /\ resetting' = FALSE /\ runpc' = "top"
        /\ UNCHANGED <<status, busy, stopping, pending, cancelled, changed,
                       held, line, child, inbox, stdout, dispatch, chan, closed, rst>>
    BY <1>16 DEF RunPauseReset, childVars, reqVars
  <2> QED
    BY <2>1, <2>2 DEF SupTypeOK
<1>17. CASE RunWake
  BY <1>17 DEF SupTypeOK, RunWake, workerVars, childVars, reqVars, resetVars
<1> QED
  BY <1>1, <1>2, <1>3, <1>4, <1>5, <1>6, <1>7, <1>8, <1>9, <1>10, <1>11,
     <1>12, <1>13, <1>14, <1>15, <1>16, <1>17 DEF RunStep

\* Every step of the child keeps the types; a line goes to a pipe.
LEMMA ChildTypes ==
    ASSUME SupTypeOK, ChildStep
    PROVE  SupTypeOK'
<1> DEFINE Writes(e) == stdout' = Append(stdout, e)
<1>w. ASSUME NEW e \in Event, Writes(e) PROVE stdout' \in Seq(Event)
  BY <1>w, PipePush DEF SupTypeOK
<1>j. child.job \in Requests \cup {None} /\ child.sent \in 0..MaxDeltas
  BY ProcessSteps DEF SupTypeOK
<1>1. CASE ChildReady
  <2>1. stdout' \in Seq(Event) /\ child' \in Process
    BY <1>1, <1>w, EventKinds, ProcessSteps DEF SupTypeOK, ChildReady, EventTypes
  <2> QED
    BY <1>1, <2>1 DEF SupTypeOK, ChildReady, workerVars, runVars, reqVars, resetVars
<1>2. CASE ChildStarted
  <2>1. stdout' \in Seq(Event) /\ child' \in Process
    BY <1>2, <1>w, <1>j, EventKinds, ProcessSteps DEF SupTypeOK, ChildStarted, EventTypes
  <2> QED
    BY <1>2, <2>1 DEF SupTypeOK, ChildStarted, workerVars, runVars, reqVars, resetVars
<1>3. CASE ChildDelta
  <2>1. stdout' \in Seq(Event) /\ child' \in Process
    BY <1>3, <1>w, <1>j, EventKinds, ProcessSteps DEF SupTypeOK, ChildDelta, EventTypes
  <2> QED
    BY <1>3, <2>1 DEF SupTypeOK, ChildDelta, workerVars, runVars, reqVars, resetVars
<1>4. CASE ChildDie
  BY <1>4, ProcessStates DEF SupTypeOK, ChildDie, workerVars, runVars, reqVars, resetVars
<1>5. CASE ChildGarble
  <2>1. stdout' \in Seq(Event)
    BY <1>5, <1>w, EventKinds DEF ChildGarble
  <2> QED
    BY <1>5, <2>1 DEF SupTypeOK, ChildGarble, workerVars, runVars, reqVars, resetVars
<1>6. ASSUME NEW r \in Requests, ChildTake(r) PROVE SupTypeOK'
  <2>1. child' \in Process /\ inbox' \subseteq Requests
    BY <1>6, ProcessStates DEF SupTypeOK, ChildTake
  <2> QED
    BY <1>6, <2>1 DEF SupTypeOK, ChildTake, workerVars, runVars, reqVars, resetVars
<1>7. ASSUME NEW s \in Answers, ChildTerminal(s) PROVE SupTypeOK'
  <2>1. stdout' \in Seq(Event) /\ child' \in Process
    BY <1>7, <1>w, <1>j, EventKinds, ProcessStates, SupervisorAssumption
    DEF SupTypeOK, ChildTerminal
  <2> QED
    BY <1>7, <2>1 DEF SupTypeOK, ChildTerminal, workerVars, runVars, reqVars, resetVars
<1> QED
  BY <1>1, <1>2, <1>3, <1>4, <1>5, <1>6, <1>7 DEF ChildStep

\* Entering reset(), for either of its callers.
LEMMA ResetCallType ==
    ASSUME SupTypeOK, NEW c \in Callers, CallReset(c)
    PROVE  rst' \in [Callers -> {"idle", "armed", "waiting", "returned"}]
BY DEF SupTypeOK, CallReset

\* Every step of a dispatch task keeps the types.
LEMMA DispatchTypes ==
    ASSUME SupTypeOK, NEW r \in Requests, DispatchStep(r)
    PROVE  SupTypeOK'
<1>1. CASE DispatchWrite(r)
  BY <1>1 DEF SupTypeOK, DispatchWrite, workerVars, runVars, resetVars
<1>2. CASE DispatchFail(r)
  <2>1. <<r, "dispatch">> \in Callers
    BY DEF Callers
  <2> QED
    BY <1>2, <2>1, ResetCallType DEF SupTypeOK, DispatchFail, workerVars, runVars, childVars
<1>3. CASE DispatchEnd(r)
  <2>1. pending' \in Requests \cup {None} /\ busy' \in BOOLEAN /\ changed' \in BOOLEAN
    BY <1>3 DEF SupTypeOK, DispatchEnd, Release
  <2> QED
    BY <1>3, <2>1 DEF SupTypeOK, DispatchEnd, runVars, childVars, resetVars
<1> QED
  BY <1>1, <1>2, <1>3 DEF DispatchStep

\* The two waits inside reset() keep the types.
LEMMA ResetTypes ==
    ASSUME SupTypeOK, NEW c \in Callers, ResetStep(c)
    PROVE  SupTypeOK'
<1>1. CASE ResetArm(c)
  BY <1>1 DEF SupTypeOK, ResetArm, runVars, childVars, reqVars
<1>2. CASE ResetReturn(c)
  BY <1>2 DEF SupTypeOK, ResetReturn, workerVars, runVars, childVars, reqVars
<1> QED
  BY <1>1, <1>2 DEF ResetStep

\* So does every step of the supervisor.
LEMMA SupTypes ==
    ASSUME SupTypeOK, SupNext
    PROVE  SupTypeOK'
<1>1. CASE Shutdown
  BY <1>1 DEF SupTypeOK, Shutdown, runVars, childVars, reqVars, resetVars
<1> QED
  BY <1>1, RunTypes, ChildTypes, DispatchTypes, ResetTypes DEF SupNext

-----------------------------------------------------------------------------
\* The steps of handlers, tasks and clients.

\* A server that has just started.
LEMMA TypesInit == Init => TypeOK
<1> SUFFICES ASSUME Init PROVE TypeOK
  OBVIOUS
<1>1. SupTypeOK
  <2>1. NoChild \in Process /\ NoLine \in Event
    BY ProcessStates, EventKinds
  <2>2. \A r \in Requests : Len(chan[r]) <= ChanCap
    <3>1. \A r \in Requests : chan[r] = <<>>
      BY DEF Init, SupInit
    <3>2. 0 <= ChanCap /\ Len(<<>>) = 0
      BY SupervisorAssumption
    <3> QED BY <3>1, <3>2
  <2>3. chan \in [Requests -> Seq(Event)] /\ stdout \in Seq(Event)
    BY DEF Init, SupInit
  <2> QED
    BY <2>1, <2>2, <2>3 DEF Init, SupInit, SupTypeOK
<1>2. GenTypeOK
  <2>1. \A r \in Requests : Len(out[r]) <= OutCap
    <3>1. \A r \in Requests : out[r] = <<>>
      BY DEF Init, GenInit
    <3>2. 0 <= OutCap /\ Len(<<>>) = 0
      BY GenerationAssumption
    <3> QED BY <3>1, <3>2
  <2>2. out \in [Requests -> Seq(Frames)] /\ todo \in [Requests -> Seq(Frames)]
    BY DEF Init, GenInit
  <2>3. terminal \in [Requests -> Endings]
    BY SupervisorAssumption DEF Init, GenInit, Ending, Endings, Outcomes
  <2> QED
    BY <2>1, <2>2, <2>3 DEF Init, GenInit, GenTypeOK, ForcedCodes
<1> QED BY <1>1, <1>2 DEF TypeOK

\* Taking the next event out of a request's channel.
LEMMA ChanPop ==
    ASSUME ChansOK(chan), NEW r \in Requests, chan[r] # <<>>
    PROVE  /\ Head(chan[r]) \in Event
           /\ Tail(chan[r]) \in Seq(Event)
           /\ Len(Tail(chan[r])) < ChanCap
           /\ ChansOK([chan EXCEPT ![r] = Tail(@)])
<1>1. chan[r] \in Seq(Event) /\ Len(chan[r]) <= ChanCap
  BY DEF ChansOK
<1>2. Head(chan[r]) \in Event /\ Tail(chan[r]) \in Seq(Event) /\ Len(Tail(chan[r])) = Len(chan[r]) - 1
  BY <1>1, HeadTailProperties
<1>3. Len(Tail(chan[r])) < ChanCap
  BY <1>1, <1>2, LenProperties, SupervisorAssumption
<1>4. ChansOK([chan EXCEPT ![r] = Tail(@)])
  BY <1>2, <1>3, SupervisorAssumption, LenProperties DEF ChansOK
<1> QED BY <1>2, <1>3, <1>4

\* Worker::cancel uses try_send: the channel keeps within its capacity.
LEMMA CancelTypes ==
    ASSUME SupTypeOK, NEW r \in Requests, NEW queue \in Seq(Event), Len(queue) <= ChanCap,
           Cancel(r, queue)
    PROVE  cancelled' \in Requests \cup {None} /\ ChansOK(chan')
<1>1. cancelled' \in Requests \cup {None}
  BY DEF SupTypeOK, Cancel
<1>2. Plain("cancelling", r) \in Event
  BY EventKinds DEF EventTypes
<1>3. Append(queue, Plain("cancelling", r)) \in Seq(Event)
      /\ Len(Append(queue, Plain("cancelling", r))) = Len(queue) + 1 /\ Len(queue) \in Nat
  BY <1>2, AppendProperties, LenProperties
<1>4. ASSUME NEW q \in Seq(Event), Len(q) <= ChanCap
      PROVE  ChansOK([chan EXCEPT ![r] = q])
  BY <1>4 DEF SupTypeOK, ChansOK
<1>5. CASE pending = r /\ Len(queue) < ChanCap
  <2>1. Len(Append(queue, Plain("cancelling", r))) <= ChanCap
    BY <1>3, <1>5, SupervisorAssumption
  <2>2. chan' = [chan EXCEPT ![r] = Append(queue, Plain("cancelling", r))]
    BY <1>5 DEF Cancel
  <2> QED BY <1>1, <1>3, <1>4, <2>1, <2>2
<1>6. CASE ~(pending = r /\ Len(queue) < ChanCap)
  <2>1. chan' = [chan EXCEPT ![r] = queue]
    BY <1>6 DEF Cancel
  <2> QED BY <1>1, <1>4, <2>1
<1> QED BY <1>5, <1>6

\* A dropped receiver empties its channel.
LEMMA DropTypes ==
    ASSUME SupTypeOK, NEW r \in Requests, DropReceiver(r)
    PROVE  ChansOK(chan') /\ closed' \subseteq Requests
BY SupervisorAssumption DEF SupTypeOK, ChansOK, DropReceiver

\* Putting a frame on a client's stream, and reading one.
LEMMA OutPush ==
    ASSUME GenTypeOK, NEW r \in Requests, NEW f \in Frames, Len(out[r]) < OutCap
    PROVE  /\ [out EXCEPT ![r] = Append(@, f)] \in [Requests -> Seq(Frames)]
           /\ \A q \in Requests : Len([out EXCEPT ![r] = Append(@, f)][q]) <= OutCap
<1>1. out[r] \in Seq(Frames) /\ Len(out[r]) \in Nat
  BY LenProperties DEF GenTypeOK
<1>2. Append(out[r], f) \in Seq(Frames) /\ Len(Append(out[r], f)) = Len(out[r]) + 1
  BY <1>1, AppendProperties
<1>3. Len(Append(out[r], f)) <= OutCap
  BY <1>1, <1>2, GenerationAssumption
<1> QED BY <1>2, <1>3 DEF GenTypeOK

\* Reading a frame of the stream.
LEMMA OutPop ==
    ASSUME GenTypeOK, NEW r \in Requests, out[r] # <<>>
    PROVE  /\ Head(out[r]) \in Frames
           /\ [out EXCEPT ![r] = Tail(@)] \in [Requests -> Seq(Frames)]
           /\ \A q \in Requests : Len([out EXCEPT ![r] = Tail(@)][q]) <= OutCap
<1>1. out[r] \in Seq(Frames) /\ Len(out[r]) \in Nat /\ Len(out[r]) <= OutCap
  BY LenProperties DEF GenTypeOK
<1>2. Head(out[r]) \in Frames /\ Tail(out[r]) \in Seq(Frames) /\ Len(Tail(out[r])) = Len(out[r]) - 1
  BY <1>1, HeadTailProperties
<1>3. Len(Tail(out[r])) <= OutCap
  BY <1>1, <1>2, GenerationAssumption
<1> QED BY <1>2, <1>3 DEF GenTypeOK

\* The steps of a handler up to the spawn of its task, or its refusal.
LEMMA AdmissionTypes ==
    ASSUME TypeOK, NEW r \in Requests,
           Arrive(r) \/ Claim(r) \/ Start(r) \/ Begin(r) \/ BeginError(r) \/ BeginUndone(r)
    PROVE  TypeOK'
<1> USE DEF TypeOK
<1>c. <<r, "task">> \in Callers /\ <<r, "dispatch">> \in Callers
  BY DEF Callers
<1>1. CASE Arrive(r)
  <2>1. SupTypeOK'
    BY <1>1 DEF SupTypeOK, Arrive, supVars
  <2>2. GenTypeOK'
    BY <1>1 DEF GenTypeOK, Arrive, Goto
  <2> QED BY <2>1, <2>2
<1>2. CASE Claim(r)
  <2>1. SupTypeOK'
    <3>1. busy' \in BOOLEAN
      BY <1>2 DEF SupTypeOK, Claim, ClaimBusy
    <3>2. UNCHANGED <<status, stopping, resetting, pending, cancelled, changed,
                      restart, runVars, childVars, reqVars, resetVars>>
      BY <1>2 DEF Claim
    <3> QED BY <3>1, <3>2 DEF SupTypeOK, runVars, childVars, reqVars, resetVars
  <2>2. GenTypeOK'
    BY <1>2 DEF GenTypeOK, Claim, Goto
  <2> QED BY <2>1, <2>2
<1>3. CASE Start(r)
  <2>1. SupTypeOK'
    <3>1. /\ dispatch' \in [Requests -> {"none", "writing", "reset", "done"}]
          /\ rst' \in [Callers -> {"idle", "armed", "waiting", "returned"}]
      BY <1>3, <1>c DEF SupTypeOK, Start, Publish
    <3> QED BY <1>3, <3>1 DEF SupTypeOK, Start, Publish, runVars, childVars
  <2>2. GenTypeOK'
    BY <1>3 DEF GenTypeOK, Start, Goto, clientVars
  <2> QED BY <2>1, <2>2
<1>4. CASE Begin(r)
  <2>1. SupTypeOK'
    BY <1>4 DEF SupTypeOK, Begin, supVars
  <2>2. GenTypeOK'
    BY <1>4 DEF GenTypeOK, Begin, Goto, clientVars
  <2> QED BY <2>1, <2>2
<1>5. CASE BeginError(r)
  <2>1. SupTypeOK'
    BY <1>5, <1>c, ResetCallType DEF SupTypeOK, BeginError, workerVars, runVars, childVars, reqVars
  <2>2. GenTypeOK'
    BY <1>5 DEF GenTypeOK, BeginError, Goto
  <2> QED BY <2>1, <2>2
<1>6. CASE BeginUndone(r)
  <2>1. SupTypeOK'
    <3>1. ChansOK(chan') /\ closed' \subseteq Requests
      BY <1>6, DropTypes DEF BeginUndone
    <3>2. pending' \in Requests \cup {None} /\ busy' \in BOOLEAN /\ changed' \in BOOLEAN
      BY <1>6 DEF SupTypeOK, BeginUndone, Release
    <3> QED BY <1>6, <3>1, <3>2 DEF SupTypeOK, ChansOK, BeginUndone, runVars, childVars, resetVars
  <2>2. GenTypeOK'
    BY <1>6 DEF GenTypeOK, BeginUndone, Goto, clientVars
  <2> QED BY <2>1, <2>2
<1> QED BY <1>1, <1>2, <1>3, <1>4, <1>5, <1>6

\* The terminals a task makes up itself.
LEMMA EndingTypes ==
    /\ \A s \in Outcomes, n \in 0..MaxDeltas, e \in BOOLEAN : Ending(s, n, e) \in Endings
    /\ \A code : Ending(ForcedStatus(code), 0, FALSE) \in Endings
    /\ Ending("failed", 0, TRUE) \in Endings
BY SupervisorAssumption DEF Ending, Endings, ForcedStatus, Outcomes

\* Giving up on a request.
LEMMA ForceTypes ==
    ASSUME GenTypeOK, NEW r \in Requests, NEW code \in ForcedCodes, ForceFailure(r, code)
    PROVE  /\ forced' \in [Requests -> ForcedCodes \cup {None}]
           /\ task' = [task EXCEPT ![r] = "top"]
BY DEF GenTypeOK, ForceFailure, Goto

\* The steps of the generation loop that receive nothing.
LEMMA LoopTypes ==
    ASSUME TypeOK, NEW r \in Requests,
           LoopTop(r) \/ GiveUp(r) \/ CancelDeadline(r) \/ ResetDone(r)
    PROVE  TypeOK'
<1> USE DEF TypeOK
<1>c. <<r, "task">> \in Callers
  BY DEF Callers
<1>1. CASE LoopTop(r)
  <2>1. SupTypeOK'
    BY <1>1 DEF SupTypeOK, LoopTop, supVars
  <2>2. GenTypeOK'
    <3>1. forced' \in [Requests -> ForcedCodes \cup {None}]
      BY <1>1 DEF GenTypeOK, LoopTop, ForcedCodes
    <3> QED BY <1>1, <3>1 DEF GenTypeOK, LoopTop, Goto, clientVars
  <2> QED BY <2>1, <2>2
<1>2. CASE GiveUp(r)
  <2>1. SupTypeOK'
    <3>1. chan[r] \in Seq(Event) /\ Len(chan[r]) <= ChanCap
      BY DEF SupTypeOK
    <3>2. cancelled' \in Requests \cup {None} /\ ChansOK(chan')
      BY <1>2, <3>1, CancelTypes DEF GiveUp
    <3> QED BY <1>2, <3>2 DEF SupTypeOK, ChansOK, GiveUp, runVars, childVars, resetVars
  <2>2. GenTypeOK'
    <3>1. ForceFailure(r, "client_disconnected") \/ ForceFailure(r, "worker_timeout")
      BY <1>2 DEF GiveUp
    <3>2. /\ forced' \in [Requests -> ForcedCodes \cup {None}]
          /\ task' = [task EXCEPT ![r] = "top"]
      BY <3>1, ForceTypes DEF ForcedCodes
    <3> QED BY <1>2, <3>2 DEF GenTypeOK, GiveUp, clientVars
  <2> QED BY <2>1, <2>2
<1>3. CASE CancelDeadline(r)
  <2>1. SupTypeOK'
    BY <1>3, <1>c, ResetCallType DEF SupTypeOK, CancelDeadline, workerVars, runVars, childVars, reqVars
  <2>2. GenTypeOK'
    BY <1>3 DEF GenTypeOK, CancelDeadline, Goto, clientVars
  <2> QED BY <2>1, <2>2
<1>4. CASE ResetDone(r)
  <2>1. SupTypeOK'
    BY <1>4 DEF SupTypeOK, ResetDone, supVars
  <2>2. GenTypeOK'
    BY <1>4, EndingTypes DEF GenTypeOK, ResetDone, Goto, clientVars
  <2> QED BY <2>1, <2>2
<1> QED BY <1>1, <1>2, <1>3, <1>4

\* A terminal event carries what the task keeps of it.
LEMMA TerminalTyped ==
    ASSUME NEW e \in Event, e.type = "terminal"
    PROVE  Ending(e.status, e.deltas, FALSE) \in Endings
BY DEF Event, Ending, Endings

\* The steps of the generation loop that receive an event.
LEMMA RecvTypes ==
    ASSUME TypeOK, NEW r \in Requests,
           RecvTerminal(r) \/ RecvEvent(r) \/ Backpressure(r)
    PROVE  TypeOK'
<1> USE DEF TypeOK
<1>1. CASE RecvTerminal(r)
  <2>1. SupTypeOK'
    <3>1. ChansOK(chan')
      BY <1>1, ChanPop DEF SupTypeOK, ChansOK, RecvTerminal, CanRecv
    <3> QED BY <1>1, <3>1 DEF SupTypeOK, ChansOK, RecvTerminal, workerVars, runVars, childVars, resetVars
  <2>2. GenTypeOK'
    <3>1. Head(chan[r]) \in Event
      BY <1>1, ChanPop DEF SupTypeOK, ChansOK, RecvTerminal, CanRecv
    <3>2. terminal' \in [Requests -> Endings]
      BY <1>1, <3>1, TerminalTyped, EndingTypes DEF GenTypeOK, RecvTerminal
    <3> QED BY <1>1, <3>2 DEF GenTypeOK, RecvTerminal, Goto, clientVars
  <2> QED BY <2>1, <2>2
<1>2. CASE RecvEvent(r)
  <2>1. SupTypeOK'
    <3>1. ChansOK(chan')
      BY <1>2, ChanPop DEF SupTypeOK, ChansOK, RecvEvent, CanRecv
    <3> QED BY <1>2, <3>1 DEF SupTypeOK, ChansOK, RecvEvent, workerVars, runVars, childVars, resetVars
  <2>2. GenTypeOK'
    <3> DEFINE frame == Frame(r, Head(chan[r]))
    <3>1. frame = None \/ frame \in Frames
      BY DEF Frame, Frames
    <3>2. CASE forced[r] = None /\ frame # None
      <4>1. out' = [out EXCEPT ![r] = Append(@, frame)] /\ Len(out[r]) < OutCap
        BY <1>2, <3>2 DEF RecvEvent
      <4>2. out' \in [Requests -> Seq(Frames)] /\ \A q \in Requests : Len(out'[q]) <= OutCap
        BY <3>1, <3>2, <4>1, OutPush
      <4>3. admitted' \in [Requests -> {None, "ok", "err"}] /\ sawDelta' \subseteq Requests
        BY <1>2 DEF GenTypeOK, RecvEvent
      <4> QED BY <1>2, <4>2, <4>3 DEF GenTypeOK, RecvEvent, Goto
    <3>3. CASE ~(forced[r] = None /\ frame # None)
      <4>1. out' = out
        BY <1>2, <3>3 DEF RecvEvent
      <4>2. admitted' \in [Requests -> {None, "ok", "err"}] /\ sawDelta' \subseteq Requests
        BY <1>2 DEF GenTypeOK, RecvEvent
      <4> QED BY <1>2, <4>1, <4>2 DEF GenTypeOK, RecvEvent, Goto
    <3> QED BY <3>2, <3>3
  <2> QED BY <2>1, <2>2
<1>3. CASE Backpressure(r)
  <2>1. SupTypeOK'
    <3>1. Tail(chan[r]) \in Seq(Event) /\ Len(Tail(chan[r])) <= ChanCap
      BY <1>3, ChanPop, LenProperties, SupervisorAssumption
      DEF SupTypeOK, ChansOK, Backpressure, CanRecv
    <3>2. cancelled' \in Requests \cup {None} /\ ChansOK(chan')
      BY <1>3, <3>1, CancelTypes DEF Backpressure
    <3> QED BY <1>3, <3>2 DEF SupTypeOK, ChansOK, Backpressure, runVars, childVars, resetVars
  <2>2. GenTypeOK'
    <3>1. /\ forced' \in [Requests -> ForcedCodes \cup {None}]
          /\ task' = [task EXCEPT ![r] = "top"]
      BY <1>3, ForceTypes DEF Backpressure, ForcedCodes
    <3>2. admitted' \in [Requests -> {None, "ok", "err"}] /\ sawDelta' \subseteq Requests
      BY <1>3 DEF GenTypeOK, Backpressure
    <3> QED BY <1>3, <3>1, <3>2 DEF GenTypeOK, Backpressure, clientVars
  <2> QED BY <2>1, <2>2
<1> QED BY <1>1, <1>2, <1>3

\* The steps from the commit to the end of the task.
LEMMA EndTypes ==
    ASSUME TypeOK, NEW r \in Requests,
           Finish(r) \/ FinishError(r) \/ ReleaseTask(r) \/ Reply(r) \/ ReplyLost(r) \/ Done(r)
    PROVE  TypeOK'
<1> USE DEF TypeOK
<1>1. CASE Finish(r)
  <2>1. SupTypeOK'
    BY <1>1 DEF SupTypeOK, Finish, supVars
  <2>2. GenTypeOK'
    <3>1. terminal[r].status \in Outcomes
      BY DEF GenTypeOK, Endings
    <3> QED BY <1>1, <3>1 DEF GenTypeOK, Finish, Goto, clientVars
  <2> QED BY <2>1, <2>2
<1>2. CASE FinishError(r)
  <2>1. SupTypeOK'
    BY <1>2 DEF SupTypeOK, FinishError, supVars
  <2>2. GenTypeOK'
    BY <1>2, EndingTypes DEF GenTypeOK, FinishError, Goto, clientVars, Outcomes
  <2> QED BY <2>1, <2>2
<1>3. CASE ReleaseTask(r)
  <2>1. SupTypeOK'
    <3>1. pending' \in Requests \cup {None} /\ busy' \in BOOLEAN /\ changed' \in BOOLEAN
      BY <1>3 DEF SupTypeOK, ReleaseTask, Release
    <3> QED BY <1>3, <3>1 DEF SupTypeOK, ReleaseTask, runVars, childVars, reqVars, resetVars
  <2>2. GenTypeOK'
    <3>1. FinalFrames(r) \in Seq(Frames)
      <4>1. /\ <<>> \in Seq(Frames) /\ <<"error">> \in Seq(Frames)
            /\ <<"finish">> \in Seq(Frames) /\ <<"text", "finish">> \in Seq(Frames)
        BY DEF Frames
      <4> QED BY <4>1 DEF FinalFrames
    <3>2. /\ admitted' \in [Requests -> {None, "ok", "err"}]
          /\ verdict' \in [Requests -> {None, "success", "error"}]
          /\ todo' \in [Requests -> Seq(Frames)]
      BY <1>3, <3>1 DEF GenTypeOK, ReleaseTask
    <3> QED BY <1>3, <3>2 DEF GenTypeOK, ReleaseTask, Goto
  <2> QED BY <2>1, <2>2
<1>4. CASE Reply(r)
  <2>1. SupTypeOK'
    BY <1>4 DEF SupTypeOK, Reply, supVars
  <2>2. GenTypeOK'
    <3>1. Head(todo[r]) \in Frames /\ Tail(todo[r]) \in Seq(Frames)
      BY <1>4, HeadTailProperties DEF GenTypeOK, Reply
    <3>2. /\ out' \in [Requests -> Seq(Frames)]
          /\ \A q \in Requests : Len(out'[q]) <= OutCap
      BY <1>4, <3>1, OutPush DEF Reply
    <3> QED BY <1>4, <3>1, <3>2 DEF GenTypeOK, Reply, taskVars
  <2> QED BY <2>1, <2>2
<1>5. CASE ReplyLost(r)
  <2>1. SupTypeOK'
    BY <1>5 DEF SupTypeOK, ReplyLost, supVars
  <2>2. GenTypeOK'
    BY <1>5 DEF GenTypeOK, ReplyLost, taskVars
  <2> QED BY <2>1, <2>2
<1>6. CASE Done(r)
  <2>1. SupTypeOK'
    <3>1. ChansOK(chan') /\ closed' \subseteq Requests
      BY <1>6, DropTypes DEF Done
    <3> QED BY <1>6, <3>1 DEF SupTypeOK, ChansOK, Done, workerVars, runVars, childVars, resetVars
  <2>2. GenTypeOK'
    <3>1. terminal[r].deltas \in Nat
      BY SupervisorAssumption DEF GenTypeOK, Endings
    <3>2. /\ verdict' \in [Requests -> {None, "success", "error"}]
          /\ got' \in [Requests -> Nat]
      BY <1>6, <3>1 DEF GenTypeOK, Done
    <3> QED BY <1>6, <3>2 DEF GenTypeOK, Done, Goto
  <2> QED BY <2>1, <2>2
<1> QED BY <1>1, <1>2, <1>3, <1>4, <1>5, <1>6

\* What clients, users and dropped tasks do.
LEMMA ClientTypes ==
    ASSUME TypeOK, NEW r \in Requests,
           ClientRead(r) \/ ClientLeave(r) \/ UserCancel(r) \/ Abandon(r)
    PROVE  TypeOK'
<1> USE DEF TypeOK
<1>1. CASE ClientRead(r)
  <2>1. SupTypeOK'
    BY <1>1 DEF SupTypeOK, ClientRead, supVars
  <2>2. GenTypeOK'
    <3>1. terminal[r].deltas \in Nat /\ got[r] \in Nat
      BY SupervisorAssumption DEF GenTypeOK, Endings
    <3>2. /\ verdict' \in [Requests -> {None, "success", "error"}]
          /\ got' \in [Requests -> Nat]
      BY <1>1, <3>1 DEF GenTypeOK, ClientRead
    <3>3. /\ out' \in [Requests -> Seq(Frames)]
          /\ \A q \in Requests : Len(out'[q]) <= OutCap
      BY <1>1, OutPop DEF ClientRead
    <3> QED BY <1>1, <3>2, <3>3 DEF GenTypeOK, ClientRead, taskVars
  <2> QED BY <2>1, <2>2
<1>2. CASE ClientLeave(r)
  <2>1. SupTypeOK'
    BY <1>2 DEF SupTypeOK, ClientLeave, supVars
  <2>2. GenTypeOK'
    BY <1>2 DEF GenTypeOK, ClientLeave, taskVars
  <2> QED BY <2>1, <2>2
<1>3. CASE UserCancel(r)
  <2>1. SupTypeOK'
    <3>1. chan[r] \in Seq(Event) /\ Len(chan[r]) <= ChanCap
      BY DEF SupTypeOK
    <3>2. cancelled' \in Requests \cup {None} /\ ChansOK(chan')
      BY <1>3, <3>1, CancelTypes DEF UserCancel
    <3> QED BY <1>3, <3>2 DEF SupTypeOK, ChansOK, UserCancel, runVars, childVars, resetVars
  <2>2. GenTypeOK'
    BY <1>3 DEF GenTypeOK, UserCancel, taskVars
  <2> QED BY <2>1, <2>2
<1>4. CASE Abandon(r)
  <2>1. SupTypeOK'
    <3>1. ChansOK(chan') /\ closed' \subseteq Requests
      BY <1>4, DropTypes DEF Abandon
    <3> QED BY <1>4, <3>1 DEF SupTypeOK, ChansOK, Abandon, workerVars, runVars, childVars, resetVars
  <2>2. GenTypeOK'
    BY <1>4 DEF GenTypeOK, Abandon, Goto, clientVars
  <2> QED BY <2>1, <2>2
<1> QED BY <1>1, <1>2, <1>3, <1>4

\* Every step keeps the types.
LEMMA TypesNext ==
    ASSUME TypeOK, [Next]_vars
    PROVE  TypeOK'
<1>1. CASE UNCHANGED vars
  <2>1. SupTypeOK'
    BY <1>1 DEF TypeOK, SupTypeOK, vars, supVars
  <2>2. GenTypeOK'
    BY <1>1 DEF TypeOK, GenTypeOK, vars, genVars
  <2> QED BY <2>1, <2>2 DEF TypeOK
<1>2. CASE SupNext /\ UNCHANGED genVars
  <2>1. SupTypeOK'
    BY <1>2, SupTypes DEF TypeOK
  <2>2. GenTypeOK'
    BY <1>2 DEF TypeOK, GenTypeOK, genVars
  <2> QED BY <2>1, <2>2 DEF TypeOK
<1>3. ASSUME NEW r \in Requests, TaskStep(r) PROVE TypeOK'
  BY <1>3, AdmissionTypes, LoopTypes, RecvTypes, EndTypes DEF TaskStep
<1>4. ASSUME NEW r \in Requests, ClientStep(r) PROVE TypeOK'
  BY <1>4, AdmissionTypes, ClientTypes DEF ClientStep
<1>5. ASSUME NEW r \in Requests, FaultStep(r) PROVE TypeOK'
  BY <1>5, AdmissionTypes, EndTypes DEF FaultStep
<1> QED BY <1>1, <1>2, <1>3, <1>4, <1>5 DEF Next

\* The types hold in every reachable state; with them the capacities: no step
\* of run(), of a user's cancel or of a generation task ever puts more into a
\* request's event channel or into a client's stream than it can hold.
THEOREM TypeCorrect == Spec => []TypeOK
<1> QED BY TypesInit, TypesNext, PTL DEF Spec


-----------------------------------------------------------------------------
\* The inductive invariant.

\* Where a handler or task stands between start() and release().
Owners == {"begin", "undo", "top", "select", "reset", "finish", "release"}

\* Where it stands before start() published the request.
Early == {"idle", "checked", "claimed"}

\* Where run() has no child.
Childless == {"top", "reaped", "announced", "notify", "backoff", "sleeping", "ended"}

\* No child works for r and none ever will again.
Over(r) == dispatch[r] \in {"reset", "done"} /\ r \notin inbox /\ child.job # r

\* busy and pending move together, but for the claimed request.
AdmissionInv ==
    /\ pending # None => busy
    /\ \A r \in Requests : task[r] = "claimed" =>
           /\ busy /\ pending = None
           /\ \A q \in Requests : task[q] = "claimed" => q = r
    /\ \A r \in Requests : task[r] \in Owners => pending = r
    /\ \A r \in Requests : pending = r => task[r] \in Owners \cup {"abandoned"}
    /\ \A r \in closed : task[r] \in {"done", "rejected", "abandoned"}

\* The dispatch task starts with the request, and resets come after it.
DispatchInv ==
    /\ \A r \in Requests : task[r] \in Early => dispatch[r] = "none"
    /\ \A r \in Requests : dispatch[r] = "none" => task[r] \in Early \cup {"rejected"}
    /\ \A c \in Callers : rst[c] # "idle" => dispatch[c[1]] # "none"
    /\ \A c \in woken : rst[c] # "idle"
    /\ \A r \in Requests : r \in inbox \/ child.job = r => dispatch[r] = "done"
    /\ \A r \in Requests : child.job = r => r \notin inbox

\* run() is the only owner of the child, and knows whose event it sends.
ChildInv ==
    /\ runpc \in Childless <=> child.st = "none"
    /\ child.st \in {"none", "dead"} => inbox = {} /\ child.job = None
    /\ child.st = "none" /\ runpc # "reaped" =>
           \A r \in Requests : dispatch[r] # "writing"
    /\ runpc = "notify" => held \in Requests /\ dispatch[held] # "none"
    /\ runpc = "send" => held \in Requests /\ line.id = held

\* What shows that the work for a request is over.
OverInv ==
    /\ \A r \in Requests : Engaged(r) => pending = r
    /\ \A c \in Callers : c \in woken \/ rst[c] = "returned" => Over(c[1])
    /\ \A r \in Requests : task[r] \in {"finish", "release"} => Over(r)

\* So does a terminal event on its way: in the pipe, read, in the channel.
PipeInv == \A i \in 1..Len(stdout) :
    /\ stdout[i].type \notin {"ready", "garbage"} => stdout[i].id \in Requests
    /\ stdout[i].type = "terminal" => Over(stdout[i].id)
LineInv ==
    /\ line.type \notin {"ready", "garbage"} => line.id \in Requests
    /\ line.type = "terminal" => Over(line.id)
ChanInv == \A r \in Requests : \A i \in 1..Len(chan[r]) :
    chan[r][i].type = "terminal" => Over(r)

IInv == /\ TypeOK /\ AdmissionInv /\ DispatchInv /\ ChildInv /\ OverInv
        /\ PipeInv /\ LineInv /\ ChanInv

\* A server that has just started: nobody is admitted and there is no child.
LEMMA InvInit == Init => IInv
<1> SUFFICES ASSUME Init PROVE IInv
  OBVIOUS
<1>1. TypeOK
  BY TypesInit
<1>2. AdmissionInv
  BY SupervisorAssumption DEF Init, SupInit, GenInit, AdmissionInv, Owners
<1>3. DispatchInv
  BY SupervisorAssumption DEF Init, SupInit, GenInit, DispatchInv, Early, NoChild, Callers
<1>4. ChildInv
  BY DEF Init, SupInit, ChildInv, Childless, NoChild
<1>5. OverInv
  BY SupervisorAssumption DEF Init, SupInit, GenInit, OverInv, Engaged, NoChild
<1>6. PipeInv /\ LineInv /\ ChanInv
  <2>1. Len(stdout) = 0 /\ \A r \in Requests : Len(chan[r]) = 0
    BY DEF Init, SupInit
  <2> QED BY <2>1 DEF Init, SupInit, PipeInv, LineInv, ChanInv, NoLine, Plain
<1> QED BY <1>1, <1>2, <1>3, <1>4, <1>5, <1>6 DEF IInv

-----------------------------------------------------------------------------
\* What leaves the parts of the invariant alone.

\* Each part only depends on these variables.
LEMMA Unmoved ==
    ASSUME IInv
    PROVE  /\ UNCHANGED <<busy, pending, task, closed>> => AdmissionInv'
           /\ UNCHANGED <<task, dispatch, rst, woken, inbox, child>> => DispatchInv'
           /\ UNCHANGED <<runpc, held, line, dispatch, inbox, child>> => ChildInv'
           /\ UNCHANGED <<pending, task, dispatch, rst, woken, inbox, child>> => OverInv'
           /\ UNCHANGED <<stdout, dispatch, inbox, child>> => PipeInv'
           /\ UNCHANGED <<line, dispatch, inbox, child>> => LineInv'
           /\ UNCHANGED <<chan, dispatch, inbox, child>> => ChanInv'
<1>1. UNCHANGED <<busy, pending, task, closed>> => AdmissionInv'
  BY DEF IInv, AdmissionInv
<1>2. UNCHANGED <<task, dispatch, rst, woken, inbox, child>> => DispatchInv'
  BY DEF IInv, DispatchInv
<1>3. UNCHANGED <<runpc, held, line, dispatch, inbox, child>> => ChildInv'
  BY DEF IInv, ChildInv
<1>4. UNCHANGED <<pending, task, dispatch, rst, woken, inbox, child>> => OverInv'
  BY DEF IInv, OverInv, Engaged, Over
<1>5. UNCHANGED <<stdout, dispatch, inbox, child>> => PipeInv'
  BY DEF IInv, PipeInv, Over
<1>6. UNCHANGED <<line, dispatch, inbox, child>> => LineInv'
  BY DEF IInv, LineInv, Over
<1>7. UNCHANGED <<chan, dispatch, inbox, child>> => ChanInv'
  BY DEF IInv, ChanInv, Over
<1> QED BY <1>1, <1>2, <1>3, <1>4, <1>5, <1>6, <1>7

\* A request's task goes on, as the owner of the admission.
LEMMA OwnerMoves ==
    ASSUME IInv, NEW r \in Requests, NEW pc \in Owners,
           task[r] \in Owners, task' = [task EXCEPT ![r] = pc],
           pc \in {"finish", "release"} => Over(r),
           UNCHANGED <<busy, pending, closed, dispatch, rst, woken, inbox, child>>
    PROVE  AdmissionInv' /\ DispatchInv' /\ OverInv'
<1>1. \A q \in Requests : task'[q] = IF q = r THEN pc ELSE task[q]
  BY DEF IInv, TypeOK, GenTypeOK
<1>2. AdmissionInv'
  BY <1>1 DEF IInv, AdmissionInv, Owners
<1>3. DispatchInv'
  BY <1>1 DEF IInv, DispatchInv, Owners, Early
<1>4. OverInv'
  BY <1>1 DEF IInv, OverInv, Engaged, Over, Owners
<1> QED BY <1>2, <1>3, <1>4

\* The child's work shrinks: it loses commands or its job, never gets a new one.
LEMMA LessWork ==
    ASSUME IInv, child'.job \in {child.job, None}, inbox' \subseteq inbox, dispatch' = dispatch
    PROVE  /\ \A r \in Requests : Over(r) => Over(r)'
           /\ UNCHANGED <<task, rst, woken>> => DispatchInv'
           /\ UNCHANGED <<pending, task, rst, woken>> => OverInv'
           /\ UNCHANGED stdout => PipeInv'
           /\ UNCHANGED line => LineInv'
           /\ UNCHANGED chan => ChanInv'
<1>1. \A r \in Requests : Over(r) => Over(r)'
  BY SupervisorAssumption DEF Over
<1>2. UNCHANGED <<task, rst, woken>> => DispatchInv'
  BY SupervisorAssumption DEF IInv, DispatchInv
<1>3. UNCHANGED <<pending, task, rst, woken>> => OverInv'
  <2> SUFFICES ASSUME UNCHANGED <<pending, task, rst, woken>> PROVE OverInv'
    OBVIOUS
  <2>1. \A r \in Requests : Engaged(r)' => pending' = r
    BY SupervisorAssumption DEF IInv, OverInv, Engaged
  <2>2. \A c \in Callers : c[1] \in Requests
    BY DEF Callers
  <2>3. \A c \in Callers : c \in woken' \/ rst'[c] = "returned" => Over(c[1])'
    BY <1>1, <2>2 DEF IInv, OverInv
  <2>4. \A r \in Requests : task'[r] \in {"finish", "release"} => Over(r)'
    BY <1>1 DEF IInv, OverInv
  <2> QED BY <2>1, <2>3, <2>4 DEF OverInv
<1>4. UNCHANGED stdout => PipeInv'
  <2>1. \A i \in 1..Len(stdout) : stdout[i].type = "terminal" => stdout[i].id \in Requests
    BY DEF IInv, PipeInv
  <2> QED BY <1>1, <2>1 DEF IInv, PipeInv
<1>5. UNCHANGED line => LineInv'
  BY <1>1 DEF IInv, LineInv
<1>6. UNCHANGED chan => ChanInv'
  BY <1>1 DEF IInv, ChanInv
<1> QED BY <1>1, <1>2, <1>3, <1>4, <1>5, <1>6

\* A request's admission is given back, once its work is over.
LEMMA GivenBack ==
    ASSUME IInv, NEW r \in Requests, Release(r), Over(r),
           task'[r] \notin Owners \cup {"abandoned", "claimed"} \/ (r \in closed /\ UNCHANGED task),
           \A q \in Requests \ {r} : task'[q] = task[q],
           closed \subseteq closed', closed' \subseteq closed \cup {r},
           r \in closed' => task'[r] \in {"done", "rejected", "abandoned"}
    PROVE  AdmissionInv' /\ \A q \in Requests : Engaged(q) => pending' = q
<1>1. r \in closed => task[r] \in {"done", "rejected", "abandoned"}
  BY DEF IInv, AdmissionInv
<1>2. ~Engaged(r)
  BY DEF Over, Engaged
<1>3. task'[r] \notin Owners \cup {"claimed"}
  BY <1>1 DEF Owners
<1>4. closed' \subseteq Requests
  BY DEF IInv, TypeOK, SupTypeOK
<1>5. \A q \in closed' : task'[q] \in {"done", "rejected", "abandoned"}
  BY <1>4 DEF IInv, AdmissionInv
<1>6. \A q \in Requests : Engaged(q) => pending' = q
  BY <1>2 DEF IInv, OverInv, Release
<1>7. CASE pending = r
  <2>1. pending' = None /\ None \notin Requests
    BY <1>7, SupervisorAssumption DEF Release
  <2>2. \A q \in Requests : task'[q] \notin Owners \cup {"claimed"}
    BY <1>3, <1>7, <2>1 DEF IInv, AdmissionInv
  <2> QED BY <1>5, <1>6, <2>1, <2>2 DEF AdmissionInv
<1>8. CASE pending # r
  <2>1. UNCHANGED <<pending, busy>>
    BY <1>8 DEF Release
  <2> QED BY <1>3, <1>5, <1>6, <1>8, <2>1 DEF IInv, AdmissionInv
<1> QED BY <1>7, <1>8

\* The epoch moves only while no child can work for anybody.
LEMMA Bumped ==
    ASSUME IInv, BumpReaped, child.st = "none", \A r \in Requests : dispatch[r] # "writing",
           UNCHANGED <<pending, task, rst, dispatch, inbox, child>>
    PROVE  DispatchInv' /\ OverInv'
<1>1. \A c \in Callers : c[1] \in Requests
  BY DEF Callers
<1>2. \A r \in Requests : dispatch[r] # "none" => Over(r)
  BY SupervisorAssumption DEF IInv, TypeOK, SupTypeOK, ChildInv, Over
<1>3. \A c \in woken' : c \in woken \/ rst[c] \in {"armed", "waiting"}
  BY DEF BumpReaped
<1>4. woken' \subseteq Callers
  BY DEF BumpReaped, IInv, TypeOK, SupTypeOK
<1>5. DispatchInv'
  BY <1>3 DEF IInv, DispatchInv
<1>6. \A c \in Callers : c \in woken' \/ rst'[c] = "returned" => Over(c[1])
  BY <1>1, <1>2, <1>3 DEF IInv, DispatchInv, OverInv
<1>7. OverInv'
  BY <1>6 DEF IInv, OverInv, Engaged, Over
<1> QED BY <1>5, <1>7

\* Every step of the run() task keeps the invariant.
LEMMA RunInv ==
    ASSUME IInv, RunStep, UNCHANGED genVars, TypeOK'
    PROVE  IInv'
<1> USE DEF genVars
<1>1. CASE RunStop
  <2>1. ChildInv'
    BY <1>1 DEF IInv, ChildInv, RunStop, childVars, reqVars, Childless
  <2> QED BY <1>1, <2>1, Unmoved DEF IInv, RunStop, childVars, reqVars, resetVars
<1>2. CASE RunSpawn
  <2>1. child' = NewChild /\ UNCHANGED <<inbox, stdout, dispatch, chan, closed, rst, woken, line, pending, busy>>
    BY <1>2 DEF RunSpawn, reqVars, resetVars
  <2>2. ChildInv'
    BY <1>2 DEF IInv, ChildInv, RunSpawn, NewChild, reqVars, Childless
  <2>3. DispatchInv' /\ OverInv' /\ PipeInv' /\ LineInv' /\ ChanInv'
    BY <2>1, LessWork DEF NewChild
  <2> QED BY <2>1, <2>2, <2>3, Unmoved DEF IInv
<1>3. CASE RunSpawnError
  <2>1. ChildInv'
    BY <1>3 DEF IInv, ChildInv, RunSpawnError, childVars, reqVars, Childless
  <2> QED BY <1>3, <2>1, Unmoved DEF IInv, RunSpawnError, childVars, reqVars, resetVars
<1>4. CASE RunLoop
  <2>1. ChildInv'
    BY <1>4 DEF IInv, ChildInv, RunLoop, childVars, reqVars, Childless
  <2> QED BY <1>4, <2>1, Unmoved DEF IInv, RunLoop, workerVars, childVars, reqVars, resetVars
<1>5. CASE RunPermit
  <2>1. ChildInv'
    BY <1>5 DEF IInv, ChildInv, RunPermit, childVars, reqVars, Childless
  <2> QED BY <1>5, <2>1, Unmoved DEF IInv, RunPermit, childVars, reqVars, resetVars
<1>6. CASE RunDisconnected
  <2>1. ChildInv'
    BY <1>6 DEF IInv, ChildInv, RunDisconnected, childVars, reqVars, Childless
  <2> QED BY <1>6, <2>1, Unmoved DEF IInv, RunDisconnected, workerVars, childVars, reqVars, resetVars
<1>7. CASE RunRead
  <2>1. ChildInv'
    BY <1>7 DEF IInv, ChildInv, RunRead, reqVars, Childless
  <2>2. PipeInv' /\ LineInv'
    <3>1. CASE UNCHANGED <<line, stdout>>
      BY <1>7, <3>1, Unmoved DEF RunRead, reqVars
    <3>2. CASE stdout # <<>> /\ line' = Head(stdout) /\ stdout' = Tail(stdout)
      <4>1. /\ Len(stdout') = Len(stdout) - 1 /\ Len(stdout) \in Nat \ {0}
            /\ \A i \in 1..Len(stdout') : stdout'[i] = stdout[i + 1]
            /\ line' = stdout[1]
        BY <3>2, HeadTailProperties, EmptySeq DEF IInv, TypeOK, SupTypeOK
      <4>2. 1 \in 1..Len(stdout) /\ \A i \in 1..Len(stdout') : i + 1 \in 1..Len(stdout)
        BY <4>1
      <4>3. UNCHANGED <<dispatch, inbox, child>>
        BY <1>7 DEF RunRead, reqVars
      <4> QED BY <4>1, <4>2, <4>3 DEF IInv, PipeInv, LineInv, Over
    <3> QED BY <1>7, <3>1, <3>2 DEF RunRead
  <2> QED BY <1>7, <2>1, <2>2, Unmoved DEF IInv, RunRead, workerVars, reqVars, resetVars
<1>8. CASE RunLine
  <2>1. ChildInv'
    BY <1>8 DEF IInv, ChildInv, LineInv, RunLine, childVars, reqVars, Childless
  <2>2. LineInv'
    BY <1>8, Unmoved DEF IInv, LineInv, RunLine, childVars, reqVars, NoLine, Plain
  <2> QED BY <1>8, <2>1, <2>2, Unmoved DEF IInv, RunLine, childVars, reqVars, resetVars
<1>9. CASE RunSend
  <2>1. ChildInv'
    BY <1>9 DEF IInv, ChildInv, RunSend, childVars, Childless
  <2>2. LineInv'
    BY <1>9 DEF LineInv, RunSend, NoLine, Plain
  <2>3. ChanInv'
    <3>1. held \in Requests /\ line.id = held /\ line \in Event
      BY <1>9 DEF IInv, ChildInv, RunSend, TypeOK, SupTypeOK
    <3>2. line.type = "terminal" => Over(held)
      BY <3>1 DEF IInv, LineInv
    <3>3. chan' = [chan EXCEPT ![held] = Append(@, line)] /\ chan \in [Requests -> Seq(Event)]
      BY <1>9 DEF IInv, TypeOK, SupTypeOK, RunSend
    <3>4. UNCHANGED <<dispatch, inbox, child>>
      BY <1>9 DEF RunSend, childVars
    <3> QED BY <3>1, <3>2, <3>3, <3>4, AppendProperties DEF IInv, ChanInv, Over
  <2> QED BY <1>9, <2>1, <2>2, <2>3, Unmoved DEF IInv, RunSend, workerVars, childVars, resetVars
<1>10. CASE RunSendFail
  <2>1. ChildInv'
    BY <1>10 DEF IInv, ChildInv, RunSendFail, childVars, reqVars, Childless
  <2>2. LineInv'
    BY <1>10 DEF LineInv, RunSendFail, NoLine, Plain
  <2> QED BY <1>10, <2>1, <2>2, Unmoved DEF IInv, RunSendFail, childVars, reqVars, resetVars
<1>11. CASE RunReap
  <2>1. child' = NoChild /\ inbox' = {} /\ stdout' = <<>>
        /\ UNCHANGED <<dispatch, chan, closed, rst, woken, line, held, pending, busy>>
    BY <1>11 DEF RunReap, reqVars, resetVars
  <2>2. ChildInv'
    BY <1>11, <2>1 DEF IInv, ChildInv, RunReap, NoChild, Childless
  <2>3. DispatchInv' /\ OverInv' /\ LineInv' /\ ChanInv'
    BY <2>1, LessWork DEF NoChild
  <2>4. PipeInv'
    <3>1. Len(stdout') = 0
      BY <2>1
    <3> QED BY <3>1 DEF PipeInv
  <2> QED BY <2>1, <2>2, <2>3, <2>4, Unmoved DEF IInv
<1>12. CASE RunAnnounce
  <2>1. /\ runpc = "reaped" /\ \A r \in Requests : dispatch[r] # "writing"
        /\ BumpReaped /\ runpc' = "announced"
        /\ UNCHANGED <<busy, pending, held, line, child, inbox, stdout, dispatch,
                       chan, closed, rst>>
    BY <1>12 DEF RunAnnounce, childVars, reqVars
  <2>2. child.st = "none"
    BY <2>1 DEF IInv, ChildInv, Childless
  <2>3. ChildInv'
    BY <2>1 DEF IInv, ChildInv, Childless
  <2>4. DispatchInv' /\ OverInv'
    BY <2>1, <2>2, Bumped
  <2> QED BY <2>1, <2>3, <2>4, Unmoved DEF IInv
<1>13. CASE RunLost
  <2>1. pending \in Requests => dispatch[pending] # "none"
    BY DEF IInv, AdmissionInv, DispatchInv, Owners, Early
  <2>2. ChildInv'
    BY <1>13, <2>1 DEF IInv, TypeOK, SupTypeOK, ChildInv, RunLost, workerVars, childVars, reqVars, Childless
  <2> QED BY <1>13, <2>2, Unmoved DEF IInv, RunLost, workerVars, childVars, reqVars, resetVars
<1>14. CASE RunNotify
  <2>1. /\ held \in Requests /\ child.st = "none" /\ Over(held)
    BY <1>14, SupervisorAssumption
    DEF IInv, TypeOK, SupTypeOK, ChildInv, RunNotify, Childless, Over
  <2>2. UNCHANGED <<line, child, inbox, stdout, dispatch, closed, rst, woken>>
    BY <1>14 DEF RunNotify, childVars, resetVars
  <2>3. ChildInv'
    BY <1>14, <2>2 DEF IInv, ChildInv, RunNotify, Childless
  <2>4. CASE held \in closed
    <3>1. Release(held) /\ UNCHANGED chan
      BY <1>14, <2>4 DEF RunNotify
    <3>2. task[held] \in {"done", "rejected", "abandoned"}
      BY <2>4 DEF IInv, AdmissionInv
    <3>3. AdmissionInv' /\ \A q \in Requests : Engaged(q) => pending' = q
      BY <2>1, <2>2, <2>4, <3>1, <3>2, GivenBack
    <3>4. OverInv'
      BY <2>2, <3>3 DEF IInv, OverInv, Engaged, Over
    <3> QED BY <2>2, <2>3, <3>1, <3>3, <3>4, Unmoved DEF IInv
  <2>5. CASE held \notin closed
    <3>1. UNCHANGED <<pending, busy>>
      BY <1>14, <2>5 DEF RunNotify
    <3>2. ChanInv'
      <4>1. CASE UNCHANGED chan
        BY <2>2, <4>1, Unmoved
      <4>2. CASE chan' = [chan EXCEPT ![held] = Append(@, Terminal(held, "failed", 0))]
        <5>1. Terminal(held, "failed", 0) \in Event /\ chan \in [Requests -> Seq(Event)]
          BY <2>1, EventKinds, SupervisorAssumption DEF IInv, TypeOK, SupTypeOK, Outcomes
        <5> QED BY <2>1, <2>2, <4>2, <5>1, AppendProperties DEF IInv, ChanInv, Over
      <4> QED BY <1>14, <2>5, <4>1, <4>2 DEF RunNotify
    <3> QED BY <2>2, <2>3, <3>1, <3>2, Unmoved DEF IInv
  <2> QED BY <2>4, <2>5
<1>15. CASE RunPause
  <2>1. ChildInv'
    BY <1>15 DEF IInv, ChildInv, RunPause, childVars, reqVars, Childless
  <2> QED BY <1>15, <2>1, Unmoved DEF IInv, RunPause, workerVars, childVars, reqVars, resetVars
<1>16. CASE RunPauseReset
  <2>1. /\ runpc \in {"backoff", "sleeping"} /\ BumpReaped /\ runpc' = "top"
        /\ UNCHANGED <<busy, pending, held, line, child, inbox, stdout, dispatch,
                       chan, closed, rst>>
    BY <1>16 DEF RunPauseReset, childVars, reqVars
  <2>2. child.st = "none" /\ \A r \in Requests : dispatch[r] # "writing"
    BY <2>1 DEF IInv, ChildInv, Childless
  <2>3. ChildInv'
    BY <2>1, <2>2 DEF IInv, ChildInv, Childless
  <2>4. DispatchInv' /\ OverInv'
    BY <2>1, <2>2, Bumped
  <2> QED BY <2>1, <2>3, <2>4, Unmoved DEF IInv
<1>17. CASE RunWake
  <2>1. ChildInv'
    BY <1>17 DEF IInv, ChildInv, RunWake, childVars, reqVars, Childless
  <2> QED BY <1>17, <2>1, Unmoved DEF IInv, RunWake, workerVars, childVars, reqVars, resetVars
<1> QED
  BY <1>1, <1>2, <1>3, <1>4, <1>5, <1>6, <1>7, <1>8, <1>9, <1>10, <1>11,
     <1>12, <1>13, <1>14, <1>15, <1>16, <1>17 DEF RunStep

\* A line the child writes joins the pipe.
LEMMA PipeWritten ==
    ASSUME IInv, NEW e \in Event, stdout' = Append(stdout, e),
           \A r \in Requests : Over(r) => Over(r)',
           e.type \notin {"ready", "garbage"} => e.id \in Requests,
           e.type = "terminal" => Over(e.id)'
    PROVE  PipeInv'
<1>1. /\ Len(stdout') = Len(stdout) + 1 /\ Len(stdout) \in Nat
      /\ \A i \in 1..Len(stdout) : stdout'[i] = stdout[i]
      /\ stdout'[Len(stdout) + 1] = e
  BY AppendProperties, LenProperties DEF IInv, TypeOK, SupTypeOK
<1>2. \A i \in 1..Len(stdout') : i \in 1..Len(stdout) \/ i = Len(stdout) + 1
  BY <1>1
<1>3. ASSUME NEW i \in 1..Len(stdout')
      PROVE  (/\ stdout[i].type \notin {"ready", "garbage"} => stdout[i].id \in Requests
              /\ stdout[i].type = "terminal" => Over(stdout[i].id))'
  <2>1. CASE i \in 1..Len(stdout)
    <3>1. stdout'[i] = stdout[i]
      BY <1>1, <2>1
    <3>2. /\ stdout[i].type \notin {"ready", "garbage"} => stdout[i].id \in Requests
          /\ stdout[i].type = "terminal" => Over(stdout[i].id)'
      BY <2>1 DEF IInv, PipeInv
    <3> QED BY <3>1, <3>2 DEF Over
  <2>2. CASE i = Len(stdout) + 1
    <3>1. stdout'[i] = e
      BY <1>1, <2>2
    <3> QED BY <3>1 DEF Over
  <2> QED BY <1>2, <2>1, <2>2
<1> QED BY <1>3 DEF PipeInv

\* Every step of the child keeps the invariant, dying included.
LEMMA ChildStepInv ==
    ASSUME IInv, ChildStep, UNCHANGED genVars, TypeOK'
    PROVE  IInv'
<1> USE DEF genVars
<1>e. \A t \in EventTypes \ {"terminal"}, r \in Requests \cup {None} :
          Plain(t, r) \in Event /\ Plain(t, r).type = t /\ Plain(t, r).id = r
  BY EventKinds DEF Plain
<1>t. child \in Process /\ (child.job # None => child.job \in Requests)
  BY ProcessSteps DEF IInv, TypeOK, SupTypeOK
<1>1. CASE ChildReady
  <2>1. /\ child.st = "loading" /\ child' = [child EXCEPT !.st = "up"]
        /\ stdout' = Append(stdout, Plain("ready", None))
        /\ UNCHANGED <<busy, pending, runpc, held, line, inbox, dispatch, chan, closed, rst, woken>>
    BY <1>1 DEF ChildReady, workerVars, runVars, reqVars, resetVars
  <2>2. child'.job = child.job /\ child'.st = "up"
    BY <1>t, <2>1 DEF Process
  <2>3. ChildInv'
    BY <2>1, <2>2 DEF IInv, ChildInv
  <2>4. DispatchInv' /\ OverInv' /\ LineInv' /\ ChanInv' /\ \A r \in Requests : Over(r) => Over(r)'
    BY <2>1, <2>2, LessWork
  <2>5. PipeInv'
    BY <1>e, <2>1, <2>4, PipeWritten DEF EventTypes
  <2> QED BY <2>1, <2>3, <2>4, <2>5, Unmoved DEF IInv
<1>2. CASE ChildStarted
  <2>1. /\ child.st = "up" /\ child.job # None /\ child' = [child EXCEPT !.told = TRUE]
        /\ stdout' = Append(stdout, Plain("started", child.job))
        /\ UNCHANGED <<busy, pending, runpc, held, line, inbox, dispatch, chan, closed, rst, woken>>
    BY <1>2 DEF ChildStarted, workerVars, runVars, reqVars, resetVars
  <2>2. child'.job = child.job /\ child'.st = "up"
    BY <1>t, <2>1 DEF Process
  <2>3. ChildInv'
    BY <2>1, <2>2 DEF IInv, ChildInv
  <2>4. DispatchInv' /\ OverInv' /\ LineInv' /\ ChanInv' /\ \A r \in Requests : Over(r) => Over(r)'
    BY <2>1, <2>2, LessWork
  <2>5. PipeInv'
    BY <1>e, <1>t, <2>1, <2>4, PipeWritten DEF EventTypes
  <2> QED BY <2>1, <2>3, <2>4, <2>5, Unmoved DEF IInv
<1>3. CASE ChildDelta
  <2>1. /\ child.st = "up" /\ child.job # None /\ child' = [child EXCEPT !.sent = @ + 1]
        /\ stdout' = Append(stdout, Plain("delta", child.job))
        /\ UNCHANGED <<busy, pending, runpc, held, line, inbox, dispatch, chan, closed, rst, woken>>
    BY <1>3 DEF ChildDelta, workerVars, runVars, reqVars, resetVars
  <2>2. child'.job = child.job /\ child'.st = "up"
    BY <1>t, <2>1 DEF Process
  <2>3. ChildInv'
    BY <2>1, <2>2 DEF IInv, ChildInv
  <2>4. DispatchInv' /\ OverInv' /\ LineInv' /\ ChanInv' /\ \A r \in Requests : Over(r) => Over(r)'
    BY <2>1, <2>2, LessWork
  <2>5. PipeInv'
    BY <1>e, <1>t, <2>1, <2>4, PipeWritten DEF EventTypes
  <2> QED BY <2>1, <2>3, <2>4, <2>5, Unmoved DEF IInv
<1>4. CASE ChildDie
  <2>1. /\ Alive /\ child' = Exited /\ inbox' = {}
        /\ UNCHANGED <<busy, pending, runpc, held, line, stdout, dispatch, chan, closed, rst, woken>>
    BY <1>4 DEF ChildDie, workerVars, runVars, reqVars, resetVars
  <2>2. ChildInv'
    BY <2>1 DEF IInv, ChildInv, Alive, Exited
  <2>3. DispatchInv' /\ OverInv' /\ PipeInv' /\ LineInv' /\ ChanInv'
    BY <2>1, LessWork DEF Exited
  <2> QED BY <2>1, <2>2, <2>3, Unmoved DEF IInv
<1>5. CASE ChildGarble
  <2>1. /\ stdout' = Append(stdout, NoLine)
        /\ UNCHANGED <<busy, pending, runpc, held, line, child, inbox, dispatch, chan, closed, rst, woken>>
    BY <1>5 DEF ChildGarble, workerVars, runVars, reqVars, resetVars
  <2>2. PipeInv'
    BY <1>e, <2>1, LessWork, PipeWritten DEF EventTypes, NoLine
  <2> QED BY <2>1, <2>2, Unmoved DEF IInv
<1>6. ASSUME NEW r \in Requests, ChildTake(r) PROVE IInv'
  <2>1. /\ child.st = "up" /\ child.job = None /\ r \in inbox /\ inbox' = inbox \ {r}
        /\ child'.st = "up" /\ child'.job = r
        /\ UNCHANGED <<busy, pending, runpc, held, line, stdout, dispatch, chan, closed, rst, woken>>
    BY <1>6 DEF ChildTake, Running, workerVars, runVars, reqVars, resetVars
  <2>2. \A q \in Requests : Over(q) => Over(q)'
    BY <2>1 DEF Over
  <2>3. ChildInv'
    BY <2>1 DEF IInv, ChildInv
  <2>4. DispatchInv'
    BY <2>1, SupervisorAssumption DEF IInv, DispatchInv
  <2>5. OverInv'
    <3>1. \A q \in Requests : Engaged(q)' => Engaged(q)
      BY <2>1 DEF Engaged
    <3>2. \A c \in Callers : c[1] \in Requests
      BY DEF Callers
    <3> QED BY <2>1, <2>2, <3>1, <3>2 DEF IInv, OverInv
  <2>6. PipeInv' /\ LineInv' /\ ChanInv'
    <3>1. PipeInv'
      BY <2>1, <2>2 DEF IInv, PipeInv
    <3> QED BY <2>1, <2>2, <3>1 DEF IInv, LineInv, ChanInv
  <2> QED BY <2>1, <2>3, <2>4, <2>5, <2>6, Unmoved DEF IInv
<1>7. ASSUME NEW s \in Answers, ChildTerminal(s) PROVE IInv'
  <2> DEFINE e == Terminal(child.job, s, child.sent)
  <2>1. /\ child.st = "up" /\ child.job # None /\ stdout' = Append(stdout, e)
        /\ child'.st = "up" /\ child'.job = None
        /\ UNCHANGED <<busy, pending, runpc, held, line, inbox, dispatch, chan, closed, rst, woken>>
    BY <1>7 DEF ChildTerminal, Running, workerVars, runVars, reqVars, resetVars
  <2>2. e \in Event /\ e.type = "terminal" /\ e.id = child.job
    BY <1>t, ProcessSteps, EventKinds, SupervisorAssumption DEF Terminal
  <2>3. ChildInv'
    BY <2>1 DEF IInv, ChildInv
  <2>4. DispatchInv' /\ OverInv' /\ LineInv' /\ ChanInv' /\ \A r \in Requests : Over(r) => Over(r)'
    BY <2>1, LessWork
  <2>5. PICK job \in Requests : job = child.job
    BY <1>t, <2>1
  <2>6. Over(job)'
    BY <2>1, <2>5, SupervisorAssumption DEF IInv, DispatchInv, Over
  <2>7. PipeInv'
    BY <2>1, <2>2, <2>4, <2>5, <2>6, PipeWritten
  <2> QED BY <2>1, <2>3, <2>4, <2>7, Unmoved DEF IInv
<1> QED
  BY <1>1, <1>2, <1>3, <1>4, <1>5, <1>6, <1>7 DEF ChildStep

-----------------------------------------------------------------------------
\* Dispatch tasks, resets, shutdown.

\* Every step of a dispatch task keeps the invariant.
LEMMA DispatchStepInv ==
    ASSUME IInv, NEW r \in Requests, DispatchStep(r), UNCHANGED genVars, TypeOK'
    PROVE  IInv'
<1> USE DEF genVars
<1>d. dispatch \in [Requests -> {"none", "writing", "reset", "done"}]
  BY DEF IInv, TypeOK, SupTypeOK
<1>c. \A c \in Callers : c[1] \in Requests
  BY DEF Callers
<1>1. CASE DispatchWrite(r)
  <2>1. /\ dispatch[r] = "writing" /\ Alive /\ inbox' = inbox \cup {r}
        /\ dispatch' = [dispatch EXCEPT ![r] = "done"]
        /\ UNCHANGED <<busy, pending, runpc, held, line, child, stdout, chan, closed, rst, woken>>
    BY <1>1 DEF DispatchWrite, workerVars, runVars, resetVars
  <2>2. \A q \in Requests : Over(q) => Over(q)'
    BY <1>d, <2>1 DEF Over
  <2>3. ChildInv'
    BY <1>d, <2>1 DEF IInv, ChildInv, Alive
  <2>4. DispatchInv'
    <3>1. child.job # r /\ \A q \in Requests \ {r} : q \in inbox' => q \in inbox
      BY <1>d, <2>1 DEF IInv, DispatchInv
    <3> QED BY <1>c, <1>d, <2>1, <3>1 DEF IInv, DispatchInv
  <2>5. OverInv'
    <3>1. \A q \in Requests : Engaged(q)' => Engaged(q)
      BY <1>d, <2>1 DEF Engaged
    <3> QED BY <1>c, <2>1, <2>2, <3>1 DEF IInv, OverInv
  <2>6. PipeInv' /\ LineInv' /\ ChanInv'
    <3>1. PipeInv'
      BY <2>1, <2>2 DEF IInv, PipeInv
    <3> QED BY <2>1, <2>2, <3>1 DEF IInv, LineInv, ChanInv
  <2> QED BY <2>1, <2>3, <2>4, <2>5, <2>6, Unmoved DEF IInv
<1>2. CASE DispatchFail(r)
  <2> DEFINE c == <<r, "dispatch">>
  <2>1. /\ dispatch[r] = "writing" /\ dispatch' = [dispatch EXCEPT ![r] = "reset"]
        /\ CallReset(c)
        /\ UNCHANGED <<busy, pending, runpc, held, line, child, inbox, stdout, chan, closed, woken>>
    BY <1>2 DEF DispatchFail, workerVars, runVars, childVars
  <2>2. \A q \in Requests : Over(q) => Over(q)'
    BY <1>d, <2>1 DEF Over
  <2>3. c \in Callers /\ c[1] = r /\ pending = r
    BY <2>1 DEF Callers, IInv, OverInv, Engaged
  <2>4. /\ DOMAIN rst' = Callers /\ \A d \in Callers : d # c => rst'[d] = rst[d]
        /\ rst'[c] = "armed"
    BY <2>1, <2>3 DEF IInv, TypeOK, SupTypeOK, CallReset
  <2>5. ChildInv'
    BY <1>d, <2>1 DEF IInv, ChildInv
  <2>6. DispatchInv'
    <3>1. r \notin inbox /\ child.job # r
      BY <1>d, <2>1 DEF IInv, DispatchInv
    <3>2. \A d \in Callers : rst'[d] # "idle" => dispatch'[d[1]] # "none"
      BY <1>c, <1>d, <2>1, <2>3, <2>4 DEF IInv, DispatchInv
    <3>3. \A d \in woken' : rst'[d] # "idle"
      BY <2>1, <2>3, <2>4 DEF IInv, DispatchInv, TypeOK, SupTypeOK
    <3> QED BY <1>d, <2>1, <3>1, <3>2, <3>3 DEF IInv, DispatchInv
  <2>7. OverInv'
    <3>1. \A q \in Requests : Engaged(q)' => Engaged(q)
      BY <1>d, <2>1 DEF Engaged
    <3>2. \A d \in Callers : d \in woken' \/ rst'[d] = "returned" => Over(d[1])'
      BY <1>c, <2>1, <2>2, <2>3, <2>4 DEF IInv, OverInv
    <3> QED BY <2>1, <2>2, <3>1, <3>2 DEF IInv, OverInv
  <2>8. PipeInv' /\ LineInv' /\ ChanInv'
    <3>1. PipeInv'
      BY <2>1, <2>2 DEF IInv, PipeInv
    <3> QED BY <2>1, <2>2, <3>1 DEF IInv, LineInv, ChanInv
  <2> QED BY <2>1, <2>5, <2>6, <2>7, <2>8, Unmoved DEF IInv
<1>3. CASE DispatchEnd(r)
  <2>1. /\ dispatch[r] = "reset" /\ rst[<<r, "dispatch">>] = "returned"
        /\ dispatch' = [dispatch EXCEPT ![r] = "done"]
        /\ IF r \in closed THEN Release(r) ELSE UNCHANGED <<pending, busy>>
        /\ UNCHANGED <<runpc, held, line, child, inbox, stdout, chan, closed, rst, woken>>
    BY <1>3 DEF DispatchEnd, runVars, childVars, resetVars
  <2>2. \A q \in Requests : Over(q) => Over(q)'
    BY <1>d, <2>1 DEF Over
  <2>3. Over(r)
    <3>1. <<r, "dispatch">> \in Callers /\ <<r, "dispatch">>[1] = r
      BY DEF Callers
    <3> QED BY <2>1, <3>1 DEF IInv, OverInv
  <2>4. AdmissionInv' /\ \A q \in Requests : Engaged(q) => pending' = q
    <3>1. CASE r \in closed
      <4>1. task[r] \in {"done", "rejected", "abandoned"}
        BY <3>1 DEF IInv, AdmissionInv
      <4> QED BY <2>1, <2>3, <3>1, <4>1, GivenBack
    <3>2. CASE r \notin closed
      BY <2>1, <3>2, Unmoved DEF IInv, OverInv
    <3> QED BY <3>1, <3>2
  <2>5. ChildInv'
    BY <1>d, <2>1 DEF IInv, ChildInv
  <2>6. DispatchInv'
    BY <1>c, <1>d, <2>1 DEF IInv, DispatchInv
  <2>7. OverInv'
    <3>1. \A q \in Requests : Engaged(q)' => Engaged(q)
      BY <1>d, <2>1 DEF Engaged
    <3> QED BY <1>c, <2>1, <2>2, <2>4, <3>1 DEF IInv, OverInv
  <2>8. PipeInv' /\ LineInv' /\ ChanInv'
    <3>1. PipeInv'
      BY <2>1, <2>2 DEF IInv, PipeInv
    <3> QED BY <2>1, <2>2, <3>1 DEF IInv, LineInv, ChanInv
  <2> QED BY <2>4, <2>5, <2>6, <2>7, <2>8 DEF IInv
<1> QED BY <1>1, <1>2, <1>3 DEF DispatchStep

\* The two waits inside reset() keep the invariant.
LEMMA ResetStepInv ==
    ASSUME IInv, NEW c \in Callers, ResetStep(c), UNCHANGED genVars, TypeOK'
    PROVE  IInv'
<1> USE DEF genVars
<1>t. DOMAIN rst = Callers /\ woken \subseteq Callers
  BY DEF IInv, TypeOK, SupTypeOK
<1>1. CASE ResetArm(c)
  <2>1. /\ rst[c] = "armed" /\ rst' = [rst EXCEPT ![c] = "waiting"]
        /\ UNCHANGED <<busy, pending, runVars, childVars, reqVars, woken>>
    BY <1>1 DEF ResetArm
  <2>2. DispatchInv'
    BY <1>t, <2>1 DEF IInv, DispatchInv, childVars, reqVars
  <2>3. OverInv'
    BY <1>t, <2>1 DEF IInv, OverInv, Engaged, Over, childVars, reqVars
  <2> QED BY <2>1, <2>2, <2>3, Unmoved DEF IInv, runVars, childVars, reqVars
<1>2. CASE ResetReturn(c)
  <2>1. /\ rst[c] = "waiting" /\ c \in woken /\ rst' = [rst EXCEPT ![c] = "returned"]
        /\ woken' = woken \ {c}
        /\ UNCHANGED <<busy, pending, runVars, childVars, reqVars>>
    BY <1>2 DEF ResetReturn, workerVars
  <2>2. DispatchInv'
    BY <1>t, <2>1 DEF IInv, DispatchInv, childVars, reqVars
  <2>3. OverInv'
    BY <1>t, <2>1 DEF IInv, OverInv, Engaged, Over, childVars, reqVars
  <2> QED BY <2>1, <2>2, <2>3, Unmoved DEF IInv, runVars, childVars, reqVars
<1> QED BY <1>1, <1>2 DEF ResetStep

\* A shutdown only raises flags.
LEMMA ShutdownInv ==
    ASSUME IInv, Shutdown, UNCHANGED genVars, TypeOK'
    PROVE  IInv'
BY Unmoved DEF IInv, Shutdown, genVars, runVars, childVars, reqVars, resetVars

-----------------------------------------------------------------------------
\* Handlers and generation tasks.

\* The task of the pending request asks for a reap.
LEMMA TaskResets ==
    ASSUME IInv, NEW r \in Requests, TypeOK', NEW pc \in {"undo", "reset"},
           task[r] \in Owners, task' = [task EXCEPT ![r] = pc], CallReset(<<r, "task">>),
           UNCHANGED <<busy, pending, runVars, childVars, reqVars, woken>>
    PROVE  IInv'
<1> DEFINE c == <<r, "task">>
<1>t. DOMAIN task = Requests /\ DOMAIN rst = Callers /\ woken \subseteq Callers
  BY DEF IInv, TypeOK, SupTypeOK, GenTypeOK
<1>1. c \in Callers /\ c[1] = r /\ pending = r /\ dispatch[r] # "none"
  BY DEF IInv, AdmissionInv, DispatchInv, Owners, Early, Callers
<1>2. rst' = [rst EXCEPT ![c] = "armed"]
  BY <1>1 DEF CallReset
<1>3. AdmissionInv'
  BY <1>t DEF IInv, AdmissionInv, Owners, reqVars
<1>4. DispatchInv'
  BY <1>t, <1>1, <1>2 DEF IInv, DispatchInv, Owners, Early, reqVars, childVars
<1>5. OverInv'
  BY <1>t, <1>1, <1>2 DEF IInv, OverInv, Engaged, Over, reqVars, childVars
<1> QED BY <1>3, <1>4, <1>5, Unmoved DEF IInv, runVars, childVars, reqVars

\* The admission goes back with the task's own step.
LEMMA TaskReleases ==
    ASSUME IInv, NEW r \in Requests, TypeOK', NEW pc \in {"reply", "rejected"},
           task[r] \in Owners, task' = [task EXCEPT ![r] = pc], Release(r), Over(r),
           \/ UNCHANGED <<chan, closed>>
           \/ pc = "rejected" /\ DropReceiver(r),
           UNCHANGED <<runVars, childVars, dispatch, rst, woken>>
    PROVE  IInv'
<1>t. DOMAIN task = Requests /\ closed \subseteq Requests /\ DOMAIN chan = Requests
  BY DEF IInv, TypeOK, SupTypeOK, GenTypeOK
<1>1. /\ task'[r] = pc /\ \A q \in Requests \ {r} : task'[q] = task[q]
      /\ closed \subseteq closed' /\ closed' \subseteq closed \cup {r}
      /\ r \notin closed
      /\ r \in closed' => pc = "rejected"
  BY <1>t DEF DropReceiver, IInv, AdmissionInv, Owners
<1>2. AdmissionInv' /\ \A q \in Requests : Engaged(q) => pending' = q
  BY <1>1, GivenBack DEF Owners
<1>3. DispatchInv'
  <2>1. dispatch[r] # "none"
    BY DEF Over
  <2> QED BY <1>1, <2>1 DEF IInv, DispatchInv, Early, childVars
<1>4. OverInv'
  BY <1>1, <1>2 DEF IInv, OverInv, Engaged, Over, childVars
<1>5. ChanInv'
  <2>1. \A q \in Requests : chan'[q] = chan[q] \/ chan'[q] = <<>>
    BY <1>t DEF DropReceiver
  <2>2. Len(<<>>) = 0
    OBVIOUS
  <2> QED BY <2>1, <2>2 DEF IInv, ChanInv, Over, childVars
<1> QED BY <1>2, <1>3, <1>4, <1>5, Unmoved DEF IInv, runVars, childVars

\* The steps of a handler up to the spawn of its task, or its refusal.
LEMMA AdmissionStepInv ==
    ASSUME IInv, NEW r \in Requests, TypeOK',
           Arrive(r) \/ Claim(r) \/ Start(r) \/ Begin(r) \/ BeginError(r) \/ BeginUndone(r)
    PROVE  IInv'
<1>t. /\ DOMAIN task = Requests /\ DOMAIN rst = Callers /\ DOMAIN dispatch = Requests
      /\ closed \subseteq Requests /\ woken \subseteq Callers /\ DOMAIN chan = Requests
  BY DEF IInv, TypeOK, SupTypeOK, GenTypeOK
<1>c. \A c \in Callers : c[1] \in Requests
  BY DEF Callers
<1>1. CASE Arrive(r)
  <2>1. /\ task[r] = "idle" /\ task' \in {[task EXCEPT ![r] = pc] : pc \in {"checked", "rejected"}}
        /\ UNCHANGED supVars
    BY <1>1 DEF Arrive, Goto
  <2>2. AdmissionInv'
    BY <1>t, <2>1 DEF IInv, AdmissionInv, Owners, supVars
  <2>3. DispatchInv'
    BY <1>t, <2>1 DEF IInv, DispatchInv, Early, supVars
  <2>4. OverInv'
    BY <1>t, <2>1 DEF IInv, OverInv, Engaged, Over, supVars
  <2> QED BY <2>1, <2>2, <2>3, <2>4, Unmoved DEF IInv, supVars
<1>2. CASE Claim(r)
  <2>1. /\ task[r] = "checked"
        /\ \/ ~busy /\ busy' = TRUE /\ task' = [task EXCEPT ![r] = "claimed"]
           \/ busy /\ busy' = busy /\ task' = [task EXCEPT ![r] = "rejected"]
        /\ UNCHANGED <<pending, runpc, held, line, child, inbox, stdout, dispatch, chan,
                       closed, rst, woken>>
    BY <1>2 DEF Claim, ClaimBusy, Goto, runVars, childVars, reqVars, resetVars
  <2>2. AdmissionInv'
    BY <1>t, <2>1 DEF IInv, AdmissionInv, Owners
  <2>3. DispatchInv'
    BY <1>t, <2>1 DEF IInv, DispatchInv, Early
  <2>4. OverInv'
    BY <1>t, <2>1 DEF IInv, OverInv, Engaged, Over
  <2> QED BY <2>1, <2>2, <2>3, <2>4, Unmoved DEF IInv
<1>3. CASE Start(r)
  <2>1. /\ task[r] = "claimed" /\ task' = [task EXCEPT ![r] = "begin"]
        /\ pending' = r
        /\ UNCHANGED <<busy, runpc, held, line, child, inbox, stdout, chan, closed, woken>>
    BY <1>3 DEF Start, Publish, Goto, runVars, childVars
  <2>2. /\ child.st = "none" => /\ dispatch' = [dispatch EXCEPT ![r] = "reset"]
                                /\ rst' = [rst EXCEPT ![<<r, "dispatch">>] = "armed"]
        /\ child.st # "none" => dispatch' = [dispatch EXCEPT ![r] = "writing"] /\ rst' = rst
    BY <1>3 DEF Start, Publish
  <2>3. /\ dispatch[r] = "none" /\ busy /\ pending = None /\ None \notin Requests
        /\ \A q \in Requests : task[q] = "claimed" => q = r
        /\ <<r, "dispatch">> \in Callers /\ <<r, "dispatch">>[1] = r
    BY <2>1, SupervisorAssumption DEF IInv, AdmissionInv, DispatchInv, Early, Callers
  <2>4. /\ dispatch'[r] \in {"reset", "writing"}
        /\ child.st = "none" => dispatch'[r] = "reset"
        /\ \A q \in Requests : q # r => dispatch'[q] = dispatch[q]
        /\ \A c \in Callers : c[1] # r => rst'[c] = rst[c]
        /\ \A c \in Callers : rst'[c] = rst[c] \/ rst'[c] = "armed"
        /\ \A c \in Callers : rst'[c] = "idle" => rst[c] = "idle"
    BY <1>t, <2>2, <2>3
  <2>5. \A q \in Requests : Over(q) => Over(q)'
    BY <2>1, <2>3, <2>4 DEF Over
  <2>6. AdmissionInv'
    BY <1>t, <2>1, <2>3 DEF IInv, AdmissionInv, Owners
  <2>7. DispatchInv'
    <3>1. r \notin inbox /\ child.job # r
      BY <2>3 DEF IInv, DispatchInv
    <3>2. \A c \in Callers : rst'[c] # "idle" => dispatch'[c[1]] # "none"
      BY <1>c, <2>4, <2>3 DEF IInv, DispatchInv
    <3>3. \A c \in woken' : rst'[c] # "idle"
      BY <1>t, <2>1, <2>4 DEF IInv, DispatchInv
    <3> QED BY <1>t, <2>1, <2>3, <2>4, <3>1, <3>2, <3>3 DEF IInv, DispatchInv, Early
  <2>8. ChildInv'
    BY <2>1, <2>2, <2>3, <2>4 DEF IInv, ChildInv
  <2>9. OverInv'
    <3>1. \A q \in Requests : Engaged(q)' => pending' = q
      BY <2>1, <2>3, <2>4 DEF IInv, OverInv, Engaged
    <3>2. \A c \in Callers : c \in woken' \/ rst'[c] = "returned" => Over(c[1])'
      BY <1>c, <2>1, <2>4, <2>5 DEF IInv, OverInv
    <3> QED BY <1>t, <2>1, <2>5, <3>1, <3>2 DEF IInv, OverInv
  <2>10. PipeInv' /\ LineInv' /\ ChanInv'
    <3>1. PipeInv'
      BY <2>1, <2>5 DEF IInv, PipeInv
    <3> QED BY <2>1, <2>5, <3>1 DEF IInv, LineInv, ChanInv
  <2> QED BY <2>6, <2>7, <2>8, <2>9, <2>10 DEF IInv
<1>4. CASE Begin(r)
  <2>1. task[r] \in Owners /\ "top" \in Owners /\ task' = [task EXCEPT ![r] = "top"] /\ UNCHANGED supVars
    BY <1>4 DEF Begin, Goto, Owners
  <2>2. AdmissionInv' /\ DispatchInv' /\ OverInv'
    BY <2>1, OwnerMoves DEF supVars
  <2> QED BY <2>1, <2>2, Unmoved DEF IInv, supVars
<1>5. CASE BeginError(r)
  <2>1. task[r] \in Owners /\ task' = [task EXCEPT ![r] = "undo"] /\ CallReset(<<r, "task">>)
        /\ UNCHANGED <<workerVars, runVars, childVars, reqVars, woken>>
    BY <1>5 DEF BeginError, Goto, Owners
  <2> QED BY <2>1, TaskResets DEF workerVars
<1>6. CASE BeginUndone(r)
  <2>1. /\ task[r] = "undo" /\ task' = [task EXCEPT ![r] = "rejected"]
        /\ rst[<<r, "task">>] = "returned" /\ Release(r) /\ DropReceiver(r)
        /\ UNCHANGED <<runVars, childVars, dispatch, rst, woken>>
    BY <1>6 DEF BeginUndone, Goto, resetVars
  <2>2. <<r, "task">> \in Callers /\ <<r, "task">>[1] = r
    BY DEF Callers
  <2>3. Over(r)
    BY <2>1, <2>2 DEF IInv, OverInv
  <2> QED BY <2>1, <2>3, TaskReleases DEF Owners
<1> QED BY <1>1, <1>2, <1>3, <1>4, <1>5, <1>6

\* The events left behind the next one.
LEMMA ChanRest ==
    ASSUME IInv, NEW r \in Requests, chan[r] # <<>>
    PROVE  /\ Tail(chan[r]) \in Seq(Event)
           /\ Head(chan[r]).type = "terminal" => Over(r)
           /\ \A i \in 1..Len(Tail(chan[r])) : Tail(chan[r])[i].type = "terminal" => Over(r)
<1>1. chan[r] \in Seq(Event)
  BY DEF IInv, TypeOK, SupTypeOK
<1>2. /\ Tail(chan[r]) \in Seq(Event) /\ Len(Tail(chan[r])) = Len(chan[r]) - 1
      /\ \A i \in 1..Len(Tail(chan[r])) : Tail(chan[r])[i] = chan[r][i + 1]
      /\ Len(chan[r]) \in Nat \ {0} /\ Head(chan[r]) = chan[r][1]
  BY <1>1, HeadTailProperties, EmptySeq
<1>3. 1 \in 1..Len(chan[r]) /\ \A i \in 1..Len(Tail(chan[r])) : i + 1 \in 1..Len(chan[r])
  BY <1>2
<1> QED BY <1>2, <1>3 DEF IInv, ChanInv

\* A cancel adds no terminal.
LEMMA CancelInv ==
    ASSUME IInv, NEW r \in Requests, NEW queue \in Seq(Event), Cancel(r, queue),
           \A i \in 1..Len(queue) : queue[i].type = "terminal" => Over(r),
           UNCHANGED <<dispatch, inbox, child>>
    PROVE  ChanInv'
<1> DEFINE longer == Append(queue, Plain("cancelling", r))
<1>1. Plain("cancelling", r) \in Event /\ Plain("cancelling", r).type = "cancelling"
  BY EventKinds DEF EventTypes, Plain
<1>2. /\ Len(longer) = Len(queue) + 1 /\ Len(queue) \in Nat
      /\ \A i \in 1..Len(queue) : longer[i] = queue[i]
      /\ longer[Len(queue) + 1] = Plain("cancelling", r)
  BY <1>1, AppendProperties, LenProperties
<1>3. \A i \in 1..Len(longer) : longer[i].type = "terminal" => Over(r)
  BY <1>1, <1>2
<1>4. DOMAIN chan = Requests
  BY DEF IInv, TypeOK, SupTypeOK
<1>5. /\ chan'[r] = queue \/ chan'[r] = longer
      /\ \A q \in Requests : q # r => chan'[q] = chan[q]
  BY <1>4 DEF Cancel
<1> HIDE DEF longer
<1> QED BY <1>3, <1>5 DEF IInv, ChanInv, Over

\* The steps of the generation loop that receive nothing.
LEMMA LoopInv ==
    ASSUME IInv, NEW r \in Requests, TypeOK',
           LoopTop(r) \/ GiveUp(r) \/ CancelDeadline(r) \/ ResetDone(r)
    PROVE  IInv'
<1>1. CASE LoopTop(r)
  <2>1. task[r] \in Owners /\ "select" \in Owners /\ task' = [task EXCEPT ![r] = "select"]
        /\ UNCHANGED supVars
    BY <1>1 DEF LoopTop, Goto, Owners
  <2>2. AdmissionInv' /\ DispatchInv' /\ OverInv'
    BY <2>1, OwnerMoves DEF supVars
  <2> QED BY <2>1, <2>2, Unmoved DEF IInv, supVars
<1>2. CASE GiveUp(r)
  <2>1. /\ task[r] \in Owners /\ "top" \in Owners /\ task' = [task EXCEPT ![r] = "top"]
        /\ Cancel(r, chan[r])
        /\ UNCHANGED <<busy, pending, runVars, childVars, dispatch, closed, resetVars>>
    BY <1>2 DEF GiveUp, ForceFailure, Goto, Owners
  <2>2. AdmissionInv' /\ DispatchInv' /\ OverInv'
    BY <2>1, OwnerMoves DEF childVars, resetVars
  <2>3. ChanInv'
    <3>1. chan[r] \in Seq(Event)
      BY DEF IInv, TypeOK, SupTypeOK
    <3>2. \A i \in 1..Len(chan[r]) : chan[r][i].type = "terminal" => Over(r)
      BY DEF IInv, ChanInv
    <3> QED BY <2>1, <3>1, <3>2, CancelInv DEF childVars
  <2> QED BY <2>1, <2>2, <2>3, Unmoved DEF IInv, runVars, childVars, resetVars
<1>3. CASE CancelDeadline(r)
  <2>1. /\ task[r] \in Owners /\ task' = [task EXCEPT ![r] = "reset"]
        /\ CallReset(<<r, "task">>)
        /\ UNCHANGED <<workerVars, runVars, childVars, reqVars, woken>>
    BY <1>3 DEF CancelDeadline, Goto, Owners
  <2> QED BY <2>1, TaskResets DEF workerVars
<1>4. CASE ResetDone(r)
  <2>1. /\ task[r] \in Owners /\ "finish" \in Owners /\ task' = [task EXCEPT ![r] = "finish"]
        /\ rst[<<r, "task">>] = "returned" /\ UNCHANGED supVars
    BY <1>4 DEF ResetDone, Goto, Owners
  <2>2. <<r, "task">> \in Callers /\ <<r, "task">>[1] = r
    BY DEF Callers
  <2>3. Over(r)
    BY <2>1, <2>2 DEF IInv, OverInv
  <2>4. AdmissionInv' /\ DispatchInv' /\ OverInv'
    BY <2>1, <2>3, OwnerMoves DEF supVars
  <2> QED BY <2>1, <2>4, Unmoved DEF IInv, supVars
<1> QED BY <1>1, <1>2, <1>3, <1>4

\* The steps of the generation loop that receive an event.
LEMMA RecvInv ==
    ASSUME IInv, NEW r \in Requests, TypeOK',
           RecvTerminal(r) \/ RecvEvent(r) \/ Backpressure(r)
    PROVE  IInv'
<1>t. DOMAIN chan = Requests
  BY DEF IInv, TypeOK, SupTypeOK
<1>n. task[r] \in Owners /\ chan[r] # <<>>
  BY DEF RecvTerminal, RecvEvent, Backpressure, CanRecv, Owners
<1>p. ASSUME chan' = [chan EXCEPT ![r] = Tail(@)], UNCHANGED <<dispatch, inbox, child>>
      PROVE  ChanInv'
  <2>1. \A i \in 1..Len(chan'[r]) : chan'[r][i].type = "terminal" => Over(r)
    BY <1>t, <1>n, <1>p, ChanRest
  <2> QED BY <1>t, <1>p, <2>1 DEF IInv, ChanInv, Over
<1>1. CASE RecvTerminal(r)
  <2>1. /\ "finish" \in Owners /\ task' = [task EXCEPT ![r] = "finish"]
        /\ Head(chan[r]).type = "terminal" /\ chan' = [chan EXCEPT ![r] = Tail(@)]
        /\ UNCHANGED <<busy, pending, runVars, childVars, dispatch, closed, resetVars>>
    BY <1>1 DEF RecvTerminal, Goto, Owners, workerVars
  <2>2. Over(r)
    BY <1>n, <2>1, ChanRest
  <2>3. AdmissionInv' /\ DispatchInv' /\ OverInv'
    BY <1>n, <2>1, <2>2, OwnerMoves DEF childVars, resetVars
  <2> QED BY <1>p, <2>1, <2>3, Unmoved DEF IInv, runVars, childVars, resetVars
<1>2. CASE RecvEvent(r)
  <2>1. /\ "top" \in Owners /\ task' = [task EXCEPT ![r] = "top"]
        /\ chan' = [chan EXCEPT ![r] = Tail(@)]
        /\ UNCHANGED <<busy, pending, runVars, childVars, dispatch, closed, resetVars>>
    BY <1>2 DEF RecvEvent, Goto, Owners, workerVars
  <2>2. AdmissionInv' /\ DispatchInv' /\ OverInv'
    BY <1>n, <2>1, OwnerMoves DEF childVars, resetVars
  <2> QED BY <1>p, <2>1, <2>2, Unmoved DEF IInv, runVars, childVars, resetVars
<1>3. CASE Backpressure(r)
  <2>1. /\ "top" \in Owners /\ task' = [task EXCEPT ![r] = "top"]
        /\ Cancel(r, Tail(chan[r]))
        /\ UNCHANGED <<busy, pending, runVars, childVars, dispatch, closed, resetVars>>
    BY <1>3 DEF Backpressure, ForceFailure, Goto, Owners
  <2>2. AdmissionInv' /\ DispatchInv' /\ OverInv'
    BY <1>n, <2>1, OwnerMoves DEF childVars, resetVars
  <2>3. ChanInv'
    BY <1>n, <2>1, ChanRest, CancelInv DEF childVars
  <2> QED BY <2>1, <2>2, <2>3, Unmoved DEF IInv, runVars, childVars, resetVars
<1> QED BY <1>1, <1>2, <1>3

\* The owner of the receiver drops it when the admission is not its own (any more).
LEMMA ReceiverDropped ==
    ASSUME IInv, NEW r \in Requests, TypeOK', DropReceiver(r), NEW pc,
           \/ task[r] = "reply" /\ pc = "done"
           \/ task[r] \in {"begin", "select"} /\ pc = "abandoned",
           task' = [task EXCEPT ![r] = pc],
           UNCHANGED <<busy, pending, runVars, childVars, dispatch, rst, woken>>
    PROVE  IInv'
<1>t. DOMAIN task = Requests /\ DOMAIN chan = Requests /\ closed \subseteq Requests
  BY DEF IInv, TypeOK, SupTypeOK, GenTypeOK
<1>1. AdmissionInv'
  BY <1>t DEF IInv, AdmissionInv, Owners, DropReceiver
<1>2. DispatchInv'
  BY <1>t DEF IInv, DispatchInv, Early, childVars
<1>3. OverInv'
  BY <1>t DEF IInv, OverInv, Engaged, Over, childVars
<1>4. ChanInv'
  <2>1. \A q \in Requests : chan'[q] = chan[q] \/ chan'[q] = <<>>
    BY <1>t DEF DropReceiver
  <2>2. Len(<<>>) = 0
    OBVIOUS
  <2> QED BY <2>1, <2>2 DEF IInv, ChanInv, Over, childVars
<1> QED BY <1>1, <1>2, <1>3, <1>4, Unmoved DEF IInv, runVars, childVars

\* The steps from the commit to the end of the task.
LEMMA EndInv ==
    ASSUME IInv, NEW r \in Requests, TypeOK',
           Finish(r) \/ FinishError(r) \/ ReleaseTask(r) \/ Reply(r) \/ ReplyLost(r) \/ Done(r)
    PROVE  IInv'
<1>1. CASE Finish(r) \/ FinishError(r)
  <2>1. /\ task[r] = "finish" /\ "finish" \in Owners /\ "release" \in Owners
        /\ task' = [task EXCEPT ![r] = "release"] /\ UNCHANGED supVars
    BY <1>1 DEF Finish, FinishError, Goto, Owners
  <2>2. Over(r)
    BY <2>1 DEF IInv, OverInv
  <2>3. AdmissionInv' /\ DispatchInv' /\ OverInv'
    BY <2>1, <2>2, OwnerMoves DEF supVars
  <2> QED BY <2>1, <2>3, Unmoved DEF IInv, supVars
<1>2. CASE ReleaseTask(r)
  <2>1. /\ task[r] = "release" /\ task' = [task EXCEPT ![r] = "reply"] /\ Release(r)
        /\ UNCHANGED <<runVars, childVars, reqVars, resetVars>>
    BY <1>2 DEF ReleaseTask, Goto
  <2>2. Over(r)
    BY <2>1 DEF IInv, OverInv
  <2> QED BY <2>1, <2>2, TaskReleases DEF Owners, reqVars, resetVars
<1>3. CASE Reply(r) \/ ReplyLost(r)
  <2>1. UNCHANGED <<supVars, task>>
    BY <1>3 DEF Reply, ReplyLost, taskVars
  <2> QED BY <2>1, Unmoved DEF IInv, supVars
<1>4. CASE Done(r)
  BY <1>4, ReceiverDropped DEF Done, Goto, workerVars, resetVars
<1> QED BY <1>1, <1>2, <1>3, <1>4

\* What clients, users and dropped tasks do.
LEMMA ClientInv ==
    ASSUME IInv, NEW r \in Requests, TypeOK',
           ClientRead(r) \/ ClientLeave(r) \/ UserCancel(r) \/ Abandon(r)
    PROVE  IInv'
<1>1. CASE ClientRead(r) \/ ClientLeave(r)
  <2>1. UNCHANGED <<supVars, task>>
    BY <1>1 DEF ClientRead, ClientLeave, taskVars
  <2> QED BY <2>1, Unmoved DEF IInv, supVars
<1>2. CASE UserCancel(r)
  <2>1. /\ Cancel(r, chan[r])
        /\ UNCHANGED <<busy, pending, task, runVars, childVars, dispatch, closed, resetVars>>
    BY <1>2 DEF UserCancel, taskVars
  <2>2. ChanInv'
    <3>1. chan[r] \in Seq(Event)
      BY DEF IInv, TypeOK, SupTypeOK
    <3>2. \A i \in 1..Len(chan[r]) : chan[r][i].type = "terminal" => Over(r)
      BY DEF IInv, ChanInv
    <3> QED BY <2>1, <3>1, <3>2, CancelInv DEF childVars
  <2> QED BY <2>1, <2>2, Unmoved DEF IInv, runVars, childVars, resetVars
<1>3. CASE Abandon(r)
  BY <1>3, ReceiverDropped DEF Abandon, Goto, workerVars, resetVars
<1> QED BY <1>1, <1>2, <1>3

-----------------------------------------------------------------------------
\* Every step keeps the invariant.
LEMMA InvNext ==
    ASSUME IInv, [Next]_vars
    PROVE  IInv'
<1>1. TypeOK'
  BY TypesNext DEF IInv
<1>2. CASE UNCHANGED vars
  BY <1>1, <1>2, Unmoved DEF IInv, vars, supVars, genVars
<1>3. CASE SupNext /\ UNCHANGED genVars
  BY <1>1, <1>3, RunInv, ChildStepInv, DispatchStepInv, ResetStepInv, ShutdownInv DEF SupNext
<1>4. ASSUME NEW r \in Requests, TaskStep(r) PROVE IInv'
  BY <1>1, <1>4, AdmissionStepInv, LoopInv, RecvInv, EndInv DEF TaskStep
<1>5. ASSUME NEW r \in Requests, ClientStep(r) PROVE IInv'
  BY <1>1, <1>5, AdmissionStepInv, ClientInv DEF ClientStep
<1>6. ASSUME NEW r \in Requests, FaultStep(r) PROVE IInv'
  BY <1>1, <1>6, AdmissionStepInv, EndInv DEF FaultStep
<1> QED BY <1>2, <1>3, <1>4, <1>5, <1>6 DEF Next

\* The invariant holds in every reachable state.
LEMMA Inductive == Spec => []IInv
<1> QED BY InvInit, InvNext, PTL DEF Spec

\* One generation at a time on the GPU: while a request's generate line is
\* being written, waits in the child's stdin or runs, no other request can be
\* admitted; every way the admission comes back (release after a terminal, a
\* timeout, a failed insert, an abandoned receiver) waits until that is over.
THEOREM GpuExclusive == Spec => []ExclusiveGpu
<1>1. IInv => ExclusiveGpu
  BY SupervisorAssumption DEF IInv, OverInv, AdmissionInv, ExclusiveGpu
<1> QED BY Inductive, <1>1, PTL

\* A generation task keeps the admission from start() to its own release():
\* nobody else gives it back under its feet, so its channel keeps a sender and
\* `events.recv()` cannot yield None before a terminal.
THEOREM AdmissionKept == Spec => []AdmissionHeld
<1>1. IInv => AdmissionHeld
  BY SupervisorAssumption DEF IInv, AdmissionInv, AdmissionHeld, Owners
<1> QED BY Inductive, <1>1, PTL

-----------------------------------------------------------------------------
\* The inductive invariant.

\* No event of r is in the pipe or in run()'s hands.
Quiet(r) == line.id # r /\ \A i \in 1..Len(stdout) : stdout[i].id # r

\* What run() may still read belongs to the pending request.
CurrentInv ==
    /\ \A i \in 1..Len(stdout) : stdout[i].id # None => stdout[i].id = pending
    /\ line.id # None => line.id = pending
    /\ runpc \notin {"line", "send"} => line = NoLine
    /\ child.st = "none" => stdout = <<>>

\* A request whose end is known, or whose generation has not begun, has
\* nothing in the pipe; a terminal is the last of its request.
QuietInv ==
    /\ \A c \in Callers : c \in woken \/ rst[c] = "returned" => Quiet(c[1])
    /\ \A r \in Requests :
           task[r] \in {"finish", "release"} \/ dispatch[r] # "done" \/ r \in inbox => Quiet(r)
    /\ \A r \in Requests : \A i \in 1..Len(chan[r]) : chan[r][i].type = "terminal" => Quiet(r)
    /\ line.type = "terminal" => \A i \in 1..Len(stdout) : stdout[i].id # line.id
    /\ \A i, j \in 1..Len(stdout) :
           i < j /\ stdout[i].type = "terminal" => stdout[j].id # stdout[i].id

\* A row is in progress while its task may still close it, and agrees with
\* the terminal once the task is past its commit.
RowInv == \A r \in Requests :
    /\ row[r] = "in_progress" =>
           task[r] \in {"top", "select", "reset", "finish", "abandoned"} \/ terminal[r].storage
    /\ terminal[r].storage => task[r] \in {"release", "reply", "done"}
    /\ task[r] \in {"release", "reply", "done"} /\ Success(terminal[r].status) =>
           row[r] = terminal[r].status

\* Pieces of text among frames, and among events.
Pieces(frames) == Cardinality({i \in 1..Len(frames) : frames[i] = "delta"})
Deltas(events) == Cardinality({i \in 1..Len(events) : events[i].type = "delta"})

\* Pieces that reached the client or its stream, and those under way.
Taken(r) == got[r] + Pieces(out[r])
InHand   == IF line.type = "delta" THEN 1 ELSE 0
Sum(r)   == Taken(r) + Deltas(chan[r]) + InHand + Deltas(stdout)

\* A streamed request that is not given up: its task forwards every piece.
Whole(r) == r \in Streaming /\ forced[r] = None /\ task[r] \in {"begin", "top", "select"}

\* run() reads, and means to go on.
Reading == runpc \in {"loop", "select", "line", "send"}

\* Before a child took the request its channel can only hold a user's cancel.
FreshInv == \A r \in Requests : dispatch[r] \in {"none", "writing"} \/ r \in inbox =>
    /\ got[r] = 0 /\ out[r] = <<>>
    /\ \A i \in 1..Len(chan[r]) : chan[r][i].type = "cancelling"

\* No piece is lost on its way: the child counts what it sent, and a
\* terminal carries the count.
Counted(r) ==
    /\ Reading /\ child.job = r => Sum(r) = child.sent
    /\ Reading => \A i \in 1..Len(stdout) :
           stdout[i].type = "terminal" /\ stdout[i].id = r => Sum(r) = stdout[i].deltas
    /\ Reading /\ line.type = "terminal" /\ line.id = r => Sum(r) = line.deltas
    /\ \A i \in 1..Len(chan[r]) : chan[r][i].type = "terminal" /\ Success(chan[r][i].status) =>
           Taken(r) + Deltas(chan[r]) = chan[r][i].deltas
CountInv == \A r \in Requests : Whole(r) => Counted(r)

\* In a channel too no piece follows the terminal.
OrderInv == \A r \in Requests : \A i, j \in 1..Len(chan[r]) :
    i < j /\ chan[r][i].type = "terminal" => chan[r][j].type # "delta"

\* The frames of the end follow the pieces, and only a success is finished.
FrameInv == \A r \in Requests :
    /\ r \notin Streaming => out[r] = <<>> /\ todo[r] = <<>>
    /\ task[r] \notin {"reply", "done"} =>
           /\ todo[r] = <<>> /\ verdict[r] # "success"
           /\ \A i \in 1..Len(out[r]) : out[r][i] \in {"role", "delta"}
    /\ todo[r] \in {<<>>, <<"error">>, <<"finish">>, <<"text", "finish">>}
    /\ todo[r] \in {<<"finish">>, <<"text", "finish">>} => Success(terminal[r].status)
    /\ todo[r] = <<"text", "finish">> => r \notin sawDelta
    /\ \A i \in 1..Len(out[r]) :
           /\ out[r][i] = "finish" => i = Len(out[r]) /\ todo[r] = <<>> /\ Success(terminal[r].status)
           /\ out[r][i] = "text" => r \notin sawDelta
           /\ out[r][i] = "delta" => r \in sawDelta
    /\ verdict[r] = "success" =>
           out[r] = <<>> /\ todo[r] = <<>> /\ Success(terminal[r].status)

\* A success carries as many pieces as were handed on.
Told(r) ==
    /\ r \in Streaming /\ task[r] \in {"finish", "release", "reply", "done"}
           /\ Success(terminal[r].status) => Taken(r) = terminal[r].deltas
    /\ r \notin Streaming /\ verdict[r] = "success" => got[r] = terminal[r].deltas
ToldInv == \A r \in Requests : Told(r)

DeliveryInv == CurrentInv /\ QuietInv /\ RowInv /\ FreshInv /\ CountInv /\ OrderInv /\ FrameInv /\ ToldInv
-----------------------------------------------------------------------------
\* Counting along a sequence.

\* The first element of a sequence and the rest of it.
LEMMA PopFacts ==
    ASSUME NEW S, NEW s \in Seq(S), s # <<>>
    PROVE  /\ Len(s) \in Nat \ {0} /\ 1 \in 1..Len(s) /\ Head(s) = s[1]
           /\ Tail(s) \in Seq(S) /\ Len(Tail(s)) = Len(s) - 1
           /\ \A i \in 1..Len(Tail(s)) : i + 1 \in 1..Len(s) /\ Tail(s)[i] = s[i + 1]
<1>1. Len(s) \in Nat \ {0}
  BY EmptySeq
<1>2. /\ Tail(s) \in Seq(S) /\ Len(Tail(s)) = Len(s) - 1
      /\ \A i \in 1..Len(Tail(s)) : Tail(s)[i] = s[i + 1]
  BY HeadTailProperties
<1> QED BY <1>1, <1>2

\* A sequence with one element more.
LEMMA PushFacts ==
    ASSUME NEW S, NEW s \in Seq(S), NEW e \in S
    PROVE  /\ Append(s, e) \in Seq(S) /\ Len(s) \in Nat /\ Len(Append(s, e)) = Len(s) + 1
           /\ \A i \in 1..Len(s) : i \in 1..Len(Append(s, e)) /\ Append(s, e)[i] = s[i]
           /\ Append(s, e)[Len(s) + 1] = e
           /\ \A i \in 1..Len(Append(s, e)) : i \in 1..Len(s) \/ i = Len(s) + 1
<1>1. /\ Append(s, e) \in Seq(S) /\ Len(s) \in Nat /\ Len(Append(s, e)) = Len(s) + 1
      /\ \A i \in 1..Len(s) : Append(s, e)[i] = s[i]
      /\ Append(s, e)[Len(s) + 1] = e
  BY AppendProperties, LenProperties
<1> QED BY <1>1

\* Positions moved down by one, the first one left out.
LEMMA ShiftDown ==
    ASSUME NEW n \in Nat, NEW P \in SUBSET (1..n + 1)
    PROVE  /\ IsFiniteSet(P) /\ IsFiniteSet({i \in 1..n : i + 1 \in P})
           /\ Cardinality(P) = Cardinality({i \in 1..n : i + 1 \in P}) + (IF 1 \in P THEN 1 ELSE 0)
<1> DEFINE Q == {i \in 1..n : i + 1 \in P}
           f == [i \in Q |-> i + 1]
<1>1. IsFiniteSet(1..n + 1) /\ IsFiniteSet(1..n)
  BY FS_Interval
<1>2. IsFiniteSet(P) /\ IsFiniteSet(Q)
  BY <1>1, FS_Subset
<1>3. f \in Bijection(Q, P \ {1})
  <2>1. f \in [Q -> P \ {1}]
    OBVIOUS
  <2>2. \A a, b \in Q : f[a] = f[b] => a = b
    OBVIOUS
  <2>3. \A p \in P \ {1} : \E q \in Q : f[q] = p
    <3> SUFFICES ASSUME NEW p \in P \ {1} PROVE p - 1 \in Q /\ f[p - 1] = p
      OBVIOUS
    <3>1. p \in 2..n + 1
      OBVIOUS
    <3> QED BY <3>1
  <2> QED BY <2>1, <2>2, <2>3 DEF Bijection, Injection, IsInjective, Surjection
<1>4. Cardinality(P \ {1}) = Cardinality(Q)
  BY <1>2, <1>3, FS_Bijection DEF ExistsBijection
<1>5. Cardinality(P \ {1}) = IF 1 \in P THEN Cardinality(P) - 1 ELSE Cardinality(P)
  BY <1>2, FS_RemoveElement
<1>6. Cardinality(P) \in Nat /\ Cardinality(Q) \in Nat
  BY <1>2, FS_CardinalityType
<1> QED BY <1>2, <1>4, <1>5, <1>6

\* Pieces among frames: none at first, one more, one less.
LEMMA PiecesCount ==
    ASSUME NEW s \in Seq(Frames)
    PROVE  /\ Pieces(s) \in Nat
           /\ (\A i \in 1..Len(s) : s[i] # "delta") => Pieces(s) = 0
           /\ \A e \in Frames : Pieces(Append(s, e)) = Pieces(s) + (IF e = "delta" THEN 1 ELSE 0)
           /\ s # <<>> => Pieces(s) = Pieces(Tail(s)) + (IF Head(s) = "delta" THEN 1 ELSE 0)
<1> DEFINE P == {i \in 1..Len(s) : s[i] = "delta"}
<1>1. Len(s) \in Nat
  BY LenProperties
<1>2. IsFiniteSet(P) /\ Cardinality(P) \in Nat
  <2>1. IsFiniteSet(1..Len(s)) /\ P \in SUBSET (1..Len(s))
    BY <1>1, FS_Interval
  <2> QED BY <2>1, FS_Subset, FS_CardinalityType
<1>3. ASSUME \A i \in 1..Len(s) : s[i] # "delta" PROVE Pieces(s) = 0
  <2>1. P = {}
    BY <1>3
  <2> QED BY <2>1, FS_EmptySet DEF Pieces
<1>4. ASSUME NEW e \in Frames
      PROVE  Pieces(Append(s, e)) = Pieces(s) + (IF e = "delta" THEN 1 ELSE 0)
  <2> DEFINE t == Append(s, e)
             T == {i \in 1..Len(t) : t[i] = "delta"}
  <2>1. /\ Len(t) = Len(s) + 1 /\ t[Len(s) + 1] = e
        /\ \A i \in 1..Len(s) : t[i] = s[i]
    BY AppendProperties
  <2>2. CASE e = "delta"
    <3>1. T = P \cup {Len(s) + 1} /\ Len(s) + 1 \notin P
      BY <1>1, <2>1, <2>2
    <3> QED BY <1>2, <2>2, <3>1, FS_AddElement DEF Pieces
  <2>3. CASE e # "delta"
    <3>1. T = P
      BY <1>1, <2>1, <2>3
    <3>2. Pieces(t) = Cardinality(T) /\ Pieces(s) = Cardinality(P)
      BY DEF Pieces
    <3> HIDE DEF T, P
    <3> QED BY <1>2, <2>3, <3>1, <3>2
  <2> QED BY <2>2, <2>3
<1>5. ASSUME s # <<>>
      PROVE  Pieces(s) = Pieces(Tail(s)) + (IF Head(s) = "delta" THEN 1 ELSE 0)
  <2>1. /\ Len(s) \in Nat \ {0} /\ Head(s) = s[1] /\ Len(Tail(s)) = Len(s) - 1
        /\ \A i \in 1..Len(Tail(s)) : Tail(s)[i] = s[i + 1]
    BY <1>5, PopFacts
  <2>2. PICK n \in Nat : n = Len(Tail(s)) /\ Len(s) = n + 1
    <3>1. Len(s) - 1 \in Nat /\ Len(s) = (Len(s) - 1) + 1
      BY <2>1
    <3> QED BY <2>1, <3>1
  <2>3. {i \in 1..Len(Tail(s)) : Tail(s)[i] = "delta"} = {i \in 1..n : i + 1 \in P}
    BY <2>1, <2>2
  <2>4. Cardinality(P) = Cardinality({i \in 1..n : i + 1 \in P}) + (IF 1 \in P THEN 1 ELSE 0)
    <3>1. P \in SUBSET (1..n + 1)
      BY <2>2
    <3> HIDE DEF P
    <3> QED BY <3>1, ShiftDown
  <2>5. 1 \in P <=> Head(s) = "delta"
    BY <2>1
  <2> QED BY <2>3, <2>4, <2>5 DEF Pieces
<1> QED BY <1>2, <1>3, <1>4, <1>5 DEF Pieces

\* Deltas among events: none at first, one more, one less.
LEMMA DeltasCount ==
    ASSUME NEW s \in Seq(Event)
    PROVE  /\ Deltas(s) \in Nat
           /\ (\A i \in 1..Len(s) : s[i].type # "delta") => Deltas(s) = 0
           /\ \A e \in Event : Deltas(Append(s, e)) = Deltas(s) + (IF e.type = "delta" THEN 1 ELSE 0)
           /\ s # <<>> => Deltas(s) = Deltas(Tail(s)) + (IF Head(s).type = "delta" THEN 1 ELSE 0)
<1> DEFINE P == {i \in 1..Len(s) : s[i].type = "delta"}
<1>1. Len(s) \in Nat
  BY LenProperties
<1>2. IsFiniteSet(P) /\ Cardinality(P) \in Nat
  <2>1. IsFiniteSet(1..Len(s)) /\ P \in SUBSET (1..Len(s))
    BY <1>1, FS_Interval
  <2> QED BY <2>1, FS_Subset, FS_CardinalityType
<1>3. ASSUME \A i \in 1..Len(s) : s[i].type # "delta" PROVE Deltas(s) = 0
  <2>1. P = {}
    BY <1>3
  <2> QED BY <2>1, FS_EmptySet DEF Deltas
<1>4. ASSUME NEW e \in Event
      PROVE  Deltas(Append(s, e)) = Deltas(s) + (IF e.type = "delta" THEN 1 ELSE 0)
  <2> DEFINE t == Append(s, e)
             T == {i \in 1..Len(t) : t[i].type = "delta"}
  <2>1. /\ Len(t) = Len(s) + 1 /\ t[Len(s) + 1] = e
        /\ \A i \in 1..Len(s) : t[i] = s[i]
    BY AppendProperties
  <2>2. CASE e.type = "delta"
    <3>1. T = P \cup {Len(s) + 1} /\ Len(s) + 1 \notin P
      BY <1>1, <2>1, <2>2
    <3> QED BY <1>2, <2>2, <3>1, FS_AddElement DEF Deltas
  <2>3. CASE e.type # "delta"
    <3>1. T = P
      BY <1>1, <2>1, <2>3
    <3>2. Deltas(t) = Cardinality(T) /\ Deltas(s) = Cardinality(P)
      BY DEF Deltas
    <3> HIDE DEF T, P
    <3> QED BY <1>2, <2>3, <3>1, <3>2
  <2> QED BY <2>2, <2>3
<1>5. ASSUME s # <<>>
      PROVE  Deltas(s) = Deltas(Tail(s)) + (IF Head(s).type = "delta" THEN 1 ELSE 0)
  <2>1. /\ Len(s) \in Nat \ {0} /\ Head(s) = s[1] /\ Len(Tail(s)) = Len(s) - 1
        /\ \A i \in 1..Len(Tail(s)) : Tail(s)[i] = s[i + 1]
    BY <1>5, PopFacts
  <2>2. PICK n \in Nat : n = Len(Tail(s)) /\ Len(s) = n + 1
    <3>1. Len(s) - 1 \in Nat /\ Len(s) = (Len(s) - 1) + 1
      BY <2>1
    <3> QED BY <2>1, <3>1
  <2>3. {i \in 1..Len(Tail(s)) : Tail(s)[i].type = "delta"} = {i \in 1..n : i + 1 \in P}
    BY <2>1, <2>2
  <2>4. Cardinality(P) = Cardinality({i \in 1..n : i + 1 \in P}) + (IF 1 \in P THEN 1 ELSE 0)
    <3>1. P \in SUBSET (1..n + 1)
      BY <2>2
    <3> HIDE DEF P
    <3> QED BY <3>1, ShiftDown
  <2>5. 1 \in P <=> Head(s).type = "delta"
    BY <2>1
  <2> QED BY <2>3, <2>4, <2>5 DEF Deltas
<1> QED BY <1>2, <1>3, <1>4, <1>5 DEF Deltas

-----------------------------------------------------------------------------
\* Whose events are in the pipe.

Stale == CurrentInv /\ QuietInv

\* What a step that shrinks pipe and line keeps.
LEMMA StaysQuiet ==
    ASSUME line' \in {line, NoLine},
           stdout' \in {stdout, <<>>} \/ (stdout \in Seq(Event) /\ stdout # <<>> /\ stdout' = Tail(stdout))
    PROVE  \A r \in Requests : Quiet(r) => Quiet(r)'
<1> SUFFICES ASSUME NEW r \in Requests, Quiet(r) PROVE Quiet(r)'
  OBVIOUS
<1>1. NoLine.id # r
  BY SupervisorAssumption DEF NoLine, Plain
<1>2. \A i \in 1..Len(stdout') : stdout'[i].id # r
  <2>1. CASE stdout' = stdout
    BY <2>1 DEF Quiet
  <2>2. CASE stdout' = <<>>
    BY <2>2
  <2>3. CASE stdout \in Seq(Event) /\ stdout # <<>> /\ stdout' = Tail(stdout)
    BY <2>3, PopFacts DEF Quiet
  <2> QED BY <2>1, <2>2, <2>3
<1> QED BY <1>1, <1>2 DEF Quiet

\* Without a child there is nothing to read.
LEMMA ChildlessQuiet ==
    ASSUME IInv, CurrentInv, child.st = "none"
    PROVE  \A r \in Requests : Quiet(r)
<1>1. stdout = <<>> /\ line = NoLine
  BY DEF IInv, ChildInv, CurrentInv, Childless
<1> QED BY <1>1, SupervisorAssumption DEF Quiet, NoLine, Plain

\* Steps that touch nothing of this.
LEMMA StaleUnmoved ==
    ASSUME Stale
    PROVE  /\ /\ UNCHANGED <<stdout, line, pending>>
              /\ UNCHANGED <<runpc, child>> \/ (runpc' \notin {"line", "send"} /\ line = NoLine /\ child' = child)
              => CurrentInv'
           /\ UNCHANGED <<stdout, line, rst, woken, task, dispatch, inbox, chan>> => QuietInv'
<1>1. UNCHANGED <<stdout, line, rst, woken, task, dispatch, inbox, chan>> => QuietInv'
  BY DEF Stale, QuietInv, Quiet
<1> QED BY <1>1 DEF Stale, CurrentInv

\* A step of run() that does not read keeps it.
LEMMA StaleRun ==
    ASSUME IInv, Stale, RunStep, UNCHANGED genVars
    PROVE  Stale'
<1> USE DEF genVars
<1>t. /\ stdout \in Seq(Event) /\ line \in Event /\ DOMAIN rst = Callers /\ woken \subseteq Callers
      /\ chan \in [Requests -> Seq(Event)] /\ None \notin Requests
  BY SupervisorAssumption DEF IInv, TypeOK, SupTypeOK
<1>c. \A c \in Callers : c[1] \in Requests
  BY DEF Callers
<1>n. NoLine.id = None /\ NoLine.type = "garbage"
  BY DEF NoLine, Plain
<1>1. CASE RunStop \/ RunSpawn \/ RunSpawnError \/ RunLoop \/ RunPermit \/ RunDisconnected
           \/ RunLost \/ RunPause \/ RunWake
  <2>1. /\ UNCHANGED <<stdout, line, rst, woken, task, dispatch, inbox, chan, pending>>
        /\ runpc \notin {"line", "send"} /\ runpc' \notin {"line", "send"}
        /\ child' = child \/ child'.st = "loading"
    BY <1>1 DEF RunStop, RunSpawn, RunSpawnError, RunLoop, RunPermit, RunDisconnected, RunLost,
                RunPause, RunWake, childVars, reqVars, resetVars, workerVars, NewChild
  <2>2. CurrentInv'
    BY <2>1 DEF Stale, CurrentInv
  <2> QED BY <2>1, <2>2, StaleUnmoved DEF Stale
<1>2. CASE RunRead
  <2>1. /\ runpc = "select" /\ UNCHANGED <<pending, child, inbox, dispatch, chan, rst, woken, task>>
        /\ line = NoLine
    BY <1>2 DEF RunRead, workerVars, reqVars, resetVars, Stale, CurrentInv
  <2>2. CASE runpc' = "reap" /\ UNCHANGED <<line, stdout>>
    BY <2>1, <2>2, StaleUnmoved DEF Stale
  <2>3. CASE /\ stdout # <<>> /\ line' = Head(stdout) /\ stdout' = Tail(stdout) /\ runpc' = "line"
    <3>1. /\ 1 \in 1..Len(stdout) /\ line' = stdout[1] /\ Len(stdout) \in Nat \ {0}
          /\ \A i \in 1..Len(stdout') : i + 1 \in 1..Len(stdout) /\ stdout'[i] = stdout[i + 1]
          /\ Len(stdout') = Len(stdout) - 1
      BY <1>t, <2>3, PopFacts
    <3>2. CurrentInv'
      BY <2>1, <2>3, <3>1 DEF Stale, CurrentInv, IInv, ChildInv, Childless
    <3>3. \A r \in Requests : Quiet(r) => Quiet(r)'
      BY <3>1 DEF Quiet
    <3>4. line'.type = "terminal" => \A i \in 1..Len(stdout') : stdout'[i].id # line'.id
      <4> SUFFICES ASSUME line'.type = "terminal", NEW i \in 1..Len(stdout')
                   PROVE  stdout'[i].id # line'.id
        OBVIOUS
      <4>1. i + 1 \in 1..Len(stdout) /\ stdout'[i] = stdout[i + 1] /\ 1 < i + 1
        BY <3>1
      <4> QED BY <3>1, <4>1 DEF Stale, QuietInv
    <3>5. \A i, j \in 1..Len(stdout') :
             i < j /\ stdout'[i].type = "terminal" => stdout'[j].id # stdout'[i].id
      <4> SUFFICES ASSUME NEW i \in 1..Len(stdout'), NEW j \in 1..Len(stdout'), i < j,
                          stdout'[i].type = "terminal"
                   PROVE  stdout'[j].id # stdout'[i].id
        OBVIOUS
      <4>1. /\ i + 1 \in 1..Len(stdout) /\ j + 1 \in 1..Len(stdout) /\ i + 1 < j + 1
            /\ stdout'[i] = stdout[i + 1] /\ stdout'[j] = stdout[j + 1]
        BY <3>1
      <4> QED BY <4>1 DEF Stale, QuietInv
    <3>6. QuietInv'
      BY <1>c, <1>t, <2>1, <3>3, <3>4, <3>5 DEF Stale, QuietInv
    <3> QED BY <3>2, <3>6 DEF Stale
  <2> QED BY <1>2, <2>2, <2>3 DEF RunRead
<1>3. CASE RunLine
  <2>1. /\ runpc = "line" /\ UNCHANGED <<pending, child, inbox, stdout, dispatch, chan, rst, woken, task>>
        /\ (line' = line /\ runpc' = "send") \/ (line' = NoLine /\ runpc' \in {"reap", "loop"})
    <3>1. runpc = "line" /\ UNCHANGED <<pending, child, inbox, stdout, dispatch, chan, rst, woken, task>>
      BY <1>3 DEF RunLine, childVars, reqVars, resetVars
    <3>2. (line' = line /\ runpc' = "send") \/ (line' = NoLine /\ runpc' \in {"reap", "loop"})
      BY <1>3 DEF RunLine
    <3> QED BY <3>1, <3>2
  <2>2. CurrentInv'
    BY <1>n, <2>1 DEF Stale, CurrentInv
  <2>3. \A r \in Requests : Quiet(r) => Quiet(r)'
    BY <2>1, StaysQuiet
  <2>4. QuietInv'
    BY <1>c, <1>t, <1>n, <2>1, <2>3 DEF Stale, QuietInv
  <2> QED BY <2>2, <2>4 DEF Stale
<1>4. CASE RunSend
  <2>1. /\ runpc = "send" /\ UNCHANGED <<pending, child, inbox, stdout, dispatch, rst, woken, task>>
        /\ line' = NoLine /\ runpc' = "loop" /\ chan' = [chan EXCEPT ![held] = Append(@, line)]
    BY <1>4 DEF RunSend, workerVars, childVars, resetVars
  <2>2. CurrentInv'
    BY <1>n, <2>1 DEF Stale, CurrentInv
  <2>3. \A r \in Requests : Quiet(r) => Quiet(r)'
    BY <2>1, StaysQuiet
  <2>4. held \in Requests /\ line.id = held
    BY <2>1 DEF IInv, ChildInv
  <2>5. \A r \in Requests : r = held /\ line.type = "terminal" => Quiet(r)'
    BY <1>n, <1>t, <2>1, <2>4 DEF Stale, QuietInv, Quiet
  <2>6. \A r \in Requests : \A i \in 1..Len(chan'[r]) : chan'[r][i].type = "terminal" => Quiet(r)'
    <3> SUFFICES ASSUME NEW r \in Requests, NEW i \in 1..Len(chan'[r]), chan'[r][i].type = "terminal"
                 PROVE  Quiet(r)'
      OBVIOUS
    <3>1. CASE r # held
      BY <1>t, <2>1, <2>3, <3>1 DEF Stale, QuietInv
    <3>2. CASE r = held
      <4>1. chan[held] \in Seq(Event) /\ chan'[held] = Append(chan[held], line)
        BY <1>t, <2>1, <2>4
      <4>2. (i \in 1..Len(chan[r]) /\ chan'[r][i] = chan[r][i]) \/ chan'[r][i] = line
        BY <1>t, <3>2, <4>1, PushFacts
      <4>3. chan[r][i].type = "terminal" /\ i \in 1..Len(chan[r]) => Quiet(r)'
        BY <2>3 DEF Stale, QuietInv
      <4> QED BY <2>5, <3>2, <4>2, <4>3
    <3> QED BY <3>1, <3>2
  <2>7. QuietInv'
    BY <1>c, <1>t, <1>n, <2>1, <2>3, <2>6 DEF Stale, QuietInv
  <2> QED BY <2>2, <2>7 DEF Stale
<1>5. CASE RunSendFail
  <2>1. /\ runpc' = "reap" /\ UNCHANGED <<pending, child, inbox, stdout, dispatch, chan, rst, woken, task>>
        /\ line' = NoLine
    BY <1>5 DEF RunSendFail, childVars, reqVars, resetVars
  <2>2. CurrentInv'
    BY <1>n, <2>1 DEF Stale, CurrentInv
  <2>3. \A r \in Requests : Quiet(r) => Quiet(r)'
    BY <2>1, StaysQuiet
  <2>4. QuietInv'
    BY <1>c, <1>t, <1>n, <2>1, <2>3 DEF Stale, QuietInv
  <2> QED BY <2>2, <2>4 DEF Stale
<1>6. CASE RunReap
  <2>1. /\ runpc = "reap" /\ runpc' = "reaped" /\ line' = line /\ line = NoLine
        /\ stdout' = <<>> /\ inbox' = {}
        /\ UNCHANGED <<pending, dispatch, chan, rst, woken, task>>
    BY <1>6 DEF RunReap, reqVars, resetVars, Stale, CurrentInv
  <2>2. CurrentInv'
    BY <1>n, <2>1 DEF CurrentInv
  <2>3. \A r \in Requests : Quiet(r) => Quiet(r)'
    BY <2>1, StaysQuiet
  <2>4. QuietInv'
    BY <1>c, <1>t, <1>n, <2>1, <2>3 DEF Stale, QuietInv
  <2> QED BY <2>2, <2>4 DEF Stale
<1>7. CASE RunAnnounce \/ RunPauseReset
  <2>1. /\ runpc \in {"reaped", "backoff", "sleeping"} /\ runpc' \in {"announced", "top"} /\ BumpReaped
        /\ UNCHANGED <<line, child, inbox, stdout, pending, dispatch, chan, rst, task>>
    BY <1>7 DEF RunAnnounce, RunPauseReset, childVars, reqVars
  <2>2. \A r \in Requests : Quiet(r)
    BY <2>1, ChildlessQuiet DEF Stale, IInv, ChildInv, Childless
  <2>3. woken' \subseteq Callers
    BY <1>t, <2>1 DEF BumpReaped
  <2>4. \A r \in Requests : Quiet(r)'
    BY <2>1, <2>2 DEF Quiet
  <2>5. CurrentInv'
    BY <2>1 DEF Stale, CurrentInv
  <2>6. QuietInv'
    BY <1>c, <2>1, <2>4 DEF Stale, QuietInv
  <2> QED BY <2>5, <2>6 DEF Stale
<1>8. CASE RunNotify
  <2>1. /\ runpc = "notify" /\ runpc' = "backoff"
        /\ UNCHANGED <<line, child, inbox, stdout, dispatch, rst, woken, task>>
    BY <1>8 DEF RunNotify, childVars, resetVars
  <2>2. child.st = "none"
    BY <2>1 DEF IInv, ChildInv, Childless
  <2>3. \A r \in Requests : Quiet(r)'
    BY <2>1, <2>2, ChildlessQuiet DEF Stale, Quiet
  <2>4. CurrentInv'
    BY <1>n, <2>1, <2>2 DEF Stale, CurrentInv
  <2>5. QuietInv'
    BY <1>c, <1>t, <2>1, <2>3 DEF Stale, QuietInv
  <2> QED BY <2>4, <2>5 DEF Stale
<1> QED BY <1>1, <1>2, <1>3, <1>4, <1>5, <1>6, <1>7, <1>8 DEF RunStep

\* The child writes a line of its job, or of no request at all.
LEMMA StaleWritten ==
    ASSUME IInv, Stale, NEW e \in Event, stdout' = Append(stdout, e), child.st # "none", child'.st # "none",
           e.id = None \/ (e.id \in Requests /\ child.job = e.id),
           UNCHANGED <<line, pending, runpc, task, dispatch, inbox, chan, rst, woken>>
    PROVE  Stale'
<1>t. stdout \in Seq(Event) /\ None \notin Requests /\ \A c \in Callers : c[1] \in Requests
  BY SupervisorAssumption DEF IInv, TypeOK, SupTypeOK, Callers
<1>1. /\ \A i \in 1..Len(stdout) : i \in 1..Len(stdout') /\ stdout'[i] = stdout[i]
      /\ \A i \in 1..Len(stdout') : i \in 1..Len(stdout) \/ (i = Len(stdout) + 1 /\ stdout'[i] = e)
      /\ Len(stdout) \in Nat
  BY <1>t, PushFacts
<1>2. e.id \in Requests => e.id = pending /\ ~Over(e.id) /\ Engaged(e.id)
  BY <1>t DEF IInv, OverInv, Engaged, Over
<1>3. CurrentInv'
  BY <1>1, <1>2, <1>t DEF Stale, CurrentInv
<1>4. \A r \in Requests : Quiet(r) /\ Over(r) => Quiet(r)'
  BY <1>1, <1>2 DEF Quiet
<1>5. \A r \in Requests : Quiet(r) /\ e.id # r => Quiet(r)'
  BY <1>1 DEF Quiet
<1>6. \A r \in Requests : e.id = r => dispatch[r] = "done" /\ r \notin inbox
  BY <1>t DEF IInv, DispatchInv
<1>7. \A c \in Callers : c \in woken' \/ rst'[c] = "returned" => Quiet(c[1])'
  BY <1>t, <1>4 DEF IInv, OverInv, Stale, QuietInv
<1>8. \A r \in Requests :
          task'[r] \in {"finish", "release"} \/ dispatch'[r] # "done" \/ r \in inbox' => Quiet(r)'
  BY <1>4, <1>5, <1>6 DEF IInv, OverInv, Stale, QuietInv
<1>9. \A r \in Requests : \A i \in 1..Len(chan'[r]) : chan'[r][i].type = "terminal" => Quiet(r)'
  BY <1>4 DEF IInv, ChanInv, Stale, QuietInv
<1>10. line'.type = "terminal" => \A i \in 1..Len(stdout') : stdout'[i].id # line'.id
  BY <1>1, <1>2, <1>t DEF IInv, LineInv, Stale, QuietInv
<1>11. ASSUME NEW i \in 1..Len(stdout'), NEW j \in 1..Len(stdout'), i < j, stdout'[i].type = "terminal"
       PROVE  stdout'[j].id # stdout'[i].id
  <2>1. i \in 1..Len(stdout) /\ stdout'[i] = stdout[i]
    BY <1>1, <1>11
  <2>2. stdout[i].id \in Requests /\ Over(stdout[i].id)
    BY <1>11, <2>1 DEF IInv, PipeInv
  <2>3. CASE j \in 1..Len(stdout) /\ stdout'[j] = stdout[j]
    BY <1>11, <2>1, <2>3 DEF Stale, QuietInv
  <2>4. CASE stdout'[j] = e
    BY <1>t, <1>2, <2>1, <2>2, <2>4
  <2> QED BY <1>1, <2>3, <2>4
<1> QED BY <1>3, <1>7, <1>8, <1>9, <1>10, <1>11 DEF Stale, QuietInv

\* The child's commands and job shrink or move on; nothing is written.
LEMMA StaleChild ==
    ASSUME IInv, Stale, ChildStep, UNCHANGED genVars
    PROVE  Stale'
<1> USE DEF genVars
<1>e. \A t \in EventTypes \ {"terminal"}, r \in Requests \cup {None} :
          Plain(t, r) \in Event /\ Plain(t, r).id = r
  BY EventKinds DEF Plain
<1>t. child \in Process /\ child.job \in Requests \cup {None}
  BY ProcessSteps DEF IInv, TypeOK, SupTypeOK
<1>1. CASE ChildReady
  <2>1. /\ stdout' = Append(stdout, Plain("ready", None)) /\ child.st # "none" /\ child'.st # "none"
        /\ UNCHANGED <<line, pending, runpc, task, dispatch, inbox, chan, rst, woken>>
    BY <1>1, <1>t DEF ChildReady, workerVars, runVars, reqVars, resetVars, Process
  <2> QED BY <1>e, <2>1, StaleWritten DEF EventTypes
<1>2. CASE ChildStarted
  <2>1. /\ stdout' = Append(stdout, Plain("started", child.job)) /\ child.st # "none" /\ child'.st # "none"
        /\ child.job # None
        /\ UNCHANGED <<line, pending, runpc, task, dispatch, inbox, chan, rst, woken>>
    BY <1>2, <1>t DEF ChildStarted, workerVars, runVars, reqVars, resetVars, Process
  <2> QED BY <1>e, <1>t, <2>1, StaleWritten DEF EventTypes
<1>3. CASE ChildDelta
  <2>1. /\ stdout' = Append(stdout, Plain("delta", child.job)) /\ child.st # "none" /\ child'.st # "none"
        /\ child.job # None
        /\ UNCHANGED <<line, pending, runpc, task, dispatch, inbox, chan, rst, woken>>
    BY <1>3, <1>t DEF ChildDelta, workerVars, runVars, reqVars, resetVars, Process
  <2> QED BY <1>e, <1>t, <2>1, StaleWritten DEF EventTypes
<1>4. ASSUME NEW s \in Answers, ChildTerminal(s) PROVE Stale'
  <2>1. /\ stdout' = Append(stdout, Terminal(child.job, s, child.sent)) /\ child.st # "none" /\ child'.st # "none"
        /\ child.job # None
        /\ UNCHANGED <<line, pending, runpc, task, dispatch, inbox, chan, rst, woken>>
    BY <1>4, <1>t DEF ChildTerminal, Running, workerVars, runVars, reqVars, resetVars
  <2>2. Terminal(child.job, s, child.sent) \in Event /\ Terminal(child.job, s, child.sent).id = child.job
    BY <1>t, ProcessSteps, EventKinds, SupervisorAssumption DEF Terminal
  <2> QED BY <1>t, <2>1, <2>2, StaleWritten
<1>5. CASE ChildDie
  <2>1. /\ inbox' = {} /\ child'.st = "dead" /\ child.st # "none"
        /\ UNCHANGED <<stdout, line, pending, runpc, task, dispatch, chan, rst, woken>>
    BY <1>5 DEF ChildDie, Alive, Exited, workerVars, runVars, reqVars, resetVars
  <2> QED BY <2>1 DEF Stale, CurrentInv, QuietInv, Quiet
<1>6. CASE ChildGarble
  <2>1. /\ stdout' = Append(stdout, NoLine) /\ child.st # "none" /\ child'.st # "none"
        /\ UNCHANGED <<line, pending, runpc, task, dispatch, inbox, chan, rst, woken>>
    BY <1>6 DEF ChildGarble, Alive, workerVars, runVars, reqVars, resetVars
  <2> QED BY <1>e, <2>1, StaleWritten DEF EventTypes, NoLine
<1>7. ASSUME NEW r \in Requests, ChildTake(r) PROVE Stale'
  <2>1. /\ inbox' \subseteq inbox /\ child.st = "up" /\ child'.st = "up"
        /\ UNCHANGED <<stdout, line, pending, runpc, task, dispatch, chan, rst, woken>>
    BY <1>7 DEF ChildTake, Running, workerVars, runVars, reqVars, resetVars
  <2> QED BY <2>1 DEF Stale, CurrentInv, QuietInv, Quiet
<1> QED BY <1>1, <1>2, <1>3, <1>4, <1>5, <1>6, <1>7 DEF ChildStep

\* Steps of requests: what they must respect.
LEMMA StaleRequest ==
    ASSUME IInv, Stale, NEW r \in Requests,
           UNCHANGED <<line, stdout, runpc, child>>,
           pending' = pending \/ (pending = None /\ pending' = r) \/ (pending = r /\ pending' = None /\ Quiet(r)),
           \A q \in Requests : task'[q] = task[q] \/ (q = r /\ (task'[q] \in {"finish", "release"} => Quiet(q))),
           \A q \in Requests : (dispatch'[q] = dispatch[q] /\ (q \in inbox' <=> q \in inbox)) \/ Quiet(q),
           \A c \in Callers : c \in woken' \/ rst'[c] = "returned" => c \in woken \/ rst[c] = "returned" \/ Quiet(c[1]),
           \A q \in Requests : \A i \in 1..Len(chan'[q]) : chan'[q][i].type = "terminal" => Quiet(q)
    PROVE  Stale'
<1>t. None \notin Requests
  BY SupervisorAssumption
<1>1. CurrentInv'
  BY <1>t DEF Stale, CurrentInv, Quiet
<1>2. \A q : Quiet(q)' <=> Quiet(q)
  BY DEF Quiet
<1>3. /\ line'.type = "terminal" => \A i \in 1..Len(stdout') : stdout'[i].id # line'.id
      /\ \A i, j \in 1..Len(stdout') :
           i < j /\ stdout'[i].type = "terminal" => stdout'[j].id # stdout'[i].id
  BY DEF Stale, QuietInv
<1>4. \A q \in Requests :
           task'[q] \in {"finish", "release"} \/ dispatch'[q] # "done" \/ q \in inbox' => Quiet(q)
  BY DEF Stale, QuietInv
<1>5. \A c \in Callers : c \in woken' \/ rst'[c] = "returned" => Quiet(c[1])
  BY DEF Stale, QuietInv
<1> HIDE DEF Quiet
<1>6. QuietInv'
  BY <1>2, <1>3, <1>4, <1>5 DEF QuietInv
<1> QED BY <1>1, <1>6 DEF Stale

\* Dispatch tasks, resets and shutdown.
LEMMA StaleAround ==
    ASSUME IInv, Stale, UNCHANGED genVars,
           \/ \E r \in Requests : DispatchStep(r)
           \/ \E c \in Callers : ResetStep(c)
           \/ Shutdown
    PROVE  Stale'
<1> USE DEF genVars
<1>t. /\ DOMAIN rst = Callers /\ woken \subseteq Callers
      /\ dispatch \in [Requests -> {"none", "writing", "reset", "done"}]
  BY DEF IInv, TypeOK, SupTypeOK
<1>q. \A q \in Requests : \A i \in 1..Len(chan[q]) : chan[q][i].type = "terminal" => Quiet(q)
  BY DEF Stale, QuietInv
<1>c. \A q \in Requests : <<q, "dispatch">> \in Callers /\ <<q, "dispatch">>[1] = q
  BY DEF Callers
<1>1. ASSUME NEW r \in Requests, DispatchWrite(r) PROVE Stale'
  <2>1. /\ dispatch[r] = "writing" /\ inbox' = inbox \cup {r} /\ dispatch' = [dispatch EXCEPT ![r] = "done"]
        /\ UNCHANGED <<line, stdout, runpc, child, pending, task, rst, woken, chan>>
    BY <1>1 DEF DispatchWrite, workerVars, runVars, resetVars
  <2>2. Quiet(r)
    BY <2>1 DEF Stale, QuietInv
  <2>3. \A q \in Requests : (dispatch'[q] = dispatch[q] /\ (q \in inbox' <=> q \in inbox)) \/ Quiet(q)
    BY <1>t, <2>1, <2>2
  <2> QED BY <1>q, <2>1, <2>3, StaleRequest
<1>2. ASSUME NEW r \in Requests, DispatchFail(r) PROVE Stale'
  <2>1. /\ dispatch[r] = "writing" /\ dispatch' = [dispatch EXCEPT ![r] = "reset"] /\ CallReset(<<r, "dispatch">>)
        /\ UNCHANGED <<line, stdout, runpc, child, inbox, pending, task, woken, chan>>
    BY <1>2 DEF DispatchFail, workerVars, runVars, childVars
  <2>2. Quiet(r)
    BY <2>1 DEF Stale, QuietInv
  <2>3. \A q \in Requests : (dispatch'[q] = dispatch[q] /\ (q \in inbox' <=> q \in inbox)) \/ Quiet(q)
    BY <1>t, <2>1, <2>2
  <2>4. \A d \in Callers : rst'[d] = "returned" => rst[d] = "returned" \/ Quiet(d[1])
    BY <1>t, <1>c, <2>1, <2>2 DEF CallReset
  <2> QED BY <1>q, <2>1, <2>3, <2>4, StaleRequest
<1>3. ASSUME NEW r \in Requests, DispatchEnd(r) PROVE Stale'
  <2>1. /\ dispatch[r] = "reset" /\ dispatch' = [dispatch EXCEPT ![r] = "done"]
        /\ pending' = pending \/ (pending = r /\ pending' = None)
        /\ UNCHANGED <<line, stdout, runpc, child, inbox, task, rst, woken, chan>>
    BY <1>3 DEF DispatchEnd, Release, runVars, childVars, resetVars
  <2>2. Quiet(r)
    BY <2>1 DEF Stale, QuietInv
  <2>3. \A q \in Requests : (dispatch'[q] = dispatch[q] /\ (q \in inbox' <=> q \in inbox)) \/ Quiet(q)
    BY <1>t, <2>1, <2>2
  <2> QED BY <1>q, <2>1, <2>2, <2>3, StaleRequest
<1>4. ASSUME NEW c \in Callers, ResetStep(c) PROVE Stale'
  <2>1. PICK r \in Requests : r = c[1]
    BY DEF Callers
  <2>2. UNCHANGED <<line, stdout, runpc, child, inbox, dispatch, pending, task, chan>>
    BY <1>4 DEF ResetStep, ResetArm, ResetReturn, runVars, childVars, reqVars, workerVars
  <2>3. \A d \in Callers : d \in woken' \/ rst'[d] = "returned" => d \in woken \/ rst[d] = "returned" \/ Quiet(d[1])
    BY <1>t, <1>4 DEF ResetStep, ResetArm, ResetReturn
  <2> QED BY <1>q, <2>2, <2>3, StaleRequest
<1>5. CASE Shutdown
  BY <1>5, StaleUnmoved DEF Stale, Shutdown, runVars, childVars, reqVars, resetVars
<1> QED BY <1>1, <1>2, <1>3, <1>4, <1>5 DEF DispatchStep

\* What a cancel leaves in the channel.
LEMMA CancelChan ==
    ASSUME IInv, NEW r \in Requests, NEW queue \in Seq(Event), Cancel(r, queue)
    PROVE  /\ \A q \in Requests : q # r => chan'[q] = chan[q]
           /\ \/ chan'[r] = queue
              \/ pending = r /\ chan'[r] = Append(queue, Plain("cancelling", r))
           /\ Plain("cancelling", r) \in Event /\ Plain("cancelling", r).type = "cancelling"
           /\ \A i \in 1..Len(chan'[r]) :
                 (i \in 1..Len(queue) /\ chan'[r][i] = queue[i]) \/ chan'[r][i].type = "cancelling"
<1>1. Plain("cancelling", r) \in Event /\ Plain("cancelling", r).type = "cancelling"
  BY EventKinds DEF EventTypes, Plain
<1>2. DOMAIN chan = Requests
  BY DEF IInv, TypeOK, SupTypeOK
<1>3. /\ \A q \in Requests : q # r => chan'[q] = chan[q]
      /\ \/ chan'[r] = queue
         \/ pending = r /\ chan'[r] = Append(queue, Plain("cancelling", r))
  BY <1>2 DEF Cancel
<1>4. \A i \in 1..Len(chan'[r]) :
         (i \in 1..Len(queue) /\ chan'[r][i] = queue[i]) \/ chan'[r][i].type = "cancelling"
  <2>1. CASE chan'[r] = queue
    BY <2>1
  <2>2. CASE chan'[r] = Append(queue, Plain("cancelling", r))
    <3> DEFINE e == Plain("cancelling", r)
    <3>1. /\ \A i \in 1..Len(queue) : Append(queue, e)[i] = queue[i]
          /\ Append(queue, e)[Len(queue) + 1] = e
          /\ \A i \in 1..Len(Append(queue, e)) : i \in 1..Len(queue) \/ i = Len(queue) + 1
      BY <1>1, PushFacts
    <3> QED BY <1>1, <2>2, <3>1
  <2> QED BY <1>3, <2>1, <2>2
<1> QED BY <1>1, <1>3, <1>4

\* Handlers, generation tasks and clients.
LEMMA StaleTask ==
    ASSUME IInv, Stale, NEW r \in Requests, TaskStep(r) \/ ClientStep(r) \/ FaultStep(r)
    PROVE  Stale'
<1>t. /\ DOMAIN task = Requests /\ DOMAIN rst = Callers /\ woken \subseteq Callers
      /\ chan \in [Requests -> Seq(Event)]
      /\ dispatch \in [Requests -> {"none", "writing", "reset", "done"}]
  BY DEF IInv, TypeOK, SupTypeOK, GenTypeOK
<1>q. \A q \in Requests : \A i \in 1..Len(chan[q]) : chan[q][i].type = "terminal" => Quiet(q)
  BY DEF Stale, QuietInv
<1>c. <<r, "task">> \in Callers /\ <<r, "task">>[1] = r /\ <<r, "dispatch">> \in Callers
  BY DEF Callers
<1>p. chan[r] # <<>> => /\ Head(chan[r]).type = "terminal" => Quiet(r)
                        /\ Tail(chan[r]) \in Seq(Event)
                        /\ \A i \in 1..Len(Tail(chan[r])) : Tail(chan[r])[i].type = "terminal" => Quiet(r)
  <2> SUFFICES ASSUME chan[r] # <<>>
               PROVE  /\ Head(chan[r]).type = "terminal" => Quiet(r)
                      /\ Tail(chan[r]) \in Seq(Event)
                      /\ \A i \in 1..Len(Tail(chan[r])) : Tail(chan[r])[i].type = "terminal" => Quiet(r)
    OBVIOUS
  <2>1. chan[r] \in Seq(Event)
    BY <1>t
  <2> QED BY <1>q, <2>1, PopFacts
<1>1. CASE Arrive(r) \/ Claim(r) \/ Begin(r) \/ LoopTop(r) \/ Reply(r) \/ ReplyLost(r)
           \/ ClientRead(r) \/ ClientLeave(r) \/ CancelDeadline(r) \/ BeginError(r)
  <2>1. /\ UNCHANGED <<line, stdout, runpc, child, pending, dispatch, inbox, chan, woken>>
        /\ rst' = rst \/ (CallReset(<<r, "task">>) /\ task[r] \in Owners)
        /\ \A q \in Requests : task'[q] = task[q] \/ (q = r /\ task'[q] \notin {"finish", "release"})
    BY <1>t, <1>1 DEF Arrive, Claim, Begin, LoopTop, Reply, ReplyLost, ClientRead, ClientLeave, CancelDeadline,
                BeginError, Goto, supVars, taskVars, workerVars, runVars, childVars, reqVars, resetVars, Owners
  <2>2. task[r] \in Owners => pending = r
    BY DEF IInv, AdmissionInv
  <2>3. \A d \in Callers : rst'[d] = "returned" => rst[d] = "returned"
    BY <1>t, <1>c, <2>1, <2>2 DEF CallReset
  <2> QED BY <1>q, <2>1, <2>3, StaleRequest
<1>2. CASE Start(r)
  <2>1. /\ UNCHANGED <<line, stdout, runpc, child, inbox, chan, woken>>
        /\ task[r] = "claimed" /\ task' = [task EXCEPT ![r] = "begin"] /\ pending' = r
        /\ rst' = rst \/ rst' = [rst EXCEPT ![<<r, "dispatch">>] = "armed"]
        /\ \A q \in Requests : q # r => dispatch'[q] = dispatch[q]
    BY <1>t, <1>2 DEF Start, Publish, Goto, runVars, childVars
  <2>2. pending = None /\ dispatch[r] = "none"
    BY <2>1 DEF IInv, AdmissionInv, DispatchInv, Early
  <2>3. Quiet(r)
    BY <2>2 DEF Stale, QuietInv
  <2>4. \A d \in Callers : rst'[d] = "returned" => rst[d] = "returned"
    BY <1>t, <1>c, <2>1
  <2>5. \A q \in Requests : (dispatch'[q] = dispatch[q] /\ (q \in inbox' <=> q \in inbox)) \/ Quiet(q)
    BY <2>1, <2>3
  <2>6. \A q \in Requests : task'[q] = task[q] \/ (q = r /\ (task'[q] \in {"finish", "release"} => Quiet(q)))
    BY <1>t, <2>1
  <2> QED BY <1>q, <2>1, <2>2, <2>4, <2>5, <2>6, StaleRequest
<1>3. CASE BeginUndone(r) \/ ReleaseTask(r) \/ Done(r) \/ Abandon(r)
  <2>1. /\ UNCHANGED <<line, stdout, runpc, child, inbox, dispatch, woken, rst>>
        /\ \A q \in Requests : task'[q] = task[q] \/ (q = r /\ task'[q] \notin {"finish", "release"})
        /\ \A q \in Requests : chan'[q] = chan[q] \/ chan'[q] = <<>>
        /\ pending' = pending \/ (Release(r) /\ (rst[<<r, "task">>] = "returned" \/ task[r] = "release"))
    BY <1>t, <1>3 DEF BeginUndone, ReleaseTask, Done, Abandon, DropReceiver, Goto, workerVars, runVars,
                childVars, reqVars, resetVars
  <2>2. rst[<<r, "task">>] = "returned" \/ task[r] = "release" => Quiet(r)
    BY <1>c DEF Stale, QuietInv
  <2>3. \A q \in Requests : \A i \in 1..Len(chan'[q]) : chan'[q][i].type = "terminal" => Quiet(q)
    BY <1>q, <2>1
  <2>4. pending' = pending \/ (pending = r /\ pending' = None /\ Quiet(r))
    BY <2>1, <2>2 DEF Release
  <2> QED BY <2>1, <2>3, <2>4, StaleRequest
<1>4. CASE ResetDone(r) \/ Finish(r) \/ FinishError(r)
  <2>1. /\ UNCHANGED <<line, stdout, runpc, child, inbox, dispatch, woken, rst, pending, chan>>
        /\ \A q \in Requests : task'[q] = task[q] \/ q = r
        /\ rst[<<r, "task">>] = "returned" \/ task[r] = "finish"
    BY <1>t, <1>4 DEF ResetDone, Finish, FinishError, Goto, supVars
  <2>2. Quiet(r)
    BY <1>c, <2>1 DEF Stale, QuietInv
  <2> QED BY <1>q, <2>1, <2>2, StaleRequest
<1>5. CASE RecvTerminal(r)
  <2>1. /\ UNCHANGED <<line, stdout, runpc, child, inbox, dispatch, woken, rst, pending>>
        /\ chan[r] # <<>> /\ Head(chan[r]).type = "terminal" /\ chan' = [chan EXCEPT ![r] = Tail(@)]
        /\ \A q \in Requests : task'[q] = task[q] \/ q = r
    BY <1>t, <1>5 DEF RecvTerminal, CanRecv, Goto, workerVars, runVars, childVars, resetVars
  <2>2. Quiet(r)
    BY <1>p, <2>1
  <2>3. \A q \in Requests : \A i \in 1..Len(chan'[q]) : chan'[q][i].type = "terminal" => Quiet(q)
    BY <1>q, <1>t, <2>1, <2>2
  <2> QED BY <2>1, <2>2, <2>3, StaleRequest
<1>6. CASE RecvEvent(r)
  <2>1. /\ UNCHANGED <<line, stdout, runpc, child, inbox, dispatch, woken, rst, pending>>
        /\ chan[r] # <<>> /\ chan' = [chan EXCEPT ![r] = Tail(@)]
        /\ \A q \in Requests : task'[q] = task[q] \/ (q = r /\ task'[q] \notin {"finish", "release"})
    BY <1>t, <1>6 DEF RecvEvent, CanRecv, Goto, workerVars, runVars, childVars, resetVars
  <2>2. \A q \in Requests : \A i \in 1..Len(chan'[q]) : chan'[q][i].type = "terminal" => Quiet(q)
    BY <1>p, <1>q, <1>t, <2>1
  <2> QED BY <2>1, <2>2, StaleRequest
<1>7. ASSUME NEW queue \in Seq(Event), Cancel(r, queue),
             \A i \in 1..Len(queue) : queue[i].type = "terminal" => Quiet(r)
      PROVE  \A q \in Requests : \A i \in 1..Len(chan'[q]) : chan'[q][i].type = "terminal" => Quiet(q)
  BY <1>q, <1>7, CancelChan
<1>8. CASE Backpressure(r) \/ GiveUp(r) \/ UserCancel(r)
  <2>1. /\ UNCHANGED <<line, stdout, runpc, child, inbox, dispatch, woken, rst, pending>>
        /\ \A q \in Requests : task'[q] = task[q] \/ (q = r /\ task'[q] \notin {"finish", "release"})
        /\ Cancel(r, chan[r]) \/ (chan[r] # <<>> /\ Cancel(r, Tail(chan[r])))
    BY <1>t, <1>8 DEF Backpressure, GiveUp, UserCancel, ForceFailure, CanRecv, Goto, workerVars, runVars,
                childVars, resetVars, taskVars
  <2>2. \A q \in Requests : \A i \in 1..Len(chan'[q]) : chan'[q][i].type = "terminal" => Quiet(q)
    BY <1>t, <1>p, <1>q, <1>7, <2>1
  <2> QED BY <2>1, <2>2, StaleRequest
<1> QED BY <1>1, <1>2, <1>3, <1>4, <1>5, <1>6, <1>8 DEF TaskStep, ClientStep, FaultStep

\* At the start there is nothing to read; every step keeps it that way.
LEMMA StaleInit == Init => Stale
<1> SUFFICES ASSUME Init PROVE Stale
  OBVIOUS
<1>1. /\ stdout = <<>> /\ line = NoLine /\ NoLine.id = None /\ NoLine.type = "garbage" /\ woken = {}
      /\ \A c \in Callers : rst[c] = "idle"
      /\ \A r \in Requests : Len(chan[r]) = 0
  BY DEF Init, SupInit, NoLine, Plain
<1> QED BY <1>1, SupervisorAssumption DEF Stale, CurrentInv, QuietInv, Quiet, Callers

LEMMA StaleNext ==
    ASSUME IInv, Stale, [Next]_vars
    PROVE  Stale'
<1>1. CASE UNCHANGED vars
  BY <1>1, StaleUnmoved DEF Stale, vars, supVars, genVars
<1>2. CASE SupNext /\ UNCHANGED genVars
  BY <1>2, StaleRun, StaleChild, StaleAround DEF SupNext
<1>3. ASSUME NEW r \in Requests, TaskStep(r) \/ ClientStep(r) \/ FaultStep(r) PROVE Stale'
  BY <1>3, StaleTask
<1> QED BY <1>1, <1>2, <1>3 DEF Next

LEMMA StaleHolds == Spec => []Stale
<1> QED BY Inductive, StaleInit, StaleNext, PTL DEF Spec

\* A child is never killed because an event of an earlier request meets a later
\* one: whatever run() has read belongs to the pending request, so the id check
\* of `run` (worker.rs:268-279) never hits a well-behaved child.
THEOREM EventsAreCurrent == Spec => []NoStaleEvent
<1>1. Stale => NoStaleEvent
  BY DEF Stale, CurrentInv, NoStaleEvent
<1> QED BY StaleHolds, <1>1, PTL

-----------------------------------------------------------------------------
\* The rows of the store.

LEMMA RowNext ==
    ASSUME IInv, RowInv, [Next]_vars
    PROVE  RowInv'
<1>t. DOMAIN task = Requests /\ DOMAIN row = Requests /\ DOMAIN terminal = Requests
  BY DEF IInv, TypeOK, GenTypeOK
<1>1. CASE UNCHANGED genVars
  BY <1>1 DEF RowInv, genVars
<1>2. ASSUME NEW r \in Requests, TaskStep(r) \/ ClientStep(r) \/ FaultStep(r) PROVE RowInv'
  <2>u. UNCHANGED <<row, terminal, task>> => RowInv'
    BY DEF RowInv
  <2>m. ASSUME NEW pc, UNCHANGED <<row, terminal>>, task' = [task EXCEPT ![r] = pc],
               row[r] = "in_progress" =>
                   pc \in {"top", "select", "reset", "finish", "abandoned"} \/ terminal[r].storage,
               terminal[r].storage => pc \in {"release", "reply", "done"},
               pc \in {"release", "reply", "done"} => task[r] \in {"release", "reply", "done"}
        PROVE  RowInv'
    BY <1>t, <2>m DEF RowInv
  <2>1. CASE Arrive(r) \/ Claim(r) \/ Start(r) \/ BeginError(r) \/ BeginUndone(r)
    <3>1. /\ UNCHANGED <<row, terminal>> /\ task[r] \in {"idle", "checked", "claimed", "begin", "undo"}
          /\ \E pc \in {"checked", "claimed", "begin", "undo", "rejected"} : task' = [task EXCEPT ![r] = pc]
      BY <2>1 DEF Arrive, Claim, Start, BeginError, BeginUndone, Goto
    <3>2. row[r] # "in_progress" /\ ~terminal[r].storage
      BY <3>1 DEF RowInv, IInv, TypeOK, GenTypeOK, Endings
    <3> QED BY <2>m, <3>1, <3>2
  <2>2. CASE Begin(r)
    BY <1>t, <2>2 DEF RowInv, Begin, Goto
  <2>3. CASE LoopTop(r) \/ GiveUp(r) \/ RecvEvent(r) \/ Backpressure(r) \/ CancelDeadline(r) \/ Abandon(r)
    <3>1. /\ UNCHANGED <<row, terminal>> /\ task[r] \in {"top", "select", "begin"}
          /\ \E pc \in {"top", "select", "reset", "abandoned"} : task' = [task EXCEPT ![r] = pc]
      BY <2>3 DEF LoopTop, GiveUp, RecvEvent, Backpressure, CancelDeadline, Abandon, ForceFailure, CanRecv, Goto
    <3>2. ~terminal[r].storage
      BY <3>1 DEF RowInv, IInv, TypeOK, GenTypeOK, Endings
    <3> QED BY <2>m, <3>1, <3>2
  <2>4. CASE ResetDone(r) \/ RecvTerminal(r)
    <3>1. /\ UNCHANGED row /\ task' = [task EXCEPT ![r] = "finish"]
          /\ \E s, n : terminal' = [terminal EXCEPT ![r] = Ending(s, n, FALSE)]
      BY <2>4 DEF ResetDone, RecvTerminal, Goto
    <3>2. terminal'[r].storage = FALSE
      BY <1>t, <3>1 DEF Ending
    <3> QED BY <1>t, <3>1, <3>2 DEF RowInv
  <2>5. CASE Finish(r)
    <3>1. terminal[r].status # "in_progress" /\ task' = [task EXCEPT ![r] = "release"]
          /\ row' = [row EXCEPT ![r] = terminal[r].status] /\ UNCHANGED terminal
      BY <2>5 DEF Finish, Goto, IInv, TypeOK, GenTypeOK, Endings, Outcomes
    <3> QED BY <1>t, <3>1 DEF RowInv
  <2>6. CASE FinishError(r)
    <3>1. /\ task' = [task EXCEPT ![r] = "release"] /\ terminal' = [terminal EXCEPT ![r] = Ending("failed", 0, TRUE)]
          /\ \A q \in Requests : q # r => row'[q] = row[q]
      BY <1>t, <2>6 DEF FinishError, Goto
    <3>2. terminal'[r].storage = TRUE /\ ~Success(terminal'[r].status)
      BY <1>t, <3>1 DEF Ending, Success
    <3> QED BY <1>t, <3>1, <3>2 DEF RowInv
  <2>7. CASE ReleaseTask(r) \/ Done(r)
    <3>1. /\ UNCHANGED <<row, terminal>> /\ task[r] \in {"release", "reply"}
          /\ \E pc \in {"reply", "done"} : task' = [task EXCEPT ![r] = pc]
      BY <2>7 DEF ReleaseTask, Done, Goto
    <3> QED BY <1>t, <3>1 DEF RowInv
  <2>8. CASE Reply(r) \/ ReplyLost(r) \/ ClientRead(r) \/ ClientLeave(r) \/ UserCancel(r)
    BY <2>8, <2>u DEF Reply, ReplyLost, ClientRead, ClientLeave, UserCancel, taskVars
  <2> QED BY <1>2, <2>1, <2>2, <2>3, <2>4, <2>5, <2>6, <2>7, <2>8 DEF TaskStep, ClientStep, FaultStep
<1> QED BY <1>1, <1>2 DEF Next, vars

LEMMA RowsHold == Spec => []RowInv
<1>1. ASSUME Init PROVE RowInv
  <2>1. \A r \in Requests : row[r] = "absent" /\ task[r] = "idle" /\ terminal[r].storage = FALSE
    BY <1>1 DEF Init, GenInit, Ending
  <2> QED BY <2>1 DEF RowInv
<1> QED BY Inductive, <1>1, RowNext, PTL DEF Spec

\* No row stays in progress behind the admission: whenever nobody holds it,
\* every row that is still in progress is of a task that was dropped, or of one
\* whose update SQLite refused twice.
THEOREM RowsAreClosed == Spec => []NoOrphanRow
<1>1. IInv /\ RowInv => NoOrphanRow
  BY SupervisorAssumption DEF IInv, AdmissionInv, RowInv, NoOrphanRow, Owners
<1> QED BY Inductive, RowsHold, <1>1, PTL

-----------------------------------------------------------------------------
\* Before a child takes a request, and behind its terminal.

\* What a channel may get in one step.
LEMMA ChanMoves ==
    ASSUME IInv, Stale, [Next]_vars, NEW r \in Requests
    PROVE  \/ chan'[r] \in {chan[r], <<>>}
           \/ chan[r] # <<>> /\ chan'[r] = Tail(chan[r])
           \/ \E e \in Event :
                 /\ chan'[r] = Append(chan[r], e) \/ (chan[r] # <<>> /\ chan'[r] = Append(Tail(chan[r]), e))
                 /\ e.type = "cancelling" \/ (chan'[r] = Append(chan[r], e) /\ ((e = line /\ line.id = r /\ runpc = "send")
                       \/ (e = Terminal(r, "failed", 0) /\ runpc = "notify" /\ held = r)))
<1>t. DOMAIN chan = Requests /\ line \in Event /\ chan[r] \in Seq(Event)
  BY DEF IInv, TypeOK, SupTypeOK
<1>1. CASE UNCHANGED chan
  BY <1>1
<1>2. CASE RunSend
  <2>1. /\ held \in Requests /\ line.id = held /\ runpc = "send"
        /\ chan' = [chan EXCEPT ![held] = Append(@, line)]
    BY <1>2 DEF RunSend, IInv, ChildInv
  <2> QED BY <1>t, <2>1
<1>3. CASE RunNotify
  <2>1. held \in Requests /\ runpc = "notify"
    BY <1>3 DEF RunNotify, IInv, ChildInv
  <2>2. chan' = chan \/ chan' = [chan EXCEPT ![held] = Append(@, Terminal(held, "failed", 0))]
    BY <1>3 DEF RunNotify
  <2>3. Terminal(held, "failed", 0) \in Event
    BY <2>1, EventKinds, SupervisorAssumption DEF Outcomes
  <2> QED BY <1>t, <2>1, <2>2, <2>3
<1>4. ASSUME NEW q \in Requests, RecvTerminal(q) \/ RecvEvent(q) PROVE chan[q] # <<>> /\ chan' = [chan EXCEPT ![q] = Tail(@)]
  BY <1>4 DEF RecvTerminal, RecvEvent, CanRecv
<1>5. ASSUME NEW q \in Requests, BeginUndone(q) \/ Done(q) \/ Abandon(q) PROVE chan' = [chan EXCEPT ![q] = <<>>]
  BY <1>5 DEF BeginUndone, Done, Abandon, DropReceiver
<1>6. ASSUME NEW q \in Requests, Backpressure(q) \/ GiveUp(q) \/ UserCancel(q)
      PROVE  Cancel(q, chan[q]) \/ (chan[q] # <<>> /\ Cancel(q, Tail(chan[q])))
  BY <1>6 DEF Backpressure, GiveUp, UserCancel, CanRecv
<1>7. ASSUME NEW q \in Requests, NEW queue \in Seq(Event), Cancel(q, queue),
             queue = chan[q] \/ (chan[q] # <<>> /\ queue = Tail(chan[q]))
      PROVE  \/ q # r /\ chan'[r] = chan[r]
             \/ q = r /\ chan'[r] = queue
             \/ q = r /\ \E e \in Event : e.type = "cancelling" /\ chan'[r] = Append(queue, e)
  <2>1. /\ q # r => chan'[r] = chan[r]
        /\ chan'[q] = queue \/ chan'[q] = Append(queue, Plain("cancelling", q))
        /\ Plain("cancelling", q) \in Event /\ Plain("cancelling", q).type = "cancelling"
    BY <1>7, CancelChan
  <2> QED BY <2>1
<1>8. \A q \in Requests : chan[q] \in Seq(Event) /\ (chan[q] # <<>> => Tail(chan[q]) \in Seq(Event))
  BY PopFacts DEF IInv, TypeOK, SupTypeOK
<1>9. ASSUME NEW q \in Requests, TaskStep(q) \/ ClientStep(q) \/ FaultStep(q)
      PROVE  \/ UNCHANGED chan \/ RecvTerminal(q) \/ RecvEvent(q) \/ BeginUndone(q) \/ Done(q) \/ Abandon(q)
             \/ Backpressure(q) \/ GiveUp(q) \/ UserCancel(q)
  BY <1>9 DEF TaskStep, ClientStep, FaultStep, Claim, Start, Begin, LoopTop, CancelDeadline, ResetDone, Finish,
              ReleaseTask, Reply, ReplyLost, Arrive, ClientRead, ClientLeave, BeginError, FinishError,
              supVars, workerVars, reqVars
<1>10. ASSUME SupNext
       PROVE  UNCHANGED chan \/ RunSend \/ RunNotify
  BY <1>10 DEF SupNext, RunStep, RunStop, RunSpawn, RunSpawnError, RunLoop, RunPermit, RunDisconnected, RunRead,
     RunLine, RunSendFail, RunReap, RunAnnounce, RunLost, RunPause, RunPauseReset, RunWake,
     ChildStep, ChildReady, ChildTake, ChildStarted, ChildDelta, ChildTerminal, ChildDie, ChildGarble,
     DispatchStep, DispatchWrite, DispatchFail, DispatchEnd, ResetStep, ResetArm, ResetReturn, Shutdown, reqVars
<1>11. ASSUME NEW q \in Requests, TaskStep(q) \/ ClientStep(q) \/ FaultStep(q)
       PROVE  \/ chan'[r] \in {chan[r], <<>>}
              \/ chan[r] # <<>> /\ chan'[r] = Tail(chan[r])
              \/ \E e \in Event :
                    /\ chan'[r] = Append(chan[r], e) \/ (chan[r] # <<>> /\ chan'[r] = Append(Tail(chan[r]), e))
                    /\ e.type = "cancelling"
  <2>1. CASE UNCHANGED chan
    BY <2>1
  <2>2. CASE RecvTerminal(q) \/ RecvEvent(q)
    BY <1>t, <1>4, <2>2
  <2>3. CASE BeginUndone(q) \/ Done(q) \/ Abandon(q)
    BY <1>t, <1>5, <2>3
  <2>4. CASE Backpressure(q) \/ GiveUp(q) \/ UserCancel(q)
    <3>1. CASE Cancel(q, chan[q])
      BY <1>7, <1>8, <3>1
    <3>2. CASE chan[q] # <<>> /\ Cancel(q, Tail(chan[q]))
      BY <1>7, <1>8, <3>2
    <3> QED BY <1>6, <2>4, <3>1, <3>2
  <2> QED BY <1>9, <1>11, <2>1, <2>2, <2>3, <2>4
<1> QED BY <1>1, <1>2, <1>3, <1>10, <1>11 DEF Next, vars, supVars

\* In a channel no piece follows a terminal.
LEMMA OrderNext ==
    ASSUME IInv, Stale, OrderInv, [Next]_vars
    PROVE  OrderInv'
<1> SUFFICES ASSUME NEW r \in Requests, NEW i \in 1..Len(chan'[r]), NEW j \in 1..Len(chan'[r]), i < j,
                    chan'[r][i].type = "terminal"
             PROVE  chan'[r][j].type # "delta"
  BY DEF OrderInv
<1>t. chan[r] \in Seq(Event)
  BY DEF IInv, TypeOK, SupTypeOK
<1>o. \A k, l \in 1..Len(chan[r]) : k < l /\ chan[r][k].type = "terminal" => chan[r][l].type # "delta"
  BY DEF OrderInv
<1>1. CASE chan'[r] \in {chan[r], <<>>}
  BY <1>1, <1>o
<1>2. CASE chan[r] # <<>> /\ chan'[r] = Tail(chan[r])
  <2>1. /\ i + 1 \in 1..Len(chan[r]) /\ j + 1 \in 1..Len(chan[r]) /\ i + 1 < j + 1
        /\ chan'[r][i] = chan[r][i + 1] /\ chan'[r][j] = chan[r][j + 1]
    BY <1>t, <1>2, PopFacts
  <2> QED BY <1>o, <2>1
<1>3. ASSUME NEW e \in Event, chan'[r] = Append(chan[r], e),
             e.type = "cancelling" \/ (e = line /\ line.id = r) \/ e = Terminal(r, "failed", 0)
      PROVE  chan'[r][j].type # "delta"
  <2>1. /\ Len(chan[r]) \in Nat /\ Len(chan'[r]) = Len(chan[r]) + 1
        /\ \A k \in 1..Len(chan[r]) : chan'[r][k] = chan[r][k]
        /\ chan'[r][Len(chan[r]) + 1] = e
    BY <1>t, <1>3, PushFacts
  <2>2. i \in 1..Len(chan[r]) /\ chan'[r][i] = chan[r][i]
    BY <2>1
  <2>3. CASE j \in 1..Len(chan[r])
    BY <1>o, <2>1, <2>2, <2>3
  <2>4. CASE j = Len(chan[r]) + 1
    <3>1. Quiet(r)
      BY <2>2 DEF Stale, QuietInv
    <3>2. e.type # "delta"
      BY <1>3, <3>1 DEF Quiet, Terminal
    <3> QED BY <2>1, <2>4, <3>2
  <2> QED BY <2>1, <2>3, <2>4
<1>4. ASSUME NEW e \in Event, e.type = "cancelling", chan[r] # <<>>, chan'[r] = Append(Tail(chan[r]), e)
      PROVE  chan'[r][j].type # "delta"
  <2> DEFINE t == Tail(chan[r])
  <2>1. /\ t \in Seq(Event) /\ \A k \in 1..Len(t) : k + 1 \in 1..Len(chan[r]) /\ t[k] = chan[r][k + 1]
    BY <1>t, <1>4, PopFacts
  <2>2. /\ Len(t) \in Nat /\ Len(chan'[r]) = Len(t) + 1
        /\ \A k \in 1..Len(t) : chan'[r][k] = t[k]
        /\ chan'[r][Len(t) + 1] = e
    BY <1>4, <2>1, PushFacts
  <2>3. i \in 1..Len(t) /\ chan'[r][i] = t[i]
    BY <2>2
  <2> HIDE DEF t
  <2>4. CASE j \in 1..Len(t)
    <3>1. /\ i + 1 \in 1..Len(chan[r]) /\ j + 1 \in 1..Len(chan[r]) /\ i + 1 < j + 1
          /\ chan'[r][i] = chan[r][i + 1] /\ chan'[r][j] = chan[r][j + 1]
      BY SMTT(30), <2>1, <2>2, <2>3, <2>4
    <3> QED BY <1>o, <3>1
  <2>5. CASE j = Len(t) + 1
    BY <1>4, <2>2, <2>5
  <2> QED BY <2>2, <2>4, <2>5
<1> QED BY <1>1, <1>2, <1>3, <1>4, ChanMoves

\* A request no child has taken yet.
Fresh(r) == dispatch[r] \in {"none", "writing"} \/ r \in inbox

\* A fresh request was one before, its task is not at its end, and it has
\* nothing in run()'s hands.
LEMMA FreshBefore ==
    ASSUME IInv, Stale, NEW r \in Requests, Fresh(r)
    PROVE  /\ task[r] \notin {"finish", "release", "reply", "done"}
           /\ Quiet(r) /\ child.job # r
           /\ ~(runpc = "send" /\ line.id = r) /\ ~(runpc = "notify" /\ held = r)
<1>1. dispatch[r] = "none" => task[r] \in Early \cup {"rejected"}
  BY DEF IInv, DispatchInv
<1>2. dispatch[r] # "none" => Engaged(r)
  BY DEF Fresh, Engaged
<1>3. Engaged(r) => pending = r /\ task[r] \in Owners \cup {"abandoned"}
  BY DEF IInv, OverInv, AdmissionInv
<1>4. task[r] \in {"finish", "release"} => Over(r)
  BY DEF IInv, OverInv
<1>5. task[r] \notin {"finish", "release", "reply", "done"}
  BY <1>1, <1>2, <1>3, <1>4 DEF Fresh, Over, Owners, Early
<1>6. Quiet(r)
  BY DEF Stale, QuietInv, Fresh
<1>7. child.job # r
  BY DEF IInv, DispatchInv, Fresh
<1>8. runpc = "notify" => inbox = {} /\ dispatch[r] # "writing" /\ dispatch[held] # "none"
  BY DEF IInv, ChildInv, Childless
<1> QED BY <1>5, <1>6, <1>7, <1>8 DEF Fresh, Quiet

\* Nothing becomes fresh again.
LEMMA FreshShrinks ==
    ASSUME IInv, [Next]_vars, NEW r \in Requests, Fresh(r)'
    PROVE  Fresh(r)
<1>t. dispatch \in [Requests -> {"none", "writing", "reset", "done"}]
  BY DEF IInv, TypeOK, SupTypeOK
<1>1. CASE UNCHANGED <<dispatch, inbox>>
  BY <1>1 DEF Fresh
<1>2. ASSUME NEW q \in Requests, DispatchStep(q) PROVE Fresh(r)
  BY <1>2, <1>t DEF DispatchStep, DispatchWrite, DispatchFail, DispatchEnd, Fresh, childVars
<1>3. ASSUME NEW q \in Requests, Start(q) PROVE Fresh(r)
  <2>1. dispatch[q] = "none"
    BY <1>3 DEF Start, IInv, DispatchInv, Early
  <2> QED BY <1>3, <1>t, <2>1 DEF Start, Publish, Fresh, childVars
<1>4. ASSUME NEW q \in Requests, ChildTake(q) PROVE Fresh(r)
  BY <1>4 DEF ChildTake, Fresh, reqVars
<1>5. CASE ChildDie \/ RunReap
  BY <1>5 DEF ChildDie, RunReap, Fresh, reqVars
<1>6. ASSUME NEW q \in Requests, TaskStep(q) \/ ClientStep(q) \/ FaultStep(q)
      PROVE  UNCHANGED <<dispatch, inbox>> \/ Start(q)
  BY <1>6 DEF TaskStep, ClientStep, FaultStep, Claim, Begin, LoopTop, CancelDeadline, ResetDone, Finish,
              ReleaseTask, Reply, ReplyLost, Arrive, ClientRead, ClientLeave, BeginError, FinishError,
              RecvTerminal, RecvEvent, Backpressure, GiveUp, UserCancel, BeginUndone, Done, Abandon,
              supVars, workerVars, reqVars, childVars
<1>7. ASSUME SupNext
      PROVE  UNCHANGED <<dispatch, inbox>> \/ RunReap \/ ChildDie \/ (\E q \in Requests : ChildTake(q) \/ DispatchStep(q))
  BY <1>7 DEF SupNext, RunStep, RunStop, RunSpawn, RunSpawnError, RunLoop, RunPermit, RunDisconnected, RunRead,
     RunLine, RunSend, RunSendFail, RunAnnounce, RunLost, RunNotify, RunPause, RunPauseReset, RunWake,
     ChildStep, ChildReady, ChildStarted, ChildDelta, ChildTerminal, ChildGarble,
     ResetStep, ResetArm, ResetReturn, Shutdown, reqVars, childVars
<1> QED BY <1>1, <1>2, <1>3, <1>4, <1>5, <1>6, <1>7 DEF Next, vars, supVars

\* Who touches what a client has, its stream and its verdict.
LEMMA StreamMovers ==
    ASSUME [Next]_vars
    PROVE  \/ UNCHANGED <<got, out>>
           \/ \E q \in Requests : RecvEvent(q) \/ Reply(q) \/ Done(q) \/ ClientRead(q)
<1>1. CASE UNCHANGED genVars
  BY <1>1 DEF genVars
<1>2. ASSUME NEW q \in Requests, TaskStep(q) \/ ClientStep(q) \/ FaultStep(q)
      PROVE  UNCHANGED <<got, out>> \/ RecvEvent(q) \/ Reply(q) \/ Done(q) \/ ClientRead(q)
  BY <1>2 DEF TaskStep, ClientStep, FaultStep, Claim, Start, Begin, LoopTop, CancelDeadline, ResetDone, Finish,
              ReleaseTask, ReplyLost, Arrive, ClientLeave, BeginError, FinishError,
              RecvTerminal, Backpressure, GiveUp, UserCancel, BeginUndone, Abandon, clientVars
<1> QED BY <1>1, <1>2 DEF Next, vars

\* Before a child took the request its channel can only hold a user's cancel.
LEMMA FreshNext ==
    ASSUME IInv, Stale, FreshInv, [Next]_vars
    PROVE  FreshInv'
<1> SUFFICES ASSUME NEW r \in Requests, Fresh(r)'
             PROVE  (/\ got[r] = 0 /\ out[r] = <<>>
                     /\ \A i \in 1..Len(chan[r]) : chan[r][i].type = "cancelling")'
  BY DEF FreshInv, Fresh
<1>t. /\ chan[r] \in Seq(Event) /\ DOMAIN out = Requests /\ DOMAIN got = Requests
  BY DEF IInv, TypeOK, SupTypeOK, GenTypeOK
<1>1. Fresh(r)
  BY FreshShrinks
<1>2. /\ task[r] \notin {"finish", "release", "reply", "done"}
      /\ ~(runpc = "send" /\ line.id = r) /\ ~(runpc = "notify" /\ held = r)
  BY <1>1, FreshBefore
<1>3. /\ got[r] = 0 /\ out[r] = <<>>
      /\ \A i \in 1..Len(chan[r]) : chan[r][i].type = "cancelling"
  BY <1>1 DEF FreshInv, Fresh
<1>4. \A i \in 1..Len(chan'[r]) : chan'[r][i].type = "cancelling"
  <2>1. CASE chan'[r] \in {chan[r], <<>>}
    BY <1>3, <2>1
  <2>2. CASE chan[r] # <<>> /\ chan'[r] = Tail(chan[r])
    BY <1>t, <1>3, <2>2, PopFacts
  <2>3. ASSUME NEW e \in Event, e.type = "cancelling", NEW q \in Seq(Event), chan'[r] = Append(q, e),
               \A i \in 1..Len(q) : q[i].type = "cancelling"
        PROVE  \A i \in 1..Len(chan'[r]) : chan'[r][i].type = "cancelling"
    BY <2>3, PushFacts
  <2>4. chan[r] # <<>> => /\ Tail(chan[r]) \in Seq(Event)
                          /\ \A i \in 1..Len(Tail(chan[r])) : Tail(chan[r])[i].type = "cancelling"
    BY <1>t, <1>3, PopFacts
  <2>5. \/ chan'[r] \in {chan[r], <<>>}
        \/ chan[r] # <<>> /\ chan'[r] = Tail(chan[r])
        \/ \E e \in Event : /\ e.type = "cancelling"
                            /\ chan'[r] = Append(chan[r], e) \/ (chan[r] # <<>> /\ chan'[r] = Append(Tail(chan[r]), e))
    BY <1>2, ChanMoves
  <2> QED BY <1>t, <1>3, <2>1, <2>2, <2>3, <2>4, <2>5
<1>5. got'[r] = 0 /\ out'[r] = <<>>
  <2>1. ASSUME NEW q \in Requests, RecvEvent(q) PROVE got'[r] = 0 /\ out'[r] = <<>>
    <3>1. CASE q # r
      BY <1>t, <1>3, <2>1, <3>1 DEF RecvEvent
    <3>2. CASE q = r
      <4>1. Head(chan[r]).type = "cancelling"
        BY <1>t, <1>3, <2>1, <3>2, PopFacts DEF RecvEvent, CanRecv
      <4>2. Frame(r, Head(chan[r])) = None
        BY <4>1 DEF Frame
      <4> QED BY <1>t, <1>3, <2>1, <3>2, <4>2 DEF RecvEvent
    <3> QED BY <3>1, <3>2
  <2>2. ASSUME NEW q \in Requests, Reply(q) \/ Done(q) \/ ClientRead(q) PROVE got'[r] = 0 /\ out'[r] = <<>>
    <3>1. q # r
      BY <1>2, <1>3, <2>2 DEF Reply, Done, ClientRead
    <3> QED BY <1>t, <1>3, <2>2, <3>1 DEF Reply, Done, ClientRead
  <2> QED BY <1>3, <2>1, <2>2, StreamMovers
<1> QED BY <1>4, <1>5

-----------------------------------------------------------------------------
\* The frames of a stream and the verdict of its client.

\* The frames of the end follow the pieces, and only a success is finished.
LEMMA FrameNext ==
    ASSUME IInv, FrameInv, [Next]_vars
    PROVE  FrameInv'
<1>t. /\ DOMAIN task = Requests /\ DOMAIN terminal = Requests /\ DOMAIN out = Requests
      /\ DOMAIN todo = Requests /\ DOMAIN verdict = Requests
      /\ \A q \in Requests : out[q] \in Seq(Frames) /\ todo[q] \in Seq(Frames)
  BY DEF IInv, TypeOK, GenTypeOK
<1>n. None \notin {"success", "error"} /\ None \notin Frames
  BY NoneAssumption
<1> DEFINE Part(q) ==
       /\ q \notin Streaming => out[q] = <<>> /\ todo[q] = <<>>
       /\ task[q] \notin {"reply", "done"} =>
              /\ todo[q] = <<>> /\ verdict[q] # "success"
              /\ \A i \in 1..Len(out[q]) : out[q][i] \in {"role", "delta"}
       /\ todo[q] \in {<<>>, <<"error">>, <<"finish">>, <<"text", "finish">>}
       /\ todo[q] \in {<<"finish">>, <<"text", "finish">>} => Success(terminal[q].status)
       /\ todo[q] = <<"text", "finish">> => q \notin sawDelta
       /\ \A i \in 1..Len(out[q]) :
              /\ out[q][i] = "finish" => i = Len(out[q]) /\ todo[q] = <<>> /\ Success(terminal[q].status)
              /\ out[q][i] = "text" => q \notin sawDelta
              /\ out[q][i] = "delta" => q \in sawDelta
       /\ verdict[q] = "success" =>
              out[q] = <<>> /\ todo[q] = <<>> /\ Success(terminal[q].status)
<1>i. \A q \in Requests : Part(q)
  BY DEF FrameInv
<1>o. ASSUME NEW r \in Requests, Part(r)',
             \A q \in Requests : q # r =>
                /\ task'[q] = task[q] /\ terminal'[q] = terminal[q] /\ out'[q] = out[q] /\ todo'[q] = todo[q]
                /\ verdict'[q] = verdict[q] /\ (q \in sawDelta' <=> q \in sawDelta)
      PROVE  FrameInv'
  <2>1. \A q \in Requests : q # r => Part(q)'
    BY <1>i, <1>o
  <2> QED BY <1>o, <2>1 DEF FrameInv
\* Before the reply only the frames of the pieces and of the opening exist.
<1>e. ASSUME NEW r \in Requests, task[r] \notin {"reply", "done"}, task'[r] \notin {"reply", "done"},
             out'[r] = out[r], todo'[r] = todo[r], verdict'[r] \in {verdict[r], "error"},
             r \in sawDelta => r \in sawDelta'
      PROVE  Part(r)'
  <2>1. /\ todo'[r] = <<>> /\ verdict'[r] # "success"
        /\ \A i \in 1..Len(out'[r]) : out'[r][i] \in {"role", "delta"}
    BY <1>i, <1>e
  <2>2. \A i \in 1..Len(out'[r]) : out'[r][i] = "delta" => r \in sawDelta'
    BY <1>i, <1>e
  <2>3. r \notin Streaming => out'[r] = <<>>
    BY <1>i, <1>e
  <2> QED BY <2>1, <2>2, <2>3
<1>1. CASE UNCHANGED genVars
  BY <1>1 DEF FrameInv, genVars
<1>2. ASSUME NEW r \in Requests, TaskStep(r) \/ ClientStep(r) \/ FaultStep(r) PROVE FrameInv'
  <2>1. CASE Arrive(r) \/ Claim(r) \/ BeginError(r) \/ Start(r) \/ Begin(r) \/ BeginUndone(r)
             \/ LoopTop(r) \/ GiveUp(r) \/ CancelDeadline(r) \/ Abandon(r)
    <3>1. /\ UNCHANGED <<terminal, out, todo, sawDelta>> /\ task[r] \notin {"reply", "done"}
          /\ verdict' = verdict \/ verdict' = [verdict EXCEPT ![r] = "error"]
          /\ \E pc : pc \notin {"reply", "done"} /\ task' = [task EXCEPT ![r] = pc]
      BY <2>1 DEF Arrive, Claim, BeginError, Start, Begin, BeginUndone, LoopTop, GiveUp, CancelDeadline, Abandon,
                  ForceFailure, Goto, clientVars
    <3>2. Part(r)'
      BY <1>i, <1>t, <3>1
    <3> QED BY <1>o, <1>t, <3>1, <3>2
  <2>2. CASE ResetDone(r) \/ RecvTerminal(r) \/ Finish(r) \/ FinishError(r)
    <3>1. /\ UNCHANGED <<out, todo, sawDelta, verdict>> /\ task[r] \notin {"reply", "done"}
          /\ terminal' = terminal \/ \E e : terminal' = [terminal EXCEPT ![r] = e]
          /\ \E pc : pc \notin {"reply", "done"} /\ task' = [task EXCEPT ![r] = pc]
      BY <2>2 DEF ResetDone, RecvTerminal, Finish, FinishError, Goto, clientVars, CanRecv
    <3>2. Part(r)'
      BY <1>e, <1>t, <3>1
    <3>3. \A q \in Requests : q # r => terminal'[q] = terminal[q]
      BY <1>t, <3>1
    <3> QED BY <1>o, <1>t, <3>1, <3>2, <3>3
  <2>3. CASE RecvEvent(r)
    <3> DEFINE f == Frame(r, Head(chan[r]))
    <3>1. /\ UNCHANGED <<todo, verdict, terminal>> /\ task[r] = "select" /\ task' = [task EXCEPT ![r] = "top"]
          /\ \/ UNCHANGED <<out, sawDelta>>
             \/ f # None /\ out' = [out EXCEPT ![r] = Append(@, f)]
                /\ sawDelta' = (IF f = "delta" THEN sawDelta \cup {r} ELSE sawDelta)
      <4>1. /\ UNCHANGED <<todo, verdict, terminal>> /\ task[r] = "select" /\ task' = [task EXCEPT ![r] = "top"]
        BY <2>3 DEF RecvEvent, CanRecv, Goto
      <4>2. CASE forced[r] = None /\ f # None
        BY <2>3, <4>1, <4>2 DEF RecvEvent
      <4>3. CASE ~(forced[r] = None /\ f # None)
        <5>1. UNCHANGED out
          BY <2>3, <4>3 DEF RecvEvent
        <5>2. UNCHANGED sawDelta
          BY <1>n, <2>3, <4>3 DEF RecvEvent, Frames
        <5> QED BY <4>1, <5>1, <5>2
      <4> QED BY <4>2, <4>3, <4>1
    <3>2. f # None => f \in {"role", "delta"} /\ r \in Streaming
      BY DEF Frame
    <3>3. CASE UNCHANGED <<out, sawDelta>>
      BY ZenonT(30), <1>i, <1>o, <1>t, <3>1, <3>3
    <3>4. CASE f # None /\ out' = [out EXCEPT ![r] = Append(@, f)]
               /\ sawDelta' = (IF f = "delta" THEN sawDelta \cup {r} ELSE sawDelta)
      <4>1. /\ Len(out[r]) \in Nat /\ f \in Frames /\ out'[r] = Append(out[r], f)
            /\ \A i \in 1..Len(out'[r]) : (i \in 1..Len(out[r]) /\ out'[r][i] = out[r][i]) \/ out'[r][i] = f
        BY <1>t, <3>2, <3>4, PushFacts DEF Frames
      <4> HIDE DEF f
      <4>2. /\ todo'[r] = <<>> /\ verdict'[r] # "success"
            /\ \A i \in 1..Len(out'[r]) : out'[r][i] \in {"role", "delta"}
        BY <1>i, <3>1, <3>2, <3>4, <4>1
      <4>3. \A i \in 1..Len(out'[r]) : out'[r][i] = "delta" => r \in sawDelta'
        BY <1>i, <3>4, <4>1
      <4>4. Part(r)'
        BY <3>2, <3>4, <4>2, <4>3
      <4> QED BY <1>o, <1>t, <3>1, <3>4, <4>4
    <3> QED BY <3>1, <3>3, <3>4
  <2>4. CASE Backpressure(r)
    <3>1. /\ UNCHANGED <<todo, verdict, terminal, out>> /\ task[r] = "select" /\ task' = [task EXCEPT ![r] = "top"]
          /\ sawDelta' \in {sawDelta, sawDelta \cup {r}}
      <4>1. UNCHANGED <<todo, verdict, terminal, out>> /\ task[r] = "select" /\ task' = [task EXCEPT ![r] = "top"]
        BY <2>4 DEF Backpressure, CanRecv, ForceFailure, Goto, clientVars
      <4>2. sawDelta' = IF Head(chan[r]).type = "delta" THEN sawDelta \cup {r} ELSE sawDelta
        BY <2>4 DEF Backpressure
      <4> QED BY <4>1, <4>2
    <3>2. Part(r)'
      <4>1. task'[r] = "top"
        BY <1>t, <3>1
      <4> QED BY <1>e, <3>1, <4>1
    <3> QED BY <1>o, <1>t, <3>1, <3>2
  <2>5. CASE ReleaseTask(r)
    <3>1. /\ UNCHANGED <<terminal, out, sawDelta>> /\ task[r] = "release" /\ task' = [task EXCEPT ![r] = "reply"]
          /\ todo' = [todo EXCEPT ![r] = FinalFrames(r)]
          /\ verdict' = verdict \/ verdict' = [verdict EXCEPT ![r] = "error"]
      <4>1. /\ UNCHANGED <<terminal, out, sawDelta>> /\ task[r] = "release" /\ task' = [task EXCEPT ![r] = "reply"]
            /\ todo' = [todo EXCEPT ![r] = FinalFrames(r)]
        BY <2>5 DEF ReleaseTask, Goto
      <4>2. verdict' = [verdict EXCEPT ![r] = IF admitted'[r] = "err" /\ r \notin gone THEN "error" ELSE @]
        BY <2>5 DEF ReleaseTask
      <4>3. verdict \in [Requests -> {None, "success", "error"}]
        BY DEF IInv, TypeOK, GenTypeOK
      <4>4. CASE admitted'[r] = "err" /\ r \notin gone
        BY <4>1, <4>2, <4>4
      <4>5. CASE ~(admitted'[r] = "err" /\ r \notin gone)
        BY <4>1, <4>2, <4>3, <4>5
      <4> QED BY <4>4, <4>5
    <3>2. /\ FinalFrames(r) \in {<<>>, <<"error">>, <<"finish">>, <<"text", "finish">>}
          /\ r \notin Streaming => FinalFrames(r) = <<>>
          /\ FinalFrames(r) \in {<<"finish">>, <<"text", "finish">>} => Success(terminal[r].status)
          /\ FinalFrames(r) = <<"text", "finish">> => r \notin sawDelta
      BY DEF FinalFrames
    <3>3. todo'[r] = FinalFrames(r) /\ verdict'[r] # "success" /\ out'[r] = out[r] /\ terminal'[r] = terminal[r]
      BY <1>i, <1>t, <3>1
    <3> HIDE DEF FinalFrames
    <3>4. \A i \in 1..Len(out[r]) : out[r][i] \in {"role", "delta"}
      BY <1>i, <3>1
    <3>5. Part(r)'
      BY <1>i, <1>t, <3>1, <3>2, <3>3, <3>4
    <3> QED BY <1>o, <1>t, <3>1, <3>5
  <2>6. CASE Reply(r)
    <3> DEFINE f == Head(todo[r])
    <3>1. /\ UNCHANGED <<task, terminal, sawDelta, verdict>> /\ task[r] = "reply" /\ todo[r] # <<>>
          /\ out' = [out EXCEPT ![r] = Append(@, f)] /\ todo' = [todo EXCEPT ![r] = Tail(@)]
      BY <2>6 DEF Reply, taskVars
    <3>2. \/ todo[r] = <<"error">> /\ f = "error" /\ Tail(todo[r]) = <<>>
          \/ todo[r] = <<"finish">> /\ f = "finish" /\ Tail(todo[r]) = <<>>
          \/ todo[r] = <<"text", "finish">> /\ f = "text" /\ Tail(todo[r]) = <<"finish">>
      <4>1. todo[r] \in {<<"error">>, <<"finish">>, <<"text", "finish">>}
        BY <1>i, <3>1
      <4>2. CASE todo[r] = <<"error">>
        BY <4>2
      <4>3. CASE todo[r] = <<"finish">>
        BY <4>3
      <4>4. CASE todo[r] = <<"text", "finish">>
        BY <4>4
      <4> QED BY <4>1, <4>2, <4>3, <4>4
    <3>3. /\ Len(out[r]) \in Nat /\ Len(out'[r]) = Len(out[r]) + 1
          /\ \A i \in 1..Len(out'[r]) : (i \in 1..Len(out[r]) /\ out'[r][i] = out[r][i]) \/ (i = Len(out'[r]) /\ out'[r][i] = f)
      <4>1. f \in Frames /\ out'[r] = Append(out[r], f)
        BY <1>t, <3>1, <3>2 DEF Frames
      <4> HIDE DEF f
      <4> QED BY <1>t, <4>1, PushFacts
    <3>4. \A i \in 1..Len(out[r]) : out[r][i] # "finish"
      BY <1>i, <3>1
    <3>5. verdict[r] # "success" /\ r \in Streaming
      BY <1>i, <3>1
    <3>6. todo'[r] = Tail(todo[r])
      BY <1>t, <3>1
    <3>7. Part(r)'
      <4> HIDE DEF f
      <4>1. /\ todo'[r] \in {<<>>, <<"finish">>}
            /\ f = "finish" => todo'[r] = <<>>
            /\ f = "finish" \/ todo'[r] = <<"finish">> => Success(terminal'[r].status)
            /\ f = "text" => r \notin sawDelta' /\ f # "delta"
        <5>1. UNCHANGED <<terminal, sawDelta>>
          BY <3>1
        <5>2. CASE todo[r] = <<"error">>
          BY <3>2, <3>6, <5>2
        <5>3. CASE todo[r] = <<"finish">>
          BY <1>i, <3>2, <3>6, <5>1, <5>3
        <5>4. CASE todo[r] = <<"text", "finish">>
          BY <1>i, <3>2, <3>6, <5>1, <5>4
        <5> QED BY <3>2, <5>2, <5>3, <5>4
      <4>2. f # "delta"
        BY <3>2
      <4>3. \A i \in 1..Len(out'[r]) :
               /\ out'[r][i] = "finish" => i = Len(out'[r]) /\ f = "finish"
               /\ out'[r][i] = "text" => r \notin sawDelta'
               /\ out'[r][i] = "delta" => r \in sawDelta'
        <5>1. TAKE i \in 1..Len(out'[r])
        <5>2. CASE i \in 1..Len(out[r]) /\ out'[r][i] = out[r][i]
          BY <1>i, <3>1, <3>4, <5>2
        <5>3. CASE i = Len(out'[r]) /\ out'[r][i] = f
          BY <3>1, <4>1, <4>2, <5>3
        <5> QED BY <3>3, <5>2, <5>3
      <4>4. /\ task'[r] = "reply" /\ verdict'[r] # "success"
        BY <3>1, <3>5
      <4> QED BY SMTT(30), <3>5, <4>1, <4>3, <4>4
    <3> QED BY <1>o, <1>t, <3>1, <3>7
  <2>7. CASE ReplyLost(r)
    <3>1. /\ UNCHANGED <<task, terminal, sawDelta, verdict, out>> /\ task[r] = "reply"
          /\ todo' = [todo EXCEPT ![r] = <<>>]
      BY <2>7 DEF ReplyLost, taskVars
    <3>2. Part(r)'
      BY <1>i, <1>t, <3>1
    <3> QED BY <1>o, <1>t, <3>1, <3>2
  <2>8. CASE Done(r)
    <3>1. /\ UNCHANGED <<terminal, sawDelta, out, todo>> /\ task[r] = "reply" /\ task' = [task EXCEPT ![r] = "done"]
          /\ todo[r] = <<>>
          /\ \/ verdict' = verdict
             \/ verdict' = [verdict EXCEPT ![r] = "error"]
             \/ verdict' = [verdict EXCEPT ![r] = "success"] /\ r \notin Streaming /\ Success(terminal[r].status)
      <4>1. /\ UNCHANGED <<terminal, sawDelta, out, todo>> /\ task[r] = "reply" /\ task' = [task EXCEPT ![r] = "done"]
            /\ todo[r] = <<>>
        BY <2>8 DEF Done, Goto
      <4>2. verdict' = [verdict EXCEPT ![r] =
                          IF r \in Streaming \/ r \in gone \/ @ # None THEN @
                          ELSE IF Success(terminal[r].status) THEN "success" ELSE "error"]
        BY <2>8 DEF Done
      <4>3. verdict \in [Requests -> {None, "success", "error"}]
        BY DEF IInv, TypeOK, GenTypeOK
      <4>4. CASE r \in Streaming \/ r \in gone \/ verdict[r] # None
        BY <4>1, <4>2, <4>3, <4>4
      <4>5. CASE ~(r \in Streaming \/ r \in gone \/ verdict[r] # None) /\ Success(terminal[r].status)
        BY <4>1, <4>2, <4>3, <4>5
      <4>6. CASE ~(r \in Streaming \/ r \in gone \/ verdict[r] # None) /\ ~Success(terminal[r].status)
        BY <4>1, <4>2, <4>3, <4>6
      <4> QED BY <4>4, <4>5, <4>6
    <3>2. Part(r)'
      BY <1>i, <1>t, <3>1
    <3> QED BY <1>o, <1>t, <3>1, <3>2
  <2>9. CASE ClientRead(r)
    <3> DEFINE f == Head(out[r])
    <3>1. /\ UNCHANGED <<task, terminal, sawDelta, todo>> /\ out[r] # <<>>
          /\ out' = [out EXCEPT ![r] = Tail(@)]
          /\ verdict' = [verdict EXCEPT ![r] = CASE f = "finish" -> "success" [] f = "error" -> "error" [] OTHER -> @]
      BY <2>9 DEF ClientRead, taskVars
    <3>2. /\ Len(out[r]) \in Nat \ {0} /\ 1 \in 1..Len(out[r]) /\ f = out[r][1] /\ out'[r] = Tail(out[r])
          /\ out'[r] \in Seq(Frames) /\ Len(out'[r]) = Len(out[r]) - 1
          /\ \A i \in 1..Len(out'[r]) : i + 1 \in 1..Len(out[r]) /\ out'[r][i] = out[r][i + 1]
      BY <1>t, <3>1, PopFacts
    <3> HIDE DEF f
    <3>3. verdict'[r] \in {"success", "error", verdict[r]} /\ (verdict'[r] = "success" => f = "finish" \/ verdict[r] = "success")
      BY <1>t, <3>1
    <3>4. f = "finish" => /\ Len(out[r]) = 1 /\ todo[r] = <<>> /\ Success(terminal[r].status)
                          /\ task[r] \in {"reply", "done"}
      BY <1>i, <3>2
    <3>5. f = "finish" => out'[r] = <<>>
      <4>1. f = "finish" => Len(out'[r]) = 0
        BY <3>2, <3>4
      <4> QED BY <3>2, <4>1, EmptySeq
    <3>6. verdict[r] # "success"
      BY <1>i, <3>1
    <3>7. Part(r)'
      BY <1>i, <3>1, <3>2, <3>3, <3>4, <3>5, <3>6
    <3> QED BY <1>o, <1>t, <3>1, <3>7
  <2>10. CASE ClientLeave(r) \/ UserCancel(r)
    BY <2>10 DEF FrameInv, ClientLeave, UserCancel, taskVars
  <2> QED BY <1>2, <2>1, <2>2, <2>3, <2>4, <2>5, <2>6, <2>7, <2>8, <2>9, <2>10 DEF TaskStep, ClientStep, FaultStep
<1> QED BY <1>1, <1>2 DEF Next, vars

-----------------------------------------------------------------------------
\* No piece is lost between the child and the stream.

\* A request is whole from its start on or not at all.
LEMMA WholeBefore ==
    ASSUME IInv, [Next]_vars, NEW r \in Requests, Whole(r)'
    PROVE  Whole(r) \/ Start(r)
<1>t. DOMAIN task = Requests /\ DOMAIN forced = Requests
  BY DEF IInv, TypeOK, GenTypeOK
<1>1. CASE UNCHANGED genVars
  BY <1>1 DEF Whole, genVars
<1>2. ASSUME NEW q \in Requests, TaskStep(q) \/ ClientStep(q) \/ FaultStep(q) PROVE Whole(r) \/ Start(r)
  <2>1. CASE q # r
    <3>1. task'[r] = task[r] /\ forced'[r] = forced[r]
      BY <1>t, <1>2, <2>1 DEF TaskStep, ClientStep, FaultStep, Claim, Start, Begin, LoopTop, CancelDeadline, ResetDone,
         Finish, ReleaseTask, Reply, ReplyLost, Arrive, ClientRead, ClientLeave, BeginError, FinishError,
         RecvTerminal, RecvEvent, Backpressure, GiveUp, UserCancel, BeginUndone, Done, Abandon, ForceFailure, Goto, taskVars
    <3> QED BY <3>1 DEF Whole
  <2>2. CASE q = r
    <3>1. ASSUME Claim(r) \/ BeginUndone(r) \/ Finish(r) \/ ReleaseTask(r) \/ Done(r) \/ Arrive(r) \/ Abandon(r)
                 \/ BeginError(r) \/ FinishError(r) \/ CancelDeadline(r) \/ ResetDone(r) \/ RecvTerminal(r)
          PROVE  task'[r] \notin {"begin", "top", "select"}
      BY <1>t, <3>1 DEF Claim, BeginUndone, Finish, ReleaseTask, Done, Arrive, Abandon, BeginError, FinishError,
         CancelDeadline, ResetDone, RecvTerminal, Goto
    <3>2. ASSUME Reply(r) \/ ReplyLost(r) \/ ClientRead(r) \/ ClientLeave(r) \/ UserCancel(r)
          PROVE  UNCHANGED taskVars
      BY <3>2 DEF Reply, ReplyLost, ClientRead, ClientLeave, UserCancel
    <3>3. ASSUME Begin(r) \/ LoopTop(r) \/ RecvEvent(r) \/ GiveUp(r) \/ Backpressure(r)
          PROVE  task[r] \in {"begin", "top", "select"}
      BY <3>3 DEF Begin, LoopTop, RecvEvent, GiveUp, Backpressure, CanRecv
    <3>4. ASSUME Begin(r) \/ RecvEvent(r) \/ GiveUp(r) \/ Backpressure(r)
          PROVE  forced[r] = None \/ forced' = forced
      BY <3>4 DEF Begin, RecvEvent, GiveUp, Backpressure
    <3>5. ASSUME LoopTop(r), forced'[r] = None
          PROVE  forced[r] = None
      BY <1>t, <3>5 DEF LoopTop
    <3> QED BY <1>2, <2>2, <3>1, <3>2, <3>3, <3>4, <3>5 DEF Whole, TaskStep, ClientStep, FaultStep, taskVars
  <2> QED BY <2>1, <2>2
<1> QED BY <1>1, <1>2 DEF Next, vars

\* The pending request is the only one that can be whole and under way.
LEMMA WholePending ==
    ASSUME IInv, NEW r \in Requests, Whole(r)
    PROVE  pending = r
BY DEF IInv, AdmissionInv, Whole, Owners

\* What the pipe and run() hold when nothing of the pending request is there.
LEMMA NothingHeld ==
    ASSUME IInv, Stale, NEW r \in Requests, pending = r
    PROVE  /\ (\A i \in 1..Len(stdout) : stdout[i].id # r) => Deltas(stdout) = 0
           /\ line.id # r => InHand = 0
<1>1. stdout \in Seq(Event)
  BY DEF IInv, TypeOK, SupTypeOK
<1>2. ASSUME \A i \in 1..Len(stdout) : stdout[i].id # r PROVE \A i \in 1..Len(stdout) : stdout[i].type # "delta"
  BY <1>2, SupervisorAssumption DEF IInv, PipeInv, Stale, CurrentInv
<1>3. line.id # r => line.type # "delta"
  BY SupervisorAssumption DEF IInv, LineInv, Stale, CurrentInv
<1> QED BY <1>1, <1>2, <1>3, DeltasCount DEF InHand

\* A request nothing was heard of is counted as empty.
LEMMA CountedFresh ==
    ASSUME IInv, Stale, NEW r \in Requests, Quiet(r), child.job # r,
           \A i \in 1..Len(chan[r]) : chan[r][i].type # "terminal"
    PROVE  Counted(r)
BY DEF Counted, Quiet

\* The count only looks at r's stream and channel and, while run() reads, at
\* the pipe, the line and the job.
LEMMA CountedSame ==
    ASSUME NEW r \in Requests, Counted(r),
           got'[r] = got[r], out'[r] = out[r], chan'[r] = chan[r],
           Reading' => /\ Reading /\ UNCHANGED <<line, stdout>>
                       /\ child'.job = r => child.job = r /\ child'.sent = child.sent
    PROVE  Counted(r)'
<1>1. Taken(r)' = Taken(r)
  BY DEF Taken
<1>2. Reading' => Sum(r)' = Sum(r)
  BY <1>1 DEF Sum, InHand
<1> QED BY <1>1, <1>2 DEF Counted

\* run() moves pieces from the pipe into the channel.
LEMMA CountedRun ==
    ASSUME IInv, Stale, NEW r \in Requests, Whole(r), Counted(r), RunStep, UNCHANGED genVars
    PROVE  Counted(r)'
<1> USE DEF genVars
<1>t. /\ stdout \in Seq(Event) /\ chan[r] \in Seq(Event) /\ line \in Event /\ DOMAIN chan = Requests
      /\ out[r] \in Seq(Frames) /\ got[r] \in Nat
  BY DEF IInv, TypeOK, SupTypeOK, GenTypeOK
<1>n. NoLine.id = None /\ NoLine.type = "garbage"
  BY DEF NoLine, Plain
<1>p. pending = r /\ r # None
  BY WholePending, SupervisorAssumption
<1>d. /\ Deltas(stdout) \in Nat /\ Deltas(chan[r]) \in Nat /\ Taken(r) \in Nat /\ InHand \in Nat
      /\ Sum(r) = Taken(r) + Deltas(chan[r]) + InHand + Deltas(stdout)
  BY <1>t, DeltasCount, PiecesCount DEF Taken, InHand, Sum
<1>k. Taken(r)' = Taken(r)
  BY DEF Taken
<1>1. CASE RunStop \/ RunSpawnError \/ RunLoop \/ RunPermit \/ RunDisconnected \/ RunReap \/ RunAnnounce \/ RunLost
           \/ RunPause \/ RunPauseReset \/ RunWake
  <2>1. /\ chan' = chan
        /\ Reading' => Reading /\ UNCHANGED <<line, stdout, child>>
    BY <1>1 DEF RunStop, RunSpawnError, RunLoop, RunPermit, RunDisconnected, RunReap, RunAnnounce, RunLost, RunPause,
                RunPauseReset, RunWake, Reading, reqVars, childVars
  <2> QED BY <2>1, CountedSame
<1>2. CASE RunSpawn
  <2>1. /\ chan' = chan /\ child'.job = None /\ stdout' = <<>> /\ line' = NoLine
    BY <1>2 DEF RunSpawn, NewChild, reqVars, IInv, ChildInv, Childless, Stale, CurrentInv
  <2> QED BY <1>k, <1>n, <1>p, <2>1 DEF Counted
<1>3. CASE RunRead
  <2>1. /\ UNCHANGED <<chan, child>> /\ line = NoLine /\ Reading
    BY <1>3 DEF RunRead, reqVars, Stale, CurrentInv, Reading
  <2>2. CASE runpc' = "reap"
    BY <2>1, <2>2, CountedSame DEF Reading
  <2>3. CASE stdout # <<>> /\ line' = Head(stdout) /\ stdout' = Tail(stdout)
    <3>1. /\ 1 \in 1..Len(stdout) /\ line' = stdout[1] /\ stdout' \in Seq(Event)
          /\ \A i \in 1..Len(stdout') : i + 1 \in 1..Len(stdout) /\ stdout'[i] = stdout[i + 1]
      BY <1>t, <2>3, PopFacts
    <3>2. InHand = 0
      BY <1>n, <2>1 DEF InHand
    <3>3. Deltas(stdout) = Deltas(stdout') + InHand'
      BY <1>t, <2>3, DeltasCount DEF InHand
    <3>4. Deltas(stdout') \in Nat /\ InHand' \in Nat
      BY <3>1, DeltasCount DEF InHand
    <3>5. Sum(r)' = Taken(r) + Deltas(chan[r]) + InHand' + Deltas(stdout')
      BY <1>k, <2>1 DEF Sum
    <3>6. Sum(r)' = Sum(r)
      <4> HIDE DEF InHand, Sum, Deltas, Taken
      <4> QED BY <1>d, <3>2, <3>3, <3>4, <3>5
    <3>7. \A i \in 1..Len(stdout') :
             stdout'[i].type = "terminal" /\ stdout'[i].id = r => Sum(r)' = stdout'[i].deltas
      BY <2>1, <3>1, <3>6 DEF Counted
    <3>8. line'.type = "terminal" /\ line'.id = r => Sum(r)' = line'.deltas
      BY <2>1, <3>1, <3>6 DEF Counted
    <3> QED BY <1>k, <2>1, <3>6, <3>7, <3>8 DEF Counted
  <2> QED BY <1>3, <2>2, <2>3 DEF RunRead
<1>4. CASE RunLine
  <2>1. /\ UNCHANGED <<chan, child, stdout>> /\ Reading
    BY <1>4 DEF RunLine, reqVars, childVars, Reading
  <2>2. CASE line' = line
    BY <2>1, <2>2, CountedSame
  <2>3. CASE line' = NoLine /\ runpc' = "reap"
    BY <1>k, <2>1, <2>3 DEF Counted, Reading
  <2>4. CASE line' = NoLine /\ line.type \in {"ready", "garbage"}
    <3>1. InHand = 0 /\ InHand' = 0
      BY <1>n, <2>4 DEF InHand
    <3>2. Sum(r)' = Sum(r)
      BY <1>k, <2>1, <3>1 DEF Sum
    <3> QED BY <1>k, <1>n, <2>1, <2>4, <3>2 DEF Counted
  <2>5. line' = line \/ (line' = NoLine /\ (runpc' = "reap" \/ line.type \in {"ready", "garbage"}))
    BY <1>4, <1>p DEF RunLine
  <2> QED BY <2>2, <2>3, <2>4, <2>5
<1>5. CASE RunSend
  <2>1. /\ UNCHANGED <<child, stdout>> /\ runpc = "send" /\ line' = NoLine /\ held = r /\ line.id = r
        /\ chan'[r] = Append(chan[r], line)
    <3>1. /\ UNCHANGED <<child, stdout>> /\ runpc = "send" /\ line' = NoLine
          /\ chan' = [chan EXCEPT ![held] = Append(@, line)]
      BY <1>5 DEF RunSend, childVars
    <3>2. held \in Requests /\ line.id = held
      BY <3>1 DEF IInv, ChildInv
    <3>3. held = r
      BY <1>p, <3>2, SupervisorAssumption DEF Stale, CurrentInv
    <3> QED BY <1>t, <3>1, <3>2, <3>3
  <2>2. Reading
    BY <2>1 DEF Reading
  <2>3. /\ Len(chan[r]) \in Nat /\ Len(chan'[r]) = Len(chan[r]) + 1
        /\ \A k \in 1..Len(chan[r]) : chan'[r][k] = chan[r][k]
        /\ chan'[r][Len(chan[r]) + 1] = line
    BY <1>t, <2>1, PushFacts
  <2>4. Deltas(chan'[r]) = Deltas(chan[r]) + InHand /\ InHand' = 0
    BY <1>t, <1>n, <2>1, DeltasCount DEF InHand
  <2>5. Sum(r)' = Taken(r) + Deltas(chan'[r]) + InHand' + Deltas(stdout)
    BY <1>k, <2>1 DEF Sum
  <2>6. Sum(r)' = Sum(r)
    <3> HIDE DEF InHand, Sum, Deltas, Taken
    <3> QED BY <1>d, <2>4, <2>5
  <2>7. \A k \in 1..Len(chan[r]) : chan[r][k].type # "terminal"
    BY <2>1 DEF Stale, QuietInv, Quiet
  <2>8. ASSUME line.type = "terminal" PROVE Taken(r) + Deltas(chan'[r]) = line.deltas
    <3>1. Sum(r) = line.deltas
      BY <2>1, <2>2, <2>8 DEF Counted
    <3>2. Deltas(stdout) = 0
      BY <1>p, <2>1, <2>8, NothingHeld DEF Stale, QuietInv
    <3>3. InHand = 0
      BY <2>8 DEF InHand
    <3> HIDE DEF InHand, Sum, Deltas, Taken
    <3> QED BY <1>d, <2>4, <3>1, <3>2, <3>3
  <2>9. \A i \in 1..Len(chan'[r]) : chan'[r][i].type = "terminal" /\ Success(chan'[r][i].status) =>
           Taken(r)' + Deltas(chan'[r]) = chan'[r][i].deltas
    BY <1>k, <2>3, <2>7, <2>8
  <2> QED BY <1>n, <1>p, <2>1, <2>2, <2>6, <2>9 DEF Counted
<1>6. CASE RunSendFail
  BY <1>6, CountedSame DEF RunSendFail, Reading, reqVars
<1>7. CASE RunNotify
  <2>1. /\ ~Reading' /\ held \in Requests
        /\ chan' = chan \/ chan' = [chan EXCEPT ![held] = Append(@, Terminal(held, "failed", 0))]
    BY <1>7 DEF RunNotify, Reading, IInv, ChildInv
  <2>2. CASE chan'[r] = chan[r]
    BY <2>1, <2>2, CountedSame
  <2>3. CASE chan'[r] = Append(chan[r], Terminal(held, "failed", 0))
    <3> DEFINE e == Terminal(held, "failed", 0)
    <3>1. e \in Event /\ e.type = "terminal" /\ ~Success(e.status)
      BY <2>1, EventKinds, SupervisorAssumption DEF Outcomes, Terminal, Success
    <3> HIDE DEF e
    <3>2. /\ Deltas(chan'[r]) = Deltas(chan[r])
          /\ \A i \in 1..Len(chan'[r]) : (i \in 1..Len(chan[r]) /\ chan'[r][i] = chan[r][i]) \/ chan'[r][i] = e
      <4>1. chan'[r] = Append(chan[r], e)
        BY <2>3 DEF e
      <4>2. PICK s \in Seq(Event) : s = chan[r] /\ chan'[r] = Append(s, e)
        BY <1>t, <4>1
      <4>3. Deltas(s) \in Nat /\ Deltas(Append(s, e)) = Deltas(s) + (IF e.type = "delta" THEN 1 ELSE 0)
        BY <3>1, <4>2, DeltasCount
      <4>4. Deltas(Append(s, e)) = Deltas(s)
        <5> HIDE DEF Deltas
        <5> QED BY <3>1, <4>3
      <4>5. Deltas(chan'[r]) = Deltas(chan[r])
        BY Zenon, <4>2, <4>4
      <4> QED BY <1>t, <3>1, <4>1, <4>5, PushFacts
    <3> QED BY <1>k, <2>1, <3>1, <3>2 DEF Counted
  <2>4. chan'[r] = chan[r] \/ chan'[r] = Append(chan[r], Terminal(held, "failed", 0))
    BY <1>t, <2>1
  <2> QED BY <2>2, <2>3, <2>4
<1> QED BY <1>1, <1>2, <1>3, <1>4, <1>5, <1>6, <1>7 DEF RunStep

\* The child writes a line: its count moves with what is in the pipe.
LEMMA CountedWritten ==
    ASSUME IInv, Stale, NEW r \in Requests, Whole(r), Counted(r),
           NEW e \in Event, stdout' = Append(stdout, e),
           e.id = None \/ e.id = child.job, e.type \in {"delta", "terminal"} => e.id = child.job /\ e.id # None,
           e.type = "delta" => child'.job = child.job /\ child'.sent = child.sent + 1,
           e.type = "terminal" => child'.job = None /\ e.deltas = child.sent,
           e.type \notin {"delta", "terminal"} => child'.job = child.job /\ child'.sent = child.sent,
           UNCHANGED <<line, runpc, chan, got, out>>
    PROVE  Counted(r)'
<1>t. /\ stdout \in Seq(Event) /\ chan[r] \in Seq(Event) /\ line \in Event
      /\ out[r] \in Seq(Frames) /\ got[r] \in Nat /\ child.job \in Requests \cup {None} /\ child.sent \in Nat
  BY ProcessSteps DEF IInv, TypeOK, SupTypeOK, GenTypeOK
<1>p. pending = r /\ r # None
  BY WholePending, SupervisorAssumption
<1>j. child.job # None => child.job = r /\ ~Over(r)
  BY <1>t, <1>p DEF IInv, OverInv, Engaged, Over
<1>d. /\ Deltas(stdout) \in Nat /\ Deltas(chan[r]) \in Nat /\ Taken(r) \in Nat /\ InHand \in Nat
      /\ Sum(r) = Taken(r) + Deltas(chan[r]) + InHand + Deltas(stdout)
      /\ Sum(r)' = Taken(r) + Deltas(chan[r]) + InHand + Deltas(stdout')
  BY SMTT(30), <1>t, DeltasCount, PiecesCount DEF Taken, InHand, Sum
<1>1. Deltas(stdout') = Deltas(stdout) + (IF e.type = "delta" THEN 1 ELSE 0)
  BY <1>t, DeltasCount
<1>2. Sum(r)' = Sum(r) + (IF e.type = "delta" THEN 1 ELSE 0)
  <2> HIDE DEF InHand, Sum, Deltas, Taken
  <2> QED BY <1>d, <1>1
<1>s. Sum(r) \in Nat
  <2> HIDE DEF InHand, Sum, Deltas, Taken
  <2> QED BY <1>d
<1>3. /\ \A i \in 1..Len(stdout) : stdout'[i] = stdout[i]
      /\ \A i \in 1..Len(stdout') : i \in 1..Len(stdout) \/ stdout'[i] = e
  BY <1>t, PushFacts
<1>4. Reading' <=> Reading
  BY DEF Reading
<1>5. child.job = r => /\ \A i \in 1..Len(stdout) : ~(stdout[i].type = "terminal" /\ stdout[i].id = r)
                       /\ ~(line.type = "terminal" /\ line.id = r)
  BY <1>j, <1>p DEF IInv, PipeInv, LineInv
<1>6. Reading' /\ child'.job = r => Sum(r)' = child'.sent
  <2>1. SUFFICES ASSUME Reading', child'.job = r PROVE Sum(r)' = child'.sent
    OBVIOUS
  <2>2. child'.job = child.job /\ e.type # "terminal"
    BY <1>p, <2>1
  <2>3. Sum(r) = child.sent
    BY <1>4, <2>1, <2>2 DEF Counted
  <2>4. CASE e.type = "delta"
    BY <1>2, <2>3, <2>4
  <2>5. CASE e.type # "delta"
    BY <1>2, <1>s, <2>2, <2>3, <2>5
  <2> QED BY <2>4, <2>5
<1>7. Reading' => \A i \in 1..Len(stdout') :
          stdout'[i].type = "terminal" /\ stdout'[i].id = r => Sum(r)' = stdout'[i].deltas
  <2>1. SUFFICES ASSUME Reading', NEW i \in 1..Len(stdout'), stdout'[i].type = "terminal", stdout'[i].id = r
                 PROVE  Sum(r)' = stdout'[i].deltas
    OBVIOUS
  <2>2. CASE i \in 1..Len(stdout)
    <3>1. child.job # r /\ stdout[i].type = "terminal" /\ stdout[i].id = r /\ Sum(r) = stdout[i].deltas
      BY <1>3, <1>4, <1>5, <2>1, <2>2 DEF Counted
    <3>2. e.type # "delta"
      BY <1>j, <3>1
    <3> QED BY <1>2, <1>3, <1>d, <2>2, <3>1, <3>2
  <2>3. CASE stdout'[i] = e
    <3>1. e.type = "terminal" /\ child.job = r /\ e.deltas = child.sent
      BY <1>j, <2>1, <2>3
    <3>2. Sum(r) = child.sent
      BY <1>4, <2>1, <3>1 DEF Counted
    <3> QED BY <1>2, <1>t, <2>3, <3>1, <3>2
  <2> QED BY <1>3, <2>2, <2>3
<1>8. Reading' /\ line'.type = "terminal" /\ line'.id = r => Sum(r)' = line'.deltas
  <2>1. SUFFICES ASSUME Reading', line.type = "terminal", line.id = r
                 PROVE  Sum(r)' = line.deltas
    OBVIOUS
  <2>2. child.job # r
    BY <1>5, <2>1
  <2>3. e.type # "delta"
    BY <1>j, <2>2
  <2>4. Sum(r) = line.deltas
    BY <1>4, <2>1 DEF Counted
  <2> QED BY <1>2, <1>s, <2>3, <2>4
<1>9. Taken(r)' = Taken(r)
  BY DEF Taken
<1> QED BY <1>6, <1>7, <1>8, <1>9 DEF Counted

\* The child: what it writes, and a job it takes.
LEMMA CountedChild ==
    ASSUME IInv, Stale, FreshInv, NEW r \in Requests, Whole(r), Counted(r), ChildStep, UNCHANGED genVars
    PROVE  Counted(r)'
<1> USE DEF genVars
<1>e. \A t \in EventTypes \ {"terminal"}, q \in Requests \cup {None} :
          Plain(t, q) \in Event /\ Plain(t, q).id = q /\ Plain(t, q).type = t
  BY EventKinds DEF Plain
<1>t. child \in Process /\ child.job \in Requests \cup {None}
  BY ProcessSteps DEF IInv, TypeOK, SupTypeOK
<1>1. CASE ChildReady
  <2>1. /\ stdout' = Append(stdout, Plain("ready", None)) /\ child'.job = child.job /\ child'.sent = child.sent
        /\ UNCHANGED <<line, runpc, chan>>
    BY <1>1, <1>t DEF ChildReady, runVars, reqVars, Process
  <2> QED BY <1>e, <2>1, CountedWritten DEF EventTypes
<1>2. CASE ChildStarted
  <2>1. /\ stdout' = Append(stdout, Plain("started", child.job)) /\ child'.job = child.job /\ child'.sent = child.sent
        /\ UNCHANGED <<line, runpc, chan>>
    BY <1>2, <1>t DEF ChildStarted, runVars, reqVars, Process
  <2> QED BY <1>e, <1>t, <2>1, CountedWritten DEF EventTypes
<1>3. CASE ChildDelta
  <2>1. /\ stdout' = Append(stdout, Plain("delta", child.job)) /\ child'.job = child.job /\ child'.sent = child.sent + 1
        /\ child.job # None
        /\ UNCHANGED <<line, runpc, chan>>
    BY <1>3, <1>t DEF ChildDelta, runVars, reqVars, Process
  <2> QED BY <1>e, <1>t, <2>1, CountedWritten DEF EventTypes
<1>4. ASSUME NEW s \in Answers, ChildTerminal(s) PROVE Counted(r)'
  <2> DEFINE e == Terminal(child.job, s, child.sent)
  <2>1. /\ stdout' = Append(stdout, e) /\ child'.job = None /\ child.job # None
        /\ UNCHANGED <<line, runpc, chan>>
    BY <1>4 DEF ChildTerminal, Running, runVars, reqVars
  <2>2. e \in Event /\ e.id = child.job /\ e.type = "terminal" /\ e.deltas = child.sent
    BY <1>t, ProcessSteps, EventKinds, SupervisorAssumption DEF Terminal
  <2> HIDE DEF e
  <2> QED BY <1>t, <2>1, <2>2, CountedWritten
<1>5. CASE ChildDie
  <2>1. child'.job = None /\ UNCHANGED <<line, stdout, runpc, chan>>
    BY <1>5 DEF ChildDie, Exited, runVars, reqVars
  <2> QED BY <2>1, CountedSame, SupervisorAssumption DEF Reading
<1>6. CASE ChildGarble
  <2>1. stdout' = Append(stdout, NoLine) /\ UNCHANGED <<line, runpc, child, chan>>
    BY <1>6 DEF ChildGarble, runVars, reqVars
  <2>2. NoLine \in Event /\ NoLine.id = None /\ NoLine.type = "garbage"
    BY <1>e DEF NoLine, EventTypes
  <2> QED BY <2>1, <2>2, CountedWritten
<1>7. ASSUME NEW q \in Requests, ChildTake(q) PROVE Counted(r)'
  <2>1. /\ q \in inbox /\ child'.job = q /\ child'.sent = 0
        /\ UNCHANGED <<line, stdout, runpc, chan>>
    BY <1>7 DEF ChildTake, Running, runVars, reqVars
  <2>2. CASE q # r
    BY <2>1, <2>2, CountedSame DEF Reading
  <2>3. CASE q = r
    <3>1. Quiet(r) /\ pending = r
      BY <2>1, <2>3, WholePending DEF Stale, QuietInv
    <3>2. got[r] = 0 /\ out[r] = <<>> /\ \A i \in 1..Len(chan[r]) : chan[r][i].type = "cancelling"
      BY <2>1, <2>3 DEF FreshInv
    <3>3. Taken(r) = 0
      <4>1. Pieces(<<>>) = 0
        <5>1. <<>> \in Seq(Frames) /\ \A i \in 1..Len(<<>>) : <<>>[i] # "delta"
          OBVIOUS
        <5> QED BY <5>1, PiecesCount
      <4> QED BY <3>2, <4>1 DEF Taken
    <3>4. Deltas(chan[r]) = 0
      <4>1. chan[r] \in Seq(Event)
        BY DEF IInv, TypeOK, SupTypeOK
      <4>2. \A i \in 1..Len(chan[r]) : chan[r][i].type # "delta"
        BY <3>2
      <4> QED BY <4>1, <4>2, DeltasCount
    <3>5. Deltas(stdout) = 0 /\ InHand = 0
      BY <3>1, NothingHeld DEF Quiet
    <3>6. Sum(r)' = 0
      <4>1. Sum(r)' = Taken(r) + Deltas(chan[r]) + InHand + Deltas(stdout)
        BY <2>1 DEF Sum, Taken, InHand
      <4> HIDE DEF InHand, Sum, Deltas, Taken
      <4> QED BY <3>3, <3>4, <3>5, <4>1
    <3>7. \A i \in 1..Len(stdout) : stdout[i].id # r
      BY <3>1 DEF Quiet
    <3> QED BY <2>1, <2>3, <3>1, <3>2, <3>6, <3>7 DEF Counted, Quiet
  <2> QED BY <2>2, <2>3
<1> QED BY <1>1, <1>2, <1>3, <1>4, <1>5, <1>6, <1>7 DEF ChildStep

\* The task forwards what the channel holds, and the client reads its stream.
LEMMA CountedTask ==
    ASSUME IInv, Stale, FrameInv, NEW r \in Requests, Whole(r), Counted(r), Whole(r)',
           NEW q \in Requests, TaskStep(q) \/ ClientStep(q) \/ FaultStep(q)
    PROVE  Counted(r)'
<1>t. /\ stdout \in Seq(Event) /\ chan[r] \in Seq(Event) /\ DOMAIN chan = Requests
      /\ out[r] \in Seq(Frames) /\ got[r] \in Nat /\ DOMAIN out = Requests /\ DOMAIN got = Requests
      /\ DOMAIN task = Requests /\ DOMAIN forced = Requests
      /\ \A p \in Requests : chan[p] \in Seq(Event)
  BY DEF IInv, TypeOK, SupTypeOK, GenTypeOK
<1>w. r \in Streaming /\ forced[r] = None /\ task[r] \in {"begin", "top", "select"}
  BY DEF Whole
<1>d. Deltas(stdout) \in Nat /\ Deltas(chan[r]) \in Nat /\ Taken(r) \in Nat /\ InHand \in Nat /\ Pieces(out[r]) \in Nat
  BY <1>t, DeltasCount, PiecesCount DEF Taken, InHand
<1>a. UNCHANGED <<line, stdout, runpc, child>>
  BY DEF TaskStep, ClientStep, FaultStep, Claim, Start, Begin, LoopTop, CancelDeadline, ResetDone, Finish,
         ReleaseTask, Reply, ReplyLost, Arrive, ClientRead, ClientLeave, BeginError, FinishError,
         RecvTerminal, RecvEvent, Backpressure, GiveUp, UserCancel, BeginUndone, Done, Abandon,
         supVars, runVars, childVars
<1>b. ASSUME Taken(r)' + Deltas(chan'[r]) = Taken(r) + Deltas(chan[r]), Taken(r)' \in Nat, Deltas(chan'[r]) \in Nat,
             \A i \in 1..Len(chan'[r]) : chan'[r][i].type = "terminal" =>
                \E j \in 1..Len(chan[r]) : chan'[r][i] = chan[r][j]
      PROVE  Counted(r)'
  <2>1. Sum(r)' = Taken(r)' + Deltas(chan'[r]) + InHand + Deltas(stdout)
    BY <1>a DEF Sum, InHand
  <2>2. Sum(r)' = Sum(r)
    <3>1. Sum(r) = Taken(r) + Deltas(chan[r]) + InHand + Deltas(stdout)
      BY DEF Sum
    <3> DEFINE t == Taken(r)'
    <3>2. t + Deltas(chan'[r]) = Taken(r) + Deltas(chan[r]) /\ t \in Nat /\ Sum(r)' = t + Deltas(chan'[r]) + InHand + Deltas(stdout)
      BY <1>b, <2>1
    <3> HIDE DEF InHand, Sum, Deltas, Taken, t
    <3> QED BY <1>b, <1>d, <3>1, <3>2
  <2> QED BY <1>a, <1>b, <2>2 DEF Counted, Reading
<1>s. ASSUME got'[r] = got[r], out'[r] = out[r], chan'[r] = chan[r] PROVE Counted(r)'
  BY <1>s, <1>a, CountedSame DEF Reading
<1>1. CASE q # r
  <2>1. got'[r] = got[r] /\ out'[r] = out[r]
    <3>1. CASE UNCHANGED <<got, out>>
      BY <3>1
    <3>2. CASE RecvEvent(q) \/ Reply(q) \/ Done(q) \/ ClientRead(q)
      BY <1>t, <1>1, <3>2 DEF RecvEvent, Reply, Done, ClientRead
    <3> QED BY <3>1, <3>2 DEF TaskStep, ClientStep, FaultStep, Claim, Start, Begin, LoopTop, CancelDeadline, ResetDone,
              Finish, ReleaseTask, ReplyLost, Arrive, ClientLeave, BeginError, FinishError,
              RecvTerminal, Backpressure, GiveUp, UserCancel, BeginUndone, Abandon, clientVars
  <2>2. chan'[r] = chan[r]
    <3>1. CASE UNCHANGED chan
      BY <3>1
    <3>2. CASE RecvTerminal(q) \/ RecvEvent(q) \/ BeginUndone(q) \/ Done(q) \/ Abandon(q)
      BY <1>t, <1>1, <3>2 DEF RecvTerminal, RecvEvent, BeginUndone, Done, Abandon, DropReceiver
    <3>3. CASE Backpressure(q) \/ GiveUp(q) \/ UserCancel(q)
      BY <1>t, <1>1, <3>3 DEF Backpressure, GiveUp, UserCancel, Cancel
    <3> QED BY <3>1, <3>2, <3>3 DEF TaskStep, ClientStep, FaultStep, Claim, Start, Begin, LoopTop, CancelDeadline, ResetDone,
              Finish, ReleaseTask, Reply, ReplyLost, Arrive, ClientRead, ClientLeave, BeginError, FinishError,
              supVars, workerVars, reqVars
  <2> QED BY <1>s, <2>1, <2>2
<1>2. CASE q = r
  <2>1. CASE Begin(r) \/ LoopTop(r) \/ ClientLeave(r)
    BY <1>s, <2>1 DEF Begin, LoopTop, ClientLeave, supVars, clientVars
  <2>2. CASE RecvEvent(r)
    <3> DEFINE f == Frame(r, Head(chan[r]))
    <3>1. /\ chan[r] # <<>> /\ chan' = [chan EXCEPT ![r] = Tail(@)] /\ UNCHANGED got
          /\ out' = IF f # None THEN [out EXCEPT ![r] = Append(@, f)] ELSE out
      BY <1>w, <2>2 DEF RecvEvent, CanRecv
    <3>2. /\ f # None => f \in Frames
          /\ f = "delta" <=> Head(chan[r]).type = "delta"
      BY <1>w, NoneAssumption DEF Frame, Frames
    <3> HIDE DEF f
    <3>3. /\ chan'[r] = Tail(chan[r]) /\ chan'[r] \in Seq(Event)
          /\ \A i \in 1..Len(chan'[r]) : i + 1 \in 1..Len(chan[r]) /\ chan'[r][i] = chan[r][i + 1]
      BY <1>t, <3>1, PopFacts
    <3>4. /\ Deltas(chan[r]) = Deltas(chan'[r]) + (IF f = "delta" THEN 1 ELSE 0)
          /\ Deltas(chan'[r]) \in Nat
      BY <1>t, <3>1, <3>2, <3>3, DeltasCount
    <3>5. /\ out'[r] \in Seq(Frames)
          /\ Pieces(out'[r]) = Pieces(out[r]) + (IF f = "delta" THEN 1 ELSE 0)
      <4>1. CASE f # None
        <5>1. out'[r] = Append(out[r], f)
          BY <1>t, <3>1, <4>1
        <5> QED BY <1>t, <3>2, <4>1, <5>1, PiecesCount, PushFacts
      <4>2. CASE f = None
        <5>1. f # "delta"
          BY <4>2, NoneAssumption DEF Frames
        <5> QED BY <1>t, <1>d, <3>1, <4>2, <5>1
      <4> QED BY <4>1, <4>2
    <3>6. Taken(r)' = Taken(r) + (IF f = "delta" THEN 1 ELSE 0) /\ Taken(r)' \in Nat
      <4>1. Taken(r)' = got[r] + Pieces(out'[r]) /\ Taken(r) = got[r] + Pieces(out[r])
        BY <3>1 DEF Taken
      <4> HIDE DEF Taken, Pieces
      <4> QED BY <1>t, <1>d, <3>5, <4>1
    <3>7. Taken(r)' + Deltas(chan'[r]) = Taken(r) + Deltas(chan[r])
      <4> DEFINE t == Taken(r)'
      <4>1. t = Taken(r) + (IF f = "delta" THEN 1 ELSE 0)
        BY <3>6
      <4> HIDE DEF Taken, Deltas, t
      <4>2. t + Deltas(chan'[r]) = Taken(r) + Deltas(chan[r])
        BY <1>d, <3>4, <4>1
      <4> QED BY <4>2 DEF t
    <3> QED BY <1>b, <3>3, <3>4, <3>6, <3>7
  <2>3. CASE ClientRead(r)
    <3>1. /\ out[r] # <<>> /\ out' = [out EXCEPT ![r] = Tail(@)] /\ UNCHANGED chan
          /\ got' = [got EXCEPT ![r] = CASE Head(out[r]) = "delta" -> @ + 1
                                         [] Head(out[r]) = "text" -> terminal[r].deltas
                                         [] OTHER -> @]
      BY <2>3 DEF ClientRead, supVars
    <3>2. Head(out[r]) \in {"role", "delta"} /\ Tail(out[r]) \in Seq(Frames)
      <4>1. 1 \in 1..Len(out[r]) /\ Head(out[r]) = out[r][1] /\ Tail(out[r]) \in Seq(Frames)
        BY <1>t, <3>1, PopFacts
      <4>2. \A i \in 1..Len(out[r]) : out[r][i] \in {"role", "delta"}
        BY <1>w DEF FrameInv
      <4> QED BY <4>1, <4>2
    <3>3. /\ got'[r] = got[r] + (IF Head(out[r]) = "delta" THEN 1 ELSE 0)
          /\ out'[r] = Tail(out[r])
      BY <1>t, <3>1, <3>2
    <3>4. Pieces(out[r]) = Pieces(out'[r]) + (IF Head(out[r]) = "delta" THEN 1 ELSE 0) /\ Pieces(out'[r]) \in Nat
      BY <1>t, <3>1, <3>2, <3>3, PiecesCount
    <3>5. Taken(r)' = Taken(r)
      <4>1. Taken(r)' = got'[r] + Pieces(out'[r]) /\ Taken(r) = got[r] + Pieces(out[r])
        BY DEF Taken
      <4> HIDE DEF Taken, Pieces
      <4>2. got[r] + Pieces(out[r]) = got'[r] + Pieces(out'[r])
        BY <1>t, <3>3, <3>4
      <4> QED BY <4>1, <4>2
    <3> QED BY <1>b, <1>d, <3>1, <3>5
  <2>4. CASE UserCancel(r)
    <3>1. Cancel(r, chan[r]) /\ UNCHANGED <<got, out>>
      BY <2>4 DEF UserCancel
    <3> DEFINE e == Plain("cancelling", r)
    <3>2. /\ chan'[r] = chan[r] \/ chan'[r] = Append(chan[r], e)
          /\ e \in Event /\ e.type = "cancelling"
      BY <1>t, <3>1, CancelChan
    <3> HIDE DEF e
    <3>3. CASE chan'[r] = chan[r]
      BY <1>s, <3>1, <3>3
    <3>4. CASE chan'[r] = Append(chan[r], e)
      <4>1. Deltas(chan'[r]) = Deltas(chan[r])
        BY SMTT(30), <1>t, <1>d, <3>2, <3>4, DeltasCount
      <4>2. \A i \in 1..Len(chan'[r]) : (i \in 1..Len(chan[r]) /\ chan'[r][i] = chan[r][i]) \/ chan'[r][i] = e
        BY <1>t, <3>2, <3>4, PushFacts
      <4>3. Taken(r)' = Taken(r)
        BY <3>1 DEF Taken
      <4> QED BY <1>b, <1>d, <3>2, <4>1, <4>2, <4>3
    <3> QED BY <3>2, <3>3, <3>4
  <2>5. ~(GiveUp(r) \/ Backpressure(r))
    <3>1. ASSUME NEW code \in ForcedCodes, ForceFailure(r, code) PROVE FALSE
      <4>1. forced'[r] = code
        BY <1>t, <3>1 DEF ForceFailure
      <4> QED BY <4>1, NoneAssumption DEF Whole
    <3> QED BY <3>1 DEF GiveUp, Backpressure, ForcedCodes
  <2>6. ~(RecvTerminal(r) \/ CancelDeadline(r) \/ Abandon(r) \/ BeginError(r))
    BY <1>t DEF RecvTerminal, CancelDeadline, Abandon, BeginError, Goto, Whole
  <2>7. ~(Claim(r) \/ Start(r) \/ BeginUndone(r) \/ ResetDone(r) \/ Finish(r) \/ FinishError(r) \/ ReleaseTask(r)
          \/ Reply(r) \/ ReplyLost(r) \/ Done(r) \/ Arrive(r))
    BY <1>w DEF Claim, Start, BeginUndone, ResetDone, Finish, FinishError, ReleaseTask, Reply, ReplyLost, Done, Arrive
  <2> QED BY <1>2, <2>1, <2>2, <2>3, <2>4, <2>5, <2>6, <2>7 DEF TaskStep, ClientStep, FaultStep
<1> QED BY <1>1, <1>2

\* Every step keeps the counts.
LEMMA CountNext ==
    ASSUME IInv, Stale, FreshInv, FrameInv, CountInv, [Next]_vars
    PROVE  CountInv'
<1> SUFFICES ASSUME NEW r \in Requests, Whole(r)' PROVE Counted(r)'
  BY DEF CountInv
<1>1. CASE Start(r)
  <2>1. /\ task[r] = "claimed" /\ UNCHANGED <<line, stdout, runpc, child, chan, got, out>>
    BY <1>1 DEF Start, runVars, childVars, clientVars
  <2>2. dispatch[r] = "none"
    BY <2>1 DEF IInv, DispatchInv, Early
  <2>3. Quiet(r) /\ child.job # r
    BY <2>2 DEF Stale, QuietInv, IInv, DispatchInv
  <2>4. \A i \in 1..Len(chan[r]) : chan[r][i].type # "terminal"
    BY <2>2 DEF FreshInv
  <2> QED BY <2>1, <2>3, <2>4, CountedFresh, CountedSame DEF Reading
<1>2. CASE Whole(r)
  <2>1. Counted(r)
    BY <1>2 DEF CountInv
  <2>2. CASE UNCHANGED vars
    BY <2>1, <2>2, CountedSame DEF vars, supVars, genVars, Reading
  <2>3. CASE RunStep /\ UNCHANGED genVars
    BY <1>2, <2>1, <2>3, CountedRun
  <2>4. CASE ChildStep /\ UNCHANGED genVars
    BY <1>2, <2>1, <2>4, CountedChild
  <2>5. CASE /\ (\E q \in Requests : DispatchStep(q)) \/ (\E c \in Callers : ResetStep(c)) \/ Shutdown
             /\ UNCHANGED genVars
    <3>1. UNCHANGED <<line, stdout, runpc, child, chan>>
      BY <2>5 DEF DispatchStep, DispatchWrite, DispatchFail, DispatchEnd, ResetStep, ResetArm, ResetReturn, Shutdown,
                  runVars, childVars, reqVars
    <3> QED BY <2>1, <2>5, <3>1, CountedSame DEF Reading, genVars
  <2>6. ASSUME NEW q \in Requests, TaskStep(q) \/ ClientStep(q) \/ FaultStep(q) PROVE Counted(r)'
    BY <1>2, <2>1, <2>6, CountedTask
  <2> QED BY <2>2, <2>3, <2>4, <2>5, <2>6 DEF Next, SupNext
<1> QED BY <1>1, <1>2, WholeBefore

-----------------------------------------------------------------------------
\* What a client is told.

\* A successful end carries the number of pieces that were handed on.
LEMMA ToldNext ==
    ASSUME IInv, OrderInv, FrameInv, CountInv, ToldInv, [Next]_vars
    PROVE  ToldInv'
<1>t. /\ DOMAIN task = Requests /\ DOMAIN terminal = Requests /\ DOMAIN out = Requests /\ DOMAIN got = Requests
      /\ DOMAIN verdict = Requests /\ DOMAIN todo = Requests
      /\ \A q \in Requests : out[q] \in Seq(Frames) /\ got[q] \in Nat /\ chan[q] \in Seq(Event)
                             /\ terminal[q].deltas \in Nat
  BY SupervisorAssumption DEF IInv, TypeOK, GenTypeOK, SupTypeOK, Endings
<1>s. \A q \in Requests :
          /\ task'[q] = task[q] /\ terminal'[q] = terminal[q] /\ out'[q] = out[q] /\ got'[q] = got[q]
          /\ verdict'[q] = verdict[q]
          => Told(q)'
  BY DEF ToldInv, Told, Taken
<1>o. ASSUME NEW r \in Requests, Told(r)',
             \A q \in Requests : q # r =>
                /\ task'[q] = task[q] /\ terminal'[q] = terminal[q] /\ out'[q] = out[q] /\ got'[q] = got[q]
                /\ verdict'[q] = verdict[q]
      PROVE  ToldInv'
  BY <1>s, <1>o DEF ToldInv
<1>f. \A c : ~Success(ForcedStatus(c))
  BY DEF Success, ForcedStatus
<1>v. \A q \in Requests : task[q] \notin {"reply", "done"} => verdict[q] # "success"
  BY DEF FrameInv
<1>1. CASE UNCHANGED genVars
  BY <1>1, <1>s DEF ToldInv, genVars
<1>2. ASSUME NEW r \in Requests, TaskStep(r) \/ ClientStep(r) \/ FaultStep(r) PROVE ToldInv'
  <2>1. CASE Arrive(r) \/ Claim(r) \/ BeginError(r) \/ Start(r) \/ Begin(r) \/ BeginUndone(r)
             \/ LoopTop(r) \/ GiveUp(r) \/ CancelDeadline(r) \/ Abandon(r) \/ Backpressure(r)
    <3>1. /\ UNCHANGED <<terminal, out, got>> /\ task[r] \notin {"reply", "done"}
          /\ verdict' = verdict \/ verdict' = [verdict EXCEPT ![r] = "error"]
          /\ \E pc : pc \notin {"finish", "release", "reply", "done"} /\ task' = [task EXCEPT ![r] = pc]
      BY <2>1 DEF Arrive, Claim, BeginError, Start, Begin, BeginUndone, LoopTop, GiveUp, CancelDeadline, Abandon,
                  Backpressure, CanRecv, ForceFailure, Goto, clientVars
    <3>2. verdict'[r] # "success" /\ task'[r] \notin {"finish", "release", "reply", "done"}
      BY <1>t, <1>v, <3>1
    <3> QED BY <1>o, <1>t, <3>1, <3>2 DEF Told
  <2>2. CASE RecvEvent(r)
    <3>1. /\ UNCHANGED <<terminal, got, verdict>> /\ task[r] = "select" /\ task' = [task EXCEPT ![r] = "top"]
          /\ \A q \in Requests : q # r => out'[q] = out[q]
      BY <1>t, <2>2 DEF RecvEvent, CanRecv, Goto
    <3>2. verdict'[r] # "success" /\ task'[r] \notin {"finish", "release", "reply", "done"}
      BY <1>t, <1>v, <3>1
    <3> QED BY <1>o, <1>t, <3>1, <3>2 DEF Told
  <2>3. CASE ResetDone(r) \/ FinishError(r) \/ (RecvTerminal(r) /\ forced[r] # None)
    <3>1. /\ UNCHANGED <<out, got, verdict>> /\ task[r] \notin {"reply", "done"}
          /\ \E pc : task' = [task EXCEPT ![r] = pc]
      BY <2>3 DEF ResetDone, FinishError, RecvTerminal, CanRecv, Goto, clientVars
    <3>2. \E s \in {"failed", ForcedStatus(forced[r])}, b \in BOOLEAN :
              terminal' = [terminal EXCEPT ![r] = Ending(s, 0, b)]
      BY <2>3 DEF ResetDone, FinishError, RecvTerminal
    <3>3. ~Success(terminal'[r].status) /\ \A q \in Requests : q # r => terminal'[q] = terminal[q]
      BY <1>f, <1>t, <3>2 DEF Ending, Success
    <3>4. verdict'[r] # "success"
      BY <1>v, <3>1
    <3> QED BY <1>o, <1>t, <3>1, <3>3, <3>4 DEF Told
  <2>4. CASE RecvTerminal(r) /\ forced[r] = None
    <3> DEFINE event == Head(chan[r])
    <3>1. /\ UNCHANGED <<out, got, verdict>> /\ task[r] = "select" /\ task' = [task EXCEPT ![r] = "finish"]
          /\ terminal' = [terminal EXCEPT ![r] = Ending(event.status, event.deltas, FALSE)]
          /\ chan[r] # <<>> /\ event.type = "terminal"
      BY <2>4 DEF RecvTerminal, CanRecv, Goto, clientVars
    <3>2. terminal'[r].status = event.status /\ terminal'[r].deltas = event.deltas
      BY <1>t, <3>1 DEF Ending
    <3>3. 1 \in 1..Len(chan[r]) /\ event = chan[r][1]
      BY <1>t, <3>1, PopFacts
    <3> HIDE DEF event
    <3>4. ASSUME r \in Streaming, Success(event.status) PROVE Taken(r) = event.deltas
      <4>1. Counted(r)
        BY <2>4, <3>1, <3>4 DEF CountInv, Whole
      <4>2. Taken(r) + Deltas(chan[r]) = event.deltas
        BY <3>1, <3>3, <3>4, <4>1 DEF Counted
      <4>3. Deltas(chan[r]) = 0
        <5>1. \A j \in 1..Len(chan[r]) : chan[r][j].type # "delta"
          BY <1>t, <3>1, <3>3 DEF OrderInv
        <5> QED BY <1>t, <5>1, DeltasCount
      <4>4. Taken(r) \in Nat
        BY <1>t, PiecesCount DEF Taken
      <4> HIDE DEF Taken, Deltas
      <4> QED BY <4>2, <4>3, <4>4
    <3>5. verdict'[r] # "success" /\ Taken(r)' = Taken(r)
      BY <1>v, <3>1 DEF Taken
    <3> QED BY <1>o, <1>t, <3>1, <3>2, <3>4, <3>5 DEF Told
  <2>5. CASE Finish(r) \/ ReleaseTask(r)
    <3>1. /\ UNCHANGED <<terminal, out, got>> /\ task[r] \in {"finish", "release"}
          /\ \E pc : task' = [task EXCEPT ![r] = pc]
          /\ \A q \in Requests : q # r => verdict'[q] = verdict[q]
      BY <1>t, <2>5 DEF Finish, ReleaseTask, Goto, clientVars
    <3>2. verdict'[r] # "success"
      <4>1. verdict[r] # "success"
        BY <1>v, <3>1
      <4>2. CASE Finish(r)
        BY <4>1, <4>2 DEF Finish, clientVars
      <4>3. CASE ReleaseTask(r)
        <5>1. verdict'[r] = "error" \/ verdict'[r] = verdict[r]
          BY <1>t, <4>3 DEF ReleaseTask
        <5> QED BY <4>1, <5>1
      <4> QED BY <2>5, <4>2, <4>3
    <3>3. Told(r)'
      BY <3>1, <3>2 DEF ToldInv, Told, Taken
    <3> QED BY <1>o, <1>t, <3>1, <3>3
  <2>6. CASE Reply(r)
    <3>1. /\ UNCHANGED <<task, terminal, got, verdict>> /\ task[r] = "reply" /\ todo[r] # <<>>
          /\ out' = [out EXCEPT ![r] = Append(@, Head(todo[r]))]
      BY <2>6 DEF Reply, taskVars
    <3>2. Head(todo[r]) \in Frames \ {"delta"}
      <4>1. todo[r] \in {<<"error">>, <<"finish">>, <<"text", "finish">>}
        BY <3>1 DEF FrameInv
      <4>2. CASE todo[r] = <<"error">>
        BY <4>2 DEF Frames
      <4>3. CASE todo[r] = <<"finish">>
        BY <4>3 DEF Frames
      <4>4. CASE todo[r] = <<"text", "finish">>
        BY <4>4 DEF Frames
      <4> QED BY <4>1, <4>2, <4>3, <4>4
    <3>3. Pieces(out'[r]) = Pieces(out[r])
      <4>1. out'[r] = Append(out[r], Head(todo[r])) /\ Pieces(out[r]) \in Nat
        BY <1>t, <3>1, PiecesCount
      <4> QED BY <1>t, <3>2, <4>1, PiecesCount
    <3>4. Told(r)'
      BY <3>1, <3>3 DEF ToldInv, Told, Taken
    <3> QED BY <1>o, <1>t, <3>1, <3>4
  <2>7. CASE ReplyLost(r) \/ ClientLeave(r) \/ UserCancel(r)
    BY <1>s, <2>7 DEF ToldInv, ReplyLost, ClientLeave, UserCancel, taskVars
  <2>8. CASE Done(r)
    <3>1. /\ UNCHANGED <<terminal, out>> /\ task[r] = "reply" /\ task' = [task EXCEPT ![r] = "done"]
          /\ verdict' = [verdict EXCEPT ![r] =
                           IF r \in Streaming \/ r \in gone \/ @ # None THEN @
                           ELSE IF Success(terminal[r].status) THEN "success" ELSE "error"]
          /\ got' = [got EXCEPT ![r] = IF verdict'[r] = "success" THEN terminal[r].deltas ELSE @]
      BY <2>8 DEF Done, Goto
    <3>2. got'[r] = IF verdict'[r] = "success" THEN terminal[r].deltas ELSE got[r]
      BY <1>t, <3>1
    <3>3. CASE r \notin Streaming
      BY <1>o, <1>t, <3>1, <3>2, <3>3 DEF Told
    <3>4. CASE r \in Streaming
      <4>1. verdict'[r] = verdict[r]
        BY <1>t, <3>1, <3>4
      <4>2. verdict[r] = "success" => out[r] = <<>>
        BY DEF FrameInv
      <4>3. Pieces(<<>>) = 0
        <5>1. <<>> \in Seq(Frames) /\ \A i \in 1..Len(<<>>) : <<>>[i] # "delta"
          OBVIOUS
        <5> QED BY <5>1, PiecesCount
      <4>4. CASE verdict[r] = "success"
        <5>1. Taken(r)' = terminal[r].deltas
          BY <1>t, <3>1, <3>2, <4>1, <4>2, <4>3, <4>4 DEF Taken
        <5> QED BY <1>o, <1>t, <3>1, <3>4, <5>1 DEF Told
      <4>5. CASE verdict[r] # "success"
        <5>1. got'[r] = got[r] /\ Taken(r)' = Taken(r)
          BY <3>1, <3>2, <4>1, <4>5 DEF Taken
        <5>2. Told(r)'
          BY <3>1, <3>4, <5>1 DEF ToldInv, Told
        <5> QED BY <1>o, <1>t, <3>1, <5>2
      <4> QED BY <4>4, <4>5
    <3> QED BY <3>3, <3>4
  <2>9. CASE ClientRead(r)
    <3> DEFINE f == Head(out[r])
    <3>1. /\ UNCHANGED <<task, terminal>> /\ out[r] # <<>> /\ out' = [out EXCEPT ![r] = Tail(@)]
          /\ got' = [got EXCEPT ![r] = CASE f = "delta" -> @ + 1 [] f = "text" -> terminal[r].deltas [] OTHER -> @]
          /\ \A q \in Requests : q # r => verdict'[q] = verdict[q]
      BY <1>t, <2>9 DEF ClientRead, taskVars
    <3>2. /\ 1 \in 1..Len(out[r]) /\ f = out[r][1] /\ out'[r] = Tail(out[r]) /\ Tail(out[r]) \in Seq(Frames)
      BY <1>t, <3>1, PopFacts
    <3>3. r \in Streaming
      BY <3>1 DEF FrameInv
    <3>4. /\ got'[r] = IF f = "delta" THEN got[r] + 1 ELSE IF f = "text" THEN terminal[r].deltas ELSE got[r]
      BY <1>t, <3>1
    <3> HIDE DEF f
    <3>5. /\ Pieces(out[r]) = Pieces(out'[r]) + (IF f = "delta" THEN 1 ELSE 0)
          /\ Pieces(out[r]) \in Nat /\ Pieces(out'[r]) \in Nat
      BY <1>t, <3>1, <3>2, PiecesCount DEF f
    <3>6. CASE f = "text"
      <4>1. Pieces(out[r]) = 0
        <5>1. \A i \in 1..Len(out[r]) : out[r][i] # "delta"
          <6>1. \A i \in 1..Len(out[r]) : /\ out[r][i] = "text" => r \notin sawDelta
                                          /\ out[r][i] = "delta" => r \in sawDelta
            BY DEF FrameInv
          <6> QED BY <3>2, <3>6, <6>1
        <5> QED BY <1>t, <5>1, PiecesCount
      <4>2. Pieces(out'[r]) = 0
        BY <3>5, <3>6, <4>1
      <4>3. Taken(r)' = terminal[r].deltas
        BY <1>t, <3>4, <3>6, <4>2 DEF Taken
      <4> QED BY <1>o, <1>t, <3>1, <3>3, <4>3 DEF Told
    <3>7. CASE f # "text"
      <4>1. Taken(r)' = Taken(r)
        <5>1. Taken(r)' = got'[r] + Pieces(out'[r]) /\ Taken(r) = got[r] + Pieces(out[r])
          BY DEF Taken
        <5>2. got[r] + Pieces(out[r]) = got'[r] + Pieces(out'[r])
          <6> HIDE DEF Pieces
          <6> QED BY <1>t, <3>4, <3>5, <3>7
        <5> QED BY <5>1, <5>2
      <4>2. Told(r)'
        BY <3>1, <3>3, <4>1 DEF ToldInv, Told
      <4> QED BY <1>o, <1>t, <3>1, <4>2
    <3> QED BY <3>6, <3>7
  <2> QED BY <1>2, <2>1, <2>2, <2>3, <2>4, <2>5, <2>6, <2>7, <2>8, <2>9 DEF TaskStep, ClientStep, FaultStep
<1> QED BY <1>1, <1>2 DEF Next, vars

\* At the start nothing was sent, handed on or told.
LEMMA DeliveryInit == Init => DeliveryInv
<1> SUFFICES ASSUME Init PROVE DeliveryInv
  OBVIOUS
<1>1. /\ line = NoLine /\ NoLine.type = "garbage" /\ stdout = <<>>
      /\ \A r \in Requests : /\ chan[r] = <<>> /\ out[r] = <<>> /\ todo[r] = <<>> /\ got[r] = 0
                             /\ task[r] = "idle" /\ verdict[r] # "success" /\ row[r] = "absent"
                             /\ terminal[r].storage = FALSE
  BY NoneAssumption DEF Init, SupInit, GenInit, NoLine, Plain, Ending
<1>2. Stale
  BY StaleInit
<1>3. RowInv /\ FreshInv
  BY <1>1 DEF RowInv, FreshInv
<1>4. CountInv
  BY <1>1 DEF CountInv, Whole
<1>5. OrderInv
  BY <1>1 DEF OrderInv
<1>6. FrameInv
  <2> SUFFICES ASSUME NEW r \in Requests
               PROVE  FrameInv!(r)
    BY DEF FrameInv
  <2>1. out[r] = <<>> /\ todo[r] = <<>> /\ task[r] = "idle" /\ verdict[r] # "success"
    BY <1>1
  <2>2. \A i \in 1..Len(out[r]) : FALSE
    BY <2>1
  <2>3. todo[r] \notin {<<"finish">>, <<"text", "finish">>} /\ todo[r] # <<"text", "finish">>
    BY <2>1
  <2> QED BY Zenon, <2>1, <2>2, <2>3
<1>7. ToldInv
  BY <1>1 DEF ToldInv, Told
<1> QED BY <1>2, <1>3, <1>4, <1>5, <1>6, <1>7 DEF DeliveryInv, Stale

LEMMA DeliveryHolds == Spec => []DeliveryInv
<1>1. IInv /\ DeliveryInv /\ [Next]_vars => DeliveryInv'
  <2> SUFFICES ASSUME IInv, DeliveryInv, [Next]_vars PROVE DeliveryInv'
    OBVIOUS
  <2>1. Stale /\ RowInv /\ FreshInv /\ CountInv /\ OrderInv /\ FrameInv /\ ToldInv
    BY DEF DeliveryInv, Stale
  <2>2. Stale' /\ RowInv' /\ FreshInv' /\ CountInv' /\ OrderInv' /\ FrameInv' /\ ToldInv'
    BY <2>1, StaleNext, RowNext, FreshNext, CountNext, OrderNext, FrameNext, ToldNext
  <2> QED BY <2>2 DEF DeliveryInv, Stale
<1> QED BY Inductive, DeliveryInit, <1>1, PTL DEF Spec

\* A client that is told of success, by the end of its stream or by the answer
\* without one, has every piece of text the worker sent for it, and the row of
\* the response carries that very status: no piece is lost in the pipe, in run()
\* (worker.rs:212-317), in the event channel, in the generation task's loop
\* (generation.rs:277-379) or in the client's bounded stream.
THEOREM SuccessIsWhole == Spec => []NoTruncatedSuccess
<1>1. ASSUME IInv, DeliveryInv PROVE NoTruncatedSuccess
  <2> SUFFICES ASSUME NEW r \in Requests, verdict[r] = "success"
               PROVE  got[r] = terminal[r].deltas /\ row[r] = terminal[r].status /\ Success(row[r])
    BY DEF NoTruncatedSuccess
  <2>1. out[r] = <<>> /\ Success(terminal[r].status) /\ task[r] \in {"reply", "done"}
    BY <1>1 DEF DeliveryInv, FrameInv
  <2>2. row[r] = terminal[r].status
    BY <1>1, <2>1 DEF DeliveryInv, RowInv
  <2>3. Taken(r) = got[r]
    <3>1. Pieces(<<>>) = 0
      <4>1. <<>> \in Seq(Frames) /\ \A i \in 1..Len(<<>>) : <<>>[i] # "delta"
        OBVIOUS
      <4> QED BY <4>1, PiecesCount
    <3>2. got[r] \in Nat
      BY <1>1 DEF IInv, TypeOK, GenTypeOK
    <3> QED BY <2>1, <3>1, <3>2 DEF Taken
  <2>4. got[r] = terminal[r].deltas
    BY <1>1, <2>1, <2>3 DEF DeliveryInv, ToldInv, Told
  <2> QED BY <2>1, <2>2, <2>4
<1> QED BY Inductive, DeliveryHolds, <1>1, PTL

===============================================================================
