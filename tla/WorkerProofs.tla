----------------------------- MODULE WorkerProofs -----------------------------
(* What runs in the worker processes. First the threads of both, for any      *)
(* number of generations, cancels and windows: the argument rests on where a  *)
(* generation is, in the pipe, in the queue or at work; for the resident      *)
(* worker (ResidentWorker) also on the slot and the event of a cancel, and    *)
(* the rollback worker's (RollbackWorker) reader never finds the queue full.  *)
(* Then what the engines record, upload and keep beside the model, for any    *)
(* sizes: the rollback engine's fast paths (DraftWalk), the draft's own rows  *)
(* (DraftCache), the graphs of the runner (RunnerGraphs) and those of the     *)
(* attention with its scratch and its plans (XqaGraphs).                      *)
EXTENDS ResidentWorker, RollbackWorker, DraftWalk, DraftCache, RunnerGraphs, XqaGraphs,
        OrderLemmas

-----------------------------------------------------------------------------
(* What holds of the pipes, the queue and the main thread of either worker    *)
(* (ChildPipe), and that the steps both have in common keep it.               *)

Commands == [op : {"generate", "cancel"}, id : Ids] \cup [op : {"shutdown"}, id : {NoId}]

AtWork == mainpc \notin {"get", "exit"}

PipeType ==
    /\ stdin \in Seq(Commands) /\ closed \in BOOLEAN /\ asked \subseteq Ids /\ cancels \in Nat
    /\ lines \in [Ids -> Seq({"started", "delta", "terminal"})]
    /\ queue \in Seq(Ids \cup {NoId}) /\ job \in Ids \cup {NoId} /\ taken \subseteq Ids

\* A generate is in the pipe once, and nothing was said of it.
InPipe ==
    /\ taken \subseteq asked
    /\ \A i \in Ids : i \notin asked => lines[i] = <<>>
    /\ \A k \in 1..Len(stdin) : stdin[k].op = "generate" =>
          stdin[k].id \in asked \ taken /\ lines[stdin[k].id] = <<>>
    /\ \A k, l \in 1..Len(stdin) : stdin[k].op = "generate" /\ stdin[l] = stdin[k] => k = l

\* A generation is in the queue once, and nothing was said of it. The end comes last.
InQueue ==
    /\ \A k \in 1..Len(queue) : queue[k] # NoId =>
          queue[k] \in taken /\ lines[queue[k]] = <<>> /\ (AtWork => queue[k] # job)
    /\ \A k, l \in 1..Len(queue) : queue[k] = queue[l] => k = l
    /\ \A k \in 1..Len(queue) : queue[k] = NoId => k = Len(queue) /\ readpc = "done"

\* What was said of the generation at work, by the place of the main thread.
AtMain ==
    /\ AtWork => job \in taken
    /\ mainpc \in {"push", "begun", "over"} => lines[job] = <<>>
    /\ mainpc = "window" => Protocol!Working(job)
    /\ mainpc \in {"ending", "tell"} => ~Protocol!Ended(job)
    /\ mainpc = "finally" => Protocol!Ended(job)
    /\ \A i \in Ids : Protocol!Working(i) => mainpc \in {"window", "ending", "tell"} /\ job = i

\* Every generation that was taken is somewhere, or was answered.
Placed ==
    /\ \A i \in taken : \/ Said(i, "terminal")
                        \/ AtWork /\ job = i
                        \/ \E k \in 1..Len(queue) : queue[k] = i
    /\ mainpc = "exit" => readpc = "done" /\ queue = <<>>

PipeInv == PipeType /\ InPipe /\ InQueue /\ AtMain /\ Placed

(* A generation that is over was given its terminal (emit of the last line).  *)
LEMMA EndedSaid ==
    ASSUME PipeType, NEW i \in Ids, Protocol!Ended(i)
    PROVE  Said(i, "terminal")
  <1>1. lines[i] \in Seq({"started", "delta", "terminal"})
    BY DEF PipeType
  <1>2. Len(lines[i]) \in DOMAIN lines[i] /\ lines[i][Len(lines[i])] = "terminal"
    BY <1>1 DEF Protocol!Ended
  <1> QED
    BY <1>2 DEF Said

(* Emit writes one line behind what was said of a generation, and nothing     *)
(* about another one.                                                         *)
LEMMA EmitLine ==
    ASSUME PipeType, NEW i \in Ids, NEW kind \in {"started", "delta", "terminal"}, Emit(i, kind)
    PROVE  /\ lines' \in [Ids -> Seq({"started", "delta", "terminal"})]
           /\ \A j \in Ids : j # i => lines'[j] = lines[j]
           /\ lines'[i] # <<>> /\ lines'[i][Len(lines'[i])] = kind
           /\ \A j \in Ids : Said(j, "terminal") => Said(j, "terminal")'
  <1>1. lines[i] \in Seq({"started", "delta", "terminal"}) /\ lines \in [Ids -> Seq({"started", "delta", "terminal"})]
    BY DEF PipeType
  <1>2. lines' = [lines EXCEPT ![i] = Append(lines[i], kind)]
    BY DEF Emit
  <1>3. lines'[i] = Append(lines[i], kind) /\ \A j \in Ids : j # i => lines'[j] = lines[j]
    BY <1>1, <1>2
  <1>4. ASSUME NEW j \in Ids, Said(j, "terminal") PROVE Said(j, "terminal")'
    <2>1. CASE j = i
      <3>1. PICK k \in DOMAIN lines[i] : lines[i][k] = "terminal"
        BY <1>4, <2>1 DEF Said
      <3>2. k \in DOMAIN lines'[i] /\ lines'[i][k] = "terminal"
        BY <1>1, <1>3, <3>1
      <3> QED
        BY <2>1, <3>2 DEF Said
    <2>2. CASE j # i
      BY <1>3, <1>4, <2>2 DEF Said
    <2> QED
      BY <2>1, <2>2
  <1>5. lines' \in [Ids -> Seq({"started", "delta", "terminal"})]
    BY <1>1, <1>2
  <1> QED
    BY <1>1, <1>3, <1>4, <1>5

(* The beginning.                                                             *)
LEMMA PipeBegins == PipeInit => PipeInv
  <1> SUFFICES ASSUME PipeInit PROVE PipeInv
    OBVIOUS
  <1>1. PipeType
    <2>1. <<>> \in Seq(Commands) /\ <<>> \in Seq(Ids \cup {NoId}) /\ <<>> \in Seq({"started", "delta", "terminal"})
      OBVIOUS
    <2>2. lines \in [Ids -> Seq({"started", "delta", "terminal"})]
      BY <2>1 DEF PipeInit
    <2> QED
      BY <2>1, <2>2 DEF PipeInit, PipeType
  <1>2. InPipe /\ InQueue
    BY DEF PipeInit, InPipe, InQueue
  <1>3. AtMain /\ Placed
    BY DEF PipeInit, AtMain, Placed, AtWork, Protocol!Working
  <1> QED
    BY <1>1, <1>2, <1>3 DEF PipeInv

(* The server writes a command or closes the pipe (worker.rs): a generate is  *)
(* new, and nothing is said.                                                  *)
LEMMA ServerStep ==
    ASSUME PipeAssumption, PipeInv, Server
    PROVE  PipeInv' /\ [Protocol!Next]_<<asked, lines>>
  <1> USE DEF PipeInv
  <1>1. UNCHANGED <<lines, readpc, queue, mainpc, job, windows, taken>>
    BY DEF Server, threadVars
  <1>2. AtMain' /\ Placed' /\ InQueue'
    BY <1>1 DEF AtMain, Placed, InQueue, AtWork, Said, Protocol!Working, Protocol!Ended
  <1>3. CASE \E i \in Ids : AskLine(i)
    <2>1. PICK i \in Ids : AskLine(i)
      BY <1>3
    <2>2. stdin' = Append(stdin, Line("generate", i)) /\ asked' = asked \cup {i} /\ i \notin asked
          /\ closed' = closed /\ cancels' = cancels
      BY <2>1 DEF AskLine, Write
    <2>3. Line("generate", i) \in Commands /\ Line("generate", i).op = "generate" /\ Line("generate", i).id = i
      BY DEF Line, Commands
    <2>4. PipeType'
      BY <1>1, <2>2, <2>3 DEF PipeType
    <2>5. InPipe'
      BY <1>1, <2>2, <2>3 DEF PipeType, InPipe
    <2>6. Protocol!Ask(i)
      BY <1>1, <2>2 DEF Protocol!Ask
    <2> QED
      BY <1>2, <2>4, <2>5, <2>6 DEF Protocol!Next
  <1>4. CASE \E i \in Ids : CancelLine(i)
    <2>1. PICK i \in Ids : CancelLine(i)
      BY <1>4
    <2>2. stdin' = Append(stdin, Line("cancel", i)) /\ asked' = asked
          /\ closed' = closed /\ cancels' = cancels + 1
      BY <2>1 DEF CancelLine, Write
    <2>3. Line("cancel", i) \in Commands /\ Line("cancel", i).op = "cancel"
      BY DEF Line, Commands
    <2>4. PipeType'
      BY <1>1, <2>2, <2>3 DEF PipeType
    <2>5. InPipe'
      BY <1>1, <2>2, <2>3 DEF PipeType, InPipe
    <2> QED
      BY <1>1, <1>2, <2>2, <2>4, <2>5
  <1>5. CASE StopLine
    <2>2. stdin' = Append(stdin, Line("shutdown", NoId)) /\ asked' = asked
          /\ closed' = TRUE /\ cancels' = cancels
      BY <1>5 DEF StopLine, Write
    <2>3. Line("shutdown", NoId) \in Commands /\ Line("shutdown", NoId).op = "shutdown"
      BY DEF Line, Commands
    <2>4. PipeType'
      BY <1>1, <2>2, <2>3 DEF PipeType
    <2>5. InPipe'
      BY <1>1, <2>2, <2>3 DEF PipeType, InPipe
    <2> QED
      BY <1>1, <1>2, <2>2, <2>4, <2>5
  <1>6. CASE Close
    BY <1>1, <1>2, <1>6 DEF Close, PipeType, InPipe
  <1> QED
    BY <1>3, <1>4, <1>5, <1>6 DEF Server

(* The main thread takes the next job, or the end, behind which nothing comes *)
(* any more.                                                                  *)
LEMMA GetJobStep ==
    ASSUME PipeAssumption, PipeInv, GetJob
    PROVE  PipeInv' /\ UNCHANGED <<asked, lines>>
  <1> USE DEF PipeInv
  <1>1. /\ UNCHANGED <<stdin, closed, asked, cancels, lines, readpc, windows, taken>>
        /\ mainpc = "get" /\ queue # <<>> /\ queue' = Tail(queue) /\ job' = Head(queue)
        /\ mainpc' = IF Head(queue) = NoId THEN "exit" ELSE "push"
    BY DEF GetJob, pipeVars, serverVars
  <1>2. /\ queue \in Seq(Ids \cup {NoId}) /\ Len(queue) > 0 /\ Head(queue) = queue[1]
        /\ Len(queue') = Len(queue) - 1 /\ \A k \in 1..Len(queue') : queue'[k] = queue[k + 1]
    BY <1>1 DEF PipeType
  <1>3. job' \in Ids \cup {NoId} /\ (job' # NoId => job' \in taken /\ lines[job'] = <<>>)
    <2>1. 1 \in 1..Len(queue) /\ queue[1] \in Ids \cup {NoId} /\ job' = queue[1]
      BY <1>1, <1>2
    <2> QED
      BY <2>1 DEF InQueue
  <1>4. PipeType' /\ InPipe'
    BY <1>1, <1>2, <1>3 DEF PipeType, InPipe
  <1>5. InQueue'
    <2>1. ASSUME NEW k \in 1..Len(queue'), queue'[k] # NoId
          PROVE  queue'[k] \in taken /\ lines[queue'[k]] = <<>> /\ queue'[k] # job'
      <3>1. k + 1 \in 1..Len(queue) /\ k + 1 # 1 /\ 1 \in 1..Len(queue) /\ queue'[k] = queue[k + 1]
        BY <1>2
      <3> QED
        BY <1>1, <1>2, <2>1, <3>1 DEF InQueue
    <2>2. ASSUME NEW k \in 1..Len(queue'), NEW l \in 1..Len(queue'), queue'[k] = queue'[l] PROVE k = l
      BY <1>2, <2>2 DEF InQueue
    <2>3. ASSUME NEW k \in 1..Len(queue'), queue'[k] = NoId PROVE k = Len(queue') /\ readpc' = "done"
      <3>1. k + 1 \in 1..Len(queue) /\ queue[k + 1] = NoId
        BY <1>2, <2>3
      <3>2. k + 1 = Len(queue) /\ readpc = "done"
        BY <3>1 DEF InQueue
      <3>3. k \in Nat /\ Len(queue) \in Nat /\ readpc' = readpc
        BY <1>1, <1>2
      <3> QED
        BY <1>2, <3>2, <3>3
    <2> QED
      BY <1>1, <2>1, <2>2, <2>3 DEF InQueue
  <1>6. AtMain'
    BY <1>1, <1>2, <1>3 DEF AtMain, AtWork, PipeAssumption, Protocol!Working, Protocol!Ended
  <1>7. Placed'
    <2>1. ASSUME NEW i \in taken
          PROVE  Said(i, "terminal") \/ (AtWork' /\ job' = i) \/ \E k \in 1..Len(queue') : queue'[k] = i
      <3>1. CASE Said(i, "terminal")
        BY <3>1
      <3>2. CASE \E k \in 1..Len(queue) : queue[k] = i
        <4>1. PICK k \in 1..Len(queue) : queue[k] = i
          BY <3>2
        <4>2. CASE k = 1
          BY <1>1, <1>2, <4>1, <4>2 DEF AtWork, PipeType, PipeAssumption
        <4>3. CASE k # 1
          <5>1. k - 1 \in 1..Len(queue') /\ queue'[k - 1] = i
            BY <1>2, <4>1, <4>3
          <5> QED
            BY <5>1
        <4> QED
          BY <4>2, <4>3
      <3> QED
        BY <1>1, <3>1, <3>2 DEF Placed, AtWork
    <2>2. mainpc' = "exit" => readpc' = "done" /\ queue' = <<>>
      <3>1. 1 \in 1..Len(queue)
        BY <1>2
      <3>2. CASE queue[1] = NoId
        <4>1. Len(queue) = 1 /\ readpc = "done"
          BY <3>1, <3>2 DEF InQueue
        <4>2. Len(queue') = 0 /\ queue' \in Seq(Ids \cup {NoId})
          BY <1>1, <1>2, <4>1
        <4> QED
          BY <1>1, <4>1, <4>2
      <3> QED
        BY <1>1, <1>2, <3>2
    <2> QED
      BY <1>1, <2>1, <2>2 DEF Placed, Said
  <1> QED
    BY <1>1, <1>4, <1>5, <1>6, <1>7

(* The main thread goes on and says nothing.                                  *)
LEMMA MoveStep ==
    ASSUME PipeInv, AtWork, AtWork', AtMain',
           UNCHANGED <<stdin, closed, asked, cancels, lines, readpc, queue, job, taken>>
    PROVE  PipeInv'
  <1>1. PipeType'
    BY DEF PipeInv, PipeType
  <1>2. InPipe'
    BY DEF PipeInv, InPipe
  <1>3. InQueue'
    BY DEF PipeInv, InQueue
  <1>4. Placed'
    BY DEF PipeInv, Placed, AtWork, Said
  <1> QED
    BY <1>1, <1>2, <1>3, <1>4 DEF PipeInv

(* The reader goes on and says nothing, reads nothing and queues nothing.     *)
LEMMA ReaderMoves ==
    ASSUME PipeInv, readpc # "done",
           UNCHANGED <<stdin, closed, asked, cancels, lines, queue, mainpc, job, taken>>
    PROVE  PipeInv'
  <1>1. PipeType'
    BY DEF PipeInv, PipeType
  <1>2. InPipe'
    BY DEF PipeInv, InPipe
  <1>3. InQueue'
    BY DEF PipeInv, InQueue, AtWork
  <1>4. AtMain'
    BY DEF PipeInv, AtMain, AtWork, Protocol!Working, Protocol!Ended
  <1>5. Placed'
    BY DEF PipeInv, Placed, AtWork, Said
  <1> QED
    BY <1>1, <1>2, <1>3, <1>4, <1>5 DEF PipeInv

(* What is left in the pipe after a line was read is what was there before.   *)
LEMMA ReadRest ==
    ASSUME PipeInv, NEW op \in {"generate", "cancel", "shutdown"}, ReadLine(op)
    PROVE  /\ stdin' \in Seq(Commands) /\ Head(stdin) \in Commands /\ Head(stdin).op = op
           /\ 1 \in 1..Len(stdin) /\ stdin[1] = Head(stdin)
           /\ \A k \in 1..Len(stdin') : k + 1 \in 1..Len(stdin) /\ stdin'[k] = stdin[k + 1]
           /\ UNCHANGED <<closed, asked, cancels>> /\ readpc = "reading"
  <1>1. stdin \in Seq(Commands) /\ stdin # <<>> /\ stdin' = Tail(stdin) /\ Head(stdin).op = op
        /\ UNCHANGED <<closed, asked, cancels>> /\ readpc = "reading"
    BY DEF PipeInv, PipeType, ReadLine, serverVars
  <1>2. Len(stdin) > 0 /\ Len(stdin') = Len(stdin) - 1 /\ Head(stdin) = stdin[1]
        /\ \A k \in 1..Len(stdin') : stdin'[k] = stdin[k + 1]
    BY <1>1
  <1>3. stdin' \in Seq(Commands) /\ Head(stdin) \in Commands
    BY <1>1, <1>2
  <1> QED
    BY <1>1, <1>2, <1>3

(* A line that is no generate is read; nothing is said.                       *)
LEMMA ReadOther ==
    ASSUME PipeInv, NEW op \in {"cancel", "shutdown"}, ReadLine(op),
           UNCHANGED <<lines, queue, mainpc, job, taken>>
    PROVE  PipeInv'
  <1>1. /\ stdin' \in Seq(Commands) /\ UNCHANGED <<closed, asked, cancels>> /\ readpc = "reading"
        /\ \A k \in 1..Len(stdin') : k + 1 \in 1..Len(stdin) /\ stdin'[k] = stdin[k + 1]
    BY ReadRest
  <1>2. PipeType'
    BY <1>1 DEF PipeInv, PipeType
  <1>3. InPipe'
    <2>1. ASSUME NEW k \in 1..Len(stdin'), NEW l \in 1..Len(stdin'),
                 stdin'[k].op = "generate", stdin'[l] = stdin'[k] PROVE k = l
      <3>1. k + 1 = l + 1
        BY <1>1, <2>1 DEF PipeInv, InPipe
      <3> QED
        BY <3>1
    <2>2. ASSUME NEW k \in 1..Len(stdin'), stdin'[k].op = "generate"
          PROVE  stdin'[k].id \in asked' \ taken' /\ lines'[stdin'[k].id] = <<>>
      BY <1>1, <2>2 DEF PipeInv, InPipe
    <2> QED
      BY <1>1, <2>1, <2>2 DEF PipeInv, InPipe
  <1>4. InQueue'
    BY <1>1 DEF PipeInv, InQueue, AtWork
  <1>5. AtMain'
    BY <1>1 DEF PipeInv, AtMain, AtWork, Protocol!Working, Protocol!Ended
  <1>6. Placed'
    BY <1>1 DEF PipeInv, Placed, AtWork, Said
  <1> QED
    BY <1>2, <1>3, <1>4, <1>5, <1>6 DEF PipeInv

(* A generate is read: what it asks for is new, and no other line asks for it. *)
LEMMA ReadNew ==
    ASSUME PipeInv, ReadLine("generate")
    PROVE  /\ Head(stdin).id \in Ids \cap (asked \ taken) /\ lines[Head(stdin).id] = <<>>
           /\ \A k \in 1..Len(stdin') : stdin'[k].op = "generate" => stdin'[k].id # Head(stdin).id
  <1>1. /\ Head(stdin) \in Commands /\ Head(stdin).op = "generate" /\ stdin' \in Seq(Commands)
        /\ 1 \in 1..Len(stdin) /\ stdin[1] = Head(stdin)
        /\ \A k \in 1..Len(stdin') : k + 1 \in 1..Len(stdin) /\ stdin'[k] = stdin[k + 1]
    BY ReadRest
  <1>2. Head(stdin).id \in Ids \cap (asked \ taken) /\ lines[Head(stdin).id] = <<>>
    BY <1>1 DEF PipeInv, InPipe, PipeType
  <1>3. ASSUME NEW k \in 1..Len(stdin'), stdin'[k].op = "generate", stdin'[k].id = Head(stdin).id
        PROVE  FALSE
    <2>1. stdin'[k] \in Commands
      BY <1>1
    <2>2. stdin'[k] = Head(stdin)
      BY <1>1, <1>3, <2>1 DEF Commands
    <2>3. k + 1 = 1
      BY <1>1, <2>2 DEF PipeInv, InPipe
    <2> QED
      BY <2>3
  <1> QED
    BY <1>2, <1>3

(* The reader queues the generation that a line asks for.                     *)
LEMMA QueueStep ==
    ASSUME PipeAssumption, PipeInv, ReadLine("generate"),
           queue' = Append(queue, Head(stdin).id), taken' = taken \cup {Head(stdin).id},
           UNCHANGED <<lines, readpc, mainpc, job>>
    PROVE  PipeInv'
  <1> DEFINE i == Head(stdin).id
  <1>1. /\ stdin' \in Seq(Commands) /\ UNCHANGED <<closed, asked, cancels>> /\ readpc = "reading"
        /\ \A k \in 1..Len(stdin') : k + 1 \in 1..Len(stdin) /\ stdin'[k] = stdin[k + 1]
    BY ReadRest
  <1>2. /\ i \in Ids \cap (asked \ taken) /\ lines[i] = <<>>
        /\ \A k \in 1..Len(stdin') : stdin'[k].op = "generate" => stdin'[k].id # i
    BY ReadNew
  <1>3. /\ queue \in Seq(Ids \cup {NoId}) /\ queue' = Append(queue, i) /\ taken' = taken \cup {i}
        /\ queue' \in Seq(Ids \cup {NoId}) /\ Len(queue') = Len(queue) + 1 /\ queue'[Len(queue')] = i
        /\ \A k \in 1..Len(queue) : queue'[k] = queue[k]
    BY <1>2 DEF PipeInv, PipeType
  <1> HIDE DEF i
  <1>4. PipeType'
    BY <1>1, <1>2, <1>3 DEF PipeInv, PipeType
  <1>5. InPipe'
    <2>1. ASSUME NEW k \in 1..Len(stdin'), NEW l \in 1..Len(stdin'),
                 stdin'[k].op = "generate", stdin'[l] = stdin'[k] PROVE k = l
      <3>1. k + 1 = l + 1
        BY <1>1, <2>1 DEF PipeInv, InPipe
      <3> QED
        BY <3>1
    <2>2. ASSUME NEW k \in 1..Len(stdin'), stdin'[k].op = "generate"
          PROVE  stdin'[k].id \in asked' \ taken' /\ lines'[stdin'[k].id] = <<>>
      BY <1>1, <1>2, <1>3, <2>2 DEF PipeInv, InPipe
    <2> QED
      BY <1>1, <1>2, <1>3, <2>1, <2>2 DEF PipeInv, InPipe
  <1>6. \A k \in 1..Len(queue) : queue[k] \notin {i, NoId}
    BY <1>1, <1>2 DEF PipeInv, InQueue, PipeAssumption
  <1>7. InQueue'
    <2>1. ASSUME NEW k \in 1..Len(queue'), queue'[k] # NoId
          PROVE  queue'[k] \in taken' /\ lines'[queue'[k]] = <<>> /\ (AtWork' => queue'[k] # job')
      <3>1. CASE k \in 1..Len(queue)
        BY <1>3, <2>1, <3>1 DEF PipeInv, InQueue, AtWork
      <3>2. CASE k \notin 1..Len(queue)
        <4>1. k = Len(queue')
          BY <1>3, <3>2
        <4> QED
          BY <1>2, <1>3, <4>1 DEF PipeInv, AtMain, AtWork
      <3> QED
        BY <3>1, <3>2
    <2>2. ASSUME NEW k \in 1..Len(queue'), NEW l \in 1..Len(queue'), queue'[k] = queue'[l] PROVE k = l
      BY <1>3, <1>6, <2>2 DEF PipeInv, InQueue
    <2>3. ASSUME NEW k \in 1..Len(queue'), queue'[k] = NoId PROVE FALSE
      BY <1>2, <1>3, <1>6, <2>3 DEF PipeAssumption
    <2> QED
      BY <2>1, <2>2, <2>3 DEF InQueue
  <1>8. AtMain'
    BY <1>1, <1>3 DEF PipeInv, AtMain, AtWork, Protocol!Working, Protocol!Ended
  <1>9. Placed'
    <2>1. ASSUME NEW j \in taken'
          PROVE  Said(j, "terminal") \/ (AtWork /\ job = j) \/ \E k \in 1..Len(queue') : queue'[k] = j
      <3>1. CASE j = i
        <4>1. Len(queue') \in 1..Len(queue')
          BY <1>3
        <4> QED
          BY <1>3, <3>1, <4>1
      <3>2. CASE j # i
        <4>1. j \in taken
          BY <1>3, <3>2
        <4>2. CASE \E k \in 1..Len(queue) : queue[k] = j
          <5>1. PICK k \in 1..Len(queue) : queue[k] = j
            BY <4>2
          <5>2. k \in 1..Len(queue') /\ queue'[k] = j
            BY <1>3, <5>1
          <5> QED
            BY <5>2
        <4> QED
          BY <4>1, <4>2 DEF PipeInv, Placed
      <3> QED
        BY <3>1, <3>2
    <2>2. mainpc' # "exit"
      BY <1>1 DEF PipeInv, Placed
    <2> QED
      BY <2>1, <2>2 DEF Placed, Said, AtWork
  <1> QED
    BY <1>4, <1>5, <1>7, <1>8, <1>9 DEF PipeInv

(* The reader's last act: the end of the process goes behind all the work.    *)
LEMMA PutStep ==
    ASSUME PipeAssumption, PipeInv, readpc # "done", readpc' = "done", queue' = Append(queue, NoId),
           UNCHANGED <<stdin, closed, asked, cancels, lines, mainpc, job, taken>>
    PROVE  PipeInv'
  <1>1. /\ queue \in Seq(Ids \cup {NoId}) /\ queue' \in Seq(Ids \cup {NoId})
        /\ Len(queue') = Len(queue) + 1 /\ queue'[Len(queue')] = NoId
        /\ \A k \in 1..Len(queue) : queue'[k] = queue[k]
    BY DEF PipeInv, PipeType
  <1>2. \A k \in 1..Len(queue) : queue[k] # NoId
    BY DEF PipeInv, InQueue
  <1>3. PipeType'
    BY <1>1 DEF PipeInv, PipeType
  <1>4. InPipe'
    BY DEF PipeInv, InPipe
  <1>5. InQueue'
    <2>1. ASSUME NEW k \in 1..Len(queue'), queue'[k] # NoId
          PROVE  queue'[k] \in taken' /\ lines'[queue'[k]] = <<>> /\ (AtWork' => queue'[k] # job')
      <3>1. k \in 1..Len(queue)
        BY <1>1, <2>1
      <3> QED
        BY <1>1, <2>1, <3>1 DEF PipeInv, InQueue, AtWork
    <2>2. ASSUME NEW k \in 1..Len(queue'), NEW l \in 1..Len(queue'), queue'[k] = queue'[l] PROVE k = l
      BY <1>1, <1>2, <2>2 DEF PipeInv, InQueue
    <2>3. ASSUME NEW k \in 1..Len(queue'), queue'[k] = NoId PROVE k = Len(queue')
      BY <1>1, <1>2, <2>3
    <2> QED
      BY <2>1, <2>2, <2>3 DEF InQueue
  <1>6. AtMain'
    BY DEF PipeInv, AtMain, AtWork, Protocol!Working, Protocol!Ended
  <1>7. Placed'
    <2>1. ASSUME NEW j \in taken
          PROVE  Said(j, "terminal") \/ (AtWork /\ job = j) \/ \E k \in 1..Len(queue') : queue'[k] = j
      <3>1. CASE \E k \in 1..Len(queue) : queue[k] = j
        <4>1. PICK k \in 1..Len(queue) : queue[k] = j
          BY <3>1
        <4>2. k \in 1..Len(queue') /\ queue'[k] = j
          BY <1>1, <4>1
        <4> QED
          BY <4>2
      <3> QED
        BY <3>1 DEF PipeInv, Placed
    <2>2. mainpc' # "exit"
      BY DEF PipeInv, Placed
    <2> QED
      BY <2>1, <2>2 DEF Placed, Said, AtWork
  <1> QED
    BY <1>3, <1>4, <1>5, <1>6, <1>7 DEF PipeInv

(* A line is said of a generation that is in neither the pipe nor the queue:  *)
(* what waits is as it was.                                                   *)
LEMMA SayWaiting ==
    ASSUME PipeInv, NEW i \in Ids, NEW kind \in {"started", "delta", "terminal"}, Emit(i, kind),
           i \in asked, UNCHANGED <<stdin, closed, asked, cancels, readpc, queue, job, taken>>,
           \A k \in 1..Len(stdin) : stdin[k].op = "generate" => stdin[k].id # i,
           \A k \in 1..Len(queue) : queue[k] # i, AtWork' => AtWork
    PROVE  PipeType' /\ InPipe' /\ InQueue'
  <1>1. /\ lines' \in [Ids -> Seq({"started", "delta", "terminal"})]
        /\ \A j \in Ids : j # i => lines'[j] = lines[j]
    BY EmitLine DEF PipeInv
  <1>2. PipeType'
    BY <1>1 DEF PipeInv, PipeType
  <1>3. InPipe'
    <2>1. ASSUME NEW k \in 1..Len(stdin), stdin[k].op = "generate"
          PROVE  lines'[stdin[k].id] = <<>>
      BY <1>1, <2>1 DEF PipeInv, InPipe, PipeType
    <2> QED
      BY <1>1, <2>1 DEF PipeInv, InPipe
  <1>4. InQueue'
    <2>1. ASSUME NEW k \in 1..Len(queue), queue[k] # NoId
          PROVE  lines'[queue[k]] = <<>>
      BY <1>1, <2>1 DEF PipeInv, InQueue, PipeType
    <2> QED
      BY <2>1 DEF PipeInv, InQueue
  <1> QED
    BY <1>2, <1>3, <1>4

(* The main thread says that it started, a delta, or the terminal of the      *)
(* generation at work: each is a step of the protocol.                        *)
LEMMA SayStep ==
    ASSUME PipeAssumption, PipeInv, AtWork, NEW kind \in {"started", "delta", "terminal"},
           Emit(job, kind), UNCHANGED <<stdin, closed, asked, cancels, readpc, queue, job, taken>>,
           \/ kind = "started" /\ mainpc \in {"push", "begun"} /\ mainpc' = "window"
           \/ kind = "delta" /\ mainpc = "window" /\ mainpc' = "window"
           \/ kind = "terminal" /\ mainpc \in {"push", "tell"} /\ mainpc' \in {"get", "finally"}
    PROVE  PipeInv' /\ Protocol!Next
  <1> USE DEF PipeInv
  <1>1. job \in taken /\ job \in Ids /\ job \in asked /\ taken \subseteq asked /\ taken \subseteq Ids
    BY DEF AtMain, PipeType, InPipe
  <1>2. /\ lines' \in [Ids -> Seq({"started", "delta", "terminal"})]
        /\ \A j \in Ids : j # job => lines'[j] = lines[j]
        /\ lines'[job] # <<>> /\ lines'[job][Len(lines'[job])] = kind
        /\ \A j \in Ids : Said(j, "terminal") => Said(j, "terminal")'
    BY <1>1, EmitLine
  <1>3. PipeType' /\ InPipe' /\ InQueue'
    <2>1. \A k \in 1..Len(stdin) : stdin[k].op = "generate" => stdin[k].id # job
      BY <1>1 DEF InPipe
    <2>2. \A k \in 1..Len(queue) : queue[k] # job
      BY <1>1 DEF InQueue, PipeAssumption
    <2> QED
      BY <1>1, <2>1, <2>2, SayWaiting
  <1>4. /\ \A j \in Ids : j # job => ~Protocol!Working(j)
        /\ \A j \in Ids : j # job => ~Protocol!Working(j)'
    BY <1>2 DEF AtMain, Protocol!Working, Protocol!Ended
  <1>5. /\ kind = "terminal" => Protocol!Ended(job)'
        /\ kind # "terminal" => Protocol!Working(job)'
    BY <1>2 DEF Protocol!Working, Protocol!Ended
  <1>6. AtMain'
    BY <1>1, <1>4, <1>5 DEF AtMain, AtWork, Protocol!Working
  <1>7. Placed'
    <2>1. ASSUME NEW j \in taken
          PROVE  Said(j, "terminal")' \/ (AtWork' /\ job' = j) \/ \E k \in 1..Len(queue') : queue'[k] = j
      <3>1. CASE Said(j, "terminal")
        BY <1>1, <1>2, <3>1
      <3>2. CASE job = j /\ kind = "terminal"
        <4>1. lines'[job] \in Seq({"started", "delta", "terminal"}) /\ lines'[job] # <<>>
              /\ lines'[job][Len(lines'[job])] = "terminal"
          BY <1>1, <1>2, <3>2
        <4>2. Len(lines'[job]) \in DOMAIN lines'[job]
          BY <4>1
        <4> QED
          BY <3>2, <4>1, <4>2 DEF Said
      <3>3. CASE job = j /\ kind # "terminal"
        BY <3>3 DEF AtWork
      <3> QED
        BY <3>1, <3>2, <3>3 DEF Placed
    <2>2. mainpc' # "exit"
      OBVIOUS
    <2> QED
      BY <2>1, <2>2 DEF Placed
  <1>8. Protocol!Next
    <2>1. UNCHANGED asked /\ lines' = [lines EXCEPT ![job] = Append(@, kind)]
      BY DEF Emit
    <2>2. CASE kind = "started"
      <3>1. lines[job] = <<>> /\ \A j \in Ids : ~Protocol!Working(j)
        BY <1>4, <2>2 DEF AtMain, Protocol!Working
      <3>2. Protocol!Start(job)
        BY <1>1, <2>1, <2>2, <3>1 DEF Protocol!Start, Protocol!Say
      <3> QED
        BY <1>1, <3>2 DEF Protocol!Next
    <2>3. CASE kind = "delta"
      <3>1. Protocol!Delta(job)
        BY <2>1, <2>3 DEF Protocol!Delta, Protocol!Say, AtMain
      <3> QED
        BY <1>1, <3>1 DEF Protocol!Next
    <2>4. CASE kind = "terminal"
      <3>1. ~Protocol!Ended(job)
        BY <2>4 DEF AtMain, Protocol!Ended
      <3>2. Protocol!End(job)
        BY <1>1, <2>1, <2>4, <3>1 DEF Protocol!End, Protocol!Say
      <3> QED
        BY <1>1, <3>2 DEF Protocol!Next
    <2> QED
      BY <2>2, <2>3, <2>4
  <1> QED
    BY <1>3, <1>6, <1>7, <1>8

(* A worker that refuses a generate answers it at once (the rollback worker). *)
LEMMA RefuseStep ==
    ASSUME PipeAssumption, PipeInv, ReadLine("generate"), Emit(Head(stdin).id, "terminal"),
           UNCHANGED <<readpc, queue, mainpc, job, taken>>
    PROVE  PipeInv' /\ Protocol!Next
  <1> USE DEF PipeInv
  <1>0. PICK i : i = Head(stdin).id
    OBVIOUS
  <1>1. /\ stdin' \in Seq(Commands) /\ UNCHANGED <<closed, asked, cancels>> /\ readpc = "reading"
        /\ \A k \in 1..Len(stdin') : k + 1 \in 1..Len(stdin) /\ stdin'[k] = stdin[k + 1]
    BY ReadRest
  <1>2. /\ i \in Ids /\ i \in asked /\ i \notin taken /\ lines[i] = <<>>
        /\ \A k \in 1..Len(stdin') : stdin'[k].op = "generate" => stdin'[k].id # i
    BY <1>0, ReadNew
  <1>3. Emit(i, "terminal")
    BY <1>0
  <1>4. /\ lines' \in [Ids -> Seq({"started", "delta", "terminal"})]
        /\ \A j \in Ids : j # i => lines'[j] = lines[j]
        /\ lines'[i] # <<>> /\ lines'[i][Len(lines'[i])] = "terminal"
        /\ \A j \in Ids : Said(j, "terminal") => Said(j, "terminal")'
    BY <1>2, <1>3, EmitLine
  <1>5. PipeType'
    BY <1>1, <1>4 DEF PipeType
  <1>6. InPipe'
    <2>1. ASSUME NEW k \in 1..Len(stdin'), NEW l \in 1..Len(stdin'),
                 stdin'[k].op = "generate", stdin'[l] = stdin'[k] PROVE k = l
      <3>1. k + 1 \in 1..Len(stdin) /\ l + 1 \in 1..Len(stdin) /\ stdin[k + 1].op = "generate"
            /\ stdin[l + 1] = stdin[k + 1]
        BY <1>1, <2>1
      <3>2. k + 1 = l + 1
        BY <3>1 DEF InPipe
      <3> QED
        BY <3>2
    <2>2. ASSUME NEW k \in 1..Len(stdin'), stdin'[k].op = "generate"
          PROVE  stdin'[k].id \in asked' \ taken' /\ lines'[stdin'[k].id] = <<>>
      <3>1. stdin'[k].id \in asked \ taken /\ lines[stdin'[k].id] = <<>>
        BY <1>1, <2>2 DEF InPipe
      <3>2. stdin'[k].id \in Ids /\ stdin'[k].id # i
        BY <1>2, <2>2, <3>1 DEF PipeType
      <3> QED
        BY <1>1, <1>4, <3>1, <3>2
    <2> QED
      BY <1>1, <1>2, <1>4, <2>1, <2>2 DEF InPipe
  <1>7. InQueue'
    <2>1. ASSUME NEW k \in 1..Len(queue), queue[k] # NoId
          PROVE  lines'[queue[k]] = <<>>
      BY <1>2, <1>4, <2>1 DEF InQueue, PipeType
    <2> QED
      BY <2>1 DEF InQueue, AtWork
  <1>8. AtMain'
    <2>1. AtWork => job # i /\ job \in Ids
      BY <1>2 DEF AtMain, PipeType
    <2>2. /\ ~Protocol!Working(i)'
          /\ \A j \in Ids : j # i => lines'[j] = lines[j]
      BY <1>4 DEF Protocol!Working, Protocol!Ended
    <2> QED
      BY <2>1, <2>2 DEF AtMain, AtWork, Protocol!Working, Protocol!Ended
  <1>9. Placed'
    BY <1>1, <1>4 DEF Placed, AtWork, PipeType
  <1>10. Protocol!End(i)
    BY <1>1, <1>2, <1>3 DEF Protocol!End, Protocol!Say, Protocol!Ended, Emit
  <1> QED
    BY <1>2, <1>5, <1>6, <1>7, <1>8, <1>9, <1>10 DEF Protocol!Next

-----------------------------------------------------------------------------
(* The resident worker.                                                       *)

CancelType ==
    /\ active \in Ids \cup {NoId} /\ event \in BOOLEAN /\ pending \in Ids \cup {NoId}
    /\ heard \subseteq Ids /\ latest \in Ids \cup {NoId} /\ stopping \in BOOLEAN

\* A generation is active from _begin to _end, and what waits was heard.
Slot == /\ mainpc \in {"begun", "window", "ending"} => active = job /\ job \in Ids
        /\ mainpc \notin {"begun", "window", "ending"} => active = NoId /\ ~event
        /\ pending # NoId => pending \in heard
        /\ mainpc \notin {"over", "finally"}

WorkerInv == PipeInv /\ CancelType /\ Slot /\ CancelReaches /\ OwnCancelOnly

(* The beginning.                                                             *)
LEMMA ResidentBegins == PipeInit /\ ResidentInit => WorkerInv
  <1> SUFFICES ASSUME PipeInit, ResidentInit PROVE WorkerInv
    OBVIOUS
  <1>1. PipeInv
    BY PipeBegins
  <1>2. CancelType /\ Slot /\ CancelReaches /\ OwnCancelOnly
    BY DEF PipeInit, ResidentInit, CancelType, Slot, CancelReaches, OwnCancelOnly
  <1> QED
    BY <1>1, <1>2 DEF WorkerInv

(* Whatever is said of a generation, its terminal stays said.                 *)
LEMMA SaidStays ==
    ASSUME PipeType, NEW i \in Ids, NEW kind \in {"started", "delta", "terminal"},
           Emit(i, kind) \/ UNCHANGED lines
    PROVE  \A j \in Ids : Said(j, "terminal") => Said(j, "terminal")'
  <1>1. CASE Emit(i, kind)
    BY <1>1, EmitLine
  <1>2. CASE UNCHANGED lines
    BY <1>2 DEF Said
  <1> QED
    BY <1>1, <1>2

(* The server's steps leave the worker's threads alone.                       *)
LEMMA ResidentServer ==
    ASSUME PipeAssumption, WorkerInv, Server, UNCHANGED residentVars
    PROVE  WorkerInv' /\ [Protocol!Next]_<<asked, lines>>
  <1>1. UNCHANGED <<lines, mainpc, job, active, event, pending, heard, latest, stopping>>
    BY DEF Server, threadVars, residentVars
  <1>2. PipeInv' /\ [Protocol!Next]_<<asked, lines>>
    BY ServerStep DEF WorkerInv
  <1>3. CancelType' /\ Slot' /\ CancelReaches' /\ OwnCancelOnly'
    BY <1>1 DEF WorkerInv, CancelType, Slot, CancelReaches, OwnCancelOnly, Said
  <1> QED
    BY <1>2, <1>3 DEF WorkerInv

(* A cancel is put where its generation will see it.                          *)
LEMMA CancelRead ==
    ASSUME PipeAssumption, WorkerInv, ReadCancel
    PROVE  WorkerInv' /\ UNCHANGED <<asked, lines>>
  <1>1. PICK i : i = Head(stdin).id
    OBVIOUS
  <1>2. /\ ReadLine("cancel") /\ NoteCancel(i) /\ heard' = heard \cup {i} /\ latest' = i
        /\ UNCHANGED <<lines, readpc, queue, mainpc, job, windows, taken, active, stopping>>
    BY <1>1 DEF ReadCancel, threadVars
  <1>3. i \in Ids /\ UNCHANGED asked
    <2>1. Head(stdin) \in Commands /\ Head(stdin).op = "cancel" /\ UNCHANGED asked
      BY <1>2, ReadRest DEF WorkerInv
    <2> QED
      BY <1>1, <2>1 DEF Commands
  <1>4. PipeInv'
    BY <1>2, ReadOther DEF WorkerInv
  <1>5. /\ active = i => event' = TRUE /\ pending' = pending
        /\ active # i => event' = event /\ pending' = i
    BY <1>2 DEF NoteCancel
  <1>6. CancelType'
    BY <1>2, <1>3, <1>5 DEF WorkerInv, CancelType
  <1>7. Slot'
    BY <1>2, <1>3, <1>5 DEF WorkerInv, Slot, CancelType, PipeAssumption
  <1>8. CancelReaches'
    BY <1>2, <1>3, <1>5 DEF CancelReaches
  <1>9. OwnCancelOnly'
    BY <1>2, <1>3, <1>5 DEF WorkerInv, OwnCancelOnly
  <1> QED
    BY <1>2, <1>3, <1>4, <1>6, <1>7, <1>8, <1>9 DEF WorkerInv

(* request_stop sets the event of the active generation, if there is one.     *)
LEMMA Stops ==
    ASSUME WorkerInv, RequestStop,
           UNCHANGED <<lines, mainpc, job, active, pending, heard, latest>>
    PROVE  CancelType' /\ Slot' /\ CancelReaches' /\ OwnCancelOnly'
  <1>1. (event => event') /\ (active = NoId => event' = event) /\ event' \in BOOLEAN /\ stopping'
        /\ stopping' \in BOOLEAN
    BY DEF RequestStop, WorkerInv, CancelType
  <1>2. CancelType'
    BY <1>1 DEF WorkerInv, CancelType
  <1>3. Slot'
    BY <1>1 DEF WorkerInv, Slot
  <1>4. CancelReaches'
    BY <1>1 DEF WorkerInv, CancelReaches, Said
  <1>5. OwnCancelOnly'
    BY <1>1 DEF OwnCancelOnly
  <1> QED
    BY <1>2, <1>3, <1>4, <1>5

(* The other steps of the reader say nothing.                                 *)
LEMMA ReaderStep ==
    ASSUME PipeAssumption, WorkerInv, Reader
    PROVE  WorkerInv' /\ UNCHANGED <<asked, lines>>
  <1>1. CASE ReadCancel
    BY <1>1, CancelRead
  <1>2. CASE ReadGenerate
    <2>1. /\ ReadLine("generate") /\ queue' = Append(queue, Head(stdin).id)
          /\ taken' = taken \cup {Head(stdin).id}
          /\ UNCHANGED <<lines, readpc, mainpc, job, active, event, pending, heard, latest, stopping>>
      BY <1>2 DEF ReadGenerate, residentVars
    <2>2. PipeInv' /\ UNCHANGED asked
      BY <2>1, QueueStep, ReadRest DEF WorkerInv
    <2>3. CancelType' /\ Slot' /\ CancelReaches' /\ OwnCancelOnly'
      BY <2>1 DEF WorkerInv, CancelType, Slot, CancelReaches, OwnCancelOnly, Said
    <2> QED
      BY <2>1, <2>2, <2>3 DEF WorkerInv
  <1>3. CASE ReadShutdown
    <2>1. /\ ReadLine("shutdown") /\ RequestStop /\ readpc' = "finally"
          /\ UNCHANGED <<lines, queue, mainpc, job, windows, taken, active, pending, heard, latest>>
      BY <1>3 DEF ReadShutdown
    <2>2. PipeInv' /\ UNCHANGED asked
      BY <2>1, ReadOther, ReadRest DEF WorkerInv
    <2> QED
      BY <2>1, <2>2, Stops DEF WorkerInv
  <1>4. CASE ReadEof
    <2>1. /\ readpc = "reading"
          /\ UNCHANGED <<stdin, closed, asked, cancels, lines, queue, mainpc, job, taken>>
          /\ UNCHANGED <<active, event, pending, heard, latest, stopping>>
      BY <1>4 DEF ReadEof, AtEof, pipeVars, serverVars, residentVars
    <2>2. PipeInv'
      BY <2>1, ReaderMoves DEF WorkerInv
    <2>3. CancelType' /\ Slot' /\ CancelReaches' /\ OwnCancelOnly'
      BY <2>1 DEF WorkerInv, CancelType, Slot, CancelReaches, OwnCancelOnly, Said
    <2> QED
      BY <2>1, <2>2, <2>3 DEF WorkerInv
  <1>5. CASE StopAll
    <2>1. /\ readpc = "finally" /\ RequestStop
          /\ UNCHANGED <<stdin, closed, asked, cancels, lines, queue, mainpc, job, taken>>
          /\ UNCHANGED <<active, pending, heard, latest>>
      BY <1>5 DEF StopAll, pipeVars, serverVars
    <2>2. PipeInv'
      BY <2>1, ReaderMoves DEF WorkerInv
    <2> QED
      BY <2>1, <2>2, Stops DEF WorkerInv
  <1>6. CASE PutEnd
    <2>1. /\ readpc = "put" /\ readpc' = "done" /\ queue' = Append(queue, NoId)
          /\ UNCHANGED <<stdin, closed, asked, cancels, lines, mainpc, job, taken>>
          /\ UNCHANGED <<active, event, pending, heard, latest, stopping>>
      BY <1>6 DEF PutEnd, pipeVars, serverVars, residentVars
    <2>2. PipeInv'
      BY <2>1, PutStep DEF WorkerInv
    <2>3. CancelType' /\ Slot' /\ CancelReaches' /\ OwnCancelOnly'
      BY <2>1 DEF WorkerInv, CancelType, Slot, CancelReaches, OwnCancelOnly, Said
    <2> QED
      BY <2>1, <2>2, <2>3 DEF WorkerInv
  <1> QED
    BY <1>1, <1>2, <1>3, <1>4, <1>5, <1>6 DEF Reader

(* The main thread: what it says follows the protocol, and a cancel that was  *)
(* read goes with the generation to its end.                                  *)
LEMMA MainStep ==
    ASSUME PipeAssumption, WorkerInv, MainThread
    PROVE  WorkerInv' /\ [Protocol!Next]_<<asked, lines>>
  <1>1. CASE Get
    <2>1. GetJob /\ UNCHANGED <<active, event, pending, heard, latest, stopping>>
      BY <1>1 DEF Get, residentVars
    <2>2. mainpc = "get" /\ mainpc' \in {"push", "exit"} /\ UNCHANGED lines
      BY <2>1 DEF GetJob, pipeVars
    <2>3. PipeInv' /\ UNCHANGED <<asked, lines>>
      BY <2>1, GetJobStep DEF WorkerInv
    <2>4. CancelType' /\ Slot' /\ CancelReaches' /\ OwnCancelOnly'
      BY <2>1, <2>2 DEF WorkerInv, CancelType, Slot, CancelReaches, OwnCancelOnly, Said
    <2> QED
      BY <2>3, <2>4 DEF WorkerInv
  <1>2. CASE Reject \/ Tell
    <2>1. /\ mainpc \in {"push", "tell"} /\ mainpc' = "get" /\ Emit(job, "terminal")
          /\ UNCHANGED <<stdin, closed, asked, cancels, readpc, queue, job, taken>>
          /\ UNCHANGED <<active, event, pending, heard, latest, stopping>>
      BY <1>2 DEF Reject, Tell, serverVars, residentVars
    <2>2. PipeInv' /\ Protocol!Next
      BY <2>1, SayStep DEF WorkerInv, AtWork
    <2>3. job \in taken /\ job \in Ids
      BY <2>1 DEF WorkerInv, PipeInv, PipeType, AtMain, AtWork
    <2>4. /\ \A j \in Ids : Said(j, "terminal") => Said(j, "terminal")'
          /\ lines'[job] # <<>> /\ lines'[job][Len(lines'[job])] = "terminal"
          /\ lines'[job] \in Seq({"started", "delta", "terminal"})
      BY <2>1, <2>3, EmitLine DEF WorkerInv, PipeInv
    <2>5. Said(job, "terminal")'
      <3>1. Len(lines'[job]) \in DOMAIN lines'[job] /\ UNCHANGED job
        BY <2>1, <2>4
      <3> QED
        BY <2>4, <3>1 DEF Said
    <2>6. CancelReaches'
      BY <2>1, <2>4, <2>5 DEF WorkerInv, CancelReaches, CancelType
    <2>7. CancelType' /\ Slot' /\ OwnCancelOnly'
      BY <2>1 DEF WorkerInv, CancelType, Slot, OwnCancelOnly
    <2> QED
      BY <2>2, <2>6, <2>7 DEF WorkerInv
  <1>3. CASE Begin
    <2>1. /\ mainpc = "push" /\ mainpc' = "begun" /\ active' = job /\ event' = (pending = job)
          /\ pending' = IF pending = job THEN NoId ELSE pending
          /\ UNCHANGED <<stdin, closed, asked, cancels, lines, readpc, queue, job, taken>>
          /\ UNCHANGED <<heard, latest, stopping>>
      BY <1>3 DEF Begin, pipeVars, serverVars
    <2>2. AtMain'
      BY <2>1 DEF WorkerInv, PipeInv, AtMain, AtWork, Protocol!Working, Protocol!Ended
    <2>3. PipeInv'
      BY <2>1, <2>2, MoveStep DEF WorkerInv, AtWork
    <2>4. job \in Ids /\ job # NoId
      BY <2>1 DEF WorkerInv, PipeInv, PipeType, AtMain, AtWork, PipeAssumption
    <2>5. event' \in BOOLEAN /\ (pending = job => event') /\ (event' => pending = job)
      BY <2>1
    <2>6. CancelType' /\ Slot'
      BY <2>1, <2>4, <2>5 DEF WorkerInv, CancelType, Slot
    <2>7. CancelReaches'
      BY <2>1, <2>4, <2>5 DEF WorkerInv, CancelReaches, Slot, Said
    <2>8. OwnCancelOnly'
      BY <2>1, <2>4, <2>5 DEF WorkerInv, OwnCancelOnly, Slot
    <2> QED
      BY <2>1, <2>3, <2>6, <2>7, <2>8 DEF WorkerInv
  <1>4. CASE Announce \/ (Window /\ ~UNCHANGED lines)
    <2>1. /\ UNCHANGED <<stdin, closed, asked, cancels, readpc, queue, job, taken>>
          /\ UNCHANGED <<active, event, pending, heard, latest, stopping>>
          /\ mainpc' = "window"
      BY <1>4 DEF Announce, Window, serverVars, residentVars
    <2>2. PICK kind \in {"started", "delta"} :
            /\ Emit(job, kind)
            /\ \/ kind = "started" /\ mainpc = "begun"
               \/ kind = "delta" /\ mainpc = "window"
      BY <1>4 DEF Announce, Window
    <2>3. PipeInv' /\ Protocol!Next
      BY <2>1, <2>2, SayStep DEF WorkerInv, AtWork
    <2>4. job \in Ids
      BY <2>2 DEF WorkerInv, Slot
    <2>5. \A j \in Ids : Said(j, "terminal") => Said(j, "terminal")'
      BY <2>2, <2>4, EmitLine DEF WorkerInv, PipeInv
    <2>6. CancelReaches'
      BY <2>1, <2>2, <2>5 DEF WorkerInv, CancelReaches, CancelType
    <2>7. CancelType' /\ Slot' /\ OwnCancelOnly'
      BY <2>1, <2>2 DEF WorkerInv, CancelType, Slot, OwnCancelOnly
    <2> QED
      BY <2>3, <2>6, <2>7 DEF WorkerInv
  <1>5. CASE (Window /\ UNCHANGED lines) \/ TurnOver
    <2>1. /\ mainpc = "window" /\ mainpc' \in {"window", "ending"}
          /\ UNCHANGED <<stdin, closed, asked, cancels, lines, readpc, queue, job, taken>>
          /\ UNCHANGED <<active, event, pending, heard, latest, stopping>>
      BY <1>5 DEF Window, TurnOver, pipeVars, serverVars, residentVars
    <2>2. AtMain'
      BY <2>1 DEF WorkerInv, PipeInv, AtMain, AtWork, Protocol!Working, Protocol!Ended
    <2>3. PipeInv'
      BY <2>1, <2>2, MoveStep DEF WorkerInv, AtWork
    <2>4. CancelType' /\ Slot' /\ CancelReaches' /\ OwnCancelOnly'
      BY <2>1 DEF WorkerInv, CancelType, Slot, CancelReaches, OwnCancelOnly, Said
    <2> QED
      BY <2>1, <2>3, <2>4 DEF WorkerInv
  <1>6. CASE EndTurn
    <2>1. /\ mainpc = "ending" /\ mainpc' = "tell" /\ active' = NoId /\ event' = FALSE
          /\ UNCHANGED <<stdin, closed, asked, cancels, lines, readpc, queue, job, taken>>
          /\ UNCHANGED <<pending, heard, latest, stopping>>
      BY <1>6 DEF EndTurn, pipeVars, serverVars
    <2>2. AtMain'
      BY <2>1 DEF WorkerInv, PipeInv, AtMain, AtWork, Protocol!Working, Protocol!Ended
    <2>3. PipeInv'
      BY <2>1, <2>2, MoveStep DEF WorkerInv, AtWork
    <2>4. CancelType' /\ Slot' /\ CancelReaches' /\ OwnCancelOnly'
      BY <2>1 DEF WorkerInv, CancelType, Slot, CancelReaches, OwnCancelOnly, Said
    <2> QED
      BY <2>1, <2>3, <2>4 DEF WorkerInv
  <1> QED
    BY <1>1, <1>2, <1>3, <1>4, <1>5, <1>6 DEF MainThread

(* Every step keeps the invariant, and is a step of the protocol or changes   *)
(* nothing that the server can see.                                           *)
LEMMA ResidentStep ==
    ASSUME PipeAssumption, WorkerInv, [ResidentNext]_<<pipeVars, threadVars, residentVars>>
    PROVE  WorkerInv' /\ [Protocol!Next]_<<asked, lines>>
  <1>1. CASE Server /\ UNCHANGED residentVars
    BY <1>1, ResidentServer
  <1>2. CASE Reader
    BY <1>2, ReaderStep
  <1>3. CASE MainThread
    BY <1>3, MainStep
  <1>4. CASE UNCHANGED <<pipeVars, threadVars, residentVars>>
    <2>1. /\ UNCHANGED <<stdin, closed, asked, cancels, lines, readpc, queue, mainpc, job, windows, taken>>
          /\ UNCHANGED <<active, event, pending, heard, latest, stopping>>
      BY <1>4 DEF pipeVars, serverVars, threadVars, residentVars
    <2>2. PipeType' /\ InPipe' /\ InQueue'
      BY <2>1 DEF WorkerInv, PipeInv, PipeType, InPipe, InQueue, AtWork
    <2>3. AtMain' /\ Placed'
      BY <2>1 DEF WorkerInv, PipeInv, AtMain, Placed, AtWork, Said, Protocol!Working, Protocol!Ended
    <2>4. CancelType' /\ Slot' /\ CancelReaches' /\ OwnCancelOnly'
      BY <2>1 DEF WorkerInv, CancelType, Slot, CancelReaches, OwnCancelOnly, Said
    <2> QED
      BY <2>1, <2>2, <2>3, <2>4 DEF WorkerInv, PipeInv
  <1> QED
    BY <1>1, <1>2, <1>3, <1>4 DEF ResidentNext

(* The invariant of the resident worker.                                      *)
LEMMA ResidentInvariant == ResidentSpec => []WorkerInv
  <1>1. PipeInit /\ ResidentInit => WorkerInv
    BY ResidentBegins
  <1>2. WorkerInv /\ [ResidentNext]_<<pipeVars, threadVars, residentVars>> => WorkerInv'
    BY ResidentStep, PipeAssumption
  <1> QED
    BY <1>1, <1>2, PTL DEF ResidentSpec

(* However many cancels overtake, precede or follow their generations, the    *)
(* last one that was read reaches its own, and no generation is cancelled for *)
(* another one (note_cancel, _begin, _end).                                   *)
THEOREM CancelIsExact == ResidentSpec => []CancelExact
  <1>1. WorkerInv => CancelExact
    BY DEF WorkerInv, CancelExact
  <1> QED
    BY <1>1, ResidentInvariant, PTL

(* The resident worker leaves its loop with every generation answered that    *)
(* its reader queued (_serve).                                                *)
THEOREM ResidentAnswers == ResidentSpec => []ExitAnswersAll
  <1>1. WorkerInv => ExitAnswersAll
    <2> SUFFICES ASSUME WorkerInv, mainpc = "exit", NEW i \in taken PROVE Said(i, "terminal")
      BY DEF ExitAnswersAll
    <2>1. queue = <<>> /\ ~AtWork
      BY DEF WorkerInv, PipeInv, Placed, AtWork
    <2> QED
      BY <2>1 DEF WorkerInv, PipeInv, Placed
  <1> QED
    BY <1>1, ResidentInvariant, PTL

(* The resident worker implements the protocol that the server relies on.     *)
THEOREM ResidentKeepsProtocol == ResidentSpec => KeepsProtocol
  <1>1. PipeInit => Protocol!Init
    BY DEF PipeInit, Protocol!Init
  <1>2. WorkerInv /\ [ResidentNext]_<<pipeVars, threadVars, residentVars>>
            => [Protocol!Next]_<<asked, lines>>
    BY ResidentStep, PipeAssumption
  <1> QED
    BY <1>1, <1>2, ResidentInvariant, PTL DEF ResidentSpec, KeepsProtocol, Protocol!Spec

-----------------------------------------------------------------------------
(* The rollback worker: its reader never finds the queue full, its process    *)
(* answers everything it took, and its lines follow the protocol.             *)

\* Whatever waits in the queue is active.
Admitted == /\ \A k \in 1..Len(queue) : queue[k] # NoId => queue[k] \in admitted
            /\ mainpc \notin {"begun", "ending"}

RollbackInv == PipeInv /\ Admitted /\ QueueHasRoom

(* The beginning.                                                             *)
LEMMA RollbackBegins == PipeInit /\ RollbackInit => RollbackInv
  <1> SUFFICES ASSUME PipeInit, RollbackInit PROVE RollbackInv
    OBVIOUS
  <1>1. PipeInv
    BY PipeBegins
  <1>2. Admitted /\ QueueHasRoom
    BY DEF PipeInit, Admitted, QueueHasRoom
  <1> QED
    BY <1>1, <1>2 DEF RollbackInv

(* While the reader reads, the end is not in the queue: it is empty as soon   *)
(* as nothing is active.                                                      *)
LEMMA IdleIsEmpty ==
    ASSUME RollbackInv, readpc = "reading", admitted = {}
    PROVE  queue = <<>>
  <1>1. queue \in Seq(Ids \cup {NoId})
    BY DEF RollbackInv, PipeInv, PipeType
  <1>2. ASSUME queue # <<>> PROVE FALSE
    <2>1. 1 \in 1..Len(queue)
      BY <1>1, <1>2
    <2>2. CASE queue[1] = NoId
      BY <2>1, <2>2 DEF RollbackInv, PipeInv, InQueue
    <2>3. CASE queue[1] # NoId
      BY <2>1, <2>3 DEF RollbackInv, Admitted
    <2> QED
      BY <2>2, <2>3
  <1> QED
    BY <1>2

(* A generate is refused, or the queue has room for it.                       *)
LEMMA GenerateTaken ==
    ASSUME PipeAssumption, RollbackInv, TakeGenerate
    PROVE  RollbackInv' /\ [Protocol!Next]_<<asked, lines>>
  <1>1. ReadLine("generate") /\ Admit(Head(stdin).id) /\ UNCHANGED <<mainpc, job, windows>>
    BY DEF TakeGenerate
  <1>2. readpc = "reading" /\ UNCHANGED asked
    BY <1>1, ReadRest DEF RollbackInv
  <1>3. CASE admitted # {}
    <2>1. Emit(Head(stdin).id, "terminal") /\ UNCHANGED <<readpc, queue, taken, admitted>>
      BY <1>1, <1>3 DEF Admit
    <2>2. PipeInv' /\ Protocol!Next
      BY <1>1, <2>1, RefuseStep DEF RollbackInv
    <2>3. Admitted' /\ QueueHasRoom'
      BY <1>1, <2>1 DEF RollbackInv, Admitted, QueueHasRoom
    <2> QED
      BY <2>2, <2>3 DEF RollbackInv
  <1>4. CASE admitted = {}
    <2>1. PICK i : i = Head(stdin).id
      OBVIOUS
    <2>2. queue = <<>>
      BY <1>2, <1>4, IdleIsEmpty
    <2>3. /\ admitted' = {i} /\ queue' = <<i>> /\ taken' = taken \cup {i}
          /\ UNCHANGED <<lines, readpc>>
      BY <1>1, <1>4, <2>1, <2>2 DEF Admit
    <2>4. queue' = Append(queue, i)
      BY <2>2, <2>3
    <2>5. PipeInv'
      BY <1>1, <2>1, <2>3, <2>4, QueueStep DEF RollbackInv
    <2>6. Admitted' /\ QueueHasRoom'
      BY <1>1, <1>2, <2>3 DEF RollbackInv, Admitted, QueueHasRoom
    <2> QED
      BY <1>2, <2>3, <2>5, <2>6 DEF RollbackInv
  <1> QED
    BY <1>3, <1>4

(* The other steps of the reader say nothing.                                 *)
LEMMA InputStep ==
    ASSUME PipeAssumption, RollbackInv, InputThread
    PROVE  RollbackInv' /\ [Protocol!Next]_<<asked, lines>>
  <1>1. CASE TakeGenerate
    BY <1>1, GenerateTaken
  <1>2. CASE TakeCancel
    <2>1. ReadLine("cancel") /\ UNCHANGED <<lines, readpc, queue, mainpc, job, windows, taken, admitted>>
      BY <1>2 DEF TakeCancel, threadVars
    <2>2. PipeInv' /\ UNCHANGED asked
      BY <2>1, ReadOther, ReadRest DEF RollbackInv
    <2> QED
      BY <2>1, <2>2 DEF RollbackInv, Admitted, QueueHasRoom
  <1>3. CASE TakeShutdown
    <2>1. /\ ReadLine("shutdown") /\ readpc' = "finally"
          /\ UNCHANGED <<lines, queue, mainpc, job, windows, taken, admitted>>
      BY <1>3 DEF TakeShutdown
    <2>2. PipeInv' /\ UNCHANGED asked
      BY <2>1, ReadOther, ReadRest DEF RollbackInv
    <2> QED
      BY <2>1, <2>2 DEF RollbackInv, Admitted, QueueHasRoom
  <1>4. CASE TakeEof \/ CancelAll
    <2>1. /\ readpc \in {"reading", "finally"} /\ readpc' \in {"finally", "put"}
          /\ UNCHANGED <<stdin, closed, asked, cancels, lines, queue, mainpc, job, taken, admitted>>
      BY <1>4 DEF TakeEof, CancelAll, AtEof, pipeVars, serverVars, rollbackVars
    <2>2. PipeInv'
      BY <2>1, ReaderMoves DEF RollbackInv
    <2> QED
      BY <2>1, <2>2 DEF RollbackInv, Admitted, QueueHasRoom
  <1>5. CASE PutLast
    <2>1. /\ readpc = "put" /\ readpc' = "done" /\ queue = <<>> /\ queue' = <<NoId>>
          /\ UNCHANGED <<stdin, closed, asked, cancels, lines, mainpc, job, taken, admitted>>
      BY <1>5 DEF PutLast, pipeVars, serverVars, rollbackVars
    <2>2. queue' = Append(queue, NoId)
      BY <2>1
    <2>3. PipeInv'
      BY <2>1, <2>2, PutStep DEF RollbackInv
    <2>4. Admitted' /\ QueueHasRoom'
      BY <2>1 DEF RollbackInv, Admitted, QueueHasRoom
    <2> QED
      BY <2>1, <2>3, <2>4 DEF RollbackInv
  <1> QED
    BY <1>1, <1>2, <1>3, <1>4, <1>5 DEF InputThread

(* Only the generation at work leaves `active`, and it is not in the queue.   *)
LEMMA PopsItself ==
    ASSUME PipeAssumption, RollbackInv, AtWork, admitted' = admitted \ {job}, UNCHANGED queue,
           mainpc' \notin {"begun", "ending"}
    PROVE  Admitted'
  BY DEF RollbackInv, Admitted, PipeInv, InQueue

(* The main thread: what it says follows the protocol.                        *)
LEMMA WorkerStep ==
    ASSUME PipeAssumption, RollbackInv, Worker
    PROVE  RollbackInv' /\ [Protocol!Next]_<<asked, lines>>
  <1>1. CASE Fetch
    <2>1. GetJob /\ UNCHANGED admitted
      BY <1>1 DEF Fetch, rollbackVars
    <2>2. PipeInv' /\ UNCHANGED <<asked, lines>>
      BY <2>1, GetJobStep DEF RollbackInv
    <2>3. queue' = Tail(queue) /\ queue # <<>> /\ UNCHANGED readpc /\ mainpc' \in {"exit", "push"}
      BY <2>1 DEF GetJob
    <2>4. \A k \in 1..Len(queue') : k + 1 \in 1..Len(queue) /\ queue'[k] = queue[k + 1]
      BY <2>3 DEF RollbackInv, PipeInv, PipeType
    <2>5. Admitted' /\ QueueHasRoom'
      BY <2>1, <2>3, <2>4 DEF RollbackInv, Admitted, QueueHasRoom
    <2> QED
      BY <2>2, <2>5 DEF RollbackInv
  <1>2. CASE \/ Open /\ mainpc' = "window"
             \/ Piece /\ ~UNCHANGED lines
             \/ SayLast
    <2>1. /\ UNCHANGED <<stdin, closed, asked, cancels, readpc, queue, job, taken, admitted>>
          /\ mainpc' \in {"window", "finally"}
      BY <1>2 DEF Open, Piece, SayLast, serverVars, rollbackVars
    <2>2. PICK kind \in {"started", "delta", "terminal"} :
            /\ Emit(job, kind)
            /\ \/ kind = "started" /\ mainpc = "push" /\ mainpc' = "window"
               \/ kind = "delta" /\ mainpc = "window" /\ mainpc' = "window"
               \/ kind = "terminal" /\ mainpc = "tell" /\ mainpc' = "finally"
      BY <1>2 DEF Open, Piece, SayLast
    <2>3. PipeInv' /\ Protocol!Next
      BY <2>1, <2>2, SayStep DEF RollbackInv, AtWork
    <2> QED
      BY <2>1, <2>3 DEF RollbackInv, Admitted, QueueHasRoom
  <1>3. CASE \/ Open /\ mainpc' = "over"
             \/ Piece /\ UNCHANGED lines
             \/ Pop
    <2>1. /\ UNCHANGED <<stdin, closed, asked, cancels, lines, readpc, queue, job, taken>>
          /\ admitted' \in {admitted, admitted \ {job}}
          /\ \/ mainpc = "push" /\ mainpc' = "over"
             \/ mainpc = "window" /\ mainpc' = "window"
             \/ mainpc \in {"window", "over"} /\ mainpc' = "tell"
      BY <1>3 DEF Open, Piece, Pop, pipeVars, serverVars, rollbackVars
    <2>2. AtMain'
      BY <2>1 DEF RollbackInv, PipeInv, AtMain, AtWork, Protocol!Working, Protocol!Ended
    <2>3. PipeInv'
      BY <2>1, <2>2, MoveStep DEF RollbackInv, AtWork
    <2>4. Admitted'
      BY <2>1, PopsItself DEF RollbackInv, Admitted, AtWork
    <2> QED
      BY <2>1, <2>3, <2>4 DEF RollbackInv, QueueHasRoom
  <1>4. CASE Release
    <2>1. /\ UNCHANGED <<stdin, closed, asked, cancels, lines, readpc, queue, job, taken>>
          /\ mainpc = "finally" /\ mainpc' = "get" /\ admitted' = admitted \ {job}
      BY <1>4 DEF Release, pipeVars, serverVars
    <2>2. PipeType' /\ InPipe' /\ InQueue'
      BY <2>1 DEF RollbackInv, PipeInv, PipeType, InPipe, InQueue, AtWork
    <2>3. AtMain'
      BY <2>1 DEF RollbackInv, PipeInv, AtMain, AtWork, Protocol!Working, Protocol!Ended
    <2>4. Said(job, "terminal")
      BY <2>1, EndedSaid DEF RollbackInv, PipeInv, PipeType, AtMain, AtWork
    <2>5. Placed'
      BY <2>1, <2>4 DEF RollbackInv, PipeInv, Placed, AtWork, Said
    <2>6. Admitted'
      BY <2>1, PopsItself DEF AtWork
    <2> QED
      BY <2>1, <2>2, <2>3, <2>5, <2>6 DEF RollbackInv, PipeInv, QueueHasRoom
  <1>5. ASSUME Open PROVE mainpc' \in {"window", "over"}
    BY <1>5 DEF Open
  <1> QED
    BY <1>1, <1>2, <1>3, <1>4, <1>5 DEF Worker

(* Every step keeps the invariant, and is a step of the protocol or changes   *)
(* nothing that the server can see.                                           *)
LEMMA RollbackStep ==
    ASSUME PipeAssumption, RollbackInv, [RollbackNext]_<<pipeVars, threadVars, rollbackVars>>
    PROVE  RollbackInv' /\ [Protocol!Next]_<<asked, lines>>
  <1>1. CASE Server /\ UNCHANGED rollbackVars
    <2>1. UNCHANGED <<readpc, queue, mainpc, admitted>>
      BY <1>1 DEF Server, threadVars, rollbackVars
    <2>2. PipeInv' /\ [Protocol!Next]_<<asked, lines>>
      BY <1>1, ServerStep DEF RollbackInv
    <2> QED
      BY <2>1, <2>2 DEF RollbackInv, Admitted, QueueHasRoom
  <1>2. CASE InputThread
    BY <1>2, InputStep
  <1>3. CASE Worker
    BY <1>3, WorkerStep
  <1>4. CASE UNCHANGED <<pipeVars, threadVars, rollbackVars>>
    <2>1. UNCHANGED <<stdin, closed, asked, cancels, lines, readpc, queue, mainpc, job, taken, admitted>>
      BY <1>4 DEF pipeVars, serverVars, threadVars, rollbackVars
    <2>2. PipeType' /\ InPipe' /\ InQueue'
      BY <2>1 DEF RollbackInv, PipeInv, PipeType, InPipe, InQueue, AtWork
    <2>3. AtMain' /\ Placed'
      BY <2>1 DEF RollbackInv, PipeInv, AtMain, Placed, AtWork, Said, Protocol!Working, Protocol!Ended
    <2> QED
      BY <2>1, <2>2, <2>3 DEF RollbackInv, PipeInv, Admitted, QueueHasRoom
  <1> QED
    BY <1>1, <1>2, <1>3, <1>4 DEF RollbackNext

(* The invariant of the rollback worker.                                      *)
LEMMA RollbackInvariant == RollbackSpec => []RollbackInv
  <1>1. PipeInit /\ RollbackInit => RollbackInv
    BY RollbackBegins
  <1>2. RollbackInv /\ [RollbackNext]_<<pipeVars, threadVars, rollbackVars>> => RollbackInv'
    BY RollbackStep, PipeAssumption
  <1> QED
    BY <1>1, <1>2, PTL DEF RollbackSpec

(* put_nowait into the queue of one never raises: whatever is in the queue is *)
(* still in `active`, under any interleaving of the two threads (serve).      *)
THEOREM RoomInQueue == RollbackSpec => []QueueHasRoom
  <1>1. RollbackInv => QueueHasRoom
    BY DEF RollbackInv
  <1> QED
    BY <1>1, RollbackInvariant, PTL

(* The rollback worker leaves its loop with every generation answered that    *)
(* its reader queued (serve).                                                 *)
THEOREM RollbackAnswers == RollbackSpec => []ExitAnswersAll
  <1>1. RollbackInv => ExitAnswersAll
    <2> SUFFICES ASSUME RollbackInv, mainpc = "exit", NEW i \in taken PROVE Said(i, "terminal")
      BY DEF ExitAnswersAll
    <2>1. queue = <<>> /\ ~AtWork
      BY DEF RollbackInv, PipeInv, Placed, AtWork
    <2> QED
      BY <2>1 DEF RollbackInv, PipeInv, Placed
  <1> QED
    BY <1>1, RollbackInvariant, PTL

(* The rollback worker implements the protocol that the server relies on,     *)
(* although two threads write its lines (serve).                              *)
THEOREM RollbackKeepsProtocol == RollbackSpec => KeepsProtocol
  <1>1. PipeInit => Protocol!Init
    BY DEF PipeInit, Protocol!Init
  <1>2. RollbackInv /\ [RollbackNext]_<<pipeVars, threadVars, rollbackVars>>
            => [Protocol!Next]_<<asked, lines>>
    BY RollbackStep, PipeAssumption
  <1> QED
    BY <1>1, <1>2, RollbackInvariant, PTL DEF RollbackSpec, KeepsProtocol, Protocol!Spec

-----------------------------------------------------------------------------
(* The fast paths of the rollback engine (DraftWalk). What was uploaded last  *)
(* is what the captured graph holds, and a stash that can be resolved is of   *)
(* the last forward.                                                          *)

JobType == walkJob \in [table : Seq(Nat), steps : {"plain", "penalties"}, asks : Asks]

\* The device holds what the host remembers to have uploaded.
Uploaded == hostPrev # <<>> => block = hostPrev

WindowType ==
    /\ lastLogits \in [base : Nat, width : Nat]
    /\ stash \in [base : Nat, width : Nat, fresh : BOOLEAN]

\* A stash beside logits is theirs, and of a job that may be sampled ahead.
OwnStash == lastLogits.width > 0 /\ stash.width > 0 =>
    /\ stash.fresh = TRUE /\ stash.base = lastLogits.base /\ stash.width = lastLogits.width
    /\ walkJob.steps = "plain" /\ walkJob.asks = "nothing"

Given == received \in Seq([fresh : BOOLEAN, position : Nat, given : Nat, asked : Asks])

WalkInv == JobType /\ Uploaded /\ WindowType /\ OwnStash /\ Given /\ OwnWindow

(* A bucket has room for the pages it is chosen for (draft_graph.py:176).     *)
LEMMA BucketHolds ==
    ASSUME WalkAssumption, JobType
    PROVE  WalkBucket \in Nat /\ WalkBucket >= Len(walkJob.table)
  <1>1. PICK l \in Nat : l = Len(walkJob.table)
    BY DEF JobType
  <1>2. PICK b \in Nat \ {0} : b = BucketPages
    BY DEF WalkAssumption
  <1>3. ((l + b - 1) \div b) \in Nat /\ ((l + b - 1) \div b) * b >= l
    OBVIOUS
  <1>4. ((l + b - 1) \div b) * b \in Nat
    BY <1>3
  <1>5. WalkBucket = ((l + b - 1) \div b) * b
    BY <1>1, <1>2 DEF WalkBucket
  <1> QED
    BY <1>1, <1>3, <1>4, <1>5

(* What the kernel reads of a padded row is the table that was padded.        *)
LEMMA PaddedRead ==
    ASSUME JobType, NEW n \in Nat, n >= Len(walkJob.table)
    PROVE  PagesRead(Padded(walkJob.table, n)) = walkJob.table
  <1>1. walkJob.table \in Seq(Nat)
    BY DEF JobType
  <1>2. PICK t \in Seq(Nat) : t = walkJob.table
    BY <1>1
  <1>3. Padded(t, n) = [i \in 1..n |-> IF i <= Len(t) THEN t[i] ELSE 0]
    BY DEF Padded
  <1>4. Padded(t, n) \in Seq(Nat) /\ Len(Padded(t, n)) = n
    BY <1>3
  <1>5. SubSeq(Padded(t, n), 1, Len(t)) \in Seq(Nat) /\ Len(SubSeq(Padded(t, n), 1, Len(t))) = Len(t)
        /\ \A i \in 1..Len(t) : SubSeq(Padded(t, n), 1, Len(t))[i] = t[i]
    BY <1>2, <1>3, <1>4
  <1>6. SubSeq(Padded(t, n), 1, Len(t)) = t
    BY <1>5
  <1> QED
    BY <1>2, <1>6 DEF PagesRead

(* A walk by the graph stages the job's own table, whatever was there before. *)
LEMMA GraphWalkStep ==
    ASSUME WalkAssumption, WalkInv, walkJob.table # <<>>, GraphWalk, UNCHANGED walkJob
    PROVE  Uploaded' /\ (walked' = NoTable \/ walked' = walkJob.table)
  <1>1. PICK n \in Nat : n = WalkBucket /\ n >= Len(walkJob.table)
    BY BucketHolds DEF WalkInv
  <1>2. PICK row : row = Padded(walkJob.table, n)
    OBVIOUS
  <1>3. row # <<>>
    <2>1. Len(walkJob.table) > 0
      BY DEF WalkInv, JobType
    <2>2. 1 \in DOMAIN row
      BY <1>1, <1>2, <2>1 DEF Padded, WalkInv, JobType
    <2> QED
      BY <2>2
  <1>4. CASE walked' = NoTable /\ hostPrev' = <<>>
    BY <1>4 DEF Uploaded
  <1>5. CASE hostPrev' = row /\ block' = row /\ walked' = PagesRead(block')
    <2>1. PagesRead(row) = walkJob.table
      BY <1>1, <1>2, PaddedRead DEF WalkInv
    <2> QED
      BY <1>5, <2>1 DEF Uploaded, PagesRead
  <1>6. \/ walked' = NoTable /\ hostPrev' = <<>>
        \/ hostPrev' = row /\ block' = row /\ walked' = PagesRead(block')
    BY <1>1, <1>2, <1>3 DEF GraphWalk, WalkCaptured, WalkInv, Uploaded
  <1> QED
    BY <1>4, <1>5, <1>6

(* A walk changes nothing that a verify uses.                                 *)
LEMMA WalkStep ==
    ASSUME WalkAssumption, WalkInv, Walk
    PROVE  WalkInv'
  <1>1. walkJob.table # <<>> /\ UNCHANGED <<walkJob, lastLogits, stash, received>>
        /\ (EagerWalk \/ GraphWalk)
    BY DEF Walk
  <1>2. Uploaded' /\ (walked' = NoTable \/ walked' = walkJob.table)
    <2>1. CASE EagerWalk
      BY <2>1 DEF EagerWalk, WalkInv, Uploaded
    <2>2. CASE GraphWalk
      BY <1>1, <2>2, GraphWalkStep
    <2> QED
      BY <1>1, <2>1, <2>2
  <1>3. JobType' /\ WindowType' /\ OwnStash' /\ Given'
    BY <1>1 DEF WalkInv, JobType, WindowType, OwnStash, Given
  <1>4. OwnWindow'
    BY <1>1, <1>2 DEF WalkInv, OwnWindow, Serial
  <1> QED
    BY <1>2, <1>3, <1>4 DEF WalkInv

(* Each forward leaves its own stash behind, or none (_maybe_stash).          *)
LEMMA ForwardStep ==
    ASSUME WalkAssumption, WalkInv, NEW pinned \in BOOLEAN, Forward(pinned)
    PROVE  WalkInv'
  <1>1. PICK at \in Addresses, w \in 1..MaxWidth, raises \in BOOLEAN :
           /\ lastLogits' = [base |-> at, width |-> w]
           /\ stash' = IF pinned /\ w >= 2 /\ Eligible /\ ~raises
                       THEN [base |-> at, width |-> w, fresh |-> TRUE] ELSE NoStash
           /\ received' = <<>>
           /\ UNCHANGED <<walkJob, eagers, walkGraph, block, hostPrev, walked>>
    BY DEF Forward, NotStashed
  <1>2. at \in Nat /\ w \in Nat
    BY DEF WalkAssumption
  <1>3. WindowType'
    BY <1>1, <1>2 DEF WindowType, NoStash
  <1>4. OwnStash'
    BY <1>1, <1>2 DEF OwnStash, NoStash, Eligible, Qualify
  <1>5. JobType' /\ Uploaded' /\ Given'
    BY <1>1 DEF WalkInv, JobType, Uploaded, Given
  <1>6. OwnWindow'
    BY <1>1 DEF WalkInv, OwnWindow
  <1> QED
    BY <1>3, <1>4, <1>5, <1>6 DEF WalkInv

(* A position that resolves is given its own token of the window; one that    *)
(* does not is sampled as ever (receive_logits).                              *)
LEMMA ReceiveStep ==
    ASSUME WalkAssumption, WalkInv, ReceiveLogits
    PROVE  WalkInv'
  <1>1. PICK p \in Nat : p = Len(received) + 1 /\ p <= lastLogits.width
    BY DEF ReceiveLogits, WalkInv, Given, WindowType
  <1>2. PICK token : /\ received' = Append(received, token)
                     /\ token = IF Resolve(lastLogits.base + p - 1) = 0 THEN Serial(p)
                                ELSE Token(stash.fresh, Resolve(lastLogits.base + p - 1), 0, "nothing")
    BY <1>1 DEF ReceiveLogits
  <1>3. UNCHANGED <<walkJob, eagers, walkGraph, block, hostPrev, walked, lastLogits, stash>>
    BY DEF ReceiveLogits
  <1>4. token = Serial(p)
    <2>1. CASE Resolve(lastLogits.base + p - 1) = 0
      BY <1>2, <2>1
    <2>2. CASE Resolve(lastLogits.base + p - 1) # 0
      <3>1. stash.width > 0 /\ lastLogits.width > 0
        BY <1>1, <2>2 DEF Resolve, WalkInv, WindowType
      <3>2. stash.fresh = TRUE /\ stash.base = lastLogits.base
          /\ walkJob.steps = "plain" /\ walkJob.asks = "nothing"
        BY <3>1 DEF WalkInv, OwnStash
      <3>3. Resolve(lastLogits.base + p - 1) = p
        BY <2>2, <3>2, <1>1 DEF Resolve, WalkInv, WindowType
      <3> QED
        BY <1>2, <2>2, <3>2, <3>3 DEF Serial
    <2> QED
      BY <2>1, <2>2
  <1>5. Serial(p) \in [fresh : BOOLEAN, position : Nat, given : Nat, asked : Asks]
    BY <1>1 DEF WalkInv, JobType, Serial, Token
  <1>6. Given'
    BY <1>2, <1>4, <1>5 DEF WalkInv, Given
  <1>7. ASSUME NEW i \in 1..Len(received') PROVE received'[i] = Serial(i)
    <2>1. CASE i = p
      BY <1>1, <1>2, <1>4, <2>1 DEF WalkInv, Given
    <2>2. CASE i # p
      <3>1. i \in 1..Len(received) /\ received'[i] = received[i]
        BY <1>1, <1>2, <2>2 DEF WalkInv, Given
      <3> QED
        BY <3>1 DEF WalkInv, OwnWindow
    <2> QED
      BY <2>1, <2>2
  <1>8. OwnWindow'
    BY <1>3, <1>7 DEF WalkInv, OwnWindow, Serial
  <1>9. JobType' /\ Uploaded' /\ WindowType' /\ OwnStash'
    BY <1>3 DEF WalkInv, JobType, Uploaded, WindowType, OwnStash
  <1> QED
    BY <1>6, <1>8, <1>9 DEF WalkInv

(* Another job: nothing of the last one's window or walk is read any more.    *)
LEMMA OtherStep ==
    ASSUME WalkAssumption, WalkInv, GiveJob \/ ForwardRaises \/ UNCHANGED walkVars
    PROVE  WalkInv'
  <1>1. CASE GiveJob
    <2>1. /\ walkJob' \in WalkJobs /\ walked' = NoTable /\ received' = <<>>
          /\ lastLogits' = NoWindow /\ UNCHANGED <<hostPrev, block, stash>>
      BY <1>1 DEF GiveJob
    <2>2. JobType' /\ Uploaded' /\ WindowType' /\ OwnStash' /\ Given'
      BY <2>1 DEF WalkInv, JobType, WalkJobs, WalkAssumption, Uploaded, WindowType, OwnStash, Given, NoWindow
    <2>3. OwnWindow'
      BY <2>1 DEF OwnWindow
    <2> QED
      BY <2>2, <2>3 DEF WalkInv
  <1>2. CASE ForwardRaises
    <2>1. /\ lastLogits' = NoWindow /\ received' = <<>> /\ stash' = [stash EXCEPT !.fresh = FALSE]
          /\ UNCHANGED <<walkJob, block, hostPrev, walked>>
      BY <1>2 DEF ForwardRaises
    <2>2. JobType' /\ Uploaded' /\ Given'
      BY <2>1 DEF WalkInv, JobType, Uploaded, Given
    <2>3. stash' \in [base : Nat, width : Nat, fresh : BOOLEAN] /\ lastLogits'.width = 0
          /\ lastLogits' \in [base : Nat, width : Nat]
      BY <2>1 DEF WalkInv, WindowType, NoWindow
    <2>4. WindowType' /\ OwnStash'
      BY <2>3 DEF WindowType, OwnStash
    <2>5. OwnWindow'
      BY <2>1 DEF WalkInv, OwnWindow
    <2> QED
      BY <2>2, <2>4, <2>5 DEF WalkInv
  <1>3. CASE UNCHANGED walkVars
    BY <1>3 DEF walkVars, WalkInv, JobType, Uploaded, WindowType, OwnStash, Given, OwnWindow, Serial
  <1> QED
    BY <1>1, <1>2, <1>3

(* The beginning: no job, no logits, nothing captured.                        *)
LEMMA WalkBegins == WalkInit => WalkInv
  <1> SUFFICES ASSUME WalkInit PROVE WalkInv
    OBVIOUS
  <1>1. walkJob.table = <<>> /\ walkJob = [table |-> <<>>, steps |-> "plain", asks |-> "nothing"] /\ <<>> \in Seq(Nat)
    BY DEF WalkInit
  <1>2. JobType
    BY <1>1 DEF JobType, Asks
  <1>3. Uploaded /\ WindowType /\ OwnStash /\ Given /\ OwnWindow
    BY DEF WalkInit, Uploaded, WindowType, OwnStash, Given, OwnWindow, NoWindow, NoStash
  <1> QED
    BY <1>2, <1>3 DEF WalkInv

(* Whatever was captured, uploaded or stashed before, for any bucket size,    *)
(* block tables, widths and allocator: a draft walk runs over its own job's   *)
(* pages, and each position of a verify is given the token that the stock     *)
(* serial walk samples there (draft_graph.py, rendezvous.py).                 *)
THEOREM WindowIsOwn == WalkSpec => []OwnWindow
  <1>1. WalkInit => WalkInv
    BY WalkBegins
  <1>2. WalkInv /\ [WalkNext]_walkVars => WalkInv'
    <2> SUFFICES ASSUME WalkInv, [WalkNext]_walkVars PROVE WalkInv'
      OBVIOUS
    <2>1. CASE Walk
      BY <2>1, WalkStep, WalkAssumption
    <2>2. CASE \E pinned \in BOOLEAN : Forward(pinned)
      BY <2>2, ForwardStep, WalkAssumption
    <2>3. CASE ReceiveLogits
      BY <2>3, ReceiveStep, WalkAssumption
    <2>4. CASE GiveJob \/ ForwardRaises \/ UNCHANGED walkVars
      BY <2>4, OtherStep, WalkAssumption
    <2> QED
      BY <2>1, <2>2, <2>3, <2>4 DEF WalkNext
  <1>3. WalkInv => OwnWindow
    BY DEF WalkInv
  <1> QED
    BY <1>1, <1>2, <1>3, PTL DEF WalkSpec

-----------------------------------------------------------------------------
(* The draft's own rows (DraftCache).                                         *)

\* A store of the context's size is the first one, and its shadow is the rows.
StoreType(s) ==
    /\ s.address \in Nat /\ s.size \in Nat /\ s.rows \in Seq(Nat)
    /\ s.size = 0 => s.address = 0 /\ s.rows = <<>>
    /\ s.size # 0 => s.size >= Capacity
    /\ s.size = Capacity => s.address = 1
    /\ s.size \in {0, Capacity} => s.fp8 = s.rows

Carries == [row : Nat, shared : BOOLEAN]

DraftType ==
    /\ StoreType(kv) /\ position \in Nat /\ primed \in Nat /\ target \in Nat /\ target < Capacity
    /\ carry \in Carries /\ mark \in Carries
    /\ rolls \in [Kinds -> [warm : Nat, address : {0, 1}]]

\* Every token that was kept has its row, in whatever phase.
RowsRight ==
    /\ target <= Len(kv.rows) /\ (target > 0 => kv.size # 0)
    /\ \A p \in 1..target : kv.rows[p] = p \/ p \in clobbered

\* A commit is behind the target.
MarkBehind == mark.row <= target

\* What a window has rolled, and where it will be cut.
RolledWindow ==
    /\ primed = target /\ position = target + Steps
    /\ Len(kv.rows) = position /\ kv.rows[target + 1] = target + 1

WindowPhase ==
    /\ phase \in {"turn", "verify", "repair"}
    /\ phase \in {"turn", "verify"} => carry.row = target
    /\ phase = "turn" \/ primed = NoPrime => position = target
    /\ phase # "turn" => target > 0
    /\ phase # "turn" /\ primed # NoPrime => RolledWindow
    /\ phase = "verify" /\ primed # NoPrime =>
         rolled.address = kv.address /\ rolled.read = SubSeq(kv.rows, 1, primed)

DraftInv == DraftType /\ RowsRight /\ MarkBehind /\ WindowPhase

LEMMA JoinFacts ==
    ASSUME NEW s \in Seq(Nat), NEW t \in Seq(Nat)
    PROVE  /\ s \o t \in Seq(Nat) /\ Len(s \o t) = Len(s) + Len(t)
           /\ \A i \in 1..Len(s) : (s \o t)[i] = s[i]
           /\ \A i \in 1..Len(t) : (s \o t)[Len(s) + i] = t[i]
  OBVIOUS

\* What _write_kv leaves in a store: the rows up to `at`, then the new ones.
LEMMA WriteKvRows ==
    ASSUME DraftAssumption, NEW s, StoreType(s), NEW at \in Nat, at <= Len(s.rows), NEW new \in Seq(Nat)
    PROVE  LET w == WriteKv(s, at, new) IN
           /\ w.rows \in Seq(Nat) /\ w.rows = SubSeq(s.rows, 1, at) \o new
           /\ Len(w.rows) = at + Len(new)
           /\ \A i \in 1..at : w.rows[i] = s.rows[i]
           /\ \A i \in 1..Len(new) : w.rows[at + i] = new[i]
  <1> DEFINE w == WriteKv(s, at, new)
  <1>1. w.rows = SubSeq(s.rows, 1, at) \o new
    BY DEF WriteKv
  <1>2. PICK r \in Seq(Nat) : r = s.rows
    BY DEF StoreType
  <1>3. SubSeq(r, 1, at) \in Seq(Nat) /\ Len(SubSeq(r, 1, at)) = at /\ \A i \in 1..at : SubSeq(r, 1, at)[i] = r[i]
    BY <1>2
  <1>4. PICK h \in Seq(Nat) : h = SubSeq(r, 1, at) /\ Len(h) = at /\ \A i \in 1..at : h[i] = r[i]
    BY <1>3
  <1>5. /\ h \o new \in Seq(Nat) /\ Len(h \o new) = Len(h) + Len(new)
        /\ \A i \in 1..Len(h) : (h \o new)[i] = h[i]
        /\ \A i \in 1..Len(new) : (h \o new)[Len(h) + i] = new[i]
    BY JoinFacts
  <1> QED
    BY <1>1, <1>2, <1>4, <1>5

\* The store stays as it should be; only one that is written past the context
\* moves to another address.
LEMMA WriteKvStore ==
    ASSUME DraftAssumption, NEW s, StoreType(s), NEW at \in Nat, at <= Len(s.rows), NEW new \in Seq(Nat),
           s.size # 0 \/ at + Len(new) <= Capacity
    PROVE  LET w == WriteKv(s, at, new) IN
           /\ StoreType(w) /\ w.size # 0
           /\ s.size = Capacity /\ at + Len(new) <= Capacity => w.address = s.address
  <1> DEFINE w    == WriteKv(s, at, new)
             end  == at + Len(new)
             size == IF s.size = 0 /\ end <= Capacity THEN Capacity ELSE s.size
             grown == IF size >= end THEN size ELSE Max({2 * size, end})
  <1>1. end \in Nat /\ s.size \in Nat /\ s.address \in Nat /\ Capacity \in Nat \ {0}
    BY DEF StoreType, DraftAssumption
  <1>2. size \in Nat /\ size >= Capacity
    BY <1>1 DEF StoreType
  <1>3. grown \in Nat /\ grown >= size /\ (end > size => grown > size) /\ (end <= size => grown = size)
    <2>1. CASE size >= end
      BY <2>1, <1>1, <1>2
    <2>2. CASE ~ (size >= end)
      <3> HIDE DEF size, end
      <3>1. 2 * size \in Nat
        BY <1>2
      <3>2. Max({2 * size, end}) \in Nat /\ Max({2 * size, end}) >= end
        <4>1. PICK d \in Nat : d = 2 * size
          BY <3>1
        <4>2. Max({d, end}) \in Nat /\ Max({d, end}) >= end
          BY <1>1, MaxOfTwo
        <4> QED
          BY <4>1, <4>2
      <3> QED
        BY <3>2, <2>2, <1>1, <1>2
    <2> QED
      BY <2>1, <2>2
  <1>4. /\ w.address = IF grown # s.size THEN s.address + 1 ELSE s.address
        /\ w.size = grown
        /\ w.fp8 = IF size = Capacity THEN SubSeq(s.fp8, 1, at) \o SubSeq(new, 1, Min({Len(new), Capacity - at}))
                   ELSE s.fp8
    BY DEF WriteKv
  <1>5. w.rows \in Seq(Nat) /\ w.rows = SubSeq(s.rows, 1, at) \o new
    <2> HIDE DEF end, size, grown
    <2>1. WriteKv(s, at, new).rows \in Seq(Nat)
      BY WriteKvRows
    <2>2. WriteKv(s, at, new).rows = SubSeq(s.rows, 1, at) \o new
      BY DEF WriteKv
    <2> QED
      BY Zenon, <2>1, <2>2
  <1>6. w.address \in Nat /\ w.size \in Nat /\ w.size # 0 /\ w.size >= Capacity
    <2> HIDE DEF grown, size, end
    <2> QED
      BY <1>1, <1>2, <1>3, <1>4
  <1>7. ASSUME w.size = Capacity PROVE size = Capacity /\ end <= Capacity
    <2> HIDE DEF grown, size, end
    <2> QED
      BY <1>7, <1>1, <1>2, <1>3, <1>4
  <1>8. ASSUME w.size = Capacity PROVE w.address = 1
    <2>1. CASE s.size = 0
      BY <2>1, <1>8, <1>1, <1>4 DEF StoreType
    <2>2. CASE s.size # 0
      BY <2>2, <1>7, <1>8, <1>1, <1>4 DEF StoreType
    <2> QED
      BY <2>1, <2>2
  <1>9. ASSUME w.size = Capacity PROVE w.fp8 = w.rows
    <2>1. s.fp8 = s.rows
      BY <1>7, <1>9 DEF StoreType
    <2>2. Len(new) \in Nat /\ Capacity - at \in Nat /\ Len(new) <= Capacity - at
      BY <1>7, <1>9, <1>1
    <2>3. Min({Len(new), Capacity - at}) = Len(new)
      BY <2>2, MinOfTwo
    <2>4. SubSeq(new, 1, Len(new)) = new
      OBVIOUS
    <2> QED
      BY <1>4, <1>5, <1>7, <1>9, <2>1, <2>3, <2>4
  <1>10. s.size = Capacity /\ end <= Capacity => w.address = s.address
    <2> SUFFICES ASSUME s.size = Capacity, end <= Capacity PROVE w.address = s.address
      OBVIOUS
    <2>1. size = Capacity
      BY <1>1
    <2> HIDE DEF grown, size
    <2>2. grown = Capacity
      BY <1>1, <1>2, <1>3, <2>1
    <2> QED
      BY <1>4, <2>2
  <1>11. StoreType(w)
    <2> HIDE DEF w
    <2> QED
      BY <1>5, <1>6, <1>8, <1>9, <1>1 DEF StoreType
  <1> QED
    BY <1>6, <1>10, <1>11

\* What holds of the context at the end of a write behind the target.
LEMMA DraftNumbers ==
    ASSUME DraftAssumption, DraftInv
    PROVE  /\ Capacity \in Nat \ {0} /\ Steps \in Nat \ {0} /\ position \in Nat /\ target \in Nat
           /\ target < Capacity /\ target < NoPrime /\ NoPrime \in Nat /\ primed \in Nat
           /\ Len(kv.rows) \in Nat /\ carry.row \in Nat /\ carry.shared \in BOOLEAN
  <1>1. Capacity \in Nat \ {0} /\ Steps \in Nat \ {0} /\ position \in Nat /\ target \in Nat
        /\ target < Capacity /\ primed \in Nat /\ carry \in Carries /\ kv.rows \in Seq(Nat)
    BY DEF DraftInv, DraftType, DraftAssumption, StoreType
  <1>2. NoPrime = Capacity + Steps + 1
    BY DEF NoPrime
  <1> QED
    BY <1>1, <1>2 DEF Carries

(* A span of the prompt: each row is of its token and of the one before it.   *)
LEMMA AbsorbStep ==
    ASSUME DraftAssumption, DraftInv, AbsorbSpan
    PROVE  DraftInv'
  <1>1. PICK n \in 1..Steps + 1, shared \in BOOLEAN :
           /\ target + n < Capacity
           /\ kv' = WriteKv(kv, position, Absorbed(n)) /\ position' = position + n
           /\ carry' = Carry(target + n, shared) /\ target' = target + n
           /\ UNCHANGED <<rolls, phase, rolled, primed, mark, clobbered>> /\ phase = "turn"
    BY DEF AbsorbSpan
  <1>2. position = target /\ carry.row = target /\ n \in Nat /\ n > 0 /\ StoreType(kv)
    BY <1>1, DraftNumbers DEF DraftInv, WindowPhase, DraftType
  <1>3. Absorbed(n) \in Seq(Nat) /\ Len(Absorbed(n)) = n /\ \A i \in 1..n : Absorbed(n)[i] = target + i
    <2>1. ASSUME NEW i \in 1..n PROVE Row(target + i, IF i = 1 THEN carry.row ELSE target + i - 1) = target + i
      BY <1>2, DraftNumbers DEF Row
    <2>2. Absorbed(n) = [i \in 1..n |-> target + i]
      BY <2>1 DEF Absorbed
    <2>3. \A i \in 1..n : target + i \in Nat
      BY DraftNumbers
    <2> QED
      BY <1>2, <2>2, <2>3
  <1>4. PICK new \in Seq(Nat) : new = Absorbed(n) /\ Len(new) = n /\ \A i \in 1..n : new[i] = target + i
    BY <1>3
  <1>5. target <= Len(kv.rows) /\ \A p \in 1..target : kv.rows[p] = p \/ p \in clobbered
    BY DEF DraftInv, RowsRight
  <1>6. kv' = WriteKv(kv, target, new)
    BY <1>1, <1>2, <1>4
  <1>7. /\ kv'.rows \in Seq(Nat) /\ Len(kv'.rows) = target + n
        /\ \A i \in 1..target : kv'.rows[i] = kv.rows[i]
        /\ \A i \in 1..n : kv'.rows[target + i] = new[i]
    <2>1. target \in Nat
      BY DraftNumbers
    <2>2. StoreType(kv) /\ target <= Len(kv.rows) /\ new \in Seq(Nat)
      BY Zenon, <1>2, <1>4, <1>5
    <2>3. LET w == WriteKv(kv, target, new) IN
          /\ w.rows \in Seq(Nat) /\ Len(w.rows) = target + Len(new)
          /\ \A i \in 1..target : w.rows[i] = kv.rows[i]
          /\ \A i \in 1..Len(new) : w.rows[target + i] = new[i]
      BY SMTT(30), <2>1, <2>2, WriteKvRows
    <2> QED
      BY <2>3, <1>4, <1>6
  <1>8. StoreType(kv') /\ kv'.size # 0
    BY SMTT(30), <1>1, <1>2, <1>4, <1>5, <1>6, DraftNumbers, WriteKvStore
  <1>9. RowsRight'
    <2>1. ASSUME NEW p \in 1..target + n PROVE kv'.rows[p] = p \/ p \in clobbered
      <3>1. CASE p \in 1..target
        BY <3>1, <1>5, <1>7
      <3>2. CASE p \notin 1..target
        <4>1. PICK i \in 1..n : p = target + i
          <5>1. p - target \in 1..n /\ p = target + (p - target)
            BY SMTT(30), <3>2, <1>2, DraftNumbers
          <5> QED
            BY <5>1
        <4> QED
          BY <4>1, <1>4, <1>7
      <3> QED
        BY <3>1, <3>2
    <2> QED
      BY <2>1, <1>1, <1>7, <1>8, DraftNumbers DEF RowsRight
  <1>10. DraftType'
    <2>1. carry' \in Carries
      BY <1>1, <1>2, DraftNumbers DEF Carry, Carries
    <2> QED
      BY <2>1, <1>1, <1>2, <1>8, DraftNumbers DEF DraftInv, DraftType
  <1>11. MarkBehind'
    BY <1>1, <1>2, DraftNumbers DEF DraftInv, MarkBehind, DraftType, Carries
  <1>12. WindowPhase'
    BY <1>1, <1>2 DEF WindowPhase, Carry
  <1> QED
    BY <1>9, <1>10, <1>11, <1>12 DEF DraftInv

\* Both at once, of the draft's own store.
LEMMA WrittenRows ==
    ASSUME DraftAssumption, DraftInv, NEW at \in Nat, at <= Len(kv.rows), NEW new \in Seq(Nat), kv.size # 0
    PROVE  LET w == WriteKv(kv, at, new) IN
           /\ w.rows \in Seq(Nat) /\ Len(w.rows) = at + Len(new)
           /\ w.rows = SubSeq(kv.rows, 1, at) \o new
           /\ \A i \in 1..at : w.rows[i] = kv.rows[i]
           /\ \A i \in 1..Len(new) : w.rows[at + i] = new[i]
           /\ StoreType(w) /\ w.size # 0
           /\ kv.size = Capacity /\ at + Len(new) <= Capacity => w.address = kv.address
  <1>1. StoreType(kv)
    BY DEF DraftInv, DraftType
  <1>2. WriteKv(kv, at, new).rows = SubSeq(kv.rows, 1, at) \o new
    BY DEF WriteKv
  <1>4. LET w == WriteKv(kv, at, new) IN
        /\ w.rows \in Seq(Nat) /\ Len(w.rows) = at + Len(new)
        /\ \A i \in 1..at : w.rows[i] = kv.rows[i]
        /\ \A i \in 1..Len(new) : w.rows[at + i] = new[i]
    <2>1. at <= Len(kv.rows) /\ at \in Nat /\ new \in Seq(Nat) /\ DraftAssumption
      OBVIOUS
    <2>2. LET w == WriteKv(kv, at, new) IN w.rows \in Seq(Nat)
      BY <1>1, <2>1, WriteKvRows
    <2>3. LET w == WriteKv(kv, at, new) IN Len(w.rows) = at + Len(new)
      BY <1>1, <2>1, WriteKvRows
    <2>4. LET w == WriteKv(kv, at, new) IN \A i \in 1..at : w.rows[i] = kv.rows[i]
      BY <1>1, <2>1, WriteKvRows
    <2>5. LET w == WriteKv(kv, at, new) IN \A i \in 1..Len(new) : w.rows[at + i] = new[i]
      BY <1>1, <2>1, WriteKvRows
    <2> QED
      BY <2>2, <2>3, <2>4, <2>5
  <1>3. LET w == WriteKv(kv, at, new) IN
        /\ StoreType(w) /\ w.size # 0
        /\ kv.size = Capacity /\ at + Len(new) <= Capacity => w.address = kv.address
    BY <1>1, WriteKvStore
  <1> QED
    BY <1>2, <1>3, <1>4

(* A roll: the held token's row is right, the others nobody has accepted; and *)
(* what it reads is what the store held, in the store that is in use.         *)
LEMMA RollStep ==
    ASSUME DraftAssumption, DraftInv, phase = "turn", target > 0, NEW kind \in Kinds, Roll(kind),
           phase' = "verify", UNCHANGED <<carry, target, mark, clobbered>>
    PROVE  DraftInv'
  <1> DEFINE new == <<Row(target + 1, carry.row)>> \o [i \in 1..Steps - 1 |-> Wrong]
             static == Graphable(kv, position, kind)
             slot == rolls[kind]
             graph == static /\ (slot.address # 0 \/ slot.warm >= WarmRolls)
  <1>1. /\ kv' = WriteKv(kv, position, new) /\ position' = position + Steps /\ primed' = position
        /\ rolls' = IF ~static \/ slot.address # 0 THEN rolls
                    ELSE [rolls EXCEPT ![kind] = [warm |-> IF graph THEN @.warm ELSE @.warm + 1,
                                                  address |-> IF graph THEN kv.address ELSE 0]]
        /\ rolled' = [address |-> IF static /\ slot.address # 0 THEN slot.address ELSE kv'.address,
                      read |-> RowsRead(static)]
    BY DEF Roll
  <1>2. position = target /\ carry.row = target /\ kv.size # 0 /\ target <= Len(kv.rows) /\ StoreType(kv)
        /\ \A p \in 1..target : kv.rows[p] = p \/ p \in clobbered
    BY DEF DraftInv, WindowPhase, RowsRight, DraftType
  <1>3. new \in Seq(Nat) /\ Len(new) = Steps /\ new[1] = target + 1
    <2>1. Row(target + 1, carry.row) = target + 1 /\ target + 1 \in Nat
      BY <1>2, DraftNumbers DEF Row
    <2>2. PICK one \in Seq(Nat) : one = <<target + 1>> /\ Len(one) = 1 /\ one[1] = target + 1
      <3>1. PICK t \in Nat : t = target + 1
        BY <2>1
      <3>2. <<t>> \in Seq(Nat) /\ Len(<<t>>) = 1 /\ <<t>>[1] = t
        OBVIOUS
      <3> QED
        BY <3>1, <3>2
    <2>3. PICK rest \in Seq(Nat) : rest = [i \in 1..Steps - 1 |-> Wrong] /\ Len(rest) = Steps - 1
      <3>1. PICK m \in Nat : m = Steps - 1
        <4>1. Steps - 1 \in Nat
          BY DraftNumbers
        <4> QED
          BY <4>1
      <3>2. [i \in 1..m |-> 0] \in Seq(Nat) /\ Len([i \in 1..m |-> 0]) = m
        OBVIOUS
      <3> QED
        BY <3>1, <3>2 DEF Wrong
    <2>4. one \o rest \in Seq(Nat) /\ Len(one \o rest) = Len(one) + Len(rest)
          /\ \A i \in 1..Len(one) : (one \o rest)[i] = one[i]
      BY JoinFacts
    <2> QED
      BY SMTT(30), <2>1, <2>2, <2>3, <2>4, DraftNumbers
  <1>4. PICK n \in Seq(Nat) : n = new /\ Len(n) = Steps /\ n[1] = target + 1
    BY <1>3
  <1> HIDE DEF new
  <1>5. /\ Len(kv'.rows) = target + Steps
        /\ kv'.rows = SubSeq(kv.rows, 1, target) \o n
        /\ \A i \in 1..target : kv'.rows[i] = kv.rows[i]
        /\ kv'.rows[target + 1] = target + 1
        /\ StoreType(kv') /\ kv'.size # 0
        /\ kv.size = Capacity /\ target + Steps <= Capacity => kv'.address = kv.address
    <2>1. kv' = WriteKv(kv, target, n) /\ target \in Nat
      BY <1>1, <1>2, <1>4, DraftNumbers
    <2>2. LET w == WriteKv(kv, target, n) IN
          /\ Len(w.rows) = target + Len(n)
          /\ w.rows = SubSeq(kv.rows, 1, target) \o n
          /\ \A i \in 1..target : w.rows[i] = kv.rows[i]
          /\ \A i \in 1..Len(n) : w.rows[target + i] = n[i]
          /\ StoreType(w) /\ w.size # 0
          /\ kv.size = Capacity /\ target + Len(n) <= Capacity => w.address = kv.address
      BY <2>1, <1>2, WrittenRows
    <2>3. 1 \in 1..Len(n)
      BY <1>4, DraftNumbers
    <2> QED
      BY <2>1, <2>2, <2>3, <1>4
  <1>6. RowsRight'
    <2>1. target' = target /\ clobbered' = clobbered
      OBVIOUS
    <2>2. target <= Len(kv'.rows)
      BY <1>5, DraftNumbers
    <2>3. \A p \in 1..target : kv'.rows[p] = p \/ p \in clobbered
      BY <1>2, <1>5
    <2> QED
      BY <2>1, <2>2, <2>3, <1>5 DEF RowsRight
  <1>7. static => kv.size = Capacity /\ kv.address = 1 /\ kv'.address = 1 /\ kv.fp8 = kv.rows
    <2> SUFFICES ASSUME static PROVE kv.size = Capacity /\ kv.address = 1 /\ kv'.address = 1 /\ kv.fp8 = kv.rows
      OBVIOUS
    <2>1. kv.size = Capacity /\ target + Steps <= Capacity
      BY <1>2 DEF Graphable
    <2> QED
      BY <2>1, <1>2, <1>5 DEF StoreType
  <1>8. rolls' \in [Kinds -> [warm : Nat, address : {0, 1}]]
    <2>1. rolls \in [Kinds -> [warm : Nat, address : {0, 1}]]
      BY DEF DraftInv, DraftType
    <2>2. CASE ~static \/ slot.address # 0
      BY <2>1, <2>2, <1>1
    <2>3. CASE static /\ slot.address = 0
      <3>1. [warm |-> IF graph THEN slot.warm ELSE slot.warm + 1,
             address |-> IF graph THEN kv.address ELSE 0] \in [warm : Nat, address : {0, 1}]
        <4>1. slot.warm \in Nat
          BY <2>1
        <4>2. kv.address = 1
          BY <2>3, <1>7
        <4> HIDE DEF slot, graph
        <4> QED
          BY <4>1, <4>2
      <3> QED
        BY <3>1, <2>1, <2>3, <1>1
    <2> QED
      BY <2>2, <2>3
  <1>9. DraftType'
    <2>1. position' \in Nat /\ primed' \in Nat /\ target' \in Nat /\ target' < Capacity
      BY <1>1, <1>2, DraftNumbers
    <2>2. carry' \in Carries /\ mark' \in Carries
      BY DEF DraftInv, DraftType
    <2> QED
      BY <2>1, <2>2, <1>5, <1>8 DEF DraftType
  <1>10. MarkBehind'
    BY DEF DraftInv, MarkBehind
  <1>11. rolled'.address = kv'.address
    <2>1. slot.address \in {0, 1}
      BY DEF DraftInv, DraftType
    <2> HIDE DEF slot, static
    <2> QED
      BY <2>1, <1>1, <1>7
  <1>12. rolled'.read = SubSeq(kv'.rows, 1, target)
    <2>1. rolled'.read = SubSeq(kv.rows, 1, target)
      BY <1>1, <1>2, <1>7 DEF RowsRead
    <2>2. PICK r \in Seq(Nat) : r = kv.rows
      BY <1>2 DEF StoreType
    <2>3. PICK h \in Seq(Nat) : h = SubSeq(r, 1, target) /\ Len(h) = target
      <3>1. target \in Nat /\ target <= Len(r)
        BY <1>2, <2>2, DraftNumbers
      <3>2. SubSeq(r, 1, target) \in Seq(Nat) /\ Len(SubSeq(r, 1, target)) = target
        BY <3>1
      <3> QED
        BY <3>2
    <2>4. SubSeq(h \o n, 1, Len(h)) = h
      OBVIOUS
    <2> QED
      BY <2>1, <2>2, <2>3, <2>4, <1>5
  <1>13. WindowPhase'
    <2>1. primed' = target /\ target' = target /\ carry'.row = target /\ position' = target + Steps
      BY <1>1, <1>2
    <2>2. RolledWindow'
      BY <2>1, <1>5 DEF RolledWindow
    <2> QED
      BY <2>1, <2>2, <1>11, <1>12, DraftNumbers DEF WindowPhase
  <1> QED
    BY <1>6, <1>9, <1>10, <1>13 DEF DraftInv

(* A window starts; a copied one writes nothing.                              *)
LEMMA ProposeStep ==
    ASSUME DraftAssumption, DraftInv, Propose
    PROVE  DraftInv'
  <1>1. phase = "turn" /\ target > 0 /\ phase' = "verify" /\ UNCHANGED <<carry, target, mark, clobbered>>
        /\ \/ \E kind \in Kinds : Roll(kind)
           \/ primed' = NoPrime /\ UNCHANGED <<kv, position, rolls>>
    BY DEF Propose
  <1>2. CASE \E kind \in Kinds : Roll(kind)
    BY <1>1, <1>2, RollStep
  <1>3. CASE primed' = NoPrime /\ UNCHANGED <<kv, position, rolls>>
    <2>1. DraftType' /\ RowsRight' /\ MarkBehind'
      BY <1>1, <1>3, DraftNumbers DEF DraftInv, DraftType, RowsRight, MarkBehind
    <2>2. WindowPhase'
      BY <1>1, <1>3 DEF DraftInv, WindowPhase
    <2> QED
      BY <2>1, <2>2 DEF DraftInv
  <1> QED
    BY <1>1, <1>2, <1>3

(* What the target writes into its buffers may spoil the carry, nothing else. *)
LEMMA VerifyStep ==
    ASSUME DraftAssumption, DraftInv, Verify
    PROVE  DraftInv'
  <1>1. /\ phase = "verify" /\ phase' = "repair"
        /\ carry' = carry \/ carry' = Carry(Wrong, TRUE)
        /\ UNCHANGED <<kv, position, hasPast, rolls, target, rolled, primed, mark, clobbered>>
    BY DEF Verify
  <1>2. carry' \in Carries
    <2>1. carry \in Carries
      BY DEF DraftInv, DraftType
    <2>2. Carry(Wrong, TRUE) \in Carries
      BY DEF Carries, Carry, Wrong
    <2> QED
      BY <2>1, <2>2, <1>1
  <1>3. DraftType'
    BY <1>1, <1>2 DEF DraftInv, DraftType
  <1>4. RowsRight' /\ MarkBehind'
    BY <1>1 DEF DraftInv, RowsRight, MarkBehind
  <1>5. WindowPhase'
    BY <1>1 DEF DraftInv, WindowPhase, RolledWindow
  <1> QED
    BY <1>3, <1>4, <1>5 DEF DraftInv

\* A span of rows right behind what is kept, written at the end of a window.
LEMMA RepairWrites ==
    ASSUME DraftAssumption, DraftInv, NEW first \in Nat, NEW matched \in Nat, first <= Len(kv.rows), kv.size # 0,
           NEW new \in Seq(Nat), Len(new) = target + 1 + matched - first, first \in {target, target + 1},
           \A i \in 1..Len(new) : first + i # target + 1 => new[i] = first + i,
           new # <<>> /\ first = target => new[1] = target + 1 \/ target + 1 \in clobbered',
           first = target + 1 => kv.rows[target + 1] = target + 1,
           clobbered \subseteq clobbered',
           kv' = WriteKv(kv, first, new), target' = target + 1 + matched
    PROVE  RowsRight' /\ StoreType(kv')
  <1>1. LET w == WriteKv(kv, first, new) IN
        /\ Len(w.rows) = first + Len(new)
        /\ \A i \in 1..first : w.rows[i] = kv.rows[i]
        /\ \A i \in 1..Len(new) : w.rows[first + i] = new[i]
        /\ StoreType(w) /\ w.size # 0
    BY WrittenRows
  <1>2. /\ Len(kv'.rows) = first + Len(new)
        /\ \A i \in 1..first : kv'.rows[i] = kv.rows[i]
        /\ \A i \in 1..Len(new) : kv'.rows[first + i] = new[i]
        /\ StoreType(kv') /\ kv'.size # 0
    BY <1>1
  <1>3. PICK l \in Nat : l = Len(new)
    OBVIOUS
  <1>4. first + l = target + 1 + matched
    BY <1>3, DraftNumbers
  <1>5. ASSUME NEW p \in 1..target + 1 + matched PROVE kv'.rows[p] = p \/ p \in clobbered'
    <2>1. CASE p <= target
      <3>1. p \in 1..first /\ p \in 1..target
        BY <2>1, DraftNumbers
      <3> QED
        BY <3>1, <1>2 DEF DraftInv, RowsRight
    <2>2. CASE p = target + 1
      <3>1. CASE first = target
        <4>1. 1 \in 1..l /\ first + 1 = p /\ new # <<>>
          BY <2>2, <3>1, <1>3, <1>4, DraftNumbers
        <4> QED
          BY <4>1, <3>1, <2>2, <1>2, <1>3
      <3>2. CASE first = target + 1
        <4>1. p \in 1..first
          BY <2>2, <3>2, DraftNumbers
        <4> QED
          BY <4>1, <3>2, <2>2, <1>2
      <3> QED
        BY <3>1, <3>2
    <2>3. CASE p > target + 1
      <3>1. PICK i \in 1..l : p = first + i
        <4>1. p - first \in 1..l /\ p = first + (p - first)
          BY <2>3, <1>4, DraftNumbers
        <4> QED
          BY <4>1
      <3>2. first + i # target + 1 /\ i \in 1..Len(new)
        BY <3>1, <2>3, <1>3, DraftNumbers
      <3>3. new[i] = first + i /\ kv'.rows[first + i] = new[i]
        BY <3>2, <1>2
      <3> QED
        BY <3>1, <3>3
    <2> QED
      BY <2>1, <2>2, <2>3, DraftNumbers
  <1> QED
    BY <1>2, <1>3, <1>4, <1>5, DraftNumbers DEF RowsRight

\* The rows of the accepted tokens, with the target's rows.
LEMMA AcceptedRows ==
    ASSUME DraftAssumption, DraftInv, NEW matched \in Nat
    PROVE  LET new == [i \in 1..matched |-> Row(target + 1 + i, target + i)] IN
           new \in Seq(Nat) /\ Len(new) = matched /\ \A i \in 1..matched : new[i] = target + 1 + i
  <1>1. \A i \in 1..matched : Row(target + 1 + i, target + i) = target + 1 + i /\ target + 1 + i \in Nat
    BY DraftNumbers DEF Row
  <1>2. [i \in 1..matched |-> Row(target + 1 + i, target + i)] = [i \in 1..matched |-> target + 1 + i]
    BY <1>1
  <1> QED
    BY <1>1, <1>2

(* The repair: every token that is kept has a right row, or is the one whose  *)
(* carry was overwritten.                                                     *)
LEMMA EndWindowStep ==
    ASSUME DraftAssumption, DraftInv, EndWindow
    PROVE  DraftInv'
  <1>1. PICK matched \in 0..Steps :
           /\ phase = "repair" /\ phase' = "turn" /\ target + 1 + matched < Capacity
           /\ IF primed = NoPrime THEN RepairCopied(matched) ELSE Repair(matched)
           /\ clobbered' = IF primed = NoPrime /\ carry.row # target THEN clobbered \cup {target + 1} ELSE clobbered
           /\ carry' = Carry(target + 1 + matched, FALSE) /\ target' = target + 1 + matched
           /\ primed' = NoPrime /\ UNCHANGED <<rolls, mark>>
    BY DEF EndWindow
  <1> DEFINE rest == [i \in 1..matched |-> Row(target + 1 + i, target + i)]
  <1>2. matched \in Nat /\ kv.size # 0 /\ StoreType(kv) /\ target <= Len(kv.rows) /\ phase # "turn"
    BY <1>1, DraftNumbers DEF DraftInv, WindowPhase, RowsRight, DraftType
  <1>3. PICK r \in Seq(Nat) : r = rest /\ Len(r) = matched /\ \A i \in 1..matched : r[i] = target + 1 + i
    BY <1>2, AcceptedRows
  <1>4. clobbered \subseteq clobbered'
    BY <1>1
  <1>5. RowsRight' /\ StoreType(kv') /\ position' = target + 1 + matched
    <2>1. CASE primed = NoPrime
      <3>1. position = target
        BY <2>1, <1>2 DEF DraftInv, WindowPhase
      <3>2. PICK h \in Nat : h = Row(target + 1, carry.row)
        BY DraftNumbers DEF Row, Wrong
      <3>3. PICK one \in Seq(Nat) : one = <<h>> /\ Len(one) = 1 /\ one[1] = h
        <4>1. <<h>> \in Seq(Nat) /\ Len(<<h>>) = 1 /\ <<h>>[1] = h
          OBVIOUS
        <4> QED
          BY <4>1
      <3>4. /\ one \o r \in Seq(Nat) /\ Len(one \o r) = Len(one) + Len(r)
            /\ \A i \in 1..Len(one) : (one \o r)[i] = one[i]
            /\ \A i \in 1..Len(r) : (one \o r)[Len(one) + i] = r[i]
        BY JoinFacts
      <3>5. PICK new \in Seq(Nat) : new = one \o r
        BY <3>4
      <3>6. Len(new) = 1 + matched /\ new[1] = h /\ \A i \in 1..matched : new[1 + i] = target + 1 + i
        BY <3>3, <3>4, <3>5, <1>3
      <3>7. \A i \in 1..Len(new) : target + i # target + 1 => new[i] = target + i
        <4> SUFFICES ASSUME NEW i \in 1..1 + matched, target + i # target + 1 PROVE new[i] = target + i
          BY <3>6
        <4>1. i - 1 \in 1..matched /\ i = 1 + (i - 1)
          BY <1>2, DraftNumbers
        <4>2. new[1 + (i - 1)] = target + 1 + (i - 1)
          BY <4>1, <3>6
        <4> QED
          BY <4>1, <4>2, DraftNumbers
      <3>8. new[1] = target + 1 \/ target + 1 \in clobbered'
        BY <2>1, <3>2, <3>6, <1>1, DraftNumbers DEF Row
      <3>9. kv' = WriteKv(kv, target, new) /\ position' = target + 1 + matched
        BY <1>1, <2>1, <3>1, <3>2, <3>3, <3>5, <1>3 DEF RepairCopied
      <3>10. Len(new) = target + 1 + matched - target /\ target \in Nat /\ target # target + 1
        BY SMTT(30), <3>6, <1>2, DraftNumbers
      <3> QED
        BY <3>7, <3>8, <3>9, <3>10, <1>1, <1>2, <1>4, RepairWrites
    <2>2. CASE primed # NoPrime
      <3>1. primed = target /\ Len(kv.rows) = target + Steps /\ kv.rows[target + 1] = target + 1
        BY <2>2, <1>2 DEF DraftInv, WindowPhase, RolledWindow
      <3>2. kv' = WriteKv(kv, target + 1, r) /\ position' = target + 1 + matched
        BY <1>1, <2>2, <3>1, <1>3 DEF Repair
      <3>3. PICK f \in Nat : f = target + 1 /\ f <= Len(kv.rows)
        <4>1. target + 1 \in Nat /\ target + 1 <= target + Steps
          BY DraftNumbers
        <4> QED
          BY <4>1, <3>1
      <3>4. Len(r) = target + 1 + matched - f
        BY <3>3, <1>2, <1>3, DraftNumbers
      <3>5. \A i \in 1..Len(r) : r[i] = f + i
        BY <3>3, <1>3
      <3>6. f # target
        BY <3>3, DraftNumbers
      <3> QED
        BY <3>1, <3>2, <3>3, <3>4, <3>5, <3>6, <1>1, <1>2, <1>4, RepairWrites
    <2> QED
      BY <2>1, <2>2
  <1>6. DraftType'
    <2>1. carry' \in Carries /\ target' \in Nat
      BY SMTT(30), <1>1, <1>2, DraftNumbers DEF Carry, Carries
    <2> QED
      BY <2>1, <1>1, <1>2, <1>5, DraftNumbers DEF DraftInv, DraftType
  <1>7. MarkBehind'
    <2>1. mark.row <= target /\ mark.row \in Nat
      BY DEF DraftInv, MarkBehind, DraftType, Carries
    <2> QED
      BY <2>1, <1>1, <1>2, DraftNumbers DEF MarkBehind
  <1>8. WindowPhase'
    BY <1>1, <1>5 DEF WindowPhase, Carry
  <1> QED
    BY <1>5, <1>6, <1>7, <1>8 DEF DraftInv

(* A commit, a cancel back to it, a restart, and a step that changes nothing. *)
LEMMA ReturnStep ==
    ASSUME DraftAssumption, DraftInv, CommitDraft \/ CancelDraft \/ ResetDraft \/ UNCHANGED draftVars
    PROVE  DraftInv'
  <1>1. CASE CommitDraft
    <2>1. phase = "turn" /\ mark' = Carry(position, FALSE)
          /\ UNCHANGED <<kv, position, rolls, carry, target, phase, rolled, primed, clobbered>>
      BY <1>1 DEF CommitDraft
    <2>2. position = target
      BY <2>1 DEF DraftInv, WindowPhase
    <2>3. mark' \in Carries /\ mark'.row = target
      BY <2>1, <2>2, DraftNumbers DEF Carry, Carries
    <2>4. DraftType' /\ RowsRight'
      BY <2>1, <2>3 DEF DraftInv, DraftType, RowsRight
    <2>5. WindowPhase' /\ MarkBehind'
      <3>1. WindowPhase'
        BY <2>1 DEF DraftInv, WindowPhase, RolledWindow
      <3>2. MarkBehind'
        <4>1. target' = target /\ target <= target
          BY <2>1, DraftNumbers
        <4> QED
          BY <4>1, <2>3 DEF MarkBehind
      <3> QED
        BY <3>1, <3>2
    <2> QED
      BY <2>4, <2>5 DEF DraftInv
  <1>2. ASSUME NEW n \in Nat, n <= target, NEW row \in Carries, row.row = n, Return(n, row),
               UNCHANGED <<kv, rolls>>, mark'.row <= n, mark' \in Carries
        PROVE  DraftInv'
    <2>1. /\ position' = n /\ carry' = row /\ target' = n /\ phase' = "turn" /\ primed' = NoPrime
          /\ clobbered' = {p \in clobbered : p <= n} /\ kv' = kv /\ rolls' = rolls
      BY <1>2 DEF Return
    <2>2. DraftType'
      BY <2>1, <1>2, DraftNumbers DEF DraftInv, DraftType
    <2>3. RowsRight'
      <3>1. target <= Len(kv.rows) /\ (target > 0 => kv.size # 0)
            /\ \A p \in 1..target : kv.rows[p] = p \/ p \in clobbered
        BY DEF DraftInv, RowsRight
      <3>2. \A p \in 1..n : p \in 1..target /\ p <= n
        BY <1>2, DraftNumbers
      <3> QED
        BY <3>1, <3>2, <2>1, <1>2, DraftNumbers DEF RowsRight
    <2>4. MarkBehind' /\ WindowPhase'
      BY <2>1, <1>2 DEF MarkBehind, WindowPhase
    <2> QED
      BY <2>2, <2>3, <2>4 DEF DraftInv
  <1>3. CASE CancelDraft
    <2>1. mark.row \in Nat /\ mark.row <= target /\ mark \in Carries
      BY DEF DraftInv, DraftType, Carries, MarkBehind
    <2> QED
      BY <2>1, <1>2, <1>3 DEF CancelDraft
  <1>4. CASE ResetDraft
    <2>1. Carry(0, FALSE) \in Carries /\ Carry(0, FALSE).row = 0 /\ NoMark = Carry(0, FALSE) /\ 0 <= target /\ 0 \in Nat
      BY DraftNumbers DEF Carry, Carries, NoMark
    <2>2. Return(0, Carry(0, FALSE)) /\ mark' = Carry(0, FALSE) /\ UNCHANGED <<kv, rolls>>
      BY <1>4, <2>1 DEF ResetDraft
    <2>3. PICK c \in Carries : c = Carry(0, FALSE)
      BY <2>1
    <2>4. c.row = 0 /\ Return(0, c) /\ mark'.row <= 0 /\ mark' \in Carries
      <3>1. c.row = 0
        BY <2>1, <2>3
      <3>2. Return(0, c) /\ mark' = c
        BY Zenon, <2>2, <2>3
      <3> QED
        BY <3>1, <3>2
    <2> QED
      BY <2>1, <2>2, <2>4, <1>2
  <1>5. CASE UNCHANGED draftVars
    BY <1>5 DEF draftVars, DraftInv, DraftType, RowsRight, MarkBehind, WindowPhase, RolledWindow
  <1> QED
    BY <1>1, <1>3, <1>4, <1>5

(* Before anything was read there is no store and nothing to be wrong.        *)
LEMMA DraftBegins ==
    ASSUME DraftAssumption, DraftInit
    PROVE  DraftInv
  <1>1. /\ kv = NoStore /\ position = 0 /\ rolls = FreshRolls /\ carry = Carry(0, FALSE) /\ target = 0
        /\ phase = "turn" /\ primed = NoPrime /\ mark = Carry(0, FALSE)
    BY DEF DraftInit, NoMark
  <1>2. Capacity \in Nat \ {0} /\ Steps \in Nat \ {0}
    BY DEF DraftAssumption
  <1>3. StoreType(kv)
    BY <1>1, <1>2 DEF NoStore, StoreType
  <1>4. rolls \in [Kinds -> [warm : Nat, address : {0, 1}]]
    BY <1>1 DEF FreshRolls
  <1>5. DraftType
    BY <1>1, <1>2, <1>3, <1>4 DEF DraftType, Carry, Carries, NoPrime
  <1>6. RowsRight /\ MarkBehind /\ WindowPhase
    BY <1>1 DEF RowsRight, MarkBehind, WindowPhase, Carry, NoStore
  <1> QED
    BY <1>5, <1>6 DEF DraftInv

(* For any context, window, kinds of sampling and warm-up: the draft has the  *)
(* right row for every token the target kept, but for the one whose carry a   *)
(* recorded verify overwrote, and a roll reads those rows in the store that   *)
(* is in use (draft.py, cycle.py).                                            *)
THEOREM DraftFollows == DraftSpec => []RowsFollowTarget
  <1>1. DraftInit => DraftInv
    BY DraftBegins, DraftAssumption
  <1>2. DraftInv /\ [DraftNext]_draftVars => DraftInv'
    <2> SUFFICES ASSUME DraftInv, [DraftNext]_draftVars PROVE DraftInv'
      OBVIOUS
    <2>1. CASE AbsorbSpan
      BY <2>1, AbsorbStep, DraftAssumption
    <2>2. CASE Propose
      BY <2>2, ProposeStep, DraftAssumption
    <2>3. CASE Verify
      BY <2>3, VerifyStep, DraftAssumption
    <2>4. CASE EndWindow
      BY <2>4, EndWindowStep, DraftAssumption
    <2>5. CASE CommitDraft \/ CancelDraft \/ ResetDraft \/ UNCHANGED draftVars
      BY <2>5, ReturnStep, DraftAssumption
    <2> QED
      BY <2>1, <2>2, <2>3, <2>4, <2>5 DEF DraftNext
  <1>3. DraftInv => RowsFollowTarget
    BY DEF DraftInv, RowsRight, WindowPhase, RowsFollowTarget
  <1> QED
    BY <1>1, <1>2, <1>3, PTL DEF DraftSpec

-----------------------------------------------------------------------------
(* The runner's graphs (RunnerGraphs).                                        *)

\* A device state is a record of these fields.
DeviceShape(d) ==
    /\ d = [past |-> d.past, ready |-> d.ready, cut |-> d.cut, before |-> d.before,
            fed |-> d.fed, at |-> d.at, rows |-> d.rows, seen |-> d.seen]
    /\ d.ready \in BOOLEAN /\ d.at \in {0, 1} /\ d.cut \in Nat

SlotType == [warm : Nat, ready : BOOLEAN, at : {0, 1}]

\* A slot that was captured writes to the stash that is there.
BoundSlot(slot) == slot \in SlotType /\ (slot.ready => slot.at = 1 /\ device.at = 1)

\* The slots of verifies and of rewinds; the prefill's graph writes no stash.
BoundSlots ==
    /\ decodes = [b \in Buckets |-> decodes[b]] /\ \A b \in Buckets : BoundSlot(decodes[b])
    /\ rewinds = [k \in 0..Width - 1 |-> rewinds[k]] /\ \A k \in 0..Width - 1 : BoundSlot(rewinds[k])

\* The device is where eager forwards would be, even in what is not read again.
RunnerInv ==
    /\ device = shadow /\ DeviceShape(device) /\ cursor \in Nat
    /\ device.cut # 0 => device.at = 1
    /\ commit.ready \in BOOLEAN /\ commit.length \in Nat
    /\ BoundSlots

LEMMA RunnerNumbers ==
    ASSUME RunnerAssumption
    PROVE  /\ Width \in Nat /\ Stash \in Nat /\ Heads \in Nat /\ ColdRows \in Nat /\ PageRows \in Nat /\ PageCount \in Nat
           /\ Warm \in Nat /\ RunnerRows \in Nat /\ PageRows > 0 /\ PageCount > 0
           /\ 1 < Width /\ Width <= Stash /\ Stash < Heads /\ Heads <= ColdRows
  BY DEF RunnerAssumption

LEMMA TimesGrows ==
    ASSUME NEW a \in Nat, NEW b \in Nat, NEW c \in Nat, a <= b
    PROVE  a * c <= b * c /\ a * c \in Nat /\ b * c \in Nat
  OBVIOUS

(* The bucket has pages for every row the verify may read (_decode_bucket).   *)
LEMMA BucketReaches ==
    ASSUME RunnerAssumption, NEW at \in Nat, at + Width <= PageCount * PageRows
    PROVE  /\ Bucket(at) \in Buckets
           /\ Min({Bucket(at) * PageRows, at + Width}) = Min({PageCount * PageRows, at + Width})
  <1> DEFINE used == (at + Width + PageRows - 1) \div PageRows
             fits == {b \in Buckets : b >= Min({used, PageCount})}
  <1>1. PICK r \in Nat \ {0} : r = PageRows
    BY RunnerNumbers
  <1>2. PICK n \in Nat : n = at + Width
    BY RunnerNumbers
  <1>3. ((n + r - 1) \div r) \in Nat /\ ((n + r - 1) \div r) * r >= n
    OBVIOUS
  <1>4. used = (n + r - 1) \div r
    BY <1>1, <1>2
  <1>5. used \in Nat /\ used * PageRows >= n
    BY <1>1, <1>3, <1>4
  <1> HIDE DEF used
  <1>6. PICK m \in Nat : m = Min({used, PageCount}) /\ (m = used \/ m = PageCount) /\ m <= PageCount
    <2>1. Min({used, PageCount}) = IF used <= PageCount THEN used ELSE PageCount
      BY <1>5, RunnerNumbers, MinOfTwo
    <2> QED
      BY <2>1, <1>5, RunnerNumbers
  <1>7. Buckets \subseteq Nat /\ PageCount \in Buckets
    BY RunnerNumbers DEF Buckets
  <1>8. fits \subseteq Nat /\ PageCount \in fits
    BY <1>6, <1>7, RunnerNumbers
  <1>9. Min(fits) \in fits
    BY <1>8, MinIsLeast
  <1>10. PICK b \in Nat : b = Bucket(at) /\ b \in Buckets /\ b >= m
    BY <1>6, <1>7, <1>9 DEF Bucket, used
  <1>11. b * PageRows >= n
    <2>1. m * PageRows >= n
      BY <1>2, <1>5, <1>6
    <2>2. m * PageRows <= b * PageRows /\ m * PageRows \in Nat /\ b * PageRows \in Nat
      BY <1>10, TimesGrows, RunnerNumbers
    <2> QED
      BY <2>1, <2>2
  <1>12. Min({b * PageRows, n}) = n /\ Min({PageCount * PageRows, n}) = n
    <2>1. PICK x \in Nat : x = b * PageRows
      BY <1>10, TimesGrows, RunnerNumbers
    <2>2. PICK y \in Nat : y = PageCount * PageRows
      BY TimesGrows, RunnerNumbers
    <2>3. Min({x, n}) = IF x <= n THEN x ELSE n
      BY MinOfTwo
    <2>4. Min({y, n}) = IF y <= n THEN y ELSE n
      BY MinOfTwo
    <2> QED
      BY <2>1, <2>2, <2>3, <2>4, <1>2, <1>11
  <1> QED
    BY <1>2, <1>10, <1>12

(* A replayed verify does what the eager one does, if it writes to the stash  *)
(* that is there.                                                             *)
LEMMA VerifyReplays ==
    ASSUME RunnerAssumption, NEW d, DeviceShape(d), d.at = 1, NEW slot, slot.at = 1,
           NEW ids, Len(ids) = Width, NEW at, NEW pool
    PROVE  ReplayedVerify(d, ids, at, pool, slot) = Eager(d, ids, at, pool)
  <1>1. 1 < Len(ids) /\ Len(ids) <= Stash /\ ~(Len(ids) >= Heads)
    BY RunnerNumbers
  <1>2. StashAt(d, Len(ids)) = 1 /\ [d EXCEPT !.at = 1] = d
    BY DEF StashAt, DeviceShape
  <1>3. PICK p, r, c, b, f, w, s :
           /\ d = [past |-> p, ready |-> r, cut |-> c, before |-> b, fed |-> f, at |-> 1, rows |-> w, seen |-> s]
           /\ r \in BOOLEAN
    BY DEF DeviceShape
  <1>7. d.past = p /\ d.ready = r /\ d.cut = c /\ d.fed = f
    BY <1>3
  <1> DEFINE fed == [i \in 1..Stash |-> IF i <= Len(ids) THEN ids[i] ELSE f[i]]
             w2 == PageRowsOf(d, p \o ids, at, Len(ids))
             s2 == Min({pool * PageRows, at + Len(ids)})
             kept == [past |-> p, ready |-> r, cut |-> c, before |-> p, fed |-> fed, at |-> 1, rows |-> w, seen |-> s]
             whole == [past |-> p \o ids, ready |-> r, cut |-> Len(ids), before |-> p, fed |-> fed, at |-> 1,
                       rows |-> w2, seen |-> s2]
  <1>4. Remember(d, ids, 1) = kept
    BY <1>3 DEF Remember
  <1> HIDE DEF fed, w2, s2
  <1>8. PICK k : k = Remember(d, ids, 1)
    OBVIOUS
  <1>5. ReplayedVerify(d, ids, at, pool, slot) = whole
    <2>1. ReplayedVerify(d, ids, at, pool, slot) = [k EXCEPT !.past = p \o ids, !.cut = Len(ids), !.rows = w2, !.seen = s2]
      BY <1>7, <1>8 DEF ReplayedVerify, w2, s2
    <2>2. PICK u : u = ReplayedVerify(d, ids, at, pool, slot)
      OBVIOUS
    <2>3. u = [k EXCEPT !.past = p \o ids, !.cut = Len(ids), !.rows = w2, !.seen = s2]
      BY <2>1, <2>2
    <2>4. k = [past |-> p, ready |-> r, cut |-> c, before |-> p, fed |-> fed, at |-> 1, rows |-> w, seen |-> s]
      BY <1>4, <1>8
    <2>5. u = whole
      BY <2>3, <2>4
    <2> QED
      BY <2>2, <2>5
  <1>6. Eager(d, ids, at, pool) = whole
    <2>1. PICK h : h = [k EXCEPT !.cut = Len(ids)]
      OBVIOUS
    <2>2. Eager(d, ids, at, pool) = [h EXCEPT !.past = p \o ids, !.ready = @ \/ FALSE, !.rows = w2, !.seen = s2]
      BY <1>1, <1>2, <1>7, <1>8, <2>1 DEF Eager, w2, s2
    <2>3. h = [past |-> p, ready |-> r, cut |-> Len(ids), before |-> p, fed |-> fed, at |-> 1, rows |-> w, seen |-> s]
      BY <2>1, <1>4, <1>8
    <2>4. (h.ready \/ FALSE) = r
      BY <2>3, <1>3
    <2>5. PICK u : u = Eager(d, ids, at, pool)
      OBVIOUS
    <2>6. u = [h EXCEPT !.past = p \o ids, !.ready = r, !.rows = w2, !.seen = s2]
      BY <2>2, <2>4, <2>5
    <2>7. u = whole
      BY <2>3, <2>6
    <2> QED
      BY <2>5, <2>7
  <1> QED
    BY <1>5, <1>6

(* A replayed cold prefill does what the eager one does.                      *)
LEMMA PrefillReplays ==
    ASSUME RunnerAssumption, NEW d, DeviceShape(d), ~d.ready, NEW ids, Len(ids) = ColdRows, NEW pool,
           Min({pool * PageRows, Len(ids)}) = Len(ids)
    PROVE  ReplayedPrefill(d, ids) = Eager(d, ids, 0, pool)
  <1>1. ~(Len(ids) <= Stash) /\ Len(ids) >= Heads /\ 0 + Len(ids) = Len(ids)
    BY RunnerNumbers
  <1> DEFINE w == PageRowsOf(d, ids, 0, Len(ids))
  <1>2. ReplayedPrefill(d, ids) = [d EXCEPT !.past = ids, !.ready = TRUE, !.rows = w, !.seen = Len(ids)]
    BY DEF ReplayedPrefill
  <1>3. Eager(d, ids, 0, pool) = [d EXCEPT !.past = ids, !.ready = d.ready \/ TRUE, !.rows = w,
                                            !.seen = Min({pool * PageRows, 0 + Len(ids)})]
    BY <1>1 DEF Eager
  <1> HIDE DEF w
  <1> QED
    BY <1>1, <1>2, <1>3

(* An eager forward leaves a device state behind.                             *)
LEMMA EagerShape ==
    ASSUME RunnerAssumption, NEW d, DeviceShape(d), NEW ids, Len(ids) \in Nat, NEW at, NEW pool,
           d.cut # 0 => d.at = 1
    PROVE  LET e == Eager(d, ids, at, pool) IN
           /\ DeviceShape(e) /\ (e.cut # 0 => e.at = 1) /\ (d.at = 1 => e.at = 1)
           /\ 1 < Len(ids) /\ Len(ids) <= Stash => e.at = 1
  <1>1. PICK p, r, c, b, f, a, w, s :
           /\ d = [past |-> p, ready |-> r, cut |-> c, before |-> b, fed |-> f, at |-> a, rows |-> w, seen |-> s]
           /\ r \in BOOLEAN /\ a \in {0, 1} /\ c \in Nat
    BY DEF DeviceShape
  <1>2. PICK e : e = Eager(d, ids, at, pool)
    OBVIOUS
  <1> DEFINE chunk == Len(ids) >= Heads /\ ~d.ready
             past == IF chunk THEN ids ELSE d.past \o ids
             rows2 == PageRowsOf(d, past, at, Len(ids))
             seen2 == Min({pool * PageRows, at + Len(ids)})
  <1>3. chunk \in BOOLEAN
    OBVIOUS
  <1>4. CASE 1 < Len(ids) /\ Len(ids) <= Stash
    <2>1. StashAt(d, Len(ids)) = 1
      BY <1>1 DEF StashAt
    <2>2. PICK k : k = [d EXCEPT !.at = 1]
      OBVIOUS
    <2>3. k = [past |-> p, ready |-> r, cut |-> c, before |-> b, fed |-> f, at |-> 1, rows |-> w, seen |-> s]
      BY <2>2, <1>1
    <2>4. PICK g : g = [i \in 1..Stash |-> IF i <= Len(ids) THEN ids[i] ELSE k.fed[i]]
      OBVIOUS
    <2>5. PICK m : m = Remember(k, ids, 1)
      OBVIOUS
    <2>6. m = [k EXCEPT !.before = k.past, !.fed = g]
      BY <2>3, <2>4, <2>5 DEF Remember
    <2>7. m = [past |-> p, ready |-> r, cut |-> c, before |-> p, fed |-> g, at |-> 1, rows |-> w, seen |-> s]
      BY <2>3, <2>6
    <2>8. PICK h : h = [m EXCEPT !.cut = Len(ids)]
      OBVIOUS
    <2>9. h = [past |-> p, ready |-> r, cut |-> Len(ids), before |-> p, fed |-> g, at |-> 1, rows |-> w, seen |-> s]
      BY <2>7, <2>8
    <2>10. e = [h EXCEPT !.past = past, !.ready = @ \/ chunk, !.rows = rows2, !.seen = seen2]
      BY <1>2, <1>4, <2>1, <2>2, <2>5, <2>8 DEF Eager
    <2> HIDE DEF chunk, past, rows2, seen2
    <2>11. PICK q \in BOOLEAN : q = (h.ready \/ chunk)
      OBVIOUS
    <2>12. e = [h EXCEPT !.past = past, !.ready = q, !.rows = rows2, !.seen = seen2]
      BY <2>10, <2>11
    <2>13. e = [past |-> past, ready |-> q, cut |-> Len(ids), before |-> p, fed |-> g, at |-> 1, rows |-> rows2, seen |-> seen2]
      BY <2>9, <2>12
    <2> QED
      BY <2>13, <1>2 DEF DeviceShape
  <1>5. CASE ~(1 < Len(ids) /\ Len(ids) <= Stash)
    <2>1. e = [d EXCEPT !.past = past, !.ready = @ \/ chunk, !.rows = rows2, !.seen = seen2]
      BY <1>2, <1>5 DEF Eager
    <2> HIDE DEF chunk, past, rows2, seen2
    <2>2. PICK q \in BOOLEAN : q = (d.ready \/ chunk)
      OBVIOUS
    <2>3. e = [d EXCEPT !.past = past, !.ready = q, !.rows = rows2, !.seen = seen2]
      BY <2>1, <2>2
    <2>4. e = [past |-> past, ready |-> q, cut |-> c, before |-> b, fed |-> f, at |-> a, rows |-> rows2, seen |-> seen2]
      BY <2>3, <1>1
    <2>5. c # 0 => a = 1
      BY <1>1
    <2> QED
      BY <2>4, <2>5, <1>1, <1>2, <1>5 DEF DeviceShape
  <1> QED
    BY <1>4, <1>5

\* Of the pages bound, a forward uses as many as its rows need.
LEMMA PagesAlike ==
    ASSUME NEW d, NEW ids, NEW at, NEW m, NEW n,
           Min({m * PageRows, at + Len(ids)}) = Min({n * PageRows, at + Len(ids)})
    PROVE  Eager(d, ids, at, m) = Eager(d, ids, at, n)
  BY DEF Eager

\* A slot that is warmed up or captured from this state stays a slot of it.
LEMMA SlotMoves ==
    ASSUME RunnerAssumption, NEW slot \in SlotType
    PROVE  /\ Warmed(slot) \in SlotType /\ (Warmed(slot).ready => slot.ready /\ Warmed(slot).at = slot.at)
           /\ \A d : d.at \in {0, 1} => /\ CapturedSlot(d) \in SlotType
                                       /\ CapturedSlot(d).at = d.at
  <1>1. Warm \in Nat
    BY RunnerNumbers
  <1>2. \A d : d.at \in {0, 1} => CapturedSlot(d) \in SlotType /\ CapturedSlot(d).at = d.at
    BY <1>1 DEF CapturedSlot, SlotType
  <1>3. PICK x, y, z : slot = [warm |-> x, ready |-> y, at |-> z] /\ x \in Nat /\ y \in BOOLEAN /\ z \in {0, 1}
    BY DEF SlotType
  <1>4. PICK w : w = Warmed(slot)
    OBVIOUS
  <1>5. w \in SlotType /\ (w.ready => slot.ready /\ w.at = slot.at)
    <2>1. CASE y
      BY <2>1, <1>3, <1>4 DEF Warmed
    <2>2. CASE ~y
      <3>1. w = [slot EXCEPT !.warm = @ + 1]
        BY <2>2, <1>3, <1>4 DEF Warmed
      <3>2. slot.warm = x /\ x + 1 \in Nat
        BY <1>3
      <3>3. w = [slot EXCEPT !.warm = x + 1]
        BY <3>1, <3>2
      <3>4. PICK v \in Nat : v = x + 1
        BY <3>2
      <3>5. w = [warm |-> v, ready |-> y, at |-> z]
        BY <3>3, <3>4, <1>3
      <3> QED
        BY <3>5, <2>2, <1>3 DEF SlotType
    <2> QED
      BY <2>1, <2>2, <1>3
  <1> QED
    BY <1>2, <1>4, <1>5

(* However a forward is run, the device is where the eager one leaves it, and *)
(* what was captured writes to the stash that is there.                       *)
LEMMA ForwardAlike ==
    ASSUME RunnerAssumption, RunnerInv, NEW ids, Len(ids) \in Nat, NEW plain \in BOOLEAN,
           cursor + Len(ids) <= PageCount * PageRows, RunForward(ids, plain), UNCHANGED rewinds
    PROVE  /\ device' = shadow' /\ DeviceShape(device') /\ (device'.cut # 0 => device'.at = 1)
           /\ BoundSlots'
  <1> DEFINE cold   == plain /\ cursor = 0 /\ Len(ids) = ColdRows /\ ~device.ready
             verify == plain /\ Len(ids) = Width /\ device.ready
             bucket == Bucket(cursor)
             eager  == Eager(device, ids, cursor, PageCount)
  <1>1. device = shadow /\ DeviceShape(device) /\ cursor \in Nat /\ BoundSlots
        /\ (device.cut # 0 => device.at = 1) /\ device.at \in {0, 1} /\ device.ready \in BOOLEAN
    BY DEF RunnerInv, DeviceShape
  <1>2. shadow' = eager
    BY <1>1 DEF RunForward
  <1>3. /\ DeviceShape(eager) /\ (eager.cut # 0 => eager.at = 1) /\ (device.at = 1 => eager.at = 1)
        /\ 1 < Len(ids) /\ Len(ids) <= Stash => eager.at = 1
    BY <1>1, EagerShape
  <1>4. eager.at \in {0, 1}
    BY <1>3 DEF DeviceShape
  <1>5. ASSUME device' = eager, UNCHANGED decodes PROVE BoundSlots'
    BY <1>5, <1>1, <1>3 DEF BoundSlots, BoundSlot
  <1>6. CASE cold
    <2>1. Min({PageCount * PageRows, Len(ids)}) = Len(ids)
      <3>1. PICK y \in Nat : y = PageCount * PageRows
        BY TimesGrows, RunnerNumbers
      <3>2. Min({y, Len(ids)}) = IF y <= Len(ids) THEN y ELSE Len(ids)
        BY <3>1, MinOfTwo
      <3> QED
        BY <3>1, <3>2, <1>6
    <2>2. ReplayedPrefill(device, ids) = eager
      BY <2>1, <1>1, <1>6, PrefillReplays
    <2>3. device' = eager /\ UNCHANGED decodes
      BY <2>2, <1>1, <1>6 DEF RunForward, RunnerInv
    <2> QED
      BY <2>3, <1>2, <1>3, <1>5
  <1>7. CASE ~cold /\ verify
    <2>1. bucket \in Buckets /\ Min({bucket * PageRows, cursor + Len(ids)}) = Min({PageCount * PageRows, cursor + Len(ids)})
      BY <1>1, <1>7, BucketReaches
    <2>2. Eager(device, ids, cursor, bucket) = eager
      BY <2>1, PagesAlike
    <2>3. PICK slot : slot = decodes[bucket] /\ BoundSlot(slot)
      BY <2>1, <1>1 DEF BoundSlots
    <2>4. eager.at = 1
      BY <1>3, <1>7, RunnerNumbers
    <2>5. slot.ready => ReplayedVerify(device, ids, cursor, bucket, slot) = eager
      BY <2>2, <2>3, <1>1, <1>7, VerifyReplays DEF BoundSlot
    <2>6. /\ device' = IF slot.ready THEN ReplayedVerify(device, ids, cursor, bucket, slot) ELSE eager
          /\ decodes' = [decodes EXCEPT ![bucket] =
                            IF @.ready THEN @ ELSE IF @.warm >= Warm THEN CapturedSlot(eager) ELSE Warmed(@)]
      <3>1. Eager(device, ids, cursor, IF verify THEN bucket ELSE PageCount) = eager
        BY <2>2, <1>7
      <3> QED
        BY <3>1, <2>2, <2>3, <1>7 DEF RunForward
    <2>7. device' = eager
      BY <2>5, <2>6
    <2>8. ASSUME NEW b \in Buckets PROVE BoundSlot(decodes[b])'
      <3>1. CASE b = bucket
        <4>1. decodes'[b] = IF slot.ready THEN slot ELSE IF slot.warm >= Warm THEN CapturedSlot(eager) ELSE Warmed(slot)
          BY <3>1, <2>1, <2>3, <2>6, <1>1 DEF BoundSlots
        <4>2. slot \in SlotType
          BY <2>3 DEF BoundSlot
        <4>3. CapturedSlot(eager) \in SlotType /\ CapturedSlot(eager).at = 1
              /\ Warmed(slot) \in SlotType /\ (Warmed(slot).ready => slot.ready /\ Warmed(slot).at = slot.at)
          <5> HIDE DEF eager
          <5>1. Warmed(slot) \in SlotType /\ (Warmed(slot).ready => slot.ready /\ Warmed(slot).at = slot.at)
            BY <4>2, SlotMoves
          <5>2. \A d : d.at \in {0, 1} => CapturedSlot(d) \in SlotType /\ CapturedSlot(d).at = d.at
            BY <4>2, SlotMoves
          <5> QED
            BY <5>1, <5>2, <2>4, <1>4
        <4> HIDE DEF eager
        <4> QED
          BY <4>1, <4>2, <4>3, <2>3, <2>4, <2>7 DEF BoundSlot
      <3>2. CASE b # bucket
        <4>1. decodes'[b] = decodes[b]
          BY <3>2, <2>6, <1>1 DEF BoundSlots
        <4> QED
          BY <4>1, <2>4, <2>7, <1>1 DEF BoundSlots, BoundSlot
      <3> QED
        BY <3>1, <3>2
    <2>9. decodes' = [b \in Buckets |-> decodes'[b]]
      BY <2>6, <1>1 DEF BoundSlots
    <2>10. BoundSlots'
      <3>1. \A k \in 0..Width - 1 : BoundSlot(rewinds[k])'
        BY <2>4, <2>7, <1>1 DEF BoundSlots, BoundSlot
      <3> QED
        BY <3>1, <2>8, <2>9, <1>1 DEF BoundSlots
    <2> QED
      BY <2>7, <2>10, <1>2, <1>3
  <1>8. CASE ~cold /\ ~verify
    <2>1. device' = eager /\ UNCHANGED decodes
      BY <1>8 DEF RunForward
    <2> QED
      BY <2>1, <1>2, <1>3, <1>5
  <1> QED
    BY <1>6, <1>7, <1>8

(* A span of the prompt, a close, or a verify.                                *)
LEMMA ForwardsStep ==
    ASSUME RunnerAssumption, RunnerInv, ForwardSpan \/ ForwardWindow
    PROVE  RunnerInv'
  <1>1. PICK n \in Nat, plain \in BOOLEAN :
           /\ Fits(n) /\ RunForward(RowIds(n), plain) /\ cursor' \in {cursor, cursor + n}
           /\ UNCHANGED <<commit, rewinds>>
    <2>1. CASE ForwardSpan
      <3>1. PICK n \in {1, Width, Stash, ColdRows}, plain \in BOOLEAN :
               /\ Fits(n) /\ RunForward(RowIds(n), plain) /\ cursor' = cursor + n
               /\ UNCHANGED <<lastWindow, commit, rewinds>>
        BY <2>1 DEF ForwardSpan
      <3>2. n \in Nat
        BY <3>1, RunnerNumbers
      <3> QED
        BY <3>1, <3>2
    <2>2. CASE ForwardWindow
      <3>1. PICK plain \in BOOLEAN :
               /\ Fits(Width) /\ RunForward(RowIds(Width), plain) /\ UNCHANGED <<cursor, commit, rewinds>>
        BY <2>2 DEF ForwardWindow
      <3> QED
        BY <3>1, RunnerNumbers
    <2> QED
      BY <2>1, <2>2
  <1>2. cursor \in Nat /\ cursor' \in Nat
    BY <1>1 DEF RunnerInv
  <1>3. Len(RowIds(n)) = n
    BY DEF RowIds
  <1>4. cursor + n <= PageCount * PageRows
    <2>1. PICK y \in Nat : y = PageCount * PageRows
      BY TimesGrows, RunnerNumbers
    <2>2. Min({RunnerRows, y}) = IF RunnerRows <= y THEN RunnerRows ELSE y
      BY RunnerNumbers, MinOfTwo
    <2> QED
      BY <2>1, <2>2, <1>1, <1>2, RunnerNumbers DEF Fits
  <1>5. /\ device' = shadow' /\ DeviceShape(device') /\ (device'.cut # 0 => device'.at = 1) /\ BoundSlots'
    BY <1>1, <1>3, <1>4, ForwardAlike
  <1> QED
    BY <1>1, <1>2, <1>5 DEF RunnerInv

\* What a cut and a restart leave of a device state.
LEMMA SpentShape ==
    ASSUME NEW d, DeviceShape(d), NEW past
    PROVE  /\ DeviceShape(Spent(d)) /\ Spent(d).cut = 0 /\ Spent(d).at = d.at
           /\ DeviceShape([Spent(d) EXCEPT !.past = past])
           /\ [Spent(d) EXCEPT !.past = past].cut = 0 /\ [Spent(d) EXCEPT !.past = past].at = d.at
  <1>1. PICK p, r, c, b, f, a, w, s :
           /\ d = [past |-> p, ready |-> r, cut |-> c, before |-> b, fed |-> f, at |-> a, rows |-> w, seen |-> s]
           /\ r \in BOOLEAN /\ a \in {0, 1} /\ c \in Nat
    BY DEF DeviceShape
  <1>2. PICK f0 : f0 = FreshDevice.fed
    OBVIOUS
  <1>3. PICK e : e = Spent(d)
    OBVIOUS
  <1>4. e = [d EXCEPT !.cut = 0, !.before = <<>>, !.fed = f0]
    BY <1>2, <1>3 DEF Spent
  <1>5. e = [past |-> p, ready |-> r, cut |-> 0, before |-> <<>>, fed |-> f0, at |-> a, rows |-> w, seen |-> s]
    BY <1>1, <1>4
  <1>6. PICK g : g = [e EXCEPT !.past = past]
    OBVIOUS
  <1>7. g = [past |-> past, ready |-> r, cut |-> 0, before |-> <<>>, fed |-> f0, at |-> a, rows |-> w, seen |-> s]
    BY <1>5, <1>6
  <1>8. DeviceShape(e) /\ e.cut = 0 /\ e.at = d.at
    BY <1>1, <1>5 DEF DeviceShape
  <1>9. DeviceShape(g) /\ g.cut = 0 /\ g.at = d.at
    BY <1>1, <1>7 DEF DeviceShape
  <1> QED
    BY <1>3, <1>6, <1>8, <1>9

(* A window is cut from the stash it was written to, by whichever graph.      *)
LEMMA KeepStep ==
    ASSUME RunnerAssumption, RunnerInv, KeepWindow
    PROVE  RunnerInv'
  <1>1. PICK keep \in 0..Width :
           /\ device.cut # 0 /\ RewindRecurrent(keep) /\ cursor' = cursor + keep
           /\ UNCHANGED <<commit, decodes, prefills>>
    BY DEF KeepWindow
  <1> DEFINE slot == rewinds[keep]
             graphs == device.cut = Width /\ keep < Width
  <1>2. device = shadow /\ DeviceShape(device) /\ cursor \in Nat /\ BoundSlots /\ device.at = 1
    BY <1>1 DEF RunnerInv
  <1>3. graphs => keep \in 0..Width - 1 /\ BoundSlot(slot)
    BY <1>2, RunnerNumbers DEF BoundSlots
  <1>4. /\ shadow' = Cut(shadow, keep, shadow.at)
        /\ device' = Cut(device, keep, IF graphs /\ slot.ready THEN slot.at ELSE device.at)
        /\ rewinds' = IF ~graphs \/ slot.ready THEN rewinds
                      ELSE [rewinds EXCEPT ![keep] = IF slot.warm >= Warm THEN CapturedSlot(device) ELSE Warmed(slot)]
    BY <1>1 DEF RewindRecurrent
  <1>5. device' = Cut(device, keep, 1) /\ shadow' = device'
    BY <1>2, <1>3, <1>4 DEF BoundSlot
  <1>6. DeviceShape(device') /\ device'.cut = 0 /\ device'.at = 1
    <2>1. device' = Spent(device) \/ \E past : device' = [Spent(device) EXCEPT !.past = past]
      BY <1>5 DEF Cut
    <2>2. CASE device' = Spent(device)
      BY <2>2, <1>2, SpentShape
    <2>3. CASE \E past : device' = [Spent(device) EXCEPT !.past = past]
      <3>1. PICK past : device' = [Spent(device) EXCEPT !.past = past]
        BY <2>3
      <3>2. DeviceShape([Spent(device) EXCEPT !.past = past]) /\ [Spent(device) EXCEPT !.past = past].cut = 0
            /\ [Spent(device) EXCEPT !.past = past].at = device.at
        BY <1>2, SpentShape
      <3> QED
        BY <3>1, <3>2, <1>2
    <2> QED
      BY <2>1, <2>2, <2>3
  <1>7. ASSUME NEW k \in 0..Width - 1 PROVE BoundSlot(rewinds[k])'
    <2>1. BoundSlot(rewinds[k])
      BY <1>2 DEF BoundSlots
    <2>2. CASE rewinds'[k] = rewinds[k]
      BY <2>1, <2>2, <1>6 DEF BoundSlot
    <2>3. CASE rewinds'[k] # rewinds[k]
      <3>1. rewinds'[k] = IF rewinds[k].warm >= Warm THEN CapturedSlot(device) ELSE Warmed(rewinds[k])
        BY <2>3, <1>2, <1>4 DEF BoundSlots
      <3>2. rewinds[k] \in SlotType
        BY <2>1 DEF BoundSlot
      <3>3. Warmed(rewinds[k]) \in SlotType /\ (Warmed(rewinds[k]).ready => Warmed(rewinds[k]).at = rewinds[k].at /\ rewinds[k].ready)
        BY <3>2, SlotMoves
      <3>4. CapturedSlot(device) \in SlotType /\ CapturedSlot(device).at = 1
        <4>1. \A d : d.at \in {0, 1} => CapturedSlot(d) \in SlotType /\ CapturedSlot(d).at = d.at
          BY <3>2, SlotMoves
        <4> QED
          BY <4>1, <1>2
      <3> QED
        BY <2>1, <3>1, <3>3, <3>4, <1>6 DEF BoundSlot
    <2> QED
      BY <2>2, <2>3
  <1>8. rewinds' = [k \in 0..Width - 1 |-> rewinds'[k]]
    BY <1>2, <1>4 DEF BoundSlots
  <1>9. BoundSlots'
    <2>1. \A b \in Buckets : BoundSlot(decodes[b])'
      BY <1>1, <1>2, <1>6 DEF BoundSlots, BoundSlot
    <2> QED
      BY <2>1, <1>1, <1>2, <1>7, <1>8 DEF BoundSlots
  <1>10. cursor' \in Nat
    BY <1>1, <1>2, RunnerNumbers
  <1> QED
    BY <1>1, <1>5, <1>6, <1>9, <1>10 DEF RunnerInv

(* A capture, a restore, a restart; none of them moves the stash.             *)
LEMMA StandStep ==
    ASSUME RunnerAssumption, RunnerInv, CaptureState \/ RestoreState \/ ZeroState \/ UNCHANGED runnerVars
    PROVE  RunnerInv'
  <1>1. device = shadow /\ DeviceShape(device) /\ cursor \in Nat /\ BoundSlots /\ device.ready \in BOOLEAN
    BY DEF RunnerInv, DeviceShape
  <1>2. ASSUME device'.at = device.at, UNCHANGED <<decodes, rewinds>> PROVE BoundSlots'
    BY <1>1, <1>2 DEF BoundSlots, BoundSlot
  <1>3. CASE CaptureState
    <2>1. commit' = [past |-> device.past, ready |-> device.ready, length |-> cursor]
          /\ UNCHANGED <<device, shadow, cursor, decodes, rewinds>>
      BY <1>3 DEF CaptureState
    <2> QED
      BY <2>1, <1>1, <1>2 DEF RunnerInv
  <1>4. PICK p, r, c, b, f, a, w, s :
           /\ Spent(device) = [past |-> p, ready |-> r, cut |-> c, before |-> b, fed |-> f, at |-> a, rows |-> w, seen |-> s]
           /\ c = 0 /\ a = device.at /\ a \in {0, 1} /\ r \in BOOLEAN
    <2>1. DeviceShape(Spent(device)) /\ Spent(device).cut = 0 /\ Spent(device).at = device.at
      BY <1>1, SpentShape
    <2> QED
      BY <2>1 DEF DeviceShape
  <1>5. CASE RestoreState
    <2>1. device' = Restored(device) /\ shadow' = Restored(shadow) /\ cursor' = commit.length
          /\ UNCHANGED <<commit, decodes, prefills, rewinds>>
      BY <1>5 DEF RestoreState
    <2>2. PICK q, t : q = commit.past /\ t = commit.ready /\ t \in BOOLEAN
      BY DEF RunnerInv
    <2>3. PICK k : k = Spent(device)
      OBVIOUS
    <2>4. device' = [k EXCEPT !.past = q, !.ready = t]
      BY <2>1, <2>2, <2>3 DEF Restored
    <2>5. device' = [past |-> q, ready |-> t, cut |-> c, before |-> b, fed |-> f, at |-> a, rows |-> w, seen |-> s]
      <3>1. k = [past |-> p, ready |-> r, cut |-> c, before |-> b, fed |-> f, at |-> a, rows |-> w, seen |-> s]
        BY <2>3, <1>4
      <3> QED
        BY <3>1, <2>4
    <2>6. DeviceShape(device') /\ device'.cut = 0 /\ device'.at = device.at
      BY <2>2, <2>5, <1>4 DEF DeviceShape
    <2>7. device' = shadow' /\ cursor' \in Nat
      BY <2>1, <1>1 DEF RunnerInv
    <2> QED
      BY <2>1, <2>6, <2>7, <1>2 DEF RunnerInv
  <1>6. CASE ZeroState
    <2>1. device' = Rezero(device) /\ shadow' = Rezero(shadow) /\ cursor' = 0 /\ commit' = NoCommit
          /\ UNCHANGED <<decodes, prefills, rewinds>>
      BY <1>6 DEF ZeroState
    <2>2. PICK k : k = Spent(device)
      OBVIOUS
    <2>3. device' = [k EXCEPT !.past = <<>>, !.ready = FALSE, !.rows = <<>>, !.seen = 0]
      BY <2>1, <2>2 DEF Rezero
    <2>4. device' = [past |-> <<>>, ready |-> FALSE, cut |-> c, before |-> b, fed |-> f, at |-> a, rows |-> <<>>, seen |-> 0]
      <3>1. k = [past |-> p, ready |-> r, cut |-> c, before |-> b, fed |-> f, at |-> a, rows |-> w, seen |-> s]
        BY <2>2, <1>4
      <3> QED
        BY <3>1, <2>3
    <2>5. DeviceShape(device') /\ device'.cut = 0 /\ device'.at = device.at
      BY <2>4, <1>4 DEF DeviceShape
    <2>6. device' = shadow' /\ cursor' \in Nat /\ commit'.ready \in BOOLEAN /\ commit'.length \in Nat
      BY <2>1, <1>1 DEF NoCommit
    <2> QED
      BY <2>1, <2>5, <2>6, <1>2 DEF RunnerInv
  <1>7. CASE UNCHANGED runnerVars
    <2>1. UNCHANGED <<device, shadow, cursor, commit, decodes, rewinds>>
      BY <1>7 DEF runnerVars
    <2> QED
      BY <2>1, <1>1, <1>2 DEF RunnerInv
  <1> QED
    BY <1>3, <1>5, <1>6, <1>7

(* A fresh runner has captured nothing.                                       *)
LEMMA RunnerBegins ==
    ASSUME RunnerAssumption, RunnerInit
    PROVE  RunnerInv
  <1>1. device = FreshDevice /\ shadow = FreshDevice /\ cursor = 0 /\ commit = NoCommit
        /\ decodes = [b \in Buckets |-> FreshSlot] /\ rewinds = [k \in 0..Width - 1 |-> FreshSlot]
    BY DEF RunnerInit
  <1>2. DeviceShape(device) /\ device.cut = 0
    BY <1>1 DEF FreshDevice, DeviceShape
  <1>3. BoundSlot(FreshSlot)
    BY DEF FreshSlot, BoundSlot, SlotType
  <1>4. BoundSlots
    BY <1>1, <1>3 DEF BoundSlots
  <1> QED
    BY <1>1, <1>2, <1>4 DEF RunnerInv, NoCommit

(* For any widths, pages and warm-up: no forward, cut, restore or restart     *)
(* tells whether Python ran the layers or a graph that was recorded earlier   *)
(* (resident.py, token.py, projections.py).                                   *)
THEOREM GraphsUnnoticed == RunnerSpec => []GraphsTransparent
  <1>1. RunnerInit => RunnerInv
    BY RunnerBegins, RunnerAssumption
  <1>2. RunnerInv /\ [RunnerNext]_runnerVars => RunnerInv'
    <2> SUFFICES ASSUME RunnerInv, [RunnerNext]_runnerVars PROVE RunnerInv'
      OBVIOUS
    <2>1. CASE ForwardSpan \/ ForwardWindow
      BY <2>1, ForwardsStep, RunnerAssumption
    <2>2. CASE KeepWindow
      BY <2>2, KeepStep, RunnerAssumption
    <2>3. CASE CaptureState \/ RestoreState \/ ZeroState \/ UNCHANGED runnerVars
      BY <2>3, StandStep, RunnerAssumption
    <2> QED
      BY <2>1, <2>2, <2>3 DEF RunnerNext
  <1>3. RunnerInv => GraphsTransparent
    BY DEF RunnerInv, GraphsTransparent
  <1> QED
    BY <1>1, <1>2, <1>3, PTL DEF RunnerSpec

-----------------------------------------------------------------------------
(* The attention adapter (XqaGraphs). No invariant is needed of the kept      *)
(* graphs: whatever is replayed was matched against the live cache in the     *)
(* same call. What has to be known between calls is that a recorded scratch   *)
(* is held, and that a plan is for the total it is kept under.                *)

TableType == table \in Seq(1..CachePages) /\ Len(table) \in 1..CachePages /\ length \in Nat

ScratchInv ==
    /\ scratch = [kept |-> scratch.kept, pinned |-> scratch.pinned, ran |-> scratch.ran, raised |-> FALSE]
    /\ scratch.kept \subseteq Nat /\ scratch.pinned \subseteq scratch.kept
    /\ scratch.ran = TRUE => \E c \in scratch.kept : c >= PrefillRows

PrimsInv ==
    /\ \E k8 : \E q, total, p, l \in Nat :
         /\ prims = [k8 |-> k8, plan |-> [key |-> <<q, total>>, pages |-> p, last |-> l]]
         /\ k8 = <<>> \/ k8 = [i \in 1..Physical |-> k8[i]]
         /\ q > 0 => p = PrimsPages(total) /\ l = PrimsLast(total)

XqaInv == pages = truth /\ reads = TRUE /\ TableType /\ ScratchInv /\ PrimsInv

(* The sizes are natural numbers above zero.                                  *)
LEMMA XqaSizes ==
    ASSUME XqaAssumption
    PROVE  /\ CachePages \in Nat \ {0} /\ RowsPerPage \in Nat \ {0} /\ PrefillRows \in Nat \ {0}
           /\ PrimsRows \in Nat \ {0} /\ PrimsQuery \in Nat \ {0} /\ Physical \in Nat \ {0}
  <1>1. /\ CachePages \in Nat \ {0} /\ RowsPerPage \in Nat \ {0} /\ PrefillRows \in Nat \ {0}
        /\ PrimsRows \in Nat \ {0} /\ PrimsQuery \in Nat \ {0}
    BY DEF XqaAssumption
  <1>2. \A a, b \in Nat \ {0} : a * b \in Nat \ {0}
    OBVIOUS
  <1> QED
    BY <1>1, <1>2 DEF Physical

(* A table is one of the block tables of a job.                               *)
LEMMA TablesAreShort ==
    ASSUME XqaAssumption, NEW t \in Tables
    PROVE  t \in Seq(1..CachePages) /\ Len(t) \in 1..CachePages
  <1>1. PICK w \in 1..CachePages : t \in [1..w -> 1..CachePages]
    BY Zenon DEF Tables
  <1>2. w \in Nat
    BY XqaSizes
  <1> QED
    BY <1>1, <1>2

(* A job's rows fit in the cache.                                             *)
LEMMA JobFits ==
    ASSUME XqaAssumption, TableType, NEW n \in Nat, n <= Len(table) * RowsPerPage
    PROVE  n <= Physical
  <1>1. \A a, b, c \in Nat : a <= b => a * c <= b * c
    OBVIOUS
  <1>2. Len(table) * RowsPerPage <= CachePages * RowsPerPage
    BY <1>1, XqaSizes DEF TableType
  <1>3. Len(table) * RowsPerPage \in Nat /\ CachePages * RowsPerPage \in Nat
    BY SMTT(30), XqaSizes DEF TableType
  <1> QED
    BY <1>2, <1>3 DEF Physical

(* Rows appended again at the same places are only there once: the zero rows  *)
(* of a warm-up are gone when the real ones are appended (xqa.py:447).        *)
LEMMA AppendedOver ==
    ASSUME NEW p, NEW t, NEW at, NEW rows, NEW zeros, Len(zeros) = Len(rows)
    PROVE  AppendRows(AppendRows(p, t, at, zeros), t, at, rows) = AppendRows(p, t, at, rows)
  <1> DEFINE a == AppendRows(p, t, at, zeros)
             Here(page, o) == AppendedAt(t, at, Len(rows), page, o)
             b == AppendRows(a, t, at, rows)
             c == AppendRows(p, t, at, rows)
  <1>0. \A page, o : AppendedAt(t, at, Len(zeros), page, o) = Here(page, o)
    OBVIOUS
  <1>1. /\ b = [page \in 1..CachePages |-> [o \in 1..RowsPerPage |->
                  IF Here(page, o) = {} THEN a[page][o] ELSE rows[CHOOSE i \in Here(page, o) : TRUE]]]
        /\ c = [page \in 1..CachePages |-> [o \in 1..RowsPerPage |->
                  IF Here(page, o) = {} THEN p[page][o] ELSE rows[CHOOSE i \in Here(page, o) : TRUE]]]
        /\ a = [page \in 1..CachePages |-> [o \in 1..RowsPerPage |->
                  IF Here(page, o) = {} THEN p[page][o] ELSE zeros[CHOOSE i \in Here(page, o) : TRUE]]]
    <2>1. AppendRows(p, t, at, zeros) = [page \in 1..CachePages |-> [o \in 1..RowsPerPage |->
                  IF Here(page, o) = {} THEN p[page][o] ELSE zeros[CHOOSE i \in Here(page, o) : TRUE]]]
      <3> DEFINE Own(page, o) == IF AppendedAt(t, at, Len(zeros), page, o) = {} THEN p[page][o]
                                 ELSE zeros[CHOOSE i \in AppendedAt(t, at, Len(zeros), page, o) : TRUE]
                 Same(page, o) == IF Here(page, o) = {} THEN p[page][o] ELSE zeros[CHOOSE i \in Here(page, o) : TRUE]
      <3>1. AppendRows(p, t, at, zeros) = [page \in 1..CachePages |-> [o \in 1..RowsPerPage |-> Own(page, o)]]
        BY Zenon DEF AppendRows
      <3>2. \A page, o : Own(page, o) = Same(page, o)
        OBVIOUS
      <3> HIDE DEF Own, Same
      <3>3. \A page : [o \in 1..RowsPerPage |-> Own(page, o)] = [o \in 1..RowsPerPage |-> Same(page, o)]
        BY <3>2
      <3>4. AppendRows(p, t, at, zeros) = [page \in 1..CachePages |-> [o \in 1..RowsPerPage |-> Same(page, o)]]
        BY <3>1, <3>3
      <3> QED
        BY Zenon, <3>4 DEF Same
    <2> QED
      BY Zenon, <2>1 DEF AppendRows
  <1> HIDE DEF a, b, c, Here
  <1>2. ASSUME NEW page \in 1..CachePages, NEW o \in 1..RowsPerPage, Here(page, o) = {}
        PROVE  a[page][o] = p[page][o]
    BY <1>1, <1>2
  <1>3. b = c
    BY <1>1, <1>2
  <1> QED
    BY <1>3 DEF a, b, c

(* A capture leaves the cache as it found it but for rows that are appended   *)
(* next, and its graph is bound to the cache that is there.                   *)
LEMMA CaptureIsCurrent ==
    ASSUME NEW zeros, NEW g \in CaptureGraph(zeros).graphs
    PROVE  g.epoch = cache.epoch /\ CaptureGraph(zeros).pages = AppendRows(pages, table, length, zeros)
  <1>1. CaptureGraph(zeros).graphs
          = {[bound |-> b, epoch |-> cache.epoch, table |-> table] : b \in {"graph", "failed"}}
    BY DEF CaptureGraph
  <1>2. PICK b \in {"graph", "failed"} : g = [bound |-> b, epoch |-> cache.epoch, table |-> table]
    BY <1>1
  <1>3. CaptureGraph(zeros).pages = AppendRows(pages, table, length, zeros)
    BY DEF CaptureGraph, CaptureTable
  <1> QED
    BY <1>2, <1>3

(* A short query appends its rows once and reads what it should, whichever    *)
(* way it goes (xqa.py:279).                                                  *)
LEMMA ShortQueryOnce ==
    ASSUME XqaAssumption, XqaInv, NEW q \in QueryRows, ShortQuery(q)
    PROVE  pages' = truth' /\ reads' = TRUE /\ length' = length + q
  <1> DEFINE k      == Key(Len(table))
             list   == LayerState(k)
             at     == SelectInSeq(list, LAMBDA s : s.key = k)
             found  == list[at].graphs[q]
             stale  == found.bound # "none" /\ ~Matches(found)
             known  == IF stale THEN NoLayerGraph ELSE found
             calls  == IF stale THEN 0 ELSE list[at].calls[q]
             rows   == [i \in 1..q |-> 1]
             zeros  == [i \in 1..q |-> 0]
             capture == CaptureGraph(zeros)
             Attend(p, t) == reads' = (ReadRows(p, t, length + q) = ReadRows(truth', table, length + q))
             EagerCall(p) == pages' = AppendRows(p, table, length, rows) /\ Attend(pages', table)
             Replay(p, g) == /\ pages' = IF g.epoch = cache.epoch THEN AppendRows(p, table, length, rows) ELSE p
                             /\ Attend(pages', table)
             done == AppendRows(pages, table, length, rows)
  <1>1. /\ truth' = AppendRows(truth, table, length, rows) /\ length' = length + q
        /\ \/ EagerCall(pages)
           \/ \E g \in capture.graphs : EagerCall(capture.pages) \/ Replay(capture.pages, g)
           \/ known.bound # "none" /\ Replay(pages, known)
    BY Zenon DEF ShortQuery, ReplayTable
  <1>2. truth' = done
    BY <1>1 DEF XqaInv
  <1>3. known.bound # "none" => known.epoch = cache.epoch
    <2>1. NoLayerGraph.bound = "none"
      BY DEF NoLayerGraph
    <2> HIDE DEF found
    <2> QED
      BY Zenon, <2>1 DEF Matches
  <1>4. ASSUME NEW g \in capture.graphs
        PROVE  g.epoch = cache.epoch /\ AppendRows(capture.pages, table, length, rows) = done
    <2>1. g.epoch = cache.epoch /\ capture.pages = AppendRows(pages, table, length, zeros)
      BY CaptureIsCurrent
    <2>2. Len(zeros) = Len(rows)
      BY DEF QueryRows
    <2> HIDE DEF rows, zeros, capture
    <2> QED
      BY <2>1, <2>2, AppendedOver DEF done
  <1> HIDE DEF known, capture, rows, done
  <1>5. ASSUME NEW p, AppendRows(p, table, length, rows) = done, EagerCall(p)
        PROVE  pages' = truth' /\ reads' = TRUE
    BY <1>2, <1>5
  <1>6. ASSUME NEW p, NEW g, g.epoch = cache.epoch, AppendRows(p, table, length, rows) = done, Replay(p, g)
        PROVE  pages' = truth' /\ reads' = TRUE
    BY <1>2, <1>6
  <1>7. AppendRows(pages, table, length, rows) = done
    BY DEF done
  <1> HIDE DEF EagerCall, Replay
  <1> QED
    BY <1>1, <1>3, <1>4, <1>5, <1>6, <1>7

-----------------------------------------------------------------------------
(* There is a size for every sequence that the cache has room for, at least   *)
(* as large.                                                                  *)
LEMMA CapacityHolds ==
    ASSUME XqaAssumption, NEW total \in Nat, total <= Physical
    PROVE  ScratchCapacity(total) \in Nat /\ ScratchCapacity(total) >= total
  <1> DEFINE S == {c \in total..Physical : c = Physical \/ \E k \in 0..c : c = 2^k}
  <1>1. Physical \in Nat
    BY XqaSizes
  <1>2. S \subseteq total..Physical /\ Physical \in S
    BY <1>1
  <1> HIDE DEF S
  <1>3. S \subseteq Nat /\ S # {} /\ \A c \in S : c >= total
    BY <1>1, <1>2
  <1>4. Min(S) \in S
    BY <1>3, MinIsLeast
  <1>5. ScratchCapacity(total) = Min(S)
    BY Zenon DEF ScratchCapacity, S
  <1> QED
    BY <1>3, <1>4, <1>5

(* A gather keeps what was recorded, and a prefill that was run before has    *)
(* its buffer when it is recorded (xqa.py:562).                               *)
LEMMA GatherKeeps ==
    ASSUME XqaAssumption, ScratchInv, NEW total \in Nat, NEW capturing \in BOOLEAN,
           total <= Physical \/ \E c \in scratch.kept : c >= total,
           capturing = TRUE => \E c \in scratch.kept : c >= total,
           GatherInto(total, capturing)
    PROVE  ScratchInv'
  <1> DEFINE fits   == {c \in scratch.kept : c >= total}
             cap    == ScratchCapacity(total)
             chosen == IF fits = {} THEN cap ELSE Min(fits)
             kept   == IF fits = {} THEN (scratch.kept \ Dropped(scratch, cap)) \cup {cap} ELSE scratch.kept
             ran    == scratch.ran \/ (length = 0 /\ total = PrefillRows)
             pinned == IF capturing THEN scratch.pinned \cup {chosen} ELSE scratch.pinned
  <1>1. ~ (capturing /\ fits = {})
    OBVIOUS
  <1>2. scratch' = [kept |-> kept, pinned |-> pinned, ran |-> ran, raised |-> FALSE]
    <2>1. scratch' = [scratch EXCEPT !.kept = kept, !.ran = @ \/ (length = 0 /\ total = PrefillRows),
                                     !.pinned = IF capturing THEN @ \cup {chosen} ELSE @]
      BY Zenon, <1>1 DEF GatherInto
    <2>2. PICK a, b, c : scratch = [kept |-> a, pinned |-> b, ran |-> c, raised |-> FALSE]
      BY Zenon DEF ScratchInv
    <2> HIDE DEF kept, chosen
    <2> QED
      BY <2>1, <2>2
  <1>3. scratch'.kept = kept /\ scratch'.pinned = pinned /\ scratch'.ran = ran
    BY <1>2
  <1>4. scratch.kept \subseteq Nat /\ scratch.pinned \subseteq scratch.kept
    BY DEF ScratchInv
  <1>5. fits # {} => Min(fits) \in scratch.kept
    <2>1. fits \subseteq Nat /\ fits \subseteq scratch.kept
      BY <1>4
    <2> HIDE DEF fits
    <2> QED
      BY <2>1, MinIsLeast
  <1>6. fits = {} => cap \in Nat /\ cap >= total
    <2> SUFFICES ASSUME fits = {} PROVE cap \in Nat /\ cap >= total
      OBVIOUS
    <2>1. total <= Physical
      OBVIOUS
    <2> QED
      BY <2>1, CapacityHolds
  <1>7. Dropped(scratch, cap) \subseteq scratch.kept \ scratch.pinned /\ \A c \in Dropped(scratch, cap) : c < cap
    BY DEF Dropped
  <1> HIDE DEF fits, cap
  <1>8. kept \subseteq Nat
    BY <1>4, <1>6
  <1>9. pinned \subseteq kept
    BY <1>4, <1>1, <1>5, <1>7
  <1>10. ran = TRUE => \E c \in kept : c >= PrefillRows
    <2> SUFFICES ASSUME ran = TRUE PROVE \E c \in kept : c >= PrefillRows
      OBVIOUS
    <2>1. CASE scratch.ran = TRUE
      <3>1. PICK c \in scratch.kept : c >= PrefillRows
        BY <2>1 DEF ScratchInv
      <3>2. CASE c \in kept
        BY <3>1, <3>2
      <3>3. CASE c \notin kept
        <4>1. fits = {} /\ c < cap /\ cap \in kept /\ cap \in Nat /\ c \in Nat /\ PrefillRows \in Nat
          BY <3>1, <3>3, <1>4, <1>6, <1>7, XqaSizes
        <4> QED
          BY <4>1, <3>1
      <3> QED
        BY <3>2, <3>3
    <2>2. CASE scratch.ran # TRUE
      <3>1. total = PrefillRows
        BY <2>2
      <3>2. CASE fits = {}
        BY <3>1, <3>2, <1>6
      <3>3. CASE fits # {}
        BY <3>1, <3>3 DEF fits
      <3> QED
        BY <3>2, <3>3
    <2> QED
      BY <2>1, <2>2
  <1> HIDE DEF kept, pinned, ran
  <1> QED
    BY <1>2, <1>3, <1>8, <1>9, <1>10 DEF ScratchInv

(* A plan covers exactly the rows of its total (xqa.py:742).                  *)
LEMMA PlanCovers ==
    ASSUME XqaAssumption, NEW total \in Nat \ {0}
    PROVE  /\ PrimsPages(total) \in Nat /\ PrimsLast(total) \in Nat
           /\ (PrimsPages(total) - 1) * PrimsRows + PrimsLast(total) = total
  <1>1. PICK n \in Nat \ {0} : n = PrimsRows
    BY XqaSizes
  <1>2. PICK m \in Nat : m = total - 1
    OBVIOUS
  <1>3. m = n * (m \div n) + (m % n) /\ m \div n \in Nat /\ m % n \in Nat
    OBVIOUS
  <1>4. (m + n) \div n = (m \div n) + 1
    OBVIOUS
  <1>5. PrimsPages(total) = (m \div n) + 1 /\ PrimsLast(total) = (m % n) + 1
    <2>1. total + n - 1 = m + n
      BY <1>2
    <2> QED
      BY <2>1, <1>1, <1>2, <1>4 DEF PrimsPages, PrimsLast
  <1>6. PICK d \in Nat : d = m \div n
    BY <1>3
  <1>7. PICK r \in Nat : r = m % n
    BY <1>3
  <1>8. ((d + 1) - 1) * n = n * d
    OBVIOUS
  <1> QED
    BY <1>1, <1>2, <1>3, <1>5, <1>6, <1>7, <1>8

(* What the kernel by the plan reads is what was gathered: the pages it       *)
(* touches are written over, behind the rows with zeros (xqa.py:740).         *)
LEMMA RepagedRows ==
    ASSUME XqaAssumption, PrimsInv, NEW rows, NEW total \in Nat \ {0}, total <= Physical,
           rows = [i \in 1..total |-> rows[i]]
    PROVE  /\ Repaged(rows) = [i \in 1..Physical |-> Repaged(rows)[i]]
           /\ SubSeq(Repaged(rows), 1, total) = rows
  <1> DEFINE k8 == IF prims.k8 = <<>> THEN [i \in 1..Physical |-> 0] ELSE prims.k8
             r  == Repaged(rows)
  <1>1. Physical \in Nat \ {0}
    BY XqaSizes
  <1>2. prims.k8 = <<>> \/ prims.k8 = [i \in 1..Physical |-> prims.k8[i]]
    <2>1. PICK old, plan : /\ prims = [k8 |-> old, plan |-> plan]
                           /\ old = <<>> \/ old = [i \in 1..Physical |-> old[i]]
      BY DEF PrimsInv
    <2> QED
      BY <2>1
  <1>3. DOMAIN k8 = 1..Physical
    BY <1>2
  <1>4. r = [i \in DOMAIN k8 |-> IF i <= Len(rows) THEN rows[i]
                                 ELSE IF i <= PrimsPages(Len(rows)) * PrimsRows THEN 0 ELSE k8[i]]
    BY DEF Repaged
  <1> HIDE DEF k8, r
  <1>5. Len(rows) = total
    BY <1>1
  <1>6. r = [i \in 1..Physical |-> r[i]] /\ \A i \in 1..total : r[i] = rows[i]
    BY <1>1, <1>3, <1>4, <1>5
  <1>7. SubSeq(r, 1, total) = rows
    <2> DEFINE S == {r[i] : i \in 1..Physical}
    <2>1. r \in Seq(S) /\ Len(r) = Physical
      <3>1. PICK n \in Nat : n = Physical
        BY <1>1
      <3>2. r \in [1..n -> S]
        <4>1. \A i \in 1..n : r[i] \in S
          BY <3>1
        <4> HIDE DEF S
        <4> QED
          BY <4>1, <3>1, <1>6
      <3> HIDE DEF S
      <3> QED
        BY <3>1, <3>2
    <2>2. SubSeq(r, 1, total) = [i \in 1..total |-> r[i]]
      <3> HIDE DEF S
      <3> QED
        BY <1>1, <2>1
    <2> QED
      BY <2>2, <1>6
  <1> QED
    BY <1>6, <1>7 DEF r

(* A long query appends its rows once and gathers what is there.              *)
LEMMA LongRowsOnce ==
    ASSUME XqaAssumption, XqaInv, NEW q \in 1..Physical, LongRows(q)
    PROVE  /\ pages' = truth' /\ length' = length + q /\ length + q \in Nat \ {0} /\ length + q <= Physical
           /\ table' = table /\ Gathered = AllRows
           /\ Gathered = [i \in 1..length + q |-> Gathered[i]]
  <1>1. PICK rows : pages' = AppendRows(pages, table, length, rows) /\ truth' = AppendRows(truth, table, length, rows)
    BY Zenon DEF LongRows
  <1>2. pages' = truth'
    BY <1>1 DEF XqaInv
  <1>3. length' = length + q /\ table' = table /\ length + q <= Len(table) * RowsPerPage
    BY DEF LongRows
  <1>4. length \in Nat /\ Physical \in Nat /\ TableType
    BY XqaSizes DEF XqaInv, TableType
  <1>5. length + q \in Nat \ {0}
    BY <1>4
  <1>6. length + q <= Physical
    BY <1>3, <1>4, <1>5, JobFits
  <1>7. Gathered = AllRows
    BY <1>2 DEF Gathered, AllRows
  <1>8. Gathered = [i \in 1..length + q |-> pages'[table[PageOf(i)]][OffsetOf(i)]]
    BY Zenon, <1>3 DEF Gathered, ReadRows
  <1>9. Gathered = [i \in 1..length + q |-> Gathered[i]]
    BY <1>8
  <1> QED
    BY <1>2, <1>3, <1>5, <1>6, <1>7, <1>9

-----------------------------------------------------------------------------
LEMMA XqaInvInit ==
    ASSUME XqaAssumption, XqaInit
    PROVE  XqaInv
  <1>1. pages = truth /\ reads = TRUE
    BY DEF XqaInit
  <1>2. TableType
    <2>1. table = <<1>> /\ length = 0 /\ CachePages \in Nat \ {0}
      BY XqaSizes DEF XqaInit
    <2>2. 1 \in 1..CachePages
      BY <2>1
    <2> QED
      BY <2>1, <2>2 DEF TableType
  <1>3. ScratchInv
    BY DEF XqaInit, NoScratch, ScratchInv
  <1>4. PrimsInv
    <2>1. prims = [k8 |-> <<>>, plan |-> [key |-> <<0, 0>>, pages |-> 0, last |-> 0]]
      BY DEF XqaInit, NoPlan
    <2>2. \E k8 : /\ prims = [k8 |-> k8, plan |-> [key |-> <<0, 0>>, pages |-> 0, last |-> 0]]
                  /\ k8 = <<>> \/ k8 = [i \in 1..Physical |-> k8[i]]
      BY Zenon, <2>1
    <2>3. 0 \in Nat /\ ~ (0 > 0)
      OBVIOUS
    <2> QED
      BY Zenon, <2>2, <2>3 DEF PrimsInv
  <1> QED
    BY <1>1, <1>2, <1>3, <1>4 DEF XqaInv

LEMMA QueryKeeps ==
    ASSUME XqaAssumption, XqaInv, Query
    PROVE  XqaInv'
  <1>1. PICK q \in QueryRows : ShortQuery(q) /\ UNCHANGED <<cache, table, scratch, prims>>
    BY Zenon DEF Query
  <1>2. pages' = truth' /\ reads' = TRUE /\ length' = length + q
    BY <1>1, ShortQueryOnce
  <1>3. TableType'
    BY <1>1, <1>2 DEF XqaInv, TableType, QueryRows
  <1>4. ScratchInv' /\ PrimsInv'
    BY <1>1 DEF XqaInv, ScratchInv, PrimsInv
  <1> QED
    BY <1>2, <1>3, <1>4 DEF XqaInv

LEMMA MapJobKeeps ==
    ASSUME XqaAssumption, XqaInv, MapJob
    PROVE  XqaInv'
  <1>1. PICK t \in Tables : table' = t /\ length' \in {0, Len(t) * RowsPerPage - 1}
    BY Zenon DEF MapJob
  <1>2. t \in Seq(1..CachePages) /\ Len(t) \in 1..CachePages
    BY TablesAreShort
  <1>3. Len(t) * RowsPerPage \in Nat \ {0}
    <2>1. \A a, b \in Nat \ {0} : a * b \in Nat \ {0}
      OBVIOUS
    <2> QED
      BY <2>1, <1>2, XqaSizes
  <1>4. TableType'
    BY SMTT(30), <1>1, <1>2, <1>3 DEF TableType
  <1>5. ScratchInv' /\ PrimsInv'
    BY DEF MapJob, XqaInv, ScratchInv, PrimsInv
  <1>6. pages' = truth' /\ reads' = TRUE
    BY DEF MapJob, XqaInv
  <1> QED
    BY <1>4, <1>5, <1>6 DEF XqaInv

LEMMA NewCacheKeeps ==
    ASSUME XqaAssumption, XqaInv, NewCache
    PROVE  XqaInv'
  <1>1. pages' = truth' /\ reads' = TRUE /\ length' = 0 /\ UNCHANGED <<table, scratch, prims>>
    BY DEF NewCache
  <1>2. TableType' /\ ScratchInv' /\ PrimsInv'
    BY <1>1 DEF XqaInv, TableType, ScratchInv, PrimsInv
  <1> QED
    BY <1>1, <1>2 DEF XqaInv

LEMMA FlashPrefillKeeps ==
    ASSUME XqaAssumption, XqaInv, FlashPrefill
    PROVE  XqaInv'
  <1>1. PICK q \in 1..Physical : /\ LongRows(q) /\ GatherInto(length + q, FALSE)
                                 /\ reads' = (Gathered = AllRows) /\ prims' = prims
    BY Zenon DEF FlashPrefill
  <1>2. /\ pages' = truth' /\ length' = length + q /\ length + q \in Nat \ {0} /\ length + q <= Physical
        /\ table' = table /\ Gathered = AllRows
    BY <1>1, LongRowsOnce
  <1>3. reads' = TRUE
    BY <1>1, <1>2
  <1>4. TableType'
    BY <1>2 DEF XqaInv, TableType
  <1>5. ScratchInv'
    BY <1>1, <1>2, GatherKeeps DEF XqaInv
  <1>6. PrimsInv'
    BY <1>1 DEF XqaInv, PrimsInv
  <1> QED
    BY <1>2, <1>3, <1>4, <1>5, <1>6 DEF XqaInv

LEMMA CapturePrefillKeeps ==
    ASSUME XqaAssumption, XqaInv, CapturePrefill
    PROVE  XqaInv'
  <1>1. scratch.ran /\ GatherInto(PrefillRows, TRUE)
        /\ UNCHANGED <<pages, truth, table, length, reads, prims>>
    BY DEF CapturePrefill
  <1>2. scratch.ran = TRUE => \E c \in scratch.kept : c >= PrefillRows
    BY DEF XqaInv, ScratchInv
  <1>3. \E c \in scratch.kept : c >= PrefillRows
    <2>1. PICK a, b, c : scratch = [kept |-> a, pinned |-> b, ran |-> c, raised |-> FALSE]
      BY Zenon DEF XqaInv, ScratchInv
    <2> QED
      BY <1>1, <1>2
  <1>4. ScratchInv'
    BY <1>1, <1>3, GatherKeeps, XqaSizes DEF XqaInv
  <1>5. TableType' /\ PrimsInv' /\ pages' = truth' /\ reads' = TRUE
    BY <1>1 DEF XqaInv, TableType, PrimsInv
  <1> QED
    BY <1>4, <1>5 DEF XqaInv

(* The plan that is kept under the key of this call is for its total.         *)
LEMMA PlanIsOwn ==
    ASSUME XqaAssumption, PrimsInv, NEW q \in Nat \ {0}, NEW total \in Nat
    PROVE  PlanFor(q, total) = [key |-> <<q, total>>, pages |-> PrimsPages(total), last |-> PrimsLast(total)]
  <1>1. PICK k8 : \E a, b, p, l \in Nat :
           /\ prims = [k8 |-> k8, plan |-> [key |-> <<a, b>>, pages |-> p, last |-> l]]
           /\ a > 0 => p = PrimsPages(b) /\ l = PrimsLast(b)
    BY DEF PrimsInv
  <1>2. PICK a, b, p, l \in Nat :
           /\ prims = [k8 |-> k8, plan |-> [key |-> <<a, b>>, pages |-> p, last |-> l]]
           /\ a > 0 => p = PrimsPages(b) /\ l = PrimsLast(b)
    BY <1>1
  <1>3. prims.plan = [key |-> <<a, b>>, pages |-> p, last |-> l] /\ prims.plan.key = <<a, b>>
    BY <1>2
  <1>4. CASE <<a, b>> = <<q, total>>
    <2>1. a = q /\ b = total /\ a > 0
      BY <1>4
    <2> QED
      BY <2>1, <1>2, <1>3 DEF PlanFor, PlanKey
  <1>5. CASE <<a, b>> # <<q, total>>
    BY <1>3, <1>5 DEF PlanFor, PlanKey
  <1> QED
    BY <1>4, <1>5

LEMMA PrimsPrefillKeeps ==
    ASSUME XqaAssumption, XqaInv, PrimsPrefill
    PROVE  XqaInv'
  <1>1. PICK q \in PrimsQuery..Physical :
          /\ LongRows(q) /\ GatherInto(length + q, FALSE)
          /\ prims' = [k8 |-> Repaged(Gathered), plan |-> PlanFor(q, length + q)]
          /\ reads' = (SubSeq(prims'.k8, 1, RowsOfPlan(prims'.plan)) = AllRows /\ prims'.plan.key[1] = q)
    BY Zenon DEF PrimsPrefill
  <1>2. q \in 1..Physical /\ q \in Nat \ {0}
    BY XqaSizes
  <1>3. /\ pages' = truth' /\ length' = length + q /\ length + q \in Nat \ {0} /\ length + q <= Physical
        /\ table' = table /\ Gathered = AllRows /\ Gathered = [i \in 1..length + q |-> Gathered[i]]
    BY <1>1, <1>2, LongRowsOnce
  <1>4. PICK total \in Nat \ {0} : total = length + q
    BY <1>3
  <1>5. PICK rows : rows = Gathered
    OBVIOUS
  <1>6. PICK k8 : k8 = Repaged(rows)
    OBVIOUS
  <1>7. PICK p \in Nat : p = PrimsPages(total)
    BY PlanCovers
  <1>8. PICK l \in Nat : l = PrimsLast(total)
    BY PlanCovers
  <1>9. k8 = [i \in 1..Physical |-> k8[i]] /\ SubSeq(k8, 1, total) = rows
    <2>1. rows = [i \in 1..total |-> rows[i]] /\ total <= Physical /\ PrimsInv
      BY <1>3, <1>4, <1>5 DEF XqaInv
    <2> QED
      BY <2>1, <1>6, RepagedRows
  <1>10. prims' = [k8 |-> k8, plan |-> [key |-> <<q, total>>, pages |-> p, last |-> l]]
    <2>1. PlanFor(q, total) = [key |-> <<q, total>>, pages |-> p, last |-> l]
      BY <1>2, <1>7, <1>8, PlanIsOwn DEF XqaInv
    <2> QED
      BY <2>1, <1>1, <1>4, <1>5, <1>6
  <1>11. PrimsInv'
    <2>1. /\ q > 0 => p = PrimsPages(total) /\ l = PrimsLast(total)
          /\ q \in Nat /\ total \in Nat /\ k8 = [i \in 1..Physical |-> k8[i]]
      BY <1>2, <1>7, <1>8, <1>9
    <2> QED
      BY <2>1, <1>10 DEF PrimsInv, PrimsPages, PrimsLast, Physical
  <1>12. reads' = TRUE
    <2>1. prims'.k8 = k8 /\ prims'.plan.key[1] = q
      BY <1>10
    <2>2. RowsOfPlan(prims'.plan) = (p - 1) * PrimsRows + l
      BY <1>10 DEF RowsOfPlan
    <2>3. RowsOfPlan(prims'.plan) = total
      BY <2>2, <1>7, <1>8, PlanCovers
    <2> QED
      BY <2>1, <2>3, <1>1, <1>3, <1>5, <1>9
  <1>13. TableType'
    BY <1>3 DEF XqaInv, TableType
  <1>14. ScratchInv'
    BY <1>1, <1>3, GatherKeeps DEF XqaInv
  <1> QED
    BY <1>3, <1>11, <1>12, <1>13, <1>14 DEF XqaInv

LEMMA XqaInvNext ==
    ASSUME XqaAssumption, XqaInv, [XqaNext \/ XqaPrefillNext]_xqaVars
    PROVE  XqaInv'
  <1>1. CASE XqaNext
    BY <1>1, QueryKeeps, MapJobKeeps, NewCacheKeeps DEF XqaNext
  <1>2. CASE XqaPrefillNext
    BY <1>2, FlashPrefillKeeps, CapturePrefillKeeps, PrimsPrefillKeeps, MapJobKeeps DEF XqaPrefillNext
  <1>3. CASE UNCHANGED xqaVars
    BY <1>3 DEF xqaVars, XqaInv, TableType, ScratchInv, PrimsInv
  <1> QED
    BY <1>1, <1>2, <1>3

(* However a call goes, its rows are appended exactly once to the live cache, *)
(* its attention reads all of them by a plan for them, and a scratch that a   *)
(* graph recorded is held (xqa.py:279, 447, 562, 742), for any sizes of pages *)
(* and caches, any tables and any order of calls, rebuilt caches and captures.*)
THEOREM RowsAppendedOnce == XqaSpec => []AppendedOnce
  <1>1. XqaInit => XqaInv
    BY XqaAssumption, XqaInvInit
  <1>2. XqaInv /\ [XqaNext \/ XqaPrefillNext]_xqaVars => XqaInv'
    BY XqaAssumption, XqaInvNext
  <1>3. XqaInv => AppendedOnce
    <2> SUFFICES ASSUME XqaInv PROVE AppendedOnce
      OBVIOUS
    <2>1. PICK a, b, c : scratch = [kept |-> a, pinned |-> b, ran |-> c, raised |-> FALSE]
      BY Zenon DEF XqaInv, ScratchInv
    <2> QED
      BY <2>1 DEF XqaInv, ScratchInv, AppendedOnce
  <1> QED
    BY <1>1, <1>2, <1>3, PTL DEF XqaSpec
=============================================================================
