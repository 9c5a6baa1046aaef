---------------------------- MODULE ChildProtocol ----------------------------
(* What the server may rely on when it reads a worker process: for each      *)
(* generation it asked for, the lines are at most one "started", then        *)
(* deltas, then exactly one terminal, and two generations never overlap.     *)
(* Both workers implement it (ResidentWorker, RollbackWorker).               *)
EXTENDS Naturals, Sequences

CONSTANT Ids

VARIABLES asked,    \* generations written to the worker's stdin
          lines     \* lines[i]: what its stdout said of generation i

Ended(i)   == lines[i] # <<>> /\ lines[i][Len(lines[i])] = "terminal"
Working(i) == lines[i] # <<>> /\ ~Ended(i)

Init == asked = {} /\ lines = [i \in Ids |-> <<>>]

Ask(i) == i \notin asked /\ asked' = asked \cup {i} /\ UNCHANGED lines

Say(i, kind) == lines' = [lines EXCEPT ![i] = Append(@, kind)] /\ UNCHANGED asked

Start(i) == /\ i \in asked /\ lines[i] = <<>>
            /\ \A j \in Ids : ~Working(j)
            /\ Say(i, "started")
Delta(i) == Working(i) /\ Say(i, "delta")
End(i)   == i \in asked /\ ~Ended(i) /\ Say(i, "terminal")

Next == \E i \in Ids : Ask(i) \/ Start(i) \/ Delta(i) \/ End(i)

Spec == Init /\ [][Next]_<<asked, lines>>
=============================================================================
