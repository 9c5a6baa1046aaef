---------------------------- MODULE RunnerGraphs ----------------------------
(* engine/forward/resident.py: ModelRunner, with the Gated DeltaNet state of *)
(* token.py and projections.py. A forward is run by Python (eager) or by a   *)
(* CUDA graph that was recorded from an earlier one; a graph writes to the   *)
(* addresses it was recorded with and runs none of the Python beside its     *)
(* kernels. All layers' states move together and are modelled as one. What   *)
(* is computed from tokens is represented by those tokens, and a token by    *)
(* its position.                                                             *)
EXTENDS Naturals, Sequences, FiniteSetsExt

CONSTANTS Width,      \* DRAFT_TOKENS + 1: rows of a verify (7)
          Stash,      \* _STASH: rows a short chunk may have (8)
          Heads,      \* NUM_V_HEADS: from here on the chunk kernel runs (48)
          ColdRows,   \* rows of the graphed cold prefill (255)
          PageRows,   \* PAGE (256)
          PageCount,  \* pages allocated
          Warm,       \* eager runs before a capture (2)
          RunnerRows     \* bound: rows of a session

ASSUME RunnerAssumption ==
    /\ {Width, Stash, Heads, ColdRows, PageRows, PageCount} \subseteq Nat \ {0} /\ Warm \in Nat /\ RunnerRows \in Nat
    /\ 1 < Width /\ Width <= Stash /\ Stash < Heads /\ Heads <= ColdRows

VARIABLES device,     \* the states and pages, with the Python fields beside them
          shadow,     \* history: what they are if every forward is eager
          cursor,     \* tokens that the caller has kept
          lastWindow, \* rows of a verify that is not cut yet
          commit,     \* a state that was captured, or NoCommit
          decodes,    \* _decode_graphs: bucket -> slot
          prefills,   \* _prefill_graphs[255]
          rewinds     \* _rewind_graphs: keep -> slot

runnerVars == <<device, shadow, cursor, lastWindow, commit, decodes, prefills, rewinds>>

\* past: tokens in the recurrent state. cut: _rewind_len, 0 for None. before
\* and fed: the stash, at the address `at` once it is allocated. seen: rows the
\* last attention could read.
FreshDevice == [past |-> <<>>, ready |-> FALSE, cut |-> 0, before |-> <<>>,
                fed |-> [i \in 1..Stash |-> 0], at |-> 0, rows |-> <<>>, seen |-> 0]
FreshSlot == [warm |-> 0, ready |-> FALSE, at |-> 0]
NoCommit  == [past |-> <<>>, ready |-> FALSE, length |-> 0]
Buckets   == {b \in 1..PageCount : b = PageCount \/ \E k \in 0..PageCount : b = 2^k}

RunnerInit == /\ device = FreshDevice /\ shadow = FreshDevice
              /\ cursor = 0 /\ lastWindow = 0 /\ commit = NoCommit
              /\ decodes = [b \in Buckets |-> FreshSlot] /\ prefills = FreshSlot
              /\ rewinds = [k \in 0..Width - 1 |-> FreshSlot]

----
\* Mutant: the stash is allocated anew for a window of another length.
StashAtResized(d, n) == IF d.at = 0 \/ n # d.cut THEN d.at + 1 ELSE d.at

\* _remember_window allocates the stash once, at the widest window.
StashAt(d, n) == IF d.at = 0 THEN 1 ELSE d.at

\* The stash kernels: the state before the chunk and what the chunk fed, at the
\* address the launch was recorded with.
Remember(d, ids, at) ==
    IF at # d.at THEN d
    ELSE [d EXCEPT !.before = d.past, !.fed = [i \in 1..Stash |-> IF i <= Len(ids) THEN ids[i] ELSE d.fed[i]]]

\* The attention pages get the rows of these tokens; what they have behind the
\* cursor is written again before it is read, and left out.
PageRowsOf(d, past, at, n) ==
    [i \in 1..at + n |-> IF i <= at THEN d.rows[i] ELSE SubSeq(past, 1, Len(past) - (at + n - i))]

\* _forward_eager over gdn_forward, at the cursor `at`, with this many pages bound.
Eager(d, ids, at, pages) ==
    LET n     == Len(ids)
        short == 1 < n /\ n <= Stash
        held  == IF short THEN [Remember([d EXCEPT !.at = StashAt(d, n)], ids, StashAt(d, n))
                                EXCEPT !.cut = n] ELSE d
        chunk == n >= Heads /\ ~d.ready
        past  == IF chunk THEN ids ELSE d.past \o ids
    IN  [held EXCEPT !.past = past, !.ready = @ \/ chunk,
                     !.rows = PageRowsOf(d, past, at, n), !.seen = Min({pages * PageRows, at + n})]

\* The kernels of a recorded verify, and the length Python pairs with its stash.
ReplayedVerify(d, ids, at, pages, slot) ==
    LET past == d.past \o ids
    IN  [Remember(d, ids, slot.at) EXCEPT !.past = past, !.cut = Len(ids),
             !.rows = PageRowsOf(d, past, at, Len(ids)), !.seen = Min({pages * PageRows, at + Len(ids)})]

\* The kernels of a recorded cold prefill, and the mark that its state is current.
ReplayedPrefill(d, ids) ==
    [d EXCEPT !.past = ids, !.ready = TRUE, !.rows = PageRowsOf(d, ids, 0, Len(ids)), !.seen = Len(ids)]

\* _decode_bucket.
Bucket(at) ==
    LET used == (at + Width + PageRows - 1) \div PageRows
    IN  Min({b \in Buckets : b >= Min({used, PageCount})})

Warmed(slot) == IF slot.ready THEN slot ELSE [slot EXCEPT !.warm = @ + 1]
CapturedSlot(d)  == [warm |-> Warm, ready |-> TRUE, at |-> d.at]

\* forward, of ids at the cursor. A plain one has neither images nor their
\* rotary positions.
RunForward(ids, plain) ==
    LET at      == cursor
        cold    == plain /\ at = 0 /\ Len(ids) = ColdRows /\ ~device.ready
        verify  == plain /\ Len(ids) = Width /\ device.ready
        bucket  == Bucket(at)
        eager   == Eager(device, ids, at, IF verify THEN bucket ELSE PageCount)
    IN  /\ shadow' = Eager(shadow, ids, at, PageCount)
        /\ IF cold THEN
             /\ device' = IF prefills.ready \/ prefills.warm >= Warm THEN ReplayedPrefill(device, ids) ELSE eager
             /\ prefills' = IF prefills.ready THEN prefills
                            ELSE IF prefills.warm >= Warm THEN CapturedSlot(device) ELSE Warmed(prefills)
             /\ UNCHANGED decodes
           ELSE IF verify THEN
             LET slot == decodes[bucket] IN
             /\ device' = IF slot.ready THEN ReplayedVerify(device, ids, at, bucket, slot) ELSE eager
             /\ decodes' = [decodes EXCEPT ![bucket] =
                                IF @.ready THEN @ ELSE IF @.warm >= Warm THEN CapturedSlot(eager) ELSE Warmed(@)]
             /\ UNCHANGED prefills
           ELSE device' = eager /\ UNCHANGED <<decodes, prefills>>

RowIds(n)  == [i \in 1..n |-> cursor + i]
Fits(n) == cursor + n <= Min({RunnerRows, PageCount * PageRows})

\* A prefill span or the tokens of an injected close: all of them are kept.
ForwardSpan == lastWindow = 0 /\ \E n \in {1, Width, Stash, ColdRows}, plain \in BOOLEAN :
    /\ Fits(n)
    /\ RunForward(RowIds(n), plain) /\ cursor' = cursor + n
    /\ UNCHANGED <<lastWindow, commit, rewinds>>

\* A verify, which is cut to what was accepted before anything else is forwarded.
ForwardWindow == lastWindow = 0 /\ cursor > 0 /\ Fits(Width) /\ \E plain \in BOOLEAN :
    /\ RunForward(RowIds(Width), plain) /\ lastWindow' = Width
    /\ UNCHANGED <<cursor, commit, rewinds>>

----
\* What is left in a stash that nothing pairs with a length.
Spent(d) == [d EXCEPT !.cut = 0, !.before = <<>>, !.fed = FreshDevice.fed]

\* rewind_gdn_state, with the stash at this address.
Cut(d, keep, at) ==
    IF keep = d.cut THEN Spent(d)
    ELSE [Spent(d) EXCEPT !.past = IF at = d.at THEN d.before \o SubSeq(d.fed, 1, keep) ELSE <<>>]

\* rewind_recurrent: one graph for each number of rows kept of a verify.
RewindRecurrent(keep) ==
    LET slot   == rewinds[keep]
        graphs == device.cut = Width /\ keep < Width
    IN  /\ shadow' = Cut(shadow, keep, shadow.at)
        /\ device' = Cut(device, keep, IF graphs /\ slot.ready THEN slot.at ELSE device.at)
        /\ rewinds' = IF ~graphs \/ slot.ready THEN rewinds
                      ELSE [rewinds EXCEPT ![keep] = IF slot.warm >= Warm THEN CapturedSlot(device) ELSE Warmed(slot)]

KeepWindow == lastWindow # 0 /\ \E keep \in 0..Width :
    /\ device.cut # 0 /\ RewindRecurrent(keep)
    /\ cursor' = cursor + keep /\ lastWindow' = 0
    /\ UNCHANGED <<commit, decodes, prefills>>

\* capture, and restore with the pages left as they are.
CaptureState == /\ lastWindow = 0 /\ cursor > 0
                /\ commit' = [past |-> device.past, ready |-> device.ready, length |-> cursor]
                /\ UNCHANGED <<device, shadow, cursor, lastWindow, decodes, prefills, rewinds>>

Restored(d) == [Spent(d) EXCEPT !.past = commit.past, !.ready = commit.ready]
RestoreState == /\ commit # NoCommit
                /\ device' = Restored(device) /\ shadow' = Restored(shadow)
                /\ cursor' = commit.length /\ lastWindow' = 0
                /\ UNCHANGED <<commit, decodes, prefills, rewinds>>

\* rezero zeroes in place: the graphs keep their addresses.
Rezero(d) == [Spent(d) EXCEPT !.past = <<>>, !.ready = FALSE, !.rows = <<>>, !.seen = 0]
ZeroState == /\ cursor > 0
             /\ device' = Rezero(device) /\ shadow' = Rezero(shadow)
             /\ cursor' = 0 /\ lastWindow' = 0 /\ commit' = NoCommit
             /\ UNCHANGED <<decodes, prefills, rewinds>>

RunnerNext == ForwardSpan \/ ForwardWindow \/ KeepWindow \/ CaptureState \/ RestoreState \/ ZeroState

RunnerSpec == RunnerInit /\ [][RunnerNext]_runnerVars

----
Readable(d) == [past |-> d.past, ready |-> d.ready, cut |-> d.cut, rows |-> d.rows, seen |-> d.seen]

(* A graph is never noticed: whatever forwards, cuts, restores and restarts   *)
(* came before, the runner stands where it would stand had every forward been *)
(* run by Python, and its attention reads every row it wrote (resident.py:114,*)
(* projections.py:164: a graph that wrote to a freed stash lost the state).   *)
GraphsTransparent == Readable(device) = Readable(shadow)

(* A suffix forward starts at the committed cursor: the recurrent state has   *)
(* all the tokens that were kept, and no others (resident.py:3).              *)
StartsAtCursor == device.past = [i \in 1..cursor + lastWindow |-> i]
=============================================================================
