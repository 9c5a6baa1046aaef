--------------------------- MODULE ResidentSession ---------------------------
(***************************************************************************)
(* The resident engine's cache: `Session.generate` of                      *)
(* engine/forward/session.py with the prefill and the MTP windows of       *)
(* engine/forward/cycle.py.  A prompt reuses what the tape, the attention  *)
(* pages and the recurrent (Gated DeltaNet) state of the runner still hold *)
(* of earlier prompts; where it parts from the tape, the longest shared    *)
(* prefix mark is restored.  A cancelled turn returns to the last commit.  *)
(*                                                                         *)
(* What the device computes from tokens is represented by those tokens:    *)
(* the recurrent state, the rows that a page or the draft's carry holds    *)
(* are the sequence of all tokens they were computed from.                 *)
(*                                                                         *)
(* `cursor`, `committed` and the length of the tape agree whenever         *)
(* generate() is called (prefill() and turn() are called by tests only),   *)
(* so the tape stands for them and the branch of _rewind_to_commit_or_zero *)
(* for committed <= shared < cursor is never taken.                        *)
(***************************************************************************)
EXTENDS Naturals, Sequences, FiniteSetsExt

CONSTANTS
    Tokens,
    ImStart,      \* the token that starts a message
    Stop,         \* the token that ends the answer
    Close,        \* the tokens that close an unfinished reasoning
    None,
    Page,         \* tokens of a page (256)
    Chunk,        \* tokens of a prefill span at most (8192)
    PrefixMarks,  \* marks that are kept (QWARZ_PREFIX_MARKS, 12)
    Steps,        \* tokens drafted for a window (6)
    MaxPrompt,    \* tokens of a prompt (a bound)
    MaxAnswer     \* max_new (a bound)

ASSUME SessionAssumption ==
    /\ ImStart \in Tokens /\ Stop \in Tokens /\ Close \in Seq(Tokens) /\ Close # <<>>
    /\ None \notin Seq(Tokens) \cup [position : Nat, carry : Seq(Tokens) \cup {None}]
                    \cup [ids : Seq(Tokens), max : Nat, todo : SUBSET Nat, at : Nat,
                          produced : Seq(Tokens), closed : BOOLEAN, then : {"window", "inject", "end"}]
    /\ Page \in Nat \ {0} /\ Chunk \in Nat /\ Chunk >= Page /\ PrefixMarks \in Nat /\ Steps \in Nat
    /\ MaxPrompt \in Nat /\ MaxAnswer \in Nat

VARIABLES
    tape,       \* the tokens that the session holds
    snapshot,   \* recurrent state of the last commit, or None
    draftMark,  \* the draft at the last commit, or None
    marks,      \* prefix length -> recurrent state and carry at that prefill cut
    cycle,      \* the draft: its position and its carry, or None
    state,      \* the runner's recurrent state
    pages,      \* the runner's attention pages, one row for each position
    job,        \* the generate() under way, or None
    left,       \* history: marks that a turn left behind which never committed
    misled      \* history: one of them was restored for a prompt it is not of

historyVars == <<left, misled>>
sessionVars == <<tape, snapshot, draftMark, marks, cycle, state, pages, job, left, misled>>

-----------------------------------------------------------------------------
\* A rendered prompt has at least two tokens.
Prompts == UNION {[1..n -> Tokens] : n \in 2..MaxPrompt}

Draft(position, carry) == [position |-> position, carry |-> carry]
NewDraft == Draft(0, None)

Prefix(s, n) == SubSeq(s, 1, n)

\* How many leading tokens two sequences share.
Shared(s, t) == Max({n \in 0..Min({Len(s), Len(t)}) : Prefix(s, n) = Prefix(t, n)})

PageFloor(n) == (n \div Page) * Page

\* suffix_bounds, one turn of its loop: the end of the span that starts at pos.
SpanEnd(pos, seqlen) ==
    LET end == Min({PageFloor(pos + Chunk), seqlen}) IN
    IF pos < PageFloor(seqlen) /\ PageFloor(seqlen) <= end THEN PageFloor(seqlen) ELSE end

\* The ends of its spans; the last token is left out.
SpanEnds(start, length) ==
    LET ends[pos \in 0..length] ==
            IF pos >= length - 1 \/ SpanEnd(pos, length - 1) <= pos THEN {}
            ELSE {SpanEnd(pos, length - 1)} \cup ends[SpanEnd(pos, length - 1)]
    IN ends[start]

\* Page floors of where the second and the last message but one start.
PrefixCuts(ids) ==
    LET starts == {i \in DOMAIN ids : ids[i] = ImStart}
        nth(n) == CHOOSE i \in starts : Cardinality({j \in starts : j < i}) = n
        count  == Cardinality(starts)
    IN {PageFloor(nth(n) - 1) : n \in (IF count >= 2 THEN {1} ELSE {})
                                      \cup (IF count >= 3 THEN {count - 2} ELSE {})} \ {0}

\* Prefill ends of ids from start on, split at the cuts.
Ends(ids, start) ==
    SpanEnds(start, Len(ids)) \cup {c \in PrefixCuts(ids) : start < c /\ c < Len(ids) - 1}

Job(ids, max, at) ==
    [ids |-> ids, max |-> max, todo |-> Ends(ids, at), at |-> at,
     produced |-> <<>>, closed |-> FALSE, then |-> "window"]

\* The tokens of a turn so far; those up to at are in the cache, one is held.
Line(j) == j.ids \o j.produced
Held(j) == Line(j)[j.at + 1]

Init ==
    /\ tape = <<>> /\ snapshot = None /\ draftMark = None
    /\ marks = [n \in {} |-> None]
    /\ cycle = None
    /\ state = <<>> /\ pages = <<>>
    /\ job = None
    /\ left = {} /\ misled = FALSE

-----------------------------------------------------------------------------
\* generate(), up to its prefill: where the prompt's prefix comes from.

\* The draft follows the tape; without it the tape is of no use.
Resumable == tape = <<>> \/ (cycle # None /\ cycle.position = Len(tape))

\* Marks of the shared prefix, the prompt's last token apart.
Usable(ids) ==
    IF cycle = None THEN {}
    ELSE {n \in DOMAIN marks : /\ n <= Shared(tape, ids) /\ n < Len(ids)
                               /\ n <= cycle.position}

\* The history of a mark's restoration; no step reads it.  A mark that a
\* cancelled turn left misleads when the tape has other tokens by now.
Restored(best) ==
    /\ left' = left \cap 1..best
    /\ misled' = (misled \/ (best \in left /\ marks[best].state # Prefix(tape, best)))

\* _zero
Forget ==
    /\ tape' = <<>> /\ snapshot' = None /\ draftMark' = None
    /\ marks' = [n \in {} |-> None]
    /\ state' = <<>> /\ pages' = <<>>
    /\ left' = {} /\ misled' = FALSE

\* The prompt continues the tape.
Continue(ids, max) ==
    /\ job = None
    /\ Shared(tape, ids) = Len(tape)
    /\ Resumable
    /\ cycle' = IF tape = <<>> THEN NewDraft ELSE cycle
    /\ job' = Job(ids, max, Len(tape))
    /\ UNCHANGED <<tape, snapshot, draftMark, marks, state, pages, historyVars>>

\* Mutant: marks past the restored one stay.
RestoreMarkOnly(ids, max) ==
    /\ job = None
    /\ Shared(tape, ids) < Len(tape)
    /\ Usable(ids) # {}
    /\ LET best == Max(Usable(ids)) IN
       /\ state' = marks[best].state
       /\ snapshot' = marks[best].state
       /\ tape' = Prefix(tape, best)
       /\ cycle' = Draft(best, marks[best].carry)
       /\ draftMark' = cycle'
       /\ job' = Job(ids, max, best)
       /\ Restored(best)
    /\ UNCHANGED <<marks, pages>>

\* Mutant: the draft's carry is not restored.
RestoreMarkCarryKept(ids, max) ==
    /\ job = None
    /\ Shared(tape, ids) < Len(tape)
    /\ Usable(ids) # {}
    /\ LET best == Max(Usable(ids)) IN
       /\ state' = marks[best].state
       /\ snapshot' = marks[best].state
       /\ tape' = Prefix(tape, best)
       /\ cycle' = Draft(best, cycle.carry)
       /\ draftMark' = cycle'
       /\ marks' = [n \in {m \in DOMAIN marks : m <= best} |-> marks[n]]
       /\ job' = Job(ids, max, best)
       /\ Restored(best)
    /\ UNCHANGED pages

\* It parts from the tape: the longest shared mark is restored ...
RestoreMark(ids, max) ==
    /\ job = None
    /\ Shared(tape, ids) < Len(tape)
    /\ Usable(ids) # {}
    /\ LET best == Max(Usable(ids)) IN
       /\ state' = marks[best].state
       /\ snapshot' = marks[best].state
       /\ tape' = Prefix(tape, best)
       /\ cycle' = Draft(best, marks[best].carry)
       /\ draftMark' = cycle'
       /\ marks' = [n \in {m \in DOMAIN marks : m <= best} |-> marks[n]]
       /\ job' = Job(ids, max, best)
       /\ Restored(best)
    /\ UNCHANGED pages

\* ... or there is none, and it is prefilled from zero.
StartOver(ids, max) ==
    /\ job = None
    /\ IF Shared(tape, ids) = Len(tape) THEN ~Resumable ELSE Usable(ids) = {}
    /\ Forget
    /\ cycle' = NewDraft
    /\ job' = Job(ids, max, 0)

-----------------------------------------------------------------------------
\* Prefill and windows.

\* runner.forward writes rows behind the cache; of those only the ones of
\* these tokens are kept, by rewind_recurrent in a window.
Forward(tokens, rows) ==
    /\ state' = state \o tokens
    /\ pages' = [i \in 1..Max({Len(pages), job.at + rows}) |->
                   CASE i \in job.at + 1 .. job.at + Len(tokens) -> Prefix(state', Len(state) + i - job.at)
                     [] i \in job.at + Len(tokens) + 1 .. job.at + rows -> None
                     [] OTHER -> pages[i]]

\* The draft has read the same tokens, and carries the last row.
Absorb(tokens) == cycle' = Draft(cycle.position + Len(tokens), state')

\* The inner mark whose removal leaves the smallest gap.
Victim ==
    LET gap(n) == Min({m \in DOMAIN marks : m > n}) - Max({m \in DOMAIN marks : m < n})
        inner  == DOMAIN marks \ {Min(DOMAIN marks), Max(DOMAIN marks)}
    IN CHOOSE n \in inner : \A m \in inner : gap(n) < gap(m) \/ (gap(n) = gap(m) /\ n <= m)

\* capture_host: a copy of the state behind the span, with the draft's carry.
NewMark == [state |-> state', carry |-> cycle'.carry]

\* Mutant: a full pool grows instead of giving up a victim.
OnSpanGrows(end) ==
    marks' = IF PrefixMarks = 0 \/ end \in DOMAIN marks THEN marks
             ELSE [n \in DOMAIN marks \cup {end} |-> IF n = end THEN NewMark ELSE marks[n]]

\* _on_span: marks a cut whose state and carry are complete.
OnSpan(end) ==
    LET with(keep) == [n \in keep \cup {end} |-> IF n = end THEN NewMark ELSE marks[n]]
    IN marks' = IF PrefixMarks = 0 \/ end \in DOMAIN marks THEN marks
                ELSE IF Cardinality(DOMAIN marks) < PrefixMarks THEN with(DOMAIN marks)
                ELSE IF Cardinality(DOMAIN marks) < 3 THEN marks
                ELSE with(DOMAIN marks \ {Victim})

\* prefill_held, one span of it.
Span ==
    /\ job # None
    /\ job.todo # {}
    /\ LET end  == Min(job.todo)
           span == SubSeq(job.ids, job.at + 1, end)
       IN /\ Forward(span, Len(span))
          /\ Absorb(span)
          /\ OnSpan(end)
          /\ job' = [job EXCEPT !.at = end, !.todo = @ \ {end}]
    /\ left' = left \cap DOMAIN marks'
    /\ UNCHANGED <<tape, snapshot, draftMark, misled>>

\* One token of the turn is held out of the cache.
Prefilled == job # None /\ job.todo = {} /\ job.at = Len(Line(job)) - 1

\* A window: what the target samples is emitted, up to the answer's room and
\* to a stop token; the cache is cut back to the tokens before the new held
\* one.  on_accepted may then want the reasoning closed, once in a turn.
Window(emitted, close) ==
    /\ Prefilled /\ job.then = "window"
    /\ Len(emitted) <= job.max - Len(job.produced)
    /\ \A i \in 1..Len(emitted) - 1 : emitted[i] # Stop
    /\ close => ~job.closed
    /\ LET body     == <<Held(job)>> \o Prefix(emitted, Len(emitted) - 1)
           produced == job.produced \o emitted
           ended    == emitted[Len(emitted)] = Stop \/ Len(produced) >= job.max
       IN /\ Forward(body, Steps + 1)
          /\ Absorb(body)
          /\ job' = [job EXCEPT !.at = @ + Len(body), !.produced = produced,
                                !.then = IF close THEN "inject" ELSE IF ended THEN "end" ELSE "window"]
    /\ UNCHANGED <<tape, snapshot, draftMark, marks, historyVars>>

\* _apply_inject: a stop token is dropped and the reasoning closed instead.
Inject ==
    /\ Prefilled /\ job.then = "inject"
    /\ LET drop     == Held(job) = Stop
           body     == (IF drop THEN <<>> ELSE <<Held(job)>>) \o Prefix(Close, Len(Close) - 1)
           produced == Prefix(job.produced, Len(job.produced) - (IF drop THEN 1 ELSE 0)) \o Close
       IN /\ Forward(body, Len(body))
          /\ Absorb(body)
          /\ job' = [job EXCEPT !.at = @ + Len(body), !.produced = produced, !.closed = TRUE,
                                !.then = IF Len(produced) >= job.max THEN "end" ELSE "window"]
    /\ UNCHANGED <<tape, snapshot, draftMark, marks, historyVars>>

-----------------------------------------------------------------------------
\* The end of a turn.

\* Mutant: the held token counts as cached.
CommitWhole ==
    /\ Prefilled /\ job.then = "end"
    /\ tape' = Line(job)
    /\ snapshot' = state
    /\ draftMark' = cycle
    /\ job' = None
    /\ UNCHANGED <<marks, cycle, state, pages, historyVars>>

\* commit
Commit ==
    /\ Prefilled /\ job.then = "end"
    /\ tape' = Prefix(Line(job), job.at)
    /\ snapshot' = state
    /\ draftMark' = cycle
    /\ job' = None
    /\ UNCHANGED <<marks, cycle, state, pages, historyVars>>

\* Mutant: the recurrent state stays where the cancelled turn left it.
RestoreStateKept ==
    /\ job' = None
    /\ IF snapshot = None THEN Forget /\ cycle' = None
       ELSE /\ cycle' = draftMark
            /\ left' = left \cup {n \in DOMAIN marks : n > Len(tape)}
            /\ UNCHANGED <<tape, state, snapshot, draftMark, marks, pages, misled>>

\* Mutant: the draft stays where the cancelled turn left it.
RestoreDraftKept ==
    /\ job' = None
    /\ IF snapshot = None THEN Forget /\ cycle' = None
       ELSE /\ state' = snapshot
            /\ left' = left \cup {n \in DOMAIN marks : n > Len(tape)}
            /\ UNCHANGED <<tape, snapshot, draftMark, marks, cycle, pages, misled>>

\* cancel: back to the last commit, or to nothing.
Restore ==
    /\ job' = None
    /\ IF snapshot = None THEN Forget /\ cycle' = None
       ELSE /\ state' = snapshot
            /\ cycle' = IF \/ draftMark = None
                           \/ draftMark.position > cycle.position
                           \/ draftMark.position # Len(tape)
                        THEN None ELSE draftMark
            /\ left' = left \cup {n \in DOMAIN marks : n > Len(tape)}
            /\ UNCHANGED <<tape, snapshot, draftMark, marks, pages, misled>>

\* The cancel flag is read before and after every window and at the end.
Cancelled ==
    /\ Prefilled
    /\ Restore

\* ValueError: "MTP prefill needs a held token after at least one token".
Refused ==
    /\ job # None /\ job.todo = {} /\ ~Prefilled
    /\ Restore

Answers == UNION {[1..n -> Tokens] : n \in 1..Steps + 1}

Next ==
    \/ \E ids \in Prompts, max \in 1..MaxAnswer :
          Continue(ids, max) \/ RestoreMark(ids, max) \/ StartOver(ids, max)
    \/ Span
    \/ \E emitted \in Answers, close \in BOOLEAN : Window(emitted, close)
    \/ Inject \/ Commit \/ Cancelled \/ Refused

Spec == Init /\ [][Next]_sessionVars

-----------------------------------------------------------------------------
Rows == UNION {[1..n -> Tokens] : n \in 0..MaxPrompt + MaxAnswer + Len(Close)}
Drafts == [position : 0..MaxPrompt + MaxAnswer + Len(Close), carry : Rows \cup {None}]

\* Every variable has its type.
TypeOK ==
    /\ tape \in Rows
    /\ snapshot \in Rows \cup {None}
    /\ draftMark \in Drafts \cup {None}
    /\ \A n \in DOMAIN marks : n \in 1..MaxPrompt /\ marks[n].state \in Rows /\ marks[n].carry \in Rows
    /\ cycle \in Drafts \cup {None}
    /\ state \in Rows
    /\ \A i \in DOMAIN pages : pages[i] \in Rows \cup {None}
    /\ job = None \/ /\ job.ids \in Prompts /\ job.produced \in Rows
                     /\ job.todo \subseteq job.at + 1 .. Len(job.ids) - 1
    /\ left \subseteq DOMAIN marks /\ misled \in BOOLEAN

\* The recurrent state and every attention page in use are those of the
\* tokens of this turn.
StateOfTurn ==
    job # None =>
        /\ state = Prefix(Line(job), job.at)
        /\ \A i \in 1..job.at : pages[i] = Prefix(Line(job), i)

\* A generation is computed from its own prompt and output and nothing else,
\* whatever was cached, restored, refused or cancelled before, unless a mark
\* of other tokens, left by a cancelled turn beyond its commit, was restored
\* since the session was last empty: there is no second way to go wrong.
OwnState == ~misled => StateOfTurn

\* With the same exception, the runner stands between turns exactly where the
\* tape ends, so that the next prompt may continue it without a forward; and
\* without exception it never holds more than PREFIX_MARKS marks, whose
\* buffers are reused.
RestsOnTape ==
    /\ Cardinality(DOMAIN marks) <= PrefixMarks
    /\ ~misled /\ job = None =>
          /\ state = tape
          /\ \A i \in DOMAIN tape : pages[i] = Prefix(tape, i)

\* With the same exception, the draft never leaves the target: it has read the
\* same tokens and carries the row of the last one (the code raises "draft
\* cache ... diverged").
DraftInStep ==
    ~misled =>
        /\ job # None => cycle.position = job.at /\ (job.at > 0 => cycle.carry = Prefix(Line(job), job.at))
        /\ job = None /\ tape # <<>> => cycle = Draft(Len(tape), tape)

\* test_an_identical_prompt_resumes_at_its_held_token: a prompt that needs no
\* prefill any more has its last token left for the first window.
HeldTokenLeft == job # None /\ job.todo = {} => job.at = Len(Line(job)) - 1
=============================================================================
