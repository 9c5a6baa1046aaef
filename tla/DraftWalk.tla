------------------------------ MODULE DraftWalk ------------------------------
(* The two fast paths the rollback engine puts into ExLlamaV3's generator:    *)
(* draft_graph.py, the six draft steps as one CUDA graph whose inputs are     *)
(* staged, and rendezvous.py, which samples a whole verify window once and        *)
(* serves its positions to Job.receive_logits by where their logits lie in    *)
(* memory. The generator itself (pages, forwards, the acceptance loop) is     *)
(* external. One job is active at a time.                                     *)
EXTENDS Naturals, Sequences

CONSTANTS WalkTables,    \* bound: block tables of jobs
          BucketPages,   \* pages of a bucket (32)
          MinEager,      \* eager walks before the first capture (2)
          Addresses,     \* where the allocator puts logits
          MaxWidth       \* num_draft_tokens + 1 (7)

ASSUME WalkAssumption ==
    /\ {BucketPages, MaxWidth} \subseteq Nat \ {0} /\ MinEager \in Nat /\ Addresses \subseteq Nat
    /\ WalkTables \subseteq Seq(Nat)

VARIABLES walkJob,    \* the active job: block table, sampler steps and what else it asks
          eagers,     \* stats["eager_verifies"]
          walkGraph,  \* bucket of the captured graph, or 0
          block,      \* static["block"], on the device
          hostPrev,   \* host_block_prev: what was uploaded last
          walked,     \* the block table the last walk ran over
          lastLogits, \* the logits of the last forward: address and width
          stash,      \* _stash: the address range, and whether it is of that forward
          received    \* what receive_logits returned for the positions so far

walkVars == <<walkJob, eagers, walkGraph, block, hostPrev, walked, lastLogits, stash, received>>

\* A job may ask for probabilities, mask its logits, or heal the prompt's end.
Asks == {"nothing", "report", "filter", "healing"}
WalkJobs == [table : WalkTables, steps : {"plain", "penalties"}, asks : Asks]
NoTable == <<0>>
NoStash == [base |-> 0, width |-> 0, fresh |-> FALSE]
NoWindow == [base |-> 0, width |-> 0]

WalkInit == /\ walkJob = [table |-> <<>>, steps |-> "plain", asks |-> "nothing"] /\ eagers = 0 /\ walkGraph = 0
            /\ block = <<>> /\ hostPrev = <<>> /\ walked = NoTable
            /\ lastLogits = NoWindow /\ stash = NoStash /\ received = <<>>

----
\* ceil(max_pages / BUCKET_PAGES) * BUCKET_PAGES
WalkBucket == ((Len(walkJob.table) + BucketPages - 1) \div BucketPages) * BucketPages

\* The block table in a row of a length: zeros behind its pages, of which the
\* kernel reads as many as the position needs.
Padded(table, n) == [i \in 1..n |-> IF i <= Len(table) THEN table[i] ELSE 0]
PagesRead(row)   == SubSeq(row, 1, Len(walkJob.table))

\* _capture: new static and host tables, and nothing uploaded.
WalkCaptured(n) == [block |-> [i \in 1..n |-> 0], prev |-> <<>>]

\* The walk of rendezvous.py: every step is given the job's own table.
EagerWalk == /\ walked' = walkJob.table
             /\ UNCHANGED <<walkGraph, block, hostPrev>>

\* run: _prologue declines, or a warm-up, or capture, staging and replay.
GraphWalk ==
    LET n    == WalkBucket
        new  == walkGraph # n
        row  == Padded(walkJob.table, n)
        from == IF new THEN WalkCaptured(n) ELSE [block |-> block, prev |-> hostPrev]
    IN  \/ /\ new                            \* the capture raises
           /\ walkGraph' = 0 /\ block' = WalkCaptured(n).block /\ hostPrev' = WalkCaptured(n).prev
           /\ walked' = NoTable
        \/ /\ walkGraph' = n
           /\ block' = IF row = from.prev THEN from.block ELSE row
           /\ hostPrev' = row
           /\ walked' = PagesRead(block')

\* _prologue holds when the job has a hidden row and room for six tokens.
Walk == \E prologue \in BOOLEAN :
    /\ walkJob.table # <<>>
    /\ \/ ~prologue /\ EagerWalk /\ UNCHANGED eagers
       \/ prologue /\ eagers < MinEager /\ EagerWalk /\ eagers' = eagers + 1
       \/ prologue /\ eagers >= MinEager /\ GraphWalk /\ UNCHANGED eagers
    /\ UNCHANGED <<walkJob, lastLogits, stash, received>>

\* Another job, or this one's pages and position after a step.
GiveJob == /\ walkJob' \in WalkJobs /\ walked' = NoTable /\ received' = <<>>
           /\ lastLogits' = NoWindow
           /\ UNCHANGED <<eagers, walkGraph, block, hostPrev, stash>>

----
\* Mutant: NEUTRAL or not, penalties do not keep a job out.
QualifyAny(job) == TRUE

\* _qualify: no position's sample depends on what the earlier ones gave, and
\* nothing else is wanted of a position than its token.
Qualify(job) == job.steps = "plain" /\ job.asks = "nothing"

\* _eligible_jobs: all of the batch, here the one active job, or none.
Eligible == Qualify(walkJob)

\* _maybe_stash begins with _stash = None.
NotStashed == NoStash

\* The wrapped model.forward. A verify carries pinned_staging; a draft forward
\* or a prefill does not. The sampling of a window may raise.
Forward(pinned) == \E at \in Addresses, w \in 1..MaxWidth, raises \in BOOLEAN :
    /\ lastLogits' = [base |-> at, width |-> w]
    /\ stash' = IF pinned /\ w >= 2 /\ Eligible /\ ~raises
                THEN [base |-> at, width |-> w, fresh |-> TRUE] ELSE NotStashed
    /\ received' = <<>>
    /\ UNCHANGED <<walkJob, eagers, walkGraph, block, hostPrev, walked>>

\* The model's forward raises before the wrapper sees logits.
ForwardRaises == /\ lastLogits' = NoWindow /\ received' = <<>>
                 /\ stash' = [stash EXCEPT !.fresh = FALSE]
                 /\ UNCHANGED <<walkJob, eagers, walkGraph, block, hostPrev, walked>>

\* _Stash.resolve: the position whose logits begin at an address of the range.
Resolve(address) == IF stash.width > 0 /\ address \in stash.base..(stash.base + stash.width - 1)
                    THEN (address - stash.base) + 1 ELSE 0

\* What a token is of: the forward, its position, the tokens it took account of,
\* and what its sample was asked for besides.
Token(fresh, position, given, asked) ==
    [fresh |-> fresh, position |-> position, given |-> given, asked |-> asked]
Serial(position) ==
    Token(TRUE, position,
          IF walkJob.steps = "plain" /\ walkJob.asks # "filter" THEN 0 ELSE position - 1, walkJob.asks)

\* Job.receive_logits for the next position.
ReceiveLogits ==
    /\ Len(received) < lastLogits.width
    /\ LET position == Len(received) + 1
           resolved == Resolve(lastLogits.base + position - 1)
       IN  received' = Append(received, IF resolved = 0 THEN Serial(position)
                                        ELSE Token(stash.fresh, resolved, 0, "nothing"))
    /\ UNCHANGED <<walkJob, eagers, walkGraph, block, hostPrev, walked, lastLogits, stash>>

WalkNext == Walk \/ GiveJob \/ ForwardRaises \/ ReceiveLogits \/ \E p \in BOOLEAN : Forward(p)

WalkSpec == WalkInit /\ [][WalkNext]_walkVars

----
(* A draft walk runs over the active job's own pages, whatever the bucket     *)
(* captured and the table uploaded before (draft_graph.py:196-204);           *)
(* and every position of a verify is given the token that the stock serial    *)
(* walk would have sampled there: of this forward, of this position, with the *)
(* earlier tokens where a penalty or a mask needs them, and with whatever else *)
(* the job asks of a sample (rendezvous.py:137, 346).                          *)
OwnWindow ==
    /\ walked # NoTable => walked = walkJob.table
    /\ \A i \in 1..Len(received) : received[i] = Serial(i)
=============================================================================
