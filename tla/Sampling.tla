------------------------------- MODULE Sampling -------------------------------
(* Speculative sampling of one window (engine/forward/sample.py): drafts are  *)
(* rolled or copied, the target judges them row by row, and what is emitted    *)
(* must be distributed as if the target alone had drawn it. A state holds not  *)
(* one outcome but the probability of each: `mass` counts it in units of      *)
(* which Whole make certainty, so that every division below is exact.         *)
(* Temperature and exponential are taken as done: a row is a sequence of      *)
(* weights, of which those past the vocabulary are padding.                   *)
EXTENDS Naturals, Sequences, FiniteSets, FiniteSetsExt, SequencesExt, TLC

CONSTANTS Tokens,      \* the vocabulary, 1..n
          Targets,     \* one row of weights for each place of a window; every cut of a row divides Shares
          Proposers,   \* the same for the drafts, over the rows of the proposer's head
          Padding,     \* the weights of the padded rows of the output head
          Hot,         \* id_map of the proposer's head: the token of each of its rows
          WindowSteps, \* drafts in a window
          Shares,       \* a certainty, in the parts a probability is counted in
          Whole,       \* a certainty, in units of mass
          Samplers     \* [top_k, top_p (in Shares), speculative]

VARIABLES targets, proposer, sampler, judging, copied, mass
samplingVars == <<targets, proposer, sampler, judging, copied, mass>>

PadToken == 0                          \* the -1 behind a rejection
Fresh == [drafted |-> <<>>, samples |-> <<>>]
Total(S, F(_)) == MapThenSumSet(F, S)

SamplingInit ==
    /\ targets \in Targets /\ proposer \in Proposers /\ sampler \in Samplers
    /\ judging = "idle" /\ copied = FALSE /\ mass = (Fresh :> Whole)

(* The row behind a prefix, which depends on its length and its last token.   *)
Turned(row, prefix) ==
    IF prefix = <<>> THEN row
    ELSE [i \in DOMAIN row |-> row[((i + Last(prefix)) % Len(row)) + 1]]
TargetRow(prefix)   == Turned(targets[Len(prefix) + 1], prefix) \o Padding
ProposerRow(prefix) == Turned(proposer[Len(prefix) + 1], prefix)

(* topk: the largest weights first; of equal ones the first.                  *)
Ranked(row) == SetToSortSeq(DOMAIN row, LAMBDA i, j : row[i] > row[j] \/ (row[i] = row[j] /\ i < j))
TopK(row, k) == SubSeq(Ranked(row), 1, Min({k, Len(row)}))
Weight(row, places) == Total(ToSet(places), LAMBDA i : row[i])

\* _nucleus: how many of the top weights are kept, at least one.
Nucleus(row, top, p) ==
    LET below == {n \in DOMAIN top : Weight(row, SubSeq(top, 1, n)) * Shares <= p * Weight(row, top)}
    IN  Max({Cardinality(below), 1})

\* _target_rows: the served distribution of a row, over its places.
ServedRow(row) ==
    LET top  == TopK(row, sampler.top_k)
        kept == SubSeq(top, 1, Nucleus(row, top, sampler.top_p))
    IN  [i \in DOMAIN row |-> IF i \in ToSet(kept) THEN (row[i] * Shares) \div Weight(row, kept) ELSE 0]

\* The padded rows are cut off before anything is chosen.
ServedTarget(prefix) == ServedRow(SubSeq(TargetRow(prefix), 1, Cardinality(Tokens)))

\* DraftCycle._pick: the same transform over the proposer's rows, then the
\* token of each row. Greedy drafts are the first choice for certain.
PickedFrom(prefix) ==
    LET row   == ProposerRow(prefix)
        local == IF sampler.speculative THEN ServedRow(row)
                 ELSE [i \in DOMAIN row |-> IF i = Ranked(row)[1] THEN Shares ELSE 0]
    IN  [t \in Tokens |-> Total({i \in DOMAIN Hot : Hot[i] = t}, LAMBDA i : local[i])]

(* What the verifier is told of the i-th draft: the distribution it was drawn *)
(* from (_unpack), or certainty when it was copied from the prompt.           *)
Proposal(drafted, i) ==
    IF copied THEN [t \in Tokens |-> IF t = drafted[i] THEN Shares ELSE 0]
    ELSE PickedFrom(SubSeq(drafted, 1, i - 1))

----
(* One random step: Branches(w) are the outcomes of world w, with their share. *)
Share(m, part, of) == (m * part) \div of
Branching(Branches(_)) ==
    LET all == UNION {{<<w, b>> : b \in Branches(w)} : w \in DOMAIN mass}
        to  == {x[2].world : x \in all}
    IN  mass' = [v \in to |-> Total({x \in all : x[2].world = v}, LAMBDA x : x[2].share)]
Draws(w, dist, of, m, World(_)) ==
    {[world |-> World(t), share |-> Share(m, dist[t], of)] : t \in {u \in Tokens : dist[u] > 0}}

Rolled == Len((CHOOSE w \in DOMAIN mass : TRUE).drafted)

\* roll: one draft more.
DraftToken ==
    /\ judging = "idle" /\ ~copied /\ Rolled < WindowSteps
    /\ LET Branches(w) == Draws(w, PickedFrom(w.drafted), Shares, mass[w],
                                LAMBDA t : [w EXCEPT !.drafted = Append(@, t)])
       IN  Branching(Branches)
    /\ UNCHANGED <<targets, proposer, sampler, judging, copied>>

\* SuffixIndex.propose gives as many ids as were asked for: some that followed once.
Continuations == [1..WindowSteps -> Tokens]
CopyDrafts ==
    /\ judging = "idle" /\ Rolled = 0
    /\ \E drafted \in Continuations : mass' = ([Fresh EXCEPT !.drafted = drafted] :> Whole)
    /\ copied' = TRUE
    /\ UNCHANGED <<targets, proposer, sampler, judging>>

Judge ==
    /\ judging = "idle" /\ Rolled = WindowSteps
    /\ judging' = IF sampler.speculative THEN "verify" ELSE "sample"
    /\ UNCHANGED <<targets, proposer, sampler, copied, mass>>

Judged(w) == Len(w.samples) = WindowSteps + 1
Given(w) == SubSeq(w.drafted, 1, Len(w.samples))
SampleAs(w, t) == [w EXCEPT !.samples = Append(@, t)]
Rejected(w, t) ==
    [w EXCEPT !.samples = Append(@, t) \o [i \in 1..(WindowSteps - Len(@)) |-> PadToken]]

\* Mutant: a rejected draft is drawn again from the whole row.
ResidualAll(p, q) == p

\* What the target has and the proposal has not.
Residual(p, q) ==
    LET rest == [t \in Tokens |-> IF p[t] > q[t] THEN p[t] - q[t] ELSE 0]
    IN  IF \A t \in Tokens : rest[t] = 0 THEN p ELSE rest

\* speculative_window, one row: keep the draft with probability min(1, p/q), or
\* draw from the residual; behind the last draft, draw from the last row.
JudgeRow ==
    /\ judging = "verify" /\ \E w \in DOMAIN mass : ~Judged(w)
    /\ LET Row(w) ==
             LET i == Len(w.samples) + 1
                 p == ServedTarget(Given(w))
                 q == Proposal(w.drafted, i)
                 d == w.drafted[i]
                 keep == Share(mass[w], Min({p[d], q[d]}), q[d])
                 rest == Residual(p, q)
             IN  IF i > WindowSteps THEN Draws(w, p, Shares, mass[w], LAMBDA t : SampleAs(w, t))
                 ELSE {b \in {[world |-> SampleAs(w, d), share |-> keep]} : keep > 0}
                      \cup (IF keep = mass[w] THEN {}
                            ELSE Draws(w, rest, Total(Tokens, LAMBDA t : rest[t]), mass[w] - keep,
                                       LAMBDA t : Rejected(w, t)))
           Branches(w) == IF Judged(w) THEN {[world |-> w, share |-> mass[w]]} ELSE Row(w)
       IN  Branching(Branches)
    /\ UNCHANGED <<targets, proposer, sampler, judging, copied>>

\* sample_window: every row is drawn, whatever was drafted.
SampleRow ==
    /\ judging = "sample" /\ \E w \in DOMAIN mass : ~Judged(w)
    /\ LET Branches(w) == Draws(w, ServedTarget(Given(w)), Shares, mass[w], LAMBDA t : SampleAs(w, t))
       IN  Branching(Branches)
    /\ UNCHANGED <<targets, proposer, sampler, judging, copied>>

SamplingNext == DraftToken \/ CopyDrafts \/ Judge \/ JudgeRow \/ SampleRow

----
\* emitted_tokens: the drafts that were met, and the sample behind them.
Emitted(w) ==
    LET differ  == {i \in 1..WindowSteps : w.samples[i] # w.drafted[i]}
        matched == IF differ = {} THEN WindowSteps ELSE Min(differ) - 1
    IN  SubSeq(w.samples, 1, matched + 1)

(* Whatever was proposed, by whichever head, the next token of an emission is *)
(* distributed as the target serves it behind what was emitted before it       *)
(* (sample.py:159 "the output keeps the target law").                         *)
TargetLaw ==
    (\A w \in DOMAIN mass : Judged(w)) =>
        LET Said == [w \in DOMAIN mass |-> Emitted(w)]
            MassOf(S) == Total(S, LAMBDA w : mass[w])
            Reached == UNION {{SubSeq(Said[w], 1, n) : n \in 0..(Len(Said[w]) - 1)} : w \in DOMAIN mass}
        IN  /\ MassOf(DOMAIN mass) = Whole
            /\ \A c \in Reached :
                 LET longer == {w \in DOMAIN mass : Len(Said[w]) > Len(c) /\ IsPrefix(c, Said[w])}
                 IN  \A t \in Tokens :
                       MassOf({w \in longer : Said[w][Len(c) + 1] = t}) * Shares
                           = MassOf(longer) * ServedTarget(c)[t]
=============================================================================
