------------------------------ MODULE XqaGraphs ------------------------------
(* src/qwasar_runtime/xqa.py: NVFP4AttentionAdapter, which owns the append   *)
(* of new rows to a layer's paged cache and the attention over it. Short     *)
(* queries become CUDA graphs bound to the cache's tensors; queries, lengths *)
(* and the page table are staged. One layer is modelled; the other layers    *)
(* have states and graphs of their own. Long queries gather into scratch     *)
(* buffers, of which a graph outside (ModelRunner's prefill) may record one; *)
(* the longest are repaged from there for a kernel that runs by a kept plan. *)
EXTENDS Naturals, Sequences, SequencesExt, FiniteSetsExt

CONSTANTS CachePages,    \* physical pages of the cache
          RowsPerPage,   \* DONOR_PAGE_SIZE (256)
          CacheIds,      \* what id() may return
          MaxStates,     \* layer states kept (256)
          Warmups,       \* XQA_GRAPH_WARMUPS (3)
          PrefillRows,   \* rows of the prefill that may be recorded (255)
          PrimsRows,     \* rows of a page of the PRIMS kernel (128)
          PrimsQuery,    \* PRIMS_MIN_QUERY (8192)
          MaxEpoch       \* bound: caches rebuilt

ASSUME XqaAssumption ==
    /\ {CachePages, RowsPerPage, MaxStates, Warmups, PrefillRows, PrimsRows, PrimsQuery} \subseteq Nat \ {0} /\ MaxEpoch \in Nat

VARIABLES cache,      \* the cache tensors: id() and which ones they are
          pages,      \* rows of every physical page; 0 is a zero row
          truth,      \* history: the pages if every call appended by itself
          table,      \* the job's block table
          length,     \* cache_seqlens
          states,     \* layer_states in their order: key, calls and graph
          reads,      \* whether the last call attended over the rows it should
          scratch,    \* capacities kept and pinned, whether that prefill was run before, and a raise
          prims       \* device_state's k8 and the plan of its kernel

xqaVars == <<cache, pages, truth, table, length, states, reads, scratch, prims>>

QueryRows == 1..2    \* rows of a short query; bound: as many as tell graphs apart
NoLayerGraph == [bound |-> "none", epoch |-> 0, table |-> <<>>]
Empty == [p \in 1..CachePages |-> [o \in 1..RowsPerPage |-> 0]]
Tables == {t \in UNION {[1..w -> 1..CachePages] : w \in 1..CachePages} : IsInjective(t)}
NoScratch == [kept |-> {}, pinned |-> {}, ran |-> FALSE, raised |-> FALSE]
NoPlan == [key |-> <<0, 0>>, pages |-> 0, last |-> 0]

XqaInit == /\ cache = [id |-> 1, epoch |-> 0] /\ pages = Empty /\ truth = Empty
           /\ table = <<1>> /\ length = 0 /\ states = <<>>
           /\ reads = TRUE /\ scratch = NoScratch
           /\ prims = [k8 |-> <<>>, plan |-> NoPlan]

----
PageOf(position)   == ((position - 1) \div RowsPerPage) + 1
OffsetOf(position) == ((position - 1) % RowsPerPage) + 1

\* _append: rows at the tail of the sequence, each in its place of its page.
AppendedAt(t, at, n, page, o) == {i \in 1..n : t[PageOf(at + i)] = page /\ OffsetOf(at + i) = o}
AppendRows(p, t, at, rows) ==
    [page \in 1..CachePages |-> [o \in 1..RowsPerPage |->
        LET here == AppendedAt(t, at, Len(rows), page, o)
        IN  IF here = {} THEN p[page][o] ELSE rows[CHOOSE i \in here : TRUE]]]
ReadRows(p, t, n) == [i \in 1..n |-> p[t[PageOf(i)]][OffsetOf(i)]]

Key(w) == <<cache.id, w>>
StateAt(k) == SelectInSeq(states, LAMBDA s : s.key = k)

\* _layer_state: the oldest one goes when there are too many.
LayerState(k) ==
    IF StateAt(k) # 0 THEN states
    ELSE Append(IF Len(states) >= MaxStates THEN Tail(states) ELSE states,
                [key |-> k, calls |-> [q \in QueryRows |-> 0],
                 graphs |-> [q \in QueryRows |-> NoLayerGraph]])

\* _XqaGraph.matches: its weak references lead to these very tensors.
Matches(g) == g.bound = "graph" /\ g.epoch = cache.epoch

\* The table that the warm-up of a capture appends its zero rows through.
CaptureTable(t) == t

\* static_table.copy_ before a replay.
ReplayTable(g) == table

\* _capture_xqa_graph: it fails, or not, after zero rows were appended.
CaptureGraph(zeros) ==
    [pages |-> AppendRows(pages, CaptureTable(table), length, zeros),
     graphs |-> {[bound |-> b, epoch |-> cache.epoch, table |-> table] : b \in {"graph", "failed"}}]

\* __call__ with a short query: eager, or captured, or replayed; a replay that
\* cannot be staged is given up for an eager call.
ShortQuery(q) ==
    LET k      == Key(Len(table))
        list   == LayerState(k)
        at     == SelectInSeq(list, LAMBDA s : s.key = k)
        found  == list[at].graphs[q]
        stale  == found.bound # "none" /\ ~Matches(found)
        known  == IF stale THEN NoLayerGraph ELSE found
        calls  == IF stale THEN 0 ELSE list[at].calls[q]
        rows   == [i \in 1..q |-> 1]
        attend(p, t) == reads' = (ReadRows(p, t, length + q) = ReadRows(truth', table, length + q))
        keep(c, g) == states' = [list EXCEPT ![at].calls[q] = c, ![at].graphs[q] = g]
        eager(p)     == pages' = AppendRows(p, table, length, rows) /\ attend(pages', table)
        replay(p, g) == LET t == ReplayTable(g)
                        IN  /\ pages' = IF g.epoch = cache.epoch THEN AppendRows(p, t, length, rows) ELSE p
                            /\ attend(pages', t)
        capture == CaptureGraph([i \in 1..q |-> 0])
    IN  /\ truth' = AppendRows(truth, table, length, rows) /\ length' = length + q
        /\ \/ known.bound = "none" /\ calls + 1 < Warmups /\ keep(calls + 1, known) /\ eager(pages)
           \/ /\ known.bound = "none" /\ calls + 1 >= Warmups
              /\ \E g \in capture.graphs :
                    \/ g.bound = "failed" /\ keep(calls + 1, g) /\ eager(capture.pages)
                    \/ g.bound = "graph" /\ keep(calls + 1, g) /\ replay(capture.pages, g)
                    \/ g.bound = "graph" /\ keep(0, NoLayerGraph) /\ eager(capture.pages)
           \/ known.bound # "none" /\ keep(calls, known) /\ replay(pages, known)
           \/ known.bound # "none" /\ keep(0, NoLayerGraph) /\ eager(pages)

Query == \E q \in QueryRows : /\ length + q <= Len(table) * RowsPerPage
                              /\ ShortQuery(q)
                              /\ UNCHANGED <<cache, table, scratch, prims>>

\* The generator gives the next job other pages, or maps the tail elsewhere.
MapJob == \E t \in Tables : /\ table' = t /\ length' \in {0, Len(t) * RowsPerPage - 1}
                            /\ reads' = TRUE
                            /\ UNCHANGED <<cache, pages, truth, states, scratch, prims>>

\* The generator's cache is built anew; the old tensors' id may come again.
NewCache == /\ cache.epoch < MaxEpoch
            /\ \E i \in CacheIds : cache' = [id |-> i, epoch |-> cache.epoch + 1]
            /\ pages' = Empty /\ truth' = Empty /\ length' = 0
            /\ reads' = TRUE
            /\ UNCHANGED <<table, states, scratch, prims>>

----
\* Mutant: every smaller buffer is dropped, recorded or not.
DroppedAll(s, cap) == {c \in s.kept : c < cap}

\* _ensure_scratch drops what a larger buffer covers.
Dropped(s, cap) == {c \in s.kept : c < cap} \ s.pinned

Physical == CachePages * RowsPerPage
ScratchCapacity(total) == Min({c \in total..Physical : c = Physical \/ \E k \in 0..c : c = 2^k})

\* What a query over so many rows does to the scratch; a graph pins what it records.
GatherInto(total, capturing) ==
    LET fits   == {c \in scratch.kept : c >= total}
        cap    == ScratchCapacity(total)
        chosen == IF fits = {} THEN cap ELSE Min(fits)
        kept   == IF fits = {} THEN (scratch.kept \ Dropped(scratch, cap)) \cup {cap} ELSE scratch.kept
    IN  scratch' = IF capturing /\ fits = {} THEN [scratch EXCEPT !.raised = TRUE]
                   ELSE [scratch EXCEPT !.kept = kept, !.ran = @ \/ (length = 0 /\ total = PrefillRows),
                                        !.pinned = IF capturing THEN @ \cup {chosen} ELSE @]

\* Long queries append their rows and attend over what was gathered.
LongRows(q) == /\ length + q <= Len(table) * RowsPerPage /\ length' = length + q
               /\ \E row \in 1..2 : LET rows == [i \in 1..q |-> row] IN
                     /\ pages' = AppendRows(pages, table, length, rows)
                     /\ truth' = AppendRows(truth, table, length, rows)
               /\ UNCHANGED <<cache, table, states>>
Gathered == ReadRows(pages', table, length')
AllRows == ReadRows(truth', table, length')
FlashPrefill == \E q \in 1..Physical :
    /\ q < PrimsQuery /\ LongRows(q) /\ GatherInto(length + q, FALSE)
    /\ reads' = (Gathered = AllRows) /\ UNCHANGED prims

\* A prefill is recorded after it was run; the recording itself runs nothing.
CapturePrefill ==
    /\ scratch.ran /\ GatherInto(PrefillRows, TRUE)
    /\ UNCHANGED <<cache, pages, truth, table, length, states, reads, prims>>

\* repage: the gathered rows into all pages of the kernel they touch, zeros behind them.
PrimsPages(total) == (total + PrimsRows - 1) \div PrimsRows
PrimsLast(total)  == ((total - 1) % PrimsRows) + 1
Repaged(rows) ==
    LET k8 == IF prims.k8 = <<>> THEN [i \in 1..Physical |-> 0] ELSE prims.k8
    IN  [i \in DOMAIN k8 |-> IF i <= Len(rows) THEN rows[i]
                             ELSE IF i <= PrimsPages(Len(rows)) * PrimsRows THEN 0 ELSE k8[i]]
\* The plan is made anew for other queries, or another total.
PlanKey(q, total) == <<q, total>>
PlanFor(q, total) == IF prims.plan.key = PlanKey(q, total) THEN prims.plan
                  ELSE [key |-> PlanKey(q, total), pages |-> PrimsPages(total), last |-> PrimsLast(total)]
RowsOfPlan(plan) == (plan.pages - 1) * PrimsRows + plan.last
PrimsPrefill == \E q \in PrimsQuery..Physical :
    /\ LongRows(q) /\ GatherInto(length + q, FALSE)
    /\ prims' = [k8 |-> Repaged(Gathered), plan |-> PlanFor(q, length + q)]
    /\ reads' = (SubSeq(prims'.k8, 1, RowsOfPlan(prims'.plan)) = AllRows /\ prims'.plan.key[1] = q)

XqaNext == Query \/ MapJob \/ NewCache
XqaPrefillNext == FlashPrefill \/ CapturePrefill \/ PrimsPrefill \/ MapJob

XqaSpec == XqaInit /\ [][XqaNext \/ XqaPrefillNext]_xqaVars

----
(* Whether a call is eager, captured, replayed or falls back, after caches    *)
(* were rebuilt and pages remapped: its rows are appended exactly once, to    *)
(* the live cache and through the table of now, no other row changes, and the *)
(* attention reads them (xqa.py:279, 447), all of them and by a plan for them *)
(* (xqa.py:742); and the scratch a graph recorded is never freed under it     *)
(* (xqa.py:562).                                                              *)
AppendedOnce ==
    /\ pages = truth /\ reads
    /\ scratch.pinned \subseteq scratch.kept /\ ~scratch.raised
=============================================================================
