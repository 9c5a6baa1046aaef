----------------------------- MODULE DraftCache -----------------------------
(* engine/forward/draft.py: MTPDraft, driven by DraftCycle of cycle.py. The  *)
(* draft keeps its own attention rows: row p is computed from token p and    *)
(* the target's hidden row of token p - 1, which the cycle carries over. The *)
(* roll writes rows for tokens nobody accepted; a repair replaces them. A    *)
(* roll that was recorded as a graph uses the addresses it was recorded with *)
(* and reads an FP8 shadow of the rows.                                      *)
EXTENDS Naturals, Sequences, FiniteSetsExt

CONSTANTS Capacity,     \* rows of the store: the context
          Steps,        \* DRAFT_TOKENS
          WarmRolls,    \* eager rolls before a capture (2)
          Kinds,        \* kinds of sampling, each with a graph of its own
          WideKinds     \* those whose top_k is more than a graph records

ASSUME DraftAssumption ==
    /\ {Capacity, Steps} \subseteq Nat \ {0} /\ WarmRolls \in Nat /\ WideKinds \subseteq Kinds

VARIABLES kv,         \* the stores: address, size, rows and their FP8 shadow
          position,   \* rows in use; past_k ends there
          hasPast,       \* past_k is not None
          rolls,      \* _roll_graphs: kind -> warm, and the address a graph recorded
          carry,      \* the hidden row for the next token, and if it lies in a graph's buffer
          target,     \* tokens the target has kept
          phase,      \* turn or window
          rolled,     \* the rows the last roll read, with its address
          primed,     \* position before the roll, or none for a copied window
          mark,       \* the commit's position and carry
          clobbered   \* history: rows whose carry was overwritten while it was needed

draftVars == <<kv, position, hasPast, rolls, carry, target, phase, rolled, primed, mark, clobbered>>

Wrong == 0
\* A row of a token and a hidden row; Wrong if they do not belong together.
Row(token, hidden) == IF token = hidden + 1 THEN token ELSE Wrong
Carry(row, shared) == [row |-> row, shared |-> shared]
NoMark == Carry(0, FALSE)
NoRoll == [address |-> 0, read |-> <<>>]
NoPrime == Capacity + Steps + 1
NoStore == [address |-> 0, size |-> 0, rows |-> <<>>, fp8 |-> <<>>]
FreshRolls == [k \in Kinds |-> [warm |-> 0, address |-> 0]]

DraftInit == /\ kv = NoStore /\ position = 0 /\ hasPast = FALSE /\ rolls = FreshRolls
             /\ carry = Carry(0, FALSE) /\ target = 0 /\ phase = "turn" /\ rolled = NoRoll
             /\ primed = NoPrime /\ mark = NoMark /\ clobbered = {}

----
\* _write_kv: one allocation of the whole context; a store that is too small
\* after all grows to another size and address, and its shadow is left behind.
WriteKv(s, at, new) ==
    LET end   == at + Len(new)
        size  == IF s.size = 0 /\ end <= Capacity THEN Capacity ELSE s.size
        grown == IF size >= end THEN size ELSE Max({2 * size, end})
    IN  [address |-> IF grown # s.size THEN s.address + 1 ELSE s.address,
         size |-> grown,
         rows |-> SubSeq(s.rows, 1, at) \o new,
         fp8  |-> IF size = Capacity
                  THEN SubSeq(s.fp8, 1, at) \o SubSeq(new, 1, Min({Len(new), Capacity - at}))
                  ELSE s.fp8]

\* _graphable.
Graphable(s, at, kind) ==
    /\ kind \notin WideKinds /\ s.size = Capacity /\ at + Steps <= Capacity

\* absorb_prefill: the tokens' rows, each with the row before it. The target's
\* rows lie in a graph's buffer if a graph computed them.
Absorbed(n) == [i \in 1..n |-> Row(target + i, IF i = 1 THEN carry.row ELSE target + i - 1)]

AbsorbSpan == phase = "turn" /\ \E n \in 1..Steps + 1, shared \in BOOLEAN :
    /\ shared => n = Steps + 1
    /\ target + n < Capacity
    /\ kv' = WriteKv(kv, position, Absorbed(n)) /\ position' = position + n /\ hasPast' = TRUE
    /\ carry' = Carry(target + n, shared) /\ target' = target + n
    /\ UNCHANGED <<rolls, phase, rolled, primed, mark, clobbered>>

\* _block_static reads the shadow, where the eager block reads the rows.
RowsRead(static) == SubSeq(IF static THEN kv.fp8 ELSE kv.rows, 1, position)

\* roll: the held token's row with the carry, then rows of tokens it drafts
\* itself. A graph reads the shadow at the address it recorded.
Roll(kind) ==
    LET new    == <<Row(target + 1, carry.row)>> \o [i \in 1..Steps - 1 |-> Wrong]
        slot   == rolls[kind]
        static == Graphable(kv, position, kind)
        graph  == static /\ (slot.address # 0 \/ slot.warm >= WarmRolls)
    IN  /\ kv' = WriteKv(kv, position, new)
        /\ position' = position + Steps /\ hasPast' = TRUE /\ primed' = position
        /\ rolls' = IF ~static \/ slot.address # 0 THEN rolls
                    ELSE [rolls EXCEPT ![kind] = [warm    |-> IF graph THEN @.warm ELSE @.warm + 1,
                                                  address |-> IF graph THEN kv.address ELSE 0]]
        /\ rolled' = [address |-> IF static /\ slot.address # 0 THEN slot.address ELSE kv'.address,
                      read    |-> RowsRead(static)]

\* A window starts with a roll, or with a copy of the history (suffix drafting).
Propose == phase = "turn" /\ target > 0 /\ phase' = "verify" /\ target + 1 < Capacity
    /\ \/ \E kind \in Kinds : Roll(kind)
       \/ primed' = NoPrime /\ rolled' = NoRoll /\ UNCHANGED <<kv, position, hasPast, rolls>>
    /\ UNCHANGED <<carry, target, mark, clobbered>>

\* The target's forward of the window may write the buffer the carry lies in.
Verify ==
    /\ phase = "verify" /\ phase' = "repair"
    /\ \E overwrites \in BOOLEAN :
         carry' = (IF overwrites /\ carry.shared THEN Carry(Wrong, TRUE) ELSE carry)
    /\ UNCHANGED <<kv, position, hasPast, rolls, target, rolled, primed, mark, clobbered>>

\* Mutant: the rows that were rolled stay.
RepairUncut(matched) ==
    /\ kv' = WriteKv(kv, position, [i \in 1..matched |-> Row(target + 1 + i, target + i)])
    /\ position' = position + matched

\* repair: what was rolled is cut behind the held token, and the accepted
\* tokens enter with the target's rows.
Repair(matched) ==
    /\ kv' = WriteKv(kv, primed + 1, [i \in 1..matched |-> Row(target + 1 + i, target + i)])
    /\ position' = primed + 1 + matched

\* repair_copied: the held token enters too, with the carry as it is now.
RepairCopied(matched) ==
    /\ kv' = WriteKv(kv, position, <<Row(target + 1, carry.row)>>
                                   \o [i \in 1..matched |-> Row(target + 1 + i, target + i)])
    /\ position' = position + 1 + matched

EndWindow == phase = "repair" /\ phase' = "turn" /\ \E matched \in 0..Steps :
    /\ target + 1 + matched < Capacity
    /\ IF primed = NoPrime THEN RepairCopied(matched) ELSE Repair(matched)
    /\ clobbered' = IF primed = NoPrime /\ carry.row # target THEN clobbered \cup {target + 1} ELSE clobbered
    /\ carry' = Carry(target + 1 + matched, FALSE) /\ target' = target + 1 + matched /\ hasPast' = TRUE
    /\ primed' = NoPrime /\ rolled' = NoRoll
    /\ UNCHANGED <<rolls, mark>>

----
\* truncate, when it does not raise.
Truncates(n) == hasPast /\ n <= position
Return(n, row) == /\ position' = n /\ carry' = row /\ target' = n /\ phase' = "turn"
                  /\ primed' = NoPrime /\ rolled' = NoRoll
                  /\ clobbered' = {p \in clobbered : p <= n}

\* commit keeps a copy of the carry.
CommitDraft == /\ phase = "turn" /\ target > 0 /\ mark' = Carry(position, FALSE)
               /\ UNCHANGED <<kv, position, hasPast, rolls, carry, target, phase, rolled, primed, clobbered>>

\* cancel: back to the commit.
CancelDraft == /\ mark # NoMark /\ Truncates(mark.row)
               /\ Return(mark.row, mark) /\ UNCHANGED <<kv, hasPast, rolls, mark>>

\* reset by _zero: the store and the graphs stay with the spare draft.
ResetDraft == /\ target > 0 /\ hasPast' = FALSE /\ mark' = NoMark
              /\ Return(0, Carry(0, FALSE)) /\ UNCHANGED <<kv, rolls>>

DraftNext == AbsorbSpan \/ Propose \/ Verify \/ EndWindow \/ CommitDraft \/ CancelDraft \/ ResetDraft

DraftSpec == DraftInit /\ [][DraftNext]_draftVars

----
(* The draft follows the target: it has a row for every token the target has  *)
(* kept, each of its own token and of the row before it, however the window   *)
(* was proposed and wherever it was cut, cancelled or restarted; and a roll   *)
(* reads those rows, a recorded one in the store that is in use now and in    *)
(* its FP8 shadow (draft.py:236). The one row that may be wrong belongs to a  *)
(* copied window after a span of the width of a verify, whose carry lies in   *)
(* the buffer of the verify's graph (cycle.py:72).                            *)
RowsFollowTarget ==
    /\ phase = "turn" => /\ position = target
                         /\ \A p \in 1..position : kv.rows[p] = p \/ p \in clobbered
    /\ phase = "verify" /\ primed # NoPrime => /\ rolled.address = kv.address
                                              /\ rolled.read = SubSeq(kv.rows, 1, primed)
=============================================================================
