----------------------------- MODULE HistoryMatch -----------------------------
(***************************************************************************)
(* How a client that resends its whole conversation is given back the      *)
(* exact tokens of its earlier turns: `history_key` and `match_parent`     *)
(* (server/api.rs, server/store.rs) choose the stored response that the    *)
(* conversation continues, and `render` (qwasar_runtime/rendering.py)      *)
(* puts the tokens of that response's segments in place of the assistant   *)
(* messages they were generated for.                                       *)
(*                                                                         *)
(* The tokens of an answer are what its text and its reasoning determine,  *)
(* so an answer is a text and a thought; a segment is the answer it holds. *)
(* Clients may send the reasoning of their answers back or drop it, share  *)
(* questions and answers by accident, and edit their last question.        *)
(***************************************************************************)
EXTENDS Naturals, Sequences, FiniteSetsExt, SequencesExt

CONSTANTS
    Clients,
    None,        \* no reasoning, no stored response
    SystemOf,    \* client -> its system prompt
    Keepers,     \* clients that send reasoning_content back
    Questions,   \* texts of user messages
    Replies,     \* texts of answers
    Thoughts,    \* reasonings of answers
    Endings,     \* statuses a generation may end with
    MaxTurns,    \* turns of one client (a bound)
    MaxRows      \* stored responses (a bound)

ASSUME HistoryAssumption ==
    /\ None \notin Thoughts
    /\ DOMAIN SystemOf = Clients
    /\ Keepers \subseteq Clients
    /\ Endings \subseteq {"completed", "incomplete"}
    /\ MaxTurns \in Nat /\ MaxRows \in Nat

VARIABLES
    rows,     \* completed responses in rowid order: their snapshots
    past,     \* client -> its conversation, every answer with its thought
    own,      \* client -> the snapshots of its turns, None for an incomplete one
    asking,    \* client -> the messages of its request under way, or <<>>
    parent    \* client -> what match_parent gave that request

historyVars == <<rows, past, own, asking, parent>>

UserSays(q)         == [role |-> "user", text |-> q, thought |-> None]
AssistantSays(a, t) == [role |-> "assistant", text |-> a, thought |-> t]

Snapshot(messages, tape, segments) ==
    [messages |-> messages, tape |-> tape, segments |-> segments]
NoParent  == Snapshot(<<>>, <<>>, <<>>)
Ambiguous == Snapshot(<<>>, <<"ambiguous">>, <<>>)

HistoryInit ==
    /\ rows = <<>>
    /\ past = [c \in Clients |-> <<>>]
    /\ own = [c \in Clients |-> <<>>]
    /\ asking = [c \in Clients |-> <<>>]
    /\ parent = [c \in Clients |-> NoParent]

-----------------------------------------------------------------------------
\* match_parent

\* Everything a client can see of a history (system messages never count).
HistoryKey(messages) == [i \in DOMAIN messages |-> <<messages[i].role, messages[i].text>>]

\* Reasoning that was supplied must be the stored one.
Honors(supplied, stored) ==
    \A i \in DOMAIN supplied : supplied[i].thought \in {None, stored[i].thought}

\* Rows that hold this very history.
Candidates(messages) ==
    {n \in DOMAIN rows : /\ HistoryKey(rows[n].messages) = HistoryKey(messages)
                         /\ Honors(messages, rows[n].messages)}

\* Positions after an answer up to which some row holds the history.
Matched(messages) ==
    {i \in DOMAIN messages : /\ messages[i].role = "assistant"
                             /\ Candidates(SubSeq(messages, 1, i)) # {}}

\* Mutant: the newest row wins.
MatchParentNewest(messages) ==
    IF Matched(messages) = {} THEN NoParent
    ELSE rows[Max(Candidates(SubSeq(messages, 1, Max(Matched(messages)))))]

\* The newest row of the longest history that any row holds; rows of it that
\* disagree in their tokens make it ambiguous.
MatchParent(messages) ==
    IF Matched(messages) = {} THEN NoParent
    ELSE LET found  == Candidates(SubSeq(messages, 1, Max(Matched(messages))))
             newest == rows[Max(found)]
         IN IF \E n \in found : rows[n].tape # newest.tape \/ rows[n].segments # newest.segments
            THEN Ambiguous ELSE newest

-----------------------------------------------------------------------------
\* render

\* One message of the prompt: an answer takes the first segment left that was
\* generated for a message that looks like it, reasoning apart.
Placed(state, message) ==
    LET fits == {k \in DOMAIN state.left : state.left[k].text = message.text} IN
    IF message.role = "assistant" /\ fits # {}
    THEN [left     |-> RemoveAt(state.left, Min(fits)),
          retained |-> Append(state.retained, state.left[Min(fits)]),
          prompt   |-> Append(state.prompt, state.left[Min(fits)])]
    ELSE [state EXCEPT !.prompt = Append(@, message)]

Render(messages, segments) ==
    LET placed[n \in 0..Len(messages)] ==
          IF n = 0 THEN [left |-> segments, retained |-> <<>>, prompt |-> <<>>]
          ELSE Placed(placed[n - 1], messages[n])
    IN  placed[Len(messages)]

-----------------------------------------------------------------------------
\* What a client sends of its answers.
Resent(c) == [i \in DOMAIN past[c] |->
                 [past[c][i] EXCEPT !.thought = IF c \in Keepers THEN @ ELSE None]]

\* A client asks: its history is matched against the rows.
Ask(c, q) ==
    /\ asking[c] = <<>>
    /\ Len(own[c]) < MaxTurns
    /\ asking' = [asking EXCEPT ![c] = Append(Resent(c), UserSays(q))]
    /\ parent' = [parent EXCEPT ![c] = MatchParent(asking'[c])]
    /\ UNCHANGED <<rows, past, own>>

\* The generation ends; a completed one is stored with its snapshot, in front
\* of which other clients' responses may have been stored meanwhile.
Generate(c, a, t, ending) ==
    /\ asking[c] # <<>>
    /\ parent[c] # Ambiguous
    /\ Len(rows) < MaxRows
    /\ LET answer   == AssistantSays(a, t)
           rendered == Render(asking[c], parent[c].segments)
           snapshot == Snapshot(Append(asking[c], answer),
                                <<SystemOf[c]>> \o Append(rendered.prompt, answer),
                                Append(rendered.retained, answer))
           stored   == ending = "completed"
       IN /\ rows' = IF stored THEN Append(rows, snapshot) ELSE rows
          /\ own' = [own EXCEPT ![c] = Append(@, IF stored THEN snapshot ELSE NoParent)]
          /\ past' = [past EXCEPT ![c] = Append(Append(@, Last(asking[c])), answer)]
    /\ asking' = [asking EXCEPT ![c] = <<>>]
    /\ parent' = [parent EXCEPT ![c] = NoParent]

\* The client drops its last turn, to ask something else instead.
Edit(c) ==
    /\ asking[c] = <<>>
    /\ own[c] # <<>>
    /\ own' = [own EXCEPT ![c] = Front(@)]
    /\ past' = [past EXCEPT ![c] = Front(Front(@))]
    /\ UNCHANGED <<rows, asking, parent>>

HistoryNext == \E c \in Clients :
          \/ \E q \in Questions : Ask(c, q)
          \/ \E a \in Replies, t \in Thoughts, e \in Endings : Generate(c, a, t, e)
          \/ Edit(c)

HistorySpec == HistoryInit /\ [][HistoryNext]_historyVars

-----------------------------------------------------------------------------
\* A conversation continues the stored response it really grew from, or one
\* with the very same tokens, or is refused; it never continues a response
\* of another conversation that only looks the same, and is never treated
\* as a new one.
ContinuesItself ==
    \A c \in Clients : asking[c] # <<>> /\ own[c] # <<>> =>
        \/ parent[c] = Ambiguous
        \/ /\ parent[c].tape = Last(own[c]).tape
           /\ parent[c].segments = Last(own[c]).segments

\* docs/manual-v1.md: replayed assistant history is matched to its exact
\* token segments.  So no answer of a prompt has the tokens of another answer.
OwnTokens ==
    \A c \in Clients : asking[c] # <<>> /\ parent[c] # Ambiguous =>
        LET prompt == Render(asking[c], parent[c].segments).prompt IN
        \A i \in DOMAIN past[c] : prompt[i].thought \in {None, past[c][i].thought}

\* The refusal itself says what to do: "supply preserved reasoning".  So a
\* client that does is never refused.
KeepersServed == \A c \in Keepers : parent[c] # Ambiguous

\* What a client may rely on when it sends its history again, if no turn was
\* cut short: its own conversation, its own tokens, and no refusal for nothing.
HistoryHolds == ContinuesItself /\ OwnTokens /\ KeepersServed
=============================================================================
