----------------------------- MODULE AnswerTurn -----------------------------
(* What the turns of the two engines (ResidentTurn, RollbackTurn) share: the *)
(* tokens, the parser, the deltas that are published, the final message and  *)
(* the server's streams. The turn is at idle, window, inject, over, told, or *)
(* done.                                                                     *)
EXTENDS StreamParser, WireStreams

CONSTANTS Vocabularies,  \* bound: sets of tokens; a turn draws from one
          MaxNew,        \* bound: max_tokens of a turn
          Caps           \* bound: reasoning_token_cap of a turn

ASSUME TurnAssumption == MaxNew \in Nat \ {0} /\ Caps \subseteq Nat

VARIABLES setup,      \* the request: thinking, functions, choice, cap, words
          turnpc,
          produced,   \* tokens of the turn, injected ones included
          spent,      \* reasoning_tokens
          closed_by,  \* close_reason: none, budget or unterminated
          cancelled,  \* the cancel event
          parser,
          told,       \* per channel, the text of the deltas published
          wires,      \* the streams of the answer and their clients
          verdict,    \* status and incomplete_reason
          answer      \* message of the terminal

turnVars == <<setup, turnpc, produced, spent, closed_by, cancelled, parser, told, wires,
              verdict, answer>>

Stop  == "stop"       \* <|im_end|>
Shut  == "close"      \* the ids of REASONING_CLOSE, which count as one
NoMessage == [content |-> <<>>, reasoning |-> <<>>, calls |-> 0]
NoVerdict == [status |-> "running", reason |-> "none"]

\* The glyphs of a token. "h" and "H" are the two halves of one character.
Glyphs(id) == CASE id = "k" -> <<"k">>            [] id = "t" -> <<"<", "t", "w">>
                [] id = "<" -> <<"<">>            [] id = "c" -> <<"<", "/">>
                [] id = "s" -> <<Blank>>          [] id = Shut -> ClosingText
                [] OTHER -> <<"w">>

\* decode: a half without its other half is written as a replacement.
DecodeStep(d, id) ==
    LET before == IF d.half THEN Append(d.text, "?") ELSE d.text
    IN  CASE id = "H" -> [text |-> Append(d.text, IF d.half THEN "w" ELSE "?"), half |-> FALSE]
          [] id = "h" -> [text |-> before, half |-> TRUE]
          [] OTHER    -> [text |-> before \o Glyphs(id), half |-> FALSE]
Decode(ids) ==
    LET read[n \in 0..Len(ids)] ==
          IF n = 0 THEN [text |-> <<>>, half |-> FALSE] ELSE DecodeStep(read[n - 1], ids[n])
        d == read[Len(ids)]
    IN  IF d.half THEN Append(d.text, "?") ELSE d.text

\* The part of a decoded tail that no further token changes, and what of it is new.
Stable(tail) == LET whole == {n \in 0..Len(tail) : n = 0 \/ tail[n] # "?"}
                IN  SubSeq(tail, 1, Max(whole))
Unseen(fed, stable) ==
    LET same == {n \in 0..Min({Len(fed), Len(stable)}) : SubSeq(fed, 1, n) = SubSeq(stable, 1, n)}
    IN  SubSeq(stable, Max(same) + 1, Len(stable))

\* The tokens that are text.
Seen(some, id) == IF id = Stop THEN some ELSE Append(some, id)
Visible(ids) ==
    LET seen[n \in 0..Len(ids)] == IF n = 0 THEN <<>> ELSE Seen(seen[n - 1], ids[n])
    IN  seen[Len(ids)]

\* publish: each piece goes to the server, which streams it in three dialects.
SoFar == [told |-> told, wires |-> wires]
AddDelta(heard, d) == [told |-> [heard.told EXCEPT ![d.channel] = @ \o d.text], wires |-> Stream(heard.wires, d)]
Heard(before, out) ==
    LET heard[n \in 0..Len(out)] == IF n = 0 THEN before ELSE AddDelta(heard[n - 1], out[n])
    IN  heard[Len(out)]
Publish(heard) == told' = heard.told /\ wires' = heard.wires

\* What of the message was not published yet: content first, then reasoning.
TailOf(heard, ch, text) ==
    LET tail == SubSeq(text, Len(heard[ch]) + 1, Len(text))
    IN  IF tail = <<>> THEN <<>> ELSE <<[channel |-> ch, text |-> tail]>>
Tails(heard, m) == TailOf(heard, "content", m.content) \o TailOf(heard, "reasoning", m.reasoning)

\* The tokens of a piece: they end at the first stop token.
Pieces(words, most) ==
    {s \in UNION {[1..n -> words \cup {Stop}] : n \in 1..most} :
        \A i \in 1..Len(s) - 1 : s[i] # Stop}

TurnInit ==
    /\ setup = [thinking |-> TRUE, functions |-> FALSE, choice |-> "auto", cap |-> 0, words |-> {}]
    /\ turnpc = "idle" /\ produced = <<>> /\ spent = 0 /\ closed_by = "none" /\ cancelled = FALSE
    /\ parser = NewParser(TRUE, FALSE)
    /\ told = [content |-> <<>>, reasoning |-> <<>>] /\ wires = NewWires
    /\ verdict = NoVerdict /\ answer = NoMessage

\* A prepared request. A required call needs tools.
StartTurn(thinking) ==
    /\ turnpc = "idle" /\ turnpc' = "window"
    /\ \E functions \in BOOLEAN, choice \in {"auto", "required"}, cap \in Caps, words \in Vocabularies :
          /\ choice = "required" => functions
          /\ setup' = [thinking |-> thinking, functions |-> functions, choice |-> choice,
                       cap |-> IF thinking THEN cap ELSE 0, words |-> words]
          /\ parser' = NewParser(thinking, functions)
    /\ UNCHANGED <<produced, spent, closed_by, cancelled, told, wires, verdict, answer>>

\* finish_reason: only an output limit is told as one (api.rs).
FinishReason(v) == IF v.status = "incomplete" /\ v.reason \in {"max_new_tokens", "reasoning_budget"}
                   THEN "length" ELSE "stop"

\* The server ends the three streams; a failed or cancelled turn ends in an error.
ServerFinish ==
    /\ turnpc = "told" /\ turnpc' = "done"
    /\ wires' = IF verdict.status \in {"completed", "incomplete"} THEN StreamEnd(wires, answer) ELSE wires
    /\ UNCHANGED <<setup, produced, spent, closed_by, cancelled, parser, told, verdict, answer>>

----
Ended == turnpc = "done" /\ verdict.status \in {"completed", "incomplete"}
\* The text before an injected close ends in a replacement, which is held back
\* until the character is whole: it is told after the close, or never.
CutCharacter == \E i \in 2..Len(produced) : produced[i] = Shut
                    /\ Last(<<Blank>> \o Decode(SubSeq(produced, 1, i - 1))) = "?"

(* However the tokens are cut into windows, pieces and half characters, and   *)
(* wherever the reasoning is closed for the model, the message is the split   *)
(* of the whole text (chat.py:287, engine.py:241). Only a character that is   *)
(* still incomplete at an injected close may differ.                          *)
AnswerExact ==
    Ended /\ ~CutCharacter =>
        LET whole == WholeMessage(Decode(Visible(produced)), setup.thinking, setup.functions)
        IN  answer.content = whole.content /\ answer.reasoning = whole.reasoning

\* The deltas of each channel are the message: nothing twice and nothing lost.
AllTold == turnpc = "done" /\ verdict.status # "failed" =>
               told = [content |-> answer.content, reasoning |-> answer.reasoning]

\* Every client has the message: blocks opened once, at consecutive indices,
\* closed, and each with its whole text, in the order of the final response.
AllRebuilt ==
    Ended => LET r == wires.responses
                 c == wires.anthropic.client
             IN  /\ wires.chat = answer
                 /\ AllClosed(r.client) /\ Rebuilt(r.client) = Blocks(answer)
                 /\ AllClosed(c) /\ Rebuilt(c) = Blocks(answer)
                 /\ r.items = [i \in DOMAIN Blocks(answer) |-> Blocks(answer)[i].block]

\* Completed means that the model ended the turn itself, after its reasoning,
\* with every call whole; and a client is told that the output was cut off
\* exactly when the turn did not end with the end token (engine.py:33).
StatusHonest ==
    Ended =>
      /\ verdict.status = "completed" =>
            /\ Last(produced) = Stop /\ parser.channel = "content"
            /\ parser.inTools => answer.calls = 1
            /\ setup.choice = "required" => answer.calls = 1
      /\ FinishReason(verdict) = "length" <=> Last(produced) # Stop
      /\ FinishReason(verdict) = "length" => Len(produced) >= MaxNew

(* What the clients of a turn read is one and true: the deltas of each channel *)
(* are the final message, in every dialect the client rebuilds it from the    *)
(* events (stream.rs:72), and its end is as it is told (engine.py:33).        *)
ClientsAgree == AllTold /\ AllRebuilt /\ StatusHonest
=============================================================================
