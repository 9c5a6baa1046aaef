----------------------------- MODULE WireStreams -----------------------------
(* server/stream.rs and server/anthropic.rs: the events of a streamed answer *)
(* in the Responses and the Messages dialect, with the chat chunks of        *)
(* service.rs, and the client that puts the answer together again. An event  *)
(* is what a client needs of it: add, delta, done, start, stop.              *)
EXTENDS Naturals, Sequences, SequencesExt

Event(kind, index, block, text) == [kind |-> kind, index |-> index, block |-> block, text |-> text]

\* A client: blocks by index, appended in order, each started, fed and stopped.
\* An event that a stream writes is the next that its client gets.
NewClient == [blocks |-> <<>>, ok |-> TRUE]
Fed(b, text) == [b EXCEPT !.text = @ \o text]
Closed(b) == [b EXCEPT !.open = FALSE]
Receive(c, e) ==
    LET i == e.index + 1
        known == i \in DOMAIN c.blocks
    IN  CASE e.kind = "start" ->
              [blocks |-> Append(c.blocks, [block |-> e.block, text |-> e.text, open |-> TRUE]),
               ok |-> c.ok /\ i = Len(c.blocks) + 1]
          [] e.kind = "delta" /\ known ->
              [blocks |-> [c.blocks EXCEPT ![i] = Fed(@, e.text)],
               ok |-> c.ok /\ c.blocks[i].open /\ c.blocks[i].block = e.block]
          [] e.kind = "stop" /\ known ->
              [blocks |-> [c.blocks EXCEPT ![i] = Closed(@)], ok |-> c.ok /\ c.blocks[i].open]
          [] OTHER -> [c EXCEPT !.ok = FALSE]

\* The output of response_result and of output_blocks: what is not empty. The
\* calls of a message are one block.
CallText(m) == IF m.calls = 0 THEN <<>> ELSE <<"call">>
BlockOf(block, text) == IF text = <<>> THEN <<>> ELSE <<[block |-> block, text |-> text]>>
Blocks(m) == BlockOf("reasoning", m.reasoning) \o BlockOf("content", m.content)
             \o BlockOf("call", CallText(m))

----
\* ResponsesStream: the items in the order they were added.
NewResponses == [items |-> <<>>, client |-> NewClient]
ItemIndex(items, block) == (CHOOSE i \in DOMAIN items : items[i] = block) - 1
OfItem(r, kind, block, text) ==
    [r EXCEPT !.client = Receive(@, Event(kind, ItemIndex(r.items, block), block, text))]

ResponsesAdd(r, block) ==
    IF block \in ToSet(r.items) THEN r
    ELSE OfItem([r EXCEPT !.items = Append(@, block)], "start", block, <<>>)
ResponsesDelta(r, d) == OfItem(ResponsesAdd(r, d.channel), "delta", d.channel, d.text)

\* Every item of the output is added, given its text if it was not there, and done.
ResponsesItem(r, block, text) ==
    LET added == ResponsesAdd(r, block)
        given == IF block \notin ToSet(r.items) \/ block = "call"
                 THEN OfItem(added, "delta", block, text) ELSE added
    IN  IF text = <<>> THEN r ELSE OfItem(given, "stop", block, text)
ResponsesFinish(r, m) ==
    ResponsesItem(ResponsesItem(ResponsesItem(r, "reasoning", m.reasoning), "content", m.content),
                  "call", CallText(m))

----
\* AnthropicStream: at most one open block, the index of the next event.
NewAnthropic == [index |-> 0, thinkingOpen |-> FALSE, textOpen |-> FALSE,
                 emittedThinking |-> FALSE, emittedText |-> FALSE, client |-> NewClient]
Push(a, kind, block, text) == [a EXCEPT !.client = Receive(@, Event(kind, a.index, block, text))]

EnsureThinking(a) == IF a.thinkingOpen THEN a
                     ELSE [Push(a, "start", "reasoning", <<>>) EXCEPT !.thinkingOpen = TRUE,
                                                                      !.emittedThinking = TRUE]
EnsureText(a) == IF a.textOpen THEN a
                 ELSE [Push(a, "start", "content", <<>>) EXCEPT !.textOpen = TRUE,
                                                                !.emittedText = TRUE]
CloseThinking(a) == IF ~a.thinkingOpen THEN a
                    ELSE [Push(a, "stop", "reasoning", <<>>) EXCEPT !.index = @ + 1, !.thinkingOpen = FALSE]
CloseText(a) == IF ~a.textOpen THEN a
                ELSE [Push(a, "stop", "content", <<>>) EXCEPT !.index = @ + 1, !.textOpen = FALSE]

AnthropicDelta(a, d) ==
    IF d.channel = "reasoning" THEN Push(EnsureThinking(a), "delta", "reasoning", d.text)
    ELSE Push(EnsureText(CloseThinking(a)), "delta", "content", d.text)

\* emit_block and emit_tool: a block that was not streamed comes whole.
WholeBlock(a, block, text) ==
    LET started == Push(a, "start", block, IF block = "call" THEN <<>> ELSE text)
        given   == IF block = "call" THEN Push(started, "delta", block, text) ELSE started
    IN  [Push(given, "stop", block, <<>>) EXCEPT !.index = @ + 1]
\* Mutant: a block that was streamed and closed is taken for one that was not.
FinishBlockAgain(a, block, text) ==
    IF text = <<>> \/ (block = "reasoning" /\ a.thinkingOpen) \/ (block = "content" /\ a.textOpen)
    THEN a ELSE WholeBlock(a, block, text)

FinishBlock(a, block, text) ==
    IF text = <<>> \/ (block = "reasoning" /\ a.emittedThinking) \/ (block = "content" /\ a.emittedText)
    THEN a ELSE WholeBlock(a, block, text)
AnthropicFinish(a, m) ==
    FinishBlock(FinishBlock(FinishBlock(CloseText(CloseThinking(a)), "reasoning", m.reasoning),
                            "content", m.content), "call", CallText(m))

----
\* The three streams of one answer, each with its client. Chat has no blocks:
\* its client appends each chunk to the field it names.
NewWires == [responses |-> NewResponses, anthropic |-> NewAnthropic,
             chat |-> [reasoning |-> <<>>, content |-> <<>>, calls |-> 0], sawDelta |-> FALSE]

Stream(w, d) ==
    [responses |-> ResponsesDelta(w.responses, d), anthropic |-> AnthropicDelta(w.anthropic, d),
     chat |-> [w.chat EXCEPT ![d.channel] = @ \o d.text], sawDelta |-> TRUE]

\* The end of a turn that is completed or incomplete.
StreamEnd(w, m) ==
    [responses |-> ResponsesFinish(w.responses, m), anthropic |-> AnthropicFinish(w.anthropic, m),
     chat |-> IF w.sawDelta THEN [w.chat EXCEPT !.calls = m.calls] ELSE m,
     sawDelta |-> w.sawDelta]

\* What a client has of the blocks, once each is closed.
AllClosed(c) == c.ok /\ \A i \in DOMAIN c.blocks : ~c.blocks[i].open
Rebuilt(c) == [i \in DOMAIN c.blocks |-> [block |-> c.blocks[i].block, text |-> c.blocks[i].text]]
=============================================================================
