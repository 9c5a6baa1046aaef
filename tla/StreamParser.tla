---------------------------- MODULE StreamParser ----------------------------
(* src/qwasar_runtime/parsing.py: StreamParser, which splits the text of a   *)
(* turn into reasoning, content and tool calls while it arrives. A glyph     *)
(* stands for a run of characters that never holds a part of a marker; the   *)
(* markers share their first glyph, as the tags do.                          *)
EXTENDS Naturals, Sequences, SequencesExt, FiniteSetsExt

ThinkClose == <<"<", "k">>     \* </think>
CallOpen   == <<"<", "t">>     \* <tool_call>
CallClose  == <<"<", "/">>     \* </tool_call>
Blank      == "s"              \* white space
ClosingText == ThinkClose \o <<Blank>>     \* REASONING_CLOSE

Places(m, s)  == {i \in 1..Len(s) : IsPrefix(m, SubSeq(s, i, Len(s)))}
AllBlank(s)   == \A i \in DOMAIN s : s[i] = Blank
Strip(s) == LET full == {i \in DOMAIN s : s[i] # Blank}
            IN  IF full = {} THEN <<>> ELSE SubSeq(s, Min(full), Max(full))

\* A parser of a turn that reasons (or not), with tools declared (or not).
NewParser(thinking, functions) ==
    [channel |-> IF thinking THEN "reasoning" ELSE "content", functions |-> functions,
     pending |-> <<>>, xml |-> <<>>, reasoning |-> <<>>, content |-> <<>>,
     leading |-> <<>>, inTools |-> FALSE, out |-> <<>>]

Told(p, text) == [p EXCEPT !.out = Append(@, [channel |-> p.channel, text |-> text])]

\* _emit: white space before the content is held back while a call may follow.
Utter(p, text) ==
    IF text = <<>> THEN p
    ELSE IF p.channel = "reasoning" THEN [Told(p, text) EXCEPT !.reasoning = @ \o text]
    ELSE IF p.functions /\ p.content = <<>>
         THEN IF AllBlank(text) THEN [p EXCEPT !.leading = @ \o text]
              ELSE [Told(p, p.leading \o text) EXCEPT !.content = p.leading \o text,
                                                      !.leading = <<>>]
         ELSE [Told(p, text) EXCEPT !.content = @ \o text]

Marker(p) == IF p.channel = "reasoning" THEN ThinkClose
             ELSE IF p.functions THEN CallOpen ELSE <<>>

\* Mutant: a marker that is cut by the end of the piece is not waited for.
HeldNever(p) == 0

\* The longest end of the pending text that may be the start of the marker.
Held(p) ==
    LET m == Marker(p)
        x == p.pending
    IN  Max({n \in 0..Min({Len(m), Len(x)}) :
               n = 0 \/ (n < Len(m) /\ SubSeq(m, 1, n) = SubSeq(x, Len(x) - n + 1, Len(x)))})

\* The parser once `said` is uttered and `rest` is left of the pending text; the
\* marker m was at the places `at`.
AfterPass(p, said, rest, at, m) ==
    LET q == [Utter(p, said) EXCEPT !.pending = rest]
    IN  IF p.inTools \/ at = {} THEN q
        ELSE IF p.channel = "reasoning" THEN [q EXCEPT !.channel = "content"]
        ELSE [q EXCEPT !.inTools = TRUE, !.leading = <<>>, !.xml = m \o rest, !.pending = <<>>]

\* One turn of the loop of feed; it changes nothing once no marker is left.
Pass(p) ==
    LET m    == Marker(p)
        at   == IF m = <<>> THEN {} ELSE Places(m, p.pending)
        cut  == IF at = {} THEN Len(p.pending) - Held(p) ELSE Min(at) - 1
        past == IF at = {} THEN 0 ELSE Len(m)
    IN  AfterPass(p, SubSeq(p.pending, 1, cut), SubSeq(p.pending, cut + past + 1, Len(p.pending)), at, m)

\* feed: what was said of the last piece is in `out`.
Feed(p, text) ==
    IF p.inTools THEN [p EXCEPT !.xml = @ \o text, !.out = <<>>]
    ELSE Pass(Pass(Pass([p EXCEPT !.pending = @ \o text, !.out = <<>>])))

\* A call is written when its tag is closed after a body; ToolCalls has the rest.
CallsParse(xml) == LET x == Strip(xml) IN
    /\ IsSuffix(CallClose, x) /\ Len(x) > 4
    /\ Cardinality(Places(CallOpen, x)) = 1 /\ Cardinality(Places(CallClose, x)) = 1
UnclosedToolXml(p) == p.inTools /\ Strip(p.xml) # <<>> /\ ~CallsParse(p.xml)
                      /\ Places(CallClose, p.xml) = {}

\* finish: the exception it raises, and the message it returns.
FinishError(p, complete, choice) ==
    IF ~complete THEN "none"
    ELSE IF p.channel = "reasoning" THEN "reasoning"
    ELSE IF p.inTools /\ ~CallsParse(p.xml) THEN "malformed"
    ELSE IF choice = "required" /\ ~p.inTools THEN "missing" ELSE "none"
Message(p, complete) ==
    [content   |-> p.content \o p.leading
                   \o (IF p.channel = "content" /\ ~p.inTools THEN p.pending ELSE <<>>),
     reasoning |-> p.reasoning \o (IF p.channel = "reasoning" THEN p.pending ELSE <<>>),
     calls     |-> IF complete /\ p.inTools THEN 1 ELSE 0]

----
\* Reference: the message of a text that is known whole.
WholeMessage(text, thinking, functions) ==
    LET close == Places(ThinkClose, text)
        open  == thinking /\ close = {}
        after == IF ~thinking THEN text
                 ELSE IF open THEN <<>> ELSE SubSeq(text, Min(close) + Len(ThinkClose), Len(text))
        calls == IF functions THEN Places(CallOpen, after) ELSE {}
        said  == IF calls = {} THEN after ELSE SubSeq(after, 1, Min(calls) - 1)
    IN  [reasoning |-> IF ~thinking THEN <<>>
                       ELSE IF open THEN text ELSE SubSeq(text, 1, Min(close) - 1),
         content   |-> IF calls # {} /\ AllBlank(said) THEN <<>> ELSE said]
=============================================================================
