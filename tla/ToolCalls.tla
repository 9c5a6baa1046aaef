------------------------------ MODULE ToolCalls ------------------------------
(* src/qwasar_runtime/parsing.py: how StreamParser.finish reads the calls of *)
(* a turn. A call list is read back from tags that its own values may quote; *)
(* a value is text, JSON or a slip that is tolerated; it is then held against *)
(* the tool's schema. A text is a sequence of tokens <<kind, name>>: a tag,   *)
(* a line end, a bracket or quote of JSON, a literal or a run of other text.  *)
EXTENDS Naturals, Sequences, SequencesExt, FiniteSetsExt

CONSTANTS MaxCalls, MaxArguments, MaxGlyphs   \* bounds: of a turn, in all calls, in all strings

ASSUME CallsAssumption == {MaxCalls, MaxArguments, MaxGlyphs} \subseteq Nat

VARIABLES meant,   \* the calls the model means: name and arguments in order
          slips,   \* whether it writes values as Hermes and other harnesses do
          reading  \* what finish made of them

callVars == <<meant, slips, reading>>

Tok(kind) == <<kind, "">>
LineEnd == Tok("line")
Blanks(text) == \A i \in DOMAIN text : text[i] = LineEnd
Trim(text) == LET full == {i \in DOMAIN text : text[i] # LineEnd}
              IN  IF full = {} THEN <<>> ELSE SubSeq(text, Min(full), Max(full))
Behind(text, i) == SubSeq(text, i + 1, Len(text))
Before(text, i) == SubSeq(text, 1, i - 1)

----
(* JSON values and schemas.                                                   *)
Str(text)      == [kind |-> "string", text |-> text]
Lit(kind, word) == [kind |-> kind, text |-> <<Tok(word)>>]
Arr(items)     == [kind |-> "array", items |-> items]
Obj(key, v)    == [kind |-> "object", fields |-> [k \in {key} |-> v]]

\* canonical, with the line ends of a string escaped.
Quote(text) == <<Tok("quote")>> \o [i \in DOMAIN text |-> IF text[i] = LineEnd THEN Tok("escape") ELSE text[i]]
               \o <<Tok("quote")>>
RECURSIVE Json(_)
Json(v) == CASE v.kind = "string" -> Quote(v.text)
             [] v.kind = "array"  -> <<Tok("[")>> \o FlattenSeq([i \in DOMAIN v.items |-> Json(v.items[i])])
                                     \o <<Tok("]")>>
             [] v.kind = "object" -> LET k == CHOOSE k \in DOMAIN v.fields : TRUE
                                     IN  <<(<<"{", k>>)>> \o Json(v.fields[k]) \o <<Tok("}")>>
             [] OTHER -> v.text

ItemTexts  == {<<Tok("word"), LineEnd>>, <<Tok("/parameter"), Tok("word")>>}
Scalars    == {Lit("integer", "1"), Lit("boolean", "true"), Lit("boolean", "false")}
ArraysOf(items) == {Arr(<<>>)} \cup {Arr(<<i>>) : i \in items}
Titled(key) == {Obj(key, Str(t)) : t \in ItemTexts}
JsonValues == Scalars \cup ArraysOf({Str(t) : t \in ItemTexts} \cup Titled("title") \cup Titled("label"))

\* parse_json, of the texts that are JSON.
IsJson(text)    == \E v \in JsonValues : Json(v) = text
ParseJson(text) == CHOOSE v \in JsonValues : Json(v) = text

Untyped == [types |-> {}, anyOf |-> {}, items |-> <<>>, required |-> {}, properties |-> <<>>]
OfType(t) == [Untyped EXCEPT !.types = {t}]
Option == [OfType("object") EXCEPT !.required = {"title"},
                                   !.properties = [k \in {"title"} |-> OfType("string")]]
Listing(s) == [OfType("array") EXCEPT !.items = <<s>>]

\* The parameters of tool "f"; every other name is an additional property.
Parameters == [s |-> OfType("string"), i |-> OfType("integer"), b |-> OfType("boolean"),
               l |-> Listing(OfType("string")), t |-> Listing(Option),
               n |-> [Untyped EXCEPT !.anyOf = {OfType("boolean"), Listing(OfType("string"))}]]
PropertySchema(key) == IF key \in DOMAIN Parameters THEN Parameters[key] ELSE Untyped

RECURSIVE SchemaTypes(_)
SchemaTypes(schema) == schema.types \cup UNION {SchemaTypes(c) : c \in schema.anyOf}

\* _validate_value, for the keywords above.
RECURSIVE Valid(_, _)
Valid(v, schema) ==
    /\ schema.types # {} => v.kind \in schema.types
    /\ schema.anyOf # {} => \E c \in schema.anyOf : Valid(v, c)
    /\ v.kind = "object" =>
         /\ schema.required \subseteq DOMAIN v.fields
         /\ \A k \in DOMAIN v.fields \cap DOMAIN schema.properties : Valid(v.fields[k], schema.properties[k])
    /\ v.kind = "array" /\ schema.items # <<>> => \A i \in DOMAIN v.items : Valid(v.items[i], schema.items[1])

----
(* Reading a value.                                                           *)
BooleanWords == [w \in {"true", "yes"} |-> "true"] @@ [w \in {"false"} |-> "false"]
IsBooleanWord(text) == Len(Trim(text)) = 1 /\ Trim(text)[1][1] \in DOMAIN BooleanWords
BooleanOf(text) == Lit("boolean", BooleanWords[Trim(text)[1][1]])

\* parse_tool_parameter: the value, or none when it raises.
ParseToolParameter(text, schema) ==
    LET types == SchemaTypes(schema) IN
    IF "string" \in types THEN {Str(text)}
    ELSE IF IsJson(Trim(text)) THEN {ParseJson(Trim(text))}
    ELSE IF "boolean" \in types /\ IsBooleanWord(text) THEN {BooleanOf(text)}
    ELSE IF types # {} THEN {} ELSE {Str(text)}

TextKeys == <<"title", "label", "text", "value", "question", "name">>
TextFields(v) == SelectSeq(TextKeys, LAMBDA k : k \in DOMAIN v.fields /\ v.fields[k].kind = "string"
                                                /\ v.fields[k].text # <<>>)

\* Mutant: what is written as an object stays one.
AsTextNever(v) == v

\* _as_text
AsText(v) == IF v.kind = "object" /\ TextFields(v) # <<>> THEN v.fields[TextFields(v)[1]] ELSE v

\* coerce_value
RECURSIVE CoerceValue(_, _)
CoerceValue(value, schema) ==
    LET v1 == IF "string" \in schema.types THEN AsText(value) ELSE value
        v2 == IF "boolean" \in schema.types /\ v1.kind = "string" /\ IsBooleanWord(v1.text)
              THEN BooleanOf(v1.text) ELSE v1
        v3 == IF "array" \in schema.types /\ v2.kind = "array" /\ schema.items # <<>>
              THEN Arr([i \in DOMAIN v2.items |-> CoerceValue(v2.items[i], schema.items[1])]) ELSE v2
        keys == schema.required \cap ToSet(TextKeys)
        v4 == IF "object" \in schema.types /\ v3.kind = "string" /\ Cardinality(keys) = 1
              THEN Obj(CHOOSE k \in keys : TRUE, v3) ELSE v3
    IN  IF "object" \in schema.types /\ v4.kind = "object"
        THEN [v4 EXCEPT !.fields = [k \in DOMAIN @ |-> IF k \in DOMAIN schema.properties
                                                       THEN CoerceValue(@[k], schema.properties[k]) ELSE @[k]]]
        ELSE v4

----
(* Reading a call list. A reading is a set of at most one.                    *)
Closes(text, kind, from) == {i \in from..Len(text) : text[i] = Tok(kind)}
FirstOf(places) == IF places = {} THEN 0 ELSE Min(places)

\* _parameter_text
ParameterText(text) ==
    LET front == IF text # <<>> /\ text[1] = LineEnd THEN Tail(text) ELSE text
    IN  IF front # <<>> /\ Last(front) = LineEnd THEN Front(front) ELSE front

RECURSIVE ParseParameters(_)
\* _parse_parameters: the earliest close behind which there is a list again.
EndsList(tail) == ParseParameters(tail) # {}
ParseParameters(body) ==
    LET text == Trim(body) IN
    IF text = <<>> THEN {<<>>}
    ELSE IF text[1][1] # "parameter" THEN {}
    ELSE LET close == FirstOf({i \in Closes(body, "/parameter", 1) : EndsList(Behind(body, i))})
             start == SelectInSeq(body, LAMBDA x : x # LineEnd)
         IN  IF close = 0 THEN {}
             ELSE {<<(<<text[1][2], ParameterText(SubSeq(body, start + 1, close - 1))>>)>> \o tail :
                     tail \in ParseParameters(Behind(body, close))}

\* _parse_function: nothing but white space behind its close.
ParseFunction(interior) ==
    LET text  == Trim(interior)
        close == FirstOf({i \in Closes(text, "/function", 1) :
                            Blanks(Behind(text, i)) /\ ParseParameters(Tail(Before(text, i))) # {}})
    IN  IF text = <<>> \/ text[1][1] # "function" \/ close = 0 THEN {}
        ELSE {[name |-> text[1][2], parameters |-> p] : p \in ParseParameters(Tail(Before(text, close)))}

RECURSIVE NextToolCall(_)
\* _next_tool_call, and the list that is read by it again and again.
RECURSIVE ParseToolCalls(_)
ParseToolCalls(xml) ==
    IF Trim(xml) = <<>> THEN {<<>>}
    ELSE UNION {{<<next.call>> \o rest : rest \in ParseToolCalls(next.rest)} :
                    next \in NextToolCall(Trim(xml))}
NextToolCall(xml) ==
    LET interior(i) == SubSeq(xml, 2, i - 1)
        calls    == {i \in Closes(xml, "/tool_call", 2) : ParseFunction(interior(i)) # {}}
        whole    == FirstOf({i \in calls : ParseToolCalls(Behind(xml, i)) # {}})
        fallback == FirstOf({i \in calls : Trim(Behind(xml, i)) # <<>> /\ Trim(Behind(xml, i))[1] = Tok("tool_call")})
        close    == IF whole # 0 THEN whole ELSE fallback
    IN  IF xml[1] # Tok("tool_call") \/ close = 0 THEN {}
        ELSE {[call |-> c, rest |-> Trim(Behind(xml, close))] : c \in ParseFunction(interior(close))}

\* The arguments of a call as finish reads them, or none when it raises.
Arguments(parameters) ==
    LET keys == [i \in DOMAIN parameters |-> parameters[i][1]]
        read == [i \in DOMAIN parameters |-> ParseToolParameter(parameters[i][2], PropertySchema(keys[i]))]
    IN  IF ~IsInjective(keys) \/ \E i \in DOMAIN read : read[i] = {} THEN {}
        ELSE {[i \in DOMAIN keys |-> <<keys[i], CoerceValue(CHOOSE v \in read[i] : TRUE, PropertySchema(keys[i]))>>]}

----
(* What the model writes, in the form of the chat template (engine.py:514).   *)
\* A slip of the pen that the parser tolerates: yes for true, a label for a
\* string of a list, a string for an option of a list.
Slipped(v) ==
    CASE v = Lit("boolean", "true") -> Lit("boolean", "yes")
      [] v.kind = "array" -> Arr([i \in DOMAIN v.items |->
             IF v.items[i].kind = "object" THEN v.items[i].fields["title"] ELSE Obj("label", v.items[i])])
      [] OTHER -> v
ValueText(v) == IF v.kind = "string" THEN v.text ELSE Json(v)
WriteParameter(key, text) == <<(<<"parameter", key>>), LineEnd>> \o text \o <<LineEnd, Tok("/parameter"), LineEnd>>
WriteCall(call) ==
    <<Tok("tool_call"), LineEnd, <<"function", call.name>>, LineEnd>>
    \o FlattenSeq([i \in DOMAIN call.parameters |-> WriteParameter(call.parameters[i][1], call.parameters[i][2])])
    \o <<Tok("/function"), LineEnd, Tok("/tool_call")>>
WriteCalls(calls) == FlattenSeq([i \in DOMAIN calls |-> WriteCall(calls[i]) \o <<LineEnd>>])

CallTexts(call) == [name |-> call.name, parameters |->
                 [i \in DOMAIN call.arguments |->
                    LET a == call.arguments[i]
                    IN  <<a[1], ValueText(IF slips /\ a[1] # "n" THEN Slipped(a[2]) ELSE a[2])>>]]
MeantTexts == [i \in DOMAIN meant |-> CallTexts(meant[i])]

\* finish, of the calls it can read.
FinishCalls ==
    LET read == ParseToolCalls(WriteCalls(MeantTexts))
    IN  IF read = {} THEN [over |-> TRUE, calls |-> {}, arguments |-> <<>>]
        ELSE LET calls == CHOOSE c \in read : TRUE
             IN  [over |-> TRUE, calls |-> {calls}, arguments |-> [i \in DOMAIN calls |->
                      IF calls[i].name = "f" THEN Arguments(calls[i].parameters) ELSE {}]]

----
NotRead == [over |-> FALSE, calls |-> {}, arguments |-> <<>>]
CallsInit == meant = <<>> /\ slips = FALSE /\ reading = NotRead

Glyph == {LineEnd, Tok("word"), Tok("1"), Tok("/parameter"), <<"parameter", "s">>, <<"parameter", "x">>,
          Tok("/function"), Tok("tool_call"), Tok("/tool_call"), <<"function", "f">>}
Meanings(key) == IF key \in {"s", "x"} THEN {Str(<<>>)}
                 ELSE {v \in JsonValues : Valid(v, PropertySchema(key))}
Glyphs1(v) == IF v.kind = "string" THEN Len(v.text) ELSE 0
SumOf(s) == FoldLeft(LAMBDA a, b : a + b, 0, s)
GlyphCount == SumOf([i \in DOMAIN meant |->
                 SumOf([j \in DOMAIN meant[i].arguments |-> Glyphs1(meant[i].arguments[j][2])])])

\* Bound: glyphs are written only where every argument is a string.
OnlyStrings == \A i \in DOMAIN meant : \A j \in DOMAIN meant[i].arguments : meant[i].arguments[j][2].kind = "string"

MeanCall == /\ Len(meant) < MaxCalls /\ (meant = <<>> \/ UNCHANGED slips) /\ slips' \in BOOLEAN
            /\ meant' = Append(meant, [name |-> "f", arguments |-> <<>>])
MeanArgument ==
    /\ meant # <<>> /\ SumOf([i \in DOMAIN meant |-> Len(meant[i].arguments)]) < MaxArguments
    /\ \E key \in DOMAIN Parameters \cup {"x"} : \E v \in Meanings(key) :
         /\ \A i \in DOMAIN Last(meant).arguments : Last(meant).arguments[i][1] # key
         /\ GlyphCount = 0 \/ v.kind = "string"
         /\ meant' = [meant EXCEPT ![Len(meant)].arguments = Append(@, <<key, v>>)]
MeanGlyph ==
    /\ meant # <<>> /\ Last(meant).arguments # <<>> /\ Last(Last(meant).arguments)[2].kind = "string"
    /\ GlyphCount < MaxGlyphs /\ ~slips /\ OnlyStrings
    /\ \E g \in Glyph : meant' = [meant EXCEPT ![Len(meant)].arguments[Len(Last(meant).arguments)][2].text = Append(@, g)]
Mean == ~reading.over /\ (MeanCall \/ ((MeanArgument \/ MeanGlyph) /\ UNCHANGED slips)) /\ UNCHANGED reading
ReadCalls == ~reading.over /\ meant # <<>> /\ reading' = FinishCalls /\ UNCHANGED <<meant, slips>>

CallsNext == Mean \/ ReadCalls

----
Unspaced(text) == SelectSeq(text, LAMBDA x : x # LineEnd)

\* Every closing tag that a value quotes is followed by other text.
Quoted(text) == \A i \in DOMAIN text : text[i][1] \in {"/parameter", "/function", "/tool_call"} =>
                    i < Len(text) /\ text[i + 1] = Tok("word")

\* A parameter without a type is what its text says.
Says(key, v) == IF key = "x" /\ IsJson(Trim(v.text)) THEN ParseJson(Trim(v.text)) ELSE v

(* Calls that were written as the template writes them are read again: no tag *)
(* or text is lost, values that quote tags in running text stay whole, and    *)
(* then every argument is the value meant, slips included (parsing.py:570).   *)
CallsReadBack ==
    reading.over =>
      \E calls \in reading.calls :
        /\ Unspaced(WriteCalls(calls)) = Unspaced(WriteCalls(MeantTexts))
        /\ (\A i \in DOMAIN MeantTexts : \A j \in DOMAIN MeantTexts[i].parameters :
              Quoted(MeantTexts[i].parameters[j][2])) => calls = MeantTexts
        /\ calls = MeantTexts =>
             \A i \in DOMAIN meant : reading.arguments[i] =
                {[j \in DOMAIN meant[i].arguments |->
                    <<meant[i].arguments[j][1], Says(meant[i].arguments[j][1], meant[i].arguments[j][2])>>]}
=============================================================================
