------------------------------ MODULE Messages ------------------------------
(* The way of a conversation from a client to the worker: the dialects'      *)
(* converters (anthropic.rs, responses_input), normalize_messages with the   *)
(* pictures of tool results, attach_missing_tool_calls, cap_images, the      *)
(* server's check (api.rs) and the worker's (parsing.py). The text of a part *)
(* is "txt", or "cap" for the caption Droid writes over a picture.           *)
EXTENDS Naturals, Sequences, FiniteSets, SequencesExt, FiniteSetsExt

CONSTANTS Pictures,      \* the sha256 of the images
          MaxImages,     \* MAX_IMAGES
          MaxMessages    \* bound: what a client sends

ASSUME MessagesAssumption == MaxImages \in Nat /\ MaxMessages \in Nat /\ "txt" \notin Pictures /\ "cap" \notin Pictures

VARIABLES sent,      \* the messages of the request, after the dialect's converter
          prepared   \* what prepare made of them

messagesVars == <<sent, prepared>>

Msg(role, parts, calls, id) == [role |-> role, parts |-> parts, calls |-> calls, id |-> id]
User(parts)      == Msg("user", parts, <<>>, "")
Result(id, parts) == Msg("tool", parts, <<>>, id)
Assistant(parts, calls) == Msg("assistant", parts, calls, "")

\* split_text_and_images.
Images(parts) == SelectSeq(parts, LAMBDA p : p \in Pictures)
Texts(parts)  == SelectSeq(parts, LAMBDA p : p \notin Pictures)
IsCaption(text) == text # <<>> /\ Head(text) = "cap" /\ Last(text) = "cap"

----
\* The converters of the dialects.
FlushUser(msgs, pending) == IF pending = <<>> THEN msgs ELSE Append(msgs, User(pending))

\* append_user: tool results inside a user message become messages of their own.
\* A block is a part, or a result as a message.
AppendUser(msgs, blocks) ==
    LET step(s, b) == IF b.role = "tool"
                      THEN [msgs |-> Append(FlushUser(s.msgs, s.pending), b), pending |-> <<>>]
                      ELSE [s EXCEPT !.pending = @ \o b.parts]
        end == FoldLeft(step, [msgs |-> msgs, pending |-> <<>>], blocks)
    IN  FlushUser(end.msgs, end.pending)

\* append_assistant_tool_call: to the last message if that is an assistant with
\* calls or without text, else in a message of its own.
AppendCall(msgs, id) ==
    IF msgs # <<>> /\ Last(msgs).role = "assistant" /\ (Last(msgs).calls # <<>> \/ Last(msgs).parts = <<>>)
    THEN [msgs EXCEPT ![Len(msgs)].calls = Append(@, id)]
    ELSE Append(msgs, Assistant(<<>>, <<id>>))

\* append_user_part.
AppendPart(msgs, part) ==
    IF msgs # <<>> /\ Last(msgs).role = "user"
    THEN [msgs EXCEPT ![Len(msgs)].parts = Append(@, part)]
    ELSE Append(msgs, User(<<part>>))

----
\* tool_followup_images: a user message that only carries pictures of a result.
IsFollowup(parts) == IF Images(parts) = <<>> THEN IsCaption(Texts(parts))
                     ELSE Texts(parts) = <<>> \/ IsCaption(Texts(parts))

FlushImages(s) == [s EXCEPT !.out = IF s.images = <<>> THEN @ ELSE Append(@, User(s.images)),
                            !.images = <<>>, !.afterTool = FALSE]

\* Mutant: pictures in front of a message that is not a user's are forgotten.
NormalizeLossy(s, m) ==
    CASE m.role = "tool" ->
           [s EXCEPT !.out = Append(@, Result(m.id, Texts(m.parts))),
                     !.images = @ \o Images(m.parts), !.afterTool = TRUE]
      [] m.role = "user" /\ s.afterTool /\ IsFollowup(m.parts) ->
           [s EXCEPT !.images = @ \o Images(m.parts)]
      [] OTHER -> [s EXCEPT !.out = Append(@, m), !.images = <<>>, !.afterTool = FALSE]

\* normalize_messages: one message. The system message goes to the front.
Normalize(s, m) ==
    CASE m.role = "tool" ->
           [s EXCEPT !.out = Append(@, Result(m.id, Texts(m.parts))),
                     !.images = @ \o Images(m.parts), !.afterTool = TRUE]
      [] m.role = "user" /\ s.afterTool /\ IsFollowup(m.parts) ->
           [s EXCEPT !.images = @ \o Images(m.parts)]
      [] m.role = "system" ->
           LET f == FlushImages(s)
           IN  IF f.system THEN f ELSE [f EXCEPT !.out = <<m>> \o @, !.system = TRUE]
      [] OTHER -> LET f == FlushImages(s) IN [f EXCEPT !.out = Append(@, m)]

Normalized(msgs) ==
    FlushImages(FoldLeft(Normalize, [out |-> <<>>, images |-> <<>>, afterTool |-> FALSE,
                                     system |-> FALSE], msgs)).out

\* attach_missing_tool_calls: a result without its call gives it back to the last assistant.
Attach(s, i) ==
    LET m == s.msgs[i] IN
    CASE m.role = "assistant" -> [s EXCEPT !.last = i, !.pending = @ \cup Range(m.calls)]
      [] m.role = "user"      -> [s EXCEPT !.last = 0, !.pending = {}]
      [] m.role = "tool" /\ m.id \in s.pending ->
           [s EXCEPT !.pending = @ \ {m.id}, !.completed = @ \cup {m.id}]
      [] m.role = "tool" /\ m.id \notin s.pending \cup s.completed /\ s.last # 0 ->
           [s EXCEPT !.msgs[s.last].calls = Append(@, m.id), !.completed = @ \cup {m.id}]
      [] OTHER -> s
Attached(msgs) == FoldLeft(Attach, [msgs |-> msgs, pending |-> {}, completed |-> {}, last |-> 0],
                           [i \in 1..Len(msgs) |-> i]).msgs

\* image_hashes: each once, where it comes first; and the newest of them.
AllImages(msgs) == FlattenSeq([i \in DOMAIN msgs |-> Images(msgs[i].parts)])
Hashes(msgs) == FoldLeft(LAMBDA h, p : IF Contains(h, p) THEN h ELSE Append(h, p), <<>>, AllImages(msgs))
Kept(msgs) == LET h == Hashes(msgs)
              IN  {h[i] : i \in {j \in DOMAIN h : j + MaxImages > Len(h)}}
CapImages(msgs) ==
    [i \in DOMAIN msgs |-> [msgs[i] EXCEPT
        !.parts = SelectSeq(@, LAMBDA p : p \in Pictures => p \in Kept(msgs))]]

\* prepare, up to the messages.
PrepareMessages(msgs) == CapImages(Attached(Normalized(msgs)))

----
HasUser(msgs) == \E i \in DOMAIN msgs : msgs[i].role = "user"
Distinct(ids, used) == \A i, j \in DOMAIN ids : ids[i] \notin used /\ (ids[i] = ids[j] => i = j)

\* The end of prepare: every result has a call before it, every call a result.
ServerAccepts(msgs) ==
    LET step(s, m) ==
          IF m.role = "tool"
          THEN [s EXCEPT !.ok = @ /\ m.id \in s.pending, !.pending = @ \ {m.id}]
          ELSE [ok |-> s.ok /\ Distinct(m.calls, s.used), used |-> s.used \cup Range(m.calls),
                pending |-> s.pending \cup Range(m.calls)]
        end == FoldLeft(step, [ok |-> TRUE, used |-> {}, pending |-> {}], msgs)
    IN  HasUser(msgs) /\ end.ok /\ end.pending = {}

\* normalize_parts: a picture of anybody else is refused.
PicturesByUsers(msgs) == \A i \in DOMAIN msgs : msgs[i].role # "user" => Images(msgs[i].parts) = <<>>

\* validate_messages: and nothing stands between a call and its results.
WorkerAccepts(msgs) ==
    LET step(s, m) ==
          IF m.role = "tool"
          THEN [s EXCEPT !.ok = @ /\ m.id \in s.pending, !.pending = @ \ {m.id}]
          ELSE [ok |-> s.ok /\ s.pending = {} /\ Distinct(m.calls, s.used),
                used |-> s.used \cup Range(m.calls), pending |-> Range(m.calls)]
        end == FoldLeft(step, [ok |-> TRUE, used |-> {}, pending |-> {}], msgs)
    IN  /\ HasUser(msgs) /\ end.ok /\ end.pending = {}
        /\ \A i \in DOMAIN msgs : msgs[i].role = "system" => i = 1
        /\ PicturesByUsers(msgs)

----
MessagesInit == sent = <<>> /\ prepared = <<>>

\* A client writes its history in a dialect. Droid drops calls, and writes a
\* captioned picture between results. (The first picture it shows is always the
\* same one, for nothing depends on which it is.)
CallIds == {"c1", "c2"}
Send(msgs) ==
    /\ sent' = msgs /\ UNCHANGED prepared
    /\ Len(msgs) <= MaxMessages
    /\ \A i \in DOMAIN msgs : Len(msgs[i].parts) <= 2 /\ IsInjective(msgs[i].calls)
    /\ AllImages(msgs) # <<>> => Head(AllImages(msgs)) = CHOOSE p \in Pictures : TRUE
    /\ \A i \in DOMAIN msgs : msgs[i].role = "tool" => \E j \in 1..i - 1 : msgs[j].role = "assistant"
SayChat == \E m \in {Msg("system", <<"txt">>, <<>>, "")}
                    \cup {User(p) : p \in {<<"txt">>} \cup {<<"cap", i>> : i \in Pictures}}
                    \cup {Assistant(<<"txt">>, c) : c \in {<<>>, <<"c1">>, <<"c1", "c2">>}}
                    \cup {Result("c1", <<"txt", i>>) : i \in Pictures} \cup {Result("c2", <<"txt">>)} :
             Send(Append(sent, m))
SayMessages == \E i \in Pictures : \E next \in {Result("c2", <<"txt">>), User(<<i>>)} :
                 Send(AppendUser(sent, <<Result("c1", <<i>>), next>>))
SayItem == sent # <<>> /\ (\/ \E id \in CallIds : Send(AppendCall(sent, id))
                           \/ \E part \in Pictures : Send(AppendPart(sent, part)))

\* prepare, of a request that was sent whole.
Prepare ==
    /\ sent # <<>> /\ prepared = <<>>
    /\ prepared' = PrepareMessages(sent) /\ UNCHANGED sent

MessagesNext == (prepared = <<>> /\ (SayChat \/ SayMessages \/ SayItem)) \/ Prepare

----
\* A result comes after the assistant that made its call, with nothing between
\* them but results and the pictures that follow results.
ResultsFollow(msgs) ==
    \A i \in DOMAIN msgs : msgs[i].role = "tool" =>
        \E j \in 1..i - 1 :
            /\ msgs[j].role = "assistant"
            /\ \A k \in 1..Len(msgs) : Contains(msgs[k].calls, msgs[i].id) => k = j
            /\ \A k \in j + 1..i - 1 :
                 msgs[k].role = "tool" \/ (msgs[k].role = "user" /\ IsFollowup(msgs[k].parts) /\ k > j + 1)

(* What the server accepts the worker accepts too, if nothing stands between  *)
(* a call and its results in the client's history but the pictures Droid puts *)
(* there; and the prompt has the client's pictures, in the client's order,    *)
(* the newest MaxImages of them, wherever they were moved (api.rs:304).       *)
RelayedWhole ==
    prepared # <<>> /\ ServerAccepts(prepared) /\ ResultsFollow(sent) =>
      /\ WorkerAccepts(prepared)
      /\ LET keep == ToSet(AllImages(prepared))
         IN  /\ AllImages(prepared) = SelectSeq(AllImages(sent), LAMBDA p : p \in keep)
             /\ Cardinality(keep) = Min({MaxImages, Cardinality(ToSet(AllImages(sent)))})
=============================================================================
