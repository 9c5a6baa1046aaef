------------------------------ MODULE Pictures ------------------------------
(* Pictures in a prompt: each is embedded once and stands in the prompt as    *)
(* ids of this process, between a start and an end token. Rows of the cache   *)
(* of attention are reused where the ids of a prompt agree with those of an   *)
(* earlier one, so that an id must never stand for two pictures; what the     *)
(* server keeps for the next turn has no ids in it (qwasar_runtime/vision.py, *)
(* engine.py, engine/forward/vision.py, vision_tower.py, chat.py, worker.py). *)
(* A prompt is a sequence of parts, "text" or the name of a picture.          *)
EXTENDS Naturals, Sequences, FiniteSets, SequencesExt, FiniteSetsExt

CONSTANTS Photos,       \* the pictures, by their hash
          PatchesOf,    \* how many ids each needs
          LruEntries,   \* QWASAR_IMAGE_CACHE
          MaxPhotos,    \* MAX_IMAGES
          PromptParts,  \* the longest prompt, in parts
          LastId,       \* a bound on the ids a process gives out
          MaxTapes      \* a bound on the tapes the generator keeps beside the last

VARIABLES engine, embedded, nextId, tapes, showing
photoVars == <<engine, embedded, nextId, tapes, showing>>

\* A picture is an image of one patch or more; the cache has a size.
ASSUME PhotosAssumption ==
    /\ "text" \notin Photos /\ PatchesOf \in [Photos -> Nat \ {0}] /\ LruEntries \in Nat \ {0}
    /\ PromptParts \in Nat

FirstId == 10                             \* MM_TOKEN_BASE
TextToken == 1   StartToken == 2   EndToken == 3
PhotosIn(parts) == {parts[i] : i \in DOMAIN parts} \ {"text"}

PhotosInit ==
    /\ engine \in {"resident", "rollback"}
    /\ embedded = <<>> /\ nextId = FirstId /\ tapes = {} /\ showing = <<>>

----
\* _resolve_images: each picture once, in the order of the prompt.
AddPart(seen, x) == IF x = "text" \/ \E i \in DOMAIN seen : seen[i] = x THEN seen ELSE Append(seen, x)
EachOnce(parts) ==
    LET unique[n \in 0..Len(parts)] == IF n = 0 THEN <<>> ELSE AddPart(unique[n - 1], parts[n])
    IN  unique[Len(parts)]

IsEmbedded(items, photo) == \E i \in DOMAIN items : items[i].photo = photo
PlaceOf(items, photo) == CHOOSE i \in DOMAIN items : items[i].photo = photo
RecordOf(items, photo) == items[PlaceOf(items, photo)]

\* EmbeddingCache.get and put, Worker._embed: a record that is used goes to the
\* end; past its size the rollback engine forgets the first. The other never does.
Touched(items, record) ==
    LET others == IF IsEmbedded(items, record.photo) THEN RemoveAt(items, PlaceOf(items, record.photo)) ELSE items
        moved  == Append(others, record)
    IN  IF engine = "rollback" /\ Len(moved) > LruEntries THEN Tail(moved) ELSE moved

\* embed_image: a row and an id for each patch, with ids never used before.
NewRecord(photo, next) == [photo |-> photo, ids |-> [k \in 1..PatchesOf[photo] |-> next + k - 1]]

\* embed: the record that is known, or a new one.
Embed(state, photo) ==
    LET known  == IsEmbedded(state.items, photo)
        record == IF known THEN RecordOf(state.items, photo) ELSE NewRecord(photo, state.next)
    IN  [items |-> Touched(state.items, record), used |-> Append(state.used, record),
         next  |-> IF known THEN state.next ELSE state.next + PatchesOf[photo]]
BeforeTurn == [items |-> embedded, next |-> nextId, used |-> <<>>]
EmbedAll(photos) ==
    LET state[n \in 0..Len(photos)] == IF n = 0 THEN BeforeTurn ELSE Embed(state[n - 1], photos[n])
    IN  state[Len(photos)]

\* render: the ids of a picture take its place.
TokensOf(part, used) ==
    IF part = "text" THEN <<TextToken>>
    ELSE <<StartToken>> \o RecordOf(used, part).ids \o <<EndToken>>
RenderParts(parts, used) == FlattenSeq([i \in DOMAIN parts |-> TokensOf(parts[i], used)])

\* _vision_hooks, mix_rows: an id is looked up among those of this request;
\* every other token has its row in the table of text.
PlacedRows(used) ==
    UNION {{[id |-> used[i].ids[k], row |-> <<used[i].photo, k>>] : k \in DOMAIN used[i].ids} : i \in DOMAIN used}
RowFor(id, placed) == IF id < FirstId THEN <<"text", id>> ELSE (CHOOSE x \in placed : x.id = id).row
MadeNow(tokens, old, placed) ==
    [i \in 1..(Len(tokens) - Len(old)) |->
        [id |-> tokens[Len(old) + i], row |-> RowFor(tokens[Len(old) + i], placed)]]

\* canonical_tape
IdsOf(tape) == [i \in DOMAIN tape |-> tape[i].id]
RowsOf(tape) == [i \in DOMAIN tape |-> tape[i].row]
CanonicalTape(tokens) == [i \in DOMAIN tokens |-> IF tokens[i] < FirstId THEN tokens[i] ELSE 0]

\* Mutant: pictures that look the same in the tape are taken for the same.
SharedByForm(tape, tokens) ==
    LET form == CanonicalTape(tokens)
        held == CanonicalTape(IdsOf(tape))
    IN  Max({n \in 0..Min({Len(tape), Len(tokens)}) : SubSeq(form, 1, n) = SubSeq(held, 1, n)})

(* What is reused: the longest tape of which a beginning is that of the       *)
(* prompt. The resident session has one tape, the generator many.             *)
SharedWith(tape, tokens) ==
    LET same == {n \in 0..Min({Len(tape), Len(tokens)}) : \A i \in 1..n : tape[i].id = tokens[i]} IN Max(same)
Reused(tokens) ==
    IF tapes = {} THEN <<>>
    ELSE LET tape == CHOOSE r \in tapes : \A s \in tapes : SharedWith(s, tokens) <= SharedWith(r, tokens)
         IN  SubSeq(tape, 1, SharedWith(tape, tokens))

\* The generator forgets a tape when it needs the pages, the session at once.
LeftOver == IF engine = "resident" THEN {{}} ELSE {left \in SUBSET tapes : Cardinality(left) <= MaxTapes}

(* One turn. The data of a picture is checked before it is embedded, but not  *)
(* when the rollback engine knows it; the first that is missing or wrong      *)
(* refuses the request, and those before it stay embedded.                    *)
Turn(parts, unsound) ==
    LET asked == EachOnce(parts)
        bad   == {i \in DOMAIN asked : asked[i] \in unsound
                                       /\ ~(engine = "rollback" /\ IsEmbedded(embedded, asked[i]))}
        done  == EmbedAll(asked)
        tokens == RenderParts(parts, done.used)
        old   == Reused(tokens)
        tape  == old \o MadeNow(tokens, old, PlacedRows(done.used))
    IN  /\ Len(asked) <= MaxPhotos /\ done.next <= LastId
        /\ IF bad # {}
           THEN /\ LET some == EmbedAll(SubSeq(asked, 1, Min(bad) - 1))
                   IN  embedded' = some.items /\ nextId' = some.next
                /\ UNCHANGED <<tapes, showing>>
           ELSE /\ embedded' = done.items /\ nextId' = done.next
                /\ \E left \in LeftOver : tapes' = left \cup {tape}
                /\ showing' = [parts |-> parts, tape |-> tape]
        /\ UNCHANGED engine

AskTurn == \E n \in 1..PromptParts : \E parts \in [1..n -> Photos \cup {"text"}] :
             \E bad \in {{}} \cup {{x} : x \in PhotosIn(parts)} : Turn(parts, bad)

\* The process dies; the next one gives out the same ids again.
VisionRestart ==
    /\ embedded' = <<>> /\ nextId' = FirstId /\ tapes' = {} /\ showing' = <<>>
    /\ UNCHANGED engine

PhotosNext == AskTurn \/ VisionRestart
PhotosSpec == PhotosInit /\ [][PhotosNext]_photoVars

----
MeaningOf(part) ==
    IF part = "text" THEN <<<<"text", TextToken>>>>
    ELSE <<<<"text", StartToken>>>> \o [k \in 1..PatchesOf[part] |-> <<part, k>>] \o <<<<"text", EndToken>>>>
Meaning(parts) == FlattenSeq([i \in DOMAIN parts |-> MeaningOf(parts[i])])

FormOf(rows) == [i \in DOMAIN rows |-> IF rows[i][1] = "text" THEN rows[i][2] ELSE 0]
ShowsItsPictures ==
    showing # <<>> => /\ RowsOf(showing.tape) = Meaning(showing.parts)
                      /\ CanonicalTape(IdsOf(showing.tape)) = FormOf(Meaning(showing.parts))
NoIdOfTwo == \A i, j \in DOMAIN embedded : i # j => ToSet(embedded[i].ids) \cap ToSet(embedded[j].ids) = {}
CacheBounded == engine = "rollback" => Len(embedded) <= LruEntries

(* Whatever was embedded, forgotten and embedded again, the model sees at     *)
(* each place of a prompt the picture that the prompt has there, in rows made  *)
(* now or reused; and what the server kept of a turn has the form that every  *)
(* later prompt of those parts has, in this process or another                *)
(* (qwasar_runtime/vision.py:7 "so repeated turns reuse the same dynamic      *)
(* token IDs").                                                               *)
OwnPictures == ShowsItsPictures /\ NoIdOfTwo /\ CacheBounded
=============================================================================
