---------------------------- MODULE ResidentTurn ----------------------------
(* engine/forward/chat.py: run_turn over the windows of continue_drafted     *)
(* (cycle.py), with the text decoded from the last anchor on and the         *)
(* reasoning closed for the model when its budget is used up or it stops.    *)
EXTENDS AnswerTurn

CONSTANTS Span    \* IncrementalText.SPAN

ASSUME SpanAssumption == Span \in Nat \ {0}

VARIABLES seen,   \* state["seen"]: tokens of `produced` that were fed
          text,   \* IncrementalText: ids since the anchor, and `fed` of their text
          halt    \* budget_halt

residentTurnVars == <<seen, text, halt>>

ResidentTurnInit == seen = 0 /\ text = [ids |-> <<>>, fed |-> <<>>, any |-> FALSE] /\ halt = FALSE

\* push: the piece, and the anchor moved when the tail ends on a character.
TextPush(t, ids) ==
    LET all == t.ids \o ids
        tail == Decode(all)
        stable == Stable(tail)
    IN  [piece |-> Unseen(t.fed, stable),
         next  |-> IF Len(all) >= Span /\ stable = tail
                   THEN [ids |-> <<>>, fed |-> <<>>, any |-> TRUE]
                   ELSE [ids |-> all, fed |-> stable, any |-> TRUE]]
Flush(t) == IF t.ids = <<>> THEN <<>> ELSE Unseen(t.fed, Decode(t.ids))

\* A window's tokens, trimmed to max_new and to the stop token, and on_accepted.
TakeWindow(emitted, late) ==
    LET all     == produced \o emitted
        new     == SubSeq(all, seen + 1, Len(all))
        hitStop == Last(new) = Stop
        visible == Visible(new)
        push    == TextPush(text, visible)
        fed     == IF visible = <<>> THEN [parser EXCEPT !.out = <<>>] ELSE Feed(parser, push.piece)
        count   == spent + (IF parser.channel = "reasoning" THEN Len(new) ELSE 0)
        budget  == setup.cap > 0 /\ count >= setup.cap
        close   == ~late /\ closed_by = "none" /\ fed.channel = "reasoning" /\ (budget \/ hitStop)
        closing == Feed(fed, ClosingText)
        kept    == Len(all) - (IF hitStop THEN 1 ELSE 0)
    IN  /\ produced' = all /\ spent' = count /\ cancelled' = late
        /\ text' = IF visible = <<>> THEN text ELSE push.next
        /\ parser' = IF close THEN closing ELSE fed
        /\ Publish(Heard(Heard(SoFar, fed.out), IF close THEN closing.out ELSE <<>>))
        /\ seen' = IF close THEN kept + 1 ELSE Len(all)
        /\ closed_by' = IF ~close THEN closed_by ELSE IF budget THEN "budget" ELSE "unterminated"
        /\ halt' = (close /\ MaxNew - (kept + 1) <= 0)
        /\ turnpc' = IF close THEN "inject"
                     ELSE IF hitStop \/ late \/ Len(all) >= MaxNew THEN "over" ELSE "window"

\* The cancel may come while the window is computed.
Accept ==
    /\ turnpc = "window" /\ ~cancelled
    /\ \E emitted \in Pieces(setup.words, Min({2, MaxNew - Len(produced)})), late \in BOOLEAN : TakeWindow(emitted, late)
    /\ UNCHANGED <<setup, verdict, answer>>

\* _apply_inject: a stop token is dropped, the close is appended, even past max_new.
ApplyInject(ids) == Append(IF Last(ids) = Stop THEN Front(ids) ELSE ids, Shut)

\* The cancel is read before the close, and again when no window follows it.
InjectClose ==
    /\ turnpc = "inject"
    /\ \E late, behind \in BOOLEAN :
         /\ produced' = IF late THEN produced ELSE ApplyInject(produced)
         /\ turnpc' = IF late \/ halt \/ Len(produced') >= MaxNew THEN "over" ELSE "window"
         /\ cancelled' = (late \/ (behind /\ turnpc' = "over"))
    /\ UNCHANGED <<setup, spent, closed_by, parser, told, wires, verdict, answer, seen, text, halt>>

CancelBetween ==
    /\ turnpc = "window" /\ ~cancelled /\ cancelled' = TRUE /\ turnpc' = "over"
    /\ UNCHANGED <<setup, produced, spent, closed_by, parser, told, wires, verdict, answer,
                   residentTurnVars>>

\* The rest of run_turn: flush, status, message and the tails of the deltas.
FinishTurn ==
    /\ turnpc = "over" /\ turnpc' = "told"
    /\ LET last   == IF text.any THEN Feed(parser, Flush(text)) ELSE [parser EXCEPT !.out = <<>>]
           cut    == produced = <<>> \/ Last(produced) # Stop
           ended  == IF cancelled THEN [status |-> "cancelled", reason |-> "none"]
                     ELSE IF halt THEN [status |-> "incomplete", reason |-> "reasoning_budget"]
                     ELSE IF cut THEN [status |-> "incomplete", reason |-> "max_new_tokens"]
                     ELSE [status |-> "completed", reason |-> "none"]
           xml    == IF ended.status # "cancelled" /\ UnclosedToolXml(last)
                     THEN [status |-> "incomplete",
                           reason |-> IF ended.reason # "none" THEN ended.reason
                                      ELSE IF cut THEN "max_new_tokens" ELSE "unclosed_tool_call"]
                     ELSE ended
           error  == FinishError(last, xml.status = "completed", setup.choice)
           m      == Message(last, xml.status = "completed" /\ error = "none")
           flushed == Heard(SoFar, last.out)
       IN  /\ parser' = last /\ answer' = m
           /\ verdict' = IF error = "none" THEN xml ELSE [status |-> "incomplete", reason |-> error]
           /\ Publish(Heard(flushed, Tails(flushed.told, m)))
    /\ UNCHANGED <<setup, produced, spent, closed_by, cancelled, residentTurnVars>>

ResidentTurnNext ==
    \/ StartTurn(TRUE) /\ UNCHANGED residentTurnVars
    \/ Accept \/ InjectClose \/ CancelBetween \/ FinishTurn
    \/ ServerFinish /\ UNCHANGED residentTurnVars

ResidentTurnSpec ==
    TurnInit /\ ResidentTurnInit /\ [][ResidentTurnNext]_<<turnVars, residentTurnVars>>
=============================================================================
