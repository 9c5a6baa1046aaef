---------------------------- MODULE RollbackTurn ----------------------------
(* src/qwasar_runtime/engine.py: Engine.generate over the batches of events  *)
(* of the ExLlama generator. The reasoning is closed for the model by        *)
(* stopping the job and starting another one on the tape and the close.      *)
EXTENDS AnswerTurn

VARIABLES serial,   \* the generator's job: ids with text still held, its text, tokens left
          final     \* the terminal event: none, stop, max, or synthetic

rollbackTurnVars == <<serial, final>>

NewJob(left) == [ids |-> <<>>, fed |-> <<>>, left |-> left]
RollbackTurnInit == serial = NewJob(MaxNew) /\ final = "none"

\* What max_tokens leaves to the job that continues a tape.
Leftover(tape) == MaxNew - Len(tape)

\* One event of a batch; the rest of the batch is dropped once a job was stopped.
\* `included`: whether the ids of an end event hold the end token.
Hear(included, s, id) ==
    LET eos    == IF id = Stop THEN "stop" ELSE IF s.serial.left = 1 THEN "max" ELSE "none"
        ids    == IF id = Stop /\ ~included THEN <<>> ELSE <<id>>
        known  == IF id = Stop THEN s.serial.ids ELSE Append(s.serial.ids, id)
        tail   == Decode(known)
        stable == IF eos = "none" THEN Stable(tail) ELSE tail
        fed    == Feed(s.parser, Unseen(s.serial.fed, stable))
        count  == s.spent + (IF s.parser.channel = "reasoning" THEN Len(ids) ELSE 0)
        budget == setup.cap > 0 /\ count >= setup.cap
        close  == s.closed_by = "none" /\ fed.channel = "reasoning" /\ (budget \/ eos = "stop")
        shut   == Feed(fed, ClosingText)
        tape   == s.tape \o ids
        kept   == Append(Visible(tape), Shut)
    IN  IF s.stopped THEN s
        ELSE IF ~close THEN [s EXCEPT !.tape = tape, !.spent = count, !.parser = fed, !.heard = Heard(@, fed.out),
                                !.final = eos,
                                !.serial = [ids |-> known, fed |-> stable, left |-> @.left - 1]]
        ELSE [tape |-> kept, spent |-> count, parser |-> shut, heard |-> Heard(Heard(s.heard, fed.out), shut.out),
              final |-> IF Leftover(kept) <= 0 THEN "synthetic" ELSE "none",
              serial |-> NewJob(Leftover(kept)),
              closed_by |-> IF budget THEN "budget" ELSE "unterminated", stopped |-> TRUE]

BeforeBatch == [tape |-> produced, spent |-> spent, parser |-> parser, heard |-> SoFar,
                final |-> final, serial |-> serial, closed_by |-> closed_by, stopped |-> FALSE]
HearAll(included, batch) ==
    LET after[n \in 0..Len(batch)] == IF n = 0 THEN BeforeBatch ELSE Hear(included, after[n - 1], batch[n])
    IN  after[Len(batch)]

\* One batch of iterate. The cancel may come while it is computed or handled.
Iterate ==
    /\ turnpc = "window" /\ ~cancelled
    /\ \E batch \in Pieces(setup.words, Min({2, serial.left})), included \in BOOLEAN, late \in BOOLEAN :
         LET s == HearAll(included, batch)
         IN  /\ ~included => Last(batch) = Stop
             /\ produced' = s.tape /\ spent' = s.spent /\ parser' = s.parser /\ final' = s.final
             /\ serial' = s.serial /\ closed_by' = s.closed_by /\ cancelled' = late
             /\ Publish(s.heard)
             /\ turnpc' = IF s.final # "none" \/ late THEN "over" ELSE "window"
    /\ UNCHANGED <<setup, verdict, answer>>

\* The cancel is seen at the head of the loop, or before the first job.
CancelAtHead ==
    /\ turnpc = "window" /\ ~cancelled /\ cancelled' = TRUE /\ turnpc' = "over"
    /\ UNCHANGED <<setup, produced, spent, closed_by, parser, told, wires, verdict, answer,
                   rollbackTurnVars>>

\* The rest of generate: the sequence, the status, the message and its tails. A
\* call that is required and missing is no incomplete turn here but a failed one.
FinishGenerate ==
    /\ turnpc = "over" /\ turnpc' = "told"
    /\ LET sequence == IF ~cancelled /\ final = "stop" /\ (produced = <<>> \/ Last(produced) # Stop)
                       THEN Append(produced, Stop) ELSE produced
           ended == IF cancelled THEN [status |-> "cancelled", reason |-> "none"]
                    ELSE IF final = "synthetic" THEN [status |-> "incomplete", reason |-> "reasoning_budget"]
                    ELSE IF final = "max" THEN [status |-> "incomplete", reason |-> "max_new_tokens"]
                    ELSE IF parser.channel = "reasoning"
                         THEN [status |-> "incomplete", reason |-> "unterminated_reasoning"]
                    ELSE [status |-> "completed", reason |-> "none"]
           xml   == IF ~cancelled /\ UnclosedToolXml(parser)
                    THEN [status |-> "incomplete",
                          reason |-> IF ended.reason # "none" THEN ended.reason ELSE "unclosed_tool_call"]
                    ELSE ended
           error == FinishError(parser, xml.status = "completed", setup.choice)
           m     == Message(parser, xml.status = "completed" /\ error = "none")
       IN  /\ produced' = sequence
           /\ IF error = "missing"
              THEN /\ verdict' = [status |-> "failed", reason |-> "generation_failed"]
                   /\ UNCHANGED <<answer, told, wires>>
              ELSE /\ verdict' = IF error = "none" THEN xml ELSE [status |-> "incomplete", reason |-> error]
                   /\ answer' = m /\ Publish(Heard(SoFar, Tails(told, m)))
    /\ UNCHANGED <<setup, spent, closed_by, cancelled, parser, rollbackTurnVars>>

RollbackTurnNext ==
    \/ \E thinking \in BOOLEAN : StartTurn(thinking) /\ UNCHANGED rollbackTurnVars
    \/ Iterate \/ CancelAtHead \/ FinishGenerate
    \/ ServerFinish /\ UNCHANGED rollbackTurnVars

RollbackTurnSpec ==
    TurnInit /\ RollbackTurnInit /\ [][RollbackTurnNext]_<<turnVars, rollbackTurnVars>>
=============================================================================
