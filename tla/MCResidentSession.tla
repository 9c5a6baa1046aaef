-------------------------- MODULE MCResidentSession --------------------------
(* Small instances of ResidentSession for TLC.                              *)
EXTENDS ResidentSession

CONSTANTS a, b

TwoTokens == {a, b}
CloseOne  == <<a>>

\* A bound: behind a turn that left marks, everything is of prompts of up to
\* four tokens; and what follows a mark that misled is not explored.
Explored ==
    /\ ~misled
    /\ left # {} => /\ DOMAIN marks \subseteq 1..3 /\ Len(pages) <= 5
                    /\ job # None => Len(job.ids) <= 4
=============================================================================
