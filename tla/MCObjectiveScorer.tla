------------------------- MODULE MCObjectiveScorer -------------------------
(* Short logs of two sources, scored for kill chains of two and of three   *)
(* steps, with and without a window, by source or regardless of it.        *)
EXTENDS ObjectiveScorer

CONSTANTS s1, s2

MCSources == {s1, s2}

MCObjectives ==
  {[steps |-> 3, same_source |-> TRUE, within |-> 1],
   [steps |-> 2, same_source |-> TRUE, within |-> NoWindow],
   [steps |-> 2, same_source |-> FALSE, within |-> NoWindow],
   [steps |-> 2, same_source |-> FALSE, within |-> 0]}

(* Events of one or of two steps, one without a source and one without a   *)
(* time; the last two match a signal.                                      *)
MCEvents ==
  [source : {s1}, ts : 0 .. 2, steps : {{1}, {2}}, signal : {FALSE}]
    \cup [source : {s1}, ts : {1, 2}, steps : {{3}}, signal : {FALSE}]
    \cup [source : {s1}, ts : {1}, steps : {{1, 2}}, signal : {FALSE}]
    \cup [source : {s2}, ts : {1}, steps : {{1}, {2}}, signal : {FALSE}]
    \cup [source : {NoSource}, ts : {1}, steps : {{1, 2}}, signal : {TRUE}]
    \cup [source : {s1}, ts : {NoTime}, steps : {{2}}, signal : {TRUE}]
=============================================================================
