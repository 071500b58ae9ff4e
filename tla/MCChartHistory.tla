--------------------------- MODULE MCChartHistory ---------------------------
(* Instances of ChartHistory for TLC.                                       *)
EXTENDS ChartHistory

(* As _DECAY_SEGMENTS: the lengths add up to the window, and the short one has *)
(* more points for its length.                                               *)
DecaySegments == <<[len |-> 1, weight |-> 1], [len |-> 2, weight |-> 1]>>

(* Three of them, again half of the points for the first. *)
LongSegments == <<[len |-> 1, weight |-> 2], [len |-> 2, weight |-> 1],
                  [len |-> 2, weight |-> 1]>>
=============================================================================
