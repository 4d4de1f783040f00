------------------------------- MODULE MCFeed -------------------------------
(* Four bugs in batches of two and room to track two: bug 1 is the baseline, and the filter    *)
(* lets through all the others or only the last; four news items on pages of two.              *)
EXTENDS Feed

AllOrLast == {{2, 3, 4}, {4}}
=============================================================================
