------------------------- MODULE MCTimelineStream -------------------------
(* TimelineStream on small instances: with limits of two to four every      *)
(* limit of the code is reached by a timeline of four or five events.       *)
EXTENDS TimelineStream

CONSTANT c1

MCClient  == {c1}
=============================================================================
