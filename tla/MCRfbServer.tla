---------------------------- MODULE MCRfbServer ----------------------------
(* Model-checking instance: two words, one row of pixels, requests for the  *)
(* whole screen or for its first column, viewers that draw the cursor       *)
(* themselves and viewers that do not.  The cursor is drawn on the first    *)
(* pixel and its place is two pixels wide.                                  *)
EXTENDS RfbServer

MCToRfb == [w \in {0, 1} |-> 10 + w]
MCEncodingLists ==
  {[shape |-> e = "shape", position |-> e = "position", once |-> e = "once"] :
     e \in {"shape", "position", "once"}}
MCNoEncodings == {}
MCCursorRect == {p \in Pixels : p[1] \in {0, 1}}
MCCursorMask == {p \in Pixels : p[1] = 0}
MCRequestRects == {Pixels, {p \in Pixels : p[1] = 0}}
=============================================================================
