---------------------------- MODULE MCRectSplit -----------------------------
(* The instance of RectSplit: every picture of a small screen for a viewer *)
(* that knows the marker, and every small size, whatever the picture, for  *)
(* one that does not, with limits that are as small.                       *)
EXTENDS RectSplit

All(w, h) == [(0..(w - 1)) \X (0..(h - 1)) -> {"black", "white"}]

Picture(rects, w, h) ==
  [update |-> rects, pictures |-> All(w, h), encodings |-> {"Tight"}, lastRect |-> TRUE]
Size(rects) ==
  [update |-> rects, pictures |-> {<<>>},
   encodings |-> {"Raw", "CoRRE", "Lines", "Tight"}, lastRect |-> FALSE]

MCCases ==
  {Picture(<<Rect(0, 0, 3, 5)>>, 3, 5), Picture(<<Rect(0, 0, 2, 7)>>, 2, 7),
   Picture(<<Rect(0, 0, 4, 4)>>, 4, 4),
   Picture(<<Rect(0, 0, 1, 1), Rect(1, 0, 3, 3)>>, 4, 3)}
    \cup {Size(<<Rect(0, 0, w, h)>>) : w, h \in 1..13}
    \cup {Size(<<Rect(0, 0, w, 3), Rect(0, 3, 1, h)>>) : w, h \in 1..13}

MCGrey == [c \in {"black", "white"} |-> IF c = "black" THEN "grey" ELSE "white"]
=============================================================================
