----------------------------- MODULE DirtyRect -----------------------------
(***************************************************************************)
(* The bounding box that update_screen (opsaivncserver.c) keeps while it   *)
(* compares a captured frame with the previous one, and the region of the  *)
(* screen that rfbMarkRectAsModified (LibVNCServer main.c) makes of it.    *)
(*                                                                         *)
(* A pixel is a pair <<x, y>>.  A region, sraRegion in the code, is a set  *)
(* of pixels.  sraRgnCreateRect does not look at the order of its corners, *)
(* so a region can also hold a rectangle whose top is below its bottom.    *)
(* Such a rectangle covers no pixel, matches no requested region and is    *)
(* never subtracted, but it makes the region's list non-empty: the element *)
(* Inverted stands for it.                                                 *)
(***************************************************************************)
EXTENDS Integers

CONSTANTS Width,    \* vinfo.xres
          Height    \* vinfo.yres

\* The sentinel 9999 of the code must lie beyond every coordinate.
NoCoord == 9999

ASSUME SizeAssumption ==
  /\ Width \in 1..(NoCoord - 1)
  /\ Height \in 1..(NoCoord - 1)

Pixels == (0..(Width - 1)) \X (0..(Height - 1))

Inverted == <<-1, -1>>

Regions == SUBSET (Pixels \cup {Inverted})

Lesser(a, b) == IF a < b THEN a ELSE b
Greater(a, b) == IF a < b THEN b ELSE a

-----------------------------------------------------------------------------
(* The box: struct varblock_t. *)

EmptyBlock == [min_i |-> NoCoord, min_j |-> NoCoord, max_i |-> -1, max_j |-> -1]

\* Defect: the right edge is put behind the pixel.
TrackPastEdge(b, x, y) ==
  IF x < b.min_i
  THEN [b EXCEPT !.min_i = x]
  ELSE [b EXCEPT !.max_i = Greater(x + 1, @),
                 !.max_j = Greater(y, @),
                 !.min_j = IF y <= b.max_j THEN Lesser(y, @) ELSE @]

\* Defect: the top edge is set only by a pixel above all recorded ones.
TrackAboveOnly(b, x, y) ==
  IF x < b.min_i
  THEN [b EXCEPT !.min_i = x]
  ELSE [b EXCEPT !.max_i = Greater(x, @),
                 !.max_j = Greater(y, @),
                 !.min_j = IF y < b.max_j THEN Lesser(y, @) ELSE @]

\* One changed pixel.  A pixel left of every earlier one moves only the left
\* edge; its row and its column's part in the right edge are not recorded.
Track(b, x, y) ==
  IF x < b.min_i
  THEN [b EXCEPT !.min_i = x]
  ELSE [b EXCEPT !.max_i = Greater(x, @),
                 !.max_j = Greater(y, @),
                 !.min_j = IF y <= b.max_j THEN Lesser(y, @) ELSE @]

\* rfbMarkRectAsModified: order the corners, clip the low corner at zero and
\* the high one at the screen's size, and give up only if they coincide.
MarkRect(x1, y1, x2, y2) ==
  LET l == Greater(0, Lesser(x1, x2))
      r == Lesser(Width, Greater(x1, x2))
      t == Greater(0, Lesser(y1, y2))
      d == Lesser(Height, Greater(y1, y2))
  IN  IF l = r \/ t = d THEN {}
      ELSE IF l > r \/ t > d THEN {Inverted}
      ELSE {p \in Pixels : l <= p[1] /\ p[1] < r /\ t <= p[2] /\ p[2] < d}

\* The end of update_screen: nothing is marked when no pixel changed.
Marked(b) ==
  IF b.min_i >= NoCoord THEN {}
  ELSE MarkRect(b.min_i, b.min_j,
                (IF b.max_i < 0 THEN b.min_i ELSE b.max_i) + 2,
                (IF b.max_j < 0 THEN b.min_j ELSE b.max_j) + 1)

-----------------------------------------------------------------------------
(* The whole scan, in the order of the two nested loops. *)

PixelAt(i) == <<i % Width, i \div Width>>

\* Defect: the loops are exchanged.
ScanByColumns(changed) ==
  LET box[i \in 0..(Width * Height)] ==
        IF i = 0 THEN EmptyBlock
        ELSE LET p == <<(i - 1) \div Height, (i - 1) % Height>>
             IN  IF p \in changed THEN Track(box[i - 1], p[1], p[2])
                                  ELSE box[i - 1]
  IN  box[Width * Height]

Scan(changed) ==
  LET box[i \in 0..(Width * Height)] ==
        IF i = 0 THEN EmptyBlock
        ELSE LET p == PixelAt(i - 1)
             IN  IF p \in changed THEN Track(box[i - 1], p[1], p[2])
                                  ELSE box[i - 1]
  IN  box[Width * Height]

\* The region that one call of update_screen marks when the pixels in
\* changed differ from the previous frame.
Dirty(changed) == Marked(Scan(changed))
=============================================================================
