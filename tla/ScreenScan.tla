----------------------------- MODULE ScreenScan -----------------------------
(***************************************************************************)
(* update_screen (opsaivncserver.c) as the loop it is: pixel by pixel, in  *)
(* raster order, against a frame that differs from the previous one in an  *)
(* arbitrary set of pixels.  The two frame buffers are represented by that *)
(* set: differing is the set of pixels where fbmmap and fbbuf still        *)
(* disagree.                                                               *)
(***************************************************************************)
EXTENDS DirtyRect, FiniteSets

VARIABLES
  changed,    \* the pixels that differed when update_screen was called
  differing,  \* those where *f # *c still holds
  next,       \* how many pixels the two loops have visited
  varblock,   \* the bounding box
  marked      \* the region marked, {} until the loops end

vars == <<changed, differing, next, varblock, marked>>

Done == next = Width * Height + 1

TypeOK ==
  /\ changed \subseteq Pixels
  /\ differing \subseteq changed
  /\ next \in 0..(Width * Height + 1)
  /\ varblock \in [min_i : 0..NoCoord, min_j : 0..NoCoord,
                   max_i : -1..(Width - 1), max_j : -1..(Height - 1)]
  /\ marked \in Regions

Init ==
  /\ changed \in SUBSET Pixels
  /\ differing = changed
  /\ next = 0
  /\ varblock = EmptyBlock
  /\ marked = {}

\* The loop body: copy a differing pixel into the comparison buffer and
\* enter it in the box.
ScanPixel ==
  /\ next < Width * Height
  /\ LET p == PixelAt(next) IN
     /\ differing' = differing \ {p}
     /\ varblock' = IF p \in differing THEN Track(varblock, p[1], p[2]) ELSE varblock
  /\ next' = next + 1
  /\ UNCHANGED <<changed, marked>>

\* After the loops.
MarkScreen ==
  /\ next = Width * Height
  /\ marked' = Marked(varblock)
  /\ next' = next + 1
  /\ UNCHANGED <<changed, differing, varblock>>

Next == ScanPixel \/ MarkScreen

Spec == Init /\ [][Next]_vars

-----------------------------------------------------------------------------
(* What the scan does, set by set. *)

Row(y) == {p \in changed : p[2] = y}
TopRow == CHOOSE y \in 0..(Height - 1) :
            Row(y) # {} /\ \A z \in 0..(y - 1) : Row(z) = {}
LastRow == CHOOSE y \in 0..(Height - 1) :
            Row(y) # {} /\ \A z \in (y + 1)..(Height - 1) : Row(z) = {}

\* A changed pixel that is not left of all changed pixels before it in
\* raster order, the first one excepted.
Recorded(p) ==
  \E q \in changed : /\ q[1] <= p[1]
                     /\ q[2] < p[2] \/ (q[2] = p[2] /\ q[1] < p[1])

\* The frames on which the box is wide enough: the top changed row has three
\* changed pixels and the last one has a recorded pixel.
Coverable ==
  changed = {} \/ ( /\ Cardinality(Row(TopRow)) >= 3
                    /\ \E p \in Row(LastRow) : Recorded(p) )

\* The region marked by update_screen holds every pixel that changed exactly
\* on the coverable frames.  On every other frame some changed pixel is left
\* out although fbbuf already has its new value, so it is not found again.
CoveredExactlyWhenCoverable ==
  Done => ((changed \subseteq marked) <=> Coverable)

\* The loop of this module and the function that the update pipeline uses
\* compute the same region.
ScanIsFold == Done => marked = Dirty(changed)
=============================================================================
