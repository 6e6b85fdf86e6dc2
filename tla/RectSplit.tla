----------------------------- MODULE RectSplit ------------------------------
(***************************************************************************)
(* How the encoders cut the rectangles of an update into the ones that are *)
(* sent.  rfbSendFramebufferUpdate announces their number before any       *)
(* encoder has run, from a count of its own; CoRRE, Ultra, Zlib and Tight  *)
(* cut what is too large for them, and Tight looks for areas of one colour *)
(* if the viewer can do without a number.  What a rectangle is encoded to  *)
(* is left out.                                                            *)
(*                                                                         *)
(* The encoders are loops and procedures that call each other and          *)
(* themselves: calls is the stack of the calls still to be made, and a     *)
(* loop calls itself for what its next rounds are to do.                   *)
(***************************************************************************)
EXTENDS Integers, Sequences, Functions, FiniteSetsExt

CONSTANTS
  Cases,          \* rectangles an update may consist of, with framebuffers,
                  \* encodings a viewer may prefer, and whether it knows the
                  \* LastRect marker
  Grey,           \* what Tight makes of a colour for a grey JPEG
  CorreMax,       \* correMaxWidth and correMaxHeight
  LinesMaxSize,   \* ULTRA_MAX_RECT_SIZE, ZLIB_MAX_RECT_SIZE
  MaxRectSize, MaxRectWidth,    \* of tightConf, the same on all levels
  TileSize,       \* MAX_SPLIT_TILE_SIZE
  MinSplitSize,   \* MIN_SPLIT_RECT_SIZE
  MinSolidSize    \* MIN_SOLID_SUBRECT_SIZE

Encodings == {"Raw", "CoRRE", "Lines", "Tight"}

Rect(x, y, w, h) == [x |-> x, y |-> y, w |-> w, h |-> h, solid |-> FALSE]
Solid(x, y, w, h) == [Rect(x, y, w, h) EXCEPT !.solid = TRUE]
Marker == Rect(0, 0, 0, 0)
Unknown == 65535

\* The rectangles that are not empty.
Rects == [x : Int, y : Int, w : Nat \ {0}, h : Nat \ {0}, solid : BOOLEAN]

Apart(a, b) ==
  a.x + a.w <= b.x \/ b.x + b.w <= a.x \/ a.y + a.h <= b.y \/ b.y + b.h <= a.y

Within(a, b) ==
  a.x >= b.x /\ a.x + a.w <= b.x + b.w /\ a.y >= b.y /\ a.y + a.h <= b.y + b.h

Holds(r, px, py) == r.x <= px /\ px < r.x + r.w /\ r.y <= py /\ py < r.y + r.h

ASSUME SizesAssumption ==
  /\ {CorreMax, LinesMaxSize, MaxRectSize, MaxRectWidth, TileSize, MinSplitSize, MinSolidSize}
       \subseteq Nat \ {0}
  /\ MaxRectSize >= MaxRectWidth

\* The iterator over a region yields rectangles that do not overlap.  Those
\* without width or height, which it yields when a viewer asks for one, are
\* left out.
ASSUME CasesAssumption ==
  \A case \in Cases :
    /\ case.update \in Seq(Rects)
    /\ \A i \in DOMAIN case.update :
         /\ ~case.update[i].solid
         /\ \A j \in DOMAIN case.update : i # j => Apart(case.update[i], case.update[j])
    /\ case.encodings \subseteq Encodings

VARIABLES
  update,      \* updateRegion
  picture,     \* the framebuffer
  encoding,    \* preferredEncoding
  enableLastRectEncoding,
  grey,        \* a JPEG quality is set and the subsampling is TJ_GRAYSCALE
  announced,   \* nUpdateRegionRects, which the header announces; 0 before
  visited,     \* how many rectangles the iterator has yielded
  calls,       \* the calls to be made, the next one first
  sent         \* the rectangles sent, and the marker

given == <<update, picture, encoding, enableLastRectEncoding, grey>>
vars == <<given, announced, visited, calls, sent>>

Init ==
  /\ \E case \in Cases :
       /\ update = case.update
       /\ picture \in case.pictures
       /\ encoding \in case.encodings
       /\ enableLastRectEncoding = case.lastRect
  /\ grey \in BOOLEAN
  /\ announced = 0 /\ visited = 0 /\ calls = <<>> /\ sent = <<>>

\* Defect: the test that a part is not empty is missing.
CallAlways(procedure, r, stack) == <<[procedure |-> procedure, r |-> r, dy |-> r.y]>> \o stack

\* procedure is called for r before what is in stack, if there is anything to
\* call it for.
Call(procedure, r, stack) ==
  IF r.w > 0 /\ r.h > 0 THEN <<[procedure |-> procedure, r |-> r, dy |-> r.y]>> \o stack
  ELSE stack

\* The call that is made now, and those that follow it.
Called(procedure) == calls # <<>> /\ calls[1].procedure = procedure
Arg == calls[1].r
Rest == Tail(calls)

\* What is left of r below its upper n lines, and right of its first n columns.
Below(r, n) == [r EXCEPT !.y = @ + n, !.h = @ - n]
RightOf(r, n) == [r EXCEPT !.x = @ + n, !.w = @ - n]

\* Defect: the last part is as long as the others.
PartFull(n, max) == max

\* The next part of n lines or columns that are cut by max.
Part(n, max) == IF max < n THEN max ELSE n

Send(r) == sent' = Append(sent, r) /\ UNCHANGED <<given, announced, visited>>
CallsOnly == UNCHANGED <<given, announced, visited, sent>>

-----------------------------------------------------------------------------
(* Raw and the like; CoRRE; Ultra and Zlib. *)

SendWhole ==
  /\ Called("Raw")
  /\ Send(Arg) /\ calls' = Rest

\* rfbSendRectEncodingCoRRE.
CoRRE ==
  /\ Called("CoRRE")
  /\ IF Arg.h > CorreMax
     THEN /\ calls' = Call("CoRRE", [Arg EXCEPT !.h = CorreMax],
                           Call("CoRRE", Below(Arg, CorreMax), Rest))
          /\ CallsOnly
     ELSE IF Arg.w > CorreMax
     THEN /\ calls' = Call("CoRRE", [Arg EXCEPT !.w = CorreMax],
                           Call("CoRRE", RightOf(Arg, CorreMax), Rest))
          /\ CallsOnly
     ELSE Send(Arg) /\ calls' = Rest

\* At least two lines at a time, however long they are.
MaxLines(w) == (IF 2 * w > LinesMaxSize THEN 2 * w ELSE LinesMaxSize) \div w

Lines ==
  LET n == Part(Arg.h, MaxLines(Arg.w)) IN
  /\ Called("Lines")
  /\ Send([Arg EXCEPT !.h = n])
  /\ calls' = Call("Lines", Below(Arg, n), Rest)

-----------------------------------------------------------------------------
(* SendRectSimple of Tight. *)

SubrectMaxWidth(w) == IF w > MaxRectWidth THEN MaxRectWidth ELSE w
SubrectMaxHeight(w) == MaxRectSize \div SubrectMaxWidth(w)

TooLarge(w, h) == w > MaxRectWidth \/ w * h > MaxRectSize

Simple ==
  /\ Called("Simple")
  /\ IF TooLarge(Arg.w, Arg.h) THEN calls' = Call("Rows", Arg, Rest) /\ CallsOnly
     ELSE Send(Arg) /\ calls' = Rest

\* The outer loop, over dy, and the inner one, over dx.
Rows ==
  LET n == Part(Arg.h, SubrectMaxHeight(Arg.w)) IN
  /\ Called("Rows")
  /\ calls' = Call("Columns", [Arg EXCEPT !.h = n], Call("Rows", Below(Arg, n), Rest))
  /\ CallsOnly

Columns ==
  LET n == Part(Arg.w, MaxRectWidth) IN
  /\ Called("Columns")
  /\ Send([Arg EXCEPT !.w = n])
  /\ calls' = Call("Columns", RightOf(Arg, n), Rest)

-----------------------------------------------------------------------------
(* Tight's search for solid areas. *)

HasColor(x, y, w, h, c) ==
  \A px \in x..(x + w - 1), py \in y..(y + h - 1) : picture[<<px, py>>] = c

\* Defect: only the top line of the tiles is looked at.
SolidWidthOfTop(x, dy, w, dh, c) ==
  Max({k \in {i * TileSize : i \in 0..(w \div TileSize)} \cup {w} : HasColor(x, dy, k, 1, c)})

\* How far from x the tiles of the row at dy are of colour c.
SolidWidth(x, dy, w, dh, c) ==
  Max({k \in {i * TileSize : i \in 0..(w \div TileSize)} \cup {w} : HasColor(x, dy, k, dh, c)})

\* The n-th row of tiles below y: b holds the width of the row before, 0 once
\* the loop is left, and the best area so far.
SolidRow(b, n, x, y, h, c) ==
  LET done == (n - 1) * TileSize
      dh == Part(h - done, TileSize)
      k == SolidWidth(x, y + done, b.prev, dh, c)
  IN  IF k = 0 THEN [b EXCEPT !.prev = 0]
      ELSE IF k * (done + dh) > b.w * b.h THEN [prev |-> k, w |-> k, h |-> done + dh]
      ELSE [b EXCEPT !.prev = k]

\* How many rows of tiles there are in h lines.
TileRowsOf(h) == (h - 1) \div TileSize + 1

\* The best area of colour c with its upper left corner at x, y: row of tiles
\* by row of tiles, as wide as all of them are.
FindBestSolidArea(x, y, w, h, c) ==
  LET best[n \in 0..TileRowsOf(h)] ==
        IF n = 0 THEN [prev |-> w, w |-> 0, h |-> 0]
        ELSE SolidRow(best[n - 1], n, x, y, h, c)
  IN  best[TileRowsOf(h)]

\* Up, down, to the left and to the right, as far as the colour goes.
ExtendSolidArea(r, a, c) ==
  LET up == Max({n \in 0..(a.y - r.y) : HasColor(a.x, a.y - n, a.w, n, c)})
      down == Max({n \in 0..(r.y + r.h - a.y - a.h) : HasColor(a.x, a.y + a.h, a.w, n, c)})
      y == a.y - up
      h == up + a.h + down
      left == Max({n \in 0..(a.x - r.x) : HasColor(a.x - n, y, n, h, c)})
      right == Max({n \in 0..(r.x + r.w - a.x - a.w) : HasColor(a.x + a.w, y, n, h, c)})
  IN Solid(a.x - left, y, left + a.w + right, h)

\* The colour to look for at a tile: with grey it is replaced.
Wanted(dx, dy) == IF grey THEN Grey[picture[<<dx, dy>>]] ELSE picture[<<dx, dy>>]

BestAt(r, dx, dy) ==
  FindBestSolidArea(dx, dy, r.x + r.w - dx, r.y + r.h - dy, Wanted(dx, dy))

\* The solid areas that start at a tile of the row at dy and are large enough,
\* by where they start; r is what is not sent yet.
SolidAreas(r, dy) ==
  {dx \in {r.x + i * TileSize : i \in 0..((r.w - 1) \div TileSize)} :
     LET a == BestAt(r, dx, dy) IN
     /\ HasColor(dx, dy, Part(r.x + r.w - dx, TileSize), Part(r.y + r.h - dy, TileSize),
                 picture[<<dx, dy>>])
     /\ a.w * a.h = r.w * r.h \/ a.w * a.h >= MinSolidSize}

AreaAt(r, dx, dy) ==
  LET a == BestAt(r, dx, dy) IN
  ExtendSolidArea(r, [x |-> dx, y |-> dy, w |-> a.w, h |-> a.h], Wanted(dx, dy))

\* Defect: the part above the area is cut off at the tile that was found.
AboveTile(r, area, dy) == [r EXCEPT !.h = dy - r.y]

\* What is left of r above a solid area.
Above(r, area, dy) == [r EXCEPT !.h = area.y - r.y]

-----------------------------------------------------------------------------
(* SendRectEncodingTight. *)

Tight ==
  /\ Called("Tight")
  /\ calls' = Call(IF ~enableLastRectEncoding \/ Arg.w * Arg.h < MinSplitSize
                   THEN "Simple" ELSE "TileRows", Arg, Rest)
  /\ CallsOnly

\* What the loop over the tiles does with r if its row at dy has no solid area:
\* the next row.
NextTileRow(r, dy) == <<[procedure |-> "TileRows", r |-> r, dy |-> dy + TileSize]>> \o Rest

\* What is sent of r around a solid area, and the area.
Around(r, area, dy) ==
  Call("Simple", Above(r, area, dy),
  Call("Tight", Rect(r.x, area.y, area.x - r.x, area.h),
  Call("Solid", area,
  Call("Tight", Rect(area.x + area.w, area.y, r.x + r.w - area.x - area.w, area.h),
  Call("Tight", Rect(r.x, area.y + area.h, r.w, r.y + r.h - area.y - area.h),
  Rest)))))

\* The loop over the rows of tiles: the upper part is sent when it has become
\* too large, and the row searched for a solid area.
TileRows ==
  LET dy == calls[1].dy
      upper == IF dy - Arg.y >= SubrectMaxHeight(Arg.w) THEN SubrectMaxHeight(Arg.w) ELSE 0
      r == Below(Arg, upper)
      found == SolidAreas(r, dy)
  IN
  /\ Called("TileRows")
  /\ calls' = IF dy >= Arg.y + Arg.h THEN Call("Simple", Arg, Rest)
              ELSE Call("Simple", [Arg EXCEPT !.h = upper],
                        IF found = {} THEN NextTileRow(r, dy)
                        ELSE Around(r, AreaAt(r, Min(found), dy), dy))
  /\ CallsOnly

SendSolid ==
  /\ Called("Solid")
  /\ Send(Arg) /\ calls' = Rest

-----------------------------------------------------------------------------
(* rfbSendFramebufferUpdate. *)

\* Defect: a maximum of lines that fits exactly is counted once too often.
CountOneMore(r) ==
  CASE encoding = "CoRRE" -> (r.w \div CorreMax + 1) * (r.h \div CorreMax + 1)
    [] encoding = "Lines" -> r.h \div MaxLines(r.w) + 1
    [] encoding = "Tight" /\ TooLarge(r.w, r.h) ->
         ((r.w - 1) \div MaxRectWidth + 1) * ((r.h - 1) \div SubrectMaxHeight(r.w) + 1)
    [] OTHER -> 1

\* How many rectangles r is counted as.
Count(r) ==
  CASE encoding = "CoRRE" -> ((r.w - 1) \div CorreMax + 1) * ((r.h - 1) \div CorreMax + 1)
    [] encoding = "Lines" -> (r.h - 1) \div MaxLines(r.w) + 1
    [] encoding = "Tight" /\ TooLarge(r.w, r.h) ->
         ((r.w - 1) \div MaxRectWidth + 1) * ((r.h - 1) \div SubrectMaxHeight(r.w) + 1)
    [] OTHER -> 1

\* Tight needs the marker if the number is not known.
Uncounted(r) ==
  encoding = "Tight" /\ enableLastRectEncoding /\ r.w * r.h >= MinSplitSize

CountAll ==
  LET nRects[i \in 0..Len(update)] == IF i = 0 THEN 0 ELSE nRects[i - 1] + Count(update[i])
  IN  nRects[Len(update)]

\* Defect: the first rectangle decides.
AnnouncedByFirst == IF Uncounted(update[1]) THEN Unknown ELSE CountAll

Announced == IF \E i \in DOMAIN update : Uncounted(update[i]) THEN Unknown ELSE CountAll

Announce ==
  /\ announced = 0
  /\ announced' = Announced
  /\ UNCHANGED <<given, visited, calls, sent>>

\* The switch over the encodings.
NextRect ==
  /\ announced # 0 /\ calls = <<>> /\ visited < Len(update)
  /\ visited' = visited + 1
  /\ calls' = Call(encoding, update[visited + 1], <<>>)
  /\ UNCHANGED <<given, announced, sent>>

AllSent == announced # 0 /\ calls = <<>> /\ visited = Len(update)
Ended == AllSent /\ (announced = Unknown => Marker \in Range(sent))

SendMarker ==
  /\ AllSent /\ ~Ended
  /\ Send(Marker)
  /\ UNCHANGED calls

Terminating == Ended /\ UNCHANGED vars

Encode ==
  SendWhole \/ CoRRE \/ Lines \/ Simple \/ Rows \/ Columns \/ Tight \/ TileRows \/ SendSolid

Next == Announce \/ NextRect \/ Encode \/ SendMarker \/ Terminating

Spec == Init /\ [][Next]_vars

-----------------------------------------------------------------------------
(* Properties. *)

Procedures == Encodings \cup {"Simple", "Rows", "Columns", "TileRows", "Solid"}

\* A call has a rectangle that is not empty, and a row of tiles not above it.
TypeOK ==
  /\ announced \in Nat /\ visited \in 0..Len(update)
  /\ calls \in Seq([procedure : Procedures, r : Rects, dy : Int])
  /\ \A i \in DOMAIN calls :
       /\ calls[i].dy >= calls[i].r.y
       /\ calls[i].r.solid <=> calls[i].procedure = "Solid"
  /\ sent \in Seq(Rects \cup {Marker})

\* The header's number, which the viewer counts down, is the number of
\* rectangles that follow, or else the marker ends them.
AsAnnounced ==
  Ended =>
    IF announced = Unknown
    THEN \A i \in DOMAIN sent : sent[i] = Marker <=> i = Len(sent)
    ELSE announced = Len(sent) /\ Marker \notin Range(sent)

\* The rectangles sent tile the update: none is empty, no two overlap, none
\* reaches beyond the update's, and in the end nothing is left out.
Tiles ==
  /\ \A i \in DOMAIN sent : sent[i] # Marker =>
       /\ sent[i].w > 0 /\ sent[i].h > 0
       /\ \E j \in DOMAIN update : Within(sent[i], update[j])
       /\ \A j \in 1..(i - 1) : Apart(sent[i], sent[j])
  /\ Ended =>
       \A j \in DOMAIN update :
         \A px \in update[j].x..(update[j].x + update[j].w - 1),
            py \in update[j].y..(update[j].y + update[j].h - 1) :
           \E i \in DOMAIN sent : Holds(sent[i], px, py)

\* Of a solid rectangle one pixel is sent: all of it must have that colour.
SolidIsSolid ==
  \A i \in DOMAIN sent :
    sent[i].solid => HasColor(sent[i].x, sent[i].y, sent[i].w, sent[i].h,
                              picture[<<sent[i].x, sent[i].y>>])
=============================================================================
