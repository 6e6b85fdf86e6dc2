----------------------------- MODULE SpanRegion -----------------------------
(***************************************************************************)
(* rfbregion.c: a region as a list of vertical spans, each with a list of  *)
(* horizontal ones, and the operations that the update pipeline does on a  *)
(* client's modified and requested regions.  An operation walks two lists  *)
(* at once, splits and merges spans around its own cursor, and calls       *)
(* itself on the spans' own lists; a step is a round of its loop.          *)
(* PixelSets says what the operations are for.                             *)
(***************************************************************************)
EXTENDS Integers, Sequences, Functions, FiniteSetsExt

CONSTANTS
  Width, Height,
  MarkCorners,    \* x1, y1, x2, y2 of what update_screen marks
  RequestCorners, \* and of what the viewer asks for
  NoCoord,      \* update_screen's sentinel, beyond every coordinate
  MaxRects,     \* maxRectsPerUpdate: more than that are sent as one
  MaxInverted   \* bound: inverted rectangles in the modified region

\* The corners of the rectangles on the screen.  rectSwapIfLEAndClip lets a
\* request for one without width or height through.
Corners ==
  {c \in (0..Width) \X (0..Height) \X (0..Width) \X (0..Height) : c[1] <= c[3] /\ c[2] <= c[4]}

Flat(c) == c[1] = c[3] \/ c[2] = c[4]

ASSUME SizeAssumption ==
  /\ Width \in Nat \ {0} /\ Height \in Nat \ {0}
  /\ NoCoord \in Nat /\ NoCoord > Width /\ NoCoord > Height
  /\ MarkCorners \subseteq Corners /\ RequestCorners \subseteq Corners
  /\ \A c \in MarkCorners : ~Flat(c)

VARIABLES
  modified,   \* cl->modifiedRegion
  requested,  \* cl->requestedRegion
  update,     \* updateRegion of rfbSendFramebufferUpdate
  announced,  \* the number of its rectangles in the message's header, 0 before
  task,       \* what the operation under way is for
  operand,    \* the region that it adds, keeps or takes away
  walks,      \* its calls, the innermost first
  flat        \* history: a rectangle without width or height was asked for

vars == <<modified, requested, update, announced, task, operand, walks, flat>>

Tasks == {"None", "Mark", "Request", "Intersect", "Subtract"}

Pixels == (0..(Width - 1)) \X (0..(Height - 1))

\* A horizontal span has no list of its own: NULL, which every operation
\* takes for an empty list.
Span(start, end, subspan) == [start |-> start, end |-> end, subspan |-> subspan]
NULL == <<>>

CreateRect(x1, y1, x2, y2) == <<Span(y1, y2, <<Span(x1, x2, NULL)>>)>>

-----------------------------------------------------------------------------
(* A walk.  The list that is changed is kept in two parts: the spans before *)
(* d_curr, and those from d_curr on.  The head of src is s_curr; what       *)
(* sraSpanListOr has done of it is cut off (s_start).                       *)

Walk(dest, src) == [done |-> <<>>, rest |-> dest, src |-> src]

Dest(c) == Head(c.rest)
Source(c) == Head(c.src)

NextSource(c) == [c EXCEPT !.src = Tail(@)]
Skip(c) == [c EXCEPT !.done = Append(@, Dest(c)), !.rest = Tail(@)]
Destroy(c) == [c EXCEPT !.rest = Tail(@)]
InsertBefore(c, span) == [c EXCEPT !.done = Append(@, span)]

\* d_curr takes in the neighbours that touch it, or each other, and have its
\* subspan: those from the i-th span of the list to the j-th.
Joined(c, i, j) ==
  LET list == c.done \o c.rest IN
  /\ \A k \in i..j : list[k].subspan = Dest(c).subspan
  /\ \A k \in i..(j - 1) : list[k].end = list[k + 1].start

MergeFromTo(c, i, j) ==
  LET list == c.done \o c.rest IN
  [c EXCEPT !.done = SubSeq(list, 1, i - 1),
            !.rest = <<[Dest(c) EXCEPT !.start = list[i].start, !.end = list[j].end]>>
                     \o SubSeq(list, j + 1, Len(list))]

\* Where d_curr is in the list, and how far it may be merged.
Position(c) == Len(c.done) + 1
FirstJoined(c) == Min({i \in 1..Position(c) : Joined(c, i, Position(c))})
LastJoined(c) == Max({j \in Position(c)..(Len(c.done) + Len(c.rest)) : Joined(c, Position(c), j)})

MergePrevious(c) == MergeFromTo(c, FirstJoined(c), Position(c))
Merge(c) == MergeFromTo(c, FirstJoined(c), LastJoined(c))

\* Defect: d_curr keeps its end.
IsolateKeepsEnd(c, start, end) ==
  LET d == Dest(c)
      before == IF start > d.start THEN <<[d EXCEPT !.end = start]>> ELSE <<>>
      behind == IF end < d.end THEN <<[d EXCEPT !.start = end]>> ELSE <<>>
      between == [d EXCEPT !.start = IF start > @ THEN start ELSE @]
  IN  [c EXCEPT !.done = @ \o before, !.rest = <<between>> \o (behind \o Tail(@))]

\* The parts of d_curr that lie before start or behind end become spans of
\* their own.
Isolate(c, start, end) ==
  LET d == Dest(c)
      before == IF start > d.start THEN <<[d EXCEPT !.end = start]>> ELSE <<>>
      behind == IF end < d.end THEN <<[d EXCEPT !.start = end]>> ELSE <<>>
      between == [d EXCEPT !.start = IF start > @ THEN start ELSE @,
                           !.end = IF end < @ THEN end ELSE @]
  IN  [c EXCEPT !.done = @ \o before, !.rest = <<between>> \o (behind \o Tail(@))]

SetSubspan(c, subspan) ==
  [c EXCEPT !.rest = <<[Dest(c) EXCEPT !.subspan = subspan]>> \o Tail(@)]

Overlap(c) == Source(c).start < Dest(c).end /\ Source(c).end > Dest(c).start

-----------------------------------------------------------------------------
(* What becomes of the part of d_curr that s_curr overlaps, once their own  *)
(* lists have been combined to subspan.                                     *)

\* Defect: a span that is longer than d_curr is done with d_curr.
OrRestForgotten(s, d, src) == Tail(src)

\* What is left to be added after d_curr has been dealt with.
OrRest(s, d, src) ==
  IF s.end > d.end THEN <<[s EXCEPT !.start = d.end]>> \o Tail(src) ELSE Tail(src)

OrCombined(c, subspan) ==
  LET after == Merge(SetSubspan(c, subspan))
      past == IF Source(c).end > Dest(after).end THEN Skip(after) ELSE after
  IN  [past EXCEPT !.src = OrRest(Source(c), Dest(after), c.src)]

\* Defect: where both end, the walk moves on in neither.
AndCombinedStays(c, subspan) ==
  IF Dest(c).subspan # NULL /\ subspan = <<>> THEN Destroy(c)
  ELSE
  LET after == MergePrevious(SetSubspan(c, subspan))
      past == IF Source(c).end > Dest(after).end THEN Skip(after) ELSE after
  IN  IF Source(c).end < Dest(after).end THEN NextSource(past) ELSE past

AndCombined(c, subspan) ==
  IF Dest(c).subspan # NULL /\ subspan = <<>> THEN Destroy(c)
  ELSE
  LET after == MergePrevious(SetSubspan(c, subspan))
      past == IF Source(c).end >= Dest(after).end THEN Skip(after) ELSE after
  IN  IF Source(c).end <= Dest(after).end THEN NextSource(past) ELSE past

SubtractCombined(c, subspan) ==
  IF subspan = <<>> THEN Destroy(c)
  ELSE
  LET after == Merge(SetSubspan(c, subspan)) IN
  IF Source(c).end > Dest(after).end THEN Skip(after) ELSE NextSource(after)

Combined(c, subspan) ==
  CASE task \in {"Mark", "Request"} -> OrCombined(c, subspan)
    [] task = "Intersect" -> AndCombined(c, subspan)
    [] task = "Subtract" -> SubtractCombined(c, subspan)

-----------------------------------------------------------------------------
(* The loops of sraSpanListOr, sraSpanListAnd and sraSpanListSubtract. *)

Top == Head(walks)
WalkOn(c) == walks' = <<c>> \o Tail(walks)

\* The part of d_curr that s_curr overlaps has been cut out: the operation
\* calls itself for their lists, also if both are NULL.
Descend(c) ==
  walks' = <<Walk(Dest(c).subspan, Source(c).subspan), c>> \o Tail(walks)

\* What s_curr has before d_curr is inserted there.
Preceded(c) ==
  IF Source(c).start < Dest(c).start
  THEN MergePrevious(InsertBefore(c, [Source(c) EXCEPT !.end = Dest(c).start])) ELSE c

Or ==
  LET s == Source(Top) IN
  /\ task \in {"Mark", "Request"}
  /\ Top.src # <<>>
  /\ \/ /\ Top.rest = <<>>
        /\ WalkOn(NextSource(InsertBefore(Top, s)))
     \/ /\ Top.rest # <<>> /\ Dest(Top).start >= s.end
        /\ WalkOn(NextSource(MergePrevious(InsertBefore(Top, s))))
     \/ /\ Top.rest # <<>> /\ Dest(Top).start < s.end
        /\ IF Overlap(Top) THEN Descend(Isolate(Preceded(Top), s.start, s.end))
           ELSE WalkOn(Skip(Top))

And ==
  LET s == Source(Top) IN
  /\ task = "Intersect"
  /\ Top.src # <<>> /\ Top.rest # <<>>
  /\ \/ /\ Dest(Top).start >= s.end
        /\ WalkOn(NextSource(Top))
     \/ /\ Dest(Top).start < s.end
        /\ IF Overlap(Top) THEN Descend([Isolate(Top, s.start, s.end) EXCEPT !.done = Top.done])
           ELSE WalkOn(Destroy(Top))

Subtract ==
  LET s == Source(Top) IN
  /\ task = "Subtract"
  /\ Top.src # <<>> /\ Top.rest # <<>>
  /\ \/ /\ Dest(Top).start >= s.end
        /\ WalkOn(NextSource(Top))
     \/ /\ Dest(Top).start < s.end
        /\ IF Overlap(Top) THEN Descend(Isolate(Top, s.start, s.end))
           ELSE WalkOn(Skip(Top))

Round ==
  /\ walks # <<>>
  /\ Or \/ And \/ Subtract
  /\ UNCHANGED <<modified, requested, update, announced, task, operand, flat>>

\* The loop has ended; sraSpanListAnd then destroys what it has not reached.
AtEnd(c) == c.src = <<>> \/ (c.rest = <<>> /\ task \in {"Intersect", "Subtract"})
Result(c) == IF task = "Intersect" THEN c.done ELSE c.done \o c.rest

Return ==
  /\ Len(walks) > 1 /\ AtEnd(Top)
  /\ walks' = <<Combined(walks[2], Result(Top))>> \o Tail(Tail(walks))
  /\ UNCHANGED <<modified, requested, update, announced, task, operand, flat>>

-----------------------------------------------------------------------------
(* What is sent of a region. *)

Rectangle(row, span) == [x1 |-> span.start, x2 |-> span.end, y1 |-> row.start, y2 |-> row.end]

\* The rectangles in the order in which sraRgnIteratorNext yields them.
RectsOf(region) ==
  LET rects[i \in 0..Len(region)] ==
        IF i = 0 THEN <<>>
        ELSE rects[i - 1] \o [j \in DOMAIN region[i].subspan |->
                                Rectangle(region[i], region[i].subspan[j])]
  IN  rects[Len(region)]

\* Defect: the spans of the outer list are counted.
CountSpans(region) == Len(region)

\* sraSpanListCount.
CountRects(region) ==
  LET count[i \in 0..Len(region)] ==
        IF i = 0 THEN 0 ELSE count[i - 1] + Len(region[i].subspan)
  IN  count[Len(region)]

\* The spans of a region that have a subspan, and theirs.
Columns(region) == UNION {Range(row.subspan) : row \in Range(region)}

\* sraRgnBBox.
BBoxOf(region) ==
  CreateRect(Min({span.start : span \in Columns(region)}), Min({row.start : row \in Range(region)}),
             Max({span.end : span \in Columns(region)}), Max({row.end : row \in Range(region)}))

-----------------------------------------------------------------------------
(* The two regions of a client. *)

\* A new client has everything to be sent, and has asked for nothing.
Init ==
  /\ modified = CreateRect(0, 0, Width, Height) /\ requested = <<>>
  /\ update = <<>> /\ announced = 0
  /\ task = "None" /\ operand = <<>> /\ walks = <<>> /\ flat = FALSE

\* Neither is an operation under way, nor an update being sent.
Ready == task = "None" /\ announced = 0

Begin(t, dest, src) ==
  /\ Ready
  /\ task' = t /\ operand' = src
  /\ walks' = <<Walk(dest, src)>>
  /\ UNCHANGED <<modified, requested, update, announced>>

\* The outermost call has ended.
Ended(t) == task = t /\ Len(walks) = 1 /\ AtEnd(Top)
End == task' = "None" /\ operand' = <<>> /\ walks' = <<>> /\ UNCHANGED flat

Mark ==
  /\ \E c \in MarkCorners : Begin("Mark", modified, CreateRect(c[1], c[2], c[3], c[4]))
  /\ UNCHANGED flat

\* What rfbMarkRectAsModified makes of a box without top and bottom.
Inverted(span) == span.start > span.end

MarkInverted ==
  /\ Cardinality({i \in DOMAIN modified : Inverted(modified[i])}) < MaxInverted
  /\ \E x1 \in 0..(Width - 1) :
       Begin("Mark", modified,
             CreateRect(x1, NoCoord, IF x1 + 2 > Width THEN Width ELSE x1 + 2, Height))
  /\ UNCHANGED flat

Marked ==
  /\ Ended("Mark") /\ End
  /\ modified' = Result(Top)
  /\ UNCHANGED <<requested, update, announced>>

Request ==
  \E c \in RequestCorners :
    /\ Begin("Request", requested, CreateRect(c[1], c[2], c[3], c[4]))
    /\ flat' = (flat \/ Flat(c))

\* A request that is not incremental then marks what it asks for.
Requested ==
  /\ Ended("Request")
  /\ requested' = Result(Top)
  /\ \/ End
     \/ task' = "Mark" /\ operand' = operand /\ walks' = <<Walk(modified, operand)>>
        /\ UNCHANGED flat
  /\ UNCHANGED <<modified, update, announced>>

\* rfbSendFramebufferUpdate, which rfbUpdateClient calls if something is
\* requested: nothing is done when sraRgnAnd returns FALSE.
Send == requested # <<>> /\ Begin("Intersect", modified, requested) /\ UNCHANGED flat

NothingDue ==
  /\ Ended("Intersect") /\ Result(Top) = <<>>
  /\ End
  /\ UNCHANGED <<modified, requested, update, announced>>

Due ==
  /\ Ended("Intersect") /\ Result(Top) # <<>>
  /\ update' = Result(Top)
  /\ task' = "Subtract" /\ operand' = Result(Top)
  /\ walks' = <<Walk(modified, Result(Top))>>
  /\ UNCHANGED <<modified, requested, announced, flat>>

Announce ==
  /\ Ended("Subtract") /\ End
  /\ modified' = Result(Top)
  /\ requested' = <<>>
  /\ update' = IF CountRects(update) > MaxRects THEN BBoxOf(update) ELSE update
  /\ announced' = CountRects(update')

Sent ==
  /\ announced # 0
  /\ update' = <<>> /\ announced' = 0
  /\ UNCHANGED <<modified, requested, task, operand, walks, flat>>

\* The daemon's thread is in one of the operations.
Work == Round \/ Return \/ Marked \/ Requested \/ NothingDue \/ Due \/ Announce

Next == Mark \/ MarkInverted \/ Request \/ Send \/ Work \/ Sent

Spec == Init /\ [][Next]_vars /\ WF_vars(Work)

-----------------------------------------------------------------------------
(* Properties. *)

\* The spans of a list follow each other without overlap, inverted ones where
\* nothing but others and empty spans at the screen's end follow, and none is
\* empty unless the viewer has asked for an empty rectangle.
Ordered(list) ==
  /\ \A i \in DOMAIN list : list[i].start = list[i].end => flat
  /\ \A i \in 1..(Len(list) - 1) :
       list[i].end <= list[i + 1].start \/ (Inverted(list[i]) /\ Inverted(list[i + 1]))

WellFormed ==
  /\ \A region \in {modified, requested, update} :
       /\ Ordered(region)
       /\ \A i \in DOMAIN region :
            /\ region[i].subspan # <<>>
            /\ Ordered(region[i].subspan)
            /\ \A j \in DOMAIN region[i].subspan :
                 ~Inverted(region[i].subspan[j]) /\ region[i].subspan[j].subspan = NULL
  /\ \A region \in {requested, update} : \A i \in DOMAIN region : ~Inverted(region[i])

\* What a rectangle and a region stand for.
PixelsOf(rect) == {p \in Pixels : /\ rect.x1 <= p[1] /\ p[1] < rect.x2
                                  /\ rect.y1 <= p[2] /\ p[2] < rect.y2}

Covered(region) ==
  {p \in Pixels :
     \E row \in Range(region) :
       /\ row.start <= p[2] /\ p[2] < row.end
       /\ \E span \in Range(row.subspan) : span.start <= p[1] /\ p[1] < span.end}

\* As many rectangles are sent as the header announces, and no pixel twice:
\* what the three operations leave of a list may be split more than it need
\* be, and inverted rectangles must not get into an update.
SentOnce ==
  announced # 0 =>
  LET rects == RectsOf(update) IN
  /\ announced = Len(rects)
  /\ \A i \in DOMAIN rects :
       /\ PixelsOf(rects[i]) = {} => flat
       /\ \A j \in DOMAIN rects : i # j => PixelsOf(rects[i]) \cap PixelsOf(rects[j]) = {}

Rectangles == {Covered(CreateRect(c[1], c[2], c[3], c[4])) : c \in Corners}

Sets == INSTANCE PixelSets WITH
  Rects <- Rectangles,
  modified <- Covered(modified), requested <- Covered(requested),
  update <- IF announced = 0 THEN {} ELSE Covered(update),
  marking <- IF task = "Mark" THEN Covered(operand) ELSE {},
  requesting <- IF task = "Request" THEN Covered(operand) ELSE {}

\* The operations on lists are union, intersection and difference of the sets
\* of pixels, whatever lists earlier operations have left, also with inverted
\* rectangles among their spans.
RefinesPixelSets == Sets!Spec

\* No operation goes round for ever: each round moves on in one of its lists,
\* also where spans have just been split or merged.
WalksEnd == task # "None" ~> task = "None"
=============================================================================
