------------------------- MODULE ScreenScanProofs --------------------------
(***************************************************************************)
(* Which frames update_screen marks completely, for every size of the      *)
(* screen: the loop invariant of the scan, and what follows from it when   *)
(* the loops have ended.                                                   *)
(***************************************************************************)
EXTENDS ScreenScan, FiniteSetTheorems, WellFoundedInduction, TLAPS

-----------------------------------------------------------------------------
(* Pixels in raster order. *)

Index(p) == p[2] * Width + p[1]
Before(q, p) == q[2] < p[2] \/ (q[2] = p[2] /\ q[1] < p[1])

LEMMA PixelFields ==
  ASSUME NEW p \in Pixels
  PROVE  p[1] \in 0..(Width - 1) /\ p[2] \in 0..(Height - 1) /\ p = <<p[1], p[2]>>
BY DEF Pixels

LEMMA SizeNat ==
  /\ Width \in Nat \ {0} /\ Height \in Nat \ {0} /\ NoCoord \in Nat
  /\ Width < NoCoord /\ Height < NoCoord
<1>1. NoCoord \in Nat
  BY DEF NoCoord
<1>2. Width \in 1..(NoCoord - 1) /\ Height \in 1..(NoCoord - 1)
  BY SizeAssumption
<1> QED  BY <1>1, <1>2

\* A higher row of whole lines is a line longer.
LEMMA Lines ==
  ASSUME NEW a \in Nat, NEW b \in Nat, NEW w \in Nat, a < b
  PROVE  a * w + w <= b * w
<1>1. PICK k \in Nat : b = a + 1 + k
  <2>1. b - a - 1 \in Nat /\ b = a + 1 + (b - a - 1)
    OBVIOUS
  <2> QED  BY <2>1
<1>2. b * w = a * w + w + k * w
  BY <1>1
<1>3. k * w \in Nat /\ a * w \in Nat
  OBVIOUS
<1> QED  BY <1>2, <1>3

LEMMA IndexOrder ==
  ASSUME NEW p \in Pixels, NEW q \in Pixels
  PROVE  Index(q) < Index(p) <=> Before(q, p)
<1> USE SizeNat, PixelFields
<1>1. /\ p[1] \in Nat /\ p[1] < Width /\ p[2] \in Nat
      /\ q[1] \in Nat /\ q[1] < Width /\ q[2] \in Nat
  OBVIOUS
<1>2. p[2] * Width \in Nat /\ q[2] * Width \in Nat
  BY <1>1
<1>3. CASE q[2] < p[2]
  <2>1. q[2] * Width + Width <= p[2] * Width
    BY <1>1, <1>3, Lines
  <2> QED  BY <1>1, <1>2, <1>3, <2>1 DEF Index, Before
<1>4. CASE p[2] < q[2]
  <2>1. p[2] * Width + Width <= q[2] * Width
    BY <1>1, <1>4, Lines
  <2> QED  BY <1>1, <1>2, <1>4, <2>1 DEF Index, Before
<1>5. CASE p[2] = q[2]
  BY <1>1, <1>2, <1>5 DEF Index, Before
<1> QED  BY <1>1, <1>3, <1>4, <1>5

\* The loops visit pixel i in their i-th turn.
LEMMA PixelAtIndex ==
  ASSUME NEW i \in 0..(Width * Height - 1)
  PROVE  PixelAt(i) \in Pixels /\ Index(PixelAt(i)) = i
<1> DEFINE x == i % Width
           y == i \div Width
<1>1. Width \in Nat \ {0} /\ Height \in Nat \ {0} /\ Width * Height \in Nat
  BY SizeNat
<1>2. i \in Nat /\ i < Width * Height
  BY <1>1
<1>3. x \in Nat /\ x < Width /\ y \in Nat /\ i = y * Width + x
  BY <1>1, <1>2
<1> HIDE DEF x, y
<1>4. y < Height
  <2>1. SUFFICES ASSUME Height <= y PROVE FALSE
    BY <1>1, <1>3
  <2>2. CASE Height = y
    BY <1>1, <1>2, <1>3, <2>2
  <2>3. CASE Height < y
    <3>1. Height * Width + Width <= y * Width
      BY <1>1, <1>3, <2>3, Lines
    <3> QED  BY <1>1, <1>2, <1>3, <3>1
  <2> QED  BY <1>1, <1>3, <2>1, <2>2, <2>3
<1>5. PixelAt(i) = <<x, y>>
  BY DEF PixelAt, x, y
<1> QED  BY <1>1, <1>3, <1>4, <1>5 DEF Pixels, Index

LEMMA IndexBound ==
  ASSUME NEW p \in Pixels
  PROVE  Index(p) \in 0..(Width * Height - 1)
<1>1. /\ p[1] \in Nat /\ p[1] < Width /\ p[2] \in Nat /\ p[2] < Height
      /\ Width \in Nat /\ Height \in Nat
  BY SizeNat, PixelFields
<1>2. p[2] * Width + Width <= Height * Width
  BY <1>1, Lines
<1>3. p[2] * Width \in Nat /\ Height * Width = Width * Height /\ Width * Height \in Nat
  BY <1>1
<1> QED  BY <1>1, <1>2, <1>3 DEF Index

LEMMA IndexInjective ==
  ASSUME NEW p \in Pixels, NEW q \in Pixels, Index(p) = Index(q)
  PROVE  p = q
<1>1. Index(p) \in Int /\ Index(q) \in Int
  BY IndexBound, SizeNat
<1>2. ~Before(q, p) /\ ~Before(p, q)
  BY <1>1, IndexOrder
<1>3. p[1] = q[1] /\ p[2] = q[2]
  BY <1>2, PixelFields, SizeNat DEF Before
<1> QED  BY <1>3, PixelFields

-----------------------------------------------------------------------------
(* What the box knows of the changed pixels that were visited. *)

Blocks == [min_i : 0..NoCoord, min_j : 0..NoCoord,
           max_i : -1..(Width - 1), max_j : -1..(Height - 1)]

\* Recorded, for any set of pixels in place of changed.
RecordedIn(S, p) == \E q \in S : q[1] <= p[1] /\ Before(q, p)

LeftEdge(b, S) ==
  /\ \A p \in S : b.min_i <= p[1]
  /\ b.min_i # NoCoord => \E p \in S : p[1] = b.min_i

FarEdges(b, S) ==
  /\ \A p \in S : RecordedIn(S, p) => p[1] <= b.max_i /\ p[2] <= b.max_j
  /\ b.max_i # -1 => \E p \in S : RecordedIn(S, p) /\ p[1] = b.max_i
  /\ b.max_j # -1 => \E p \in S : RecordedIn(S, p) /\ p[2] = b.max_j

TwoRecorded(S, y) ==
  \E p, r \in S : p # r /\ p[2] = y /\ r[2] = y /\ RecordedIn(S, p) /\ RecordedIn(S, r)

\* The top edge is the first row with two recorded pixels.
TopEdge(b, S) ==
  /\ \A y \in 0..(Height - 1) : TwoRecorded(S, y) => b.min_j <= y
  /\ b.min_j # NoCoord => TwoRecorded(S, b.min_j)

\* The first and the last row with a pixel exist.
HasRows(S) ==
  S # {} => /\ \E p \in S : \A q \in S : p[2] <= q[2]
            /\ \E p \in S : \A q \in S : q[2] <= p[2]

Describes(b, S) == LeftEdge(b, S) /\ FarEdges(b, S) /\ TopEdge(b, S) /\ HasRows(S)

LEMMA DescribesNothing == EmptyBlock \in Blocks /\ Describes(EmptyBlock, {})
BY SizeNat DEF EmptyBlock, Blocks, Describes, LeftEdge, FarEdges, TopEdge, TwoRecorded,
               HasRows, NoCoord

\* A later pixel does not record an earlier one.
LEMMA RecordedStays ==
  ASSUME NEW S \in SUBSET Pixels, NEW p \in Pixels, \A q \in S : Before(q, p)
  PROVE  /\ p \notin S
         /\ \A q \in S : RecordedIn(S \cup {p}, q) <=> RecordedIn(S, q)
         /\ RecordedIn(S \cup {p}, p) <=> \E q \in S : q[1] <= p[1]
<1>1. /\ p[1] \in Int /\ p[2] \in Int
      /\ \A q \in S : q[1] \in Int /\ q[2] \in Int
  BY PixelFields, SizeNat
<1>2. ~Before(p, p) /\ \A q \in S : ~Before(p, q)
  BY <1>1 DEF Before
<1> QED  BY <1>2 DEF RecordedIn

LEMMA BlockTrack ==
  ASSUME NEW b \in Blocks, NEW p \in Pixels
  PROVE  Track(b, p[1], p[2]) \in Blocks
<1>1. /\ p[1] \in 0..(Width - 1) /\ p[2] \in 0..(Height - 1)
      /\ Width \in Nat /\ Width < NoCoord /\ Height \in Nat /\ NoCoord \in Nat
  BY PixelFields, SizeNat
<1>2. /\ b.min_i \in 0..NoCoord /\ b.min_j \in 0..NoCoord
      /\ b.max_i \in -1..(Width - 1) /\ b.max_j \in -1..(Height - 1)
      /\ b = [min_i |-> b.min_i, min_j |-> b.min_j, max_i |-> b.max_i, max_j |-> b.max_j]
  BY DEF Blocks
<1>3. CASE p[1] < b.min_i
  <2>1. Track(b, p[1], p[2]) =
          [min_i |-> p[1], min_j |-> b.min_j, max_i |-> b.max_i, max_j |-> b.max_j]
    BY <1>2, <1>3 DEF Track
  <2>2. p[1] \in 0..NoCoord
    BY <1>1
  <2> QED  BY <1>2, <2>1, <2>2 DEF Blocks
<1>4. CASE ~(p[1] < b.min_i)
  <2> DEFINE top == IF p[2] <= b.max_j THEN Lesser(p[2], b.min_j) ELSE b.min_j
             right == Greater(p[1], b.max_i)
             bottom == Greater(p[2], b.max_j)
  <2>1. Track(b, p[1], p[2]) =
          [min_i |-> b.min_i, min_j |-> top, max_i |-> right, max_j |-> bottom]
    BY <1>2, <1>4 DEF Track
  <2>2. top \in 0..NoCoord
    BY <1>1, <1>2, SizeNat DEF Lesser
  <2>3. right \in -1..(Width - 1) /\ bottom \in -1..(Height - 1)
    BY <1>1, <1>2 DEF Greater
  <2> HIDE DEF top, right, bottom
  <2> QED  BY <1>2, <2>1, <2>2, <2>3 DEF Blocks
<1> QED  BY <1>3, <1>4

\* One turn of the loop with a changed pixel.
LEMMA DescribesOneMore ==
  ASSUME NEW S \in SUBSET Pixels, NEW p \in Pixels, NEW b \in Blocks,
         Describes(b, S), \A q \in S : Before(q, p)
  PROVE  Describes(Track(b, p[1], p[2]), S \cup {p})
<1> DEFINE x == p[1]
           y == p[2]
           T == S \cup {p}
           c == Track(b, x, y)
<1> SUFFICES Describes(c, T)
  OBVIOUS
<1>1. /\ x \in 0..(Width - 1) /\ y \in 0..(Height - 1)
      /\ \A q \in S : q[1] \in 0..(Width - 1) /\ q[2] \in 0..(Height - 1) /\ q[2] <= y
  BY PixelFields, SizeNat DEF Before
<1>2. /\ b.min_i \in 0..NoCoord /\ b.min_j \in 0..NoCoord
      /\ b.max_i \in -1..(Width - 1) /\ b.max_j \in -1..(Height - 1)
      /\ Width \in Nat /\ Height \in Nat /\ NoCoord \in Nat
      /\ Width < NoCoord /\ Height < NoCoord
  BY SizeNat DEF Blocks
<1>3. p \notin S /\ \A q \in S : RecordedIn(T, q) <=> RecordedIn(S, q)
  BY RecordedStays, Zenon
<1>4. RecordedIn(T, p) <=> ~(x < b.min_i)
  <2>1. RecordedIn(T, p) <=> \E q \in S : q[1] <= x
    BY RecordedStays
  <2>2. (\E q \in S : q[1] <= x) <=> ~(x < b.min_i)
    BY <1>1, <1>2 DEF Describes, LeftEdge
  <2> QED  BY <2>1, <2>2, Zenon
<1>5. HasRows(T)
  <2>1. \E r \in T : \A q \in T : q[2] <= r[2]
    BY <1>1, <1>2
  <2>2. \E r \in T : \A q \in T : r[2] <= q[2]
    <3>1. CASE S = {}
      BY <1>1, <1>2, <3>1
    <3>2. CASE S # {}
      <4>1. PICK r \in S : \A q \in S : r[2] <= q[2]
        BY <3>2, Zenon DEF Describes, HasRows
      <4> QED  BY <1>1, <4>1
    <3> QED  BY <3>1, <3>2
  <2> QED  BY <2>1, <2>2, Zenon DEF HasRows
<1>6. CASE x < b.min_i
  <2>1. c.min_i = x /\ c.min_j = b.min_j /\ c.max_i = b.max_i /\ c.max_j = b.max_j
    BY <1>6 DEF Track, Blocks
  <2>2. \A q \in T : RecordedIn(T, q) <=> q \in S /\ RecordedIn(S, q)
    BY <1>3, <1>4, <1>6, Zenon
  <2> HIDE DEF c
  <2>3. LeftEdge(c, T)
    BY <1>1, <1>2, <1>6, <2>1 DEF Describes, LeftEdge
  <2>4. FarEdges(c, T)
    BY <2>1, <2>2 DEF Describes, FarEdges
  <2>5. \A k : TwoRecorded(T, k) <=> TwoRecorded(S, k)
    BY <2>2, Zenon DEF TwoRecorded
  <2>6. TopEdge(c, T)
    BY <2>1, <2>5 DEF Describes, TopEdge
  <2> QED  BY <1>5, <2>3, <2>4, <2>6, Zenon DEF Describes
<1>7. CASE ~(x < b.min_i)
  <2>1. /\ c.min_i = b.min_i
        /\ c.max_i = Greater(x, b.max_i)
        /\ c.max_j = Greater(y, b.max_j)
        /\ c.min_j = IF y <= b.max_j THEN Lesser(y, b.min_j) ELSE b.min_j
    BY <1>7 DEF Track, Blocks
  <2>2. RecordedIn(T, p) /\ \A q \in S : RecordedIn(T, q) <=> RecordedIn(S, q)
    BY <1>3, <1>4, <1>7, Zenon
  <2> HIDE DEF c
  <2>3. LeftEdge(c, T)
    BY <1>1, <1>2, <1>7, <2>1 DEF Describes, LeftEdge
  <2>4. FarEdges(c, T)
    <3>1. \A q \in T : RecordedIn(T, q) => q[1] <= c.max_i /\ q[2] <= c.max_j
      <4>1. x <= c.max_i /\ y <= c.max_j /\ b.max_i <= c.max_i /\ b.max_j <= c.max_j
            /\ c.max_i \in Int /\ c.max_j \in Int
        BY <1>1, <1>2, <2>1 DEF Greater
      <4>2. \A q \in S : RecordedIn(S, q) => q[1] <= b.max_i /\ q[2] <= b.max_j
        BY DEF Describes, FarEdges
      <4>3. \A q \in S : RecordedIn(T, q) => q[1] <= c.max_i /\ q[2] <= c.max_j
        <5> SUFFICES ASSUME NEW q \in S, RecordedIn(T, q)
                     PROVE  q[1] <= c.max_i /\ q[2] <= c.max_j
          OBVIOUS
        <5>1. q[1] <= b.max_i /\ q[2] <= b.max_j
          BY <2>2, <4>2, Zenon
        <5> QED  BY <1>1, <1>2, <4>1, <5>1
      <4> QED  BY <4>1, <4>3
    <3>2. c.max_i # -1 => \E q \in T : RecordedIn(T, q) /\ q[1] = c.max_i
      BY <1>1, <1>2, <2>1, <2>2 DEF Describes, FarEdges, Greater
    <3>3. c.max_j # -1 => \E q \in T : RecordedIn(T, q) /\ q[2] = c.max_j
      BY <1>1, <1>2, <2>1, <2>2 DEF Describes, FarEdges, Greater
    <3> QED  BY <3>1, <3>2, <3>3 DEF FarEdges
  <2>5. b.max_j <= y /\ (y <= b.max_j <=> \E q \in S : RecordedIn(S, q) /\ q[2] = y)
    BY <1>1, <1>2 DEF Describes, FarEdges
  <2>6. \A k : TwoRecorded(T, k) <=> TwoRecorded(S, k) \/ (k = y /\ y <= b.max_j)
    BY <1>3, <2>2, <2>5, Zenon DEF TwoRecorded
  <2>7. TopEdge(c, T)
    <3>1. \A k \in 0..(Height - 1) : TwoRecorded(S, k) => b.min_j <= k
      BY DEF Describes, TopEdge
    <3>2. b.min_j # NoCoord => TwoRecorded(S, b.min_j)
      BY DEF Describes, TopEdge
    <3>3. \A k \in 0..(Height - 1) : TwoRecorded(T, k) => c.min_j <= k
      BY <1>1, <1>2, <2>1, <2>6, <3>1 DEF Lesser
    <3>4. c.min_j # NoCoord => TwoRecorded(T, c.min_j)
      BY <1>1, <1>2, <2>1, <2>6, <3>2 DEF Lesser
    <3> QED  BY <3>3, <3>4 DEF TopEdge
  <2> QED  BY <1>5, <2>3, <2>4, <2>7, Zenon DEF Describes
<1> QED  BY <1>6, <1>7

-----------------------------------------------------------------------------
(* The loop invariant. *)

Seen == changed \ differing

\* The pixels that the loops have yet to visit are the ones that still differ.
InOrder == \A p \in changed : p \in differing <=> next <= Index(p)

BoxInv == Describes(varblock, Seen)

MarkInv == Done => marked = Marked(varblock)

ScanInv == TypeOK /\ InOrder /\ BoxInv /\ MarkInv

LEMMA MarkedIsRegion == \A b : Marked(b) \in Regions
BY DEF Marked, MarkRect, Regions

LEMMA ScanInit == Init => ScanInv
<1> SUFFICES ASSUME Init PROVE ScanInv
  OBVIOUS
<1>1. \A p \in changed : 0 <= Index(p)
  BY IndexBound, SizeNat DEF Init
<1>2. InOrder
  BY <1>1 DEF Init, InOrder
<1>3. Seen = {} /\ varblock = EmptyBlock
  BY DEF Init, Seen
<1>4. BoxInv /\ varblock \in Blocks
  BY <1>3, DescribesNothing DEF BoxInv
<1>5. Width * Height \in Nat
  BY SizeNat
<1>6. TypeOK
  BY <1>4, <1>5 DEF Init, TypeOK, Blocks, Regions
<1>7. MarkInv
  BY <1>5 DEF Init, MarkInv, Done
<1> QED  BY <1>2, <1>4, <1>6, <1>7 DEF ScanInv

LEMMA ScanPixelStep == ScanInv /\ ScanPixel => ScanInv'
<1> SUFFICES ASSUME ScanInv, ScanPixel PROVE ScanInv'
  OBVIOUS
<1> DEFINE p == PixelAt(next)
<1>1. /\ next \in Nat /\ next < Width * Height /\ Width * Height \in Nat
      /\ changed \subseteq Pixels /\ differing \subseteq changed
      /\ varblock \in Blocks /\ marked \in Regions
  BY SizeNat DEF ScanInv, TypeOK, ScanPixel, Blocks
<1>2. p \in Pixels /\ Index(p) = next
  BY <1>1, PixelAtIndex
<1>3. /\ differing' = differing \ {p} /\ next' = next + 1
      /\ UNCHANGED <<changed, marked>>
      /\ varblock' = IF p \in differing THEN Track(varblock, p[1], p[2]) ELSE varblock
  BY DEF ScanPixel
<1> HIDE DEF p
<1>4. \A q \in changed : Index(q) \in Int /\ (Index(q) = next <=> q = p)
  BY <1>1, <1>2, IndexBound, IndexInjective, SizeNat
<1>5. InOrder'
  <2>1. \A q \in changed : q \in differing <=> next <= Index(q)
    BY DEF ScanInv, InOrder
  <2>2. \A q \in changed : q \in differing' <=> next' <= Index(q)
    BY <1>1, <1>3, <1>4, <2>1
  <2> QED  BY <1>3, <2>2 DEF InOrder, Index
<1>6. varblock' \in Blocks
  BY <1>1, <1>2, <1>3, BlockTrack
<1>7. TypeOK'
  BY <1>1, <1>3, <1>6 DEF TypeOK, Blocks
<1>8. MarkInv'
  BY <1>1, <1>3 DEF MarkInv, Done
<1>9. BoxInv'
  <2>1. CASE p \in differing
    <3>1. \A q \in Seen : Before(q, p)
      <4>1. \A q \in Seen : Index(q) < Index(p)
        BY <1>1, <1>2, <1>4 DEF Seen, ScanInv, InOrder
      <4> QED  BY <1>1, <1>2, <4>1, IndexOrder DEF Seen
    <3>2. Seen' = Seen \cup {p}
      BY <1>1, <1>3, <2>1 DEF Seen
    <3>3. Describes(Track(varblock, p[1], p[2]), Seen \cup {p})
      BY <1>1, <1>2, <3>1, DescribesOneMore DEF Seen, ScanInv, BoxInv
    <3> QED  BY <1>3, <2>1, <3>2, <3>3 DEF BoxInv
  <2>2. CASE p \notin differing
    <3>1. p \notin changed
      BY <1>1, <1>2, <2>2 DEF ScanInv, InOrder
    <3>2. Seen' = Seen /\ varblock' = varblock
      BY <1>1, <1>3, <2>2, <3>1 DEF Seen
    <3> QED  BY <3>2 DEF ScanInv, BoxInv
  <2> QED  BY <2>1, <2>2
<1> QED  BY <1>5, <1>7, <1>8, <1>9 DEF ScanInv

LEMMA ScanStep == ScanInv /\ [Next]_vars => ScanInv'
<1> SUFFICES ASSUME ScanInv, [Next]_vars PROVE ScanInv'
  OBVIOUS
<1>1. CASE ScanPixel
  BY <1>1, ScanPixelStep
<1>2. CASE MarkScreen
  <2>1. /\ UNCHANGED <<changed, differing, varblock>>
        /\ marked' = Marked(varblock) /\ next = Width * Height /\ next' = next + 1
    BY <1>2 DEF MarkScreen
  <2>2. Width * Height \in Nat
    BY SizeNat
  <2>3. changed \subseteq Pixels
    BY DEF ScanInv, TypeOK
  <2>4. \A p \in changed : Index(p) \in Int /\ Index(p) < next
    BY <2>1, <2>2, <2>3, IndexBound, SizeNat
  <2>5. InOrder'
    BY <2>1, <2>2, <2>4 DEF ScanInv, InOrder, Index
  <2>6. TypeOK'
    BY <2>1, <2>2, MarkedIsRegion DEF ScanInv, TypeOK
  <2>7. BoxInv' /\ MarkInv'
    BY <2>1 DEF ScanInv, BoxInv, Seen, MarkInv
  <2> QED  BY <2>5, <2>6, <2>7 DEF ScanInv
<1>3. CASE UNCHANGED vars
  BY <1>3 DEF vars, ScanInv, TypeOK, InOrder, BoxInv, Seen, MarkInv, Done
<1> QED  BY <1>1, <1>2, <1>3 DEF Next

LEMMA ScanSafe == Spec => []ScanInv
BY ScanInit, ScanStep, PTL DEF Spec

\* The loops stay on the screen and in the box's range, for every screen.
THEOREM TypeCorrect == Spec => []TypeOK
<1>1. ScanInv => TypeOK
  BY DEF ScanInv
<1> QED  BY <1>1, ScanSafe, PTL

-----------------------------------------------------------------------------
(* What a box covers. *)

LEMMA ThreeMembers ==
  ASSUME NEW S, IsFiniteSet(S)
  PROVE  Cardinality(S) >= 3 <=> \E a, b, c \in S : a # b /\ a # c /\ b # c
<1>1. Cardinality(S) \in Nat
  BY FS_CardinalityType
<1>2. ASSUME Cardinality(S) >= 3
      PROVE  \E a, b, c \in S : a # b /\ a # c /\ b # c
  <2>1. PICK a \in S : TRUE
    BY <1>1, <1>2, FS_EmptySet
  <2>2. IsFiniteSet(S \ {a}) /\ Cardinality(S \ {a}) = Cardinality(S) - 1
    BY FS_RemoveElement
  <2>3. PICK b \in S \ {a} : TRUE
    BY <1>1, <1>2, <2>2, FS_EmptySet
  <2>4. /\ IsFiniteSet((S \ {a}) \ {b})
        /\ Cardinality((S \ {a}) \ {b}) = Cardinality(S \ {a}) - 1
    BY <2>2, FS_RemoveElement
  <2>5. PICK c \in (S \ {a}) \ {b} : TRUE
    BY <1>1, <1>2, <2>2, <2>4, FS_EmptySet
  <2> QED  BY <2>1, <2>3, <2>5
<1>3. ASSUME NEW a \in S, NEW b \in S, NEW c \in S, a # b, a # c, b # c
      PROVE  Cardinality(S) >= 3
  <2>1. IsFiniteSet({a, b, c}) /\ Cardinality({a, b, c}) = 3
    <3>1. IsFiniteSet({a}) /\ Cardinality({a}) = 1
      BY FS_Singleton
    <3>2. b \notin {a} /\ c \notin {a} \cup {b}
      BY <1>3
    <3>3. IsFiniteSet({a} \cup {b}) /\ Cardinality({a} \cup {b}) = Cardinality({a}) + 1
      BY <3>1, <3>2, FS_AddElement, Zenon
    <3>4. /\ IsFiniteSet(({a} \cup {b}) \cup {c})
          /\ Cardinality(({a} \cup {b}) \cup {c}) = Cardinality({a} \cup {b}) + 1
      BY <3>2, <3>3, FS_AddElement, Zenon
    <3>5. ({a} \cup {b}) \cup {c} = {a, b, c}
      OBVIOUS
    <3> QED  BY <3>1, <3>3, <3>4, <3>5
  <2>2. Cardinality({a, b, c}) <= Cardinality(S)
    BY FS_Subset
  <2> QED  BY <1>1, <2>1, <2>2
<1> QED  BY <1>2, <1>3

LEMMA PixelsFinite == IsFiniteSet(Pixels)
<1>1. 0 \in Int /\ Width - 1 \in Int /\ Height - 1 \in Int
  BY SizeNat
<1>2. IsFiniteSet(0..(Width - 1)) /\ IsFiniteSet(0..(Height - 1))
  BY <1>1, FS_Interval, Zenon
<1> QED  BY <1>2, FS_Product, Zenon DEF Pixels

\* A rectangle whose corners are in order and on the screen.
LEMMA MarkRectOrdered ==
  ASSUME NEW x1 \in 0..(Width - 1), NEW x2 \in Int, x1 < x2,
         NEW y1 \in 0..(Height - 1), NEW y2 \in Int, y1 < y2, y2 <= Height
  PROVE  MarkRect(x1, y1, x2, y2) =
           {p \in Pixels : x1 <= p[1] /\ p[1] < x2 /\ y1 <= p[2] /\ p[2] < y2}
<1>1. Width \in Nat \ {0} /\ Height \in Nat \ {0}
  BY SizeNat
<1>2. /\ Greater(0, Lesser(x1, x2)) = x1
      /\ Greater(0, Lesser(y1, y2)) = y1 /\ Lesser(Height, Greater(y1, y2)) = y2
  BY <1>1 DEF Greater, Lesser
<1>3. Lesser(Width, Greater(x1, x2)) = Lesser(Width, x2) /\ x1 < Lesser(Width, x2)
  BY <1>1 DEF Greater, Lesser
<1>4. \A p \in Pixels : p[1] < Lesser(Width, x2) <=> p[1] < x2
  BY <1>1, PixelFields DEF Lesser
<1>5. MarkRect(x1, y1, x2, y2) =
        {p \in Pixels : x1 <= p[1] /\ p[1] < Lesser(Width, x2) /\ y1 <= p[2] /\ p[2] < y2}
  BY <1>1, <1>2, <1>3 DEF MarkRect, Lesser
<1> QED  BY <1>4, <1>5

\* In whatever order the corners are, nothing above both of them is marked.
LEMMA NothingAbove ==
  ASSUME NEW x1 \in Int, NEW y1 \in Int, NEW x2 \in Int, NEW y2 \in Int,
         NEW p \in Pixels, p[2] < y1, p[2] < y2
  PROVE  p \notin MarkRect(x1, y1, x2, y2)
<1>1. p # Inverted /\ p[2] \in Nat
  BY PixelFields, SizeNat DEF Inverted
<1>2. p[2] < Greater(0, Lesser(y1, y2))
  BY <1>1 DEF Greater, Lesser
<1>3. Greater(0, Lesser(y1, y2)) \in Int
  BY DEF Greater, Lesser
<1> QED  BY <1>1, <1>2, <1>3 DEF MarkRect

LEMMA BoxCovers ==
  ASSUME NEW S \in SUBSET Pixels, NEW b \in Blocks, Describes(b, S), S # {}
  PROVE  S \subseteq Marked(b) <=>
           /\ b.min_j # NoCoord
           /\ \A p \in S : p[1] < b.max_i + 2 /\ b.min_j <= p[2] /\ p[2] <= b.max_j
<1>1. /\ b.min_i \in Nat /\ b.min_j \in 0..NoCoord
      /\ b.max_i \in -1..(Width - 1) /\ b.max_j \in -1..(Height - 1)
      /\ Width \in Nat /\ Height \in Nat /\ NoCoord \in Nat
      /\ Width < NoCoord /\ Height < NoCoord
  BY SizeNat DEF Blocks
<1>2. \A p \in S : /\ p \in Pixels /\ p[1] \in 0..(Width - 1) /\ p[2] \in 0..(Height - 1)
                   /\ b.min_i <= p[1]
  BY PixelFields DEF Describes, LeftEdge
<1>3. b.min_i < NoCoord /\ b.min_i < Width
  BY <1>1, <1>2
<1>4. \A p \in S : RecordedIn(S, p) => p[1] <= b.max_i /\ p[2] <= b.max_j
  BY DEF Describes, FarEdges
<1>5. CASE b.max_j = -1
  <2>1. \A p \in S : ~RecordedIn(S, p)
    BY <1>1, <1>2, <1>4, <1>5
  <2>2. b.max_i = -1
    BY <2>1 DEF Describes, FarEdges
  <2>3. b.min_j = NoCoord
    BY <2>1 DEF Describes, TopEdge, TwoRecorded
  <2>4. Marked(b) = MarkRect(b.min_i, NoCoord, b.min_i + 2, NoCoord + 1)
    BY <1>1, <1>3, <1>5, <2>2, <2>3 DEF Marked
  <2>5. \A p \in S : p \notin Marked(b)
    <3> SUFFICES ASSUME NEW p \in S PROVE p \notin Marked(b)
      OBVIOUS
    <3>1. p[2] < NoCoord /\ p[2] < NoCoord + 1
      BY <1>1, <1>2
    <3>2. b.min_i + 2 \in Int /\ NoCoord + 1 \in Int
      BY <1>1
    <3> QED  BY <1>1, <1>2, <2>4, <3>1, <3>2, NothingAbove
  <2> QED  BY <2>3, <2>5
<1>6. CASE b.max_j # -1 /\ b.min_j = NoCoord
  <2>1. PICK p \in S : RecordedIn(S, p) /\ p[2] = b.max_j
    BY <1>6 DEF Describes, FarEdges
  <2>2. b.max_i \in Nat
    BY <1>1, <1>2, <1>4, <2>1
  <2>3. Marked(b) = MarkRect(b.min_i, NoCoord, b.max_i + 2, b.max_j + 1)
    BY <1>1, <1>3, <1>6, <2>2 DEF Marked
  <2>4. p \notin Marked(b)
    <3>1. p[2] < NoCoord /\ p[2] < b.max_j + 1
      BY <1>1, <1>2, <2>1
    <3>2. b.max_i + 2 \in Int /\ b.max_j + 1 \in Int
      BY <1>1
    <3> QED  BY <1>1, <1>2, <2>3, <3>1, <3>2, NothingAbove
  <2> QED  BY <1>6, <2>4
<1>7. CASE b.min_j # NoCoord
  <2>1. PICK p \in S : RecordedIn(S, p) /\ p[2] = b.min_j
    BY <1>7 DEF Describes, TopEdge, TwoRecorded
  <2>2. b.max_i \in Nat /\ b.min_i <= b.max_i /\ b.min_j <= b.max_j /\ b.max_j \in Nat
    BY <1>1, <1>2, <1>4, <2>1
  <2>3. Marked(b) = MarkRect(b.min_i, b.min_j, b.max_i + 2, b.max_j + 1)
    BY <1>1, <1>3, <2>2 DEF Marked
  <2>4. /\ b.min_i \in 0..(Width - 1) /\ b.max_i + 2 \in Int /\ b.min_i < b.max_i + 2
        /\ b.min_j \in 0..(Height - 1) /\ b.max_j + 1 \in Int /\ b.min_j < b.max_j + 1
        /\ b.max_j + 1 <= Height
    BY <1>1, <1>3, <2>2
  <2>5. Marked(b) = {q \in Pixels : /\ b.min_i <= q[1] /\ q[1] < b.max_i + 2
                                    /\ b.min_j <= q[2] /\ q[2] < b.max_j + 1}
    BY <2>3, <2>4, MarkRectOrdered
  <2>6. \A q \in S : q[2] < b.max_j + 1 <=> q[2] <= b.max_j
    BY <1>1, <1>2
  <2> QED  BY <1>2, <1>7, <2>5, <2>6
<1> QED  BY <1>5, <1>6, <1>7

-----------------------------------------------------------------------------
(* The frames that are covered. *)

LEMMA TopAndLastRow ==
  ASSUME changed \subseteq Pixels, changed # {}, HasRows(changed)
  PROVE  /\ Row(TopRow) # {} /\ \A p \in changed : TopRow <= p[2]
         /\ Row(LastRow) # {} /\ \A p \in changed : p[2] <= LastRow
         /\ TopRow \in 0..(Height - 1) /\ LastRow \in 0..(Height - 1)
<1> DEFINE IsTop(y) == Row(y) # {} /\ \A z \in 0..(y - 1) : Row(z) = {}
           IsLast(y) == Row(y) # {} /\ \A z \in (y + 1)..(Height - 1) : Row(z) = {}
<1>1. \A p \in changed : p[2] \in 0..(Height - 1) /\ p \in Row(p[2])
  BY PixelFields DEF Row
<1>2. Height \in Nat
  BY SizeNat
<1>3. \E y \in 0..(Height - 1) : IsTop(y)
  <2>1. PICK p \in changed : \A q \in changed : p[2] <= q[2]
    BY Zenon DEF HasRows
  <2>2. \A z \in 0..(p[2] - 1) : Row(z) = {}
    BY <1>1, <1>2, <2>1 DEF Row
  <2> QED  BY <1>1, <2>1, <2>2
<1>4. \E y \in 0..(Height - 1) : IsLast(y)
  <2>1. PICK p \in changed : \A q \in changed : q[2] <= p[2]
    BY Zenon DEF HasRows
  <2>2. \A z \in (p[2] + 1)..(Height - 1) : Row(z) = {}
    BY <1>1, <1>2, <2>1 DEF Row
  <2> QED  BY <1>1, <2>1, <2>2
<1>5. TopRow \in 0..(Height - 1) /\ IsTop(TopRow)
  BY <1>3, Zenon DEF TopRow
<1>6. LastRow \in 0..(Height - 1) /\ IsLast(LastRow)
  BY <1>4, Zenon DEF LastRow
<1>7. \A p \in changed : TopRow <= p[2]
  BY <1>1, <1>2, <1>5
<1>8. \A p \in changed : p[2] <= LastRow
  BY <1>1, <1>2, <1>6
<1> QED  BY <1>5, <1>6, <1>7, <1>8

\* All but the first changed pixel of the top row are recorded.
LEMMA TopRowRecorded ==
  ASSUME changed \subseteq Pixels, changed # {}, HasRows(changed)
  PROVE  Cardinality(Row(TopRow)) >= 3 <=> TwoRecorded(changed, TopRow)
<1>1. \A p \in changed : p[1] \in Nat /\ p[2] \in Nat /\ p = <<p[1], p[2]>>
  BY PixelFields, SizeNat
<1>2. /\ \A p \in changed : TopRow <= p[2]
      /\ TopRow \in Nat
  BY TopAndLastRow, SizeNat
<1>3. IsFiniteSet(Row(TopRow))
  BY PixelsFinite, FS_Subset DEF Row
<1>4. Cardinality(Row(TopRow)) >= 3
        <=> \E a, b, c \in Row(TopRow) : a # b /\ a # c /\ b # c
  BY <1>3, ThreeMembers
<1>5. \A p \in Row(TopRow) : RecordedIn(changed, p) <=> \E q \in Row(TopRow) : q[1] < p[1]
  BY <1>1, <1>2 DEF Row, RecordedIn, Before
<1>6. \A p, r \in Row(TopRow) : p # r => p[1] < r[1] \/ r[1] < p[1]
  BY <1>1 DEF Row
<1>7. ASSUME NEW a \in Row(TopRow), NEW b \in Row(TopRow), NEW c \in Row(TopRow),
             a # b, a # c, b # c
      PROVE  TwoRecorded(changed, TopRow)
  <2>1. \/ RecordedIn(changed, a) /\ RecordedIn(changed, b)
        \/ RecordedIn(changed, a) /\ RecordedIn(changed, c)
        \/ RecordedIn(changed, b) /\ RecordedIn(changed, c)
    BY <1>5, <1>6, <1>7
  <2> QED  BY <1>7, <2>1 DEF TwoRecorded, Row
<1>8. ASSUME TwoRecorded(changed, TopRow)
      PROVE  \E a, b, c \in Row(TopRow) : a # b /\ a # c /\ b # c
  <2>1. PICK p \in Row(TopRow), r \in Row(TopRow) :
          p # r /\ RecordedIn(changed, p) /\ RecordedIn(changed, r)
    BY <1>8 DEF TwoRecorded, Row
  <2>2. PICK q \in Row(TopRow) : q[1] < p[1]
    BY <1>5, <2>1
  <2>3. PICK s \in Row(TopRow) : s[1] < r[1]
    BY <1>5, <2>1
  <2>4. q # p /\ s # r /\ q[1] \in Nat /\ p[1] \in Nat /\ s[1] \in Nat /\ r[1] \in Nat
    BY <1>1, <2>1, <2>2, <2>3 DEF Row
  <2>5. q # r \/ s # p
    BY <2>2, <2>3, <2>4
  <2> QED  BY <2>1, <2>2, <2>3, <2>4, <2>5
<1> QED  BY <1>4, <1>7, <1>8

LEMMA CoveredWhenCoverable ==
  ASSUME TypeOK, BoxInv, differing = {}
  PROVE  changed \subseteq Marked(varblock) <=> Coverable
<1> DEFINE b == varblock
<1>1. /\ changed \in SUBSET Pixels /\ b \in Blocks /\ Describes(b, changed)
  BY DEF TypeOK, Blocks, BoxInv, Seen
<1> HIDE DEF b
<1>2. CASE changed = {}
  BY <1>2 DEF Coverable
<1>3. CASE changed # {}
  <2>1. /\ changed \subseteq Pixels /\ HasRows(changed)
    BY <1>1 DEF Describes
  <2>2. \A p \in changed : p[1] \in Nat /\ p[2] \in 0..(Height - 1)
    BY <2>1, PixelFields, SizeNat
  <2>3. /\ Row(TopRow) # {} /\ \A p \in changed : TopRow <= p[2]
        /\ Row(LastRow) # {} /\ \A p \in changed : p[2] <= LastRow
        /\ TopRow \in 0..(Height - 1) /\ LastRow \in 0..(Height - 1)
    BY <1>3, <2>1, TopAndLastRow
  <2>4. /\ b.min_j \in 0..NoCoord /\ b.max_i \in -1..(Width - 1)
        /\ b.max_j \in -1..(Height - 1) /\ Height \in Nat /\ Width \in Nat
        /\ NoCoord \in Nat /\ Height < NoCoord
    BY <1>1, SizeNat DEF Blocks
  <2>5. \A p \in changed : Recorded(p) <=> RecordedIn(changed, p)
    BY DEF Recorded, RecordedIn, Before
  <2>6. Coverable <=> /\ TwoRecorded(changed, TopRow)
                      /\ \E p \in Row(LastRow) : RecordedIn(changed, p)
    BY <1>3, <2>1, <2>5, TopRowRecorded DEF Coverable, Row
  <2>7. \A p \in changed : RecordedIn(changed, p) => p[1] <= b.max_i /\ p[2] <= b.max_j
    BY <1>1 DEF Describes, FarEdges
  <2>8. ASSUME Coverable
        PROVE  /\ b.min_j # NoCoord
               /\ \A p \in changed :
                    p[1] < b.max_i + 2 /\ b.min_j <= p[2] /\ p[2] <= b.max_j
    <3>1. b.min_j <= TopRow
      BY <1>1, <2>3, <2>6, <2>8 DEF Describes, TopEdge
    <3>2. LastRow <= b.max_j
      BY <2>6, <2>7, <2>8 DEF Row
    <3>3. PICK u \in changed : u[2] = TopRow /\ RecordedIn(changed, u)
      BY <2>6, <2>8 DEF TwoRecorded
    <3>4. \A p \in changed : p[1] <= b.max_i
      <4> SUFFICES ASSUME NEW p \in changed PROVE p[1] <= b.max_i
        OBVIOUS
      <4>1. CASE RecordedIn(changed, p)
        BY <2>7, <4>1
      <4>2. CASE ~RecordedIn(changed, p)
        <5>1. p[1] <= u[1]
          BY <2>2, <2>3, <3>3, <4>2 DEF RecordedIn, Before
        <5> QED  BY <2>2, <2>4, <2>7, <3>3, <5>1
      <4> QED  BY <4>1, <4>2
    <3> QED  BY <2>2, <2>3, <2>4, <3>1, <3>2, <3>4
  <2>9. ASSUME b.min_j # NoCoord,
               \A p \in changed : b.min_j <= p[2] /\ p[2] <= b.max_j
        PROVE  Coverable
    <3>1. TwoRecorded(changed, b.min_j)
      BY <1>1, <2>9 DEF Describes, TopEdge
    <3>2. b.min_j = TopRow
      BY <2>2, <2>3, <2>4, <2>9, <3>1 DEF TwoRecorded, Row
    <3>3. b.max_j # -1
      BY <1>3, <2>2, <2>4, <2>9
    <3>4. PICK p \in changed : RecordedIn(changed, p) /\ p[2] = b.max_j
      BY <1>1, <3>3 DEF Describes, FarEdges
    <3>5. p[2] = LastRow
      BY <2>2, <2>3, <2>4, <2>9, <3>4 DEF Row
    <3> QED  BY <2>6, <3>1, <3>2, <3>4, <3>5 DEF Row
  <2>10. changed \subseteq Marked(b) <=>
           /\ b.min_j # NoCoord
           /\ \A p \in changed :
                p[1] < b.max_i + 2 /\ b.min_j <= p[2] /\ p[2] <= b.max_j
    BY <1>1, <1>3, BoxCovers
  <2> QED  BY <2>8, <2>9, <2>10 DEF b
<1> QED  BY <1>2, <1>3

\* For a screen of any size below the sentinel, update_screen marks all that
\* changed exactly on the frames that Coverable describes.
THEOREM CoverageExact == Spec => []CoveredExactlyWhenCoverable
<1>1. ScanInv => CoveredExactlyWhenCoverable
  <2> SUFFICES ASSUME ScanInv, Done PROVE changed \subseteq marked <=> Coverable
    BY DEF CoveredExactlyWhenCoverable
  <2>1. \A p \in changed : Index(p) \in Int /\ Index(p) < next
    BY IndexBound, SizeNat DEF ScanInv, TypeOK, Done
  <2>2. differing = {}
    <3>1. Width * Height \in Nat /\ next \in Nat
      BY SizeNat DEF Done
    <3> QED  BY <2>1, <3>1 DEF ScanInv, TypeOK, InOrder
  <2>3. marked = Marked(varblock)
    BY DEF ScanInv, MarkInv
  <2> QED  BY <2>2, <2>3, CoveredWhenCoverable DEF ScanInv
<1> QED  BY <1>1, ScanSafe, PTL

-----------------------------------------------------------------------------
(* The loop and the function that the update pipeline uses.                *)

\* Every set of numbers that is not empty has a least one.
LEMMA LeastElement ==
  ASSUME NEW T, T \subseteq Nat, T # {}
  PROVE  \E n \in T : \A m \in T : n <= m
<1>1. PICK n \in T : \A m \in T : <<m, n>> \notin OpToRel(<, Nat)
  BY WFMin, NatLessThanWellFounded
<1>2. ASSUME NEW m \in T PROVE n <= m
  <2>1. <<m, n>> \notin {ss \in Nat \X Nat : ss[1] < ss[2]}
    BY <1>1 DEF OpToRel
  <2> QED BY <2>1
<1> QED BY <1>2

\* One round of the loops, as Scan has it, and the equation of Scan's function
\* when it ends after n rounds.
Round(s, b, i) ==
  LET p == PixelAt(i - 1) IN IF p \in s THEN Track(b, p[1], p[2]) ELSE b

IsBox(f, s, n) == f = [i \in 0..n |-> IF i = 0 THEN EmptyBlock ELSE Round(s, f[i - 1], i)]

LEMMA BoxExists ==
  ASSUME NEW s, NEW n \in Nat
  PROVE  \E f : IsBox(f, s, n)
<1> DEFINE Missing == {k \in Nat : ~ \E f : IsBox(f, s, k)}
<1> SUFFICES ASSUME n \in Missing PROVE FALSE
  OBVIOUS
<1>1. PICK k \in Missing : \A m \in Missing : k <= m
  BY LeastElement
<1>2. k # 0
  <2>1. IsBox([i \in 0..0 |-> EmptyBlock], s, 0)
    BY DEF IsBox
  <2> QED  BY <1>1, <2>1
<1>3. PICK g : IsBox(g, s, k - 1)
  <2>1. k - 1 \in Nat /\ ~(k <= k - 1)
    BY <1>1, <1>2
  <2> QED  BY <1>1, <2>1
<1> DEFINE f == [i \in 0..k |-> IF i = k THEN Round(s, g[k - 1], k) ELSE g[i]]
<1>4. IsBox(f, s, k)
  <2>1. k \in Nat /\ k - 1 \in 0..k /\ k - 1 # k
    BY <1>1, <1>2
  <2>2. ASSUME NEW i \in 0..k
        PROVE  f[i] = IF i = 0 THEN EmptyBlock ELSE Round(s, f[i - 1], i)
    <3>1. CASE i = k
      BY <1>2, <2>1, <3>1
    <3>2. CASE i # k
      <4>1. i \in 0..(k - 1) /\ (i # 0 => i - 1 \in 0..k /\ i - 1 # k)
        BY <2>1, <3>2
      <4>2. g[i] = IF i = 0 THEN EmptyBlock ELSE Round(s, g[i - 1], i)
        BY <1>3, <4>1 DEF IsBox
      <4> QED  BY <3>2, <4>1, <4>2
    <3> QED  BY <3>1, <3>2
  <2>3. f = [i \in 0..k |-> f[i]]
    OBVIOUS
  <2> HIDE DEF f
  <2> QED  BY <2>2, <2>3 DEF IsBox
<1> QED  BY <1>1, <1>4

\* Scan's recursive definition defines something: its function satisfies its
\* equation.
LEMMA ScanUnfolds ==
  ASSUME NEW s
  PROVE  \E f : IsBox(f, s, Width * Height) /\ Scan(s) = f[Width * Height]
<1> DEFINE F == CHOOSE f : IsBox(f, s, Width * Height)
<1>1. Width * Height \in Nat
  BY SizeNat
<1>2. IsBox(F, s, Width * Height)
  BY <1>1, BoxExists
<1>3. Scan(s) = F[Width * Height]
  BY DEF Scan, IsBox, Round
<1> QED  BY <1>2, <1>3

FoldInv ==
  \A f : IsBox(f, changed, Width * Height) =>
    /\ next <= Width * Height => varblock = f[next]
    /\ Done => marked = Marked(f[Width * Height])

LEMMA FoldInit == Init => FoldInv
<1> SUFFICES ASSUME Init, NEW f, IsBox(f, changed, Width * Height)
             PROVE  varblock = f[0] /\ ~Done
  BY SizeNat DEF Init, FoldInv
<1>1. Width * Height \in Nat
  BY SizeNat
<1>2. f[0] = EmptyBlock
  BY <1>1 DEF IsBox
<1> QED  BY <1>1, <1>2 DEF Init, Done

LEMMA FoldStep == ScanInv /\ FoldInv /\ [Next]_vars => FoldInv'
<1> SUFFICES ASSUME ScanInv, FoldInv, [Next]_vars, NEW f, IsBox(f, changed', Width * Height)
             PROVE  /\ next' <= Width * Height => varblock' = f[next']
                    /\ Done' => marked' = Marked(f[Width * Height])
  BY DEF FoldInv
<1>0. Width * Height \in Nat /\ next \in Nat
  BY SizeNat DEF ScanInv, TypeOK
<1>1. CASE ScanPixel
  <2> DEFINE p == PixelAt(next)
  <2>1. /\ next' = next + 1 /\ next < Width * Height /\ changed' = changed
        /\ varblock' = IF p \in differing THEN Track(varblock, p[1], p[2]) ELSE varblock
    BY <1>1 DEF ScanPixel
  <2>2. varblock = f[next]
    BY <1>0, <2>1 DEF FoldInv
  <2>3. p \in Pixels /\ Index(p) = next
    BY <1>0, <2>1, PixelAtIndex
  <2>4. p \in differing <=> p \in changed
    <3>1. differing \subseteq changed
      BY DEF ScanInv, TypeOK
    <3>2. \A q \in changed : q \in differing <=> next <= Index(q)
      BY DEF ScanInv, InOrder
    <3> HIDE DEF p
    <3> QED  BY <1>0, <2>3, <3>1, <3>2
  <2>5. f[next + 1] = Round(changed, f[next], next + 1)
    <3>1. next + 1 \in 0..(Width * Height) /\ next + 1 # 0 /\ (next + 1) - 1 = next
      BY <1>0, <2>1
    <3> QED  BY <2>1, <3>1 DEF IsBox
  <2>6. Round(changed, f[next], next + 1) = varblock'
    <3>1. (next + 1) - 1 = next
      BY <1>0
    <3> QED  BY <2>1, <2>2, <2>4, <3>1 DEF Round
  <2> QED  BY <1>0, <2>1, <2>5, <2>6 DEF Done
<1>2. CASE MarkScreen
  <2>1. /\ UNCHANGED <<changed, varblock>> /\ marked' = Marked(varblock)
        /\ next = Width * Height /\ next' = next + 1
    BY <1>2 DEF MarkScreen
  <2>2. varblock = f[Width * Height]
    BY <1>0, <2>1 DEF FoldInv
  <2> QED  BY <1>0, <2>1, <2>2
<1>3. CASE UNCHANGED vars
  BY <1>3 DEF vars, FoldInv, Done
<1> QED  BY <1>1, <1>2, <1>3 DEF Next

\* The loop and the function that RfbServer uses mark the same region, for
\* every screen and every set of changed pixels.
THEOREM ScanIsFoldSafe == Spec => []ScanIsFold
<1>1. FoldInv => ScanIsFold
  <2> SUFFICES ASSUME FoldInv, Done PROVE marked = Marked(Scan(changed))
    BY DEF ScanIsFold, Dirty
  <2>1. PICK f : IsBox(f, changed, Width * Height) /\ Scan(changed) = f[Width * Height]
    BY ScanUnfolds
  <2> QED  BY <2>1 DEF FoldInv
<1> QED  BY <1>1, FoldInit, FoldStep, ScanInit, ScanStep, PTL DEF Spec

\* On the coverable frames, and on no others, what the update pipeline marks of
\* a frame holds all that has changed in it.
THEOREM DirtyExact == Spec => [](Done => ((changed \subseteq Dirty(changed)) <=> Coverable))
<1>1. ScanIsFold /\ CoveredExactlyWhenCoverable
        => (Done => ((changed \subseteq Dirty(changed)) <=> Coverable))
  BY DEF ScanIsFold, CoveredExactlyWhenCoverable
<1> QED  BY <1>1, ScanIsFoldSafe, CoverageExact, PTL
=============================================================================
