--------------------------- MODULE RectSplitProofs --------------------------
(***************************************************************************)
(* For every update of rectangles with width and height, framebuffer and   *)
(* limit of the encoders: the rectangles sent tile the update, as many are *)
(* sent as are announced, and a solid rectangle has one colour.  The       *)
(* invariant says the same of what has been sent and of the calls still to *)
(* be made, taken together.                                                *)
(***************************************************************************)
EXTENDS RectSplit, WellFoundedInduction, TLAPS

-----------------------------------------------------------------------------
(* Numbers. *)

\* Every set of numbers that is not empty has a least one.
LEMMA LeastElement ==
  ASSUME NEW T, T \subseteq Nat, T # {}
  PROVE  \E n \in T : \A m \in T : n <= m
<1>1. PICK n \in T : \A m \in T : <<m, n>> \notin OpToRel(<, Nat)
  BY WFMin, NatLessThanWellFounded
<1>2. ASSUME NEW m \in T PROVE n <= m
  <2>1. <<m, n>> \notin {ss \in Nat \X Nat : ss[1] < ss[2]}
    BY <1>1 DEF OpToRel
  <2> QED  BY <2>1
<1> QED  BY <1>2

\* A bounded set of numbers holds its maximum.
LEMMA MaxBelow ==
  ASSUME NEW b \in Nat, NEW S, S \subseteq 0..b, S # {}
  PROVE  Max(S) \in S
<1> DEFINE Gaps == {b - n : n \in S}
<1>1. Gaps \subseteq Nat /\ Gaps # {}
  <2>1. ASSUME NEW n \in S PROVE b - n \in Nat
    BY S \subseteq 0..b
  <2>2. PICK n : n \in S
    OBVIOUS
  <2>3. b - n \in Gaps
    BY <2>2
  <2> QED  BY <2>1, <2>3
<1>2. PICK g \in Gaps : \A m \in Gaps : g <= m
  BY <1>1, LeastElement
<1>3. PICK n \in S : g = b - n
  OBVIOUS
<1>4. \A m \in S : n >= m
  <2> TAKE m \in S
  <2>1. b - n <= b - m
    BY <1>2, <1>3
  <2>2. n \in 0..b /\ m \in 0..b
    BY S \subseteq 0..b
  <2> QED  BY <2>1, <2>2
<1> QED  BY <1>4 DEF Max

\* A set of numbers that is bounded below holds its minimum.
LEMMA MinAbove ==
  ASSUME NEW a \in Int, NEW S, S \subseteq Int, \A n \in S : n >= a, S # {}
  PROVE  Min(S) \in S
<1> DEFINE Gaps == {n - a : n \in S}
<1>1. Gaps \subseteq Nat /\ Gaps # {}
  OBVIOUS
<1>2. PICK g \in Gaps : \A m \in Gaps : g <= m
  BY <1>1, LeastElement
<1>3. PICK n \in S : g = n - a
  OBVIOUS
<1>4. \A m \in S : n <= m
  <2> TAKE m \in S
  <2>1. n - a <= m - a
    BY <1>2, <1>3
  <2>2. n \in Int /\ m \in Int
    BY S \subseteq Int
  <2> QED  BY <2>1, <2>2
<1> QED  BY <1>4 DEF Min

\* What the division of n by d does.
LEMMA Division ==
  ASSUME NEW n \in Nat, NEW d \in Nat \ {0}
  PROVE  /\ n \div d \in Nat
         /\ (n \div d) * d <= n
         /\ n < (n \div d) * d + d
OBVIOUS

LEMMA Quotient ==
  ASSUME NEW n \in Nat, NEW d \in Nat \ {0}, NEW q \in Nat, q * d <= n, n < q * d + d
  PROVE  n \div d = q
OBVIOUS

LEMMA FitsOnce ==
  ASSUME NEW n \in Nat \ {0}, NEW d \in Nat \ {0}, n <= d
  PROVE  (n - 1) \div d = 0
OBVIOUS

LEMMA OneLess ==
  ASSUME NEW n \in Nat, NEW d \in Nat \ {0}, n > d
  PROVE  (n - 1) \div d = (n - d - 1) \div d + 1
OBVIOUS

LEMMA Sizes ==
  /\ CorreMax \in Nat \ {0} /\ LinesMaxSize \in Nat \ {0}
  /\ MaxRectSize \in Nat \ {0} /\ MaxRectWidth \in Nat \ {0}
  /\ TileSize \in Nat \ {0} /\ MinSplitSize \in Nat \ {0} /\ MinSolidSize \in Nat \ {0}
BY SizesAssumption

-----------------------------------------------------------------------------
(* The stack of calls. *)

Frames == [procedure : Procedures, r : Rects, dy : Int]

\* What Call is handed: a rectangle, or the nothing that is left of one.
Parts == [x : Int, y : Int, w : Int, h : Int, solid : BOOLEAN]

Frame(p, r) == [procedure |-> p, r |-> r, dy |-> r.y]
SomeLeft(r) == r.w > 0 /\ r.h > 0

LEMMA PartIsRect ==
  ASSUME NEW r \in Parts, SomeLeft(r)
  PROVE  r \in Rects
BY DEF Parts, Rects, SomeLeft

LEMMA CallPushes ==
  ASSUME NEW p \in Procedures, NEW r \in Parts, NEW s \in Seq(Frames), SomeLeft(r)
  PROVE  /\ Call(p, r, s) \in Seq(Frames)
         /\ Len(Call(p, r, s)) = Len(s) + 1
         /\ Call(p, r, s)[1] = Frame(p, r)
         /\ \A i \in 1..Len(s) : Call(p, r, s)[i + 1] = s[i]
<1>1. Frame(p, r) \in Frames
  BY PartIsRect DEF Frame, Frames, Parts
<1>2. Call(p, r, s) = <<Frame(p, r)>> \o s
  BY DEF Call, Frame, SomeLeft
<1> QED  BY <1>1, <1>2

LEMMA CallDrops ==
  ASSUME NEW p, NEW r, NEW s, ~SomeLeft(r)
  PROVE  Call(p, r, s) = s
BY DEF Call, SomeLeft

\* A frame of the new stack is the new one or one of the old.
LEMMA CallFrames ==
  ASSUME NEW p \in Procedures, NEW r \in Parts, NEW s \in Seq(Frames),
         NEW i \in DOMAIN Call(p, r, s)
  PROVE  \/ SomeLeft(r) /\ i = 1 /\ Call(p, r, s)[i] = Frame(p, r)
         \/ /\ ~SomeLeft(r) /\ i \in DOMAIN s /\ Call(p, r, s)[i] = s[i]
         \/ /\ SomeLeft(r) /\ i - 1 \in DOMAIN s /\ Call(p, r, s)[i] = s[i - 1]
<1>1. CASE SomeLeft(r)
  <2>1. /\ Call(p, r, s) \in Seq(Frames) /\ Len(Call(p, r, s)) = Len(s) + 1
        /\ Call(p, r, s)[1] = Frame(p, r)
        /\ \A j \in 1..Len(s) : Call(p, r, s)[j + 1] = s[j]
    BY <1>1, CallPushes
  <2>2. i \in 1..(Len(s) + 1) /\ Len(s) \in Nat /\ DOMAIN s = 1..Len(s)
    BY <2>1
  <2>3. CASE i # 1
    <3>1. i - 1 \in 1..Len(s) /\ (i - 1) + 1 = i
      BY <2>2, <2>3
    <3> QED  BY <1>1, <2>1, <2>2, <3>1
  <2> QED  BY <1>1, <2>1, <2>3
<1>2. CASE ~SomeLeft(r)
  BY <1>2, CallDrops
<1> QED  BY <1>1, <1>2

-----------------------------------------------------------------------------
(* Cutting: a call is replaced by calls for parts of its rectangle. *)

Tidy(s) == \A i, j \in DOMAIN s : i # j => Apart(s[i].r, s[j].r)
Clear(a, s) == \A i \in DOMAIN s : Apart(a, s[i].r)
Held(s, px, py) == \E i \in DOMAIN s : Holds(s[i].r, px, py)

OneColor(r) == HasColor(r.x, r.y, r.w, r.h, picture[<<r.x, r.y>>])

FrameOK(f) ==
  /\ f.dy >= f.r.y
  /\ f.r.solid <=> f.procedure = "Solid"
  /\ f.r.solid => OneColor(f.r)

\* The stack c is s with calls for parts of q on top of it.
Piled(c, q, s) ==
  /\ c \in Seq(Frames)
  /\ \A i \in DOMAIN c : FrameOK(c[i])
  /\ Tidy(c)
  /\ \A i \in DOMAIN c : (\E j \in DOMAIN s : c[i] = s[j]) \/ Within(c[i].r, q)
  /\ \A px, py \in Int : Held(s, px, py) => Held(c, px, py)

LEMMA ApartBothWays == ASSUME NEW a, NEW b, Apart(a, b) PROVE Apart(b, a)
BY DEF Apart

LEMMA WithinApart ==
  ASSUME NEW a \in Rects, NEW b \in Rects, NEW q \in Rects, Within(a, q), Apart(q, b)
  PROVE  Apart(a, b)
BY DEF Within, Apart, Rects

LEMMA WithinChain ==
  ASSUME NEW a \in Rects, NEW b \in Rects, NEW q \in Rects, Within(a, b), Within(b, q)
  PROVE  Within(a, q)
BY DEF Within, Rects

LEMMA NothingPiled ==
  ASSUME NEW s \in Seq(Frames), NEW q, \A i \in DOMAIN s : FrameOK(s[i]), Tidy(s)
  PROVE  Piled(s, q, s)
BY DEF Piled

LEMMA CallClear ==
  ASSUME NEW a, NEW p \in Procedures, NEW r \in Parts, NEW s \in Seq(Frames),
         Clear(a, s), SomeLeft(r) => Apart(a, r)
  PROVE  Clear(a, Call(p, r, s))
<1> SUFFICES ASSUME NEW i \in DOMAIN Call(p, r, s)
             PROVE  Apart(a, Call(p, r, s)[i].r)
  BY DEF Clear
<1> QED  BY CallFrames DEF Clear, Frame

LEMMA CallHolds ==
  ASSUME NEW p \in Procedures, NEW r \in Parts, NEW s \in Seq(Frames),
         NEW px \in Int, NEW py \in Int, Held(s, px, py) \/ Holds(r, px, py)
  PROVE  Held(Call(p, r, s), px, py)
<1>1. CASE SomeLeft(r)
  <2>1. /\ Call(p, r, s) \in Seq(Frames) /\ Len(Call(p, r, s)) = Len(s) + 1
        /\ Call(p, r, s)[1] = Frame(p, r)
        /\ \A j \in 1..Len(s) : Call(p, r, s)[j + 1] = s[j]
    BY <1>1, CallPushes
  <2>2. CASE Holds(r, px, py)
    <3>1. 1 \in DOMAIN Call(p, r, s)
      BY <2>1
    <3>2. Frame(p, r).r = r
      BY DEF Frame
    <3> QED  BY <2>1, <2>2, <3>1, <3>2 DEF Held
  <2>3. CASE Held(s, px, py)
    <3>1. PICK j \in DOMAIN s : Holds(s[j].r, px, py)
      BY <2>3 DEF Held
    <3>2. j \in 1..Len(s) /\ j + 1 \in DOMAIN Call(p, r, s)
      BY <2>1
    <3> QED  BY <2>1, <3>1, <3>2 DEF Held
  <2> QED  BY <2>2, <2>3
<1>2. CASE ~SomeLeft(r)
  <2>1. ~Holds(r, px, py)
    BY <1>2 DEF Holds, SomeLeft, Parts
  <2> QED  BY <1>2, <2>1, CallDrops
<1> QED  BY <1>1, <1>2

LEMMA CallPiles ==
  ASSUME NEW p \in Procedures, NEW r \in Parts, NEW q \in Rects,
         NEW s \in Seq(Frames), NEW c, Piled(c, q, s),
         SomeLeft(r) => Within(r, q) /\ Clear(r, c),
         r.solid <=> p = "Solid", r.solid => OneColor(r)
  PROVE  Piled(Call(p, r, c), q, s)
<1>1. CASE ~SomeLeft(r)
  BY <1>1, CallDrops
<1>2. CASE SomeLeft(r)
  <2> DEFINE new == Call(p, r, c)
  <2>1. c \in Seq(Frames)
    BY DEF Piled
  <2>2. new \in Seq(Frames)
    BY <1>2, <2>1, CallPushes
  <2>3. \A i \in DOMAIN new :
          \/ i = 1 /\ new[i] = Frame(p, r)
          \/ i # 1 /\ i - 1 \in DOMAIN c /\ new[i] = c[i - 1]
    BY <1>2, <2>1, CallFrames
  <2>4. FrameOK(Frame(p, r))
    BY DEF FrameOK, Frame, Parts
  <2>5. \A i \in DOMAIN new : FrameOK(new[i])
    <3> HIDE DEF new
    <3> QED  BY <2>3, <2>4 DEF Piled
  <2>6. Tidy(new)
    <3> SUFFICES ASSUME NEW i \in DOMAIN new, NEW j \in DOMAIN new, i # j
                 PROVE  Apart(new[i].r, new[j].r)
      BY DEF Tidy
    <3>1. i \in Int /\ j \in Int
      BY <2>2
    <3> HIDE DEF new
    <3>2. CASE i = 1
      BY <1>2, <2>3, <3>2 DEF Frame, Clear
    <3>3. CASE j = 1
      BY <1>2, <2>3, <3>3, ApartBothWays DEF Frame, Clear
    <3>4. CASE i # 1 /\ j # 1
      BY <2>3, <3>1, <3>4 DEF Piled, Tidy
    <3> QED  BY <3>2, <3>3, <3>4
  <2>7. \A i \in DOMAIN new : (\E j \in DOMAIN s : new[i] = s[j]) \/ Within(new[i].r, q)
    <3> HIDE DEF new
    <3> QED  BY <1>2, <2>3, SMTT(30) DEF Piled, Frame
  <2>8. \A px, py \in Int : Held(s, px, py) => Held(new, px, py)
    BY <2>1, CallHolds DEF Piled
  <2> HIDE DEF new
  <2> QED  BY <2>2, <2>5, <2>6, <2>7, <2>8 DEF Piled, new
<1> QED  BY <1>1, <1>2

-----------------------------------------------------------------------------
(* The invariant: what has been sent and what the calls are to send tile    *)
(* the rectangles that the iterator has yielded.                           *)

UpdateOK ==
  /\ update \in Seq(Rects)
  /\ \A i \in DOMAIN update : ~update[i].solid
  /\ \A i, j \in DOMAIN update : i # j => Apart(update[i], update[j])
  /\ encoding \in Encodings

InVisited(r) == \E j \in 1..visited : Within(r, update[j])
HeldBySent(px, py) == \E k \in DOMAIN sent : Holds(sent[k], px, py)

CallsInv ==
  /\ Tidy(calls)
  /\ \A i \in DOMAIN calls : FrameOK(calls[i]) /\ InVisited(calls[i].r)

SentInv ==
  \A k \in DOMAIN sent : sent[k] # Marker =>
    /\ InVisited(sent[k])
    /\ Clear(sent[k], calls)
    /\ \A l \in 1..(k - 1) : Apart(sent[k], sent[l])
    /\ sent[k].solid => OneColor(sent[k])

CoverInv ==
  \A j \in 1..visited : \A px, py \in Int :
    Holds(update[j], px, py) => Held(calls, px, py) \/ HeldBySent(px, py)

MarkerInv ==
  \A k \in DOMAIN sent : sent[k] = Marker => k = Len(sent) /\ AllSent /\ announced = Unknown

Inv == TypeOK /\ UpdateOK /\ CallsInv /\ SentInv /\ CoverInv /\ MarkerInv

LEMMA MarkerIsEmpty == Marker \notin Rects
BY DEF Marker, Rect, Rects

\* The call that is made, and the stack below it.
LEMMA TopOfStack ==
  ASSUME TypeOK, calls # <<>>
  PROVE  /\ Arg \in Rects /\ Rest \in Seq(Frames) /\ 1 \in DOMAIN calls
         /\ Len(calls) = Len(Rest) + 1
         /\ \A i \in DOMAIN Rest : i + 1 \in DOMAIN calls /\ Rest[i] = calls[i + 1]
         /\ \A i \in DOMAIN calls : i = 1 \/ (i - 1 \in DOMAIN Rest /\ calls[i] = Rest[i - 1])
<1>1. calls \in Seq(Frames)
  BY DEF TypeOK, Frames
<1>2. Len(calls) \in Nat \ {0} /\ 1 \in DOMAIN calls /\ calls[1] \in Frames
  BY <1>1
<1>3. Arg \in Rects
  BY <1>2 DEF Arg, Frames
<1>4. /\ Rest \in Seq(Frames) /\ Len(calls) = Len(Rest) + 1
      /\ \A i \in 1..Len(Rest) : Rest[i] = calls[i + 1]
  BY <1>1 DEF Rest
<1>5. DOMAIN Rest = 1..Len(Rest) /\ DOMAIN calls = 1..Len(calls) /\ Len(Rest) \in Nat
  BY <1>1, <1>4
<1>6. ASSUME NEW i \in DOMAIN calls, i # 1
      PROVE  i - 1 \in 1..Len(Rest) /\ (i - 1) + 1 = i
  BY <1>4, <1>5, <1>6
<1>7. ASSUME NEW i \in DOMAIN Rest PROVE i + 1 \in DOMAIN calls
  BY <1>4, <1>5
<1> QED  BY <1>2, <1>3, <1>4, <1>5, <1>6, <1>7

LEMMA RestTidy ==
  ASSUME TypeOK, CallsInv, calls # <<>>
  PROVE  /\ Piled(Rest, Arg, Rest) /\ Clear(Arg, Rest)
         /\ \A i \in DOMAIN Rest : InVisited(Rest[i].r)
         /\ InVisited(Arg) /\ FrameOK(calls[1])
<1>1. /\ Rest \in Seq(Frames) /\ 1 \in DOMAIN calls
      /\ \A i \in DOMAIN Rest : i + 1 \in DOMAIN calls /\ Rest[i] = calls[i + 1]
  BY TopOfStack
<1>2. \A i \in DOMAIN Rest : i \in Nat \ {0}
  BY <1>1
<1>3. Tidy(Rest)
  <2> SUFFICES ASSUME NEW i \in DOMAIN Rest, NEW j \in DOMAIN Rest, i # j
               PROVE  Apart(Rest[i].r, Rest[j].r)
    BY DEF Tidy
  <2>1. i + 1 # j + 1
    BY <1>2
  <2> QED  BY <1>1, <2>1 DEF CallsInv, Tidy
<1>4. Clear(Arg, Rest)
  <2> SUFFICES ASSUME NEW i \in DOMAIN Rest PROVE Apart(Arg, Rest[i].r)
    BY DEF Clear
  <2>1. i + 1 # 1
    BY <1>2
  <2> QED  BY <1>1, <2>1 DEF CallsInv, Tidy, Arg
<1>5. \A i \in DOMAIN Rest : FrameOK(Rest[i]) /\ InVisited(Rest[i].r)
  BY <1>1 DEF CallsInv
<1> QED  BY <1>1, <1>3, <1>4, <1>5, NothingPiled DEF CallsInv, Arg

\* What a call does to the stack keeps the calls within the update, and what
\* has been sent apart from them.
LEMMA PiledKeeps ==
  ASSUME TypeOK, UpdateOK, CallsInv, SentInv, calls # <<>>, NEW c, Piled(c, Arg, Rest)
  PROVE  /\ \A i \in DOMAIN c : InVisited(c[i].r)
         /\ \A k \in DOMAIN sent : sent[k] # Marker => Clear(sent[k], c)
<1>1. /\ Arg \in Rects /\ Rest \in Seq(Frames) /\ c \in Seq(Frames)
      /\ \A i \in DOMAIN c : (\E j \in DOMAIN Rest : c[i] = Rest[j]) \/ Within(c[i].r, Arg)
  BY TopOfStack DEF Piled
<1>2. \A i \in DOMAIN c : c[i].r \in Rects
  <2> TAKE i \in DOMAIN c
  <2>1. c[i] \in Frames
    BY <1>1
  <2> QED  BY <2>1 DEF Frames
<1>3. ASSUME NEW i \in DOMAIN c PROVE InVisited(c[i].r)
  <2>1. CASE \E j \in DOMAIN Rest : c[i] = Rest[j]
    BY <2>1, RestTidy
  <2>2. CASE Within(c[i].r, Arg)
    <3>1. PICK j \in 1..visited : Within(Arg, update[j])
      BY RestTidy DEF InVisited
    <3>2. update[j] \in Rects
      BY DEF UpdateOK, TypeOK
    <3> QED  BY <1>1, <1>2, <2>2, <3>1, <3>2, WithinChain DEF InVisited
  <2> QED  BY <1>1, <2>1, <2>2
<1>4. ASSUME NEW k \in DOMAIN sent, sent[k] # Marker, NEW i \in DOMAIN c
      PROVE  Apart(sent[k], c[i].r)
  <2>1. sent[k] \in Rects
    BY <1>4 DEF TypeOK
  <2>2. Clear(sent[k], calls)
    BY <1>4 DEF SentInv
  <2>3. CASE \E j \in DOMAIN Rest : c[i] = Rest[j]
    BY <2>2, <2>3, TopOfStack DEF Clear
  <2>4. CASE Within(c[i].r, Arg)
    <3>1. Apart(Arg, sent[k])
      BY <2>2, TopOfStack, ApartBothWays DEF Clear, Arg
    <3> QED  BY <1>1, <1>2, <2>1, <2>4, <3>1, WithinApart, ApartBothWays
  <2> QED  BY <1>1, <2>3, <2>4
<1> QED  BY <1>3, <1>4 DEF Clear

LEMMA HeldByStack ==
  ASSUME TypeOK, calls # <<>>, NEW px \in Int, NEW py \in Int, Held(calls, px, py)
  PROVE  Holds(Arg, px, py) \/ Held(Rest, px, py)
BY TopOfStack DEF Held, Arg

\* The marker comes last: while calls are made there is none.
LEMMA NoMarkerYet ==
  ASSUME MarkerInv, calls # <<>>
  PROVE  \A k \in DOMAIN sent : sent[k] # Marker
BY DEF MarkerInv, AllSent

\* A call that only calls others keeps the tiling if what they are called for
\* tiles its rectangle.
LEMMA CutKeeps ==
  ASSUME Inv, calls # <<>>, NEW c, Piled(c, Arg, Rest), calls' = c, CallsOnly,
         \A px, py \in Int : Holds(Arg, px, py) => Held(c, px, py)
  PROVE  Inv'
<1> USE DEF Inv
<1>1. UNCHANGED <<update, picture, encoding, announced, visited, sent>>
  BY DEF CallsOnly, given
<1>2. /\ \A i \in DOMAIN c : InVisited(c[i].r)
      /\ \A k \in DOMAIN sent : sent[k] # Marker => Clear(sent[k], c)
  BY PiledKeeps
<1>3. c \in Seq(Frames) /\ Tidy(c) /\ \A i \in DOMAIN c : FrameOK(c[i])
  BY DEF Piled
<1>4. TypeOK'
  BY <1>1, <1>3 DEF TypeOK, Frames, FrameOK
<1>5. UpdateOK'
  BY <1>1 DEF UpdateOK
<1>6. CallsInv'
  BY <1>1, <1>2, <1>3 DEF CallsInv, InVisited, FrameOK, OneColor, HasColor
<1>7. SentInv'
  BY <1>1, <1>2 DEF SentInv, InVisited, OneColor, HasColor
<1>8. CoverInv'
  <2> SUFFICES ASSUME NEW j \in 1..visited, NEW px \in Int, NEW py \in Int,
                      Holds(update[j], px, py)
               PROVE  Held(c, px, py) \/ HeldBySent(px, py)
    BY <1>1 DEF CoverInv, HeldBySent
  <2>1. Held(calls, px, py) \/ HeldBySent(px, py)
    BY DEF CoverInv
  <2>2. CASE Held(calls, px, py)
    BY <2>2, HeldByStack DEF Piled
  <2> QED  BY <2>1, <2>2
<1>9. MarkerInv'
  BY <1>1, NoMarkerYet DEF MarkerInv
<1> QED  BY <1>4, <1>5, <1>6, <1>7, <1>8, <1>9

\* One that sends a part keeps it if the part and what others are called for
\* tile the rectangle.
LEMMA SendKeeps ==
  ASSUME Inv, calls # <<>>, NEW c, Piled(c, Arg, Rest), calls' = c,
         NEW a \in Rects, Send(a), Within(a, Arg), Clear(a, c), a.solid => OneColor(a),
         \A px, py \in Int : Holds(Arg, px, py) => Held(c, px, py) \/ Holds(a, px, py)
  PROVE  Inv'
<1> USE DEF Inv
<1>1. /\ UNCHANGED <<update, picture, encoding, announced, visited>>
      /\ sent' = Append(sent, a)
  BY DEF Send, given
<1>2. /\ \A i \in DOMAIN c : InVisited(c[i].r)
      /\ \A k \in DOMAIN sent : sent[k] # Marker => Clear(sent[k], c)
  BY PiledKeeps
<1>3. c \in Seq(Frames) /\ Tidy(c) /\ \A i \in DOMAIN c : FrameOK(c[i])
  BY DEF Piled
<1>4. sent \in Seq(Rects \cup {Marker})
  BY DEF TypeOK
<1>5. /\ sent' \in Seq(Rects \cup {Marker}) /\ DOMAIN sent' = DOMAIN sent \cup {Len(sent) + 1}
      /\ DOMAIN sent = 1..Len(sent) /\ Len(sent) \in Nat
      /\ sent'[Len(sent) + 1] = a /\ \A k \in DOMAIN sent : sent'[k] = sent[k]
  BY <1>1, <1>4
<1>6. \A k \in DOMAIN sent : sent[k] # Marker /\ sent[k] \in Rects
  BY <1>4, NoMarkerYet
<1>7. a # Marker
  BY MarkerIsEmpty
<1>8. TypeOK'
  BY <1>1, <1>3, <1>5 DEF TypeOK, Frames, FrameOK
<1>9. UpdateOK'
  BY <1>1 DEF UpdateOK
<1>10. CallsInv'
  BY <1>1, <1>2, <1>3 DEF CallsInv, InVisited, FrameOK, OneColor, HasColor
<1>11. InVisited(a)
  <2>1. PICK j \in 1..visited : Within(Arg, update[j])
    BY RestTidy DEF InVisited
  <2>2. update[j] \in Rects
    BY DEF UpdateOK, TypeOK
  <2> QED  BY <2>1, <2>2, TopOfStack, WithinChain DEF InVisited
<1>12. \A k \in DOMAIN sent : Apart(a, sent[k])
  <2> TAKE k \in DOMAIN sent
  <2>1. Apart(Arg, sent[k])
    BY <1>6, TopOfStack, ApartBothWays DEF SentInv, Clear, Arg
  <2> QED  BY <1>6, <2>1, TopOfStack, WithinApart
<1>13. SentInv'
  <2> SUFFICES ASSUME NEW k \in DOMAIN sent'
               PROVE  /\ InVisited(sent'[k])
                      /\ Clear(sent'[k], c)
                      /\ \A l \in 1..(k - 1) : Apart(sent'[k], sent'[l])
                      /\ sent'[k].solid => OneColor(sent'[k])
    BY <1>1 DEF SentInv, InVisited, OneColor, HasColor
  <2>1. CASE k = Len(sent) + 1
    <3>1. \A l \in 1..(k - 1) : l \in DOMAIN sent
      BY <1>5, <2>1
    <3> QED  BY <1>5, <1>11, <1>12, <2>1, <3>1
  <2>2. CASE k \in DOMAIN sent
    <3>1. \A l \in 1..(k - 1) : l \in DOMAIN sent
      BY <1>5, <2>2
    <3> QED  BY <1>2, <1>5, <1>6, <2>2, <3>1 DEF SentInv
  <2> QED  BY <1>5, <2>1, <2>2
<1>14. CoverInv'
  <2> SUFFICES ASSUME NEW j \in 1..visited, NEW px \in Int, NEW py \in Int,
                      Holds(update[j], px, py)
               PROVE  Held(c, px, py) \/ \E k \in DOMAIN sent' : Holds(sent'[k], px, py)
    BY <1>1 DEF CoverInv, HeldBySent
  <2>1. Held(calls, px, py) \/ HeldBySent(px, py)
    BY DEF CoverInv
  <2>2. CASE Held(calls, px, py)
    <3>1. Held(c, px, py) \/ Holds(a, px, py)
      BY <2>2, HeldByStack DEF Piled
    <3> QED  BY <1>5, <3>1
  <2>3. CASE HeldBySent(px, py)
    BY <1>5, <2>3 DEF HeldBySent
  <2> QED  BY <2>1, <2>2, <2>3
<1>15. MarkerInv'
  BY <1>5, <1>6, <1>7 DEF MarkerInv
<1> QED  BY <1>8, <1>9, <1>10, <1>13, <1>14, <1>15

-----------------------------------------------------------------------------
(* The ways in which the encoders cut. *)

LEMMA ClearPart ==
  ASSUME NEW q \in Rects, NEW s \in Seq(Frames), Clear(q, s), NEW a \in Rects, Within(a, q)
  PROVE  Clear(a, s)
<1> SUFFICES ASSUME NEW i \in DOMAIN s PROVE Apart(a, s[i].r)
  BY DEF Clear
<1>1. s[i] \in Frames
  OBVIOUS
<1>2. s[i].r \in Rects
  BY <1>1 DEF Frames
<1> QED  BY <1>2, WithinApart DEF Clear

LEMMA RectIsPart == ASSUME NEW r \in Rects PROVE r \in Parts /\ SomeLeft(r)
BY DEF Rects, Parts, SomeLeft

LEMMA CutByLines ==
  ASSUME NEW r \in Rects, NEW n \in 0..r.h
  PROVE  /\ [r EXCEPT !.h = n] \in Parts /\ (n > 0 => [r EXCEPT !.h = n] \in Rects)
         /\ [r EXCEPT !.h = n].solid = r.solid /\ Within([r EXCEPT !.h = n], r)
         /\ Below(r, n) \in Parts /\ Below(r, n).solid = r.solid /\ Within(Below(r, n), r)
         /\ Apart([r EXCEPT !.h = n], Below(r, n))
         /\ \A px, py \in Int :
              Holds(r, px, py) => Holds([r EXCEPT !.h = n], px, py) \/ Holds(Below(r, n), px, py)
<1> DEFINE a == [r EXCEPT !.h = n]
           b == Below(r, n)
<1>1. /\ r.x \in Int /\ r.y \in Int /\ r.w \in Nat \ {0} /\ r.h \in Nat \ {0}
      /\ r.solid \in BOOLEAN /\ n \in Nat /\ n <= r.h
  BY DEF Rects
<1>2. /\ a.x = r.x /\ a.y = r.y /\ a.w = r.w /\ a.h = n /\ a.solid = r.solid
      /\ a \in Parts /\ (n > 0 => a \in Rects)
  BY <1>1 DEF Rects, Parts
<1>3. /\ b.y = r.y + n /\ b.h = r.h - n /\ b.x = r.x /\ b.w = r.w /\ b.solid = r.solid
      /\ b \in Parts
  <2>1. b = [r EXCEPT !.y = r.y + n, !.h = r.h - n]
    BY DEF Below
  <2>2. r = [x |-> r.x, y |-> r.y, w |-> r.w, h |-> r.h, solid |-> r.solid]
    BY DEF Rects
  <2>3. b = [x |-> b.x, y |-> b.y, w |-> b.w, h |-> b.h, solid |-> b.solid]
    BY <2>1, <2>2
  <2>4. b.y = r.y + n /\ b.h = r.h - n /\ b.x = r.x /\ b.w = r.w /\ b.solid = r.solid
    BY <2>1, <2>2
  <2> HIDE DEF b
  <2>5. b.x \in Int /\ b.y \in Int /\ b.w \in Int /\ b.h \in Int /\ b.solid \in BOOLEAN
    BY <1>1, <2>4
  <2>6. b \in Parts
    BY <2>3, <2>5 DEF Parts
  <2> QED  BY <2>4, <2>6
<1> HIDE DEF a, b
<1>4. Within(a, r) /\ Within(b, r) /\ Apart(a, b)
  BY <1>1, <1>2, <1>3 DEF Within, Apart
<1>5. \A px, py \in Int : Holds(r, px, py) => Holds(a, px, py) \/ Holds(b, px, py)
  BY <1>1, <1>2, <1>3 DEF Holds
<1> QED  BY <1>2, <1>3, <1>4, <1>5 DEF a, b

LEMMA CutByColumns ==
  ASSUME NEW r \in Rects, NEW n \in 0..r.w
  PROVE  /\ [r EXCEPT !.w = n] \in Parts /\ (n > 0 => [r EXCEPT !.w = n] \in Rects)
         /\ [r EXCEPT !.w = n].solid = r.solid /\ Within([r EXCEPT !.w = n], r)
         /\ RightOf(r, n) \in Parts /\ RightOf(r, n).solid = r.solid /\ Within(RightOf(r, n), r)
         /\ Apart([r EXCEPT !.w = n], RightOf(r, n))
         /\ \A px, py \in Int :
              Holds(r, px, py) => Holds([r EXCEPT !.w = n], px, py) \/ Holds(RightOf(r, n), px, py)
<1> DEFINE a == [r EXCEPT !.w = n]
           b == RightOf(r, n)
<1>1. /\ r.x \in Int /\ r.y \in Int /\ r.w \in Nat \ {0} /\ r.h \in Nat \ {0}
      /\ r.solid \in BOOLEAN /\ n \in Nat /\ n <= r.w
  BY DEF Rects
<1>2. /\ a.x = r.x /\ a.y = r.y /\ a.h = r.h /\ a.w = n /\ a.solid = r.solid
      /\ a \in Parts /\ (n > 0 => a \in Rects)
  BY <1>1 DEF Rects, Parts
<1>3. /\ b.x = r.x + n /\ b.w = r.w - n /\ b.y = r.y /\ b.h = r.h /\ b.solid = r.solid
      /\ b \in Parts
  <2>1. b = [r EXCEPT !.x = r.x + n, !.w = r.w - n]
    BY DEF RightOf
  <2>2. r = [x |-> r.x, y |-> r.y, w |-> r.w, h |-> r.h, solid |-> r.solid]
    BY DEF Rects
  <2>3. b = [x |-> b.x, y |-> b.y, w |-> b.w, h |-> b.h, solid |-> b.solid]
    BY <2>1, <2>2
  <2>4. b.x = r.x + n /\ b.w = r.w - n /\ b.y = r.y /\ b.h = r.h /\ b.solid = r.solid
    BY <2>1, <2>2
  <2> HIDE DEF b
  <2>5. b.x \in Int /\ b.y \in Int /\ b.w \in Int /\ b.h \in Int /\ b.solid \in BOOLEAN
    BY <1>1, <2>4
  <2>6. b \in Parts
    BY <2>3, <2>5 DEF Parts
  <2> QED  BY <2>4, <2>6
<1> HIDE DEF a, b
<1>4. Within(a, r) /\ Within(b, r) /\ Apart(a, b)
  BY <1>1, <1>2, <1>3 DEF Within, Apart
<1>5. \A px, py \in Int : Holds(r, px, py) => Holds(a, px, py) \/ Holds(b, px, py)
  BY <1>1, <1>2, <1>3 DEF Holds
<1> QED  BY <1>2, <1>3, <1>4, <1>5 DEF a, b

\* One call more for a part of the rectangle.
LEMMA OneCall ==
  ASSUME TypeOK, CallsInv, calls # <<>>,
         NEW p \in Procedures \ {"Solid"}, NEW b \in Parts, ~b.solid, Within(b, Arg)
  PROVE  /\ Piled(Call(p, b, Rest), Arg, Rest)
         /\ \A px, py \in Int : Holds(b, px, py) => Held(Call(p, b, Rest), px, py)
<1>1. Arg \in Rects /\ Rest \in Seq(Frames) /\ Piled(Rest, Arg, Rest) /\ Clear(Arg, Rest)
  BY TopOfStack, RestTidy
<1>2. SomeLeft(b) => Clear(b, Rest)
  BY <1>1, PartIsRect, ClearPart
<1>3. Piled(Call(p, b, Rest), Arg, Rest)
  BY <1>1, <1>2, CallPiles
<1> QED  BY <1>1, <1>3, CallHolds

LEMMA PassedOn ==
  ASSUME Inv, calls # <<>>, ~Arg.solid, NEW p \in Procedures \ {"Solid"},
         calls' = Call(p, Arg, Rest), CallsOnly
  PROVE  Inv'
<1>1. Arg \in Rects
  BY TopOfStack DEF Inv
<1>2. Arg \in Parts /\ Within(Arg, Arg)
  BY <1>1, RectIsPart DEF Within, Rects
<1> HIDE DEF Arg, Rest
<1> QED  BY <1>2, OneCall, CutKeeps DEF Inv

LEMMA CutInTwo ==
  ASSUME Inv, calls # <<>>,
         NEW p \in Procedures \ {"Solid"}, NEW a \in Parts, ~a.solid, Within(a, Arg),
         NEW t \in Procedures \ {"Solid"}, NEW b \in Parts, ~b.solid, Within(b, Arg),
         Apart(a, b), calls' = Call(p, a, Call(t, b, Rest)), CallsOnly,
         \A px, py \in Int : Holds(Arg, px, py) => Holds(a, px, py) \/ Holds(b, px, py)
  PROVE  Inv'
<1> DEFINE lower == Call(t, b, Rest)
<1>1. Arg \in Rects /\ Rest \in Seq(Frames) /\ Clear(Arg, Rest)
  BY TopOfStack, RestTidy DEF Inv
<1>2. /\ Piled(lower, Arg, Rest)
      /\ \A px, py \in Int : Holds(b, px, py) => Held(lower, px, py)
  BY OneCall DEF Inv
<1>3. SomeLeft(a) => Clear(a, lower)
  BY <1>1, PartIsRect, ClearPart, CallClear
<1>4. lower \in Seq(Frames)
  BY <1>2 DEF Piled
<1> HIDE DEF lower
<1>5. Piled(Call(p, a, lower), Arg, Rest)
  BY <1>1, <1>2, <1>3, CallPiles
<1>6. \A px, py \in Int : Holds(Arg, px, py) => Held(Call(p, a, lower), px, py)
  BY <1>2, <1>4, CallHolds
<1> QED  BY <1>5, <1>6, CutKeeps DEF lower

LEMMA SentAll ==
  ASSUME Inv, calls # <<>>, Send(Arg), calls' = Rest
  PROVE  Inv'
<1>1. /\ Arg \in Rects /\ Piled(Rest, Arg, Rest) /\ Clear(Arg, Rest)
      /\ Arg.solid => OneColor(Arg)
  BY TopOfStack, RestTidy DEF Inv, FrameOK, Arg
<1>2. Within(Arg, Arg)
  BY <1>1 DEF Within, Rects
<1> QED  BY <1>1, <1>2, SendKeeps

LEMMA SentPart ==
  ASSUME Inv, calls # <<>>, NEW a \in Rects, ~a.solid, Within(a, Arg), Send(a),
         NEW p \in Procedures \ {"Solid"}, NEW b \in Parts, ~b.solid, Within(b, Arg),
         Apart(a, b), calls' = Call(p, b, Rest),
         \A px, py \in Int : Holds(Arg, px, py) => Holds(a, px, py) \/ Holds(b, px, py)
  PROVE  Inv'
<1>1. Arg \in Rects /\ Rest \in Seq(Frames) /\ Clear(Arg, Rest)
  BY TopOfStack, RestTidy DEF Inv
<1>2. /\ Piled(Call(p, b, Rest), Arg, Rest)
      /\ \A px, py \in Int : Holds(b, px, py) => Held(Call(p, b, Rest), px, py)
  BY OneCall DEF Inv
<1>3. Clear(a, Call(p, b, Rest))
  BY <1>1, ClearPart, CallClear
<1> QED  BY <1>2, <1>3, SendKeeps

-----------------------------------------------------------------------------
(* The encoders, Tight's search excepted. *)

LEMMA PartInRange ==
  ASSUME NEW n \in Nat \ {0}, NEW max \in Nat \ {0}
  PROVE  Part(n, max) \in 1..n /\ Part(n, max) <= max
BY DEF Part

LEMMA MaxLinesPositive == ASSUME NEW w \in Nat \ {0} PROVE MaxLines(w) \in Nat \ {0}
<1> DEFINE size == IF 2 * w > LinesMaxSize THEN 2 * w ELSE LinesMaxSize
<1>1. size \in Nat /\ size >= 2 * w
  BY Sizes
<1> HIDE DEF size
<1>2. size \div w \in Nat /\ size < (size \div w) * w + w
  BY <1>1, Division
<1>3. size \div w # 0
  BY <1>1, <1>2
<1> QED  BY <1>2, <1>3 DEF MaxLines, size

LEMMA WidthInRange ==
  ASSUME NEW w \in Nat \ {0}
  PROVE  SubrectMaxWidth(w) \in 1..w /\ SubrectMaxWidth(w) <= MaxRectWidth
BY Sizes DEF SubrectMaxWidth

\* A part of the largest size has a line.
LEMMA HeightPositive ==
  ASSUME NEW w \in Nat \ {0}
  PROVE  SubrectMaxHeight(w) \in Nat \ {0}
<1> DEFINE d == SubrectMaxWidth(w)
<1>1. d \in Nat \ {0} /\ d <= MaxRectWidth
  BY WidthInRange
<1>2. MaxRectSize >= MaxRectWidth
  BY SizesAssumption
<1> HIDE DEF d
<1>3. MaxRectSize \div d \in Nat /\ MaxRectSize < (MaxRectSize \div d) * d + d
  BY <1>1, Sizes, Division
<1>4. MaxRectSize \div d # 0
  BY <1>1, <1>2, <1>3, Sizes
<1> QED  BY <1>3, <1>4 DEF SubrectMaxHeight, d

LEMMA CalledFacts ==
  ASSUME Inv, NEW p, Called(p)
  PROVE  /\ calls # <<>> /\ calls[1].procedure = p /\ Arg \in Rects
         /\ Arg.solid <=> p = "Solid"
         /\ Arg.w \in Nat \ {0} /\ Arg.h \in Nat \ {0}
<1>1. calls # <<>> /\ calls[1].procedure = p
  BY DEF Called
<1>2. Arg \in Rects /\ FrameOK(calls[1])
  BY <1>1, TopOfStack, RestTidy DEF Inv
<1> QED  BY <1>1, <1>2 DEF FrameOK, Arg, Rects

LEMMA SendWholeStep == Inv /\ SendWhole => Inv'
BY CalledFacts, SentAll DEF SendWhole

LEMMA SendSolidStep == Inv /\ SendSolid => Inv'
BY CalledFacts, SentAll DEF SendSolid

LEMMA CoRREStep == Inv /\ CoRRE => Inv'
<1> SUFFICES ASSUME Inv, CoRRE PROVE Inv'
  OBVIOUS
<1>1. /\ calls # <<>> /\ Arg \in Rects /\ ~Arg.solid
      /\ Arg.w \in Nat \ {0} /\ Arg.h \in Nat \ {0}
  BY CalledFacts DEF CoRRE
<1>2. "CoRRE" \in Procedures \ {"Solid"}
  BY DEF Procedures, Encodings
<1>3. CASE Arg.h > CorreMax
  <2>1. CorreMax \in 0..Arg.h
    BY <1>1, <1>3, Sizes
  <2>2. /\ calls' = Call("CoRRE", [Arg EXCEPT !.h = CorreMax],
                          Call("CoRRE", Below(Arg, CorreMax), Rest))
        /\ CallsOnly
    BY <1>3 DEF CoRRE
  <2> HIDE DEF Arg, Rest
  <2> QED  BY <1>1, <1>2, <2>1, <2>2, CutByLines, CutInTwo, ZenonT(40)
<1>4. CASE ~(Arg.h > CorreMax) /\ Arg.w > CorreMax
  <2>1. CorreMax \in 0..Arg.w
    BY <1>1, <1>4, Sizes
  <2>2. /\ calls' = Call("CoRRE", [Arg EXCEPT !.w = CorreMax],
                          Call("CoRRE", RightOf(Arg, CorreMax), Rest))
        /\ CallsOnly
    BY <1>4 DEF CoRRE
  <2> HIDE DEF Arg, Rest
  <2> QED  BY <1>1, <1>2, <2>1, <2>2, CutByColumns, CutInTwo, ZenonT(40)
<1>5. CASE ~(Arg.h > CorreMax) /\ ~(Arg.w > CorreMax)
  BY <1>1, <1>5, SentAll DEF CoRRE
<1> QED  BY <1>3, <1>4, <1>5

LEMMA LinesStep == Inv /\ Lines => Inv'
<1> SUFFICES ASSUME Inv, Lines PROVE Inv'
  OBVIOUS
<1> DEFINE n == Part(Arg.h, MaxLines(Arg.w))
<1>1. /\ calls # <<>> /\ Arg \in Rects /\ ~Arg.solid
      /\ Arg.w \in Nat \ {0} /\ Arg.h \in Nat \ {0}
  BY CalledFacts DEF Lines
<1>2. n \in 0..Arg.h /\ n > 0
  <2>1. MaxLines(Arg.w) \in Nat \ {0}
    BY <1>1, MaxLinesPositive
  <2>2. n \in 1..Arg.h
    BY <1>1, <2>1, PartInRange
  <2> HIDE DEF n
  <2> QED  BY <1>1, <2>2
<1>3. Send([Arg EXCEPT !.h = n]) /\ calls' = Call("Lines", Below(Arg, n), Rest)
  BY DEF Lines
<1>4. "Lines" \in Procedures \ {"Solid"}
  BY DEF Procedures, Encodings
<1> HIDE DEF n, Arg, Rest
<1> QED  BY <1>1, <1>2, <1>3, <1>4, CutByLines, SentPart, ZenonT(30)

LEMMA ColumnsStep == Inv /\ Columns => Inv'
<1> SUFFICES ASSUME Inv, Columns PROVE Inv'
  OBVIOUS
<1> DEFINE n == Part(Arg.w, MaxRectWidth)
<1>1. /\ calls # <<>> /\ Arg \in Rects /\ ~Arg.solid
      /\ Arg.w \in Nat \ {0} /\ Arg.h \in Nat \ {0}
  BY CalledFacts DEF Columns
<1>2. n \in 0..Arg.w /\ n > 0
  <2>1. MaxRectWidth \in Nat \ {0}
    BY <1>1, Sizes
  <2>2. n \in 1..Arg.w
    BY <1>1, <2>1, PartInRange
  <2> HIDE DEF n
  <2> QED  BY <1>1, <2>2
<1>3. Send([Arg EXCEPT !.w = n]) /\ calls' = Call("Columns", RightOf(Arg, n), Rest)
  BY DEF Columns
<1>4. "Columns" \in Procedures \ {"Solid"}
  BY DEF Procedures
<1> HIDE DEF n, Arg, Rest
<1> QED  BY <1>1, <1>2, <1>3, <1>4, CutByColumns, SentPart, ZenonT(30)

LEMMA RowsStep == Inv /\ Rows => Inv'
<1> SUFFICES ASSUME Inv, Rows PROVE Inv'
  OBVIOUS
<1> DEFINE n == Part(Arg.h, SubrectMaxHeight(Arg.w))
<1>1. /\ calls # <<>> /\ Arg \in Rects /\ ~Arg.solid
      /\ Arg.w \in Nat \ {0} /\ Arg.h \in Nat \ {0}
  BY CalledFacts DEF Rows
<1>2. n \in 0..Arg.h
  <2>1. SubrectMaxHeight(Arg.w) \in Nat \ {0}
    BY <1>1, HeightPositive
  <2>2. n \in 1..Arg.h
    BY <1>1, <2>1, PartInRange
  <2> HIDE DEF n
  <2> QED  BY <1>1, <2>2
<1>3. /\ calls' = Call("Columns", [Arg EXCEPT !.h = n], Call("Rows", Below(Arg, n), Rest))
      /\ CallsOnly
  BY DEF Rows
<1>4. {"Columns", "Rows"} \subseteq Procedures \ {"Solid"}
  BY DEF Procedures
<1> HIDE DEF n, Arg, Rest
<1> QED  BY <1>1, <1>2, <1>3, <1>4, CutByLines, CutInTwo, ZenonT(40)

LEMMA SimpleStep == Inv /\ Simple => Inv'
<1> SUFFICES ASSUME Inv, Simple PROVE Inv'
  OBVIOUS
<1>1. calls # <<>> /\ ~Arg.solid
  BY CalledFacts DEF Simple
<1>2. "Rows" \in Procedures \ {"Solid"}
  BY DEF Procedures
<1>3. \/ calls' = Call("Rows", Arg, Rest) /\ CallsOnly
      \/ Send(Arg) /\ calls' = Rest
  BY DEF Simple
<1> QED  BY <1>1, <1>2, <1>3, PassedOn, SentAll

LEMMA TightStep == Inv /\ Tight => Inv'
<1> SUFFICES ASSUME Inv, Tight PROVE Inv'
  OBVIOUS
<1>1. calls # <<>> /\ ~Arg.solid
  BY CalledFacts DEF Tight
<1>2. PICK p \in {"Simple", "TileRows"} : calls' = Call(p, Arg, Rest) /\ CallsOnly
  BY DEF Tight
<1>3. p \in Procedures \ {"Solid"}
  BY <1>2 DEF Procedures
<1> QED  BY <1>1, <1>2, <1>3, PassedOn

-----------------------------------------------------------------------------
(* Areas of one colour. *)

LEMMA NoColor ==
  ASSUME NEW x \in Int, NEW y \in Int, NEW w \in Int, NEW h \in Int, NEW c, w = 0 \/ h = 0
  PROVE  HasColor(x, y, w, h, c)
BY DEF HasColor

LEMMA NarrowerColor ==
  ASSUME NEW x \in Int, NEW y \in Int, NEW w \in Nat, NEW h \in Nat, NEW k \in 0..w, NEW c,
         HasColor(x, y, w, h, c)
  PROVE  HasColor(x, y, k, h, c)
<1> SUFFICES ASSUME NEW px \in x..(x + k - 1), NEW py \in y..(y + h - 1)
             PROVE  picture[<<px, py>>] = c
  BY DEF HasColor
<1>1. px \in x..(x + w - 1)
  OBVIOUS
<1> QED  BY <1>1 DEF HasColor

LEMMA ColorBelow ==
  ASSUME NEW x \in Int, NEW y \in Int, NEW w \in Nat, NEW h \in Nat, NEW more \in Nat, NEW c,
         HasColor(x, y, w, h, c), HasColor(x, y + h, w, more, c)
  PROVE  HasColor(x, y, w, h + more, c)
<1> SUFFICES ASSUME NEW px \in x..(x + w - 1), NEW py \in y..(y + (h + more) - 1)
             PROVE  picture[<<px, py>>] = c
  BY DEF HasColor
<1>1. py \in y..(y + h - 1) \/ py \in (y + h)..((y + h) + more - 1)
  OBVIOUS
<1> QED  BY <1>1 DEF HasColor

LEMMA ColorRight ==
  ASSUME NEW x \in Int, NEW y \in Int, NEW w \in Nat, NEW h \in Nat, NEW more \in Nat, NEW c,
         HasColor(x, y, w, h, c), HasColor(x + w, y, more, h, c)
  PROVE  HasColor(x, y, w + more, h, c)
<1> SUFFICES ASSUME NEW px \in x..(x + (w + more) - 1), NEW py \in y..(y + h - 1)
             PROVE  picture[<<px, py>>] = c
  BY DEF HasColor
<1>1. px \in x..(x + w - 1) \/ px \in (x + w)..((x + w) + more - 1)
  OBVIOUS
<1> QED  BY <1>1 DEF HasColor

\* The walk along a row of tiles ends within it, at tiles of the colour.
LEMMA SolidWidthFound ==
  ASSUME NEW x \in Int, NEW y \in Int, NEW w \in Nat, NEW dh \in Nat, NEW c
  PROVE  SolidWidth(x, y, w, dh, c) \in 0..w /\ HasColor(x, y, SolidWidth(x, y, w, dh, c), dh, c)
<1> DEFINE Ends == {i * TileSize : i \in 0..(w \div TileSize)} \cup {w}
           S == {k \in Ends : HasColor(x, y, k, dh, c)}
<1>1. w \div TileSize \in Nat /\ (w \div TileSize) * TileSize <= w
  BY Sizes, Division
<1>2. ASSUME NEW i \in 0..(w \div TileSize) PROVE i * TileSize \in 0..w
  <2>1. i \in Nat /\ i <= w \div TileSize
    BY <1>1
  <2>2. i * TileSize <= (w \div TileSize) * TileSize /\ i * TileSize \in Nat
    BY <1>1, <2>1, Sizes
  <2>3. (w \div TileSize) * TileSize \in Nat
    BY <1>1, Sizes
  <2> QED  BY <1>1, <2>2, <2>3
<1>3. S \subseteq 0..w
  BY <1>2
<1>4. 0 \in S
  <2>1. 0 \in 0..(w \div TileSize) /\ 0 * TileSize = 0
    BY <1>1, Sizes
  <2>2. 0 \in Ends
    BY <2>1
  <2> QED  BY <2>2, NoColor
<1>5. Max(S) \in S
  <2> HIDE DEF S
  <2> QED  BY <1>3, <1>4, MaxBelow
<1> QED  BY <1>3, <1>5 DEF SolidWidth

-----------------------------------------------------------------------------
(* The best solid area at a tile. *)

Upto(n, h) == IF n * TileSize < h THEN n * TileSize ELSE h

BestInv(b, n, x, y, w, h, c) ==
  /\ b = [prev |-> b.prev, w |-> b.w, h |-> b.h]
  /\ b.prev \in 0..w /\ b.w \in 0..w /\ b.h \in 0..h
  /\ HasColor(x, y, b.w, b.h, c)
  /\ b.prev # 0 => HasColor(x, y, b.prev, Upto(n, h), c) \/ n = 0

LEMMA SolidRowKeeps ==
  ASSUME NEW x \in Int, NEW y \in Int, NEW w \in Nat, NEW h \in Nat \ {0}, NEW c,
         NEW n \in Nat \ {0}, (n - 1) * TileSize < h, NEW b, BestInv(b, n - 1, x, y, w, h, c)
  PROVE  BestInv(SolidRow(b, n, x, y, h, c), n, x, y, w, h, c)
<1> DEFINE done == (n - 1) * TileSize
           dh == Part(h - done, TileSize)
           k == SolidWidth(x, y + done, b.prev, dh, c)
           new == SolidRow(b, n, x, y, h, c)
<1>1. done \in Nat /\ done < h /\ n * TileSize = done + TileSize
  BY Sizes
<1>2. dh \in Nat \ {0} /\ done + dh <= h /\ Upto(n, h) = done + dh /\ Upto(n - 1, h) = done
  BY <1>1, Sizes DEF Upto, Part
<1>3. /\ b = [prev |-> b.prev, w |-> b.w, h |-> b.h]
      /\ b.prev \in 0..w /\ b.w \in 0..w /\ b.h \in 0..h
      /\ HasColor(x, y, b.w, b.h, c)
      /\ b.prev # 0 => HasColor(x, y, b.prev, done, c) \/ n - 1 = 0
  BY <1>2 DEF BestInv
<1>4. new = IF k = 0 THEN [b EXCEPT !.prev = 0]
            ELSE IF k * (done + dh) > b.w * b.h THEN [prev |-> k, w |-> k, h |-> done + dh]
            ELSE [b EXCEPT !.prev = k]
  BY DEF SolidRow
<1> HIDE DEF new
<1>5. k \in 0..b.prev /\ HasColor(x, y + done, k, dh, c)
  <2>1. b.prev \in Nat /\ y + done \in Int /\ dh \in Nat
    BY <1>1, <1>2, <1>3
  <2> HIDE DEF done, dh
  <2> QED  BY <2>1, SolidWidthFound
<1>6. k # 0 => HasColor(x, y, k, done + dh, c)
  <2> SUFFICES ASSUME k # 0 PROVE HasColor(x, y, k, done + dh, c)
    OBVIOUS
  <2>0. n = 1 => done = 0
    BY Sizes
  <2> HIDE DEF done, dh, k
  <2>1. HasColor(x, y, k, done, c)
    <3>1. CASE n - 1 = 0
      BY <1>1, <1>3, <1>5, <2>0, <3>1, NoColor, SMTT(30)
    <3>2. CASE n - 1 # 0
      BY <1>1, <1>3, <1>5, <3>2, NarrowerColor, SMTT(30)
    <3> QED  BY <3>1, <3>2
  <2>2. k \in Nat /\ done \in Nat /\ dh \in Nat /\ HasColor(x, y + done, k, dh, c)
    BY <1>1, <1>2, <1>3, <1>5
  <2> QED  BY <2>1, <2>2, ColorBelow
<1> HIDE DEF done, dh, k
<1>7. CASE k = 0
  <2>1. new = [prev |-> 0, w |-> b.w, h |-> b.h]
    BY <1>3, <1>4, <1>7
  <2> QED  BY <1>3, <2>1 DEF BestInv, new
<1>8. CASE k # 0 /\ k * (done + dh) > b.w * b.h
  <2>1. new = [prev |-> k, w |-> k, h |-> done + dh]
    BY <1>4, <1>8
  <2> QED  BY <1>1, <1>2, <1>3, <1>5, <1>6, <1>8, <2>1 DEF BestInv, new
<1>9. CASE k # 0 /\ ~(k * (done + dh) > b.w * b.h)
  <2>1. new = [prev |-> k, w |-> b.w, h |-> b.h]
    BY <1>3, <1>4, <1>9
  <2> QED  BY <1>2, <1>3, <1>5, <1>6, <1>9, <2>1 DEF BestInv, new
<1> QED  BY <1>7, <1>8, <1>9

IsBest(f, m, x, y, w, h, c) ==
  f = [n \in 0..m |-> IF n = 0 THEN [prev |-> w, w |-> 0, h |-> 0]
                      ELSE SolidRow(f[n - 1], n, x, y, h, c)]

LEMMA BestExists ==
  ASSUME NEW m \in Nat, NEW x, NEW y, NEW w, NEW h, NEW c
  PROVE  \E f : IsBest(f, m, x, y, w, h, c)
<1> DEFINE Missing == {k \in Nat : ~ \E f : IsBest(f, k, x, y, w, h, c)}
<1> SUFFICES ASSUME m \in Missing PROVE FALSE
  OBVIOUS
<1>1. PICK k \in Missing : \A i \in Missing : k <= i
  BY LeastElement
<1>2. k # 0
  <2>1. IsBest([n \in 0..0 |-> [prev |-> w, w |-> 0, h |-> 0]], 0, x, y, w, h, c)
    BY DEF IsBest
  <2> QED  BY <1>1, <2>1
<1>3. PICK g : IsBest(g, k - 1, x, y, w, h, c)
  <2>1. k - 1 \in Nat /\ ~(k <= k - 1)
    BY <1>1, <1>2
  <2> QED  BY <1>1, <2>1
<1> DEFINE f == [n \in 0..k |-> IF n = k THEN SolidRow(g[k - 1], k, x, y, h, c) ELSE g[n]]
<1>4. IsBest(f, k, x, y, w, h, c)
  <2>1. k \in Nat /\ k - 1 \in 0..k /\ k - 1 # k
    BY <1>1, <1>2
  <2>2. ASSUME NEW n \in 0..k
        PROVE  f[n] = IF n = 0 THEN [prev |-> w, w |-> 0, h |-> 0]
                      ELSE SolidRow(f[n - 1], n, x, y, h, c)
    <3>1. CASE n = k
      BY <1>2, <2>1, <3>1
    <3>2. CASE n # k
      <4>1. n \in 0..(k - 1) /\ (n # 0 => n - 1 \in 0..k /\ n - 1 # k)
        BY <2>1, <3>2
      <4>2. g[n] = IF n = 0 THEN [prev |-> w, w |-> 0, h |-> 0]
                   ELSE SolidRow(g[n - 1], n, x, y, h, c)
        BY <1>3, <4>1 DEF IsBest
      <4> QED  BY <3>2, <4>1, <4>2
    <3> QED  BY <3>1, <3>2
  <2>3. f = [n \in 0..k |-> f[n]]
    OBVIOUS
  <2> HIDE DEF f
  <2> QED  BY <2>2, <2>3 DEF IsBest
<1> QED  BY <1>1, <1>4

\* FindBestSolidArea finds an area of the colour within the rectangle.
LEMMA BestFound ==
  ASSUME NEW x \in Int, NEW y \in Int, NEW w \in Nat, NEW h \in Nat \ {0}, NEW c
  PROVE  /\ FindBestSolidArea(x, y, w, h, c).w \in 0..w
         /\ FindBestSolidArea(x, y, w, h, c).h \in 0..h
         /\ HasColor(x, y, FindBestSolidArea(x, y, w, h, c).w, FindBestSolidArea(x, y, w, h, c).h, c)
<1> DEFINE m == TileRowsOf(h)
           F == CHOOSE f : IsBest(f, m, x, y, w, h, c)
<1>1. h - 1 \in Nat /\ m = (h - 1) \div TileSize + 1
  BY DEF TileRowsOf
<1>2. (h - 1) \div TileSize \in Nat /\ ((h - 1) \div TileSize) * TileSize <= h - 1
  BY <1>1, Sizes, Division
<1>3. m \in Nat
  BY <1>1, <1>2
<1>4. FindBestSolidArea(x, y, w, h, c) = F[m]
  BY DEF FindBestSolidArea, IsBest
<1> HIDE DEF m
<1>5. IsBest(F, m, x, y, w, h, c)
  BY <1>3, BestExists
<1> HIDE DEF F
<1> DEFINE Wrong == {n \in 0..m : ~BestInv(F[n], n, x, y, w, h, c)}
<1>6. Wrong = {}
  <2> SUFFICES ASSUME Wrong # {} PROVE FALSE
    OBVIOUS
  <2>0. Wrong \subseteq Nat
    BY <1>3
  <2>1. PICK k \in Wrong : \A i \in Wrong : k <= i
    <3> HIDE DEF Wrong
    <3> QED  BY <2>0, LeastElement
  <2>2. k \in 0..m /\ ~BestInv(F[k], k, x, y, w, h, c)
    BY <2>1
  <2>3. k # 0
    <3> SUFFICES BestInv(F[0], 0, x, y, w, h, c)
      BY <2>2
    <3>1. F[0] = [prev |-> w, w |-> 0, h |-> 0]
      BY <1>3, <1>5 DEF IsBest
    <3> QED  BY <3>1, NoColor DEF BestInv
  <2>4. k - 1 \in 0..m /\ BestInv(F[k - 1], k - 1, x, y, w, h, c)
    <3>1. k - 1 \in 0..m /\ ~(k <= k - 1)
      BY <1>3, <2>2, <2>3
    <3> QED  BY <2>1, <3>1
  <2>5. F[k] = SolidRow(F[k - 1], k, x, y, h, c)
    BY <1>5, <2>2, <2>3 DEF IsBest
  <2>6. (k - 1) * TileSize < h
    <3>1. k - 1 \in Nat /\ k - 1 <= (h - 1) \div TileSize
      BY <1>1, <1>2, <1>3, <2>2, <2>3
    <3>2. (k - 1) * TileSize <= ((h - 1) \div TileSize) * TileSize
      BY <1>2, <3>1, Sizes
    <3>3. (k - 1) * TileSize \in Nat /\ ((h - 1) \div TileSize) * TileSize \in Nat
      BY <1>2, <3>1, Sizes
    <3> QED  BY <1>2, <3>2, <3>3
  <2> QED  BY <1>3, <2>2, <2>3, <2>4, <2>5, <2>6, SolidRowKeeps
<1>7. BestInv(F[m], m, x, y, w, h, c)
  BY <1>3, <1>6
<1> QED  BY <1>4, <1>7 DEF BestInv

\* ExtendSolidArea stays within the rectangle and the colour.
LEMMA Extended ==
  ASSUME NEW r \in Rects, NEW c,
         NEW a, a.x \in Int, a.y \in Int, a.w \in Nat \ {0}, a.h \in Nat \ {0},
         Within(a, r), HasColor(a.x, a.y, a.w, a.h, c)
  PROVE  LET e == ExtendSolidArea(r, a, c) IN
         e \in Rects /\ e.solid /\ Within(e, r) /\ OneColor(e)
<1> DEFINE Ups == {n \in 0..(a.y - r.y) : HasColor(a.x, a.y - n, a.w, n, c)}
           up == Max(Ups)
           Downs == {n \in 0..(r.y + r.h - a.y - a.h) : HasColor(a.x, a.y + a.h, a.w, n, c)}
           down == Max(Downs)
           y == a.y - up
           h == up + a.h + down
           Lefts == {n \in 0..(a.x - r.x) : HasColor(a.x - n, y, n, h, c)}
           left == Max(Lefts)
           Rights == {n \in 0..(r.x + r.w - a.x - a.w) : HasColor(a.x + a.w, y, n, h, c)}
           right == Max(Rights)
           e == ExtendSolidArea(r, a, c)
<1>1. e = Solid(a.x - left, y, left + a.w + right, h)
  BY DEF ExtendSolidArea
<1>2. /\ r.x \in Int /\ r.y \in Int /\ r.w \in Nat \ {0} /\ r.h \in Nat \ {0}
      /\ a.x >= r.x /\ a.x + a.w <= r.x + r.w /\ a.y >= r.y /\ a.y + a.h <= r.y + r.h
  BY DEF Rects, Within
<1> HIDE DEF e
<1>3. up \in 0..(a.y - r.y) /\ HasColor(a.x, a.y - up, a.w, up, c)
  <2>1. a.y - r.y \in Nat /\ 0 \in Ups /\ Ups \subseteq 0..(a.y - r.y)
    BY <1>2, NoColor
  <2>2. up \in Ups
    <3> HIDE DEF Ups
    <3> QED  BY <2>1, MaxBelow
  <2> QED  BY <2>2
<1> HIDE DEF up
<1>4. down \in 0..(r.y + r.h - a.y - a.h) /\ HasColor(a.x, a.y + a.h, a.w, down, c)
  <2>1. r.y + r.h - a.y - a.h \in Nat /\ 0 \in Downs /\ Downs \subseteq 0..(r.y + r.h - a.y - a.h)
    BY <1>2, NoColor
  <2>2. down \in Downs
    <3> HIDE DEF Downs
    <3> QED  BY <2>1, MaxBelow
  <2> QED  BY <2>2
<1> HIDE DEF down
<1>5. up \in Nat /\ down \in Nat /\ y \in Int /\ h \in Nat \ {0}
  <2>1. up \in Nat
    BY <1>3
  <2>2. down \in Nat
    BY <1>4
  <2>3. y \in Int
    BY <2>1
  <2>4. h \in Nat \ {0}
    BY <2>1, <2>2
  <2> QED  BY <2>1, <2>2, <2>3, <2>4
<1>6. HasColor(a.x, y, a.w, h, c)
  <2>1. HasColor(a.x, y, a.w, up + a.h, c)
    <3>1. y + up = a.y
      BY <1>5
    <3> HIDE DEF y
    <3> QED  BY <1>3, <1>5, <3>1, ColorBelow DEF y
  <2>2. y + (up + a.h) = a.y + a.h /\ up + a.h \in Nat
    BY <1>5
  <2> HIDE DEF y
  <2> QED  BY <1>4, <1>5, <2>1, <2>2, ColorBelow
<1>7. y >= r.y /\ y + h <= r.y + r.h
  BY <1>2, <1>3, <1>4, <1>5
<1> HIDE DEF y, h
<1>8. left \in 0..(a.x - r.x) /\ HasColor(a.x - left, y, left, h, c)
  <2>1. a.x - r.x \in Nat /\ 0 \in Lefts /\ Lefts \subseteq 0..(a.x - r.x)
    BY <1>2, <1>5, NoColor
  <2>2. left \in Lefts
    <3> HIDE DEF Lefts
    <3> QED  BY <2>1, MaxBelow
  <2> QED  BY <2>2
<1> HIDE DEF left
<1>9. right \in 0..(r.x + r.w - a.x - a.w) /\ HasColor(a.x + a.w, y, right, h, c)
  <2>1. /\ r.x + r.w - a.x - a.w \in Nat /\ 0 \in Rights
        /\ Rights \subseteq 0..(r.x + r.w - a.x - a.w)
    BY <1>2, <1>5, NoColor
  <2>2. right \in Rights
    <3> HIDE DEF Rights
    <3> QED  BY <2>1, MaxBelow
  <2> QED  BY <2>2
<1> HIDE DEF right
<1>10. /\ left \in Nat /\ right \in Nat /\ a.x - left \in Int
       /\ left + a.w + right \in Nat \ {0}
  BY <1>2, <1>8, <1>9
<1>11. HasColor(a.x - left, y, left + a.w + right, h, c)
  <2> DEFINE x == a.x - left
  <2>1. x \in Int /\ x + left = a.x /\ x + (left + a.w) = a.x + a.w /\ left + a.w \in Nat
    BY <1>10
  <2> HIDE DEF x
  <2>2. HasColor(x, y, left, h, c)
    BY <1>8 DEF x
  <2>3. HasColor(x, y, left + a.w, h, c)
    BY <1>5, <1>6, <1>10, <2>1, <2>2, ColorRight
  <2>4. HasColor(x, y, left + a.w + right, h, c)
    BY <1>5, <1>9, <1>10, <2>1, <2>3, ColorRight
  <2> QED  BY <2>4 DEF x
<1>12. /\ e = [x |-> a.x - left, y |-> y, w |-> left + a.w + right, h |-> h, solid |-> TRUE]
  BY <1>1 DEF Solid, Rect
<1>13. e \in Rects /\ e.solid
  BY <1>5, <1>10, <1>12 DEF Rects
<1>14. Within(e, r)
  <2>1. e.x = a.x - left /\ e.y = y /\ e.w = left + a.w + right /\ e.h = h
    BY <1>12
  <2> QED  BY <1>2, <1>5, <1>7, <1>8, <1>9, <1>10, <2>1 DEF Within
<1>15. OneColor(e)
  <2>1. e.x = a.x - left /\ e.y = y /\ e.w = left + a.w + right /\ e.h = h
    BY <1>12
  <2>2. e.x \in Int /\ e.y \in Int /\ e.w \in Nat \ {0} /\ e.h \in Nat \ {0}
    BY <1>13 DEF Rects
  <2>3. HasColor(e.x, e.y, e.w, e.h, c)
    BY <1>11, <2>1
  <2> HIDE DEF e
  <2>4. e.x \in e.x..(e.x + e.w - 1) /\ e.y \in e.y..(e.y + e.h - 1)
    BY <2>2
  <2>5. picture[<<e.x, e.y>>] = c
    BY <2>3, <2>4 DEF HasColor
  <2> QED  BY <2>3, <2>5 DEF OneColor
<1> QED  BY <1>13, <1>14, <1>15 DEF e

\* A solid area that is found lies within the rectangle.
LEMMA AreaFound ==
  ASSUME NEW r \in Rects, NEW dy \in r.y..(r.y + r.h - 1), SolidAreas(r, dy) # {}
  PROVE  LET area == AreaAt(r, Min(SolidAreas(r, dy)), dy) IN
         area \in Rects /\ area.solid /\ Within(area, r) /\ OneColor(area)
<1> DEFINE dx == Min(SolidAreas(r, dy))
           a == BestAt(r, dx, dy)
           c == Wanted(dx, dy)
           tile == [x |-> dx, y |-> dy, w |-> a.w, h |-> a.h]
<1>1. /\ r.x \in Int /\ r.y \in Int /\ r.w \in Nat \ {0} /\ r.h \in Nat \ {0} /\ dy \in Int
      /\ dy >= r.y /\ dy < r.y + r.h
  BY DEF Rects
<1>2. ASSUME NEW i \in 0..((r.w - 1) \div TileSize)
      PROVE  r.x + i * TileSize \in r.x..(r.x + r.w - 1)
  <2>1. r.w - 1 \in Nat
    BY <1>1
  <2>2. (r.w - 1) \div TileSize \in Nat /\ ((r.w - 1) \div TileSize) * TileSize <= r.w - 1
    BY <2>1, Sizes, Division
  <2>3. i * TileSize <= ((r.w - 1) \div TileSize) * TileSize /\ i * TileSize \in Nat
    BY <2>2, Sizes
  <2>4. ((r.w - 1) \div TileSize) * TileSize \in Nat
    BY <2>2, Sizes
  <2> QED  BY <1>1, <2>2, <2>3, <2>4
<1>3. SolidAreas(r, dy) \subseteq r.x..(r.x + r.w - 1)
  BY <1>2 DEF SolidAreas
<1>4. dx \in SolidAreas(r, dy)
  <2>1. SolidAreas(r, dy) \subseteq Int /\ \A n \in SolidAreas(r, dy) : n >= r.x
    BY <1>1, <1>3
  <2> QED  BY <1>1, <2>1, MinAbove
<1>5. dx \in Int /\ dx >= r.x /\ dx < r.x + r.w
  BY <1>1, <1>3, <1>4, SMTT(30)
<1>6. a.w * a.h = r.w * r.h \/ a.w * a.h >= MinSolidSize
  BY <1>4 DEF SolidAreas
<1> HIDE DEF dx
<1>7. /\ a.w \in 0..(r.x + r.w - dx) /\ a.h \in 0..(r.y + r.h - dy)
      /\ HasColor(dx, dy, a.w, a.h, c)
  <2>1. r.x + r.w - dx \in Nat /\ r.y + r.h - dy \in Nat \ {0}
    BY <1>1, <1>5
  <2> HIDE DEF c
  <2>2. a = FindBestSolidArea(dx, dy, r.x + r.w - dx, r.y + r.h - dy, c)
    BY DEF BestAt, c
  <2> HIDE DEF a
  <2> QED  BY <1>1, <1>5, <2>1, <2>2, BestFound
<1> HIDE DEF a, c
<1>8. a.w \in Nat \ {0} /\ a.h \in Nat \ {0}
  <2>1. a.w \in Nat /\ a.h \in Nat
    BY <1>7
  <2>2. r.w * r.h > 0
    BY <1>1
  <2>3. a.w * a.h > 0
    BY <1>6, <2>1, <2>2, Sizes
  <2> QED  BY <2>1, <2>3
<1>9. tile.x = dx /\ tile.y = dy /\ tile.w = a.w /\ tile.h = a.h
  OBVIOUS
<1>10. AreaAt(r, dx, dy) = ExtendSolidArea(r, tile, c)
  BY DEF AreaAt, a, c
<1> HIDE DEF tile
<1>11. Within(tile, r)
  BY <1>1, <1>5, <1>7, <1>8, <1>9 DEF Within
<1> QED  BY <1>1, <1>5, <1>7, <1>8, <1>9, <1>10, <1>11, Extended DEF dx

-----------------------------------------------------------------------------
(* Tight's loop over the rows of tiles. *)

\* A part of the rectangle that is apart from the calls made so far.
LEMMA CallMore ==
  ASSUME NEW p \in Procedures, NEW r \in Parts, NEW q \in Rects, NEW s \in Seq(Frames),
         NEW c, Piled(c, q, s), r.solid <=> p = "Solid", r.solid => OneColor(r),
         SomeLeft(r) => Within(r, q) /\ Clear(r, c)
  PROVE  /\ Piled(Call(p, r, c), q, s)
         /\ Call(p, r, c) \in Seq(Frames)
         /\ \A a : Clear(a, c) /\ (SomeLeft(r) => Apart(a, r)) => Clear(a, Call(p, r, c))
         /\ \A px, py \in Int : Held(c, px, py) \/ Holds(r, px, py) => Held(Call(p, r, c), px, py)
<1>1. c \in Seq(Frames)
  BY DEF Piled
<1>2. Piled(Call(p, r, c), q, s)
  BY CallPiles
<1>3. Call(p, r, c) \in Seq(Frames)
  BY <1>2 DEF Piled
<1> QED  BY <1>1, <1>2, <1>3, CallClear, CallHolds

\* The next round, for the same rectangle, is called as a call is.
LEMMA NextRowPiles ==
  ASSUME TypeOK, CallsInv, calls # <<>>, NEW r \in Rects, ~r.solid, Within(r, Arg),
         NEW dy \in Int, dy >= r.y
  PROVE  /\ Piled(NextTileRow(r, dy), Arg, Rest)
         /\ \A a : Clear(a, Rest) /\ Apart(a, r) => Clear(a, NextTileRow(r, dy))
         /\ \A px, py \in Int : Holds(r, px, py) => Held(NextTileRow(r, dy), px, py)
<1> DEFINE f == [procedure |-> "TileRows", r |-> r, dy |-> dy + TileSize]
           c == NextTileRow(r, dy)
<1>1. /\ Arg \in Rects /\ Rest \in Seq(Frames) /\ Clear(Arg, Rest)
      /\ Piled(Rest, Arg, Rest)
  BY TopOfStack, RestTidy
<1>2. f \in Frames /\ FrameOK(f) /\ f.r = r
  BY Sizes DEF Frames, Procedures, FrameOK, Rects
<1>3. c = <<f>> \o Rest
  BY DEF NextTileRow
<1> HIDE DEF f, c, Arg, Rest
<1>4. /\ c \in Seq(Frames) /\ 1 \in DOMAIN c /\ c[1] = f
      /\ \A i \in DOMAIN Rest : i \in Nat \ {0} /\ i + 1 \in DOMAIN c /\ c[i + 1] = Rest[i]
  BY <1>1, <1>2, <1>3
<1>5. \A i \in DOMAIN c :
        \/ i = 1 /\ c[i] = f
        \/ i # 1 /\ i - 1 \in DOMAIN Rest /\ c[i] = Rest[i - 1]
  BY <1>1, <1>2, <1>3
<1>6. Clear(r, Rest)
  BY <1>1, ClearPart
<1>7. \A i \in DOMAIN c : FrameOK(c[i])
  BY <1>1, <1>2, <1>5 DEF Piled
<1>8. Tidy(c)
  <2> SUFFICES ASSUME NEW i \in DOMAIN c, NEW j \in DOMAIN c, i # j
               PROVE  Apart(c[i].r, c[j].r)
    BY DEF Tidy
  <2>1. i \in Int /\ j \in Int
    BY <1>4
  <2>2. CASE i = 1
    BY <1>2, <1>5, <1>6, <2>2 DEF Clear
  <2>3. CASE j = 1
    BY <1>2, <1>5, <1>6, <2>3, ApartBothWays DEF Clear
  <2>4. CASE i # 1 /\ j # 1
    BY <1>1, <1>5, <2>1, <2>4 DEF Piled, Tidy
  <2> QED  BY <2>2, <2>3, <2>4
<1>9. \A i \in DOMAIN c : (\E j \in DOMAIN Rest : c[i] = Rest[j]) \/ Within(c[i].r, Arg)
  BY <1>2, <1>5
<1>10. \A px, py \in Int : Held(Rest, px, py) => Held(c, px, py)
  BY <1>4 DEF Held
<1>11. Piled(c, Arg, Rest)
  BY <1>4, <1>7, <1>8, <1>9, <1>10 DEF Piled
<1>12. \A px, py \in Int : Holds(r, px, py) => Held(c, px, py)
  BY <1>2, <1>4 DEF Held
<1>13. ASSUME NEW a, Clear(a, Rest), Apart(a, r) PROVE Clear(a, c)
  BY <1>2, <1>5, <1>13, SMTT(30) DEF Clear
<1> QED  BY <1>11, <1>12, <1>13 DEF c

\* The five parts into which a solid area cuts a rectangle.
LEMMA FiveParts ==
  ASSUME NEW r \in Rects, ~r.solid, NEW a \in Rects, Within(a, r), NEW dy
  PROVE  LET over == Above(r, a, dy)
             west == Rect(r.x, a.y, a.x - r.x, a.h)
             east == Rect(a.x + a.w, a.y, r.x + r.w - a.x - a.w, a.h)
             under == Rect(r.x, a.y + a.h, r.w, r.y + r.h - a.y - a.h)
         IN
         /\ {over, west, east, under} \subseteq Parts
         /\ \A b \in {over, west, east, under} :
              ~b.solid /\ Within(b, r) /\ Apart(b, a) /\ Apart(a, b)
         /\ Apart(over, west) /\ Apart(over, east) /\ Apart(over, under)
         /\ Apart(west, east) /\ Apart(west, under) /\ Apart(east, under)
         /\ \A px, py \in Int : Holds(r, px, py) =>
              \E b \in {over, west, a, east, under} : Holds(b, px, py)
<1> DEFINE over == Above(r, a, dy)
           west == Rect(r.x, a.y, a.x - r.x, a.h)
           east == Rect(a.x + a.w, a.y, r.x + r.w - a.x - a.w, a.h)
           under == Rect(r.x, a.y + a.h, r.w, r.y + r.h - a.y - a.h)
<1>1. /\ r.x \in Int /\ r.y \in Int /\ r.w \in Nat \ {0} /\ r.h \in Nat \ {0}
      /\ r = [x |-> r.x, y |-> r.y, w |-> r.w, h |-> r.h, solid |-> FALSE]
  BY DEF Rects
<1>2. a.x \in Int /\ a.y \in Int /\ a.w \in Nat \ {0} /\ a.h \in Nat \ {0}
  BY DEF Rects
<1>3. a.x >= r.x /\ a.x + a.w <= r.x + r.w /\ a.y >= r.y /\ a.y + a.h <= r.y + r.h
  BY DEF Within
<1>4. over = [x |-> r.x, y |-> r.y, w |-> r.w, h |-> a.y - r.y, solid |-> FALSE]
  <2>1. over = [r EXCEPT !.h = a.y - r.y]
    BY DEF Above
  <2> HIDE DEF over
  <2>2. over = [x |-> over.x, y |-> over.y, w |-> over.w, h |-> over.h, solid |-> over.solid]
    BY <1>1, <2>1
  <2>3. /\ over.x = r.x /\ over.y = r.y /\ over.w = r.w /\ over.h = a.y - r.y
        /\ over.solid = r.solid
    BY <1>1, <2>1
  <2>4. r.solid = FALSE
    BY <1>1
  <2> QED  BY <2>2, <2>3, <2>4
<1>5. west = [x |-> r.x, y |-> a.y, w |-> a.x - r.x, h |-> a.h, solid |-> FALSE]
  BY DEF Rect
<1>6. east = [x |-> a.x + a.w, y |-> a.y, w |-> r.x + r.w - a.x - a.w, h |-> a.h, solid |-> FALSE]
  BY DEF Rect
<1>7. under = [x |-> r.x, y |-> a.y + a.h, w |-> r.w, h |-> r.y + r.h - a.y - a.h, solid |-> FALSE]
  BY DEF Rect
<1> HIDE DEF over, west, east, under
<1>8. {over, west, east, under} \subseteq Parts
  <2>1. over \in Parts
    BY <1>1, <1>2, <1>4 DEF Parts
  <2>2. west \in Parts
    BY <1>1, <1>2, <1>5 DEF Parts
  <2>3. east \in Parts
    BY <1>1, <1>2, <1>6 DEF Parts
  <2>4. under \in Parts
    BY <1>1, <1>2, <1>7 DEF Parts
  <2> QED  BY <2>1, <2>2, <2>3, <2>4
<1>9. /\ over.x = r.x /\ over.y = r.y /\ over.w = r.w /\ over.h = a.y - r.y /\ ~over.solid
      /\ west.x = r.x /\ west.y = a.y /\ west.w = a.x - r.x /\ west.h = a.h /\ ~west.solid
  BY <1>4, <1>5
<1>10. /\ east.x = a.x + a.w /\ east.y = a.y /\ east.w = r.x + r.w - a.x - a.w /\ east.h = a.h
       /\ under.x = r.x /\ under.y = a.y + a.h /\ under.w = r.w
       /\ under.h = r.y + r.h - a.y - a.h /\ ~east.solid /\ ~under.solid
  BY <1>6, <1>7
<1>11. Within(over, r) /\ Apart(over, a) /\ Apart(a, over)
  BY <1>1, <1>2, <1>3, <1>9 DEF Within, Apart
<1>12. Within(west, r) /\ Apart(west, a) /\ Apart(a, west)
  BY <1>1, <1>2, <1>3, <1>9 DEF Within, Apart
<1>13. Within(east, r) /\ Apart(east, a) /\ Apart(a, east)
  BY <1>1, <1>2, <1>3, <1>10 DEF Within, Apart
<1>14. Within(under, r) /\ Apart(under, a) /\ Apart(a, under)
  BY <1>1, <1>2, <1>3, <1>10 DEF Within, Apart
<1>15. /\ Apart(over, west) /\ Apart(over, east) /\ Apart(over, under)
       /\ Apart(west, east) /\ Apart(west, under) /\ Apart(east, under)
  BY <1>1, <1>2, <1>3, <1>9, <1>10 DEF Apart
<1>16. ASSUME NEW px \in Int, NEW py \in Int, Holds(r, px, py)
       PROVE  \E b \in {over, west, a, east, under} : Holds(b, px, py)
  <2>1. r.x <= px /\ px < r.x + r.w /\ r.y <= py /\ py < r.y + r.h
    BY <1>16 DEF Holds
  <2>2. CASE py < a.y
    BY <1>1, <1>2, <1>9, <2>1, <2>2 DEF Holds
  <2>3. CASE py >= a.y + a.h
    BY <1>1, <1>2, <1>10, <2>1, <2>3 DEF Holds
  <2>4. CASE py >= a.y /\ py < a.y + a.h /\ px < a.x
    BY <1>1, <1>2, <1>9, <2>1, <2>4 DEF Holds
  <2>5. CASE py >= a.y /\ py < a.y + a.h /\ px >= a.x + a.w
    BY <1>1, <1>2, <1>10, <2>1, <2>5 DEF Holds
  <2>6. CASE py >= a.y /\ py < a.y + a.h /\ px >= a.x /\ px < a.x + a.w
    BY <2>6 DEF Holds
  <2> QED  BY <1>1, <1>2, <2>2, <2>3, <2>4, <2>5, <2>6
<1>17. \A b \in {over, west, east, under} :
         ~b.solid /\ Within(b, r) /\ Apart(b, a) /\ Apart(a, b)
  BY <1>9, <1>10, <1>11, <1>12, <1>13, <1>14
<1> QED  BY <1>8, <1>15, <1>16, <1>17 DEF over, west, east, under


LEMMA AroundPiles ==
  ASSUME TypeOK, CallsInv, calls # <<>>, NEW r \in Rects, ~r.solid, Within(r, Arg),
         NEW a \in Rects, a.solid, OneColor(a), Within(a, r), NEW dy
  PROVE  /\ Piled(Around(r, a, dy), Arg, Rest)
         /\ \A b : Clear(b, Rest) /\ (\A d \in Parts : Within(d, r) => Apart(b, d))
              => Clear(b, Around(r, a, dy))
         /\ \A px, py \in Int : Holds(r, px, py) => Held(Around(r, a, dy), px, py)
<1> DEFINE over == Above(r, a, dy)
           west == Rect(r.x, a.y, a.x - r.x, a.h)
           east == Rect(a.x + a.w, a.y, r.x + r.w - a.x - a.w, a.h)
           under == Rect(r.x, a.y + a.h, r.w, r.y + r.h - a.y - a.h)
           c1 == Call("Tight", under, Rest)
           c2 == Call("Tight", east, c1)
           c3 == Call("Solid", a, c2)
           c4 == Call("Tight", west, c3)
           c5 == Call("Simple", over, c4)
<1>1. c5 = Around(r, a, dy)
  BY DEF Around
<1>2. /\ Arg \in Rects /\ Rest \in Seq(Frames) /\ Clear(Arg, Rest)
      /\ Piled(Rest, Arg, Rest)
  BY TopOfStack, RestTidy
<1>3. {"Simple", "Tight", "Solid"} \subseteq Procedures
  BY DEF Procedures, Encodings
<1>4. /\ {over, west, east, under} \subseteq Parts
      /\ \A b \in {over, west, east, under} :
           ~b.solid /\ Within(b, r) /\ Apart(b, a) /\ Apart(a, b)
      /\ Apart(over, west) /\ Apart(over, east) /\ Apart(over, under)
      /\ Apart(west, east) /\ Apart(west, under) /\ Apart(east, under)
      /\ \A px, py \in Int : Holds(r, px, py) =>
           \E b \in {over, west, a, east, under} : Holds(b, px, py)
  BY FiveParts
<1>5. a \in Parts /\ SomeLeft(a)
  BY RectIsPart
<1> HIDE DEF Arg, Rest, over, west, east, under
<1>6. \A b \in {over, west, a, east, under} : SomeLeft(b) =>
        b \in Rects /\ Within(b, Arg) /\ Clear(b, Rest)
  <2> TAKE b \in {over, west, a, east, under}
  <2> HAVE SomeLeft(b)
  <2>1. b \in Rects /\ Within(b, r)
    BY <1>4, PartIsRect
  <2>2. Within(b, Arg)
    BY <1>2, <2>1, WithinChain
  <2> QED  BY <1>2, <2>1, <2>2, ClearPart
<1>7. /\ Piled(c1, Arg, Rest) /\ c1 \in Seq(Frames)
      /\ \A b : Clear(b, Rest) /\ (SomeLeft(under) => Apart(b, under)) => Clear(b, c1)
      /\ \A px, py \in Int : Held(Rest, px, py) \/ Holds(under, px, py) => Held(c1, px, py)
  BY <1>2, <1>3, <1>4, <1>6, CallMore
<1> HIDE DEF c1
<1>8. /\ Piled(c2, Arg, Rest) /\ c2 \in Seq(Frames)
      /\ \A b : Clear(b, c1) /\ (SomeLeft(east) => Apart(b, east)) => Clear(b, c2)
      /\ \A px, py \in Int : Held(c1, px, py) \/ Holds(east, px, py) => Held(c2, px, py)
  <2>1. SomeLeft(east) => Within(east, Arg) /\ Clear(east, c1)
    BY <1>4, <1>6, <1>7
  <2> QED  BY <1>2, <1>3, <1>4, <1>7, <2>1, CallMore
<1> HIDE DEF c2
<1>9. /\ Piled(c3, Arg, Rest) /\ c3 \in Seq(Frames)
      /\ \A b : Clear(b, c2) /\ (SomeLeft(a) => Apart(b, a)) => Clear(b, c3)
      /\ \A px, py \in Int : Held(c2, px, py) \/ Holds(a, px, py) => Held(c3, px, py)
  <2>1. Within(a, Arg) /\ Clear(a, c2)
    BY <1>4, <1>5, <1>6, <1>7, <1>8
  <2> QED  BY <1>2, <1>3, <1>5, <1>8, <2>1, CallMore
<1> HIDE DEF c3
<1>10. /\ Piled(c4, Arg, Rest) /\ c4 \in Seq(Frames)
       /\ \A b : Clear(b, c3) /\ (SomeLeft(west) => Apart(b, west)) => Clear(b, c4)
       /\ \A px, py \in Int : Held(c3, px, py) \/ Holds(west, px, py) => Held(c4, px, py)
  <2>1. SomeLeft(west) => Within(west, Arg) /\ Clear(west, c3)
    BY <1>4, <1>6, <1>7, <1>8, <1>9
  <2> QED  BY <1>2, <1>3, <1>4, <1>9, <2>1, CallMore
<1> HIDE DEF c4
<1>11. /\ Piled(c5, Arg, Rest)
       /\ \A b : Clear(b, c4) /\ (SomeLeft(over) => Apart(b, over)) => Clear(b, c5)
       /\ \A px, py \in Int : Held(c4, px, py) \/ Holds(over, px, py) => Held(c5, px, py)
  <2>1. SomeLeft(over) => Within(over, Arg) /\ Clear(over, c4)
    BY <1>4, <1>6, <1>7, <1>8, <1>9, <1>10
  <2> QED  BY <1>2, <1>3, <1>4, <1>10, <2>1, CallMore
<1> HIDE DEF c5
<1>12. ASSUME NEW b, Clear(b, Rest), \A d \in Parts : Within(d, r) => Apart(b, d)
       PROVE  Clear(b, c5)
  <2>1. Apart(b, under) /\ Apart(b, east) /\ Apart(b, a) /\ Apart(b, west) /\ Apart(b, over)
    BY <1>4, <1>5, <1>12
  <2> QED  BY <1>7, <1>8, <1>9, <1>10, <1>11, <1>12, <2>1
<1>13. \A px, py \in Int : Holds(r, px, py) => Held(c5, px, py)
  BY <1>4, <1>7, <1>8, <1>9, <1>10, <1>11
<1> QED  BY <1>1, <1>11, <1>12, <1>13

LEMMA TileRowsStep == Inv /\ TileRows => Inv'
<1> SUFFICES ASSUME Inv, TileRows PROVE Inv'
  OBVIOUS
<1> DEFINE dy == calls[1].dy
           upper == IF dy - Arg.y >= SubrectMaxHeight(Arg.w) THEN SubrectMaxHeight(Arg.w) ELSE 0
           r == Below(Arg, upper)
           found == SolidAreas(r, dy)
           over == [Arg EXCEPT !.h = upper]
<1>1. /\ calls # <<>> /\ Arg \in Rects /\ ~Arg.solid
      /\ Arg.w \in Nat \ {0} /\ Arg.h \in Nat \ {0} /\ Arg.y \in Int
  BY CalledFacts DEF TileRows, Rects
<1>2. dy \in Int /\ dy >= Arg.y
  <2>0. calls \in Seq(Frames) /\ 1 \in DOMAIN calls
    BY <1>1, TopOfStack DEF Inv, TypeOK, Frames
  <2>1. calls[1] \in Frames
    BY <2>0
  <2> QED  BY <1>1, <2>1, TopOfStack DEF Inv, TypeOK, Frames, Arg
<1>3. calls' = IF dy >= Arg.y + Arg.h THEN Call("Simple", Arg, Rest)
               ELSE Call("Simple", over,
                         IF found = {} THEN NextTileRow(r, dy)
                         ELSE Around(r, AreaAt(r, Min(found), dy), dy))
  BY DEF TileRows
<1>4. CallsOnly
  BY DEF TileRows
<1>5. {"Simple", "Tight", "TileRows"} \subseteq Procedures \ {"Solid"}
  BY DEF Procedures, Encodings
<1>6. CASE dy >= Arg.y + Arg.h
  BY <1>1, <1>3, <1>4, <1>5, <1>6, PassedOn
<1>7. CASE ~(dy >= Arg.y + Arg.h)
  <2> DEFINE lower == IF found = {} THEN NextTileRow(r, dy)
                      ELSE Around(r, AreaAt(r, Min(found), dy), dy)
  <2>1. SubrectMaxHeight(Arg.w) \in Nat \ {0}
    BY <1>1, HeightPositive
  <2>2. upper \in 0..Arg.h /\ upper < Arg.h /\ dy >= Arg.y + upper
    BY <1>1, <1>2, <1>7, <2>1
  <2> HIDE DEF upper, dy
  <2>3. /\ over \in Parts /\ ~over.solid /\ Within(over, Arg)
        /\ r \in Parts /\ ~r.solid /\ Within(r, Arg) /\ Apart(over, r)
        /\ \A px, py \in Int : Holds(Arg, px, py) => Holds(over, px, py) \/ Holds(r, px, py)
    <3> HIDE DEF Arg
    <3> QED  BY <1>1, <2>2, CutByLines
  <2>4. /\ r.y = Arg.y + upper /\ r.h = Arg.h - upper /\ r.w = Arg.w
        /\ r.x = Arg.x
    <3>1. Arg = [x |-> Arg.x, y |-> Arg.y, w |-> Arg.w, h |-> Arg.h, solid |-> Arg.solid]
      BY <1>1 DEF Rects
    <3>2. r = [Arg EXCEPT !.y = Arg.y + upper, !.h = Arg.h - upper]
      BY DEF Below
    <3> HIDE DEF Arg, r
    <3> QED  BY <3>1, <3>2
  <2>5. r \in Rects
    <3>1. SomeLeft(r)
      BY <1>1, <2>2, <2>4 DEF SomeLeft
    <3> QED  BY <2>3, <3>1, PartIsRect
  <2>6. dy \in r.y..(r.y + r.h - 1)
    BY <1>1, <1>2, <1>7, <2>2, <2>4
  <2> HIDE DEF r
  <2>7. \A d \in Parts : Within(d, r) => Apart(over, d)
    <3> SUFFICES ASSUME NEW d \in Parts, Within(d, r) PROVE Apart(over, d)
      OBVIOUS
    <3>1. over.y = Arg.y /\ over.h = upper
      BY <1>1 DEF Rects
    <3>2. over.y + over.h <= d.y
      BY <1>1, <2>2, <2>4, <3>1 DEF Within, Parts
    <3> HIDE DEF over
    <3> QED  BY <3>2 DEF Apart
  <2>8. /\ Piled(lower, Arg, Rest)
        /\ Clear(over, Rest) => Clear(over, lower)
        /\ \A px, py \in Int : Holds(r, px, py) => Held(lower, px, py)
    <3>1. CASE found = {}
      <4>1. dy >= r.y
        BY <2>5, <2>6 DEF Rects
      <4>2. lower = NextTileRow(r, dy)
        BY <3>1
      <4> HIDE DEF lower, over, found
      <4> QED  BY <1>1, <1>2, <2>3, <2>5, <4>1, <4>2, NextRowPiles DEF Inv
    <3>2. CASE found # {}
      <4> DEFINE a == AreaAt(r, Min(found), dy)
      <4>1. a \in Rects /\ a.solid /\ Within(a, r) /\ OneColor(a)
        BY <2>5, <2>6, <3>2, AreaFound
      <4>2. lower = Around(r, a, dy)
        BY <3>2
      <4> HIDE DEF lower, a, over, found
      <4> QED  BY <1>1, <2>3, <2>5, <2>7, <4>1, <4>2, AroundPiles DEF Inv
    <3> QED  BY <3>1, <3>2
  <2>9. SomeLeft(over) => Clear(over, Rest)
    <3>1. Rest \in Seq(Frames) /\ Clear(Arg, Rest)
      BY <1>1, TopOfStack, RestTidy DEF Inv
    <3> HIDE DEF over, Arg
    <3> QED  BY <1>1, <2>3, <3>1, PartIsRect, ClearPart
  <2>10. calls' = Call("Simple", over, lower)
    BY <1>3, <1>7 DEF r
  <2> HIDE DEF lower, over
  <2>11. Rest \in Seq(Frames)
    BY <1>1, TopOfStack DEF Inv
  <2>12. /\ Piled(Call("Simple", over, lower), Arg, Rest)
         /\ \A px, py \in Int : Held(lower, px, py) \/ Holds(over, px, py)
              => Held(Call("Simple", over, lower), px, py)
    BY <1>1, <1>5, <2>3, <2>8, <2>9, <2>11, CallMore
  <2> QED  BY <1>1, <1>4, <2>3, <2>8, <2>10, <2>12, CutKeeps
<1> QED  BY <1>6, <1>7

-----------------------------------------------------------------------------
(* How many rectangles the calls are still to send, if they are counted.    *)

PartsOf(n, max) == IF n > 0 THEN (n - 1) \div max + 1 ELSE 0

Left(p, r) ==
  IF p = "CoRRE" THEN PartsOf(r.w, CorreMax) * PartsOf(r.h, CorreMax)
  ELSE IF p = "Lines" THEN PartsOf(r.h, MaxLines(r.w))
  ELSE IF p = "Columns" THEN PartsOf(r.w, MaxRectWidth)
  ELSE IF p = "Rows" \/ (p \in {"Tight", "Simple"} /\ TooLarge(r.w, r.h))
  THEN PartsOf(r.w, MaxRectWidth) * PartsOf(r.h, SubrectMaxHeight(r.w))
  ELSE 1

Owes(p, r) == IF SomeLeft(r) THEN Left(p, r) ELSE 0

\* g[i] is what the calls from the i-th on send.
Owed(s, n) ==
  \E g \in [1..(Len(s) + 1) -> Nat] :
    /\ g[1] = n /\ g[Len(s) + 1] = 0
    /\ \A i \in 1..Len(s) : g[i] = Left(s[i].procedure, s[i].r) + g[i + 1]

\* The search for solid areas sends rectangles that nobody counts.
Plain(p, r) ==
  /\ p \notin {"TileRows", "Solid"}
  /\ p = "Tight" => ~(enableLastRectEncoding /\ r.w * r.h >= MinSplitSize)

AllPlain(s) == \A i \in DOMAIN s : Plain(s[i].procedure, s[i].r)

LEMMA PartsPositive ==
  ASSUME NEW n \in Nat \ {0}, NEW max \in Nat \ {0}
  PROVE  PartsOf(n, max) \in Nat \ {0}
<1>1. (n - 1) \div max \in Nat
  <2>1. n - 1 \in Nat
    OBVIOUS
  <2> QED  BY <2>1, Division
<1> QED  BY <1>1 DEF PartsOf

LEMMA PartsFit ==
  ASSUME NEW n \in Nat \ {0}, NEW max \in Nat \ {0}, n <= max
  PROVE  PartsOf(n, max) = 1
BY FitsOnce DEF PartsOf

\* One part is cut off, and the rest counted.
LEMMA PartsCut ==
  ASSUME NEW n \in Nat \ {0}, NEW max \in Nat \ {0}
  PROVE  /\ PartsOf(n - Part(n, max), max) \in Nat
         /\ PartsOf(n, max) = 1 + PartsOf(n - Part(n, max), max)
<1>1. CASE n <= max
  <2>1. Part(n, max) = n
    BY <1>1 DEF Part
  <2> QED  BY <1>1, <2>1, PartsFit DEF PartsOf
<1>2. CASE n > max
  <2>1. Part(n, max) = max
    BY <1>2 DEF Part
  <2>2. n - max \in Nat \ {0}
    BY <1>2
  <2>3. PartsOf(n, max) = (n - 1) \div max + 1 /\ PartsOf(n - max, max) = (n - max - 1) \div max + 1
    BY <1>2 DEF PartsOf
  <2>4. (n - 1) \div max = (n - max - 1) \div max + 1
    BY <1>2, OneLess
  <2>5. (n - max - 1) \div max \in Nat
    <3>1. n - max - 1 \in Nat
      BY <2>2
    <3> QED  BY <3>1, Division
  <2> QED  BY <2>1, <2>3, <2>4, <2>5
<1> QED  BY <1>1, <1>2

LEMMA LeftIsNat ==
  ASSUME NEW p, NEW r \in Rects
  PROVE  Left(p, r) \in Nat
<1>1. r.w \in Nat \ {0} /\ r.h \in Nat \ {0}
  BY DEF Rects
<1>2. /\ PartsOf(r.w, CorreMax) \in Nat /\ PartsOf(r.h, CorreMax) \in Nat
      /\ PartsOf(r.w, MaxRectWidth) \in Nat
  BY <1>1, Sizes, PartsPositive
<1>3. PartsOf(r.h, MaxLines(r.w)) \in Nat
  BY <1>1, MaxLinesPositive, PartsPositive
<1>4. PartsOf(r.h, SubrectMaxHeight(r.w)) \in Nat
  BY <1>1, HeightPositive, PartsPositive
<1> QED  BY <1>2, <1>3, <1>4 DEF Left

\* Nothing is owed for no calls, and one call owes its share.
LEMMA OwedNothing ==
  /\ Owed(<<>>, 0)
  /\ \A n : Owed(<<>>, n) => n = 0
<1>1. Owed(<<>>, 0)
  <2> DEFINE g == [i \in 1..1 |-> 0]
  <2>1. g \in [1..1 -> Nat] /\ g[1] = 0 /\ Len(<<>>) = 0
    OBVIOUS
  <2> HIDE DEF g
  <2> QED  BY <2>1 DEF Owed
<1> QED  BY <1>1 DEF Owed

LEMMA OwedByCall ==
  ASSUME NEW p \in Procedures, NEW r \in Parts, NEW s \in Seq(Frames), NEW n \in Nat, Owed(s, n)
  PROVE  Owed(Call(p, r, s), Owes(p, r) + n)
<1>1. CASE ~SomeLeft(r)
  BY <1>1, CallDrops DEF Owes
<1>2. CASE SomeLeft(r)
  <2> DEFINE new == Call(p, r, s)
  <2>1. /\ new \in Seq(Frames) /\ Len(new) = Len(s) + 1 /\ new[1] = Frame(p, r)
        /\ \A i \in 1..Len(s) : new[i + 1] = s[i]
    BY <1>2, CallPushes
  <2>2. Left(p, r) \in Nat /\ Owes(p, r) = Left(p, r)
    BY <1>2, PartIsRect, LeftIsNat DEF Owes
  <2>3. PICK g \in [1..(Len(s) + 1) -> Nat] :
          /\ g[1] = n /\ g[Len(s) + 1] = 0
          /\ \A i \in 1..Len(s) : g[i] = Left(s[i].procedure, s[i].r) + g[i + 1]
    BY DEF Owed
  <2> DEFINE f == [i \in 1..(Len(s) + 2) |-> IF i = 1 THEN Left(p, r) + n ELSE g[i - 1]]
  <2>4. Len(s) \in Nat
    OBVIOUS
  <2>5. f \in [1..(Len(s) + 2) -> Nat]
    <3> SUFFICES ASSUME NEW i \in 1..(Len(s) + 2), i # 1 PROVE g[i - 1] \in Nat
      BY <2>2
    <3>1. i - 1 \in 1..(Len(s) + 1)
      BY <2>4
    <3> QED  BY <3>1
  <2>6. f[1] = Left(p, r) + n /\ f[Len(s) + 2] = 0
    <3>1. 1 \in 1..(Len(s) + 2) /\ Len(s) + 2 \in 1..(Len(s) + 2) /\ Len(s) + 2 # 1
      BY <2>4
    <3>2. (Len(s) + 2) - 1 = Len(s) + 1
      BY <2>4
    <3> QED  BY <2>3, <3>1, <3>2
  <2>7. \A i \in 1..(Len(s) + 1) : f[i + 1] = g[i]
    <3> TAKE i \in 1..(Len(s) + 1)
    <3>1. i + 1 \in 1..(Len(s) + 2) /\ i + 1 # 1 /\ (i + 1) - 1 = i
      BY <2>4
    <3> QED  BY <3>1
  <2>8. \A i \in 2..(Len(s) + 1) : f[i] = g[i - 1]
    <3> TAKE i \in 2..(Len(s) + 1)
    <3>1. i \in 1..(Len(s) + 2) /\ i # 1
      BY <2>4
    <3> QED  BY <3>1
  <2> HIDE DEF f, new
  <2>9. ASSUME NEW i \in 1..Len(new)
        PROVE  f[i] = Left(new[i].procedure, new[i].r) + f[i + 1]
    <3>1. CASE i = 1
      <4>1. 1 \in 1..(Len(s) + 1) /\ f[i + 1] = n
        BY <2>3, <2>4, <2>7, <3>1
      <4> QED  BY <2>1, <2>6, <3>1, <4>1 DEF Frame
    <3>2. CASE i # 1
      <4>1. /\ i - 1 \in 1..Len(s) /\ (i - 1) + 1 = i /\ i \in 2..(Len(s) + 1)
            /\ i \in 1..(Len(s) + 1)
        BY <2>1, <2>4, <3>2
      <4>2. new[i] = s[i - 1] /\ f[i] = g[i - 1] /\ f[i + 1] = g[i]
        BY <2>1, <2>7, <2>8, <4>1
      <4> QED  BY <2>3, <4>1, <4>2
    <3> QED  BY <3>1, <3>2
  <2>10. Len(new) + 1 = Len(s) + 2
    BY <2>1, <2>4
  <2>11. Owed(new, Left(p, r) + n)
    BY <2>5, <2>6, <2>9, <2>10 DEF Owed
  <2> QED  BY <2>2, <2>11 DEF new
<1> QED  BY <1>1, <1>2

LEMMA OwedByRest ==
  ASSUME TypeOK, calls # <<>>, NEW n, Owed(calls, n)
  PROVE  \E m \in Nat : n = Left(calls[1].procedure, Arg) + m /\ Owed(Rest, m)
<1>1. /\ Len(calls) = Len(Rest) + 1 /\ Rest \in Seq(Frames)
      /\ \A i \in DOMAIN Rest : Rest[i] = calls[i + 1]
  BY TopOfStack
<1>2. Len(Rest) \in Nat /\ DOMAIN Rest = 1..Len(Rest)
  BY <1>1
<1>3. PICK g \in [1..(Len(calls) + 1) -> Nat] :
        /\ g[1] = n /\ g[Len(calls) + 1] = 0
        /\ \A i \in 1..Len(calls) : g[i] = Left(calls[i].procedure, calls[i].r) + g[i + 1]
  BY DEF Owed
<1> DEFINE f == [i \in 1..(Len(Rest) + 1) |-> g[i + 1]]
<1>4. \A i \in 1..(Len(Rest) + 1) : i + 1 \in 1..(Len(calls) + 1) /\ f[i] = g[i + 1]
  BY <1>1, <1>2
<1>5. f \in [1..(Len(Rest) + 1) -> Nat]
  BY <1>4
<1> HIDE DEF f
<1>6. f[Len(Rest) + 1] = 0
  BY <1>1, <1>2, <1>3, <1>4
<1>7. \A i \in 1..Len(Rest) : f[i] = Left(Rest[i].procedure, Rest[i].r) + f[i + 1]
  <2> TAKE i \in 1..Len(Rest)
  <2>1. /\ i \in 1..(Len(Rest) + 1) /\ i + 1 \in 1..(Len(Rest) + 1) /\ i + 1 \in 1..Len(calls)
    BY <1>1, <1>2
  <2>2. f[i] = g[i + 1] /\ f[i + 1] = g[(i + 1) + 1] /\ Rest[i] = calls[i + 1]
    BY <1>1, <1>2, <1>4, <2>1
  <2> QED  BY <1>3, <2>1, <2>2
<1>8. 1 \in 1..(Len(Rest) + 1) /\ 1 \in 1..Len(calls)
  BY <1>1, <1>2
<1>9. f[1] \in Nat /\ Owed(Rest, f[1])
  BY <1>5, <1>6, <1>7, <1>8 DEF Owed
<1>10. n = Left(calls[1].procedure, Arg) + f[1]
  BY <1>3, <1>4, <1>8 DEF Arg
<1> QED  BY <1>9, <1>10

-----------------------------------------------------------------------------
(* The number that is announced, and what has been sent of it.             *)

\* F[i] is the number of the first i rectangles of the update.
IsCount(F) ==
  /\ F \in [0..Len(update) -> Nat] /\ F[0] = 0
  /\ \A i \in 1..Len(update) : F[i] = F[i - 1] + Count(update[i])

CountInv ==
  /\ announced = 0 => calls = <<>> /\ visited = 0 /\ sent = <<>>
  /\ announced \notin {0, Unknown} =>
       /\ \A i \in DOMAIN update : ~Uncounted(update[i])
       /\ AllPlain(calls)
       /\ \E F : IsCount(F) /\ announced = F[Len(update)] /\ Owed(calls, F[visited] - Len(sent))

LEMMA CountIsNat ==
  ASSUME NEW r \in Rects
  PROVE  Count(r) \in Nat
<1>1. r.w \in Nat \ {0} /\ r.h \in Nat \ {0} /\ r.w - 1 \in Nat /\ r.h - 1 \in Nat
  BY DEF Rects
<1>2. /\ (r.w - 1) \div CorreMax \in Nat /\ (r.h - 1) \div CorreMax \in Nat
      /\ (r.w - 1) \div MaxRectWidth \in Nat
  BY <1>1, Sizes, Division
<1>3. (r.h - 1) \div MaxLines(r.w) \in Nat
  BY <1>1, MaxLinesPositive, Division
<1>4. (r.h - 1) \div SubrectMaxHeight(r.w) \in Nat
  BY <1>1, HeightPositive, Division
<1>5. ((r.w - 1) \div CorreMax + 1) * ((r.h - 1) \div CorreMax + 1) \in Nat
  BY <1>2
<1>6. ((r.w - 1) \div MaxRectWidth + 1) * ((r.h - 1) \div SubrectMaxHeight(r.w) + 1) \in Nat
  BY <1>2, <1>4
<1> QED  BY <1>3, <1>5, <1>6 DEF Count

\* A rectangle is counted as what the call for it sends.
LEMMA CountIsLeft ==
  ASSUME NEW r \in Rects, encoding \in Encodings
  PROVE  Count(r) = Left(encoding, r)
<1>1. r.w \in Nat \ {0} /\ r.h \in Nat \ {0}
  BY DEF Rects
<1>2. \A n \in Nat \ {0} : \A max : PartsOf(n, max) = (n - 1) \div max + 1
  BY DEF PartsOf
<1>3. CASE encoding = "Raw"
  BY <1>3 DEF Count, Left
<1>4. CASE encoding = "CoRRE"
  BY <1>1, <1>2, <1>4 DEF Count, Left
<1>5. CASE encoding = "Lines"
  BY <1>1, <1>2, <1>5 DEF Count, Left
<1>6. CASE encoding = "Tight"
  BY <1>1, <1>2, <1>6 DEF Count, Left
<1> QED  BY <1>3, <1>4, <1>5, <1>6 DEF Encodings

IsCountTo(F, k) ==
  F = [i \in 0..k |-> IF i = 0 THEN 0 ELSE F[i - 1] + Count(update[i])]

LEMMA CountExists ==
  ASSUME NEW m \in Nat
  PROVE  \E F : IsCountTo(F, m)
<1> DEFINE Missing == {k \in Nat : ~ \E F : IsCountTo(F, k)}
<1> SUFFICES ASSUME m \in Missing PROVE FALSE
  OBVIOUS
<1>1. PICK k \in Missing : \A i \in Missing : k <= i
  BY LeastElement
<1>2. k # 0
  <2>1. IsCountTo([i \in 0..0 |-> 0], 0)
    BY DEF IsCountTo
  <2> QED  BY <1>1, <2>1
<1>3. PICK g : IsCountTo(g, k - 1)
  <2>1. k - 1 \in Nat /\ ~(k <= k - 1)
    BY <1>1, <1>2
  <2> QED  BY <1>1, <2>1
<1> DEFINE f == [i \in 0..k |-> IF i = k THEN g[k - 1] + Count(update[k]) ELSE g[i]]
<1>4. IsCountTo(f, k)
  <2>1. k \in Nat /\ k - 1 \in 0..k /\ k - 1 # k
    BY <1>1, <1>2
  <2>2. ASSUME NEW i \in 0..k
        PROVE  f[i] = IF i = 0 THEN 0 ELSE f[i - 1] + Count(update[i])
    <3>1. CASE i = k
      BY <1>2, <2>1, <3>1
    <3>2. CASE i # k
      <4>1. i \in 0..(k - 1) /\ (i # 0 => i - 1 \in 0..k /\ i - 1 # k)
        BY <2>1, <3>2
      <4>2. g[i] = IF i = 0 THEN 0 ELSE g[i - 1] + Count(update[i])
        BY <1>3, <4>1 DEF IsCountTo
      <4> QED  BY <3>2, <4>1, <4>2
    <3> QED  BY <3>1, <3>2
  <2>3. f = [i \in 0..k |-> f[i]]
    OBVIOUS
  <2> HIDE DEF f
  <2> QED  BY <2>2, <2>3 DEF IsCountTo
<1> QED  BY <1>1, <1>4

LEMMA CountAllFound ==
  ASSUME UpdateOK
  PROVE  CountAll \in Nat /\ \E F : IsCount(F) /\ CountAll = F[Len(update)]
<1> DEFINE m == Len(update)
           F == CHOOSE f : IsCountTo(f, m)
<1>1. m \in Nat /\ DOMAIN update = 1..m /\ \A i \in 1..m : update[i] \in Rects
  BY DEF UpdateOK
<1>2. CountAll = F[m]
  BY DEF CountAll, IsCountTo
<1> HIDE DEF m
<1>3. IsCountTo(F, m)
  BY <1>1, CountExists
<1> HIDE DEF F
<1>4. F[0] = 0 /\ \A i \in 1..m : F[i] = F[i - 1] + Count(update[i])
  BY <1>1, <1>3 DEF IsCountTo
<1> DEFINE Wrong == {i \in 0..m : F[i] \notin Nat}
<1>5. Wrong = {}
  <2> SUFFICES ASSUME Wrong # {} PROVE FALSE
    OBVIOUS
  <2>1. Wrong \subseteq Nat
    BY <1>1
  <2>2. PICK k \in Wrong : \A i \in Wrong : k <= i
    <3> HIDE DEF Wrong
    <3> QED  BY <2>1, LeastElement
  <2>3. k \in 1..m /\ F[k] \notin Nat
    BY <1>1, <1>4, <2>2
  <2>4. k - 1 \in 0..m /\ ~(k <= k - 1)
    BY <1>1, <2>3
  <2>5. F[k - 1] \in Nat
    BY <2>2, <2>4
  <2>6. Count(update[k]) \in Nat
    BY <1>1, <2>3, CountIsNat
  <2> QED  BY <1>4, <2>3, <2>5, <2>6
<1>6. F \in [0..m -> Nat]
  BY <1>3, <1>5 DEF IsCountTo
<1>7. IsCount(F)
  BY <1>4, <1>6 DEF IsCount, m
<1>8. F[m] \in Nat
  BY <1>1, <1>6
<1> QED  BY <1>2, <1>7, <1>8 DEF m

\* The stack c has d more to send than the calls below the one that is made.
Owing(c, d) ==
  /\ AllPlain(Rest) => AllPlain(c)
  /\ \A m \in Nat : Owed(Rest, m) => Owed(c, d + m)

LEMMA OwingNothing == Owing(Rest, 0)
BY DEF Owing

LEMMA OwingMore ==
  ASSUME TypeOK, calls # <<>>, NEW p \in Procedures, NEW r \in Parts, SomeLeft(r) => Plain(p, r),
         NEW c \in Seq(Frames), NEW d \in Nat, Owing(c, d)
  PROVE  Owing(Call(p, r, c), Owes(p, r) + d)
<1>1. AllPlain(c) => AllPlain(Call(p, r, c))
  <2> SUFFICES ASSUME AllPlain(c), NEW i \in DOMAIN Call(p, r, c)
               PROVE  Plain(Call(p, r, c)[i].procedure, Call(p, r, c)[i].r)
    BY DEF AllPlain
  <2> QED  BY CallFrames DEF AllPlain, Frame
<1>2. Owes(p, r) \in Nat
  BY PartIsRect, LeftIsNat DEF Owes
<1>3. ASSUME NEW m \in Nat, Owed(Rest, m)
      PROVE  Owed(Call(p, r, c), (Owes(p, r) + d) + m)
  <2>1. d + m \in Nat /\ Owed(c, d + m)
    BY <1>3 DEF Owing
  <2>2. Owed(Call(p, r, c), Owes(p, r) + (d + m))
    BY <2>1, OwedByCall
  <2>3. Owes(p, r) + (d + m) = (Owes(p, r) + d) + m
    BY <1>2
  <2> QED  BY <2>2, <2>3
<1> QED  BY <1>1, <1>3 DEF Owing

\* What holds of every call while the number is known.
LEMMA KnownNumber ==
  ASSUME Inv, CountInv, calls # <<>>, announced # Unknown
  PROVE  /\ announced # 0 /\ AllPlain(calls) /\ AllPlain(Rest)
         /\ Plain(calls[1].procedure, Arg)
         /\ \A i \in DOMAIN update : ~Uncounted(update[i])
<1>1. announced # 0
  BY DEF CountInv
<1>2. AllPlain(calls) /\ \A i \in DOMAIN update : ~Uncounted(update[i])
  BY <1>1 DEF CountInv
<1>3. AllPlain(Rest) /\ Plain(calls[1].procedure, Arg)
  BY <1>2, TopOfStack DEF Inv, AllPlain, Arg
<1> QED  BY <1>1, <1>2, <1>3

\* A call that only calls others hands on what it owes.
LEMMA CutCounted ==
  ASSUME Inv, CountInv, calls # <<>>, NEW c, calls' = c, CallsOnly,
         announced # Unknown => Owing(c, Left(calls[1].procedure, Arg))
  PROVE  CountInv'
<1>1. UNCHANGED <<update, picture, encoding, enableLastRectEncoding, announced, visited, sent>>
  BY DEF CallsOnly, given
<1>2. announced # 0
  BY DEF CountInv
<1>3. CASE announced = Unknown
  BY <1>1, <1>3 DEF CountInv, Unknown
<1>4. CASE announced # Unknown
  <2>1. AllPlain(c) /\ \A i \in DOMAIN update : ~Uncounted(update[i])
    BY <1>4, KnownNumber DEF Owing
  <2>2. PICK F : /\ IsCount(F) /\ announced = F[Len(update)]
                 /\ Owed(calls, F[visited] - Len(sent))
    BY <1>2, <1>4 DEF CountInv
  <2>3. PICK m \in Nat : /\ F[visited] - Len(sent) = Left(calls[1].procedure, Arg) + m
                         /\ Owed(Rest, m)
    BY <2>2, OwedByRest DEF Inv
  <2>4. Owed(c, F[visited] - Len(sent))
    BY <1>4, <2>3 DEF Owing
  <2>5. IsCount(F)'
    BY <1>1, <2>2 DEF IsCount, Count, TooLarge, SubrectMaxHeight, MaxLines, SubrectMaxWidth
  <2>6. (\A i \in DOMAIN update : ~Uncounted(update[i]))'
    BY <1>1, <2>1 DEF Uncounted
  <2>7. AllPlain(calls)'
    BY <1>1, <2>1 DEF AllPlain, Plain
  <2>8. Owed(calls, F[visited] - Len(sent))'
    BY <1>1, <2>4 DEF Owed, Left
  <2>9. (announced = F[Len(update)])'
    BY <1>1, <2>2
  <2> QED  BY <1>1, <1>2, <2>5, <2>6, <2>7, <2>8, <2>9 DEF CountInv
<1> QED  BY <1>3, <1>4

\* One that sends owes one more than what it calls others for.
LEMMA SendCounted ==
  ASSUME Inv, CountInv, calls # <<>>, NEW c, calls' = c, NEW a, Send(a), NEW d \in Nat,
         announced # Unknown => Owing(c, d) /\ Left(calls[1].procedure, Arg) = d + 1
  PROVE  CountInv'
<1>1. /\ UNCHANGED <<update, picture, encoding, enableLastRectEncoding, announced, visited>>
      /\ sent' = Append(sent, a)
  BY DEF Send, given
<1>2. announced # 0
  BY DEF CountInv
<1>3. CASE announced = Unknown
  BY <1>1, <1>3 DEF CountInv, Unknown
<1>4. CASE announced # Unknown
  <2>1. AllPlain(c) /\ \A i \in DOMAIN update : ~Uncounted(update[i])
    BY <1>4, KnownNumber DEF Owing
  <2>2. PICK F : /\ IsCount(F) /\ announced = F[Len(update)]
                 /\ Owed(calls, F[visited] - Len(sent))
    BY <1>2, <1>4 DEF CountInv
  <2>3. PICK m \in Nat : F[visited] - Len(sent) = (d + 1) + m /\ Owed(Rest, m)
    BY <1>4, <2>2, OwedByRest DEF Inv
  <2>4. Owed(c, d + m)
    BY <1>4, <2>3 DEF Owing
  <2>5. Len(sent') = Len(sent) + 1 /\ Len(sent) \in Nat
    BY <1>1 DEF Inv, TypeOK
  <2>6. F[visited] \in Nat
    BY <2>2 DEF IsCount, Inv, TypeOK
  <2>7. F[visited] - Len(sent') = d + m
    BY <2>3, <2>5, <2>6
  <2>8. IsCount(F)'
    BY <1>1, <2>2 DEF IsCount, Count, TooLarge, SubrectMaxHeight, MaxLines, SubrectMaxWidth
  <2>9. (\A i \in DOMAIN update : ~Uncounted(update[i]))'
    BY <1>1, <2>1 DEF Uncounted
  <2>10. AllPlain(calls)'
    BY <1>1, <2>1 DEF AllPlain, Plain
  <2>11. Owed(calls, F[visited] - Len(sent))'
    BY <1>1, <2>4, <2>7, SMTT(30) DEF Owed, Left
  <2>12. (announced = F[Len(update)])'
    BY <1>1, <2>2
  <2> QED  BY <1>1, <1>2, <2>8, <2>9, <2>10, <2>11, <2>12 DEF CountInv
<1> QED  BY <1>3, <1>4


\* One call more, for a part of the rectangle.
LEMMA OwingOne ==
  ASSUME TypeOK, calls # <<>>, NEW p \in Procedures \ {"TileRows", "Solid", "Tight"},
         NEW r \in Parts
  PROVE  Owing(Call(p, r, Rest), Owes(p, r)) /\ Owes(p, r) \in Nat
<1>1. Rest \in Seq(Frames)
  BY TopOfStack
<1>2. Plain(p, r)
  BY DEF Plain
<1>3. Owes(p, r) \in Nat
  BY PartIsRect, LeftIsNat DEF Owes
<1>4. Owing(Call(p, r, Rest), Owes(p, r) + 0)
  BY <1>1, <1>2, OwingNothing, OwingMore
<1> QED  BY <1>3, <1>4

LEMMA OwingTwo ==
  ASSUME TypeOK, calls # <<>>,
         NEW p \in Procedures \ {"TileRows", "Solid", "Tight"}, NEW a \in Parts,
         NEW t \in Procedures \ {"TileRows", "Solid", "Tight"}, NEW b \in Parts,
         Call(t, b, Rest) \in Seq(Frames)
  PROVE  Owing(Call(p, a, Call(t, b, Rest)), Owes(p, a) + Owes(t, b))
<1>1. Plain(p, a)
  BY DEF Plain
<1> QED  BY <1>1, OwingOne, OwingMore

LEMMA CallIsStack ==
  ASSUME TypeOK, calls # <<>>, NEW p \in Procedures, NEW r \in Parts
  PROVE  Call(p, r, Rest) \in Seq(Frames)
<1>1. Rest \in Seq(Frames)
  BY TopOfStack
<1> QED  BY <1>1, CallPushes, CallDrops

LEMMA SendWholeCounts == Inv /\ CountInv /\ SendWhole => CountInv'
<1> SUFFICES ASSUME Inv, CountInv, SendWhole PROVE CountInv'
  OBVIOUS
<1>1. calls # <<>> /\ calls[1].procedure = "Raw" /\ calls' = Rest /\ Send(Arg)
  BY DEF SendWhole, Called
<1>2. Left(calls[1].procedure, Arg) = 0 + 1
  BY <1>1 DEF Left
<1> QED  BY <1>1, <1>2, OwingNothing, SendCounted

LEMMA CoRRECounts == Inv /\ CountInv /\ CoRRE => CountInv'
<1> SUFFICES ASSUME Inv, CountInv, CoRRE PROVE CountInv'
  OBVIOUS
<1>1. /\ calls # <<>> /\ calls[1].procedure = "CoRRE" /\ Arg \in Rects
      /\ Arg.w \in Nat \ {0} /\ Arg.h \in Nat \ {0}
  BY CalledFacts DEF CoRRE
<1>2. "CoRRE" \in Procedures \ {"TileRows", "Solid", "Tight"}
  BY DEF Procedures, Encodings
<1> DEFINE across == PartsOf(Arg.w, CorreMax)
           down == PartsOf(Arg.h, CorreMax)
<1>3. Left("CoRRE", Arg) = across * down /\ across \in Nat \ {0} /\ down \in Nat \ {0}
  BY <1>1, Sizes, PartsPositive DEF Left
<1>4. CASE Arg.h > CorreMax
  <2> DEFINE a == [Arg EXCEPT !.h = CorreMax]
             b == Below(Arg, CorreMax)
  <2>1. calls' = Call("CoRRE", a, Call("CoRRE", b, Rest)) /\ CallsOnly
    BY <1>4 DEF CoRRE
  <2>2. CorreMax \in 0..Arg.h
    BY <1>1, <1>4, Sizes
  <2>3. a \in Parts /\ b \in Parts
    <3> HIDE DEF Arg
    <3> QED  BY <1>1, <2>2, CutByLines
  <2>4. a.w = Arg.w /\ a.h = CorreMax /\ b.w = Arg.w /\ b.h = Arg.h - CorreMax
    <3>1. Arg = [x |-> Arg.x, y |-> Arg.y, w |-> Arg.w, h |-> Arg.h, solid |-> Arg.solid]
      BY <1>1 DEF Rects
    <3> HIDE DEF Arg
    <3> QED  BY <3>1 DEF Below
  <2> HIDE DEF a, b
  <2>5. Owes("CoRRE", a) = across
    <3>1. PartsOf(a.h, CorreMax) = 1 /\ SomeLeft(a)
      BY <1>1, <2>4, Sizes, PartsFit DEF SomeLeft
    <3> HIDE DEF across
    <3>2. Left("CoRRE", a) = across * 1
      BY <2>4, <3>1 DEF Left, across
    <3> QED  BY <1>3, <3>1, <3>2 DEF Owes
  <2> DEFINE rest == PartsOf(Arg.h - CorreMax, CorreMax)
  <2>6. rest \in Nat /\ down = 1 + rest
    <3>1. Part(Arg.h, CorreMax) = CorreMax
      BY <1>4 DEF Part
    <3> QED  BY <1>1, <3>1, Sizes, PartsCut
  <2>7. Owes("CoRRE", b) = across * rest
    <3>1. b.w > 0 /\ b.h > 0
      BY <1>1, <1>4, <2>4, Sizes
    <3> QED  BY <2>4, <3>1 DEF Owes, SomeLeft, Left
  <2> HIDE DEF across, down, rest
  <2>8. across * down = across + across * rest
    BY <1>3, <2>6
  <2>9. Owing(Call("CoRRE", a, Call("CoRRE", b, Rest)), Left(calls[1].procedure, Arg))
    BY <1>1, <1>2, <1>3, <2>3, <2>5, <2>7, <2>8, CallIsStack, OwingTwo DEF Inv
  <2> QED  BY <1>1, <2>1, <2>9, CutCounted
<1>5. CASE ~(Arg.h > CorreMax) /\ Arg.w > CorreMax
  <2> DEFINE a == [Arg EXCEPT !.w = CorreMax]
             b == RightOf(Arg, CorreMax)
  <2>1. calls' = Call("CoRRE", a, Call("CoRRE", b, Rest)) /\ CallsOnly
    BY <1>5 DEF CoRRE
  <2>2. CorreMax \in 0..Arg.w
    BY <1>1, <1>5, Sizes
  <2>3. a \in Parts /\ b \in Parts
    <3> HIDE DEF Arg
    <3> QED  BY <1>1, <2>2, CutByColumns
  <2>4. a.w = CorreMax /\ a.h = Arg.h /\ b.w = Arg.w - CorreMax /\ b.h = Arg.h
    <3>1. Arg = [x |-> Arg.x, y |-> Arg.y, w |-> Arg.w, h |-> Arg.h, solid |-> Arg.solid]
      BY <1>1 DEF Rects
    <3> HIDE DEF Arg
    <3> QED  BY <3>1 DEF RightOf
  <2> HIDE DEF a, b
  <2>5. Owes("CoRRE", a) = down
    <3>1. PartsOf(a.w, CorreMax) = 1 /\ SomeLeft(a)
      BY <1>1, <2>4, Sizes, PartsFit DEF SomeLeft
    <3> HIDE DEF down
    <3>2. Left("CoRRE", a) = 1 * down
      BY <2>4, <3>1 DEF Left, down
    <3> QED  BY <1>3, <3>1, <3>2 DEF Owes
  <2> DEFINE rest == PartsOf(Arg.w - CorreMax, CorreMax)
  <2>6. rest \in Nat /\ across = 1 + rest
    <3>1. Part(Arg.w, CorreMax) = CorreMax
      BY <1>5 DEF Part
    <3> QED  BY <1>1, <3>1, Sizes, PartsCut
  <2>7. Owes("CoRRE", b) = rest * down
    <3>1. b.w > 0 /\ b.h > 0
      BY <1>1, <1>5, <2>4, Sizes
    <3> QED  BY <2>4, <3>1 DEF Owes, SomeLeft, Left
  <2> HIDE DEF across, down, rest
  <2>8. across * down = down + rest * down
    BY <1>3, <2>6
  <2>9. Owing(Call("CoRRE", a, Call("CoRRE", b, Rest)), Left(calls[1].procedure, Arg))
    BY <1>1, <1>2, <1>3, <2>3, <2>5, <2>7, <2>8, CallIsStack, OwingTwo DEF Inv
  <2> QED  BY <1>1, <2>1, <2>9, CutCounted
<1>6. CASE ~(Arg.h > CorreMax) /\ ~(Arg.w > CorreMax)
  <2>1. across = 1 /\ down = 1
    BY <1>1, <1>6, Sizes, PartsFit
  <2>2. Left(calls[1].procedure, Arg) = 0 + 1
    BY <1>1, <1>3, <2>1
  <2>3. Send(Arg) /\ calls' = Rest
    BY <1>6 DEF CoRRE
  <2> QED  BY <1>1, <2>2, <2>3, OwingNothing, SendCounted
<1> QED  BY <1>4, <1>5, <1>6

LEMMA LinesCounts == Inv /\ CountInv /\ Lines => CountInv'
<1> SUFFICES ASSUME Inv, CountInv, Lines PROVE CountInv'
  OBVIOUS
<1> DEFINE n == Part(Arg.h, MaxLines(Arg.w))
           b == Below(Arg, n)
<1>1. /\ calls # <<>> /\ calls[1].procedure = "Lines" /\ Arg \in Rects
      /\ Arg.w \in Nat \ {0} /\ Arg.h \in Nat \ {0}
  BY CalledFacts DEF Lines
<1>2. "Lines" \in Procedures \ {"TileRows", "Solid", "Tight"}
  BY DEF Procedures, Encodings
<1>3. Send([Arg EXCEPT !.h = n]) /\ calls' = Call("Lines", b, Rest)
  BY DEF Lines
<1>4. MaxLines(Arg.w) \in Nat \ {0}
  BY <1>1, MaxLinesPositive
<1>5. /\ PartsOf(Arg.h - n, MaxLines(Arg.w)) \in Nat
      /\ PartsOf(Arg.h, MaxLines(Arg.w)) = 1 + PartsOf(Arg.h - n, MaxLines(Arg.w))
  BY <1>1, <1>4, PartsCut
<1>6. n \in 0..Arg.h
  <2>1. n \in 1..Arg.h
    BY <1>1, <1>4, PartInRange
  <2> HIDE DEF n
  <2> QED  BY <1>1, <2>1
<1> HIDE DEF n
<1>7. b \in Parts
  <2> HIDE DEF Arg
  <2> QED  BY <1>1, <1>6, CutByLines
<1>8. b.w = Arg.w /\ b.h = Arg.h - n
  <2>1. Arg = [x |-> Arg.x, y |-> Arg.y, w |-> Arg.w, h |-> Arg.h, solid |-> Arg.solid]
    BY <1>1 DEF Rects
  <2> HIDE DEF Arg
  <2> QED  BY <2>1 DEF Below
<1> HIDE DEF b
<1>9. Owes("Lines", b) = PartsOf(Arg.h - n, MaxLines(Arg.w))
  BY <1>1, <1>8 DEF Owes, SomeLeft, Left, PartsOf
<1>10. Left(calls[1].procedure, Arg) = Owes("Lines", b) + 1
  BY <1>1, <1>5, <1>9 DEF Left
<1> QED  BY <1>1, <1>2, <1>3, <1>7, <1>10, OwingOne, SendCounted DEF Inv

LEMMA ColumnsCounts == Inv /\ CountInv /\ Columns => CountInv'
<1> SUFFICES ASSUME Inv, CountInv, Columns PROVE CountInv'
  OBVIOUS
<1> DEFINE n == Part(Arg.w, MaxRectWidth)
           b == RightOf(Arg, n)
<1>1. /\ calls # <<>> /\ calls[1].procedure = "Columns" /\ Arg \in Rects
      /\ Arg.w \in Nat \ {0} /\ Arg.h \in Nat \ {0}
  BY CalledFacts DEF Columns
<1>2. "Columns" \in Procedures \ {"TileRows", "Solid", "Tight"}
  BY DEF Procedures
<1>3. Send([Arg EXCEPT !.w = n]) /\ calls' = Call("Columns", b, Rest)
  BY DEF Columns
<1>4. MaxRectWidth \in Nat \ {0}
  BY Sizes
<1>5. /\ PartsOf(Arg.w - n, MaxRectWidth) \in Nat
      /\ PartsOf(Arg.w, MaxRectWidth) = 1 + PartsOf(Arg.w - n, MaxRectWidth)
  BY <1>1, <1>4, PartsCut
<1>6. n \in 0..Arg.w
  <2>1. n \in 1..Arg.w
    BY <1>1, <1>4, PartInRange
  <2> HIDE DEF n
  <2> QED  BY <1>1, <2>1
<1> HIDE DEF n
<1>7. b \in Parts
  <2> HIDE DEF Arg
  <2> QED  BY <1>1, <1>6, CutByColumns
<1>8. b.w = Arg.w - n /\ b.h = Arg.h
  <2>1. Arg = [x |-> Arg.x, y |-> Arg.y, w |-> Arg.w, h |-> Arg.h, solid |-> Arg.solid]
    BY <1>1 DEF Rects
  <2> HIDE DEF Arg
  <2> QED  BY <2>1 DEF RightOf
<1> HIDE DEF b
<1>9. Owes("Columns", b) = PartsOf(Arg.w - n, MaxRectWidth)
  BY <1>1, <1>8 DEF Owes, SomeLeft, Left, PartsOf
<1>10. Left(calls[1].procedure, Arg) = Owes("Columns", b) + 1
  BY <1>1, <1>5, <1>9 DEF Left
<1> QED  BY <1>1, <1>2, <1>3, <1>7, <1>10, OwingOne, SendCounted DEF Inv

LEMMA RowsCounts == Inv /\ CountInv /\ Rows => CountInv'
<1> SUFFICES ASSUME Inv, CountInv, Rows PROVE CountInv'
  OBVIOUS
<1> DEFINE height == SubrectMaxHeight(Arg.w)
           n == Part(Arg.h, height)
           a == [Arg EXCEPT !.h = n]
           b == Below(Arg, n)
           across == PartsOf(Arg.w, MaxRectWidth)
           rest == PartsOf(Arg.h - n, height)
<1>1. /\ calls # <<>> /\ calls[1].procedure = "Rows" /\ Arg \in Rects
      /\ Arg.w \in Nat \ {0} /\ Arg.h \in Nat \ {0}
  BY CalledFacts DEF Rows
<1>2. {"Columns", "Rows"} \subseteq Procedures \ {"TileRows", "Solid", "Tight"}
  BY DEF Procedures
<1>3. calls' = Call("Columns", a, Call("Rows", b, Rest)) /\ CallsOnly
  BY DEF Rows
<1>4. height \in Nat \ {0} /\ across \in Nat \ {0}
  BY <1>1, Sizes, HeightPositive, PartsPositive
<1>5. Left("Rows", Arg) = across * PartsOf(Arg.h, height)
  BY DEF Left
<1>6. rest \in Nat /\ PartsOf(Arg.h, height) = 1 + rest
  <2> HIDE DEF height
  <2> QED  BY <1>1, <1>4, PartsCut
<1>7. n \in 1..Arg.h
  <2> HIDE DEF height
  <2> QED  BY <1>1, <1>4, PartInRange
<1> HIDE DEF n
<1>8. a \in Parts /\ b \in Parts
  <2>1. n \in 0..Arg.h
    BY <1>1, <1>7
  <2> HIDE DEF Arg
  <2> QED  BY <1>1, <2>1, CutByLines
<1>9. a.w = Arg.w /\ a.h = n /\ b.w = Arg.w /\ b.h = Arg.h - n
  <2>1. Arg = [x |-> Arg.x, y |-> Arg.y, w |-> Arg.w, h |-> Arg.h, solid |-> Arg.solid]
    BY <1>1 DEF Rects
  <2> HIDE DEF Arg
  <2> QED  BY <2>1 DEF Below
<1> HIDE DEF a, b
<1>10. Owes("Columns", a) = across
  BY <1>1, <1>7, <1>9 DEF Owes, SomeLeft, Left
<1>11. Owes("Rows", b) = across * rest
  <2>1. CASE b.h > 0
    BY <1>1, <1>9, <2>1 DEF Owes, SomeLeft, Left
  <2>2. CASE ~(b.h > 0)
    <3>1. rest = 0 /\ Owes("Rows", b) = 0
      BY <1>9, <2>2 DEF PartsOf, Owes, SomeLeft
    <3> HIDE DEF rest, across
    <3> QED  BY <1>4, <3>1
  <2> QED  BY <2>1, <2>2
<1> HIDE DEF across, rest, height
<1>12. across * (1 + rest) = across + across * rest
  BY <1>4, <1>6
<1>13. Owing(Call("Columns", a, Call("Rows", b, Rest)), Left(calls[1].procedure, Arg))
  BY <1>1, <1>2, <1>5, <1>6, <1>8, <1>10, <1>11, <1>12, CallIsStack, OwingTwo DEF Inv
<1> QED  BY <1>1, <1>3, <1>13, CutCounted

LEMMA SimpleCounts == Inv /\ CountInv /\ Simple => CountInv'
<1> SUFFICES ASSUME Inv, CountInv, Simple PROVE CountInv'
  OBVIOUS
<1>1. /\ calls # <<>> /\ calls[1].procedure = "Simple" /\ Arg \in Rects
  BY CalledFacts DEF Simple
<1>2. "Rows" \in Procedures \ {"TileRows", "Solid", "Tight"} /\ Arg \in Parts /\ SomeLeft(Arg)
  BY <1>1, RectIsPart DEF Procedures
<1>3. CASE TooLarge(Arg.w, Arg.h)
  <2>1. calls' = Call("Rows", Arg, Rest) /\ CallsOnly
    BY <1>3 DEF Simple
  <2>2. Owes("Rows", Arg) = Left(calls[1].procedure, Arg)
    BY <1>1, <1>2, <1>3 DEF Owes, Left
  <2> QED  BY <1>1, <1>2, <2>1, <2>2, OwingOne, CutCounted DEF Inv
<1>4. CASE ~TooLarge(Arg.w, Arg.h)
  <2>1. Send(Arg) /\ calls' = Rest
    BY <1>4 DEF Simple
  <2>2. Left(calls[1].procedure, Arg) = 0 + 1
    BY <1>1, <1>4 DEF Left
  <2> QED  BY <1>1, <2>1, <2>2, OwingNothing, SendCounted
<1> QED  BY <1>3, <1>4

LEMMA TightCounts == Inv /\ CountInv /\ Tight => CountInv'
<1> SUFFICES ASSUME Inv, CountInv, Tight PROVE CountInv'
  OBVIOUS
<1> DEFINE p == IF ~enableLastRectEncoding \/ Arg.w * Arg.h < MinSplitSize
                THEN "Simple" ELSE "TileRows"
<1>1. /\ calls # <<>> /\ calls[1].procedure = "Tight" /\ Arg \in Rects
      /\ Arg.w \in Nat \ {0} /\ Arg.h \in Nat \ {0}
  BY CalledFacts DEF Tight
<1>2. calls' = Call(p, Arg, Rest) /\ CallsOnly
  BY DEF Tight
<1>3. ASSUME announced # Unknown PROVE Owing(Call(p, Arg, Rest), Left(calls[1].procedure, Arg))
  <2>1. Plain("Tight", Arg)
    BY <1>1, <1>3, KnownNumber
  <2>2. p = "Simple"
    <3>1. Arg.w * Arg.h \in Int
      BY <1>1
    <3>2. ~(Arg.w * Arg.h >= MinSplitSize) => Arg.w * Arg.h < MinSplitSize
      BY <3>1, Sizes
    <3> QED  BY <2>1, <3>2 DEF Plain
  <2>3. "Simple" \in Procedures \ {"TileRows", "Solid", "Tight"} /\ Arg \in Parts /\ SomeLeft(Arg)
    BY <1>1, RectIsPart DEF Procedures
  <2>4. Owes("Simple", Arg) = Left(calls[1].procedure, Arg)
    BY <1>1, <2>3 DEF Owes, Left
  <2> QED  BY <1>1, <2>2, <2>3, <2>4, OwingOne DEF Inv
<1> HIDE DEF p
<1> QED  BY <1>1, <1>2, <1>3, CutCounted

\* Tight's search runs only if the number is not known.
LEMMA TileRowsCounts == Inv /\ CountInv /\ TileRows => CountInv'
<1> SUFFICES ASSUME Inv, CountInv, TileRows PROVE CountInv'
  OBVIOUS
<1>1. calls # <<>> /\ calls[1].procedure = "TileRows" /\ CallsOnly
  BY DEF TileRows, Called
<1>2. announced = Unknown
  BY <1>1, KnownNumber DEF Plain
<1> QED  BY <1>1, <1>2, CutCounted

LEMMA SendSolidCounts == Inv /\ CountInv /\ SendSolid => CountInv'
<1> SUFFICES ASSUME Inv, CountInv, SendSolid PROVE CountInv'
  OBVIOUS
<1>1. calls # <<>> /\ calls[1].procedure = "Solid" /\ Send(Arg)
  BY DEF SendSolid, Called
<1>2. announced = Unknown
  BY <1>1, KnownNumber DEF Plain
<1> QED  BY <1>1, <1>2, SendCounted

-----------------------------------------------------------------------------
(* The iterator and the header, and what follows for every update.         *)

LEMMA AnnounceStep == Inv /\ CountInv /\ Announce => Inv' /\ CountInv'
<1> SUFFICES ASSUME Inv, CountInv, Announce PROVE Inv' /\ CountInv'
  OBVIOUS
<1>1. /\ UNCHANGED <<update, picture, encoding, enableLastRectEncoding, visited, calls, sent>>
      /\ announced' = Announced
  BY DEF Announce, given
<1>2. calls = <<>> /\ visited = 0 /\ sent = <<>>
  BY DEF Announce, CountInv
<1>3. UpdateOK
  BY DEF Inv
<1>4. PICK F : IsCount(F) /\ CountAll = F[Len(update)]
  BY <1>3, CountAllFound
<1>5. announced' \in Nat
  BY <1>1, <1>3, CountAllFound DEF Announced, Unknown
<1>6. TypeOK'
  BY <1>1, <1>5 DEF Inv, TypeOK
<1>7. UpdateOK'
  BY <1>1, <1>3 DEF UpdateOK
<1>8. CallsInv' /\ SentInv' /\ CoverInv' /\ MarkerInv'
  BY <1>1, <1>2 DEF CallsInv, Tidy, SentInv, CoverInv, MarkerInv
<1>9. CountInv'
  <2>1. CASE announced' \in {0, Unknown}
    BY <1>1, <1>2, <2>1 DEF CountInv, Unknown
  <2>2. CASE announced' \notin {0, Unknown}
    <3>1. /\ \A i \in DOMAIN update : ~Uncounted(update[i])
          /\ announced' = F[Len(update)]
      BY <1>1, <1>4, <2>2 DEF Announced
    <3>2. F[visited] - Len(sent) = 0
      <4>1. F[visited] = 0 /\ Len(sent) = 0
        BY <1>2, <1>4 DEF IsCount
      <4> QED  BY <4>1
    <3>3. Owed(calls, F[visited] - Len(sent))'
      BY <1>1, <1>2, <3>2, OwedNothing
    <3>4. IsCount(F)'
      BY <1>1, <1>4 DEF IsCount, Count, TooLarge, SubrectMaxHeight, MaxLines, SubrectMaxWidth
    <3>5. (\A i \in DOMAIN update : ~Uncounted(update[i]))'
      BY <1>1, <3>1 DEF Uncounted
    <3>6. AllPlain(calls)'
      BY <1>1, <1>2 DEF AllPlain
    <3>7. (announced = F[Len(update)])'
      BY <1>1, <3>1
    <3> QED  BY <2>2, <3>3, <3>4, <3>5, <3>6, <3>7 DEF CountInv
  <2> QED  BY <2>1, <2>2
<1> QED  BY <1>6, <1>7, <1>8, <1>9 DEF Inv

LEMMA NextRectStep == Inv /\ CountInv /\ NextRect => Inv' /\ CountInv'
<1> SUFFICES ASSUME Inv, CountInv, NextRect PROVE Inv' /\ CountInv'
  OBVIOUS
<1> DEFINE r == update[visited + 1]
<1>1. /\ UNCHANGED <<update, picture, encoding, enableLastRectEncoding, announced, sent>>
      /\ visited' = visited + 1
      /\ calls' = Call(encoding, r, <<>>)
  BY DEF NextRect, given
<1>2. announced # 0 /\ calls = <<>> /\ visited < Len(update)
  BY DEF NextRect
<1>3. /\ visited \in Nat /\ visited + 1 \in DOMAIN update /\ visited + 1 \in 1..Len(update)
      /\ Len(update) \in Nat /\ \A j \in 1..visited : j \in DOMAIN update /\ j # visited + 1
  BY <1>2 DEF Inv, TypeOK, UpdateOK
<1>4. r \in Rects /\ ~r.solid /\ encoding \in Procedures \ {"TileRows", "Solid"}
  <2>1. r \in Rects /\ ~r.solid
    BY <1>3 DEF Inv, UpdateOK
  <2>2. encoding \in Encodings
    BY DEF Inv, UpdateOK
  <2> QED  BY <2>1, <2>2 DEF Procedures, Encodings
<1>5. r \in Parts /\ SomeLeft(r) /\ Within(r, r)
  BY <1>4, RectIsPart DEF Within, Rects
<1> DEFINE f == Frame(encoding, r)
<1>6. /\ calls' \in Seq(Frames) /\ DOMAIN calls' = {1} /\ calls'[1] = f
      /\ f.r = r /\ f.dy = r.y /\ f.procedure = encoding
  <2>1. <<>> \in Seq(Frames) /\ Len(<<>>) = 0
    OBVIOUS
  <2>2. /\ calls' \in Seq(Frames) /\ Len(calls') = 1 /\ calls'[1] = f
    <3> DEFINE c == Call(encoding, r, <<>>)
    <3>1. encoding \in Procedures
      BY <1>4
    <3> HIDE DEF r
    <3>2. c \in Seq(Frames) /\ Len(c) = Len(<<>>) + 1 /\ c[1] = f
      BY <1>5, <2>1, <3>1, CallPushes
    <3> QED  BY <1>1, <2>1, <3>2
  <2>3. f.r = r /\ f.dy = r.y /\ f.procedure = encoding
    BY DEF Frame
  <2>4. DOMAIN calls' = 1..Len(calls') /\ 1..1 = {1}
    BY <2>2
  <2> QED  BY <2>2, <2>3, <2>4
<1>7. r.y \in Int
  BY <1>4 DEF Rects
<1> HIDE DEF f
<1>8. \A k \in DOMAIN sent : sent[k] # Marker
  BY <1>2 DEF Inv, MarkerInv, AllSent
<1>9. TypeOK'
  <2>1. announced \in Nat /\ sent \in Seq(Rects \cup {Marker})
    BY DEF Inv, TypeOK
  <2>2. visited' \in 0..Len(update)
    BY <1>1, <1>3
  <2>3. \A i \in DOMAIN calls' : /\ calls'[i].dy >= calls'[i].r.y
                                 /\ calls'[i].r.solid <=> calls'[i].procedure = "Solid"
    BY <1>4, <1>6, <1>7
  <2> QED  BY <1>1, <1>6, <2>1, <2>2, <2>3 DEF TypeOK, Frames
<1>10. UpdateOK'
  BY <1>1 DEF Inv, UpdateOK
<1>11. CallsInv'
  <2>1. Tidy(calls')
    BY <1>6 DEF Tidy
  <2>2. FrameOK(f)
    BY <1>4, <1>6, <1>7 DEF FrameOK
  <2>3. \E j \in 1..(visited + 1) : Within(r, update[j])
    BY <1>3, <1>5
  <2>4. \A i \in DOMAIN calls' :
          FrameOK(calls'[i]) /\ \E j \in 1..(visited + 1) : Within(calls'[i].r, update[j])
    BY <1>6, <2>2, <2>3
  <2> QED  BY <1>1, <2>1, <2>4 DEF CallsInv, FrameOK, OneColor, HasColor, InVisited
<1>12. SentInv'
  <2> SUFFICES ASSUME NEW k \in DOMAIN sent
               PROVE  /\ \E j \in 1..(visited + 1) : Within(sent[k], update[j])
                      /\ Apart(sent[k], r)
                      /\ \A l \in 1..(k - 1) : Apart(sent[k], sent[l])
                      /\ sent[k].solid => OneColor(sent[k])
    BY <1>1, <1>6 DEF SentInv, InVisited, Clear, OneColor, HasColor
  <2>1. sent[k] \in Rects
    BY <1>8 DEF Inv, TypeOK
  <2>2. PICK j \in 1..visited : Within(sent[k], update[j])
    BY <1>8 DEF Inv, SentInv, InVisited
  <2>3. update[j] \in Rects /\ Apart(update[j], r)
    BY <1>3 DEF Inv, UpdateOK
  <2>4. Apart(sent[k], r)
    BY <1>4, <2>1, <2>2, <2>3, WithinApart
  <2>5. j \in 1..(visited + 1)
    BY <1>3
  <2> QED  BY <1>8, <2>2, <2>4, <2>5 DEF Inv, SentInv
<1>13. CoverInv'
  <2> SUFFICES ASSUME NEW j \in 1..(visited + 1), NEW px \in Int, NEW py \in Int,
                      Holds(update[j], px, py)
               PROVE  Held(calls', px, py) \/ HeldBySent(px, py)
    BY <1>1 DEF CoverInv, HeldBySent
  <2>1. CASE j = visited + 1
    BY <1>6, <2>1 DEF Held
  <2>2. CASE j # visited + 1
    <3>1. j \in 1..visited
      BY <1>3, <2>2
    <3>2. ~Held(calls, px, py)
      BY <1>2 DEF Held
    <3> QED  BY <3>1, <3>2 DEF Inv, CoverInv
  <2> QED  BY <2>1, <2>2
<1>14. MarkerInv'
  BY <1>1, <1>8 DEF MarkerInv
<1>15. CountInv'
  <2>1. CASE announced = Unknown
    BY <1>1, <2>1 DEF CountInv, Unknown
  <2>2. CASE announced # Unknown
    <3>1. \A i \in DOMAIN update : ~Uncounted(update[i])
      BY <1>2, <2>2 DEF CountInv
    <3>2. PICK F : /\ IsCount(F) /\ announced = F[Len(update)]
                   /\ Owed(<<>>, F[visited] - Len(sent))
      BY <1>2, <2>2 DEF CountInv
    <3>3. F[visited] - Len(sent) = 0
      BY <3>2, OwedNothing
    <3>4. F[visited + 1] = F[visited] + Count(r)
      BY <1>3, <3>2 DEF IsCount
    <3>5. Count(r) = Left(encoding, r) /\ Left(encoding, r) \in Nat
      BY <1>4, CountIsLeft, LeftIsNat DEF Inv, UpdateOK
    <3>6. F[visited] \in Nat /\ Len(sent) \in Nat
      BY <1>3, <3>2, SMTT(30) DEF IsCount, Inv, TypeOK
    <3>7. F[visited + 1] - Len(sent) = Owes(encoding, r) + 0
      BY <1>5, <3>3, <3>4, <3>5, <3>6 DEF Owes
    <3>8. Owed(calls', Owes(encoding, r) + 0)
      <4>1. encoding \in Procedures /\ <<>> \in Seq(Frames)
        BY <1>4
      <4> HIDE DEF r
      <4>2. Owed(Call(encoding, r, <<>>), Owes(encoding, r) + 0)
        BY <1>5, <4>1, OwedNothing, OwedByCall
      <4> QED  BY <1>1, <4>2
    <3>9. Owed(calls, F[visited] - Len(sent))'
      BY <1>1, <3>7, <3>8
    <3>10. Plain(encoding, r)
      BY <1>3, <1>4, <3>1 DEF Plain, Uncounted
    <3>11. AllPlain(calls)'
      BY <1>1, <1>6, <3>10 DEF AllPlain, Plain
    <3>12. IsCount(F)'
      BY <1>1, <3>2 DEF IsCount, Count, TooLarge, SubrectMaxHeight, MaxLines, SubrectMaxWidth
    <3>13. (\A i \in DOMAIN update : ~Uncounted(update[i]))'
      BY <1>1, <3>1 DEF Uncounted
    <3>14. (announced = F[Len(update)])'
      BY <1>1, <3>2
    <3> QED  BY <1>1, <1>2, <3>9, <3>11, <3>12, <3>13, <3>14 DEF CountInv
  <2> QED  BY <2>1, <2>2
<1> QED  BY <1>9, <1>10, <1>11, <1>12, <1>13, <1>14, <1>15 DEF Inv

LEMMA SendMarkerStep == Inv /\ CountInv /\ SendMarker => Inv' /\ CountInv'
<1> SUFFICES ASSUME Inv, CountInv, SendMarker PROVE Inv' /\ CountInv'
  OBVIOUS
<1>1. /\ UNCHANGED <<update, picture, encoding, announced, visited, calls>>
      /\ sent' = Append(sent, Marker)
  BY DEF SendMarker, Send, given
<1>2. AllSent /\ announced = Unknown /\ \A k \in DOMAIN sent : sent[k] # Marker
  BY DEF SendMarker, Ended, Range
<1>3. sent \in Seq(Rects \cup {Marker})
  BY DEF Inv, TypeOK
<1>4. /\ sent' \in Seq(Rects \cup {Marker}) /\ Len(sent') = Len(sent) + 1 /\ Len(sent) \in Nat
      /\ DOMAIN sent = 1..Len(sent) /\ DOMAIN sent' = 1..(Len(sent) + 1)
      /\ sent'[Len(sent) + 1] = Marker /\ \A k \in DOMAIN sent : sent'[k] = sent[k]
  BY <1>1, <1>3
<1>5. TypeOK' /\ UpdateOK'
  BY <1>1, <1>4 DEF Inv, TypeOK, UpdateOK
<1>6. CallsInv'
  BY <1>1 DEF Inv, CallsInv, FrameOK, OneColor, HasColor, InVisited
<1>7. SentInv'
  <2> SUFFICES ASSUME NEW k \in DOMAIN sent', sent'[k] # Marker
               PROVE  /\ InVisited(sent'[k])
                      /\ Clear(sent'[k], calls)
                      /\ \A l \in 1..(k - 1) : Apart(sent'[k], sent'[l])
                      /\ sent'[k].solid => OneColor(sent'[k])
    BY <1>1 DEF SentInv, InVisited, Clear, OneColor, HasColor
  <2>1. k \in DOMAIN sent /\ \A l \in 1..(k - 1) : l \in DOMAIN sent
    BY <1>4
  <2> QED  BY <1>2, <1>4, <2>1 DEF Inv, SentInv
<1>8. CoverInv'
  <2> SUFFICES ASSUME NEW j \in 1..visited, NEW px \in Int, NEW py \in Int,
                      Holds(update[j], px, py)
               PROVE  Held(calls, px, py) \/ \E k \in DOMAIN sent' : Holds(sent'[k], px, py)
    BY <1>1 DEF CoverInv, HeldBySent
  <2>1. Held(calls, px, py) \/ HeldBySent(px, py)
    BY DEF Inv, CoverInv
  <2>2. \A k \in DOMAIN sent : k \in DOMAIN sent'
    BY <1>4
  <2> QED  BY <1>4, <2>1, <2>2 DEF HeldBySent
<1>9. MarkerInv'
  BY <1>1, <1>2, <1>4 DEF MarkerInv, AllSent
<1>10. CountInv'
  BY <1>1, <1>2 DEF CountInv, Unknown
<1> QED  BY <1>5, <1>6, <1>7, <1>8, <1>9, <1>10 DEF Inv

LEMMA NothingChanges == Inv /\ CountInv /\ UNCHANGED vars => Inv' /\ CountInv'
<1> SUFFICES ASSUME Inv, CountInv, UNCHANGED vars PROVE Inv' /\ CountInv'
  OBVIOUS
<1>1. UNCHANGED <<update, picture, encoding, enableLastRectEncoding, announced, visited,
                  calls, sent>>
  BY DEF vars, given
<1>2. TypeOK' /\ UpdateOK'
  BY <1>1 DEF Inv, TypeOK, UpdateOK
<1>3. CallsInv'
  BY <1>1 DEF Inv, CallsInv, FrameOK, OneColor, HasColor, InVisited
<1>4. SentInv'
  BY <1>1 DEF Inv, SentInv, InVisited, OneColor, HasColor
<1>5. CoverInv'
  BY <1>1 DEF Inv, CoverInv, HeldBySent
<1>6. MarkerInv'
  BY <1>1 DEF Inv, MarkerInv, AllSent
<1>7. CountInv'
  <2>1. CASE announced \in {0, Unknown}
    BY <1>1, <2>1 DEF CountInv, Unknown
  <2>2. CASE announced \notin {0, Unknown}
    <3>1. /\ \A i \in DOMAIN update : ~Uncounted(update[i])
          /\ AllPlain(calls)
      BY <2>2 DEF CountInv
    <3>2. PICK F : /\ IsCount(F) /\ announced = F[Len(update)]
                   /\ Owed(calls, F[visited] - Len(sent))
      BY <2>2 DEF CountInv
    <3>3. IsCount(F)'
      BY <1>1, <3>2 DEF IsCount, Count, TooLarge, SubrectMaxHeight, MaxLines, SubrectMaxWidth
    <3>4. (\A i \in DOMAIN update : ~Uncounted(update[i]))'
      BY <1>1, <3>1 DEF Uncounted
    <3>5. AllPlain(calls)'
      BY <1>1, <3>1 DEF AllPlain, Plain
    <3>6. Owed(calls, F[visited] - Len(sent))' /\ (announced = F[Len(update)])'
      BY <1>1, <3>2, SMTT(30) DEF Owed, Left
    <3> QED  BY <1>1, <2>2, <3>3, <3>4, <3>5, <3>6 DEF CountInv
  <2> QED  BY <2>1, <2>2
<1> QED  BY <1>2, <1>3, <1>4, <1>5, <1>6, <1>7 DEF Inv

LEMMA InvInit == Init => Inv /\ CountInv
<1> SUFFICES ASSUME Init PROVE Inv /\ CountInv
  OBVIOUS
<1>1. PICK case \in Cases : update = case.update /\ encoding \in case.encodings
  BY DEF Init
<1>2. announced = 0 /\ visited = 0 /\ calls = <<>> /\ sent = <<>>
  BY DEF Init
<1>3. UpdateOK
  BY <1>1, CasesAssumption DEF UpdateOK
<1>4. TypeOK
  <2>1. Len(update) \in Nat
    BY <1>3 DEF UpdateOK
  <2> QED  BY <1>2, <2>1 DEF TypeOK
<1>5. CallsInv /\ SentInv /\ CoverInv /\ MarkerInv
  BY <1>2 DEF CallsInv, Tidy, SentInv, CoverInv, MarkerInv
<1> QED  BY <1>2, <1>3, <1>4, <1>5 DEF Inv, CountInv

LEMMA InvKept == Inv /\ CountInv /\ [Next]_vars => Inv' /\ CountInv'
<1> SUFFICES ASSUME Inv, CountInv, [Next]_vars PROVE Inv' /\ CountInv'
  OBVIOUS
<1>1. CASE Announce
  BY <1>1, AnnounceStep
<1>2. CASE NextRect
  BY <1>2, NextRectStep
<1>3. CASE SendWhole
  BY <1>3, SendWholeStep, SendWholeCounts
<1>4. CASE CoRRE
  BY <1>4, CoRREStep, CoRRECounts
<1>5. CASE Lines
  BY <1>5, LinesStep, LinesCounts
<1>6. CASE Simple
  BY <1>6, SimpleStep, SimpleCounts
<1>7. CASE Rows
  BY <1>7, RowsStep, RowsCounts
<1>8. CASE Columns
  BY <1>8, ColumnsStep, ColumnsCounts
<1>9. CASE Tight
  BY <1>9, TightStep, TightCounts
<1>10. CASE TileRows
  BY <1>10, TileRowsStep, TileRowsCounts
<1>11. CASE SendSolid
  BY <1>11, SendSolidStep, SendSolidCounts
<1>12. CASE SendMarker
  BY <1>12, SendMarkerStep
<1>13. CASE Terminating \/ UNCHANGED vars
  BY <1>13, NothingChanges DEF Terminating
<1> QED  BY <1>1, <1>2, <1>3, <1>4, <1>5, <1>6, <1>7, <1>8, <1>9, <1>10, <1>11, <1>12, <1>13
         DEF Next, Encode

\* The invariant holds whatever the encoders are given.
THEOREM Invariant == Spec => [](Inv /\ CountInv)
BY InvInit, InvKept, PTL DEF Spec

\* Rectangles with width and height, which CasesAssumption asks for, are never
\* cut into ones without, and Tight's loop never starts above the rectangle
\* that it is called for.
LEMMA TypeCorrect == Spec => []TypeOK
<1>1. Inv /\ CountInv => TypeOK
  BY DEF Inv
<1> QED  BY <1>1, Invariant, PTL

\* The rectangles that the encoders send tile an update of rectangles with
\* width and height: none is empty, none overlaps another, none reaches beyond
\* the update, and in the end no pixel is left out.
THEOREM TilesSafe == Spec => []Tiles
<1>1. Inv /\ CountInv => Tiles
  <2> SUFFICES ASSUME Inv PROVE Tiles
    OBVIOUS
  <2>1. \A i \in DOMAIN sent : sent[i] # Marker => sent[i] \in Rects
    BY DEF Inv, TypeOK
  <2>2. \A j \in 1..visited : j \in DOMAIN update
    BY DEF Inv, TypeOK, UpdateOK
  <2>3. ASSUME NEW i \in DOMAIN sent, sent[i] # Marker
        PROVE  /\ sent[i].w > 0 /\ sent[i].h > 0
               /\ \E j \in DOMAIN update : Within(sent[i], update[j])
               /\ \A j \in 1..(i - 1) : Apart(sent[i], sent[j])
    <3>1. sent[i].w > 0 /\ sent[i].h > 0
      BY <2>1, <2>3 DEF Rects
    <3>2. InVisited(sent[i]) /\ \A j \in 1..(i - 1) : Apart(sent[i], sent[j])
      BY <2>3 DEF Inv, SentInv
    <3> QED  BY <2>2, <3>1, <3>2 DEF InVisited
  <2>4. ASSUME Ended, NEW j \in DOMAIN update,
               NEW px \in update[j].x..(update[j].x + update[j].w - 1),
               NEW py \in update[j].y..(update[j].y + update[j].h - 1)
        PROVE  \E i \in DOMAIN sent : Holds(sent[i], px, py)
    <3>1. calls = <<>> /\ j \in 1..visited
      BY <2>4 DEF Ended, AllSent, Inv, UpdateOK
    <3>2. update[j] \in Rects
      BY <2>4 DEF Inv, UpdateOK
    <3>3. px \in Int /\ py \in Int /\ Holds(update[j], px, py)
      BY <3>2 DEF Rects, Holds
    <3>4. ~Held(calls, px, py)
      BY <3>1 DEF Held
    <3> QED  BY <3>1, <3>3, <3>4 DEF Inv, CoverInv, HeldBySent
  <2> QED  BY <2>3, <2>4 DEF Tiles
<1> QED  BY <1>1, Invariant, PTL

\* Of a rectangle that is sent as a solid one, all pixels have its colour.
THEOREM SolidSafe == Spec => []SolidIsSolid
<1>1. Inv /\ CountInv => SolidIsSolid
  BY DEF Inv, SentInv, SolidIsSolid, OneColor, Marker, Rect
<1> QED  BY <1>1, Invariant, PTL

\* The number in the header is the number of rectangles that follow it, or
\* else the marker follows them.
THEOREM CountIsRight == Spec => []AsAnnounced
<1>1. Inv /\ CountInv => AsAnnounced
  <2> SUFFICES ASSUME Inv, CountInv, Ended PROVE AsAnnounced
    BY DEF AsAnnounced
  <2>1. announced # 0 /\ calls = <<>> /\ visited = Len(update)
    BY DEF Ended, AllSent
  <2>2. CASE announced = Unknown
    <3>1. PICK k \in DOMAIN sent : sent[k] = Marker
      BY <2>2 DEF Ended, Range
    <3>2. \A i \in DOMAIN sent : sent[i] = Marker => i = Len(sent)
      BY DEF Inv, MarkerInv
    <3> QED  BY <2>2, <3>1, <3>2 DEF AsAnnounced
  <2>3. CASE announced # Unknown
    <3>1. PICK F : /\ IsCount(F) /\ announced = F[Len(update)]
                   /\ Owed(<<>>, F[Len(update)] - Len(sent))
      BY <2>1, <2>3 DEF CountInv
    <3>2. announced - Len(sent) = 0
      BY <3>1, OwedNothing
    <3>3. announced = Len(sent)
      BY <3>2 DEF Inv, TypeOK
    <3>4. \A i \in DOMAIN sent : sent[i] # Marker
      BY <2>3 DEF Inv, MarkerInv
    <3> QED  BY <2>3, <3>3, <3>4 DEF AsAnnounced, Range
  <2> QED  BY <2>2, <2>3
<1> QED  BY <1>1, Invariant, PTL
=============================================================================
