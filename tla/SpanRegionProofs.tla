-------------------------- MODULE SpanRegionProofs --------------------------
(***************************************************************************)
(* For every screen: the walks over lists of spans keep them in order and  *)
(* compute union, intersection and difference of the pixels that the lists *)
(* stand for, and what is sent of a list are its pixels, once.             *)
(***************************************************************************)
EXTENDS SpanRegion, SequenceTheorems, WellFoundedInduction, TLAPS

-----------------------------------------------------------------------------
(* Numbers. *)

\* Every set of numbers that is not empty has a least one.
LEMMA LeastElement ==
  ASSUME NEW T, T \subseteq Nat, T # {}
  PROVE  \E n \in T : \A m \in T : n <= m
<1>1. PICK n \in T : \A m \in T : <<m, n>> \notin OpToRel(<, Nat)
  BY WFMin, NatLessThanWellFounded
<1>2. ASSUME NEW m \in T PROVE n <= m
  <2>1. <<m, n>> \notin {ss \in Nat \X Nat : ss[1] < ss[2]}
    BY <1>1 DEF OpToRel
  <2> QED  BY <2>1
<1> QED  BY <1>2

\* A set of numbers that is bounded above holds its maximum.
LEMMA MaxBelow ==
  ASSUME NEW b \in Int, NEW S, S \subseteq Int, \A n \in S : n <= b, S # {}
  PROVE  Max(S) \in S /\ \A n \in S : n <= Max(S)
<1> DEFINE Gaps == {b - n : n \in S}
<1>1. Gaps \subseteq Nat /\ Gaps # {}
  <2>1. ASSUME NEW n \in S PROVE b - n \in Nat
    <3>1. n \in Int /\ n <= b
      BY S \subseteq Int
    <3> QED  BY <3>1
  <2>2. PICK n : n \in S
    OBVIOUS
  <2> QED  BY <2>1, <2>2
<1>2. PICK g \in Gaps : \A m \in Gaps : g <= m
  BY <1>1, LeastElement
<1>3. PICK n \in S : g = b - n
  OBVIOUS
<1>4. \A m \in S : n >= m
  <2> TAKE m \in S
  <2>1. b - n <= b - m
    BY <1>2, <1>3
  <2>2. n \in Int /\ m \in Int
    BY S \subseteq Int
  <2> QED  BY <2>1, <2>2
<1>5. \E x \in S : \A y \in S : x >= y
  BY <1>4
<1>6. Max(S) \in S /\ \A y \in S : Max(S) >= y
  BY <1>5 DEF Max
<1> QED  BY <1>6

\* A set of numbers that is bounded below holds its minimum.
LEMMA MinAbove ==
  ASSUME NEW a \in Int, NEW S, S \subseteq Int, \A n \in S : n >= a, S # {}
  PROVE  Min(S) \in S /\ \A n \in S : n >= Min(S)
<1> DEFINE Gaps == {n - a : n \in S}
<1>1. Gaps \subseteq Nat /\ Gaps # {}
  <2>1. ASSUME NEW n \in S PROVE n - a \in Nat
    <3>1. n \in Int /\ n >= a
      BY S \subseteq Int
    <3> QED  BY <3>1
  <2>2. PICK n : n \in S
    OBVIOUS
  <2> QED  BY <2>1, <2>2
<1>2. PICK g \in Gaps : \A m \in Gaps : g <= m
  BY <1>1, LeastElement
<1>3. PICK n \in S : g = n - a
  OBVIOUS
<1>4. \A m \in S : n <= m
  <2> TAKE m \in S
  <2>1. n - a <= m - a
    BY <1>2, <1>3
  <2>2. n \in Int /\ m \in Int
    BY S \subseteq Int
  <2> QED  BY <2>1, <2>2
<1>5. \E x \in S : \A y \in S : x <= y
  BY <1>4
<1>6. Min(S) \in S /\ \A y \in S : Min(S) <= y
  BY <1>5 DEF Min
<1> QED  BY <1>6

-----------------------------------------------------------------------------
(* Lists in order. *)

\* Each element ends before all that follow it start.
Sorted(l) == \A i, j \in DOMAIN l : i < j => l[i].end <= l[j].start
Before(a, b) == \A x \in Range(a), y \in Range(b) : x.end <= y.start

LEMMA Appending ==
  ASSUME NEW S, NEW l \in Seq(S), NEW e \in S
  PROVE  /\ Append(l, e) \in Seq(S)
         /\ Range(Append(l, e)) = Range(l) \cup {e}
         /\ Sorted(Append(l, e)) <=> Sorted(l) /\ \A x \in Range(l) : x.end <= e.start
<1> DEFINE m == Append(l, e)
<1>1. m \in Seq(S) /\ Len(m) = Len(l) + 1 /\ m[Len(l) + 1] = e
      /\ \A i \in 1..Len(l) : m[i] = l[i]
  OBVIOUS
<1>2. DOMAIN m = 1..(Len(l) + 1) /\ DOMAIN l = 1..Len(l) /\ Len(l) \in Nat
  OBVIOUS
<1> HIDE DEF m
<1>3. Range(m) = Range(l) \cup {e}
  BY <1>1, <1>2 DEF Range
<1>4. Sorted(m) => Sorted(l) /\ \A x \in Range(l) : x.end <= e.start
  BY <1>1, <1>2 DEF Sorted, Range
<1>5. Sorted(l) /\ (\A x \in Range(l) : x.end <= e.start) => Sorted(m)
  BY <1>1, <1>2 DEF Sorted, Range
<1> QED  BY <1>1, <1>3, <1>4, <1>5 DEF m

LEMMA Concatenating ==
  ASSUME NEW S, NEW a \in Seq(S), NEW b \in Seq(S)
  PROVE  /\ a \o b \in Seq(S)
         /\ Len(a \o b) = Len(a) + Len(b)
         /\ \A i \in 1..Len(a) : (a \o b)[i] = a[i]
         /\ \A i \in 1..Len(b) : (a \o b)[Len(a) + i] = b[i]
         /\ Range(a \o b) = Range(a) \cup Range(b)
         /\ Sorted(a \o b) <=> Sorted(a) /\ Sorted(b) /\ Before(a, b)
<1> DEFINE m == a \o b
<1>1. m \in Seq(S) /\ Len(m) = Len(a) + Len(b)
      /\ (\A i \in 1..Len(a) : m[i] = a[i])
      /\ (\A i \in 1..Len(b) : m[Len(a) + i] = b[i])
  OBVIOUS
<1>2. DOMAIN m = 1..(Len(a) + Len(b)) /\ DOMAIN a = 1..Len(a) /\ DOMAIN b = 1..Len(b)
      /\ Len(a) \in Nat /\ Len(b) \in Nat
  OBVIOUS
<1> HIDE DEF m
<1>3. ASSUME NEW i \in DOMAIN m
      PROVE  \/ i \in 1..Len(a) /\ m[i] = a[i]
             \/ \E j \in 1..Len(b) : i = Len(a) + j /\ m[i] = b[j]
  <2>1. CASE i <= Len(a)
    BY <2>1, <1>1, <1>2
  <2>2. CASE i > Len(a)
    <3>1. i - Len(a) \in 1..Len(b) /\ i = Len(a) + (i - Len(a))
      BY <2>2, <1>2
    <3> QED  BY <3>1, <1>1
  <2> QED  BY <2>1, <2>2, <1>2
<1>4. Range(m) = Range(a) \cup Range(b)
  <2>1. Range(m) \subseteq Range(a) \cup Range(b)
    BY <1>2, <1>3 DEF Range
  <2>2. Range(a) \subseteq Range(m)
    BY <1>1, <1>2 DEF Range
  <2>3. Range(b) \subseteq Range(m)
    <3>1. ASSUME NEW j \in 1..Len(b) PROVE b[j] \in Range(m)
      <4>1. Len(a) + j \in DOMAIN m
        BY <1>2
      <4> QED  BY <4>1, <1>1 DEF Range
    <3> QED  BY <3>1, <1>2 DEF Range
  <2> QED  BY <2>1, <2>2, <2>3
<1>5. ASSUME Sorted(m) PROVE Sorted(a) /\ Sorted(b) /\ Before(a, b)
  <2>1. Sorted(a)
    BY <1>5, <1>1, <1>2 DEF Sorted
  <2>2. Sorted(b)
    <3>1. ASSUME NEW i \in 1..Len(b), NEW j \in 1..Len(b), i < j PROVE b[i].end <= b[j].start
      <4>1. Len(a) + i \in DOMAIN m /\ Len(a) + j \in DOMAIN m /\ Len(a) + i < Len(a) + j
        BY <3>1, <1>2
      <4>2. m[Len(a) + i].end <= m[Len(a) + j].start
        BY <4>1, <1>5 DEF Sorted
      <4> QED  BY <4>2, <1>1
    <3> QED  BY <3>1, <1>2 DEF Sorted
  <2>3. ASSUME NEW i \in 1..Len(a), NEW j \in 1..Len(b) PROVE a[i].end <= b[j].start
    <3>1. i \in DOMAIN m /\ Len(a) + j \in DOMAIN m /\ i < Len(a) + j
      BY <1>2
    <3>2. m[i].end <= m[Len(a) + j].start
      BY <3>1, <1>5 DEF Sorted
    <3> QED  BY <3>2, <1>1
  <2>4. Before(a, b)
    BY <2>3, <1>2 DEF Before, Range
  <2> QED  BY <2>1, <2>2, <2>4
<1>6. ASSUME Sorted(a), Sorted(b), Before(a, b) PROVE Sorted(m)
  <2>1. ASSUME NEW i \in DOMAIN m, NEW j \in DOMAIN m, i < j PROVE m[i].end <= m[j].start
    <3>1. CASE j \in 1..Len(a)
      <4>1. i \in 1..Len(a)
        BY <3>1, <2>1, <1>2
      <4> QED  BY <4>1, <3>1, <2>1, <1>1, <1>2, <1>6 DEF Sorted
    <3>2. CASE i \in 1..Len(a) /\ j \notin 1..Len(a)
      <4>1. PICK k \in 1..Len(b) : m[j] = b[k]
        BY <3>2, <1>3
      <4>2. a[i] \in Range(a) /\ b[k] \in Range(b)
        BY <3>2, <1>2 DEF Range
      <4> QED  BY <4>1, <4>2, <3>2, <1>1, <1>6 DEF Before
    <3>3. CASE i \notin 1..Len(a) /\ j \notin 1..Len(a)
      <4>1. PICK k \in 1..Len(b) : j = Len(a) + k /\ m[j] = b[k]
        BY <3>3, <1>3
      <4>2. PICK h \in 1..Len(b) : i = Len(a) + h /\ m[i] = b[h]
        BY <3>3, <1>3
      <4>3. h < k
        BY <4>1, <4>2, <2>1, <1>2
      <4> QED  BY <4>1, <4>2, <4>3, <1>2, <1>6 DEF Sorted
    <3> QED  BY <3>1, <3>2, <3>3
  <2> QED  BY <2>1 DEF Sorted
<1>7. Sorted(m) <=> Sorted(a) /\ Sorted(b) /\ Before(a, b)
  BY <1>5, <1>6
<1> QED  BY <1>1, <1>4, <1>7 DEF m

LEMMA One ==
  ASSUME NEW S, NEW e \in S
  PROVE  <<e>> \in Seq(S) /\ Range(<<e>>) = {e} /\ Sorted(<<e>>) /\ <<e>> # <<>>
<1> DEFINE m == <<e>>
<1>1. m \in Seq(S) /\ Len(m) = 1 /\ DOMAIN m = {1} /\ m[1] = e /\ m # <<>>
  OBVIOUS
<1> HIDE DEF m
<1>2. Range(m) = {e} /\ Sorted(m)
  BY <1>1 DEF Range, Sorted
<1> QED  BY <1>1, <1>2 DEF m

LEMMA None ==
  ASSUME NEW S
  PROVE  <<>> \in Seq(S) /\ Range(<<>>) = {} /\ Sorted(<<>>)
<1> DEFINE m == <<>>
<1>1. m \in Seq(S) /\ DOMAIN m = {}
  OBVIOUS
<1> HIDE DEF m
<1>2. Range(m) = {} /\ Sorted(m)
  BY <1>1 DEF Range, Sorted
<1> QED  BY <1>1, <1>2 DEF m

\* An element in front of a list.
LEMMA Consing ==
  ASSUME NEW S, NEW e \in S, NEW l \in Seq(S)
  PROVE  /\ <<e>> \o l \in Seq(S)
         /\ <<e>> \o l # <<>>
         /\ Head(<<e>> \o l) = e /\ Tail(<<e>> \o l) = l
         /\ Range(<<e>> \o l) = {e} \cup Range(l)
         /\ Sorted(<<e>> \o l) <=> Sorted(l) /\ \A y \in Range(l) : e.end <= y.start
<1>1. <<e>> \in Seq(S) /\ Range(<<e>>) = {e} /\ Sorted(<<e>>)
  BY One
<1> DEFINE o == <<e>>
<1>2. o \o l \in Seq(S) /\ Range(o \o l) = Range(o) \cup Range(l)
      /\ (Sorted(o \o l) <=> Sorted(o) /\ Sorted(l) /\ Before(o, l))
  <2>1. o \in Seq(S)
    BY <1>1
  <2> HIDE DEF o
  <2> QED  BY <2>1, Concatenating
<1>3. Before(<<e>>, l) <=> \A y \in Range(l) : e.end <= y.start
  BY <1>1 DEF Before
<1>4. <<e>> \o l # <<>> /\ Head(<<e>> \o l) = e /\ Tail(<<e>> \o l) = l
  OBVIOUS
<1> QED  BY <1>1, <1>2, <1>3, <1>4

\* The head of a list and the rest of it.
LEMMA HeadAndTail ==
  ASSUME NEW S, NEW l \in Seq(S), l # <<>>
  PROVE  /\ Head(l) \in S /\ Tail(l) \in Seq(S)
         /\ l = <<Head(l)>> \o Tail(l)
         /\ Range(l) = {Head(l)} \cup Range(Tail(l))
         /\ Sorted(l) <=> Sorted(Tail(l)) /\ \A y \in Range(Tail(l)) : Head(l).end <= y.start
<1> DEFINE h == Head(l)
           t == Tail(l)
           m == <<h>> \o t
<1>1. h \in S /\ t \in Seq(S)
  OBVIOUS
<1>2. m \in Seq(S) /\ Len(m) = Len(l) /\ \A k \in 1..Len(l) : m[k] = l[k]
  OBVIOUS
<1> HIDE DEF m
<1>3. l = m
  BY <1>2, SeqEqual
<1> USE DEF m
<1> HIDE DEF h, t
<1>4. /\ Range(m) = {h} \cup Range(t)
      /\ Sorted(m) <=> Sorted(t) /\ \A y \in Range(t) : h.end <= y.start
  BY <1>1, Consing
<1> HIDE DEF m
<1>5. /\ Range(l) = {h} \cup Range(t)
      /\ Sorted(l) <=> Sorted(t) /\ \A y \in Range(t) : h.end <= y.start
  BY <1>3, <1>4
<1> QED  BY <1>1, <1>3, <1>5 DEF h, t, m

\* A part of a list.
LEMMA Section ==
  ASSUME NEW S, NEW l \in Seq(S), NEW i \in Int, NEW j \in Int, 1 <= i, j <= Len(l)
  PROVE  /\ SubSeq(l, i, j) \in Seq(S)
         /\ \A x : x \in Range(SubSeq(l, i, j)) <=> \E k \in i..j : x = l[k]
         /\ Sorted(l) => Sorted(SubSeq(l, i, j))
<1> DEFINE m == SubSeq(l, i, j)
<1>1. m \in Seq(S)
  OBVIOUS
<1>2. Len(m) = (IF i <= j THEN j - i + 1 ELSE 0) /\ \A k \in 1..Len(m) : m[k] = l[i + k - 1]
  OBVIOUS
<1>3. DOMAIN m = 1..Len(m) /\ DOMAIN l = 1..Len(l)
  BY <1>1
<1> HIDE DEF m
<1>4. \A x \in Range(m) : \E k \in i..j : x = l[k]
  BY <1>2, <1>3 DEF Range
<1>5. ASSUME NEW k \in i..j PROVE l[k] \in Range(m)
  <2>1. k - i + 1 \in 1..Len(m) /\ i + (k - i + 1) - 1 = k
    BY <1>2
  <2>2. m[k - i + 1] = l[k]
    BY <2>1, <1>2
  <2> QED  BY <2>1, <2>2, <1>3 DEF Range
<1>6. ASSUME Sorted(l), NEW h \in 1..Len(m), NEW k \in 1..Len(m), h < k PROVE m[h].end <= m[k].start
  <2>1. i + h - 1 \in DOMAIN l /\ i + k - 1 \in DOMAIN l /\ i + h - 1 < i + k - 1
    BY <1>2, <1>3, <1>6
  <2> QED  BY <2>1, <1>2, <1>6 DEF Sorted
<1>7. Sorted(l) => Sorted(m)
  BY <1>6, <1>3 DEF Sorted
<1>8. \A x : x \in Range(m) <=> \E k \in i..j : x = l[k]
  BY <1>4, <1>5
<1> QED  BY <1>1, <1>7, <1>8 DEF m

LEMMA InRange ==
  ASSUME NEW S, NEW l \in Seq(S)
  PROVE  /\ Range(l) = {l[k] : k \in 1..Len(l)}
         /\ Range(l) \subseteq S
         /\ l # <<>> <=> Range(l) # {}
<1>1. DOMAIN l = 1..Len(l) /\ Len(l) \in Nat /\ (l = <<>> <=> Len(l) = 0)
  OBVIOUS
<1>2. \A k \in 1..Len(l) : l[k] \in S
  OBVIOUS
<1>3. l # <<>> => 1 \in 1..Len(l)
  BY <1>1
<1>4. l = <<>> => 1..Len(l) = {}
  BY <1>1
<1> QED  BY <1>1, <1>2, <1>3, <1>4 DEF Range

-----------------------------------------------------------------------------
(* Spans, and what a list of them covers. *)

Limits == {Width, Height}

\* Whether empty spans are allowed: flats stands for the variable flat.
Allowed(flats) == flats = TRUE

\* The spans that lie within lim, if flats also empty ones, and if odd the
\* inverted one.
Spans(lim, subs, odd, flats) ==
  {e \in [start : Int, end : Int, subspan : subs] :
     \/ 0 <= e.start /\ e.start <= e.end /\ e.end <= lim /\ (e.start = e.end => Allowed(flats))
     \/ odd /\ e.start = NoCoord /\ e.end = lim}

Plain(l) == \A e \in Range(l) : e.start <= e.end

\* A list of vertical spans covers p, q if one of them holds p and one of its
\* horizontal ones q; of a horizontal span only p matters.
In(sub, q) == sub = NULL \/ \E f \in Range(sub) : f.start <= q /\ q < f.end
Covers(e, p, q) == e.start <= p /\ p < e.end /\ In(e.subspan, q)
Has(l, p, q) == \E e \in Range(l) : Covers(e, p, q)

LEMMA Numbers ==
  /\ Width \in Nat \ {0} /\ Height \in Nat \ {0} /\ NoCoord \in Nat
  /\ \A lim \in Limits : lim \in Nat \ {0} /\ lim < NoCoord
BY SizeAssumption DEF Limits

LEMMA SpanFields ==
  ASSUME NEW lim \in Limits, NEW subs, NEW odd, NEW flats, NEW e \in Spans(lim, subs, odd, flats)
  PROVE  /\ e.start \in Int /\ e.end \in Int /\ e.subspan \in subs /\ e.end <= lim
         /\ e.start <= e.end => 0 <= e.start
         /\ e.start = e.end => Allowed(flats)
         /\ e.start > e.end => odd /\ e.start = NoCoord /\ e.end = lim
         /\ e = Span(e.start, e.end, e.subspan)
BY Numbers DEF Spans, Span

LEMMA SpanMade ==
  ASSUME NEW lim \in Limits, NEW subs, NEW odd, NEW flats,
         NEW a \in Int, NEW b \in Int, NEW sub \in subs,
         0 <= a, a <= b, a = b => Allowed(flats), b <= lim
  PROVE  Span(a, b, sub) \in Spans(lim, subs, odd, flats)
BY DEF Spans, Span

LEMMA SpanIs ==
  ASSUME NEW a, NEW b, NEW sub
  PROVE  /\ Span(a, b, sub).start = a /\ Span(a, b, sub).end = b
         /\ Span(a, b, sub).subspan = sub
BY DEF Span

LEMMA SpanReplaced ==
  ASSUME NEW subs, NEW e \in [start : Int, end : Int, subspan : subs], NEW a, NEW b
  PROVE  [e EXCEPT !.start = a, !.end = b] = Span(a, b, e.subspan)
<1>1. e \in [start : Int, end : Int, subspan : subs]
  OBVIOUS
<1> DEFINE f == [e EXCEPT !.start = a]
<1>2. f = Span(a, e.end, e.subspan)
  BY <1>1 DEF Span
<1>3. [e EXCEPT !.start = a, !.end = b] = [f EXCEPT !.end = b]
  BY <1>1
<1> HIDE DEF f
<1> QED  BY <1>2, <1>3 DEF Span

LEMMA HasNone ==
  ASSUME NEW p, NEW q
  PROVE  ~Has(<<>>, p, q)
BY None DEF Has

-----------------------------------------------------------------------------
(* Cursors: merging. *)

Cursors(S) == [done : Seq(S), rest : Seq(S), src : Seq(S)]
InOrder(c) == Sorted(c.done) /\ Sorted(c.rest) /\ Before(c.done, c.rest)
Holds(c, p, q) == Has(c.done, p, q) \/ Has(c.rest, p, q)

\* a is c after its d_curr has taken neighbours in.
Merged(lim, c, a) ==
  /\ a.rest # <<>> /\ a.src = c.src /\ InOrder(a)
  /\ Range(a.done) \subseteq Range(c.done)
  /\ Range(Tail(a.rest)) \subseteq Range(Tail(c.rest))
  /\ Dest(a).subspan = Dest(c).subspan
  /\ Dest(a).start <= Dest(c).start \/ Dest(c).start = lim
  /\ Dest(a).end >= Dest(c).end
  /\ \A p, q \in Int : Holds(a, p, q) <=> Holds(c, p, q)

\* Only its predecessors.
MergedBack(c, a) ==
  /\ Tail(a.rest) = Tail(c.rest) /\ Dest(a).end = Dest(c).end
  /\ \A p, q \in Int : Has(a.done, p, q) \/ Covers(Dest(a), p, q)
                       <=> Has(c.done, p, q) \/ Covers(Dest(c), p, q)

\* The elements of two lists by where they are in the whole.
Parts(a, b, w, m) ==
  /\ m \in 1..Len(w) /\ w[m] = Head(b)
  /\ Len(w) = Len(a) + Len(b)
  /\ \A x : x \in Range(a) <=> \E k \in 1..(m - 1) : x = w[k]
  /\ \A x : x \in Range(b) <=> \E k \in m..Len(w) : x = w[k]
  /\ \A x : x \in Range(Tail(b)) <=> \E k \in (m + 1)..Len(w) : x = w[k]
  /\ Tail(b) = SubSeq(w, m + 1, Len(w))

LEMMA TwoParts ==
  ASSUME NEW S, NEW a \in Seq(S), NEW b \in Seq(S), b # <<>>
  PROVE  a \o b \in Seq(S) /\ Parts(a, b, a \o b, Len(a) + 1)
<1> DEFINE t == Tail(b)
           w == a \o b
           m == Len(a) + 1
<1>1. /\ w \in Seq(S) /\ Len(w) = Len(a) + Len(b)
      /\ \A i \in 1..Len(a) : w[i] = a[i]
      /\ \A i \in 1..Len(b) : w[Len(a) + i] = b[i]
  BY Concatenating
<1>2. Len(a) \in Nat /\ Len(b) \in Nat \ {0} /\ m = Len(a) + 1
  OBVIOUS
<1>3. Head(b) = b[1] /\ Len(t) = Len(b) - 1 /\ t \in Seq(S)
      /\ \A i \in 1..Len(t) : t[i] = b[i + 1]
  OBVIOUS
<1> HIDE DEF t, w, m
<1>4. m \in 1..Len(w) /\ w[m] = Head(b)
  <2>1. w[Len(a) + 1] = b[1]
    BY <1>1, <1>2
  <2> QED  BY <2>1, <1>1, <1>2, <1>3
<1>5. \A x : x \in Range(a) <=> \E k \in 1..(m - 1) : x = w[k]
  <2>1. \A x : x \in Range(a) <=> \E k \in 1..Len(a) : x = a[k]
    BY InRange
  <2>2. m - 1 = Len(a)
    BY <1>2
  <2> QED  BY <2>1, <2>2, <1>1
<1>6. \A x : x \in Range(b) <=> \E k \in m..Len(w) : x = w[k]
  <2>1. \A x : x \in Range(b) <=> \E k \in 1..Len(b) : x = b[k]
    BY InRange
  <2>2. ASSUME NEW i \in 1..Len(b) PROVE \E k \in m..Len(w) : b[i] = w[k]
    <3>1. Len(a) + i \in m..Len(w)
      BY <1>1, <1>2
    <3> QED  BY <3>1, <1>1
  <2>3. ASSUME NEW k \in m..Len(w) PROVE \E i \in 1..Len(b) : w[k] = b[i]
    <3> DEFINE i == k - Len(a)
    <3>1. i \in 1..Len(b) /\ k = Len(a) + i
      BY <1>1, <1>2
    <3> HIDE DEF i
    <3>2. w[k] = b[i]
      BY <3>1, <1>1
    <3> QED  BY <3>1, <3>2
  <2>4. ASSUME NEW x PROVE x \in Range(b) <=> \E k \in m..Len(w) : x = w[k]
    <3>1. x \in Range(b) => \E k \in m..Len(w) : x = w[k]
      BY <2>1, <2>2
    <3>2. (\E k \in m..Len(w) : x = w[k]) => x \in Range(b)
      BY <2>1, <2>3
    <3> QED  BY <3>1, <3>2
  <2> QED  BY <2>4
<1>7. t = SubSeq(w, m + 1, Len(w))
  <2> DEFINE u == SubSeq(w, m + 1, Len(w))
  <2>1. m \in Nat /\ m + 1 \in Int /\ 1 <= m + 1 /\ Len(w) \in Int /\ Len(w) >= m
    BY <1>1, <1>2
  <2>2. u \in Seq(S)
    BY <1>1, <2>1, Section
  <2>3. Len(u) = Len(w) - m /\ \A i \in 1..Len(u) : u[i] = w[m + 1 + i - 1]
    <3>1. \A i \in (m + 1)..Len(w) : w[i] \in S
      BY <1>1, <2>1
    <3> QED  BY <3>1, <2>1, SubSeqProperties
  <2> HIDE DEF u
  <2>4. ASSUME NEW i \in 1..Len(t) PROVE t[i] = u[i]
    <3>1. i + 1 \in 1..Len(b) /\ Len(a) + (i + 1) = m + 1 + i - 1 /\ i \in 1..Len(u)
      BY <1>1, <1>2, <1>3, <2>3
    <3>2. t[i] = b[i + 1] /\ w[Len(a) + (i + 1)] = b[i + 1]
      BY <3>1, <1>1, <1>3
    <3> QED  BY <3>1, <3>2, <2>3
  <2>5. Len(t) = Len(u)
    BY <1>1, <1>2, <1>3, <2>3
  <2>6. t = u
    BY <1>3, <2>2, <2>4, <2>5, SeqEqual
  <2> QED  BY <2>6 DEF u
<1>8. \A x : x \in Range(t) <=> \E k \in (m + 1)..Len(w) : x = w[k]
  <2>1. m \in Nat /\ m + 1 \in Int /\ 1 <= m + 1 /\ Len(w) \in Int
    BY <1>1, <1>2
  <2> DEFINE i == m + 1
             n == Len(w)
  <2>2. i \in Int /\ 1 <= i /\ n \in Int /\ n <= Len(w)
    BY <2>1
  <2>3. w \in Seq(S)
    BY <1>1
  <2> HIDE DEF i, n
  <2>4. \A x : x \in Range(SubSeq(w, i, n)) <=> \E k \in i..n : x = w[k]
    BY <2>2, <2>3, Section
  <2> QED  BY <1>7, <2>4 DEF i, n
<1> QED  BY <1>1, <1>4, <1>5, <1>6, <1>7, <1>8 DEF t, w, m, Parts

LEMMA WholeList ==
  ASSUME NEW S, NEW c \in Cursors(S), c.rest # <<>>
  PROVE  /\ c.done \o c.rest \in Seq(S) /\ Dest(c) \in S
         /\ Parts(c.done, c.rest, c.done \o c.rest, Position(c))
         /\ Sorted(c.done \o c.rest) <=> InOrder(c)
<1>1. c.done \in Seq(S) /\ c.rest \in Seq(S)
  BY DEF Cursors
<1>2. Sorted(c.done \o c.rest) <=> InOrder(c)
  BY <1>1, Concatenating DEF InOrder
<1>3. Dest(c) \in S
  BY <1>1 DEF Dest
<1>4. c.done \o c.rest \in Seq(S) /\ Parts(c.done, c.rest, c.done \o c.rest, Position(c))
  BY <1>1, TwoParts DEF Position
<1> QED  BY <1>2, <1>3, <1>4

\* The spans from the i-th to the j-th touch, each the next.
Touching(w, i, j) == \A k \in i..(j - 1) : w[k].end = w[k + 1].start

\* Spans that touch, each the next: they are plain if there are two, and hold
\* what one from the first one's start to the last one's end holds.
LEMMA Chain ==
  ASSUME NEW lim \in Limits, NEW subs, NEW odd, NEW flats,
         NEW w \in Seq(Spans(lim, subs, odd, flats)), Sorted(w),
         NEW i \in 1..Len(w), NEW j \in 1..Len(w), i <= j,
         Touching(w, i, j)
  PROVE  /\ Span(w[i].start, w[j].end, w[i].subspan) \in Spans(lim, subs, odd, flats)
         /\ \A k \in i..j : /\ w[i].start <= w[k].start \/ w[k].start = lim
                            /\ w[k].end <= w[j].end
         /\ \A p \in Int : w[i].start <= p /\ p < w[j].end
                           <=> \E k \in i..j : w[k].start <= p /\ p < w[k].end
<1> DEFINE st == [k \in 1..Len(w) |-> w[k].start]
           en == [k \in 1..Len(w) |-> w[k].end]
<1>1. /\ Len(w) \in Nat /\ DOMAIN w = 1..Len(w)
      /\ \A k \in 1..Len(w) : w[k] \in Spans(lim, subs, odd, flats)
  OBVIOUS
<1>2. ASSUME NEW k \in 1..Len(w)
      PROVE  /\ st[k] \in Int /\ en[k] \in Int /\ en[k] <= lim
             /\ st[k] <= en[k] => 0 <= st[k]
             /\ st[k] = en[k] => Allowed(flats)
             /\ st[k] > en[k] => odd /\ st[k] = NoCoord /\ en[k] = lim
             /\ w[k].start = st[k] /\ w[k].end = en[k]
  BY <1>1, SpanFields
<1>3. \A h, k \in 1..Len(w) : h < k => en[h] <= st[k]
  BY <1>1 DEF Sorted
<1>4. \A k \in i..(j - 1) : en[k] = st[k + 1]
  <2> TAKE k \in i..(j - 1)
  <2>1. k \in 1..Len(w) /\ k + 1 \in 1..Len(w)
    BY <1>1
  <2> QED  BY <2>1 DEF Touching
<1> HIDE DEF st, en
<1>5. lim \in Nat /\ NoCoord \in Nat /\ lim < NoCoord
  BY Numbers
<1>6. ASSUME NEW k \in (i + 1)..j PROVE en[i] <= st[k] /\ st[k] <= en[k] /\ en[k] <= en[j]
  <2>1. /\ k \in 1..Len(w) /\ i < k /\ k - 1 \in i..(j - 1) /\ k - 1 \in 1..Len(w)
        /\ (k - 1) + 1 = k
    BY <1>1
  <2>2. en[i] <= st[k]
    BY <2>1, <1>3
  <2>3. st[k] <= en[k]
    <3>1. en[k - 1] = st[k]
      BY <2>1, <1>4
    <3>2. en[k - 1] <= lim /\ en[k - 1] \in Int
      BY <2>1, <1>2
    <3>3. st[k] # NoCoord
      BY <3>1, <3>2, <1>5
    <3> QED  BY <3>3, <2>1, <1>2
  <2>4. CASE k = j
    BY <2>1, <2>2, <2>3, <2>4, <1>2
  <2>5. CASE k < j
    <3>1. en[k] <= st[j]
      BY <2>1, <2>5, <1>3
    <3>2. /\ j - 1 \in i..(j - 1) /\ j - 1 \in 1..Len(w) /\ (j - 1) + 1 = j
      BY <2>1, <2>5, <1>1
    <3>3. en[j - 1] = st[j]
      BY <3>2, <1>4
    <3>4. st[j] <= en[j]
      BY <3>2, <3>3, <1>2, <1>5
    <3> QED  BY <2>1, <2>2, <2>3, <3>1, <3>4, <1>2
  <2> QED  BY <2>4, <2>5
<1>7. ASSUME NEW k \in i..j PROVE (st[i] <= st[k] \/ st[k] = lim) /\ en[k] <= en[j]
  <2>1. k \in 1..Len(w) /\ (k = i \/ k \in (i + 1)..j)
    BY <1>1
  <2>2. CASE k = i /\ i = j
    BY <2>1, <2>2, <1>2
  <2>3. CASE k = i /\ i < j
    <3>1. j \in (i + 1)..j
      BY <2>3, <1>1
    <3>2. en[i] <= st[j] /\ st[j] <= en[j]
      BY <3>1, <1>6
    <3> QED  BY <2>3, <3>2, <1>2
  <2>4. CASE k \in (i + 1)..j
    <3>1. en[i] <= st[k] /\ st[k] <= en[k] /\ en[k] <= en[j]
      BY <2>4, <1>6
    <3> QED  BY <2>1, <3>1, <1>2, <1>5
  <2> QED  BY <2>1, <2>2, <2>3, <2>4
<1>8. Span(w[i].start, w[j].end, w[i].subspan) \in Spans(lim, subs, odd, flats)
  <2>1. CASE i = j
    BY <2>1, <1>1, SpanFields
  <2>2. CASE i < j
    <3>1. j \in (i + 1)..j
      BY <2>2, <1>1
    <3>2. en[i] <= st[j] /\ st[j] <= en[j]
      BY <3>1, <1>6
    <3>3. w[i].subspan \in subs
      BY <1>1, SpanFields
    <3>4. CASE st[i] <= en[i]
      <4>1. /\ 0 <= w[i].start /\ w[i].start <= w[j].end /\ w[j].end <= lim
            /\ w[i].start = w[j].end => Allowed(flats)
            /\ w[i].start \in Int /\ w[j].end \in Int
        BY <1>2, <3>2, <3>4
      <4> QED  BY <3>3, <4>1, SpanMade
    <3>5. CASE st[i] > en[i]
      <4>1. odd /\ w[i].start = NoCoord /\ w[j].end = lim
        BY <1>2, <1>5, <3>2, <3>5
      <4> QED  BY <1>5, <3>3, <4>1 DEF Spans, Span
    <3> QED  BY <3>4, <3>5, <1>2
  <2> QED  BY <2>1, <2>2
<1>9. ASSUME NEW p \in Int, st[i] <= p, p < en[j] PROVE \E k \in i..j : st[k] <= p /\ p < en[k]
  <2> DEFINE T == {k \in i..j : p < en[k]}
  <2>1. T \subseteq Nat /\ j \in T
    BY <1>9
  <2>2. PICK k \in T : \A h \in T : k <= h
    BY <2>1, LeastElement
  <2>3. CASE k = i
    BY <1>9, <2>3
  <2>4. CASE k # i
    <3>1. k - 1 \in i..(j - 1) /\ k - 1 \in i..j /\ (k - 1) + 1 = k /\ ~(k <= k - 1)
      BY <2>4
    <3>2. ~(p < en[k - 1]) /\ en[k - 1] = st[k]
      BY <2>2, <3>1, <1>4
    <3>3. en[k - 1] \in Int
      BY <3>1, <1>1, <1>2
    <3> QED  BY <3>2, <3>3
  <2> QED  BY <2>3, <2>4
<1>10. ASSUME NEW p \in Int, NEW k \in i..j, st[k] <= p, p < en[k] PROVE st[i] <= p /\ p < en[j]
  <2>1. k \in 1..Len(w)
    BY <1>1
  <2> QED  BY <1>2, <1>7, <1>10, <2>1, SMTT(30)
<1>11. \A k \in i..j : k \in 1..Len(w) /\ w[k].start = st[k] /\ w[k].end = en[k]
  BY <1>1, <1>2
<1> QED  BY <1>7, <1>8, <1>9, <1>10, <1>11, SMTT(30)

\* The spans of a list from the i-th to the j-th made one.
MadeOne(lim, S, w, m, i, j, e, x, y) ==
  /\ x \in Seq(S) /\ y \in Seq(S) /\ e \in S
  /\ Sorted(x) /\ Sorted(y) /\ Before(x, y)
  /\ \A v \in Range(x) : v.end <= e.start
  /\ \A v \in Range(y) : e.end <= v.start
  /\ e.start <= w[m].start \/ w[m].start = lim
  /\ w[m].end <= e.end
  /\ \A v : v \in Range(x) <=> \E k \in 1..(i - 1) : v = w[k]
  /\ \A v : v \in Range(y) <=> \E k \in (j + 1)..Len(w) : v = w[k]
  /\ \A p, q \in Int : Has(x, p, q) \/ Covers(e, p, q) <=> \E k \in 1..j : Covers(w[k], p, q)
  /\ \A p, q \in Int : Has(y, p, q) <=> \E k \in (j + 1)..Len(w) : Covers(w[k], p, q)

LEMMA MergedList ==
  ASSUME NEW lim \in Limits, NEW subs, NEW odd, NEW flats,
         NEW w \in Seq(Spans(lim, subs, odd, flats)), Sorted(w),
         NEW m \in 1..Len(w), NEW i \in 1..m, NEW j \in m..Len(w), NEW e,
         Touching(w, i, j), \A k \in i..j : w[k].subspan = w[m].subspan,
         e = Span(w[i].start, w[j].end, w[m].subspan)
  PROVE  MadeOne(lim, Spans(lim, subs, odd, flats), w, m, i, j, e,
                 SubSeq(w, 1, i - 1), SubSeq(w, j + 1, Len(w)))
<1> DEFINE x == SubSeq(w, 1, i - 1)
           y == SubSeq(w, j + 1, Len(w))
           S == Spans(lim, subs, odd, flats)
<1>1. /\ i \in 1..Len(w) /\ j \in 1..Len(w) /\ m \in i..j /\ i <= j /\ Len(w) \in Nat
      /\ i \in Nat /\ j \in Nat /\ m \in Nat /\ DOMAIN w = 1..Len(w)
  OBVIOUS
<1>2. /\ x \in Seq(S) /\ Sorted(x)
      /\ \A v : v \in Range(x) <=> \E k \in 1..(i - 1) : v = w[k]
  <2> DEFINE h == i - 1
  <2>1. h \in Int /\ h <= Len(w) /\ 1 \in Int /\ 1 <= 1
    BY <1>1
  <2> HIDE DEF h, S
  <2>2. SubSeq(w, 1, h) \in Seq(S) /\ Sorted(SubSeq(w, 1, h))
        /\ \A v : v \in Range(SubSeq(w, 1, h)) <=> \E k \in 1..h : v = w[k]
    <3>1. w \in Seq(S)
      BY DEF S
    <3> QED  BY <3>1, <2>1, Section, SMTT(60)
  <2> QED  BY <2>2 DEF h
<1>3. /\ y \in Seq(S) /\ Sorted(y)
      /\ \A v : v \in Range(y) <=> \E k \in (j + 1)..Len(w) : v = w[k]
  <2> DEFINE h == j + 1
             n == Len(w)
  <2>1. h \in Int /\ 1 <= h /\ n \in Int /\ n <= Len(w)
    BY <1>1
  <2> HIDE DEF h, n, S
  <2>2. SubSeq(w, h, n) \in Seq(S) /\ Sorted(SubSeq(w, h, n))
        /\ \A v : v \in Range(SubSeq(w, h, n)) <=> \E k \in h..n : v = w[k]
    <3>1. w \in Seq(S)
      BY DEF S
    <3> QED  BY <3>1, <2>1, Section, SMTT(60)
  <2> QED  BY <2>2 DEF h, n
<1>4. /\ Span(w[i].start, w[j].end, w[i].subspan) \in S
      /\ \A k \in i..j : /\ w[i].start <= w[k].start \/ w[k].start = lim
                         /\ w[k].end <= w[j].end
      /\ \A p \in Int : w[i].start <= p /\ p < w[j].end
                        <=> \E k \in i..j : w[k].start <= p /\ p < w[k].end
  BY <1>1, Chain, SMTT(30)
<1>5. e.start = w[i].start /\ e.end = w[j].end /\ e.subspan = w[m].subspan /\ e \in S
  <2>1. w[i].subspan = w[m].subspan
    BY <1>1
  <2> QED  BY <2>1, <1>4, SpanIs
<1> HIDE DEF x, y
<1>6. Before(x, y)
  <2> SUFFICES ASSUME NEW u \in Range(x), NEW v \in Range(y) PROVE u.end <= v.start
    BY DEF Before
  <2>1. PICK h \in 1..(i - 1) : u = w[h]
    BY <1>2
  <2>2. PICK k \in (j + 1)..Len(w) : v = w[k]
    BY <1>3
  <2>3. h \in DOMAIN w /\ k \in DOMAIN w /\ h < k
    BY <1>1
  <2> QED  BY <2>1, <2>2, <2>3 DEF Sorted
<1>7. ASSUME NEW v \in Range(x) PROVE v.end <= e.start
  <2>1. PICK h \in 1..(i - 1) : v = w[h]
    BY <1>2
  <2>2. h \in DOMAIN w /\ i \in DOMAIN w /\ h < i
    BY <1>1
  <2> QED  BY <2>1, <2>2, <1>5 DEF Sorted
<1>8. ASSUME NEW v \in Range(y) PROVE e.end <= v.start
  <2>1. PICK h \in (j + 1)..Len(w) : v = w[h]
    BY <1>3
  <2>2. h \in DOMAIN w /\ j \in DOMAIN w /\ j < h
    BY <1>1
  <2> QED  BY <2>1, <2>2, <1>5 DEF Sorted
<1>9. (e.start <= w[m].start \/ w[m].start = lim) /\ w[m].end <= e.end
  BY <1>1, <1>4, <1>5
<1>10. ASSUME NEW p \in Int, NEW q \in Int
       PROVE  Has(x, p, q) \/ Covers(e, p, q) <=> \E k \in 1..j : Covers(w[k], p, q)
  <2>1. Has(x, p, q) <=> \E k \in 1..(i - 1) : Covers(w[k], p, q)
    BY <1>2 DEF Has
  <2>2. Covers(e, p, q) <=> \E k \in i..j : Covers(w[k], p, q)
    <3>1. e.start <= p /\ p < e.end <=> \E k \in i..j : w[k].start <= p /\ p < w[k].end
      BY <1>4, <1>5
    <3>2. \A k \in i..j : w[k].subspan = e.subspan
      BY <1>5
    <3> QED  BY <3>1, <3>2 DEF Covers
  <2>3. \A k : k \in 1..j <=> k \in 1..(i - 1) \/ k \in i..j
    BY <1>1
  <2> QED  BY <2>1, <2>2, <2>3
<1>11. ASSUME NEW p \in Int, NEW q \in Int
       PROVE  Has(y, p, q) <=> \E k \in (j + 1)..Len(w) : Covers(w[k], p, q)
  BY <1>3 DEF Has
<1> QED  BY <1>2, <1>3, <1>5, <1>6, <1>7, <1>8, <1>9, <1>10, <1>11 DEF x, y, MadeOne

\* A cursor with some fields replaced.
Cursor(x, y, z) == [done |-> x, rest |-> y, src |-> z]

LEMMA CursorIs ==
  ASSUME NEW x, NEW y, NEW z
  PROVE  Cursor(x, y, z).done = x /\ Cursor(x, y, z).rest = y /\ Cursor(x, y, z).src = z
BY DEF Cursor

LEMMA CursorMade ==
  ASSUME NEW S, NEW x \in Seq(S), NEW y \in Seq(S), NEW z \in Seq(S)
  PROVE  Cursor(x, y, z) \in Cursors(S)
BY DEF Cursor, Cursors

LEMMA Lengths ==
  ASSUME NEW S, NEW a \in Seq(S), NEW b \in Seq(S)
  PROVE  Len(a) \in Nat /\ Len(b) \in Nat /\ Len(a) + Len(b) \in Nat
OBVIOUS

LEMMA CursorParts ==
  ASSUME NEW S, NEW c \in Cursors(S)
  PROVE  /\ c.done \in Seq(S) /\ c.rest \in Seq(S) /\ c.src \in Seq(S)
         /\ c = Cursor(c.done, c.rest, c.src)
         /\ Len(c.done) \in Nat /\ Len(c.rest) \in Nat /\ Len(c.done) + Len(c.rest) \in Nat
<1>1. /\ c.done \in Seq(S) /\ c.rest \in Seq(S) /\ c.src \in Seq(S)
      /\ c = Cursor(c.done, c.rest, c.src)
  BY DEF Cursors, Cursor
<1>2. Len(c.done) \in Nat /\ Len(c.rest) \in Nat /\ Len(c.done) + Len(c.rest) \in Nat
  BY <1>1, Lengths
<1> QED  BY <1>1, <1>2

LEMMA CursorChanged ==
  ASSUME NEW S, NEW c \in Cursors(S), NEW x
  PROVE  /\ [c EXCEPT !.done = x] = Cursor(x, c.rest, c.src)
         /\ [c EXCEPT !.rest = x] = Cursor(c.done, x, c.src)
         /\ [c EXCEPT !.src = x] = Cursor(c.done, c.rest, x)
<1>1. c \in [done : Seq(S), rest : Seq(S), src : Seq(S)]
  BY DEF Cursors
<1>2. [c EXCEPT !.done = x] = Cursor(x, c.rest, c.src)
  BY <1>1 DEF Cursor
<1>3. [c EXCEPT !.rest = x] = Cursor(c.done, x, c.src)
  BY <1>1 DEF Cursor
<1>4. [c EXCEPT !.src = x] = Cursor(c.done, c.rest, x)
  BY <1>1, SMTT(30) DEF Cursor
<1> QED  BY <1>2, <1>3, <1>4

LEMMA CursorReplaced ==
  ASSUME NEW S, NEW c \in Cursors(S), NEW x, NEW y
  PROVE  [c EXCEPT !.done = x, !.rest = y] = Cursor(x, y, c.src)
<1>1. c \in [done : Seq(S), rest : Seq(S), src : Seq(S)]
  BY DEF Cursors
<1> DEFINE b == [c EXCEPT !.done = x]
<1>2. [c EXCEPT !.done = x, !.rest = y] = [b EXCEPT !.rest = y]
  BY <1>1
<1>3. b = Cursor(x, c.rest, c.src)
  BY CursorChanged
<1> HIDE DEF b
<1> QED  BY <1>2, <1>3 DEF Cursor

\* d_curr made one with the spans from the i-th to the j-th.
LEMMA MergeFacts ==
  ASSUME NEW lim \in Limits, NEW subs, NEW odd, NEW flats,
         NEW c \in Cursors(Spans(lim, subs, odd, flats)),
         c.rest # <<>>, InOrder(c),
         NEW i \in 1..Position(c), NEW j \in Position(c)..(Len(c.done) + Len(c.rest)),
         Joined(c, i, j)
  PROVE  /\ MergeFromTo(c, i, j) \in Cursors(Spans(lim, subs, odd, flats))
         /\ Merged(lim, c, MergeFromTo(c, i, j))
         /\ j = Position(c) => MergedBack(c, MergeFromTo(c, i, j))
<1> DEFINE a == MergeFromTo(c, i, j)
           w == c.done \o c.rest
           m == Position(c)
           d == Dest(c)
           S == Spans(lim, subs, odd, flats)
           x == SubSeq(w, 1, i - 1)
           y == SubSeq(w, j + 1, Len(w))
           e == [d EXCEPT !.start = w[i].start, !.end = w[j].end]
<1>1. w \in Seq(S) /\ d \in S /\ Sorted(w) /\ Parts(c.done, c.rest, w, m)
  BY WholeList
<1>2. a = Cursor(x, <<e>> \o y, c.src) /\ c.src \in Seq(S)
  <2> DEFINE z == <<e>> \o y
  <2>1. a = [c EXCEPT !.done = x, !.rest = z] /\ c.src \in Seq(S)
    BY DEF MergeFromTo, Cursors
  <2> HIDE DEF x, z, a, S
  <2>2. [c EXCEPT !.done = x, !.rest = z] = Cursor(x, z, c.src)
    BY CursorReplaced
  <2> QED  BY <2>1, <2>2 DEF z
<1>3. (\A k \in i..j : w[k].subspan = d.subspan) /\ Touching(w, i, j)
  BY DEF Joined, Touching
<1>4. e = Span(w[i].start, w[j].end, d.subspan)
  <2> DEFINE st == w[i].start
             en == w[j].end
  <2> HIDE DEF d, st, en
  <2>1. d \in [start : Int, end : Int, subspan : subs]
    BY <1>1 DEF Spans
  <2>2. [d EXCEPT !.start = st, !.end = en] = Span(st, en, d.subspan)
    BY <2>1, SpanReplaced
  <2> QED  BY <2>2 DEF st, en
<1> HIDE DEF w, d, e, x, y, a
<1>5. /\ m \in 1..Len(w) /\ w[m] = d /\ Len(w) = Len(c.done) + Len(c.rest) /\ Len(w) \in Nat
      /\ Tail(c.rest) = SubSeq(w, m + 1, Len(w))
  <2>1. Len(w) \in Nat
    BY <1>1
  <2> HIDE DEF m
  <2> QED  BY <1>1, <2>1 DEF Parts, Dest, d
<1>6. /\ \A v : v \in Range(c.done) <=> \E k \in 1..(m - 1) : v = w[k]
      /\ \A v : v \in Range(c.rest) <=> \E k \in m..Len(w) : v = w[k]
      /\ \A v : v \in Range(Tail(c.rest)) <=> \E k \in (m + 1)..Len(w) : v = w[k]
  <2> HIDE DEF m
  <2> QED  BY <1>1 DEF Parts
<1>7. i \in 1..m /\ j \in m..Len(w)
  BY <1>5
<1>8. MadeOne(lim, S, w, m, i, j, e, x, y)
  <2>1. MadeOne(lim, S, w, m, i, j, e, SubSeq(w, 1, i - 1), SubSeq(w, j + 1, Len(w)))
    <3> HIDE DEF m
    <3>1. \A k \in i..j : w[k].subspan = w[m].subspan
      BY <1>3, <1>5
    <3>2. e = Span(w[i].start, w[j].end, w[m].subspan)
      BY <1>4, <1>5
    <3> QED  BY <1>1, <1>3, <1>5, <1>7, <3>1, <3>2, MergedList
  <2> QED  BY <2>1 DEF x, y
<1> HIDE DEF S, m
<1>9. /\ x \in Seq(S) /\ y \in Seq(S) /\ e \in S
      /\ Sorted(x) /\ Sorted(y) /\ Before(x, y)
      /\ \A v \in Range(x) : v.end <= e.start
      /\ \A v \in Range(y) : e.end <= v.start
      /\ e.start <= w[m].start \/ w[m].start = lim
      /\ w[m].end <= e.end
  BY <1>8 DEF MadeOne
<1>10. /\ \A v : v \in Range(x) <=> \E k \in 1..(i - 1) : v = w[k]
       /\ \A v : v \in Range(y) <=> \E k \in (j + 1)..Len(w) : v = w[k]
  BY <1>8 DEF MadeOne
<1>11. /\ \A p, q \in Int : Has(x, p, q) \/ Covers(e, p, q) <=> \E k \in 1..j : Covers(w[k], p, q)
       /\ \A p, q \in Int : Has(y, p, q) <=> \E k \in (j + 1)..Len(w) : Covers(w[k], p, q)
  BY <1>8 DEF MadeOne
<1>12. a.done = x /\ a.rest = <<e>> \o y /\ a.src = c.src
  BY <1>2 DEF Cursor
<1>13. /\ <<e>> \o y \in Seq(S) /\ a.rest # <<>> /\ Dest(a) = e /\ Tail(a.rest) = y
       /\ Range(a.rest) = {e} \cup Range(y) /\ Sorted(a.rest)
  BY <1>9, <1>12, Consing, SMTT(30) DEF Dest
<1>14. a \in Cursors(S)
  BY <1>2, <1>9, <1>13, CursorMade
<1>15. InOrder(a)
  BY <1>9, <1>12, <1>13 DEF InOrder, Before
<1>16. i \in Nat /\ j \in Nat /\ m \in Nat /\ i <= m /\ m <= j
  BY <1>5, <1>7
<1>17. j <= Len(w) /\ Len(w) \in Nat
  <2>1. j \in m..Len(w) /\ Len(w) \in Nat /\ m \in Nat
    BY <1>5, <1>7, <1>16
  <2> HIDE DEF m
  <2> QED  BY <2>1
<1>18. Range(a.done) \subseteq Range(c.done)
  <2>1. \A k : k \in 1..(i - 1) => k \in 1..(m - 1)
    BY <1>16
  <2>2. \A v : v \in Range(x) => v \in Range(c.done)
    BY <2>1, <1>6, <1>10
  <2> QED  BY <2>2, <1>12
<1>19. Range(Tail(a.rest)) \subseteq Range(Tail(c.rest))
  <2>1. \A k : k \in (j + 1)..Len(w) => k \in (m + 1)..Len(w)
    BY <1>16, <1>17
  <2>2. \A v : v \in Range(y) => v \in Range(Tail(c.rest))
    BY <2>1, <1>6, <1>10
  <2> QED  BY <2>2, <1>13
<1>20. ASSUME NEW p \in Int, NEW q \in Int
       PROVE  /\ Has(c.done, p, q) <=> \E k \in 1..(m - 1) : Covers(w[k], p, q)
              /\ Has(c.rest, p, q) <=> \E k \in m..Len(w) : Covers(w[k], p, q)
  BY <1>6, SMTT(30) DEF Has
<1>21. ASSUME NEW p \in Int, NEW q \in Int PROVE Holds(a, p, q) <=> Holds(c, p, q)
  <2>1. Holds(a, p, q) <=> (\E k \in 1..j : Covers(w[k], p, q))
                           \/ (\E k \in (j + 1)..Len(w) : Covers(w[k], p, q))
    <3>1. Has(a.rest, p, q) <=> Covers(e, p, q) \/ Has(y, p, q)
      BY <1>13 DEF Has
    <3> QED  BY <3>1, <1>12, <1>11 DEF Holds
  <2>2. Holds(c, p, q) <=> (\E k \in 1..(m - 1) : Covers(w[k], p, q))
                           \/ (\E k \in m..Len(w) : Covers(w[k], p, q))
    BY <1>20 DEF Holds
  <2>3. \A k : k \in 1..j \/ k \in (j + 1)..Len(w) <=> k \in 1..(m - 1) \/ k \in m..Len(w)
    BY <1>16, <1>17
  <2> QED  BY <2>1, <2>2, <2>3
<1>22. Merged(lim, c, a)
  <2>1. e.subspan = d.subspan
    BY <1>4, SpanIs
  <2>2. (e.start <= d.start \/ d.start = lim) /\ e.end >= d.end
    <3>1. e.end \in Int /\ d.end \in Int
      BY <1>1, <1>9, SpanFields DEF S
    <3> QED  BY <1>5, <1>9, <3>1
  <2> QED  BY <1>12, <1>13, <1>15, <1>18, <1>19, <1>21, <2>1, <2>2 DEF Merged, d
<1>23. ASSUME j = m PROVE MergedBack(c, a)
  <2>1. y = Tail(c.rest)
    BY <1>5, <1>23 DEF y
  <2>2. e.end = d.end
    <3>1. e.end = w[j].end
      BY <1>4, SpanIs
    <3> QED  BY <3>1, <1>5, <1>23
  <2>3. ASSUME NEW p \in Int, NEW q \in Int
        PROVE  Has(a.done, p, q) \/ Covers(e, p, q) <=> Has(c.done, p, q) \/ Covers(d, p, q)
    <3>1. Has(a.done, p, q) \/ Covers(e, p, q) <=> \E k \in 1..m : Covers(w[k], p, q)
      BY <1>11, <1>12, <1>23
    <3>2. \A k : k \in 1..m <=> k \in 1..(m - 1) \/ k = m
      BY <1>16
    <3> QED  BY <3>1, <3>2, <1>5, <1>20
  <2> QED  BY <2>1, <2>2, <2>3, <1>13 DEF MergedBack, d
<1> QED  BY <1>14, <1>22, <1>23 DEF a, m, S

\* How far d_curr can be merged, either way.
LEMMA MergeLimits ==
  ASSUME NEW S, NEW c \in Cursors(S), c.rest # <<>>
  PROVE  /\ Position(c) \in 1..(Len(c.done) + Len(c.rest))
         /\ Joined(c, Position(c), Position(c))
         /\ FirstJoined(c) \in 1..Position(c) /\ Joined(c, FirstJoined(c), Position(c))
         /\ LastJoined(c) \in Position(c)..(Len(c.done) + Len(c.rest))
         /\ Joined(c, Position(c), LastJoined(c))
<1> DEFINE m == Position(c)
           w == c.done \o c.rest
           n == Len(c.done) + Len(c.rest)
<1> DEFINE T == {i \in 1..m : Joined(c, i, m)}
           U == {j \in m..n : Joined(c, m, j)}
<1>1. Parts(c.done, c.rest, w, m) /\ c.done \in Seq(S) /\ c.rest \in Seq(S)
  BY WholeList DEF Cursors
<1>2. Len(c.done) \in Nat /\ Len(c.rest) \in Nat
  BY <1>1
<1> HIDE DEF w, m
<1>3. m \in 1..n /\ w[m] = Dest(c) /\ n \in Nat
  <2>1. m \in 1..Len(w) /\ w[m] = Head(c.rest) /\ Len(w) = n
    BY <1>1 DEF Parts
  <2>2. n \in Nat
    BY <1>1, Lengths
  <2> HIDE DEF n
  <2> QED  BY <2>1, <2>2 DEF Dest
<1> HIDE DEF n
<1>4. Joined(c, m, m)
  <2>1. m..(m - 1) = {} /\ \A k \in m..m : k = m
    BY <1>3
  <2> QED  BY <1>3, <2>1 DEF Joined, w
<1>5. FirstJoined(c) \in T
  <2>1. T \subseteq Int /\ (\A i \in T : i >= 1) /\ m \in T
    BY <1>3, <1>4
  <2>2. Min(T) \in T
    <3> DEFINE one == 1
    <3>1. one \in Int /\ \A i \in T : i >= one
      BY <2>1
    <3> HIDE DEF T, one
    <3> QED  BY <2>1, <3>1, MinAbove
  <2> QED  BY <2>2 DEF FirstJoined, m
<1>6. LastJoined(c) \in U
  <2>1. U \subseteq Int /\ (\A i \in U : i <= n) /\ m \in U
    BY <1>3, <1>4
  <2>2. Max(U) \in U
    <3> HIDE DEF U
    <3>1. n \in Int /\ U # {}
      BY <1>3, <2>1
    <3> QED  BY <3>1, <2>1, MaxBelow
  <2> QED  BY <2>2 DEF LastJoined, m, n
<1> QED  BY <1>3, <1>4, <1>5, <1>6 DEF m, n

LEMMA MergePreviousFacts ==
  ASSUME NEW lim \in Limits, NEW subs, NEW odd, NEW flats,
         NEW c \in Cursors(Spans(lim, subs, odd, flats)),
         c.rest # <<>>, InOrder(c)
  PROVE  /\ MergePrevious(c) \in Cursors(Spans(lim, subs, odd, flats))
         /\ Merged(lim, c, MergePrevious(c))
         /\ MergedBack(c, MergePrevious(c))
<1>1. FirstJoined(c) \in 1..Position(c) /\ Joined(c, FirstJoined(c), Position(c))
      /\ Position(c) \in Position(c)..(Len(c.done) + Len(c.rest))
  <2> DEFINE m == Position(c)
             n == Len(c.done) + Len(c.rest)
  <2>1. m \in 1..n /\ FirstJoined(c) \in 1..m /\ Joined(c, FirstJoined(c), m)
    BY MergeLimits
  <2> HIDE DEF m, n
  <2>2. m \in m..n
    BY <2>1
  <2> QED  BY <2>1, <2>2 DEF m, n
<1> QED  BY <1>1, MergeFacts DEF MergePrevious

\* What sraSpanMergePrevious and sraSpanMergeNext make of a list.
LEMMA MergeBoth ==
  ASSUME NEW lim \in Limits, NEW subs, NEW odd, NEW flats,
         NEW c \in Cursors(Spans(lim, subs, odd, flats)),
         c.rest # <<>>, InOrder(c)
  PROVE  Merge(c) \in Cursors(Spans(lim, subs, odd, flats)) /\ Merged(lim, c, Merge(c))
<1> DEFINE i == FirstJoined(c)
           j == LastJoined(c)
           m == Position(c)
           n == Len(c.done) + Len(c.rest)
<1>1. i \in 1..m /\ j \in m..n /\ Joined(c, i, m) /\ Joined(c, m, j)
  BY MergeLimits
<1>2. m \in Nat
  <2>1. m \in 1..n
    BY MergeLimits
  <2> HIDE DEF m, n
  <2> QED  BY <2>1
<1> HIDE DEF i, j, m, n
<1>3. Joined(c, i, j)
  <2>1. \A k : k \in i..j => k \in i..m \/ k \in m..j
    BY <1>1, <1>2
  <2>2. \A k : k \in i..(j - 1) => k \in i..(m - 1) \/ k \in m..(j - 1)
    BY <1>1, <1>2
  <2> QED  BY <2>1, <2>2, <1>1 DEF Joined
<1>4. /\ MergeFromTo(c, i, j) \in Cursors(Spans(lim, subs, odd, flats))
      /\ Merged(lim, c, MergeFromTo(c, i, j))
  BY <1>1, <1>3, MergeFacts DEF m, n
<1> QED  BY <1>4 DEF Merge, i, j

-----------------------------------------------------------------------------
(* Cursors: cutting d_curr. *)

\* The parts of a span before st and from en on, as lists.
PartBefore(d, st) == IF st > d.start THEN <<Span(d.start, st, d.subspan)>> ELSE <<>>
PartBehind(d, en) == IF en < d.end THEN <<Span(en, d.end, d.subspan)>> ELSE <<>>

\* The parts of d_curr before and behind what is cut out.
LEMMA PartsCut ==
  ASSUME NEW lim \in Limits, NEW subs, NEW odd, NEW flats,
         NEW d \in Spans(lim, subs, odd, flats), d.start <= d.end,
         NEW st \in Int, NEW en \in Int, st < d.end, d.start < en
  PROVE  /\ PartBefore(d, st) \in Seq(Spans(lim, subs, odd, flats)) /\ Sorted(PartBefore(d, st))
         /\ \A x \in Range(PartBefore(d, st)) : x.start = d.start /\ x.end = st /\ st > d.start
         /\ PartBehind(d, en) \in Seq(Spans(lim, subs, odd, flats)) /\ Sorted(PartBehind(d, en))
         /\ \A x \in Range(PartBehind(d, en)) : x.start = en /\ x.end = d.end /\ en < d.end
         /\ \A p, q \in Int : Has(PartBefore(d, st), p, q) <=> Covers(d, p, q) /\ p < st
         /\ \A p, q \in Int : Has(PartBehind(d, en), p, q) <=> Covers(d, p, q) /\ p >= en
<1> DEFINE x == Span(d.start, st, d.subspan)
           y == Span(en, d.end, d.subspan)
           S == Spans(lim, subs, odd, flats)
<1>1. /\ d.start \in Int /\ d.end \in Int /\ d.subspan \in subs /\ d.end <= lim /\ 0 <= d.start
      /\ lim \in Int
  BY SpanFields, Numbers
<1>2. x.start = d.start /\ x.end = st /\ x.subspan = d.subspan
  BY SpanIs
<1>3. y.start = en /\ y.end = d.end /\ y.subspan = d.subspan
  BY SpanIs
<1>4. d.start < st => x \in S
  <2>1. d.start < st => 0 <= d.start /\ st <= lim
    BY <1>1
  <2> QED  BY <1>1, <2>1, SpanMade
<1>5. en < d.end => y \in S
  <2>1. en < d.end => 0 <= en
    BY <1>1
  <2> QED  BY <1>1, <2>1, SpanMade
<1> HIDE DEF x, y, S
<1>6. /\ PartBefore(d, st) \in Seq(S) /\ Sorted(PartBefore(d, st))
      /\ Range(PartBefore(d, st)) = IF st > d.start THEN {x} ELSE {}
  <2>1. CASE st > d.start
    <3>1. PartBefore(d, st) = <<x>>
      BY <2>1 DEF PartBefore, x
    <3>2. x \in S
      BY <1>1, <1>4, <2>1
    <3> QED  BY <2>1, <3>1, <3>2, One
  <2>2. CASE ~(st > d.start)
    <3>1. PartBefore(d, st) = <<>>
      BY <2>2 DEF PartBefore
    <3> QED  BY <2>2, <3>1, None
  <2> QED  BY <2>1, <2>2
<1>7. /\ PartBehind(d, en) \in Seq(S) /\ Sorted(PartBehind(d, en))
      /\ Range(PartBehind(d, en)) = IF en < d.end THEN {y} ELSE {}
  <2>1. CASE en < d.end
    <3>1. PartBehind(d, en) = <<y>>
      BY <2>1 DEF PartBehind, y
    <3>2. y \in S
      BY <1>1, <1>5, <2>1
    <3> QED  BY <2>1, <3>1, <3>2, One
  <2>2. CASE ~(en < d.end)
    <3>1. PartBehind(d, en) = <<>>
      BY <2>2 DEF PartBehind
    <3> QED  BY <2>2, <3>1, None
  <2> QED  BY <2>1, <2>2
<1>8. ASSUME NEW p \in Int, NEW q \in Int
      PROVE  Has(PartBefore(d, st), p, q) <=> Covers(d, p, q) /\ p < st
  <2>1. Has(PartBefore(d, st), p, q) <=> st > d.start /\ Covers(x, p, q)
    BY <1>6 DEF Has
  <2> QED  BY <2>1, <1>1, <1>2 DEF Covers
<1>9. ASSUME NEW p \in Int, NEW q \in Int
      PROVE  Has(PartBehind(d, en), p, q) <=> Covers(d, p, q) /\ p >= en
  <2>1. Has(PartBehind(d, en), p, q) <=> en < d.end /\ Covers(y, p, q)
    BY <1>7 DEF Has
  <2> QED  BY <2>1, <1>1, <1>3 DEF Covers
<1>10. \A v \in Range(PartBefore(d, st)) : v.start = d.start /\ v.end = st /\ st > d.start
  BY <1>6, <1>2
<1>11. \A v \in Range(PartBehind(d, en)) : v.start = en /\ v.end = d.end /\ en < d.end
  BY <1>7, <1>3
<1> QED  BY <1>6, <1>7, <1>8, <1>9, <1>10, <1>11 DEF S

\* Where d_curr starts and ends after it has been cut.
From(d, start) == IF start > d.start THEN start ELSE d.start
To(d, end) == IF end < d.end THEN end ELSE d.end

Isolated(c, a, start, end) ==
  /\ InOrder(a) /\ a.rest # <<>> /\ a.src = c.src
  /\ Dest(a) = Span(From(Dest(c), start), To(Dest(c), end), Dest(c).subspan)
  /\ Range(c.done) \subseteq Range(a.done)
  /\ \A x \in Range(a.done) : x \in Range(c.done) \/ x.end = start
  /\ \A p, q \in Int : Has(a.done, p, q)
                       <=> Has(c.done, p, q) \/ (Covers(Dest(c), p, q) /\ p < From(Dest(c), start))
  /\ \A p, q \in Int : Has(Tail(a.rest), p, q)
                       <=> Has(Tail(c.rest), p, q) \/ (Covers(Dest(c), p, q) /\ p >= To(Dest(c), end))
  /\ \A p, q \in Int : Covers(Dest(a), p, q)
                       <=> /\ Covers(Dest(c), p, q)
                           /\ From(Dest(c), start) <= p /\ p < To(Dest(c), end)

\* The same for the parts of a list: those before d_curr and those behind it.
LEMMA CutList ==
  ASSUME NEW lim \in Limits, NEW subs, NEW odd, NEW flats,
         NEW d \in Spans(lim, subs, odd, flats), d.start <= d.end,
         NEW x \in Seq(Spans(lim, subs, odd, flats)), NEW y \in Seq(Spans(lim, subs, odd, flats)),
         Sorted(x), Sorted(y), Before(x, y),
         \A v \in Range(x) : v.end <= d.start, \A v \in Range(y) : d.end <= v.start,
         NEW start \in Int, NEW end \in Int, start < d.end, d.start < end, start <= end,
         start = end => Allowed(flats)
  PROVE  LET e == Span(From(d, start), To(d, end), d.subspan)
             xs == x \o PartBefore(d, start)
             ys == PartBehind(d, end) \o y
         IN  /\ e \in Spans(lim, subs, odd, flats)
             /\ xs \in Seq(Spans(lim, subs, odd, flats)) /\ ys \in Seq(Spans(lim, subs, odd, flats))
             /\ Sorted(xs) /\ Sorted(ys) /\ Before(xs, ys)
             /\ \A v \in Range(xs) : v.end <= e.start
             /\ \A v \in Range(ys) : e.end <= v.start
             /\ Range(x) \subseteq Range(xs)
             /\ \A v \in Range(xs) : v \in Range(x) \/ v.end = start
             /\ \A p, q \in Int :
                  Has(xs, p, q) <=> Has(x, p, q) \/ (Covers(d, p, q) /\ p < From(d, start))
             /\ \A p, q \in Int :
                  Has(ys, p, q) <=> Has(y, p, q) \/ (Covers(d, p, q) /\ p >= To(d, end))
             /\ \A p, q \in Int : Covers(e, p, q) <=> /\ Covers(d, p, q)
                                                     /\ From(d, start) <= p /\ p < To(d, end)
<1> DEFINE S == Spans(lim, subs, odd, flats)
           e == Span(From(d, start), To(d, end), d.subspan)
           b == PartBefore(d, start)
           r == PartBehind(d, end)
           xs == x \o b
           ys == r \o y
<1>1. /\ d.start \in Int /\ d.end \in Int /\ d.subspan \in subs /\ d.end <= lim /\ 0 <= d.start
      /\ lim \in Int
  BY SpanFields, Numbers
<1>2. /\ b \in Seq(S) /\ Sorted(b) /\ r \in Seq(S) /\ Sorted(r)
      /\ \A v \in Range(b) : v.start = d.start /\ v.end = start /\ start > d.start
      /\ \A v \in Range(r) : v.start = end /\ v.end = d.end /\ end < d.end
      /\ \A p, q \in Int : Has(b, p, q) <=> Covers(d, p, q) /\ p < start
      /\ \A p, q \in Int : Has(r, p, q) <=> Covers(d, p, q) /\ p >= end
  BY PartsCut
<1>3. /\ From(d, start) \in Int /\ To(d, end) \in Int /\ From(d, start) <= To(d, end)
      /\ From(d, start) = To(d, end) => Allowed(flats)
      /\ From(d, start) >= d.start /\ To(d, end) <= d.end
      /\ start > d.start => From(d, start) = start
      /\ end < d.end => To(d, end) = end
      /\ start <= From(d, start) /\ To(d, end) <= end
      /\ ~(start > d.start) => From(d, start) = d.start
      /\ ~(end < d.end) => To(d, end) = d.end
  <2>1. d.start = d.end => Allowed(flats)
    BY SpanFields
  <2> QED  BY <1>1, <2>1 DEF From, To
<1>4. e \in S
  <2>1. 0 <= From(d, start) /\ To(d, end) <= lim
    BY <1>1, <1>3
  <2> QED  BY <1>1, <1>3, <2>1, SpanMade
<1>5. e.start = From(d, start) /\ e.end = To(d, end) /\ e.subspan = d.subspan
  BY SpanIs
<1> HIDE DEF e, b, r, S
<1>6. \A v \in Range(b) : v.end <= e.start
  BY <1>1, <1>2, <1>3, <1>5
<1>7. \A v \in Range(x) : v.end <= e.start
  <2> TAKE v \in Range(x)
  <2>1. v \in S
    BY InRange DEF S
  <2>2. v.end \in Int
    BY <2>1, SpanFields DEF S
  <2>3. v.end <= d.start
    OBVIOUS
  <2> QED  BY <2>2, <2>3, <1>1, <1>3, <1>5
<1>8. \A v \in Range(r) : e.end <= v.start
  BY <1>1, <1>2, <1>3, <1>5
<1>9. \A v \in Range(y) : e.end <= v.start
  <2> TAKE v \in Range(y)
  <2>1. v \in S
    BY InRange DEF S
  <2>2. v.start \in Int
    BY <2>1, SpanFields DEF S
  <2>3. d.end <= v.start
    OBVIOUS
  <2> QED  BY <2>2, <2>3, <1>1, <1>3, <1>5
<1>10. x \in Seq(S) /\ y \in Seq(S)
  BY DEF S
<1>11. /\ xs \in Seq(S) /\ Range(xs) = Range(x) \cup Range(b)
       /\ Sorted(xs) <=> Sorted(x) /\ Sorted(b) /\ Before(x, b)
  BY <1>2, <1>10, Concatenating
<1>12. /\ ys \in Seq(S) /\ Range(ys) = Range(r) \cup Range(y)
       /\ Sorted(ys) <=> Sorted(r) /\ Sorted(y) /\ Before(r, y)
  BY <1>2, <1>10, Concatenating
<1> HIDE DEF xs, ys
<1>13. Sorted(xs)
  <2>1. Before(x, b)
    BY <1>2 DEF Before
  <2> QED  BY <1>2, <1>11, <2>1
<1>14. Sorted(ys)
  <2>1. Before(r, y)
    BY <1>2 DEF Before
  <2> QED  BY <1>2, <1>12, <2>1
<1>15. /\ \A v \in Range(xs) : v.end <= e.start
       /\ \A v \in Range(ys) : e.end <= v.start
  BY <1>6, <1>7, <1>8, <1>9, <1>11, <1>12
<1>16. Before(xs, ys)
  <2> SUFFICES ASSUME NEW u \in Range(xs), NEW v \in Range(ys) PROVE u.end <= v.start
    BY DEF Before
  <2>1. u \in S /\ v \in S
    BY <1>11, <1>12, InRange
  <2>2. u.end \in Int /\ v.start \in Int
    BY <2>1, SpanFields DEF S
  <2>3. u.end <= e.start /\ e.end <= v.start
    BY <1>15
  <2> QED  BY <2>2, <2>3, <1>3, <1>5
<1>17. Range(x) \subseteq Range(xs) /\ \A v \in Range(xs) : v \in Range(x) \/ v.end = start
  BY <1>2, <1>11
<1>18. ASSUME NEW p \in Int, NEW q \in Int
       PROVE  Has(xs, p, q) <=> Has(x, p, q) \/ (Covers(d, p, q) /\ p < From(d, start))
  <2>1. Has(xs, p, q) <=> Has(x, p, q) \/ Has(b, p, q)
    BY <1>11 DEF Has
  <2>2. Covers(d, p, q) => (p < start <=> p < From(d, start))
    BY <1>1, <1>3 DEF Covers
  <2> QED  BY <2>1, <2>2, <1>2
<1>19. ASSUME NEW p \in Int, NEW q \in Int
       PROVE  Has(ys, p, q) <=> Has(y, p, q) \/ (Covers(d, p, q) /\ p >= To(d, end))
  <2>1. Has(ys, p, q) <=> Has(y, p, q) \/ Has(r, p, q)
    BY <1>12 DEF Has
  <2>2. Covers(d, p, q) => (p >= end <=> p >= To(d, end))
    BY <1>1, <1>3 DEF Covers
  <2> QED  BY <2>1, <2>2, <1>2
<1>20. ASSUME NEW p \in Int, NEW q \in Int
       PROVE  Covers(e, p, q) <=> /\ Covers(d, p, q)
                                  /\ From(d, start) <= p /\ p < To(d, end)
  BY <1>1, <1>3, <1>5, SMTT(30) DEF Covers
<1> QED  BY <1>4, <1>11, <1>12, <1>13, <1>14, <1>15, <1>16, <1>17, <1>18, <1>19, <1>20
         DEF S, e, b, r, xs, ys

LEMMA IsolateFacts ==
  ASSUME NEW lim \in Limits, NEW subs, NEW odd, NEW flats,
         NEW c \in Cursors(Spans(lim, subs, odd, flats)),
         c.rest # <<>>, InOrder(c), Dest(c).start <= Dest(c).end,
         NEW start \in Int, NEW end \in Int,
         start < Dest(c).end, Dest(c).start < end, start <= end, start = end => Allowed(flats)
  PROVE  /\ Isolate(c, start, end) \in Cursors(Spans(lim, subs, odd, flats))
         /\ Isolated(c, Isolate(c, start, end), start, end)
<1> DEFINE S == Spans(lim, subs, odd, flats)
           a == Isolate(c, start, end)
           d == Dest(c)
           x == c.done
           y == Tail(c.rest)
           e == Span(From(d, start), To(d, end), d.subspan)
           xs == x \o PartBefore(d, start)
           ys == PartBehind(d, end) \o y
<1>1. x \in Seq(S) /\ c.rest \in Seq(S) /\ c.src \in Seq(S)
  BY CursorParts
<1>2. /\ d \in S /\ y \in Seq(S) /\ Range(c.rest) = {d} \cup Range(y)
      /\ Sorted(c.rest) <=> Sorted(y) /\ \A v \in Range(y) : d.end <= v.start
  BY <1>1, HeadAndTail DEF Dest
<1>3. a = Cursor(xs, <<e>> \o ys, c.src)
  <2> DEFINE before == IF start > d.start THEN <<[d EXCEPT !.end = start]>> ELSE <<>>
             behind == IF end < d.end THEN <<[d EXCEPT !.start = end]>> ELSE <<>>
             between == [d EXCEPT !.start = IF start > @ THEN start ELSE @,
                                  !.end = IF end < @ THEN end ELSE @]
             z == <<between>> \o (behind \o y)
  <2>1. a = [c EXCEPT !.done = x \o before, !.rest = z]
    BY <1>1 DEF Isolate
  <2>2. [d EXCEPT !.end = start] = Span(d.start, start, d.subspan)
        /\ [d EXCEPT !.start = end] = Span(end, d.end, d.subspan)
    <3> HIDE DEF d
    <3>1. d \in Spans(lim, subs, odd, flats)
      BY <1>2
    <3>2. [d EXCEPT !.end = start] = Span(d.start, start, d.subspan)
      BY <3>1 DEF Spans, Span
    <3>3. [d EXCEPT !.start = end] = Span(end, d.end, d.subspan)
      BY <3>1 DEF Spans, Span
    <3> QED  BY <3>2, <3>3
  <2>3. before = PartBefore(d, start) /\ behind = PartBehind(d, end)
    BY <2>2 DEF PartBefore, PartBehind
  <2>4. between = e
    <3> DEFINE u == From(d, start)
               v == To(d, end)
    <3>1. between = [d EXCEPT !.start = u, !.end = v]
      BY <1>2 DEF From, To, Spans
    <3> HIDE DEF u, v, d
    <3>2. d \in [start : Int, end : Int, subspan : subs]
      BY <1>2 DEF Spans
    <3>3. [d EXCEPT !.start = u, !.end = v] = Span(u, v, d.subspan)
      BY <3>2, SpanReplaced
    <3> QED  BY <3>1, <3>3 DEF u, v
  <2> DEFINE dn == x \o before
  <2> HIDE DEF dn, z
  <2>5. [c EXCEPT !.done = dn, !.rest = z] = Cursor(dn, z, c.src)
    BY CursorReplaced
  <2>6. a = Cursor(dn, z, c.src)
    BY <2>1, <2>5 DEF dn
  <2> HIDE DEF before, behind, between, e, a
  <2> QED  BY <2>3, <2>4, <2>6 DEF dn, z
<1>4. Sorted(x) /\ Sorted(y) /\ Before(x, y)
      /\ (\A v \in Range(x) : v.end <= d.start) /\ (\A v \in Range(y) : d.end <= v.start)
  <2> HIDE DEF d, y
  <2> QED  BY <1>2 DEF InOrder, Before
<1> HIDE DEF d, y
<1>5. /\ e \in S
      /\ xs \in Seq(S) /\ ys \in Seq(S)
      /\ Sorted(xs) /\ Sorted(ys) /\ Before(xs, ys)
      /\ \A v \in Range(xs) : v.end <= e.start
      /\ \A v \in Range(ys) : e.end <= v.start
      /\ Range(x) \subseteq Range(xs)
      /\ \A v \in Range(xs) : v \in Range(x) \/ v.end = start
      /\ \A p, q \in Int : Has(xs, p, q) <=> Has(x, p, q) \/ (Covers(d, p, q) /\ p < From(d, start))
      /\ \A p, q \in Int : Has(ys, p, q) <=> Has(y, p, q) \/ (Covers(d, p, q) /\ p >= To(d, end))
      /\ \A p, q \in Int : Covers(e, p, q) <=> /\ Covers(d, p, q)
                                              /\ From(d, start) <= p /\ p < To(d, end)
  <2>1. /\ d \in Spans(lim, subs, odd, flats) /\ d.start <= d.end
        /\ x \in Seq(Spans(lim, subs, odd, flats)) /\ y \in Seq(Spans(lim, subs, odd, flats))
        /\ start < d.end /\ d.start < end
    BY <1>1, <1>2 DEF d
  <2>2. start <= end /\ (start = end => Allowed(flats))
    OBVIOUS
  <2> HIDE DEF x
  <2> QED  BY <1>4, <2>1, <2>2, CutList, ZenonT(60)
<1> HIDE DEF e, xs, ys, S, a
<1>6. a.done = xs /\ a.rest = <<e>> \o ys /\ a.src = c.src
  BY <1>3 DEF Cursor
<1>7. /\ <<e>> \o ys \in Seq(S) /\ a.rest # <<>> /\ Dest(a) = e /\ Tail(a.rest) = ys
      /\ Range(a.rest) = {e} \cup Range(ys) /\ Sorted(a.rest)
  <2>1. /\ <<e>> \o ys \in Seq(S) /\ <<e>> \o ys # <<>>
        /\ Head(<<e>> \o ys) = e /\ Tail(<<e>> \o ys) = ys
        /\ Range(<<e>> \o ys) = {e} \cup Range(ys)
        /\ Sorted(<<e>> \o ys) <=> Sorted(ys) /\ \A v \in Range(ys) : e.end <= v.start
    BY <1>5, Consing
  <2> DEFINE z == <<e>> \o ys
  <2>2. Sorted(z)
    BY <2>1, <1>5
  <2> HIDE DEF z
  <2>3. a.rest = z
    BY <1>6 DEF z
  <2> QED  BY <2>1, <2>2, <2>3 DEF z, Dest
<1>8. a \in Cursors(S)
  BY <1>1, <1>3, <1>5, <1>7, CursorMade
<1>9. InOrder(a)
  BY <1>5, <1>6, <1>7 DEF InOrder, Before
<1>10. Isolated(c, a, start, end)
  BY <1>5, <1>6, <1>7, <1>9 DEF Isolated, d, y, e
<1> QED  BY <1>8, <1>10 DEF a, S

-----------------------------------------------------------------------------
(* Cursors: where what their parts cover is, and single steps. *)

LEMMA HasBefore ==
  ASSUME NEW lim \in Limits, NEW subs, NEW odd, NEW flats,
         NEW l \in Seq(Spans(lim, subs, odd, flats)),
         NEW b \in Int, \A v \in Range(l) : v.end <= b, NEW p \in Int, NEW q \in Int, Has(l, p, q)
  PROVE  p < b
<1>1. PICK v \in Range(l) : Covers(v, p, q)
  BY DEF Has
<1>2. v \in Spans(lim, subs, odd, flats)
  BY InRange
<1>3. v.end \in Int
  BY <1>2, SpanFields
<1>4. p < v.end /\ v.end <= b
  BY <1>1 DEF Covers
<1> QED  BY <1>3, <1>4

LEMMA HasBehind ==
  ASSUME NEW lim \in Limits, NEW subs, NEW odd, NEW flats,
         NEW l \in Seq(Spans(lim, subs, odd, flats)),
         NEW b \in Int, \A v \in Range(l) : b <= v.start, NEW p \in Int, NEW q \in Int, Has(l, p, q)
  PROVE  b <= p
<1>1. PICK v \in Range(l) : Covers(v, p, q)
  BY DEF Has
<1>2. v \in Spans(lim, subs, odd, flats)
  BY InRange
<1>3. v.start \in Int
  BY <1>2, SpanFields
<1>4. v.start <= p /\ b <= v.start
  BY <1>1 DEF Covers
<1> QED  BY <1>3, <1>4

\* What a span follows, the spans that follow that one follow too, also if it
\* is an inverted one.
LEMMA Follows ==
  ASSUME NEW lim \in Limits, NEW subs, NEW odd, NEW flats, NEW u \in Spans(lim, subs, odd, flats),
         NEW v \in Spans(lim, subs, odd, flats), NEW w \in Spans(lim, subs, odd, flats),
         u.end <= v.start, v.end <= w.start
  PROVE  u.end <= w.start
<1>1. /\ u.end \in Int /\ v.start \in Int /\ v.end \in Int /\ w.start \in Int
      /\ u.end <= lim /\ lim \in Int
      /\ v.start > v.end => v.end = lim
  BY SpanFields, Numbers
<1> QED  BY <1>1

\* d_curr and the parts of the list before and behind it.
LEMMA Around ==
  ASSUME NEW lim \in Limits, NEW subs, NEW odd, NEW flats,
         NEW c \in Cursors(Spans(lim, subs, odd, flats)),
         c.rest # <<>>, InOrder(c)
  PROVE  /\ Dest(c) \in Spans(lim, subs, odd, flats)
         /\ Tail(c.rest) \in Seq(Spans(lim, subs, odd, flats))
         /\ c.rest = <<Dest(c)>> \o Tail(c.rest)
         /\ Range(c.rest) = {Dest(c)} \cup Range(Tail(c.rest))
         /\ Sorted(c.done) /\ Sorted(Tail(c.rest)) /\ Before(c.done, Tail(c.rest))
         /\ \A v \in Range(c.done) : v.end <= Dest(c).start
         /\ \A v \in Range(Tail(c.rest)) : Dest(c).end <= v.start
         /\ \A p, q : Has(c.rest, p, q) <=> Covers(Dest(c), p, q) \/ Has(Tail(c.rest), p, q)
<1> DEFINE S == Spans(lim, subs, odd, flats)
           l == c.rest
<1>1. c.done \in Seq(S) /\ l \in Seq(S) /\ l # <<>>
  BY CursorParts
<1> HIDE DEF S, l
<1>2. /\ Head(l) \in S /\ Tail(l) \in Seq(S)
      /\ l = <<Head(l)>> \o Tail(l)
      /\ Range(l) = {Head(l)} \cup Range(Tail(l))
      /\ Sorted(l) <=> Sorted(Tail(l)) /\ \A y \in Range(Tail(l)) : Head(l).end <= y.start
  BY <1>1, HeadAndTail
<1>3. Sorted(c.done) /\ Sorted(l) /\ Before(c.done, l)
  BY DEF InOrder, l
<1>4. /\ Sorted(Tail(l)) /\ Before(c.done, Tail(l))
      /\ \A v \in Range(c.done) : v.end <= Head(l).start
      /\ \A v \in Range(Tail(l)) : Head(l).end <= v.start
  BY <1>2, <1>3 DEF Before
<1>5. \A p, q : Has(l, p, q) <=> Covers(Head(l), p, q) \/ Has(Tail(l), p, q)
  BY <1>2 DEF Has
<1> QED  BY <1>1, <1>2, <1>3, <1>4, <1>5 DEF S, l, Dest

\* The same for s_curr and the spans behind it.
LEMMA Sources ==
  ASSUME NEW lim \in Limits, NEW subs, NEW odd, NEW flats,
         NEW c \in Cursors(Spans(lim, subs, odd, flats)),
         c.src # <<>>, Sorted(c.src)
  PROVE  /\ Source(c) \in Spans(lim, subs, odd, flats)
         /\ Tail(c.src) \in Seq(Spans(lim, subs, odd, flats))
         /\ Sorted(Tail(c.src))
         /\ Range(c.src) = {Source(c)} \cup Range(Tail(c.src))
         /\ \A v \in Range(Tail(c.src)) : Source(c).end <= v.start
         /\ \A p, q : Has(c.src, p, q) <=> Covers(Source(c), p, q) \/ Has(Tail(c.src), p, q)
<1> DEFINE S == Spans(lim, subs, odd, flats)
           l == c.src
<1>1. l \in Seq(S) /\ l # <<>> /\ Sorted(l)
  BY CursorParts
<1> HIDE DEF S, l
<1>2. /\ Head(l) \in S /\ Tail(l) \in Seq(S)
      /\ Range(l) = {Head(l)} \cup Range(Tail(l))
      /\ Sorted(l) <=> Sorted(Tail(l)) /\ \A y \in Range(Tail(l)) : Head(l).end <= y.start
  BY <1>1, HeadAndTail
<1>3. \A p, q : Has(l, p, q) <=> Covers(Head(l), p, q) \/ Has(Tail(l), p, q)
  BY <1>2 DEF Has
<1> QED  BY <1>1, <1>2, <1>3 DEF S, l, Source

LEMMA Steps ==
  ASSUME NEW S, NEW c \in Cursors(S), NEW e
  PROVE  /\ NextSource(c) = Cursor(c.done, c.rest, Tail(c.src))
         /\ Skip(c) = Cursor(Append(c.done, Dest(c)), Tail(c.rest), c.src)
         /\ Destroy(c) = Cursor(c.done, Tail(c.rest), c.src)
         /\ InsertBefore(c, e) = Cursor(Append(c.done, e), c.rest, c.src)
<1>1. c \in [done : Seq(S), rest : Seq(S), src : Seq(S)]
  BY DEF Cursors
<1>2. NextSource(c) = Cursor(c.done, c.rest, Tail(c.src))
  <2> DEFINE z == Tail(c.src)
  <2>1. NextSource(c) = [c EXCEPT !.src = z]
    BY <1>1 DEF NextSource
  <2> HIDE DEF z
  <2> QED  BY <2>1, CursorChanged DEF z
<1>3. Skip(c) = Cursor(Append(c.done, Dest(c)), Tail(c.rest), c.src)
  <2> DEFINE x == Append(c.done, Dest(c))
             y == Tail(c.rest)
  <2>1. Skip(c) = [c EXCEPT !.done = x, !.rest = y]
    BY <1>1 DEF Skip
  <2> HIDE DEF x, y
  <2>2. [c EXCEPT !.done = x, !.rest = y] = Cursor(x, y, c.src)
    BY CursorReplaced
  <2> QED  BY <2>1, <2>2 DEF x, y
<1>4. Destroy(c) = Cursor(c.done, Tail(c.rest), c.src)
  <2> DEFINE z == Tail(c.rest)
  <2>1. Destroy(c) = [c EXCEPT !.rest = z]
    BY <1>1 DEF Destroy
  <2> HIDE DEF z
  <2> QED  BY <2>1, CursorChanged DEF z
<1>5. InsertBefore(c, e) = Cursor(Append(c.done, e), c.rest, c.src)
  <2> DEFINE z == Append(c.done, e)
  <2>1. InsertBefore(c, e) = [c EXCEPT !.done = z]
    BY <1>1 DEF InsertBefore
  <2> HIDE DEF z
  <2> QED  BY <2>1, CursorChanged DEF z
<1> QED  BY <1>2, <1>3, <1>4, <1>5

LEMMA SetSubspanFacts ==
  ASSUME NEW lim \in Limits, NEW subs, NEW odd, NEW flats,
         NEW c \in Cursors(Spans(lim, subs, odd, flats)),
         c.rest # <<>>, InOrder(c), Dest(c).start <= Dest(c).end, NEW sub \in subs
  PROVE  LET a == SetSubspan(c, sub) IN
         /\ a \in Cursors(Spans(lim, subs, odd, flats)) /\ a.rest # <<>> /\ InOrder(a)
         /\ a.done = c.done /\ a.src = c.src /\ Tail(a.rest) = Tail(c.rest)
         /\ Dest(a) = Span(Dest(c).start, Dest(c).end, sub)
<1> DEFINE S == Spans(lim, subs, odd, flats)
           a == SetSubspan(c, sub)
           d == Dest(c)
           y == Tail(c.rest)
           e == Span(d.start, d.end, sub)
           z == <<e>> \o y
<1>1. d \in S /\ y \in Seq(S) /\ c.done \in Seq(S) /\ c.src \in Seq(S)
      /\ Sorted(c.done) /\ Sorted(y) /\ Before(c.done, y)
      /\ (\A v \in Range(c.done) : v.end <= d.start) /\ (\A v \in Range(y) : d.end <= v.start)
  BY Around, CursorParts
<1>2. a = Cursor(c.done, z, c.src)
  <2>1. [d EXCEPT !.subspan = sub] = e
    <3> HIDE DEF d
    <3>1. d \in [start : Int, end : Int, subspan : subs]
      BY <1>1 DEF Spans
    <3> QED  BY <3>1 DEF Span
  <2>2. a = [c EXCEPT !.rest = z]
    BY <2>1 DEF SetSubspan
  <2> HIDE DEF z, a
  <2> QED  BY <2>2, CursorChanged
<1> HIDE DEF d, y
<1>3. e \in S /\ e.start = d.start /\ e.end = d.end
  <2>1. /\ d.start \in Int /\ d.end \in Int /\ 0 <= d.start /\ d.start <= d.end /\ d.end <= lim
        /\ d.start = d.end => Allowed(flats)
    <3>1. d.start <= d.end
      BY DEF d
    <3> QED  BY <1>1, <3>1, SpanFields
  <2> QED  BY <2>1, SpanMade, SpanIs
<1> HIDE DEF e, S, a
<1>4. /\ z \in Seq(S) /\ z # <<>> /\ Head(z) = e /\ Tail(z) = y
      /\ Range(z) = {e} \cup Range(y)
      /\ Sorted(z) <=> Sorted(y) /\ \A v \in Range(y) : e.end <= v.start
  BY <1>1, <1>3, Consing
<1> HIDE DEF z
<1>5. a.done = c.done /\ a.rest = z /\ a.src = c.src
  BY <1>2 DEF Cursor
<1>6. a \in Cursors(S)
  BY <1>1, <1>2, <1>4, CursorMade
<1>7. InOrder(a)
  <2>1. Sorted(z)
    BY <1>1, <1>3, <1>4
  <2>2. Before(c.done, z)
    BY <1>1, <1>3, <1>4 DEF Before
  <2> QED  BY <1>1, <1>5, <2>1, <2>2 DEF InOrder
<1> QED  BY <1>4, <1>5, <1>6, <1>7 DEF a, S, e, d, y, Dest

-----------------------------------------------------------------------------
(* Walks. *)

Adding == {"Mark", "Request"}

\* What the lists of a walk stand for together: the walk is to make its first
\* list stand for it alone.
Stands(t, x, y, z, p, q) ==
  IF t \in Adding THEN Has(x, p, q) \/ Has(y, p, q) \/ Has(z, p, q)
  ELSE IF t = "Intersect" THEN Has(x, p, q) \/ (Has(y, p, q) /\ Has(z, p, q))
  ELSE Has(x, p, q) \/ (Has(y, p, q) /\ ~Has(z, p, q))

\* A walk for task t over x and y, at the top of its loop.
Going(t, S, x, y, c) ==
  /\ c \in Cursors(S) /\ InOrder(c) /\ Sorted(c.src)
  /\ t \in Adding => Before(c.done, c.src)
  /\ t \notin Adding => Plain(c.src)
  /\ t = "Intersect" => Plain(c.done)
  /\ t \in Adding /\ x # <<>> => c.done # <<>> \/ c.rest # <<>>
  /\ \A p, q \in Int : Stands(t, c.done, c.rest, c.src, p, q) <=> Stands(t, <<>>, x, y, p, q)

\* The same walk while it waits for the call for the subspans of d_curr, cut
\* to lie within s_curr.
Cut(t, S, x, y, c) ==
  /\ c \in Cursors(S) /\ InOrder(c) /\ Sorted(c.src)
  /\ c.rest # <<>> /\ c.src # <<>>
  /\ Source(c).start <= Dest(c).start /\ Dest(c).start <= Dest(c).end
  /\ Dest(c).end <= Source(c).end
  /\ \E e \in S : Dest(c).start < e.end
  /\ t \in Adding => \A p, q \in Int : Covers(Source(c), p, q) /\ p < Dest(c).start
                                        => Has(c.done, p, q)
  /\ t \notin Adding => Plain(c.src)
  /\ t = "Intersect" => Plain(c.done)
  /\ \A p, q \in Int : Stands(t, c.done, c.rest, c.src, p, q) <=> Stands(t, <<>>, x, y, p, q)

\* What that call returns.
Returned(t, subs, x, y, r) ==
  IF t \in Adding
  THEN r \in subs /\ \A q \in Int : In(r, q) <=> In(x, q) \/ In(y, q)
  ELSE IF t = "Intersect"
  THEN IF x # NULL /\ r = <<>> THEN \A q \in Int : ~(In(x, q) /\ In(y, q))
       ELSE r \in subs /\ \A q \in Int : In(r, q) <=> In(x, q) /\ In(y, q)
  ELSE IF r = <<>> THEN \A q \in Int : In(x, q) => In(y, q)
       ELSE r \in subs /\ \A q \in Int : In(r, q) <=> In(x, q) /\ ~In(y, q)

\* What the parts of a list cut for its call cover, and where.
LEMMA CutPlaces ==
  ASSUME NEW lim \in Limits, NEW subs, NEW odd, NEW flats, NEW t, NEW x, NEW y, NEW c,
         Cut(t, Spans(lim, subs, odd, flats), x, y, c)
  PROVE  LET d == Dest(c)
             s == Source(c)
         IN  /\ d.start \in Int /\ d.end \in Int /\ s.start \in Int /\ s.end \in Int
             /\ s.start <= d.start /\ d.start <= d.end /\ d.end <= s.end
             /\ d.start < lim /\ lim \in Int
             /\ s.subspan \in subs /\ 0 <= s.start /\ s.end <= lim
             /\ \A p, q \in Int :
                  /\ Has(c.done, p, q) => p < d.start
                  /\ Has(Tail(c.rest), p, q) => d.end <= p
                  /\ Has(Tail(c.src), p, q) => s.end <= p
                  /\ Has(c.rest, p, q) <=> Covers(d, p, q) \/ Has(Tail(c.rest), p, q)
                  /\ Has(c.src, p, q) <=> Covers(s, p, q) \/ Has(Tail(c.src), p, q)
<1> DEFINE S == Spans(lim, subs, odd, flats)
           d == Dest(c)
           s == Source(c)
<1>1. /\ c \in Cursors(S) /\ InOrder(c) /\ Sorted(c.src) /\ c.rest # <<>> /\ c.src # <<>>
      /\ s.start <= d.start /\ d.start <= d.end /\ d.end <= s.end
      /\ \E e \in S : d.start < e.end
  BY DEF Cut
<1>2. /\ d \in S /\ Tail(c.rest) \in Seq(S)
      /\ \A v \in Range(c.done) : v.end <= d.start
      /\ \A v \in Range(Tail(c.rest)) : d.end <= v.start
      /\ \A p, q : Has(c.rest, p, q) <=> Covers(d, p, q) \/ Has(Tail(c.rest), p, q)
  BY <1>1, Around
<1>3. /\ s \in S /\ Tail(c.src) \in Seq(S)
      /\ \A v \in Range(Tail(c.src)) : s.end <= v.start
      /\ \A p, q : Has(c.src, p, q) <=> Covers(s, p, q) \/ Has(Tail(c.src), p, q)
  BY <1>1, Sources
<1>4. c.done \in Seq(S)
  BY <1>1, CursorParts
<1> HIDE DEF d, s
<1>5. /\ d.start \in Int /\ d.end \in Int /\ s.start \in Int /\ s.end \in Int
      /\ s.subspan \in subs /\ s.end <= lim
      /\ s.start <= s.end => 0 <= s.start
  BY <1>2, <1>3, SpanFields
<1>6. 0 <= s.start /\ d.start < lim /\ lim \in Int
  <2>1. PICK e \in S : d.start < e.end
    BY <1>1
  <2>2. e.end \in Int /\ e.end <= lim /\ lim \in Int
    BY SpanFields, Numbers
  <2> QED  BY <1>1, <1>5, <2>1, <2>2
<1>7. ASSUME NEW p \in Int, NEW q \in Int
      PROVE  /\ Has(c.done, p, q) => p < d.start
             /\ Has(Tail(c.rest), p, q) => d.end <= p
             /\ Has(Tail(c.src), p, q) => s.end <= p
  <2>1. Has(c.done, p, q) => p < d.start
    BY <1>2, <1>4, <1>5, HasBefore
  <2>2. Has(Tail(c.rest), p, q) => d.end <= p
    BY <1>2, <1>5, HasBehind
  <2>3. Has(Tail(c.src), p, q) => s.end <= p
    BY <1>3, <1>5, HasBehind
  <2> QED  BY <2>1, <2>2, <2>3
<1> QED  BY <1>1, <1>2, <1>3, <1>5, <1>6, <1>7 DEF d, s

-----------------------------------------------------------------------------
(* sraSpanListOr. *)

\* s_curr has been added, and the walk goes on with the next.
LEMMA AddedNext ==
  ASSUME NEW lim \in Limits, NEW subs, NEW odd, NEW flats, NEW t \in Adding, NEW x, NEW y,
         NEW c, Going(t, Spans(lim, subs, odd, flats), x, y, c), c.src # <<>>,
         NEW b \in Cursors(Spans(lim, subs, odd, flats)), InOrder(b), b.src = c.src,
         Range(b.done) \subseteq Range(c.done) \cup {Source(c)}, b.done # <<>> \/ b.rest # <<>>,
         \A p, q \in Int : Holds(b, p, q) <=> Holds(c, p, q) \/ Covers(Source(c), p, q)
  PROVE  Going(t, Spans(lim, subs, odd, flats), x, y, NextSource(b))
<1> DEFINE S == Spans(lim, subs, odd, flats)
           a == NextSource(b)
           s == Source(c)
           z == Tail(c.src)
<1>1. c \in Cursors(S) /\ Sorted(c.src) /\ Before(c.done, c.src)
      /\ \A p, q \in Int : Stands(t, c.done, c.rest, c.src, p, q) <=> Stands(t, <<>>, x, y, p, q)
  BY DEF Going
<1>2. /\ s \in S /\ z \in Seq(S) /\ Sorted(z)
      /\ Range(c.src) = {s} \cup Range(z)
      /\ \A v \in Range(z) : s.end <= v.start
      /\ \A p, q : Has(c.src, p, q) <=> Covers(s, p, q) \/ Has(z, p, q)
  BY <1>1, Sources
<1>3. a = Cursor(b.done, b.rest, z)
  BY Steps
<1>4. b.done \in Seq(S) /\ b.rest \in Seq(S)
  BY CursorParts
<1> HIDE DEF S, a, s, z
<1>5. a.done = b.done /\ a.rest = b.rest /\ a.src = z
  BY <1>3 DEF Cursor
<1>6. a \in Cursors(S)
  BY <1>2, <1>3, <1>4, CursorMade
<1>7. InOrder(a)
  BY <1>5 DEF InOrder
<1>8. Before(a.done, a.src)
  <2>1. \A u \in Range(c.done), v \in Range(z) : u.end <= v.start
    BY <1>1, <1>2 DEF Before
  <2>2. Range(a.done) \subseteq Range(c.done) \cup {s}
    BY <1>5 DEF s
  <2> QED  BY <2>1, <2>2, <1>2, <1>5 DEF Before
<1>9. ASSUME NEW p \in Int, NEW q \in Int
      PROVE  Stands(t, a.done, a.rest, a.src, p, q) <=> Stands(t, <<>>, x, y, p, q)
  <2>1. Holds(b, p, q) <=> Holds(c, p, q) \/ Covers(s, p, q)
    BY DEF s
  <2>2. Stands(t, a.done, a.rest, a.src, p, q) <=> Stands(t, c.done, c.rest, c.src, p, q)
    BY <2>1, <1>2, <1>5 DEF Stands, Holds
  <2> QED  BY <2>2, <1>1
<1>10. t \notin Adding => FALSE
  OBVIOUS
<1>11. t # "Intersect"
  BY DEF Adding
<1> QED  BY <1>2, <1>5, <1>6, <1>7, <1>8, <1>9, <1>11 DEF Going, S, a

\* What InsertBefore makes of a list if the span fits in.
LEMMA Inserted ==
  ASSUME NEW S, NEW c \in Cursors(S), InOrder(c), NEW e \in S,
         \A v \in Range(c.done) : v.end <= e.start, \A v \in Range(c.rest) : e.end <= v.start
  PROVE  LET b == InsertBefore(c, e) IN
         /\ b \in Cursors(S) /\ InOrder(b) /\ b.src = c.src /\ b.rest = c.rest
         /\ Range(b.done) = Range(c.done) \cup {e}
         /\ \A p, q : Holds(b, p, q) <=> Holds(c, p, q) \/ Covers(e, p, q)
<1> DEFINE b == InsertBefore(c, e)
           n == Append(c.done, e)
<1>1. c.done \in Seq(S) /\ c.rest \in Seq(S) /\ c.src \in Seq(S)
  BY CursorParts
<1>2. b = Cursor(n, c.rest, c.src)
  BY Steps
<1>3. n \in Seq(S) /\ Range(n) = Range(c.done) \cup {e}
      /\ (Sorted(n) <=> Sorted(c.done) /\ \A v \in Range(c.done) : v.end <= e.start)
  BY <1>1, Appending
<1> HIDE DEF b, n
<1>4. b.done = n /\ b.rest = c.rest /\ b.src = c.src
  BY <1>2 DEF Cursor
<1>5. b \in Cursors(S)
  BY <1>1, <1>2, <1>3, CursorMade
<1>6. InOrder(b)
  BY <1>3, <1>4 DEF InOrder, Before
<1>7. \A p, q : Has(n, p, q) <=> Has(c.done, p, q) \/ Covers(e, p, q)
  BY <1>3 DEF Has
<1>8. \A p, q : Holds(b, p, q) <=> Holds(c, p, q) \/ Covers(e, p, q)
  BY <1>4, <1>7 DEF Holds
<1> QED  BY <1>3, <1>4, <1>5, <1>6, <1>8 DEF b

\* A span of the source that ends before what is left of the list is put there.
LEMMA OrAppended ==
  ASSUME NEW lim \in Limits, NEW subs, NEW odd, NEW flats, NEW t \in Adding, NEW x, NEW y,
         NEW c, Going(t, Spans(lim, subs, odd, flats), x, y, c), c.src # <<>>,
         \A v \in Range(c.rest) : Source(c).end <= v.start
  PROVE  Going(t, Spans(lim, subs, odd, flats), x, y, NextSource(InsertBefore(c, Source(c))))
<1> DEFINE S == Spans(lim, subs, odd, flats)
           s == Source(c)
           b == InsertBefore(c, s)
<1>1. c \in Cursors(S) /\ Sorted(c.src) /\ Before(c.done, c.src) /\ InOrder(c)
  BY DEF Going
<1>2. s \in S /\ Range(c.src) = {s} \cup Range(Tail(c.src))
  BY <1>1, Sources
<1>3. \A v \in Range(c.rest) : s.end <= v.start
  OBVIOUS
<1> HIDE DEF S, s, b
<1>4. \A v \in Range(c.done) : v.end <= s.start
  BY <1>1, <1>2 DEF Before
<1>5. /\ b \in Cursors(S) /\ InOrder(b) /\ b.src = c.src /\ b.rest = c.rest
      /\ Range(b.done) = Range(c.done) \cup {s}
      /\ \A p, q : Holds(b, p, q) <=> Holds(c, p, q) \/ Covers(s, p, q)
  BY <1>1, <1>2, <1>3, <1>4, Inserted DEF b
<1>6. b.done # <<>>
  BY <1>5, None
<1>7. Going(t, S, x, y, NextSource(b))
  BY <1>5, <1>6, AddedNext DEF S, s
<1> QED  BY <1>7 DEF S, s, b

\* The same where it may touch d_curr and be merged with it.
LEMMA OrInserted ==
  ASSUME NEW lim \in Limits, NEW subs, NEW odd, NEW flats, NEW t \in Adding, NEW x, NEW y,
         NEW c, Going(t, Spans(lim, subs, odd, flats), x, y, c), c.src # <<>>, c.rest # <<>>,
         Dest(c).start >= Source(c).end
  PROVE  Going(t, Spans(lim, subs, odd, flats), x, y,
               NextSource(MergePrevious(InsertBefore(c, Source(c)))))
<1> DEFINE S == Spans(lim, subs, odd, flats)
           s == Source(c)
           d == Dest(c)
           b == InsertBefore(c, s)
           a == MergePrevious(b)
<1>1. c \in Cursors(S) /\ Sorted(c.src) /\ Before(c.done, c.src) /\ InOrder(c)
  BY DEF Going
<1>2. s \in S /\ Range(c.src) = {s} \cup Range(Tail(c.src))
  BY <1>1, Sources
<1>3. /\ d \in S /\ Tail(c.rest) \in Seq(S) /\ Range(c.rest) = {d} \cup Range(Tail(c.rest))
      /\ \A v \in Range(Tail(c.rest)) : d.end <= v.start
  BY <1>1, Around
<1>4. s.end <= d.start
  <2>1. d.start \in Int /\ s.end \in Int
    BY <1>2, <1>3, SpanFields
  <2> QED  BY <2>1
<1> HIDE DEF d, s
<1>5. \A v \in Range(c.rest) : s.end <= v.start
  <2>1. ASSUME NEW v \in Range(Tail(c.rest)) PROVE s.end <= v.start
    <3>1. v \in S /\ d.end <= v.start
      BY <1>3, InRange
    <3> QED  BY <1>2, <1>3, <1>4, <3>1, Follows
  <2> QED  BY <2>1, <1>3, <1>4
<1> HIDE DEF S, b
<1>6. \A v \in Range(c.done) : v.end <= s.start
  BY <1>1, <1>2 DEF Before
<1>7. /\ b \in Cursors(S) /\ InOrder(b) /\ b.src = c.src /\ b.rest = c.rest
      /\ Range(b.done) = Range(c.done) \cup {s}
      /\ \A p, q : Holds(b, p, q) <=> Holds(c, p, q) \/ Covers(s, p, q)
  BY <1>1, <1>2, <1>5, <1>6, Inserted DEF b
<1>8. a \in Cursors(S) /\ Merged(lim, b, a)
  <2>1. b.rest # <<>>
    BY <1>7
  <2> QED  BY <2>1, <1>7, MergePreviousFacts DEF S
<1> HIDE DEF a
<1>9. /\ InOrder(a) /\ a.src = c.src /\ a.rest # <<>>
      /\ Range(a.done) \subseteq Range(c.done) \cup {s}
      /\ \A p, q \in Int : Holds(a, p, q) <=> Holds(c, p, q) \/ Covers(s, p, q)
  BY <1>7, <1>8 DEF Merged
<1>10. Going(t, S, x, y, NextSource(a))
  BY <1>8, <1>9, AddedNext DEF S, s
<1> QED  BY <1>10 DEF S, s, b, a

\* s_curr and d_curr that overlap are plain.
LEMMA OverlapPlain ==
  ASSUME NEW lim \in Limits, NEW subs, NEW odd, NEW flats, NEW d \in Spans(lim, subs, odd, flats),
         NEW s \in Spans(lim, subs, odd, flats), s.start < d.end, s.end > d.start
  PROVE  d.start <= d.end /\ s.start <= s.end
<1>1. /\ d.start \in Int /\ d.end \in Int /\ s.start \in Int /\ s.end \in Int
      /\ d.end <= lim /\ s.end <= lim /\ lim \in Int /\ NoCoord \in Int /\ lim < NoCoord
      /\ d.start > d.end => d.start = NoCoord
      /\ s.start > s.end => s.start = NoCoord
  BY SpanFields, Numbers
<1> QED  BY <1>1

\* d_curr ends before s_curr begins.
LEMMA OrSkipped ==
  ASSUME NEW lim \in Limits, NEW subs, NEW odd, NEW flats, NEW t \in Adding, NEW x, NEW y,
         NEW c, Going(t, Spans(lim, subs, odd, flats), x, y, c), c.src # <<>>, c.rest # <<>>,
         Dest(c).start < Source(c).end, ~Overlap(c)
  PROVE  Going(t, Spans(lim, subs, odd, flats), x, y, Skip(c))
<1> DEFINE S == Spans(lim, subs, odd, flats)
           s == Source(c)
           d == Dest(c)
           a == Skip(c)
           n == Append(c.done, d)
           r == Tail(c.rest)
<1>1. c \in Cursors(S) /\ Sorted(c.src) /\ Before(c.done, c.src) /\ InOrder(c)
      /\ \A p, q \in Int : Stands(t, c.done, c.rest, c.src, p, q) <=> Stands(t, <<>>, x, y, p, q)
  BY DEF Going
<1>2. /\ s \in S /\ Tail(c.src) \in Seq(S) /\ Range(c.src) = {s} \cup Range(Tail(c.src))
      /\ \A v \in Range(Tail(c.src)) : s.end <= v.start
  BY <1>1, Sources
<1>3. /\ d \in S /\ r \in Seq(S)
      /\ Sorted(c.done) /\ Sorted(r) /\ Before(c.done, r)
      /\ \A v \in Range(c.done) : v.end <= d.start
      /\ \A v \in Range(r) : d.end <= v.start
      /\ \A p, q : Has(c.rest, p, q) <=> Covers(d, p, q) \/ Has(r, p, q)
  BY <1>1, Around
<1>4. d.end <= s.start
  <2>1. d.start \in Int /\ s.end \in Int /\ d.end \in Int /\ s.start \in Int
    BY <1>2, <1>3, SpanFields
  <2> QED  BY <2>1 DEF Overlap
<1>5. a = Cursor(n, r, c.src)
  BY <1>1, Steps
<1>6. c.done \in Seq(S) /\ c.src \in Seq(S)
  BY <1>1, CursorParts
<1>7. n \in Seq(S) /\ Range(n) = Range(c.done) \cup {d}
      /\ (Sorted(n) <=> Sorted(c.done) /\ \A v \in Range(c.done) : v.end <= d.start)
  <2> HIDE DEF d, S
  <2> QED  BY <1>3, <1>6, Appending
<1> HIDE DEF d, s, n, r
<1>8. \A v \in Range(c.src) : d.end <= v.start
  <2>1. ASSUME NEW v \in Range(Tail(c.src)) PROVE d.end <= v.start
    <3>1. v \in S /\ s.end <= v.start
      BY <1>2, InRange
    <3> QED  BY <1>2, <1>3, <1>4, <3>1, Follows
  <2> QED  BY <2>1, <1>2, <1>4
<1> HIDE DEF S, a
<1>9. a.done = n /\ a.rest = r /\ a.src = c.src
  BY <1>5 DEF Cursor
<1>10. a \in Cursors(S)
  BY <1>3, <1>5, <1>6, <1>7, CursorMade
<1>11. InOrder(a)
  BY <1>3, <1>7, <1>9 DEF InOrder, Before
<1>12. Before(a.done, a.src)
  BY <1>1, <1>7, <1>8, <1>9 DEF Before
<1>13. ASSUME NEW p \in Int, NEW q \in Int
       PROVE  Stands(t, a.done, a.rest, a.src, p, q) <=> Stands(t, <<>>, x, y, p, q)
  <2>1. Has(n, p, q) <=> Has(c.done, p, q) \/ Covers(d, p, q)
    BY <1>7 DEF Has
  <2>2. Stands(t, a.done, a.rest, a.src, p, q) <=> Stands(t, c.done, c.rest, c.src, p, q)
    BY <2>1, <1>3, <1>9 DEF Stands
  <2> QED  BY <2>2, <1>1
<1>14. t # "Intersect"
  BY DEF Adding
<1>15. a.done # <<>>
  BY <1>7, <1>9, None
<1> QED  BY <1>1, <1>9, <1>10, <1>11, <1>12, <1>13, <1>14, <1>15 DEF Going, S, a

\* What s_curr has before d_curr has been inserted there.
LEMMA PrecededFacts ==
  ASSUME NEW lim \in Limits, NEW subs, NEW odd, NEW flats, NEW t \in Adding, NEW x, NEW y,
         NEW c, Going(t, Spans(lim, subs, odd, flats), x, y, c), c.src # <<>>, c.rest # <<>>,
         Overlap(c)
  PROVE  LET a == Preceded(c) IN
         /\ a \in Cursors(Spans(lim, subs, odd, flats)) /\ InOrder(a) /\ a.rest # <<>> /\ a.src = c.src
         /\ Dest(a).start <= Dest(c).start /\ Dest(a).end = Dest(c).end
         /\ \A p, q \in Int : Holds(a, p, q) <=> \/ Holds(c, p, q)
                                                 \/ Covers(Source(c), p, q) /\ p < Dest(c).start
<1> DEFINE S == Spans(lim, subs, odd, flats)
           s == Source(c)
           d == Dest(c)
           r == Tail(c.rest)
           a == Preceded(c)
<1>1. c \in Cursors(S) /\ Sorted(c.src) /\ Before(c.done, c.src) /\ InOrder(c)
  BY DEF Going
<1>2. s \in S /\ Range(c.src) = {s} \cup Range(Tail(c.src))
  BY <1>1, Sources
<1>3. /\ d \in S /\ r \in Seq(S) /\ Range(c.rest) = {d} \cup Range(r)
      /\ \A v \in Range(r) : d.end <= v.start
      /\ \A p, q : Has(c.rest, p, q) <=> Covers(d, p, q) \/ Has(r, p, q)
  BY <1>1, Around
<1>4. s.start < d.end /\ s.end > d.start
  BY DEF Overlap
<1>5. d.start <= d.end /\ s.start <= s.end
  BY <1>2, <1>3, <1>4, OverlapPlain
<1>6. /\ d.start \in Int /\ d.end \in Int /\ s.start \in Int /\ s.end \in Int
      /\ s.subspan \in subs /\ 0 <= s.start /\ s.end <= lim /\ d.end <= lim /\ lim \in Int
  BY <1>2, <1>3, <1>5, SpanFields, Numbers
<1>7. CASE ~(s.start < d.start)
  <2>1. a = c
    BY <1>7 DEF Preceded
  <2>2. \A p, q \in Int : Covers(s, p, q) /\ p < d.start => FALSE
    BY <1>6, <1>7 DEF Covers
  <2>3. d.start <= d.start
    BY <1>6
  <2> HIDE DEF s, d, a, S
  <2> QED  BY <1>1, <2>1, <2>2, <2>3 DEF a, s, d, S
<1>8. CASE s.start < d.start
  <2> DEFINE e == [s EXCEPT !.end = d.start]
             b == InsertBefore(c, e)
  <2>1. a = MergePrevious(b)
    BY <1>8 DEF Preceded
  <2>2. e = Span(s.start, d.start, s.subspan)
    <3> DEFINE n == d.start
    <3> HIDE DEF n, s
    <3>1. s \in [start : Int, end : Int, subspan : subs]
      BY <1>2 DEF Spans
    <3>2. [s EXCEPT !.end = n] = Span(s.start, n, s.subspan)
      BY <3>1 DEF Span
    <3> QED  BY <3>2 DEF n
  <2> HIDE DEF s, d, e
  <2>3. e \in S /\ e.start = s.start /\ e.end = d.start /\ e.subspan = s.subspan
    <3>1. d.start <= lim
      BY <1>5, <1>6
    <3> QED  BY <2>2, <3>1, <1>6, <1>8, SpanMade, SpanIs
  <2>4. \A v \in Range(c.done) : v.end <= e.start
    BY <1>1, <1>2, <2>3 DEF Before
  <2>5. \A v \in Range(c.rest) : e.end <= v.start
    <3>1. ASSUME NEW v \in Range(r) PROVE e.end <= v.start
      <4>1. v \in S /\ d.end <= v.start
        BY <1>3, <3>1, InRange
      <4>2. v.start \in Int
        BY <4>1, SpanFields
      <4> QED  BY <1>5, <1>6, <2>3, <4>1, <4>2
    <3> QED  BY <3>1, <1>3, <1>6, <2>3
  <2> HIDE DEF S, b
  <2>6. /\ b \in Cursors(S) /\ InOrder(b) /\ b.src = c.src /\ b.rest = c.rest
        /\ Range(b.done) = Range(c.done) \cup {e}
        /\ \A p, q : Holds(b, p, q) <=> Holds(c, p, q) \/ Covers(e, p, q)
    BY <1>1, <2>3, <2>4, <2>5, Inserted DEF b
  <2>7. a \in Cursors(S) /\ Merged(lim, b, a) /\ MergedBack(b, a)
    <3>1. b.rest # <<>>
      BY <2>6
    <3> QED  BY <2>1, <2>6, <3>1, MergePreviousFacts DEF S
  <2> HIDE DEF a
  <2>8. Dest(b) = d
    BY <2>6 DEF Dest, d
  <2>9. /\ InOrder(a) /\ a.rest # <<>> /\ a.src = c.src
        /\ Dest(a).start <= d.start /\ Dest(a).end = d.end
        /\ \A p, q \in Int : Holds(a, p, q) <=> Holds(c, p, q) \/ Covers(e, p, q)
    <3>1. d.start # lim
      BY <1>4, <1>6
    <3> QED  BY <3>1, <2>6, <2>7, <2>8 DEF Merged, MergedBack
  <2>10. \A p, q \in Int : Holds(a, p, q) <=> \/ Holds(c, p, q)
                                              \/ Covers(s, p, q) /\ p < d.start
    <3>1. ASSUME NEW p \in Int, NEW q \in Int
          PROVE  Covers(e, p, q) <=> Covers(s, p, q) /\ p < d.start
      BY <1>4, <1>5, <1>6, <1>8, <2>3 DEF Covers
    <3> QED  BY <3>1, <2>9
  <2> QED  BY <2>7, <2>9, <2>10 DEF a, s, d, S
<1> QED  BY <1>7, <1>8

\* What s_curr has in common with d_curr is cut out of both.
LEMMA OrCut ==
  ASSUME NEW lim \in Limits, NEW subs, NEW odd, NEW flats, NEW t \in Adding, NEW x, NEW y,
         NEW c, Going(t, Spans(lim, subs, odd, flats), x, y, c), c.src # <<>>, c.rest # <<>>,
         Overlap(c)
  PROVE  Cut(t, Spans(lim, subs, odd, flats), x, y, Isolate(Preceded(c), Source(c).start, Source(c).end))
<1> DEFINE S == Spans(lim, subs, odd, flats)
           s == Source(c)
           d == Dest(c)
           a == Preceded(c)
           e == Dest(a)
           i == Isolate(a, s.start, s.end)
           fr == From(e, s.start)
           to == To(e, s.end)
<1>1. c \in Cursors(S) /\ Sorted(c.src) /\ InOrder(c)
      /\ \A p, q \in Int : Stands(t, c.done, c.rest, c.src, p, q) <=> Stands(t, <<>>, x, y, p, q)
  BY DEF Going
<1>2. /\ s \in S /\ \A p, q : Has(c.src, p, q) <=> Covers(s, p, q) \/ Has(Tail(c.src), p, q)
  BY <1>1, Sources
<1>3. d \in S
  BY <1>1, Around
<1>4. s.start < d.end /\ s.end > d.start
  BY DEF Overlap
<1>5. d.start <= d.end /\ s.start <= s.end
  BY <1>2, <1>3, <1>4, OverlapPlain
<1>6. /\ a \in Cursors(S) /\ InOrder(a) /\ a.rest # <<>> /\ a.src = c.src
      /\ e.start <= d.start /\ e.end = d.end
      /\ \A p, q \in Int : Holds(a, p, q) <=> \/ Holds(c, p, q)
                                              \/ Covers(s, p, q) /\ p < d.start
  BY PrecededFacts
<1>7. /\ e \in S /\ Tail(a.rest) \in Seq(S) /\ (\A v \in Range(Tail(a.rest)) : e.end <= v.start)
      /\ \A p, q : Has(a.rest, p, q) <=> Covers(e, p, q) \/ Has(Tail(a.rest), p, q)
  BY <1>6, Around
<1> HIDE DEF s, d, a
<1>8. /\ d.start \in Int /\ d.end \in Int /\ s.start \in Int /\ s.end \in Int
      /\ s.start = s.end => Allowed(flats)
      /\ e.start \in Int /\ e.end \in Int
  BY <1>2, <1>3, <1>7, SpanFields
<1>9. e.start <= e.end /\ s.start < e.end /\ e.start < s.end /\ s.start <= s.end
  <2> HIDE DEF e
  <2> QED  BY <1>4, <1>5, <1>6, <1>8
<1>10. i \in Cursors(S) /\ Isolated(a, i, s.start, s.end)
  BY <1>6, <1>8, <1>9, IsolateFacts
<1> HIDE DEF S, e, i
<1>11. /\ fr \in Int /\ to \in Int /\ fr <= to /\ s.start <= fr /\ to <= s.end
       /\ e.start <= fr /\ to <= e.end /\ (fr = s.start \/ fr = e.start)
  BY <1>8, <1>9 DEF From, To
<1> HIDE DEF fr, to
<1>12. /\ InOrder(i) /\ i.rest # <<>> /\ i.src = c.src
       /\ Dest(i).start = fr /\ Dest(i).end = to
       /\ Source(i) = s
  BY <1>6, <1>10, SpanIs DEF Isolated, e, fr, to, Source, s
<1>13. ASSUME NEW p \in Int, NEW q \in Int
       PROVE  /\ Has(i.done, p, q) <=> Has(a.done, p, q) \/ (Covers(e, p, q) /\ p < fr)
              /\ Has(Tail(i.rest), p, q) <=> Has(Tail(a.rest), p, q) \/ (Covers(e, p, q) /\ p >= to)
              /\ Covers(Dest(i), p, q) <=> Covers(e, p, q) /\ fr <= p /\ p < to
  BY <1>10 DEF Isolated, e, fr, to
<1>14. \A p, q : Has(i.rest, p, q) <=> Covers(Dest(i), p, q) \/ Has(Tail(i.rest), p, q)
  BY <1>10, <1>12, Around DEF S
<1>15. ASSUME NEW p \in Int, NEW q \in Int, Covers(s, p, q), p < fr PROVE Has(i.done, p, q)
  <2>1. s.start <= p
    BY <1>15 DEF Covers
  <2>2. p < e.start
    BY <2>1, <1>8, <1>11, <1>15
  <2>3. p < d.start
    BY <2>2, <1>6, <1>8
  <2>4. Holds(a, p, q)
    BY <2>3, <1>6, <1>15
  <2>5. ~Has(a.rest, p, q)
    <3>1. ~Covers(e, p, q)
      BY <2>2, <1>8 DEF Covers
    <3>2. ~Has(Tail(a.rest), p, q)
      <4>1. ~(e.end <= p)
        BY <2>2, <1>8, <1>9
      <4> QED  BY <4>1, <1>7, <1>8, HasBehind DEF S
    <3> QED  BY <3>1, <3>2, <1>7
  <2>6. Has(a.done, p, q)
    BY <2>4, <2>5 DEF Holds
  <2> QED  BY <2>6, <1>13
<1>16. ASSUME NEW p \in Int, NEW q \in Int
       PROVE  Stands(t, i.done, i.rest, i.src, p, q) <=> Stands(t, <<>>, x, y, p, q)
  <2>1. Holds(i, p, q) <=> Holds(a, p, q)
    <3>1. p < fr \/ (fr <= p /\ p < to) \/ p >= to
      BY <1>11
    <3> HIDE DEF i
    <3> QED  BY <3>1, <1>7, <1>13, <1>14 DEF Holds
  <2>2. Holds(a, p, q) \/ Has(c.src, p, q) <=> Holds(c, p, q) \/ Has(c.src, p, q)
    BY <1>2, <1>6
  <2>3. Stands(t, i.done, i.rest, i.src, p, q) <=> Stands(t, c.done, c.rest, c.src, p, q)
    BY <2>1, <2>2, <1>12 DEF Stands, Holds
  <2> QED  BY <2>3, <1>1
<1>17. t # "Intersect"
  BY DEF Adding
<1>18. /\ s.start <= Dest(i).start /\ Dest(i).start <= Dest(i).end /\ Dest(i).end <= s.end
       /\ \E v \in S : Dest(i).start < v.end
  <2>1. e \in S /\ s \in S /\ (fr < e.end \/ fr < s.end)
    BY <1>2, <1>7, <1>9, <1>11 DEF S
  <2> QED  BY <2>1, <1>11, <1>12
<1>19. Cut(t, S, x, y, i)
  BY <1>1, <1>10, <1>12, <1>15, <1>16, <1>17, <1>18 DEF Cut
<1> QED  BY <1>19 DEF S, s, a, i

\* d_curr with what its call has returned, merged.
LEMMA GivenSubspan ==
  ASSUME NEW lim \in Limits, NEW subs, NEW odd, NEW flats, NEW t, NEW x, NEW y, NEW c,
         Cut(t, Spans(lim, subs, odd, flats), x, y, c), NEW sub \in subs
  PROVE  LET b == SetSubspan(c, sub)
             d == Dest(c)
         IN  /\ b \in Cursors(Spans(lim, subs, odd, flats)) /\ InOrder(b) /\ b.rest # <<>>
             /\ b.done = c.done /\ b.src = c.src /\ Tail(b.rest) = Tail(c.rest)
             /\ Dest(b).start = d.start /\ Dest(b).end = d.end /\ Dest(b).subspan = sub
             /\ \A p, q : Holds(b, p, q) <=> \/ Has(c.done, p, q) \/ Has(Tail(c.rest), p, q)
                                             \/ d.start <= p /\ p < d.end /\ In(sub, q)
<1> DEFINE S == Spans(lim, subs, odd, flats)
           b == SetSubspan(c, sub)
           d == Dest(c)
<1>1. c \in Cursors(S) /\ InOrder(c) /\ c.rest # <<>> /\ d.start <= d.end
  BY DEF Cut
<1>2. /\ b \in Cursors(S) /\ b.rest # <<>> /\ InOrder(b)
      /\ b.done = c.done /\ b.src = c.src /\ Tail(b.rest) = Tail(c.rest)
      /\ Dest(b) = Span(d.start, d.end, sub)
  BY <1>1, SetSubspanFacts
<1> HIDE DEF S, b, d
<1>3. Dest(b).start = d.start /\ Dest(b).end = d.end /\ Dest(b).subspan = sub
  BY <1>2, SpanIs
<1>4. \A p, q : Has(b.rest, p, q) <=> Covers(Dest(b), p, q) \/ Has(Tail(b.rest), p, q)
  BY <1>2, Around DEF S
<1>5. \A p, q : Holds(b, p, q) <=> \/ Has(c.done, p, q) \/ Has(Tail(c.rest), p, q)
                                   \/ d.start <= p /\ p < d.end /\ In(sub, q)
  BY <1>2, <1>3, <1>4 DEF Holds, Covers
<1> QED  BY <1>2, <1>3, <1>5 DEF S, b, d

\* A cursor past its d_curr: what that covers counts as done.
LEMMA Skipped ==
  ASSUME NEW lim \in Limits, NEW subs, NEW odd, NEW flats,
         NEW c \in Cursors(Spans(lim, subs, odd, flats)),
         c.rest # <<>>, InOrder(c)
  PROVE  LET a == Skip(c) IN
         /\ a \in Cursors(Spans(lim, subs, odd, flats)) /\ InOrder(a) /\ a.src = c.src
         /\ a.rest = Tail(c.rest) /\ Range(a.done) = Range(c.done) \cup {Dest(c)}
         /\ \A p, q : Has(a.done, p, q) <=> Has(c.done, p, q) \/ Covers(Dest(c), p, q)
<1> DEFINE S == Spans(lim, subs, odd, flats)
           d == Dest(c)
           a == Skip(c)
           n == Append(c.done, d)
           r == Tail(c.rest)
<1>1. /\ d \in S /\ r \in Seq(S)
      /\ Sorted(c.done) /\ Sorted(r) /\ Before(c.done, r)
      /\ \A v \in Range(c.done) : v.end <= d.start
      /\ \A v \in Range(r) : d.end <= v.start
  BY Around
<1>2. a = Cursor(n, r, c.src)
  BY Steps
<1>3. c.done \in Seq(S) /\ c.src \in Seq(S)
  BY CursorParts
<1> HIDE DEF d, S, r
<1>4. n \in Seq(S) /\ Range(n) = Range(c.done) \cup {d}
      /\ (Sorted(n) <=> Sorted(c.done) /\ \A v \in Range(c.done) : v.end <= d.start)
  BY <1>1, <1>3, Appending
<1> HIDE DEF n, a
<1>5. a.done = n /\ a.rest = r /\ a.src = c.src
  BY <1>2 DEF Cursor
<1>6. a \in Cursors(S)
  BY <1>1, <1>2, <1>3, <1>4, CursorMade
<1>7. InOrder(a)
  BY <1>1, <1>4, <1>5 DEF InOrder, Before
<1>8. \A p, q : Has(n, p, q) <=> Has(c.done, p, q) \/ Covers(d, p, q)
  BY <1>4 DEF Has
<1> QED  BY <1>4, <1>5, <1>6, <1>7, <1>8 DEF S, d, a, r

\* The call has combined the two spans' own lists: sraSpanListOr goes on after
\* the merge, with what is left of s_curr.
LEMMA OrReturn ==
  ASSUME NEW lim \in Limits, NEW subs, NEW odd, NEW flats, NEW t \in Adding, NEW x, NEW y,
         NEW c, Cut(t, Spans(lim, subs, odd, flats), x, y, c), NEW sub,
         Returned(t, subs, Dest(c).subspan, Source(c).subspan, sub)
  PROVE  Going(t, Spans(lim, subs, odd, flats), x, y, OrCombined(c, sub))
<1> DEFINE S == Spans(lim, subs, odd, flats)
           s == Source(c)
           d == Dest(c)
           T == Tail(c.src)
           b == SetSubspan(c, sub)
           a == Merge(b)
           D == Dest(a)
           R == Tail(a.rest)
           f == IF s.end > D.end THEN Skip(a) ELSE a
           g == OrRest(s, D, c.src)
           h == OrCombined(c, sub)
<1>1. /\ c \in Cursors(S) /\ InOrder(c) /\ Sorted(c.src) /\ c.rest # <<>> /\ c.src # <<>>
      /\ \A p, q \in Int : Covers(s, p, q) /\ p < d.start => Has(c.done, p, q)
      /\ \A p, q \in Int : Stands(t, c.done, c.rest, c.src, p, q) <=> Stands(t, <<>>, x, y, p, q)
  BY DEF Cut
<1>2. sub \in subs /\ \A q \in Int : In(sub, q) <=> In(d.subspan, q) \/ In(s.subspan, q)
  BY DEF Returned
<1>3. /\ d.start \in Int /\ d.end \in Int /\ s.start \in Int /\ s.end \in Int
      /\ s.start <= d.start /\ d.start <= d.end /\ d.end <= s.end /\ d.start < lim /\ lim \in Int
      /\ s.subspan \in subs /\ 0 <= s.start /\ s.end <= lim
  BY CutPlaces
<1>4. \A p, q \in Int :
        /\ Has(c.rest, p, q) <=> Covers(d, p, q) \/ Has(Tail(c.rest), p, q)
        /\ Has(c.src, p, q) <=> Covers(s, p, q) \/ Has(T, p, q)
  BY CutPlaces
<1>5. /\ s \in S /\ T \in Seq(S) /\ Sorted(T)
      /\ \A v \in Range(T) : s.end <= v.start
  BY <1>1, Sources
<1>6. /\ b \in Cursors(S) /\ InOrder(b) /\ b.rest # <<>> /\ b.src = c.src
      /\ Dest(b).start = d.start /\ Dest(b).end = d.end /\ Dest(b).subspan = sub
      /\ \A p, q : Holds(b, p, q) <=> \/ Has(c.done, p, q) \/ Has(Tail(c.rest), p, q)
                                      \/ d.start <= p /\ p < d.end /\ In(sub, q)
  BY <1>2, GivenSubspan
<1> HIDE DEF s, d, T, b
<1>7. a \in Cursors(S) /\ Merged(lim, b, a)
  BY <1>6, MergeBoth
<1> HIDE DEF S, a
<1>8. /\ InOrder(a) /\ a.rest # <<>> /\ a.src = c.src
      /\ D.subspan = sub /\ D.start <= d.start /\ D.end >= d.end
      /\ \A p, q \in Int : Holds(a, p, q) <=> Holds(b, p, q)
  <2>1. d.start # lim
    BY <1>3
  <2> QED  BY <2>1, <1>6, <1>7 DEF Merged
<1>9. /\ D \in S /\ R \in Seq(S)
      /\ \A v \in Range(a.done) : v.end <= D.start
      /\ \A p, q : Has(a.rest, p, q) <=> Covers(D, p, q) \/ Has(R, p, q)
  BY <1>7, <1>8, Around DEF S
<1>10. a.done \in Seq(S)
  BY <1>7, CursorParts
<1> HIDE DEF D, R, f, g, h
<1>11. D.start \in Int /\ D.end \in Int
  BY <1>9, SpanFields DEF S
<1>12. f \in Cursors(S) /\ h = Cursor(f.done, f.rest, g)
  <2>1. f \in Cursors(S)
    BY <1>7, <1>8, Skipped DEF f, S
  <2>2. h = [f EXCEPT !.src = g]
    BY DEF h, OrCombined, f, g, a, b, D, s
  <2> QED  BY <2>1, <2>2, CursorChanged
<1>13. h.done = f.done /\ h.rest = f.rest /\ h.src = g
  BY <1>12 DEF Cursor
<1>14. ASSUME NEW p \in Int, NEW q \in Int
       PROVE  Holds(a, p, q) \/ Covers(s, p, q) <=> Holds(c, p, q) \/ Covers(s, p, q)
  <2>1. Holds(a, p, q) <=> \/ Has(c.done, p, q) \/ Has(Tail(c.rest), p, q)
                           \/ d.start <= p /\ p < d.end /\ In(sub, q)
    BY <1>6, <1>8
  <2>2. Holds(c, p, q) <=> Has(c.done, p, q) \/ Has(Tail(c.rest), p, q) \/ Covers(d, p, q)
    BY <1>4 DEF Holds
  <2>3. d.start <= p /\ p < d.end => s.start <= p /\ p < s.end
    BY <1>3
  <2> QED  BY <2>1, <2>2, <2>3, <1>2 DEF Covers
\* What of s_curr lies before D.end is covered by now.
<1>15. ASSUME NEW p \in Int, NEW q \in Int, Covers(s, p, q), p < D.end PROVE Holds(a, p, q)
  <2>1. CASE p < d.start
    <3>1. Has(c.done, p, q)
      BY <1>1, <1>15, <2>1 DEF s, d
    <3> QED  BY <3>1, <1>6, <1>8
  <2>2. CASE d.start <= p
    <3>1. D.start <= p /\ In(sub, q)
      BY <1>2, <1>3, <1>8, <1>11, <1>15, <2>2 DEF Covers
    <3>2. Covers(D, p, q)
      BY <3>1, <1>8, <1>15 DEF Covers
    <3> QED  BY <3>2, <1>9 DEF Holds
  <2> QED  BY <2>1, <2>2, <1>3
<1>16. t # "Intersect"
  BY DEF Adding
<1>17. CASE s.end > D.end
  <2> DEFINE e == Span(D.end, s.end, s.subspan)
  <2>1. g = <<e>> \o T
    <3> DEFINE n == D.end
    <3>1. s \in [start : Int, end : Int, subspan : subs]
      BY <1>5 DEF S, Spans
    <3> HIDE DEF n
    <3>2. [s EXCEPT !.start = n] = Span(n, s.end, s.subspan)
      BY <3>1 DEF Span
    <3>3. g = <<[s EXCEPT !.start = n]>> \o T
      BY <1>17 DEF g, OrRest, T, n
    <3> QED  BY <3>2, <3>3 DEF n
  <2>2. e \in S /\ e.start = D.end /\ e.end = s.end /\ e.subspan = s.subspan
    <3>1. 0 <= D.end
      BY <1>3, <1>8, <1>11
    <3> QED  BY <3>1, <1>3, <1>11, <1>17, SpanMade, SpanIs DEF S
  <2> HIDE DEF e
  <2>3. /\ g \in Seq(S) /\ Range(g) = {e} \cup Range(T)
        /\ Sorted(g) <=> Sorted(T) /\ \A v \in Range(T) : e.end <= v.start
    BY <2>1, <2>2, <1>5, Consing
  <2>4. Sorted(g)
    BY <2>2, <2>3, <1>5
  <2>5. /\ f \in Cursors(S) /\ InOrder(f)
        /\ f.rest = R /\ Range(f.done) = Range(a.done) \cup {D}
        /\ \A p, q : Has(f.done, p, q) <=> Has(a.done, p, q) \/ Covers(D, p, q)
    <3>1. f = Skip(a)
      BY <1>17 DEF f
    <3> QED  BY <3>1, <1>7, <1>8, Skipped DEF S, D, R
  <2>6. h \in Cursors(S)
    <3>1. f.done \in Seq(S) /\ f.rest \in Seq(S)
      BY <2>5, CursorParts
    <3> QED  BY <3>1, <2>3, <1>12, CursorMade
  <2>7. Before(f.done, g)
    <3>1. ASSUME NEW u \in Range(f.done) PROVE u.end \in Int /\ u.end <= D.end
      <4>1. CASE u = D
        BY <4>1, <1>11
      <4>2. CASE u \in Range(a.done)
        <5>1. u \in S
          BY <4>2, <1>10, InRange
        <5>2. u.end \in Int /\ u.end <= D.start
          BY <4>2, <5>1, <1>9, SpanFields DEF S
        <5>3. D.start <= D.end
          BY <1>3, <1>8, <1>11
        <5> QED  BY <5>2, <5>3, <1>11
      <4> QED  BY <4>1, <4>2, <2>5
    <3>2. ASSUME NEW v \in Range(g) PROVE v.start \in Int /\ D.end <= v.start
      <4>1. CASE v = e
        BY <4>1, <2>2, <1>11
      <4>2. CASE v \in Range(T)
        <5>1. v \in S
          BY <4>2, <1>5, InRange
        <5>2. v.start \in Int /\ s.end <= v.start
          BY <4>2, <5>1, <1>5, SpanFields DEF S
        <5> QED  BY <5>2, <1>3, <1>11, <1>17
      <4> QED  BY <4>1, <4>2, <2>3
    <3>3. ASSUME NEW u \in Range(f.done), NEW v \in Range(g) PROVE u.end <= v.start
      BY <3>1, <3>2, <1>11
    <3> QED  BY <3>3 DEF Before
  <2>8. ASSUME NEW p \in Int, NEW q \in Int
        PROVE  Stands(t, h.done, h.rest, h.src, p, q) <=> Stands(t, <<>>, x, y, p, q)
    <3>1. Has(g, p, q) <=> Covers(e, p, q) \/ Has(T, p, q)
      BY <2>3 DEF Has
    <3>2. Covers(e, p, q) <=> Covers(s, p, q) /\ D.end <= p
      BY <2>2, <1>3, <1>8, <1>11 DEF Covers
    <3>3. Has(f.done, p, q) \/ Has(f.rest, p, q) <=> Holds(a, p, q)
      BY <2>5, <1>9 DEF Holds
    <3>4. p < D.end \/ D.end <= p
      BY <1>11
    <3>5. Stands(t, h.done, h.rest, h.src, p, q)
          <=> Holds(a, p, q) \/ Has(T, p, q) \/ (Covers(s, p, q) /\ D.end <= p)
      BY <3>1, <3>2, <3>3, <1>13 DEF Stands
    <3>6. Stands(t, c.done, c.rest, c.src, p, q) <=> Holds(c, p, q) \/ Covers(s, p, q) \/ Has(T, p, q)
      BY <1>4 DEF Stands, Holds
    <3> QED  BY <3>4, <3>5, <3>6, <1>1, <1>14, <1>15
  <2>9. InOrder(h) /\ Sorted(h.src) /\ Before(h.done, h.src)
    BY <2>4, <2>5, <2>7, <1>13 DEF InOrder
  <2>10. h.done # <<>>
    BY <2>5, <1>13, None
  <2> QED  BY <2>6, <2>8, <2>9, <2>10, <1>16 DEF Going, S, h
<1>18. CASE ~(s.end > D.end)
  <2>1. g = T /\ f = a
    BY <1>18 DEF g, OrRest, T, f
  <2>2. h \in Cursors(S)
    <3>1. f.done \in Seq(S) /\ f.rest \in Seq(S)
      BY <1>12, CursorParts
    <3> QED  BY <3>1, <2>1, <1>5, <1>12, CursorMade
  <2>3. Before(a.done, T)
    <3>1. ASSUME NEW u \in Range(a.done), NEW v \in Range(T) PROVE u.end <= v.start
      <4>1. u \in S /\ v \in S
        BY <1>5, <1>10, InRange
      <4>2. u.end \in Int /\ u.end <= D.start /\ v.start \in Int /\ s.end <= v.start
        BY <4>1, <1>5, <1>9, SpanFields DEF S
      <4> QED  BY <4>2, <1>3, <1>8, <1>11
    <3> QED  BY <3>1 DEF Before
  <2>4. ASSUME NEW p \in Int, NEW q \in Int
        PROVE  Stands(t, h.done, h.rest, h.src, p, q) <=> Stands(t, <<>>, x, y, p, q)
    <3>1. Stands(t, h.done, h.rest, h.src, p, q) <=> Holds(a, p, q) \/ Has(T, p, q)
      BY <2>1, <1>13 DEF Stands, Holds
    <3>2. Covers(s, p, q) => p < D.end
      BY <1>3, <1>11, <1>18 DEF Covers
    <3>3. Stands(t, c.done, c.rest, c.src, p, q) <=> Holds(c, p, q) \/ Covers(s, p, q) \/ Has(T, p, q)
      BY <1>4 DEF Stands, Holds
    <3> QED  BY <3>1, <3>2, <3>3, <1>1, <1>14, <1>15
  <2>5. InOrder(h) /\ Sorted(h.src) /\ Before(h.done, h.src)
    BY <2>1, <2>3, <1>5, <1>8, <1>13 DEF InOrder
  <2>6. h.rest # <<>>
    BY <2>1, <1>8, <1>13
  <2> QED  BY <2>2, <2>4, <2>5, <2>6, <1>16 DEF Going, S, h
<1> QED  BY <1>17, <1>18

-----------------------------------------------------------------------------
(* sraSpanListAnd and sraSpanListSubtract. *)

\* s_curr lies before d_curr.
LEMMA SourcePassed ==
  ASSUME NEW lim \in Limits, NEW subs, NEW odd, NEW flats, NEW t, t \notin Adding, NEW x, NEW y,
         NEW c, Going(t, Spans(lim, subs, odd, flats), x, y, c), c.src # <<>>, c.rest # <<>>,
         Dest(c).start >= Source(c).end
  PROVE  Going(t, Spans(lim, subs, odd, flats), x, y, NextSource(c))
<1> DEFINE S == Spans(lim, subs, odd, flats)
           a == NextSource(c)
           s == Source(c)
           d == Dest(c)
           z == Tail(c.src)
<1>1. c \in Cursors(S) /\ InOrder(c) /\ Sorted(c.src) /\ Plain(c.src)
      /\ (t = "Intersect" => Plain(c.done))
      /\ \A p, q \in Int : Stands(t, c.done, c.rest, c.src, p, q) <=> Stands(t, <<>>, x, y, p, q)
  BY DEF Going
<1>2. /\ s \in S /\ z \in Seq(S) /\ Sorted(z)
      /\ Range(c.src) = {s} \cup Range(z)
      /\ \A p, q : Has(c.src, p, q) <=> Covers(s, p, q) \/ Has(z, p, q)
  BY <1>1, Sources
<1>3. /\ d \in S /\ Tail(c.rest) \in Seq(S)
      /\ \A v \in Range(Tail(c.rest)) : d.end <= v.start
      /\ \A p, q : Has(c.rest, p, q) <=> Covers(d, p, q) \/ Has(Tail(c.rest), p, q)
  BY <1>1, Around
<1>4. a = Cursor(c.done, c.rest, z)
  BY <1>1, Steps
<1>5. c.done \in Seq(S) /\ c.rest \in Seq(S)
  BY <1>1, CursorParts
<1> HIDE DEF a, s, d, z
<1>6. d.start \in Int /\ s.end \in Int /\ s.end <= d.start
  <2>1. d.start \in Int /\ s.end \in Int
    BY <1>2, <1>3, SpanFields
  <2> QED  BY <2>1 DEF d, s
<1>7. \A v \in Range(Tail(c.rest)) : s.end <= v.start
  <2> TAKE v \in Range(Tail(c.rest))
  <2>1. v \in S /\ d.end <= v.start
    BY <1>3, InRange
  <2> QED  BY <2>1, <1>2, <1>3, <1>6, Follows
<1>8. ASSUME NEW p \in Int, NEW q \in Int, Has(c.rest, p, q) PROVE ~Covers(s, p, q)
  <2>1. Covers(d, p, q) => s.end <= p
    BY <1>6 DEF Covers
  <2>2. Has(Tail(c.rest), p, q) => s.end <= p
    BY <1>3, <1>6, <1>7, HasBehind
  <2>3. s.end <= p
    BY <2>1, <2>2, <1>3, <1>8
  <2> QED  BY <2>3, <1>6 DEF Covers
<1> HIDE DEF S
<1>9. a.done = c.done /\ a.rest = c.rest /\ a.src = z
  BY <1>4 DEF Cursor
<1>10. a \in Cursors(S)
  BY <1>2, <1>4, <1>5, CursorMade
<1>11. InOrder(a) /\ Sorted(a.src) /\ Plain(a.src) /\ (t = "Intersect" => Plain(a.done))
  BY <1>1, <1>2, <1>9 DEF InOrder, Plain
<1>12. ASSUME NEW p \in Int, NEW q \in Int
       PROVE  Stands(t, a.done, a.rest, a.src, p, q) <=> Stands(t, <<>>, x, y, p, q)
  <2>1. Has(c.rest, p, q) => (Has(c.src, p, q) <=> Has(z, p, q))
    BY <1>2, <1>8
  <2>2. Stands(t, a.done, a.rest, a.src, p, q) <=> Stands(t, c.done, c.rest, c.src, p, q)
    BY <2>1, <1>9 DEF Stands
  <2> QED  BY <2>2, <1>1
<1> QED  BY <1>10, <1>11, <1>12 DEF Going, S, a

\* d_curr lies before s_curr.
LEMMA Apart ==
  ASSUME NEW lim \in Limits, NEW subs, NEW odd, NEW flats,
         NEW c \in Cursors(Spans(lim, subs, odd, flats)),
         InOrder(c), Sorted(c.src), c.src # <<>>, c.rest # <<>>,
         Dest(c).start < Source(c).end, ~Overlap(c)
  PROVE  \A p, q \in Int : ~(Covers(Dest(c), p, q) /\ Has(c.src, p, q))
<1> DEFINE S == Spans(lim, subs, odd, flats)
           s == Source(c)
           d == Dest(c)
           z == Tail(c.src)
<1>1. /\ s \in S /\ z \in Seq(S)
      /\ \A v \in Range(z) : s.end <= v.start
      /\ \A p, q : Has(c.src, p, q) <=> Covers(s, p, q) \/ Has(z, p, q)
  BY Sources
<1>2. d \in S
  BY Around
<1>3. /\ d.start \in Int /\ d.end \in Int /\ s.start \in Int /\ s.end \in Int
      /\ d.end <= s.start
  <2>1. d.start \in Int /\ d.end \in Int /\ s.start \in Int /\ s.end \in Int
    BY <1>1, <1>2, SpanFields
  <2> QED  BY <2>1 DEF Overlap
<1> HIDE DEF s, d, z
<1>4. \A v \in Range(z) : d.end <= v.start
  <2> TAKE v \in Range(z)
  <2>1. v \in S /\ s.end <= v.start
    BY <1>1, InRange
  <2> QED  BY <2>1, <1>1, <1>2, <1>3, Follows
<1>5. ASSUME NEW p \in Int, NEW q \in Int, Covers(d, p, q), Has(c.src, p, q) PROVE FALSE
  <2>1. Covers(s, p, q) => d.end <= p
    BY <1>3 DEF Covers
  <2>2. Has(z, p, q) => d.end <= p
    BY <1>1, <1>3, <1>4, HasBehind
  <2>3. d.end <= p
    BY <2>1, <2>2, <1>1, <1>5
  <2> QED  BY <2>3, <1>3, <1>5 DEF Covers
<1> QED  BY <1>5 DEF d

\* d_curr ends before s_curr begins: nothing of it is in both.
LEMMA AndDestroyed ==
  ASSUME NEW lim \in Limits, NEW subs, NEW odd, NEW flats, NEW x, NEW y, NEW c,
         Going("Intersect", Spans(lim, subs, odd, flats), x, y, c), c.src # <<>>, c.rest # <<>>,
         Dest(c).start < Source(c).end, ~Overlap(c)
  PROVE  Going("Intersect", Spans(lim, subs, odd, flats), x, y, Destroy(c))
<1> DEFINE S == Spans(lim, subs, odd, flats)
           a == Destroy(c)
           d == Dest(c)
           r == Tail(c.rest)
           t == "Intersect"
<1>1. c \in Cursors(S) /\ InOrder(c) /\ Sorted(c.src) /\ Plain(c.src) /\ Plain(c.done)
      /\ \A p, q \in Int : Stands(t, c.done, c.rest, c.src, p, q) <=> Stands(t, <<>>, x, y, p, q)
  BY DEF Going, Adding
<1>2. /\ r \in Seq(S) /\ Sorted(c.done) /\ Sorted(r) /\ Before(c.done, r)
      /\ \A p, q : Has(c.rest, p, q) <=> Covers(d, p, q) \/ Has(r, p, q)
  BY <1>1, Around
<1>3. \A p, q \in Int : ~(Covers(d, p, q) /\ Has(c.src, p, q))
  BY <1>1, Apart
<1>4. a = Cursor(c.done, r, c.src)
  BY <1>1, Steps
<1>5. c.done \in Seq(S) /\ c.src \in Seq(S)
  BY <1>1, CursorParts
<1> HIDE DEF S, a, d, r
<1>6. a.done = c.done /\ a.rest = r /\ a.src = c.src
  BY <1>4 DEF Cursor
<1>7. a \in Cursors(S)
  BY <1>2, <1>4, <1>5, CursorMade
<1>8. InOrder(a)
  BY <1>2, <1>6 DEF InOrder
<1>9. ASSUME NEW p \in Int, NEW q \in Int
      PROVE  Stands(t, a.done, a.rest, a.src, p, q) <=> Stands(t, <<>>, x, y, p, q)
  <2>1. Stands(t, a.done, a.rest, a.src, p, q) <=> Stands(t, c.done, c.rest, c.src, p, q)
    BY <1>2, <1>3, <1>6 DEF Stands, Adding
  <2> QED  BY <2>1, <1>1
<1> QED  BY <1>1, <1>6, <1>7, <1>8, <1>9 DEF Going, S, a, Adding

\* d_curr ends before s_curr begins: nothing of it is taken away.
LEMMA SubtractSkipped ==
  ASSUME NEW lim \in Limits, NEW subs, NEW odd, NEW flats, NEW x, NEW y, NEW c,
         Going("Subtract", Spans(lim, subs, odd, flats), x, y, c), c.src # <<>>, c.rest # <<>>,
         Dest(c).start < Source(c).end, ~Overlap(c)
  PROVE  Going("Subtract", Spans(lim, subs, odd, flats), x, y, Skip(c))
<1> DEFINE S == Spans(lim, subs, odd, flats)
           a == Skip(c)
           d == Dest(c)
           r == Tail(c.rest)
           t == "Subtract"
<1>1. c \in Cursors(S) /\ InOrder(c) /\ Sorted(c.src) /\ Plain(c.src)
      /\ \A p, q \in Int : Stands(t, c.done, c.rest, c.src, p, q) <=> Stands(t, <<>>, x, y, p, q)
  BY DEF Going, Adding
<1>2. \A p, q : Has(c.rest, p, q) <=> Covers(d, p, q) \/ Has(r, p, q)
  BY <1>1, Around
<1>3. \A p, q \in Int : ~(Covers(d, p, q) /\ Has(c.src, p, q))
  BY <1>1, Apart
<1>4. /\ a \in Cursors(S) /\ InOrder(a) /\ a.src = c.src /\ a.rest = r
      /\ \A p, q : Has(a.done, p, q) <=> Has(c.done, p, q) \/ Covers(d, p, q)
  BY <1>1, Skipped
<1> HIDE DEF S, a, d, r
<1>5. ASSUME NEW p \in Int, NEW q \in Int
      PROVE  Stands(t, a.done, a.rest, a.src, p, q) <=> Stands(t, <<>>, x, y, p, q)
  <2>1. Stands(t, a.done, a.rest, a.src, p, q) <=> Stands(t, c.done, c.rest, c.src, p, q)
    BY <1>2, <1>3, <1>4 DEF Stands, Adding
  <2> QED  BY <2>1, <1>1
<1> QED  BY <1>1, <1>4, <1>5 DEF Going, S, a, Adding

\* d_curr has been cut where s_curr overlaps it; what is cut off before it
\* does not meet the spans of src.
LEMMA CutOff ==
  ASSUME NEW lim \in Limits, NEW subs, NEW odd, NEW flats,
         NEW t, t \notin Adding, NEW x, NEW y, NEW c,
         Going(t, Spans(lim, subs, odd, flats), x, y, c), c.src # <<>>, c.rest # <<>>, Overlap(c)
  PROVE  LET i == Isolate(c, Source(c).start, Source(c).end)
             d == Dest(c)
             s == Source(c)
         IN  /\ i \in Cursors(Spans(lim, subs, odd, flats)) /\ InOrder(i) /\ i.rest # <<>> /\ i.src = c.src
             /\ s.start <= Dest(i).start /\ Dest(i).start <= Dest(i).end /\ Dest(i).end <= s.end
             /\ \E v \in Spans(lim, subs, odd, flats) : Dest(i).start < v.end
             /\ Range(c.done) \subseteq Range(i.done)
             /\ \A p, q \in Int :
                  /\ Has(i.done, p, q) <=> Has(c.done, p, q) \/ (Covers(d, p, q) /\ p < Dest(i).start)
                  /\ Has(i.rest, p, q) <=> \/ Has(Tail(c.rest), p, q)
                                           \/ Covers(d, p, q) /\ ~(p < Dest(i).start)
                  /\ Has(c.rest, p, q) <=> Covers(d, p, q) \/ Has(Tail(c.rest), p, q)
                  /\ Covers(d, p, q) /\ p < Dest(i).start => ~Has(c.src, p, q)
<1> DEFINE S == Spans(lim, subs, odd, flats)
           s == Source(c)
           d == Dest(c)
           i == Isolate(c, s.start, s.end)
           fr == From(d, s.start)
           to == To(d, s.end)
           z == Tail(c.src)
<1>1. c \in Cursors(S) /\ Sorted(c.src) /\ InOrder(c)
  BY DEF Going
<1>2. /\ s \in S /\ z \in Seq(S)
      /\ \A v \in Range(z) : s.end <= v.start
      /\ \A p, q : Has(c.src, p, q) <=> Covers(s, p, q) \/ Has(z, p, q)
  BY <1>1, Sources
<1>3. d \in S /\ \A p, q : Has(c.rest, p, q) <=> Covers(d, p, q) \/ Has(Tail(c.rest), p, q)
  BY <1>1, Around
<1>4. s.start < d.end /\ s.end > d.start
  BY DEF Overlap
<1>5. d.start <= d.end /\ s.start <= s.end
  BY <1>2, <1>3, <1>4, OverlapPlain
<1>6. /\ d.start \in Int /\ d.end \in Int /\ s.start \in Int /\ s.end \in Int
      /\ s.start = s.end => Allowed(flats)
  BY <1>2, <1>3, SpanFields
<1>7. d.start < s.end
  BY <1>4, <1>6
<1>8. i \in Cursors(S) /\ Isolated(c, i, s.start, s.end)
  <2> HIDE DEF s
  <2> QED  BY <1>1, <1>4, <1>5, <1>6, <1>7, IsolateFacts
<1> HIDE DEF S, s, d, i, z
<1>9. /\ fr \in Int /\ to \in Int /\ fr <= to /\ s.start <= fr /\ to <= s.end
      /\ d.start <= fr /\ to <= d.end /\ (fr = s.start \/ fr = d.start)
  BY <1>4, <1>5, <1>6, <1>7 DEF From, To
<1> HIDE DEF fr, to
<1>10. /\ InOrder(i) /\ i.rest # <<>> /\ i.src = c.src
       /\ Dest(i).start = fr /\ Dest(i).end = to
       /\ Range(c.done) \subseteq Range(i.done)
  BY <1>8, SpanIs DEF Isolated, d, fr, to
<1>11. ASSUME NEW p \in Int, NEW q \in Int
       PROVE  /\ Has(i.done, p, q) <=> Has(c.done, p, q) \/ (Covers(d, p, q) /\ p < fr)
              /\ Has(Tail(i.rest), p, q) <=> Has(Tail(c.rest), p, q) \/ (Covers(d, p, q) /\ p >= to)
              /\ Covers(Dest(i), p, q) <=> Covers(d, p, q) /\ fr <= p /\ p < to
  BY <1>8 DEF Isolated, d, fr, to
<1>12. \A p, q : Has(i.rest, p, q) <=> Covers(Dest(i), p, q) \/ Has(Tail(i.rest), p, q)
  BY <1>8, <1>10, Around DEF S
<1>13. ASSUME NEW p \in Int, NEW q \in Int
       PROVE  Has(i.rest, p, q) <=> Has(Tail(c.rest), p, q) \/ (Covers(d, p, q) /\ ~(p < fr))
  <2>1. ~(p < fr) <=> (fr <= p /\ p < to) \/ p >= to
    BY <1>9
  <2> QED  BY <2>1, <1>11, <1>12
<1>14. ASSUME NEW p \in Int, NEW q \in Int, Covers(d, p, q), p < fr PROVE ~Has(c.src, p, q)
  <2>1. d.start <= p
    BY <1>14 DEF Covers
  <2>2. p < s.start
    BY <2>1, <1>6, <1>9, <1>14
  <2>3. ~Covers(s, p, q)
    BY <2>2, <1>6 DEF Covers
  <2>4. ~Has(z, p, q)
    <3>1. ~(s.end <= p)
      BY <2>2, <1>5, <1>6
    <3> QED  BY <3>1, <1>2, <1>6, HasBehind DEF S
  <2> QED  BY <2>3, <2>4, <1>2
<1>15. \E v \in S : Dest(i).start < v.end
  <2>1. d \in S /\ s \in S /\ (fr < d.end \/ fr < s.end)
    BY <1>2, <1>3, <1>4, <1>7, <1>9
  <2> QED  BY <2>1, <1>10
<1> QED  BY <1>3, <1>8, <1>9, <1>10, <1>11, <1>13, <1>14, <1>15 DEF S, d, s, i

\* What s_curr and d_curr have in common is a span of its own.
LEMMA SubtractCut ==
  ASSUME NEW lim \in Limits, NEW subs, NEW odd, NEW flats, NEW x, NEW y, NEW c,
         Going("Subtract", Spans(lim, subs, odd, flats), x, y, c), c.src # <<>>, c.rest # <<>>, Overlap(c)
  PROVE  Cut("Subtract", Spans(lim, subs, odd, flats), x, y, Isolate(c, Source(c).start, Source(c).end))
<1> DEFINE S == Spans(lim, subs, odd, flats)
           s == Source(c)
           d == Dest(c)
           i == Isolate(c, s.start, s.end)
           t == "Subtract"
<1>1. c \in Cursors(S) /\ Sorted(c.src) /\ Plain(c.src)
      /\ \A p, q \in Int : Stands(t, c.done, c.rest, c.src, p, q) <=> Stands(t, <<>>, x, y, p, q)
  BY DEF Going, Adding
<1>2. /\ i \in Cursors(S) /\ InOrder(i) /\ i.rest # <<>> /\ i.src = c.src
      /\ s.start <= Dest(i).start /\ Dest(i).start <= Dest(i).end /\ Dest(i).end <= s.end
      /\ \E v \in S : Dest(i).start < v.end
      /\ \A p, q \in Int :
           /\ Has(i.done, p, q) <=> Has(c.done, p, q) \/ (Covers(d, p, q) /\ p < Dest(i).start)
           /\ Has(i.rest, p, q) <=> \/ Has(Tail(c.rest), p, q)
                                    \/ Covers(d, p, q) /\ ~(p < Dest(i).start)
           /\ Has(c.rest, p, q) <=> Covers(d, p, q) \/ Has(Tail(c.rest), p, q)
           /\ Covers(d, p, q) /\ p < Dest(i).start => ~Has(c.src, p, q)
  <2>1. "Subtract" \notin Adding
    BY DEF Adding
  <2> QED  BY <2>1, CutOff, SMTT(60)
<1> HIDE DEF S, d, i
<1>3. Source(i) = s
  BY <1>2 DEF Source
<1> HIDE DEF s
<1>4. ASSUME NEW p \in Int, NEW q \in Int
      PROVE  Stands(t, i.done, i.rest, i.src, p, q) <=> Stands(t, <<>>, x, y, p, q)
  <2>1. Stands(t, i.done, i.rest, i.src, p, q) <=> Stands(t, c.done, c.rest, c.src, p, q)
    BY <1>2 DEF Stands, Adding
  <2> QED  BY <2>1, <1>1
<1> QED  BY <1>1, <1>2, <1>3, <1>4 DEF Cut, Adding, S, s, i

\* The same in sraSpanListAnd, which drops what lies before it.
LEMMA AndCut ==
  ASSUME NEW lim \in Limits, NEW subs, NEW odd, NEW flats, NEW x, NEW y, NEW c,
         Going("Intersect", Spans(lim, subs, odd, flats), x, y, c), c.src # <<>>, c.rest # <<>>, Overlap(c)
  PROVE  Cut("Intersect", Spans(lim, subs, odd, flats), x, y,
             [Isolate(c, Source(c).start, Source(c).end) EXCEPT !.done = c.done])
<1> DEFINE S == Spans(lim, subs, odd, flats)
           s == Source(c)
           d == Dest(c)
           i == Isolate(c, s.start, s.end)
           t == "Intersect"
           n == c.done
           a == [i EXCEPT !.done = n]
<1>1. c \in Cursors(S) /\ InOrder(c) /\ Sorted(c.src) /\ Plain(c.src) /\ Plain(c.done)
      /\ \A p, q \in Int : Stands(t, c.done, c.rest, c.src, p, q) <=> Stands(t, <<>>, x, y, p, q)
  BY DEF Going, Adding
<1>2. /\ i \in Cursors(S) /\ InOrder(i) /\ i.rest # <<>> /\ i.src = c.src
      /\ s.start <= Dest(i).start /\ Dest(i).start <= Dest(i).end /\ Dest(i).end <= s.end
      /\ \E v \in S : Dest(i).start < v.end
      /\ Range(c.done) \subseteq Range(i.done)
      /\ \A p, q \in Int :
           /\ Has(i.done, p, q) <=> Has(c.done, p, q) \/ (Covers(d, p, q) /\ p < Dest(i).start)
           /\ Has(i.rest, p, q) <=> \/ Has(Tail(c.rest), p, q)
                                    \/ Covers(d, p, q) /\ ~(p < Dest(i).start)
           /\ Has(c.rest, p, q) <=> Covers(d, p, q) \/ Has(Tail(c.rest), p, q)
           /\ Covers(d, p, q) /\ p < Dest(i).start => ~Has(c.src, p, q)
  <2>1. "Intersect" \notin Adding
    BY DEF Adding
  <2> QED  BY <2>1, CutOff, SMTT(60)
<1> HIDE DEF d, i, n
<1>3. a = Cursor(n, i.rest, i.src) /\ i.rest \in Seq(S) /\ i.src \in Seq(S)
  <2> HIDE DEF S
  <2> QED  BY <1>2, CursorChanged, CursorParts
<1>4. n \in Seq(S)
  BY <1>1, CursorParts DEF n
<1> HIDE DEF S, a
<1>5. a.done = c.done /\ a.rest = i.rest /\ a.src = c.src
  BY <1>2, <1>3 DEF Cursor, n
<1>6. a \in Cursors(S)
  BY <1>3, <1>4, CursorMade
<1>7. InOrder(a)
  <2>1. Sorted(c.done)
    BY <1>1 DEF InOrder
  <2> QED  BY <2>1, <1>2, <1>5 DEF InOrder, Before
<1>8. Source(a) = s /\ Dest(a) = Dest(i)
  BY <1>5 DEF Source, Dest
<1> HIDE DEF s
<1>9. ASSUME NEW p \in Int, NEW q \in Int
      PROVE  Stands(t, a.done, a.rest, a.src, p, q) <=> Stands(t, <<>>, x, y, p, q)
  <2>1. Stands(t, a.done, a.rest, a.src, p, q) <=> Stands(t, c.done, c.rest, c.src, p, q)
    BY <1>2, <1>5 DEF Stands, Adding
  <2> QED  BY <2>1, <1>1
<1>10. Cut(t, S, x, y, a)
  BY <1>1, <1>2, <1>5, <1>6, <1>7, <1>8, <1>9 DEF Cut, Adding
<1> QED  BY <1>10 DEF S, s, i, a, n

\* A cursor with d_curr taken out of its list.
LEMMA Destroyed ==
  ASSUME NEW lim \in Limits, NEW subs, NEW odd, NEW flats,
         NEW c \in Cursors(Spans(lim, subs, odd, flats)),
         c.rest # <<>>, InOrder(c)
  PROVE  LET a == Destroy(c) IN
         /\ a \in Cursors(Spans(lim, subs, odd, flats)) /\ InOrder(a)
         /\ a.done = c.done /\ a.rest = Tail(c.rest) /\ a.src = c.src
<1> DEFINE S == Spans(lim, subs, odd, flats)
           a == Destroy(c)
           r == Tail(c.rest)
<1>1. r \in Seq(S) /\ Sorted(c.done) /\ Sorted(r) /\ Before(c.done, r)
  BY Around
<1>2. a = Cursor(c.done, r, c.src)
  BY Steps
<1>3. c.done \in Seq(S) /\ c.src \in Seq(S)
  BY CursorParts
<1> HIDE DEF S, a, r
<1>4. a.done = c.done /\ a.rest = r /\ a.src = c.src
  BY <1>2 DEF Cursor
<1>5. a \in Cursors(S)
  BY <1>1, <1>2, <1>3, CursorMade
<1>6. InOrder(a)
  BY <1>1, <1>4 DEF InOrder
<1> QED  BY <1>4, <1>5, <1>6 DEF S, a, r

\* A cursor past its s_curr.
LEMMA Passed ==
  ASSUME NEW lim \in Limits, NEW subs, NEW odd, NEW flats,
         NEW c \in Cursors(Spans(lim, subs, odd, flats)),
         c.src # <<>>, InOrder(c), Sorted(c.src), Plain(c.src)
  PROVE  LET a == NextSource(c) IN
         /\ a \in Cursors(Spans(lim, subs, odd, flats)) /\ InOrder(a)
         /\ a.done = c.done /\ a.rest = c.rest /\ a.src = Tail(c.src)
         /\ Sorted(a.src) /\ Plain(a.src)
<1> DEFINE S == Spans(lim, subs, odd, flats)
           a == NextSource(c)
           z == Tail(c.src)
<1>1. z \in Seq(S) /\ Sorted(z) /\ Range(c.src) = {Source(c)} \cup Range(z)
  BY Sources
<1>2. a = Cursor(c.done, c.rest, z)
  BY Steps
<1>3. c.done \in Seq(S) /\ c.rest \in Seq(S)
  BY CursorParts
<1> HIDE DEF S, a, z
<1>4. a.done = c.done /\ a.rest = c.rest /\ a.src = z
  BY <1>2 DEF Cursor
<1>5. a \in Cursors(S)
  BY <1>1, <1>2, <1>3, CursorMade
<1>6. InOrder(a)
  BY <1>4 DEF InOrder
<1>7. Plain(a.src)
  BY <1>1, <1>4 DEF Plain
<1> QED  BY <1>1, <1>4, <1>5, <1>6, <1>7 DEF S, a, z

\* sraSpanListAnd goes on after its call, whether or not anything is left.
LEMMA AndReturn ==
  ASSUME NEW lim \in Limits, NEW subs, NEW odd, NEW flats, NEW x, NEW y,
         NEW c, Cut("Intersect", Spans(lim, subs, odd, flats), x, y, c), NEW sub,
         Returned("Intersect", subs, Dest(c).subspan, Source(c).subspan, sub)
  PROVE  Going("Intersect", Spans(lim, subs, odd, flats), x, y, AndCombined(c, sub))
<1> DEFINE S == Spans(lim, subs, odd, flats)
           t == "Intersect"
           s == Source(c)
           d == Dest(c)
           T == Tail(c.src)
           R == Tail(c.rest)
           b == SetSubspan(c, sub)
           a == MergePrevious(b)
           D == Dest(a)
           f == Skip(a)
           h == AndCombined(c, sub)
<1>1. /\ c \in Cursors(S) /\ InOrder(c) /\ Sorted(c.src) /\ c.rest # <<>> /\ c.src # <<>>
      /\ Plain(c.src) /\ Plain(c.done)
      /\ \A p, q \in Int : Stands(t, c.done, c.rest, c.src, p, q) <=> Stands(t, <<>>, x, y, p, q)
  BY DEF Cut, Adding
<1>2. /\ d.start \in Int /\ d.end \in Int /\ s.start \in Int /\ s.end \in Int
      /\ s.start <= d.start /\ d.start <= d.end /\ d.end <= s.end /\ d.start < lim /\ lim \in Int
  BY CutPlaces
<1>3. \A p, q \in Int :
        /\ Has(R, p, q) => d.end <= p
        /\ Has(T, p, q) => s.end <= p
        /\ Has(c.rest, p, q) <=> Covers(d, p, q) \/ Has(R, p, q)
        /\ Has(c.src, p, q) <=> Covers(s, p, q) \/ Has(T, p, q)
  BY CutPlaces
<1> HIDE DEF s, d, T, R
\* Where d_curr is, src covers what s_curr does.
<1>4. ASSUME NEW p \in Int, NEW q \in Int, d.start <= p, p < d.end
      PROVE  Has(c.src, p, q) <=> In(s.subspan, q)
  <2>1. s.start <= p /\ p < s.end /\ ~(s.end <= p)
    BY <1>2, <1>4
  <2> QED  BY <2>1, <1>3 DEF Covers
<1>5. \A p, q \in Int : Stands(t, c.done, c.rest, c.src, p, q)
        <=> \/ Has(c.done, p, q)
            \/ d.start <= p /\ p < d.end /\ In(d.subspan, q) /\ In(s.subspan, q)
            \/ Has(R, p, q) /\ Has(c.src, p, q)
  BY <1>3, <1>4 DEF Stands, Adding, Covers
<1>6. CASE d.subspan # NULL /\ sub = <<>>
  <2>1. \A q \in Int : ~(In(d.subspan, q) /\ In(s.subspan, q))
    BY <1>6 DEF Returned, Adding, d, s
  <2>2. h = Destroy(c)
    BY <1>6 DEF AndCombined, d
  <2> HIDE DEF h, S
  <2>3. /\ h \in Cursors(S) /\ InOrder(h)
        /\ h.done = c.done /\ h.rest = R /\ h.src = c.src
    BY <2>2, <1>1, Destroyed DEF R, S
  <2>4. ASSUME NEW p \in Int, NEW q \in Int
        PROVE  Stands(t, h.done, h.rest, h.src, p, q) <=> Stands(t, <<>>, x, y, p, q)
    <3>1. Stands(t, h.done, h.rest, h.src, p, q)
          <=> Has(c.done, p, q) \/ (Has(R, p, q) /\ Has(c.src, p, q))
      BY <2>3 DEF Stands, Adding
    <3>2. Stands(t, c.done, c.rest, c.src, p, q)
          <=> Has(c.done, p, q) \/ (Has(R, p, q) /\ Has(c.src, p, q))
      BY <1>5, <2>1
    <3> QED  BY <3>1, <3>2, <1>1
  <2> QED  BY <1>1, <2>3, <2>4 DEF Going, Adding, h, S
<1>7. CASE ~(d.subspan # NULL /\ sub = <<>>)
  <2>1. sub \in subs /\ \A q \in Int : In(sub, q) <=> In(d.subspan, q) /\ In(s.subspan, q)
    BY <1>7 DEF Returned, Adding, d, s
  <2>2. /\ b \in Cursors(S) /\ InOrder(b) /\ b.rest # <<>>
        /\ b.done = c.done /\ b.src = c.src /\ Tail(b.rest) = R
        /\ Dest(b).start = d.start /\ Dest(b).end = d.end /\ Dest(b).subspan = sub
    BY <2>1, GivenSubspan DEF R, d
  <2> HIDE DEF b
  <2>3. a \in Cursors(S) /\ Merged(lim, b, a) /\ MergedBack(b, a)
    BY <2>2, MergePreviousFacts
  <2> HIDE DEF a
  <2>4. /\ InOrder(a) /\ a.rest # <<>> /\ a.src = c.src /\ Range(a.done) \subseteq Range(c.done)
        /\ D.start <= d.start /\ D.end = d.end /\ Tail(a.rest) = R
    <3>1. d.start # lim
      BY <1>2
    <3> QED  BY <3>1, <2>2, <2>3 DEF Merged, MergedBack
  <2>5. \A p, q \in Int : Has(a.done, p, q) \/ Covers(D, p, q)
                          <=> Has(c.done, p, q) \/ (d.start <= p /\ p < d.end /\ In(sub, q))
    BY <2>2, <2>3 DEF MergedBack, Covers
  <2> HIDE DEF f
  <2>6. /\ f \in Cursors(S) /\ InOrder(f) /\ f.src = c.src /\ f.rest = R
        /\ Range(f.done) = Range(a.done) \cup {D}
        /\ \A p, q : Has(f.done, p, q) <=> Has(a.done, p, q) \/ Covers(D, p, q)
    <3>1. f = Skip(a) /\ S = Spans(lim, subs, odd, flats) /\ D = Dest(a)
      BY DEF f
    <3> HIDE DEF S, D
    <3>2. /\ f \in Cursors(S) /\ InOrder(f) /\ f.src = a.src
          /\ f.rest = Tail(a.rest) /\ Range(f.done) = Range(a.done) \cup {D}
          /\ \A p, q : Has(f.done, p, q) <=> Has(a.done, p, q) \/ Covers(D, p, q)
      BY <2>3, <2>4, <3>1, Skipped
    <3> QED  BY <2>4, <3>2
  <2>7. D.start \in Int
    <3>1. D \in S
      BY <2>3, <2>4, Around
    <3> QED  BY <3>1, SpanFields
  <2>8. Plain(f.done)
    <3>1. D.start <= D.end
      BY <2>4, <2>7, <1>2
    <3> QED  BY <3>1, <2>4, <2>6, <1>1 DEF Plain
  <2>9. h = IF s.end <= D.end THEN NextSource(f) ELSE f
    <3>1. s.end >= D.end
      BY <1>2, <2>4
    <3> QED  BY <1>7, <3>1 DEF AndCombined, s, d, a, b, f
  <2> HIDE DEF h, D, S
  <2>10. h \in Cursors(S) /\ InOrder(h) /\ h.done = f.done /\ h.rest = R
         /\ Sorted(h.src) /\ Plain(h.src) /\ h.src = IF s.end <= D.end THEN T ELSE c.src
    <3>1. CASE s.end <= D.end
      <4>1. h = NextSource(f)
        BY <2>9, <3>1
      <4>2. f.src # <<>> /\ Sorted(f.src) /\ Plain(f.src)
        BY <1>1, <2>6
      <4> QED  BY <3>1, <4>1, <4>2, <2>6, Passed DEF T, S
    <3>2. CASE ~(s.end <= D.end)
      BY <2>9, <3>2, <2>6, <1>1
    <3> QED  BY <3>1, <3>2
  <2>11. ASSUME NEW p \in Int, NEW q \in Int
         PROVE  Stands(t, h.done, h.rest, h.src, p, q) <=> Stands(t, <<>>, x, y, p, q)
    <3>1. Has(f.done, p, q)
          <=> \/ Has(c.done, p, q)
              \/ d.start <= p /\ p < d.end /\ In(d.subspan, q) /\ In(s.subspan, q)
      BY <2>1, <2>5, <2>6
    <3>2. Has(R, p, q) => (Has(h.src, p, q) <=> Has(c.src, p, q))
      <4>1. CASE s.end <= D.end
        <5>1. Has(R, p, q) => ~(p < s.end)
          <6>1. s.end <= d.end /\ s.end \in Int /\ d.end \in Int
            BY <1>2, <2>4, <4>1
          <6>2. Has(R, p, q) => d.end <= p
            BY <1>3
          <6> QED  BY <6>1, <6>2
        <5>2. Has(R, p, q) => ~Covers(s, p, q)
          BY <5>1 DEF Covers
        <5> QED  BY <5>2, <4>1, <1>3, <2>10
      <4>2. CASE ~(s.end <= D.end)
        BY <4>2, <2>10
      <4> QED  BY <4>1, <4>2
    <3>3. Stands(t, h.done, h.rest, h.src, p, q)
          <=> Has(f.done, p, q) \/ (Has(R, p, q) /\ Has(h.src, p, q))
      BY <2>10 DEF Stands, Adding
    <3> QED  BY <3>1, <3>2, <3>3, <1>1, <1>5
  <2> QED  BY <2>8, <2>10, <2>11 DEF Going, Adding, h, S
<1> QED  BY <1>6, <1>7

\* sraSpanListSubtract goes on after its call, whether or not anything is left.
LEMMA SubtractReturn ==
  ASSUME NEW lim \in Limits, NEW subs, NEW odd, NEW flats, NEW x, NEW y,
         NEW c, Cut("Subtract", Spans(lim, subs, odd, flats), x, y, c), NEW sub,
         Returned("Subtract", subs, Dest(c).subspan, Source(c).subspan, sub)
  PROVE  Going("Subtract", Spans(lim, subs, odd, flats), x, y, SubtractCombined(c, sub))
<1> DEFINE S == Spans(lim, subs, odd, flats)
           t == "Subtract"
           s == Source(c)
           d == Dest(c)
           T == Tail(c.src)
           R == Tail(c.rest)
           b == SetSubspan(c, sub)
           a == Merge(b)
           D == Dest(a)
           Q == Tail(a.rest)
           h == SubtractCombined(c, sub)
<1>1. /\ c \in Cursors(S) /\ InOrder(c) /\ Sorted(c.src) /\ c.rest # <<>> /\ c.src # <<>>
      /\ Plain(c.src)
      /\ \A p, q \in Int : Stands(t, c.done, c.rest, c.src, p, q) <=> Stands(t, <<>>, x, y, p, q)
  BY DEF Cut, Adding
<1>2. /\ d.start \in Int /\ d.end \in Int /\ s.start \in Int /\ s.end \in Int
      /\ s.start <= d.start /\ d.start <= d.end /\ d.end <= s.end /\ d.start < lim /\ lim \in Int
  BY CutPlaces
<1>3. \A p, q \in Int :
        /\ Has(c.done, p, q) => p < d.start
        /\ Has(R, p, q) => d.end <= p
        /\ Has(T, p, q) => s.end <= p
        /\ Has(c.rest, p, q) <=> Covers(d, p, q) \/ Has(R, p, q)
        /\ Has(c.src, p, q) <=> Covers(s, p, q) \/ Has(T, p, q)
  BY CutPlaces
<1> HIDE DEF s, d, T, R
<1>4. ASSUME NEW p \in Int, NEW q \in Int, d.start <= p, p < s.end
      PROVE  Has(c.src, p, q) <=> In(s.subspan, q)
  <2>1. s.start <= p /\ p < s.end /\ ~(s.end <= p)
    BY <1>2, <1>4
  <2> QED  BY <2>1, <1>3 DEF Covers
<1>5. \A p, q \in Int : Stands(t, c.done, c.rest, c.src, p, q)
        <=> \/ Has(c.done, p, q)
            \/ d.start <= p /\ p < d.end /\ In(d.subspan, q) /\ ~In(s.subspan, q)
            \/ Has(R, p, q) /\ ~Has(c.src, p, q)
  <2> TAKE p, q \in Int
  <2>1. d.start <= p /\ p < d.end => (Has(c.src, p, q) <=> In(s.subspan, q))
    <3>1. p < d.end => p < s.end
      BY <1>2
    <3> QED  BY <3>1, <1>4
  <2> QED  BY <2>1, <1>3 DEF Stands, Adding, Covers
<1>6. CASE sub = <<>>
  <2>1. \A q \in Int : In(d.subspan, q) => In(s.subspan, q)
    BY <1>6 DEF Returned, Adding, d, s
  <2>2. h = Destroy(c)
    BY <1>6 DEF SubtractCombined
  <2> HIDE DEF h, S
  <2>3. /\ h \in Cursors(S) /\ InOrder(h)
        /\ h.done = c.done /\ h.rest = R /\ h.src = c.src
    BY <2>2, <1>1, Destroyed DEF R, S
  <2>4. ASSUME NEW p \in Int, NEW q \in Int
        PROVE  Stands(t, h.done, h.rest, h.src, p, q) <=> Stands(t, <<>>, x, y, p, q)
    <3>1. Stands(t, h.done, h.rest, h.src, p, q)
          <=> Has(c.done, p, q) \/ (Has(R, p, q) /\ ~Has(c.src, p, q))
      BY <2>3 DEF Stands, Adding
    <3>2. Stands(t, c.done, c.rest, c.src, p, q)
          <=> Has(c.done, p, q) \/ (Has(R, p, q) /\ ~Has(c.src, p, q))
      BY <1>5, <2>1
    <3> QED  BY <3>1, <3>2, <1>1
  <2> QED  BY <1>1, <2>3, <2>4 DEF Going, Adding, h, S
<1>7. CASE sub # <<>>
  <2>1. sub \in subs /\ \A q \in Int : In(sub, q) <=> In(d.subspan, q) /\ ~In(s.subspan, q)
    BY <1>7 DEF Returned, Adding, d, s
  <2>2. /\ b \in Cursors(S) /\ InOrder(b) /\ b.rest # <<>> /\ b.src = c.src
        /\ Dest(b).start = d.start /\ Dest(b).end = d.end /\ Dest(b).subspan = sub
        /\ \A p, q : Holds(b, p, q) <=> \/ Has(c.done, p, q) \/ Has(R, p, q)
                                        \/ d.start <= p /\ p < d.end /\ In(sub, q)
    BY <2>1, GivenSubspan DEF R, d
  <2> HIDE DEF b
  <2>3. a \in Cursors(S) /\ Merged(lim, b, a)
    BY <2>2, MergeBoth
  <2> HIDE DEF a
  <2>4. /\ InOrder(a) /\ a.rest # <<>> /\ a.src = c.src
        /\ D.subspan = sub /\ D.start <= d.start /\ D.end >= d.end
        /\ \A p, q \in Int : Holds(a, p, q) <=> Holds(b, p, q)
    <3>1. d.start # lim
      BY <1>2
    <3> QED  BY <3>1, <2>2, <2>3 DEF Merged
  <2>5. /\ D \in S /\ Q \in Seq(S)
        /\ \A v \in Range(a.done) : v.end <= D.start
        /\ \A v \in Range(Q) : D.end <= v.start
        /\ \A p, q : Has(a.rest, p, q) <=> Covers(D, p, q) \/ Has(Q, p, q)
    BY <2>3, <2>4, Around
  <2>6. D.start \in Int /\ D.end \in Int /\ a.done \in Seq(S)
    BY <2>3, <2>5, SpanFields, CursorParts
  <2> HIDE DEF D, Q
  <2>7. ASSUME NEW p \in Int, NEW q \in Int
        PROVE  /\ Has(a.done, p, q) => p < D.start
               /\ Has(Q, p, q) => D.end <= p
               /\ Covers(D, p, q) <=> D.start <= p /\ p < D.end /\ In(sub, q)
    <3>1. Has(a.done, p, q) => p < D.start
      BY <2>5, <2>6, HasBefore
    <3>2. Has(Q, p, q) => D.end <= p
      BY <2>5, <2>6, HasBehind
    <3>3. Covers(D, p, q) <=> D.start <= p /\ p < D.end /\ In(sub, q)
      BY <2>4 DEF Covers
    <3> QED  BY <3>1, <3>2, <3>3
  <2>8. \A p, q \in Int : Has(a.done, p, q) \/ Covers(D, p, q) \/ Has(Q, p, q)
                          <=> \/ Has(c.done, p, q) \/ Has(R, p, q)
                              \/ d.start <= p /\ p < d.end /\ In(sub, q)
    BY <2>2, <2>4, <2>5 DEF Holds
  <2>9. h = IF s.end > D.end THEN Skip(a) ELSE NextSource(a)
    BY <1>7 DEF SubtractCombined, s, a, b, D
  <2> HIDE DEF h, S
  <2>10. CASE s.end > D.end
    <3>1. /\ h \in Cursors(S) /\ InOrder(h) /\ h.src = c.src /\ h.rest = Q
          /\ \A p, q : Has(h.done, p, q) <=> Has(a.done, p, q) \/ Covers(D, p, q)
      BY <2>3, <2>4, <2>9, <2>10, Skipped DEF S, D, Q
    <3>2. ASSUME NEW p \in Int, NEW q \in Int
          PROVE  Stands(t, h.done, h.rest, h.src, p, q) <=> Stands(t, <<>>, x, y, p, q)
      <4>1. Stands(t, h.done, h.rest, h.src, p, q)
            <=> Has(a.done, p, q) \/ Covers(D, p, q) \/ (Has(Q, p, q) /\ ~Has(c.src, p, q))
        BY <3>1 DEF Stands, Adding
      <4>2. CASE p < D.end
        <5>1. ~Has(Q, p, q) /\ p < s.end
          BY <4>2, <2>6, <2>7, <2>10, <1>2
        <5>2. Has(R, p, q) => ~Has(c.src, p, q)
          <6>1. Has(R, p, q) => d.end <= p /\ d.start <= p /\ D.start <= p
            BY <1>2, <1>3, <2>4, <2>6
          <6>2. Has(R, p, q) => Covers(D, p, q)
            BY <6>1, <5>1, <2>7, <2>8, <4>2, <2>6
          <6>3. Has(R, p, q) => ~In(s.subspan, q)
            BY <6>2, <2>1, <2>7
          <6> QED  BY <6>1, <6>3, <5>1, <1>4
        <5> QED  BY <4>1, <5>1, <5>2, <1>1, <1>5, <2>1, <2>8
      <4>3. CASE ~(p < D.end)
        <5>1. ~(p < d.end) /\ ~(p < D.start) /\ ~(p < d.start)
          BY <4>3, <1>2, <2>4, <2>6
        <5> QED  BY <4>1, <4>3, <5>1, <1>1, <1>3, <1>5, <2>7, <2>8
      <4> QED  BY <4>2, <4>3
    <3> QED  BY <3>1, <3>2, <1>1 DEF Going, Adding, h, S
  <2>11. CASE ~(s.end > D.end)
    <3>1. /\ h \in Cursors(S) /\ InOrder(h) /\ h.src = T /\ h.rest = a.rest /\ h.done = a.done
          /\ Sorted(h.src) /\ Plain(h.src)
      <4>1. a.src # <<>> /\ Sorted(a.src) /\ Plain(a.src)
        BY <2>4, <1>1
      <4> QED  BY <4>1, <2>3, <2>4, <2>9, <2>11, Passed DEF S, T
    <3>2. ASSUME NEW p \in Int, NEW q \in Int
          PROVE  Stands(t, h.done, h.rest, h.src, p, q) <=> Stands(t, <<>>, x, y, p, q)
      <4>1. Stands(t, h.done, h.rest, h.src, p, q)
            <=> Has(a.done, p, q) \/ ((Covers(D, p, q) \/ Has(Q, p, q)) /\ ~Has(T, p, q))
        BY <3>1, <2>5 DEF Stands, Adding
      <4>2. CASE p < d.end
        <5>1. ~Has(T, p, q) /\ ~Has(R, p, q) /\ ~Has(Q, p, q)
          <6>1. ~(s.end <= p) /\ ~(d.end <= p) /\ ~(D.end <= p)
            BY <4>2, <2>4, <2>6, <1>2
          <6> QED  BY <6>1, <2>7, <1>3
        <5> QED  BY <4>1, <5>1, <1>1, <1>5, <2>1, <2>8
      <4>3. CASE ~(p < d.end)
        <5>1. ~(p < d.start) /\ ~(p < D.start)
          BY <4>3, <1>2, <2>4, <2>6
        <5>2. Covers(D, p, q) => ~Covers(s, p, q)
          BY <2>1, <2>7 DEF Covers
        <5>3. Has(Q, p, q) => ~Covers(s, p, q)
          <6>1. Has(Q, p, q) => ~(p < s.end)
            BY <2>6, <2>7, <2>11, <1>2
          <6> QED  BY <6>1 DEF Covers
        <5>4. ~Has(c.done, p, q) /\ ~Has(a.done, p, q)
          BY <5>1, <1>3, <2>7
        <5> QED  BY <4>1, <4>3, <5>2, <5>3, <5>4, <1>1, <1>3, <1>5, <2>8
      <4> QED  BY <4>2, <4>3
    <3> QED  BY <3>1, <3>2 DEF Going, Adding, h, S
  <2> QED  BY <2>10, <2>11
<1> QED  BY <1>6, <1>7

-----------------------------------------------------------------------------
(* The loops. *)

Operations == {"Mark", "Request", "Intersect", "Subtract"}

LEMMA WalkIs ==
  ASSUME NEW x, NEW y
  PROVE  Walk(x, y).done = <<>> /\ Walk(x, y).rest = x /\ Walk(x, y).src = y
BY DEF Walk

\* A walk that begins has done nothing yet.
LEMMA WalkStarted ==
  ASSUME NEW lim \in Limits, NEW subs, NEW odd, NEW flats,
         NEW t, NEW x \in Seq(Spans(lim, subs, odd, flats)),
         NEW y \in Seq(Spans(lim, subs, odd, flats)), Sorted(x), Sorted(y), t \notin Adding => Plain(y)
  PROVE  Going(t, Spans(lim, subs, odd, flats), x, y, Walk(x, y))
<1> DEFINE S == Spans(lim, subs, odd, flats)
           c == Walk(x, y)
<1>1. c = Cursor(<<>>, x, y)
  BY DEF Walk, Cursor
<1>2. <<>> \in Seq(S) /\ Range(<<>>) = {} /\ Sorted(<<>>)
  BY None
<1> HIDE DEF c, S
<1>3. c.done = <<>> /\ c.rest = x /\ c.src = y
  BY <1>1, CursorIs
<1>4. c \in Cursors(S)
  BY <1>1, <1>2, CursorMade DEF S
<1>5. InOrder(c) /\ Before(c.done, c.src) /\ Plain(c.done)
  BY <1>2, <1>3 DEF InOrder, Before, Plain
<1> QED  BY <1>3, <1>4, <1>5 DEF Going, c, S

\* What a walk leaves when its loop has ended.
LEMMA WalkEnded ==
  ASSUME NEW lim \in Limits, NEW subs, NEW odd, NEW flats,
         task \in Operations, NEW x, NEW y, NEW c,
         Going(task, Spans(lim, subs, odd, flats), x, y, c), AtEnd(c)
  PROVE  /\ Result(c) \in Seq(Spans(lim, subs, odd, flats)) /\ Sorted(Result(c))
         /\ task = "Intersect" => Plain(Result(c))
         /\ task \in Adding /\ x # <<>> => Result(c) # <<>>
         /\ \A p, q \in Int : Has(Result(c), p, q) <=> Stands(task, <<>>, x, y, p, q)
<1> DEFINE S == Spans(lim, subs, odd, flats)
           r == Result(c)
<1>1. /\ c \in Cursors(S) /\ InOrder(c)
      /\ task = "Intersect" => Plain(c.done)
      /\ task \in Adding /\ x # <<>> => c.done # <<>> \/ c.rest # <<>>
      /\ \A p, q \in Int : Stands(task, c.done, c.rest, c.src, p, q)
                           <=> Stands(task, <<>>, x, y, p, q)
  BY DEF Going
<1>2. c.done \in Seq(S) /\ c.rest \in Seq(S)
  BY <1>1, CursorParts
<1>3. \A p, q : ~Has(<<>>, p, q)
  BY HasNone
<1>4. CASE task = "Intersect"
  <2>1. r = c.done
    BY <1>4 DEF Result
  <2>2. c.src = <<>> \/ c.rest = <<>>
    BY DEF AtEnd
  <2> HIDE DEF r
  <2>3. \A p, q : Stands(task, c.done, c.rest, c.src, p, q) <=> Has(r, p, q)
    BY <1>3, <1>4, <2>1, <2>2 DEF Stands, Adding
  <2>4. Sorted(r)
    BY <1>1, <2>1 DEF InOrder
  <2>5. task \notin Adding
    BY <1>4 DEF Adding
  <2> QED  BY <1>1, <1>2, <1>4, <2>1, <2>3, <2>4, <2>5 DEF r
<1>5. CASE task # "Intersect"
  <2>1. r = c.done \o c.rest
    BY <1>5 DEF Result
  <2> HIDE DEF r, S
  <2>2. r \in Seq(S) /\ Range(r) = Range(c.done) \cup Range(c.rest)
        /\ (Sorted(r) <=> Sorted(c.done) /\ Sorted(c.rest) /\ Before(c.done, c.rest))
    BY <1>2, <2>1, Concatenating
  <2>3. \A p, q : Has(r, p, q) <=> Has(c.done, p, q) \/ Has(c.rest, p, q)
    BY <2>2 DEF Has
  <2>4. Sorted(r)
    BY <1>1, <2>2 DEF InOrder
  <2>5. \A p, q : Stands(task, c.done, c.rest, c.src, p, q) <=> Has(r, p, q)
    <3>1. CASE task \in Adding
      <4>1. c.src = <<>>
        BY <3>1 DEF AtEnd, Adding
      <4> QED  BY <1>3, <2>3, <3>1, <4>1 DEF Stands
    <3>2. CASE task \notin Adding
      <4>1. c.src = <<>> \/ c.rest = <<>>
        BY DEF AtEnd
      <4> QED  BY <1>3, <1>5, <2>3, <3>2, <4>1 DEF Stands
    <3> QED  BY <3>1, <3>2
  <2>6. task \in Adding /\ x # <<>> => r # <<>>
    <3>1. \A l \in Seq(S) : l # <<>> => Head(l) \in Range(l)
      BY HeadAndTail
    <3>2. c.done # <<>> \/ c.rest # <<>> => Range(r) # {}
      BY <3>1, <1>2, <2>2
    <3> QED  BY <3>2, <1>1, None
  <2> QED  BY <1>1, <1>5, <2>2, <2>4, <2>5, <2>6 DEF r, S
<1> QED  BY <1>4, <1>5

\* A round either goes on with the walk or cuts a span for a call.
LEMMA RoundGoesOn ==
  ASSUME NEW lim \in Limits, NEW subs, NEW odd, NEW flats, NEW x, NEW y,
         Going(task, Spans(lim, subs, odd, flats), x, y, Top), Or \/ And \/ Subtract
  PROVE  \E h : \/ WalkOn(h) /\ Going(task, Spans(lim, subs, odd, flats), x, y, h)
                \/ Descend(h) /\ Cut(task, Spans(lim, subs, odd, flats), x, y, h)
<1> DEFINE S == Spans(lim, subs, odd, flats)
           c == Top
           s == Source(c)
<1>1. CASE Or
  <2>1. task \in Adding /\ c.src # <<>>
    BY <1>1 DEF Or, Adding
  <2>2. CASE c.rest = <<>> /\ WalkOn(NextSource(InsertBefore(c, s)))
    <3>1. Range(c.rest) = {}
      BY <2>2, None
    <3>2. Going(task, S, x, y, NextSource(InsertBefore(c, s)))
      <4>1. \A v \in Range(c.rest) : s.end <= v.start
        BY <3>1
      <4> HIDE DEF c
      <4> QED  BY <2>1, <4>1, OrAppended DEF c
    <3> QED  BY <2>2, <3>2
  <2>3. CASE /\ c.rest # <<>> /\ Dest(c).start >= s.end
             /\ WalkOn(NextSource(MergePrevious(InsertBefore(c, s))))
    <3>1. Going(task, S, x, y, NextSource(MergePrevious(InsertBefore(c, s))))
      BY <2>1, <2>3, OrInserted
    <3> QED  BY <2>3, <3>1
  <2>4. CASE /\ c.rest # <<>> /\ Dest(c).start < s.end /\ Overlap(c)
             /\ Descend(Isolate(Preceded(c), s.start, s.end))
    <3>1. Cut(task, S, x, y, Isolate(Preceded(c), s.start, s.end))
      BY <2>1, <2>4, OrCut
    <3> QED  BY <2>4, <3>1
  <2>5. CASE c.rest # <<>> /\ Dest(c).start < s.end /\ ~Overlap(c) /\ WalkOn(Skip(c))
    <3>1. Going(task, S, x, y, Skip(c))
      BY <2>1, <2>5, OrSkipped
    <3> QED  BY <2>5, <3>1
  <2> QED  BY <1>1, <2>2, <2>3, <2>4, <2>5 DEF Or
<1>2. CASE And
  <2>1. task = "Intersect" /\ c.src # <<>> /\ c.rest # <<>>
    BY <1>2 DEF And
  <2>2. CASE Dest(c).start >= s.end /\ WalkOn(NextSource(c))
    <3>1. task \notin Adding
      BY <2>1 DEF Adding
    <3>2. Going(task, S, x, y, NextSource(c))
      BY <2>1, <2>2, <3>1, SourcePassed
    <3> QED  BY <2>2, <3>2
  <2>3. CASE /\ Dest(c).start < s.end /\ Overlap(c)
             /\ Descend([Isolate(c, s.start, s.end) EXCEPT !.done = c.done])
    <3>1. Cut(task, S, x, y, [Isolate(c, s.start, s.end) EXCEPT !.done = c.done])
      BY <2>1, <2>3, AndCut
    <3> QED  BY <2>3, <3>1
  <2>4. CASE Dest(c).start < s.end /\ ~Overlap(c) /\ WalkOn(Destroy(c))
    <3>1. Going(task, S, x, y, Destroy(c))
      BY <2>1, <2>4, AndDestroyed
    <3> QED  BY <2>4, <3>1
  <2> QED  BY <1>2, <2>2, <2>3, <2>4 DEF And
<1>3. CASE Subtract
  <2>1. task = "Subtract" /\ c.src # <<>> /\ c.rest # <<>>
    BY <1>3 DEF Subtract
  <2>2. CASE Dest(c).start >= s.end /\ WalkOn(NextSource(c))
    <3>1. task \notin Adding
      BY <2>1 DEF Adding
    <3>2. Going(task, S, x, y, NextSource(c))
      BY <2>1, <2>2, <3>1, SourcePassed
    <3> QED  BY <2>2, <3>2
  <2>3. CASE /\ Dest(c).start < s.end /\ Overlap(c)
             /\ Descend(Isolate(c, s.start, s.end))
    <3>1. Cut(task, S, x, y, Isolate(c, s.start, s.end))
      BY <2>1, <2>3, SubtractCut
    <3> QED  BY <2>3, <3>1
  <2>4. CASE Dest(c).start < s.end /\ ~Overlap(c) /\ WalkOn(Skip(c))
    <3>1. Going(task, S, x, y, Skip(c))
      BY <2>1, <2>4, SubtractSkipped
    <3> QED  BY <2>4, <3>1
  <2> QED  BY <1>3, <2>2, <2>3, <2>4 DEF Subtract
<1> QED  BY <1>1, <1>2, <1>3

\* The loop goes on with what its call has returned.
LEMMA CombinedGoesOn ==
  ASSUME NEW lim \in Limits, NEW subs, NEW odd, NEW flats, NEW x, NEW y, task \in Operations,
         NEW c, Cut(task, Spans(lim, subs, odd, flats), x, y, c), NEW sub,
         Returned(task, subs, Dest(c).subspan, Source(c).subspan, sub)
  PROVE  Going(task, Spans(lim, subs, odd, flats), x, y, Combined(c, sub))
<1>1. CASE task \in Adding
  <2>1. Going(task, Spans(lim, subs, odd, flats), x, y, OrCombined(c, sub))
    BY <1>1, OrReturn
  <2>2. Combined(c, sub) = OrCombined(c, sub)
    BY <1>1 DEF Combined, Adding
  <2> QED  BY <2>1, <2>2
<1>2. CASE task = "Intersect"
  <2>1. Going(task, Spans(lim, subs, odd, flats), x, y, AndCombined(c, sub))
    BY <1>2, AndReturn
  <2>2. Combined(c, sub) = AndCombined(c, sub)
    BY <1>2 DEF Combined
  <2> QED  BY <2>1, <2>2
<1>3. CASE task = "Subtract"
  <2>1. Going(task, Spans(lim, subs, odd, flats), x, y, SubtractCombined(c, sub))
    BY <1>3, SubtractReturn
  <2>2. Combined(c, sub) = SubtractCombined(c, sub)
    BY <1>3 DEF Combined
  <2> QED  BY <2>1, <2>2
<1> QED  BY <1>1, <1>2, <1>3 DEF Operations, Adding

-----------------------------------------------------------------------------
(* The levels: a walk over rows calls itself for their lists of columns, and *)
(* that for the columns' own lists, which are NULL.                          *)

ColumnSpans(flats) == Spans(Width, {NULL}, FALSE, flats)
ColumnLists(flats) == {l \in Seq(ColumnSpans(flats)) : l # <<>> /\ Sorted(l)}
RowSpans(odd, flats) == Spans(Height, ColumnLists(flats), odd, flats)

\* Only the modified region has inverted rows.
Odd(t) == t # "Request"

\* The calls that are under way for task t over the regions x and y.
Stack(t, flats, x, y, w) ==
  \/ \E a : /\ w = <<a>>
            /\ Going(t, RowSpans(Odd(t), flats), x, y, a)
  \/ \E a, b : /\ w = <<b, a>>
               /\ Cut(t, RowSpans(Odd(t), flats), x, y, a)
               /\ Going(t, ColumnSpans(flats), Dest(a).subspan, Source(a).subspan, b)
  \/ \E a, b : /\ w = <<Walk(NULL, NULL), b, a>>
               /\ Cut(t, RowSpans(Odd(t), flats), x, y, a)
               /\ Cut(t, ColumnSpans(flats), Dest(a).subspan, Source(a).subspan, b)

LEMMA ColumnsPlain ==
  ASSUME NEW flats, NEW l \in Seq(ColumnSpans(flats))
  PROVE  Plain(l) /\ \A e \in Range(l) : e.subspan = NULL /\ 0 <= e.start /\ e.end <= Width
<1>1. Range(l) \subseteq ColumnSpans(flats)
  BY InRange
<1> QED  BY <1>1 DEF Plain, ColumnSpans, Spans

\* A list of columns holds q if it has it as a list.
LEMMA ColumnsHold ==
  ASSUME NEW flats, NEW l \in Seq(ColumnSpans(flats)), l # <<>>, NEW q
  PROVE  In(l, q) <=> Has(l, q, 0)
<1>1. \A e \in Range(l) : e.subspan = NULL
  BY ColumnsPlain
<1> QED  BY <1>1 DEF In, Has, Covers, NULL

\* What a walk over rows calls itself for are lists of columns.
LEMMA Called ==
  ASSUME NEW odd, NEW flats, NEW t, NEW x, NEW y, NEW a, Cut(t, RowSpans(odd, flats), x, y, a)
  PROVE  /\ Dest(a).subspan \in ColumnLists(flats) /\ Source(a).subspan \in ColumnLists(flats)
         /\ Going(t, ColumnSpans(flats), Dest(a).subspan, Source(a).subspan,
                  Walk(Dest(a).subspan, Source(a).subspan))
<1> DEFINE d == Dest(a).subspan
           s == Source(a).subspan
<1>1. Height \in Limits /\ Width \in Limits
  BY DEF Limits
<1>2. /\ a \in Cursors(RowSpans(odd, flats)) /\ InOrder(a) /\ a.rest # <<>> /\ a.src # <<>>
      /\ Sorted(a.src)
  BY DEF Cut
<1>3. Dest(a) \in RowSpans(odd, flats) /\ Source(a) \in RowSpans(odd, flats)
  BY <1>1, <1>2, Around, Sources DEF RowSpans
<1>4. d \in ColumnLists(flats) /\ s \in ColumnLists(flats)
  BY <1>1, <1>3, SpanFields DEF RowSpans
<1> HIDE DEF d, s
<1>5. d \in Seq(ColumnSpans(flats)) /\ s \in Seq(ColumnSpans(flats)) /\ Sorted(d) /\ Sorted(s)
  BY <1>4 DEF ColumnLists
<1>6. Plain(s)
  BY <1>5, ColumnsPlain
<1>7. Going(t, ColumnSpans(flats), d, s, Walk(d, s))
  BY <1>1, <1>5, <1>6, WalkStarted DEF ColumnSpans
<1> QED  BY <1>4, <1>7 DEF d, s

\* What a walk over columns calls itself for is NULL on both sides.
LEMMA CalledForNull ==
  ASSUME NEW flats, NEW t, NEW x, NEW y, NEW b, Cut(t, ColumnSpans(flats), x, y, b)
  PROVE  Dest(b).subspan = NULL /\ Source(b).subspan = NULL
<1>1. Width \in Limits
  BY DEF Limits
<1>2. /\ b \in Cursors(ColumnSpans(flats)) /\ InOrder(b) /\ b.rest # <<>> /\ b.src # <<>>
      /\ Sorted(b.src)
  BY DEF Cut
<1>3. Dest(b) \in ColumnSpans(flats) /\ Source(b) \in ColumnSpans(flats)
  BY <1>1, <1>2, Around, Sources DEF ColumnSpans
<1> QED  BY <1>3 DEF ColumnSpans, Spans

LEMMA NullReturned ==
  ASSUME task \in Operations
  PROVE  Returned(task, {NULL}, NULL, NULL, <<>>)
BY DEF Returned, In, NULL, Adding, Operations

\* A walk over columns that has ended keeps the callee's contract.
LEMMA ColumnsReturned ==
  ASSUME NEW flats,
         task \in Operations, NEW x \in ColumnLists(flats), NEW y \in ColumnLists(flats), NEW b,
         Going(task, ColumnSpans(flats), x, y, b), AtEnd(b)
  PROVE  Returned(task, ColumnLists(flats), x, y, Result(b))
<1> DEFINE r == Result(b)
<1>1. Width \in Limits
  BY DEF Limits
<1>2. /\ r \in Seq(ColumnSpans(flats)) /\ Sorted(r)
      /\ task \in Adding /\ x # <<>> => r # <<>>
      /\ \A p, q \in Int : Has(r, p, q) <=> Stands(task, <<>>, x, y, p, q)
  BY <1>1, WalkEnded DEF ColumnSpans
<1> HIDE DEF r
<1>3. x \in Seq(ColumnSpans(flats)) /\ x # <<>> /\ y \in Seq(ColumnSpans(flats)) /\ y # <<>>
  BY DEF ColumnLists
<1>4. \A q : (In(x, q) <=> Has(x, q, 0)) /\ (In(y, q) <=> Has(y, q, 0))
  BY <1>3, ColumnsHold
<1>5. r # <<>> => r \in ColumnLists(flats) /\ \A q : In(r, q) <=> Has(r, q, 0)
  BY <1>2, ColumnsHold DEF ColumnLists
<1>6. \A p, q : ~Has(<<>>, p, q)
  BY HasNone
<1>7. \A q \in Int : Has(r, q, 0) <=> Stands(task, <<>>, x, y, q, 0)
  BY <1>2
<1>8. CASE task \in Adding
  <2>1. \A q \in Int : Has(r, q, 0) <=> In(x, q) \/ In(y, q)
    BY <1>4, <1>6, <1>7, <1>8 DEF Stands
  <2>2. r # <<>>
    BY <1>2, <1>3, <1>8
  <2> QED  BY <1>5, <1>8, <2>1, <2>2 DEF Returned, r
<1>9. CASE task = "Intersect"
  <2>1. \A q \in Int : Has(r, q, 0) <=> In(x, q) /\ In(y, q)
    BY <1>4, <1>6, <1>7, <1>9 DEF Stands, Adding
  <2>2. r = <<>> => \A q \in Int : ~(In(x, q) /\ In(y, q))
    BY <1>6, <2>1
  <2> QED  BY <1>3, <1>5, <1>9, <2>1, <2>2 DEF Returned, Adding, r, NULL
<1>10. CASE task = "Subtract"
  <2>1. \A q \in Int : Has(r, q, 0) <=> In(x, q) /\ ~In(y, q)
    BY <1>4, <1>6, <1>7, <1>10 DEF Stands, Adding
  <2>2. r = <<>> => \A q \in Int : In(x, q) => In(y, q)
    BY <1>6, <2>1
  <2> QED  BY <1>5, <1>10, <2>1, <2>2 DEF Returned, Adding, r
<1> QED  BY <1>8, <1>9, <1>10 DEF Operations, Adding

\* A stack of calls by its length.
LEMMA OneCall ==
  ASSUME NEW a
  PROVE  <<a>> # <<>> /\ Head(<<a>>) = a /\ Tail(<<a>>) = <<>> /\ Len(<<a>>) = 1
OBVIOUS

LEMMA TwoCalls ==
  ASSUME NEW a, NEW b
  PROVE  /\ <<b, a>> # <<>> /\ Head(<<b, a>>) = b /\ Tail(<<b, a>>) = <<a>> /\ Len(<<b, a>>) = 2
         /\ <<b, a>>[2] = a /\ <<b>> \o <<a>> = <<b, a>> /\ <<b>> \o <<>> = <<b>>
<1> DEFINE S == {a, b}
           m == <<b>> \o <<a>>
<1>1. /\ <<b, a>> # <<>> /\ Head(<<b, a>>) = b /\ Tail(<<b, a>>) = <<a>>
      /\ Len(<<b, a>>) = 2 /\ <<b, a>>[1] = b /\ <<b, a>>[2] = a /\ <<b, a>> \in Seq(S)
  OBVIOUS
<1>2. <<b>> \in Seq(S) /\ <<a>> \in Seq(S)
  OBVIOUS
<1>3. m \in Seq(S) /\ Len(m) = 2 /\ m[1] = b /\ m[2] = a
  <2>1. Len(<<b>>) = 1 /\ <<b>>[1] = b /\ Len(<<a>>) = 1 /\ <<a>>[1] = a
    OBVIOUS
  <2> DEFINE u == <<b>>
             v == <<a>>
  <2> HIDE DEF u, v, S
  <2>2. u \in Seq(S) /\ v \in Seq(S) /\ Len(u) = 1 /\ u[1] = b /\ Len(v) = 1 /\ v[1] = a
    BY <1>2, <2>1 DEF u, v
  <2>3. /\ u \o v \in Seq(S) /\ Len(u \o v) = Len(u) + Len(v)
        /\ \A i \in 1..Len(u) : (u \o v)[i] = u[i]
        /\ \A i \in 1..Len(v) : (u \o v)[Len(u) + i] = v[i]
    <3>1. u \in Seq(S) /\ v \in Seq(S)
      BY <2>2
    <3> QED  BY <3>1, Concatenating
  <2>4. Len(u \o v) = 2 /\ (u \o v)[1] = b /\ (u \o v)[1 + 1] = a
    BY <2>2, <2>3
  <2> QED  BY <2>3, <2>4 DEF u, v
<1>4. m = <<b, a>>
  <2> DEFINE n == <<b, a>>
  <2>1. n \in Seq(S) /\ Len(n) = 2 /\ n[1] = b /\ n[2] = a
    BY <1>1
  <2> HIDE DEF m, n, S
  <2>2. \A i \in 1..Len(m) : m[i] = n[i]
    BY <1>3, <2>1
  <2>3. m = n
    BY <1>3, <2>1, <2>2, SeqEqual
  <2> QED  BY <2>3 DEF n
<1>5. <<b>> \o <<>> = <<b>>
  BY <1>2, ConcatEmptySeq
<1> QED  BY <1>1, <1>4, <1>5 DEF m

LEMMA ThreeCalls ==
  ASSUME NEW a, NEW b, NEW c
  PROVE  /\ <<c, b, a>> # <<>> /\ Head(<<c, b, a>>) = c /\ Tail(<<c, b, a>>) = <<b, a>>
         /\ Len(<<c, b, a>>) = 3 /\ <<c, b, a>>[2] = b
         /\ <<c, b>> \o <<a>> = <<c, b, a>>
<1> DEFINE S == {a, b, c}
           m == <<c, b>> \o <<a>>
<1>1. /\ <<c, b, a>> # <<>> /\ Head(<<c, b, a>>) = c
      /\ Len(<<c, b, a>>) = 3 /\ <<c, b, a>>[1] = c /\ <<c, b, a>>[2] = b /\ <<c, b, a>>[3] = a
      /\ <<c, b, a>> \in Seq(S)
  OBVIOUS
<1>2. Tail(<<c, b, a>>) = <<b, a>>
  OBVIOUS
<1>3. m \in Seq(S) /\ Len(m) = 3 /\ m[1] = c /\ m[2] = b /\ m[3] = a
  <2> DEFINE u == <<c, b>>
             v == <<a>>
  <2>1. /\ u \in Seq(S) /\ v \in Seq(S)
        /\ Len(u) = 2 /\ u[1] = c /\ u[2] = b /\ Len(v) = 1 /\ v[1] = a
    OBVIOUS
  <2> HIDE DEF u, v, S
  <2>2. /\ u \o v \in Seq(S) /\ Len(u \o v) = Len(u) + Len(v)
        /\ \A i \in 1..Len(u) : (u \o v)[i] = u[i]
        /\ \A i \in 1..Len(v) : (u \o v)[Len(u) + i] = v[i]
    <3>1. u \in Seq(S) /\ v \in Seq(S)
      BY <2>1
    <3> QED  BY <3>1, Concatenating
  <2>3. Len(u \o v) = 3 /\ (u \o v)[1] = c /\ (u \o v)[2] = b /\ (u \o v)[2 + 1] = a
    BY <2>1, <2>2
  <2> QED  BY <2>2, <2>3 DEF u, v
<1>4. m = <<c, b, a>>
  <2> DEFINE n == <<c, b, a>>
  <2>1. n \in Seq(S) /\ Len(n) = 3 /\ n[1] = c /\ n[2] = b /\ n[3] = a
    BY <1>1
  <2> HIDE DEF m, n, S
  <2>2. \A i \in 1..Len(m) : m[i] = n[i]
    BY <1>3, <2>1
  <2>3. m = n
    BY <1>3, <2>1, <2>2, SeqEqual
  <2> QED  BY <2>3 DEF n
<1> QED  BY <1>1, <1>2, <1>4 DEF m

\* A round of the innermost walk keeps the stack of calls.
LEMMA StackRound ==
  ASSUME NEW flats,
         task \in Operations, NEW x, NEW y, Stack(task, flats, x, y, walks), Or \/ And \/ Subtract
  PROVE  Stack(task, flats, x, y, walks')
<1>1. Height \in Limits /\ Width \in Limits
  BY DEF Limits
<1> DEFINE R == RowSpans(Odd(task), flats)
<1>2. CASE \E a : walks = <<a>> /\ Going(task, R, x, y, a)
  <2>1. PICK a : walks = <<a>> /\ Going(task, R, x, y, a)
    BY <1>2
  <2>2. Top = a /\ Tail(walks) = <<>>
    BY <2>1, OneCall DEF Top
  <2>3. PICK h : \/ WalkOn(h) /\ Going(task, R, x, y, h)
                 \/ Descend(h) /\ Cut(task, R, x, y, h)
    BY <1>1, <2>1, <2>2, RoundGoesOn DEF RowSpans
  <2>4. CASE WalkOn(h) /\ Going(task, R, x, y, h)
    <3>1. walks' = <<h>>
      BY <2>2, <2>4, TwoCalls DEF WalkOn
    <3> QED  BY <2>4, <3>1 DEF Stack
  <2>5. CASE Descend(h) /\ Cut(task, R, x, y, h)
    <3> DEFINE b == Walk(Dest(h).subspan, Source(h).subspan)
    <3>1. walks' = <<b, h>>
      <4>1. walks' = <<b, h>> \o Tail(walks)
        BY <2>5 DEF Descend
      <4> HIDE DEF b
      <4>2. <<b, h>> \in Seq({b, h})
        OBVIOUS
      <4> QED  BY <2>2, <4>1, <4>2, ConcatEmptySeq
    <3>2. Going(task, ColumnSpans(flats), Dest(h).subspan, Source(h).subspan, b)
      BY <2>5, Called
    <3> HIDE DEF b
    <3> QED  BY <2>5, <3>1, <3>2 DEF Stack
  <2> QED  BY <2>3, <2>4, <2>5
<1>3. CASE \E a, b : /\ walks = <<b, a>>
                     /\ Cut(task, R, x, y, a)
                     /\ Going(task, ColumnSpans(flats), Dest(a).subspan, Source(a).subspan, b)
  <2>1. PICK a, b : /\ walks = <<b, a>>
                    /\ Cut(task, R, x, y, a)
                    /\ Going(task, ColumnSpans(flats), Dest(a).subspan, Source(a).subspan, b)
    BY <1>3
  <2>2. Top = b /\ Tail(walks) = <<a>>
    BY <2>1, TwoCalls DEF Top
  <2> DEFINE u == Dest(a).subspan
             v == Source(a).subspan
  <2> HIDE DEF u, v
  <2>3. PICK h : \/ WalkOn(h) /\ Going(task, ColumnSpans(flats), u, v, h)
                 \/ Descend(h) /\ Cut(task, ColumnSpans(flats), u, v, h)
    BY <1>1, <2>1, <2>2, RoundGoesOn DEF ColumnSpans, u, v
  <2>4. CASE WalkOn(h) /\ Going(task, ColumnSpans(flats), u, v, h)
    <3>1. walks' = <<h, a>>
      BY <2>2, <2>4, TwoCalls DEF WalkOn
    <3> QED  BY <2>1, <2>4, <3>1 DEF Stack, u, v
  <2>5. CASE Descend(h) /\ Cut(task, ColumnSpans(flats), u, v, h)
    <3>1. Dest(h).subspan = NULL /\ Source(h).subspan = NULL
      BY <2>5, CalledForNull
    <3>2. walks' = <<Walk(NULL, NULL), h, a>>
      BY <2>2, <2>5, <3>1, ThreeCalls DEF Descend
    <3> QED  BY <2>1, <2>5, <3>2 DEF Stack, u, v
  <2> QED  BY <2>3, <2>4, <2>5
<1>4. CASE \E a, b : /\ walks = <<Walk(NULL, NULL), b, a>>
                     /\ Cut(task, R, x, y, a)
                     /\ Cut(task, ColumnSpans(flats), Dest(a).subspan, Source(a).subspan, b)
  <2>1. Top = Walk(NULL, NULL)
    BY <1>4, ThreeCalls DEF Top
  <2>2. Top.src = <<>>
    BY <2>1, WalkIs DEF NULL
  <2> QED  BY <2>2 DEF Or, And, Subtract
<1> QED  BY <1>2, <1>3, <1>4 DEF Stack

\* So does its return.
LEMMA StackReturn ==
  ASSUME NEW flats, task \in Operations, NEW x, NEW y, Stack(task, flats, x, y, walks), Return
  PROVE  Stack(task, flats, x, y, walks')
<1>1. Height \in Limits /\ Width \in Limits
  BY DEF Limits
<1> DEFINE R == RowSpans(Odd(task), flats)
<1>2. CASE \E a : walks = <<a>> /\ Going(task, R, x, y, a)
  BY <1>2, OneCall DEF Return
<1>3. CASE \E a, b : /\ walks = <<b, a>>
                     /\ Cut(task, R, x, y, a)
                     /\ Going(task, ColumnSpans(flats), Dest(a).subspan, Source(a).subspan, b)
  <2>1. PICK a, b : /\ walks = <<b, a>>
                    /\ Cut(task, R, x, y, a)
                    /\ Going(task, ColumnSpans(flats), Dest(a).subspan, Source(a).subspan, b)
    BY <1>3
  <2> DEFINE h == Combined(a, Result(b))
  <2>2. Top = b /\ walks[2] = a /\ Tail(Tail(walks)) = <<>>
    BY <2>1, TwoCalls, OneCall DEF Top
  <2>3. AtEnd(b)
    BY <2>2 DEF Return
  <2>4. Returned(task, ColumnLists(flats), Dest(a).subspan, Source(a).subspan, Result(b))
    BY <2>1, <2>3, Called, ColumnsReturned
  <2>5. Going(task, R, x, y, h)
    BY <1>1, <2>1, <2>4, CombinedGoesOn DEF RowSpans
  <2>6. walks' = <<h>>
    <3>1. walks' = <<h>> \o Tail(Tail(walks))
      BY <2>2 DEF Return
    <3> HIDE DEF h
    <3> QED  BY <2>2, <3>1, TwoCalls
  <2> HIDE DEF h
  <2> QED  BY <2>5, <2>6 DEF Stack
<1>4. CASE \E a, b : /\ walks = <<Walk(NULL, NULL), b, a>>
                     /\ Cut(task, R, x, y, a)
                     /\ Cut(task, ColumnSpans(flats), Dest(a).subspan, Source(a).subspan, b)
  <2>1. PICK a, b : /\ walks = <<Walk(NULL, NULL), b, a>>
                    /\ Cut(task, R, x, y, a)
                    /\ Cut(task, ColumnSpans(flats), Dest(a).subspan, Source(a).subspan, b)
    BY <1>4
  <2> DEFINE u == Dest(a).subspan
             v == Source(a).subspan
             h == Combined(b, <<>>)
  <2> HIDE DEF u, v
  <2>2. Top = Walk(NULL, NULL) /\ walks[2] = b /\ Tail(Tail(walks)) = <<a>>
    BY <2>1, TwoCalls, ThreeCalls DEF Top
  <2>3. Result(Top) = <<>>
    <3>1. Top.done = <<>> /\ Top.rest = <<>>
      BY <2>2, WalkIs DEF NULL
    <3>2. <<>> \o <<>> = <<>>
      OBVIOUS
    <3> QED  BY <3>1, <3>2 DEF Result
  <2>4. Dest(b).subspan = NULL /\ Source(b).subspan = NULL
    BY <2>1, CalledForNull
  <2>5. Returned(task, {NULL}, Dest(b).subspan, Source(b).subspan, <<>>)
    BY <2>4, NullReturned
  <2>6. Cut(task, ColumnSpans(flats), u, v, b)
    BY <2>1 DEF u, v
  <2>7. Going(task, ColumnSpans(flats), u, v, h)
    BY <1>1, <2>5, <2>6, CombinedGoesOn DEF ColumnSpans
  <2>8. walks' = <<h, a>>
    <3>1. walks' = <<h>> \o Tail(Tail(walks))
      BY <2>2, <2>3 DEF Return
    <3> HIDE DEF h
    <3> QED  BY <2>2, <3>1, TwoCalls
  <2> HIDE DEF h
  <2> QED  BY <2>1, <2>7, <2>8 DEF Stack, u, v
<1> QED  BY <1>2, <1>3, <1>4 DEF Stack

-----------------------------------------------------------------------------
(* Regions. *)

Regions(odd, flats) == {l \in Seq(RowSpans(odd, flats)) : Sorted(l)}

LEMMA RowFields ==
  ASSUME NEW odd, NEW flats, NEW e \in RowSpans(odd, flats)
  PROVE  /\ e.start \in Int /\ e.end \in Int /\ e.end <= Height
         /\ e.subspan \in Seq(ColumnSpans(flats)) /\ e.subspan # <<>> /\ Sorted(e.subspan)
         /\ e.start <= e.end => 0 <= e.start
         /\ e.start = e.end => Allowed(flats)
         /\ e.start > e.end => odd /\ Inverted(e)
         /\ ~odd => e.start <= e.end
<1>1. Height \in Limits
  BY DEF Limits
<1>2. /\ e.start \in Int /\ e.end \in Int /\ e.subspan \in ColumnLists(flats) /\ e.end <= Height
      /\ e.start <= e.end => 0 <= e.start
      /\ e.start = e.end => Allowed(flats)
      /\ e.start > e.end => odd /\ e.start = NoCoord /\ e.end = Height
  BY <1>1, SpanFields DEF RowSpans
<1>3. NoCoord > Height /\ NoCoord \in Int /\ Height \in Int
  BY <1>1, Numbers
<1> QED  BY <1>2, <1>3 DEF ColumnLists, Inverted

LEMMA ColumnFields ==
  ASSUME NEW flats, NEW e \in ColumnSpans(flats)
  PROVE  /\ e.start \in Int /\ e.end \in Int /\ e.subspan = NULL
         /\ 0 <= e.start /\ e.start <= e.end /\ e.end <= Width
         /\ e.start = e.end => Allowed(flats)
BY DEF ColumnSpans, Spans

LEMMA PlainRow ==
  ASSUME NEW flats, NEW e \in RowSpans(FALSE, flats)
  PROVE  /\ e.start \in Int /\ e.end \in Int
         /\ 0 <= e.start /\ e.start <= e.end /\ e.end <= Height
         /\ e.start = e.end => Allowed(flats)
         /\ e.subspan \in Seq(ColumnSpans(flats)) /\ e.subspan # <<>> /\ Sorted(e.subspan)
BY RowFields

\* A region without inverted spans.
LEMMA MostlyPlain ==
  ASSUME NEW flats, NEW l
  PROVE  /\ l \in Regions(FALSE, flats) => l \in Regions(TRUE, flats) /\ Plain(l)
         /\ l \in Regions(TRUE, flats) /\ Plain(l) => l \in Regions(FALSE, flats)
<1>1. RowSpans(FALSE, flats) \subseteq RowSpans(TRUE, flats)
  BY DEF RowSpans, Spans
<1>2. ASSUME l \in Regions(FALSE, flats) PROVE l \in Regions(TRUE, flats) /\ Plain(l)
  <2>1. l \in Seq(RowSpans(FALSE, flats)) /\ Sorted(l)
    BY <1>2 DEF Regions
  <2>2. Range(l) \subseteq RowSpans(FALSE, flats)
    BY <2>1, InRange
  <2>3. Plain(l)
    BY <2>2, RowFields DEF Plain
  <2>4. l \in Seq(RowSpans(TRUE, flats))
    <3> DEFINE A == RowSpans(FALSE, flats)
               B == RowSpans(TRUE, flats)
    <3>1. l \in Seq(A) /\ A \subseteq B
      BY <1>1, <2>1
    <3> HIDE DEF A, B
    <3>2. l \in Seq(B)
      BY <3>1
    <3> QED  BY <3>2 DEF B
  <2> QED  BY <2>1, <2>3, <2>4 DEF Regions
<1>3. ASSUME l \in Regions(TRUE, flats), Plain(l) PROVE l \in Regions(FALSE, flats)
  <2>1. l \in Seq(RowSpans(TRUE, flats)) /\ Sorted(l)
    BY <1>3 DEF Regions
  <2>2. \A k \in 1..Len(l) : l[k] \in RowSpans(TRUE, flats) /\ l[k] \in Range(l)
    <3> DEFINE B == RowSpans(TRUE, flats)
    <3>1. l \in Seq(B)
      BY <2>1
    <3> HIDE DEF B
    <3>2. \A k \in 1..Len(l) : l[k] \in B /\ l[k] \in Range(l)
      BY <3>1 DEF Range
    <3> QED  BY <3>2 DEF B
  <2>3. ASSUME NEW e \in RowSpans(TRUE, flats), e.start <= e.end PROVE e \in RowSpans(FALSE, flats)
    <3>1. e.start \in Int /\ e.end \in Int /\ e.end <= Height
      BY <2>3, RowFields
    <3>2. Height \in Int /\ NoCoord \in Int /\ Height < NoCoord
      BY Numbers DEF Limits
    <3>3. ~(e.start = NoCoord /\ e.end = Height)
      BY <2>3, <3>1, <3>2
    <3> QED  BY <2>3, <3>3 DEF RowSpans, Spans
  <2>4. \A k \in 1..Len(l) : l[k] \in RowSpans(FALSE, flats)
    BY <1>3, <2>2, <2>3 DEF Plain
  <2>5. l \in Seq(RowSpans(FALSE, flats))
    <3> DEFINE A == RowSpans(FALSE, flats)
               B == RowSpans(TRUE, flats)
    <3>1. l \in Seq(B) /\ \A k \in 1..Len(l) : l[k] \in A
      BY <2>1, <2>4
    <3> HIDE DEF A, B
    <3>2. Len(l) \in Nat /\ l = [k \in 1..Len(l) |-> l[k]]
      BY <3>1
    <3>3. l \in Seq(A)
      BY <3>1, <3>2
    <3> QED  BY <3>3 DEF A
  <2> QED  BY <2>1, <2>5 DEF Regions
<1> QED  BY <1>2, <1>3

\* A region covers pixels of the screen, each by a row and one of its columns.
LEMMA RegionCovers ==
  ASSUME NEW odd, NEW flats, NEW l \in Regions(odd, flats)
  PROVE  /\ \A e \in Range(l) : e \in RowSpans(odd, flats)
         /\ \A p : Has(l, p[2], p[1])
                   <=> \E row \in Range(l) :
                         /\ row.start <= p[2] /\ p[2] < row.end
                         /\ \E span \in Range(row.subspan) : span.start <= p[1] /\ p[1] < span.end
         /\ Covered(l) = {p \in Pixels : Has(l, p[2], p[1])}
<1>1. Range(l) \subseteq RowSpans(odd, flats)
  BY InRange DEF Regions
<1>2. \A e \in Range(l) : e.subspan # NULL
  BY <1>1, RowFields DEF NULL
<1>3. ASSUME NEW p
      PROVE  Has(l, p[2], p[1])
             <=> \E row \in Range(l) :
                   /\ row.start <= p[2] /\ p[2] < row.end
                   /\ \E span \in Range(row.subspan) : span.start <= p[1] /\ p[1] < span.end
  BY <1>2 DEF Has, Covers, In
<1> HIDE DEF Has
<1> QED  BY <1>1, <1>3 DEF Covered

\* A rectangle, and what markRectAsModified makes of a box without top and bottom.
LEMMA RectangleMade ==
  ASSUME NEW x1 \in Int, NEW x2 \in Int, NEW y1 \in Int, NEW y2 \in Int, NEW odd, NEW flats,
         0 <= x1, x1 <= x2, x2 <= Width, x1 = x2 => Allowed(flats),
         \/ 0 <= y1 /\ y1 <= y2 /\ y2 <= Height /\ (y1 = y2 => Allowed(flats))
         \/ odd /\ y1 = NoCoord /\ y2 = Height
  PROVE  /\ CreateRect(x1, y1, x2, y2) \in Regions(odd, flats)
         /\ CreateRect(x1, y1, x2, y2) # <<>>
         /\ \A p, q \in Int : Has(CreateRect(x1, y1, x2, y2), p, q)
                              <=> y1 <= p /\ p < y2 /\ x1 <= q /\ q < x2
<1> DEFINE col == Span(x1, x2, NULL)
           cols == <<col>>
           row == Span(y1, y2, cols)
           l == <<row>>
<1>1. l = CreateRect(x1, y1, x2, y2)
  BY DEF CreateRect
<1>2. col \in ColumnSpans(flats)
  BY DEF ColumnSpans, Spans, Span
<1>3. col.start = x1 /\ col.end = x2
  BY SpanIs
<1> HIDE DEF col
<1>4. cols \in Seq(ColumnSpans(flats)) /\ Range(cols) = {col} /\ Sorted(cols) /\ cols # <<>>
  BY <1>2, One
<1>5. cols \in ColumnLists(flats)
  BY <1>4 DEF ColumnLists
<1> HIDE DEF cols
<1>6. row \in RowSpans(odd, flats)
  BY <1>5 DEF RowSpans, Spans, Span
<1>7. row.start = y1 /\ row.end = y2 /\ row.subspan = cols
  BY SpanIs
<1> HIDE DEF row
<1>8. l \in Seq(RowSpans(odd, flats)) /\ Range(l) = {row} /\ Sorted(l) /\ l # <<>>
  BY <1>6, One
<1> HIDE DEF l
<1>9. \A q : In(cols, q) <=> x1 <= q /\ q < x2
  BY <1>3, <1>4 DEF In, NULL
<1>10. \A p, q : Has(l, p, q) <=> y1 <= p /\ p < y2 /\ x1 <= q /\ q < x2
  BY <1>7, <1>8, <1>9 DEF Has, Covers
<1> QED  BY <1>1, <1>8, <1>10 DEF Regions

\* The first call.
LEMMA StackBegins ==
  ASSUME NEW flats,
         NEW t, NEW x \in Regions(Odd(t), flats), NEW y \in Regions(Odd(t), flats),
         t \notin Adding => Plain(y)
  PROVE  Stack(t, flats, x, y, <<Walk(x, y)>>)
<1>1. Height \in Limits
  BY DEF Limits
<1>2. /\ x \in Seq(RowSpans(Odd(t), flats)) /\ y \in Seq(RowSpans(Odd(t), flats)) /\ Sorted(x)
      /\ Sorted(y)
  BY DEF Regions
<1>3. Going(t, RowSpans(Odd(t), flats), x, y, Walk(x, y))
  BY <1>1, <1>2, WalkStarted DEF RowSpans
<1> QED  BY <1>3 DEF Stack

\* The last return: the list is the operation's result.
LEMMA StackEnds ==
  ASSUME NEW flats,
         task \in Operations, NEW x, NEW y, Stack(task, flats, x, y, walks), Len(walks) = 1,
         AtEnd(Top)
  PROVE  /\ Result(Top) \in Regions(Odd(task), flats)
         /\ task = "Intersect" => Plain(Result(Top))
         /\ \A p, q \in Int : Has(Result(Top), p, q) <=> Stands(task, <<>>, x, y, p, q)
<1>1. Height \in Limits
  BY DEF Limits
<1>2. PICK a : walks = <<a>> /\ Going(task, RowSpans(Odd(task), flats), x, y, a)
  BY TwoCalls, ThreeCalls DEF Stack
<1>3. Top = a
  BY <1>2, OneCall DEF Top
<1>4. /\ Result(a) \in Seq(RowSpans(Odd(task), flats)) /\ Sorted(Result(a))
      /\ task = "Intersect" => Plain(Result(a))
      /\ \A p, q \in Int : Has(Result(a), p, q) <=> Stands(task, <<>>, x, y, p, q)
  BY <1>1, <1>2, <1>3, WalkEnded DEF RowSpans
<1> QED  BY <1>3, <1>4 DEF Regions

-----------------------------------------------------------------------------
(* The rectangles of a region. *)

RectSet == [x1 : Int, x2 : Int, y1 : Int, y2 : Int]
RowRects(row) == [j \in DOMAIN row.subspan |-> Rectangle(row, row.subspan[j])]

\* What the recursive definitions in CountRects and RectsOf are of a list.
IsCountTo(f, l, m) ==
  f = [i \in 0..m |-> IF i = 0 THEN 0 ELSE f[i - 1] + Len(l[i].subspan)]
IsRectsTo(f, l, m) ==
  f = [i \in 0..m |-> IF i = 0 THEN <<>> ELSE f[i - 1] \o RowRects(l[i])]

LEMMA CountExists ==
  ASSUME NEW l, NEW m \in Nat
  PROVE  \E f : IsCountTo(f, l, m)
<1> DEFINE Missing == {k \in Nat : ~ \E f : IsCountTo(f, l, k)}
<1> SUFFICES ASSUME m \in Missing PROVE FALSE
  OBVIOUS
<1>1. PICK k \in Missing : \A i \in Missing : k <= i
  BY LeastElement
<1>2. k # 0
  <2>1. IsCountTo([i \in 0..0 |-> 0], l, 0)
    BY DEF IsCountTo
  <2> QED  BY <1>1, <2>1
<1>3. PICK g : IsCountTo(g, l, k - 1)
  <2>1. k - 1 \in Nat /\ ~(k <= k - 1)
    BY <1>1, <1>2
  <2> QED  BY <1>1, <2>1
<1> DEFINE f == [i \in 0..k |-> IF i = k THEN g[k - 1] + Len(l[k].subspan) ELSE g[i]]
<1>4. IsCountTo(f, l, k)
  <2>1. k \in Nat /\ k - 1 \in 0..k /\ k - 1 # k
    BY <1>1, <1>2
  <2>2. ASSUME NEW i \in 0..k
        PROVE  f[i] = IF i = 0 THEN 0 ELSE f[i - 1] + Len(l[i].subspan)
    <3>1. CASE i = k
      BY <1>2, <2>1, <3>1
    <3>2. CASE i # k
      <4>1. i \in 0..(k - 1) /\ (i # 0 => i - 1 \in 0..k /\ i - 1 # k)
        BY <2>1, <3>2
      <4>2. g[i] = IF i = 0 THEN 0 ELSE g[i - 1] + Len(l[i].subspan)
        BY <1>3, <4>1 DEF IsCountTo
      <4> QED  BY <3>2, <4>1, <4>2
    <3> QED  BY <3>1, <3>2
  <2>3. f = [i \in 0..k |-> f[i]]
    OBVIOUS
  <2> HIDE DEF f
  <2> QED  BY <2>2, <2>3 DEF IsCountTo
<1> QED  BY <1>1, <1>4

LEMMA RectsExist ==
  ASSUME NEW l, NEW m \in Nat
  PROVE  \E f : IsRectsTo(f, l, m)
<1> DEFINE Missing == {k \in Nat : ~ \E f : IsRectsTo(f, l, k)}
<1> SUFFICES ASSUME m \in Missing PROVE FALSE
  OBVIOUS
<1>1. PICK k \in Missing : \A i \in Missing : k <= i
  BY LeastElement
<1>2. k # 0
  <2>1. IsRectsTo([i \in 0..0 |-> <<>>], l, 0)
    BY DEF IsRectsTo
  <2> QED  BY <1>1, <2>1
<1>3. PICK g : IsRectsTo(g, l, k - 1)
  <2>1. k - 1 \in Nat /\ ~(k <= k - 1)
    BY <1>1, <1>2
  <2> QED  BY <1>1, <2>1
<1> DEFINE f == [i \in 0..k |-> IF i = k THEN g[k - 1] \o RowRects(l[k]) ELSE g[i]]
<1>4. IsRectsTo(f, l, k)
  <2>1. k \in Nat /\ k - 1 \in 0..k /\ k - 1 # k
    BY <1>1, <1>2
  <2>2. ASSUME NEW i \in 0..k
        PROVE  f[i] = IF i = 0 THEN <<>> ELSE f[i - 1] \o RowRects(l[i])
    <3>1. CASE i = k
      BY <1>2, <2>1, <3>1
    <3>2. CASE i # k
      <4>1. i \in 0..(k - 1) /\ (i # 0 => i - 1 \in 0..k /\ i - 1 # k)
        BY <2>1, <3>2
      <4>2. g[i] = IF i = 0 THEN <<>> ELSE g[i - 1] \o RowRects(l[i])
        BY <1>3, <4>1 DEF IsRectsTo
      <4> QED  BY <3>2, <4>1, <4>2
    <3> QED  BY <3>1, <3>2
  <2>3. f = [i \in 0..k |-> f[i]]
    OBVIOUS
  <2> HIDE DEF f
  <2> QED  BY <2>2, <2>3 DEF IsRectsTo
<1> QED  BY <1>1, <1>4

\* The rectangles of a list share no pixel.
Disjoint(w) == \A i, j \in DOMAIN w : i # j => PixelsOf(w[i]) \cap PixelsOf(w[j]) = {}

\* Rectangles of two rows that are apart.
LEMMA DisjointJoined ==
  ASSUME NEW v \in Seq(RectSet), NEW w \in Seq(RectSet), Disjoint(v), Disjoint(w),
         \A r \in Range(v), s \in Range(w) : PixelsOf(r) \cap PixelsOf(s) = {}
  PROVE  Disjoint(v \o w)
<1> DEFINE u == v \o w
           n == Len(v)
<1>1. /\ Len(u) = Len(v) + Len(w) /\ u \in Seq(RectSet)
      /\ \A i \in 1..Len(v) : u[i] = v[i]
      /\ \A i \in 1..Len(w) : u[Len(v) + i] = w[i]
  BY Concatenating
<1>2. /\ Len(v) \in Nat /\ Len(w) \in Nat
      /\ DOMAIN v = 1..Len(v) /\ DOMAIN w = 1..Len(w)
  OBVIOUS
<1>3. DOMAIN u = 1..Len(u)
  BY <1>1
<1> HIDE DEF u
<1>4. ASSUME NEW i \in DOMAIN u, NEW j \in DOMAIN u, i # j
      PROVE  PixelsOf(u[i]) \cap PixelsOf(u[j]) = {}
  <2>1. i \in 1..(n + Len(w)) /\ j \in 1..(n + Len(w)) /\ n \in Nat
    BY <1>1, <1>2, <1>3
  <2>2. \A k \in 1..(n + Len(w)) : k > n => k - n \in 1..Len(w) /\ k = n + (k - n)
    BY <1>2
  <2>3. \A k \in 1..(n + Len(w)) : k <= n => k \in 1..n
    BY <1>2
  <2>4. \A k \in 1..n : u[k] = v[k] /\ v[k] \in Range(v)
    BY <1>1, <1>2 DEF Range
  <2>5. \A k \in 1..Len(w) : u[n + k] = w[k] /\ w[k] \in Range(w)
    BY <1>1, <1>2 DEF Range
  <2> HIDE DEF n
  <2>6. CASE i <= n /\ j <= n
    <3>1. i \in 1..n /\ j \in 1..n
      BY <2>1, <2>3, <2>6
    <3>2. u[i] = v[i] /\ u[j] = v[j] /\ i \in DOMAIN v /\ j \in DOMAIN v
      BY <3>1, <2>4, <1>2 DEF n
    <3> QED  BY <3>2, <1>4 DEF Disjoint
  <2>7. CASE i > n /\ j > n
    <3>1. i - n \in 1..Len(w) /\ j - n \in 1..Len(w) /\ i = n + (i - n) /\ j = n + (j - n)
      BY <2>1, <2>2, <2>7
    <3>2. u[i] = w[i - n] /\ u[j] = w[j - n]
      BY <3>1, <2>5
    <3>3. i - n # j - n
      BY <1>4, <2>1
    <3> QED  BY <3>1, <3>2, <3>3, <1>2 DEF Disjoint
  <2>8. CASE i <= n /\ j > n
    <3>1. i \in 1..n /\ j - n \in 1..Len(w) /\ j = n + (j - n)
      BY <2>1, <2>2, <2>3, <2>8
    <3>2. u[i] \in Range(v) /\ u[j] \in Range(w)
      BY <3>1, <2>4, <2>5
    <3> QED  BY <3>2
  <2>9. CASE i > n /\ j <= n
    <3>1. j \in 1..n /\ i - n \in 1..Len(w) /\ i = n + (i - n)
      BY <2>1, <2>2, <2>3, <2>9
    <3>2. u[j] \in Range(v) /\ u[i] \in Range(w)
      BY <3>1, <2>4, <2>5
    <3> QED  BY <3>2
  <2> QED  BY <2>1, <2>6, <2>7, <2>8, <2>9
<1> QED  BY <1>4 DEF Disjoint, u

LEMMA RectangleIs ==
  ASSUME NEW row, NEW span
  PROVE  /\ Rectangle(row, span).x1 = span.start /\ Rectangle(row, span).x2 = span.end
         /\ Rectangle(row, span).y1 = row.start /\ Rectangle(row, span).y2 = row.end
BY DEF Rectangle

\* The rectangles of one row.
LEMMA RowRectsFacts ==
  ASSUME NEW flats, NEW row \in RowSpans(FALSE, flats)
  PROVE  LET w == RowRects(row) IN
         /\ w \in Seq(RectSet) /\ Len(w) = Len(row.subspan) /\ Len(w) \in Nat \ {0}
         /\ Disjoint(w)
         /\ \A r \in Range(w) : /\ PixelsOf(r) = {} => Allowed(flats)
                                /\ r.y1 = row.start /\ r.y2 = row.end
<1> DEFINE l == row.subspan
           w == RowRects(row)
<1>1. /\ l \in Seq(ColumnSpans(flats)) /\ l # <<>> /\ Sorted(l)
      /\ row.start \in Int /\ row.end \in Int
      /\ 0 <= row.start /\ row.start <= row.end /\ row.end <= Height
      /\ row.start = row.end => Allowed(flats)
  BY PlainRow
<1> HIDE DEF l
<1>2. Len(l) \in Nat \ {0} /\ DOMAIN l = 1..Len(l) /\ \A j \in 1..Len(l) : l[j] \in ColumnSpans(flats)
  BY <1>1
<1>3. DOMAIN w = 1..Len(l) /\ \A j \in 1..Len(l) : w[j] = Rectangle(row, l[j])
  BY <1>2 DEF RowRects, l
<1>4. ASSUME NEW j \in 1..Len(l)
      PROVE  /\ w[j] \in RectSet /\ (PixelsOf(w[j]) = {} => Allowed(flats))
             /\ w[j].y1 = row.start /\ w[j].y2 = row.end
             /\ w[j].x1 = l[j].start /\ w[j].x2 = l[j].end
  <2>1. w[j] = Rectangle(row, l[j])
    BY <1>3
  <2>2. /\ l[j].start \in Int /\ l[j].end \in Int
        /\ 0 <= l[j].start /\ l[j].start <= l[j].end /\ l[j].end <= Width
        /\ l[j].start = l[j].end => Allowed(flats)
    BY <1>2, ColumnFields
  <2> HIDE DEF w
  <2>3. w[j] \in RectSet
    <3>1. Rectangle(row, l[j]) \in RectSet
      BY <1>1, <2>2 DEF RectSet, Rectangle
    <3> QED  BY <2>1, <3>1
  <2>4. CASE Allowed(flats)
    BY <2>1, <2>3, <2>4, RectangleIs
  <2>5. CASE ~Allowed(flats)
    <3>1. l[j].start # l[j].end /\ row.start # row.end
      BY <1>1, <2>2, <2>5
    <3>2. Width \in Int /\ Height \in Int /\ l[j].start < l[j].end /\ row.start < row.end
      BY <1>1, <2>2, <3>1, Numbers
    <3>3. <<l[j].start, row.start>> \in Pixels
      BY <1>1, <2>2, <3>2, SMTT(30) DEF Pixels
    <3>4. <<l[j].start, row.start>> \in PixelsOf(w[j])
      BY <1>1, <2>1, <2>2, <3>2, <3>3, RectangleIs DEF PixelsOf
    <3> QED  BY <2>1, <2>3, <3>4, RectangleIs
  <2> QED  BY <2>4, <2>5
<1>5. w \in Seq(RectSet) /\ Len(w) = Len(l)
  <2>1. w \in [1..Len(l) -> RectSet]
    BY <1>2, <1>3, <1>4 DEF RowRects, l
  <2> HIDE DEF w
  <2> QED  BY <1>2, <2>1
<1> HIDE DEF w
<1>6. ASSUME NEW i \in DOMAIN w, NEW j \in DOMAIN w, i < j
      PROVE  PixelsOf(w[i]) \cap PixelsOf(w[j]) = {}
  <2>1. i \in 1..Len(l) /\ j \in 1..Len(l)
    BY <1>3
  <2>2. l[i].end <= l[j].start
    BY <1>1, <1>2, <1>6, <2>1 DEF Sorted
  <2>3. w[i].x2 <= w[j].x1 /\ w[i] \in RectSet /\ w[j] \in RectSet
    BY <1>4, <2>1, <2>2
  <2>4. w[i].x2 \in Int /\ w[j].x1 \in Int
    BY <2>3 DEF RectSet
  <2>5. ASSUME NEW p \in PixelsOf(w[i]), p \in PixelsOf(w[j]) PROVE FALSE
    <3>1. p[1] \in Int /\ p[1] < w[i].x2 /\ w[j].x1 <= p[1]
      BY <2>5 DEF PixelsOf, Pixels
    <3> QED  BY <2>3, <2>4, <3>1
  <2> QED  BY <2>5
<1>7. Disjoint(w)
  <2>1. ASSUME NEW i \in DOMAIN w, NEW j \in DOMAIN w, i # j
        PROVE  PixelsOf(w[i]) \cap PixelsOf(w[j]) = {}
    <3>1. i < j \/ j < i
      BY <1>3, <2>1
    <3>2. CASE i < j
      BY <1>6, <3>2
    <3>3. CASE j < i
      <4>1. PixelsOf(w[j]) \cap PixelsOf(w[i]) = {}
        BY <1>6, <3>3
      <4> QED  BY <4>1
    <3> QED  BY <3>1, <3>2, <3>3
  <2> QED  BY <2>1 DEF Disjoint
<1>8. \A r \in Range(w) : (PixelsOf(r) = {} => Allowed(flats)) /\ r.y1 = row.start /\ r.y2 = row.end
  <2>1. ASSUME NEW r \in Range(w) PROVE \E j \in 1..Len(l) : r = w[j]
    BY <1>3 DEF Range
  <2> QED  BY <1>4, <2>1
<1> QED  BY <1>2, <1>5, <1>7, <1>8 DEF w, l

\* What has been counted and listed after i rows.
ListedTo(l, flats, i, n, w) ==
  /\ n \in Nat /\ n >= i
  /\ w \in Seq(RectSet) /\ Len(w) = n
  /\ Disjoint(w)
  /\ \A r \in Range(w) :
       /\ PixelsOf(r) = {} => Allowed(flats)
       /\ \E a \in 1..i : r.y1 = l[a].start /\ r.y2 = l[a].end

\* One row more is counted and listed.
LEMMA ListedNext ==
  ASSUME NEW flats,
         NEW l \in Regions(FALSE, flats), NEW i \in 1..Len(l), NEW n, NEW w, ListedTo(l, flats,
         i - 1, n, w)
  PROVE  ListedTo(l, flats, i, n + Len(l[i].subspan), w \o RowRects(l[i]))
<1> DEFINE v == RowRects(l[i])
           u == w \o v
           row == l[i]
<1>1. l \in Seq(RowSpans(FALSE, flats)) /\ Sorted(l)
  BY DEF Regions
<1>2. /\ row \in RowSpans(FALSE, flats) /\ DOMAIN l = 1..Len(l) /\ Len(l) \in Nat /\ i \in Int
      /\ 1 <= i
      /\ \A a \in 1..Len(l) : l[a] \in RowSpans(FALSE, flats)
  <2> DEFINE B == RowSpans(FALSE, flats)
  <2>1. l \in Seq(B)
    BY <1>1
  <2> HIDE DEF B
  <2>2. l[i] \in B /\ DOMAIN l = 1..Len(l) /\ Len(l) \in Nat /\ \A a \in 1..Len(l) : l[a] \in B
    BY <2>1
  <2>3. i \in Int /\ 1 <= i
    BY <2>2
  <2>4. \A a \in 1..Len(l) : l[a] \in RowSpans(FALSE, flats)
    BY <2>2 DEF B
  <2> QED  BY <2>2, <2>3, <2>4
<1>3. /\ v \in Seq(RectSet) /\ Len(v) = Len(row.subspan) /\ Len(v) \in Nat \ {0}
      /\ Disjoint(v)
      /\ \A r \in Range(v) : (PixelsOf(r) = {} => Allowed(flats)) /\ r.y1 = row.start /\ r.y2 = row.end
  BY <1>2, RowRectsFacts
<1>4. /\ n \in Nat /\ n >= i - 1 /\ w \in Seq(RectSet) /\ Len(w) = n /\ Disjoint(w)
      /\ \A r \in Range(w) :
           /\ PixelsOf(r) = {} => Allowed(flats)
           /\ \E a \in 1..(i - 1) : r.y1 = l[a].start /\ r.y2 = l[a].end
  BY DEF ListedTo
<1> HIDE DEF v
<1>5. u \in Seq(RectSet) /\ Len(u) = n + Len(v) /\ Range(u) = Range(w) \cup Range(v)
  <2>1. w \in Seq(RectSet) /\ v \in Seq(RectSet)
    BY <1>3, <1>4
  <2>2. u \in Seq(RectSet) /\ Len(u) = Len(w) + Len(v) /\ Range(u) = Range(w) \cup Range(v)
    BY <2>1, Concatenating
  <2> QED  BY <2>2, <1>4
<1>6. ASSUME NEW r \in Range(w), NEW s \in Range(v)
      PROVE  PixelsOf(r) \cap PixelsOf(s) = {}
  <2>1. PICK a \in 1..(i - 1) : r.y1 = l[a].start /\ r.y2 = l[a].end
    BY <1>4
  <2>2. a \in 1..Len(l) /\ a < i
    BY <1>2
  <2>3. l[a].end <= row.start
    BY <1>1, <1>2, <2>2 DEF Sorted
  <2>4. l[a].end \in Int /\ row.start \in Int
    BY <1>2, <2>2, RowFields
  <2>5. r.y2 <= s.y1 /\ r.y2 \in Int /\ s.y1 \in Int
    BY <1>3, <2>1, <2>3, <2>4
  <2>6. ASSUME NEW p \in PixelsOf(r), p \in PixelsOf(s) PROVE FALSE
    <3>1. p[2] \in Int /\ p[2] < r.y2 /\ s.y1 <= p[2]
      BY <2>6 DEF PixelsOf, Pixels
    <3> QED  BY <2>5, <3>1
  <2> QED  BY <2>6
<1>7. Disjoint(u)
  BY <1>3, <1>4, <1>6, DisjointJoined
<1>8. ASSUME NEW r \in Range(u)
      PROVE  /\ PixelsOf(r) = {} => Allowed(flats)
             /\ \E a \in 1..i : r.y1 = l[a].start /\ r.y2 = l[a].end
  <2>1. CASE r \in Range(w)
    <3>1. 1..(i - 1) \subseteq 1..i
      BY <1>2
    <3> QED  BY <1>4, <2>1, <3>1
  <2>2. CASE r \in Range(v)
    <3>1. i \in 1..i
      BY <1>2
    <3> QED  BY <1>3, <2>2, <3>1
  <2> QED  BY <1>5, <2>1, <2>2
<1>9. n + Len(row.subspan) \in Nat /\ n + Len(row.subspan) >= i
  BY <1>2, <1>3, <1>4
<1> HIDE DEF u
<1> QED  BY <1>3, <1>5, <1>7, <1>8, <1>9 DEF ListedTo, u, v

\* The count of a region's rectangles is that of those listed, which share no
\* pixel and are not empty without flats; there is one for each row at least.
LEMMA RectsFound ==
  ASSUME NEW flats, NEW l \in Regions(FALSE, flats)
  PROVE  ListedTo(l, flats, Len(l), CountRects(l), RectsOf(l))
<1> DEFINE m == Len(l)
           F == CHOOSE f : IsCountTo(f, l, m)
           G == CHOOSE f : IsRectsTo(f, l, m)
<1>1. CountRects(l) = F[m]
  BY DEF CountRects, IsCountTo
<1>2. RectsOf(l) = G[m]
  BY DEF RectsOf, IsRectsTo, RowRects
<1>3. m \in Nat
  BY DEF Regions
<1>4. IsCountTo(F, l, m) /\ IsRectsTo(G, l, m)
  <2> HIDE DEF m
  <2> QED  BY <1>3, CountExists, RectsExist
<1> HIDE DEF F, G
<1>5. F[0] = 0 /\ \A i \in 1..m : F[i] = F[i - 1] + Len(l[i].subspan)
  BY <1>3, <1>4 DEF IsCountTo
<1>6. G[0] = <<>> /\ \A i \in 1..m : G[i] = G[i - 1] \o RowRects(l[i])
  <2>1. IsRectsTo(G, l, m)
    BY <1>4
  <2> HIDE DEF m
  <2> QED  BY <2>1, <1>3 DEF IsRectsTo
<1> DEFINE Wrong == {i \in 0..m : ~ListedTo(l, flats, i, F[i], G[i])}
<1>7. Wrong = {}
  <2> SUFFICES ASSUME Wrong # {} PROVE FALSE
    OBVIOUS
  <2>1. Wrong \subseteq Nat
    BY <1>3
  <2>2. PICK k \in Wrong : \A i \in Wrong : k <= i
    <3> HIDE DEF Wrong
    <3> QED  BY <2>1, LeastElement
  <2>3. k # 0
    <3>1. <<>> \in Seq(RectSet) /\ Range(<<>>) = {} /\ Len(<<>>) = 0 /\ DOMAIN <<>> = {}
      BY None
    <3>2. ListedTo(l, flats, 0, 0, <<>>)
      BY <3>1 DEF ListedTo, Disjoint
    <3> QED  BY <2>2, <3>2, <1>5, <1>6
  <2>4. k \in 1..m /\ k - 1 \in 0..m /\ ~(k <= k - 1)
    BY <1>3, <2>2, <2>3
  <2>5. ListedTo(l, flats, k - 1, F[k - 1], G[k - 1])
    BY <2>2, <2>4
  <2>6. ListedTo(l, flats, k, F[k - 1] + Len(l[k].subspan), G[k - 1] \o RowRects(l[k]))
    BY <2>4, <2>5, ListedNext
  <2>7. ListedTo(l, flats, k, F[k], G[k])
    BY <1>5, <1>6, <2>4, <2>6
  <2> QED  BY <2>2, <2>7
<1>8. ListedTo(l, flats, m, F[m], G[m])
  BY <1>3, <1>7
<1> QED  BY <1>1, <1>2, <1>8

-----------------------------------------------------------------------------
(* The rectangle around a region. *)

LEMMA RowIn ==
  ASSUME NEW odd, NEW flats, NEW l \in Regions(odd, flats), l # <<>>
  PROVE  \E row \in Range(l) : TRUE
BY InRange DEF Regions

LEMMA ColumnIn ==
  ASSUME NEW odd, NEW flats, NEW row \in RowSpans(odd, flats)
  PROVE  \E col \in Range(row.subspan) : TRUE
<1>1. row.subspan \in Seq(ColumnSpans(flats)) /\ row.subspan # <<>>
  BY RowFields
<1> QED  BY <1>1, InRange

\* Where a row and one of its columns of a region without inverted rows are.
LEMMA RowAndColumn ==
  ASSUME NEW flats,
         NEW l \in Regions(FALSE, flats), NEW row \in Range(l), NEW col \in Range(row.subspan)
  PROVE  /\ row.start \in Int /\ row.end \in Int /\ col.start \in Int /\ col.end \in Int
         /\ 0 <= row.start /\ row.start <= row.end /\ row.end <= Height
         /\ 0 <= col.start /\ col.start <= col.end /\ col.end <= Width
         /\ ~Allowed(flats) => row.start < row.end /\ col.start < col.end
         /\ \A p, q \in Int : row.start <= p /\ p < row.end /\ col.start <= q /\ q < col.end
                              => <<q, p>> \in Covered(l)
<1>1. row \in RowSpans(FALSE, flats)
  BY RegionCovers
<1>2. /\ row.start \in Int /\ row.end \in Int
      /\ 0 <= row.start /\ row.start <= row.end /\ row.end <= Height
      /\ row.start = row.end => Allowed(flats)
      /\ row.subspan \in Seq(ColumnSpans(flats))
  BY <1>1, PlainRow
<1>3. col \in ColumnSpans(flats)
  BY <1>2, InRange
<1>4. /\ col.start \in Int /\ col.end \in Int
      /\ 0 <= col.start /\ col.start <= col.end /\ col.end <= Width
      /\ col.start = col.end => Allowed(flats)
  BY <1>3, ColumnFields
<1>5. ASSUME NEW p \in Int, NEW q \in Int,
             row.start <= p, p < row.end, col.start <= q, q < col.end
      PROVE  <<q, p>> \in Covered(l)
  <2>1. Width \in Int /\ Height \in Int
    BY Numbers
  <2>2. <<q, p>> \in Pixels
    BY <1>2, <1>4, <1>5, <2>1, SMTT(30) DEF Pixels
  <2> QED  BY <1>5, <2>2 DEF Covered
<1> QED  BY <1>2, <1>4, <1>5

\* The bounding box of a list that is not empty is one rectangle, the smallest
\* around the pixels if none of the list's is empty.
LEMMA BBoxMade ==
  ASSUME NEW flats, NEW l \in Regions(FALSE, flats), l # <<>>
  PROVE  /\ BBoxOf(l) \in Regions(FALSE, flats) /\ BBoxOf(l) # <<>>
         /\ Covered(BBoxOf(l)) \in Rectangles /\ Covered(l) \subseteq Covered(BBoxOf(l))
         /\ ~Allowed(flats) => Covered(BBoxOf(l)) = Sets!BBox(Covered(l))
<1> DEFINE Lefts == {span.start : span \in Columns(l)}
           Rights == {span.end : span \in Columns(l)}
           Tops == {row.start : row \in Range(l)}
           Bottoms == {row.end : row \in Range(l)}
           x1 == Min(Lefts)
           x2 == Max(Rights)
           y1 == Min(Tops)
           y2 == Max(Bottoms)
<1>1. Width \in Int /\ Height \in Int
  BY Numbers
<1>2. PICK r0 \in Range(l) : \E col \in Range(r0.subspan) : TRUE
  <2>1. PICK r0 \in Range(l) : TRUE
    BY RowIn
  <2>2. r0 \in RowSpans(FALSE, flats)
    BY RegionCovers
  <2> QED  BY <2>1, <2>2, ColumnIn
<1>3. \A e : e \in Columns(l) <=> \E row \in Range(l) : e \in Range(row.subspan)
  BY DEF Columns
<1>4. /\ Lefts \subseteq Int /\ Rights \subseteq Int /\ Tops \subseteq Int /\ Bottoms \subseteq Int
      /\ \A n \in Lefts : n >= 0
      /\ \A n \in Tops : n >= 0
      /\ \A n \in Rights : n <= Width
      /\ \A n \in Bottoms : n <= Height
  <2>1. \A e \in Columns(l) : /\ e.start \in Int /\ e.end \in Int
                              /\ 0 <= e.start /\ e.end <= Width
    BY <1>3, RowAndColumn
  <2>2. ASSUME NEW row \in Range(l)
        PROVE  row.start \in Int /\ row.end \in Int /\ 0 <= row.start /\ row.end <= Height
    <3>1. row \in RowSpans(FALSE, flats)
      BY RegionCovers
    <3>2. PICK col \in Range(row.subspan) : TRUE
      BY <3>1, ColumnIn
    <3> QED  BY <3>2, RowAndColumn
  <2> QED  BY <2>1, <2>2
<1>5. Lefts # {} /\ Rights # {} /\ Tops # {} /\ Bottoms # {}
  BY <1>2, <1>3
<1>6. /\ x1 \in Lefts /\ \A n \in Lefts : n >= x1
      /\ y1 \in Tops /\ \A n \in Tops : n >= y1
  <2> DEFINE z == 0
  <2>1. z \in Int /\ (\A n \in Lefts : n >= z) /\ (\A n \in Tops : n >= z)
    BY <1>4
  <2> HIDE DEF z, Lefts, Tops
  <2> QED  BY <1>4, <1>5, <2>1, MinAbove
<1>7. /\ x2 \in Rights /\ \A n \in Rights : n <= x2
      /\ y2 \in Bottoms /\ \A n \in Bottoms : n <= y2
  <2> HIDE DEF Rights, Bottoms
  <2> QED  BY <1>1, <1>4, <1>5, MaxBelow
<1>8. PICK rl \in Range(l) : \E e \in Range(rl.subspan) : e.start = x1
  <2> HIDE DEF x1
  <2> QED  BY <1>3, <1>6
<1>9. PICK cl \in Range(rl.subspan) : cl.start = x1
  BY <1>8
<1>10. PICK rr \in Range(l) : \E e \in Range(rr.subspan) : e.end = x2
  <2> HIDE DEF x2
  <2> QED  BY <1>3, <1>7
<1>11. PICK cr \in Range(rr.subspan) : cr.end = x2
  BY <1>10
<1>12. PICK rt \in Range(l) : rt.start = y1
  <2> HIDE DEF y1
  <2> QED  BY <1>6
<1>13. PICK rb \in Range(l) : rb.end = y2
  <2> HIDE DEF y2
  <2> QED  BY <1>7
<1>14. BBoxOf(l) = CreateRect(x1, y1, x2, y2)
  BY DEF BBoxOf
<1>15. \A row \in Range(l) : \A col \in Range(row.subspan) :
         col.start >= x1 /\ col.end <= x2 /\ row.start >= y1 /\ row.end <= y2
  <2> HIDE DEF x1, x2, y1, y2
  <2> QED  BY <1>3, <1>6, <1>7
<1>16. x1 \in Int /\ x2 \in Int /\ y1 \in Int /\ y2 \in Int
  <2> HIDE DEF x1, x2, y1, y2, Lefts, Rights, Tops, Bottoms
  <2> QED  BY <1>4, <1>6, <1>7
<1> HIDE DEF x1, x2, y1, y2, Lefts, Rights, Tops, Bottoms
<1>17. 0 <= x1 /\ x1 <= x2 /\ x2 <= Width
  <2>1. /\ cl.start \in Int /\ cl.end \in Int /\ 0 <= cl.start /\ cl.start <= cl.end
        /\ cr.end \in Int /\ cr.end <= Width
    BY <1>9, <1>11, RowAndColumn
  <2>2. cl.end <= x2
    BY <1>15
  <2> QED  BY <1>1, <1>9, <1>11, <1>16, <2>1, <2>2
<1>18. 0 <= y1 /\ y1 <= y2 /\ y2 <= Height
  <2>1. PICK ct \in Range(rt.subspan), cb \in Range(rb.subspan) : TRUE
    BY <1>12, <1>13, RegionCovers, ColumnIn
  <2>2. /\ 0 <= rt.start /\ rt.start <= rt.end /\ rt.end \in Int /\ rt.start \in Int
        /\ rb.end <= Height
    BY <1>12, <1>13, <2>1, RowAndColumn
  <2>3. rt.end <= y2
    BY <1>15, <2>1
  <2> QED  BY <1>1, <1>12, <1>13, <1>16, <2>2, <2>3
<1> DEFINE B == CreateRect(x1, y1, x2, y2)
<1>19. x1 = x2 \/ y1 = y2 => Allowed(flats)
  <2>1. PICK ct \in Range(rt.subspan) : TRUE
    BY <1>12, RegionCovers, ColumnIn
  <2>2. /\ ~Allowed(flats) => cl.start < cl.end /\ rt.start < rt.end
        /\ cl.end \in Int /\ rt.end \in Int
    BY <1>9, <1>12, <2>1, RowAndColumn
  <2>3. cl.end <= x2 /\ rt.end <= y2
    BY <1>15, <2>1
  <2> QED  BY <1>9, <1>12, <1>16, <2>2, <2>3
<1>20. B \in Regions(FALSE, flats) /\ B # <<>>
       /\ \A p, q \in Int : Has(B, p, q) <=> y1 <= p /\ p < y2 /\ x1 <= q /\ q < x2
  BY <1>16, <1>17, <1>18, <1>19, RectangleMade
<1>21. Covered(B) \in Rectangles
  <2> DEFINE c == <<x1, y1, x2, y2>>
  <2>1. c \in Corners
    BY <1>1, <1>16, <1>17, <1>18 DEF Corners
  <2>2. B = CreateRect(c[1], c[2], c[3], c[4])
    OBVIOUS
  <2> HIDE DEF c, B
  <2> QED  BY <2>1, <2>2 DEF Rectangles
<1> HIDE DEF B
<1>22. ASSUME NEW p \in Pixels
       PROVE  p \in Covered(B) <=> y1 <= p[2] /\ p[2] < y2 /\ x1 <= p[1] /\ p[1] < x2
  <2>1. p[1] \in Int /\ p[2] \in Int
    BY <1>1 DEF Pixels
  <2>2. Covered(B) = {v \in Pixels : Has(B, v[2], v[1])}
    BY <1>20, RegionCovers
  <2> QED  BY <1>20, <2>1, <2>2
<1>23. ASSUME NEW v \in Covered(l)
       PROVE  /\ v[1] \in Int /\ v[2] \in Int
              /\ y1 <= v[2] /\ v[2] < y2 /\ x1 <= v[1] /\ v[1] < x2
  <2>1. v[1] \in Int /\ v[2] \in Int
    BY <1>1 DEF Covered, Pixels
  <2>2. PICK row \in Range(l) :
          /\ row.start <= v[2] /\ v[2] < row.end
          /\ \E col \in Range(row.subspan) : col.start <= v[1] /\ v[1] < col.end
    BY DEF Covered
  <2>3. PICK col \in Range(row.subspan) : col.start <= v[1] /\ v[1] < col.end
    BY <2>2
  <2>4. row.start \in Int /\ row.end \in Int /\ col.start \in Int /\ col.end \in Int
    BY RowAndColumn
  <2>5. col.start >= x1 /\ col.end <= x2 /\ row.start >= y1 /\ row.end <= y2
    BY <1>15
  <2> QED  BY <1>16, <2>1, <2>2, <2>3, <2>4, <2>5, SMTT(30)
<1>24. Covered(l) \subseteq Covered(B)
  <2>1. Covered(l) \subseteq Pixels
    BY DEF Covered
  <2> QED  BY <1>22, <1>23, <2>1
<1>25. ASSUME ~Allowed(flats) PROVE Covered(B) = Sets!BBox(Covered(l))
  <2>1. /\ cl.start \in Int /\ <<cl.start, rl.start>> \in Covered(l)
    <3>1. /\ cl.start \in Int /\ cl.end \in Int /\ cl.start < cl.end
          /\ rl.start \in Int /\ rl.end \in Int /\ rl.start < rl.end
          /\ \A p, q \in Int : rl.start <= p /\ p < rl.end /\ cl.start <= q /\ q < cl.end
                               => <<q, p>> \in Covered(l)
      BY <1>9, <1>25, RowAndColumn
    <3> QED  BY <3>1
  <2>2. cr.end \in Int /\ <<cr.end - 1, rr.start>> \in Covered(l)
    <3>1. /\ cr.start \in Int /\ cr.end \in Int /\ cr.start < cr.end
          /\ rr.start \in Int /\ rr.end \in Int /\ rr.start < rr.end
          /\ \A p, q \in Int : rr.start <= p /\ p < rr.end /\ cr.start <= q /\ q < cr.end
                               => <<q, p>> \in Covered(l)
      BY <1>11, <1>25, RowAndColumn
    <3> DEFINE q == cr.end - 1
    <3>2. q \in Int /\ cr.start <= q /\ q < cr.end
      BY <3>1
    <3> HIDE DEF q
    <3>3. <<q, rr.start>> \in Covered(l)
      BY <3>1, <3>2
    <3> QED  BY <3>1, <3>3 DEF q
  <2>3. PICK ct \in Range(rt.subspan) : <<ct.start, rt.start>> \in Covered(l)
    <3>1. PICK ct \in Range(rt.subspan) : TRUE
      BY <1>12, RegionCovers, ColumnIn
    <3>2. /\ ct.start \in Int /\ rt.start \in Int /\ ct.start < ct.end /\ rt.start < rt.end
          /\ ct.end \in Int /\ rt.end \in Int
          /\ \A p, q \in Int : rt.start <= p /\ p < rt.end /\ ct.start <= q /\ q < ct.end
                               => <<q, p>> \in Covered(l)
      BY <1>12, <1>25, <3>1, RowAndColumn
    <3>3. <<ct.start, rt.start>> \in Covered(l)
      BY <3>2
    <3> QED  BY <3>1, <3>3
  <2>4. PICK cb \in Range(rb.subspan) : <<cb.start, rb.end - 1>> \in Covered(l)
    <3>1. PICK cb \in Range(rb.subspan) : TRUE
      BY <1>13, RegionCovers, ColumnIn
    <3>2. /\ cb.start \in Int /\ rb.start \in Int /\ cb.start < cb.end /\ rb.start < rb.end
          /\ cb.end \in Int /\ rb.end \in Int
          /\ \A p, q \in Int : rb.start <= p /\ p < rb.end /\ cb.start <= q /\ q < cb.end
                               => <<q, p>> \in Covered(l)
      BY <1>13, <1>25, <3>1, RowAndColumn
    <3> DEFINE p == rb.end - 1
    <3>3. p \in Int /\ rb.start <= p /\ p < rb.end
      BY <3>2
    <3> HIDE DEF p
    <3>4. <<cb.start, p>> \in Covered(l)
      BY <3>2, <3>3
    <3> QED  BY <3>1, <3>4 DEF p
  <2>5. ASSUME NEW p \in Pixels
        PROVE  /\ x1 <= p[1] <=> \E v \in Covered(l) : v[1] <= p[1]
               /\ p[1] < x2 <=> \E v \in Covered(l) : v[1] >= p[1]
               /\ y1 <= p[2] <=> \E v \in Covered(l) : v[2] <= p[2]
               /\ p[2] < y2 <=> \E v \in Covered(l) : v[2] >= p[2]
    <3>1. p[1] \in Int /\ p[2] \in Int
      BY <1>1 DEF Pixels
    <3>2. x1 <= p[1] <=> \E v \in Covered(l) : v[1] <= p[1]
      <4>1. <<cl.start, rl.start>>[1] = x1
        BY <1>9
      <4> QED  BY <1>16, <1>23, <2>1, <3>1, <4>1
    <3>3. p[1] < x2 <=> \E v \in Covered(l) : v[1] >= p[1]
      <4>1. <<cr.end - 1, rr.start>>[1] = x2 - 1
        BY <1>11
      <4>2. p[1] < x2 => x2 - 1 >= p[1]
        BY <1>16, <3>1
      <4>3. \A v \in Covered(l) : v[1] >= p[1] => p[1] < x2
        BY <1>16, <1>23, <3>1
      <4> QED  BY <2>2, <4>1, <4>2, <4>3
    <3>4. y1 <= p[2] <=> \E v \in Covered(l) : v[2] <= p[2]
      <4>1. <<ct.start, rt.start>>[2] = y1
        BY <1>12
      <4> QED  BY <1>16, <1>23, <2>3, <3>1, <4>1
    <3>5. p[2] < y2 <=> \E v \in Covered(l) : v[2] >= p[2]
      <4>1. <<cb.start, rb.end - 1>>[2] = y2 - 1
        BY <1>13
      <4>2. p[2] < y2 => y2 - 1 >= p[2]
        BY <1>16, <3>1
      <4>3. \A v \in Covered(l) : v[2] >= p[2] => p[2] < y2
        BY <1>16, <1>23, <3>1
      <4> QED  BY <2>4, <4>1, <4>2, <4>3
    <3> QED  BY <3>2, <3>3, <3>4, <3>5
  <2>6. Covered(B) \subseteq Pixels
    BY DEF Covered
  <2>7. ASSUME NEW p \in Pixels PROVE p \in Covered(B) <=> p \in Sets!BBox(Covered(l))
    BY <1>22, <2>5 DEF Sets!BBox
  <2>8. Sets!BBox(Covered(l)) \subseteq Pixels
    BY DEF Sets!BBox
  <2> QED  BY <2>6, <2>7, <2>8
<1> QED  BY <1>14, <1>20, <1>21, <1>24, <1>25 DEF B

-----------------------------------------------------------------------------
(* The inductive invariant. *)

\* The region that the operation under way changes.
Changed == IF task = "Request" THEN requested ELSE modified

Typed ==
  /\ modified \in Regions(TRUE, flat)
  /\ requested \in Regions(FALSE, flat) /\ update \in Regions(FALSE, flat)
  /\ task \in Tasks /\ flat \in BOOLEAN

Walking ==
  IF task = "None" THEN walks = <<>>
  ELSE operand \in Regions(TRUE, flat) /\ Stack(task, flat, Changed, operand, walks)

\* What is taken away from the modified region is what is to be sent: what it
\* has in common with the requested one.
Computing ==
  /\ task = "Intersect" => operand = requested
  /\ task = "Subtract" =>
       /\ operand = update /\ update # <<>>
       /\ \A p, q \in Int : Has(update, p, q) <=> Has(modified, p, q) /\ Has(requested, p, q)

Announcing ==
  announced # 0 => task = "None" /\ update # <<>> /\ announced = CountRects(update)

IInv == Typed /\ Walking /\ Computing /\ Announcing

\* The variable flat, and whether empty spans are allowed.
LEMMA FlatIs ==
  ASSUME NEW f \in BOOLEAN
  PROVE  Allowed(f) <=> f
<1>1. CASE f = TRUE
  BY <1>1 DEF Allowed
<1>2. CASE f = FALSE
  BY <1>2 DEF Allowed
<1> QED  BY <1>1, <1>2

\* A region stays one when empty spans are allowed.
LEMMA MoreAllowed ==
  ASSUME NEW odd, NEW f, NEW g, Allowed(f) => Allowed(g)
  PROVE  Regions(odd, f) \subseteq Regions(odd, g)
<1> DEFINE A == ColumnSpans(f)
           B == ColumnSpans(g)
           C == RowSpans(odd, f)
           D == RowSpans(odd, g)
<1>1. A \subseteq B
  BY DEF ColumnSpans, Spans
<1> HIDE DEF A, B
<1>2. Seq(A) \subseteq Seq(B)
  BY <1>1
<1>3. ColumnLists(f) \subseteq ColumnLists(g)
  BY <1>2 DEF ColumnLists, A, B
<1>4. C \subseteq D
  BY <1>3 DEF RowSpans, Spans
<1> HIDE DEF C, D
<1>5. Seq(C) \subseteq Seq(D)
  BY <1>4
<1> QED  BY <1>5 DEF Regions, C, D

\* The corners of a rectangle on the screen, as those of a region.
LEMMA CornersMade ==
  ASSUME NEW c \in Corners, NEW odd, NEW flats, Flat(c) => Allowed(flats)
  PROVE  LET l == CreateRect(c[1], c[2], c[3], c[4]) IN
         /\ l \in Regions(odd, flats)
         /\ \A p, q \in Int : Has(l, p, q) <=> c[2] <= p /\ p < c[4] /\ c[1] <= q /\ q < c[3]
<1>1. /\ c[1] \in Int /\ c[2] \in Int /\ c[3] \in Int /\ c[4] \in Int
      /\ 0 <= c[1] /\ c[1] <= c[3] /\ c[3] <= Width
      /\ 0 <= c[2] /\ c[2] <= c[4] /\ c[4] <= Height
  BY Numbers DEF Corners
<1>2. /\ c[1] = c[3] => Allowed(flats)
      /\ c[2] = c[4] => Allowed(flats)
  BY DEF Flat
<1> DEFINE x1 == c[1]
           y1 == c[2]
           x2 == c[3]
           y2 == c[4]
<1>3. /\ x1 \in Int /\ x2 \in Int /\ y1 \in Int /\ y2 \in Int
      /\ 0 <= x1 /\ x1 <= x2 /\ x2 <= Width /\ (x1 = x2 => Allowed(flats))
      /\ 0 <= y1 /\ y1 <= y2 /\ y2 <= Height /\ (y1 = y2 => Allowed(flats))
  BY <1>1, <1>2
<1> HIDE DEF x1, y1, x2, y2
<1>4. /\ CreateRect(x1, y1, x2, y2) \in Regions(odd, flats)
      /\ \A p, q \in Int : Has(CreateRect(x1, y1, x2, y2), p, q)
                           <=> y1 <= p /\ p < y2 /\ x1 <= q /\ q < x2
  BY <1>3, RectangleMade
<1> QED  BY <1>4 DEF x1, y1, x2, y2

\* A rectangle on the screen without width or height has no pixel.
LEMMA FlatCovers ==
  ASSUME NEW c \in Corners
  PROVE  Flat(c) <=> Covered(CreateRect(c[1], c[2], c[3], c[4])) = {}
<1> DEFINE l == CreateRect(c[1], c[2], c[3], c[4])
<1>1. Allowed(TRUE)
  BY DEF Allowed
<1>2. /\ l \in Regions(TRUE, TRUE)
      /\ \A p, q \in Int : Has(l, p, q) <=> c[2] <= p /\ p < c[4] /\ c[1] <= q /\ q < c[3]
  BY <1>1, CornersMade
<1> HIDE DEF l
<1>3. Covered(l) = {v \in Pixels : Has(l, v[2], v[1])}
  BY <1>2, RegionCovers
<1>4. /\ c[1] \in Int /\ c[2] \in Int /\ c[3] \in Int /\ c[4] \in Int
      /\ 0 <= c[1] /\ c[1] <= c[3] /\ c[3] <= Width
      /\ 0 <= c[2] /\ c[2] <= c[4] /\ c[4] <= Height
      /\ Width \in Int /\ Height \in Int
  BY Numbers DEF Corners
<1>5. \A v \in Pixels : v[1] \in Int /\ v[2] \in Int
  BY <1>4 DEF Pixels
<1>6. ASSUME Flat(c), NEW v \in Pixels PROVE ~Has(l, v[2], v[1])
  <2>1. c[1] = c[3] \/ c[2] = c[4]
    BY <1>6 DEF Flat
  <2>2. ~(c[2] <= v[2] /\ v[2] < c[4] /\ c[1] <= v[1] /\ v[1] < c[3])
    BY <2>1, <1>4, <1>5
  <2> QED  BY <2>2, <1>2, <1>5
<1>7. ASSUME ~Flat(c) PROVE Covered(l) # {}
  <2>1. c[1] < c[3] /\ c[2] < c[4]
    BY <1>4, <1>7 DEF Flat
  <2>2. Has(l, c[2], c[1])
    BY <1>2, <1>4, <2>1
  <2> DEFINE v == <<c[1], c[2]>>
  <2>3. v \in Pixels
    BY <1>4, <2>1 DEF Pixels
  <2>4. v[1] = c[1] /\ v[2] = c[2]
    OBVIOUS
  <2> HIDE DEF v
  <2> QED  BY <1>3, <2>2, <2>3, <2>4
<1>8. Flat(c) <=> Covered(l) = {}
  BY <1>3, <1>6, <1>7
<1> QED  BY <1>8 DEF l

\* The whole screen.
LEMMA ScreenMade ==
  LET l == CreateRect(0, 0, Width, Height) IN l \in Regions(TRUE, flat) /\ Covered(l) = Pixels
<1> DEFINE x == 0
           w == Width
           h == Height
           l == CreateRect(x, x, w, h)
<1>1. /\ x \in Int /\ w \in Int /\ h \in Int
      /\ 0 <= x /\ x <= w /\ w <= Width /\ x # w /\ x <= h /\ h <= Height /\ x # h
  BY Numbers
<1> HIDE DEF x, w, h
<1>2. l \in Regions(TRUE, flat) /\ \A p, q \in Int : Has(l, p, q) <=> x <= p /\ p < h /\ x <= q /\ q < w
  BY <1>1, RectangleMade
<1> HIDE DEF l
<1>3. Covered(l) = {v \in Pixels : Has(l, v[2], v[1])}
  BY <1>2, RegionCovers
<1>4. \A v \in Pixels : v[1] \in Int /\ x <= v[1] /\ v[1] < w /\ v[2] \in Int /\ x <= v[2] /\ v[2] < h
  BY Numbers DEF Pixels, x, w, h
<1>5. Covered(l) = Pixels
  BY <1>2, <1>3, <1>4
<1> QED  BY <1>2, <1>5 DEF l, x, w, h

LEMMA InvInit == Init => IInv
<1> SUFFICES ASSUME Init PROVE IInv
  OBVIOUS
<1>1. <<>> \in Regions(FALSE, flat)
  BY None DEF Regions
<1>2. CreateRect(0, 0, Width, Height) \in Regions(TRUE, flat)
  BY ScreenMade
<1>3. flat \in BOOLEAN
  BY DEF Init
<1> QED  BY <1>1, <1>2, <1>3 DEF Init, IInv, Typed, Walking, Computing, Announcing, Tasks

LEMMA NothingChanges == IInv /\ UNCHANGED vars => IInv'
<1> SUFFICES ASSUME IInv, UNCHANGED vars PROVE IInv'
  OBVIOUS
<1>1. UNCHANGED <<modified, requested, update, announced, task, operand, walks, flat>>
  BY DEF vars
<1>2. Typed'
  BY <1>1 DEF IInv, Typed
<1>3. Walking'
  BY <1>1 DEF IInv, Walking, Changed
<1>4. Computing'
  BY <1>1 DEF IInv, Computing
<1>5. Announcing'
  BY <1>1 DEF IInv, Announcing
<1> QED  BY <1>2, <1>3, <1>4, <1>5 DEF IInv

\* A step of the walks of the operation under way.
LEMMA WalkingStep == IInv /\ (Round \/ Return) => IInv'
<1> SUFFICES ASSUME IInv, Round \/ Return PROVE IInv'
  OBVIOUS
<1>1. UNCHANGED <<modified, requested, update, announced, task, operand, flat>>
  BY DEF Round, Return
<1>2. task # "None"
  <2>1. CASE Round
    BY <2>1 DEF IInv, Walking, Round
  <2>2. CASE Return
    <3>1. walks # <<>>
      <4>1. Len(<<>>) = 0
        OBVIOUS
      <4> QED  BY <2>2, <4>1 DEF Return
    <3> QED  BY <3>1 DEF IInv, Walking
  <2> QED  BY <2>1, <2>2
<1>3. task \in Operations /\ Stack(task, flat, Changed, operand, walks)
  BY <1>2 DEF IInv, Typed, Walking, Tasks, Operations
<1>4. Stack(task, flat, Changed, operand, walks')
  <2>1. CASE Round
    <3>1. Or \/ And \/ Subtract
      BY <2>1 DEF Round
    <3> QED  BY <1>3, <3>1, StackRound
  <2>2. CASE Return
    BY <1>3, <2>2, StackReturn
  <2> QED  BY <2>1, <2>2
<1>5. Typed'
  BY <1>1 DEF IInv, Typed
<1>6. Walking'
  BY <1>1, <1>2, <1>4 DEF IInv, Walking, Changed
<1>7. Computing'
  BY <1>1 DEF IInv, Computing
<1>8. Announcing'
  BY <1>1 DEF IInv, Announcing
<1> QED  BY <1>5, <1>6, <1>7, <1>8 DEF IInv

\* An operation begins; with a request, empty spans may become allowed.
LEMMA BeginStep ==
  ASSUME IInv, NEW t \in {"Mark", "Request", "Intersect"}, NEW y \in Regions(Odd(t), flat'),
         t = "Intersect" => y = requested,
         Begin(t, IF t = "Request" THEN requested ELSE modified, y),
         flat' \in BOOLEAN, Allowed(flat) => Allowed(flat')
  PROVE  IInv'
<1> DEFINE x == IF t = "Request" THEN requested ELSE modified
           f == flat'
<1>1. /\ task' = t /\ operand' = y /\ walks' = <<Walk(x, y)>>
      /\ UNCHANGED <<modified, requested, update, announced>>
      /\ task = "None" /\ announced = 0
  BY DEF Begin, Ready
<1>2. f \in BOOLEAN /\ (Allowed(flat) => Allowed(f)) /\ y \in Regions(Odd(t), f)
  OBVIOUS
<1> HIDE DEF f
<1>3. /\ modified \in Regions(TRUE, flat) /\ requested \in Regions(FALSE, flat)
      /\ update \in Regions(FALSE, flat)
  BY DEF IInv, Typed
<1>4. /\ modified \in Regions(TRUE, f) /\ requested \in Regions(FALSE, f)
      /\ update \in Regions(FALSE, f)
  BY <1>2, <1>3, MoreAllowed
<1>5. x \in Regions(Odd(t), f)
  <2>1. CASE t = "Request"
    BY <1>4, <2>1 DEF Odd
  <2>2. CASE t # "Request"
    <3>1. Odd(t) = TRUE
      BY <2>2 DEF Odd
    <3> QED  BY <1>4, <2>2, <3>1
  <2> QED  BY <2>1, <2>2
<1>6. t \notin Adding => Plain(y)
  BY <1>4, MostlyPlain DEF Adding
<1>7. y \in Regions(TRUE, f)
  <2>1. CASE t = "Request"
    <3>1. y \in Regions(FALSE, f)
      BY <1>2, <2>1 DEF Odd
    <3> QED  BY <3>1, MostlyPlain
  <2>2. CASE t # "Request"
    <3>1. Odd(t) = TRUE
      BY <2>2 DEF Odd
    <3> QED  BY <1>2, <3>1
  <2> QED  BY <2>1, <2>2
<1>8. Stack(t, f, x, y, <<Walk(x, y)>>)
  <2> HIDE DEF x
  <2> QED  BY <1>2, <1>5, <1>6, StackBegins
<1>9. Typed'
  BY <1>1, <1>2, <1>4 DEF Typed, Tasks, f
<1>10. Walking'
  <2>1. Changed' = x /\ task' # "None"
    BY <1>1 DEF Changed
  <2> HIDE DEF x
  <2> QED  BY <1>1, <1>7, <1>8, <2>1 DEF Walking, f
<1>11. Computing'
  BY <1>1 DEF Computing
<1>12. Announcing'
  BY <1>1 DEF Announcing
<1> QED  BY <1>9, <1>10, <1>11, <1>12 DEF IInv

\* The inverted one that update_screen makes stands for no pixel.
LEMMA InvertedMade ==
  ASSUME NEW x1 \in 0..(Width - 1)
  PROVE  LET l == CreateRect(x1, NoCoord, IF x1 + 2 > Width THEN Width ELSE x1 + 2, Height) IN
         l \in Regions(TRUE, flat) /\ Covered(l) = {}
<1> DEFINE x2 == IF x1 + 2 > Width THEN Width ELSE x1 + 2
           l == CreateRect(x1, NoCoord, x2, Height)
<1>1. /\ Width \in Int /\ Height \in Int /\ NoCoord \in Int /\ Height < NoCoord
      /\ x1 \in Int /\ x2 \in Int /\ 0 <= x1 /\ x1 <= x2 /\ x1 # x2 /\ x2 <= Width
  BY Numbers DEF Limits
<1> HIDE DEF x2
<1>2. l \in Regions(TRUE, flat)
      /\ \A p, q \in Int : Has(l, p, q) <=> NoCoord <= p /\ p < Height /\ x1 <= q /\ q < x2
  BY <1>1, RectangleMade
<1> HIDE DEF l
<1>3. \A p, q \in Int : ~Has(l, p, q)
  BY <1>1, <1>2
<1>4. Covered(l) = {v \in Pixels : Has(l, v[2], v[1])}
  BY <1>2, RegionCovers
<1>5. \A v \in Pixels : v[1] \in Int /\ v[2] \in Int
  BY <1>1 DEF Pixels
<1> QED  BY <1>2, <1>3, <1>4, <1>5 DEF l, x2

LEMMA MarkStep == IInv /\ Mark => IInv'
<1> SUFFICES ASSUME IInv, Mark PROVE IInv'
  OBVIOUS
<1>1. PICK c \in MarkCorners : Begin("Mark", modified, CreateRect(c[1], c[2], c[3], c[4]))
  BY DEF Mark
<1> DEFINE y == CreateRect(c[1], c[2], c[3], c[4])
<1>2. c \in Corners /\ ~Flat(c)
  BY SizeAssumption
<1>3. flat' = flat /\ flat' \in BOOLEAN
  BY DEF Mark, IInv, Typed
<1>4. y \in Regions(Odd("Mark"), flat')
  BY <1>2, CornersMade
<1> HIDE DEF y
<1>5. Begin("Mark", IF "Mark" = "Request" THEN requested ELSE modified, y)
  BY <1>1 DEF y
<1> QED  BY <1>3, <1>4, <1>5, BeginStep

LEMMA MarkInvertedStep == IInv /\ MarkInverted => IInv'
<1> SUFFICES ASSUME IInv, MarkInverted PROVE IInv'
  OBVIOUS
<1>1. PICK x1 \in 0..(Width - 1) :
        Begin("Mark", modified,
              CreateRect(x1, NoCoord, IF x1 + 2 > Width THEN Width ELSE x1 + 2, Height))
  BY DEF MarkInverted
<1> DEFINE y == CreateRect(x1, NoCoord, IF x1 + 2 > Width THEN Width ELSE x1 + 2, Height)
<1>2. flat' = flat /\ flat' \in BOOLEAN
  BY DEF MarkInverted, IInv, Typed
<1>3. y \in Regions(Odd("Mark"), flat')
  <2>1. Odd("Mark") = TRUE
    BY DEF Odd
  <2> QED  BY <1>2, <2>1, InvertedMade
<1> HIDE DEF y
<1>4. Begin("Mark", IF "Mark" = "Request" THEN requested ELSE modified, y)
  BY <1>1 DEF y
<1> QED  BY <1>2, <1>3, <1>4, BeginStep

\* A request for an empty rectangle allows empty spans from then on.
LEMMA FlatKept ==
  ASSUME NEW a \in BOOLEAN, NEW b, NEW f, f = (a \/ b)
  PROVE  f \in BOOLEAN /\ (Allowed(a) => Allowed(f)) /\ (b => Allowed(f))
<1>1. CASE a \/ b
  <2>1. f = TRUE
    BY <1>1
  <2> QED  BY <2>1 DEF Allowed
<1>2. CASE ~a /\ ~b
  <2>1. f = FALSE /\ a = FALSE
    BY <1>2
  <2> QED  BY <2>1, <1>2 DEF Allowed
<1> QED  BY <1>1, <1>2

LEMMA RequestStep == IInv /\ Request => IInv'
<1> SUFFICES ASSUME IInv, Request PROVE IInv'
  OBVIOUS
<1>1. PICK c \in RequestCorners :
        /\ Begin("Request", requested, CreateRect(c[1], c[2], c[3], c[4]))
        /\ flat' = (flat \/ Flat(c))
  BY DEF Request
<1> DEFINE y == CreateRect(c[1], c[2], c[3], c[4])
<1>2. c \in Corners
  BY SizeAssumption
<1>3. flat' \in BOOLEAN /\ (Allowed(flat) => Allowed(flat')) /\ (Flat(c) => Allowed(flat'))
  <2>1. flat \in BOOLEAN
    BY DEF IInv, Typed
  <2> QED  BY <1>1, <2>1, FlatKept, Zenon
<1>4. y \in Regions(Odd("Request"), flat')
  BY <1>2, <1>3, CornersMade
<1> HIDE DEF y
<1>5. Begin("Request", IF "Request" = "Request" THEN requested ELSE modified, y)
  BY <1>1 DEF y
<1> QED  BY <1>3, <1>4, <1>5, BeginStep

LEMMA SendStep == IInv /\ Send => IInv'
<1> SUFFICES ASSUME IInv, Send PROVE IInv'
  OBVIOUS
<1>1. Begin("Intersect", IF "Intersect" = "Request" THEN requested ELSE modified, requested)
  BY DEF Send
<1>2. requested \in Regions(Odd("Intersect"), flat)
  <2>1. requested \in Regions(TRUE, flat)
    BY MostlyPlain DEF IInv, Typed
  <2>2. Odd("Intersect") = TRUE
    BY DEF Odd
  <2> QED  BY <2>1, <2>2
<1>3. flat' = flat /\ flat' \in BOOLEAN
  BY DEF Send, IInv, Typed
<1> QED  BY <1>1, <1>2, <1>3, BeginStep

\* The outermost walk has ended.
LEMMA EndedFacts ==
  ASSUME IInv, NEW t \in Operations, Ended(t)
  PROVE  /\ task = t /\ announced = 0
         /\ Result(Top) \in Regions(Odd(t), flat) /\ operand \in Regions(TRUE, flat)
         /\ t = "Intersect" => Result(Top) \in Regions(FALSE, flat)
         /\ \A p, q \in Int : Has(Result(Top), p, q) <=> Stands(t, <<>>, Changed, operand, p, q)
<1>1. task = t /\ Len(walks) = 1 /\ AtEnd(Top)
  BY DEF Ended
<1>2. task # "None"
  BY <1>1 DEF Operations
<1>3. /\ Stack(task, flat, Changed, operand, walks) /\ operand \in Regions(TRUE, flat)
      /\ announced = 0
  BY <1>2 DEF IInv, Walking, Announcing
<1>4. task \in Operations
  BY <1>1
<1> DEFINE r == Result(Top)
<1>5. /\ r \in Regions(Odd(task), flat)
      /\ task = "Intersect" => Plain(r)
      /\ \A p, q \in Int : Has(r, p, q) <=> Stands(task, <<>>, Changed, operand, p, q)
  BY <1>1, <1>3, <1>4, StackEnds
<1> HIDE DEF r
<1>6. t = "Intersect" => r \in Regions(FALSE, flat)
  <2> SUFFICES ASSUME t = "Intersect" PROVE r \in Regions(FALSE, flat)
    OBVIOUS
  <2>1. Odd(task) = TRUE
    BY <1>1 DEF Odd
  <2>2. r \in Regions(TRUE, flat) /\ Plain(r)
    BY <1>1, <1>5, <2>1
  <2> QED  BY <2>2, MostlyPlain
<1> QED  BY <1>1, <1>3, <1>5, <1>6 DEF r

LEMMA MarkedStep == IInv /\ Marked => IInv'
<1> SUFFICES ASSUME IInv, Marked PROVE IInv'
  OBVIOUS
<1>1. Result(Top) \in Regions(Odd("Mark"), flat) /\ announced = 0
  BY EndedFacts DEF Marked, Operations
<1>2. Odd("Mark") = TRUE
  BY DEF Odd
<1>3. /\ modified' = Result(Top) /\ task' = "None" /\ walks' = <<>>
      /\ UNCHANGED <<requested, update, announced, flat>>
  BY DEF Marked, End
<1>4. Typed'
  BY <1>1, <1>2, <1>3 DEF IInv, Typed, Tasks
<1> QED  BY <1>1, <1>3, <1>4 DEF IInv, Walking, Computing, Announcing

LEMMA RequestedStep == IInv /\ Requested => IInv'
<1> SUFFICES ASSUME IInv, Requested PROVE IInv'
  OBVIOUS
<1>1. /\ Result(Top) \in Regions(Odd("Request"), flat) /\ announced = 0
      /\ operand \in Regions(TRUE, flat)
  BY EndedFacts DEF Requested, Operations
<1>2. Odd("Request") = FALSE /\ Odd("Mark") = TRUE
  BY DEF Odd
<1>3. requested' = Result(Top) /\ UNCHANGED <<modified, update, announced, flat>>
  BY DEF Requested, End
<1>4. CASE End
  <2>1. task' = "None" /\ walks' = <<>>
    BY <1>4 DEF End
  <2>2. Typed'
    BY <1>1, <1>2, <1>3, <2>1 DEF IInv, Typed, Tasks
  <2> QED  BY <1>1, <1>3, <2>1, <2>2 DEF IInv, Walking, Computing, Announcing
<1>5. CASE task' = "Mark" /\ operand' = operand /\ walks' = <<Walk(modified, operand)>>
  <2>1. Typed'
    BY <1>1, <1>2, <1>3, <1>5 DEF IInv, Typed, Tasks
  <2>2. modified \in Regions(Odd("Mark"), flat) /\ operand \in Regions(Odd("Mark"), flat)
    BY <1>1, <1>2 DEF IInv, Typed
  <2>3. Stack("Mark", flat, modified, operand, <<Walk(modified, operand)>>)
    BY <2>2, StackBegins DEF Adding
  <2>4. Walking'
    BY <1>1, <1>3, <1>5, <2>3 DEF Walking, Changed
  <2>5. Computing'
    BY <1>5 DEF Computing
  <2>6. Announcing'
    BY <1>1, <1>3 DEF Announcing
  <2> QED  BY <2>1, <2>4, <2>5, <2>6 DEF IInv
<1> QED  BY <1>4, <1>5 DEF Requested

LEMMA NothingDueStep == IInv /\ NothingDue => IInv'
<1> SUFFICES ASSUME IInv, NothingDue PROVE IInv'
  OBVIOUS
<1>1. announced = 0
  BY EndedFacts DEF NothingDue, Operations
<1>2. /\ task' = "None" /\ walks' = <<>>
      /\ UNCHANGED <<modified, requested, update, announced, flat>>
  BY DEF NothingDue, End
<1>3. Typed'
  BY <1>2 DEF IInv, Typed, Tasks
<1> QED  BY <1>1, <1>2, <1>3 DEF IInv, Walking, Computing, Announcing

LEMMA DueStep == IInv /\ Due => IInv'
<1> SUFFICES ASSUME IInv, Due PROVE IInv'
  OBVIOUS
<1> DEFINE r == Result(Top)
<1>1. /\ task = "Intersect" /\ announced = 0 /\ r \in Regions(FALSE, flat)
      /\ \A p, q \in Int : Has(r, p, q) <=> Stands("Intersect", <<>>, Changed, operand, p, q)
  BY EndedFacts DEF Due, Operations
<1>2. Changed = modified /\ operand = requested
  BY <1>1 DEF Changed, IInv, Computing
<1>3. /\ update' = r /\ task' = "Subtract" /\ operand' = r /\ r # <<>>
      /\ walks' = <<Walk(modified, r)>>
      /\ UNCHANGED <<modified, requested, announced, flat>>
  BY DEF Due
<1> HIDE DEF r
<1>4. \A p, q \in Int : Has(r, p, q) <=> Has(modified, p, q) /\ Has(requested, p, q)
  BY <1>1, <1>2, HasNone DEF Stands, Adding
<1>5. r \in Regions(TRUE, flat) /\ Plain(r)
  BY <1>1, MostlyPlain
<1>6. Stack("Subtract", flat, modified, r, <<Walk(modified, r)>>)
  <2>1. Odd("Subtract") = TRUE
    BY DEF Odd
  <2>2. modified \in Regions(Odd("Subtract"), flat) /\ r \in Regions(Odd("Subtract"), flat)
    BY <1>5, <2>1 DEF IInv, Typed
  <2> QED  BY <1>5, <2>2, StackBegins
<1>7. Typed'
  BY <1>1, <1>3 DEF IInv, Typed, Tasks
<1>8. Walking'
  BY <1>3, <1>5, <1>6 DEF Walking, Changed
<1>9. Computing'
  BY <1>3, <1>4 DEF Computing
<1>10. Announcing'
  BY <1>1, <1>3 DEF Announcing
<1> QED  BY <1>7, <1>8, <1>9, <1>10 DEF IInv

\* The list v covers what l does, or the rectangle around it, which may be
\* larger than that around the pixels if there are empty spans.
Bounding(l, v) ==
  \/ Covered(v) = Covered(l)
  \/ ~Allowed(flat) /\ Covered(v) = Sets!BBox(Covered(l))
  \/ Allowed(flat) /\ Covered(v) \in Rectangles /\ Covered(l) \subseteq Covered(v)

\* What is announced, one rectangle or as many as the region has.
LEMMA AnnouncedFacts ==
  ASSUME IInv, Announce
  PROVE  /\ update' \in Regions(FALSE, flat) /\ update' # <<>>
         /\ announced' = CountRects(update') /\ announced' # 0
         /\ Bounding(update, update')
<1>1. task = "Subtract" /\ update \in Regions(FALSE, flat) /\ update # <<>>
  BY DEF Announce, Ended, IInv, Typed, Computing
<1>2. update' = BBoxOf(update) \/ update' = update
  BY DEF Announce
<1>3. /\ update' \in Regions(FALSE, flat) /\ update' # <<>>
      /\ Bounding(update, update')
  <2>1. CASE update' = update
    BY <1>1, <2>1 DEF Bounding
  <2>2. CASE update' = BBoxOf(update)
    <3> DEFINE B == BBoxOf(update)
    <3>1. /\ B \in Regions(FALSE, flat) /\ B # <<>>
          /\ Covered(B) \in Rectangles /\ Covered(update) \subseteq Covered(B)
          /\ ~Allowed(flat) => Covered(B) = Sets!BBox(Covered(update))
      BY <1>1, BBoxMade
    <3> HIDE DEF B
    <3>2. Bounding(update, B)
      BY <3>1 DEF Bounding
    <3> QED  BY <2>2, <3>1, <3>2 DEF B
  <2> QED  BY <1>2, <2>1, <2>2
<1>4. announced' = CountRects(update')
  BY DEF Announce
<1>5. CountRects(update') \in Nat /\ CountRects(update') >= Len(update')
  BY <1>3, RectsFound DEF ListedTo
<1>6. Len(update') \in Nat /\ Len(update') # 0
  <2> DEFINE B == RowSpans(FALSE, flat)
             u == update'
  <2>1. u \in Seq(B) /\ u # <<>>
    BY <1>3 DEF Regions
  <2> HIDE DEF B, u
  <2>2. Len(u) \in Nat /\ Len(u) # 0
    BY <2>1
  <2> QED  BY <2>2 DEF u
<1>7. CountRects(update') # 0
  <2> DEFINE n == Len(update')
             k == CountRects(update')
  <2>1. k \in Nat /\ k >= n /\ n \in Nat /\ n # 0
    BY <1>5, <1>6
  <2> HIDE DEF k, n
  <2>2. k # 0
    BY <2>1
  <2> QED  BY <2>2 DEF k
<1> QED  BY <1>3, <1>4, <1>7

LEMMA AnnounceStep == IInv /\ Announce => IInv'
<1> SUFFICES ASSUME IInv, Announce PROVE IInv'
  OBVIOUS
<1>1. update' \in Regions(FALSE, flat) /\ update' # <<>> /\ announced' = CountRects(update')
  BY AnnouncedFacts
<1>2. Result(Top) \in Regions(Odd("Subtract"), flat)
  BY EndedFacts DEF Announce, Operations
<1>3. Odd("Subtract") = TRUE
  BY DEF Odd
<1>4. /\ modified' = Result(Top) /\ requested' = <<>> /\ task' = "None" /\ walks' = <<>>
      /\ flat' = flat /\ flat \in BOOLEAN
  BY DEF Announce, End, IInv, Typed
<1>5. <<>> \in Regions(FALSE, flat)
  BY None DEF Regions
<1>6. Typed'
  BY <1>1, <1>2, <1>3, <1>4, <1>5 DEF Typed, Tasks
<1>7. Announcing'
  BY <1>1, <1>4 DEF Announcing
<1> QED  BY <1>4, <1>6, <1>7 DEF IInv, Walking, Computing

LEMMA SentStep == IInv /\ Sent => IInv'
<1> SUFFICES ASSUME IInv, Sent PROVE IInv'
  OBVIOUS
<1>1. /\ update' = <<>> /\ announced' = 0 /\ announced # 0
      /\ UNCHANGED <<modified, requested, task, operand, walks, flat>>
  BY DEF Sent
<1>2. task = "None"
  BY <1>1 DEF IInv, Announcing
<1>3. <<>> \in Regions(FALSE, flat)
  BY None DEF Regions
<1>4. Typed'
  BY <1>1, <1>3 DEF IInv, Typed
<1>5. Walking'
  BY <1>1, <1>2 DEF IInv, Walking
<1> QED  BY <1>1, <1>2, <1>4, <1>5 DEF IInv, Computing, Announcing

LEMMA InvKept == IInv /\ [Next]_vars => IInv'
BY MarkStep, MarkInvertedStep, RequestStep, SendStep, WalkingStep, MarkedStep, RequestedStep,
   NothingDueStep, DueStep, AnnounceStep, SentStep, NothingChanges DEF Next, Work

\* The regions are lists of spans on the screen, in order, with inverted ones
\* only among the modified region's; the walks of an operation stand for its
\* result from its first round to its last, in the middle of splits and merges.
THEOREM Invariant == Spec => []IInv
<1>1. IInv /\ [Next]_vars => IInv'
  BY InvKept
<1> QED  BY <1>1, InvInit, PTL DEF Spec

-----------------------------------------------------------------------------
(* Properties. *)

\* A region is a list in order.
LEMMA RegionWellFormed ==
  ASSUME flat \in BOOLEAN, NEW l \in Regions(TRUE, flat)
  PROVE  /\ Ordered(l)
         /\ \A i \in DOMAIN l :
              /\ l[i].subspan # <<>>
              /\ Ordered(l[i].subspan)
              /\ \A j \in DOMAIN l[i].subspan :
                   ~Inverted(l[i].subspan[j]) /\ l[i].subspan[j].subspan = NULL
<1> DEFINE B == RowSpans(TRUE, flat)
<1>1. l \in Seq(B) /\ Sorted(l)
  BY DEF Regions
<1> HIDE DEF B
<1>2. /\ DOMAIN l = 1..Len(l) /\ Len(l) \in Nat
      /\ \A i \in 1..Len(l) : l[i] \in B
  BY <1>1
<1>3. Ordered(l)
  <2>1. \A i \in DOMAIN l : l[i].start = l[i].end => flat
    <3>1. ASSUME NEW i \in DOMAIN l, l[i].start = l[i].end PROVE Allowed(flat)
      <4>1. l[i] \in RowSpans(TRUE, flat)
        BY <1>2 DEF B
      <4> QED  BY <3>1, <4>1, RowFields
    <3> QED  BY <3>1, FlatIs, Zenon
  <2>2. \A i \in 1..(Len(l) - 1) : l[i].end <= l[i + 1].start
    <3>1. \A i \in 1..(Len(l) - 1) : i \in DOMAIN l /\ i + 1 \in DOMAIN l /\ i < i + 1
      BY <1>2
    <3> QED  BY <1>1, <3>1 DEF Sorted
  <2> QED  BY <2>1, <2>2 DEF Ordered
<1>4. ASSUME NEW i \in DOMAIN l
      PROVE  /\ l[i].subspan # <<>>
             /\ Ordered(l[i].subspan)
             /\ \A j \in DOMAIN l[i].subspan :
                  ~Inverted(l[i].subspan[j]) /\ l[i].subspan[j].subspan = NULL
  <2> DEFINE s == l[i].subspan
  <2>1. l[i] \in RowSpans(TRUE, flat)
    BY <1>2 DEF B
  <2>2. s \in Seq(ColumnSpans(flat)) /\ s # <<>> /\ Sorted(s)
    BY <2>1, RowFields
  <2> HIDE DEF s
  <2>3. /\ DOMAIN s = 1..Len(s) /\ Len(s) \in Nat
        /\ \A j \in 1..Len(s) : s[j] \in ColumnSpans(flat)
    BY <2>2
  <2>4. ASSUME NEW j \in DOMAIN s
        PROVE  /\ s[j].start = s[j].end => Allowed(flat)
               /\ ~Inverted(s[j]) /\ s[j].subspan = NULL
    <3>1. /\ s[j].start \in Int /\ s[j].end \in Int /\ s[j].start <= s[j].end
          /\ s[j].subspan = NULL
          /\ s[j].start = s[j].end => Allowed(flat)
      BY <2>3, ColumnFields
    <3> QED  BY <3>1 DEF Inverted
  <2>5. \A j \in 1..(Len(s) - 1) : s[j].end <= s[j + 1].start
    <3>1. \A j \in 1..(Len(s) - 1) : j \in DOMAIN s /\ j + 1 \in DOMAIN s /\ j < j + 1
      BY <2>3
    <3> QED  BY <2>2, <3>1 DEF Sorted
  <2>6. Ordered(s)
    <3>1. \A j \in DOMAIN s : s[j].start = s[j].end => flat
      BY <2>4, FlatIs, Zenon
    <3> QED  BY <3>1, <2>5 DEF Ordered
  <2> QED  BY <2>2, <2>4, <2>6 DEF s
<1> QED  BY <1>3, <1>4

LEMMA NoneInverted ==
  ASSUME NEW l \in Regions(FALSE, flat), NEW i \in DOMAIN l
  PROVE  ~Inverted(l[i])
<1> DEFINE B == RowSpans(FALSE, flat)
<1>1. l \in Seq(B)
  BY DEF Regions
<1> HIDE DEF B
<1>2. l[i] \in B
  BY <1>1
<1>3. l[i].start \in Int /\ l[i].end \in Int /\ l[i].start <= l[i].end
  BY <1>2, RowFields DEF B
<1> QED  BY <1>3 DEF Inverted

LEMMA InvWellFormed == IInv => WellFormed
<1> SUFFICES ASSUME IInv PROVE WellFormed
  OBVIOUS
<1>1. /\ modified \in Regions(TRUE, flat) /\ requested \in Regions(FALSE, flat)
      /\ update \in Regions(FALSE, flat) /\ flat \in BOOLEAN
  BY DEF IInv, Typed
<1>2. requested \in Regions(TRUE, flat) /\ update \in Regions(TRUE, flat)
  BY <1>1, MostlyPlain
<1>3. \A region \in {requested, update} : \A i \in DOMAIN region : ~Inverted(region[i])
  BY <1>1, NoneInverted
<1>4. \A region \in {modified, requested, update} : region \in Regions(TRUE, flat)
  BY <1>1, <1>2
<1> QED  BY <1>1, <1>3, <1>4, RegionWellFormed DEF WellFormed

\* Whatever the three operations split and merge, the client's regions stay
\* lists of spans in order that do not overlap, none of them empty unless the
\* viewer has asked for an empty rectangle, and no inverted rectangle gets from
\* the modified region into an update, whatever was asked for.
THEOREM WellFormedSafe == Spec => []WellFormed
BY Invariant, InvWellFormed, PTL

\* An update that is announced consists of the rectangles that its list has.
LEMMA InvSentOnce == IInv => SentOnce
<1> SUFFICES ASSUME IInv, announced # 0
             PROVE  LET rects == RectsOf(update) IN
                    /\ announced = Len(rects)
                    /\ \A i \in DOMAIN rects :
                         /\ PixelsOf(rects[i]) = {} => flat
                         /\ \A j \in DOMAIN rects :
                              i # j => PixelsOf(rects[i]) \cap PixelsOf(rects[j]) = {}
  BY DEF SentOnce
<1> DEFINE w == RectsOf(update)
<1>1. announced = CountRects(update) /\ update \in Regions(FALSE, flat) /\ flat \in BOOLEAN
  BY DEF IInv, Typed, Announcing
<1>2. ListedTo(update, flat, Len(update), CountRects(update), w)
  BY <1>1, RectsFound
<1> HIDE DEF w
<1>3. Len(w) = announced /\ Disjoint(w) /\ \A r \in Range(w) : PixelsOf(r) = {} => Allowed(flat)
  BY <1>1, <1>2 DEF ListedTo
<1>4. \A i \in DOMAIN w : w[i] \in Range(w)
  BY DEF Range
<1>5. \A i \in DOMAIN w : PixelsOf(w[i]) = {} => flat
  BY <1>1, <1>3, <1>4, FlatIs, Zenon
<1> QED  BY <1>3, <1>5 DEF Disjoint, w

\* As many rectangles are sent as the header announces and no pixel twice, for
\* every screen, however the lists are split and whatever was asked for; none
\* is empty before the viewer asks for an empty rectangle.
THEOREM SentOnceSafe == Spec => []SentOnce
BY Invariant, InvSentOnce, PTL

-----------------------------------------------------------------------------
(* PixelSets. *)

\* A region without inverted and without empty spans has a pixel.
LEMMA SomePixel ==
  ASSUME ~Allowed(flat), NEW l \in Regions(FALSE, flat), l # <<>>
  PROVE  Covered(l) # {}
<1>1. PICK row \in Range(l) : TRUE
  BY RowIn
<1>2. PICK col \in Range(row.subspan) : TRUE
  BY RegionCovers, ColumnIn
<1>3. /\ row.start \in Int /\ row.end \in Int /\ col.start \in Int /\ col.end \in Int
      /\ row.start < row.end /\ col.start < col.end
      /\ \A p, q \in Int : row.start <= p /\ p < row.end /\ col.start <= q /\ q < col.end
                           => <<q, p>> \in Covered(l)
  BY RowAndColumn
<1>4. <<col.start, row.start>> \in Covered(l)
  BY <1>3
<1> QED  BY <1>4

LEMMA InitMaps == Init => Sets!Init
<1> SUFFICES ASSUME Init PROVE Sets!Init
  OBVIOUS
<1>1. Covered(<<>>) = {}
  BY None DEF Covered
<1>2. Covered(modified) = Pixels
  BY ScreenMade DEF Init
<1> QED  BY <1>1, <1>2 DEF Init, Sets!Init

\* What an operation on a region does to its pixels.
LEMMA PixelsOfResult ==
  ASSUME IInv, NEW t \in {"Mark", "Request", "Subtract"}, Ended(t)
  PROVE  Covered(Result(Top)) = IF t = "Subtract" THEN Covered(Changed) \ Covered(operand)
                                ELSE Covered(Changed) \cup Covered(operand)
<1> DEFINE r == Result(Top)
           x == Changed
<1>1. /\ task = t /\ operand \in Regions(TRUE, flat)
      /\ r \in Regions(Odd(t), flat)
      /\ \A p, q \in Int : Has(r, p, q) <=> Stands(t, <<>>, x, operand, p, q)
  BY EndedFacts DEF Operations
<1>2. x \in Regions(TRUE, flat)
  BY MostlyPlain DEF IInv, Typed, Changed
<1> HIDE DEF r, x
<1>3. /\ Covered(r) = {v \in Pixels : Has(r, v[2], v[1])}
      /\ Covered(x) = {v \in Pixels : Has(x, v[2], v[1])}
      /\ Covered(operand) = {v \in Pixels : Has(operand, v[2], v[1])}
  BY <1>1, <1>2, RegionCovers
<1>4. \A v \in Pixels : v[1] \in Int /\ v[2] \in Int
  BY Numbers DEF Pixels
<1>5. \A v \in Pixels : Has(r, v[2], v[1]) <=> Stands(t, <<>>, x, operand, v[2], v[1])
  BY <1>1, <1>4
<1>6. CASE t = "Subtract"
  <2>1. \A v \in Pixels : Has(r, v[2], v[1]) <=> Has(x, v[2], v[1]) /\ ~Has(operand, v[2], v[1])
    BY <1>5, <1>6, HasNone DEF Stands, Adding
  <2> QED  BY <1>3, <1>6, <2>1 DEF r, x
<1>7. CASE t # "Subtract"
  <2>1. t \in Adding
    BY <1>7 DEF Adding
  <2>2. \A v \in Pixels : Has(r, v[2], v[1]) <=> Has(x, v[2], v[1]) \/ Has(operand, v[2], v[1])
    BY <1>5, <2>1, HasNone DEF Stands
  <2> QED  BY <1>3, <1>7, <2>2 DEF r, x
<1> QED  BY <1>6, <1>7

\* Nothing changes for PixelSets.
LEMMA Stutters ==
  ASSUME UNCHANGED <<modified, requested, flat>>,
         announced = 0, announced' = 0,
         IF task = "Mark" THEN Covered(operand) = {} ELSE TRUE,
         IF task' = "Mark" THEN Covered(operand') = {} ELSE TRUE,
         task # "Request", task' # "Request"
  PROVE  UNCHANGED Sets!vars
BY DEF Sets!vars, Covered

LEMMA WalkingMaps == Round \/ Return => UNCHANGED Sets!vars
BY DEF Round, Return, Sets!vars, Covered

LEMMA MarkMaps == IInv /\ Mark => [Sets!Next]_Sets!vars
<1> SUFFICES ASSUME IInv, Mark PROVE Sets!BeginMark
  BY DEF Sets!Next
<1>1. PICK c \in MarkCorners : Begin("Mark", modified, CreateRect(c[1], c[2], c[3], c[4]))
  BY DEF Mark
<1>2. c \in Corners
  BY SizeAssumption
<1>3. Covered(CreateRect(c[1], c[2], c[3], c[4])) \in Rectangles
  BY <1>2 DEF Rectangles
<1> DEFINE y == CreateRect(c[1], c[2], c[3], c[4])
<1>4. /\ task' = "Mark" /\ operand' = y /\ task = "None" /\ announced = 0
      /\ UNCHANGED <<modified, requested, update, announced, flat>>
  BY <1>1 DEF Begin, Ready, Mark
<1>5. Covered(operand') \in Rectangles
  BY <1>3, <1>4
<1>6. /\ Covered(modified') = Covered(modified) /\ Covered(requested') = Covered(requested)
      /\ announced' = 0
  BY <1>4
<1> QED  BY <1>4, <1>5, <1>6 DEF Sets!BeginMark, Sets!Ready, Covered, Rectangles

LEMMA MarkInvertedMaps == IInv /\ MarkInverted => UNCHANGED Sets!vars
<1> SUFFICES ASSUME IInv, MarkInverted PROVE UNCHANGED Sets!vars
  OBVIOUS
<1>1. PICK x1 \in 0..(Width - 1) :
        Begin("Mark", modified,
              CreateRect(x1, NoCoord, IF x1 + 2 > Width THEN Width ELSE x1 + 2, Height))
  BY DEF MarkInverted
<1>2. Covered(CreateRect(x1, NoCoord, IF x1 + 2 > Width THEN Width ELSE x1 + 2, Height)) = {}
  BY InvertedMade
<1>3. /\ task' = "Mark" /\ task = "None" /\ announced = 0
      /\ operand' = CreateRect(x1, NoCoord, IF x1 + 2 > Width THEN Width ELSE x1 + 2, Height)
      /\ UNCHANGED <<modified, requested, update, announced, flat>>
  BY <1>1 DEF Begin, Ready, MarkInverted
<1>4. Covered(operand') = {}
  BY <1>2, <1>3
<1> QED  BY <1>3, <1>4, Stutters

LEMMA RequestMaps == IInv /\ Request => [Sets!Next]_Sets!vars
<1> SUFFICES ASSUME IInv, Request PROVE Sets!BeginRequest
  BY DEF Sets!Next
<1>1. PICK c \in RequestCorners :
        /\ Begin("Request", requested, CreateRect(c[1], c[2], c[3], c[4]))
        /\ flat' = (flat \/ Flat(c))
  BY DEF Request
<1>2. c \in Corners
  BY SizeAssumption
<1> DEFINE y == CreateRect(c[1], c[2], c[3], c[4])
<1>3. Covered(y) \in Rectangles /\ (Flat(c) <=> Covered(y) = {})
  BY <1>2, FlatCovers DEF Rectangles
<1>4. /\ task' = "Request" /\ operand' = y /\ task = "None" /\ announced = 0
      /\ UNCHANGED <<modified, requested, update, announced>>
  BY <1>1 DEF Begin, Ready
<1> HIDE DEF y
<1>5. Covered(operand') \in Rectangles
  BY <1>3, <1>4
<1>6. /\ Covered(modified') = Covered(modified) /\ Covered(requested') = Covered(requested)
      /\ announced' = 0
  BY <1>4
<1>7. flat' = (flat \/ Covered(operand') = {})
  <2>1. CASE flat \/ Flat(c)
    <3>1. flat' = TRUE
      BY <1>1, <2>1
    <3>2. (flat \/ Covered(operand') = {}) = TRUE
      BY <1>3, <1>4, <2>1
    <3> QED  BY <3>1, <3>2
  <2>2. CASE ~(flat \/ Flat(c))
    <3>1. flat' = FALSE
      BY <1>1, <2>2
    <3>2. (flat \/ Covered(operand') = {}) = FALSE
      BY <1>3, <1>4, <2>2
    <3> QED  BY <3>1, <3>2
  <2> QED  BY <2>1, <2>2
<1> QED  BY <1>4, <1>5, <1>6, <1>7 DEF Sets!BeginRequest, Sets!Ready, Covered, Rectangles

LEMMA MarkedMaps == IInv /\ Marked => [Sets!Next]_Sets!vars
<1> SUFFICES ASSUME IInv, Marked PROVE [Sets!Next]_Sets!vars
  OBVIOUS
<1>1. task = "Mark" /\ announced = 0
  BY EndedFacts DEF Marked, Operations
<1>2. /\ modified' = Result(Top) /\ task' = "None"
      /\ UNCHANGED <<requested, update, announced, flat>>
  BY DEF Marked, End
<1>3. Covered(Result(Top)) = Covered(modified) \cup Covered(operand)
  <2>1. Covered(Result(Top)) = Covered(Changed) \cup Covered(operand)
    BY PixelsOfResult DEF Marked
  <2> QED  BY <1>1, <2>1 DEF Changed
<1>4. Covered(modified') = Covered(modified) \cup Covered(operand)
  BY <1>2, <1>3
<1>5. Covered(requested') = Covered(requested) /\ announced' = 0
  BY <1>1, <1>2
<1>6. CASE Covered(operand) = {}
  BY <1>1, <1>2, <1>4, <1>5, <1>6 DEF Sets!vars
<1>7. CASE Covered(operand) # {}
  BY <1>1, <1>2, <1>4, <1>5, <1>7 DEF Sets!Next, Sets!Mark
<1> QED  BY <1>6, <1>7

LEMMA RequestedMaps == IInv /\ Requested => [Sets!Next]_Sets!vars
<1> SUFFICES ASSUME IInv, Requested PROVE [Sets!Next]_Sets!vars
  OBVIOUS
<1>1. task = "Request" /\ announced = 0
  BY EndedFacts DEF Requested, Operations
<1>2. requested' = Result(Top) /\ UNCHANGED <<modified, update, announced, flat>>
  BY DEF Requested, End
<1>3. task' = "None" \/ (task' = "Mark" /\ operand' = operand)
  BY DEF Requested, End
<1>4. Covered(Result(Top)) = Covered(requested) \cup Covered(operand)
  <2>1. Covered(Result(Top)) = Covered(Changed) \cup Covered(operand)
    BY PixelsOfResult DEF Requested
  <2> QED  BY <1>1, <2>1 DEF Changed
<1>5. Covered(requested') = Covered(requested) \cup Covered(operand)
  BY <1>2, <1>4
<1>6. Covered(modified') = Covered(modified) /\ announced' = 0 /\ flat' = flat
  BY <1>1, <1>2
<1>7. task' = "Mark" => Covered(operand') = Covered(operand)
  BY <1>3
<1>8. CASE Covered(operand) = {}
  BY <1>1, <1>3, <1>5, <1>6, <1>7, <1>8 DEF Sets!vars
<1>9. CASE Covered(operand) # {}
  BY <1>1, <1>3, <1>5, <1>6, <1>7, <1>9 DEF Sets!Next, Sets!Request
<1> QED  BY <1>8, <1>9

LEMMA SendMaps == IInv /\ (Send \/ NothingDue \/ Due) => UNCHANGED Sets!vars
<1> SUFFICES ASSUME IInv, Send \/ NothingDue \/ Due PROVE UNCHANGED Sets!vars
  OBVIOUS
<1>1. CASE Send
  <2>1. /\ task = "None" /\ task' = "Intersect" /\ announced = 0
        /\ UNCHANGED <<modified, requested, announced, flat>>
    BY <1>1 DEF Send, Begin, Ready
  <2> QED  BY <2>1, Stutters
<1>2. CASE NothingDue
  <2>1. task = "Intersect" /\ announced = 0
    BY <1>2, EndedFacts DEF NothingDue, Operations
  <2>2. task' = "None" /\ UNCHANGED <<modified, requested, announced, flat>>
    BY <1>2 DEF NothingDue, End
  <2> QED  BY <2>1, <2>2, Stutters
<1>3. CASE Due
  <2>1. task = "Intersect" /\ announced = 0
    BY <1>3, EndedFacts DEF Due, Operations
  <2>2. task' = "Subtract" /\ UNCHANGED <<modified, requested, announced, flat>>
    BY <1>3 DEF Due
  <2> QED  BY <2>1, <2>2, Stutters
<1> QED  BY <1>1, <1>2, <1>3

LEMMA AnnounceMaps == IInv /\ Announce => Sets!Send
<1> SUFFICES ASSUME IInv, Announce PROVE Sets!Send
  OBVIOUS
<1>1. task = "Subtract" /\ announced = 0
  BY EndedFacts DEF Announce, Operations
<1>2. /\ modified' = Result(Top) /\ requested' = <<>> /\ task' = "None" /\ flat' = flat
  BY DEF Announce, End
<1>3. /\ update \in Regions(FALSE, flat) /\ update # <<>> /\ operand = update
      /\ modified \in Regions(TRUE, flat) /\ requested \in Regions(FALSE, flat)
      /\ \A p, q \in Int : Has(update, p, q) <=> Has(modified, p, q) /\ Has(requested, p, q)
  BY <1>1 DEF IInv, Typed, Computing
<1>4. Covered(update) = Covered(modified) \cap Covered(requested)
  <2>1. /\ Covered(update) = {v \in Pixels : Has(update, v[2], v[1])}
        /\ Covered(modified) = {v \in Pixels : Has(modified, v[2], v[1])}
        /\ Covered(requested) = {v \in Pixels : Has(requested, v[2], v[1])}
    BY <1>3, RegionCovers
  <2>2. \A v \in Pixels : v[1] \in Int /\ v[2] \in Int
    BY Numbers DEF Pixels
  <2>3. \A v \in Pixels :
          Has(update, v[2], v[1]) <=> Has(modified, v[2], v[1]) /\ Has(requested, v[2], v[1])
    BY <1>3, <2>2
  <2> QED  BY <2>1, <2>3
<1>5. Covered(modified') = Covered(modified) \ Covered(update)
  <2>1. Covered(Result(Top)) = Covered(Changed) \ Covered(operand)
    BY PixelsOfResult DEF Announce
  <2>2. Changed = modified
    BY <1>1 DEF Changed
  <2> QED  BY <1>2, <1>3, <2>1, <2>2
<1>6. Covered(requested') = {}
  <2>1. Covered(<<>>) = {}
    BY None DEF Covered
  <2> QED  BY <1>2, <2>1
<1>7. announced' # 0 /\ Bounding(update, update')
  BY AnnouncedFacts
<1>8. flat \in BOOLEAN
  BY DEF IInv, Typed
<1> DEFINE due == Covered(modified) \cap Covered(requested)
           sent == Covered(update')
<1>9. due # {} \/ flat
  <2>1. ~Allowed(flat) => Covered(update) # {}
    BY <1>3, SomePixel
  <2> QED  BY <1>4, <1>8, <2>1, FlatIs, Zenon
<1>10. \/ sent \in {due, Sets!BBox(due)}
       \/ flat /\ sent \in {r \in Rectangles : due \subseteq r}
  <2>1. CASE Allowed(flat) /\ sent \in Rectangles /\ Covered(update) \subseteq sent
    <3>1. sent \in {r \in Rectangles : due \subseteq r}
      BY <1>4, <2>1
    <3> QED  BY <1>8, <2>1, <3>1, FlatIs, Zenon
  <2>2. CASE sent = Covered(update) \/ sent = Sets!BBox(Covered(update))
    BY <1>4, <2>2
  <2> QED  BY <1>7, <2>1, <2>2 DEF Bounding
<1> QED  BY <1>1, <1>2, <1>4, <1>5, <1>6, <1>7, <1>9, <1>10
         DEF Sets!Send, Sets!Ready, Covered, Rectangles

LEMMA SentMaps == IInv /\ Sent => [Sets!Next]_Sets!vars
<1> SUFFICES ASSUME IInv, Sent PROVE [Sets!Next]_Sets!vars
  OBVIOUS
<1>1. /\ announced # 0 /\ announced' = 0
      /\ UNCHANGED <<modified, requested, task, operand, flat>>
  BY DEF Sent
<1>2. task = "None"
  BY <1>1 DEF IInv, Announcing
<1>3. Covered(modified') = Covered(modified) /\ Covered(requested') = Covered(requested)
  BY <1>1
<1>4. CASE Covered(update) # {}
  BY <1>1, <1>2, <1>3, <1>4 DEF Sets!Next, Sets!Sent
<1>5. CASE Covered(update) = {}
  BY <1>1, <1>2, <1>3, <1>5 DEF Sets!vars
<1> QED  BY <1>4, <1>5

LEMMA StepMaps == IInv /\ [Next]_vars => [Sets!Next]_Sets!vars
<1> SUFFICES ASSUME IInv, [Next]_vars PROVE [Sets!Next]_Sets!vars
  OBVIOUS
<1>1. CASE Announce
  BY <1>1, AnnounceMaps DEF Sets!Next
<1>2. CASE UNCHANGED vars
  BY <1>2 DEF vars, Sets!vars, Covered
<1> QED  BY <1>1, <1>2, WalkingMaps, MarkMaps, MarkInvertedMaps, RequestMaps, MarkedMaps,
         RequestedMaps, SendMaps, SentMaps DEF Next, Work

\* Seen as sets of pixels, the walks of rfbregion.c are union, intersection and
\* difference, for every screen and whatever lists earlier operations have
\* left: what is sent is what was modified and asked for, or the rectangle
\* around it, which an empty rectangle that was asked for may enlarge, and no
\* more than what was both is taken from what is still to be sent.
THEOREM ImplementsPixelSets == Spec => RefinesPixelSets
<1>1. IInv /\ [Next]_vars => [Sets!Next]_Sets!vars
  BY StepMaps
<1>2. Init => Sets!Init
  BY InitMaps
<1> QED  BY <1>1, <1>2, Invariant, PTL DEF Spec, RefinesPixelSets, Sets!Spec

=============================================================================
