------------------------- MODULE FrameCaptureProofs -------------------------
(***************************************************************************)
(* Proofs about FrameCapture, for every number of threads, size of the     *)
(* display and set of screen contents.                                     *)
(***************************************************************************)
EXTENDS FrameCapture, TLAPS

-----------------------------------------------------------------------------
(* The stripes. *)

LEMMA YIsNat == Y \in Nat /\ Y * NumCpu <= Lines
<1>1. Y = Lines \div NumCpu /\ Lines \in Nat /\ NumCpu \in Nat \ {0}
  BY CaptureAssumption DEF Y
<1> QED  BY <1>1

\* Multiplication is monotonic; the solver does not find this by itself.
LEMMA TimesMonotonic ==
  ASSUME NEW a \in Nat, NEW m \in Nat, NEW n \in Nat, m <= n
  PROVE  a * m <= a * n
<1>1. a * n = a * m + a * (n - m)
  OBVIOUS
<1>2. a * (n - m) >= 0
  OBVIOUS
<1>3. a * m \in Int /\ a * (n - m) \in Int
  OBVIOUS
<1> QED  BY <1>1, <1>2, <1>3

\* No two threads of a frame write the same line, whatever the size of the
\* display.
THEOREM StripesApart == \A i \in Ids, j \in Ids : i # j => Stripe(i) \cap Stripe(j) = {}
<1>0. Y \in Nat /\ NumCpu \in Nat
  BY YIsNat, CaptureAssumption
<1>1. ASSUME NEW i \in Ids, NEW j \in Ids, i < j PROVE Stripe(i) \cap Stripe(j) = {}
  <2>1. Y * (i + 1) <= Y * j
    BY <1>0, <1>1, TimesMonotonic DEF Ids
  <2>2. Y * (i + 1) \in Int /\ Y * j \in Int
    BY <1>0 DEF Ids
  <2> QED  BY <2>1, <2>2 DEF Stripe
<1>2. \A i \in Ids, j \in Ids : i # j => i < j \/ j < i
  BY <1>0 DEF Ids
<1> QED  BY <1>1, <1>2

\* The stripes leave no gap: what they copy is one block from the start.
THEOREM StripesCover == Captured = 0..(Y * NumCpu - 1)
<1>0. Y \in Nat /\ NumCpu \in Nat /\ Y * NumCpu \in Nat
  BY YIsNat, CaptureAssumption
<1>1. ASSUME NEW l \in Captured PROVE l \in 0..(Y * NumCpu - 1)
  <2>1. PICK i \in Ids : l \in Stripe(i)
    BY DEF Captured
  <2>2. Y * (i + 1) <= Y * NumCpu
    BY <1>0, TimesMonotonic DEF Ids
  <2>3. Y * i >= 0 /\ Y * i \in Int /\ Y * (i + 1) \in Int
    BY <1>0 DEF Ids
  <2> QED  BY <1>0, <2>1, <2>2, <2>3 DEF Stripe
<1>2. ASSUME NEW l \in 0..(Y * NumCpu - 1) PROVE l \in Captured
  <2>1. Y > 0 /\ l \in Nat
    <3>1. Y = 0 => Y * NumCpu = 0
      BY <1>0
    <3> QED  BY <1>0, <3>1
  <2> DEFINE i == l \div Y
  <2>2. i \in Nat /\ Y * i <= l /\ l < Y * i + Y
    BY <1>0, <2>1
  <2>3. Y * (i + 1) = Y * i + Y
    BY <1>0, <2>2
  <2>4. i < NumCpu
    <3>1. SUFFICES ASSUME NumCpu <= i PROVE FALSE
      BY <1>0, <2>2
    <3>2. Y * NumCpu <= Y * i
      BY <1>0, <2>2, <3>1, TimesMonotonic
    <3>3. Y * i \in Int
      BY <1>0, <2>2
    <3> QED  BY <1>0, <1>2, <2>2, <3>2, <3>3
  <2> HIDE DEF i
  <2>5. Y * i \in Int /\ i \in Ids
    BY <1>0, <2>2, <2>4 DEF Ids
  <2>6. l \in Stripe(i)
    BY <1>0, <2>1, <2>2, <2>3, <2>5 DEF Stripe
  <2> QED  BY <2>5, <2>6 DEF Captured
<1> QED  BY <1>1, <1>2

\* The preads stay inside raw exactly on the displays that are large enough:
\* what the code takes for granted about the display is also needed.
THEOREM StripesFit == Captured \subseteq RawCells <=> Y * NumCpu <= RawLines
<1>1. Y * NumCpu \in Nat /\ RawLines \in Nat
  BY YIsNat, CaptureAssumption
<1>2. Captured = 0..(Y * NumCpu - 1)
  BY StripesCover
<1> DEFINE n == Y * NumCpu
<1> HIDE DEF n
<1>3. 0..(n - 1) \subseteq 0..(RawLines - 1) <=> n <= RawLines
  <2>1. n \in Nat
    BY <1>1 DEF n
  <2>2. n > 0 => n - 1 \in 0..(n - 1)
    BY <2>1
  <2> QED  BY <1>1, <2>1, <2>2
<1> QED  BY <1>2, <1>3 DEF n, RawCells

\* On such a display every line that a thread copies is one of raw's.
LEMMA StripesInside == \A i \in Ids : Stripe(i) \subseteq RawCells
<1>1. Y * NumCpu \in Nat /\ Y * NumCpu <= Lines /\ Lines \in Nat /\ RawLines \in Nat
  BY YIsNat, CaptureAssumption
<1>2. Y * NumCpu <= RawLines
  BY <1>1, DisplayAssumption
<1> QED  BY <1>2, StripesFit DEF Captured

-----------------------------------------------------------------------------
(* The invariant. *)

\* The screen's lines carry their own number.
LEMMA ScreenInPlace ==
  ASSUME screen \in Screens, NEW l \in RawCells PROVE screen[l] \in Shown(l)
  BY DEF Screens, Shown

\* A thread is at a line of its stripe and holds nothing or a value of it.
LEMMA ThreadFields ==
  ASSUME NEW t \in ThreadStates
  PROVE  /\ t = [id |-> t.id, line |-> t.line, buf |-> t.buf]
         /\ t.id \in Ids /\ t.line \in Stripe(t.id) /\ t.line \in RawCells
         /\ t.buf \in Shown(t.line) \cup {Nothing}
<1>1. PICK i \in Ids : t \in UNION {StatesAt(i, l) : l \in Stripe(i)}
  BY DEF ThreadStates
<1>2. PICK l \in Stripe(i) : t \in StatesAt(i, l)
  BY <1>1
<1>3. l \in RawCells
  BY <1>2, StripesInside
<1> QED  BY <1>2, <1>3 DEF StatesAt

\* Taking a thread out of the bag, or moving it, leaves a bag.
LEMMA BagSteps ==
  ASSUME live \in [ThreadStates -> Nat], NEW t \in ThreadStates, live[t] > 0
  PROVE  /\ Ended(t) \in [ThreadStates -> Nat]
         /\ \A u \in ThreadStates : Moved(t, u) \in [ThreadStates -> Nat]
<1>1. Ended(t) \in [ThreadStates -> Nat]
  BY DEF Ended
<1>2. ASSUME NEW u \in ThreadStates PROVE Moved(t, u) \in [ThreadStates -> Nat]
  BY <1>1 DEF Moved
<1> QED  BY <1>1, <1>2

\* A state with its parts in range is a thread state.
LEMMA StateOf ==
  ASSUME NEW i \in Ids, NEW l \in Stripe(i), NEW b \in Shown(l) \cup {Nothing}
  PROVE  [id |-> i, line |-> l, buf |-> b] \in ThreadStates
<1>1. [id |-> i, line |-> l, buf |-> b] \in StatesAt(i, l)
  BY DEF StatesAt
<1> QED  BY <1>1 DEF ThreadStates

Inv == TypeOK /\ LinesInPlace

LEMMA TypeStep == TypeOK /\ [Next]_vars => TypeOK'
<1> SUFFICES ASSUME TypeOK, [Next]_vars PROVE TypeOK'
  OBVIOUS
<1> USE CaptureAssumption DEF TypeOK
<1>1. ASSUME NEW l \in RawCells, NEW v \in Values, Draw(l, v) PROVE TypeOK'
  <2>1. PICK s \in [RawCells -> Values] : screen = [k \in RawCells |-> <<k, s[k]>>]
    BY DEF Screens
  <2>2. [s EXCEPT ![l] = v] \in [RawCells -> Values]
    OBVIOUS
  <2>3. screen' = [k \in RawCells |-> <<k, [s EXCEPT ![l] = v][k]>>]
    BY <1>1, <2>1 DEF Draw
  <2> QED  BY <1>1, <2>2, <2>3 DEF Draw, Screens
<1>2. CASE Watch
  BY <1>2 DEF Watch
<1>3. CASE StartFrame
  BY <1>3 DEF StartFrame, Started
<1>4. CASE CompareLine
  BY <1>4 DEF CompareLine, Advance
<1>5. ASSUME NEW t \in ThreadStates, ReadLine(t) PROVE TypeOK'
  <2>1. t.id \in Ids /\ t.line \in Stripe(t.id) /\ t.line \in RawCells
    BY ThreadFields
  <2>2. screen[t.line] \in Shown(t.line) \cup {Nothing}
    BY <2>1, ScreenInPlace
  <2>3. [id |-> t.id, line |-> t.line, buf |-> screen[t.line]] \in ThreadStates
    BY <2>1, <2>2, StateOf
  <2>4. live[t] > 0 /\ live' = Moved(t, [id |-> t.id, line |-> t.line,
                                         buf |-> screen[t.line]])
    BY <1>5 DEF ReadLine
  <2>5. live' \in [ThreadStates -> Nat]
    BY <2>3, <2>4, BagSteps
  <2> QED  BY <1>5, <2>5 DEF ReadLine
<1>6. ASSUME NEW t \in ThreadStates, WriteLine(t) PROVE TypeOK'
  <2>1. t.id \in Ids /\ live[t] > 0
    BY <1>6, ThreadFields DEF WriteLine
  <2> DEFINE u == [id |-> t.id, line |-> t.line + 1, buf |-> Nothing]
  <2>2. ASSUME t.line + 1 \in Stripe(t.id) PROVE live' \in [ThreadStates -> Nat]
    <3>1. u \in ThreadStates
      BY <2>1, <2>2, StateOf
    <3>2. live' = Moved(t, u)
      BY <1>6, <2>2 DEF WriteLine
    <3> HIDE DEF u
    <3> QED  BY <2>1, <3>1, <3>2, BagSteps DEF TypeOK
  <2>3. ASSUME t.line + 1 \notin Stripe(t.id) PROVE live' \in [ThreadStates -> Nat]
    <3>1. live' = Ended(t)
      BY <1>6, <2>3 DEF WriteLine
    <3> QED  BY <2>1, <3>1, BagSteps
  <2> HIDE DEF u
  <2>4. live' \in [ThreadStates -> Nat]
    BY <2>2, <2>3
  <2> QED  BY <1>6, <2>4 DEF WriteLine
<1>7. CASE UNCHANGED vars
  BY <1>7 DEF vars
<1> QED  BY <1>1, <1>2, <1>3, <1>4, <1>5, <1>6, <1>7 DEF Next, Main, Thread

LEMMA InvInit == Init => Inv
<1> SUFFICES ASSUME Init PROVE Inv
  OBVIOUS
<1> DEFINE none == [t \in ThreadStates |-> 0]
<1>1. \A f \in [ThreadStates -> Nat] : Started(f) \in [ThreadStates -> Nat]
  BY DEF Started
<1>2. none \in [ThreadStates -> Nat]
  OBVIOUS
<1>3. live = Started(Started(none))
  BY DEF Init
<1> HIDE DEF none
<1>4. live \in [ThreadStates -> Nat]
  BY <1>1, <1>2, <1>3
<1>5. screen \in Screens /\ watched \in BOOLEAN
  BY DEF Init
<1>6. compared \in 0..RawLines
  BY CaptureAssumption DEF Init
<1>7. LinesInPlace
  BY DEF Init, LinesInPlace
<1> QED  BY <1>4, <1>5, <1>6, <1>7 DEF Inv, TypeOK

LEMMA InvStep == Inv /\ [Next]_vars => Inv'
<1> SUFFICES ASSUME TypeOK, LinesInPlace, [Next]_vars PROVE LinesInPlace'
  BY TypeStep DEF Inv
<1> USE DEF LinesInPlace, TypeOK
<1>1. CASE CompareLine
  BY <1>1, CaptureAssumption DEF CompareLine, RawCells
<1>2. ASSUME NEW t \in ThreadStates, WriteLine(t) PROVE LinesInPlace'
  <2>1. t.line \in RawCells /\ t.buf \in Shown(t.line)
    BY <1>2, ThreadFields DEF WriteLine
  <2> QED  BY <1>2, <2>1 DEF WriteLine, Target
<1>3. CASE UNCHANGED <<raw, fbbuf>>
  BY <1>3
<1> QED
  BY <1>1, <1>2, <1>3 DEF Next, Main, Thread, Draw, Watch, StartFrame, ReadLine, vars

\* The capture keeps its types: the scan stays inside the buffers, and every
\* running thread is inside its stripe.
THEOREM TypeCorrect == Spec => []TypeOK
<1>1. Init => TypeOK
  BY InvInit DEF Inv
<1> QED  BY <1>1, TypeStep, PTL DEF Spec

\* No interleaving of main with the threads of any number of frames puts a
\* line of the screen anywhere but where the device showed it.
THEOREM LinesInPlaceSafe == Spec => []LinesInPlace
<1>1. Inv => LinesInPlace
  BY DEF Inv
<1> QED  BY <1>1, InvInit, InvStep, PTL DEF Spec
=============================================================================
