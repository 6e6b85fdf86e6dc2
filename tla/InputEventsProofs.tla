------------------------- MODULE InputEventsProofs --------------------------
(***************************************************************************)
(* Proofs of the safety properties of InputEvents, for every set of        *)
(* viewers and every width of the screen.                                  *)
(***************************************************************************)
EXTENDS InputEvents, TLAPS

-----------------------------------------------------------------------------
(* What the calls of suinput do to the device. *)

LEMMA PressDevice ==
  ASSUME NEW d \in Devices, NEW code \in Codes
  PROVE  /\ Press(code, d) \in Devices
         /\ Press(code, d).down = d.down \cup {code}
         /\ Press(code, d).unsynced \subseteq d.unsynced \cup {code}
         /\ Press(code, d).x = d.x
BY DEF Devices, Press, Presses, Modifiers

LEMMA ReleaseDevice ==
  ASSUME NEW d \in Devices, NEW code \in Codes
  PROVE  /\ Release(code, d) \in Devices
         /\ Release(code, d).down = d.down \ {code}
         /\ Release(code, d).unsynced \subseteq d.unsynced \cup {code}
         /\ Release(code, d).x = d.x
         /\ Release(code, d).last = d.last
BY DEF Devices, Release

LEMMA ReportDevice ==
  ASSUME NEW d \in Devices
  PROVE  /\ Report(d) \in Devices
         /\ Report(d).down = d.down
         /\ Report(d).unsynced = {}
         /\ Report(d).x = d.x
         /\ Report(d).last = d.last
BY DEF Devices, Report

LEMMA MoveDevice ==
  ASSUME NEW d \in Devices, NEW x \in Int
  PROVE  /\ MoveTo(x, d) \in Devices
         /\ MoveTo(x, d).down = d.down
         /\ MoveTo(x, d).unsynced = d.unsynced
         /\ MoveTo(x, d).x = x
BY DEF Devices, MoveTo

LEMMA PressAllDevice ==
  ASSUME NEW d \in Devices, NEW codes \in SUBSET Codes
  PROVE  /\ PressAll(codes, d) \in Devices
         /\ PressAll(codes, d).down = d.down \cup codes
         /\ PressAll(codes, d).unsynced \subseteq d.unsynced \cup codes
         /\ PressAll(codes, d).x = d.x
BY DEF Devices, PressAll

LEMMA ReleaseAllDevice ==
  ASSUME NEW d \in Devices, NEW codes \in SUBSET Codes
  PROVE  /\ ReleaseAll(codes, d) \in Devices
         /\ ReleaseAll(codes, d).down = d.down \ codes
         /\ ReleaseAll(codes, d).unsynced \subseteq d.unsynced \cup codes
         /\ ReleaseAll(codes, d).x = d.x
         /\ ReleaseAll(codes, d).last = d.last
BY DEF Devices, ReleaseAll

LEMMA ColumnType ==
  ASSUME NEW x \in Columns
  PROVE  Width \in Nat /\ Width > 0 /\ x \in Nat
  BY ColumnAssumption

LEMMA TransformedType ==
  ASSUME NEW x \in Columns
  PROVE  Transformed(x) \in Int
BY ColumnType DEF Transformed

\* What becomes of a column: on every screen of at most 4096 columns the
\* positions of exactly the columns from 1 to Width lie in the range that the
\* device declares.  Column 0, which is on the screen, falls out of it, and so
\* do the columns further out, which nothing keeps from coming.
THEOREM DeclaredRangeExact ==
  Width <= 4096 => \A x \in Columns : Transformed(x) \in AbsX <=> x \in 1..Width
<1> SUFFICES ASSUME Width <= 4096, NEW x \in Columns
             PROVE  Transformed(x) \in AbsX <=> x \in 1..Width
  OBVIOUS
<1> DEFINE q == (x * 4096) \div Width
<1>1. Width \in Nat /\ Width > 0 /\ x \in Nat
  BY ColumnType
<1>2. q \in Int /\ Width * q <= x * 4096 /\ x * 4096 < Width * (q + 1)
  BY <1>1
<1>3. Transformed(x) = q - 2048
  BY DEF Transformed
<1> HIDE DEF q
<1>4. Transformed(x) \in AbsX <=> 1 <= q /\ q <= 4096
  BY <1>2, <1>3 DEF AbsX
<1>5. CASE x = 0
  <2>1. q <= 0
    BY <1>1, <1>2, <1>5
  <2> QED  BY <1>2, <1>4, <1>5, <2>1
<1>6. CASE x \in 1..Width
  <2>1. q >= 1
    <3>1. SUFFICES ASSUME q <= 0 PROVE FALSE
      BY <1>2
    <3>2. Width * (q + 1) <= Width
      BY <1>1, <1>2, <3>1
    <3> QED  BY <1>1, <1>2, <1>6, <3>2
  <2>2. q <= 4096
    <3>1. SUFFICES ASSUME q >= 4097 PROVE FALSE
      BY <1>2
    <3>2. Width * q >= Width * 4097
      BY <1>1, <1>2, <3>1
    <3> QED  BY <1>1, <1>2, <1>6, <3>2
  <2> QED  BY <1>4, <1>6, <2>1, <2>2
<1>7. CASE x > Width
  <2>1. SUFFICES ASSUME q <= 4096 PROVE FALSE
    BY <1>1, <1>2, <1>4, <1>7
  <2>2. Width * (q + 1) <= Width * 4097
    BY <1>1, <1>2, <2>1
  <2>3. x * 4096 >= (Width + 1) * 4096
    BY <1>1, <1>7
  <2> QED  BY <1>1, <1>2, <2>2, <2>3
<1> QED  BY <1>1, <1>5, <1>6, <1>7

-----------------------------------------------------------------------------
(* What the handlers do to the device. *)

\* The left button leaves the touch as it is held, and no other key.
AfterLeft(left, x, d, e) ==
  /\ e \in Devices
  /\ e.down = (d.down \ {"BTN_TOUCH"}) \cup IF left THEN {"BTN_TOUCH"} ELSE {}
  /\ e.unsynced \subseteq d.unsynced
  /\ e.x \in {x, d.x}

LEMMA LeftButtonDevice ==
  ASSUME NEW d \in Devices, NEW left \in BOOLEAN, NEW x \in Int, leftClicked \in BOOLEAN,
         leftClicked <=> "BTN_TOUCH" \in d.down
  PROVE  AfterLeft(left, x, d, LeftButton(left, x, d))
<1> USE DEF AfterLeft
<1> DEFINE after == LeftButton(left, x, d)
           moved == MoveTo(x, d)
           pressed == Press("BTN_TOUCH", moved)
           released == Release("BTN_TOUCH", moved)
<1>1. /\ moved \in Devices /\ moved.down = d.down /\ moved.x = x
  BY MoveDevice
<1>2. "BTN_TOUCH" \in Codes
  BY DEF Codes, Buttons
<1> HIDE DEF moved
<1>3. /\ pressed \in Devices /\ pressed.down = d.down \cup {"BTN_TOUCH"} /\ pressed.x = x
  BY <1>1, <1>2, PressDevice
<1>4. /\ released \in Devices /\ released.down = d.down \ {"BTN_TOUCH"} /\ released.x = x
  BY <1>1, <1>2, ReleaseDevice
<1> HIDE DEF pressed, released
<1>5. CASE left /\ leftClicked
  <2>1. after = Report(moved)
    BY <1>5 DEF LeftButton, moved
  <2> QED  BY <1>1, <1>5, <2>1, ReportDevice
<1>6. CASE left /\ ~leftClicked
  <2>1. after = Report(pressed)
    BY <1>6 DEF LeftButton, moved, pressed
  <2> QED  BY <1>3, <1>6, <2>1, ReportDevice
<1>7. CASE ~left /\ leftClicked
  <2>1. after = Report(released)
    BY <1>7 DEF LeftButton, moved, released
  <2> QED  BY <1>4, <1>7, <2>1, ReportDevice
<1>8. CASE ~left /\ ~leftClicked
  <2>1. after = d
    BY <1>8 DEF LeftButton
  <2> QED  BY <1>8, <2>1
<1> QED  BY <1>5, <1>6, <1>7, <1>8

\* Another button leaves its own key as it is held.
AfterOther(pressed, code, d, e) ==
  /\ e \in Devices
  /\ e.down = (d.down \ {code}) \cup IF pressed THEN {code} ELSE {}
  /\ e.unsynced \subseteq d.unsynced \cup {code}
  /\ e.x = d.x

LEMMA OtherButtonDevice ==
  ASSUME NEW d \in Devices, NEW pressed \in BOOLEAN, NEW was \in BOOLEAN, NEW code \in Codes,
         code \in d.down => was
  PROVE  AfterOther(pressed, code, d, OtherButton(pressed, was, code, d))
<1> USE DEF AfterOther
<1>1. CASE pressed
  BY <1>1, PressDevice DEF OtherButton
<1>2. CASE ~pressed /\ was
  BY <1>2, ReleaseDevice DEF OtherButton
<1>3. CASE ~pressed /\ ~was
  BY <1>3 DEF OtherButton
<1> QED  BY <1>1, <1>2, <1>3

LEMMA ButtonCodes == "BTN_TOUCH" \in Codes /\ "KEY_BACK" \in Codes /\ "KEY_END" \in Codes
BY DEF Codes, Buttons

LEMMA KeysymCodes ==
  ASSUME NEW k \in Keysyms
  PROVE  /\ Scancode[k] \in Codes \ (Modifiers \cup {"BTN_TOUCH"})
         /\ Shifted(k) \in SUBSET Modifiers
BY DEF Keysyms, Scancode, Shifted, Codes, Buttons, Modifiers, PlainKeys

\* A tap leaves down what was down, at most, and the key that it pressed last
\* is the one asked for, with the modifiers asked for.
LEMMA TapDevice ==
  ASSUME NEW d \in Devices, NEW k \in Keysyms, d.down \subseteq Buttons,
         NEW after, after = Tap(k, d)
  PROVE  /\ after \in Devices
         /\ after.down = d.down \ {Scancode[k]}
         /\ after.unsynced \subseteq Modifiers
         /\ after.x = d.x
         /\ Scancode[k] \notin d.down =>
              after.last = [code |-> Scancode[k], mods |-> Shifted(k)]
<1> DEFINE code == Scancode[k]
           mods == Shifted(k)
           shifted == PressAll(mods, d)
           pressed == Press(code, shifted)
           reported == IF isHardKey(code) THEN Report(pressed) ELSE pressed
           released == Report(Release(code, reported))
<1>0. /\ code \in Codes \ (Modifiers \cup {"BTN_TOUCH"}) /\ mods \in SUBSET Modifiers
      /\ Modifiers \subseteq Codes
  BY KeysymCodes DEF Codes
<1>00. after = ReleaseAll(mods, released)
  BY DEF Tap
<1> HIDE DEF code, mods
<1>1. shifted \in Devices /\ shifted.down = d.down \cup mods /\ shifted.x = d.x
  BY <1>0, PressAllDevice
<1>2. /\ pressed \in Devices /\ pressed.down = d.down \cup mods \cup {code}
      /\ pressed.x = d.x
  <2> HIDE DEF shifted
  <2> QED  BY <1>0, <1>1, PressDevice
<1>3. code \notin d.down => pressed.last = [code |-> code, mods |-> mods]
  <2> SUFFICES ASSUME code \notin d.down PROVE pressed.last = [code |-> code, mods |-> mods]
    OBVIOUS
  <2>1. code \notin shifted.down /\ shifted.down \cap Modifiers = mods
    BY <1>0, <1>1 DEF Buttons, Modifiers
  <2> HIDE DEF shifted
  <2> QED  BY <1>0, <1>1, <2>1 DEF Press, Devices
<1> HIDE DEF pressed
<1>4. /\ reported \in Devices /\ reported.down = pressed.down /\ reported.x = d.x
      /\ reported.last = pressed.last
  BY <1>2, ReportDevice
<1> HIDE DEF reported
<1>5. /\ Release(code, reported) \in Devices
      /\ Release(code, reported).down = (d.down \cup mods) \ {code}
      /\ Release(code, reported).x = d.x /\ Release(code, reported).last = pressed.last
  BY <1>0, <1>2, <1>4, ReleaseDevice
<1>6. /\ released \in Devices /\ released.down = (d.down \cup mods) \ {code}
      /\ released.unsynced = {} /\ released.x = d.x /\ released.last = pressed.last
  BY <1>5, ReportDevice
<1> HIDE DEF released
<1>7. /\ after \in Devices /\ after.down = ((d.down \cup mods) \ {code}) \ mods
      /\ after.unsynced \subseteq mods /\ after.x = d.x /\ after.last = pressed.last
  BY <1>0, <1>00, <1>6, ReleaseAllDevice
<1>8. d.down \cap mods = {}
  BY <1>0 DEF Buttons, Modifiers
<1> QED  BY <1>0, <1>3, <1>7, <1>8 DEF code, mods

-----------------------------------------------------------------------------
(* Types. *)

Injects(c, left, right, middle, x) == PointerEvent(c, left, right, middle, x) /\ hasInput

HeldAfter(left, right, middle) ==
  (IF left THEN {"BTN_TOUCH"} ELSE {})
    \cup (IF right THEN {"KEY_BACK"} ELSE {})
    \cup (IF middle THEN {"KEY_END"} ELSE {})

\* The three buttons one after the other.
AfterButtons(left, right, middle) ==
  /\ device' \in Devices
  /\ device'.down = HeldAfter(left, right, middle)
  /\ device'.unsynced \subseteq device.unsynced \cup {"KEY_BACK", "KEY_END"}

LEMMA PointerEventDevice ==
  ASSUME TypeOK, TouchFollowsButton, ButtonsStayDown,
         NEW c \in Clients, NEW left \in BOOLEAN, NEW right \in BOOLEAN, NEW middle \in BOOLEAN,
         NEW x \in Columns, Injects(c, left, right, middle, x)
  PROVE  AfterButtons(left, right, middle)
<1> DEFINE d1 == LeftButton(left, Transformed(x), device)
           d2 == OtherButton(right, rightClicked, "KEY_BACK", d1)
           d3 == OtherButton(middle, middleClicked, "KEY_END", d2)
<1>0. device' = d3
  BY DEF Injects, PointerEvent
<1>1. /\ "BTN_TOUCH" \in Codes /\ "KEY_BACK" \in Codes /\ "KEY_END" \in Codes
      /\ Transformed(x) \in Int
  BY TransformedType, ButtonCodes
<1>2. device \in Devices /\ (leftClicked <=> "BTN_TOUCH" \in device.down) /\ device.down \subseteq Held
      /\ leftClicked \in BOOLEAN /\ rightClicked \in BOOLEAN /\ middleClicked \in BOOLEAN
  BY DEF TypeOK, TouchFollowsButton, ButtonsStayDown
<1>3. AfterLeft(left, Transformed(x), device, d1)
  BY <1>1, <1>2, LeftButtonDevice
<1>4. d1 \in Devices /\ ("KEY_BACK" \in d1.down => rightClicked)
  BY <1>2, <1>3 DEF Held, AfterLeft
<1> HIDE DEF d1
<1>5. AfterOther(right, "KEY_BACK", d1, d2)
  BY <1>1, <1>2, <1>4, OtherButtonDevice
<1>6. d2 \in Devices /\ ("KEY_END" \in d2.down => middleClicked)
  BY <1>2, <1>3, <1>5 DEF Held, AfterLeft, AfterOther
<1> HIDE DEF d2
<1>7. AfterOther(middle, "KEY_END", d2, d3)
  BY <1>1, <1>2, <1>6, OtherButtonDevice
<1> HIDE DEF d3
<1>8. device.down \subseteq {"BTN_TOUCH", "KEY_BACK", "KEY_END"}
  BY <1>2 DEF Held
<1>9. device'.down = HeldAfter(left, right, middle)
  BY <1>0, <1>3, <1>5, <1>7, <1>8 DEF AfterLeft, AfterOther, HeldAfter
<1>10. device' \in Devices
  BY <1>0, <1>7, Zenon DEF AfterOther
<1>11. device'.unsynced \subseteq device.unsynced \cup {"KEY_BACK", "KEY_END"}
  <2>1. /\ d1.unsynced \subseteq device.unsynced
        /\ d2.unsynced \subseteq d1.unsynced \cup {"KEY_BACK"}
        /\ device'.unsynced \subseteq d2.unsynced \cup {"KEY_END"}
    BY <1>0, <1>3, <1>5, <1>7, Zenon DEF AfterLeft, AfterOther
  <2> QED  BY <2>1
<1> QED  BY <1>9, <1>10, <1>11, Zenon DEF AfterButtons

\* The steps that do not reach the device.
Untouched == UNCHANGED <<clicked, hasInput, device, typed, tapped>>

LEMMA StepKinds ==
  ASSUME [Next]_vars
  PROVE  \/ Untouched
         \/ \E c \in Clients : \E left, right, middle \in BOOLEAN : \E x \in Columns :
              Injects(c, left, right, middle, x)
         \/ \E c \in Clients : \E k \in Keysyms : KeyEvent(c, k)
<1>1. CASE UNCHANGED vars
  BY <1>1 DEF Untouched, vars
<1>2. CASE Next
  <2>1. PICK c \in Clients :
          \/ NewClient(c) \/ CloseClient(c) \/ ClientConnectionGone(c)
          \/ \E left, right, middle \in BOOLEAN, x \in Columns :
               PointerEvent(c, left, right, middle, x)
          \/ \E k \in Keysyms : KeyEvent(c, k)
    BY <1>2 DEF Next
  <2>2. CASE NewClient(c) \/ CloseClient(c) \/ ClientConnectionGone(c)
    BY <2>2 DEF NewClient, CloseClient, ClientConnectionGone, Untouched, clicked
  <2>3. ASSUME NEW left \in BOOLEAN, NEW right \in BOOLEAN, NEW middle \in BOOLEAN,
               NEW x \in Columns, PointerEvent(c, left, right, middle, x)
        PROVE  Untouched \/ Injects(c, left, right, middle, x)
    BY <2>3 DEF PointerEvent, Injects, Untouched, clicked
  <2> QED  BY <2>1, <2>2, <2>3
<1> QED  BY <1>1, <1>2

\* The three properties of the device are inductive together: what ptrEvent
\* remembers bounds what is down, so each button finds its key as it left it.
DeviceInv == TouchFollowsButton /\ ButtonsStayDown /\ TypedAsAsked

LEMMA DeviceInit == Init => DeviceInv
BY DEF Init, DeviceInv, TouchFollowsButton, ButtonsStayDown, TypedAsAsked,
       Idle, Held

LEMMA DeviceStep == TypeOK /\ DeviceInv /\ [Next]_vars => DeviceInv' /\ device' \in Devices
<1> SUFFICES ASSUME TypeOK, DeviceInv, [Next]_vars PROVE DeviceInv' /\ device' \in Devices
  OBVIOUS
<1>1. CASE Untouched
  BY <1>1 DEF Untouched, clicked, DeviceInv, TouchFollowsButton, ButtonsStayDown,
              TypedAsAsked, Held, TypeOK
<1>2. ASSUME NEW c \in Clients, NEW left \in BOOLEAN, NEW right \in BOOLEAN,
             NEW middle \in BOOLEAN, NEW x \in Columns, Injects(c, left, right, middle, x)
      PROVE  DeviceInv' /\ device' \in Devices
  <2>1. AfterButtons(left, right, middle)
    BY <1>2, PointerEventDevice DEF DeviceInv
  <2>2. /\ leftClicked' = left /\ rightClicked' = right /\ middleClicked' = middle
        /\ typed' = "none" /\ tapped' = {}
    BY <1>2 DEF Injects, PointerEvent
  <2>3. TouchFollowsButton'
    BY <2>1, <2>2 DEF DeviceInv, TouchFollowsButton, AfterButtons, HeldAfter
  <2>4. ButtonsStayDown'
    BY <2>1, <2>2 DEF ButtonsStayDown, Held, AfterButtons, HeldAfter
  <2>5. TypedAsAsked'
    BY <2>2, Zenon DEF TypedAsAsked
  <2> QED  BY <2>1, <2>3, <2>4, <2>5 DEF DeviceInv, AfterButtons
<1>3. ASSUME NEW c \in Clients, NEW k \in Keysyms, KeyEvent(c, k)
      PROVE  DeviceInv' /\ device' \in Devices
  <2>0. device \in Devices /\ device.down \subseteq Held /\ Held \subseteq Buttons
    BY DEF DeviceInv, ButtonsStayDown, TypeOK, Held, Buttons
  <2>1. /\ device' = Tap(k, device) /\ Held' = Held /\ leftClicked' = leftClicked
        /\ typed' = k /\ tapped' = tapped \cup {Scancode[k]}
    BY <1>3 DEF KeyEvent, Held, clicked
  <2>2. /\ device' \in Devices
        /\ device'.down = device.down \ {Scancode[k]}
        /\ device'.unsynced \subseteq Modifiers
        /\ Scancode[k] \notin device.down =>
             device'.last = [code |-> Scancode[k], mods |-> Shifted(k)]
    BY <2>0, <2>1, TapDevice
  <2>3. TouchFollowsButton'
    BY <2>1, <2>2, KeysymCodes DEF DeviceInv, TouchFollowsButton, Modifiers
  <2>4. ButtonsStayDown'
    BY <2>1, <2>2 DEF DeviceInv, ButtonsStayDown
  <2>5. TypedAsAsked'
    BY <2>0, <2>1, <2>2 DEF TypedAsAsked
  <2> QED  BY <2>2, <2>3, <2>4, <2>5 DEF DeviceInv
<1> QED  BY <1>1, <1>2, <1>3, StepKinds

LEMMA TypeInit == Init => TypeOK
<1>1. Idle \in Devices
  BY DEF Idle, Devices, Presses
<1> QED  BY <1>1 DEF Init, TypeOK

LEMMA TypeStep == TypeOK /\ DeviceInv /\ [Next]_vars => TypeOK'
<1> SUFFICES ASSUME TypeOK, DeviceInv, [Next]_vars PROVE TypeOK'
  OBVIOUS
<1>0. device' \in Devices
  BY DeviceStep
<1>1. ASSUME NEW c \in Clients, NewClient(c) PROVE TypeOK'
  BY <1>0, <1>1 DEF NewClient, TypeOK, clicked
<1>2. ASSUME NEW c \in Clients, CloseClient(c) PROVE TypeOK'
  BY <1>0, <1>2 DEF CloseClient, TypeOK, clicked
<1>3. ASSUME NEW c \in Clients, ClientConnectionGone(c) PROVE TypeOK'
  BY <1>0, <1>3 DEF ClientConnectionGone, PointerLeft, TypeOK, clicked
<1>4. ASSUME NEW c \in Clients, NEW left \in BOOLEAN, NEW right \in BOOLEAN,
             NEW middle \in BOOLEAN, NEW x \in Columns, PointerEvent(c, left, right, middle, x)
      PROVE  TypeOK'
  <2>1. UNCHANGED <<clients, open, hasInput>> /\ pointerClient' \in clients \cup {NoClient}
    BY <1>4 DEF PointerEvent, connVars, TypeOK
  <2>2. leftClicked' \in BOOLEAN /\ rightClicked' \in BOOLEAN /\ middleClicked' \in BOOLEAN
    BY <1>4 DEF PointerEvent, TypeOK, clicked
  <2>3. /\ gesture' \subseteq Clients \cup {Departed}
        /\ typed' \in Keysyms \cup {"none"} /\ tapped' \subseteq Codes
    BY <1>4 DEF PointerEvent, TypeOK
  <2> QED  BY <1>0, <2>1, <2>2, <2>3 DEF TypeOK
<1>5. ASSUME NEW c \in Clients, NEW k \in Keysyms, KeyEvent(c, k) PROVE TypeOK'
  BY <1>0, <1>5, KeysymCodes DEF KeyEvent, TypeOK, connVars, clicked
<1>6. CASE UNCHANGED vars
  BY <1>6 DEF vars, connVars, clicked, TypeOK
<1> QED  BY <1>1, <1>2, <1>3, <1>4, <1>5, <1>6 DEF Next

LEMMA BothInvariant == Spec => [](TypeOK /\ DeviceInv)
<1>1. Init => TypeOK /\ DeviceInv
  BY TypeInit, DeviceInit
<1>2. TypeOK /\ DeviceInv /\ [Next]_vars => (TypeOK /\ DeviceInv)'
  BY TypeStep, DeviceStep
<1> QED  BY <1>1, <1>2, PTL DEF Spec

\* The records, the pointer's owner and the device keep their types.
THEOREM TypeCorrect == Spec => []TypeOK
BY BothInvariant, PTL

\* The statics of ptrEvent and the kernel's key state agree on the touch.
THEOREM TouchSafe == Spec => []TouchFollowsButton
<1>1. DeviceInv => TouchFollowsButton
  BY DEF DeviceInv
<1> QED  BY <1>1, BothInvariant, PTL

\* The keys that are down are those of the mouse buttons that are held, but
\* for those that a keysym of the same code has tapped since.
THEOREM ButtonsSafe == Spec => []ButtonsStayDown
<1>1. DeviceInv => ButtonsStayDown
  BY DEF DeviceInv
<1> QED  BY <1>1, BothInvariant, PTL

\* A keysym reaches the device with its own modifiers and no others.
THEOREM TypedSafe == Spec => []TypedAsAsked
<1>1. DeviceInv => TypedAsAsked
  BY DEF DeviceInv
<1> QED  BY <1>1, BothInvariant, PTL

-----------------------------------------------------------------------------
(* Whose gesture it is. *)

\* Without a device no gesture begins: the pointer changes hands unseen.
GestureInv == GestureBelongsToOwner /\ (~hasInput => gesture = {})

LEMMA GestureStep == TypeOK /\ GestureInv /\ [Next]_vars => GestureInv'
<1> SUFFICES ASSUME TypeOK, GestureInv, [Next]_vars PROVE GestureInv'
  OBVIOUS
<1> USE DEF GestureInv, GestureBelongsToOwner
<1>1. ASSUME NEW c \in Clients, NewClient(c) \/ CloseClient(c) PROVE GestureInv'
  BY <1>1 DEF NewClient, CloseClient
<1>2. ASSUME NEW c \in Clients, ClientConnectionGone(c) PROVE GestureInv'
  BY <1>2 DEF ClientConnectionGone, PointerLeft
<1>3. ASSUME NEW c \in Clients, NEW left \in BOOLEAN, NEW right \in BOOLEAN,
             NEW middle \in BOOLEAN, NEW x \in Columns, PointerEvent(c, left, right, middle, x)
      PROVE  GestureInv'
  <2>1. gesture \ {Departed} \subseteq {c}
    BY <1>3, ClientAssumption DEF PointerEvent, OwnsPointer, TypeOK
  <2>2. CASE ~hasInput
    BY <1>3, <2>2 DEF PointerEvent
  <2>3. CASE hasInput /\ left
    BY <1>3, <2>1, <2>3 DEF PointerEvent
  <2>4. CASE hasInput /\ ~left
    BY <1>3, <2>4 DEF PointerEvent
  <2> QED  BY <2>2, <2>3, <2>4
<1>4. ASSUME NEW c \in Clients, NEW k \in Keysyms, KeyEvent(c, k) PROVE GestureInv'
  BY <1>4 DEF KeyEvent
<1>5. CASE UNCHANGED vars
  BY <1>5 DEF vars
<1> QED  BY <1>1, <1>2, <1>3, <1>4, <1>5 DEF Next

\* However connections end and buttons are pressed, no two viewers that are
\* both there have moved one touch.
THEOREM GestureSafe == Spec => []GestureBelongsToOwner
<1>1. Init => GestureInv
  BY DEF Init, GestureInv, GestureBelongsToOwner
<1>2. GestureInv => GestureBelongsToOwner
  BY DEF GestureInv
<1> QED  BY <1>1, <1>2, GestureStep, TypeCorrect, PTL DEF Spec
=============================================================================
