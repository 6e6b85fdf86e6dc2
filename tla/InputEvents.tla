---------------------------- MODULE InputEvents ----------------------------
(***************************************************************************)
(* The viewers' pointer and key events: how LibVNCServer gives the pointer *)
(* to one client at a time (rfbserver.c), how ptrEvent and keyEvent        *)
(* (inputMethods/input.c) turn events into writes to a uinput device, and  *)
(* what the kernel's input core makes of these writes.                     *)
(*                                                                         *)
(* The static variables of ptrEvent belong to the daemon, while the        *)
(* pointer belongs to a connection that can end at any time, in two steps: *)
(* its socket is closed first and its record is freed in a later turn.     *)
(***************************************************************************)
EXTENDS Integers, FiniteSets

CONSTANTS
  Clients,
  NoClient,     \* NULL in pointerClient
  Departed,     \* history: a client whose record has been freed
  Width,        \* cl->screen->width
  Columns       \* the x coordinates that viewers send, inside the screen or not

ASSUME ClientAssumption == {NoClient, Departed} \cap Clients = {}

\* A CARD16 of the protocol, which nothing compares with the width.
ASSUME ColumnAssumption ==
  Width \in Nat \ {0} /\ Columns \subseteq Nat /\ \A x \in Columns : x < 65536

-----------------------------------------------------------------------------
(* Keys. *)

Buttons == {"BTN_TOUCH", "KEY_BACK", "KEY_END"}
Modifiers == {"LEFTSHIFT", "LEFTALT"}
PlainKeys == {"KEY_A", "KEY_VOLUMEDOWN"}
Codes == Buttons \cup Modifiers \cup PlainKeys

\* keysym2scancode, one keysym of each kind: the code, with the modifiers
\* that sh and alt ask for.  End and Esc share the codes of mouse buttons.
Keysyms == {"a", "A", "a_acute", "A_acute", "F1", "Esc", "End"}

Scancode ==
  [k \in Keysyms |->
     CASE k \in {"a", "A", "a_acute", "A_acute"} -> "KEY_A"
       [] k = "F1"  -> "KEY_VOLUMEDOWN"
       [] k = "Esc" -> "KEY_BACK"
       [] k = "End" -> "KEY_END"]

Shifted(k) ==
  (IF k \in {"A", "A_acute"} THEN {"LEFTSHIFT"} ELSE {})
    \cup (IF k \in {"a_acute", "A_acute"} THEN {"LEFTALT"} ELSE {})

isHardKey(code) == code = "KEY_VOLUMEDOWN"

-----------------------------------------------------------------------------
(* The uinput device (external).  The input core passes on a key event only *)
(* if it changes the key's state, and readers handle what they were sent    *)
(* when a SYN_REPORT follows.                                               *)

NoPress == [code |-> "none", mods |-> {}]

Presses == [code : Codes, mods : SUBSET Modifiers] \cup {NoPress}

Devices == [down : SUBSET Codes, unsynced : SUBSET Codes,
            last : Presses, x : Int]

Idle == [down |-> {}, unsynced |-> {}, last |-> NoPress, x |-> 0]

Press(code, d) ==
  IF code \in d.down THEN d
  ELSE [d EXCEPT !.down = @ \cup {code},
                 !.unsynced = @ \cup {code},
                 !.last = IF code \in Modifiers THEN @
                          ELSE [code |-> code, mods |-> d.down \cap Modifiers]]

Release(code, d) ==
  IF code \notin d.down THEN d
  ELSE [d EXCEPT !.down = @ \ {code}, !.unsynced = @ \cup {code}]

Report(d) == [d EXCEPT !.unsynced = {}]

MoveTo(x, d) == [d EXCEPT !.x = x]

\* suinput_press or suinput_release for each of the modifiers asked for.
PressAll(codes, d) ==
  [d EXCEPT !.down = @ \cup codes, !.unsynced = @ \cup (codes \ d.down)]

ReleaseAll(codes, d) ==
  [d EXCEPT !.down = @ \ codes, !.unsynced = @ \cup (codes \cap d.down)]

-----------------------------------------------------------------------------
VARIABLES
  clients,         \* the records linked from clientHead
  open,            \* those whose sock is not -1
  pointerClient,   \* screen->pointerClient
  leftClicked, rightClicked, middleClicked,   \* the statics of ptrEvent
  hasInput,        \* inputfd is not -1
  device,          \* the uinput device
  gesture,         \* history: who has moved or pressed since the touch began
  typed,           \* history: the keysym that keyEvent injected last, or
                   \* "none" when a pointer event came after it
  tapped           \* history: the codes tapped since the last pointer event

connVars == <<clients, open>>
clicked == <<leftClicked, rightClicked, middleClicked>>
vars == <<connVars, pointerClient, clicked, hasInput, device, gesture, typed, tapped>>

TypeOK ==
  /\ clients \subseteq Clients
  /\ open \subseteq clients
  /\ pointerClient \in clients \cup {NoClient}
  /\ leftClicked \in BOOLEAN /\ rightClicked \in BOOLEAN
  /\ middleClicked \in BOOLEAN
  /\ hasInput \in BOOLEAN
  /\ device \in Devices
  /\ gesture \subseteq Clients \cup {Departed}
  /\ typed \in Keysyms \cup {"none"}
  /\ tapped \subseteq Codes

\* initInput: suinput_open finds no device node, or creates the device.
Init ==
  /\ clients = {} /\ open = {}
  /\ pointerClient = NoClient
  /\ leftClicked = FALSE /\ rightClicked = FALSE /\ middleClicked = FALSE
  /\ hasInput \in BOOLEAN
  /\ device = Idle
  /\ gesture = {}
  /\ typed = "none" /\ tapped = {}

-----------------------------------------------------------------------------
(* Connections, as in RfbServer: a record outlives its socket. *)

NewClient(c) ==
  /\ c \notin clients
  /\ clients' = clients \cup {c}
  /\ open' = open \cup {c}
  /\ UNCHANGED <<pointerClient, clicked, hasInput, device, gesture, typed, tapped>>

CloseClient(c) ==
  /\ c \in open
  /\ open' = open \ {c}
  /\ UNCHANGED <<clients, pointerClient, clicked, hasInput, device, gesture,
                 typed, tapped>>

\* Defect: the record goes and the pointer is not given up.
PointerKept(c) == pointerClient

PointerLeft(c) == IF pointerClient = c THEN NoClient ELSE pointerClient

\* rfbClientConnectionGone, in the client's turn.
ClientConnectionGone(c) ==
  /\ c \in clients \ open
  /\ clients' = clients \ {c}
  /\ pointerClient' = PointerLeft(c)
  /\ gesture' = IF c \in gesture THEN (gesture \ {c}) \cup {Departed} ELSE gesture
  /\ UNCHANGED <<open, clicked, hasInput, device, typed, tapped>>

-----------------------------------------------------------------------------
(* Pointer events. *)

\* transformTouchCoordinates, with rotation fixed at 0: the integer quotient
\* less 2048.0, which is exact.
Transformed(x) == (x * 4096) \div Width - 2048

\* The range of positions that suinput_open declares to the kernel, which does
\* not hold the events to it.
AbsX == -2047..2048

\* Defect: a release is not followed by a report.
LeftButtonUnreported(left, x, d) ==
  IF left /\ leftClicked THEN Report(MoveTo(x, d))
  ELSE IF left THEN Report(Press("BTN_TOUCH", MoveTo(x, d)))
  ELSE IF leftClicked THEN Release("BTN_TOUCH", MoveTo(x, d))
  ELSE d

\* ptrEvent's three branches on the left button ...
LeftButton(left, x, d) ==
  IF left /\ leftClicked THEN Report(MoveTo(x, d))
  ELSE IF left THEN Report(Press("BTN_TOUCH", MoveTo(x, d)))
  ELSE IF leftClicked THEN Report(Release("BTN_TOUCH", MoveTo(x, d)))
  ELSE d

\* Defect: a button that is held already is not pressed again.
OtherButtonOnce(pressed, wasClicked, code, d) ==
  IF pressed /\ ~wasClicked THEN Press(code, d)
  ELSE IF ~pressed /\ wasClicked THEN Release(code, d)
  ELSE d

\* ... and those on the others, whose presses are not followed by a report.
OtherButton(pressed, wasClicked, code, d) ==
  IF pressed THEN Press(code, d)
  ELSE IF wasClicked THEN Release(code, d)
  ELSE d

\* Defect: only a viewer that is connected keeps the others out.
OwnsPointerWhileOpen(c) == pointerClient \notin open \ {c}

\* rfbPointerEvent: the events of all clients but the owner are dropped while
\* a button of the owner is held.
OwnsPointer(c) == pointerClient \in {NoClient, c}

PointerEvent(c, left, right, middle, x) ==
  /\ c \in open
  /\ OwnsPointer(c)
  /\ pointerClient' = IF left \/ right \/ middle THEN c ELSE NoClient
  /\ IF ~hasInput
     THEN UNCHANGED <<clicked, device, gesture, typed, tapped>>
     ELSE /\ leftClicked' = left
          /\ rightClicked' = right
          /\ middleClicked' = middle
          /\ device' = OtherButton(middle, middleClicked, "KEY_END",
                         OtherButton(right, rightClicked, "KEY_BACK",
                           LeftButton(left, Transformed(x), device)))
          /\ gesture' = IF ~left THEN {}
                        ELSE IF leftClicked THEN gesture \cup {c} ELSE {c}
          /\ typed' = "none" /\ tapped' = {}
  /\ UNCHANGED <<connVars, hasInput>>

-----------------------------------------------------------------------------
(* Key events. *)

\* Defect: the modifiers are not released.
TapAndHold(k, d) ==
  LET code == Scancode[k] IN
  Report(Release(code, Press(code, PressAll(Shifted(k), d))))

\* Defect: the modifiers go down after the key.
TapThenShift(k, d) ==
  LET code == Scancode[k] IN
  ReleaseAll(Shifted(k), Report(Release(code, PressAll(Shifted(k), Press(code, d)))))

\* keyEvent for a key that goes down: a whole tap.  A hard key gets a report
\* of its press; the modifiers are released after the last report.
Tap(k, d) ==
  LET code == Scancode[k]
      pressed == Press(code, PressAll(Shifted(k), d))
      reported == IF isHardKey(code) THEN Report(pressed) ELSE pressed
  IN  ReleaseAll(Shifted(k), Report(Release(code, reported)))

\* A key that goes up changes nothing.  (F11 and F12 are in RfbServer.)
KeyEvent(c, k) ==
  /\ c \in open
  /\ hasInput
  /\ device' = Tap(k, device)
  /\ typed' = k /\ tapped' = tapped \cup {Scancode[k]}
  /\ UNCHANGED <<connVars, pointerClient, clicked, hasInput, gesture>>

-----------------------------------------------------------------------------
Next ==
  \E c \in Clients :
    \/ NewClient(c)
    \/ CloseClient(c)
    \/ ClientConnectionGone(c)
    \/ \E left, right, middle \in BOOLEAN, x \in Columns :
         PointerEvent(c, left, right, middle, x)
    \/ \E k \in Keysyms : KeyEvent(c, k)

\* The client loop reaches every closed record (ClosedIsForgotten of
\* RfbServer).
Spec == Init /\ [][Next]_vars
             /\ \A c \in Clients : WF_vars(ClientConnectionGone(c))

-----------------------------------------------------------------------------
(* Properties. *)

\* Since a touch began, no connection but the pointer's present owner has
\* moved it, those that are gone excepted: the events of two viewers who are
\* both there are never mixed into one gesture, in particular not between the
\* two steps of a disconnection.
GestureBelongsToOwner == gesture \ {Departed} \subseteq {pointerClient}

\* rfb.h calls pointerClient a "Mutex" for pointer events: one gesture is
\* made by one viewer.
GestureHasOneViewer == Cardinality(gesture) <= 1

\* What ptrEvent remembers of the touch is what the kernel holds, and every
\* change of the touch has been reported to its readers.
TouchFollowsButton ==
  /\ leftClicked <=> "BTN_TOUCH" \in device.down
  /\ "BTN_TOUCH" \notin device.unsynced

\* The codes of the mouse buttons that are held.
Held == (IF leftClicked THEN {"BTN_TOUCH"} ELSE {})
          \cup (IF rightClicked THEN {"KEY_BACK"} ELSE {})
          \cup (IF middleClicked THEN {"KEY_END"} ELSE {})

\* In whatever order keys and buttons are used, no key or modifier outlives
\* the event that pressed it, and no key that shares its code with a button
\* lets go of it for longer than until the next pointer event: the statics of
\* ptrEvent tell what is down, but for the codes tapped since.
ButtonsStayDown == device.down = Held \ tapped

\* A typed key is pressed with exactly the modifiers its keysym asks for,
\* unless a mouse button holds the same code down already.
TypedAsAsked ==
  (typed # "none" /\ Scancode[typed] \notin Held) =>
    device.last = [code |-> Scancode[typed], mods |-> Shifted(typed)]

\* The pointer does not stay with a connection that has ended: the other
\* viewers, whose events are dropped meanwhile, get it back.
PointerGivenBack ==
  pointerClient \notin open \cup {NoClient} ~> pointerClient \in open \cup {NoClient}
=============================================================================
