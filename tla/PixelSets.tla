----------------------------- MODULE PixelSets ------------------------------
(***************************************************************************)
(* What the update pipeline uses a client's two regions for, with regions  *)
(* as the sets of pixels they stand for: RfbServer's view of them, without *)
(* the lists of spans that rfbregion.c keeps.                              *)
(***************************************************************************)
EXTENDS Integers

CONSTANTS Pixels, Rects

VARIABLES
  modified,   \* what is to be sent
  requested,  \* what was asked for
  update,     \* what is being sent
  marking, requesting,  \* the rectangle that is being added to either
  flat        \* a rectangle without pixels has been asked for

vars == <<modified, requested, update, marking, requesting, flat>>

Init ==
  /\ modified = Pixels /\ requested = {} /\ update = {}
  /\ marking = {} /\ requesting = {} /\ flat = FALSE

Ready == update = {} /\ marking = {} /\ requesting = {}

BeginMark ==
  /\ Ready
  /\ marking' \in Rects
  /\ UNCHANGED <<modified, requested, update, requesting, flat>>

Mark ==
  /\ marking # {}
  /\ modified' = modified \cup marking /\ marking' = {}
  /\ UNCHANGED <<requested, update, requesting, flat>>

BeginRequest ==
  /\ Ready
  /\ requesting' \in Rects
  /\ flat' = (flat \/ requesting' = {})
  /\ UNCHANGED <<modified, requested, update, marking>>

\* What is asked for may be marked too.
Request ==
  /\ requesting # {}
  /\ requested' = requested \cup requesting /\ requesting' = {}
  /\ marking' \in {{}, requesting}
  /\ UNCHANGED <<modified, update, flat>>

\* The smallest rectangle around a set of pixels.
BBox(s) ==
  {p \in Pixels :
     /\ \E q \in s : q[1] <= p[1]
     /\ \E q \in s : q[1] >= p[1]
     /\ \E q \in s : q[2] <= p[2]
     /\ \E q \in s : q[2] >= p[2]}

\* All that was modified and asked for, perhaps with what lies between.  An
\* empty rectangle that is asked for may be sent too: then the request is used
\* up also if nothing is due, and the rectangle around all is larger.
Send ==
  LET due == modified \cap requested IN
  /\ Ready /\ (due # {} \/ flat)
  /\ \/ update' \in {due, BBox(due)}
     \/ flat /\ update' \in {r \in Rects : due \subseteq r}
  /\ modified' = modified \ due
  /\ requested' = {}
  /\ UNCHANGED <<marking, requesting, flat>>

Sent ==
  /\ update # {}
  /\ update' = {}
  /\ UNCHANGED <<modified, requested, marking, requesting, flat>>

Next == BeginMark \/ Mark \/ BeginRequest \/ Request \/ Send \/ Sent

Spec == Init /\ [][Next]_vars
=============================================================================
