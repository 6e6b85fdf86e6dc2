-------------------------- MODULE RfbServerProofs --------------------------
(***************************************************************************)
(* Proofs about RfbServer, for every set of clients, every screen size and *)
(* every pixel conversion.  They need only Init, Next and the definitions  *)
(* of the actions; what a scan marks matters only through RegionMarked.    *)
(***************************************************************************)
EXTENDS RfbServer, TLAPS

-----------------------------------------------------------------------------
(* Facts about regions. *)

\* The pair that stands for an inverted rectangle is not a pixel.
LEMMA InvertedNotPixel == Inverted \notin Pixels
  BY DEF Inverted, Pixels

\* rfbMarkRectAsModified yields pixels of the screen, an inverted rectangle
\* or nothing, whatever the bounding box of the scan holds.
LEMMA RegionMarked == ASSUME NEW s PROVE Dirty(s) \in Regions
<1> DEFINE b == Scan(s)
           x1 == b.min_i
           y1 == b.min_j
           x2 == (IF b.max_i < 0 THEN b.min_i ELSE b.max_i) + 2
           y2 == (IF b.max_j < 0 THEN b.min_j ELSE b.max_j) + 1
<1>1. MarkRect(x1, y1, x2, y2) \in Regions
  <2> HIDE DEF x1, y1, x2, y2
  <2> QED  BY DEF MarkRect, Regions
<1>2. Dirty(s) \in {{}, MarkRect(x1, y1, x2, y2)}
  BY DEF Dirty, Marked
<1>3. {} \in Regions
  BY DEF Regions
<1> QED  BY <1>1, <1>2, <1>3

\* A bounding box lies on the screen.
LEMMA BBoxOnScreen == ASSUME NEW s PROVE BBox(s) \subseteq Pixels
  BY DEF BBox

\* vncbuf is a picture.
LEMMA VncbufIsPicture == TypeOK => vncbuf \in [Pixels -> Int]
  BY WordAssumption DEF TypeOK, vncbuf

\* So is what an update shows of it, the cursor included.
LEMMA DrawnIsPicture ==
  ASSUME TypeOK, NEW c PROVE Drawn(c) \in [Pixels -> Int]
  BY VncbufIsPicture, CursorAssumption DEF Drawn

-----------------------------------------------------------------------------
(* Type correctness. *)

LEMMA TypeInit == Init => TypeOK
  BY WordAssumption DEF Init, TypeOK, Phases, Calls, States, Regions, Pictures, Blank

LEMMA TypeStep == TypeOK /\ [Next]_vars => TypeOK'
<1> SUFFICES ASSUME TypeOK, [Next]_vars PROVE TypeOK'
  OBVIOUS
<1> USE DEF TypeOK
<1>1. ASSUME NEW c \in Clients, NewClient(c) PROVE TypeOK'
  BY <1>1 DEF NewClient, Phases, Calls, States, Regions, Pictures, Blank
<1>2. ASSUME NEW c \in Clients, Handshake(c) PROVE TypeOK'
  <2>1. AfterHandshake(state[c]) \subseteq States
    BY DEF AfterHandshake
  <2> QED  BY <1>2, <2>1 DEF Handshake, regionVars, encodingVars
<1>3. ASSUME NEW c \in Clients, NEW rect \in RequestRects, NEW i \in BOOLEAN,
             UpdateRequest(c, rect, i)
      PROVE  TypeOK'
  <2>1. rect \subseteq Pixels
    BY RequestAssumption
  <2> QED  BY <1>3, <2>1 DEF UpdateRequest, Dispatched, connVars, encodingVars, Regions
<1>10. ASSUME NEW c \in Clients, NEW list \in EncodingLists, SetEncodings(c, list)
       PROVE  TypeOK'
  <2>1. list.shape \in BOOLEAN
    BY EncodingAssumption
  <2>2. AfterEncodings(modified[c], list) \in Regions
    BY CursorAssumption DEF AfterEncodings, Regions
  <2> QED  BY <1>10, <2>1, <2>2 DEF SetEncodings, Dispatched, connVars, News
<1>4. ASSUME NEW c \in Clients, CloseClient(c) \/ DisconnectKey(c) \/ ExitKey(c)
      PROVE  TypeOK'
  BY <1>4 DEF Dispatched, CloseClient, DisconnectKey, ExitKey, connVars, regionVars, encodingVars, Phases
<1>5. CASE EventsDone
  BY <1>5 DEF EventsDone, Visited, connVars, regionVars, encodingVars, Phases
<1>6. ASSUME NEW c \in Clients, UpdateClient(c) PROVE TypeOK'
  <2>1. CASE Turn(c) /\ Forget(c)
    BY <2>1 DEF Turn, Forget, States, Regions, Pictures, Blank
  <2>2. CASE NothingPending(c) \/ StartDeferring(c) \/ KeepDeferring(c) \/ NothingToSend(c)
    BY <2>2 DEF NothingPending, StartDeferring, KeepDeferring, NothingToSend,
                Turn, connVars, regionVars, encodingVars
  <2>3. CASE SendUpdate(c)
    <3>1. Drawn(c) \in [Pixels -> Int]
      BY DrawnIsPicture
    <3>2. PICK sent : /\ view' = [view EXCEPT ![c] =
                            [p \in Pixels |-> IF p \in sent THEN Drawn(c)[p] ELSE @[p]]]
                      /\ lost' = [lost EXCEPT ![c] = @ \ sent]
      BY <2>3 DEF SendUpdate
    <3>3. view' \in [Clients -> Pictures]
      BY <3>1, <3>2 DEF Pictures
    <3>4. lost' \in [Clients -> SUBSET Pixels]
      BY <3>2
    <3> QED  BY <2>3, <3>3, <3>4
         DEF SendUpdate, Turn, ModifiedLeft, RequestLeft, connVars, Regions
  <2> QED  BY <1>6, <2>1, <2>2, <2>3 DEF UpdateClient, ClientGone, SendFails
<1>7. CASE EventsReturn
  BY <1>7 DEF EventsReturn, LoopTop, connVars, regionVars, encodingVars, Phases, Calls
<1>8. ASSUME NEW frame \in [Pixels -> Words], UpdateScreen(frame) PROVE TypeOK'
  <2> DEFINE changed == {p \in Pixels : frame[p] # fbbuf[p]}
             region == Dirty(changed)
  <2>1. region \in Regions /\ changed \subseteq Pixels
    BY RegionMarked
  <2>2. modified' = MarkOpen(region)
    BY <1>8 DEF UpdateScreen
  <2>3. lost' = [c \in Clients |->
                   IF c \in open THEN lost[c] \cup (changed \ region) ELSE lost[c]]
    BY <1>8 DEF UpdateScreen
  <2>4. /\ fbbuf' = frame /\ phase' = "events"
        /\ call' \in {LoopTop, "marked"}
        /\ UNCHANGED <<listening, connVars, requested, deferring, encodingVars, todo, view>>
    BY <1>8 DEF UpdateScreen
  <2> HIDE DEF changed, region
  <2>5. modified' \in [Clients -> Regions]
    BY <2>1, <2>2 DEF Regions, MarkOpen
  <2>6. lost' \in [Clients -> SUBSET Pixels]
    BY <2>1, <2>3
  <2> QED  BY <2>4, <2>5, <2>6 DEF LoopTop, connVars, encodingVars, Phases, Calls
<1>9. CASE UNCHANGED vars
  BY <1>9 DEF vars, connVars, regionVars, encodingVars
<1> QED
  BY <1>1, <1>2, <1>3, <1>10, <1>4, <1>5, <1>6, <1>7, <1>8, <1>9
  DEF Next, Daemon, Viewer

\* Every reachable state of the daemon is well typed; in particular an open
\* connection's record is always linked from the client list.
THEOREM TypeCorrect == Spec => []TypeOK
  BY TypeInit, TypeStep, PTL DEF Spec

-----------------------------------------------------------------------------
(* Handshake first: no request before the connection is initialised. *)

LEMMA RequestsInit == Init => RequestsAreNormal
  BY DEF Init, RequestsAreNormal

LEMMA RequestsStep ==
  TypeOK /\ RequestsAreNormal /\ [Next]_vars => RequestsAreNormal'
<1> SUFFICES ASSUME TypeOK, RequestsAreNormal, [Next]_vars,
                    NEW d \in Clients, requested'[d] # {}
             PROVE  d \in clients' /\ state'[d] = "NORMAL"
  BY DEF RequestsAreNormal
<1>0. requested[d] # {} => d \in clients /\ state[d] = "NORMAL"
  BY DEF RequestsAreNormal
<1> USE DEF TypeOK
<1>1. ASSUME NEW c \in Clients, NewClient(c) PROVE d \in clients' /\ state'[d] = "NORMAL"
  BY <1>0, <1>1 DEF NewClient
<1>2. ASSUME NEW c \in Clients, Handshake(c) PROVE d \in clients' /\ state'[d] = "NORMAL"
  <2>1. \A s \in AfterHandshake("NORMAL") : FALSE
    BY DEF AfterHandshake, HandshakeSteps, States
  <2> QED  BY <1>0, <1>2, <2>1 DEF Handshake, regionVars, encodingVars
<1>3. ASSUME NEW c \in Clients, NEW rect \in RequestRects, NEW i \in BOOLEAN,
             UpdateRequest(c, rect, i)
      PROVE  d \in clients' /\ state'[d] = "NORMAL"
  BY <1>0, <1>3 DEF UpdateRequest, Dispatched, connVars, encodingVars
<1>10. ASSUME NEW c \in Clients, NEW list \in EncodingLists, SetEncodings(c, list)
       PROVE  d \in clients' /\ state'[d] = "NORMAL"
  BY <1>0, <1>10 DEF SetEncodings, connVars
<1>4. ASSUME NEW c \in Clients, CloseClient(c) \/ DisconnectKey(c) \/ ExitKey(c)
      PROVE  d \in clients' /\ state'[d] = "NORMAL"
  BY <1>0, <1>4 DEF CloseClient, DisconnectKey, ExitKey, connVars, regionVars, encodingVars
<1>5. CASE EventsDone
  BY <1>0, <1>5 DEF EventsDone, connVars, regionVars, encodingVars
<1>6. ASSUME NEW c \in Clients, UpdateClient(c) PROVE d \in clients' /\ state'[d] = "NORMAL"
  <2>1. CASE Forget(c)
    BY <1>0, <2>1 DEF Forget
  <2>2. CASE NothingPending(c) \/ StartDeferring(c) \/ KeepDeferring(c) \/ NothingToSend(c)
    BY <1>0, <2>2 DEF NothingPending, StartDeferring, KeepDeferring, NothingToSend,
                      connVars, regionVars, encodingVars
  <2>3. CASE SendUpdate(c)
    BY <1>0, <2>3 DEF SendUpdate, RequestLeft, connVars
  <2> QED  BY <1>6, <2>1, <2>2, <2>3 DEF UpdateClient, ClientGone, SendFails
<1>7. CASE EventsReturn
  BY <1>0, <1>7 DEF EventsReturn, connVars, regionVars, encodingVars
<1>8. ASSUME NEW frame \in [Pixels -> Words], UpdateScreen(frame)
      PROVE  d \in clients' /\ state'[d] = "NORMAL"
  BY <1>0, <1>8 DEF UpdateScreen, connVars
<1>9. CASE UNCHANGED vars
  BY <1>0, <1>9 DEF vars, connVars, regionVars, encodingVars
<1> QED
  BY <1>1, <1>2, <1>3, <1>10, <1>4, <1>5, <1>6, <1>7, <1>8, <1>9
  DEF Next, Daemon, Viewer

\* Pixels are never sent into a handshake: only an initialised connection can
\* have a request outstanding.
THEOREM RequestsSafe == Spec => []RequestsAreNormal
  BY RequestsInit, RequestsStep, TypeInit, TypeStep, PTL DEF Spec

-----------------------------------------------------------------------------
(* The accounting of the modified regions. *)

\* What rfbSendFramebufferUpdate sends holds the whole update.
LEMMA BBoxCovers == ASSUME NEW s \in SUBSET Pixels PROVE s \subseteq BBox(s)
  BY DEF BBox, Pixels

LEMMA PictureInit == Init => PictureAccounted
  BY DEF Init, PictureAccounted

LEMMA PictureStep ==
  TypeOK /\ PictureAccounted /\ [Next]_vars => PictureAccounted'
<1> DEFINE Accounted(c, p) ==
             ShowsCurrent(c, p) \/ p \in modified[c] \/ p \in lost[c]
<1> SUFFICES ASSUME TypeOK, PictureAccounted, [Next]_vars,
                    NEW d \in Clients, d \in open', NEW p \in Pixels
             PROVE  Accounted(d, p)'
  BY TypeStep DEF PictureAccounted, TypeOK
<1>0. d \in open => Accounted(d, p)
  BY DEF PictureAccounted
<1> USE DEF TypeOK
<1>1. ASSUME NEW c \in Clients, NewClient(c) PROVE Accounted(d, p)'
  BY <1>0, <1>1 DEF NewClient, vncbuf, ShowsCurrent
<1>2. ASSUME NEW c \in Clients, Handshake(c) PROVE Accounted(d, p)'
  BY <1>0, <1>2 DEF Handshake, regionVars, encodingVars, vncbuf, ShowsCurrent
<1>3. ASSUME NEW c \in Clients, NEW rect \in RequestRects, NEW i \in BOOLEAN,
             UpdateRequest(c, rect, i)
      PROVE  Accounted(d, p)'
  BY <1>0, <1>3 DEF UpdateRequest, connVars, encodingVars, vncbuf, ShowsCurrent
<1>10. ASSUME NEW c \in Clients, NEW list \in EncodingLists, SetEncodings(c, list)
       PROVE  Accounted(d, p)'
  <2>1. /\ shape' = [shape EXCEPT ![c] = list.shape]
        /\ modified' = [modified EXCEPT ![c] = AfterEncodings(@, list)]
        /\ UNCHANGED <<open, fbbuf, view, lost>>
    BY <1>10 DEF SetEncodings, connVars
  <2>2. modified[d] \subseteq modified'[d]
    BY <2>1 DEF AfterEncodings
  <2>3. vncbuf' = vncbuf
    BY <2>1 DEF vncbuf
  <2>4. CASE d = c /\ list.shape /\ p \in CursorMask
    BY <2>1, <2>4, CursorAssumption DEF AfterEncodings
  <2>5. CASE ~(d = c /\ list.shape /\ p \in CursorMask)
    BY <1>0, <2>1, <2>2, <2>3, <2>5 DEF ShowsCurrent
  <2> QED  BY <2>4, <2>5
<1>4. ASSUME NEW c \in Clients, CloseClient(c) \/ DisconnectKey(c) \/ ExitKey(c)
      PROVE  Accounted(d, p)'
  BY <1>0, <1>4 DEF CloseClient, DisconnectKey, ExitKey, connVars, regionVars, encodingVars, vncbuf, ShowsCurrent
<1>5. CASE EventsDone
  BY <1>0, <1>5 DEF EventsDone, connVars, regionVars, encodingVars, vncbuf, ShowsCurrent
<1>6. ASSUME NEW c \in Clients, UpdateClient(c) PROVE Accounted(d, p)'
  <2>1. CASE Turn(c) /\ Forget(c)
    BY <1>0, <2>1 DEF Turn, Forget, vncbuf, ShowsCurrent
  <2>2. CASE NothingPending(c) \/ StartDeferring(c) \/ KeepDeferring(c) \/ NothingToSend(c)
    BY <1>0, <2>2 DEF NothingPending, StartDeferring, KeepDeferring, NothingToSend,
                      Turn, connVars, regionVars, encodingVars, vncbuf, ShowsCurrent
  <2>3. CASE SendUpdate(c)
    <3> DEFINE update == modified[c] \cap requested[c]
    <3>1. PICK sent \in {update, BBox(update)} :
            /\ view' = [view EXCEPT ![c] =
                          [q \in Pixels |-> IF q \in sent THEN Drawn(c)[q] ELSE @[q]]]
            /\ lost' = [lost EXCEPT ![c] = @ \ sent]
      BY <2>3 DEF SendUpdate
    <3>2. update \subseteq sent
      BY <3>1, BBoxCovers
    <3>3. /\ modified' = [modified EXCEPT ![c] = @ \ update]
          /\ UNCHANGED <<open, fbbuf, shape>>
      BY <2>3 DEF SendUpdate, ModifiedLeft, Turn, connVars
    <3>4. vncbuf' = vncbuf
      BY <3>3 DEF vncbuf
    <3> HIDE DEF update
    <3>5. CASE d = c /\ p \in sent
      BY <3>1, <3>3, <3>4, <3>5 DEF ShowsCurrent, Drawn
    <3>6. CASE ~(d = c /\ p \in sent)
      BY <1>0, <3>1, <3>2, <3>3, <3>4, <3>6 DEF ShowsCurrent
    <3> QED  BY <3>5, <3>6
  <2> QED  BY <1>6, <2>1, <2>2, <2>3 DEF UpdateClient, ClientGone, SendFails
<1>7. CASE EventsReturn
  BY <1>0, <1>7 DEF EventsReturn, connVars, regionVars, encodingVars, vncbuf, ShowsCurrent
<1>8. ASSUME NEW frame \in [Pixels -> Words], UpdateScreen(frame)
      PROVE  Accounted(d, p)'
  <2> DEFINE changed == {q \in Pixels : frame[q] # fbbuf[q]}
             region == Dirty(changed)
  <2>1. /\ modified' = MarkOpen(region)
        /\ lost' = [c \in Clients |->
                      IF c \in open THEN lost[c] \cup (changed \ region) ELSE lost[c]]
        /\ fbbuf' = frame
        /\ UNCHANGED <<open, shape, view>>
    BY <1>8 DEF UpdateScreen, connVars, encodingVars
  <2>2. CASE p \in changed
    <3> HIDE DEF region
    <3> QED  BY <2>1, <2>2 DEF MarkOpen
  <2>3. CASE p \notin changed
    <3>1. vncbuf'[p] = vncbuf[p]
      BY <2>1, <2>3 DEF vncbuf
    <3> HIDE DEF changed, region
    <3> QED  BY <1>0, <2>1, <3>1 DEF MarkOpen, ShowsCurrent
  <2> QED  BY <2>2, <2>3
<1>9. CASE UNCHANGED vars
  BY <1>0, <1>9 DEF vars, connVars, regionVars, encodingVars, vncbuf, ShowsCurrent
<1> QED
  BY <1>1, <1>2, <1>3, <1>10, <1>4, <1>5, <1>6, <1>7, <1>8, <1>9
  DEF Next, Daemon, Viewer

\* Whatever viewers, the clock and the screen do, a pixel in which a viewer
\* differs from vncbuf is still to be sent, or was dropped by the bounding
\* box of update_screen: no other part of the update path loses a change.
THEOREM PictureSafe == Spec => []PictureAccounted
  BY PictureInit, PictureStep, TypeInit, TypeStep, PTL DEF Spec

-----------------------------------------------------------------------------
(* Action properties. *)

\* A step other than an answer leaves a surviving viewer's picture alone.
LEMMA PictureChangesBySending ==
  ASSUME TypeOK, [Next]_vars, NEW d \in clients \cap clients', view'[d] # view[d]
  PROVE  SendUpdate(d)
<1> USE DEF TypeOK
<1>1. ASSUME NEW c \in Clients, Viewer(c) PROVE SendUpdate(d)
  BY <1>1 DEF Viewer, NewClient, Handshake, UpdateRequest, SetEncodings, CloseClient,
              DisconnectKey, ExitKey
<1>2. ASSUME NEW c \in Clients, UpdateClient(c) PROVE SendUpdate(d)
  <2>1. CASE Forget(c)
    BY <2>1 DEF Forget
  <2>2. CASE NothingPending(c) \/ StartDeferring(c) \/ KeepDeferring(c) \/ NothingToSend(c)
    BY <2>2 DEF NothingPending, StartDeferring, KeepDeferring, NothingToSend
  <2>3. CASE SendUpdate(c)
    <3>1. \E f : view' = [view EXCEPT ![c] = f]
      BY <2>3 DEF SendUpdate
    <3>2. d = c
      BY <3>1
    <3> QED  BY <2>3, <3>2
  <2> QED  BY <1>2, <2>1, <2>2, <2>3 DEF UpdateClient, ClientGone, SendFails
<1>3. CASE EventsDone \/ EventsReturn \/ \E f \in [Pixels -> Words] : UpdateScreen(f)
  BY <1>3 DEF EventsDone, EventsReturn, UpdateScreen
<1>4. CASE UNCHANGED vars
  BY <1>4 DEF vars
<1> QED  BY <1>1, <1>2, <1>3, <1>4 DEF Next, Daemon

LEMMA OneUpdateStep ==
  ASSUME TypeOK, [Next]_vars
  PROVE  \A c \in clients \cap clients' :
           view'[c] # view[c] => requested[c] # {} /\ requested'[c] = {}
<1> SUFFICES ASSUME NEW c \in clients \cap clients', view'[c] # view[c]
             PROVE  requested[c] # {} /\ requested'[c] = {}
  OBVIOUS
<1>1. SendUpdate(c)
  BY PictureChangesBySending
<1> QED  BY <1>1 DEF SendUpdate, UpdatePending, RequestLeft, TypeOK

\* The viewer paces the server: one request buys one update, on any screen
\* and with any number of viewers.
THEOREM OneUpdateSafe == Spec => OneUpdatePerRequest
<1>1. TypeOK /\ [Next]_vars
        => [\A c \in clients \cap clients' :
              view'[c] # view[c] => requested[c] # {} /\ requested'[c] = {}]_vars
  BY OneUpdateStep
<1> QED  BY <1>1, TypeCorrect, PTL DEF Spec, OneUpdatePerRequest

LEMMA OwedStep ==
  ASSUME TypeOK, [Next]_vars, NEW d \in open \cap open', NEW p \in Pixels,
         p \in modified[d], p \notin modified'[d]
  PROVE  view'[d][p] = Drawn(d)'[p]
<1> USE DEF TypeOK
<1>1. ASSUME NEW c \in Clients, Viewer(c) PROVE FALSE
  BY <1>1 DEF Viewer, NewClient, Handshake, UpdateRequest, SetEncodings, CloseClient,
              DisconnectKey, ExitKey, AfterEncodings, regionVars, encodingVars
<1>2. ASSUME NEW c \in Clients, UpdateClient(c) PROVE view'[d][p] = Drawn(d)'[p]
  <2>1. CASE Forget(c)
    BY <2>1 DEF Forget
  <2>2. CASE NothingPending(c) \/ StartDeferring(c) \/ KeepDeferring(c) \/ NothingToSend(c)
    BY <2>2 DEF NothingPending, StartDeferring, KeepDeferring, NothingToSend, regionVars, encodingVars
  <2>3. CASE SendUpdate(c)
    <3> DEFINE update == modified[c] \cap requested[c]
    <3>1. PICK sent \in {update, BBox(update)} :
            view' = [view EXCEPT ![c] =
                       [q \in Pixels |-> IF q \in sent THEN Drawn(c)[q] ELSE @[q]]]
      BY <2>3 DEF SendUpdate
    <3>2. /\ modified' = [modified EXCEPT ![c] = @ \ update]
          /\ UNCHANGED <<fbbuf, shape>>
      BY <2>3 DEF SendUpdate, ModifiedLeft, Turn
    <3>3. update \subseteq sent
      BY <3>1, BBoxCovers
    <3>4. Drawn(c)' = Drawn(c)
      BY <3>2 DEF Drawn, vncbuf
    <3> HIDE DEF update
    <3>5. d = c /\ p \in update
      BY <3>2
    <3> QED  BY <3>1, <3>3, <3>4, <3>5
  <2> QED  BY <1>2, <2>1, <2>2, <2>3 DEF UpdateClient, ClientGone, SendFails
<1>3. CASE EventsDone \/ EventsReturn
  BY <1>3 DEF EventsDone, EventsReturn, regionVars, encodingVars
<1>4. ASSUME NEW f \in [Pixels -> Words], UpdateScreen(f) PROVE FALSE
  <2>1. PICK r : modified' = MarkOpen(r)
    BY <1>4 DEF UpdateScreen
  <2> QED  BY <2>1 DEF MarkOpen
<1>5. CASE UNCHANGED vars
  BY <1>5 DEF vars, regionVars, encodingVars
<1> QED  BY <1>1, <1>2, <1>3, <1>4, <1>5 DEF Next, Daemon

\* No step takes a pixel off what a living connection is owed except by
\* showing it with the value vncbuf has after the step.
THEOREM OwedSafe == Spec => OwedUntilShown
<1> DEFINE KeepsOwed ==
      \A c \in open \cap open', p \in Pixels :
        p \in modified[c] /\ p \notin modified'[c] => view'[c][p] = Drawn(c)'[p]
<1>1. TypeOK /\ [Next]_vars => [KeepsOwed]_vars
  BY OwedStep
<1>2. OwedUntilShown <=> [][KeepsOwed]_vars
  BY PTL DEF OwedUntilShown
<1> HIDE DEF KeepsOwed
<1> QED  BY <1>1, <1>2, TypeCorrect, PTL DEF Spec
-----------------------------------------------------------------------------
(* The daemon implements the abstract one of RemoteScreen, for every set   *)
(* of clients, screen size, cursor and pixel conversion.  Each step of     *)
(* RfbServer is shown to be a step of RemoteScreen, or to leave its state  *)
(* alone; the type invariant is all that this needs.                       *)

\* What the abstract daemon sees of a viewer.
Seen == <<Asked, Owed, Missed, Shown>>

\* A step that leaves connections, regions and pictures alone is invisible.
LEMMA Invisible ==
  ASSUME UNCHANGED <<open, modified, requested, view, lost, fbbuf>>, Running' = Running
  PROVE  UNCHANGED Remote!vars
  BY DEF Remote!vars, Asked, Owed, Missed, Shown, OfOpen, vncbuf, Blank

\* So is one that touches only what belongs to a closed record.
LEMMA ClosedInvisible ==
  ASSUME TypeOK, NEW c \in Clients, c \notin open, Turn(c), Forget(c)
  PROVE  UNCHANGED Remote!vars
<1>1. open' = open /\ Running' = Running /\ vncbuf' = vncbuf
  BY DEF Turn, Forget, Running, vncbuf
<1>2. UNCHANGED Seen
  BY <1>1 DEF TypeOK, Forget, Seen, Asked, Owed, Missed, Shown, OfOpen, Blank
<1> QED  BY <1>1, <1>2 DEF Seen, Remote!vars

\* Closing sockets is a departure of their viewers.
LEMMA ClosingIsDisconnect ==
  ASSUME TypeOK, Running, NEW leaving \in SUBSET Clients, open' = open \ leaving,
         UNCHANGED <<Running, fbbuf>>,
         \A d \in open' : /\ modified'[d] = modified[d] /\ requested'[d] = requested[d]
                          /\ view'[d] = view[d] /\ lost'[d] = lost[d]
  PROVE  Remote!Disconnect(leaving)
<1>1. vncbuf' = vncbuf
  BY DEF vncbuf
<1>2. Asked' = [c \in Clients |-> IF c \in leaving THEN {} ELSE Asked[c]]
  BY DEF Asked, OfOpen
<1>3. Owed' = [c \in Clients |-> IF c \in leaving THEN {} ELSE Owed[c]]
  BY DEF Owed, OfOpen
<1>4. Missed' = [c \in Clients |-> IF c \in leaving THEN {} ELSE Missed[c]]
  BY DEF Missed, OfOpen
<1>5. Shown' = [c \in Clients |-> IF c \in leaving THEN Blank ELSE Shown[c]]
  BY DEF Shown, OfOpen, Blank
<1> QED  BY <1>1, <1>2, <1>3, <1>4, <1>5 DEF Remote!Disconnect, Remote!Blank, Blank

\* rfbNewTCPOrUDPClient connects a viewer that has been sent nothing.
LEMMA NewClientConnects ==
  ASSUME TypeOK, NEW c \in Clients, NewClient(c) PROVE Remote!Connect(c)
<1> USE DEF TypeOK, NewClient
<1>1. /\ c \notin open /\ open' = open \cup {c}
      /\ vncbuf' = vncbuf /\ Running /\ Running' = Running
  BY DEF vncbuf, Running
<1>2. UNCHANGED <<Asked, Missed, Shown>>
  BY <1>1 DEF Asked, Missed, Shown, OfOpen, Blank
<1>3. Owed' = [Owed EXCEPT ![c] = Pixels]
  BY <1>1 DEF Owed, OfOpen
<1> QED  BY <1>1, <1>2, <1>3 DEF Remote!Connect

\* Requests and encodings only add to what is asked for and owed.
LEMMA AskingIsAsk ==
  ASSUME TypeOK, NEW c \in open, Running, NEW wanted \in SUBSET Pixels, NEW again \in SUBSET Pixels,
         requested' = [requested EXCEPT ![c] = @ \cup wanted],
         modified' = [modified EXCEPT ![c] = @ \cup again],
         UNCHANGED <<Running, open, fbbuf, view, lost>>
  PROVE  Remote!Ask(c, wanted)
<1> USE DEF TypeOK
<1>1. UNCHANGED <<vncbuf, Missed, Shown>>
  BY DEF vncbuf, Missed, Shown, OfOpen, Blank
<1>2. Asked' = [Asked EXCEPT ![c] = @ \cup wanted]
  BY DEF Asked, OfOpen
<1>3. Owed' = [Owed EXCEPT ![c] = @ \cup again]
  BY DEF Owed, OfOpen
<1> QED  BY <1>1, <1>2, <1>3 DEF Remote!Ask

\* rfbSendFramebufferUpdate answers a request.
LEMMA SendingIsRefresh ==
  ASSUME TypeOK, NEW c \in Clients, SendUpdate(c)
  PROVE  \E sent \in SUBSET Pixels : Remote!Refresh(c, sent)
<1> DEFINE update == modified[c] \cap requested[c]
<1>1. PICK sent \in {update, BBox(update)} :
        /\ view' = [view EXCEPT ![c] =
                      [p \in Pixels |-> IF p \in sent THEN Drawn(c)[p] ELSE @[p]]]
        /\ lost' = [lost EXCEPT ![c] = @ \ sent]
  BY DEF SendUpdate
<1>2. update \in SUBSET Pixels
  BY DEF TypeOK
<1>3. sent \in SUBSET Pixels /\ update \subseteq sent
  BY <1>1, <1>2, BBoxCovers, BBoxOnScreen
<1>4. /\ c \in open /\ requested[c] # {} /\ Running
      /\ modified' = [modified EXCEPT ![c] = @ \ update]
      /\ requested' = [requested EXCEPT ![c] = {}]
      /\ UNCHANGED <<open, fbbuf, phase>>
  BY DEF SendUpdate, UpdatePending, Turn, ModifiedLeft, RequestLeft, connVars, Running
<1>5. Asked[c] = requested[c] /\ Owed[c] = modified[c] \cap Pixels
  BY <1>4 DEF Asked, Owed, OfOpen
<1>6. Owed[c] \cap Asked[c] \subseteq sent
  BY <1>3, <1>5
<1>7. vncbuf' = vncbuf /\ Running' = Running
  BY <1>4 DEF vncbuf, Running
<1>8. Asked' = [Asked EXCEPT ![c] = {}]
  BY <1>4 DEF Asked, OfOpen, TypeOK
<1>9. Owed' = [Owed EXCEPT ![c] = @ \ Asked[c]]
  BY <1>4, <1>5 DEF Owed, OfOpen, TypeOK
<1>10. Missed' = [Missed EXCEPT ![c] = @ \ sent]
  BY <1>1, <1>4 DEF Missed, OfOpen, TypeOK
<1>11. Shown' = [Shown EXCEPT ![c] = Shown'[c]]
  BY <1>1, <1>4 DEF Shown, OfOpen, TypeOK
<1>12. ASSUME NEW p \in Pixels
       PROVE  /\ p \in sent => Shown'[c][p] = Drawn(c)[p]
              /\ p \notin sent => Shown'[c][p] = Shown[c][p]
  BY <1>1, <1>4 DEF Shown, OfOpen, TypeOK
<1>13. ASSUME NEW p \in Pixels
       PROVE  Drawn(c)[p] \in {vncbuf[p]} \cup IF p \in CursorMask THEN {CursorPixel} ELSE {}
  BY DEF Drawn
<1> HIDE DEF update
<1> QED  BY <1>3, <1>4, <1>5, <1>6, <1>7, <1>8, <1>9, <1>10, <1>11, <1>12, <1>13
     DEF Remote!Refresh

\* update_screen changes the picture and notices what it marks.
LEMMA ScanIsChange ==
  ASSUME TypeOK, NEW frame \in [Pixels -> Words], UpdateScreen(frame)
  PROVE  \E noticed \in SUBSET Pixels : Remote!Change(noticed)
<1> DEFINE changed == {p \in Pixels : frame[p] # fbbuf[p]}
           region == Dirty(changed)
           noticed == region \cap Pixels
           unnoticed == changed \ region
<1>1. /\ Running /\ Running' = Running
      /\ modified' = MarkOpen(region)
      /\ lost' = [c \in Clients |-> IF c \in open THEN lost[c] \cup unnoticed ELSE lost[c]]
      /\ fbbuf' = frame
      /\ UNCHANGED <<open, requested, view>>
  BY DEF UpdateScreen, Running, connVars
<1>2. changed \subseteq Pixels /\ noticed \subseteq Pixels /\ changed \subseteq noticed \cup unnoticed
  OBVIOUS
<1>3. {p \in Pixels : vncbuf'[p] # vncbuf[p]} \subseteq changed
  BY <1>1 DEF vncbuf
<1>4. vncbuf' \in [Pixels -> Int]
  BY <1>1, WordAssumption DEF vncbuf
<1> HIDE DEF changed, region
<1>5. UNCHANGED <<Asked, Shown>>
  BY <1>1 DEF Asked, Shown, OfOpen, Blank
<1>6. Owed' = [c \in Clients |-> IF c \in open THEN Owed[c] \cup noticed ELSE Owed[c]]
  BY <1>1 DEF Owed, OfOpen, MarkOpen
<1>7. Missed' = [c \in Clients |-> IF c \in open THEN Missed[c] \cup unnoticed ELSE Missed[c]]
  BY <1>1 DEF Missed, OfOpen
<1>8. unnoticed \in SUBSET Pixels
  BY <1>2
<1> HIDE DEF noticed, unnoticed
<1>9. Remote!Change(noticed)
  BY <1>1, <1>2, <1>3, <1>4, <1>5, <1>6, <1>7, <1>8 DEF Remote!Change
<1> QED  BY <1>2, <1>9

-----------------------------------------------------------------------------
LEMMA RemoteInit == Init => Remote!Init
<1> SUFFICES ASSUME Init PROVE Remote!Init
  OBVIOUS
<1>1. vncbuf \in [Pixels -> Int]
  BY TypeInit, VncbufIsPicture
<1>2. /\ Asked = [c \in Clients |-> {}] /\ Owed = [c \in Clients |-> {}]
      /\ Missed = [c \in Clients |-> {}] /\ Shown = [c \in Clients |-> Blank]
  BY DEF Init, Asked, Owed, Missed, Shown, OfOpen
<1> QED  BY <1>1, <1>2 DEF Init, Running, Remote!Init, Remote!Blank, Blank

LEMMA RemoteStep == TypeOK /\ [Next]_vars => [Remote!Next]_(Remote!vars)
<1> SUFFICES ASSUME TypeOK, [Next]_vars PROVE Remote!Next \/ UNCHANGED Remote!vars
  BY DEF Remote!vars
<1>1. ASSUME NEW c \in Clients, NewClient(c) PROVE Remote!Next
  BY <1>1, NewClientConnects DEF Remote!Next
<1>2. ASSUME NEW c \in Clients, Handshake(c) PROVE UNCHANGED Remote!vars
  BY <1>2, Invisible DEF Handshake, regionVars, Running
<1>3. ASSUME NEW c \in Clients, NEW rect \in RequestRects, NEW i \in BOOLEAN,
             UpdateRequest(c, rect, i)
      PROVE  Remote!Next
  <2> DEFINE again == IF i THEN {} ELSE rect
  <2>1. rect \in SUBSET Pixels /\ again \in SUBSET Pixels
    BY RequestAssumption
  <2>2. /\ c \in open /\ Running
        /\ requested' = [requested EXCEPT ![c] = @ \cup rect]
        /\ modified' = [modified EXCEPT ![c] = @ \cup again]
        /\ UNCHANGED <<Running, open, fbbuf, view, lost>>
    BY <1>3 DEF UpdateRequest, Dispatched, Running, connVars, TypeOK
  <2>3. Remote!Ask(c, rect)
    BY <2>1, <2>2, AskingIsAsk
  <2> QED  BY <2>1, <2>3 DEF Remote!Next
<1>4. ASSUME NEW c \in Clients, NEW list \in EncodingLists, SetEncodings(c, list)
      PROVE  Remote!Next
  <2> DEFINE again == IF list.shape THEN CursorRect ELSE {}
  <2>1. {} \in SUBSET Pixels /\ again \in SUBSET Pixels
    BY CursorAssumption
  <2>2. /\ c \in open /\ Running
        /\ requested' = [requested EXCEPT ![c] = @ \cup {}]
        /\ modified' = [modified EXCEPT ![c] = @ \cup again]
        /\ UNCHANGED <<Running, open, fbbuf, view, lost>>
    BY <1>4 DEF SetEncodings, AfterEncodings, Dispatched, Running, connVars, TypeOK
  <2>3. Remote!Ask(c, {})
    BY <2>1, <2>2, AskingIsAsk
  <2> QED  BY <2>1, <2>3 DEF Remote!Next
<1>5. ASSUME NEW c \in Clients, CloseClient(c) \/ DisconnectKey(c) PROVE Remote!Next
  <2>1. PICK leaving \in SUBSET Clients : open' = open \ leaving
    BY <1>5 DEF CloseClient, DisconnectKey, TypeOK
  <2>2. /\ Running /\ UNCHANGED <<Running, fbbuf, modified, requested, view, lost>>
    BY <1>5 DEF CloseClient, DisconnectKey, Running, regionVars
  <2>3. Remote!Disconnect(leaving)
    BY <2>1, <2>2, ClosingIsDisconnect
  <2> QED  BY <2>3 DEF Remote!Next
<1>6. ASSUME NEW c \in Clients, ExitKey(c) PROVE Remote!Next
  <2>1. UNCHANGED <<vncbuf, open, Asked, Owed, Missed, Shown>>
    BY <1>6 DEF ExitKey, connVars, regionVars, vncbuf, Asked, Owed, Missed, Shown, OfOpen, Blank
  <2> QED  BY <1>6, <2>1 DEF ExitKey, Running, Remote!Stop, Remote!Next
<1>7. ASSUME NEW c \in Clients, UpdateClient(c) PROVE Remote!Next \/ UNCHANGED Remote!vars
  <2>1. CASE ClientGone(c)
    BY <2>1, ClosedInvisible DEF ClientGone
  <2>2. CASE NothingPending(c) \/ StartDeferring(c) \/ KeepDeferring(c) \/ NothingToSend(c)
    BY <2>2, Invisible DEF NothingPending, StartDeferring, KeepDeferring, NothingToSend,
                           Turn, Running, connVars, regionVars
  <2>3. CASE SendUpdate(c)
    BY <2>3, SendingIsRefresh DEF Remote!Next
  <2>4. CASE SendFails(c)
    <3>1. /\ Running /\ UNCHANGED <<Running, fbbuf>> /\ open' = open \ {c}
      BY <2>4 DEF SendFails, Turn, Forget, Running
    <3>2. \A d \in open' : /\ modified'[d] = modified[d] /\ requested'[d] = requested[d]
                           /\ view'[d] = view[d] /\ lost'[d] = lost[d]
      BY <2>4, <3>1 DEF SendFails, Forget, TypeOK
    <3>3. Remote!Disconnect({c})
      BY <3>1, <3>2, ClosingIsDisconnect
    <3> QED  BY <3>3 DEF Remote!Next
  <2> QED  BY <1>7, <2>1, <2>2, <2>3, <2>4 DEF UpdateClient
<1>8. CASE EventsDone \/ EventsReturn
  BY <1>8, Invisible DEF EventsDone, EventsReturn, Running, connVars, regionVars
<1>9. ASSUME NEW frame \in [Pixels -> Words], UpdateScreen(frame) PROVE Remote!Next
  BY <1>9, ScanIsChange DEF Remote!Next
<1>10. CASE UNCHANGED vars
  BY <1>10, Invisible DEF vars, connVars, regionVars, Running
<1> QED
  BY <1>1, <1>2, <1>3, <1>4, <1>5, <1>6, <1>7, <1>8, <1>9, <1>10 DEF Next, Daemon, Viewer

\* Every behaviour of the daemon is one of the abstract daemon: whatever the
\* event loop, the deferral and the handshakes of other viewers do, a viewer
\* sees answers to its requests that bring all it is owed of them.
THEOREM ImplementsRemoteScreen == Spec => RefinesRemoteScreen
  BY RemoteInit, RemoteStep, TypeCorrect, PTL DEF Spec, RefinesRemoteScreen, Remote!Safety
=============================================================================
