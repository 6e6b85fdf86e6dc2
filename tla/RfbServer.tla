----------------------------- MODULE RfbServer -----------------------------
(***************************************************************************)
(* The VNC daemon's single thread: the main loop of opsaivncserver.c, the  *)
(* event loop of LibVNCServer it drives (rfbProcessEvents, rfbCheckFds,    *)
(* rfbUpdateClient, rfbSendFramebufferUpdate) and the life of a client     *)
(* connection from accept to rfbClientConnectionGone.                      *)
(*                                                                         *)
(* The daemon never starts LibVNCServer's background thread, so a message  *)
(* handler, one client's turn in rfbProcessEvents and one call of          *)
(* update_screen are each one step; what interleaves are the viewers, the  *)
(* device's screen, the clock and the order in which clients are served.   *)
(***************************************************************************)
EXTENDS DirtyRect

CONSTANTS
  Clients,       \* client records, reused after a connection is gone
  Words,         \* values of a framebuffer word
  Zero,          \* the word that calloc leaves in fbbuf
  ToRfb,         \* the pixel that vncbuf holds for each word
  NoPicture,     \* what a viewer shows before its first update
  RequestRects,  \* the rectangles that viewers ask for, after clipping
  EncodingLists, \* what viewers' SetEncodings messages ask for
  CursorRect,    \* where the server's cursor may have been drawn
  CursorMask,    \* the pixels of it that rfbShowCursor overwrites
  CursorPixel    \* what it overwrites them with

ASSUME WordAssumption == Zero \in Words /\ ToRfb \in [Words -> Int]
ASSUME NoPictureAssumption == NoPicture \notin Int
ASSUME RequestAssumption == RequestRects \subseteq (SUBSET Pixels \ {{}})

\* Of a SetEncodings message: whether it names a cursor shape encoding, the
\* cursor position, and one that is answered once (messages, encodings,
\* identity).
ASSUME EncodingAssumption ==
  EncodingLists \subseteq [shape : BOOLEAN, position : BOOLEAN, once : BOOLEAN]

\* The cursor stays at <<0, 0>>: the daemon's ptrEvent does not move it.
ASSUME CursorAssumption ==
  CursorMask \subseteq CursorRect /\ CursorRect \subseteq Pixels /\ CursorPixel \in Int

VARIABLES
  phase,       \* where the thread is: in rfbCheckFds, in the loop over the
               \* clients, about to scan the screen, or exited
  call,        \* which rfbProcessEvents call of the main loop this is
  listening,   \* listenSock is open
  clients,     \* the records linked from clientHead
  open,        \* those whose sock is not -1
  state,       \* cl->state
  modified,    \* cl->modifiedRegion
  requested,   \* cl->requestedRegion
  deferring,   \* cl->startDeferring is set
  shape,       \* cl->enableCursorShapeUpdates
  news,        \* the pseudo-rectangles due with the next update
  todo,        \* the records the client loop has not visited yet
  fbbuf,       \* the comparison buffer
  view,        \* what each viewer shows once it has read all it was sent
  lost         \* history: pixels changed by scans that did not mark them,
               \* and not sent since

connVars == <<clients, open, state>>
regionVars == <<modified, requested, deferring>>
encodingVars == <<shape, news>>
vars == <<phase, call, listening, connVars, regionVars, encodingVars, todo, fbbuf,
          view, lost>>

Phases == {"events", "clients", "scan", "exited"}
Calls == {"idle", "main", "marked"}
States == {"PROTOCOL_VERSION", "SECURITY_TYPE", "INITIALISATION", "NORMAL"}

\* A cursor shape or position, which is due by itself (cursorWasChanged), and
\* the answers that wait for an update to go with (enableServerIdentity...).
News == {"cursor", "once"}

\* vncbuf is written only where fbbuf is, by converting the same word.
vncbuf == [p \in Pixels |-> ToRfb[fbbuf[p]]]

\* What an update shows of vncbuf: rfbShowCursor draws the cursor into it for
\* a viewer that does not draw its own, and rfbHideCursor takes it out again.
Drawn(c) ==
  [p \in Pixels |-> IF ~shape[c] /\ p \in CursorMask THEN CursorPixel ELSE vncbuf[p]]

Blank == [p \in Pixels |-> NoPicture]

Pictures == [Pixels -> Int \cup {NoPicture}]

TypeOK ==
  /\ phase \in Phases
  /\ call \in Calls
  /\ listening \in BOOLEAN
  /\ clients \subseteq Clients
  /\ open \subseteq clients
  /\ state \in [Clients -> States]
  /\ modified \in [Clients -> Regions]
  /\ requested \in [Clients -> SUBSET Pixels]
  /\ deferring \in [Clients -> BOOLEAN]
  /\ shape \in [Clients -> BOOLEAN]
  /\ news \in [Clients -> SUBSET News]
  /\ todo \subseteq clients
  /\ fbbuf \in [Pixels -> Words]
  /\ view \in [Clients -> Pictures]
  /\ lost \in [Clients -> SUBSET Pixels]

-----------------------------------------------------------------------------
Init ==
  /\ phase = "events" /\ call = "idle"
  /\ listening = TRUE
  /\ clients = {} /\ open = {} /\ todo = {}
  /\ state = [c \in Clients |-> "PROTOCOL_VERSION"]
  /\ modified = [c \in Clients |-> {}]
  /\ requested = [c \in Clients |-> {}]
  /\ deferring = [c \in Clients |-> FALSE]
  /\ shape = [c \in Clients |-> FALSE]
  /\ news = [c \in Clients |-> {}]
  /\ fbbuf = [p \in Pixels |-> Zero]
  /\ view = [c \in Clients |-> Blank]
  /\ lost = [c \in Clients |-> {}]

-----------------------------------------------------------------------------
(* rfbCheckFds: connections and messages, in any number and order, until   *)
(* select times out.                                                       *)

\* rfbNewTCPOrUDPClient: everything is yet to be sent, nothing requested.
NewClient(c) ==
  /\ phase = "events" /\ listening /\ c \notin clients
  /\ clients' = clients \cup {c}
  /\ open' = open \cup {c}
  /\ state' = [state EXCEPT ![c] = "PROTOCOL_VERSION"]
  /\ modified' = [modified EXCEPT ![c] = Pixels]
  /\ requested' = [requested EXCEPT ![c] = {}]
  /\ deferring' = [deferring EXCEPT ![c] = FALSE]
  /\ shape' = [shape EXCEPT ![c] = FALSE]
  /\ news' = [news EXCEPT ![c] = {}]
  /\ view' = [view EXCEPT ![c] = Blank]
  /\ lost' = [lost EXCEPT ![c] = {}]
  /\ UNCHANGED <<phase, call, listening, todo, fbbuf>>

\* The handshake messages.  The security type None is registered, so a 3.3
\* viewer skips the choice and one viewer that announces minor version 889 is
\* initialised without a ClientInit message.
HandshakeSteps ==
  {<<"PROTOCOL_VERSION", "SECURITY_TYPE">>, <<"PROTOCOL_VERSION", "INITIALISATION">>,
   <<"SECURITY_TYPE", "INITIALISATION">>, <<"SECURITY_TYPE", "NORMAL">>,
   <<"INITIALISATION", "NORMAL">>}

\* Defect: the password handler is the one registered.
AfterHandshakeWithPassword(s) ==
  IF s = "SECURITY_TYPE" THEN {"AUTHENTICATION"}
  ELSE {t \in States : <<s, t>> \in HandshakeSteps}

AfterHandshake(s) == {t \in States : <<s, t>> \in HandshakeSteps}

Handshake(c) ==
  /\ phase = "events" /\ c \in open
  /\ \E s \in AfterHandshake(state[c]) : state' = [state EXCEPT ![c] = s]
  /\ UNCHANGED <<phase, call, listening, clients, open, regionVars, encodingVars,
                 todo, fbbuf, view, lost>>

\* Defect: messages are dispatched without looking at cl->state.
DispatchedAlways(c) == c \in open

\* rfbProcessClientMessage calls rfbProcessClientNormalMessage.
Dispatched(c) == c \in open /\ state[c] = "NORMAL"

\* Defect: every request restarts the deferral.
UpdateRequestRestarts(c, rect, incremental) ==
  /\ phase = "events" /\ Dispatched(c)
  /\ requested' = [requested EXCEPT ![c] = @ \cup rect]
  /\ modified' = [modified EXCEPT ![c] = IF incremental THEN @ ELSE @ \cup rect]
  /\ deferring' = [deferring EXCEPT ![c] = FALSE]
  /\ UNCHANGED <<phase, call, listening, connVars, encodingVars, todo, fbbuf, view, lost>>

\* A FramebufferUpdateRequest; a non-incremental one also marks the
\* rectangle as modified.
UpdateRequest(c, rect, incremental) ==
  /\ phase = "events" /\ Dispatched(c)
  /\ requested' = [requested EXCEPT ![c] = @ \cup rect]
  /\ modified' = [modified EXCEPT ![c] = IF incremental THEN @ ELSE @ \cup rect]
  /\ UNCHANGED <<phase, call, listening, connVars, deferring, encodingVars, todo,
                 fbbuf, view, lost>>

\* Defect: the place of the cursor is not redrawn when a viewer takes over.
AfterEncodingsKeepsCursor(region, list) == region

\* What a SetEncodings message adds to the modified region: when a viewer
\* says that it draws the cursor itself, rfbRedrawAfterHideCursor marks the
\* place where the server drew it.
AfterEncodings(region, list) == IF list.shape THEN region \cup CursorRect ELSE region

\* SetEncodings: all flags are reset before the list is read.
SetEncodings(c, list) ==
  /\ phase = "events" /\ Dispatched(c)
  /\ shape' = [shape EXCEPT ![c] = list.shape]
  /\ news' = [news EXCEPT ![c] =
                {n \in News : IF n = "cursor" THEN list.shape \/ list.position
                                             ELSE list.once}]
  /\ modified' = [modified EXCEPT ![c] = AfterEncodings(@, list)]
  /\ UNCHANGED <<phase, call, listening, connVars, requested, deferring, todo,
                 fbbuf, view, lost>>

\* End of file, a read that fails or times out, a message that is refused:
\* rfbCloseClient.  The record stays linked until its turn in the client loop.
CloseClient(c) ==
  /\ phase = "events" /\ c \in open
  /\ open' = open \ {c}
  /\ UNCHANGED <<phase, call, listening, clients, state, regionVars, encodingVars,
                 todo, fbbuf, view, lost>>

\* The key F11: keysym2scancode calls rfbShutdownServer from inside the
\* handler of the client that sent it.
DisconnectKey(c) ==
  /\ phase = "events" /\ Dispatched(c)
  /\ open' = {}
  /\ listening' = FALSE
  /\ UNCHANGED <<phase, call, clients, state, regionVars, encodingVars, todo, fbbuf,
                 view, lost>>

\* The key F12: exit(0).
ExitKey(c) ==
  /\ phase = "events" /\ Dispatched(c)
  /\ phase' = "exited"
  /\ UNCHANGED <<call, listening, connVars, regionVars, encodingVars, todo, fbbuf,
                 view, lost>>

\* Defect: the loop uses the iterator that skips closed records.
VisitedOpen == open

\* The records the client loop visits: rfbGetClientIteratorWithClosed.
Visited == clients

\* select times out.
EventsDone ==
  /\ phase = "events"
  /\ phase' = "clients"
  /\ todo' = Visited
  /\ UNCHANGED <<call, listening, connVars, regionVars, encodingVars, fbbuf, view, lost>>

-----------------------------------------------------------------------------
(* The loop over the clients in rfbProcessEvents: rfbUpdateClient for one  *)
(* record, then rfbClientConnectionGone if its socket is closed.           *)

\* rfbClientConnectionGone unlinks and frees the record.
Forget(c) ==
  /\ clients' = clients \ {c}
  /\ open' = open \ {c}
  /\ state' = [state EXCEPT ![c] = "PROTOCOL_VERSION"]
  /\ modified' = [modified EXCEPT ![c] = {}]
  /\ requested' = [requested EXCEPT ![c] = {}]
  /\ deferring' = [deferring EXCEPT ![c] = FALSE]
  /\ shape' = [shape EXCEPT ![c] = FALSE]
  /\ news' = [news EXCEPT ![c] = {}]
  /\ view' = [view EXCEPT ![c] = Blank]
  /\ lost' = [lost EXCEPT ![c] = {}]

Turn(c) ==
  /\ phase = "clients" /\ c \in todo
  /\ todo' = todo \ {c}
  /\ UNCHANGED <<phase, call, listening, fbbuf>>

\* FB_UPDATE_PENDING and a request: the condition on which an update is due.
\* A modified region that holds only an inverted rectangle satisfies it too;
\* the answers due once do not.
UpdatePending(c) ==
  /\ c \in open
  /\ modified[c] # {} \/ "cursor" \in news[c]
  /\ requested[c] # {}

ClientGone(c) ==
  /\ Turn(c)
  /\ c \notin open
  /\ Forget(c)

NothingPending(c) ==
  /\ Turn(c)
  /\ c \in open /\ ~UpdatePending(c)
  /\ UNCHANGED <<connVars, regionVars, encodingVars, view, lost>>

\* The first turn at which an update is pending only starts the timer.
StartDeferring(c) ==
  /\ Turn(c)
  /\ UpdatePending(c) /\ ~deferring[c]
  /\ deferring' = [deferring EXCEPT ![c] = TRUE]
  /\ UNCHANGED <<connVars, modified, requested, encodingVars, view, lost>>

\* deferUpdateTime has not elapsed.
KeepDeferring(c) ==
  /\ Turn(c)
  /\ UpdatePending(c) /\ deferring[c]
  /\ UNCHANGED <<connVars, regionVars, encodingVars, view, lost>>

\* The smallest rectangle around a set of pixels: sraRgnBBox.
BBox(s) ==
  {p \in Pixels :
     /\ \E q \in s : q[1] <= p[1]
     /\ \E q \in s : q[1] >= p[1]
     /\ \E q \in s : q[2] <= p[2]
     /\ \E q \in s : q[2] >= p[2]}

\* The timer has run out but no modified pixel was asked for and there is no
\* news: the timer is reset and rfbSendFramebufferUpdate returns early, keeping
\* the request.
NothingToSend(c) ==
  /\ Turn(c)
  /\ UpdatePending(c) /\ deferring[c]
  /\ modified[c] \cap requested[c] = {} /\ news[c] = {}
  /\ deferring' = [deferring EXCEPT ![c] = FALSE]
  /\ UNCHANGED <<connVars, modified, requested, encodingVars, view, lost>>

\* Defect: the request stays until all of it has been sent.
RequestLeftOver(request, update) == request \ update

\* A request is used up by one update, however little of it was modified.
RequestLeft(request, update) == {}

\* Defect: the modified region is emptied by an update.
ModifiedForgotten(region, update) == {}

\* What remains modified: the parts outside the requested region.
ModifiedLeft(region, update) == region \ update

\* rfbSendFramebufferUpdate: the modified part of the requested region is
\* taken off the modified region and the whole request is dropped before
\* anything is written, also when there is only news to write.  With more than
\* maxRectsPerUpdate rectangles their bounding box is sent instead.
SendUpdate(c) ==
  LET update == modified[c] \cap requested[c] IN
  /\ Turn(c)
  /\ UpdatePending(c) /\ deferring[c]
  /\ update # {} \/ news[c] # {}
  /\ deferring' = [deferring EXCEPT ![c] = FALSE]
  /\ modified' = [modified EXCEPT ![c] = ModifiedLeft(@, update)]
  /\ requested' = [requested EXCEPT ![c] = RequestLeft(@, update)]
  /\ \E sent \in {update, BBox(update)} :
       /\ view' = [view EXCEPT ![c] =
                     [p \in Pixels |-> IF p \in sent THEN Drawn(c)[p] ELSE @[p]]]
       /\ lost' = [lost EXCEPT ![c] = @ \ sent]
  /\ news' = [news EXCEPT ![c] = {}]
  /\ UNCHANGED <<connVars, shape>>

\* The same with a write that fails: the socket is closed, and since this is
\* the client's turn the record goes at once, with all it still owed.
SendFails(c) ==
  /\ Turn(c)
  /\ UpdatePending(c) /\ deferring[c]
  /\ modified[c] \cap requested[c] # {} \/ news[c] # {}
  /\ Forget(c)

UpdateClient(c) ==
  \/ ClientGone(c)
  \/ NothingPending(c)
  \/ StartDeferring(c)
  \/ KeepDeferring(c)
  \/ NothingToSend(c)
  \/ SendUpdate(c)
  \/ SendFails(c)

-----------------------------------------------------------------------------
(* main.  rfbProcessEvents returns to one of its three call sites.         *)

LoopTop == IF clients = {} THEN "idle" ELSE "main"

EventsReturn ==
  /\ phase = "clients" /\ todo = {}
  /\ IF call = "main"
     THEN phase' = "scan" /\ UNCHANGED call
     ELSE phase' = "events" /\ call' = LoopTop
  /\ UNCHANGED <<listening, connVars, regionVars, encodingVars, todo, fbbuf, view, lost>>

\* Defect: only clients that wait for an update are told of a change.
MarkWaiting(region) ==
  [c \in Clients |-> IF c \in open /\ requested[c] # {}
                     THEN modified[c] \cup region ELSE modified[c]]

\* rfbMarkRegionAsModified: every client with an open socket.
MarkOpen(region) ==
  [c \in Clients |-> IF c \in open THEN modified[c] \cup region ELSE modified[c]]

\* update_screen: the captured frame is copied into fbbuf and what the
\* bounding box covers is marked as modified for every open client.
UpdateScreen(frame) ==
  LET changed == {p \in Pixels : frame[p] # fbbuf[p]}
      region == Dirty(changed) IN
  /\ phase = "scan"
  /\ fbbuf' = frame
  /\ modified' = MarkOpen(region)
  /\ lost' = [c \in Clients |->
                IF c \in open THEN lost[c] \cup (changed \ region) ELSE lost[c]]
  /\ phase' = "events"
  /\ call' = IF changed = {} THEN LoopTop ELSE "marked"
  /\ UNCHANGED <<listening, connVars, requested, deferring, encodingVars, todo, view>>

-----------------------------------------------------------------------------
Viewer(c) ==
  \/ NewClient(c)
  \/ Handshake(c)
  \/ \E rect \in RequestRects, incremental \in BOOLEAN :
       UpdateRequest(c, rect, incremental)
  \/ \E list \in EncodingLists : SetEncodings(c, list)
  \/ CloseClient(c)
  \/ DisconnectKey(c)
  \/ ExitKey(c)

Daemon ==
  \/ EventsDone
  \/ \E c \in Clients : UpdateClient(c)
  \/ EventsReturn
  \/ \E frame \in [Pixels -> Words] : UpdateScreen(frame)

Next == Daemon \/ \E c \in Clients : Viewer(c)

\* The daemon's thread keeps running: select times out in the end, a client's
\* turn and a scan end, and the 5 ms of the deferral are over at some turn.
Fairness ==
  /\ WF_vars(Daemon)
  /\ \A c \in Clients : SF_vars(SendUpdate(c) \/ SendFails(c))

Spec == Init /\ [][Next]_vars /\ Fairness

-----------------------------------------------------------------------------
(* Properties.                                                             *)

\* A viewer shows the current pixel, or the cursor if the server draws it for
\* that viewer.
ShowsCurrent(c, p) ==
  \/ view[c][p] = vncbuf[p]
  \/ ~shape[c] /\ p \in CursorMask /\ view[c][p] = CursorPixel

\* rfb.h, on modifiedRegion: "the update needed to get the client's
\* framebuffer from its present state to the current state of our
\* framebuffer".  Every pixel in which a viewer differs from vncbuf is in its
\* modified region, the pixels that a scan failed to mark excepted: the event
\* loop, the deferral, requests in any order and clipped sends lose nothing,
\* and a viewer that draws the cursor itself keeps none drawn by the server.
PictureAccounted ==
  \A c \in open : \A p \in Pixels :
    ShowsCurrent(c, p) \/ p \in modified[c] \/ p \in lost[c]

\* The same sentence without the exception.
ModifiedRegionComplete ==
  \A c \in open : \A p \in Pixels : ShowsCurrent(c, p) \/ p \in modified[c]

\* No update is owed to a connection that has not finished its handshake, so
\* pixels are never sent into the middle of one.
RequestsAreNormal ==
  \A c \in Clients : requested[c] # {} => c \in clients /\ state[c] = "NORMAL"

\* A viewer's picture changes only in answer to a request, and one answer
\* uses the request up: the viewer paces the server.
OneUpdatePerRequest ==
  [][\A c \in clients \cap clients' :
       view'[c] # view[c] => requested[c] # {} /\ requested'[c] = {}]_vars

\* As long as the connection lives, a pixel leaves the modified region only
\* by being shown with its current value.
OwedUntilShown ==
  [][\A c \in open \cap open', p \in Pixels :
       p \in modified[c] /\ p \notin modified'[c] => view'[c][p] = Drawn(c)'[p]]_vars

\* The abstract daemon's view of this one: closed records count as gone, and
\* the inverted rectangle as nothing.
OfOpen(f, none) == [c \in Clients |-> IF c \in open THEN f[c] ELSE none]

Running == phase # "exited"
Asked == OfOpen(requested, {})
Owed == OfOpen([c \in Clients |-> modified[c] \cap Pixels], {})
Missed == OfOpen(lost, {})
Shown == OfOpen(view, Blank)

Remote == INSTANCE RemoteScreen WITH
  Overlay <- [p \in Pixels |-> IF p \in CursorMask THEN {CursorPixel} ELSE {}],
  running <- Running, source <- vncbuf, connected <- open,
  asked <- Asked, owed <- Owed, missed <- Missed, shown <- Shown

\* Event loop, deferral, handshake, clipping to bounding boxes, the cursor and
\* the freeing of records are invisible to a viewer: every step of the daemon
\* is one of the abstract daemon, or changes nothing a viewer could notice.
RefinesRemoteScreen == Remote!Safety

\* A modified pixel that a viewer asked for is sent, whatever the other
\* viewers and the screen do, unless the connection ends or the daemon exits.
RequestAnswered == Remote!Answered

\* A closed connection's record is freed, also when rfbShutdownServer closed
\* it from inside another client's message handler.
ClosedIsForgotten ==
  \A c \in Clients :
    c \in clients \ open ~> (c \notin clients \/ phase = "exited")
=============================================================================
