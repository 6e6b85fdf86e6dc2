# oPsai in TLA+

oPsai shows an Android tablet's screen to VNC viewers and lets them drive it.
This directory holds TLA+ models of its daemon and its app, the TLC configurations
that check them on small instances, and proofs of the main safety properties for
every value of the parameters.  Paths below are relative to the repository.

## The system

| Part | Code | State | Operations |
|---|---|---|---|
| Main loop | `jni/opsai-vnc/opsaivncserver.c` `main` | none of its own | `rfbProcessEvents`, `update_screen`, for ever |
| Screen capture | `private_fb_create`, `private_fb_read`, `private_fb` | `raw`, shared with four threads per frame that nobody joins | start the threads, `pread` a stripe |
| Change detection | `update_screen` | `fbbuf` (comparison buffer), `vncbuf` (what viewers get), `varblock` (bounding box) | compare, copy, convert, mark |
| Event loop | LibVNCServer `main.c`, `sockets.c` | `listenSock`, the list of client records | accept, handle a message, one turn per client, free closed records |
| Client connection | LibVNCServer `rfbserver.c`, `auth.c` | `sock`, `state`, `modifiedRegion`, `requestedRegion`, `startDeferring` | handshake, update request, send, close |
| Input | `inputMethods/input.c`, `suinput/suinput.c` | `pointerClient`, the statics of `ptrEvent`, the uinput device | pointer event, key event |
| Regions | LibVNCServer `rfbregion.c` | linked lists of vertical spans, each with a list of horizontal ones | union, intersection, difference, iterate |
| Encoders | LibVNCServer `tight.c`, `corre.c`, `ultra.c`, `zlib.c` | the rectangle at hand | cut, look for solid areas, count |
| Server control | `ServerManager.java`, `MainActivity.java` | processes found with `pgrep`, a notification, root shells | start, kill |
| Audio switch | `MainActivity.java` | three toggles, a file with an address, the media server's process, root shells | toggle |
| Resource list | `WakeUpReceiver.java`, `ScreenService.java`, `ResListActivity.java` | registered receivers, the service's queue, the list shown | screen on, query, choose |
| Resource client | `jni/opsai-tcp/tcpserver.c`, `ifaddrs.c` | one TCP connection, netlink sockets | LIST, request a display, find the own address |
| Tools | `jni/screenshot`, `jni/opsai-zmq`, the shell scripts | none | one-shot programs |

The daemon is one thread plus the capture threads.  The thread waits in
`rfbCheckFds` for connections and messages, handles as many as there are until
`select` times out (`handleEventsEagerly`), gives every client record a turn
(`rfbUpdateClient`, and `rfbClientConnectionGone` for closed ones), captures
the screen, compares it with the previous frame, marks one rectangle as
modified for every open client, and runs the event loop once more if something
changed.  Input handlers run inside the message handlers; one key shuts the
server down from there, another exits the process.

The app runs beside the daemon.  It knows of the daemon only what `pgrep`
prints, and starts and kills it through root shells that it does not wait for;
it restarts the media server in the same way after it has written the address
of a speaker into a file.  When the screen is turned on, a broadcast receiver
starts a service, the service runs the TCP client and reads what it prints, and
a list of displays comes up from which the daemon is started.

What is hard about it: the capture buffer is read while late threads write it;
a change that is not marked is forgotten, because the comparison buffer already
has it; requests, closes and deferrals interleave between two turns of a
client; a closed record lives on until its turn; the input statics outlive the
connection they belong to; the number of rectangles is announced before the
encoders cut them; the app's shells act on pids that were looked up earlier; an
answer over TCP may end anywhere.  `PROJECT.json` lists these hazards line by line
with the properties that cover them.

What makes each part correct: the capture puts each line where it was displayed
and ends up with the current screen; the scan marks what changed; no step
between the scan and the viewer loses a marked pixel; every request for
something modified is answered, once; every closed record is freed; a touch is
moved by one viewer, released when its button is, and nothing is down but what
the buttons hold; span lists stand for the right pixels, whatever operations
made them; an update is cut into as many rectangles as were announced, which
tile it; a daemon started alone listens, kills hit the oldest, and the button
gets rid of daemons started over one another; the media server ends up with the
address of the speaker that is on unless a step failed; the list shows what was
announced.

## The modules

| Module | Models | Notes |
|---|---|---|
| `DirtyRect` | `varblock`, `rfbMarkRectAsModified`, regions as sets of pixels | operators only; used by the next two |
| `ScreenScan` | the loop of `update_screen`, pixel by pixel | every set of changed pixels is an initial state |
| `RfbServer` | main loop, event loop, client records, deferred updates, `SetEncodings`, the drawn cursor, viewers' pictures | a handler, a client's turn and a scan are one step each |
| `RemoteScreen` | what the daemon promises: a picture, viewers, requests, answers | abstract; `RfbServer` implements it |
| `SpanRegion` | `rfbregion.c`: span lists and the walks over them | a step is a round of a walk's loop, or the return of a call |
| `PixelSets` | the same with regions as sets of pixels | abstract; `SpanRegion` implements it |
| `RectSplit` | how Raw, CoRRE, Ultra, Zlib and Tight count and cut the rectangles of an update | one step is a round of a loop or the start of a call |
| `FrameCapture` | capture threads against the comparing main thread | a line of 1280 bytes is the unit of a step |
| `InputEvents` | `pointerClient`, `ptrEvent`, `keyEvent`, uinput | the kernel's device is external |
| `ServerControl` | `startServer`, `killServer`, the kill button, the daemons and their port | root shells are external |
| `AudioSwitch` | the toggles' listeners, the file, the root shells, the media server | Android's and init's parts are external |
| `ResourceList` | receivers, `ScreenService`, the TCP client's output, the list, the choice | Android's part is external |
| `...Proofs` | theorems about the module they are named after | seven of them; `RfbServerProofs` and `SpanRegionProofs` also have the refinements of `RemoteScreen` and `PixelSets` |
| `AppProofs` | theorems about `ResourceList` and `ServerControl` | it extends both |
| `MC...` | TLC instances | |

`map` in `PROJECT.json` names the lines behind every definition.  The main
correspondences:

* `RfbServer`.  `phase` says whether the thread is in `rfbCheckFds` ("events"),
  in the loop over the clients, or about to scan; `call` says which of the
  three call sites of `rfbProcessEvents` it will return to.  `clients` is the
  list at `clientHead`, `open` the records whose `sock` is not -1: closing and
  freeing are different steps, as in the code.  `deferring` is
  `startDeferring.tv_usec # 0`.  The clock is a choice between `KeepDeferring`
  and the steps that need the time to be over.  `UpdateScreen(frame)` takes an
  arbitrary frame: that covers everything `FrameCapture` can put into `raw`.
  `view` is the picture of a viewer that has read all it was sent, `lost` a
  history of the pixels whose change was not marked.  `SetEncodings` resets who
  draws the cursor, and an update may consist of pseudo-rectangles only: it
  uses up the request and brings no pixel.
* `RemoteScreen`.  The refinement mapping hides everything a viewer cannot
  notice: event loop, deferral, handshake, closed records.  `owed` is the
  modified region of an open connection, `asked` its requested region,
  `missed` the pixels of `lost`.
* `DirtyRect`.  `rfbMarkRectAsModified` orders its corners before it clips
  them, and `sraRgnCreateRect` does not order them again.  A box whose top was
  never recorded (9999) therefore becomes a rectangle upside down.  It makes a
  region non-empty and covers nothing; the element `Inverted` stands for it.
* `SpanRegion`.  A region is a sequence of records `start`, `end`, `subspan`,
  as in the linked list.  `sraSpanListOr`, `sraSpanListAnd` and
  `sraSpanListSubtract` call themselves on the lists of two spans: `walks` is
  the stack of these calls, the innermost first (rows, columns, and `NULL` for
  the columns' own lists).  A call has the list that it changes in two parts,
  before `d_curr` (`done`) and from it on (`rest`), and what is left of the
  other list (`src`, with `s_start` cut off at its head); inserting, splitting,
  removing and merging spans move what is where as they move the pointers.
  `Or`, `And` and `Subtract` are one round of their loops up to the call of
  itself, `Combined` the rest of the round after it.  `task` says what the
  outermost call is for, `operand` what it adds, keeps or takes away.  A send
  is two operations, an intersection and a difference, before the header is
  written (`Announce`); a request that is not incremental is two unions.  A new
  client has the whole screen to be sent.  The mapping to `PixelSets` is the
  set of pixels between the edges, which changes when an operation ends.
  Inverted rectangles are among the inputs, and so are requests without width
  or height, which `rectSwapIfLEAndClip` lets through: they put spans into the
  lists that cover nothing and may get into an update as rectangles of their
  own.  `flat` is a history of whether one was ever asked for.
* `RectSplit`.  `Announced` is the sum that `rfbSendFramebufferUpdate` computes
  for the header, before it is cut to the header's 16 bits and the copied and
  pseudo-rectangles are added; `sent` is the sequence of rectangle headers
  written.  The encoders call each other and themselves: `calls` is the stack of
  the calls still to be made, and a loop (Tight's over the rows of tiles,
  `SendRectSimple`'s two, Ultra's and Zlib's over the lines) is a call of itself
  for what its next rounds are to do.  A frame of `TileRows` also has the row of
  tiles it has come to.  The colours of a picture matter only to Tight's search
  for solid areas.  The rectangles of an update have width and height here;
  what the encoders make of an empty one, which a viewer gets only by asking
  for one, is left out.
* `FrameCapture`.  `live` counts the threads in each state, since any number of
  frames' threads may be running.  A thread reads a line from the device and
  writes it to `raw` in two steps; `compared` is the line that `update_screen`
  is at.  `DisplayAssumption`, that the display has as many lines as the
  stripes take, is an assumption on the device: the stripes are cut from
  constants and nothing compares them with `raw_size`.
* `InputEvents`.  `device.down` is the kernel's key state, `unsynced` what was
  written since the last `SYN_REPORT`.  The kernel drops an event that changes
  nothing.  Columns are whatever a viewer may send, inside the screen or not;
  `AbsX` is the range that `suinput_open` declares.  `gesture`, `typed` and
  `tapped` are history.  `F11` and `F12` are
  `DisconnectKey` and `ExitKey` of `RfbServer`; in the code they too work only
  if a uinput device was opened, which is left to the viewer's choice there.
* `ServerControl` (its `ServerInit`, `ServerNext` and so on are named so that
  `AppProofs` can extend it beside `ResourceList`).  `daemons` lists the daemons in the order of their start,
  each "starting", "listening", "deaf" (alive without a listening socket) or
  "gone"; a daemon that cannot bind the port is deaf, and so is one after F11.
  The kill button's handler asks `pgrep` twice, in two steps, and hands a pid
  to a shell that kills in a third.  Each of these may fail: `pgrep` cannot be
  run or prints nothing, `su` cannot be run, or root is refused.
* `AudioSwitch`.  `runs` is the stack of listeners that are due: `setChecked`
  runs the other toggles' listeners first.  `step` is how far the listener at
  its head is: pid looked up, file opened, file written.  A listener whose
  `FileWriter` or `write` throws goes on to the kill (`WriteFails`); one that
  cannot run `su` closes a stream that is null, which ends the app (`Crash`); a
  shell may be refused root (`Refused`).  `uses` is the address that the running
  media server has read.  `failed` is a history of whether the last listener
  could write, `missed` of kills that were lost: too late for their pid,
  refused, or never given to a shell.
* `ResourceList`.  `receivers` counts what `onResume` has registered,
  `deliveries` the calls of `onReceive` that are due, `intents` is the
  service's queue.  An output of the client is a number of whole lines and a
  part of the next one, since `recv` may return anything; `Reading` is what the
  service's `split` calls make of it.  A client that does not print "running"
  (it cannot be run, or ends before) gives no list (`NoList`); `silent`
  remembers that the last one did so.  `HashMapOrder` is the order in which the
  list shows a set of displays.

Operators whose comment begins with "Defect" are not part of the model.  Each
is a version of the definition after it with a mistake that would be easy to
make; replacing the definition by it must break the property named in
`mutants`.

## The runs

| Run | Instance | Shows |
|---|---|---|
| `scan` | 4 x 3 pixels, all 4096 sets of changes | `CoveredExactlyWhenCoverable`: a frame is marked completely exactly when its top changed row has three changed pixels and its last one a pixel that is not left of all before it; `ScanIsFold`: the loop computes the function that `RfbServer` uses |
| `pipeline` | one viewer, 3 x 1 pixels, two words, three lists of encodings, a cursor | `PictureAccounted`, `OwedUntilShown`, `OneUpdatePerRequest`, `RequestsAreNormal`, and `RefinesRemoteScreen` |
| `two_viewers` | two viewers, one pixel | liveness: `RequestAnswered`, `ClosedIsForgotten` |
| `stale_picture` | as `pipeline` | expected violation of `ModifiedRegionComplete`: a finding |
| `capture` | two threads per frame, two lines read of a buffer of three, two contents, up to five threads alive | `LinesInPlace`, `CatchesUp` |
| `input` | two viewers, the first column and one beyond the screen, seven keysyms | `GestureBelongsToOwner`, `TouchFollowsButton`, `ButtonsStayDown`, `TypedAsAsked`, `PointerGivenBack` |
| `pointer_mutex` | as `input` | expected violation of `GestureHasOneViewer`: a finding |
| `regions` | 3 x 3 pixels, three rectangles to mark and an inverted one, three to request, two of them empty | `WellFormed`, `SentOnce`, `RefinesPixelSets`; liveness: `WalksEnd` |
| `cutting` | every two-coloured picture of 3 x 5, 2 x 7, 4 x 4 and of two rectangles in 4 x 3; every size up to 13 x 13 in four encodings | `AsAnnounced`, `Tiles`, `SolidIsSolid`; deadlock is checked, so every update comes to its end |
| `audio` | two speakers, three pids; writes, shells and `su` may fail | `FileFollowsToggle`, `StaleOnlyByMissedKill`; liveness: `SpeakerPlays` |
| `daemons` | four daemons; shells may fail | `KillsInOrder`; liveness: `LoneStartListens`, `ButtonEndsAll` |
| `wake_up` | two displays, two receivers per activity, two deliveries and intents waiting | `ListIsPrefix`, `WakesUp` |

Bounds.

* 4 x 3 pixels hold a first row with three changes, a row between first and
  last, and a column on either side of any pixel; these are all the cases in
  the description of what is covered, and the theorem has every size.  Three
  pixels in a row are the fewest with which one frame can be marked in full,
  another in part and a third not at all; with two words a pixel can differ and
  return.  One viewer suffices for the safety properties because a client's
  regions are touched by its own messages, its own turn and the scan; two are
  there where one could hold up the other.  `ToRfb`, the conversion of a word
  to a viewer's pixel, is an arbitrary function.
* Two threads of two frames are the fewest that can overwrite each other across
  stripes and across frames; with `MaxLive` (five) at least two frames' threads
  are alive at once; the third line of `raw` is one that no thread reads.
* In 3 x 3 pixels the three rectangles that are marked miss each other or touch
  on a side, and share rows in part, so rows are split and merged and have one
  span or two; the request for the screen contains them all.  The two
  empty requests, one without width and one without height, lie inside and on
  the edge of what is marked.  `MaxRects` (2) makes the bounding box replace a
  list.  `MaxInverted` (1) keeps the lists finite.  The theorems have every
  screen, every rectangle and any number of inverted ones.
* `RectSplit`'s limits are scaled down with the pictures: tiles of two pixels
  in place of 16, rectangles of at most three columns or six pixels in Tight,
  two by two in CoRRE, six pixels of whole lines in Ultra and Zlib.  Sizes up
  to 13 pass each limit several times, with and without a remainder.
* A third toggle adds nothing but a name, since no two are ever on.  Three pids
  are one in use, one remembered by a listener and one by a shell; `MaxShells`
  (2) shells may be about to kill the same one.
* Four daemons: an old one, two started over it, and one after F11.
* Two displays give answers cut before, between and after lines.  `MaxReceivers`
  (2) is the first number with which one broadcast arrives twice; `MaxIntents`
  (2) bounds the deliveries and the queue.

`CHECK_DEADLOCK FALSE` is set where the system may stop: the daemon of
`RfbServer` can exit, `ScreenScan` ends with the frame, `FrameCapture` with `MaxLive` threads waits for one of them,
the daemons of `ServerControl` may all be
used up, and `AudioSwitch` and `ResourceList` at their bounds wait for the
environment.

Fairness.

* `RfbServer`: the thread keeps running (`WF` of `Daemon`; it contains the
  assumption that `select` times out in the end, that is, that the viewers
  pause for 100 ms at some time; a viewer that never does starves everything,
  see the hazard at `sockets.c:280`), and an update whose client gets a turn
  again and again is not deferred for ever (`SF`: 5 ms pass).
* `SpanRegion`: the thread goes on with the operation that it is in.
* `FrameCapture`: the kernel schedules main and each thread.
* `InputEvents`: a closed record gets its turn, which `ClosedIsForgotten` shows
  of `RfbServer`.
* `AudioSwitch`: the user interface thread goes on with a listener, each shell
  ends, having run its command or been refused, and init restarts the media
  server.  The safety properties need none of this.
* `ServerControl`: the kill button's handler goes on, the shells run, and a
  daemon finishes its initialisation.  `ButtonEndsAll` has premises of its own:
  no more starts, presses that reach a root shell again and again while a
  daemon lives, and a user who does not refuse root for ever.
* `ResourceList`: broadcasts are delivered, the service works its queue off,
  and the resource server answers or ends the connection, or the client fails; `recv` has no
  timeout, so nothing follows without the last.

Nothing is assumed of viewers, users or the device.

## Findings

* `update_screen` enters a changed pixel either as a new left edge or in the
  other three edges (`opsaivncserver.c:236`).  A frame in which only one pixel
  changes marks nothing that covers it, and `fbbuf` has the new value, so the
  viewer keeps the old picture until that place changes again or a viewer asks
  for a full update.  Run `stale_picture`; `CoverageExact` says for every
  screen which frames are affected.
* The touch of a viewer that disconnects with the button down stays down, and
  the press of the next viewer moves it.  Run `pointer_mutex`.

Some more that the models make visible, without a rule in the repository that
they would break: every `SetEncodings` message decides anew who
draws the cursor (`rfbserver.c:1975`), whatever cursor the viewer's picture holds
by then; a kill that is lost
leaves the media server with the address of the speaker before (`missed`), and
a file that cannot be written leaves the toggle on without its address
(`failed`); column 0 is mapped to -2048 and columns beyond the width to
positions above 2048, while `suinput_open` declares -2047 to 2048
(`DeclaredRangeExact`); the notification outlives the daemon; the position that the list sends is one of
the list as it was when it was tapped.

## What is proved

`RfbServerProofs` proves, for every set of clients, screen size, set of words
and conversion:

* `TypeCorrect`: `TypeOK` is inductive.
* `RequestsSafe`: `RequestsAreNormal` with `TypeOK` is inductive: a request is
  recorded only in the normal state, and a new or freed record has none.
* `PictureSafe`: `PictureAccounted` is inductive.  A scan changes `vncbuf` only
  where it adds to `modified` or `lost`; a send removes from both only what it
  shows; a new client has everything modified.
* `OneUpdateSafe`, `OwedSafe`: the two action properties, from the same
  invariants, with one step per action.

It also proves `ImplementsRemoteScreen`: `RfbServer`'s specification implies
`RefinesRemoteScreen`.  One lemma per kind of step says
which action of `RemoteScreen` it maps to (close, accept, request, send, scan);
every other step leaves the mapped variables alone (`Invisible`).  It needs
`TypeOK` and nothing else.

`ScreenScanProofs` proves, for every screen smaller than the sentinel:

* `TypeCorrect`, and `CoverageExact`: `CoveredExactlyWhenCoverable`.  The loop
  invariant `Describes` says what the box knows of the pixels visited: the left
  edge is the least column; right and bottom edge are the greatest column and
  row of the *recorded* pixels, those not left of all before them; the top edge
  is the first row with two of them, if there is one.  `InOrder` says that the
  pixels that still differ are the ones yet to be visited.  When the loops have
  ended, `BoxCovers` turns the box into conditions on every pixel, whichever
  way round the corners came out, and `TopRowRecorded` turns two recorded
  pixels in the top row into three changed ones.
* `ScanIsFoldSafe`: at every step the fold over the pixels from the box as it
  is gives the box of the whole frame (`FoldInv`).  The fold is a recursive
  function; its one equation, which is what the step needs, is shown by its
  least counterexample (`BoxExists`, `ScanUnfolds`).
* `DirtyExact`: when the loops have ended, what the update pipeline marks holds
  every changed pixel if and only if the frame is `Coverable`.

`RectSplitProofs` proves, for every update of rectangles with width and height,
every framebuffer, encoding and limit of the encoders:

* `TilesSafe` and `SolidSafe`.  `Tiles` speaks of what has been sent; inductive
  is the same of what has been sent and of the calls still to be made, taken
  together (`Inv`): the rectangles of the stack are apart from each other and
  from all that were sent, lie in rectangles that the iterator has yielded, and
  with those sent cover them.  So a step is right if the calls it pushes and
  the part it sends tile the rectangle it was called for: `Piled` says so,
  `CutByLines`, `CutByColumns` and `FiveParts` show it for the three ways to
  cut, and `CutKeeps` and `SendKeeps` take it to the invariant once for all
  encoders.  That an area has one colour is shown of `FindBestSolidArea` by the
  least row of tiles for which it fails (`BestFound`), and kept by
  `ExtendSolidArea` in each direction (`Extended`).
* `CountIsRight`: `AsAnnounced`.  `Left` says how many rectangles a call will
  send, by the formula that the header uses; `Owed` sums it over the stack.
  `CountInv` says that the rectangles counted for those yielded so far are those
  sent and those owed.  Per step it needs what integer division does when one
  part is cut off (`PartsCut`).  Tight's search, which sends rectangles that
  nobody counts, runs only if the number is not known (`Plain`).
That such an update is never cut into empty rectangles is a lemma
(`TypeCorrect`); it says nothing of an update that begins with one.  The search for the least counterexample stands in for induction
(`LeastElement`), and a sum is a function that is claimed to exist.

`FrameCaptureProofs` proves, for every number of threads and size of display:

* `StripesApart`, `StripesCover`: the stripes are disjoint and form one block
  from the start of `raw`.
* `StripesFit`: they lie inside `raw` if and only if the display has as many
  lines as they take, so `DisplayAssumption` asks for little more than the code
  needs (nothing more if the number of threads divides the lines).
* `TypeCorrect`, `LinesInPlaceSafe`, on such displays: a thread's state carries the number of its
  line (`ThreadFields`), and what it holds was shown in that line; that makes
  `LinesInPlace` inductive together with `TypeOK`.

`InputEventsProofs` proves, for every set of viewers, width and set of columns:

* `TouchSafe`, `ButtonsSafe`, `TypedSafe`: the three are inductive only together
  (`DeviceInv`), since a tap may use the code of a button and the statics decide
  what is written.  Lemmas say what pressing, releasing, tapping and reporting
  leave of the device, whatever it held before.
* `DeclaredRangeExact`: on a screen of at most 4096 columns exactly the columns
  1 to `Width` are mapped into the range that `suinput_open` declares.  Column 0
  and those beyond `Width` are not, so no invariant keeps positions in range.
* `TypeCorrect`, together with `DeviceInv`.
* `GestureSafe`: `GestureBelongsToOwner` with the fact that there is no gesture
  without a device, since the pointer changes hands without one.

`AudioSwitchProofs` proves, for any set of speakers, addresses and pids:

* `TypeCorrect`; `FileSafe`: `FileFollowsToggle` needs that the listener
  that runs last writes the address of the speaker that is on (`LastWordIsRight`), that a
  listener about to kill has written (`WrittenIsDue`) and that none is half
  done between clicks.
* `FileSafe` allows for a last listener that could not write.
* `StaleSafe`: a media server that is out of date has a kill coming, or one was
  lost (`KillComing`).  It holds whichever writes fail, since the listener goes
  on to the kill after a failure, and it is about every way to lose a kill.

`SpanRegionProofs` proves, for every screen, every rectangle marked on it, every
request that gets past `rectSwapIfLEAndClip`, empty or not, and any number of
inverted rectangles:

* `Invariant`: the inductive invariant `IInv`.  `Typed` says that the regions
  are lists (`Regions`) of spans in order, that only the modified one may hold
  inverted rectangles, which begin at the sentinel and so come last, and that
  every row has a list of columns that is not empty.  Spans without extent are
  `Allowed` only once the viewer has asked for a rectangle without width or
  height (`flat`).  `Walking` says of the
  calls under way, in the middle of splits and merges, what their lists stand
  for together: `Stands` is the result that the operation will have, pixel by
  pixel, in terms of `done`, `rest` and `src`.  `Going` is this at the top of a
  loop, `Cut` while a call waits for the one it has made, `Returned` the
  contract of the call that comes back, and `Stack` puts the levels together.
  `Computing` ties the two operations of a send to the regions, and
  `Announcing` the header to the update.
* Under it there is a lemma for each branch of the three loops
  (`OrInserted`, `OrCut`, `OrReturn`, ...) and for what it does to a list:
  `MergeFacts` (merging any number of neighbours keeps the order and what is
  covered), `IsolateFacts` (so does splitting).  They hold for any bound of
  the coordinates and any set of subspans, so the same lemmas serve the walk
  over rows and the walk over columns.
* `WellFormedSafe` and `SentOnceSafe` follow; empty spans and rectangles appear
  in them only if `flat`.  That `sraSpanListCount` and the
  iterator agree, and that rectangles of different spans are apart, is shown
  of the first `i` rows for every `i` (`ListedTo`); for the recursive functions
  that model them it is again by the least counterexample (`CountExists`,
  `RectsExist`).
* `ImplementsPixelSets`: a step of a walk is a stutter; an operation that ends
  is the step of `PixelSets` that it is for; `BBoxMade` is the bounding box.

`AppProofs` proves:

* of `ServerControl`, for any number of daemons, `ServerTypeCorrect` and
  `KillsInOrderSafe`, which is inductive with `ServerTypeOK`, because a pid is
  found only if it is the oldest alive and none comes to life again;
* of `ResourceList`, for every answer, order of the list and bound,
  `ListTypeCorrect` and `ListSafe`: every output, cut anywhere, is read as the
  front of the answer.

Assumptions: those named in the modules (a screen smaller than 9999 pixels each
way, a display of at least as many lines as the stripes are cut from, what
update_screen marks not empty, the empty word in `Words`, the
empty file not an address, a HashMap's order an enumeration of its keys, limits
of the encoders that are not zero with Tight's largest size at least its
largest width, and for `RectSplit` an update of rectangles that are not empty and
do not overlap).  The display and `RectSplit`'s update are the two that the code
does not make sure of.

Only model-checked: all liveness (`RequestAnswered`, `ClosedIsForgotten`,
`CatchesUp`, `PointerGivenBack`, `WalksEnd`, `SpeakerPlays`, `LoneStartListens`,
`ButtonEndsAll`, `WakesUp`): the prover does not reach fairness.  So that the walks over span
lists end is known of the instance only, and what they have computed when they
end of every screen.  TLC does not evaluate `IInv` of `SpanRegionProofs`, which
quantifies over all numbers; it checks what follows from it.

## Not modelled

* Of LibVNCServer: screen size, clipboard, file transfer and server identity
  messages; copy regions and scaling (the daemon uses neither); the bytes that
  a rectangle is encoded to, and write buffers (an update is sent whole or
  fails); UDP, HTTP and WebSockets; the `-passwd` options (the app starts the
  daemon without arguments).  The clock is nondeterministic.
* A failure of an update in mid-send closes the client (`SendFails`), as it does
  when a write fails.  An encoder that returns FALSE because of an error of its
  compression library also ends in `updateFailed` (`rfbserver.c:3007`), but
  leaves the client open with its request used up; libraries that fail are left
  out.  `SetEncodings` may bring news of the cursor's position also to a viewer
  that did not ask for its shape, which is more than the code does.
* Empty rectangles in the encoders, which arise only from empty requests.
* Of `rfbregion.c`: `sraRgnOffset`, `sraRgnPopRect` and the reverse iterator,
  which serve copy regions.
* `PIXEL_FB_TO_RFB` and the swap after it: one expression over the bits of a
  word, without state.  `ToRfb` stands for it.
* The leak of thread handles and of inverted rectangles is described in the
  hazards and not counted.
* `ifaddrs.c` is third-party code that stands in for a library function, one
  dialogue with the kernel in sequence;
  `zmqserver.c` is an earlier form of the TCP client that nothing starts; the
  server's half of `tcpserver.c` is never called; the screenshot tool converts
  one image in sequence; `gui.c` is not compiled.
* `jni/openssl`, `jni/libpng`, `jni/jpeg` and `jni/jpeg-turbo` are third-party
  libraries.  With LibVNCServer they are nearly all lines of the repository, so
  the mapped lines are a small share of it and a large one of the program's
  own.

## Plan

1. Done: all modules above, their runs, the two refinements and the theorems.
2. The bit arithmetic of the pixel conversion, and for which orders of the
   colour fields it is right.
3. The write buffer of an update (`ublen`), so that an update that fails in the
   middle has brought a part of its pixels.
4. Hextile and ZRLE, which keep colours from tile to tile.
