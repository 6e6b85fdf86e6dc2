---------------------------- MODULE FrameCapture ----------------------------
(***************************************************************************)
(* The capture of the device's screen (opsaivncserver.c).  For each frame  *)
(* private_fb_create starts NUM_CPU threads that pread one stripe each of  *)
(* /dev/graphics/fb0 into raw, and private_fb returns without waiting for  *)
(* any of them, so update_screen compares raw with fbbuf while threads of  *)
(* this frame and of earlier ones still write it.                          *)
(*                                                                         *)
(* Buffers are divided into lines of 1280 bytes, the unit in which the     *)
(* stripes are computed.  A pread copies line by line, reading the device  *)
(* before it writes raw, and the loop of update_screen compares a line at  *)
(* a time.  The screen shows in line l some <<l, v>>, so a value tells     *)
(* where it was displayed.                                                 *)
(***************************************************************************)
EXTENDS Integers, Functions

CONSTANTS
  NumCpu,      \* NUM_CPU
  Lines,       \* the 4 * 800 lines that the stripes are cut from
  RawLines,    \* the lines of raw, raw_size / 1280, which main compares
  Values,      \* what a line can show
  MaxLive      \* bound: threads alive at once

ASSUME CaptureAssumption ==
  NumCpu \in Nat \ {0} /\ Lines \in Nat /\ RawLines \in Nat

\* The display is not smaller than the 1280 x 800 pixels of four bytes written
\* into the source.  Nothing in the code makes sure of it: raw_size is what
\* the device reports, and the stripes do not depend on it.
ASSUME DisplayAssumption == Lines <= RawLines

ASSUME LiveAssumption == MaxLive \in Nat /\ 2 * NumCpu <= MaxLive

Ids == 0..(NumCpu - 1)
RawCells == 0..(RawLines - 1)

\* The macro Y, with the number of lines in place of 4 * 800.
Y == Lines \div NumCpu

\* The lines that thread id copies: 1280 * Y bytes at offset 1280 * (Y * id).
Stripe(id) == (Y * id)..(Y * (id + 1) - 1)

Captured == UNION {Stripe(id) : id \in Ids}

Shown(l) == {<<l, v>> : v \in Values}

Screens == {[l \in RawCells |-> <<l, s[l]>>] : s \in [RawCells -> Values]}

Nothing == <<-1, 0>>   \* a thread that has not read its line yet
Garbage == <<-1, 1>>   \* what malloc left in raw
Black == <<-1, 2>>     \* what calloc left in fbbuf

\* A thread: its number, the line it is at, and what it has read there.
StatesAt(i, l) == [id : {i}, line : {l}, buf : Shown(l) \cup {Nothing}]

ThreadStates == UNION {UNION {StatesAt(i, l) : l \in Stripe(i)} : i \in Ids}

Start(id) == [id |-> id, line |-> Y * id, buf |-> Nothing]

VARIABLES
  screen,    \* what the device shows (external)
  watched,   \* clientHead # NULL (external)
  raw,       \* the capture buffer, shared by main and all threads
  fbbuf,     \* the comparison buffer
  live,      \* how many threads are in each thread state
  compared   \* how many lines main has compared with the current frame;
             \* RawLines between two frames

vars == <<screen, watched, raw, fbbuf, live, compared>>

TypeOK ==
  /\ screen \in Screens
  /\ watched \in BOOLEAN
  /\ live \in [ThreadStates -> Nat]
  /\ compared \in 0..RawLines

-----------------------------------------------------------------------------
\* Defect: the last thread is not created.
StartedButLast(threads) ==
  [t \in ThreadStates |->
     IF t \in {Start(i) : i \in Ids \ {NumCpu - 1}} THEN threads[t] + 1 ELSE threads[t]]

\* pthread_create for every number.  The handles go into a new array each
\* time, so nothing ever joins a thread.
Started(threads) ==
  [t \in ThreadStates |->
     IF t \in {Start(i) : i \in Ids} THEN threads[t] + 1 ELSE threads[t]]

Ended(from) == [live EXCEPT ![from] = @ - 1]

Moved(from, to) == [Ended(from) EXCEPT ![to] = @ + 1]

LiveThreads == FoldFunction(LAMBDA m, n : m + n, 0, live)

\* init_private_fb starts a set of threads, and the private_fb call after it
\* a second one.
Init ==
  /\ screen \in Screens
  /\ watched = FALSE
  /\ raw = [l \in RawCells |-> Garbage]
  /\ fbbuf = [l \in RawCells |-> Black]
  /\ live = Started(Started([t \in ThreadStates |-> 0]))
  /\ compared = RawLines

\* The device draws, viewers come and go.
Draw(l, v) ==
  /\ screen' = [screen EXCEPT ![l] = <<l, v>>]
  /\ UNCHANGED <<watched, raw, fbbuf, live, compared>>

Watch ==
  /\ watched' = ~watched
  /\ UNCHANGED <<screen, raw, fbbuf, live, compared>>

\* update_screen calls private_fb, at the top of the main loop.
StartFrame ==
  /\ compared = RawLines /\ watched
  /\ LiveThreads + NumCpu <= MaxLive
  /\ live' = Started(live)
  /\ compared' = 0
  /\ UNCHANGED <<screen, watched, raw, fbbuf>>

\* Defect: the pointers advance by the four bytes of a pixel.
AdvanceBytes(n) == n + 4

\* f++, c++ and r++.
Advance(n) == n + 1

\* The comparison of one line, whatever the threads have put there so far.
CompareLine ==
  /\ compared < RawLines
  /\ fbbuf' = [fbbuf EXCEPT ![compared] = raw[compared]]
  /\ compared' = Advance(compared)
  /\ UNCHANGED <<screen, watched, raw, live>>

\* private_fb_read: pread reads a line of the device ...
ReadLine(t) ==
  /\ live[t] > 0 /\ t.buf = Nothing
  /\ live' = Moved(t, [id |-> t.id, line |-> t.line, buf |-> screen[t.line]])
  /\ UNCHANGED <<screen, watched, raw, fbbuf, compared>>

\* Defect: every pread writes to the start of raw.
TargetAtStart(t) == t.line - Y * t.id

\* Defect: the stripes are put at the end of raw.
TargetFromEnd(t) == t.line + (RawLines - Lines)

\* The line of raw that a pread writes: the destination is offset by as much
\* as the source.
Target(t) == t.line

\* ... and writes it to raw later, over whatever is there by then.
WriteLine(t) ==
  /\ live[t] > 0 /\ t.buf # Nothing
  /\ raw' = [raw EXCEPT ![Target(t)] = t.buf]
  /\ live' = IF t.line + 1 \in Stripe(t.id)
             THEN Moved(t, [id |-> t.id, line |-> t.line + 1, buf |-> Nothing])
             ELSE Ended(t)
  /\ UNCHANGED <<screen, watched, fbbuf, compared>>

Main == StartFrame \/ CompareLine
Thread(t) == ReadLine(t) \/ WriteLine(t)

Next ==
  \/ \E l \in RawCells, v \in Values : Draw(l, v)
  \/ Watch
  \/ Main
  \/ \E t \in ThreadStates : Thread(t)

\* The kernel schedules main and every thread.
Spec == Init /\ [][Next]_vars /\ WF_vars(Main)
             /\ \A t \in ThreadStates : WF_vars(Thread(t))

-----------------------------------------------------------------------------
(* Properties. *)

\* However late the threads of earlier frames write, a line of raw or fbbuf
\* holds something the device showed in that very line, or its initial value:
\* the stripes are read from and written to the same place.
LinesInPlace ==
  \A l \in RawCells : /\ raw[l] \in Shown(l) \cup {Garbage}
                      /\ fbbuf[l] \in Shown(l) \cup {Garbage, Black}

\* If the screen stops changing while a viewer stays, the comparison buffer
\* ends up equal to the screen, wherever a stripe reaches, and stays so,
\* although no frame waits for its threads and a stale one may still overwrite
\* newer lines.
CatchesUp ==
  (<>[][FALSE]_screen /\ <>[]watched)
    => <>[](\A l \in Captured : fbbuf[l] = screen[l])
=============================================================================
