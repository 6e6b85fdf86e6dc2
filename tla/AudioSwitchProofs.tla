------------------------- MODULE AudioSwitchProofs --------------------------
(***************************************************************************)
(* The toggles and the file agree, for any number of speakers, and a media *)
(* server that is out of date was missed by a kill, whichever calls of the *)
(* listeners fail.  The first invariant has to say what a click that is    *)
(* under way will leave in the file: the last listener to run writes the   *)
(* address of the speaker that is on, and what a listener has written is   *)
(* what it was to write.                                                   *)
(***************************************************************************)
EXTENDS AudioSwitch, FiniteSetTheorems, SequenceTheorems, TLAPS

\* The tail of a longer sequence ends as the sequence does.
LEMMA TailKeepsLast ==
  ASSUME NEW S, NEW q \in Seq(S), q # <<>>, Len(q) # 1
  PROVE  Tail(q) # <<>> /\ Tail(q)[Len(Tail(q))] = q[Len(q)]
<1> DEFINE n == Len(q)
           m == Len(Tail(q))
<1>1. n \in Nat \ {0}
  BY EmptySeq
<1>2. /\ m = n - 1
      /\ \A i \in 1..m : Tail(q)[i] = q[i + 1]
  BY HeadTailProperties
<1> HIDE DEF n
<1>3. m \in 1..m /\ m + 1 = n /\ m # 0
  <2> HIDE DEF m
  <2> QED  BY <1>1, <1>2 DEF n
<1>4. Tail(q) # <<>>
  BY <1>3, EmptySeq
<1> QED  BY <1>2, <1>3, <1>4 DEF n

LEMMA TypeInit == Init => TypeOK
<1> SUFFICES ASSUME Init PROVE TypeOK
  OBVIOUS
<1>1. kills \in [Pids \cup {None} -> 0..MaxShells]
  BY MaxShellsAssumption DEF Init
<1>2. runs \in Seq(Addresses)
  BY DEF Init
<1>3. toggle \in [Speakers -> BOOLEAN]
  BY DEF Init
<1> QED  BY <1>1, <1>2, <1>3 DEF Init, TypeOK

\* A click leaves at least one address to be written, and the last one is
\* that of the speaker it switches on.
LEMMA ListenersWrite ==
  ASSUME TypeOK, NEW s \in Speakers
  PROVE  /\ Listeners(s) \in Seq(Addresses) /\ Listeners(s) # <<>>
         /\ ~toggle[s] => Listeners(s)[Len(Listeners(s))] = Address[s]
<1> DEFINE n == Cardinality({o \in Speakers : toggle[o]})
           offs == [i \in 1..n |-> Off]
<1>1. n \in Nat
  BY SpeakerAssumption, FS_Subset, FS_CardinalityType
<1>2. offs \in Seq(Addresses) /\ Len(offs) = n
  BY <1>1, SpeakerAssumption
<1>3. <<Address[s]>> \in Seq(Addresses) /\ <<Off>> \in Seq(Addresses)
  BY SpeakerAssumption
<1>4. Listeners(s) = IF toggle[s] THEN <<Off>> ELSE offs \o <<Address[s]>>
  BY DEF Listeners
<1> HIDE DEF n, offs
<1>5. LET l == offs \o <<Address[s]>> IN
        /\ l \in Seq(Addresses) /\ Len(l) = n + 1 /\ l[Len(l)] = Address[s]
  BY <1>1, <1>2, <1>3
<1>6. offs \o <<Address[s]>> # <<>>
  BY <1>1, <1>5
<1> QED  BY <1>3, <1>4, <1>5, <1>6

LEMMA TypeStep == TypeOK /\ [Next]_vars => TypeOK'
<1> SUFFICES ASSUME TypeOK, [Next]_vars PROVE TypeOK'
  OBVIOUS
<1> USE DEF TypeOK
<1>1. ASSUME NEW s \in Speakers, Click(s) PROVE TypeOK'
  <2>1. Listeners(s) \in Seq(Addresses)
    BY ListenersWrite
  <2>2. TogglesAfter(s) \in [Speakers -> BOOLEAN]
    BY DEF TogglesAfter
  <2> QED  BY <1>1, <2>1, <2>2 DEF Click
<1>2. CASE Reopen
  BY <1>2 DEF Reopen
<1>3. CASE Rotate
  <2>1. \A s \in Speakers : <<Address[s]>> \in Seq(Addresses)
    BY SpeakerAssumption
  <2> QED  BY <1>3, <2>1 DEF Rotate
<1>4. ASSUME NEW s \in {"pgrep", "open", "write", "kill"}, Does(s)
      PROVE  /\ runs' \in Seq(Addresses) /\ step' \in {"pgrep", "open", "write", "kill"}
             /\ Head(runs) \in Addresses
  BY <1>4 DEF Does, GoesOn, After
<1>5. CASE Pgrep \/ Open \/ Write
  BY <1>4, <1>5 DEF Pgrep, Open, Write
<1>10. CASE WriteFails
  BY <1>10 DEF WriteFails, GoesOn, AfterFailure
<1>11. CASE Crash
  BY <1>11 DEF Crash
<1>6. CASE StartShell
  <2>1. kills' \in [Pids \cup {None} -> 0..MaxShells]
    BY <1>6, MaxShellsAssumption DEF StartShell
  <2> QED  BY <1>4, <1>6, <2>1 DEF StartShell
<1>7. ASSUME NEW p \in Pids \cup {None}, Kill(p) PROVE TypeOK'
  <2>1. kills' \in [Pids \cup {None} -> 0..MaxShells]
    BY <1>7, MaxShellsAssumption DEF Kill, ShellsLeft
  <2> QED  BY <1>7, <2>1 DEF Kill, uiVars
<1>12. ASSUME NEW p \in Pids \cup {None}, Refused(p) PROVE TypeOK'
  <2>1. kills' \in [Pids \cup {None} -> 0..MaxShells]
    BY <1>12, MaxShellsAssumption DEF Refused, ShellsLeft
  <2> QED  BY <1>12, <2>1 DEF Refused, uiVars
<1>8. CASE Restart
  BY <1>8 DEF Restart, uiVars
<1>9. CASE UNCHANGED vars
  BY <1>9 DEF vars, uiVars
<1> QED
  BY <1>1, <1>2, <1>3, <1>5, <1>6, <1>7, <1>8, <1>9, <1>10, <1>11, <1>12
  DEF Next, User, Listener, System, Shell

\* The program's state keeps its types, for any set of speakers.
THEOREM TypeCorrect == Spec => []TypeOK
  BY TypeInit, TypeStep, PTL DEF Spec

-----------------------------------------------------------------------------
(* The file follows the toggles. *)

\* The listener that runs last writes the address of the speaker that is on.
LastWordIsRight ==
  runs # <<>> => \A s \in Speakers : toggle[s] => runs[Len(runs)] = Address[s]

\* A listener that is about to kill has written what it was to write, if it
\* could.
WrittenIsDue == step = "kill" => file = runs[1] \/ failed

\* Between clicks no listener is half done.
IdleAtStart == runs = <<>> => step = "pgrep"

FileInv == FileFollowsToggle /\ LastWordIsRight /\ WrittenIsDue /\ IdleAtStart

LEMMA FileInit == Init => FileInv
  BY DEF Init, FileInv, FileFollowsToggle, LastWordIsRight, WrittenIsDue, IdleAtStart

LEMMA FileStep == TypeOK /\ FileInv /\ [Next]_vars => FileInv'
<1> SUFFICES ASSUME TypeOK, FileInv, [Next]_vars PROVE FileInv'
  OBVIOUS
<1> USE DEF FileInv, FileFollowsToggle, LastWordIsRight, WrittenIsDue, IdleAtStart
<1>1. ASSUME NEW s \in Speakers, Click(s) PROVE FileInv'
  <2>1. /\ toggle' = TogglesAfter(s) /\ runs' = Listeners(s)
        /\ step' = "pgrep"
    BY <1>1 DEF Click
  <2>2. /\ Listeners(s) # <<>>
        /\ ~toggle[s] => Listeners(s)[Len(Listeners(s))] = Address[s]
    BY ListenersWrite
  <2>3. \A o \in Speakers : toggle'[o] <=> (o = s /\ ~toggle[s])
    BY <2>1 DEF TogglesAfter
  <2> QED  BY <2>1, <2>2, <2>3
<1>2. CASE Reopen
  BY <1>2 DEF Reopen
<1>3. CASE Rotate
  <2>1. PICK s \in Speakers : toggle[s] /\ runs' = <<Address[s]>>
    BY <1>3 DEF Rotate
  <2>2. runs' # <<>> /\ runs'[Len(runs')] = Address[s]
    BY <2>1
  <2>3. toggle' = toggle /\ step' = "pgrep"
    BY <1>3 DEF Rotate
  <2> QED  BY <2>1, <2>2, <2>3
<1>4. CASE Pgrep
  <2>1. runs' = runs /\ runs # <<>> /\ step' = "open" /\ UNCHANGED <<toggle, file>>
    BY <1>4 DEF Pgrep, Does, GoesOn, After
  <2> QED  BY <2>1
<1>5. CASE Open
  <2>1. runs' = runs /\ runs # <<>> /\ step' = "write" /\ UNCHANGED toggle
    BY <1>5 DEF Open, Does, GoesOn, After
  <2> QED  BY <2>1
<1>6. CASE Write
  <2>1. /\ runs' = runs /\ runs # <<>> /\ step' = "kill" /\ UNCHANGED toggle
        /\ file' = Head(runs) /\ Head(runs) = runs[1]
    BY <1>6 DEF Write, Does, GoesOn, After, TypeOK
  <2> QED  BY <2>1
<1>7. CASE StartShell
  <2>1. /\ runs' = Tail(runs) /\ runs # <<>> /\ step = "kill" /\ step' = "pgrep"
        /\ UNCHANGED <<toggle, failed, file>>
    BY <1>7 DEF StartShell, Does, GoesOn, After
  <2>2. CASE Len(runs) = 1
    <3>1. runs' = <<>> /\ (file = runs[Len(runs)] \/ failed)
      BY <2>1, <2>2 DEF TypeOK
    <3> QED  BY <2>1, <3>1
  <2>3. CASE Len(runs) # 1
    <3>1. Tail(runs) # <<>> /\ Tail(runs)[Len(Tail(runs))] = runs[Len(runs)]
      BY <2>1, <2>3, TailKeepsLast DEF TypeOK
    <3> QED  BY <2>1, <3>1
  <2> QED  BY <2>2, <2>3
<1>8. CASE WriteFails
  <2>1. /\ runs' = runs /\ runs # <<>> /\ step' = "kill" /\ UNCHANGED toggle
        /\ failed'
    BY <1>8 DEF WriteFails, GoesOn, AfterFailure
  <2> QED  BY <2>1
<1>9. CASE Crash
  <2>1. /\ \A s \in Speakers : ~toggle'[s]
        /\ runs' = <<>> /\ step' = "pgrep"
    BY <1>9 DEF Crash
  <2> QED  BY <2>1
<1>10. CASE UNCHANGED <<toggle, runs, step, failed, file>>
  BY <1>10
<1> QED
  BY <1>1, <1>2, <1>3, <1>4, <1>5, <1>6, <1>7, <1>8, <1>9, <1>10
  DEF Next, User, Listener, System, Shell, Kill, Refused, Restart, vars, uiVars

\* However many speakers there are and however they are clicked, at most one
\* is on, and the file a quiet application leaves names it, unless the last
\* write failed.
THEOREM FileSafe == Spec => []FileFollowsToggle
<1>1. FileInv => FileFollowsToggle
  BY DEF FileInv
<1> QED  BY <1>1, FileInit, FileStep, TypeCorrect, PTL DEF Spec

-----------------------------------------------------------------------------
(* What keeps the media server out of date. *)

\* A media server that is out of date has a kill coming, or was missed by one.
KillComing ==
  pid # None /\ uses # file =>
    missed \/ runs # <<>> \/ \E p \in Pids \cup {None} : kills[p] > 0

LEMMA KillInit == Init => KillComing
  BY DEF Init, KillComing

LEMMA KillStep == TypeOK /\ KillComing /\ [Next]_vars => KillComing'
<1> SUFFICES ASSUME TypeOK, KillComing, [Next]_vars PROVE KillComing'
  OBVIOUS
<1> USE DEF KillComing
<1>1. ASSUME NEW s \in Speakers, Click(s) PROVE KillComing'
  <2>1. runs' # <<>>
    BY <1>1, ListenersWrite DEF Click
  <2> QED  BY <2>1
<1>2. CASE Reopen
  BY <1>2 DEF Reopen
<1>3. CASE Rotate
  <2>1. PICK s \in Speakers : runs' = <<Address[s]>>
    BY <1>3 DEF Rotate
  <2>2. runs' # <<>>
    BY <2>1
  <2> QED  BY <2>2
<1>4. CASE Pgrep \/ Open \/ Write \/ WriteFails
  <2>1. runs' = runs /\ runs # <<>>
    BY <1>4 DEF Pgrep, Open, Write, WriteFails, Does, GoesOn, After, AfterFailure
  <2> QED  BY <2>1
<1>5. CASE StartShell
  <2>1. result \in Pids \cup {None} /\ kills'[result] > 0
    BY <1>5, MaxShellsAssumption DEF StartShell, TypeOK
  <2> QED  BY <2>1
<1>6. ASSUME NEW p \in Pids \cup {None}, Kill(p) PROVE KillComing'
  BY <1>6 DEF Kill
<1>9. ASSUME NEW p \in Pids \cup {None}, Refused(p) PROVE KillComing'
  BY <1>9 DEF Refused
<1>10. CASE Crash
  BY <1>10 DEF Crash
<1>7. CASE Restart
  BY <1>7 DEF Restart
<1>8. CASE UNCHANGED vars
  BY <1>8 DEF vars, uiVars
<1> QED
  BY <1>1, <1>2, <1>3, <1>4, <1>5, <1>6, <1>7, <1>8, <1>9, <1>10
  DEF Next, User, Listener, System, Shell

\* On a quiet device the media server has what the file holds, or else a kill
\* was lost: it came for a pid that was gone, or no root shell carried it out.
THEOREM StaleSafe == Spec => []StaleOnlyByMissedKill
<1>1. TypeOK /\ KillComing => StaleOnlyByMissedKill
  BY DEF TypeOK, KillComing, StaleOnlyByMissedKill, Settled
<1> QED  BY <1>1, KillInit, KillStep, TypeCorrect, PTL, TypeInit, TypeStep DEF Spec
=============================================================================
