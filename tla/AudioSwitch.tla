---------------------------- MODULE AudioSwitch -----------------------------
(***************************************************************************)
(* The three speaker toggles of MainActivity.java.  A listener looks up    *)
(* the media server's pid, writes the speaker's address into the tinyalsa  *)
(* file and has a root shell kill the media server, which reads the file   *)
(* when it starts again.  Switching one toggle off from the listener of    *)
(* another runs that toggle's own listener first.  Listeners run on the    *)
(* user interface thread; the shells and the media server do not wait for  *)
(* it.  Every call a listener makes may fail: what it catches it passes    *)
(* over, and what it does not catch ends the application.                  *)
(***************************************************************************)
EXTENDS Naturals, FiniteSets, Sequences

CONSTANTS
  Speakers,    \* the toggles
  Addresses,
  Empty,       \* the contents of a file that was opened for writing
  Address,     \* what each toggle's listener writes when it is switched on
  Off,         \* what any of them writes when it is switched off
  Pids,        \* process numbers; as many as may be in use or remembered
  None,        \* pgrep printed nothing; no media server is running
  MaxShells    \* bound: root shells that are about to kill the same pid

ASSUME SpeakerAssumption ==
  /\ IsFiniteSet(Speakers)
  /\ Address \in [Speakers -> Addresses] /\ Off \in Addresses
  /\ Empty \notin Addresses

ASSUME PidAssumption == None \notin Pids

ASSUME MaxShellsAssumption == MaxShells \in Nat \ {0}

VARIABLES
  toggle,  \* isChecked of each toggle
  runs,    \* what the listeners of the current click are still to write
  step,    \* what the first of them does next
  result,  \* what its pgrep printed
  file,    \* the contents of the tinyalsa file
  kills,   \* how many root shells are about to kill each pid
  pid,     \* the media server's, or None while init restarts it
  uses,    \* the address the media server has read
  failed,  \* history: the listener that wrote last could not write the file
  missed   \* history: since the media server started a kill of it came too
           \* late, was refused or was never given to a shell

uiVars == <<toggle, runs, step, result, failed>>
vars == <<uiVars, file, kills, pid, uses, missed>>

TypeOK ==
  /\ toggle \in [Speakers -> BOOLEAN]
  /\ runs \in Seq(Addresses)
  /\ step \in {"pgrep", "open", "write", "kill"}
  /\ result \in Pids \cup {None}
  /\ file \in Addresses \cup {Empty}
  /\ kills \in [Pids \cup {None} -> 0..MaxShells]
  /\ pid \in Pids \cup {None}
  /\ uses \in Addresses \cup {Empty}
  /\ failed \in BOOLEAN
  /\ missed \in BOOLEAN

Init ==
  /\ toggle = [s \in Speakers |-> FALSE]
  /\ runs = <<>> /\ step = "pgrep" /\ result = None
  /\ file \in Addresses
  /\ kills = [p \in Pids \cup {None} |-> 0]
  /\ pid \in Pids
  /\ uses = file
  /\ failed = FALSE /\ missed = FALSE

-----------------------------------------------------------------------------
(* The activity. *)

\* Defect: the other toggles are switched off when the work is done.
ListenersOthersLast(s) ==
  IF toggle[s] THEN <<Off>>
  ELSE <<Address[s]>> \o [i \in 1..Cardinality({o \in Speakers : toggle[o]}) |-> Off]

\* What a click on s makes the listeners write, in order.  A listener that is
\* switched on calls setChecked(FALSE) on the others before anything else,
\* and that runs the listener of one that was on.
Listeners(s) ==
  IF toggle[s] THEN <<Off>>
  ELSE [i \in 1..Cardinality({o \in Speakers : toggle[o]}) |-> Off] \o <<Address[s]>>

\* Defect: only the clicked toggle changes.
TogglesAloneAfter(s) == [toggle EXCEPT ![s] = ~@]

TogglesAfter(s) == [o \in Speakers |-> o = s /\ ~toggle[s]]

Click(s) ==
  /\ runs = <<>>
  /\ toggle' = TogglesAfter(s)
  /\ runs' = Listeners(s)
  /\ UNCHANGED <<step, result, failed, file, kills, pid, uses, missed>>

\* onCreate of a new activity, after the old one was left: all toggles are off
\* and nothing is written.
Reopen ==
  /\ runs = <<>>
  /\ toggle' = [s \in Speakers |-> FALSE]
  /\ UNCHANGED <<runs, step, result, failed, file, kills, pid, uses, missed>>

\* The device is turned: the new activity's toggle is restored, which runs
\* its listener as a click does.
Rotate ==
  /\ runs = <<>>
  /\ \E s \in Speakers : toggle[s] /\ runs' = <<Address[s]>>
  /\ UNCHANGED <<toggle, step, result, failed, file, kills, pid, uses, missed>>

\* Defect: the media server is killed before the file is written.
AfterWithEarlyKill == [pgrep |-> "kill", kill |-> "open", open |-> "write", write |-> "pgrep"]

\* The order of a listener's steps.
After == [pgrep |-> "open", open |-> "write", write |-> "kill", kill |-> "pgrep"]

\* The first listener goes on to its step t; after the last one it returns.
GoesOn(t) ==
  /\ runs # <<>>
  /\ step' = t
  /\ runs' = IF t = "pgrep" THEN Tail(runs) ELSE runs

Does(s) == step = s /\ GoesOn(After[s])

\* runCommand returns an empty string when pgrep cannot be run.
Pgrep ==
  /\ Does("pgrep")
  /\ result' \in {pid, None}
  /\ failed' = FALSE
  /\ UNCHANGED <<toggle, file, kills, pid, uses, missed>>

\* new FileWriter(f, false) truncates the file; close() writes to it.
Open ==
  /\ Does("open")
  /\ file' = Empty
  /\ UNCHANGED <<toggle, result, failed, kills, pid, uses, missed>>

Write ==
  /\ Does("write")
  /\ file' = Head(runs)
  /\ UNCHANGED <<toggle, result, failed, kills, pid, uses, missed>>

\* Defect: a listener that cannot open the file returns.
AfterFailureReturns == "pgrep"

\* Both exceptions are caught, and the listener goes on to the kill.
AfterFailure == "kill"

\* The file cannot be opened, and stays as it is, or what was written does
\* not reach it, and it stays empty.
WriteFails ==
  /\ step \in {"open", "write"} /\ GoesOn(AfterFailure)
  /\ failed' = TRUE
  /\ UNCHANGED <<toggle, result, file, kills, pid, uses, missed>>

\* A root shell is given the pid that pgrep printed.
StartShell ==
  /\ Does("kill")
  /\ kills[result] < MaxShells
  /\ kills' = [kills EXCEPT ![result] = @ + 1]
  /\ result' = None
  /\ UNCHANGED <<toggle, failed, file, pid, uses, missed>>

\* su cannot be run: os is null where the listener closes it, and the
\* application ends.  A new activity has its toggles off.
Crash ==
  /\ runs # <<>> /\ step = "kill"
  /\ toggle' = [s \in Speakers |-> FALSE]
  /\ runs' = <<>> /\ step' = "pgrep" /\ result' = None
  /\ missed' = TRUE
  /\ UNCHANGED <<failed, file, kills, pid, uses>>

-----------------------------------------------------------------------------
(* The root shells and the media server. *)

\* Defect: a shell runs its command twice.
ShellsLeftTwice(p) == [kills EXCEPT ![p] = @ - 2]

ShellsLeft(p) == [kills EXCEPT ![p] = @ - 1]

Kill(p) ==
  /\ kills[p] > 0
  /\ kills' = ShellsLeft(p)
  /\ IF p = pid /\ pid # None
     THEN pid' = None /\ UNCHANGED missed
     ELSE missed' = TRUE /\ UNCHANGED pid
  /\ UNCHANGED <<uiVars, file, uses>>

\* The user refuses the shell root, or it is gone before it has its command.
Refused(p) ==
  /\ kills[p] > 0
  /\ kills' = ShellsLeft(p)
  /\ missed' = TRUE
  /\ UNCHANGED <<uiVars, file, pid, uses>>

\* init starts the media server again, with a pid that nobody remembers.
Restart ==
  /\ pid = None
  /\ pid' \in {p \in Pids : kills[p] = 0 /\ p # result}
  /\ uses' = file
  /\ missed' = FALSE
  /\ UNCHANGED <<uiVars, file, kills>>

User == (\E s \in Speakers : Click(s)) \/ Reopen \/ Rotate
Listener == Pgrep \/ Open \/ Write \/ WriteFails \/ StartShell \/ Crash
Shell(p) == Kill(p) \/ Refused(p)
System == (\E p \in Pids \cup {None} : Shell(p)) \/ Restart
Next == User \/ Listener \/ System

\* The thread finishes a click, each shell is answered and either runs or is
\* refused, and init restarts what died.
Fairness ==
  /\ WF_vars(Listener) /\ WF_vars(Restart)
  /\ \A p \in Pids \cup {None} : WF_vars(Shell(p))

Spec == Init /\ [][Next]_vars /\ Fairness

-----------------------------------------------------------------------------
(* Properties. *)

\* setChecked in the listeners: however the toggles are clicked, no two
\* speakers are on, and when the last listener is done the file holds the
\* address of the one that is, unless that listener could not write it; the
\* listeners that switch the others off must not have the last word.
FileFollowsToggle ==
  /\ \A s, o \in Speakers : toggle[s] /\ toggle[o] => s = o
  /\ runs = <<>> => \A s \in Speakers : toggle[s] => file = Address[s] \/ failed

\* Nothing is under way.
Settled == runs = <<>> /\ pid # None /\ \A p \in Pids \cup {None} : kills[p] = 0

\* Every listener kills after it has written, whether it could write or not:
\* the media server is left with something else than the file holds only when
\* a kill was lost on the way, for a pid that was gone by then or for want of
\* a root shell.
StaleOnlyByMissedKill == Settled /\ uses # file => missed

\* A speaker that stays switched on is used in the end, however often the
\* activity is turned meanwhile, unless its address could not be written or a
\* kill of the media server was lost.
SpeakerPlays ==
  \A s \in Speakers :
    toggle[s] ~> \/ ~toggle[s]
                 \/ pid # None /\ uses = Address[s]
                 \/ missed
                 \/ runs = <<>> /\ failed
=============================================================================
