--------------------------- MODULE ServerControl ----------------------------
(***************************************************************************)
(* How the app starts and kills the VNC daemon: startServer and killServer *)
(* of ServerManager.java, the kill button of MainActivity.java, and what   *)
(* becomes of the daemon's processes.  The app talks to root shells and    *)
(* does not wait for them; pgrep tells it what it knows of the daemons,    *)
(* and a notification tells the user what it believes.  pgrep, su and the  *)
(* question for root may fail at any time.                                 *)
(***************************************************************************)
EXTENDS Naturals, Sequences

CONSTANTS
  MaxDaemons   \* bound: how many daemons are ever started

ASSUME MaxDaemonsAssumption == MaxDaemons \in Nat

VARIABLES
  starts,    \* root shells about to run the daemon
  daemons,   \* the daemons in the order in which they were started
  kills,     \* the daemons that a root shell is about to kill
  button,    \* where the kill button's handler is
  notified   \* "oPsai VNC Server daemon is currently running" is shown

serverVars == <<starts, daemons, kills, button, notified>>

\* A daemon runs from "starting" on; "deaf" is one without a listening socket.
Stages == {"starting", "listening", "deaf", "gone"}

ServerTypeOK ==
  /\ starts \in Nat
  /\ daemons \in Seq(Stages)
  /\ kills \subseteq DOMAIN daemons
  /\ button \in {"idle", "isServerRunning", "killServer"}
  /\ notified \in BOOLEAN

ServerInit ==
  /\ starts = 0 /\ daemons = <<>> /\ kills = {}
  /\ button = "idle" /\ notified = FALSE

Alive == {d \in DOMAIN daemons : daemons[d] # "gone"}

-----------------------------------------------------------------------------
(* The app. *)

\* startServer, when a display is chosen from the list or the service is
\* started: no look at what is running.  The notification is shown as soon as
\* the command has been written to the root shell; a start that fails before
\* changes nothing.
StartServer ==
  /\ Len(daemons) + starts < MaxDaemons
  /\ starts' = starts + 1
  /\ notified' = TRUE
  /\ UNCHANGED <<daemons, kills, button>>

Press ==
  /\ button = "idle"
  /\ button' = "isServerRunning"
  /\ UNCHANGED <<starts, daemons, kills, notified>>

\* pgrep -o prints nothing or cannot be run: "Nothing to kill".
NotRunning ==
  /\ button = "isServerRunning"
  /\ button' = "idle"
  /\ UNCHANGED <<starts, daemons, kills, notified>>

Running ==
  /\ button = "isServerRunning" /\ Alive # {}
  /\ button' = "killServer"
  /\ notified' = FALSE
  /\ UNCHANGED <<starts, daemons, kills>>

\* Defect: pgrep -n.
FoundNewest == {d \in Alive : \A e \in Alive : e <= d}

\* Defect: no pid is taken for pid 0.
FoundOrZero == IF Alive = {} THEN {0} ELSE {d \in Alive : \A e \in Alive : d <= e}

\* Defect: only who holds the port is found.
FoundOnPort == {d \in Alive : daemons[d] = "listening"}

\* pgrep -o: the oldest daemon, if one is still there.
Found == {d \in Alive : \A e \in Alive : d <= e}

\* killServer looks once more and hands what it found to a root shell.
KillServer ==
  /\ button = "killServer"
  /\ kills' = kills \cup Found
  /\ button' = "idle" /\ notified' = FALSE
  /\ UNCHANGED <<starts, daemons>>

\* The second pgrep cannot be run, and there is no pid to kill, or su cannot,
\* and the app ends where it closes a stream that is null.
KillServerFails ==
  /\ button = "killServer"
  /\ button' = "idle" /\ notified' = FALSE
  /\ UNCHANGED <<starts, daemons, kills>>

-----------------------------------------------------------------------------
(* The root shells and the daemons. *)

Exec ==
  /\ starts > 0
  /\ starts' = starts - 1
  /\ daemons' = Append(daemons, "starting")
  /\ UNCHANGED <<kills, button, notified>>

\* Root is refused.
Refused ==
  /\ starts > 0
  /\ starts' = starts - 1
  /\ UNCHANGED <<daemons, kills, button, notified>>

\* Defect: without SO_REUSEADDR a killed daemon's connections keep the port.
StageAfterUsed ==
  IF \E d \in DOMAIN daemons : daemons[d] # "starting" THEN "deaf" ELSE "listening"

\* rfbListenOnTCPPort fails while another daemon listens, and main goes on.
StageAfterInit == IF \E d \in Alive : daemons[d] = "listening" THEN "deaf" ELSE "listening"

Initialised(d) ==
  /\ d \in DOMAIN daemons /\ daemons[d] = "starting"
  /\ daemons' = [daemons EXCEPT ![d] = StageAfterInit]
  /\ UNCHANGED <<starts, kills, button, notified>>

\* /dev/graphics/fb0 cannot be read: exit in init_private_fb.
InitFails(d) ==
  /\ d \in DOMAIN daemons /\ daemons[d] = "starting"
  /\ daemons' = [daemons EXCEPT ![d] = "gone"]
  /\ UNCHANGED <<starts, kills, button, notified>>

\* A viewer types F11, which closes the listening socket for good, or F12,
\* which ends the daemon.
ViewerKey(d) ==
  /\ d \in DOMAIN daemons /\ daemons[d] = "listening"
  /\ \E key \in {"deaf", "gone"} : daemons' = [daemons EXCEPT ![d] = key]
  /\ UNCHANGED <<starts, kills, button, notified>>

Kill(d) ==
  /\ d \in kills
  /\ kills' = kills \ {d}
  /\ daemons' = [daemons EXCEPT ![d] = "gone"]
  /\ UNCHANGED <<starts, button, notified>>

\* Root is refused.
KillRefused(d) ==
  /\ d \in kills
  /\ kills' = kills \ {d}
  /\ UNCHANGED <<starts, daemons, button, notified>>

Handler == NotRunning \/ Running \/ KillServer \/ KillServerFails
App == StartServer \/ Press \/ Handler
Shells == Exec \/ Refused \/ \E d \in kills : Kill(d) \/ KillRefused(d)
Daemon == \E d \in DOMAIN daemons : Initialised(d) \/ InitFails(d) \/ ViewerKey(d)
ServerNext == App \/ Shells \/ Daemon

\* The handler of a press finishes, and the shells and daemons run; nobody has
\* to press anything.
ServerFairness ==
  /\ WF_serverVars(Handler)
  /\ WF_serverVars(Shells)
  /\ WF_serverVars(\E d \in DOMAIN daemons : Initialised(d) \/ InitFails(d))

ServerSpec == ServerInit /\ [][ServerNext]_serverVars /\ ServerFairness

-----------------------------------------------------------------------------
(* Properties. *)

Listening == {d \in DOMAIN daemons : daemons[d] = "listening"}

\* pgrep -o and kill are two calls with daemons that come and go between and
\* after them: no kill is on its way to a daemon that has a living elder, so
\* presses of the button end daemons in the order of their age.
KillsInOrder == \A d \in kills, e \in Alive : ~(e < d)

\* Daemons that were started one over the other, most of them without a port:
\* who keeps pressing the button, once nothing is started any more, ends them
\* all, if a press reaches a root shell again and again while one of them
\* lives, and root is not refused for ever.
ButtonEndsAll ==
  (/\ <>[](starts = 0)
   /\ []<>(Alive = {}) \/ []<><<KillServer>>_serverVars
   /\ \A d \in 1..MaxDaemons : SF_serverVars(Kill(d)))
  => <>[](Alive = {})

\* A start with no other daemon alive ends with a daemon that listens, unless
\* that one is ended or refused; a daemon that was killed before leaves the
\* port free.
LoneStartListens ==
  (starts = 1 /\ Alive = {}) ~> (Listening # {} \/ starts > 1 \/ (starts = 0 /\ Alive = {}))
=============================================================================
