---------------------------- MODULE RemoteScreen ----------------------------
(***************************************************************************)
(* What the VNC daemon promises its viewers, without its event loop, its   *)
(* timers, its client records or the handshake: a picture that changes,    *)
(* viewers that ask for parts of it, and answers that bring what they      *)
(* asked for up to date.  RfbServer implements it.                         *)
(***************************************************************************)
EXTENDS Integers

CONSTANTS
  Clients,
  Pixels,
  NoPicture,   \* what a viewer shows of a pixel it was never sent
  Overlay      \* the pixels the server may send in place of the picture's

VARIABLES
  running,     \* the daemon serves viewers
  source,      \* the picture
  connected,   \* the viewers with an open connection
  asked,       \* what each viewer has asked for and not been answered
  owed,        \* what each viewer is still to be sent
  missed,      \* what the daemon failed to notice, viewer by viewer
  shown        \* what each viewer shows

vars == <<running, source, connected, asked, owed, missed, shown>>

Blank == [p \in Pixels |-> NoPicture]

Init ==
  /\ running = TRUE
  /\ source \in [Pixels -> Int]
  /\ connected = {}
  /\ asked = [c \in Clients |-> {}]
  /\ owed = [c \in Clients |-> {}]
  /\ missed = [c \in Clients |-> {}]
  /\ shown = [c \in Clients |-> Blank]

\* A new viewer has been sent nothing.
Connect(c) ==
  /\ running /\ c \notin connected
  /\ connected' = connected \cup {c}
  /\ owed' = [owed EXCEPT ![c] = Pixels]
  /\ UNCHANGED <<running, source, asked, missed, shown>>

\* Viewers leave, or the daemon sends them away; nothing is kept of them.
Disconnect(leaving) ==
  /\ running
  /\ connected' = connected \ leaving
  /\ asked' = [c \in Clients |-> IF c \in leaving THEN {} ELSE asked[c]]
  /\ owed' = [c \in Clients |-> IF c \in leaving THEN {} ELSE owed[c]]
  /\ missed' = [c \in Clients |-> IF c \in leaving THEN {} ELSE missed[c]]
  /\ shown' = [c \in Clients |-> IF c \in leaving THEN Blank ELSE shown[c]]
  /\ UNCHANGED <<running, source>>

\* A viewer asks for more, or has the daemon send something once more.
Ask(c, wanted) ==
  /\ running /\ c \in connected
  /\ asked' = [asked EXCEPT ![c] = @ \cup wanted]
  /\ \E again \in SUBSET Pixels : owed' = [owed EXCEPT ![c] = @ \cup again]
  /\ UNCHANGED <<running, source, connected, missed, shown>>

\* The picture changes.  The daemon notices part of the change, and every
\* viewer is owed that, perhaps with more; the rest is missed.
Change(noticed) ==
  /\ running
  /\ owed' = [c \in Clients |-> IF c \in connected THEN owed[c] \cup noticed ELSE owed[c]]
  /\ source' \in [Pixels -> Int]
  /\ \E unnoticed \in SUBSET Pixels :
       /\ {p \in Pixels : source'[p] # source[p]} \subseteq noticed \cup unnoticed
       /\ missed' = [c \in Clients |-> IF c \in connected THEN missed[c] \cup unnoticed
                                        ELSE missed[c]]
  /\ UNCHANGED <<running, connected, asked, shown>>

\* An answer: all that is owed of what was asked for, perhaps more, and the
\* request is used up.
Refresh(c, sent) ==
  /\ running /\ c \in connected
  /\ asked[c] # {}
  /\ owed[c] \cap asked[c] \subseteq sent
  /\ asked' = [asked EXCEPT ![c] = {}]
  /\ owed' = [owed EXCEPT ![c] = @ \ asked[c]]
  /\ missed' = [missed EXCEPT ![c] = @ \ sent]
  /\ \A p \in Pixels :
       IF p \in sent THEN shown'[c][p] \in {source[p]} \cup Overlay[p]
                     ELSE shown'[c][p] = shown[c][p]
  /\ shown' = [shown EXCEPT ![c] = shown'[c]]
  /\ UNCHANGED <<running, source, connected>>

Stop ==
  /\ running' = FALSE
  /\ UNCHANGED <<source, connected, asked, owed, missed, shown>>

Next ==
  \/ \E c \in Clients : Connect(c)
  \/ \E leaving \in SUBSET Clients : Disconnect(leaving)
  \/ \E c \in Clients, wanted \in SUBSET Pixels : Ask(c, wanted)
  \/ \E noticed \in SUBSET Pixels : Change(noticed)
  \/ \E c \in Clients, sent \in SUBSET Pixels : Refresh(c, sent)
  \/ Stop

\* What a viewer has asked for and is owed gets to it, unless it leaves or the
\* daemon stops.
Answered ==
  \A c \in Clients, p \in Pixels :
    (c \in connected /\ p \in owed[c] \cap asked[c])
      ~> (c \notin connected \/ p \notin owed[c] \/ ~running)

Safety == Init /\ [][Next]_vars
=============================================================================
