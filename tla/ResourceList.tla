---------------------------- MODULE ResourceList ----------------------------
(***************************************************************************)
(* From the screen's being turned on to the choice of a display: the       *)
(* receivers that the activities register, the service they start, the     *)
(* client that asks the resource server for its displays (tcpserver.c),    *)
(* the reading of its output, and the list that the user chooses from.     *)
(* Android's part (broadcasts, the service's queue, the task that the list *)
(* replaces) is modelled by what the code relies on.                       *)
(***************************************************************************)
EXTENDS Naturals, Sequences, FiniteSets, SequencesExt

CONSTANTS
  Announced,      \* the display numbers in the server's answer, in its order
  Cut,            \* what is left of a number whose last digits are missing
  HashMapOrder,   \* the order in which a HashMap yields each set of keys
  AtGeorgiaTech,  \* where the device is
  MaxReceivers,   \* bound: receivers that one activity registers
  MaxIntents      \* bound: deliveries and intents that are waiting

ASSUME AnnouncedAssumption ==
  Announced \in Seq(Nat) /\ IsInjective(Announced) /\ Cut \notin Range(Announced)

\* The display numbers that may come out of an answer.
Numbers == Range(Announced) \cup {Cut}

ASSUME HashMapOrderAssumption ==
  /\ DOMAIN HashMapOrder = SUBSET Numbers
  /\ \A keys \in DOMAIN HashMapOrder :
       /\ HashMapOrder[keys] \in Seq(keys)
       /\ IsInjective(HashMapOrder[keys]) /\ Range(HashMapOrder[keys]) = keys

ASSUME BoundAssumption == MaxReceivers \in Nat \ {0} /\ MaxIntents \in Nat

VARIABLES
  screen,      \* the screen is on
  activity,    \* the activity on top: none, main (MainActivity) or list
  shows,       \* whether it is resumed, was left, or went to sleep
  receivers,   \* how many WakeUpReceivers it has registered
  leaving,     \* those of the activities that a list is about to replace
  deliveries,  \* calls of onReceive that are due
  intents,     \* ScreenService's queue: each intent's screen_state
  client,      \* the service waits for the client's output
  listed,      \* the displays of the list, from top to bottom
  picked,      \* tapped items that fade out: the position and the display
  silent       \* history: the client that was run last gave no list

vars == <<screen, activity, shows, receivers, leaving, deliveries, intents, client,
          listed, picked, silent>>

Taps == Nat \X Numbers

TypeOK ==
  /\ screen \in BOOLEAN /\ client \in BOOLEAN /\ silent \in BOOLEAN
  /\ activity \in {"none", "main", "list"}
  /\ shows \in {"resumed", "left", "asleep"}
  /\ receivers \in 0..MaxReceivers /\ leaving \in Nat /\ deliveries \in 0..MaxIntents
  /\ intents \in Seq(BOOLEAN)
  /\ listed \in Seq(Numbers)
  /\ picked \subseteq Taps

Gone ==
  /\ activity = "none" /\ shows = "left" /\ receivers = 0 /\ leaving = 0
  /\ deliveries = 0 /\ intents = <<>> /\ client = FALSE
  /\ listed = <<>> /\ picked = {} /\ silent = FALSE

Init == Gone /\ screen = TRUE

-----------------------------------------------------------------------------
(* The user, the screen and the activities. *)

Launch ==
  /\ activity = "none" /\ screen
  /\ activity' = "main" /\ shows' = "resumed" /\ receivers' = 1
  /\ UNCHANGED <<screen, leaving, deliveries, intents, client, listed, picked, silent>>

Leave ==
  /\ shows = "resumed"
  /\ shows' = "left"
  /\ UNCHANGED <<screen, activity, receivers, leaving, deliveries, intents, client,
                 listed, picked, silent>>

\* onResume registers one more receiver, whatever is registered already.
Resume ==
  /\ activity # "none" /\ screen /\ shows # "resumed"
  /\ receivers < MaxReceivers
  /\ shows' = "resumed" /\ receivers' = receivers + 1
  /\ UNCHANGED <<screen, activity, leaving, deliveries, intents, client, listed, picked,
                 silent>>

\* Defect: a call is taken off for every receiver, due or not.
DroppedUndue(n) == {deliveries - n}

\* onDestroy unregisters the last receiver and Android drops the others,
\* perhaps with calls of theirs that were due.
Dropped(n) == {d \in 0..deliveries : deliveries - d <= n}

Finish ==
  /\ shows = "resumed"
  /\ activity' = "none" /\ shows' = "left" /\ receivers' = 0 /\ listed' = <<>>
  /\ deliveries' \in Dropped(receivers)
  /\ UNCHANGED <<screen, leaving, intents, client, picked, silent>>

\* Defect: onStop unregisters the receivers.
RegisteredInSleep == 0

\* A sleeping activity keeps its receivers: onStop does nothing.
Registered == receivers

\* The screen turns off or on, and every registered receiver is to be told.
Screen ==
  /\ deliveries + Registered + leaving <= MaxIntents
  /\ screen' = ~screen
  /\ shows' = IF screen /\ shows = "resumed" THEN "asleep" ELSE shows
  /\ receivers' = IF screen THEN Registered ELSE receivers
  /\ deliveries' = deliveries + Registered + leaving
  /\ UNCHANGED <<activity, leaving, intents, client, listed, picked, silent>>

-----------------------------------------------------------------------------
(* WakeUpReceiver and ScreenService. *)

\* onReceive puts into its intent whether the screen is on now.
Receive ==
  /\ deliveries > 0 /\ Len(intents) < MaxIntents
  /\ deliveries' = deliveries - 1
  /\ intents' = Append(intents, screen)
  /\ UNCHANGED <<screen, activity, shows, receivers, leaving, client, listed, picked,
                 silent>>

\* onHandleIntent, one intent after the other: asks for the displays, or not.
HandleIntent ==
  /\ intents # <<>> /\ ~client
  /\ intents' = Tail(intents)
  /\ client' = (Head(intents) /\ AtGeorgiaTech)
  /\ silent' = (silent /\ ~client')
  /\ UNCHANGED <<screen, activity, shows, receivers, leaving, deliveries, listed, picked>>

\* The client stops reading after four bytes or at the end of the connection,
\* and prints what it has got: this many whole lines, and a part of the next
\* one, up to the ~, within and after DISPLAY, within or after the number,
\* after the = and within the description.
Parts == {"nothing", "~", "~DI", "~DISPLAY", "~DISPLAY1", "~DISPLAY1=", "~DISPLAY1=a"}

Outputs ==
  {output \in (0..Len(Announced)) \X Parts :
     output[1] = Len(Announced) => output[2] = "nothing"}

\* Defect: a line is accepted as soon as it has a number.
ReadingOfShortLines(output) ==
  [throws |-> output[2] \in {"~", "~DISPLAY"},
   displays |-> SubSeq(Announced, 1, output[1])
                  \o IF output[2] = "~DISPLAY1" THEN <<Cut>>
                     ELSE IF output[2] \in {"~DISPLAY1=", "~DISPLAY1=a"}
                          THEN <<Announced[output[1] + 1]>> ELSE <<>>]

\* What ScreenService makes of an output: a line without ~ or DISPLAY is passed
\* over, and split("...")[1] throws when nothing follows ~, DISPLAY or =.
Reading(output) ==
  [throws |-> output[2] \in {"~", "~DISPLAY", "~DISPLAY1", "~DISPLAY1="},
   displays |-> SubSeq(Announced, 1, output[1] + IF output[2] = "~DISPLAY1=a" THEN 1 ELSE 0)]

\* The list that startActivity brings up: a HashMap's entries, in its order.
\* The activities before it are destroyed after it has come up.
ShowList(displays) ==
  /\ activity' = "list"
  /\ listed' = HashMapOrder[Range(displays)]
  /\ leaving' = leaving + receivers
  /\ receivers' = 1
  /\ shows' = IF screen THEN "resumed" ELSE "asleep"
  /\ UNCHANGED <<screen, deliveries, intents, picked, silent>>

\* "running" is all there is when connect fails, and the list is empty.
Answer ==
  /\ client /\ client' = FALSE
  /\ \/ ShowList(<<>>)
     \/ \E output \in Outputs : ~Reading(output).throws /\ ShowList(Reading(output).displays)

\* The client cannot be run, or ends before it prints anything: what comes
\* back does not begin with "running", and the service leaves it at that.
NoList ==
  /\ client /\ client' = FALSE
  /\ silent' = TRUE
  /\ UNCHANGED <<screen, activity, shows, receivers, leaving, deliveries, intents,
                 listed, picked>>

\* The service's thread throws, on a line that was cut or on a NUM_RESOURCE=
\* with nothing after it, and the app is gone.
Crash ==
  /\ client
  /\ activity' = "none" /\ shows' = "left" /\ receivers' = 0 /\ leaving' = 0
  /\ deliveries' = 0 /\ intents' = <<>> /\ client' = FALSE
  /\ listed' = <<>> /\ picked' = {} /\ silent' = FALSE
  /\ UNCHANGED screen

DestroyLeaving ==
  /\ leaving > 0
  /\ leaving' = 0
  /\ deliveries' \in Dropped(leaving)
  /\ UNCHANGED <<screen, activity, shows, receivers, intents, client, listed, picked,
                 silent>>

-----------------------------------------------------------------------------
(* ResListActivity. *)

Pick(i) ==
  /\ activity = "list" /\ shows = "resumed" /\ i \in DOMAIN listed
  /\ picked' = picked \cup {<<i - 1, listed[i]>>}
  /\ UNCHANGED <<screen, activity, shows, receivers, leaving, deliveries, intents, client,
                 listed, silent>>

\* Two seconds later, whatever the screen shows by then: the position goes to
\* the server, the daemon is started, and the list is finished if it is the
\* one that was tapped.
Fade(choice) ==
  /\ choice \in picked
  /\ picked' = picked \ {choice}
  /\ \/ UNCHANGED <<activity, shows, receivers, listed, deliveries>>
     \/ /\ activity = "list"
        /\ activity' = "none" /\ shows' = "left" /\ receivers' = 0 /\ listed' = <<>>
        /\ deliveries' \in Dropped(receivers)
  /\ UNCHANGED <<screen, leaving, intents, client, silent>>

User == Launch \/ Leave \/ Resume \/ Finish \/ Screen \/ \E i \in 1..Len(listed) : Pick(i)
Service == HandleIntent \/ Answer \/ NoList \/ Crash
Next == User \/ Receive \/ Service \/ DestroyLeaving \/ \E choice \in picked : Fade(choice)

\* Broadcasts are delivered, the service works its queue off, and the client
\* ends, with an answer or without one.
Fairness == WF_vars(Receive) /\ WF_vars(Service)

Spec == Init /\ [][Next]_vars /\ Fairness

-----------------------------------------------------------------------------
(* Properties. *)

\* The answer may come in pieces and is cut anywhere: the list still shows no
\* display that the server did not announce, and none without those that it
\* announced before.
ListIsPrefix ==
  activity = "list" =>
    \E n \in 0..Len(Announced) : Range(listed) = {Announced[i] : i \in 1..n}

\* No broadcast is on its way, and the service has nothing to do.
Quiet == deliveries = 0 /\ intents = <<>> /\ ~client

\* An activity that was put to sleep is replaced by a list after the screen
\* has been turned on, unless it is turned off again, the activity ends, or
\* the client that was run for it, after all older ones, gave no list.
WakesUp ==
  AtGeorgiaTech =>
    (activity = "main" /\ screen /\ shows = "asleep")
      ~> (activity # "main" \/ ~screen \/ (Quiet /\ silent))
=============================================================================
