------------------------------ MODULE AppProofs ------------------------------
(***************************************************************************)
(* Proofs about the Android app's two sides.  ResourceList: for every      *)
(* answer of the server, every order of the list and every number of       *)
(* receivers.  ServerControl: for every number of starts, kills reach the  *)
(* daemons in the order of their age.                                      *)
(***************************************************************************)
EXTENDS ResourceList, ServerControl, TLAPS

-----------------------------------------------------------------------------
(* The resource list: what is shown. *)

\* The displays of a list come from the front of the answer.
FromFront(list) == \E n \in 0..Len(Announced) : Range(list) = {Announced[i] : i \in 1..n}

LEMMA Shown ==
  ASSUME NEW displays, NEW n \in 0..Len(Announced), displays = SubSeq(Announced, 1, n)
  PROVE  /\ HashMapOrder[Range(displays)] \in Seq(Numbers)
         /\ FromFront(HashMapOrder[Range(displays)])
<1>1. Announced \in Seq(Nat) /\ Len(Announced) \in Nat
  BY AnnouncedAssumption
<1>2. /\ DOMAIN displays = 1..n
      /\ \A i \in 1..n : displays[i] = Announced[i]
  BY <1>1
<1>3. Range(displays) = {Announced[i] : i \in 1..n}
  BY <1>2 DEF Range
<1>4. Range(displays) \subseteq Range(Announced)
  BY <1>1, <1>3 DEF Range
<1>5. Range(displays) \in DOMAIN HashMapOrder
  BY <1>4, HashMapOrderAssumption DEF Numbers
<1>6. /\ HashMapOrder[Range(displays)] \in Seq(Range(displays))
      /\ Range(HashMapOrder[Range(displays)]) = Range(displays)
  BY <1>5, HashMapOrderAssumption
<1>7. Range(displays) \subseteq Numbers
  BY <1>4 DEF Numbers
<1>8. HashMapOrder[Range(displays)] \in Seq(Numbers)
  BY <1>6, <1>7
<1> QED  BY <1>3, <1>6, <1>8 DEF FromFront

\* An output cut anywhere reads as the front of the answer.
LEMMA ReadingIsFront ==
  ASSUME NEW output \in Outputs
  PROVE  \E n \in 0..Len(Announced) : Reading(output).displays = SubSeq(Announced, 1, n)
<1>1. Len(Announced) \in Nat
  BY AnnouncedAssumption
<1>2. /\ output[1] \in 0..Len(Announced)
      /\ output[1] = Len(Announced) => output[2] = "nothing"
  BY DEF Outputs
<1> DEFINE n == output[1] + IF output[2] = "~DISPLAY1=a" THEN 1 ELSE 0
<1>3. n \in 0..Len(Announced)
  BY <1>1, <1>2
<1>4. Reading(output).displays = SubSeq(Announced, 1, n)
  BY DEF Reading
<1> HIDE DEF n
<1> QED  BY <1>3, <1>4

LEMMA AnswerShows ==
  ASSUME Answer
  PROVE  \E n \in 0..Len(Announced) : ShowList(SubSeq(Announced, 1, n))
<1>1. CASE ShowList(<<>>)
  <2>1. <<>> = SubSeq(Announced, 1, 0) /\ 0 \in 0..Len(Announced)
    BY AnnouncedAssumption
  <2> QED  BY <1>1, <2>1
<1>2. ASSUME NEW output \in Outputs, ShowList(Reading(output).displays)
      PROVE  \E n \in 0..Len(Announced) : ShowList(SubSeq(Announced, 1, n))
  BY <1>2, ReadingIsFront
<1> QED  BY <1>1, <1>2 DEF Answer

-----------------------------------------------------------------------------
(* Types. *)

LEMMA DroppedType ==
  ASSUME NEW n \in Nat, deliveries \in 0..MaxIntents
  PROVE  Dropped(n) \subseteq 0..MaxIntents
<1> SUFFICES ASSUME NEW d \in Dropped(n) PROVE d \in 0..MaxIntents
  OBVIOUS
<1>1. d \in 0..deliveries
  BY DEF Dropped
<1>2. deliveries \in Nat /\ deliveries <= MaxIntents
  BY BoundAssumption
<1>3. d \in Nat /\ d <= deliveries
  BY <1>1, <1>2
<1> HIDE DEF Dropped
<1> QED  BY <1>2, <1>3, BoundAssumption

\* Sequences, whatever they are of.
LEMMA QueueType ==
  ASSUME NEW S
  PROVE  <<>> \in Seq(S) /\ \A s \in Seq(S) : s # <<>> => Tail(s) \in Seq(S)
OBVIOUS

LEMMA ListTypeInit == Init => TypeOK
<1> SUFFICES ASSUME Init PROVE TypeOK
  OBVIOUS
<1>1. screen \in BOOLEAN /\ client \in BOOLEAN /\ silent \in BOOLEAN
  BY Zenon DEF Init, Gone
<1>2. receivers \in 0..MaxReceivers /\ leaving \in Nat /\ deliveries \in 0..MaxIntents
  BY BoundAssumption DEF Init, Gone
<1>3. intents \in Seq(BOOLEAN) /\ listed \in Seq(Numbers)
  BY QueueType, Zenon DEF Init, Gone
<1>4. activity = "none" /\ shows = "left" /\ picked = {}
  BY Zenon DEF Init, Gone
<1> QED  BY <1>1, <1>2, <1>3, <1>4, Zenon DEF TypeOK

LEMMA ListTypeStep == TypeOK /\ [Next]_vars => TypeOK'
<1> SUFFICES ASSUME TypeOK, [Next]_vars PROVE TypeOK'
  OBVIOUS
<1> USE BoundAssumption DEF TypeOK
<1>1. ASSUME Launch \/ Leave \/ Resume PROVE TypeOK'
  BY <1>1 DEF Launch, Leave, Resume
<1>2. ASSUME Finish PROVE TypeOK'
  BY <1>2, DroppedType DEF Finish
<1>3. ASSUME Screen PROVE TypeOK'
  BY <1>3 DEF Screen, Registered
<1>4. ASSUME NEW i \in 1..Len(listed), Pick(i) PROVE TypeOK'
  <2>1. i - 1 \in Nat /\ listed[i] \in Numbers
    BY <1>4 DEF Pick
  <2> QED  BY <1>4, <2>1 DEF Pick, Taps
<1>5. ASSUME Receive PROVE TypeOK'
  BY <1>5 DEF Receive
<1>6. ASSUME HandleIntent PROVE TypeOK'
  <2>1. intents' \in Seq(BOOLEAN)
    BY <1>6, QueueType, Zenon DEF HandleIntent
  <2>2. client' \in BOOLEAN /\ screen' \in BOOLEAN /\ silent' \in BOOLEAN
    BY <1>6, Zenon DEF HandleIntent
  <2>3. UNCHANGED <<activity, shows, receivers, leaving, deliveries, listed, picked>>
    BY <1>6, Zenon DEF HandleIntent
  <2> QED  BY <2>1, <2>2, <2>3, Zenon
<1>7. ASSUME Answer PROVE TypeOK'
  <2>1. PICK n \in 0..Len(Announced) : ShowList(SubSeq(Announced, 1, n))
    BY <1>7, AnswerShows
  <2>2. listed' \in Seq(Numbers)
    BY <2>1, Shown DEF ShowList
  <2>3. client' \in BOOLEAN
    BY <1>7, Zenon DEF Answer
  <2>4. /\ screen' \in BOOLEAN /\ silent' \in BOOLEAN
        /\ shows' \in {"resumed", "left", "asleep"}
    BY <2>1, Zenon DEF ShowList
  <2>5. /\ activity' = "list" /\ receivers' \in 0..MaxReceivers /\ leaving' \in Nat
        /\ deliveries' \in 0..MaxIntents
    BY <2>1, SMT DEF ShowList
  <2>6. intents' \in Seq(BOOLEAN) /\ picked' \subseteq Taps
    BY <2>1 DEF ShowList
  <2> QED  BY <2>2, <2>3, <2>4, <2>5, <2>6, Zenon
<1>8. ASSUME Crash PROVE TypeOK'
  <2>1. client' \in BOOLEAN /\ screen' \in BOOLEAN /\ silent' \in BOOLEAN
    BY <1>8, Zenon DEF Crash
  <2>2. receivers' \in 0..MaxReceivers /\ leaving' \in Nat /\ deliveries' \in 0..MaxIntents
    BY <1>8, SMT DEF Crash
  <2>3. intents' \in Seq(BOOLEAN) /\ listed' \in Seq(Numbers)
    BY <1>8, QueueType, Zenon DEF Crash
  <2>4. activity' = "none" /\ shows' = "left" /\ picked' = {}
    BY <1>8, Zenon DEF Crash
  <2> QED  BY <2>1, <2>2, <2>3, <2>4, Zenon
<1>9. ASSUME DestroyLeaving PROVE TypeOK'
  BY <1>9, DroppedType DEF DestroyLeaving
<1>10. ASSUME NEW choice \in picked, Fade(choice) PROVE TypeOK'
  <2>1. picked' \subseteq Taps
    BY <1>10 DEF Fade
  <2>2. deliveries' \in 0..MaxIntents
    BY <1>10, DroppedType DEF Fade
  <2>3. client' \in BOOLEAN /\ screen' \in BOOLEAN /\ silent' \in BOOLEAN
    BY <1>10, Zenon DEF Fade
  <2>4. receivers' \in 0..MaxReceivers /\ leaving' \in Nat
    BY <1>10, SMT DEF Fade
  <2>5. intents' \in Seq(BOOLEAN) /\ listed' \in Seq(Numbers)
    BY <1>10, QueueType, Zenon DEF Fade
  <2>6. activity' \in {"none", "main", "list"} /\ shows' \in {"resumed", "left", "asleep"}
    BY <1>10, Zenon DEF Fade
  <2> QED  BY <2>1, <2>2, <2>3, <2>4, <2>5, <2>6, Zenon
<1>11. ASSUME NoList PROVE TypeOK'
  BY <1>11 DEF NoList
<1>12. CASE UNCHANGED vars
  BY <1>12 DEF vars
<1> QED  BY <1>1, <1>2, <1>3, <1>4, <1>5, <1>6, <1>7, <1>8, <1>9, <1>10, <1>11, <1>12
     DEF Next, User, Service

\* The activities, the service's queue and the list keep their types.
THEOREM ListTypeCorrect == Spec => []TypeOK
BY ListTypeInit, ListTypeStep, PTL DEF Spec

-----------------------------------------------------------------------------
(* The list shows the front of the answer. *)

LEMMA ListStep == ListIsPrefix /\ [Next]_vars => ListIsPrefix'
<1> SUFFICES ASSUME ListIsPrefix, [Next]_vars PROVE ListIsPrefix'
  OBVIOUS
<1> USE DEF ListIsPrefix
<1>1. ASSUME Launch \/ Leave \/ Resume \/ Finish \/ Screen PROVE ListIsPrefix'
  BY <1>1 DEF Launch, Leave, Resume, Finish, Screen
<1>2. ASSUME NEW i \in 1..Len(listed), Pick(i) PROVE ListIsPrefix'
  BY <1>2 DEF Pick
<1>3. ASSUME Receive \/ HandleIntent \/ NoList \/ Crash \/ DestroyLeaving
      PROVE  ListIsPrefix'
  BY <1>3 DEF Receive, HandleIntent, NoList, Crash, DestroyLeaving
<1>4. ASSUME Answer PROVE ListIsPrefix'
  <2>1. PICK n \in 0..Len(Announced) : ShowList(SubSeq(Announced, 1, n))
    BY <1>4, AnswerShows
  <2>2. FromFront(listed')
    BY <2>1, Shown DEF ShowList
  <2> QED  BY <2>2 DEF FromFront
<1>5. ASSUME NEW choice \in picked, Fade(choice) PROVE ListIsPrefix'
  BY <1>5 DEF Fade
<1>6. CASE UNCHANGED vars
  BY <1>6 DEF vars
<1> QED  BY <1>1, <1>2, <1>3, <1>4, <1>5, <1>6 DEF Next, User, Service

\* However an answer is cut, what the list shows is what the server announced
\* first.
THEOREM ListSafe == Spec => []ListIsPrefix
<1>1. Init => ListIsPrefix
  BY DEF Init, Gone, ListIsPrefix
<1> QED  BY <1>1, ListStep, PTL DEF Spec

-----------------------------------------------------------------------------
(* Starting and killing daemons. *)

LEMMA ServerInitType == ServerInit => ServerTypeOK
<1> SUFFICES ASSUME ServerInit PROVE ServerTypeOK OBVIOUS
<1>1. daemons \in Seq(Stages)
  BY DEF ServerInit
<1> QED BY <1>1 DEF ServerInit, ServerTypeOK

\* Changing the stage of one daemon keeps the list well-formed.
LEMMA StageChanged ==
  ASSUME ServerTypeOK, NEW d \in DOMAIN daemons, NEW s \in Stages,
         daemons' = [daemons EXCEPT ![d] = s]
  PROVE  /\ daemons' \in Seq(Stages)
         /\ DOMAIN daemons' = DOMAIN daemons
         /\ daemons'[d] = s
         /\ \A e \in DOMAIN daemons : e # d => daemons'[e] = daemons[e]
BY DEF ServerTypeOK

\* A daemon that is started is the youngest.
LEMMA Appended ==
  ASSUME ServerTypeOK, daemons' = Append(daemons, "starting")
  PROVE  /\ daemons' \in Seq(Stages)
         /\ DOMAIN daemons' = DOMAIN daemons \cup {Len(daemons) + 1}
         /\ daemons'[Len(daemons) + 1] = "starting"
         /\ \A e \in DOMAIN daemons : daemons'[e] = daemons[e] /\ e < Len(daemons) + 1
BY DEF ServerTypeOK, Stages

LEMMA StageInStages == StageAfterInit \in Stages
BY DEF StageAfterInit, Stages

LEMMA ServerNextType == ServerTypeOK /\ [ServerNext]_serverVars => ServerTypeOK'
<1> SUFFICES ASSUME ServerTypeOK, [ServerNext]_serverVars
             PROVE ServerTypeOK' OBVIOUS
<1>1. CASE App
  <2>1. CASE StartServer
    BY <2>1 DEF StartServer, ServerTypeOK
  <2>2. CASE Press \/ NotRunning \/ Running
    BY <2>2 DEF Press, NotRunning, Running, ServerTypeOK
  <2>3. CASE KillServer
    <3>1. Found \subseteq DOMAIN daemons
      BY DEF Found, Alive
    <3> QED BY <2>3, <3>1 DEF KillServer, ServerTypeOK
  <2>4. CASE KillServerFails
    BY <2>4 DEF KillServerFails, ServerTypeOK
  <2> QED BY <1>1, <2>1, <2>2, <2>3, <2>4 DEF App, Handler
<1>2. CASE Exec
  BY <1>2, Appended DEF Exec, ServerTypeOK
<1>3. ASSUME Refused \/ \E d \in kills : KillRefused(d) PROVE ServerTypeOK'
  BY <1>3 DEF Refused, KillRefused, ServerTypeOK
<1>4. ASSUME NEW d \in kills, Kill(d) PROVE ServerTypeOK'
  BY <1>4, StageChanged, "gone" \in Stages DEF Kill, ServerTypeOK, Stages
<1>5. ASSUME NEW d \in DOMAIN daemons,
             Initialised(d) \/ InitFails(d) \/ ViewerKey(d)
      PROVE  ServerTypeOK'
  <2>1. PICK s \in Stages : daemons' = [daemons EXCEPT ![d] = s]
    BY <1>5, StageInStages DEF Initialised, InitFails, ViewerKey, Stages
  <2> QED BY <1>5, <2>1, StageChanged
       DEF Initialised, InitFails, ViewerKey, ServerTypeOK
<1>6. CASE UNCHANGED serverVars
  BY <1>6 DEF serverVars, ServerTypeOK
<1> QED BY <1>1, <1>2, <1>3, <1>4, <1>5, <1>6
     DEF ServerNext, Shells, Daemon

\* The state keeps its types however often the app starts and kills daemons.
THEOREM ServerTypeCorrect == ServerSpec => []ServerTypeOK
BY ServerInitType, ServerNextType, PTL DEF ServerSpec

-----------------------------------------------------------------------------
LEMMA InitKillsInOrder == ServerInit => KillsInOrder
BY DEF ServerInit, KillsInOrder

LEMMA NextKillsInOrder ==
  ServerTypeOK /\ KillsInOrder /\ [ServerNext]_serverVars => KillsInOrder'
<1> SUFFICES ASSUME ServerTypeOK, KillsInOrder, [ServerNext]_serverVars
             PROVE KillsInOrder' OBVIOUS
<1>1. CASE UNCHANGED <<daemons, kills>>
  BY <1>1 DEF KillsInOrder, Alive
<1>2. CASE KillServer
  <2>1. \A d \in Found, e \in Alive : ~(e < d)
    BY DEF Found, Alive, ServerTypeOK
  <2> QED BY <1>2, <2>1 DEF KillServer, KillsInOrder, Alive
<1>3. CASE Exec
  <2>1. \A e \in Alive' : e \in Alive \/ e = Len(daemons) + 1
    BY <1>3, Appended DEF Exec, Alive
  <2>2. \A d \in kills : d < Len(daemons) + 1
    BY <1>3, Appended DEF Exec, ServerTypeOK
  <2>3. Len(daemons) \in Nat /\ kills \subseteq Nat
    BY DEF ServerTypeOK
  <2> QED BY <1>3, <2>1, <2>2, <2>3 DEF Exec, KillsInOrder
<1>4. ASSUME NEW d \in DOMAIN daemons, NEW s \in Stages,
             daemons[d] # "gone", UNCHANGED kills,
             daemons' = [daemons EXCEPT ![d] = s]
      PROVE  KillsInOrder'
  BY <1>4, StageChanged DEF KillsInOrder, Alive
<1>5. ASSUME NEW d \in kills, Kill(d) PROVE KillsInOrder'
  <2>1. Alive' \subseteq Alive \ {d}
    BY <1>5, StageChanged DEF Kill, Alive, ServerTypeOK, Stages
  <2> QED BY <1>5, <2>1 DEF Kill, KillsInOrder
<1>6. ASSUME NEW d \in DOMAIN daemons,
             Initialised(d) \/ InitFails(d) \/ ViewerKey(d)
      PROVE  KillsInOrder'
  BY <1>6, <1>4, StageInStages DEF Initialised, InitFails, ViewerKey, Stages
<1>7. ASSUME NEW d \in kills, KillRefused(d) PROVE KillsInOrder'
  BY <1>7 DEF KillRefused, KillsInOrder, Alive
<1> QED
  BY <1>1, <1>2, <1>3, <1>5, <1>6, <1>7
     DEF ServerNext, App, Handler, Shells, Daemon, StartServer,
         Press, NotRunning, Running, KillServerFails, Refused, serverVars

\* A kill never overtakes: what it is on its way to has no living elder.
THEOREM KillsInOrderSafe == ServerSpec => []KillsInOrder
BY ServerInitType, ServerNextType, InitKillsInOrder, NextKillsInOrder, PTL
     DEF ServerSpec
=============================================================================
