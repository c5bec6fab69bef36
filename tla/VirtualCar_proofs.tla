-------------------------- MODULE VirtualCar_proofs -------------------------
(***************************************************************************)
(* Theorems about VirtualCar, for all sets of readings and of events, every*)
(* retry budget and every channel capacity: the running twin is a reorder  *)
(* buffer with the real transition table and the real zone handlers, so    *)
(* what is proved of ReorderBuffer holds of it; the headlamp twinlet never *)
(* waits for an acknowledgement without a deadline; and what the brain     *)
(* commits is what DigitalTwin allows, so that what is proved of           *)
(* DigitalTwin holds of it too.                                            *)
(***************************************************************************)
EXTENDS VirtualCar, TwinTurn_proofs, TLAPS

\* ReorderBuffer with what is proved of it, and with the parameters of RB.
P == INSTANCE ReorderBuffer_proofs
    WITH Zone <- Assembly, Message <- ZoneMessage, Reply <- ZoneReply, InitTwin <- InitialTwin,
         MaxEvents <- MaxMessages, Route <- ZoneMessageForEvent,
         Ingress <- Ingress \cup {[kind |-> "PowerOn"]}

\* DigitalTwin with what is proved of it, for the running twin.
D == INSTANCE DigitalTwin_proofs WITH open <- OpenTurns

-----------------------------------------------------------------------------
(* The parameters of the reorder buffer meet what it asks of them.         *)

\* What a twinlet of zone z understands, and the states it can be in
Understood(z) == IF z = "Headlamp" THEN HeadlampMessage(Lux) ELSE WiperMessage
StateOf(z)    == IF z = "Headlamp" THEN HeadlampState ELSE WiperState

Proper(tell) == tell.zone \in Assembly /\ tell.message \in Understood(tell.zone)

\* The actions of a commit are actions of ReorderBuffer's, and the assemblies'
\* turns are opened with tells of their own.
ProperAction == {a \in P!Action : a.kind = "open" => Proper(a.tell)}

LEMMA ActionsType ==
    ASSUME NEW t \in Twin, NEW e \in Event, NEW r \in ZoneReply \cup {NoReply}
    PROVE  Actions(t, e, r) \in Seq(ProperAction)
<1> DEFINE os  == Turn(t, e, r).outcomes
           out == Turn(t, e, r).outputs[1]
           sends == [i \in DOMAIN os |-> [kind |-> "send", command |-> CommandOf(os[i])]]
           opens == CASE out = "StartAssemblies" -> OpenAll("BecomeOn")
                      [] out = "StopAssemblies"  -> OpenAll("BecomeOff")
                      [] OTHER -> << >>
<1>1. os \in AtMostOne(HeadlampOutcome \cup WiperOutcome)
  BY OutcomesType DEF Twin, Event
<1>2. \A o \in HeadlampOutcome \cup WiperOutcome :
         [kind |-> "send", command |-> CommandOf(o)] \in ProperAction
  BY DEF HeadlampOutcome, WiperOutcome, CommandOf, P!Action, P!SendAction, Command, ProperAction
<1>3. sends \in Seq(ProperAction)
  <2> HIDE DEF os
  <2>1. CASE os = << >>
    BY <2>1
  <2>2. ASSUME NEW o \in HeadlampOutcome \cup WiperOutcome, os = <<o>> PROVE sends \in Seq(ProperAction)
    <3>1. sends = <<[kind |-> "send", command |-> CommandOf(o)]>>
      BY <2>2
    <3> HIDE DEF sends
    <3> QED BY <1>2, <2>2, <3>1
  <2> QED BY <1>1, <2>1, <2>2 DEF AtMostOne
<1>4. \A m \in {"BecomeOn", "BecomeOff"} : OpenAll(m) \in Seq(ProperAction)
  <2> SUFFICES ASSUME NEW m \in {"BecomeOn", "BecomeOff"} PROVE OpenAll(m) \in Seq(ProperAction)
    OBVIOUS
  <2>1. \A z \in Assembly : [kind |-> "open", event |-> [kind |-> "AssemblyZoneReady", assembly |-> z],
                             tell |-> Tell(z, [kind |-> m])] \in ProperAction
    <3> SUFFICES ASSUME NEW z \in Assembly
                 PROVE  [kind |-> "open", event |-> [kind |-> "AssemblyZoneReady", assembly |-> z],
                         tell |-> Tell(z, [kind |-> m])] \in ProperAction
      OBVIOUS
    <3>1. [kind |-> m] \in HeadlampMessage(Lux) /\ [kind |-> m] \in WiperMessage
      BY DEF HeadlampMessage, WiperMessage
    <3>2. Proper(Tell(z, [kind |-> m]))
      BY <3>1 DEF Proper, Tell, Understood
    <3>3. Tell(z, [kind |-> m]) \in P!Tell
      BY <3>1 DEF P!Tell, Tell, ZoneMessage
    <3>4. [kind |-> "AssemblyZoneReady", assembly |-> z] \in Event
      BY DEF Event, EventOver
    <3> QED BY <3>2, <3>3, <3>4 DEF P!Action, P!OpenAction, ProperAction
  <2> QED BY <2>1 DEF OpenAll, Assembly
<1>5. opens \in Seq(ProperAction)
  <2> HIDE DEF out
  <2> QED BY <1>4
<1>6. Actions(t, e, r) = sends \o opens
  BY DEF Actions, ActionsOf
<1> HIDE DEF sends, opens
<1> QED BY <1>3, <1>5, <1>6

LEMMA ProperActions ==
    ASSUME NEW s \in Seq(ProperAction)
    PROVE  s \in Seq(P!Action) /\ \A i \in DOMAIN s : s[i].kind = "open" => Proper(s[i].tell)
<1>1. \A i \in DOMAIN s : s[i] \in ProperAction
  OBVIOUS
<1>2. ProperAction \subseteq P!Action
  BY DEF ProperAction
<1>3. s \in Seq(P!Action)
  BY <1>2
<1> QED BY <1>1, <1>3 DEF ProperAction

LEMMA ParametersFit ==
    /\ MaxRetries \in Nat /\ ChannelCapacity \in Nat \ {0} /\ MaxMessages \in Nat
    /\ InitialTwin \in Twin
    /\ Ingress \cup {[kind |-> "PowerOn"]} \subseteq Event
    /\ SpontaneousEvent \subseteq Event
    /\ NoReply \notin ZoneReply
    /\ NoTell \notin P!Tell
    /\ Silent \subseteq Assembly
    /\ \A t \in Twin, e \in Event : ZoneMessageForEvent(e, t) \in P!Tell \cup {NoTell}
    /\ \A t \in Twin, z \in Assembly : Synthetic(t, z) \in ZoneReply
    /\ \A t \in Twin, e \in Event \cup SpontaneousEvent, r \in ZoneReply \cup {NoReply} :
          /\ CommitTurn(t, e, r) \in Twin
          /\ Actions(t, e, r) \in Seq(P!Action)
<1>1. MaxRetries \in Nat /\ ChannelCapacity \in Nat \ {0} /\ MaxMessages \in Nat
  BY VirtualCarAssumption DEF VirtualCarAssumption, MaxMessages
<1>2. InitialTwin \in Twin
  BY VirtualCarAssumption DEF VirtualCarAssumption, InitialTwin, Twin, TwinOver, Mode,
                              HeadlampState, WiperState
<1>3. Ingress \cup {[kind |-> "PowerOn"]} \subseteq Event
  BY VirtualCarAssumption DEF VirtualCarAssumption, Event, EventOver
<1>4. SpontaneousEvent \subseteq Event
  BY DEF SpontaneousEvent, Event, EventOver
<1>5. NoReply \notin ZoneReply
  BY DEF NoReply, ZoneReply, HeadlampReply, WiperReply
<1>6. NoTell \notin P!Tell
  BY DEF NoTell, P!Tell, Assembly
<1>7. ASSUME NEW t \in Twin, NEW e \in Event PROVE ZoneMessageForEvent(e, t) \in P!Tell \cup {NoTell}
  BY DEF ZoneMessageForEvent, UserEventToZoneTell, P!Tell, Tell, Event, EventOver, Assembly,
         ZoneMessage, HeadlampMessage, WiperMessage
<1>8. ASSUME NEW t \in Twin, NEW z \in Assembly PROVE Synthetic(t, z) \in ZoneReply
  BY DEF Synthetic, Unresponsive, ZoneCtx, Twin, TwinOver, ZoneReply, HeadlampReply, WiperReply,
         AtMostOne, Assembly
<1>9. ASSUME NEW t \in Twin, NEW e \in Event, NEW r \in ZoneReply \cup {NoReply}
      PROVE  CommitTurn(t, e, r) \in Twin
  BY TurnType DEF Twin, Event, CommitTurn
<1> QED BY <1>1, <1>2, <1>3, <1>4, <1>5, <1>6, <1>7, <1>8, <1>9, ActionsType, ProperActions, VirtualCarAssumption
        DEF VirtualCarAssumption

\* The copy of ReorderBuffer the theorems are about is the one VirtualCar is
\* made of.
LEMMA SameBrain ==
    /\ RB!HandleFsm <=> P!HandleFsm
    /\ \A i \in DOMAIN queue : RB!HandleZoneReady(i) <=> P!HandleZoneReady(i)
    /\ RB!DiscardZoneReady <=> P!DiscardZoneReady
    /\ \A i \in DOMAIN queue : RB!HandleTimeoutRetry(i) <=> P!HandleTimeoutRetry(i)
    /\ \A i \in DOMAIN queue : RB!HandleTimeoutGaveUp(i) <=> P!HandleTimeoutGaveUp(i)
    /\ RB!DiscardTimeout <=> P!DiscardTimeout
    /\ RB!HandleSpontaneous <=> P!HandleSpontaneous
    /\ RB!CommitFront <=> P!CommitFront
    /\ RB!PerformOpen <=> P!PerformOpen
    /\ RB!PerformSend <=> P!PerformSend
<1> USE DEF RB!Receive, P!Receive, RB!Idle, P!Idle, RB!IsComplete, P!IsComplete,
            RB!OpenTurn, P!OpenTurn, RB!NewBarrier, P!NewBarrier, RB!NoTimer, P!NoTimer,
            RB!Concerns, P!Concerns, RB!TellAttemptMatches, P!TellAttemptMatches
<1>1. RB!HandleFsm <=> P!HandleFsm
  BY Zenon DEF RB!HandleFsm, P!HandleFsm
<1>2. \A i \in DOMAIN queue : RB!HandleZoneReady(i) <=> P!HandleZoneReady(i)
  BY Zenon DEF RB!HandleZoneReady, P!HandleZoneReady, RB!ActOnZoneReply, P!ActOnZoneReply,
               RB!HeldTimer, P!HeldTimer
<1>3. RB!DiscardZoneReady <=> P!DiscardZoneReady
  BY Zenon DEF RB!DiscardZoneReady, P!DiscardZoneReady
<1>4. \A i \in DOMAIN queue : RB!HandleTimeoutRetry(i) <=> P!HandleTimeoutRetry(i)
  BY Zenon DEF RB!HandleTimeoutRetry, P!HandleTimeoutRetry, RB!RetryDue, P!RetryDue,
               RB!Retried, P!Retried
<1>5. \A i \in DOMAIN queue : RB!HandleTimeoutGaveUp(i) <=> P!HandleTimeoutGaveUp(i)
  BY Zenon DEF RB!HandleTimeoutGaveUp, P!HandleTimeoutGaveUp, RB!RetryDue, P!RetryDue,
               RB!ActOnZoneReply, P!ActOnZoneReply
<1>6. RB!DiscardTimeout <=> P!DiscardTimeout
  BY Zenon DEF RB!DiscardTimeout, P!DiscardTimeout
<1>7. RB!HandleSpontaneous <=> P!HandleSpontaneous
  BY Zenon DEF RB!HandleSpontaneous, P!HandleSpontaneous
<1>8. RB!CommitFront <=> P!CommitFront
  BY Zenon DEF RB!CommitFront, P!CommitFront
<1>9. RB!PerformOpen <=> P!PerformOpen
  BY Zenon DEF RB!PerformOpen, P!PerformOpen
<1>10. RB!PerformSend <=> P!PerformSend
  BY Zenon DEF RB!PerformSend, P!PerformSend
<1> QED BY <1>1, <1>2, <1>3, <1>4, <1>5, <1>6, <1>7, <1>8, <1>9, <1>10, Zenon

LEMMA SameSurroundings ==
    /\ RB!Init <=> P!Init
    /\ \A d : RB!TimerFires(d) <=> P!TimerFires(d)
    /\ RB!ChannelReceive <=> P!ChannelReceive
    /\ \A e : RB!Submit(e) <=> P!Submit(e)
    /\ \A z, r : RB!ZoneAnswers(z, r) <=> P!ZoneAnswers(z, r)
    /\ \A z : RB!ZoneSwallows(z) <=> P!ZoneSwallows(z)
    /\ \A e, r : RB!ZoneSpeaksUp(e, r) <=> P!ZoneSpeaksUp(e, r)
<1>1. RB!Init <=> P!Init
  BY Zenon DEF RB!Init, P!Init
<1>2. \A d : RB!TimerFires(d) <=> P!TimerFires(d)
  BY Zenon DEF RB!TimerFires, P!TimerFires
<1>3. RB!ChannelReceive <=> P!ChannelReceive
  BY Zenon DEF RB!ChannelReceive, P!ChannelReceive
<1>4. \A e : RB!Submit(e) <=> P!Submit(e)
  BY Zenon DEF RB!Submit, P!Submit
<1>5. \A z, r : RB!ZoneAnswers(z, r) <=> P!ZoneAnswers(z, r)
  BY Zenon DEF RB!ZoneAnswers, P!ZoneAnswers
<1>6. \A z : RB!ZoneSwallows(z) <=> P!ZoneSwallows(z)
  BY Zenon DEF RB!ZoneSwallows, P!ZoneSwallows
<1>7. \A e, r : RB!ZoneSpeaksUp(e, r) <=> P!ZoneSpeaksUp(e, r)
  BY Zenon DEF RB!ZoneSpeaksUp, P!ZoneSpeaksUp
<1> QED BY <1>1, <1>2, <1>3, <1>4, <1>5, <1>6, <1>7, Zenon

-----------------------------------------------------------------------------
(* The tells are for the zones they are told to.                           *)

\* Every tell on its way, queued for a retry or still to be opened carries a
\* message of its zone, and the twinlets are in states of their own.
ZoneInv ==
    /\ \A z \in Assembly : \A i \in DOMAIN zoneBox[z] : zoneBox[z][i].message \in Understood(z)
    /\ \A i \in DOMAIN queue : queue[i].tell # NoTell => Proper(queue[i].tell)
    /\ \A i \in DOMAIN todo : todo[i].kind = "open" => Proper(todo[i].tell)
    /\ zoneCtx \in [Assembly -> HeadlampState \cup WiperState]
    /\ \A z \in Assembly : zoneCtx[z] \in StateOf(z)

\* What a twinlet answers its next tell is a reply of its zone.
LEMMA ApplyType ==
    ASSUME P!TypeInv, ZoneInv, NEW z \in Assembly, zoneBox[z] # << >>
    PROVE  LET r == OnReceivingMessage(z, zoneCtx[z], Head(zoneBox[z]).message)
           IN  r \in ZoneReply /\ r.ctx \in StateOf(z)
<1> DEFINE m == Head(zoneBox[z]).message
           r == OnReceivingMessage(z, zoneCtx[z], m)
<1>1. zoneBox[z] \in Seq(P!ZoneTell)
  BY DEF P!TypeInv, P!TypeOK
<1>2. 1 \in DOMAIN zoneBox[z] /\ Head(zoneBox[z]) = zoneBox[z][1]
  BY <1>1
<1>3. m \in Understood(z) /\ zoneCtx[z] \in StateOf(z)
  BY <1>2 DEF ZoneInv
<1> HIDE DEF m
<1>4. r \in {q \in ZoneReply : q.zone = z}
  <2>1. /\ z = "Headlamp" => m \in HeadlampMessage(Lux) /\ zoneCtx[z] \in HeadlampState
        /\ z = "Wiper" => m \in WiperMessage /\ zoneCtx[z] \in WiperState
    BY <1>3 DEF Understood, StateOf
  <2> QED BY <2>1, AnswerType
<1>5. r.ctx \in StateOf(z)
  <2> HIDE DEF r
  <2> QED BY <1>4 DEF ZoneReply, HeadlampReply, WiperReply, StateOf, Assembly
<1> QED BY <1>4, <1>5 DEF m

\* A lamp whose request did not work out is in a state of its own.
LEMMA RecoverType ==
    \A lamp \in HeadlampState, d \in Direction :
       /\ RecoverIncomplete(lamp, d) \in ZoneReply
       /\ RecoverIncomplete(lamp, d).ctx \in HeadlampState
  BY DEF RecoverIncomplete, LampReply, ZoneReply, HeadlampReply, AtMostOne, HeadlampState, Direction

-----------------------------------------------------------------------------
(* The deadlines of the headlamp twinlet.                                  *)

\* A deadline in the mailbox: how many tells it waits behind
Deadline == [direction : Direction, ahead : Int]

\* The twinlet's deadlines are deadlines; those in the mailbox wait behind no
\* more tells than there are, and behind no fewer than the ones before them.
\* A silent twinlet has none.
AckInv ==
    /\ ackHeld \in Direction \cup {"None"}
    /\ ackLoose \in [Direction -> Nat]
    /\ ackBox \in Seq(Deadline)
    /\ \A i \in 1..Len(ackBox) : 0 <= ackBox[i].ahead /\ ackBox[i].ahead <= Len(zoneBox["Headlamp"])
    /\ \A i, j \in 1..Len(ackBox) : i < j => ackBox[i].ahead <= ackBox[j].ahead
    /\ "Headlamp" \in Silent =>
          ackHeld = "None" /\ ackLoose = [d \in Direction |-> 0] /\ ackBox = << >>

\* Every step is a step of the reorder buffer, or leaves its variables alone.
LEMMA NextRefines ==
    ASSUME P!TypeInv, ZoneInv, AckInv, [Next]_vars
    PROVE  [P!Next]_(P!vars)
<1>1. CASE Brain
  <2>1. CASE Receive
    BY <2>1, SameBrain, Zenon DEF Receive, P!Next, P!Brain
  <2>2. CASE HandleSpontaneous
    BY <2>2, SameBrain, Zenon DEF HandleSpontaneous, P!Next, P!Brain
  <2>3. CASE CommitFront
    BY <2>3, SameBrain, Zenon DEF CommitFront, P!Next, P!Brain
  <2>4. CASE PerformOpen
    BY <2>4, SameBrain, Zenon DEF PerformOpen, P!Next, P!Brain
  <2>5. CASE PerformSend
    BY <2>5, SameBrain, Zenon DEF PerformSend, P!Next, P!Brain
  <2> QED BY <1>1, <2>1, <2>2, <2>3, <2>4, <2>5 DEF Brain
<1>2. CASE Twinlets
  <2>1. CASE HeadlampApply
    <3> DEFINE r == HeadlampOnMessage(zoneCtx["Headlamp"], Head(zoneBox["Headlamp"]).message)
    <3>1. zoneBox["Headlamp"] # << >> /\ P!ZoneAnswers("Headlamp", r)
      BY <2>1, SameSurroundings, Zenon DEF HeadlampApply
    <3>2. r \in ZoneReply /\ "Headlamp" \in Assembly
      BY <3>1, ApplyType DEF Assembly, OnReceivingMessage
    <3> HIDE DEF r
    <3> QED BY <3>1, <3>2, Zenon DEF P!Next, P!Surroundings
  <2>2. CASE WiperApply
    <3> DEFINE r == WiperOnMessage(zoneCtx["Wiper"], Head(zoneBox["Wiper"]).message)
    <3>1. zoneBox["Wiper"] # << >> /\ P!ZoneAnswers("Wiper", r)
      BY <2>2, SameSurroundings, Zenon DEF WiperApply
    <3>2. r \in ZoneReply /\ "Wiper" \in Assembly
      BY <3>1, ApplyType DEF Assembly, OnReceivingMessage
    <3> HIDE DEF r
    <3> QED BY <3>1, <3>2, Zenon DEF P!Next, P!Surroundings
  <2>3. ASSUME NEW z \in Assembly, Swallow(z) PROVE P!Next
    BY <2>3, SameSurroundings, Zenon DEF Swallow, P!Next, P!Surroundings
  <2>4. CASE AckWaitElapsed
    <3> DEFINE d == Head(ackBox).direction
               e == [kind |-> "FrontHeadlampActuationIncomplete", direction |-> d]
               r == RecoverIncomplete(zoneCtx["Headlamp"], d)
    <3>1. P!ZoneSpeaksUp(e, r)
      BY <2>4, SameSurroundings, Zenon DEF AckWaitElapsed
    <3>2. d \in Direction
      <4>1. ackBox \in Seq(Deadline) /\ ackBox # << >>
        BY <2>4 DEF AckWaitElapsed, AckInv
      <4>2. Head(ackBox) \in Deadline
        BY <4>1
      <4> QED BY <4>2 DEF Deadline
    <3>3. r \in ZoneReply
      BY <3>2, RecoverType DEF ZoneInv, StateOf, Assembly
    <3>4. e \in SpontaneousEvent
      BY <3>2 DEF SpontaneousEvent
    <3> HIDE DEF e, r
    <3> QED BY <3>1, <3>3, <3>4, Zenon DEF P!Next, P!Surroundings
  <2> QED BY <1>2, <2>1, <2>2, <2>3, <2>4, Zenon DEF Twinlets
<1>3. CASE Outside
  <2>1. ASSUME NEW e \in Ingress \cup {[kind |-> "PowerOn"]}, Ingest(e) PROVE P!Next
    BY <2>1, SameSurroundings, Zenon DEF Ingest, P!Next, P!Surroundings
  <2>2. CASE TellBackTimerFires
    BY <2>2, SameSurroundings, Zenon DEF TellBackTimerFires, P!Next, P!Surroundings
  <2>3. CASE ChannelReceive
    BY <2>3, SameSurroundings, Zenon DEF ChannelReceive, P!Next, P!Surroundings
  <2>4. CASE AckTimerFires
    BY <2>4 DEF AckTimerFires, brainVars, P!vars
  <2>5. CASE \E direction \in Direction : LooseTimerFires(direction)
    BY <2>5 DEF LooseTimerFires, brainVars, P!vars
  <2> QED BY <1>3, <2>1, <2>2, <2>3, <2>4, <2>5, Zenon DEF Outside
<1>4. CASE UNCHANGED vars
  BY <1>4 DEF vars, brainVars, P!vars
<1> QED BY <1>1, <1>2, <1>3, <1>4 DEF Next

-----------------------------------------------------------------------------
(* ZoneInv is kept.                                                        *)

\* A sequence with one more element, whatever it is
LEMMA OneMore ==
    ASSUME NEW S, NEW s \in Seq(S), NEW x
    PROVE  /\ Len(Append(s, x)) = Len(s) + 1
           /\ \A i \in 1..Len(s) : Append(s, x)[i] = s[i]
           /\ Append(s, x)[Len(s) + 1] = x
           /\ DOMAIN Append(s, x) = 1..(Len(s) + 1)
<1>1. s \in Seq(S \cup {x})
  OBVIOUS
<1> QED BY <1>1

\* and what holds of its elements and of the new one holds of the longer one.
LEMMA OneMoreMember ==
    ASSUME NEW S, NEW s \in Seq(S), NEW x, NEW i \in DOMAIN Append(s, x)
    PROVE  Append(s, x)[i] = x \/ (i \in DOMAIN s /\ Append(s, x)[i] = s[i])
<1>1. i \in 1..(Len(s) + 1) /\ Len(s) \in Nat /\ DOMAIN s = 1..Len(s)
  BY OneMore
<1>2. i \in 1..Len(s) \/ i = Len(s) + 1
  BY <1>1
<1> QED BY <1>1, <1>2, OneMore

\* The brain's variables, as far as the tells are concerned
Told == /\ \A z \in Assembly : \A i \in DOMAIN zoneBox[z] : zoneBox[z][i].message \in Understood(z)
        /\ \A i \in DOMAIN queue : queue[i].tell # NoTell => Proper(queue[i].tell)
        /\ \A i \in DOMAIN todo : todo[i].kind = "open" => Proper(todo[i].tell)

Boxes == Len(zoneBox["Headlamp"]) <= Len(zoneBox'["Headlamp"])

\* A tell that is put into the mailbox of its zone
LEMMA Deliver ==
    ASSUME P!TypeInv, Told, NEW z \in Assembly, NEW x, x.message \in Understood(z),
           zoneBox' = [zoneBox EXCEPT ![z] = Append(@, x)]
    PROVE  /\ Boxes
           /\ \A y \in Assembly : \A i \in DOMAIN zoneBox'[y] : zoneBox'[y][i].message \in Understood(y)
<1>1. zoneBox \in [Assembly -> Seq(P!ZoneTell)]
  BY DEF P!TypeInv, P!TypeOK
<1>2. /\ zoneBox'[z] = Append(zoneBox[z], x)
      /\ \A y \in Assembly : y # z => zoneBox'[y] = zoneBox[y]
      /\ \A y \in Assembly : zoneBox[y] \in Seq(P!ZoneTell) /\ Len(zoneBox[y]) \in Nat
  BY <1>1
<1>3. Boxes
  <2>1. Len(Append(zoneBox[z], x)) = Len(zoneBox[z]) + 1
    BY <1>2, OneMore
  <2> QED BY <1>2, <2>1 DEF Boxes, Assembly
<1>4. ASSUME NEW y \in Assembly, NEW i \in DOMAIN zoneBox'[y]
      PROVE  zoneBox'[y][i].message \in Understood(y)
  <2>1. CASE y # z
    BY <1>2, <2>1 DEF Told
  <2>2. CASE y = z
    <3>1. zoneBox'[z][i] = x \/ (i \in DOMAIN zoneBox[z] /\ zoneBox'[z][i] = zoneBox[z][i])
      BY <1>2, <2>2, OneMoreMember
    <3> QED BY <2>2, <3>1 DEF Told
  <2> QED BY <2>1, <2>2
<1> QED BY <1>3, <1>4

\* A turn that is opened with a proper tell, or with none
LEMMA OpenTold ==
    ASSUME P!TypeInv, Told, NEW e, NEW tell, tell # NoTell => Proper(tell), P!OpenTurn(e, tell)
    PROVE  /\ Boxes
           /\ \A z \in Assembly : \A i \in DOMAIN zoneBox'[z] : zoneBox'[z][i].message \in Understood(z)
           /\ \A i \in DOMAIN queue' : queue'[i].tell # NoTell => Proper(queue'[i].tell)
<1>1. queue \in Seq(P!Barrier)
  BY DEF P!TypeInv, P!TypeOK
<1>2. queue' = Append(queue, P!NewBarrier(nextTurn, e, tell))
  BY DEF P!OpenTurn
<1>3. P!NewBarrier(nextTurn, e, tell).tell = tell
  BY DEF P!NewBarrier
<1>4. ASSUME NEW i \in DOMAIN queue', queue'[i].tell # NoTell PROVE Proper(queue'[i].tell)
  <2> DEFINE b == P!NewBarrier(nextTurn, e, tell)
  <2>1. queue'[i] = b \/ (i \in DOMAIN queue /\ queue'[i] = queue[i])
    <3> HIDE DEF b
    <3> QED BY <1>1, <1>2, OneMoreMember DEF b
  <2> HIDE DEF b
  <2> QED BY <1>3, <1>4, <2>1 DEF Told, b
<1>5. CASE tell = NoTell
  <2>1. zoneBox' = zoneBox
    BY <1>5 DEF P!OpenTurn
  <2>2. Len(zoneBox["Headlamp"]) \in Nat
    BY DEF P!TypeInv, P!TypeOK, Assembly
  <2> QED BY <1>4, <2>1, <2>2 DEF Told, Boxes
<1>6. CASE tell # NoTell
  <2> DEFINE x == [turn |-> nextTurn, attempt |-> 0, message |-> tell.message]
  <2>1. zoneBox' = [zoneBox EXCEPT ![tell.zone] = Append(@, x)]
    BY <1>6 DEF P!OpenTurn
  <2>2. tell.zone \in Assembly /\ x.message \in Understood(tell.zone)
    BY <1>6 DEF Proper
  <2> HIDE DEF x
  <2> QED BY <1>4, <2>1, <2>2, Deliver
<1> QED BY <1>5, <1>6

\* The tail of a sequence has nothing the sequence has not.
LEMMA TailMember ==
    ASSUME NEW S, NEW s \in Seq(S), s # << >>
    PROVE  /\ Tail(s) \in Seq(S) /\ Len(Tail(s)) = Len(s) - 1
           /\ \A i \in DOMAIN Tail(s) : i + 1 \in DOMAIN s /\ Tail(s)[i] = s[i + 1]
           /\ Len(s) \in Nat \ {0} /\ 1 \in DOMAIN s /\ Head(s) = s[1] /\ s[1] \in S
  OBVIOUS

\* A barrier that is replaced keeps its tell.
LEMMA ReplaceTold ==
    ASSUME P!TypeInv, Told, NEW i \in DOMAIN queue, NEW b, b.tell = queue[i].tell,
           queue' = [queue EXCEPT ![i] = b]
    PROVE  \A j \in DOMAIN queue' : queue'[j].tell # NoTell => Proper(queue'[j].tell)
<1>1. DOMAIN queue' = DOMAIN queue /\ \A j \in DOMAIN queue : queue'[j] = IF j = i THEN b ELSE queue[j]
  BY DEF P!TypeInv, P!TypeOK
<1> QED BY <1>1 DEF Told

\* A message of a kind that is taken from the brain's mailbox has that kind's
\* fields.
LEMMA Taken ==
    ASSUME P!TypeInv, NEW k, P!Receive(k)
    PROVE  /\ k = "Fsm" => Head(inbox) \in P!FsmMsg
           /\ k = "Spontaneous" => Head(inbox) \in P!SpontaneousMsg
<1>1. Head(inbox) \in P!InboxMsg /\ Head(inbox).kind = k
  BY DEF P!TypeInv, P!TypeOK, P!Receive
<1> QED BY <1>1 DEF P!InboxMsg, P!FsmMsg, P!ZoneReadyMsg, P!TimeoutMsg, P!SpontaneousMsg

\* A message from the brain's mailbox opens a turn.
LEMMA FsmKeeps ==
    ASSUME P!TypeInv, Told, P!HandleFsm
    PROVE  Told' /\ Boxes
<1> DEFINE e    == Head(inbox).event
           tell == ZoneMessageForEvent(e, twin)
<1>1. e \in Event
  <2>1. Head(inbox) \in P!FsmMsg
    BY Taken DEF P!HandleFsm
  <2> QED BY <2>1 DEF P!FsmMsg
<1>2. tell # NoTell => Proper(tell)
  BY <1>1, TellType DEF Event, ZoneMessageForEvent, Proper, Understood, Assembly
<1>3. P!OpenTurn(e, tell) /\ todo' = todo
  BY DEF P!HandleFsm
<1> HIDE DEF e, tell
<1> QED BY <1>2, <1>3, OpenTold DEF Told

\* A lifecycle turn of an assembly is opened.
LEMMA OpenKeeps ==
    ASSUME P!TypeInv, Told, P!PerformOpen
    PROVE  Told' /\ Boxes
<1>1. todo \in Seq(P!Action) /\ todo # << >>
  BY DEF P!TypeInv, P!TypeOK, P!PerformOpen
<1>2. Proper(Head(todo).tell)
  BY <1>1, TailMember DEF Told, P!PerformOpen
<1>3. P!OpenTurn(Head(todo).event, Head(todo).tell) /\ todo' = Tail(todo)
  BY DEF P!PerformOpen
<1>4. \A i \in DOMAIN todo' : todo'[i].kind = "open" => Proper(todo'[i].tell)
  BY <1>1, <1>3, TailMember DEF Told
<1> QED BY <1>2, <1>3, <1>4, OpenTold DEF Told

\* A command that is sent.
LEMMA SendKeeps ==
    ASSUME P!TypeInv, Told, P!PerformSend
    PROVE  Told' /\ Boxes
<1>1. todo \in Seq(P!Action) /\ todo # << >> /\ todo' = Tail(todo)
  BY DEF P!TypeInv, P!TypeOK, P!PerformSend
<1>2. \A i \in DOMAIN todo' : todo'[i].kind = "open" => Proper(todo'[i].tell)
  BY <1>1, TailMember DEF Told
<1>3. zoneBox' = zoneBox /\ queue' = queue
  BY DEF P!PerformSend
<1>4. Len(zoneBox["Headlamp"]) \in Nat
  BY DEF P!TypeInv, P!TypeOK, Assembly
<1> QED BY <1>2, <1>3, <1>4 DEF Told, Boxes

\* A tell is repeated.
LEMMA RetryKeeps ==
    ASSUME P!TypeInv, Told, NEW i \in DOMAIN queue, P!HandleTimeoutRetry(i)
    PROVE  Told' /\ Boxes
<1> DEFINE x == [turn |-> queue[i].turn, attempt |-> queue[i].attempt + 1,
                 message |-> queue[i].tell.message]
           b == P!Retried(queue[i])
<1>1. queue[i].tell # NoTell
  BY DEF P!HandleTimeoutRetry, P!Concerns
<1>2. Proper(queue[i].tell)
  BY <1>1 DEF Told
<1>3. /\ zoneBox' = [zoneBox EXCEPT ![queue[i].tell.zone] = Append(@, x)]
      /\ queue' = [queue EXCEPT ![i] = b]
      /\ todo' = todo
  BY DEF P!HandleTimeoutRetry
<1>4. b.tell = queue[i].tell
  <2>1. queue[i] \in P!Barrier
    BY DEF P!TypeInv, P!TypeOK
  <2> QED BY <2>1 DEF P!Retried, P!Barrier
<1>5. x.message \in Understood(queue[i].tell.zone) /\ queue[i].tell.zone \in Assembly
  BY <1>2 DEF Proper
<1> HIDE DEF x, b
<1>6. /\ Boxes
      /\ \A y \in Assembly : \A k \in DOMAIN zoneBox'[y] : zoneBox'[y][k].message \in Understood(y)
  BY <1>3, <1>5, Deliver
<1>7. \A j \in DOMAIN queue' : queue'[j].tell # NoTell => Proper(queue'[j].tell)
  BY <1>3, <1>4, ReplaceTold
<1> QED BY <1>3, <1>6, <1>7 DEF Told

\* A reply or a surrender is stored in its barrier, or nothing changes.
LEMMA AnswerKeeps ==
    ASSUME P!TypeInv, Told,
           \/ \E i \in DOMAIN queue : P!HandleZoneReady(i) \/ P!HandleTimeoutGaveUp(i)
           \/ P!DiscardZoneReady \/ P!DiscardTimeout
    PROVE  Told' /\ Boxes
<1>1. zoneBox' = zoneBox /\ todo' = todo
  BY DEF P!HandleZoneReady, P!HandleTimeoutGaveUp, P!DiscardZoneReady, P!DiscardTimeout
<1>2. Len(zoneBox["Headlamp"]) \in Nat
  BY DEF P!TypeInv, P!TypeOK, Assembly
<1>3. ASSUME NEW i \in DOMAIN queue, P!HandleZoneReady(i) \/ P!HandleTimeoutGaveUp(i)
      PROVE  \A j \in DOMAIN queue' : queue'[j].tell # NoTell => Proper(queue'[j].tell)
  <2>1. PICK r : queue' = [queue EXCEPT ![i] = P!ActOnZoneReply(queue[i], r)]
    BY <1>3 DEF P!HandleZoneReady, P!HandleTimeoutGaveUp
  <2>2. queue[i] \in P!Barrier
    BY DEF P!TypeInv, P!TypeOK
  <2>3. P!ActOnZoneReply(queue[i], r).tell = queue[i].tell
    BY <2>2 DEF P!ActOnZoneReply, P!Barrier
  <2> DEFINE b == P!ActOnZoneReply(queue[i], r)
  <2> HIDE DEF b
  <2> QED BY <2>1, <2>3, ReplaceTold DEF b
<1>4. CASE P!DiscardZoneReady \/ P!DiscardTimeout
  <2>1. queue' = queue
    BY <1>4 DEF P!DiscardZoneReady, P!DiscardTimeout
  <2> QED BY <1>1, <1>2, <2>1 DEF Told, Boxes
<1> QED BY <1>1, <1>2, <1>3, <1>4 DEF Told, Boxes

\* A turn that is committed: its actions are proper.
LEMMA CommitKeeps ==
    ASSUME P!TypeInv, Told, P!CommitFront \/ P!HandleSpontaneous
    PROVE  Told' /\ Boxes
<1>1. zoneBox' = zoneBox /\ Len(zoneBox["Headlamp"]) \in Nat
  BY DEF P!TypeInv, P!TypeOK, Assembly, P!CommitFront, P!HandleSpontaneous
<1>2. PICK e \in Event, r \in ZoneReply \cup {NoReply} : todo' = Actions(twin, e, r)
  <2>1. CASE P!CommitFront
    <3>1. Head(queue) \in P!Barrier
      BY <2>1 DEF P!TypeInv, P!TypeOK, P!CommitFront
    <3> QED BY <2>1, <3>1 DEF P!CommitFront, P!Barrier
  <2>2. CASE P!HandleSpontaneous
    <3>1. Head(inbox) \in P!SpontaneousMsg
      BY <2>2, Taken DEF P!HandleSpontaneous
    <3>2. Head(inbox).event \in Event /\ Head(inbox).reply \in ZoneReply
      BY <3>1, ParametersFit DEF P!SpontaneousMsg
    <3> QED BY <2>2, <3>2 DEF P!HandleSpontaneous
  <2> QED BY <2>1, <2>2
<1>3. \A i \in DOMAIN todo' : todo'[i].kind = "open" => Proper(todo'[i].tell)
  <2>1. twin \in Twin
    BY DEF P!TypeInv, P!TypeOK
  <2>2. Actions(twin, e, r) \in Seq(ProperAction)
    BY <2>1, ActionsType
  <2> QED BY <1>2, <2>2, ProperActions
<1>4. \A i \in DOMAIN queue' : queue'[i].tell # NoTell => Proper(queue'[i].tell)
  <2>1. CASE P!CommitFront
    <3>1. queue \in Seq(P!Barrier) /\ queue # << >> /\ queue' = Tail(queue)
      BY <2>1 DEF P!TypeInv, P!TypeOK, P!CommitFront
    <3> QED BY <3>1, TailMember DEF Told
  <2>2. CASE P!HandleSpontaneous
    BY <2>2 DEF P!HandleSpontaneous, Told
  <2> QED BY <2>1, <2>2
<1> QED BY <1>1, <1>3, <1>4 DEF Told, Boxes

\* The brain tells the zones what they understand, and touches nothing of the
\* twinlets but their mailboxes.
LEMMA BrainKeeps ==
    ASSUME P!TypeInv, ZoneInv, Brain
    PROVE  /\ Told' /\ Boxes
           /\ zoneCtx' = zoneCtx /\ ackHeld' = ackHeld /\ ackLoose' = ackLoose /\ ackBox' = ackBox
<1>1. Told
  BY DEF Told, ZoneInv
<1>2. zoneCtx' = zoneCtx /\ ackHeld' = ackHeld /\ ackLoose' = ackLoose /\ ackBox' = ackBox
  BY DEF Brain, Receive, HandleSpontaneous, CommitFront, PerformOpen, PerformSend, ackVars
<1>3. CASE Receive
  <2>1. \/ P!HandleFsm
        \/ \E i \in DOMAIN queue : P!HandleZoneReady(i) \/ P!HandleTimeoutGaveUp(i)
        \/ P!DiscardZoneReady \/ P!DiscardTimeout
        \/ \E i \in DOMAIN queue : P!HandleTimeoutRetry(i)
    BY <1>3, SameBrain, Zenon DEF Receive
  <2> QED BY <1>1, <1>2, <2>1, FsmKeeps, AnswerKeeps, RetryKeeps, Zenon
<1>4. CASE HandleSpontaneous \/ CommitFront
  <2>1. P!CommitFront \/ P!HandleSpontaneous
    BY <1>4, SameBrain, Zenon DEF HandleSpontaneous, CommitFront
  <2> QED BY <1>1, <1>2, <2>1, CommitKeeps, Zenon
<1>5. CASE PerformOpen
  <2>1. P!PerformOpen
    BY <1>5, SameBrain, Zenon DEF PerformOpen
  <2> QED BY <1>1, <1>2, <2>1, OpenKeeps, Zenon
<1>6. CASE PerformSend
  <2>1. P!PerformSend
    BY <1>6, SameBrain, Zenon DEF PerformSend
  <2> QED BY <1>1, <1>2, <2>1, SendKeeps, Zenon
<1> QED BY <1>3, <1>4, <1>5, <1>6, Zenon DEF Brain

-----------------------------------------------------------------------------
(* The twinlets keep ZoneInv, AckInv and RequestHasDeadline.               *)

\* The next tell of a zone is taken from its mailbox.
LEMMA TakeTell ==
    ASSUME P!TypeInv, Told, NEW z \in Assembly, zoneBox[z] # << >>,
           zoneBox' = [zoneBox EXCEPT ![z] = Tail(@)], queue' = queue, todo' = todo
    PROVE  /\ Told'
           /\ Len(zoneBox'[z]) = Len(zoneBox[z]) - 1
           /\ \A y \in Assembly : y # z => zoneBox'[y] = zoneBox[y]
<1>1. zoneBox \in [Assembly -> Seq(P!ZoneTell)]
  BY DEF P!TypeInv, P!TypeOK
<1>2. zoneBox'[z] = Tail(zoneBox[z]) /\ \A y \in Assembly : y # z => zoneBox'[y] = zoneBox[y]
  BY <1>1
<1>3. \A i \in DOMAIN Tail(zoneBox[z]) : i + 1 \in DOMAIN zoneBox[z] /\ Tail(zoneBox[z])[i] = zoneBox[z][i + 1]
  BY <1>1, TailMember
<1>4. Len(Tail(zoneBox[z])) = Len(zoneBox[z]) - 1
  BY <1>1, TailMember
<1>5. ASSUME NEW y \in Assembly, NEW i \in DOMAIN zoneBox'[y]
      PROVE  zoneBox'[y][i].message \in Understood(y)
  <2>1. CASE y = z
    BY <1>2, <1>3, <2>1 DEF Told
  <2>2. CASE y # z
    BY <1>2, <2>2 DEF Told
  <2> QED BY <2>1, <2>2
<1> QED BY <1>2, <1>4, <1>5 DEF Told

\* A reply puts the twinlet's copy into one of its states.
LEMMA CopyType ==
    ASSUME ZoneInv, Told', NEW z \in Assembly, NEW c \in StateOf(z),
           zoneCtx' = [zoneCtx EXCEPT ![z] = c]
    PROVE  ZoneInv' /\ zoneCtx'[z] = c
<1>1. DOMAIN zoneCtx' = Assembly /\ \A y \in Assembly : zoneCtx'[y] = IF y = z THEN c ELSE zoneCtx[y]
  BY DEF ZoneInv
<1>2. c \in HeadlampState \cup WiperState
  BY DEF StateOf
<1>3. zoneCtx' \in [Assembly -> HeadlampState \cup WiperState]
  BY <1>2 DEF ZoneInv
<1> QED BY <1>1, <1>3 DEF ZoneInv, Told

\* Nothing but the mailboxes changes, and the headlamp's does not get shorter.
LEMMA AckKept ==
    ASSUME P!TypeInv, P!TypeInv', AckInv, RequestHasDeadline, Boxes,
           zoneCtx'["Headlamp"] = zoneCtx["Headlamp"],
           ackHeld' = ackHeld, ackLoose' = ackLoose, ackBox' = ackBox
    PROVE  AckInv' /\ RequestHasDeadline'
<1>1. Len(zoneBox["Headlamp"]) \in Nat /\ Len(zoneBox'["Headlamp"]) \in Nat
  BY DEF P!TypeInv, P!TypeOK, Assembly
<1>2. \A i \in 1..Len(ackBox) : ackBox[i].ahead \in Int
  <2>1. \A i \in 1..Len(ackBox) : ackBox[i] \in Deadline
    BY DEF AckInv
  <2> QED BY <2>1 DEF Deadline
<1>3. \A i \in 1..Len(ackBox) : 0 <= ackBox[i].ahead /\ ackBox[i].ahead <= Len(zoneBox'["Headlamp"])
  BY <1>1, <1>2 DEF AckInv, Boxes
<1> QED BY <1>3 DEF AckInv, RequestHasDeadline

\* The request in flight in a lamp state has a direction.
LEMMA InFlightType == \A lamp : InFlight(lamp) \in Direction \cup {"None"}
  BY DEF InFlight, Direction

\* A function on 1..n is a sequence of length n.
LEMMA SequenceOf ==
    ASSUME NEW S, NEW n \in Nat, NEW f, f = [i \in 1..n |-> f[i]], \A i \in 1..n : f[i] \in S
    PROVE  f \in Seq(S) /\ Len(f) = n
<1>1. f \in [1..n -> S]
  OBVIOUS
<1> QED BY <1>1

\* A tell is applied: the deadlines behind it come one nearer, and a request
\* in flight gets a deadline of its own.
LEMMA ApplyKeeps ==
    ASSUME P!TypeInv, P!TypeInv', ZoneInv, AckInv, HeadlampApply
    PROVE  ZoneInv' /\ AckInv' /\ RequestHasDeadline'
<1> DEFINE r == HeadlampOnMessage(zoneCtx["Headlamp"], Head(zoneBox["Headlamp"]).message)
<1>1. /\ TellIsNext
      /\ zoneBox["Headlamp"] # << >>
      /\ P!ZoneAnswers("Headlamp", r)
      /\ zoneCtx' = [zoneCtx EXCEPT !["Headlamp"] = r.ctx]
      /\ ackHeld' = InFlight(r.ctx)
      /\ ackBox' = [i \in DOMAIN ackBox |-> [ackBox[i] EXCEPT !.ahead = @ - 1]]
      /\ ackLoose' = ackLoose
  BY SameSurroundings, Zenon DEF HeadlampApply
<1>2. r.ctx \in StateOf("Headlamp") /\ "Headlamp" \in Assembly
  BY <1>1, ApplyType DEF Assembly, OnReceivingMessage
<1> HIDE DEF r
<1>3. /\ "Headlamp" \notin Silent
      /\ zoneBox' = [zoneBox EXCEPT !["Headlamp"] = Tail(@)] /\ queue' = queue /\ todo' = todo
  BY <1>1 DEF P!ZoneAnswers
<1>4. Told
  BY DEF Told, ZoneInv
<1>5. Told' /\ Len(zoneBox'["Headlamp"]) = Len(zoneBox["Headlamp"]) - 1
  BY <1>1, <1>2, <1>3, <1>4, TakeTell
<1>6. ZoneInv' /\ zoneCtx'["Headlamp"] = r.ctx
  BY <1>1, <1>2, <1>5, CopyType
<1>7. /\ Len(ackBox) \in Nat /\ DOMAIN ackBox = 1..Len(ackBox)
      /\ \A i \in 1..Len(ackBox) : ackBox[i] \in Deadline
  BY DEF AckInv
<1>8. \A i \in 1..Len(ackBox) : ackBox'[i] \in Deadline /\ ackBox'[i].ahead = ackBox[i].ahead - 1
  BY <1>1, <1>7 DEF Deadline
<1>9. ackBox' \in Seq(Deadline) /\ Len(ackBox') = Len(ackBox)
  <2> DEFINE n == Len(ackBox)
             f == [i \in DOMAIN ackBox |-> [ackBox[i] EXCEPT !.ahead = @ - 1]]
  <2>1. n \in Nat /\ DOMAIN f = 1..n /\ (\A i \in 1..n : f[i] \in Deadline) /\ ackBox' = f
    BY <1>1, <1>7, <1>8
  <2>2. f = [i \in 1..n |-> f[i]]
    BY <1>7
  <2> HIDE DEF f, n
  <2>3. f \in Seq(Deadline) /\ Len(f) = n
    BY <2>1, <2>2, SequenceOf
  <2> QED BY <2>1, <2>3 DEF n
<1>10. \A i \in 1..Len(ackBox) : ackBox[i].ahead > 0
  <2> SUFFICES ASSUME NEW i \in 1..Len(ackBox) PROVE ackBox[i].ahead > 0
    OBVIOUS
  <2>1. ackBox # << >> /\ Head(ackBox) = ackBox[1] /\ 1 \in 1..Len(ackBox)
    BY <1>7 DEF AckInv
  <2>2. ackBox[1].ahead > 0
    BY <1>1, <2>1 DEF TellIsNext
  <2>3. i = 1 \/ ackBox[1].ahead <= ackBox[i].ahead
    BY <1>7, <2>1 DEF AckInv
  <2>4. ackBox[1].ahead \in Int /\ ackBox[i].ahead \in Int
    BY <1>7, <2>1 DEF Deadline
  <2> QED BY <2>2, <2>3, <2>4
<1>11. Len(zoneBox["Headlamp"]) \in Nat
  BY DEF P!TypeInv, P!TypeOK, Assembly
<1>12. \A i \in 1..Len(ackBox) : ackBox[i].ahead \in Int
  BY <1>7 DEF Deadline
<1>13. \A i \in 1..Len(ackBox') : 0 <= ackBox'[i].ahead /\ ackBox'[i].ahead <= Len(zoneBox'["Headlamp"])
  BY <1>5, <1>8, <1>9, <1>10, <1>11, <1>12 DEF AckInv
<1>14. \A i, j \in 1..Len(ackBox') : i < j => ackBox'[i].ahead <= ackBox'[j].ahead
  <2> SUFFICES ASSUME NEW i \in 1..Len(ackBox), NEW j \in 1..Len(ackBox), i < j
               PROVE  ackBox'[i].ahead <= ackBox'[j].ahead
    BY <1>9
  <2>1. ackBox[i].ahead <= ackBox[j].ahead
    BY DEF AckInv
  <2>2. ackBox'[i].ahead = ackBox[i].ahead - 1 /\ ackBox'[j].ahead = ackBox[j].ahead - 1
    BY <1>8
  <2>3. ackBox[i].ahead \in Int /\ ackBox[j].ahead \in Int
    BY <1>12
  <2> QED BY <2>1, <2>2, <2>3
<1>15. AckInv'
  BY <1>1, <1>3, <1>9, <1>13, <1>14, InFlightType DEF AckInv
<1>16. RequestHasDeadline'
  BY <1>1, <1>6 DEF RequestHasDeadline
<1> QED BY <1>6, <1>15, <1>16

\* The wiper twinlet applies a tell.
LEMMA WiperKeeps ==
    ASSUME P!TypeInv, P!TypeInv', ZoneInv, AckInv, RequestHasDeadline, WiperApply
    PROVE  ZoneInv' /\ AckInv' /\ RequestHasDeadline'
<1> DEFINE r == WiperOnMessage(zoneCtx["Wiper"], Head(zoneBox["Wiper"]).message)
<1>1. /\ zoneBox["Wiper"] # << >>
      /\ P!ZoneAnswers("Wiper", r)
      /\ zoneCtx' = [zoneCtx EXCEPT !["Wiper"] = r.ctx]
      /\ ackHeld' = ackHeld /\ ackLoose' = ackLoose /\ ackBox' = ackBox
  BY SameSurroundings DEF WiperApply, ackVars
<1>2. r.ctx \in StateOf("Wiper") /\ "Wiper" \in Assembly
  BY <1>1, ApplyType DEF Assembly, OnReceivingMessage
<1> HIDE DEF r
<1>3. zoneBox' = [zoneBox EXCEPT !["Wiper"] = Tail(@)] /\ queue' = queue /\ todo' = todo
  BY <1>1 DEF P!ZoneAnswers
<1>4. Told
  BY DEF Told, ZoneInv
<1>5. Told' /\ zoneBox'["Headlamp"] = zoneBox["Headlamp"]
  BY <1>1, <1>2, <1>3, <1>4, TakeTell DEF Assembly
<1>6. Boxes
  <2>1. Len(zoneBox["Headlamp"]) \in Nat
    BY DEF P!TypeInv, P!TypeOK, Assembly
  <2> QED BY <1>5, <2>1 DEF Boxes
<1>7. zoneCtx'["Headlamp"] = zoneCtx["Headlamp"]
  BY <1>1 DEF ZoneInv, Assembly
<1>8. ZoneInv'
  BY <1>1, <1>2, <1>5, CopyType
<1> QED BY <1>1, <1>6, <1>7, <1>8, AckKept

\* A silent twinlet drops a tell: it has no deadline that waited behind it.
LEMMA SwallowKeeps ==
    ASSUME P!TypeInv, P!TypeInv', ZoneInv, AckInv, RequestHasDeadline, NEW z \in Assembly, Swallow(z)
    PROVE  ZoneInv' /\ AckInv' /\ RequestHasDeadline'
<1>1. /\ P!ZoneSwallows(z)
      /\ zoneCtx' = zoneCtx /\ ackHeld' = ackHeld /\ ackLoose' = ackLoose /\ ackBox' = ackBox
  BY SameSurroundings DEF Swallow, ackVars
<1>2. /\ z \in Silent /\ zoneBox[z] # << >>
      /\ zoneBox' = [zoneBox EXCEPT ![z] = Tail(@)] /\ queue' = queue /\ todo' = todo
  BY <1>1 DEF P!ZoneSwallows
<1>3. Told
  BY DEF Told, ZoneInv
<1>4. Told' /\ (z # "Headlamp" => zoneBox'["Headlamp"] = zoneBox["Headlamp"])
  BY <1>2, <1>3, TakeTell DEF Assembly
<1>5. ZoneInv'
  BY <1>1, <1>4 DEF ZoneInv, Told
<1>6. CASE z = "Headlamp"
  <2>1. ackBox' = << >>
    BY <1>1, <1>2, <1>6 DEF AckInv
  <2>2. Len(ackBox') = 0
    BY <2>1
  <2> QED BY <1>1, <1>5, <2>1, <2>2 DEF AckInv, RequestHasDeadline
<1>7. CASE z # "Headlamp"
  <2>1. Len(zoneBox["Headlamp"]) \in Nat
    BY DEF P!TypeInv, P!TypeOK, Assembly
  <2>2. Boxes
    BY <1>4, <1>7, <2>1 DEF Boxes
  <2> QED BY <1>1, <1>5, <2>2, AckKept
<1> QED BY <1>6, <1>7

\* A timer fires: its message waits behind every tell there is.
LEMMA FiringKeeps ==
    ASSUME P!TypeInv, ZoneInv, AckInv, RequestHasDeadline,
           AckTimerFires \/ \E direction \in Direction : LooseTimerFires(direction)
    PROVE  ZoneInv' /\ AckInv' /\ RequestHasDeadline'
<1>1. PICK d \in Direction :
         /\ ackBox' = Append(ackBox, Elapsed(d))
         /\ \/ ackHeld = d /\ ackHeld' = "None" /\ ackLoose' = ackLoose
            \/ ackHeld' = ackHeld /\ ackLoose[d] > 0 /\ ackLoose' = [ackLoose EXCEPT ![d] = @ - 1]
  BY DEF AckTimerFires, LooseTimerFires, AckInv
<1>2. zoneBox' = zoneBox /\ zoneCtx' = zoneCtx /\ queue' = queue /\ todo' = todo
  BY DEF AckTimerFires, LooseTimerFires, brainVars
<1>3. ZoneInv'
  BY <1>2 DEF ZoneInv
<1>4. "Headlamp" \notin Silent
  BY <1>1 DEF AckInv, Direction
<1>5. /\ Elapsed(d) \in Deadline /\ Elapsed(d).direction = d
      /\ Elapsed(d).ahead = Len(zoneBox["Headlamp"]) /\ Len(zoneBox["Headlamp"]) \in Nat
  BY DEF Elapsed, Deadline, P!TypeInv, P!TypeOK, Assembly
<1>6. ackBox \in Seq(Deadline) /\ Len(ackBox) \in Nat
  BY DEF AckInv
<1> DEFINE x == Elapsed(d)
<1> HIDE DEF x
<1>7. /\ ackBox' \in Seq(Deadline) /\ Len(ackBox') = Len(ackBox) + 1
      /\ \A i \in 1..Len(ackBox) : ackBox'[i] = ackBox[i]
      /\ ackBox'[Len(ackBox) + 1] = x /\ DOMAIN ackBox' = 1..(Len(ackBox) + 1)
  BY <1>1, <1>5, <1>6 DEF x
<1>8. \A i \in 1..Len(ackBox') : 0 <= ackBox'[i].ahead /\ ackBox'[i].ahead <= Len(zoneBox'["Headlamp"])
  <2> SUFFICES ASSUME NEW i \in 1..Len(ackBox')
               PROVE  0 <= ackBox'[i].ahead /\ ackBox'[i].ahead <= Len(zoneBox'["Headlamp"])
    OBVIOUS
  <2>1. CASE i = Len(ackBox) + 1
    BY <1>2, <1>5, <1>7, <2>1 DEF x
  <2>2. CASE i \in 1..Len(ackBox)
    BY <1>2, <1>7, <2>2 DEF AckInv
  <2> QED BY <1>6, <1>7, <2>1, <2>2
<1>9. \A i, j \in 1..Len(ackBox') : i < j => ackBox'[i].ahead <= ackBox'[j].ahead
  <2> SUFFICES ASSUME NEW i \in 1..Len(ackBox'), NEW j \in 1..Len(ackBox'), i < j
               PROVE  ackBox'[i].ahead <= ackBox'[j].ahead
    OBVIOUS
  <2>1. i \in 1..Len(ackBox) /\ (j \in 1..Len(ackBox) \/ j = Len(ackBox) + 1)
    BY <1>6, <1>7
  <2>2. CASE j \in 1..Len(ackBox)
    BY <1>7, <2>1, <2>2 DEF AckInv
  <2>3. CASE j = Len(ackBox) + 1
    BY <1>5, <1>7, <2>1, <2>3 DEF AckInv, x
  <2> QED BY <2>1, <2>2, <2>3
<1>10. ackHeld' \in Direction \cup {"None"} /\ ackLoose' \in [Direction -> Nat]
  BY <1>1 DEF AckInv
<1>11. AckInv'
  BY <1>4, <1>7, <1>8, <1>9, <1>10 DEF AckInv
<1>12. RequestHasDeadline'
  <2> DEFINE c == InFlight(zoneCtx["Headlamp"])
  <2>1. SUFFICES ASSUME c # "None"
                 PROVE  \/ ackHeld' = c
                        \/ ackLoose'[c] > 0
                        \/ \E i \in DOMAIN ackBox' : ackBox'[i].direction = c
    BY <1>2 DEF RequestHasDeadline
  <2>2. \/ ackHeld = c
        \/ ackLoose[c] > 0
        \/ \E i \in DOMAIN ackBox : ackBox[i].direction = c
    BY <2>1 DEF RequestHasDeadline
  <2>3. c \in Direction
    BY <2>1, InFlightType
  <2> HIDE DEF c
  <2>4. CASE c = d
    <3>1. ackBox'[Len(ackBox) + 1].direction = c /\ Len(ackBox) + 1 \in DOMAIN ackBox'
      BY <1>5, <1>6, <1>7, <2>4 DEF x
    <3> QED BY <3>1
  <2>5. CASE c # d
    <3>1. ackHeld = c => ackHeld' = c
      BY <1>1, <2>5
    <3>2. ackLoose'[c] = ackLoose[c]
      BY <1>1, <2>3, <2>5 DEF AckInv
    <3>3. \A i \in DOMAIN ackBox : i \in DOMAIN ackBox' /\ ackBox'[i] = ackBox[i]
      BY <1>6, <1>7
    <3> QED BY <2>2, <3>1, <3>2, <3>3
  <2> QED BY <2>4, <2>5
<1> QED BY <1>3, <1>11, <1>12

\* A deadline is handled.  A request of the other direction keeps its own: a
\* handle that is dropped leaves the timer running.
LEMMA ElapsedKeeps ==
    ASSUME P!TypeInv, P!TypeInv', ZoneInv, AckInv, RequestHasDeadline, AckWaitElapsed
    PROVE  ZoneInv' /\ AckInv' /\ RequestHasDeadline'
<1> DEFINE d == Head(ackBox).direction
           r == RecoverIncomplete(zoneCtx["Headlamp"], d)
           lamp == zoneCtx["Headlamp"]
<1>1. /\ ackBox # << >> /\ ackBox' = Tail(ackBox)
      /\ ackHeld' = "None"
      /\ ackLoose' = IF ackHeld = "None" THEN ackLoose ELSE [ackLoose EXCEPT ![ackHeld] = @ + 1]
      /\ zoneCtx' = [zoneCtx EXCEPT !["Headlamp"] = r.ctx]
  BY DEF AckWaitElapsed
<1>2. zoneBox' = zoneBox /\ queue' = queue /\ todo' = todo
  <2>1. P!ZoneSpeaksUp([kind |-> "FrontHeadlampActuationIncomplete", direction |-> d], r)
    BY SameSurroundings, Zenon DEF AckWaitElapsed
  <2> QED BY <2>1 DEF P!ZoneSpeaksUp
<1>3. /\ ackBox \in Seq(Deadline) /\ Tail(ackBox) \in Seq(Deadline)
      /\ Len(Tail(ackBox)) = Len(ackBox) - 1 /\ Len(ackBox) \in Nat \ {0}
      /\ \A i \in DOMAIN Tail(ackBox) : i + 1 \in DOMAIN ackBox /\ Tail(ackBox)[i] = ackBox[i + 1]
      /\ Head(ackBox) = ackBox[1] /\ ackBox[1] \in Deadline
  BY <1>1, TailMember DEF AckInv
<1>4. d \in Direction /\ lamp \in HeadlampState /\ "Headlamp" \in Assembly
  BY <1>3 DEF Deadline, ZoneInv, StateOf, Assembly
<1>5. r.ctx \in StateOf("Headlamp")
  BY <1>4, RecoverType DEF StateOf
<1>6. Told'
  BY <1>2 DEF ZoneInv, Told
<1> HIDE DEF r
<1>7. ZoneInv' /\ zoneCtx'["Headlamp"] = r.ctx
  BY <1>1, <1>4, <1>5, <1>6, CopyType
<1>8. \A i \in 1..Len(ackBox') : i + 1 \in 1..Len(ackBox) /\ ackBox'[i] = ackBox[i + 1]
  BY <1>1, <1>3
<1>9. ackHeld' \in Direction \cup {"None"} /\ ackLoose' \in [Direction -> Nat]
  BY <1>1 DEF AckInv
<1>10. "Headlamp" \notin Silent
  BY <1>1 DEF AckInv
<1>11. \A i \in 1..Len(ackBox') : 0 <= ackBox'[i].ahead /\ ackBox'[i].ahead <= Len(zoneBox'["Headlamp"])
  BY <1>2, <1>8 DEF AckInv
<1>12. \A i, j \in 1..Len(ackBox') : i < j => ackBox'[i].ahead <= ackBox'[j].ahead
  BY <1>8 DEF AckInv
<1>13. AckInv'
  BY <1>1, <1>3, <1>9, <1>10, <1>11, <1>12 DEF AckInv
<1>14. RequestHasDeadline'
  <2>1. CASE InFlight(lamp) = d
    <3>1. r.ctx \in {"Ready", "On"}
      BY <2>1 DEF r, RecoverIncomplete, LampReply
    <3>2. InFlight(r.ctx) = "None"
      BY <3>1 DEF InFlight
    <3> QED BY <1>7, <3>2 DEF RequestHasDeadline
  <2>2. CASE InFlight(lamp) # d
    <3> DEFINE c == InFlight(lamp)
    <3>1. r.ctx = lamp
      BY <2>2 DEF r, RecoverIncomplete, LampReply
    <3>2. SUFFICES ASSUME c # "None"
                   PROVE  \/ ackLoose'[c] > 0
                          \/ \E i \in DOMAIN ackBox' : ackBox'[i].direction = c
      BY <1>7, <3>1 DEF RequestHasDeadline
    <3>3. \/ ackHeld = c
          \/ ackLoose[c] > 0
          \/ \E i \in DOMAIN ackBox : ackBox[i].direction = c
      BY <3>2 DEF RequestHasDeadline
    <3>4. c \in Direction /\ c # d
      BY <2>2, <3>2, InFlightType
    <3> HIDE DEF c
    <3>5. CASE ackHeld = c
      <4>1. ackLoose'[c] = ackLoose[c] + 1 /\ ackLoose[c] \in Nat
        BY <1>1, <3>2, <3>4, <3>5 DEF AckInv
      <4> QED BY <4>1
    <3>6. CASE ackLoose[c] > 0
      <4>1. ackLoose[c] \in Nat /\ (ackLoose'[c] = ackLoose[c] \/ ackLoose'[c] = ackLoose[c] + 1)
        BY <1>1, <3>4 DEF AckInv
      <4> QED BY <3>6, <4>1
    <3>7. ASSUME NEW i \in DOMAIN ackBox, ackBox[i].direction = c
          PROVE  \E k \in DOMAIN ackBox' : ackBox'[k].direction = c
      <4>1. i # 1
        BY <1>3, <3>4, <3>7
      <4>2. i - 1 \in DOMAIN Tail(ackBox)
        BY <1>3, <4>1
      <4>3. Tail(ackBox)[i - 1] = ackBox[i]
        BY <1>3, <4>2
      <4> QED BY <1>1, <3>7, <4>2, <4>3
    <3> QED BY <3>3, <3>5, <3>6, <3>7
  <2> QED BY <2>1, <2>2
<1> QED BY <1>7, <1>13, <1>14

-----------------------------------------------------------------------------
(* The whole invariant.                                                    *)

\* What comes from outside touches the twinlets in nothing but the firing of
\* their timers.
LEMMA OutsideKeeps ==
    ASSUME P!TypeInv, P!TypeInv', ZoneInv, AckInv, RequestHasDeadline, Outside
    PROVE  ZoneInv' /\ AckInv' /\ RequestHasDeadline'
<1>1. CASE AckTimerFires \/ \E direction \in Direction : LooseTimerFires(direction)
  BY <1>1, FiringKeeps, Zenon
<1>2. CASE (\E e \in Ingress \cup {[kind |-> "PowerOn"]} : Ingest(e)) \/ TellBackTimerFires \/ ChannelReceive
  <2>1. /\ zoneBox' = zoneBox /\ queue' = queue /\ todo' = todo
        /\ zoneCtx' = zoneCtx /\ ackHeld' = ackHeld /\ ackLoose' = ackLoose /\ ackBox' = ackBox
    <3>1. ASSUME NEW e, Ingest(e)
          PROVE  /\ zoneBox' = zoneBox /\ queue' = queue /\ todo' = todo
                 /\ UNCHANGED <<zoneCtx, ackVars>>
      BY <3>1 DEF Ingest, RB!Submit
    <3>2. CASE TellBackTimerFires
      BY <3>2 DEF TellBackTimerFires, RB!TimerFires, ackVars
    <3>3. CASE ChannelReceive
      BY <3>3 DEF ChannelReceive, RB!ChannelReceive, ackVars
    <3> QED BY <1>2, <3>1, <3>2, <3>3 DEF ackVars
  <2>2. ZoneInv'
    BY <2>1 DEF ZoneInv
  <2>3. Boxes
    BY <2>1 DEF Boxes, P!TypeInv, P!TypeOK, Assembly
  <2> QED BY <2>1, <2>2, <2>3, AckKept
<1> QED BY <1>1, <1>2, Zenon DEF Outside

\* The buzzer and the wiper's motor are on or off.
Histories == buzzer \in BOOLEAN /\ wiping \in BOOLEAN

LEMMA SoundType ==
    ASSUME NEW out, NEW b \in BOOLEAN PROVE BuzzerAfter(out, b) \in BOOLEAN
  BY DEF BuzzerAfter

LEMMA HistoriesKept ==
    ASSUME Histories, [Next]_vars PROVE Histories'
<1>1. ASSUME NEW e, NEW r, Sound(e, r) PROVE buzzer' \in BOOLEAN
  BY <1>1, SoundType, Zenon DEF Sound, BuzzerAfterTurn, Histories
<1>2. CASE Brain
  <2>1. CASE Receive
    BY <2>1 DEF Receive, Histories
  <2>2. CASE HandleSpontaneous
    BY <1>1, <2>2, Zenon DEF HandleSpontaneous, Histories
  <2>3. CASE CommitFront
    BY <1>1, <2>3, Zenon DEF CommitFront, Histories
  <2>4. CASE PerformOpen
    BY <2>4 DEF PerformOpen, Histories
  <2>5. CASE PerformSend
    BY <2>5 DEF PerformSend, Histories
  <2> QED BY <1>2, <2>1, <2>2, <2>3, <2>4, <2>5, Zenon DEF Brain
<1>3. CASE Twinlets
  BY <1>3 DEF Twinlets, HeadlampApply, WiperApply, Swallow, AckWaitElapsed, Histories
<1>4. CASE Outside
  BY <1>4 DEF Outside, Ingest, TellBackTimerFires, ChannelReceive, AckTimerFires, LooseTimerFires, Histories
<1>5. CASE UNCHANGED vars
  BY <1>5 DEF vars, Histories
<1> QED BY <1>2, <1>3, <1>4, <1>5, Zenon DEF Next

CarInv == P!TypeInv /\ ZoneInv /\ AckInv /\ RequestHasDeadline /\ Histories

LEMMA CarInit == Init => CarInv /\ P!Init
<1> SUFFICES ASSUME Init PROVE CarInv /\ P!Init
  OBVIOUS
<1>1. P!Init
  BY SameSurroundings, Zenon DEF Init
<1>2. P!TypeInv
  BY <1>1, P!InitType, ParametersFit, Zenon
<1>3. ZoneInv
  <2>1. zoneCtx = [z \in Assembly |-> "Off"] /\ queue = << >> /\ todo = << >> /\ zoneBox = [z \in Assembly |-> << >>]
    BY <1>1 DEF Init, P!Init
  <2> QED BY <2>1 DEF ZoneInv, StateOf, HeadlampState, WiperState
<1>4. AckInv
  <2>1. ackHeld = "None" /\ ackLoose = [d \in Direction |-> 0] /\ ackBox = << >>
    BY DEF Init
  <2>2. Len(ackBox) = 0 /\ ackBox \in Seq(Deadline)
    BY <2>1
  <2> QED BY <2>1, <2>2 DEF AckInv
<1>5. RequestHasDeadline
  BY DEF Init, RequestHasDeadline, InFlight, Assembly
<1>6. Histories
  BY DEF Init, Histories
<1> QED BY <1>1, <1>2, <1>3, <1>4, <1>5, <1>6 DEF CarInv

LEMMA CarNext == CarInv /\ [Next]_vars => CarInv' /\ [P!Next]_(P!vars)
<1> SUFFICES ASSUME CarInv, [Next]_vars PROVE CarInv' /\ [P!Next]_(P!vars)
  OBVIOUS
<1>1. P!TypeInv /\ ZoneInv /\ AckInv /\ RequestHasDeadline /\ Histories
  BY DEF CarInv
<1>2. [P!Next]_(P!vars)
  BY <1>1, NextRefines, Zenon
<1>3. P!TypeInv'
  BY <1>1, <1>2, P!NextType, ParametersFit, Zenon
<1>4. Histories'
  BY <1>1, HistoriesKept, Zenon
<1>5. ZoneInv' /\ AckInv' /\ RequestHasDeadline'
  <2>1. CASE Brain
    <3>1. /\ Told' /\ Boxes
          /\ zoneCtx' = zoneCtx /\ ackHeld' = ackHeld /\ ackLoose' = ackLoose /\ ackBox' = ackBox
      BY <1>1, <2>1, BrainKeeps, Zenon
    <3>2. ZoneInv'
      BY <1>1, <3>1 DEF ZoneInv, Told
    <3> QED BY <1>1, <1>3, <3>1, <3>2, AckKept
  <2>2. CASE Twinlets
    BY <1>1, <1>3, <2>2, ApplyKeeps, WiperKeeps, SwallowKeeps, ElapsedKeeps, Zenon DEF Twinlets
  <2>3. CASE Outside
    BY <1>1, <1>3, <2>3, OutsideKeeps, Zenon
  <2>4. CASE UNCHANGED vars
    BY <1>1, <2>4 DEF vars, brainVars, ackVars, ZoneInv, AckInv, RequestHasDeadline
  <2> QED BY <2>1, <2>2, <2>3, <2>4, Zenon DEF Next
<1> QED BY <1>1, <1>2, <1>3, <1>4, <1>5 DEF CarInv

LEMMA CarCorrect == Spec => []CarInv
  BY CarInit, CarNext, PTL DEF Spec

-----------------------------------------------------------------------------
(* The turn of DigitalTwin is the turn of TwinTurn, in the copy of it that *)
(* the property is about (Committed) and in the one the theorems are about *)
(* (D).                                                                    *)

\* The zone handlers.
LEMMA SameZones ==
    /\ \A z, c, m : /\ D!OnReceivingMessage(z, c, m) = OnReceivingMessage(z, c, m)
                    /\ Committed!OnReceivingMessage(z, c, m) = OnReceivingMessage(z, c, m)
    /\ \A z, c : /\ D!Unresponsive(z, c) = Unresponsive(z, c)
                 /\ Committed!Unresponsive(z, c) = Unresponsive(z, c)
<1> USE DEF D!LampReply, Committed!LampReply, LampReply,
            D!WiperReplyOf, Committed!WiperReplyOf, WiperReplyOf,
            D!InFlight, Committed!InFlight, InFlight,
            D!LUX_ON_THRESHOLD, Committed!LUX_ON_THRESHOLD, LUX_ON_THRESHOLD,
            D!LUX_OFF_THRESHOLD, Committed!LUX_OFF_THRESHOLD, LUX_OFF_THRESHOLD
<1>1. \A l, d : /\ D!RecoverIncomplete(l, d) = RecoverIncomplete(l, d)
                /\ Committed!RecoverIncomplete(l, d) = RecoverIncomplete(l, d)
  BY Zenon DEF D!RecoverIncomplete, Committed!RecoverIncomplete, RecoverIncomplete
<1>2. \A l, x : /\ D!EvaluateLux(l, x) = EvaluateLux(l, x)
                /\ Committed!EvaluateLux(l, x) = EvaluateLux(l, x)
  BY Zenon DEF D!EvaluateLux, Committed!EvaluateLux, EvaluateLux
<1>3. \A l, m : /\ D!HeadlampOnMessage(l, m) = HeadlampOnMessage(l, m)
                /\ Committed!HeadlampOnMessage(l, m) = HeadlampOnMessage(l, m)
  BY <1>1, <1>2 DEF D!HeadlampOnMessage, Committed!HeadlampOnMessage, HeadlampOnMessage
<1>4. \A w, m : /\ D!WiperOnMessage(w, m) = WiperOnMessage(w, m)
                /\ Committed!WiperOnMessage(w, m) = WiperOnMessage(w, m)
  BY Zenon DEF D!WiperOnMessage, Committed!WiperOnMessage, WiperOnMessage
<1>5. \A z, c : /\ D!Unresponsive(z, c) = Unresponsive(z, c)
                /\ Committed!Unresponsive(z, c) = Unresponsive(z, c)
  BY Zenon DEF D!Unresponsive, Committed!Unresponsive, Unresponsive
<1> QED BY <1>3, <1>4, <1>5, Zenon
           DEF D!OnReceivingMessage, Committed!OnReceivingMessage, OnReceivingMessage

\* The names of things.
LEMMA SameNames ==
    /\ \A e : /\ D!UserEventToZoneTell(e) = UserEventToZoneTell(e)
              /\ Committed!UserEventToZoneTell(e) = UserEventToZoneTell(e)
    /\ \A o, b : /\ D!BuzzerAfter(o, b) = BuzzerAfter(o, b)
                 /\ Committed!BuzzerAfter(o, b) = BuzzerAfter(o, b)
    /\ D!NoTell = NoTell /\ Committed!NoTell = NoTell
    /\ D!NoReply = NoReply /\ Committed!NoReply = NoReply
    /\ D!Assembly = Assembly /\ Committed!Assembly = Assembly
    /\ D!Direction = Direction /\ Committed!Direction = Direction
    /\ D!InitialTwin = InitialTwin /\ Committed!InitialTwin = InitialTwin
    /\ \A z : D!ZoneState(z) = StateOf(z) /\ Committed!ZoneState(z) = StateOf(z)
<1>1. \A e : /\ D!UserEventToZoneTell(e) = UserEventToZoneTell(e)
             /\ Committed!UserEventToZoneTell(e) = UserEventToZoneTell(e)
  BY Zenon DEF D!UserEventToZoneTell, Committed!UserEventToZoneTell, UserEventToZoneTell,
               D!Tell, Committed!Tell, Tell, D!NoTell, Committed!NoTell, NoTell
<1>2. \A o, b : /\ D!BuzzerAfter(o, b) = BuzzerAfter(o, b)
                /\ Committed!BuzzerAfter(o, b) = BuzzerAfter(o, b)
  BY Zenon DEF D!BuzzerAfter, Committed!BuzzerAfter, BuzzerAfter
<1>3. \A z : D!ZoneState(z) = StateOf(z) /\ Committed!ZoneState(z) = StateOf(z)
  BY Zenon DEF D!ZoneState, Committed!ZoneState, StateOf, D!HeadlampState, Committed!HeadlampState,
               HeadlampState, D!WiperState, Committed!WiperState, WiperState
<1> QED BY <1>1, <1>2, <1>3, Zenon
           DEF D!NoTell, Committed!NoTell, NoTell, D!NoReply, Committed!NoReply, NoReply,
               D!Assembly, Committed!Assembly, Assembly, D!Direction, Committed!Direction, Direction,
               D!InitialTwin, Committed!InitialTwin, InitialTwin

\* The transition table.
LEMMA SameTable ==
    \A t, e : D!Step(t, e) = Step(t, e) /\ Committed!Step(t, e) = Step(t, e)
<1>1. \A t, e : D!Transition(t, e) = Transition(t, e) /\ Committed!Transition(t, e) = Transition(t, e)
  <2> USE DEF D!Stay, Committed!Stay, Stay, D!To, Committed!To, To,
              D!Assembly, Committed!Assembly, Assembly,
              D!Stationary, Committed!Stationary, Stationary,
              D!WarningActive, Committed!WarningActive, WarningActive,
              D!RPM_DRIVING_THRESHOLD, Committed!RPM_DRIVING_THRESHOLD, RPM_DRIVING_THRESHOLD,
              D!LUX_ON_THRESHOLD, Committed!LUX_ON_THRESHOLD, LUX_ON_THRESHOLD
  <2>1. \A t : (D!WarningActive(t) <=> WarningActive(t)) /\ (Committed!WarningActive(t) <=> WarningActive(t))
    BY Zenon DEF D!operational_warning_active, Committed!operational_warning_active,
         operational_warning_active, D!extreme_operation_active, Committed!extreme_operation_active,
         extreme_operation_active, D!speed_threshold_exceeded, Committed!speed_threshold_exceeded,
         speed_threshold_exceeded, D!RPM_EXTREME_OPERATION_THRESHOLD,
         Committed!RPM_EXTREME_OPERATION_THRESHOLD, RPM_EXTREME_OPERATION_THRESHOLD,
         D!SPEED_EXTREME_OPERATION_THRESHOLD_KPH, Committed!SPEED_EXTREME_OPERATION_THRESHOLD_KPH,
         SPEED_EXTREME_OPERATION_THRESHOLD_KPH
  <2> HIDE DEF D!WarningActive, Committed!WarningActive, WarningActive
  <2>2. \A t, e : D!FromOff(t, e) = FromOff(t, e) /\ Committed!FromOff(t, e) = FromOff(t, e)
    BY Zenon DEF D!FromOff, Committed!FromOff, FromOff
  <2>3. \A t, e, d : /\ D!CountDown(t, e, d) = CountDown(t, e, d)
                     /\ Committed!CountDown(t, e, d) = CountDown(t, e, d)
    BY Zenon DEF D!CountDown, Committed!CountDown, CountDown
  <2>4. \A t, e : D!FromIdle(t, e) = FromIdle(t, e) /\ Committed!FromIdle(t, e) = FromIdle(t, e)
    BY Zenon DEF D!FromIdle, Committed!FromIdle, FromIdle
  <2>5. \A t, e : D!FromDriving(t, e) = FromDriving(t, e) /\ Committed!FromDriving(t, e) = FromDriving(t, e)
    BY <2>1 DEF D!FromDriving, Committed!FromDriving, FromDriving
  <2>6. \A t, e : /\ D!FromDrivingDangerously(t, e) = FromDrivingDangerously(t, e)
                  /\ Committed!FromDrivingDangerously(t, e) = FromDrivingDangerously(t, e)
    BY Zenon DEF D!FromDrivingDangerously, Committed!FromDrivingDangerously, FromDrivingDangerously
  <2>7. \A t, e : /\ D!FromExtremeOperationWarning(t, e) = FromExtremeOperationWarning(t, e)
                  /\ Committed!FromExtremeOperationWarning(t, e) = FromExtremeOperationWarning(t, e)
    BY <2>1 DEF D!FromExtremeOperationWarning, Committed!FromExtremeOperationWarning,
                FromExtremeOperationWarning
  <2> QED BY <2>2, <2>3, <2>4, <2>5, <2>6, <2>7 DEF D!Transition, Committed!Transition, Transition
<1>2. \A o, n : D!Output(o, n) = Output(o, n) /\ Committed!Output(o, n) = Output(o, n)
  BY Zenon DEF D!Output, Committed!Output, Output, D!Alarm, Committed!Alarm, Alarm
<1> QED BY <1>1, <1>2, Zenon DEF D!Step, Committed!Step, Step

\* The whole turn.
LEMMA SameTurn ==
    \A t, e, r : D!Turn(t, e, r) = Turn(t, e, r) /\ Committed!Turn(t, e, r) = Turn(t, e, r)
<1>1. \A t, e, r : D!ZoneTurn(t, e, r) = ZoneTurn(t, e, r) /\ Committed!ZoneTurn(t, e, r) = ZoneTurn(t, e, r)
  <2>1. \A t, e : /\ D!TakeReading(t, e) = TakeReading(t, e)
                  /\ Committed!TakeReading(t, e) = TakeReading(t, e)
    BY Zenon DEF D!TakeReading, Committed!TakeReading, TakeReading,
                 D!SpeedFromRpm, Committed!SpeedFromRpm, SpeedFromRpm
  <2>2. \A t, r : D!Adopt(t, r) = Adopt(t, r) /\ Committed!Adopt(t, r) = Adopt(t, r)
    BY Zenon DEF D!Adopt, Committed!Adopt, Adopt
  <2>3. \A t, z, m, r : /\ D!Merged(t, z, m, r) = Merged(t, z, m, r)
                        /\ Committed!Merged(t, z, m, r) = Merged(t, z, m, r)
    BY SameZones, Zenon DEF D!Merged, Committed!Merged, Merged, D!ZoneCtx, Committed!ZoneCtx, ZoneCtx
  <2>4. \A t, e, r : /\ D!ZoneEffect(t, e, r) = ZoneEffect(t, e, r)
                     /\ Committed!ZoneEffect(t, e, r) = ZoneEffect(t, e, r)
    BY SameNames, <2>3 DEF D!ZoneEffect, Committed!ZoneEffect, ZoneEffect
  <2> QED BY SameNames, <2>1, <2>2, <2>4 DEF D!ZoneTurn, Committed!ZoneTurn, ZoneTurn
<1>2. \A t : (D!LightingUnsafe(t) <=> LightingUnsafe(t)) /\ (Committed!LightingUnsafe(t) <=> LightingUnsafe(t))
  BY Zenon DEF D!LightingUnsafe, Committed!LightingUnsafe, LightingUnsafe,
               D!LUX_ON_THRESHOLD, Committed!LUX_ON_THRESHOLD, LUX_ON_THRESHOLD
<1> QED BY <1>1, <1>2, SameTable
           DEF D!Turn, Committed!Turn, Turn, D!ExternalHop, Committed!ExternalHop, ExternalHop,
               D!LightingUnsafeEvent, Committed!LightingUnsafeEvent, LightingUnsafeEvent

\* Committed is D.
LEMMA SameTwin ==
    /\ Committed!Init <=> D!Init
    /\ Committed!Next <=> D!Next
    /\ Committed!vars = D!vars
<1>1. \A z, m : Committed!Answers(z, m) = D!Answers(z, m)
  BY SameZones, SameNames DEF D!Answers, Committed!Answers
<1>2. \A e : Committed!Replies(e) = D!Replies(e)
  BY <1>1, SameNames, Zenon DEF D!Replies, Committed!Replies
<1>3. \A o : Committed!OpenedBy(o) = D!OpenedBy(o)
  BY SameNames, Zenon DEF D!OpenedBy, Committed!OpenedBy
<1>4. \A e, r, d : Committed!CommitResolvedTurn(e, r, d) <=> D!CommitResolvedTurn(e, r, d)
  BY <1>3, SameTurn, SameNames, Zenon DEF D!CommitResolvedTurn, Committed!CommitResolvedTurn
<1>5. /\ Committed!PowerOn <=> D!PowerOn
      /\ Committed!PowerOff <=> D!PowerOff
      /\ \A rpm : Committed!UpdateRpm(rpm) <=> D!UpdateRpm(rpm)
      /\ \A lux : Committed!UpdateAmbientLux(lux) <=> D!UpdateAmbientLux(lux)
      /\ \A kind : Committed!FrontHeadlampAck(kind) <=> D!FrontHeadlampAck(kind)
      /\ \A d : Committed!FrontHeadlampActuationIncomplete(d) <=> D!FrontHeadlampActuationIncomplete(d)
      /\ \A kind : Committed!Rains(kind) <=> D!Rains(kind)
      /\ Committed!TimerTick <=> D!TimerTick
      /\ \A l : Committed!AssemblyZoneReady(l) <=> D!AssemblyZoneReady(l)
  BY <1>1, <1>2, <1>4, SameNames, Zenon
     DEF D!PowerOn, Committed!PowerOn, D!PowerOff, Committed!PowerOff, D!UpdateRpm, Committed!UpdateRpm,
         D!UpdateAmbientLux, Committed!UpdateAmbientLux, D!FrontHeadlampAck, Committed!FrontHeadlampAck,
         D!FrontHeadlampActuationIncomplete, Committed!FrontHeadlampActuationIncomplete,
         D!Rains, Committed!Rains, D!TimerTick, Committed!TimerTick,
         D!AssemblyZoneReady, Committed!AssemblyZoneReady
<1>6. Committed!Next <=> D!Next
  BY <1>5, SameNames, Zenon DEF D!Next, Committed!Next
<1>7. Committed!Init <=> D!Init
  BY SameNames, Zenon DEF D!Init, Committed!Init
<1>8. Committed!vars = D!vars
  BY Zenon DEF D!vars, Committed!vars
<1> QED BY <1>6, <1>7, <1>8

-----------------------------------------------------------------------------
(* The lifecycle turns that are open.                                      *)

IsLifecycle(b) == b.event.kind = "AssemblyZoneReady"
Lifecycle(b)   == [assembly |-> b.event.assembly, message |-> b.tell.message.kind]

\* OpenTurns of a queue q and a list of actions a.
OpenOf(q, a) ==
    {Lifecycle(q[i]) : i \in {j \in DOMAIN q : IsLifecycle(q[j])}}
       \cup {Lifecycle(a[i]) : i \in {j \in DOMAIN a : a[j].kind = "open"}}

\* No two of them are of the same assembly.
OnceIn(q, a) ==
    /\ \A i, j \in DOMAIN q :
          IsLifecycle(q[i]) /\ IsLifecycle(q[j]) /\ q[i].event.assembly = q[j].event.assembly => i = j
    /\ \A i, j \in DOMAIN a :
          a[i].kind = "open" /\ a[j].kind = "open" /\ a[i].event.assembly = a[j].event.assembly => i = j
    /\ \A i \in DOMAIN q, j \in DOMAIN a :
          IsLifecycle(q[i]) /\ a[j].kind = "open" => q[i].event.assembly # a[j].event.assembly

LEMMA OpenTurnsOf == OpenTurns = OpenOf(queue, todo) /\ OpenTurns' = OpenOf(queue', todo')
<1>1. OpenTurns = OpenOf(queue, todo)
  BY DEF OpenTurns, OpenOf, Lifecycle, IsLifecycle
<1>2. OpenTurns' = OpenOf(queue', todo')
  BY DEF OpenTurns, OpenOf, Lifecycle, IsLifecycle
<1> QED BY <1>1, <1>2

LEMMA InOpenOf ==
    ASSUME NEW q, NEW a, NEW l
    PROVE  l \in OpenOf(q, a) <=>
              \/ \E i \in DOMAIN q : IsLifecycle(q[i]) /\ l = Lifecycle(q[i])
              \/ \E i \in DOMAIN a : a[i].kind = "open" /\ l = Lifecycle(a[i])
  BY DEF OpenOf

\* A turn of another event, or an action that opens nothing, changes nothing.
LEMMA OtherTurn ==
    ASSUME NEW S, NEW q \in Seq(S), NEW a, NEW b, ~IsLifecycle(b), OnceIn(q, a)
    PROVE  OpenOf(Append(q, b), a) = OpenOf(q, a) /\ OnceIn(Append(q, b), a)
<1> DEFINE q2 == Append(q, b)
<1>1. /\ \A i \in DOMAIN q2 : q2[i] = b \/ (i \in DOMAIN q /\ q2[i] = q[i])
      /\ \A i \in DOMAIN q : i \in DOMAIN q2 /\ q2[i] = q[i]
  <2>1. \A i \in DOMAIN q2 : q2[i] = b \/ (i \in DOMAIN q /\ q2[i] = q[i])
    BY OneMoreMember
  <2>2. \A i \in DOMAIN q : i \in DOMAIN q2 /\ q2[i] = q[i]
    BY OneMore
  <2> QED BY <2>1, <2>2
<1> HIDE DEF q2
<1>2. \A l : l \in OpenOf(q2, a) <=> l \in OpenOf(q, a)
  BY <1>1, InOpenOf
<1>3. OnceIn(q2, a)
  BY <1>1 DEF OnceIn
<1> QED BY <1>2, <1>3 DEF q2

\* A barrier that is replaced by one of the same event and tell.
LEMMA SameTurnReplaced ==
    ASSUME NEW S, NEW q \in Seq(S), NEW a, NEW i \in DOMAIN q, NEW b,
           b.event = q[i].event, b.tell = q[i].tell, OnceIn(q, a)
    PROVE  LET q2 == [q EXCEPT ![i] = b] IN OpenOf(q2, a) = OpenOf(q, a) /\ OnceIn(q2, a)
<1> DEFINE q2 == [q EXCEPT ![i] = b]
<1>1. /\ DOMAIN q2 = DOMAIN q
      /\ \A j \in DOMAIN q : q2[j].event = q[j].event /\ q2[j].tell = q[j].tell
  OBVIOUS
<1> HIDE DEF q2
<1>2. \A j \in DOMAIN q : (IsLifecycle(q2[j]) <=> IsLifecycle(q[j])) /\ Lifecycle(q2[j]) = Lifecycle(q[j])
  BY <1>1 DEF IsLifecycle, Lifecycle
<1>3. \A l : l \in OpenOf(q2, a) <=> l \in OpenOf(q, a)
  BY <1>1, <1>2, InOpenOf
<1>4. OnceIn(q2, a)
  BY <1>1, <1>2 DEF OnceIn
<1> QED BY <1>3, <1>4 DEF q2

\* An action that opens a turn becomes that turn.
LEMMA ActionToTurn ==
    ASSUME NEW S, NEW q \in Seq(S), NEW T, NEW a \in Seq(T), a # << >>, Head(a).kind = "open", NEW b,
           b.event = Head(a).event, b.tell = Head(a).tell, IsLifecycle(b), OnceIn(q, a)
    PROVE  OpenOf(Append(q, b), Tail(a)) = OpenOf(q, a) /\ OnceIn(Append(q, b), Tail(a))
<1> DEFINE q2 == Append(q, b)
           a2 == Tail(a)
           n  == Len(q) + 1
<1>1. /\ \A i \in DOMAIN q2 : i = n \/ i \in DOMAIN q
      /\ \A i \in DOMAIN q : i \in DOMAIN q2 /\ q2[i] = q[i]
      /\ n \in DOMAIN q2 /\ q2[n] = b /\ n \notin DOMAIN q
  <2>1. Len(q) \in Nat /\ DOMAIN q = 1..Len(q)
    OBVIOUS
  <2> QED BY <2>1, OneMore
<1>2. /\ \A i \in DOMAIN a2 : i + 1 \in DOMAIN a /\ a2[i] = a[i + 1] /\ i \in Int /\ i + 1 # 1
      /\ \A i \in DOMAIN a : i = 1 \/ (i - 1 \in DOMAIN a2 /\ a2[i - 1] = a[i])
      /\ 1 \in DOMAIN a /\ Head(a) = a[1]
  OBVIOUS
<1>3. Lifecycle(b) = Lifecycle(a[1]) /\ b.event = a[1].event /\ a[1].kind = "open"
  BY <1>2 DEF Lifecycle
<1> HIDE DEF q2, a2, n
<1>4. ASSUME NEW l, l \in OpenOf(q2, a2) PROVE l \in OpenOf(q, a)
  <2>1. \/ \E i \in DOMAIN q2 : IsLifecycle(q2[i]) /\ l = Lifecycle(q2[i])
        \/ \E i \in DOMAIN a2 : a2[i].kind = "open" /\ l = Lifecycle(a2[i])
    BY <1>4, InOpenOf
  <2>2. \/ \E i \in DOMAIN q : IsLifecycle(q[i]) /\ l = Lifecycle(q[i])
        \/ \E i \in DOMAIN a : a[i].kind = "open" /\ l = Lifecycle(a[i])
    BY <1>1, <1>2, <1>3, <2>1
  <2> QED BY <2>2, InOpenOf
<1>5. ASSUME NEW l, l \in OpenOf(q, a) PROVE l \in OpenOf(q2, a2)
  <2>1. \/ \E i \in DOMAIN q : IsLifecycle(q[i]) /\ l = Lifecycle(q[i])
        \/ \E i \in DOMAIN a : a[i].kind = "open" /\ l = Lifecycle(a[i])
    BY <1>5, InOpenOf
  <2>2. \/ \E i \in DOMAIN q2 : IsLifecycle(q2[i]) /\ l = Lifecycle(q2[i])
        \/ \E i \in DOMAIN a2 : a2[i].kind = "open" /\ l = Lifecycle(a2[i])
    BY <1>1, <1>2, <1>3, <2>1
  <2> QED BY <2>2, InOpenOf
<1>6. ASSUME NEW i \in DOMAIN a2, NEW j \in DOMAIN a2, a2[i].kind = "open", a2[j].kind = "open",
             a2[i].event.assembly = a2[j].event.assembly
      PROVE  i = j
  <2>1. /\ i + 1 \in DOMAIN a /\ a[i + 1] = a2[i] /\ i \in Int
        /\ j + 1 \in DOMAIN a /\ a[j + 1] = a2[j] /\ j \in Int
    BY <1>2, <1>6
  <2>2. /\ a[i + 1].kind = "open" /\ a[j + 1].kind = "open"
        /\ a[i + 1].event.assembly = a[j + 1].event.assembly
    BY <1>6, <2>1
  <2>3. \A k, m \in DOMAIN a : a[k].kind = "open" /\ a[m].kind = "open"
                                 /\ a[k].event.assembly = a[m].event.assembly => k = m
    BY Zenon DEF OnceIn
  <2>4. i + 1 = j + 1
    BY <2>1, <2>2, <2>3
  <2> QED BY <2>1, <2>4
<1>7. ASSUME NEW i \in DOMAIN q2, NEW j \in DOMAIN q2, IsLifecycle(q2[i]), IsLifecycle(q2[j]),
             q2[i].event.assembly = q2[j].event.assembly
      PROVE  i = j
  BY <1>1, <1>2, <1>3, <1>7 DEF OnceIn
<1>8. ASSUME NEW i \in DOMAIN q2, NEW j \in DOMAIN a2, IsLifecycle(q2[i]), a2[j].kind = "open"
      PROVE  q2[i].event.assembly # a2[j].event.assembly
  <2>1. CASE i = n
    <3>1. j + 1 \in DOMAIN a /\ j + 1 # 1 /\ 1 \in DOMAIN a /\ a[j + 1].kind = "open"
      BY <1>2, <1>8
    <3>2. a[1].event.assembly # a[j + 1].event.assembly
      BY <1>3, <3>1 DEF OnceIn
    <3> QED BY <1>1, <1>2, <1>3, <2>1, <3>2
  <2>2. CASE i \in DOMAIN q
    BY <1>1, <1>2, <1>8, <2>2 DEF OnceIn
  <2> QED BY <1>1, <2>1, <2>2
<1>9. OnceIn(q2, a2)
  BY <1>6, <1>7, <1>8 DEF OnceIn
<1> QED BY <1>4, <1>5, <1>9 DEF q2, a2

\* An action that sends a command opens nothing.
LEMMA ActionSent ==
    ASSUME NEW q, NEW T, NEW a \in Seq(T), a # << >>, Head(a).kind # "open", OnceIn(q, a)
    PROVE  OpenOf(q, Tail(a)) = OpenOf(q, a) /\ OnceIn(q, Tail(a))
<1> DEFINE a2 == Tail(a)
<1>1. /\ \A i \in DOMAIN a2 : i + 1 \in DOMAIN a /\ a2[i] = a[i + 1] /\ i \in Int
      /\ \A i \in DOMAIN a : i = 1 \/ (i - 1 \in DOMAIN a2 /\ a2[i - 1] = a[i])
      /\ a[1].kind # "open"
  OBVIOUS
<1> HIDE DEF a2
<1>2. \A l : l \in OpenOf(q, a2) <=> l \in OpenOf(q, a)
  BY <1>1, InOpenOf
<1>3. ASSUME NEW i \in DOMAIN a2, NEW j \in DOMAIN a2, a2[i].kind = "open", a2[j].kind = "open",
             a2[i].event.assembly = a2[j].event.assembly
      PROVE  i = j
  <2>1. /\ i + 1 \in DOMAIN a /\ a[i + 1] = a2[i] /\ i \in Int
        /\ j + 1 \in DOMAIN a /\ a[j + 1] = a2[j] /\ j \in Int
    BY <1>1, <1>3
  <2>2. /\ a[i + 1].kind = "open" /\ a[j + 1].kind = "open"
        /\ a[i + 1].event.assembly = a[j + 1].event.assembly
    BY <1>3, <2>1
  <2>3. \A k, m \in DOMAIN a : a[k].kind = "open" /\ a[m].kind = "open"
                                 /\ a[k].event.assembly = a[m].event.assembly => k = m
    BY Zenon DEF OnceIn
  <2>4. i + 1 = j + 1
    BY <2>1, <2>2, <2>3
  <2> QED BY <2>1, <2>4
<1>4. OnceIn(q, a2)
  BY <1>1, <1>3 DEF OnceIn
<1> QED BY <1>2, <1>4 DEF a2

\* Turns and actions are counted apart.
LEMMA OpenParts ==
    ASSUME NEW q, NEW a
    PROVE  /\ OpenOf(q, a) = OpenOf(q, << >>) \cup OpenOf(<< >>, a)
           /\ OnceIn(q, << >>) /\ OnceIn(<< >>, a) /\ (OpenOf(q, << >>) = {} \/ OpenOf(<< >>, a) = {})
                 => OnceIn(q, a)
<1>1. DOMAIN << >> = {}
  OBVIOUS
<1>2. \A l : l \in OpenOf(q, a) <=> l \in OpenOf(q, << >>) \/ l \in OpenOf(<< >>, a)
  BY <1>1, InOpenOf
<1>3. ASSUME OnceIn(q, << >>), OnceIn(<< >>, a), OpenOf(q, << >>) = {} \/ OpenOf(<< >>, a) = {}
      PROVE  OnceIn(q, a)
  <2>1. (\A i \in DOMAIN q : ~IsLifecycle(q[i])) \/ (\A i \in DOMAIN a : a[i].kind # "open")
    <3>1. CASE OpenOf(q, << >>) = {}
      BY <3>1, InOpenOf
    <3>2. CASE OpenOf(<< >>, a) = {}
      BY <3>2, InOpenOf
    <3> QED BY <1>3, <3>1, <3>2
  <2> QED BY <1>1, <1>3, <2>1 DEF OnceIn
<1> QED BY <1>2, <1>3

\* The front turn leaves the queue: a lifecycle turn with the only record of
\* its assembly.
LEMMA FrontGone ==
    ASSUME NEW S, NEW q \in Seq(S), q # << >>, OnceIn(q, << >>)
    PROVE  /\ OnceIn(Tail(q), << >>)
           /\ OpenOf(Tail(q), << >>) = OpenOf(q, << >>) \ (IF IsLifecycle(Head(q)) THEN {Lifecycle(Head(q))} ELSE {})
<1> DEFINE q2 == Tail(q)
<1>1. /\ \A i \in DOMAIN q2 : i + 1 \in DOMAIN q /\ q2[i] = q[i + 1] /\ i \in Int /\ i + 1 # 1
      /\ \A i \in DOMAIN q : i = 1 \/ (i - 1 \in DOMAIN q2 /\ q2[i - 1] = q[i])
      /\ 1 \in DOMAIN q /\ Head(q) = q[1]
  OBVIOUS
<1>2. DOMAIN << >> = {}
  OBVIOUS
<1> HIDE DEF q2
<1>3. OnceIn(q2, << >>)
  <2>1. ASSUME NEW i \in DOMAIN q2, NEW j \in DOMAIN q2, IsLifecycle(q2[i]), IsLifecycle(q2[j]),
               q2[i].event.assembly = q2[j].event.assembly
        PROVE  i = j
    <3>1. /\ i + 1 \in DOMAIN q /\ q[i + 1] = q2[i] /\ i \in Int
          /\ j + 1 \in DOMAIN q /\ q[j + 1] = q2[j] /\ j \in Int
      BY <1>1, <2>1
    <3>2. /\ IsLifecycle(q[i + 1]) /\ IsLifecycle(q[j + 1])
          /\ q[i + 1].event.assembly = q[j + 1].event.assembly
      BY <2>1, <3>1
    <3>3. \A k, m \in DOMAIN q : IsLifecycle(q[k]) /\ IsLifecycle(q[m])
                                   /\ q[k].event.assembly = q[m].event.assembly => k = m
      BY Zenon DEF OnceIn
    <3>4. i + 1 = j + 1
      BY <3>1, <3>2, <3>3
    <3> QED BY <3>1, <3>4
  <2> QED BY <1>2, <2>1 DEF OnceIn
<1>4. ASSUME NEW i \in DOMAIN q, i # 1, IsLifecycle(q[i]), IsLifecycle(q[1])
      PROVE  Lifecycle(q[i]) # Lifecycle(q[1])
  <2>1. q[i].event.assembly # q[1].event.assembly
    BY <1>1, <1>4 DEF OnceIn
  <2> QED BY <2>1 DEF Lifecycle
<1> DEFINE gone == IF IsLifecycle(Head(q)) THEN {Lifecycle(Head(q))} ELSE {}
<1>5. ASSUME NEW l, l \in OpenOf(q2, << >>) PROVE l \in OpenOf(q, << >>) /\ l \notin gone
  <2>1. PICK i \in DOMAIN q2 : IsLifecycle(q2[i]) /\ l = Lifecycle(q2[i])
    BY <1>2, <1>5, InOpenOf
  <2>2. i + 1 \in DOMAIN q /\ i + 1 # 1 /\ IsLifecycle(q[i + 1]) /\ l = Lifecycle(q[i + 1])
    BY <1>1, <2>1
  <2>3. l \notin gone
    BY <1>1, <1>4, <2>2
  <2> QED BY <2>2, <2>3, InOpenOf
<1>6. ASSUME NEW l, l \in OpenOf(q, << >>), l \notin gone PROVE l \in OpenOf(q2, << >>)
  <2>1. PICK i \in DOMAIN q : IsLifecycle(q[i]) /\ l = Lifecycle(q[i])
    BY <1>2, <1>6, InOpenOf
  <2>2. i # 1
    BY <1>1, <1>6, <2>1
  <2>3. i - 1 \in DOMAIN q2 /\ IsLifecycle(q2[i - 1]) /\ l = Lifecycle(q2[i - 1])
    BY <1>1, <2>1, <2>2
  <2> QED BY <2>3, InOpenOf
<1>7. OpenOf(q2, << >>) = OpenOf(q, << >>) \ gone
  BY <1>5, <1>6
<1> QED BY <1>3, <1>7 DEF q2

\* The message of a tell of a lifecycle turn, and the tell itself
LifecycleTell(b) == \E m \in {"BecomeOn", "BecomeOff"} : b.tell = Tell(b.event.assembly, [kind |-> m])

ProperOpen(a) == a.kind = "open" => IsLifecycle(a) /\ LifecycleTell(a)

\* The actions of a commit open the turns that DigitalTwin says, one for each
\* assembly, and only a twin that is off or idle opens any.
LEMMA CommitOpens ==
    ASSUME NEW t \in Twin, NEW e \in Event, NEW r \in ZoneReply \cup {NoReply}
    PROVE  LET a == Actions(t, e, r)
           IN  /\ OpenOf(<< >>, a) = D!OpenedBy(Turn(t, e, r).outputs[1])
               /\ OnceIn(<< >>, a)
               /\ \A i \in DOMAIN a : ProperOpen(a[i])
               /\ OpenOf(<< >>, a) # {} => t.mode \in {"Off", "Idle"}
<1> DEFINE os  == Turn(t, e, r).outcomes
           out == Turn(t, e, r).outputs[1]
           sends == [i \in DOMAIN os |-> [kind |-> "send", command |-> CommandOf(os[i])]]
           opens == CASE out = "StartAssemblies" -> OpenAll("BecomeOn")
                      [] out = "StopAssemblies"  -> OpenAll("BecomeOff")
                      [] OTHER -> << >>
           a == sends \o opens
<1>1. Actions(t, e, r) = a
  BY DEF Actions, ActionsOf
<1>2. os \in AtMostOne(HeadlampOutcome \cup WiperOutcome)
  BY OutcomesType DEF Twin, Event
<1>3. out \in {"StartAssemblies", "StopAssemblies"} => t.mode \in {"Off", "Idle"}
  <2>1. out = ExternalHop(t, e, r).output
    BY DEF Turn
  <2>2. out = Output(ZoneTurn(t, e, r).twin.mode, Transition(ZoneTurn(t, e, r).twin, e).mode)
    BY <2>1 DEF ExternalHop, Step
  <2>3. ZoneTurn(t, e, r).twin.mode = t.mode
    BY DEF ZoneTurn, Adopt, TakeReading, Twin, TwinOver
  <2> HIDE DEF out
  <2> QED BY <2>2, <2>3 DEF Output
<1>4. sends \in Seq({[kind |-> "send", command |-> CommandOf(o)] : o \in HeadlampOutcome \cup WiperOutcome})
  <2> HIDE DEF os
  <2>1. CASE os = << >>
    BY <2>1
  <2>2. ASSUME NEW o \in HeadlampOutcome \cup WiperOutcome, os = <<o>>
        PROVE  sends \in Seq({[kind |-> "send", command |-> CommandOf(x)] : x \in HeadlampOutcome \cup WiperOutcome})
    <3>1. sends = <<[kind |-> "send", command |-> CommandOf(o)]>>
      BY <2>2
    <3> HIDE DEF sends
    <3> QED BY <2>2, <3>1
  <2> QED BY <1>2, <2>1, <2>2 DEF AtMostOne
<1> HIDE DEF os, out, sends
<1>5. \A i \in DOMAIN sends : sends[i].kind = "send"
  BY <1>4
<1>6. CASE out \notin {"StartAssemblies", "StopAssemblies"}
  <2>1. opens = << >> /\ a = sends
    <3>1. opens = << >>
      BY <1>6
    <3> HIDE DEF opens
    <3> QED BY <1>4, <3>1
  <2>2. D!OpenedBy(out) = {}
    BY <1>6 DEF D!OpenedBy
  <2>3. DOMAIN << >> = {}
    OBVIOUS
  <2>4. \A l : l \notin OpenOf(<< >>, a)
    BY <1>5, <2>1, <2>3, InOpenOf
  <2>5. OnceIn(<< >>, a) /\ \A i \in DOMAIN a : ProperOpen(a[i])
    BY <1>5, <2>1, <2>3 DEF OnceIn, ProperOpen
  <2> HIDE DEF a
  <2>6. OpenOf(<< >>, a) = {}
    BY <2>4
  <2> QED BY <1>1, <2>2, <2>5, <2>6 DEF out
<1>7. CASE out \in {"StartAssemblies", "StopAssemblies"}
  <2>1. PICK m \in {"BecomeOn", "BecomeOff"} :
           opens = OpenAll(m) /\ D!OpenedBy(out) = [assembly : Assembly, message : {m}]
    <3>1. CASE out = "StartAssemblies"
      BY <3>1, SameNames DEF D!OpenedBy
    <3>2. CASE out = "StopAssemblies"
      BY <3>2, SameNames DEF D!OpenedBy
    <3> QED BY <1>7, <3>1, <3>2
  <2> DEFINE act(z) == [kind |-> "open", event |-> [kind |-> "AssemblyZoneReady", assembly |-> z],
                        tell |-> Tell(z, [kind |-> m])]
             n == Len(sends)
  <2>2. opens = <<act("Headlamp"), act("Wiper")>>
    BY <2>1 DEF OpenAll
  <2>3. \A z : /\ act(z).kind = "open" /\ act(z).event.assembly = z /\ IsLifecycle(act(z))
               /\ LifecycleTell(act(z)) /\ Lifecycle(act(z)) = [assembly |-> z, message |-> m]
    BY DEF IsLifecycle, LifecycleTell, Lifecycle, Tell
  <2> HIDE DEF opens, act
  <2>4. /\ n \in Nat /\ DOMAIN a = 1..(n + 2) /\ DOMAIN sends = 1..n
        /\ \A i \in 1..n : a[i] = sends[i]
        /\ a[n + 1] = act("Headlamp") /\ a[n + 2] = act("Wiper")
    <3>1. sends \in Seq({[kind |-> "send", command |-> CommandOf(o)] : o \in HeadlampOutcome \cup WiperOutcome} 
                           \cup {act("Headlamp"), act("Wiper")})
      BY <1>4
    <3>2. opens \in Seq({[kind |-> "send", command |-> CommandOf(o)] : o \in HeadlampOutcome \cup WiperOutcome} 
                           \cup {act("Headlamp"), act("Wiper")}) /\ Len(opens) = 2
      BY <2>2
    <3> QED BY <2>2, <3>1, <3>2
  <2> HIDE DEF a, n
  <2>5. \A i \in DOMAIN a : a[i].kind = "open" =>
           (i = n + 1 /\ a[i] = act("Headlamp")) \/ (i = n + 2 /\ a[i] = act("Wiper"))
    <3> SUFFICES ASSUME NEW i \in DOMAIN a, a[i].kind = "open"
                 PROVE  (i = n + 1 /\ a[i] = act("Headlamp")) \/ (i = n + 2 /\ a[i] = act("Wiper"))
      OBVIOUS
    <3>1. i \notin 1..n
      BY <1>5, <2>4
    <3>2. i = n + 1 \/ i = n + 2
      BY <2>4, <3>1
    <3> QED BY <2>4, <3>2
  <2>6. DOMAIN << >> = {}
    OBVIOUS
  <2>7. n + 1 \in DOMAIN a /\ n + 2 \in DOMAIN a
    BY <2>4
  <2>8. ASSUME NEW l
        PROVE  l \in OpenOf(<< >>, a) <=> l \in [assembly : Assembly, message : {m}]
    <3>1. l \in OpenOf(<< >>, a) <=> l \in {Lifecycle(act("Headlamp")), Lifecycle(act("Wiper"))}
      BY <2>3, <2>4, <2>5, <2>6, <2>7, InOpenOf
    <3> QED BY <2>3, <3>1 DEF Assembly
  <2>9. OnceIn(<< >>, a)
    BY <2>3, <2>5, <2>6 DEF OnceIn
  <2>10. \A i \in DOMAIN a : ProperOpen(a[i])
    BY <2>3, <2>5 DEF ProperOpen
  <2>11. OpenOf(<< >>, a) = D!OpenedBy(out)
    BY <2>1, <2>8
  <2> QED BY <1>1, <1>3, <1>7, <2>9, <2>10, <2>11 DEF out
<1> QED BY <1>6, <1>7

-----------------------------------------------------------------------------
(* Where replies come from.  A tell on its way carries the message of its  *)
(* barrier, if that is still queued, so the answer to it is an answer to   *)
(* that message; and the message is the one of the barrier's event.        *)

\* What zone z may answer to m, or have made up for it
AnswersOf(z, m) == {OnReceivingMessage(z, c, m) : c \in StateOf(z)}
                      \cup {Unresponsive(z, c) : c \in StateOf(z)}

LEMMA SameAnswers == \A z, m : D!Answers(z, m) = AnswersOf(z, m)
  BY SameZones, SameNames DEF D!Answers, AnswersOf

\* Barrier b asked zone z in turn n.
Asked(b, z, n) == b.turn = n /\ b.tell # NoTell /\ b.tell.zone = z

\* A tell x in the mailbox of zone z is of a turn that was opened, and repeats
\* the message of its barrier.
TellRight(z, x, q, n) ==
    /\ x.turn \in Int /\ x.turn < n
    /\ \A j \in DOMAIN q : Asked(q[j], z, x.turn) => x.message = q[j].tell.message

\* A message m in the mailbox of the brain: an event is no lifecycle event, an
\* answer is one to the message of its barrier, and what a twinlet says of its
\* own accord is the answer to its own deadline.
MessageRight(m, q, n) ==
    /\ m.kind = "Fsm" => ~IsLifecycle(m)
    /\ m.kind = "ZoneReady" =>
          /\ m.turn \in Int /\ m.turn < n
          /\ \A j \in DOMAIN q :
                Asked(q[j], m.zone, m.turn) => m.reply \in AnswersOf(m.zone, q[j].tell.message)
    /\ m.kind = "Spontaneous" =>
          m.reply \in AnswersOf("Headlamp", [kind |-> "ActuationIncomplete",
                                             direction |-> m.event.direction])

\* A barrier asks what its event is about, if anything, and its reply is an
\* answer to that.
AsksItsEvent(b) ==
    IF IsLifecycle(b) THEN LifecycleTell(b) ELSE b.tell \in {NoTell, UserEventToZoneTell(b.event)}
AnsweredRight(b) ==
    b.tell # NoTell => b.reply \in {NoReply} \cup AnswersOf(b.tell.zone, b.tell.message)
BarrierRight(b) == AsksItsEvent(b) /\ AnsweredRight(b)

ReplyInv ==
    /\ \A i \in DOMAIN queue : BarrierRight(queue[i])
    /\ \A i \in DOMAIN todo : ProperOpen(todo[i])
    /\ \A z \in Assembly : \A i \in DOMAIN zoneBox[z] : TellRight(z, zoneBox[z][i], queue, nextTurn)
    /\ \A k \in DOMAIN inbox : MessageRight(inbox[k], queue, nextTurn)

\* The barriers of q2 that asked a zone are those of q, or of turns to come.
Grown(q, n, q2, n2) ==
    /\ n \in Int /\ n2 \in Int /\ n <= n2
    /\ \A j \in DOMAIN q2 : \/ \E i \in DOMAIN q : q2[j].turn = q[i].turn /\ q2[j].tell = q[i].tell
                            \/ q2[j].turn = n

LEMMA StillRight ==
    ASSUME NEW q, NEW n, NEW q2, NEW n2, Grown(q, n, q2, n2)
    PROVE  /\ \A z, x : TellRight(z, x, q, n) => TellRight(z, x, q2, n2)
           /\ \A m : MessageRight(m, q, n) => MessageRight(m, q2, n2)
<1>1. ASSUME NEW x \in Int, x < n PROVE x < n2 /\ x # n
  BY <1>1 DEF Grown
<1>2. ASSUME NEW z, NEW x, NEW j \in DOMAIN q2, Asked(q2[j], z, x), x # n
      PROVE  \E i \in DOMAIN q : Asked(q[i], z, x) /\ q2[j].tell = q[i].tell
  BY <1>2 DEF Grown, Asked
<1>3. ASSUME NEW z, NEW x, TellRight(z, x, q, n) PROVE TellRight(z, x, q2, n2)
  <2>1. x.turn \in Int /\ x.turn < n2 /\ x.turn # n
    BY <1>1, <1>3 DEF TellRight
  <2> QED BY <1>2, <1>3, <2>1 DEF TellRight
<1>4. ASSUME NEW m, MessageRight(m, q, n) PROVE MessageRight(m, q2, n2)
  <2>1. CASE m.kind = "ZoneReady"
    <3>1. m.turn \in Int /\ m.turn < n2 /\ m.turn # n
      BY <1>1, <1>4, <2>1 DEF MessageRight
    <3>2. \A j \in DOMAIN q2 :
             Asked(q2[j], m.zone, m.turn) => m.reply \in AnswersOf(m.zone, q2[j].tell.message)
      BY <1>2, <1>4, <2>1, <3>1 DEF MessageRight
    <3> QED BY <1>4, <2>1, <3>1, <3>2 DEF MessageRight
  <2>2. CASE m.kind # "ZoneReady"
    BY <1>4, <2>2 DEF MessageRight
  <2> QED BY <2>1, <2>2
<1> QED BY <1>3, <1>4

\* What the brain's mailbox, and the zones', hold after a step comes from
\* before it, or is right already.
LEMMA ReplyKept ==
    ASSUME ReplyInv, Grown(queue, nextTurn, queue', nextTurn'),
           \A i \in DOMAIN queue' : BarrierRight(queue'[i]),
           \A i \in DOMAIN todo' : ProperOpen(todo'[i]),
           \A z \in Assembly : \A i \in DOMAIN zoneBox'[z] :
              \/ TellRight(z, zoneBox'[z][i], queue', nextTurn')
              \/ \E k \in DOMAIN zoneBox[z] : zoneBox'[z][i] = zoneBox[z][k],
           \A i \in DOMAIN inbox' :
              \/ MessageRight(inbox'[i], queue', nextTurn')
              \/ \E k \in DOMAIN inbox : inbox'[i] = inbox[k]
    PROVE  ReplyInv'
<1>1. ASSUME NEW z \in Assembly, NEW i \in DOMAIN zoneBox'[z]
      PROVE  TellRight(z, zoneBox'[z][i], queue', nextTurn')
  <2>1. SUFFICES ASSUME NEW k \in DOMAIN zoneBox[z], zoneBox'[z][i] = zoneBox[z][k]
                 PROVE  TellRight(z, zoneBox'[z][i], queue', nextTurn')
    OBVIOUS
  <2>2. TellRight(z, zoneBox[z][k], queue, nextTurn)
    BY DEF ReplyInv
  <2>3. TellRight(z, zoneBox[z][k], queue', nextTurn')
    BY <2>2, StillRight
  <2> QED BY <2>1, <2>3
<1>2. ASSUME NEW i \in DOMAIN inbox' PROVE MessageRight(inbox'[i], queue', nextTurn')
  <2>1. SUFFICES ASSUME NEW k \in DOMAIN inbox, inbox'[i] = inbox[k]
                 PROVE  MessageRight(inbox'[i], queue', nextTurn')
    OBVIOUS
  <2>2. MessageRight(inbox[k], queue, nextTurn)
    BY DEF ReplyInv
  <2>3. MessageRight(inbox[k], queue', nextTurn')
    BY <2>2, StillRight
  <2> QED BY <2>1, <2>3
<1> QED BY <1>1, <1>2, Zenon DEF ReplyInv

\* What the brain's mailbox holds was there before.
FromInbox == \A i \in DOMAIN inbox' : \E k \in DOMAIN inbox : inbox'[i] = inbox[k]

\* A turn of the queue is numbered below those to come.
LEMMA TurnsBelow ==
    ASSUME P!TypeInv, P!OrderInv
    PROVE  /\ nextTurn \in Nat
           /\ \A i \in DOMAIN queue : queue[i].turn \in Nat /\ queue[i].turn < nextTurn
           /\ \A i, j \in DOMAIN queue : queue[i].turn = queue[j].turn => i = j
  BY DEF P!TypeInv, P!TypeOK, P!OrderInv, P!InOrder, P!Turn

LEMMA TakenInbox ==
    ASSUME P!TypeInv, NEW k, P!Receive(k)
    PROVE  FromInbox /\ Head(inbox).kind = k /\ \E l \in DOMAIN inbox : Head(inbox) = inbox[l]
<1>1. inbox \in Seq(P!InboxMsg) /\ inbox # << >> /\ inbox' = Tail(inbox) /\ Head(inbox).kind = k
  BY DEF P!TypeInv, P!TypeOK, P!Receive
<1> QED BY <1>1, TailMember DEF FromInbox

\* A turn is opened that asks what its event is about.
LEMMA OpenRight ==
    ASSUME P!TypeInv, P!OrderInv, ReplyInv, FromInbox, \A i \in DOMAIN todo' : ProperOpen(todo'[i]),
           NEW e, NEW tell, AsksItsEvent([event |-> e, tell |-> tell]),
           tell # NoTell => tell.zone \in Assembly,
           P!OpenTurn(e, tell)
    PROVE  ReplyInv'
<1> DEFINE b == P!NewBarrier(nextTurn, e, tell)
           x == [turn |-> nextTurn, attempt |-> 0, message |-> tell.message]
<1>1. b.event = e /\ b.tell = tell /\ b.turn = nextTurn /\ b.reply = NoReply
  BY DEF P!NewBarrier
<1>2. BarrierRight(b)
  <2> HIDE DEF b
  <2> QED BY <1>1 DEF BarrierRight, AsksItsEvent, AnsweredRight, IsLifecycle, LifecycleTell
<1>3. /\ queue' = Append(queue, b) /\ nextTurn' = nextTurn + 1
      /\ tell = NoTell => zoneBox' = zoneBox
      /\ tell # NoTell => zoneBox' = [zoneBox EXCEPT ![tell.zone] = Append(@, x)]
  BY DEF P!OpenTurn
<1>4. x.turn = nextTurn /\ x.message = tell.message
  OBVIOUS
<1> HIDE DEF b, x
<1>5. queue \in Seq(P!Barrier) /\ zoneBox \in [Assembly -> Seq(P!ZoneTell)]
  BY DEF P!TypeInv, P!TypeOK
<1>6. \A i \in DOMAIN queue' : queue'[i] = b \/ (i \in DOMAIN queue /\ queue'[i] = queue[i])
  BY <1>3, <1>5, OneMoreMember
<1>7. Grown(queue, nextTurn, queue', nextTurn')
  BY <1>1, <1>3, <1>6, TurnsBelow DEF Grown
<1>8. \A i \in DOMAIN queue' : BarrierRight(queue'[i])
  BY <1>2, <1>6 DEF ReplyInv
<1>9. ASSUME NEW z \in Assembly, NEW i \in DOMAIN zoneBox'[z]
      PROVE  \/ TellRight(z, zoneBox'[z][i], queue', nextTurn')
             \/ \E k \in DOMAIN zoneBox[z] : zoneBox'[z][i] = zoneBox[z][k]
  <2>1. CASE tell = NoTell \/ z # tell.zone
    BY <1>3, <1>5, <1>9, <2>1
  <2>2. CASE tell # NoTell /\ z = tell.zone
    <3>1. zoneBox'[z] = Append(zoneBox[z], x) /\ zoneBox[z] \in Seq(P!ZoneTell)
      BY <1>3, <1>5, <2>2
    <3>2. zoneBox'[z][i] = x \/ (i \in DOMAIN zoneBox[z] /\ zoneBox'[z][i] = zoneBox[z][i])
      BY <1>9, <3>1, OneMoreMember
    <3>3. TellRight(z, x, queue', nextTurn')
      BY <1>1, <1>3, <1>4, <1>6, TurnsBelow DEF TellRight, Asked
    <3> QED BY <3>2, <3>3
  <2> QED BY <2>1, <2>2
<1> QED BY <1>7, <1>8, <1>9, ReplyKept DEF FromInbox

\* A barrier is replaced by one of the same turn, and its zone may be told
\* its message again.
LEMMA ReplaceRight ==
    ASSUME P!TypeInv, P!OrderInv, ReplyInv, FromInbox, todo' = todo, nextTurn' = nextTurn,
           NEW i \in DOMAIN queue, NEW b, queue' = [queue EXCEPT ![i] = b],
           b.event = queue[i].event, b.tell = queue[i].tell, b.turn = queue[i].turn, AnsweredRight(b),
           \/ zoneBox' = zoneBox
           \/ \E x : /\ zoneBox' = [zoneBox EXCEPT ![b.tell.zone] = Append(@, x)]
                     /\ x.turn = b.turn /\ x.message = b.tell.message
    PROVE  ReplyInv'
<1>1. queue \in Seq(P!Barrier) /\ zoneBox \in [Assembly -> Seq(P!ZoneTell)]
  BY DEF P!TypeInv, P!TypeOK
<1>2. DOMAIN queue' = DOMAIN queue /\ \A j \in DOMAIN queue : queue'[j] = IF j = i THEN b ELSE queue[j]
  BY <1>1
<1>3. BarrierRight(b)
  <2>1. AsksItsEvent(queue[i])
    BY DEF ReplyInv, BarrierRight
  <2> QED BY <2>1 DEF BarrierRight, AsksItsEvent, IsLifecycle, LifecycleTell
<1>4. \A j \in DOMAIN queue' : BarrierRight(queue'[j])
  BY <1>2, <1>3 DEF ReplyInv
<1>5. Grown(queue, nextTurn, queue', nextTurn')
  BY <1>2, TurnsBelow DEF Grown
<1>6. ASSUME NEW z \in Assembly, NEW l \in DOMAIN zoneBox'[z]
      PROVE  \/ TellRight(z, zoneBox'[z][l], queue', nextTurn')
             \/ \E k \in DOMAIN zoneBox[z] : zoneBox'[z][l] = zoneBox[z][k]
  <2>1. CASE zoneBox' = zoneBox
    BY <1>6, <2>1
  <2>2. ASSUME NEW x, zoneBox' = [zoneBox EXCEPT ![b.tell.zone] = Append(@, x)],
               x.turn = b.turn, x.message = b.tell.message
        PROVE  \/ TellRight(z, zoneBox'[z][l], queue', nextTurn')
               \/ \E k \in DOMAIN zoneBox[z] : zoneBox'[z][l] = zoneBox[z][k]
    <3>1. CASE z # b.tell.zone
      BY <1>1, <1>6, <2>2, <3>1
    <3>2. CASE z = b.tell.zone
      <4>1. zoneBox'[z] = Append(zoneBox[z], x) /\ zoneBox[z] \in Seq(P!ZoneTell)
        BY <1>1, <2>2, <3>2
      <4>2. zoneBox'[z][l] = x \/ (l \in DOMAIN zoneBox[z] /\ zoneBox'[z][l] = zoneBox[z][l])
        BY <1>6, <4>1, OneMoreMember
      <4>3. x.turn \in Int /\ x.turn < nextTurn'
        BY <2>2, TurnsBelow
      <4>4. \A j \in DOMAIN queue' : Asked(queue'[j], z, x.turn) => j = i
        BY <1>2, <2>2, TurnsBelow DEF Asked
      <4>5. TellRight(z, x, queue', nextTurn')
        BY <1>2, <2>2, <4>3, <4>4 DEF TellRight
      <4> QED BY <4>2, <4>5
    <3> QED BY <3>1, <3>2
  <2> QED BY <2>1, <2>2
<1> QED BY <1>4, <1>5, <1>6, ReplyKept DEF FromInbox, ReplyInv

\* An event opens a turn: it asks what the event is about.
LEMMA FsmRight ==
    ASSUME P!TypeInv, P!OrderInv, ReplyInv, P!HandleFsm
    PROVE  ReplyInv'
<1> DEFINE e    == Head(inbox).event
           tell == ZoneMessageForEvent(e, twin)
<1>1. FromInbox /\ Head(inbox).kind = "Fsm" /\ \E l \in DOMAIN inbox : Head(inbox) = inbox[l]
  BY TakenInbox DEF P!HandleFsm
<1>2. e \in Event
  <2>1. Head(inbox) \in P!FsmMsg
    BY Taken DEF P!HandleFsm
  <2> QED BY <2>1 DEF P!FsmMsg
<1>3. tell # NoTell => tell.zone \in Assembly
  BY <1>2, TellType DEF Event, ZoneMessageForEvent, Assembly
<1>4. ~IsLifecycle([event |-> e, tell |-> tell])
  <2>1. MessageRight(Head(inbox), queue, nextTurn)
    BY <1>1 DEF ReplyInv
  <2>2. Head(inbox).event.kind # "AssemblyZoneReady"
    BY <1>1, <2>1 DEF MessageRight, IsLifecycle
  <2> QED BY <2>2 DEF IsLifecycle
<1>5. tell \in {NoTell, UserEventToZoneTell(e)}
  BY DEF ZoneMessageForEvent
<1>6. P!OpenTurn(e, tell) /\ todo' = todo
  BY DEF P!HandleFsm
<1>7. \A i \in DOMAIN todo' : ProperOpen(todo'[i])
  BY <1>6 DEF ReplyInv
<1> HIDE DEF e, tell
<1>8. AsksItsEvent([event |-> e, tell |-> tell])
  BY <1>4, <1>5 DEF AsksItsEvent
<1> QED BY <1>1, <1>3, <1>6, <1>7, <1>8, OpenRight

\* A lifecycle turn is opened with the tell of its assembly.
LEMMA PerformOpenRight ==
    ASSUME P!TypeInv, P!OrderInv, ReplyInv, P!PerformOpen
    PROVE  ReplyInv'
<1> DEFINE a == Head(todo)
<1>1. todo \in Seq(P!Action) /\ todo # << >>
  BY DEF P!TypeInv, P!TypeOK, P!PerformOpen
<1>2. a \in P!Action /\ a = todo[1] /\ 1 \in DOMAIN todo
  BY <1>1, TailMember
<1>3. a.kind = "open" /\ P!OpenTurn(a.event, a.tell) /\ todo' = Tail(todo) /\ inbox' = inbox
  BY DEF P!PerformOpen
<1>4. a.tell \in P!Tell
  BY <1>2, <1>3 DEF P!Action, P!OpenAction, P!SendAction
<1>5. a.tell.zone \in Assembly
  BY <1>4 DEF P!Tell
<1>6. ProperOpen(a)
  BY <1>2 DEF ReplyInv
<1>7. \A i \in DOMAIN todo' : ProperOpen(todo'[i])
  BY <1>1, <1>3, TailMember DEF ReplyInv
<1>8. FromInbox
  BY <1>3 DEF FromInbox
<1> HIDE DEF a
<1>9. AsksItsEvent([event |-> a.event, tell |-> a.tell])
  BY <1>3, <1>6 DEF ProperOpen, AsksItsEvent, IsLifecycle, LifecycleTell
<1> QED BY <1>3, <1>5, <1>7, <1>8, <1>9, OpenRight

\* A reply is stored in the barrier that asked for it.
LEMMA ZoneReadyRight ==
    ASSUME P!TypeInv, P!OrderInv, ReplyInv, NEW i \in DOMAIN queue, P!HandleZoneReady(i)
    PROVE  ReplyInv'
<1> DEFINE m == Head(inbox)
           b == P!ActOnZoneReply(queue[i], m.reply)
<1>1. FromInbox /\ m.kind = "ZoneReady" /\ \E l \in DOMAIN inbox : m = inbox[l]
  BY TakenInbox DEF P!HandleZoneReady
<1>2. queue[i] \in P!Barrier
  BY DEF P!TypeInv, P!TypeOK
<1>3. b.event = queue[i].event /\ b.tell = queue[i].tell /\ b.turn = queue[i].turn /\ b.reply = m.reply
  BY <1>2 DEF P!ActOnZoneReply, P!Barrier
<1>4. /\ queue' = [queue EXCEPT ![i] = b] /\ todo' = todo /\ nextTurn' = nextTurn /\ zoneBox' = zoneBox
      /\ Asked(queue[i], m.zone, m.turn)
  BY DEF P!HandleZoneReady, P!Concerns, P!TellAttemptMatches, Asked
<1> HIDE DEF b
<1>5. m.reply \in AnswersOf(m.zone, queue[i].tell.message)
  <2>1. MessageRight(m, queue, nextTurn)
    BY <1>1 DEF ReplyInv
  <2> HIDE DEF m
  <2> QED BY <1>1, <1>4, <2>1 DEF MessageRight
<1>6. AnsweredRight(b)
  BY <1>3, <1>4, <1>5 DEF AnsweredRight, Asked
<1> HIDE DEF m
<1> QED BY <1>1, <1>3, <1>4, <1>6, ReplaceRight

\* A reply is made up for the zone that was asked.
LEMMA GaveUpRight ==
    ASSUME P!TypeInv, P!OrderInv, P!DeadlineInv, ReplyInv, NEW i \in DOMAIN queue, P!HandleTimeoutGaveUp(i)
    PROVE  ReplyInv'
<1> DEFINE m == Head(inbox)
           b == P!ActOnZoneReply(queue[i], Synthetic(twin, m.zone))
<1>1. FromInbox /\ m.kind = "Timeout" /\ \E l \in DOMAIN inbox : m = inbox[l]
  BY TakenInbox DEF P!HandleTimeoutGaveUp
<1>2. queue[i] \in P!Barrier /\ twin \in Twin
  BY DEF P!TypeInv, P!TypeOK
<1>3. /\ b.event = queue[i].event /\ b.tell = queue[i].tell /\ b.turn = queue[i].turn
      /\ b.reply = Synthetic(twin, m.zone)
  BY <1>2 DEF P!ActOnZoneReply, P!Barrier
<1>4. /\ queue' = [queue EXCEPT ![i] = b] /\ todo' = todo /\ nextTurn' = nextTurn /\ zoneBox' = zoneBox
      /\ P!Concerns(m, queue[i])
  BY DEF P!HandleTimeoutGaveUp
<1> HIDE DEF b
<1>5. queue[i].tell # NoTell /\ queue[i].tell \in P!Tell
  BY <1>2, <1>4 DEF P!Concerns, P!Barrier
<1>6. m.zone = queue[i].tell.zone /\ m.zone \in Assembly
  BY <1>1, <1>4, <1>5 DEF P!DeadlineInv, P!DeadlineIsCurrent, P!TellAttemptMatches, P!Tell
<1>7. Synthetic(twin, m.zone) \in AnswersOf(m.zone, queue[i].tell.message)
  <2>1. ZoneCtx(twin, m.zone) \in StateOf(m.zone)
    BY <1>2, <1>6 DEF ZoneCtx, StateOf, Twin, TwinOver
  <2> QED BY <2>1 DEF Synthetic, AnswersOf
<1> HIDE DEF m
<1>8. AnsweredRight(b)
  BY <1>3, <1>6, <1>7 DEF AnsweredRight
<1> QED BY <1>1, <1>3, <1>4, <1>8, ReplaceRight

\* The tell is repeated as it was.
LEMMA RetryRight ==
    ASSUME P!TypeInv, P!OrderInv, ReplyInv, NEW i \in DOMAIN queue, P!HandleTimeoutRetry(i)
    PROVE  ReplyInv'
<1> DEFINE x == [turn |-> queue[i].turn, attempt |-> queue[i].attempt + 1,
                 message |-> queue[i].tell.message]
           b == P!Retried(queue[i])
<1>1. FromInbox
  BY TakenInbox DEF P!HandleTimeoutRetry
<1>2. queue[i] \in P!Barrier
  BY DEF P!TypeInv, P!TypeOK
<1>3. /\ b.event = queue[i].event /\ b.tell = queue[i].tell /\ b.turn = queue[i].turn
      /\ b.reply = queue[i].reply
  BY <1>2 DEF P!Retried, P!Barrier
<1>4. /\ queue' = [queue EXCEPT ![i] = b] /\ todo' = todo /\ nextTurn' = nextTurn
      /\ zoneBox' = [zoneBox EXCEPT ![queue[i].tell.zone] = Append(@, x)]
  BY DEF P!HandleTimeoutRetry
<1>5. x.turn = queue[i].turn /\ x.message = queue[i].tell.message
  OBVIOUS
<1> HIDE DEF b, x
<1>6. AnsweredRight(b)
  <2>1. AnsweredRight(queue[i])
    BY DEF ReplyInv, BarrierRight
  <2> QED BY <1>3, <2>1 DEF AnsweredRight
<1>7. \E y : /\ zoneBox' = [zoneBox EXCEPT ![b.tell.zone] = Append(@, y)]
             /\ y.turn = b.turn /\ y.message = b.tell.message
  BY <1>3, <1>4, <1>5
<1> QED BY <1>1, <1>3, <1>4, <1>6, <1>7, ReplaceRight

\* Nothing is told, and no barrier changes.
LEMMA QuietRight ==
    ASSUME P!TypeInv, ReplyInv, queue' = queue, nextTurn' = nextTurn,
           \A i \in DOMAIN todo' : ProperOpen(todo'[i]),
           \A z \in Assembly : \A i \in DOMAIN zoneBox'[z] :
              \E k \in DOMAIN zoneBox[z] : zoneBox'[z][i] = zoneBox[z][k],
           \A i \in DOMAIN inbox' :
              \/ MessageRight(inbox'[i], queue, nextTurn)
              \/ \E k \in DOMAIN inbox : inbox'[i] = inbox[k]
    PROVE  ReplyInv'
<1>1. nextTurn \in Int
  BY DEF P!TypeInv, P!TypeOK, P!Turn
<1>2. Grown(queue, nextTurn, queue', nextTurn')
  BY <1>1 DEF Grown
<1>3. \A i \in DOMAIN queue' : BarrierRight(queue'[i])
  BY DEF ReplyInv
<1> QED BY <1>2, <1>3, ReplyKept

\* A message is dropped, or a command sent.
LEMMA DropRight ==
    ASSUME P!TypeInv, ReplyInv, P!DiscardZoneReady \/ P!DiscardTimeout \/ P!PerformSend
    PROVE  ReplyInv'
<1>1. queue' = queue /\ nextTurn' = nextTurn /\ zoneBox' = zoneBox
  BY DEF P!DiscardZoneReady, P!DiscardTimeout, P!PerformSend
<1>2. FromInbox
  BY TakenInbox DEF P!DiscardZoneReady, P!DiscardTimeout, P!PerformSend, FromInbox
<1>3. \A i \in DOMAIN todo' : ProperOpen(todo'[i])
  <2>1. CASE P!PerformSend
    <3>1. todo \in Seq(P!Action) /\ todo # << >> /\ todo' = Tail(todo)
      BY <2>1 DEF P!TypeInv, P!TypeOK, P!PerformSend
    <3> QED BY <3>1, TailMember DEF ReplyInv
  <2>2. CASE ~P!PerformSend
    BY <2>2 DEF P!DiscardZoneReady, P!DiscardTimeout, ReplyInv
  <2> QED BY <2>1, <2>2
<1> QED BY <1>1, <1>2, <1>3, QuietRight DEF FromInbox

\* The event and the reply of a commit
CommitsWith(e, r) ==
    /\ twin' = CommitTurn(twin, e, r)
    /\ todo' = Actions(twin, e, r)

\* A turn is committed: the front of the queue, or what a twinlet says.
LEMMA CommitRight ==
    ASSUME P!TypeInv, P!OrderInv, ReplyInv, P!CommitFront \/ P!HandleSpontaneous,
           NEW e \in Event, NEW r \in ZoneReply \cup {NoReply}, CommitsWith(e, r)
    PROVE  ReplyInv'
<1>1. zoneBox' = zoneBox /\ nextTurn' = nextTurn
  BY DEF P!CommitFront, P!HandleSpontaneous
<1>2. FromInbox
  BY TakenInbox DEF P!CommitFront, P!HandleSpontaneous, FromInbox
<1>3. twin \in Twin /\ queue \in Seq(P!Barrier)
  BY DEF P!TypeInv, P!TypeOK
<1>4. \A i \in DOMAIN todo' : ProperOpen(todo'[i])
  BY <1>3, CommitOpens DEF CommitsWith
<1>5. \A i \in DOMAIN queue' : \E k \in DOMAIN queue : queue'[i] = queue[k]
  <2>1. CASE P!CommitFront
    BY <1>3, <2>1, TailMember DEF P!CommitFront
  <2>2. CASE P!HandleSpontaneous
    BY <2>2 DEF P!HandleSpontaneous
  <2> QED BY <2>1, <2>2
<1>6. Grown(queue, nextTurn, queue', nextTurn')
  BY <1>1, <1>5, TurnsBelow DEF Grown
<1>7. \A i \in DOMAIN queue' : BarrierRight(queue'[i])
  BY <1>5 DEF ReplyInv
<1> QED BY <1>1, <1>2, <1>4, <1>6, <1>7, ReplyKept DEF FromInbox

\* A zone answers its next tell from its own copy.
LEMMA AnswerRight ==
    ASSUME P!TypeInv, ZoneInv, ReplyInv, NEW z \in Assembly,
           P!ZoneAnswers(z, OnReceivingMessage(z, zoneCtx[z], Head(zoneBox[z]).message))
    PROVE  ReplyInv'
<1> DEFINE x == Head(zoneBox[z])
           m == [kind |-> "ZoneReady", zone |-> z, turn |-> x.turn, attempt |-> x.attempt,
                 reply |-> OnReceivingMessage(z, zoneCtx[z], x.message)]
<1>1. zoneBox \in [Assembly -> Seq(P!ZoneTell)] /\ inbox \in Seq(P!InboxMsg)
  BY DEF P!TypeInv, P!TypeOK
<1>2. /\ zoneBox[z] # << >> /\ inbox' = Append(inbox, m)
      /\ zoneBox' = [zoneBox EXCEPT ![z] = Tail(@)]
      /\ queue' = queue /\ nextTurn' = nextTurn /\ todo' = todo
  BY DEF P!ZoneAnswers
<1>3. zoneBox[z] \in Seq(P!ZoneTell) /\ x = zoneBox[z][1] /\ 1 \in DOMAIN zoneBox[z]
  BY <1>1, <1>2, TailMember
<1>4. \A y \in Assembly : \A i \in DOMAIN zoneBox'[y] :
         \E k \in DOMAIN zoneBox[y] : zoneBox'[y][i] = zoneBox[y][k]
  <2>1. zoneBox'[z] = Tail(zoneBox[z]) /\ \A y \in Assembly : y # z => zoneBox'[y] = zoneBox[y]
    BY <1>1, <1>2
  <2>2. zoneBox[z] \in Seq(P!ZoneTell) /\ zoneBox[z] # << >>
    BY <1>1, <1>2
  <2> HIDE DEF x, m
  <2>3. \A i \in DOMAIN zoneBox'[z] : i + 1 \in DOMAIN zoneBox[z] /\ zoneBox'[z][i] = zoneBox[z][i + 1]
    BY <2>1, <2>2, TailMember
  <2> QED BY <2>1, <2>3
<1>5. MessageRight(m, queue, nextTurn)
  <2>1. TellRight(z, x, queue, nextTurn)
    BY <1>3 DEF ReplyInv
  <2>2. OnReceivingMessage(z, zoneCtx[z], x.message) \in AnswersOf(z, x.message)
    BY DEF ZoneInv, AnswersOf
  <2>3. m.kind = "ZoneReady" /\ m.zone = z /\ m.turn = x.turn /\ m.reply = OnReceivingMessage(z, zoneCtx[z], x.message)
    OBVIOUS
  <2> HIDE DEF m, x
  <2> QED BY <2>1, <2>2, <2>3 DEF MessageRight, TellRight
<1> HIDE DEF m
<1>6. \A i \in DOMAIN inbox' : inbox'[i] = m \/ (i \in DOMAIN inbox /\ inbox'[i] = inbox[i])
  BY <1>1, <1>2, OneMoreMember
<1>7. \A i \in DOMAIN todo' : ProperOpen(todo'[i])
  BY <1>2 DEF ReplyInv
<1> QED BY <1>2, <1>4, <1>5, <1>6, <1>7, QuietRight

\* A message that is right enters the brain's mailbox.
LEMMA ArrivalRight ==
    ASSUME P!TypeInv, ReplyInv, NEW m, MessageRight(m, queue, nextTurn), inbox' = Append(inbox, m),
           queue' = queue, nextTurn' = nextTurn, todo' = todo, zoneBox' = zoneBox
    PROVE  ReplyInv'
<1>1. inbox \in Seq(P!InboxMsg)
  BY DEF P!TypeInv, P!TypeOK
<1>2. \A i \in DOMAIN inbox' : inbox'[i] = m \/ (i \in DOMAIN inbox /\ inbox'[i] = inbox[i])
  BY <1>1, OneMoreMember
<1>3. \A i \in DOMAIN todo' : ProperOpen(todo'[i])
  BY DEF ReplyInv
<1> QED BY <1>2, <1>3, QuietRight

\* The twinlets keep the invariant.
LEMMA TwinletsRight ==
    ASSUME P!TypeInv, ZoneInv, AckInv, ReplyInv, Twinlets
    PROVE  ReplyInv'
<1>1. CASE HeadlampApply
  <2>1. P!ZoneAnswers("Headlamp", OnReceivingMessage("Headlamp", zoneCtx["Headlamp"], Head(zoneBox["Headlamp"]).message))
    BY <1>1, SameSurroundings, Zenon DEF HeadlampApply, OnReceivingMessage
  <2> QED BY <2>1, AnswerRight DEF Assembly
<1>2. CASE WiperApply
  <2>1. "Wiper" # "Headlamp"
    OBVIOUS
  <2>2. P!ZoneAnswers("Wiper", OnReceivingMessage("Wiper", zoneCtx["Wiper"], Head(zoneBox["Wiper"]).message))
    BY <1>2, <2>1, SameSurroundings, Zenon DEF WiperApply, OnReceivingMessage
  <2> QED BY <2>2, AnswerRight DEF Assembly
<1>3. ASSUME NEW z \in Assembly, Swallow(z) PROVE ReplyInv'
  <2>1. P!ZoneSwallows(z)
    BY <1>3, SameSurroundings, Zenon DEF Swallow
  <2>2. /\ zoneBox[z] # << >> /\ inbox' = inbox
        /\ zoneBox' = [zoneBox EXCEPT ![z] = Tail(@)]
        /\ queue' = queue /\ nextTurn' = nextTurn /\ todo' = todo
    BY <2>1 DEF P!ZoneSwallows
  <2>3. zoneBox \in [Assembly -> Seq(P!ZoneTell)]
    BY DEF P!TypeInv, P!TypeOK
  <2>4. zoneBox'[z] = Tail(zoneBox[z]) /\ \A y \in Assembly : y # z => zoneBox'[y] = zoneBox[y]
    BY <2>2, <2>3
  <2>5. \A i \in DOMAIN zoneBox'[z] : i + 1 \in DOMAIN zoneBox[z] /\ zoneBox'[z][i] = zoneBox[z][i + 1]
    BY <2>2, <2>3, <2>4, TailMember
  <2>6. \A y \in Assembly : \A i \in DOMAIN zoneBox'[y] :
           \E k \in DOMAIN zoneBox[y] : zoneBox'[y][i] = zoneBox[y][k]
    BY <2>4, <2>5
  <2>7. \A i \in DOMAIN todo' : ProperOpen(todo'[i])
    BY <2>2 DEF ReplyInv
  <2> QED BY <2>2, <2>6, <2>7, QuietRight
<1>4. CASE AckWaitElapsed
  <2> DEFINE d == Head(ackBox).direction
             lamp == zoneCtx["Headlamp"]
             am == [kind |-> "ActuationIncomplete", direction |-> d]
             m == [kind |-> "Spontaneous",
                   event |-> [kind |-> "FrontHeadlampActuationIncomplete", direction |-> d],
                   reply |-> RecoverIncomplete(lamp, d)]
  <2>1. P!ZoneSpeaksUp(m.event, m.reply)
    BY <1>4, SameSurroundings, Zenon DEF AckWaitElapsed
  <2>2. /\ inbox' = Append(inbox, m)
        /\ queue' = queue /\ nextTurn' = nextTurn /\ todo' = todo /\ zoneBox' = zoneBox
    BY <2>1 DEF P!ZoneSpeaksUp
  <2>3. lamp \in StateOf("Headlamp")
    BY DEF ZoneInv, Assembly
  <2>4. OnReceivingMessage("Headlamp", lamp, am) = RecoverIncomplete(lamp, d)
    BY DEF OnReceivingMessage, HeadlampOnMessage
  <2>5. RecoverIncomplete(lamp, d) \in AnswersOf("Headlamp", am)
    BY <2>3, <2>4 DEF AnswersOf
  <2>6. MessageRight(m, queue, nextTurn)
    BY <2>5 DEF MessageRight
  <2> HIDE DEF m
  <2> QED BY <2>2, <2>6, ArrivalRight
<1> QED BY <1>1, <1>2, <1>3, <1>4 DEF Twinlets

\* What comes from outside is no lifecycle event.
LEMMA OutsideRight ==
    ASSUME P!TypeInv, ReplyInv, Outside
    PROVE  ReplyInv'
<1>1. ASSUME NEW e \in Ingress \cup {[kind |-> "PowerOn"]}, Ingest(e) PROVE ReplyInv'
  <2> DEFINE m == [kind |-> "Fsm", event |-> e]
  <2>1. /\ inbox' = Append(inbox, m)
        /\ queue' = queue /\ nextTurn' = nextTurn /\ todo' = todo /\ zoneBox' = zoneBox
    BY <1>1 DEF Ingest, RB!Submit
  <2>2. e.kind # "AssemblyZoneReady"
    BY VirtualCarAssumption DEF VirtualCarAssumption
  <2>3. MessageRight(m, queue, nextTurn)
    BY <2>2 DEF MessageRight, IsLifecycle
  <2> HIDE DEF m
  <2> QED BY <2>1, <2>3, ArrivalRight
<1>2. CASE TellBackTimerFires
  <2>1. PICK d \in timers : RB!TimerFires(d)
    BY <1>2 DEF TellBackTimerFires
  <2> DEFINE m == [kind |-> "Timeout", zone |-> d.zone, turn |-> d.turn, attempt |-> d.attempt]
  <2>2. /\ inbox' = Append(inbox, m)
        /\ queue' = queue /\ nextTurn' = nextTurn /\ todo' = todo /\ zoneBox' = zoneBox
    BY <2>1 DEF RB!TimerFires
  <2>3. MessageRight(m, queue, nextTurn)
    BY DEF MessageRight
  <2> HIDE DEF m
  <2> QED BY <2>2, <2>3, ArrivalRight
<1>3. CASE ChannelReceive \/ AckTimerFires \/ \E direction \in Direction : LooseTimerFires(direction)
  <2>1. queue' = queue /\ nextTurn' = nextTurn /\ todo' = todo /\ zoneBox' = zoneBox /\ inbox' = inbox
    BY <1>3 DEF ChannelReceive, RB!ChannelReceive, AckTimerFires, LooseTimerFires, brainVars
  <2> QED BY <2>1 DEF ReplyInv
<1> QED BY <1>1, <1>2, <1>3 DEF Outside


\* A commit is a turn of the event and the reply of the front barrier, or of
\* the message that a twinlet sent.
LEMMA Committing ==
    ASSUME P!TypeInv, P!CommitFront \/ P!HandleSpontaneous
    PROVE  \E e \in Event, r \in ZoneReply \cup {NoReply} : CommitsWith(e, r)
<1>1. CASE P!CommitFront
  <2>1. Head(queue) \in P!Barrier
    BY <1>1 DEF P!TypeInv, P!TypeOK, P!CommitFront
  <2> QED BY <1>1, <2>1 DEF P!CommitFront, P!Barrier, CommitsWith
<1>2. CASE P!HandleSpontaneous
  <2>1. Head(inbox) \in P!SpontaneousMsg
    BY <1>2, Taken DEF P!HandleSpontaneous
  <2>2. Head(inbox).event \in Event /\ Head(inbox).reply \in ZoneReply
    BY <2>1, ParametersFit DEF P!SpontaneousMsg
  <2> QED BY <1>2, <2>2 DEF P!HandleSpontaneous, CommitsWith
<1> QED BY <1>1, <1>2

LEMMA ReplyNext ==
    ASSUME P!TypeInv, P!OrderInv, P!DeadlineInv, ZoneInv, AckInv, ReplyInv, [Next]_vars
    PROVE  ReplyInv'
<1>1. CASE Brain
  <2>1. CASE Receive
    <3>1. \/ P!HandleFsm
          \/ \E i \in DOMAIN queue : P!HandleZoneReady(i) \/ P!HandleTimeoutGaveUp(i)
          \/ P!DiscardZoneReady \/ P!DiscardTimeout
          \/ \E i \in DOMAIN queue : P!HandleTimeoutRetry(i)
      BY <2>1, SameBrain, Zenon DEF Receive
    <3> QED BY <3>1, FsmRight, ZoneReadyRight, GaveUpRight, DropRight, RetryRight, Zenon
  <2>2. CASE HandleSpontaneous \/ CommitFront
    <3>1. P!CommitFront \/ P!HandleSpontaneous
      BY <2>2, SameBrain, Zenon DEF HandleSpontaneous, CommitFront
    <3>2. PICK e \in Event, r \in ZoneReply \cup {NoReply} : CommitsWith(e, r)
      BY <3>1, Committing
    <3> QED BY <3>1, <3>2, CommitRight
  <2>3. CASE PerformOpen
    <3>1. P!PerformOpen
      BY <2>3, SameBrain, Zenon DEF PerformOpen
    <3> QED BY <3>1, PerformOpenRight, Zenon
  <2>4. CASE PerformSend
    <3>1. P!PerformSend
      BY <2>4, SameBrain, Zenon DEF PerformSend
    <3> QED BY <3>1, DropRight, Zenon
  <2> QED BY <1>1, <2>1, <2>2, <2>3, <2>4, Zenon DEF Brain
<1>2. CASE Twinlets
  BY <1>2, TwinletsRight, Zenon
<1>3. CASE Outside
  BY <1>3, OutsideRight, Zenon
<1>4. CASE UNCHANGED vars
  <2>1. queue' = queue /\ nextTurn' = nextTurn /\ todo' = todo /\ zoneBox' = zoneBox /\ inbox' = inbox
    BY <1>4 DEF vars, brainVars
  <2> QED BY <2>1 DEF ReplyInv
<1> QED BY <1>1, <1>2, <1>3, <1>4, Zenon DEF Next

LEMMA ReplyInit == P!Init => ReplyInv
<1> SUFFICES ASSUME P!Init PROVE ReplyInv
  OBVIOUS
<1>1. queue = << >> /\ todo = << >> /\ inbox = << >> /\ zoneBox = [z \in Assembly |-> << >>]
  BY DEF P!Init
<1>2. DOMAIN << >> = {}
  OBVIOUS
<1> QED BY <1>1, <1>2 DEF ReplyInv

-----------------------------------------------------------------------------
(* Each step is one of DigitalTwin, or leaves it alone.                    *)

OnceInv == OnceIn(queue, todo)

Alone == twin' = twin /\ OpenTurns' = OpenTurns /\ buzzer' = buzzer

\* A message that is no commit opens no lifecycle turn, and closes none.
LEMMA ReceiveAlone ==
    ASSUME P!TypeInv, ReplyInv, OnceInv, Receive
    PROVE  Alone /\ OnceInv'
<1>1. buzzer' = buzzer
  BY DEF Receive
<1>2. \/ P!HandleFsm
      \/ \E i \in DOMAIN queue : P!HandleZoneReady(i) \/ P!HandleTimeoutGaveUp(i) \/ P!HandleTimeoutRetry(i)
      \/ P!DiscardZoneReady \/ P!DiscardTimeout
  BY SameBrain, Zenon DEF Receive
<1>3. twin' = twin /\ todo' = todo
  BY <1>2 DEF P!HandleFsm, P!HandleZoneReady, P!HandleTimeoutGaveUp, P!HandleTimeoutRetry,
              P!DiscardZoneReady, P!DiscardTimeout
<1>4. queue \in Seq(P!Barrier)
  BY DEF P!TypeInv, P!TypeOK
<1>5. SUFFICES OpenOf(queue', todo) = OpenOf(queue, todo) /\ OnceIn(queue', todo)
  BY <1>1, <1>3, OpenTurnsOf DEF Alone, OnceInv
<1>6. CASE P!HandleFsm
  <2> DEFINE e    == Head(inbox).event
             tell == ZoneMessageForEvent(e, twin)
             b    == P!NewBarrier(nextTurn, e, tell)
  <2>1. Head(inbox).kind = "Fsm" /\ \E l \in DOMAIN inbox : Head(inbox) = inbox[l]
    BY <1>6, TakenInbox DEF P!HandleFsm
  <2>2. MessageRight(Head(inbox), queue, nextTurn)
    BY <2>1 DEF ReplyInv
  <2>3. ~IsLifecycle(Head(inbox))
    BY <2>1, <2>2 DEF MessageRight
  <2>4. queue' = Append(queue, b)
    BY <1>6 DEF P!HandleFsm, P!OpenTurn
  <2>5. ~IsLifecycle(b)
    BY <2>3 DEF IsLifecycle, P!NewBarrier
  <2> HIDE DEF b
  <2> QED BY <1>4, <2>4, <2>5, OtherTurn DEF OnceInv
<1>7. ASSUME NEW i \in DOMAIN queue,
             P!HandleZoneReady(i) \/ P!HandleTimeoutGaveUp(i) \/ P!HandleTimeoutRetry(i)
      PROVE  OpenOf(queue', todo) = OpenOf(queue, todo) /\ OnceIn(queue', todo)
  <2>1. queue[i] \in P!Barrier
    BY <1>4
  <2>2. PICK b : /\ queue' = [queue EXCEPT ![i] = b]
                 /\ \/ \E r : b = P!ActOnZoneReply(queue[i], r)
                    \/ b = P!Retried(queue[i])
    BY <1>7 DEF P!HandleZoneReady, P!HandleTimeoutGaveUp, P!HandleTimeoutRetry
  <2>3. b.event = queue[i].event /\ b.tell = queue[i].tell
    BY <2>1, <2>2 DEF P!ActOnZoneReply, P!Retried, P!Barrier
  <2> QED BY <1>4, <2>2, <2>3, SameTurnReplaced DEF OnceInv
<1>8. CASE P!DiscardZoneReady \/ P!DiscardTimeout
  <2>1. queue' = queue
    BY <1>8 DEF P!DiscardZoneReady, P!DiscardTimeout
  <2> QED BY <2>1 DEF OnceInv
<1> QED BY <1>2, <1>6, <1>7, <1>8

\* An action of a commit that is performed: a lifecycle turn that was to be
\* opened is one that is queued.
LEMMA PerformAlone ==
    ASSUME P!TypeInv, ReplyInv, OnceInv, PerformOpen \/ PerformSend
    PROVE  Alone /\ OnceInv'
<1>1. buzzer' = buzzer
  BY DEF PerformOpen, PerformSend
<1>2. P!PerformOpen \/ P!PerformSend
  BY SameBrain, Zenon DEF PerformOpen, PerformSend
<1>3. twin' = twin /\ todo # << >> /\ todo' = Tail(todo)
  BY <1>2 DEF P!PerformOpen, P!PerformSend
<1>4. queue \in Seq(P!Barrier) /\ todo \in Seq(P!Action)
  BY DEF P!TypeInv, P!TypeOK
<1>5. SUFFICES OpenOf(queue', Tail(todo)) = OpenOf(queue, todo) /\ OnceIn(queue', Tail(todo))
  BY <1>1, <1>3, OpenTurnsOf DEF Alone, OnceInv
<1>6. CASE P!PerformOpen
  <2> DEFINE b == P!NewBarrier(nextTurn, Head(todo).event, Head(todo).tell)
  <2>1. Head(todo).kind = "open" /\ queue' = Append(queue, b)
    BY <1>6 DEF P!PerformOpen, P!OpenTurn
  <2>2. b.event = Head(todo).event /\ b.tell = Head(todo).tell
    BY DEF P!NewBarrier
  <2>3. 1 \in DOMAIN todo /\ Head(todo) = todo[1]
    BY <1>3, <1>4, TailMember
  <2>4. ProperOpen(Head(todo))
    BY <2>3 DEF ReplyInv
  <2> HIDE DEF b
  <2>5. IsLifecycle(b)
    BY <2>1, <2>2, <2>4 DEF ProperOpen, IsLifecycle
  <2> QED BY <1>3, <1>4, <2>1, <2>2, <2>5, ActionToTurn DEF OnceInv
<1>7. CASE P!PerformSend
  <2>1. Head(todo).kind # "open" /\ queue' = queue
    BY <1>7 DEF P!PerformSend
  <2> QED BY <1>3, <1>4, <2>1, ActionSent DEF OnceInv
<1> QED BY <1>2, <1>6, <1>7

\* Twinlets, timers and the outside reach neither the twin nor its queue.
LEMMA OthersAlone ==
    ASSUME OnceInv, Twinlets \/ Outside \/ UNCHANGED vars
    PROVE  Alone /\ OnceInv'
<1>1. queue' = queue /\ todo' = todo /\ twin' = twin /\ buzzer' = buzzer
  <2>1. CASE Twinlets
    <3>1. \/ \E z, r : P!ZoneAnswers(z, r)
          \/ \E z : P!ZoneSwallows(z)
          \/ \E e, r : P!ZoneSpeaksUp(e, r)
      BY <2>1, SameSurroundings, Zenon DEF Twinlets, HeadlampApply, WiperApply, Swallow, AckWaitElapsed
    <3>2. queue' = queue /\ todo' = todo /\ twin' = twin
      BY <3>1 DEF P!ZoneAnswers, P!ZoneSwallows, P!ZoneSpeaksUp
    <3>3. buzzer' = buzzer
      BY <2>1 DEF Twinlets, HeadlampApply, WiperApply, Swallow, AckWaitElapsed
    <3> QED BY <3>2, <3>3
  <2>2. CASE Outside
    BY <2>2 DEF Outside, Ingest, TellBackTimerFires, ChannelReceive, AckTimerFires, LooseTimerFires,
                RB!Submit, RB!TimerFires, RB!ChannelReceive, brainVars
  <2>3. CASE UNCHANGED vars
    BY <2>3 DEF vars, brainVars
  <2> QED BY <2>1, <2>2, <2>3
<1> QED BY <1>1, OpenTurnsOf DEF Alone, OnceInv


\* A commit does to the open turns and to the buzzer what DigitalTwin says: it
\* consumes the lifecycle turn of the front barrier, if that is one, and no
\* two turns of one assembly are open, because only a twin that is off or idle
\* opens any, and then none is open.
LEMMA CommitResolves ==
    ASSUME P!TypeInv, OnceInv, D!Inv, todo = << >>, NEW e \in Event, NEW r \in ZoneReply \cup {NoReply},
           CommitsWith(e, r), Sound(e, r), NEW done,
           \/ queue' = queue /\ done = {}
           \/ /\ queue # << >> /\ queue' = Tail(queue)
              /\ done = IF IsLifecycle(Head(queue)) THEN {Lifecycle(Head(queue))} ELSE {}
    PROVE  D!CommitResolvedTurn(e, r, done) /\ OnceInv'
<1> DEFINE turn == Turn(twin, e, r)
<1>1. twin \in Twin /\ queue \in Seq(P!Barrier)
  BY DEF P!TypeInv, P!TypeOK
<1>2. OnceIn(queue, << >>) /\ OpenTurns = OpenOf(queue, << >>)
  BY OpenTurnsOf DEF OnceInv
<1>3. OnceIn(queue', << >>) /\ OpenOf(queue', << >>) = OpenTurns \ done
  <2>1. CASE queue' = queue /\ done = {}
    BY <1>2, <2>1
  <2>2. CASE /\ queue # << >> /\ queue' = Tail(queue)
             /\ done = IF IsLifecycle(Head(queue)) THEN {Lifecycle(Head(queue))} ELSE {}
    BY <1>1, <1>2, <2>2, FrontGone
  <2> QED BY <2>1, <2>2
<1>4. /\ OpenOf(<< >>, todo') = D!OpenedBy(turn.outputs[1])
      /\ OnceIn(<< >>, todo')
      /\ OpenOf(<< >>, todo') # {} => twin.mode \in {"Off", "Idle"}
  BY <1>1, CommitOpens DEF CommitsWith
<1>5. twin.mode \in {"Off", "Idle"} => OpenTurns = {}
  BY DEF D!Inv, D!CountdownIsOpenTurns
<1>6. OnceIn(queue', todo') /\ OpenOf(queue', todo') = OpenOf(queue', << >>) \cup OpenOf(<< >>, todo')
  <2>1. OpenOf(queue', << >>) = {} \/ OpenOf(<< >>, todo') = {}
    BY <1>3, <1>4, <1>5
  <2> QED BY <1>3, <1>4, <2>1, OpenParts
<1>7. OpenTurns' = (OpenTurns \ done) \cup D!OpenedBy(turn.outputs[1])
  BY <1>3, <1>4, <1>6, OpenTurnsOf
<1>8. twin' = turn.twin /\ buzzer' = BuzzerAfter(turn.outputs[2], BuzzerAfter(turn.outputs[1], buzzer))
  BY DEF CommitsWith, CommitTurn, Sound, BuzzerAfterTurn
<1>9. D!Turn(twin, e, r) = turn
  BY SameTurn
<1>10. /\ twin' = D!Turn(twin, e, r).twin
       /\ buzzer' = D!BuzzerAfter(D!Turn(twin, e, r).outputs[2],
                                  D!BuzzerAfter(D!Turn(twin, e, r).outputs[1], buzzer))
       /\ OpenTurns' = (OpenTurns \ done) \cup D!OpenedBy(D!Turn(twin, e, r).outputs[1])
  <2> HIDE DEF turn
  <2> QED BY <1>7, <1>8, <1>9, SameNames, Zenon
<1>11. D!CommitResolvedTurn(e, r, done)
  BY <1>10, Zenon DEF D!CommitResolvedTurn
<1> QED BY <1>6, <1>11 DEF OnceInv

\* A turn of any event but a lifecycle event, with a reply to its event, is a
\* step of DigitalTwin.
LEMMA EventStep ==
    ASSUME NEW e \in Event, e.kind # "AssemblyZoneReady", NEW r \in D!Replies(e),
           D!CommitResolvedTurn(e, r, {})
    PROVE  D!Next
<1>1. UserEventToZoneTell(e) = NoTell => r = NoReply
  BY SameNames DEF D!Replies
<1>2. CASE e \in [kind : {"PowerOn", "PowerOff"}]
  <2>1. UserEventToZoneTell(e) = NoTell
    BY <1>2 DEF UserEventToZoneTell
  <2>2. r = D!NoReply
    BY <1>1, <2>1, SameNames
  <2>3. e = [kind |-> "PowerOn"] \/ e = [kind |-> "PowerOff"]
    BY <1>2
  <2>4. D!PowerOn \/ D!PowerOff
    BY <2>2, <2>3, Zenon DEF D!PowerOn, D!PowerOff
  <2> QED BY <2>4, Zenon DEF D!Next
<1>3. CASE e \in [kind : {"UpdateRpm"}, rpm : Rpm]
  <2>1. UserEventToZoneTell(e) = NoTell
    BY <1>3 DEF UserEventToZoneTell
  <2>2. r = D!NoReply
    BY <1>1, <2>1, SameNames
  <2>3. e = [kind |-> "UpdateRpm", rpm |-> e.rpm] /\ e.rpm \in Rpm
    BY <1>3
  <2>4. D!UpdateRpm(e.rpm)
    BY <2>2, <2>3, Zenon DEF D!UpdateRpm
  <2> QED BY <2>3, <2>4, Zenon DEF D!Next
<1>4. CASE e \in [kind : {"UpdateAmbientLux"}, lux : Lux]
  <2>1. e = [kind |-> "UpdateAmbientLux", lux |-> e.lux] /\ e.lux \in Lux
    BY <1>4
  <2>2. D!UpdateAmbientLux(e.lux)
    BY <2>1, Zenon DEF D!UpdateAmbientLux
  <2> QED BY <2>1, <2>2, Zenon DEF D!Next
<1>5. CASE e \in [kind : {"FrontHeadlampOnAck", "FrontHeadlampOffAck"}]
  <2>1. e = [kind |-> e.kind] /\ e.kind \in {"FrontHeadlampOnAck", "FrontHeadlampOffAck"}
    BY <1>5
  <2>2. D!FrontHeadlampAck(e.kind)
    BY <2>1, Zenon DEF D!FrontHeadlampAck
  <2> QED BY <2>1, <2>2, Zenon DEF D!Next
<1>6. CASE e \in [kind : {"FrontHeadlampActuationIncomplete"}, direction : Direction]
  <2>1. e = [kind |-> "FrontHeadlampActuationIncomplete", direction |-> e.direction]
        /\ e.direction \in D!Direction
    BY <1>6, SameNames
  <2>2. D!FrontHeadlampActuationIncomplete(e.direction)
    BY <2>1, Zenon DEF D!FrontHeadlampActuationIncomplete
  <2> QED BY <2>1, <2>2, Zenon DEF D!Next
<1>7. CASE e \in [kind : {"RainsStarted", "RainsStopped"}]
  <2>1. e = [kind |-> e.kind] /\ e.kind \in {"RainsStarted", "RainsStopped"}
    BY <1>7
  <2>2. D!Rains(e.kind)
    BY <2>1, Zenon DEF D!Rains
  <2> QED BY <2>1, <2>2, Zenon DEF D!Next
<1>8. CASE e \in [kind : {"TimerTick"}, ackOverdue : BOOLEAN, warningAged : BOOLEAN]
  <2>1. UserEventToZoneTell(e) = NoTell
    BY <1>8 DEF UserEventToZoneTell
  <2>2. r = D!NoReply
    BY <1>1, <2>1, SameNames
  <2>3. \E o, w \in BOOLEAN : e = [kind |-> "TimerTick", ackOverdue |-> o, warningAged |-> w]
    BY <1>8, Zenon
  <2>4. D!TimerTick
    BY <2>2, <2>3, Zenon DEF D!TimerTick
  <2> QED BY <2>4, Zenon DEF D!Next
<1>9. e.kind = "AssemblyZoneReady" \/ e \notin [kind : {"AssemblyZoneReady"}, assembly : Assembly]
  OBVIOUS
<1>10. \/ e \in [kind : {"PowerOn", "PowerOff"}]
       \/ e \in [kind : {"FrontHeadlampOnAck", "FrontHeadlampOffAck"}]
       \/ e \in [kind : {"RainsStarted", "RainsStopped"}]
       \/ e \notin [kind : {"PowerOn", "PowerOff", "FrontHeadlampOnAck", "FrontHeadlampOffAck",
                            "RainsStarted", "RainsStopped"}]
  OBVIOUS
<1> QED BY <1>2, <1>3, <1>4, <1>5, <1>6, <1>7, <1>8, <1>9, <1>10 DEF Event, EventOver

\* The turn of an open lifecycle turn, with a reply of its assembly, is a step
\* of DigitalTwin.
LEMMA LifecycleStep ==
    ASSUME NEW l \in OpenTurns, NEW r \in AnswersOf(l.assembly, [kind |-> l.message]),
           D!CommitResolvedTurn([kind |-> "AssemblyZoneReady", assembly |-> l.assembly], r, {l})
    PROVE  D!Next
<1>1. r \in D!Answers(l.assembly, [kind |-> l.message])
  BY SameAnswers
<1>2. D!AssemblyZoneReady(l)
  BY <1>1, Zenon DEF D!AssemblyZoneReady
<1> QED BY <1>2, Zenon DEF D!Next

\* The front of the queue is committed.
LEMMA FrontStep ==
    ASSUME P!TypeInv, P!OrderInv, ReplyInv, OnceInv, D!Inv, CommitFront
    PROVE  D!Next /\ OnceInv'
<1> DEFINE b == Head(queue)
           e == b.event
           r == b.reply
           done == IF IsLifecycle(b) THEN {Lifecycle(b)} ELSE {}
<1>1. P!CommitFront /\ Sound(e, r)
  BY SameBrain, Zenon DEF CommitFront
<1>2. /\ todo = << >> /\ queue # << >> /\ ~b.pending /\ queue' = Tail(queue)
      /\ CommitsWith(e, r)
  BY <1>1 DEF P!CommitFront, P!IsComplete, CommitsWith
<1>3. queue \in Seq(P!Barrier)
  BY DEF P!TypeInv, P!TypeOK
<1>4. b \in P!Barrier /\ b = queue[1] /\ 1 \in DOMAIN queue
  BY <1>2, <1>3, TailMember
<1>5. e \in Event /\ r \in ZoneReply \cup {NoReply}
  BY <1>4 DEF P!Barrier
<1>6. BarrierRight(b)
  BY <1>4 DEF ReplyInv
<1>7. /\ b.tell = NoTell => r = NoReply
      /\ b.tell # NoTell => r \in ZoneReply
  BY <1>2, <1>4 DEF P!OrderInv, P!Answered
<1>8. D!CommitResolvedTurn(e, r, done) /\ OnceInv'
  <2>1. Sound(e, r) /\ CommitsWith(e, r)
    BY <1>1, <1>2
  <2> HIDE DEF e, r
  <2> QED BY <1>2, <1>5, <2>1, CommitResolves
<1>9. CASE IsLifecycle(b)
  <2> DEFINE l == Lifecycle(b)
  <2>1. PICK m \in {"BecomeOn", "BecomeOff"} : b.tell = Tell(e.assembly, [kind |-> m])
    BY <1>6, <1>9 DEF BarrierRight, AsksItsEvent, LifecycleTell
  <2>2. b.tell.zone = e.assembly /\ b.tell.message = [kind |-> m] /\ l.assembly = e.assembly /\ l.message = m
    BY <2>1 DEF Tell, Lifecycle
  <2>3. b.tell # NoTell
    BY <2>1 DEF Tell, NoTell
  <2>4. r \in AnswersOf(l.assembly, [kind |-> l.message])
    <3>1. r \in {NoReply} \cup AnswersOf(b.tell.zone, b.tell.message)
      BY <1>6, <2>3 DEF BarrierRight, AnsweredRight
    <3>2. r # NoReply
      BY <1>7, <2>3, ParametersFit
    <3> HIDE DEF r, l
    <3> QED BY <2>2, <3>1, <3>2
  <2>5. l \in OpenTurns
    BY <1>4, <1>9, OpenTurnsOf, InOpenOf
  <2>6. e = [kind |-> "AssemblyZoneReady", assembly |-> l.assembly]
    <3>1. e.kind = "AssemblyZoneReady"
      BY <1>9 DEF IsLifecycle
    <3> HIDE DEF e, l
    <3> QED BY <1>5, <2>2, <3>1 DEF Event, EventOver
  <2>7. done = {l}
    BY <1>9
  <2> HIDE DEF l, e, r, done
  <2> QED BY <1>8, <2>4, <2>5, <2>6, <2>7, LifecycleStep
<1>10. CASE ~IsLifecycle(b)
  <2>1. e.kind # "AssemblyZoneReady" /\ done = {}
    BY <1>10 DEF IsLifecycle
  <2>2. b.tell \in {NoTell, UserEventToZoneTell(e)}
    BY <1>6, <1>10 DEF BarrierRight, AsksItsEvent
  <2>3. b.tell # NoTell => r \in {NoReply} \cup AnswersOf(b.tell.zone, b.tell.message)
    BY <1>6 DEF BarrierRight, AnsweredRight
  <2> HIDE DEF e, r, done
  <2>4. r \in D!Replies(e)
    BY <1>7, <2>2, <2>3, SameNames, SameAnswers DEF D!Replies
  <2> QED BY <1>5, <1>8, <2>1, <2>4, EventStep
<1> QED BY <1>9, <1>10

\* What a twinlet says of its own accord is committed.
LEMMA SpontaneousStep ==
    ASSUME P!TypeInv, ReplyInv, OnceInv, D!Inv, HandleSpontaneous
    PROVE  D!Next /\ OnceInv'
<1> DEFINE m == Head(inbox)
           e == m.event
           r == m.reply
<1>1. P!HandleSpontaneous /\ Sound(e, r)
  BY SameBrain, Zenon DEF HandleSpontaneous
<1>2. todo = << >> /\ queue' = queue /\ CommitsWith(e, r)
  BY <1>1 DEF P!HandleSpontaneous, P!Receive, P!Idle, CommitsWith
<1>3. m.kind = "Spontaneous" /\ \E l \in DOMAIN inbox : m = inbox[l]
  BY <1>1, TakenInbox DEF P!HandleSpontaneous
<1>4. m \in P!SpontaneousMsg
  BY <1>1, Taken DEF P!HandleSpontaneous
<1>5. e \in SpontaneousEvent /\ e \in Event /\ r \in ZoneReply
  BY <1>4, ParametersFit DEF P!SpontaneousMsg
<1>6. /\ e.kind = "FrontHeadlampActuationIncomplete"
      /\ UserEventToZoneTell(e) = Tell("Headlamp", [kind |-> "ActuationIncomplete", direction |-> e.direction])
  BY <1>5 DEF SpontaneousEvent, UserEventToZoneTell
<1>7. MessageRight(m, queue, nextTurn)
  BY <1>3 DEF ReplyInv
<1>8. r \in AnswersOf("Headlamp", [kind |-> "ActuationIncomplete", direction |-> e.direction])
  BY <1>3, <1>7 DEF MessageRight
<1>9. D!CommitResolvedTurn(e, r, {}) /\ OnceInv'
  <2>1. Sound(e, r) /\ CommitsWith(e, r)
    BY <1>1, <1>2
  <2> HIDE DEF e, r
  <2> QED BY <1>2, <1>5, <2>1, CommitResolves
<1> HIDE DEF e, r
<1>10. r \in D!Replies(e)
  <2>1. UserEventToZoneTell(e) # NoTell
    BY <1>6 DEF Tell, NoTell
  <2>2. /\ UserEventToZoneTell(e).zone = "Headlamp"
        /\ UserEventToZoneTell(e).message = [kind |-> "ActuationIncomplete", direction |-> e.direction]
    BY <1>6 DEF Tell
  <2> QED BY <1>8, <2>1, <2>2, SameNames, SameAnswers DEF D!Replies
<1> QED BY <1>5, <1>6, <1>9, <1>10, EventStep


\* Everything the steps need.
TwinInv == CarInv /\ P!OrderInv /\ P!DeadlineInv /\ ReplyInv /\ OnceInv /\ D!Inv

\* A step of the running twin is one of DigitalTwin, or leaves it alone.
LEMMA TwinStep ==
    ASSUME TwinInv, [Next]_vars
    PROVE  [D!Next]_(D!vars) /\ OnceInv'
<1>1. P!TypeInv /\ P!OrderInv /\ ReplyInv /\ OnceInv /\ D!Inv
  BY DEF TwinInv, CarInv
<1>2. Alone => UNCHANGED D!vars
  BY DEF Alone, D!vars
<1>3. CASE Receive
  BY <1>1, <1>2, <1>3, ReceiveAlone, Zenon
<1>4. CASE HandleSpontaneous
  BY <1>1, <1>4, SpontaneousStep, Zenon
<1>5. CASE CommitFront
  BY <1>1, <1>5, FrontStep, Zenon
<1>6. CASE PerformOpen \/ PerformSend
  BY <1>1, <1>2, <1>6, PerformAlone, Zenon
<1>7. CASE Twinlets \/ Outside \/ UNCHANGED vars
  BY <1>1, <1>2, <1>7, OthersAlone, Zenon
<1> QED BY <1>3, <1>4, <1>5, <1>6, <1>7, Zenon DEF Next, Brain

\* The readings are of the bus's width.
LEMMA ReadingsFit == Rpm \subseteq D!U16 /\ 0 \in Rpm /\ Lux \subseteq D!U16 /\ 100 \in Lux
<1>1. D!U16 = U16
  BY DEF D!U16, U16
<1> QED BY <1>1, VirtualCarAssumption DEF VirtualCarAssumption

LEMMA TwinInit == Init => TwinInv /\ D!Init
<1> SUFFICES ASSUME Init PROVE TwinInv /\ D!Init
  OBVIOUS
<1>1. CarInv /\ P!Init
  BY CarInit
<1>2. queue = << >> /\ todo = << >> /\ twin = InitialTwin /\ buzzer = FALSE
  BY <1>1 DEF P!Init, Init
<1>3. DOMAIN << >> = {}
  OBVIOUS
<1>4. OnceInv /\ OpenTurns = {}
  <2>1. \A l : l \notin OpenOf(queue, todo)
    BY <1>2, <1>3, InOpenOf
  <2>2. OnceInv
    BY <1>2, <1>3 DEF OnceInv, OnceIn
  <2> QED BY <2>1, <2>2, OpenTurnsOf
<1>5. D!Init
  BY <1>2, <1>4, SameNames, Zenon DEF D!Init
<1>6. D!Inv
  BY <1>5, D!InitInv, ReadingsFit, Zenon
<1>7. P!OrderInv
  BY <1>1, P!InitOrder, ParametersFit, Zenon
<1>8. P!DeadlineInv
  BY <1>1, P!InitDeadline, ParametersFit, Zenon
<1> QED BY <1>1, <1>4, <1>5, <1>6, <1>7, <1>8, ReplyInit DEF TwinInv

LEMMA TwinNext == TwinInv /\ [Next]_vars => TwinInv' /\ [D!Next]_(D!vars)
<1> SUFFICES ASSUME TwinInv, [Next]_vars PROVE TwinInv' /\ [D!Next]_(D!vars)
  OBVIOUS
<1>1. CarInv /\ P!TypeInv /\ P!OrderInv /\ P!DeadlineInv /\ ZoneInv /\ AckInv /\ ReplyInv /\ D!Inv
  BY DEF TwinInv, CarInv
<1>2. CarInv' /\ [P!Next]_(P!vars)
  BY <1>1, CarNext
<1>3. P!OrderInv'
  BY <1>1, <1>2, P!NextOrder, ParametersFit, Zenon
<1>4. P!DeadlineInv'
  BY <1>1, <1>2, P!NextDeadline, ParametersFit, Zenon
<1>5. ReplyInv'
  BY <1>1, ReplyNext, Zenon
<1>6. [D!Next]_(D!vars) /\ OnceInv'
  BY TwinStep
<1>7. D!Inv'
  BY <1>1, <1>6, D!StepInv, ReadingsFit, Zenon
<1> QED BY <1>2, <1>3, <1>4, <1>5, <1>6, <1>7 DEF TwinInv

LEMMA TwinCorrect == Spec => []TwinInv
  BY TwinInit, TwinNext, PTL DEF Spec

-----------------------------------------------------------------------------
(* The theorems.                                                           *)

\* The running twin is a reorder buffer: brain, twinlets, timers and outside
\* do what ReorderBuffer allows them, with the real transition table and zone
\* handlers as its parameters.  What is proved of ReorderBuffer holds of it.
THEOREM IsReorderBuffer == Spec => P!Spec
  BY CarInit, CarCorrect, CarNext, PTL DEF Spec, P!Spec

\* The running twin answers every event in the order of arrival: its committed
\* states are those of a twin that handles one event at a time.
THEOREM CommitsInOrder == Spec => P!ImplementsSequentialTwin
<1>1. P!Spec => P!ImplementsSequentialTwin
  BY P!Refinement, ParametersFit, Zenon
<1> QED BY <1>1, IsReorderBuffer, PTL

\* No turn of the running twin waits for a zone without a deadline.
THEOREM NoTurnStranded == Spec => []P!NoOrphanBarrier
<1>1. P!Spec => []P!NoOrphanBarrier
  BY P!NoOrphan, ParametersFit, Zenon
<1> QED BY <1>1, IsReorderBuffer, PTL

\* The twinlets' copies, deadlines and histories hold what the code's types
\* allow, and a deadline waits behind no more tells than there are.
THEOREM TypeCorrect == Spec => []TypeOK
<1>1. CarInv => TypeOK
  <2> SUFFICES ASSUME CarInv PROVE TypeOK
    OBVIOUS
  <2>1. ZoneInv /\ AckInv /\ Histories /\ P!TypeInv
    BY DEF CarInv
  <2>2. zoneCtx \in [Assembly -> HeadlampState \cup WiperState]
    BY <2>1 DEF ZoneInv, StateOf
  <2>3. zoneCtx["Headlamp"] \in HeadlampState /\ zoneCtx["Wiper"] \in WiperState
    BY <2>1 DEF ZoneInv, StateOf, Assembly
  <2>4. ASSUME NEW i \in DOMAIN ackBox
        PROVE  ackBox[i].direction \in Direction /\ ackBox[i].ahead \in 0..Len(zoneBox["Headlamp"])
    <3>1. ackBox[i] \in Deadline /\ i \in 1..Len(ackBox)
      BY <2>1 DEF AckInv
    <3>2. ackBox[i].direction \in Direction /\ ackBox[i].ahead \in Int
      BY <3>1 DEF Deadline
    <3>3. Len(zoneBox["Headlamp"]) \in Nat
      BY <2>1 DEF P!TypeInv, P!TypeOK, Assembly
    <3> QED BY <2>1, <3>1, <3>2, <3>3 DEF AckInv
  <2> QED BY <2>1, <2>2, <2>3, <2>4 DEF TypeOK, AckInv, Histories
<1> QED BY <1>1, CarCorrect, PTL

\* A request the headlamp twinlet has in flight has a deadline to come in its
\* own direction (handle_apply, handle_ack_wait_elapsed), in every order of
\* tells, timers and late deadlines.
THEOREM DeadlineCorrect == Spec => []RequestHasDeadline
<1>1. CarInv => RequestHasDeadline
  BY DEF CarInv
<1> QED BY <1>1, CarCorrect, PTL

\* The running twin is DigitalTwin: its barriers, retries, late answers, made-up
\* replies and reports out of turn commit nothing that a twin which takes one
\* event at a time, with a reply of its zone or none, would not commit
\* (commit_resolved_turn, apply_committed_quiescence).
THEOREM TwinRefinement == Spec => ImplementsDigitalTwin
<1>1. D!Init <=> Committed!Init
  BY SameTwin
<1>2. [D!Next]_(D!vars) <=> [Committed!Next]_(Committed!vars)
  BY SameTwin, Zenon DEF D!vars, Committed!vars
<1>3. Init => Committed!Init
  BY <1>1, TwinInit
<1>4. TwinInv /\ [Next]_vars => [Committed!Next]_(Committed!vars)
  BY <1>2, TwinNext
<1> QED BY <1>3, <1>4, TwinCorrect, PTL DEF Spec, ImplementsDigitalTwin, Committed!Spec

\* The started car with nothing under way is a state of the invariant.
LEMMA TwinStarted == StartedInit => TwinInv
<1> SUFFICES ASSUME StartedInit PROVE TwinInv
  OBVIOUS
<1>1. /\ queue = << >> /\ todo = << >> /\ inbox = << >> /\ channel = << >>
      /\ zoneBox = [z \in Assembly |-> << >>] /\ timers = {}
      /\ nextTurn = 4 /\ committed = 3 /\ submitted = 1
      /\ zoneCtx = [z \in Assembly |-> "Ready"] /\ buzzer = FALSE /\ wiping = FALSE
  BY DEF StartedInit
<1>2. DOMAIN << >> = {}
  OBVIOUS
<1>3. /\ twin.mode = "Idle" /\ twin.remaining = {} /\ twin.rpm = 0 /\ twin.speed = 0
      /\ twin.lux = 100 /\ twin.headlamp = "Ready" /\ twin.wiper = "Ready"
  BY DEF StartedInit, InitialTwin
<1>4. twin \in Twin
  BY VirtualCarAssumption DEF VirtualCarAssumption, StartedInit, InitialTwin, Twin, TwinOver, Mode,
                              HeadlampState, WiperState
<1>5. P!TypeInv
  BY <1>1, <1>2, <1>4 DEF P!TypeInv, P!TypeOK, P!Budget, P!Turn
<1>6. P!OrderInv
  BY <1>1, <1>2 DEF P!OrderInv, P!InOrder, P!Answered
<1>7. P!DeadlineInv
  BY <1>1, <1>2 DEF P!DeadlineInv, P!NoOrphanBarrier, P!DeadlineIsCurrent, P!OneDeadline, P!DeadlineOpened
<1>8. CarInv
  <2>1. ZoneInv
    BY <1>1, <1>2 DEF ZoneInv, StateOf, HeadlampState, WiperState
  <2>2. ackHeld = "None" /\ ackLoose = [d \in Direction |-> 0] /\ ackBox = << >>
    BY DEF StartedInit
  <2>3. Len(ackBox) = 0 /\ ackBox \in Seq(Deadline)
    BY <2>2
  <2>4. AckInv
    BY <2>2, <2>3 DEF AckInv
  <2>5. RequestHasDeadline
    BY <1>1 DEF RequestHasDeadline, InFlight, Assembly
  <2> QED BY <1>1, <1>5, <2>1, <2>4, <2>5 DEF CarInv, Histories
<1>9. ReplyInv
  BY <1>1, <1>2 DEF ReplyInv
<1>10. OnceInv /\ OpenTurns = {}
  <2>1. \A l : l \notin OpenOf(queue, todo)
    BY <1>1, <1>2, InOpenOf
  <2>2. OnceInv
    BY <1>1, <1>2 DEF OnceInv, OnceIn
  <2> QED BY <2>1, <2>2, OpenTurnsOf
<1>11. D!Inv
  <2>1. D!TypeOK
    <3>1. (twin.remaining # {}) = FALSE
      BY <1>3
    <3>2. (twin.mode \in D!Preparing) = FALSE
      BY <1>3 DEF D!Preparing
    <3>3. twin \in D!TwinOver(Rpm, Lux)
      BY <1>4 DEF Twin, TwinOver, D!TwinOver, Mode, D!Mode, HeadlampState, D!HeadlampState,
                  WiperState, D!WiperState, Assembly, D!Assembly, SpeedFromRpm, D!SpeedFromRpm
    <3> QED BY <1>1, <1>10, <3>1, <3>2, <3>3 DEF D!TypeOK
  <2>2. D!CountdownIsOpenTurns
    BY <1>3, <1>10 DEF D!CountdownIsOpenTurns
  <2>3. D!QuiescentAfterCommit /\ D!DangerIsReal /\ D!DrivingMoves
    BY <1>3 DEF D!QuiescentAfterCommit, D!LightingUnsafe, D!DangerIsReal, D!DrivingMoves
  <2>4. (twin.mode \in D!Alarm) = FALSE
    BY <1>3 DEF D!Alarm
  <2>5. D!BuzzerSoundsInAlarm
    BY <1>1, <2>4 DEF D!BuzzerSoundsInAlarm
  <2> QED BY <2>1, <2>2, <2>3, <2>5 DEF D!Inv
<1> QED BY <1>6, <1>7, <1>8, <1>9, <1>10, <1>11 DEF TwinInv

\* The same of the car that has been started: its commits are those of
\* DigitalTwin too.
THEOREM CommitsCorrect == StartedSpec => CommitsAsDigitalTwin
<1>1. TwinInv /\ [Next]_vars => [Committed!Next]_<<twin, OpenTurns, buzzer>>
  BY SameTwin, TwinNext, Zenon DEF D!vars
<1>2. StartedSpec => []TwinInv
  BY TwinStarted, TwinNext, PTL DEF StartedSpec
<1> QED BY <1>1, <1>2, PTL DEF StartedSpec, CommitsAsDigitalTwin

\* What DigitalTwin promises of its states holds while the brain, the twinlets
\* and the timers interleave: the countdown of a startup or shutdown names the
\* lifecycle turns that are queued or still to be opened, no commit leaves the
\* car driving unlit without the alarm, the alarm has its cause, and the buzzer
\* sounds in it.
THEOREM SafeTwin ==
    Spec => [](/\ Committed!CountdownIsOpenTurns
               /\ Committed!QuiescentAfterCommit
               /\ Committed!DangerIsReal
               /\ Committed!BuzzerSoundsInAlarm)
<1>1. D!Inv => /\ Committed!CountdownIsOpenTurns
               /\ Committed!QuiescentAfterCommit
               /\ Committed!DangerIsReal
               /\ Committed!BuzzerSoundsInAlarm
  <2> SUFFICES ASSUME D!Inv
               PROVE  /\ Committed!CountdownIsOpenTurns
                      /\ Committed!QuiescentAfterCommit
                      /\ Committed!DangerIsReal
                      /\ Committed!BuzzerSoundsInAlarm
    OBVIOUS
  <2>1. Committed!CountdownIsOpenTurns
    BY SameNames, Zenon DEF D!Inv, D!CountdownIsOpenTurns, Committed!CountdownIsOpenTurns
  <2>2. Committed!QuiescentAfterCommit
    BY Zenon DEF D!Inv, D!QuiescentAfterCommit, Committed!QuiescentAfterCommit,
                 D!LightingUnsafe, Committed!LightingUnsafe,
                 D!LUX_ON_THRESHOLD, Committed!LUX_ON_THRESHOLD
  <2>3. Committed!DangerIsReal
    BY Zenon DEF D!Inv, D!DangerIsReal, Committed!DangerIsReal, D!Stationary, Committed!Stationary,
                 D!LUX_ON_THRESHOLD, Committed!LUX_ON_THRESHOLD
  <2>4. Committed!BuzzerSoundsInAlarm
    BY Zenon DEF D!Inv, D!BuzzerSoundsInAlarm, Committed!BuzzerSoundsInAlarm, D!Alarm, Committed!Alarm
  <2> QED BY <2>1, <2>2, <2>3, <2>4
<1>2. TwinInv => D!Inv
  BY DEF TwinInv
<1> QED BY <1>1, <1>2, TwinCorrect, PTL
=============================================================================
