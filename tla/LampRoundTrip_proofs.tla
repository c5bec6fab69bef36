------------------------ MODULE LampRoundTrip_proofs ------------------------
(***************************************************************************)
(* Theorems about LampRoundTrip, for every budget of retries, all readings *)
(* and all bounds: what the twinlet believes of the lamp is what it heard  *)
(* last, and what it hears is true of the lamp or overtaken.               *)
(***************************************************************************)
EXTENDS LampRoundTrip, HeadlampActuation_proofs

-----------------------------------------------------------------------------
(* The way to the lamp is that of HeadlampActuation.                       *)

\* Every step is one of HeadlampActuation, or leaves its variables alone.
LEMMA NextActuates == [RoundTripNext]_allVars => [Next]_vars
<1> SUFFICES ASSUME [RoundTripNext]_allVars PROVE [Next]_vars
  OBVIOUS
<1>1. ASSUME NEW lux \in Lux, LuxReading(lux) PROVE [Next]_vars
  BY <1>1 DEF LuxReading
<1>2. CASE TakeResponse
  BY <1>2 DEF TakeResponse, Next
<1>3. CASE PowerOn \/ PowerOff
  BY <1>3 DEF PowerOn, PowerOff, Lifecycle
<1>4. CASE AssembliesReady
  BY <1>4 DEF AssembliesReady
<1>5. ASSUME NEW i \in DOMAIN backlog, Retell(i) \/ GiveUp(i) PROVE [Next]_vars
  BY <1>5 DEF Retell, GiveUp
<1>6. CASE CommitFront
  BY <1>6 DEF CommitFront, Next, Direction
<1>7. CASE HeadlampApply
  BY <1>7 DEF HeadlampApply
<1>8. ASSUME NEW direction \in Direction, AckWaitElapsed(direction) PROVE [Next]_vars
  BY <1>8 DEF AckWaitElapsed
<1>9. CASE LampOnCommandSent \/ LampWriteCommandFrame \/ LampReadCommand
  BY <1>9 DEF LampOnCommandSent, LampWriteCommandFrame, LampReadCommand, Next
<1>10. CASE LampCarryOut \/ LampRefuse \/ LampRestartActuator
  BY <1>10 DEF LampCarryOut, LampRefuse, LampRestartActuator, Respond, Next
<1>11. CASE LampOnResponse \/ LampRestartGateway
  BY <1>11 DEF LampOnResponse, LampRestartGateway, Next
<1>12. CASE UNCHANGED allVars
  BY <1>12 DEF allVars
<1> QED BY <1>1, <1>2, <1>3, <1>4, <1>5, <1>6, <1>7, <1>8, <1>9, <1>10, <1>11, <1>12
        DEF RoundTripNext

\* What is proved of the way to the lamp holds under the twinlet.
THEOREM IsActuation == RoundTripSpec => Spec
<1>1. RoundTripInit => Init
  BY DEF RoundTripInit
<1> QED BY <1>1, NextActuates, PTL DEF RoundTripSpec, Spec

-----------------------------------------------------------------------------
(* The zone handler.                                                       *)

LampState == Zone!HeadlampState
Outcomes  == Zone!AtMostOne(Zone!HeadlampOutcome)
Lit(lamp) == lamp \in {"On", "OffRequested"}

\* The handler answers with a state of the lamp; only acknowledgements and
\* the lifecycle change whether it is believed lit.
LEMMA Answer ==
    ASSUME NEW lamp \in LampState, NEW m \in Message
    PROVE  LET reply == Zone!HeadlampOnMessage(lamp, m)
           IN  /\ reply.ctx \in LampState
               /\ reply.outcomes \in Outcomes
               /\ m.kind = "AckOn" => Lit(reply.ctx)
               /\ m.kind \in {"AckOff", "BecomeOn", "BecomeOff"} => ~Lit(reply.ctx)
               /\ m.kind \notin {"AckOn", "AckOff", "BecomeOn", "BecomeOff"} =>
                     (Lit(reply.ctx) <=> Lit(lamp))
<1> USE DEF LampState, Outcomes
<1>1. << >> \in Outcomes /\ <<"RequestOn">> \in Outcomes /\ <<"RequestOff">> \in Outcomes
  BY DEF Zone!AtMostOne, Zone!HeadlampOutcome
<1> DEFINE Same(r) == r.ctx \in LampState /\ r.outcomes \in Outcomes /\ (Lit(r.ctx) <=> Lit(lamp))
<1>2. \A d \in {"On", "Off"} : Same(Zone!RecoverIncomplete(lamp, d))
  BY <1>1 DEF Zone!RecoverIncomplete, Zone!LampReply, Zone!InFlight, Zone!HeadlampState, Lit
<1>3. \A lux : Same(Zone!EvaluateLux(lamp, lux))
  BY <1>1 DEF Zone!EvaluateLux, Zone!LampReply, Zone!HeadlampState, Lit
<1>4. Same(Zone!LampReply(lamp, << >>))
  BY <1>1 DEF Zone!LampReply
<1>5. m.kind \in {"BecomeOn", "BecomeOff", "AckOn", "AckOff", "AmbientLux", "ActuationIncomplete",
                  "TimerTick"}
  BY DEF Message, Zone!HeadlampMessage
<1>6. CASE m.kind \in {"BecomeOn", "BecomeOff", "AckOn", "AckOff"}
  <2> DEFINE l == CASE m.kind = "AckOn" -> "On" [] m.kind = "BecomeOff" -> "Off" [] OTHER -> "Ready"
  <2>1. Zone!HeadlampOnMessage(lamp, m) = [zone |-> "Headlamp", ctx |-> l, outcomes |-> << >>]
    BY <1>6 DEF Zone!HeadlampOnMessage, Zone!LampReply
  <2>2. l \in LampState /\ (Lit(l) <=> m.kind = "AckOn")
    BY <1>6 DEF Zone!HeadlampState, Lit
  <2> HIDE DEF l
  <2>3. CASE m.kind = "AckOn"
    BY <1>1, <2>1, <2>2, <2>3 DEF Lit
  <2>4. CASE m.kind \in {"AckOff", "BecomeOn", "BecomeOff"}
    BY <1>1, <2>1, <2>2, <2>4 DEF Lit
  <2> QED BY <1>6, <2>3, <2>4
<1>7. CASE m.kind \in {"AmbientLux", "ActuationIncomplete", "TimerTick"}
  <2>1. m.kind = "ActuationIncomplete" => m.direction \in {"On", "Off"}
    BY DEF Message, Zone!HeadlampMessage, Zone!Direction
  <2>2. Zone!InFlight(lamp) # "None" => Zone!InFlight(lamp) \in {"On", "Off"}
    BY DEF Zone!InFlight
  <2> HIDE DEF Same
  <2>3. Same(Zone!HeadlampOnMessage(lamp, m))
    BY <1>2, <1>3, <1>4, <1>7, <2>1, <2>2 DEF Zone!HeadlampOnMessage
  <2> QED BY <1>7, <2>3 DEF Same
<1> QED BY <1>5, <1>6, <1>7

-----------------------------------------------------------------------------
(* The invariant: types, what turns and tells of an acknowledgement are    *)
(* about, and what the twinlet has heard.                                  *)

\* An acknowledgement is told with the command it is for, and they agree.
AckFits(t) ==
    /\ t.message.kind = "AckOn"  => t.about \in Command /\ t.about.direction = "On"
    /\ t.message.kind = "AckOff" => t.about \in Command /\ t.about.direction = "Off"

FitBarrier == {b \in Barrier : AckFits(b) /\ (b.told => b.attempt + b.retries = MaxRetries)}
FitTell    == {t \in ZoneTell : AckFits(t)}

QueuesInv == backlog \in Seq(FitBarrier) /\ zoneBox \in Seq(FitTell)

PlainTypes ==
    /\ phase \in Phase
    /\ nextTurn \in Nat
    /\ retells \in 0..MaxRetells
    /\ undisturbed \in BOOLEAN

\* A response is about a command of its direction.
AboutInv ==
    /\ about \in Seq(Command) /\ Len(about) = Len(ingress)
    /\ \A i \in 1..Len(ingress) : ingress[i].direction = about[i].direction

\* The lamp is as the last command carried out left it, and the twinlet
\* believes what it heard last.
BeliefInv ==
    /\ ctx \in LampState
    /\ done \in Command \cup {Nothing}
    /\ heard \in Command \cup {Nothing}
    /\ (lit = "On" <=> done # Nothing /\ done.direction = "On")
    /\ (Lit(ctx) <=> heard # Nothing /\ heard.direction = "On")

TripInv == TypeOK /\ QueuesInv /\ PlainTypes /\ AboutInv /\ BeliefInv

LEMMA NothingElse == \A c \in Command : c # Nothing /\ c.direction \in {"On", "Off"}
  BY NothingAssumption DEF Command, Direction

LEMMA TripTypes == TripInv => RoundTripTypeOK
<1> SUFFICES ASSUME TripInv PROVE RoundTripTypeOK
  OBVIOUS
<1>1. /\ backlog \in Seq(Barrier) /\ zoneBox \in Seq(ZoneTell)
      /\ \A i \in 1..Len(backlog) :
            backlog[i].told => backlog[i].attempt + backlog[i].retries = MaxRetries
  <2>1. FitBarrier \subseteq Barrier /\ FitTell \subseteq ZoneTell
    BY DEF FitBarrier, FitTell
  <2>2. \A i \in 1..Len(backlog) : backlog[i] \in FitBarrier
    BY DEF TripInv, QueuesInv
  <2> QED BY <2>1, <2>2 DEF TripInv, QueuesInv, FitBarrier
<1> QED BY <1>1 DEF TripInv, RoundTripTypeOK, QueuesInv, PlainTypes, AboutInv, BeliefInv, LampState

LEMMA TripInit == RoundTripInit => TripInv
<1> SUFFICES ASSUME RoundTripInit PROVE TripInv
  OBVIOUS
<1>1. TypeOK /\ ingress = << >> /\ lit = "Off"
  BY TypeInit DEF RoundTripInit, Init
<1>2. QueuesInv /\ PlainTypes
  BY RoundTripAssumption DEF RoundTripInit, QueuesInv, PlainTypes, Phase
<1>3. AboutInv
  BY <1>1 DEF RoundTripInit, AboutInv
<1>4. BeliefInv
  BY <1>1 DEF RoundTripInit, BeliefInv, LampState, Zone!HeadlampState, Lit
<1> QED BY <1>1, <1>2, <1>3, <1>4 DEF TripInv

-----------------------------------------------------------------------------
(* The queues.                                                             *)

LEMMA Replaced ==
    ASSUME NEW S, NEW s \in Seq(S), NEW i \in 1..Len(s), NEW e \in S
    PROVE  /\ [s EXCEPT ![i] = e] \in Seq(S)
           /\ Len([s EXCEPT ![i] = e]) = Len(s)
           /\ \A j \in 1..Len(s) : [s EXCEPT ![i] = e][j] = IF j = i THEN e ELSE s[j]
  OBVIOUS

\* A new turn, told or not, fits if its message fits the command it is about.
LEMMA RoutedFits ==
    ASSUME QueuesInv, nextTurn \in Nat, NEW m \in Message, NEW c \in Command \cup {Nothing},
           AckFits([message |-> m, about |-> c]), Told(m, c) \/ NotTold(m, c)
    PROVE  QueuesInv'
<1>1. CASE Told(m, c)
  <2> DEFINE b == [turn |-> nextTurn, told |-> TRUE, message |-> m, about |-> c,
                   attempt |-> 0, retries |-> MaxRetries, reply |-> Nothing]
             t == [turn |-> nextTurn, attempt |-> 0, message |-> m, about |-> c]
  <2>1. b \in FitBarrier
    BY RoundTripAssumption DEF FitBarrier, Barrier, AckFits
  <2>2. t \in FitTell
    BY RoundTripAssumption DEF FitTell, ZoneTell, AckFits
  <2>3. backlog' = Append(backlog, b) /\ zoneBox' = Append(zoneBox, t)
    BY <1>1 DEF Told
  <2> HIDE DEF b, t
  <2> QED BY <2>1, <2>2, <2>3 DEF QueuesInv
<1>2. CASE NotTold(m, c)
  <2>1. PICK lamp \in LampState :
           backlog' = Append(backlog, [turn |-> nextTurn, told |-> FALSE, message |-> m,
                                       about |-> c, attempt |-> 0, retries |-> 0,
                                       reply |-> Zone!HeadlampOnMessage(lamp, m).outcomes])
    BY <1>2 DEF NotTold, LampState
  <2> DEFINE o == Zone!HeadlampOnMessage(lamp, m).outcomes
             b == [turn |-> nextTurn, told |-> FALSE, message |-> m, about |-> c,
                   attempt |-> 0, retries |-> 0, reply |-> o]
  <2>2. o \in Outcomes
    BY Answer
  <2> HIDE DEF o
  <2>3. b \in FitBarrier
    BY <2>2, RoundTripAssumption DEF FitBarrier, Barrier, AckFits, Outcomes
  <2>4. backlog' = Append(backlog, b) /\ zoneBox' = zoneBox
    BY <1>2, <2>1 DEF NotTold, o
  <2> HIDE DEF b
  <2> QED BY <2>3, <2>4 DEF QueuesInv
<1> QED BY <1>1, <1>2

LEMMA RetoldBarrier ==
    ASSUME NEW b \in Barrier
    PROVE  [b EXCEPT !.attempt = @ + 1, !.retries = @ - 1] =
              [turn |-> b.turn, told |-> b.told, message |-> b.message, about |-> b.about,
               attempt |-> b.attempt + 1, retries |-> b.retries - 1, reply |-> b.reply]
<1> DEFINE a == [b EXCEPT !.attempt = b.attempt + 1]
<1>1. a = [turn |-> b.turn, told |-> b.told, message |-> b.message, about |-> b.about,
           attempt |-> b.attempt + 1, retries |-> b.retries, reply |-> b.reply]
  BY DEF Barrier
<1>2. [b EXCEPT !.attempt = @ + 1, !.retries = @ - 1] = [a EXCEPT !.retries = @ - 1]
  BY DEF Barrier
<1> HIDE DEF a
<1> QED BY <1>1, <1>2

LEMMA RetoldAbout ==
    ASSUME NEW b \in Barrier
    PROVE  [b EXCEPT !.attempt = @ + 1, !.retries = @ - 1].about = b.about
  BY RetoldBarrier

\* A turn that is told again is about what it was, and so is the tell.
LEMMA RetoldFits ==
    ASSUME QueuesInv, NEW i \in DOMAIN backlog, Retell(i)
    PROVE  QueuesInv'
<1> DEFINE o == backlog[i]
           b == [turn |-> o.turn, told |-> o.told, message |-> o.message, about |-> o.about,
                 attempt |-> o.attempt + 1, retries |-> o.retries - 1, reply |-> o.reply]
           t == [turn |-> o.turn, attempt |-> o.attempt + 1, message |-> o.message,
                 about |-> o.about]
<1>1. i \in 1..Len(backlog) /\ o \in FitBarrier
  BY DEF QueuesInv
<1>2. o.told /\ o.retries > 0
  BY DEF Retell, RetellDue
<1>3. backlog' = [backlog EXCEPT ![i] = b] /\ zoneBox' = Append(zoneBox, t)
  <2>1. o \in Barrier
    BY <1>1 DEF FitBarrier
  <2>2. [o EXCEPT !.attempt = @ + 1, !.retries = @ - 1] = b
    BY <2>1, RetoldBarrier
  <2>3. [backlog EXCEPT ![i].attempt = @ + 1, ![i].retries = @ - 1]
          = [backlog EXCEPT ![i] = [o EXCEPT !.attempt = @ + 1, !.retries = @ - 1]]
    BY <1>1 DEF QueuesInv
  <2>4. backlog' = [backlog EXCEPT ![i].attempt = @ + 1, ![i].retries = @ - 1]
        /\ zoneBox' = Append(zoneBox, t)
    BY DEF Retell
  <2> HIDE DEF b, t, o
  <2> QED BY <2>2, <2>3, <2>4
<1>4. o.attempt + 1 \in 0..MaxRetries /\ o.retries - 1 \in 0..MaxRetries
      /\ o.attempt + 1 + (o.retries - 1) = MaxRetries
  BY <1>1, <1>2, RoundTripAssumption DEF FitBarrier, Barrier
<1>5. b \in FitBarrier
  BY <1>1, <1>4 DEF FitBarrier, Barrier, AckFits
<1>6. t \in FitTell
  BY <1>1, <1>4 DEF FitBarrier, Barrier, FitTell, ZoneTell, AckFits
<1> HIDE DEF o, b, t
<1> QED BY <1>1, <1>3, <1>5, <1>6, Replaced DEF QueuesInv

\* A reply that is stored leaves the rest of its turn as it was.
LEMMA ReplyFits ==
    ASSUME NEW b \in FitBarrier, NEW r \in Outcomes
    PROVE  [b EXCEPT !.reply = r] \in FitBarrier
<1>1. b \in Barrier
  BY DEF FitBarrier
<1>2. [b EXCEPT !.reply = r] =
         [turn |-> b.turn, told |-> b.told, message |-> b.message, about |-> b.about,
          attempt |-> b.attempt, retries |-> b.retries, reply |-> r]
  BY <1>1 DEF Barrier
<1> QED BY <1>1, <1>2 DEF FitBarrier, Barrier, AckFits, Outcomes

LEMMA NoOutcome == << >> \in Outcomes
  BY DEF Outcomes, Zone!AtMostOne

LEMMA AnsweredFits ==
    ASSUME QueuesInv, NEW tell, NEW r \in Outcomes
    PROVE  Answered(tell, r) \in Seq(FitBarrier) /\ Len(Answered(tell, r)) = Len(backlog)
           /\ \A i \in 1..Len(backlog) : Answered(tell, r)[i].about = backlog[i].about
<1> DEFINE s == Answered(tell, r)
<1>1. \A i \in 1..Len(backlog) :
         backlog[i] \in FitBarrier /\ s[i] \in {backlog[i], [backlog[i] EXCEPT !.reply = r]}
  BY DEF QueuesInv, Answered
<1>2. \A i \in 1..Len(backlog) : s[i] \in FitBarrier /\ s[i].about = backlog[i].about
  BY <1>1, ReplyFits DEF FitBarrier, Barrier
<1>3. s = [i \in 1..Len(backlog) |-> s[i]] /\ Len(backlog) \in Nat
  BY DEF QueuesInv, Answered
<1> HIDE DEF s
<1>4. s \in Seq(FitBarrier) /\ Len(s) = Len(backlog)
  BY <1>2, <1>3
<1> QED BY <1>2, <1>4 DEF s

\* The response at the head of the queue becomes a message that fits the
\* command it is about.
LEMMA ResponseFits ==
    ASSUME TripInv, ingress # << >>
    PROVE  LET r == Head(ingress)
               c == IF r.confirmed THEN Head(about) ELSE Nothing
           IN  /\ c \in Command \cup {Nothing}
               /\ MessageOf(r) \in Message
               /\ AckFits([message |-> MessageOf(r), about |-> c])
<1> DEFINE r == Head(ingress)
<1>1. r = ingress[1] /\ r \in Response /\ 1 \in 1..Len(ingress)
  BY DEF TripInv, TypeOK
<1>2. Head(about) = about[1] /\ about[1] \in Command /\ about # << >>
  BY <1>1 DEF TripInv, AboutInv
<1>3. r.direction = Head(about).direction /\ r.direction \in {"On", "Off"}
  BY <1>1, <1>2 DEF TripInv, AboutInv, Response, Direction
<1> HIDE DEF r
<1>4. MessageOf(r) \in Message
  BY <1>3 DEF MessageOf, Message, Zone!HeadlampMessage, Zone!Direction
<1>5. MessageOf(r).kind = "AckOn" => r.confirmed /\ r.direction = "On"
  BY DEF MessageOf
<1>6. MessageOf(r).kind = "AckOff" => r.confirmed /\ r.direction = "Off"
  BY <1>3 DEF MessageOf
<1> QED BY <1>2, <1>3, <1>4, <1>5, <1>6 DEF AckFits, r

LEMMA QueuesStep == TripInv /\ [RoundTripNext]_allVars => QueuesInv'
<1> SUFFICES ASSUME TripInv, [RoundTripNext]_allVars PROVE QueuesInv'
  OBVIOUS
<1>a. QueuesInv /\ nextTurn \in Nat
  BY DEF TripInv, PlainTypes
<1>b. ASSUME UNCHANGED <<backlog, zoneBox>> PROVE QueuesInv'
  BY <1>a, <1>b DEF QueuesInv
<1>1. ASSUME NEW lux \in Lux, LuxReading(lux) PROVE QueuesInv'
  <2> DEFINE m == [kind |-> "AmbientLux", lux |-> lux]
  <2>1. m \in Message /\ AckFits([message |-> m, about |-> Nothing])
    BY DEF Message, Zone!HeadlampMessage, AckFits
  <2>2. Told(m, Nothing) \/ NotTold(m, Nothing)
    BY <1>1 DEF LuxReading, Routed
  <2> HIDE DEF m
  <2> QED BY <1>a, <2>1, <2>2, RoutedFits
<1>2. CASE TakeResponse
  <2> DEFINE r == Head(ingress)
             c == IF r.confirmed THEN Head(about) ELSE Nothing
  <2>1. /\ c \in Command \cup {Nothing} /\ MessageOf(r) \in Message
        /\ AckFits([message |-> MessageOf(r), about |-> c])
    BY <1>2, ResponseFits DEF TakeResponse, Dispatch
  <2>2. Told(MessageOf(r), c) \/ NotTold(MessageOf(r), c)
    BY <1>2 DEF TakeResponse, Routed
  <2> HIDE DEF r, c
  <2> QED BY <1>a, <2>1, <2>2, RoutedFits
<1>3. CASE PowerOn \/ PowerOff
  <2>1. PICK kind \in {"BecomeOn", "BecomeOff"} : Told([kind |-> kind], Nothing)
    BY <1>3 DEF PowerOn, PowerOff, Lifecycle
  <2>2. [kind |-> kind] \in Message
    BY DEF Message, Zone!HeadlampMessage
  <2>3. AckFits([message |-> [kind |-> kind], about |-> Nothing])
    BY DEF AckFits
  <2> QED BY <1>a, <2>1, <2>2, <2>3, RoutedFits
<1>4. ASSUME NEW i \in DOMAIN backlog, Retell(i) PROVE QueuesInv'
  BY <1>a, <1>4, RetoldFits
<1>5. ASSUME NEW i \in DOMAIN backlog, GiveUp(i) PROVE QueuesInv'
  <2> DEFINE b == [backlog[i] EXCEPT !.reply = << >>]
  <2>1. i \in 1..Len(backlog) /\ backlog[i] \in FitBarrier
    BY <1>a DEF QueuesInv
  <2>2. b \in FitBarrier
    BY <2>1, ReplyFits, NoOutcome
  <2>3. backlog' = [backlog EXCEPT ![i] = b] /\ zoneBox' = zoneBox
    BY <1>5, <2>1 DEF GiveUp, QueuesInv
  <2> HIDE DEF b
  <2> QED BY <1>a, <2>1, <2>2, <2>3, Replaced DEF QueuesInv
<1>6. CASE CommitFront
  <2>1. backlog # << >> /\ backlog' = Tail(backlog) /\ zoneBox' = zoneBox
    BY <1>6 DEF CommitFront, CommitDue
  <2> QED BY <1>a, <2>1, TailFrames DEF QueuesInv
<1>7. CASE HeadlampApply
  <2> DEFINE tell == Head(zoneBox)
             o    == Zone!HeadlampOnMessage(ctx, tell.message).outcomes
  <2>1. zoneBox # << >> /\ zoneBox' = Tail(zoneBox)
        /\ (backlog' = Answered(tell, o) \/ backlog' = backlog)
    BY <1>7 DEF HeadlampApply
  <2>2. tell \in FitTell /\ Tail(zoneBox) \in Seq(FitTell)
    BY <1>a, <2>1, TailFrames DEF QueuesInv
  <2>3. o \in Outcomes
    BY <2>2, Answer DEF FitTell, ZoneTell, TripInv, BeliefInv
  <2> HIDE DEF tell, o
  <2> QED BY <1>a, <2>1, <2>2, <2>3, AnsweredFits DEF QueuesInv
<1>8. CASE LampRestartGateway
  BY <1>8 DEF LampRestartGateway, QueuesInv
<1>9. CASE AssembliesReady \/ (\E direction \in Direction : AckWaitElapsed(direction))
  BY <1>9, <1>b DEF AssembliesReady, AckWaitElapsed
<1>10. CASE LampOnCommandSent \/ LampWriteCommandFrame \/ LampReadCommand \/ LampCarryOut
              \/ LampRefuse \/ LampRestartActuator \/ LampOnResponse
  BY <1>10, <1>b DEF LampOnCommandSent, LampWriteCommandFrame, LampReadCommand, LampCarryOut,
     LampRefuse, LampRestartActuator, LampOnResponse, brainVars
<1>11. CASE UNCHANGED allVars
  BY <1>11, <1>b DEF allVars, brainVars
<1> QED BY <1>1, <1>2, <1>3, <1>4, <1>5, <1>6, <1>7, <1>8, <1>9, <1>10, <1>11 DEF RoundTripNext

LEMMA PlainStep == TripInv /\ [RoundTripNext]_allVars => PlainTypes'
<1> SUFFICES ASSUME PlainTypes, [RoundTripNext]_allVars PROVE PlainTypes'
  BY DEF TripInv
<1> USE DEF PlainTypes
<1>1. ASSUME NEW lux \in Lux, LuxReading(lux) PROVE PlainTypes'
  BY <1>1 DEF LuxReading, NewTurn, historyVars
<1>2. CASE TakeResponse
  BY <1>2 DEF TakeResponse, NewTurn
<1>3. CASE PowerOn \/ PowerOff
  BY <1>3 DEF PowerOn, PowerOff, Lifecycle, NewTurn, Phase, historyVars
<1>4. CASE AssembliesReady
  BY <1>4 DEF AssembliesReady, Phase, historyVars
<1>5. ASSUME NEW i \in DOMAIN backlog, Retell(i) PROVE PlainTypes'
  BY <1>5, RoundTripAssumption DEF Retell, RetellDue
<1>6. ASSUME NEW i \in DOMAIN backlog, GiveUp(i) PROVE PlainTypes'
  BY <1>6 DEF GiveUp, historyVars
<1>7. CASE CommitFront
  BY <1>7 DEF CommitFront, historyVars
<1>8. CASE HeadlampApply
  BY <1>8 DEF HeadlampApply
<1>9. ASSUME NEW direction \in Direction, AckWaitElapsed(direction) PROVE PlainTypes'
  BY <1>9 DEF AckWaitElapsed, historyVars
<1>10. CASE LampOnCommandSent \/ LampReadCommand \/ LampOnResponse
  BY <1>10 DEF LampOnCommandSent, LampReadCommand, LampOnResponse, brainVars, historyVars
<1>11. CASE LampWriteCommandFrame \/ LampCarryOut \/ LampRefuse \/ LampRestartActuator
  BY <1>11 DEF LampWriteCommandFrame, LampCarryOut, LampRefuse, LampRestartActuator, CommandFails,
     brainVars
<1>12. CASE LampRestartGateway
  BY <1>12 DEF LampRestartGateway, Phase
<1>13. CASE UNCHANGED allVars
  BY <1>13 DEF allVars, brainVars, historyVars
<1> QED BY <1>1, <1>2, <1>3, <1>4, <1>5, <1>6, <1>7, <1>8, <1>9, <1>10, <1>11, <1>12, <1>13
        DEF RoundTripNext

\* The responses of the queue and the commands they are about.
LEMMA AboutStep == TripInv /\ [RoundTripNext]_allVars => AboutInv'
<1> SUFFICES ASSUME TripInv, [RoundTripNext]_allVars PROVE AboutInv'
  OBVIOUS
<1>a. AboutInv /\ TypeOK
  BY DEF TripInv
<1>b. ASSUME UNCHANGED <<ingress, about>> PROVE AboutInv'
  BY <1>a, <1>b DEF AboutInv
<1>c. ASSUME ingress' = ingress, UNCHANGED historyVars PROVE AboutInv'
  BY <1>c, <1>b DEF historyVars
<1>1. ASSUME NEW lux \in Lux, LuxReading(lux) PROVE AboutInv'
  BY <1>1, <1>c DEF LuxReading, vars
<1>2. CASE TakeResponse
  <2>1. ingress # << >> /\ ingress' = Tail(ingress) /\ about' = Tail(about)
    BY <1>2 DEF TakeResponse, Dispatch
  <2>2. about # << >>
    BY <1>a, <2>1 DEF AboutInv, TypeOK
  <2> QED BY <1>a, <2>1, <2>2, TailFrames DEF AboutInv, TypeOK
<1>3. CASE PowerOn \/ PowerOff \/ AssembliesReady
  BY <1>3, <1>c DEF PowerOn, PowerOff, Lifecycle, AssembliesReady, vars
<1>4. ASSUME NEW i \in DOMAIN backlog, Retell(i) \/ GiveUp(i) PROVE AboutInv'
  BY <1>4, <1>b DEF Retell, GiveUp, vars, historyVars
<1>5. CASE CommitFront
  BY <1>5, <1>c DEF CommitFront, Execute, vars
<1>6. CASE HeadlampApply
  BY <1>6, <1>b DEF HeadlampApply, vars
<1>7. ASSUME NEW direction \in Direction, AckWaitElapsed(direction) PROVE AboutInv'
  BY <1>7, <1>c DEF AckWaitElapsed, vars
<1>8. CASE LampOnCommandSent \/ LampReadCommand
  BY <1>8, <1>c DEF LampOnCommandSent, OnCommandSent, LampReadCommand, ReadCommand
<1>9. CASE LampWriteCommandFrame \/ LampCarryOut \/ LampRefuse \/ LampRestartActuator
  BY <1>9, <1>b DEF LampWriteCommandFrame, WriteCommandFrame, LampCarryOut, CarryOut, LampRefuse,
     Refuse, LampRestartActuator, RestartActuator
<1>10. CASE LampOnResponse
  <2> DEFINE f == Head(toGateway)
             r == [direction |-> pending.direction, confirmed |-> f.kind = "ACK"]
  <2>1. CASE Answers(f)
    <3>1. f \in Frame /\ f.command \in Command
      <4>1. f \in Frame
        BY <1>10, <1>a, TailFrames DEF LampOnResponse, OnResponse, TypeOK
      <4> HIDE DEF f
      <4> QED BY <4>1 DEF Frame
    <3>2. r.direction = f.command.direction
      BY <2>1 DEF Answers
    <3>3. ingress' = Append(ingress, r) /\ about' = Append(about, f.command)
      BY <1>10, <2>1, Zenon DEF LampOnResponse, OnResponse, Accept
    <3>4. ingress \in Seq(Response)
      BY <1>a DEF TypeOK
    <3> HIDE DEF f, r
    <3>5. /\ Len(ingress') = Len(ingress) + 1 /\ Len(about') = Len(about) + 1
          /\ about' \in Seq(Command)
          /\ \A i \in 1..Len(ingress) : ingress'[i] = ingress[i] /\ about'[i] = about[i]
          /\ ingress'[Len(ingress) + 1] = r /\ about'[Len(ingress) + 1] = f.command
      BY <1>a, <3>1, <3>3, <3>4 DEF AboutInv
    <3>6. ASSUME NEW i \in 1..Len(ingress') PROVE ingress'[i].direction = about'[i].direction
      <4>1. i \in 1..Len(ingress) \/ i = Len(ingress) + 1
        BY <3>4, <3>5
      <4> QED BY <1>a, <3>2, <3>5, <4>1 DEF AboutInv
    <3> QED BY <1>a, <3>4, <3>5, <3>6 DEF AboutInv
  <2>2. CASE ~Answers(f)
    BY <1>10, <1>b, <2>2 DEF LampOnResponse, OnResponse
  <2> QED BY <2>1, <2>2
<1>11. CASE LampRestartGateway
  BY <1>11 DEF LampRestartGateway, RestartGateway, AboutInv
<1>12. CASE UNCHANGED allVars
  BY <1>12, <1>b DEF allVars, vars, historyVars
<1> QED BY <1>1, <1>2, <1>3, <1>4, <1>5, <1>6, <1>7, <1>8, <1>9, <1>10, <1>11, <1>12
        DEF RoundTripNext

\* Only acknowledgements, the lifecycle and the lamp itself change what is
\* believed and what is so.
LEMMA BeliefStep == TripInv /\ [RoundTripNext]_allVars => BeliefInv'
<1> SUFFICES ASSUME TripInv, [RoundTripNext]_allVars PROVE BeliefInv'
  OBVIOUS
<1>a. BeliefInv /\ TypeOK
  BY DEF TripInv
<1>b. ASSUME UNCHANGED <<ctx, done, heard, lit>> PROVE BeliefInv'
  BY <1>a, <1>b DEF BeliefInv
<1>1. ASSUME NEW lux \in Lux, LuxReading(lux) PROVE BeliefInv'
  BY <1>1, <1>b DEF LuxReading, vars, actuatorVars, historyVars
<1>2. CASE TakeResponse
  BY <1>2, <1>b DEF TakeResponse, Dispatch, actuatorVars
<1>3. CASE PowerOn \/ PowerOff \/ AssembliesReady
  BY <1>3, <1>b DEF PowerOn, PowerOff, Lifecycle, AssembliesReady, vars, actuatorVars, historyVars
<1>4. ASSUME NEW i \in DOMAIN backlog, Retell(i) \/ GiveUp(i) PROVE BeliefInv'
  BY <1>4, <1>b DEF Retell, GiveUp, vars, actuatorVars, historyVars
<1>5. CASE CommitFront
  BY <1>5, <1>b DEF CommitFront, Execute, vars, actuatorVars, historyVars
<1>6. CASE HeadlampApply
  <2> DEFINE tell  == Head(zoneBox)
             lamp  == Zone!HeadlampOnMessage(ctx, tell.message).ctx
             givenUp == tell.message.kind \in {"BecomeOn", "BecomeOff"} /\ BelievedLit
  <2>1. /\ ctx' = lamp
        /\ heard' = CASE tell.message.kind \in {"AckOn", "AckOff"} -> tell.about
                      [] givenUp -> Nothing
                      [] OTHER -> heard
        /\ UNCHANGED <<lit, done>>
    BY <1>6 DEF HeadlampApply, vars, actuatorVars
  <2>2. tell \in FitTell /\ tell.message \in Message
    BY <1>6, TailFrames DEF HeadlampApply, TripInv, QueuesInv, FitTell, ZoneTell
  <2>3. /\ lamp \in LampState
        /\ tell.message.kind = "AckOn" => Lit(lamp)
        /\ tell.message.kind \in {"AckOff", "BecomeOn", "BecomeOff"} => ~Lit(lamp)
        /\ tell.message.kind \notin {"AckOn", "AckOff", "BecomeOn", "BecomeOff"} =>
              (Lit(lamp) <=> Lit(ctx))
    BY <1>a, <2>2, Answer DEF BeliefInv
  <2>4. BelievedLit <=> Lit(ctx)
    BY DEF BelievedLit, Lit
  <2> HIDE DEF lamp, tell
  <2>5. CASE tell.message.kind \in {"AckOn", "AckOff"}
    <3>1. heard' = tell.about /\ tell.about \in Command
          /\ tell.about.direction = IF tell.message.kind = "AckOn" THEN "On" ELSE "Off"
      BY <2>1, <2>2, <2>5 DEF FitTell, AckFits
    <3> QED BY <1>a, <2>1, <2>3, <2>5, <3>1, NothingElse DEF BeliefInv, Lit
  <2>6. CASE tell.message.kind \in {"BecomeOn", "BecomeOff"}
    <3>1. heard' = IF Lit(ctx) THEN Nothing ELSE heard
      BY <2>1, <2>4, <2>6
    <3> QED BY <1>a, <2>1, <2>3, <2>6, <3>1 DEF BeliefInv, Lit
  <2>7. CASE tell.message.kind \notin {"AckOn", "AckOff", "BecomeOn", "BecomeOff"}
    <3>1. heard' = heard
      BY <2>1, <2>7
    <3> QED BY <1>a, <2>1, <2>3, <2>7, <3>1 DEF BeliefInv, Lit
  <2> QED BY <2>5, <2>6, <2>7
<1>7. ASSUME NEW direction \in Direction, AckWaitElapsed(direction) PROVE BeliefInv'
  <2>1. UNCHANGED <<lit, done, heard>>
    BY <1>7 DEF AckWaitElapsed, vars, actuatorVars, historyVars
  <2>2. ctx' \in LampState /\ (Lit(ctx') <=> Lit(ctx))
    BY <1>7 DEF AckWaitElapsed, Zone!RecoverIncomplete, Zone!LampReply, Zone!InFlight, LampState,
       Zone!HeadlampState, Lit, Direction
  <2> QED BY <1>a, <2>1, <2>2 DEF BeliefInv, Lit
<1>8. CASE LampOnCommandSent \/ LampReadCommand \/ LampWriteCommandFrame
  BY <1>8, <1>b DEF LampOnCommandSent, OnCommandSent, LampReadCommand, ReadCommand,
     LampWriteCommandFrame, WriteCommandFrame, actuatorVars, brainVars, historyVars
<1>9. CASE LampRefuse \/ LampRestartActuator \/ LampOnResponse
  BY <1>9, <1>b DEF LampRefuse, Refuse, LampRestartActuator, RestartActuator, LampOnResponse,
     OnResponse, actuatorVars, brainVars
<1>10. CASE LampCarryOut
  <2>1. /\ done' = working /\ lit' = working.direction /\ working \in Command
        /\ UNCHANGED <<ctx, heard>>
    BY <1>a, <1>10 DEF LampCarryOut, CarryOut, TypeOK, brainVars
  <2> QED BY <1>a, <2>1, NothingElse DEF BeliefInv, Lit
<1>11. CASE LampRestartGateway
  <2>1. ctx' = "Off" /\ heard' = Nothing /\ UNCHANGED <<lit, done>>
    BY <1>11 DEF LampRestartGateway, RestartGateway, actuatorVars
  <2> QED BY <1>a, <2>1 DEF BeliefInv, Lit, LampState, Zone!HeadlampState
<1>12. CASE UNCHANGED allVars
  BY <1>12, <1>b DEF allVars, vars, actuatorVars, brainVars, historyVars
<1> QED BY <1>1, <1>2, <1>3, <1>4, <1>5, <1>6, <1>7, <1>8, <1>9, <1>10, <1>11, <1>12
        DEF RoundTripNext

\* The invariant holds in every behaviour.
LEMMA TripCorrect == RoundTripSpec => []TripInv
<1>1. TripInv /\ [RoundTripNext]_allVars => TripInv'
  BY TypeStep, NextActuates, QueuesStep, PlainStep, AboutStep, BeliefStep DEF TripInv
<1> QED BY <1>1, TripInit, PTL DEF RoundTripSpec

\* The variables hold what the code's types allow, for any budget of retries,
\* and a turn's attempts and retries left add up to it.
THEOREM RoundTripTypes == RoundTripSpec => []RoundTripTypeOK
  BY TripCorrect, TripTypes, PTL

\* A twinlet whose last confirmation is that of the command last carried out
\* (HeadlampContext against the lamp) is right about the lamp.
THEOREM HeardCorrect == RoundTripSpec => []HeardLampIsBelieved
<1>1. TripInv => HeardLampIsBelieved
  <2> SUFFICES ASSUME TripInv, heard = done PROVE BelievedLit <=> lit = "On"
    BY DEF HeardLampIsBelieved, BelievedLit
  <2> QED BY DEF TripInv, BeliefInv, BelievedLit, Lit
<1> QED BY <1>1, TripCorrect, PTL

-----------------------------------------------------------------------------
(* A confirmation on its way to the twinlet is true of the lamp, or a newer*)
(* command has gone out.                                                   *)

\* Command c is confirmed by a response, a turn or a tell on its way.
Carried(c) ==
    \/ \E i \in 1..Len(ingress) : ingress[i].confirmed /\ about[i] = c
    \/ \E i \in 1..Len(backlog) : backlog[i].about = c
    \/ \E i \in 1..Len(zoneBox) : zoneBox[i].about = c

\* The lamp is as the last command recorded wants it, and nothing older can
\* change it any more.
Settled ==
    /\ publishing = Nothing
    /\ lit = latest.direction
    /\ working \in {Nothing, latest}
    /\ \A i \in 1..Len(toActuator) : toActuator[i].command = latest

CarriedInv ==
    \A c \in Command : Carried(c) => c \in issued /\ (c = latest => Settled)

\* A new turn carries the command it is about, and no other that was not
\* carried before.
LEMMA RoutedCarries ==
    ASSUME QueuesInv, NEW m, NEW c, Told(m, c) \/ NotTold(m, c)
    PROVE  /\ \A i \in 1..Len(backlog') :
                 backlog'[i].about = c \/ \E j \in 1..Len(backlog) : backlog'[i].about = backlog[j].about
           /\ \A i \in 1..Len(zoneBox') :
                 zoneBox'[i].about = c \/ \E j \in 1..Len(zoneBox) : zoneBox'[i].about = zoneBox[j].about
<1>1. PICK b : b.about = c /\ backlog' = Append(backlog, b)
  BY DEF Told, NotTold
<1>2. zoneBox' = zoneBox \/ \E t : t.about = c /\ zoneBox' = Append(zoneBox, t)
  BY DEF Told, NotTold
<1>3. \A i \in 1..Len(backlog') :
         backlog'[i].about = c \/ \E j \in 1..Len(backlog) : backlog'[i].about = backlog[j].about
  <2> SUFFICES ASSUME NEW i \in 1..Len(backlog')
               PROVE  backlog'[i] = b \/ (i \in 1..Len(backlog) /\ backlog'[i] = backlog[i])
    BY <1>1
  <2> QED BY <1>1 DEF QueuesInv
<1>4. ASSUME NEW t, t.about = c, zoneBox' = Append(zoneBox, t)
      PROVE  \A i \in 1..Len(zoneBox') :
                zoneBox'[i].about = c \/ \E j \in 1..Len(zoneBox) : zoneBox'[i].about = zoneBox[j].about
  <2> SUFFICES ASSUME NEW i \in 1..Len(zoneBox')
               PROVE  zoneBox'[i] = t \/ (i \in 1..Len(zoneBox) /\ zoneBox'[i] = zoneBox[i])
    BY <1>4
  <2> QED BY <1>4 DEF QueuesInv
<1> QED BY <1>2, <1>3, <1>4

\* Nothing but a response that is let in makes a command carried.
LEMMA CarriedBefore ==
    ASSUME TripInv, [RoundTripNext]_allVars, ~LampOnResponse, NEW c \in Command, Carried(c)'
    PROVE  Carried(c)
<1>a. /\ QueuesInv /\ c # Nothing
  BY NothingAssumption DEF TripInv
<1>b. ASSUME UNCHANGED <<ingress, about, backlog, zoneBox>> PROVE Carried(c)
  BY <1>b DEF Carried
<1>1. ASSUME NEW lux \in Lux, LuxReading(lux) PROVE Carried(c)
  <2>1. PICK m : Told(m, Nothing) \/ NotTold(m, Nothing)
    BY <1>1 DEF LuxReading, Routed
  <2>2. UNCHANGED <<ingress, about>>
    BY <1>1 DEF LuxReading, vars, historyVars
  <2> QED BY <1>a, <2>1, <2>2, RoutedCarries DEF Carried
<1>2. CASE TakeResponse
  <2> DEFINE r == Head(ingress)
             d == IF r.confirmed THEN Head(about) ELSE Nothing
  <2>1. Told(MessageOf(r), d) \/ NotTold(MessageOf(r), d)
    BY <1>2 DEF TakeResponse, Routed
  <2>2. ingress # << >> /\ ingress' = Tail(ingress) /\ about' = Tail(about)
    BY <1>2 DEF TakeResponse, Dispatch
  <2>3. r = ingress[1] /\ Head(about) = about[1] /\ 1 \in 1..Len(ingress)
        /\ \A i \in 1..Len(ingress') :
              ingress'[i] = ingress[i + 1] /\ about'[i] = about[i + 1] /\ i + 1 \in 1..Len(ingress)
    <3>1. about # << >> /\ about \in Seq(Command) /\ ingress \in Seq(Response)
          /\ Len(about) = Len(ingress)
      BY <2>2 DEF TripInv, AboutInv, TypeOK
    <3> QED BY <2>2, <3>1, TailFrames
  <2>4. d = c => ingress[1].confirmed /\ about[1] = c
    BY <1>a, <2>3
  <2> HIDE DEF r, d
  <2> QED BY <1>a, <2>1, <2>3, <2>4, RoutedCarries DEF Carried
<1>3. CASE PowerOn \/ PowerOff
  <2>1. PICK m : Told(m, Nothing) \/ NotTold(m, Nothing)
    BY <1>3 DEF PowerOn, PowerOff, Lifecycle
  <2>2. UNCHANGED <<ingress, about>>
    BY <1>3 DEF PowerOn, PowerOff, Lifecycle, vars, historyVars
  <2> QED BY <1>a, <2>1, <2>2, RoutedCarries DEF Carried
<1>4. ASSUME NEW i \in DOMAIN backlog, Retell(i) PROVE Carried(c)
  <2> DEFINE t == [turn |-> backlog[i].turn, attempt |-> backlog[i].attempt + 1,
                   message |-> backlog[i].message, about |-> backlog[i].about]
  <2>1. /\ zoneBox' = Append(zoneBox, t) /\ t.about = backlog[i].about /\ i \in 1..Len(backlog)
        /\ UNCHANGED <<ingress, about>>
    BY <1>a, <1>4 DEF Retell, vars, QueuesInv
  <2>2. \A j \in 1..Len(backlog') : j \in 1..Len(backlog) /\ backlog'[j].about = backlog[j].about
    <3>1. backlog' = [backlog EXCEPT ![i].attempt = @ + 1, ![i].retries = @ - 1]
      BY <1>4 DEF Retell
    <3>2. \A j \in 1..Len(backlog) : backlog[j] \in Barrier
      BY <1>a DEF QueuesInv, FitBarrier
    <3>3. [backlog[i] EXCEPT !.attempt = @ + 1, !.retries = @ - 1].about = backlog[i].about
      BY <2>1, <3>2, RetoldAbout
    <3>4. Len(backlog') = Len(backlog)
          /\ \A j \in 1..Len(backlog) :
                backlog'[j] = IF j = i THEN [backlog[i] EXCEPT !.attempt = @ + 1, !.retries = @ - 1]
                              ELSE backlog[j]
      BY <1>a, <2>1, <3>1 DEF QueuesInv
    <3> QED BY <3>3, <3>4
  <2> HIDE DEF t
  <2>3. \A j \in 1..Len(zoneBox') : zoneBox'[j] = t \/ (j \in 1..Len(zoneBox) /\ zoneBox'[j] = zoneBox[j])
    BY <1>a, <2>1 DEF QueuesInv
  <2> QED BY <2>1, <2>2, <2>3 DEF Carried
<1>5. ASSUME NEW i \in DOMAIN backlog, GiveUp(i) PROVE Carried(c)
  <2>1. \A j \in 1..Len(backlog') : j \in 1..Len(backlog) /\ backlog'[j].about = backlog[j].about
    <3>1. \A j \in 1..Len(backlog) : backlog[j] \in Barrier
      BY <1>a DEF QueuesInv, FitBarrier
    <3> QED BY <1>a, <1>5, <3>1 DEF GiveUp, QueuesInv, Barrier
  <2> QED BY <1>5, <2>1 DEF GiveUp, vars, historyVars, Carried
<1>6. CASE CommitFront
  <2>1. backlog # << >> /\ backlog' = Tail(backlog) /\ UNCHANGED <<ingress, about, zoneBox>>
    BY <1>6 DEF CommitFront, CommitDue, Execute, vars, historyVars
  <2> QED BY <1>a, <2>1, TailFrames DEF QueuesInv, Carried
<1>7. CASE HeadlampApply
  <2> DEFINE tell == Head(zoneBox)
             o    == Zone!HeadlampOnMessage(ctx, tell.message).outcomes
  <2>1. zoneBox # << >> /\ zoneBox' = Tail(zoneBox) /\ UNCHANGED <<ingress, about>>
        /\ (backlog' = Answered(tell, o) \/ backlog' = backlog)
    BY <1>7 DEF HeadlampApply, vars
  <2>2. tell \in FitTell
        /\ \A j \in 1..Len(zoneBox') : zoneBox'[j] = zoneBox[j + 1] /\ j + 1 \in 1..Len(zoneBox)
    BY <1>a, <2>1, TailFrames DEF QueuesInv
  <2>3. o \in Outcomes
    BY <2>2, Answer DEF FitTell, ZoneTell, TripInv, BeliefInv
  <2> HIDE DEF tell, o
  <2>4. \A j \in 1..Len(backlog') : j \in 1..Len(backlog) /\ backlog'[j].about = backlog[j].about
    BY <1>a, <2>1, <2>3, AnsweredFits
  <2> QED BY <2>1, <2>2, <2>4 DEF Carried
<1>8. CASE LampRestartGateway
  BY <1>8 DEF LampRestartGateway, RestartGateway, Carried
<1>9. CASE AssembliesReady \/ (\E direction \in Direction : AckWaitElapsed(direction))
  BY <1>9, <1>b DEF AssembliesReady, AckWaitElapsed, vars, historyVars
<1>10. CASE LampOnCommandSent \/ LampWriteCommandFrame \/ LampReadCommand
  BY <1>10, <1>b DEF LampOnCommandSent, OnCommandSent, LampWriteCommandFrame, WriteCommandFrame,
     LampReadCommand, ReadCommand, brainVars, historyVars
<1>11. CASE LampCarryOut \/ LampRefuse \/ LampRestartActuator
  BY <1>11, <1>b DEF LampCarryOut, CarryOut, LampRefuse, Refuse, LampRestartActuator,
     RestartActuator, brainVars, historyVars
<1>12. CASE UNCHANGED allVars
  BY <1>12, <1>b DEF allVars, vars, brainVars, historyVars
<1> QED BY <1>1, <1>2, <1>3, <1>4, <1>5, <1>6, <1>7, <1>8, <1>9, <1>10, <1>11, <1>12
        DEF RoundTripNext

\* The command recorded last changes only to one never recorded before.
LEMMA LatestIsFresh ==
    ASSUME OrderInv, [Next]_vars
    PROVE  issued \subseteq issued' /\ (latest' = latest \/ latest' = Nothing \/ latest' \notin issued)
<1>1. CASE OnCommandSent
  <2>1. Head(channel) = channel[1] /\ 1 \in 1..Len(channel)
    BY <1>1, TailFrames DEF OnCommandSent, OrderInv, TypeOK
  <2>2. channel[1] \notin issued
    <3> SUFFICES ASSUME channel[1] \in issued PROVE FALSE
      OBVIOUS
    <3>1. channel[1].sequence < channel[1].sequence /\ channel[1] \in Command
      BY <2>1 DEF OrderInv, FreshInv, TypeOK
    <3> QED BY <3>1 DEF Command
  <2> QED BY <1>1, <2>1, <2>2 DEF OnCommandSent
<1>2. CASE UNCHANGED policyVars
  BY <1>2 DEF policyVars
<1>3. CASE ~OnCommandSent
  BY <1>2, <1>3 DEF Next, Execute, WriteCommandFrame, ReadCommand, Respond, CarryOut, Refuse,
     RestartActuator, OnResponse, Dispatch, RestartGateway, vars, policyVars
<1> QED BY <1>1, <1>3

\* While no newer command is recorded, a settled lamp stays as it is.
LEMMA SettledStep ==
    ASSUME OrderInv, [Next]_vars, Settled, latest # Nothing, latest' = latest
    PROVE  Settled'
<1>a. /\ publishing = Nothing /\ lit = latest.direction
      /\ working \in {Nothing, latest}
      /\ \A i \in 1..Len(toActuator) : toActuator[i].command = latest
      /\ toActuator \in Seq(Frame)
  BY DEF Settled, OrderInv, TypeOK
<1>1. CASE OnCommandSent
  <2>1. latest \in issued /\ Head(channel) = channel[1] /\ 1 \in 1..Len(channel)
    BY <1>1, TailFrames DEF OnCommandSent, OrderInv, KnownInv, TypeOK
  <2>2. latest = channel[1] /\ latest \in Command
    BY <1>1, <2>1 DEF OnCommandSent, OrderInv, TypeOK
  <2>3. latest.sequence < latest.sequence
    BY <2>1, <2>2 DEF OrderInv, FreshInv
  <2> QED BY <2>2, <2>3 DEF Command
<1>2. CASE WriteCommandFrame \/ RestartGateway
  BY <1>a, <1>2 DEF WriteCommandFrame, RestartGateway
<1>3. CASE ReadCommand
  <2>1. Head(toActuator) = toActuator[1] /\ 1 \in 1..Len(toActuator)
        /\ \A i \in 1..Len(Tail(toActuator)) :
              Tail(toActuator)[i] = toActuator[i + 1] /\ i + 1 \in 1..Len(toActuator)
    BY <1>a, <1>3, TailFrames DEF ReadCommand
  <2> QED BY <1>a, <1>3, <2>1 DEF ReadCommand, policyVars, Settled
<1>4. CASE Respond
  BY <1>a, <1>4 DEF Respond, CarryOut, Refuse, policyVars, Settled
<1>5. CASE RestartActuator
  BY <1>a, <1>5 DEF RestartActuator, policyVars, Settled
<1>6. CASE UNCHANGED <<publishing, lit, working, toActuator>>
  BY <1>a, <1>6 DEF Settled
<1>7. CASE OnResponse \/ Dispatch \/ (\E direction \in Direction : Execute(direction))
           \/ UNCHANGED vars
  BY <1>6, <1>7 DEF OnResponse, Dispatch, Execute, vars, policyVars, actuatorVars
<1> QED BY <1>1, <1>2, <1>3, <1>4, <1>5, <1>7 DEF Next

LEMMA CarriedStep ==
    TripInv /\ OrderInv /\ CarriedInv /\ [RoundTripNext]_allVars => CarriedInv'
<1> SUFFICES ASSUME TripInv, OrderInv, CarriedInv, [RoundTripNext]_allVars,
                    NEW c \in Command, Carried(c)'
             PROVE  c \in issued' /\ (c = latest' => Settled')
  BY DEF CarriedInv
<1>a. c # Nothing /\ [Next]_vars
  BY NextActuates, NothingAssumption
<1>1. ASSUME c \in issued, c = latest => Settled
      PROVE  c \in issued' /\ (c = latest' => Settled')
  BY <1>1, <1>a, LatestIsFresh, SettledStep
<1>2. CASE ~LampOnResponse
  <2>1. Carried(c)
    BY <1>2, CarriedBefore
  <2> QED BY <1>1, <2>1 DEF CarriedInv
<1>3. CASE LampOnResponse
  <2> DEFINE f == Head(toGateway)
  <2>1. CASE Carried(c)
    BY <1>1, <2>1 DEF CarriedInv
  <2>2. CASE ~Carried(c)
    <3>1. UNCHANGED <<backlog, zoneBox>>
      BY <1>3 DEF LampOnResponse, brainVars
    <3>2. f = toGateway[1] /\ 1 \in 1..Len(toGateway)
      BY <1>3, TailFrames DEF LampOnResponse, OnResponse, OrderInv, TypeOK
    <3>3. Answers(f)
      BY <1>3, <2>2, <3>1 DEF LampOnResponse, OnResponse, Carried
    <3>4. f.kind = "ACK" /\ f.command = c
      <4> DEFINE r == [direction |-> pending.direction, confirmed |-> f.kind = "ACK"]
      <4>1. ingress' = Append(ingress, r) /\ about' = Append(about, f.command)
        BY <1>3, <3>3, Zenon DEF LampOnResponse, OnResponse, Accept
      <4>2. r.confirmed <=> f.kind = "ACK"
        OBVIOUS
      <4>3. ingress \in Seq(Response) /\ about \in Seq(Command) /\ Len(about) = Len(ingress)
        BY DEF TripInv, AboutInv, TypeOK
      <4> HIDE DEF r, f
      <4>4. /\ Len(ingress') = Len(ingress) + 1
            /\ \A i \in 1..Len(ingress) : ingress'[i] = ingress[i] /\ about'[i] = about[i]
            /\ ingress'[Len(ingress) + 1] = r /\ about'[Len(ingress) + 1] = f.command
        BY <4>1, <4>3
      <4>5. PICK i \in 1..Len(ingress') : ingress'[i].confirmed /\ about'[i] = c
        BY <2>2, <3>1 DEF Carried
      <4>6. i \in 1..Len(ingress) \/ i = Len(ingress) + 1
        BY <4>3, <4>4
      <4> QED BY <2>2, <4>2, <4>4, <4>5, <4>6 DEF Carried
    <3>5. c \in issued
      BY <3>2, <3>4 DEF OrderInv, KnownInv
    <3>6. c = latest => Settled
      BY <3>2, <3>4 DEF OrderInv, LastInv, ConfirmedAt, Settled
    <3> QED BY <1>1, <3>5, <3>6
  <2> QED BY <2>1, <2>2
<1> QED BY <1>2, <1>3

LEMMA CarriedCorrect == RoundTripSpec => []CarriedInv
<1>1. RoundTripInit => CarriedInv
  BY DEF RoundTripInit, Init, CarriedInv, Carried
<1>2. RoundTripSpec => []OrderInv
  BY IsActuation, OrderCorrect, PTL
<1> QED BY <1>1, <1>2, TripCorrect, CarriedStep, PTL DEF RoundTripSpec

\* When the twinlet takes the confirmation of the command sent last
\* (handle_apply of an acknowledgement), it is true of the lamp.
THEOREM ConfirmationCorrect == RoundTripSpec => ConfirmationTrueOrOvertaken
<1>1. ASSUME TripInv, CarriedInv, HeadlampApply, Head(zoneBox).about # Nothing
      PROVE  lit = Head(zoneBox).about.direction \/ Head(zoneBox).about # latest
  <2>1. Head(zoneBox) = zoneBox[1] /\ 1 \in 1..Len(zoneBox) /\ zoneBox[1] \in FitTell
    BY <1>1, TailFrames DEF HeadlampApply, TripInv, QueuesInv
  <2>2. zoneBox[1].about \in Command
    BY <1>1, <2>1 DEF FitTell, ZoneTell
  <2> QED BY <1>1, <2>1, <2>2 DEF CarriedInv, Carried, Settled
<1>2. TripInv /\ CarriedInv =>
         [HeadlampApply /\ Head(zoneBox).about # Nothing
            => \/ lit = Head(zoneBox).about.direction
               \/ Head(zoneBox).about # latest]_allVars
  BY <1>1
<1> QED BY <1>2, TripCorrect, CarriedCorrect, PTL DEF ConfirmationTrueOrOvertaken
-----------------------------------------------------------------------------
(* What the twinlet knows once all is quiet.  While nothing has disturbed  *)
(* it, the commands of the one session are carried out in the order of     *)
(* their numbers, the last one sent is not overtaken, and confirmations    *)
(* reach the twinlet in that order, each once.                             *)

\* The place of a command among those of its session.
Num(c) == IF c = Nothing THEN 0 ELSE c.sequence

\* A command is on its way to the lamp.
Underway == publishing # Nothing \/ working # Nothing \/ toActuator # << >>

\* Commands are numbered from 1, and the last one recorded has the greatest
\* number.
NumbersInv ==
    /\ nextSequence >= 1
    /\ \A i \in 1..Len(channel) : Num(channel[i]) >= 1
    /\ \A c \in issued : c.session = session /\ 1 <= Num(c) /\ Num(c) <= Num(latest)
    /\ done \in issued \cup {Nothing}
    /\ heard \in issued \cup {Nothing}

\* Commands are carried out in their order, and if one is under way, the last
\* one recorded is the last of them.
OutwardInv ==
    /\ working # Nothing =>
          /\ Num(done) <= Num(working)
          /\ \A i \in 1..Len(toActuator) : Num(working) <= Num(toActuator[i].command)
    /\ \A i \in 1..Len(toActuator) : Num(done) <= Num(toActuator[i].command)
    /\ \A i, j \in 1..Len(toActuator) :
          i <= j => Num(toActuator[i].command) <= Num(toActuator[j].command)
    /\ publishing = Nothing =>
          /\ toActuator # << >> => toActuator[Len(toActuator)].command = latest
          /\ toActuator = << >> /\ working # Nothing => working = latest

\* Only acknowledgements confirm, and they wait in the order of the commands,
\* behind what the twinlet has heard and up to what the lamp has done.
ToldInv ==
    /\ \A i \in 1..Len(zoneBox) : zoneBox[i].about # Nothing =>
          /\ zoneBox[i].message.kind \in {"AckOn", "AckOff"}
          /\ Num(heard) < Num(zoneBox[i].about)
          /\ Num(zoneBox[i].about) <= Num(done)
    /\ \A i, j \in 1..Len(zoneBox) :
          i < j /\ zoneBox[i].about # Nothing /\ zoneBox[j].about # Nothing =>
             Num(zoneBox[i].about) < Num(zoneBox[j].about)

\* Those that wait for the brain come after them.
DueInv ==
    /\ \A i \in 1..Len(ingress) : ingress[i].confirmed =>
          /\ Num(heard) < Num(about[i])
          /\ Num(about[i]) <= Num(done)
    /\ \A i, j \in 1..Len(ingress) :
          i < j /\ ingress[i].confirmed /\ ingress[j].confirmed => Num(about[i]) < Num(about[j])
    /\ \A i \in 1..Len(zoneBox), j \in 1..Len(ingress) :
          zoneBox[i].about # Nothing /\ ingress[j].confirmed => Num(zoneBox[i].about) < Num(about[j])

\* The confirmation of command c is accepted and on its way to the twinlet.
AcceptedIn(responses, commands, tells, c) ==
    \/ \E i \in 1..Len(responses) : responses[i].confirmed /\ commands[i] = c
    \/ \E i \in 1..Len(tells) : tells[i].about = c

Accepted(c) == AcceptedIn(ingress, about, zoneBox, c)

FrameIn(frames, kind, c) == \E i \in 1..Len(frames) : frames[i].kind = kind /\ frames[i].command = c

InGateway(kind, c) == FrameIn(toGateway, kind, c)

\* A confirmation is of what is done.  While a command is pending none of it
\* has been accepted; if it is refused, or no longer pending and not
\* confirmed, then nothing is under way.
ReturnInv ==
    /\ \A i \in 1..Len(toGateway) :
          toGateway[i].kind = "ACK" => Num(toGateway[i].command) <= Num(done)
    /\ pending # Nothing => latest # heard /\ ~Accepted(latest)
    /\ publishing # Nothing =>
          /\ pending # Nothing
          /\ \A i \in 1..Len(toGateway) : toGateway[i].command # latest
    /\ InGateway("NACK", latest) => ~Underway
    /\ pending = Nothing /\ latest # Nothing => Accepted(latest) \/ heard = latest \/ ~Underway

\* What the lamp has done and the twinlet has not heard: more is under way, or
\* the confirmation is accepted, or will be.
Confirming ==
    /\ done = latest /\ pending # Nothing
    /\ InGateway("ACK", latest) /\ ~InGateway("NACK", latest)

UnheardInv == heard # done => done # Nothing /\ (Underway \/ Accepted(done) \/ Confirming)

KnowsInv ==
    undisturbed =>
       /\ NumbersInv /\ OutwardInv
       /\ WireIdsDiffer => ToldInv /\ DueInv /\ ReturnInv /\ UnheardInv

LEMMA QuietKnows == TypeOK /\ KnowsInv => UndisturbedTwinKnows
<1> SUFFICES ASSUME TypeOK, KnowsInv, Quiet, undisturbed, WireIdsDiffer PROVE heard = done
  BY DEF UndisturbedTwinKnows
<1>1. UnheardInv
  BY DEF KnowsInv
<1>2. ~Underway
  BY DEF Quiet, Underway
<1>3. ~Accepted(done) /\ ~Confirming
  BY DEF Quiet, Accepted, AcceptedIn, Confirming, InGateway, FrameIn
<1> QED BY <1>1, <1>2, <1>3 DEF UnheardInv

LEMMA KnowsAtFirst == RoundTripInit => KnowsInv
<1> SUFFICES ASSUME RoundTripInit PROVE KnowsInv
  OBVIOUS
<1>1. /\ channel = << >> /\ publishing = Nothing /\ working = Nothing /\ toActuator = << >>
      /\ toGateway = << >> /\ ingress = << >> /\ zoneBox = << >> /\ issued = {}
      /\ nextSequence = 1 /\ pending = Nothing /\ latest = Nothing /\ done = Nothing /\ heard = Nothing
  BY DEF RoundTripInit, Init
<1>2. NumbersInv
  BY <1>1 DEF NumbersInv
<1>3. OutwardInv
  BY <1>1 DEF OutwardInv
<1>4. ToldInv /\ DueInv
  BY <1>1 DEF ToldInv, DueInv
<1>5. ReturnInv /\ UnheardInv
  BY <1>1 DEF ReturnInv, UnheardInv, InGateway, FrameIn
<1> QED BY <1>2, <1>3, <1>4, <1>5 DEF KnowsInv

-----------------------------------------------------------------------------
(* The steps that leave the twinlet undisturbed.                           *)

\* Tells that confirm nothing may be added.
SameTells ==
    /\ \A i \in 1..Len(zoneBox) : i \in 1..Len(zoneBox') /\ zoneBox'[i] = zoneBox[i]
    /\ \A i \in 1..Len(zoneBox') : zoneBox'[i].about # Nothing => i \in 1..Len(zoneBox)

\* Nothing changes between the CAN reader and the twinlet.
SameReports == ingress' = ingress /\ about' = about /\ heard' = heard /\ SameTells

Sends     == OnCommandSent /\ done' = done
Writes    == /\ WriteCommandFrame /\ toGateway' = toGateway /\ done' = done
             /\ toActuator' = toActuator => heard = done /\ toActuator = << >> /\ working = Nothing
Reads     == ReadCommand /\ done' = done
Carries   == CarryOut /\ done' = working /\ toGateway' # toGateway
Refuses   == Refuse /\ done' = done /\ heard = done /\ toActuator = << >>
Restarts  == RestartActuator /\ done' = done /\ heard = done
Issues    == done' = done /\ \E direction \in Direction : Execute(direction)
Elsewhere == UNCHANGED vars /\ done' = done

Reports == /\ OnResponse /\ UNCHANGED <<zoneBox, done, heard>>
           /\ about' = IF Answers(Head(toGateway)) THEN Append(about, Head(toGateway).command) ELSE about

Tells == /\ Dispatch /\ about' = Tail(about) /\ UNCHANGED <<done, heard>>
         /\ LET r == Head(ingress)
            IN  \/ r.confirmed /\ Told(MessageOf(r), Head(about))
                \/ ~r.confirmed /\ SameTells

Hears == /\ UNCHANGED vars /\ UNCHANGED <<about, done>>
         /\ zoneBox # << >> /\ zoneBox' = Tail(zoneBox)
         /\ heard' = IF Head(zoneBox).message.kind \in {"AckOn", "AckOff"} THEN Head(zoneBox).about ELSE heard

Outward == Sends \/ Writes \/ Reads \/ Carries \/ Refuses \/ Restarts \/ Issues \/ Elsewhere

LEMMA SameBox == QueuesInv /\ zoneBox' = zoneBox => SameTells
  BY DEF QueuesInv, SameTells

LEMMA UntoldBox ==
    ASSUME QueuesInv, NEW t, t.about = Nothing, zoneBox' = Append(zoneBox, t)
    PROVE  SameTells
<1>1. /\ Len(zoneBox) \in Nat /\ Len(zoneBox') = Len(zoneBox) + 1
      /\ \A i \in 1..Len(zoneBox) : zoneBox'[i] = zoneBox[i]
      /\ zoneBox'[Len(zoneBox) + 1] = t
  BY DEF QueuesInv
<1> QED BY <1>1 DEF SameTells

LEMMA RoutedNothing ==
    ASSUME QueuesInv, NEW m, Told(m, Nothing) \/ NotTold(m, Nothing)
    PROVE  SameTells
<1>1. CASE Told(m, Nothing)
  BY <1>1, UntoldBox DEF Told
<1>2. CASE NotTold(m, Nothing)
  BY <1>2, SameBox DEF NotTold
<1> QED BY <1>1, <1>2

LEMMA UndisturbedSteps ==
    ASSUME TripInv, [RoundTripNext]_allVars, undisturbed'
    PROVE  undisturbed /\ ((Outward /\ SameReports) \/ Reports \/ Tells \/ Hears)
<1>a. QueuesInv /\ TypeOK
  BY DEF TripInv
<1>b. UNCHANGED vars => ingress' = ingress
  BY DEF vars
<1>1. ASSUME NEW lux \in Lux, LuxReading(lux)
      PROVE  undisturbed /\ Outward /\ SameReports
  <2>1. PICK m : Told(m, Nothing) \/ NotTold(m, Nothing)
    BY <1>1 DEF LuxReading, Routed
  <2>2. SameTells
    BY <1>a, <2>1, RoutedNothing
  <2> QED BY <1>1, <1>b, <2>2 DEF LuxReading, historyVars, Outward, Elsewhere, SameReports
<1>2. CASE PowerOn \/ PowerOff
  <2>1. PICK m : Told(m, Nothing)
    BY <1>2 DEF PowerOn, PowerOff, Lifecycle
  <2>2. SameTells
    BY <1>a, <2>1, RoutedNothing
  <2> QED BY <1>2, <1>b, <2>2 DEF PowerOn, PowerOff, Lifecycle, historyVars, Outward, Elsewhere, SameReports
<1>3. ASSUME NEW i \in DOMAIN backlog, Retell(i)
      PROVE  undisturbed /\ Outward /\ SameReports
  <2>1. undisturbed /\ backlog[i].about = Nothing
    BY <1>3 DEF Retell
  <2>2. SameTells
    BY <1>a, <1>3, <2>1, UntoldBox DEF Retell
  <2> QED BY <1>3, <1>b, <2>1, <2>2 DEF Retell, Outward, Elsewhere, SameReports
<1>4. ASSUME NEW i \in DOMAIN backlog, GiveUp(i)
      PROVE  undisturbed /\ Outward /\ SameReports
  BY <1>4, <1>a, <1>b, SameBox DEF GiveUp, historyVars, Outward, Elsewhere, SameReports
<1>5. CASE AssembliesReady \/ (\E direction \in Direction : AckWaitElapsed(direction)) \/ UNCHANGED allVars
  BY <1>5, <1>a, <1>b, SameBox DEF AssembliesReady, AckWaitElapsed, allVars, brainVars, historyVars,
     Outward, Elsewhere, SameReports
<1>6. CASE CommitFront
  <2>1. (\E direction \in Direction : Execute(direction)) \/ UNCHANGED vars
    BY <1>6 DEF CommitFront, Direction
  <2>2. ingress' = ingress
    BY <1>b, <2>1 DEF Execute
  <2> QED BY <1>6, <1>a, <2>1, <2>2, SameBox DEF CommitFront, historyVars, Outward, Elsewhere, Issues, SameReports
<1>7. CASE LampOnCommandSent
  BY <1>7, <1>a, SameBox DEF LampOnCommandSent, OnCommandSent, brainVars, historyVars, Outward, Sends, SameReports
<1>8. CASE LampWriteCommandFrame
  BY <1>8, <1>a, SameBox DEF LampWriteCommandFrame, CommandFails, WriteCommandFrame, brainVars, Outward,
     Writes, SameReports
<1>9. CASE LampReadCommand
  BY <1>9, <1>a, SameBox DEF LampReadCommand, ReadCommand, brainVars, historyVars, Outward, Reads, SameReports
<1>10. CASE LampCarryOut
  BY <1>10, <1>a, SameBox DEF LampCarryOut, CarryOut, brainVars, Outward, Carries, SameReports
<1>11. CASE LampRefuse
  BY <1>11, <1>a, SameBox DEF LampRefuse, Refuse, CommandFails, brainVars, Outward, Refuses, SameReports
<1>12. CASE LampRestartActuator
  BY <1>12, <1>a, SameBox DEF LampRestartActuator, RestartActuator, CommandFails, brainVars, Outward,
     Restarts, SameReports
<1>13. CASE LampOnResponse
  BY <1>13 DEF LampOnResponse, brainVars, Reports
<1>14. CASE TakeResponse
  <2> DEFINE r == Head(ingress)
             c == IF r.confirmed THEN Head(about) ELSE Nothing
  <2>1. undisturbed /\ (c # Nothing => phase \in {"Off", "Running"})
    BY <1>14 DEF TakeResponse
  <2>2. Dispatch /\ about' = Tail(about) /\ UNCHANGED <<done, heard>> /\ Routed(MessageOf(r), c)
    BY <1>14 DEF TakeResponse
  <2>3. CASE r.confirmed
    <3>1. c = Head(about) /\ c # Nothing
      <4>1. about # << >> /\ about \in Seq(Command)
        BY <2>2 DEF Dispatch, TripInv, AboutInv, TypeOK
      <4> QED BY <2>3, <4>1, TailFrames, NothingElse
    <3> HIDE DEF c, r
    <3>2. Told(MessageOf(r), c)
      BY <2>1, <2>2, <3>1 DEF Routed
    <3> QED BY <2>1, <2>2, <2>3, <3>1, <3>2 DEF Tells, r
  <2>4. CASE ~r.confirmed
    <3>1. Told(MessageOf(r), Nothing) \/ NotTold(MessageOf(r), Nothing)
      BY <2>2, <2>4 DEF Routed
    <3>2. SameTells
      BY <1>a, <3>1, RoutedNothing
    <3> QED BY <2>1, <2>2, <2>4, <3>2 DEF Tells
  <2> QED BY <2>3, <2>4
<1>15. CASE HeadlampApply
  <2> DEFINE k == Head(zoneBox).message.kind
             givenUp == k \in {"BecomeOn", "BecomeOff"} /\ BelievedLit
  <2>1. undisturbed /\ ~givenUp
    BY <1>15 DEF HeadlampApply
  <2>2. /\ UNCHANGED vars /\ UNCHANGED <<about, done>>
        /\ zoneBox # << >> /\ zoneBox' = Tail(zoneBox)
        /\ heard' = CASE k \in {"AckOn", "AckOff"} -> Head(zoneBox).about
                      [] givenUp -> Nothing
                      [] OTHER -> heard
    BY <1>15 DEF HeadlampApply
  <2>3. heard' = IF k \in {"AckOn", "AckOff"} THEN Head(zoneBox).about ELSE heard
    BY <2>1, <2>2
  <2> QED BY <2>1, <2>2, <2>3 DEF Hears
<1>16. CASE LampRestartGateway
  BY <1>16 DEF LampRestartGateway
<1> QED BY <1>1, <1>2, <1>3, <1>4, <1>5, <1>6, <1>7, <1>8, <1>9, <1>10, <1>11, <1>12, <1>13, <1>14,
           <1>15, <1>16 DEF RoundTripNext

-----------------------------------------------------------------------------
(* The invariant is kept.                                                  *)

LEMMA NumNat == /\ \A c \in Command \cup {Nothing} : Num(c) \in Nat
                /\ Num(Nothing) = 0
                /\ \A c \in Command : Num(c) = c.sequence
  BY NothingElse DEF Num, Command

\* Commands of one session with the same number look alike on the wire.
LEMMA SameNumber ==
    ASSUME TypeOK, NumbersInv, WireIdsDiffer, NEW c \in issued, NEW d \in issued, Num(c) = Num(d)
    PROVE  c = d
<1>1. c \in Command /\ d \in Command /\ c.session = d.session /\ c.sequence = d.sequence
  BY NumNat DEF TypeOK, NumbersInv
<1>2. WireId(c) = WireId(d)
  BY <1>1 DEF WireId
<1> QED BY <1>2 DEF WireIdsDiffer

\* A command that is sent comes after all that were recorded.
LEMMA SentIsLater ==
    ASSUME OrderInv, NumbersInv, OnCommandSent
    PROVE  /\ latest' \in Command /\ latest' # Nothing /\ latest' \notin issued
           /\ latest'.session = session /\ 1 <= Num(latest')
           /\ \A c \in issued : Num(c) < Num(latest')
           /\ latest' = publishing' /\ pending' # Nothing
           /\ issued' = issued \cup {latest'}
<1>1. Head(channel) = channel[1] /\ 1 \in 1..Len(channel) /\ channel[1] \in Command
  BY TailFrames DEF OnCommandSent, OrderInv, TypeOK
<1>2. latest' = channel[1] /\ publishing' = latest' /\ issued' = issued \cup {latest'}
      /\ pending' = [id |-> WireId(latest'), direction |-> latest'.direction]
  BY <1>1 DEF OnCommandSent
<1>3. pending' # Nothing
  <2>1. pending' \in Pending
    BY <1>1, <1>2, WireIdType DEF Pending, Command
  <2> QED BY <2>1, NothingAssumption
<1>4. latest' \notin issued
  BY <1>1, <1>2, HeadIsFresh DEF OrderInv, OnCommandSent
<1>5. latest'.session = session /\ 1 <= Num(latest')
  BY <1>1, <1>2 DEF OrderInv, FreshInv, NumbersInv
<1>6. \A c \in issued : Num(c) < Num(latest')
  BY <1>1, <1>2, NumNat DEF OrderInv, FreshInv, NumbersInv, TypeOK
<1> QED BY <1>1, <1>2, <1>3, <1>4, <1>5, <1>6, NothingElse

LEMMA NumbersStep ==
    ASSUME TripInv, OrderInv, CarriedInv, NumbersInv,
           (Outward /\ SameReports) \/ Reports \/ Tells \/ Hears
    PROVE  NumbersInv'
<1>a. ASSUME UNCHANGED <<nextSequence, channel, issued, session, latest>>,
             done' \in issued \cup {Nothing}, heard' \in issued \cup {Nothing}
      PROVE  NumbersInv'
  BY <1>a DEF NumbersInv
<1>b. done \in issued \cup {Nothing} /\ heard \in issued \cup {Nothing}
  BY DEF NumbersInv
<1>1. CASE Sends /\ SameReports
  <2>1. UNCHANGED <<nextSequence, session>> /\ channel' = Tail(channel) /\ channel # << >>
    BY <1>1 DEF Sends, OnCommandSent
  <2>2. /\ latest' \in Command /\ latest'.session = session /\ 1 <= Num(latest')
        /\ \A c \in issued : Num(c) < Num(latest')
        /\ issued' = issued \cup {latest'}
    BY <1>1, SentIsLater DEF Sends
  <2>3. \A i \in 1..Len(channel') : channel'[i] = channel[i + 1] /\ i + 1 \in 1..Len(channel)
    BY <2>1, TailFrames DEF OrderInv, TypeOK
  <2>4. \A c \in issued' : c.session = session' /\ 1 <= Num(c) /\ Num(c) <= Num(latest')
    <3>1. \A c \in issued : Num(c) \in Nat
      BY NumNat DEF OrderInv, TypeOK
    <3>2. Num(latest') \in Nat
      BY <2>2, NumNat
    <3> QED BY <2>1, <2>2, <3>1, <3>2 DEF NumbersInv
  <2>5. done' \in issued' \cup {Nothing} /\ heard' \in issued' \cup {Nothing}
    BY <1>1, <1>b, <2>2 DEF Sends, SameReports
  <2>6. \A i \in 1..Len(channel') : Num(channel'[i]) >= 1
    BY <2>3 DEF NumbersInv
  <2> QED BY <2>1, <2>4, <2>5, <2>6 DEF NumbersInv
<1>2. CASE Issues /\ SameReports
  <2>1. PICK direction \in Direction : Execute(direction)
    BY <1>2 DEF Issues
  <2> DEFINE c == [session |-> session, sequence |-> nextSequence, direction |-> direction]
  <2>2. channel' = Append(channel, c) /\ nextSequence' = nextSequence + 1
        /\ UNCHANGED <<session, issued, latest>>
    BY <2>1 DEF Execute, policyVars
  <2>3. c \in Command /\ Num(c) = nextSequence /\ nextSequence \in Nat
    <3>1. c \in Command
      BY DEF OrderInv, TypeOK, Command
    <3> QED BY <3>1, NumNat DEF OrderInv, TypeOK
  <2> HIDE DEF c
  <2>4. \A i \in 1..Len(channel') : channel'[i] = c \/ (i \in 1..Len(channel) /\ channel'[i] = channel[i])
    BY <2>2 DEF OrderInv, TypeOK
  <2>5. \A i \in 1..Len(channel') : Num(channel'[i]) >= 1
    BY <2>3, <2>4 DEF NumbersInv
  <2>6. done' = done /\ heard' = heard
    BY <1>2 DEF Issues, SameReports
  <2> QED BY <2>2, <2>3, <2>5, <2>6 DEF NumbersInv
<1>3. CASE (Writes \/ Reads \/ Refuses \/ Restarts \/ Elsewhere) /\ SameReports
  <2>1. done' = done /\ heard' = heard
    BY <1>3 DEF Writes, Reads, Refuses, Restarts, Elsewhere, SameReports
  <2>2. UNCHANGED <<nextSequence, channel, issued, session, latest>>
    BY <1>3 DEF Writes, WriteCommandFrame, Reads, ReadCommand, Refuses, Refuse, Restarts, RestartActuator,
       Elsewhere, vars, managerVars, policyVars
  <2> QED BY <1>a, <1>b, <2>1, <2>2
<1>4. CASE Carries /\ SameReports
  <2>1. done' \in issued /\ heard' = heard
    BY <1>4 DEF Carries, CarryOut, SameReports, OrderInv, KnownInv
  <2>2. UNCHANGED <<nextSequence, channel, issued, session, latest>>
    BY <1>4 DEF Carries, CarryOut, managerVars, policyVars
  <2> QED BY <1>a, <1>b, <2>1, <2>2
<1>5. CASE Reports \/ Tells
  <2>1. done' = done /\ heard' = heard
    BY <1>5 DEF Reports, Tells
  <2>2. UNCHANGED <<nextSequence, channel, issued, session, latest>>
    BY <1>5 DEF Reports, OnResponse, Tells, Dispatch, managerVars, policyVars
  <2> QED BY <1>a, <1>b, <2>1, <2>2
<1>6. CASE Hears
  <2>1. done' = done /\ UNCHANGED <<nextSequence, channel, issued, session, latest>>
    BY <1>6 DEF Hears, vars, managerVars, policyVars
  <2>2. heard' \in issued \cup {Nothing}
    <3> DEFINE t == Head(zoneBox)
    <3>1. t = zoneBox[1] /\ 1 \in 1..Len(zoneBox) /\ t \in FitTell
      BY <1>6, TailFrames DEF Hears, TripInv, QueuesInv
    <3>2. heard' = heard \/ (t.message.kind \in {"AckOn", "AckOff"} /\ heard' = t.about)
      BY <1>6 DEF Hears
    <3> HIDE DEF t
    <3>3. CASE t.message.kind \in {"AckOn", "AckOff"} /\ heard' = t.about
      <4>1. t.about \in Command
        BY <3>1, <3>3 DEF FitTell, AckFits
      <4>2. Carried(t.about)
        BY <3>1 DEF Carried
      <4> QED BY <3>3, <4>1, <4>2 DEF CarriedInv
    <3> QED BY <1>b, <3>2, <3>3
  <2> QED BY <1>a, <1>b, <2>1, <2>2
<1> QED BY <1>1, <1>2, <1>3, <1>4, <1>5, <1>6 DEF Outward

LEMMA OutwardStep ==
    ASSUME TripInv, OrderInv, NumbersInv, OutwardInv,
           (Outward /\ SameReports) \/ Reports \/ Tells \/ Hears
    PROVE  OutwardInv' /\ Num(done) <= Num(done')
<1>t. /\ toActuator \in Seq(Frame) /\ Len(toActuator) \in Nat
      /\ \A i \in 1..Len(toActuator) : toActuator[i].command \in issued
      /\ working # Nothing => working \in issued
      /\ publishing # Nothing => publishing \in issued /\ publishing = latest
      /\ done \in issued \cup {Nothing}
      /\ \A c \in issued : Num(c) \in Nat /\ Num(c) <= Num(latest)
      /\ Num(Nothing) = 0 /\ Num(done) \in Nat
      /\ latest # Nothing => latest \in issued
  <2>1. \A c \in issued \cup {Nothing} : Num(c) \in Nat
    BY NumNat DEF OrderInv, TypeOK
  <2> QED BY <2>1, NumNat DEF OrderInv, TypeOK, KnownInv, LastInv, NumbersInv
<1>a. ASSUME UNCHANGED <<working, toActuator, publishing, latest, done>>
      PROVE  OutwardInv' /\ Num(done) <= Num(done')
  BY <1>a, <1>t DEF OutwardInv
<1>1. CASE Sends
  <2>1. publishing' # Nothing /\ UNCHANGED <<working, toActuator, done>>
    <3>1. publishing' = Head(channel) /\ channel # << >>
      BY <1>1 DEF Sends, OnCommandSent
    <3>2. Head(channel) \in Command
      BY <3>1, TailFrames DEF OrderInv, TypeOK
    <3> QED BY <1>1, <3>1, <3>2, NothingElse DEF Sends, OnCommandSent, actuatorVars
  <2> QED BY <1>t, <2>1 DEF OutwardInv
<1>2. CASE Writes
  <2> DEFINE f == [kind |-> "CMD", command |-> publishing]
  <2>1. /\ publishing # Nothing /\ publishing' = Nothing /\ UNCHANGED <<working, latest, done>>
        /\ toActuator' \in Received(toActuator, f)
        /\ toActuator' = toActuator => toActuator = << >> /\ working = Nothing
    BY <1>2 DEF Writes, WriteCommandFrame
  <2>2. f \in Frame /\ f.command = latest
    BY <1>t, <2>1 DEF Frame, OrderInv, TypeOK
  <2> HIDE DEF f
  <2>3. /\ toActuator' \in Seq(Frame) /\ Len(toActuator) <= Len(toActuator')
        /\ \A i \in 1..Len(toActuator) : toActuator'[i] = toActuator[i]
        /\ \A i \in 1..Len(toActuator') : i > Len(toActuator) => toActuator'[i] = f
    BY <1>t, <2>1, <2>2, ReceivedFrames
  <2>4. \A i \in 1..Len(toActuator') :
            \/ i \in 1..Len(toActuator) /\ toActuator'[i] = toActuator[i]
            \/ ~(i <= Len(toActuator)) /\ toActuator'[i].command = latest
    BY <1>t, <2>2, <2>3
  <2>5. toActuator' # toActuator => toActuator'[Len(toActuator')].command = latest
                                    /\ toActuator' # << >>
    <3>1. toActuator' \in {Append(toActuator, f), toActuator \o <<f, f>>} \/ toActuator' = toActuator
      BY <2>1 DEF Received
    <3> QED BY <1>t, <2>2, <3>1
  <2>6. \A i, j \in 1..Len(toActuator') :
            i <= j => Num(toActuator'[i].command) <= Num(toActuator'[j].command)
    <3> SUFFICES ASSUME NEW i \in 1..Len(toActuator'), NEW j \in 1..Len(toActuator'), i <= j
                 PROVE  Num(toActuator'[i].command) <= Num(toActuator'[j].command)
      OBVIOUS
    <3>1. CASE j <= Len(toActuator)
      <4>1. i \in 1..Len(toActuator) /\ j \in 1..Len(toActuator)
        BY <1>t, <2>3, <3>1
      <4> QED BY <2>3, <4>1 DEF OutwardInv
    <3>2. CASE ~(j <= Len(toActuator))
      <4>1. toActuator'[j].command = latest
        BY <2>4, <3>2
      <4>2. toActuator'[i].command = latest \/ toActuator'[i].command \in issued
        BY <1>t, <2>4
      <4> QED BY <1>t, <2>1, <4>1, <4>2
    <3> QED BY <3>1, <3>2
  <2>7. \A i \in 1..Len(toActuator') : Num(done') <= Num(toActuator'[i].command)
    BY <1>t, <2>1, <2>4 DEF OutwardInv
  <2>8. working' # Nothing =>
          /\ Num(done') <= Num(working')
          /\ \A i \in 1..Len(toActuator') : Num(working') <= Num(toActuator'[i].command)
    BY <1>t, <2>1, <2>4 DEF OutwardInv
  <2>9. Num(done) <= Num(done')
    BY <1>t, <2>1
  <2>10. /\ toActuator' # << >> => toActuator'[Len(toActuator')].command = latest'
         /\ toActuator' = << >> /\ working' # Nothing => working' = latest'
    BY <2>1, <2>5
  <2> QED BY <2>6, <2>7, <2>8, <2>9, <2>10 DEF OutwardInv
<1>3. CASE Reads
  <2>1. /\ working = Nothing /\ toActuator # << >> /\ working' = Head(toActuator).command
        /\ toActuator' = Tail(toActuator) /\ UNCHANGED <<publishing, latest, done>>
    BY <1>3 DEF Reads, ReadCommand, policyVars
  <2>2. /\ Head(toActuator) = toActuator[1] /\ 1 \in 1..Len(toActuator)
        /\ Len(toActuator') = Len(toActuator) - 1 /\ toActuator' \in Seq(Frame)
        /\ \A i \in 1..Len(toActuator') :
              toActuator'[i] = toActuator[i + 1] /\ i + 1 \in 1..Len(toActuator) /\ 1 <= i + 1
    BY <1>t, <2>1, TailFrames
  <2>3. working' = toActuator[1].command
    BY <2>1, <2>2
  <2>4. Num(done') <= Num(working') /\ Num(done) <= Num(done')
        /\ \A i \in 1..Len(toActuator') : Num(working') <= Num(toActuator'[i].command)
    BY <1>t, <2>1, <2>2, <2>3 DEF OutwardInv
  <2>5. \A i \in 1..Len(toActuator') : Num(done') <= Num(toActuator'[i].command)
    BY <2>1, <2>2 DEF OutwardInv
  <2>6. \A i, j \in 1..Len(toActuator') :
          i <= j => Num(toActuator'[i].command) <= Num(toActuator'[j].command)
    BY <2>2 DEF OutwardInv
  <2>7. CASE toActuator' = << >>
    <3>1. Len(toActuator) = 1
      BY <2>2, <2>7
    <3> QED BY <2>1, <2>3, <2>4, <2>5, <2>6, <2>7, <3>1 DEF OutwardInv
  <2>8. CASE toActuator' # << >>
    <3>1. Len(toActuator') \in 1..Len(toActuator') /\ Len(toActuator') + 1 = Len(toActuator)
      BY <2>2, <2>8
    <3>2. toActuator'[Len(toActuator')] = toActuator[Len(toActuator)]
      BY <2>2, <3>1
    <3> QED BY <2>1, <2>3, <2>4, <2>5, <2>6, <2>8, <3>2 DEF OutwardInv
  <2> QED BY <2>7, <2>8
<1>4. CASE Carries
  <2>1. /\ working # Nothing /\ done' = working /\ working' = Nothing
        /\ UNCHANGED <<toActuator, publishing, latest>>
    BY <1>4 DEF Carries, CarryOut, policyVars
  <2> QED BY <2>1 DEF OutwardInv
<1>5. CASE Refuses \/ Restarts
  <2>1. /\ working' = Nothing /\ toActuator' = << >> /\ UNCHANGED <<publishing, latest, done>>
    BY <1>5 DEF Refuses, Refuse, Restarts, RestartActuator, policyVars
  <2> QED BY <1>t, <2>1 DEF OutwardInv
<1>6. CASE Issues \/ Elsewhere \/ Reports \/ Tells \/ Hears
  <2>1. UNCHANGED <<working, toActuator, publishing, latest, done>>
    BY <1>6 DEF Issues, Execute, Elsewhere, Reports, OnResponse, Tells, Dispatch, Hears, vars, policyVars,
       actuatorVars
  <2> QED BY <1>a, <2>1
<1> QED BY <1>1, <1>2, <1>3, <1>4, <1>5, <1>6 DEF Outward

\* What waits for the brain and for the twinlet.
LEMMA Waiting ==
    ASSUME TripInv
    PROVE  /\ ingress \in Seq(Response) /\ about \in Seq(Command) /\ Len(about) = Len(ingress)
           /\ Len(ingress) \in Nat /\ zoneBox \in Seq(FitTell) /\ Len(zoneBox) \in Nat
           /\ \A i \in 1..Len(ingress) : about[i] \in Command /\ Num(about[i]) \in Nat
           /\ \A i \in 1..Len(zoneBox) :
                 zoneBox[i] \in FitTell /\ zoneBox[i].about \in Command \cup {Nothing}
                 /\ Num(zoneBox[i].about) \in Nat
           /\ Num(heard) \in Nat /\ Num(done) \in Nat
<1>1. /\ ingress \in Seq(Response) /\ about \in Seq(Command) /\ Len(about) = Len(ingress)
      /\ zoneBox \in Seq(FitTell) /\ heard \in Command \cup {Nothing} /\ done \in Command \cup {Nothing}
  BY DEF TripInv, TypeOK, AboutInv, QueuesInv, BeliefInv
<1>2. \A t \in FitTell : t.about \in Command \cup {Nothing}
  BY DEF FitTell, ZoneTell
<1> QED BY <1>1, <1>2, NumNat

\* The brain takes a confirmation: it moves from one queue to the other.
LEMMA ConfirmationTold ==
    ASSUME TripInv, Tells, Head(ingress).confirmed
    PROVE  \E t : /\ t.message.kind \in {"AckOn", "AckOff"} /\ t.about = about[1]
                  /\ Len(zoneBox') = Len(zoneBox) + 1 /\ zoneBox'[Len(zoneBox) + 1] = t
                  /\ \A i \in 1..Len(zoneBox) : zoneBox'[i] = zoneBox[i]
<1>1. ingress # << >> /\ about # << >>
  BY Waiting DEF Tells, Dispatch
<1>2. Head(about) = about[1] /\ Head(ingress).direction \in {"On", "Off"}
  <2>1. Head(ingress) \in Response /\ Head(about) = about[1]
    BY <1>1, Waiting, TailFrames
  <2> QED BY <2>1 DEF Response, Direction
<1> DEFINE t == [turn |-> nextTurn, attempt |-> 0, message |-> MessageOf(Head(ingress)), about |-> Head(about)]
<1>3. zoneBox' = Append(zoneBox, t)
  BY DEF Tells, Told
<1>4. t.message.kind \in {"AckOn", "AckOff"} /\ t.about = about[1]
  BY <1>2 DEF MessageOf
<1> HIDE DEF t
<1>5. Len(zoneBox') = Len(zoneBox) + 1 /\ zoneBox'[Len(zoneBox) + 1] = t
      /\ \A i \in 1..Len(zoneBox) : zoneBox'[i] = zoneBox[i]
  BY <1>3, Waiting
<1> QED BY <1>4, <1>5

LEMMA Taken ==
    ASSUME TripInv, Tells
    PROVE  /\ 1 \in 1..Len(ingress) /\ Head(ingress) = ingress[1] /\ UNCHANGED <<heard, done>>
           /\ \A i \in 1..Len(ingress') :
                 /\ i + 1 \in 1..Len(ingress) /\ 1 < i + 1
                 /\ ingress'[i] = ingress[i + 1] /\ about'[i] = about[i + 1]
           /\ \A i \in 1..Len(ingress) : i # 1 =>
                 /\ i - 1 \in 1..Len(ingress')
                 /\ ingress'[i - 1] = ingress[i] /\ about'[i - 1] = about[i]
<1>1. /\ ingress # << >> /\ ingress' = Tail(ingress) /\ about' = Tail(about) /\ about # << >>
      /\ UNCHANGED <<heard, done>>
  BY Waiting DEF Tells, Dispatch
<1>2. \A S : \A s \in Seq(S) : s # << >> =>
         /\ 1 \in 1..Len(s) /\ Head(s) = s[1] /\ Len(Tail(s)) = Len(s) - 1
         /\ \A i \in 1..Len(Tail(s)) : i + 1 \in 1..Len(s) /\ 1 < i + 1 /\ Tail(s)[i] = s[i + 1]
         /\ \A i \in 1..Len(s) : i # 1 => i - 1 \in 1..Len(Tail(s)) /\ Tail(s)[i - 1] = s[i]
  OBVIOUS
<1>3. ingress \in Seq(Response) /\ about \in Seq(Command) /\ Len(about) = Len(ingress)
  BY Waiting
<1>4. Len(about') = Len(ingress')
  BY <1>1, <1>2, <1>3
<1> QED BY <1>1, <1>2, <1>3, <1>4

\* The twinlet takes a tell.
LEMMA Heard ==
    ASSUME TripInv, ToldInv, Hears
    PROVE  /\ 1 \in 1..Len(zoneBox) /\ UNCHANGED <<ingress, about, done>>
           /\ heard' = IF zoneBox[1].about # Nothing THEN zoneBox[1].about ELSE heard
           /\ \A i \in 1..Len(zoneBox') :
                 i + 1 \in 1..Len(zoneBox) /\ 1 < i + 1 /\ zoneBox'[i] = zoneBox[i + 1]
           /\ \A i \in 1..Len(zoneBox) : i # 1 =>
                 i - 1 \in 1..Len(zoneBox') /\ zoneBox'[i - 1] = zoneBox[i]
<1>1. zoneBox # << >> /\ zoneBox' = Tail(zoneBox) /\ UNCHANGED <<ingress, about, done>>
      /\ heard' = IF Head(zoneBox).message.kind \in {"AckOn", "AckOff"} THEN Head(zoneBox).about ELSE heard
  BY DEF Hears, vars
<1>2. \A S : \A s \in Seq(S) : s # << >> =>
         /\ 1 \in 1..Len(s) /\ Head(s) = s[1]
         /\ \A i \in 1..Len(Tail(s)) : i + 1 \in 1..Len(s) /\ 1 < i + 1 /\ Tail(s)[i] = s[i + 1]
         /\ \A i \in 1..Len(s) : i # 1 => i - 1 \in 1..Len(Tail(s)) /\ Tail(s)[i - 1] = s[i]
  OBVIOUS
<1>3. /\ 1 \in 1..Len(zoneBox) /\ Head(zoneBox) = zoneBox[1]
      /\ \A i \in 1..Len(zoneBox') :
            i + 1 \in 1..Len(zoneBox) /\ 1 < i + 1 /\ zoneBox'[i] = zoneBox[i + 1]
      /\ \A i \in 1..Len(zoneBox) : i # 1 =>
            i - 1 \in 1..Len(zoneBox') /\ zoneBox'[i - 1] = zoneBox[i]
  BY <1>1, <1>2, Waiting
<1>4. zoneBox[1].about # Nothing <=> zoneBox[1].message.kind \in {"AckOn", "AckOff"}
  <2>1. zoneBox[1] \in FitTell
    BY <1>3, Waiting
  <2> QED BY <1>3, <2>1, NothingElse DEF ToldInv, FitTell, AckFits
<1> QED BY <1>1, <1>3, <1>4

\* The CAN reader lets a response in: it is one to the command sent last.
LEMMA LetIn ==
    ASSUME TripInv, OrderInv, WireIdsDiffer, Reports
    PROVE  /\ UNCHANGED <<zoneBox, done, heard, latest, publishing, working, toActuator, issued>>
           /\ 1 \in 1..Len(toGateway)
           /\ \A i \in 1..Len(toGateway') : i + 1 \in 1..Len(toGateway) /\ toGateway'[i] = toGateway[i + 1]
           /\ \A i \in 1..Len(toGateway) : i # 1 =>
                 i - 1 \in 1..Len(toGateway') /\ toGateway'[i - 1] = toGateway[i]
           /\ \/ /\ UNCHANGED <<pending, ingress, about>>
                 /\ pending # Nothing => toGateway[1].kind = "CMD" \/ toGateway[1].command # latest
              \/ /\ pending # Nothing /\ pending' = Nothing /\ toGateway[1].command = latest
                 /\ latest \in issued /\ latest # Nothing
                 /\ Len(ingress') = Len(ingress) + 1
                 /\ ingress'[Len(ingress) + 1].confirmed = (toGateway[1].kind = "ACK")
                 /\ about'[Len(ingress) + 1] = latest
                 /\ \A i \in 1..Len(ingress) : ingress'[i] = ingress[i] /\ about'[i] = about[i]
                 /\ toGateway[1].kind # "CMD"
<1> DEFINE f == Head(toGateway)
<1>1. /\ toGateway # << >> /\ toGateway' = Tail(toGateway)
      /\ IF Answers(f) THEN Accept(f) ELSE UNCHANGED <<pending, ingress>>
      /\ UNCHANGED <<zoneBox, done, heard, latest, publishing, working, toActuator, issued>>
      /\ about' = IF Answers(f) THEN Append(about, f.command) ELSE about
  BY DEF Reports, OnResponse, actuatorVars
<1>2. \A S : \A s \in Seq(S) : s # << >> =>
         /\ 1 \in 1..Len(s) /\ Head(s) = s[1]
         /\ \A i \in 1..Len(Tail(s)) : i + 1 \in 1..Len(s) /\ Tail(s)[i] = s[i + 1]
         /\ \A i \in 1..Len(s) : i # 1 => i - 1 \in 1..Len(Tail(s)) /\ Tail(s)[i - 1] = s[i]
  OBVIOUS
<1>3. /\ 1 \in 1..Len(toGateway) /\ f = toGateway[1]
      /\ \A i \in 1..Len(toGateway') : i + 1 \in 1..Len(toGateway) /\ toGateway'[i] = toGateway[i + 1]
      /\ \A i \in 1..Len(toGateway) : i # 1 =>
            i - 1 \in 1..Len(toGateway') /\ toGateway'[i - 1] = toGateway[i]
  BY <1>1, <1>2 DEF OrderInv, TypeOK
<1>4. CASE ~Answers(f)
  <2>1. pending # Nothing => f.kind = "CMD" \/ f.command # latest
    <3>1. pending # Nothing => pending.id = WireId(latest) /\ pending.direction = latest.direction
      BY DEF OrderInv, KnownInv
    <3> QED BY <1>4, <3>1 DEF Answers
  <2> QED BY <1>1, <1>3, <1>4, <2>1
<1>5. CASE Answers(f)
  <2>1. f.command \in issued /\ latest \in issued /\ latest # Nothing /\ WireId(latest) = WireId(f.command)
        /\ pending # Nothing /\ f.kind # "CMD"
    BY <1>3, <1>5 DEF OrderInv, KnownInv, Answers
  <2>2. f.command = latest
    BY <2>1 DEF WireIdsDiffer
  <2> DEFINE r == [direction |-> pending.direction, confirmed |-> f.kind = "ACK"]
  <2>3. ingress' = Append(ingress, r) /\ about' = Append(about, latest) /\ pending' = Nothing
    BY <1>1, <1>5, <2>2, Zenon DEF Accept
  <2>4. r.confirmed = (f.kind = "ACK")
    OBVIOUS
  <2> HIDE DEF r, f
  <2>5. /\ Len(ingress') = Len(ingress) + 1 /\ ingress'[Len(ingress) + 1] = r
        /\ about'[Len(ingress) + 1] = latest
        /\ \A i \in 1..Len(ingress) : ingress'[i] = ingress[i] /\ about'[i] = about[i]
    BY <2>3, Waiting
  <2>6. ingress'[Len(ingress) + 1].confirmed = (toGateway[1].kind = "ACK")
    BY <1>3, <2>4, <2>5, Zenon
  <2> QED BY <1>1, <1>3, <2>1, <2>2, <2>3, <2>5, <2>6
<1> QED BY <1>4, <1>5

\* What is accepted is a command of this process that was recorded.
LEMMA AcceptedIssued ==
    ASSUME TripInv, CarriedInv
    PROVE  /\ \A i \in 1..Len(ingress) : ingress[i].confirmed => about[i] \in issued /\ Accepted(about[i])
           /\ \A i \in 1..Len(zoneBox) :
                 zoneBox[i].about # Nothing => zoneBox[i].about \in issued /\ Accepted(zoneBox[i].about)
<1>1. ASSUME NEW i \in 1..Len(ingress), ingress[i].confirmed
      PROVE  about[i] \in issued /\ Accepted(about[i])
  <2>1. about[i] \in Command /\ Carried(about[i])
    BY <1>1, Waiting DEF Carried
  <2> QED BY <1>1, <2>1 DEF CarriedInv, Accepted, AcceptedIn
<1>2. ASSUME NEW i \in 1..Len(zoneBox), zoneBox[i].about # Nothing
      PROVE  zoneBox[i].about \in issued /\ Accepted(zoneBox[i].about)
  <2>1. zoneBox[i].about \in Command /\ Carried(zoneBox[i].about)
    BY <1>2, Waiting DEF Carried
  <2> QED BY <2>1 DEF CarriedInv, Accepted, AcceptedIn
<1> QED BY <1>1, <1>2

LEMMA ToldStep ==
    ASSUME TripInv, OrderInv, WireIdsDiffer, ToldInv, DueInv, Num(done) <= Num(done'), Num(done') \in Nat,
           (Outward /\ SameReports) \/ Reports \/ Tells \/ Hears
    PROVE  ToldInv'
<1>a. ASSUME SameTells, heard' = heard PROVE ToldInv'
  <2>1. \A i \in 1..Len(zoneBox') : zoneBox'[i].about # Nothing =>
           i \in 1..Len(zoneBox) /\ zoneBox'[i] = zoneBox[i] /\ Num(zoneBox[i].about) \in Nat
    BY <1>a, Waiting DEF SameTells
  <2>2. Num(done) \in Nat /\ Num(heard) \in Nat
    BY Waiting
  <2>3. \A i \in 1..Len(zoneBox') : zoneBox'[i].about # Nothing =>
          /\ zoneBox'[i].message.kind \in {"AckOn", "AckOff"}
          /\ Num(heard') < Num(zoneBox'[i].about)
          /\ Num(zoneBox'[i].about) <= Num(done')
    BY <1>a, <2>1, <2>2 DEF ToldInv
  <2>4. \A i, j \in 1..Len(zoneBox') :
           i < j /\ zoneBox'[i].about # Nothing /\ zoneBox'[j].about # Nothing =>
              Num(zoneBox'[i].about) < Num(zoneBox'[j].about)
    BY <2>1 DEF ToldInv
  <2> QED BY <2>3, <2>4 DEF ToldInv
<1>1. CASE SameReports
  BY <1>1, <1>a DEF SameReports
<1>2. CASE Reports
  <2>1. SameTells
    BY <1>2, SameBox DEF Reports, TripInv
  <2> QED BY <1>2, <1>a, <2>1 DEF Reports
<1>3. CASE Tells /\ Head(ingress).confirmed
  <2>1. PICK t : /\ t.message.kind \in {"AckOn", "AckOff"} /\ t.about = about[1]
                 /\ Len(zoneBox') = Len(zoneBox) + 1 /\ zoneBox'[Len(zoneBox) + 1] = t
                 /\ \A i \in 1..Len(zoneBox) : zoneBox'[i] = zoneBox[i]
    BY <1>3, ConfirmationTold
  <2>2. 1 \in 1..Len(ingress) /\ ingress[1].confirmed /\ UNCHANGED <<heard, done>>
    BY <1>3, Taken
  <2>3. Num(heard) < Num(t.about) /\ Num(t.about) <= Num(done)
        /\ \A i \in 1..Len(zoneBox) : zoneBox[i].about # Nothing => Num(zoneBox[i].about) < Num(t.about)
    BY <2>1, <2>2 DEF DueInv
  <2>4. \A i \in 1..Len(zoneBox') :
           \/ i \in 1..Len(zoneBox) /\ zoneBox'[i] = zoneBox[i]
           \/ i = Len(zoneBox) + 1 /\ zoneBox'[i] = t
    BY <2>1, Waiting
  <2>5. \A i, j \in 1..Len(zoneBox') :
           i < j /\ zoneBox'[i].about # Nothing /\ zoneBox'[j].about # Nothing =>
              Num(zoneBox'[i].about) < Num(zoneBox'[j].about)
    <3> SUFFICES ASSUME NEW i \in 1..Len(zoneBox'), NEW j \in 1..Len(zoneBox'), i < j,
                        zoneBox'[i].about # Nothing, zoneBox'[j].about # Nothing
                 PROVE  Num(zoneBox'[i].about) < Num(zoneBox'[j].about)
      OBVIOUS
    <3>1. i \in 1..Len(zoneBox) /\ zoneBox'[i] = zoneBox[i]
      BY <2>1, <2>4, Waiting
    <3>2. CASE j \in 1..Len(zoneBox) /\ zoneBox'[j] = zoneBox[j]
      BY <3>1, <3>2 DEF ToldInv
    <3>3. CASE zoneBox'[j] = t
      BY <2>3, <3>1, <3>3
    <3> QED BY <2>4, <3>2, <3>3
  <2>6. \A i \in 1..Len(zoneBox') : zoneBox'[i].about # Nothing =>
          /\ zoneBox'[i].message.kind \in {"AckOn", "AckOff"}
          /\ Num(heard') < Num(zoneBox'[i].about)
          /\ Num(zoneBox'[i].about) <= Num(done')
    BY <2>1, <2>2, <2>3, <2>4 DEF ToldInv
  <2> QED BY <2>5, <2>6 DEF ToldInv
<1>4. CASE Tells /\ ~Head(ingress).confirmed
  BY <1>4, <1>a DEF Tells
<1>5. CASE Hears
  <2>1. /\ 1 \in 1..Len(zoneBox) /\ done' = done
        /\ heard' = IF zoneBox[1].about # Nothing THEN zoneBox[1].about ELSE heard
        /\ \A i \in 1..Len(zoneBox') :
              i + 1 \in 1..Len(zoneBox) /\ 1 < i + 1 /\ zoneBox'[i] = zoneBox[i + 1]
    BY <1>5, Heard
  <2>2. \A i \in 1..Len(zoneBox') : zoneBox'[i].about # Nothing => Num(heard') < Num(zoneBox'[i].about)
    BY <2>1 DEF ToldInv
  <2>3. \A i \in 1..Len(zoneBox') : zoneBox'[i].about # Nothing =>
          /\ zoneBox'[i].message.kind \in {"AckOn", "AckOff"}
          /\ Num(zoneBox'[i].about) <= Num(done')
    BY <2>1 DEF ToldInv
  <2>4. \A i, j \in 1..Len(zoneBox') :
           i < j /\ zoneBox'[i].about # Nothing /\ zoneBox'[j].about # Nothing =>
              Num(zoneBox'[i].about) < Num(zoneBox'[j].about)
    <3> SUFFICES ASSUME NEW i \in 1..Len(zoneBox'), NEW j \in 1..Len(zoneBox'), i < j,
                        zoneBox'[i].about # Nothing, zoneBox'[j].about # Nothing
                 PROVE  Num(zoneBox'[i].about) < Num(zoneBox'[j].about)
      OBVIOUS
    <3>1. i + 1 \in 1..Len(zoneBox) /\ j + 1 \in 1..Len(zoneBox) /\ i + 1 < j + 1
          /\ zoneBox'[i] = zoneBox[i + 1] /\ zoneBox'[j] = zoneBox[j + 1]
      BY <2>1
    <3> QED BY <3>1 DEF ToldInv
  <2> QED BY <2>2, <2>3, <2>4 DEF ToldInv
<1> QED BY <1>1, <1>2, <1>3, <1>4, <1>5

LEMMA DueStep ==
    ASSUME TripInv, OrderInv, CarriedInv, NumbersInv, WireIdsDiffer, ToldInv, DueInv, ReturnInv,
           Num(done) <= Num(done'), Num(done') \in Nat,
           (Outward /\ SameReports) \/ Reports \/ Tells \/ Hears
    PROVE  DueInv'
<1>t. /\ \A i \in 1..Len(ingress) : Num(about[i]) \in Nat
      /\ Num(done) \in Nat /\ Num(heard) \in Nat /\ Len(ingress) \in Nat
  BY Waiting
<1>1. CASE SameReports
  <2>1. \A i \in 1..Len(zoneBox') : zoneBox'[i].about # Nothing =>
           i \in 1..Len(zoneBox) /\ zoneBox'[i] = zoneBox[i]
    BY <1>1 DEF SameReports, SameTells
  <2>2. ingress' = ingress /\ about' = about /\ heard' = heard
    BY <1>1 DEF SameReports
  <2> QED BY <1>t, <2>1, <2>2 DEF DueInv
<1>2. CASE Reports
  <2> DEFINE n == Len(ingress) + 1
  <2>1. UNCHANGED <<zoneBox, done, heard>>
    BY <1>2 DEF Reports
  <2>2. CASE UNCHANGED <<ingress, about>>
    BY <2>1, <2>2 DEF DueInv
  <2>3. CASE ~UNCHANGED <<ingress, about>>
    <3>1. /\ pending # Nothing /\ toGateway[1].command = latest /\ 1 \in 1..Len(toGateway)
          /\ latest \in issued
          /\ Len(ingress') = n /\ about'[n] = latest
          /\ ingress'[n].confirmed = (toGateway[1].kind = "ACK")
          /\ \A i \in 1..Len(ingress) : ingress'[i] = ingress[i] /\ about'[i] = about[i]
      BY <1>2, <2>3, LetIn
    <3>2. \A i \in 1..Len(ingress') : i \in 1..Len(ingress) \/ i = n
      BY <1>t, <3>1
    <3>3. latest # heard /\ ~Accepted(latest)
      BY <3>1 DEF ReturnInv
    <3>4. \A c \in issued : c # latest => Num(c) < Num(latest)
      <4>1. \A c \in issued : Num(c) \in Nat /\ Num(c) <= Num(latest)
        BY NumNat DEF NumbersInv, OrderInv, TypeOK
      <4>2. \A c \in issued : c # latest => Num(c) # Num(latest)
        BY <3>1, SameNumber DEF OrderInv
      <4> QED BY <3>1, <4>1, <4>2
    <3>5. Num(heard) < Num(latest)
      <4>1. heard \in issued \/ heard = Nothing
        BY DEF NumbersInv
      <4>2. 1 <= Num(latest) /\ Num(latest) \in Nat
        BY <3>1, NumNat DEF NumbersInv, OrderInv, TypeOK
      <4> QED BY <3>3, <3>4, <4>1, <4>2, NumNat
    <3>6. \A i \in 1..Len(ingress) : ingress[i].confirmed => Num(about[i]) < Num(latest)
      BY <3>3, <3>4, AcceptedIssued
    <3>7. \A i \in 1..Len(zoneBox) : zoneBox[i].about # Nothing => Num(zoneBox[i].about) < Num(latest)
      BY <3>3, <3>4, AcceptedIssued
    <3>8. ingress'[n].confirmed => Num(latest) <= Num(done)
      BY <3>1 DEF ReturnInv
    <3>9. \A i \in 1..Len(ingress') : ingress'[i].confirmed =>
             /\ Num(heard') < Num(about'[i])
             /\ Num(about'[i]) <= Num(done')
      BY <2>1, <3>1, <3>2, <3>5, <3>8 DEF DueInv
    <3>10. \A i \in 1..Len(zoneBox'), j \in 1..Len(ingress') :
              zoneBox'[i].about # Nothing /\ ingress'[j].confirmed => Num(zoneBox'[i].about) < Num(about'[j])
      BY <2>1, <3>1, <3>2, <3>7 DEF DueInv
    <3>11. ASSUME NEW i \in 1..Len(ingress'), NEW j \in 1..Len(ingress'), i < j,
                  ingress'[i].confirmed, ingress'[j].confirmed
           PROVE  Num(about'[i]) < Num(about'[j])
      <4>1. i \in 1..Len(ingress)
        BY <1>t, <3>1, <3>11
      <4>2. CASE j \in 1..Len(ingress)
        BY <3>1, <3>11, <4>1, <4>2 DEF DueInv
      <4>3. CASE j = n
        BY <3>1, <3>6, <3>11, <4>1, <4>3
      <4> QED BY <3>2, <4>2, <4>3
    <3> QED BY <3>9, <3>10, <3>11 DEF DueInv
  <2> QED BY <2>2, <2>3
<1>3. CASE Tells
  <2>1. /\ 1 \in 1..Len(ingress) /\ Head(ingress) = ingress[1] /\ UNCHANGED <<heard, done>>
        /\ \A i \in 1..Len(ingress') :
              /\ i + 1 \in 1..Len(ingress) /\ 1 < i + 1
              /\ ingress'[i] = ingress[i + 1] /\ about'[i] = about[i + 1]
    BY <1>3, Taken
  <2>2. \A i \in 1..Len(ingress') : ingress'[i].confirmed =>
             /\ Num(heard') < Num(about'[i])
             /\ Num(about'[i]) <= Num(done')
    BY <2>1 DEF DueInv
  <2>3. \A i, j \in 1..Len(ingress') :
          i < j /\ ingress'[i].confirmed /\ ingress'[j].confirmed => Num(about'[i]) < Num(about'[j])
    <3> SUFFICES ASSUME NEW i \in 1..Len(ingress'), NEW j \in 1..Len(ingress'), i < j,
                        ingress'[i].confirmed, ingress'[j].confirmed
                 PROVE  Num(about'[i]) < Num(about'[j])
      OBVIOUS
    <3>1. i + 1 \in 1..Len(ingress) /\ j + 1 \in 1..Len(ingress) /\ i + 1 < j + 1
          /\ ingress'[i] = ingress[i + 1] /\ ingress'[j] = ingress[j + 1]
          /\ about'[i] = about[i + 1] /\ about'[j] = about[j + 1]
      BY <2>1
    <3> QED BY <3>1 DEF DueInv
  <2>4. \A i \in 1..Len(zoneBox') : zoneBox'[i].about # Nothing =>
           \/ i \in 1..Len(zoneBox) /\ zoneBox'[i] = zoneBox[i]
           \/ ingress[1].confirmed /\ zoneBox'[i].about = about[1]
    <3>1. CASE ingress[1].confirmed
      <4>1. PICK t : /\ t.about = about[1]
                     /\ Len(zoneBox') = Len(zoneBox) + 1 /\ zoneBox'[Len(zoneBox) + 1] = t
                     /\ \A i \in 1..Len(zoneBox) : zoneBox'[i] = zoneBox[i]
        BY <1>3, <2>1, <3>1, ConfirmationTold
      <4>2. \A i \in 1..Len(zoneBox') : i \in 1..Len(zoneBox) \/ i = Len(zoneBox) + 1
        BY <4>1, Waiting
      <4> QED BY <3>1, <4>1, <4>2
    <3>2. CASE ~ingress[1].confirmed
      BY <1>3, <2>1, <3>2 DEF Tells, SameTells
    <3> QED BY <3>1, <3>2
  <2>5. \A i \in 1..Len(zoneBox'), j \in 1..Len(ingress') :
          zoneBox'[i].about # Nothing /\ ingress'[j].confirmed => Num(zoneBox'[i].about) < Num(about'[j])
    <3> SUFFICES ASSUME NEW i \in 1..Len(zoneBox'), NEW j \in 1..Len(ingress'),
                        zoneBox'[i].about # Nothing, ingress'[j].confirmed
                 PROVE  Num(zoneBox'[i].about) < Num(about'[j])
      OBVIOUS
    <3>1. j + 1 \in 1..Len(ingress) /\ 1 < j + 1 /\ ingress[j + 1].confirmed /\ about'[j] = about[j + 1]
      BY <2>1
    <3>2. CASE i \in 1..Len(zoneBox) /\ zoneBox'[i] = zoneBox[i]
      BY <3>1, <3>2 DEF DueInv
    <3>3. CASE ingress[1].confirmed /\ zoneBox'[i].about = about[1]
      BY <2>1, <3>1, <3>3 DEF DueInv
    <3> QED BY <2>4, <3>2, <3>3
  <2> QED BY <2>2, <2>3, <2>5 DEF DueInv
<1>4. CASE Hears
  <2>1. /\ 1 \in 1..Len(zoneBox) /\ UNCHANGED <<ingress, about, done>>
        /\ heard' = IF zoneBox[1].about # Nothing THEN zoneBox[1].about ELSE heard
        /\ \A i \in 1..Len(zoneBox') :
              i + 1 \in 1..Len(zoneBox) /\ 1 < i + 1 /\ zoneBox'[i] = zoneBox[i + 1]
    BY <1>4, Heard
  <2>2. \A i \in 1..Len(ingress) : ingress[i].confirmed => Num(heard') < Num(about[i])
    BY <2>1 DEF DueInv
  <2> QED BY <2>1, <2>2 DEF DueInv
<1> QED BY <1>1, <1>2, <1>3, <1>4

LEMMA IssuedIfAccepted ==
    ASSUME TripInv, CarriedInv
    PROVE  \A c : c # Nothing /\ AcceptedIn(ingress, about, zoneBox, c) => c \in issued
  BY AcceptedIssued DEF AcceptedIn

\* A confirmation moves from one queue to the other ...
LEMMA SameAccepted ==
    ASSUME TripInv, SameReports \/ Tells, NEW c, c # Nothing
    PROVE  AcceptedIn(ingress', about', zoneBox', c) <=> AcceptedIn(ingress, about, zoneBox, c)
<1>1. ASSUME SameTells
      PROVE  (\E i \in 1..Len(zoneBox') : zoneBox'[i].about = c)
                <=> (\E i \in 1..Len(zoneBox) : zoneBox[i].about = c)
  BY <1>1 DEF SameTells
<1>2. CASE SameReports
  BY <1>1, <1>2 DEF SameReports, AcceptedIn
<1>3. CASE Tells /\ ~Head(ingress).confirmed
  <2>1. SameTells
    BY <1>3 DEF Tells
  <2>2. (\E i \in 1..Len(ingress') : ingress'[i].confirmed /\ about'[i] = c)
           <=> (\E i \in 1..Len(ingress) : ingress[i].confirmed /\ about[i] = c)
    <3>1. /\ ~ingress[1].confirmed
          /\ \A i \in 1..Len(ingress') :
                i + 1 \in 1..Len(ingress) /\ ingress'[i] = ingress[i + 1] /\ about'[i] = about[i + 1]
          /\ \A i \in 1..Len(ingress) : i # 1 =>
                i - 1 \in 1..Len(ingress') /\ ingress'[i - 1] = ingress[i] /\ about'[i - 1] = about[i]
      BY <1>3, Taken
    <3>2. ASSUME NEW i \in 1..Len(ingress'), ingress'[i].confirmed, about'[i] = c
          PROVE  \E j \in 1..Len(ingress) : ingress[j].confirmed /\ about[j] = c
      BY <3>1, <3>2
    <3>3. ASSUME NEW i \in 1..Len(ingress), ingress[i].confirmed, about[i] = c
          PROVE  \E j \in 1..Len(ingress') : ingress'[j].confirmed /\ about'[j] = c
      <4>1. i # 1
        BY <3>1, <3>3
      <4> QED BY <3>1, <3>3, <4>1
    <3> QED BY <3>2, <3>3
  <2> QED BY <1>1, <2>1, <2>2 DEF AcceptedIn
<1>4. CASE Tells /\ Head(ingress).confirmed
  <2>1. PICK t : /\ t.about = about[1]
                 /\ Len(zoneBox') = Len(zoneBox) + 1 /\ zoneBox'[Len(zoneBox) + 1] = t
                 /\ \A i \in 1..Len(zoneBox) : zoneBox'[i] = zoneBox[i]
    BY <1>4, ConfirmationTold
  <2>2. /\ \A i \in 1..Len(zoneBox') : i \in 1..Len(zoneBox) \/ i = Len(zoneBox) + 1
        /\ \A i \in 1..Len(zoneBox) : i \in 1..Len(zoneBox')
        /\ Len(zoneBox) + 1 \in 1..Len(zoneBox')
    BY <2>1, Waiting
  <2>3. (\E i \in 1..Len(zoneBox') : zoneBox'[i].about = c)
           <=> (\E i \in 1..Len(zoneBox) : zoneBox[i].about = c) \/ about[1] = c
    BY <2>1, <2>2
  <2>4. (\E i \in 1..Len(ingress) : ingress[i].confirmed /\ about[i] = c)
           <=> (\E i \in 1..Len(ingress') : ingress'[i].confirmed /\ about'[i] = c) \/ about[1] = c
    BY <1>4, Taken
  <2> QED BY <2>3, <2>4 DEF AcceptedIn
<1> QED BY <1>2, <1>3, <1>4

\* ... and leaves when it is heard.
LEMMA HeardAccepted ==
    ASSUME TripInv, ToldInv, Hears, NEW c, c # Nothing
    PROVE  /\ AcceptedIn(ingress', about', zoneBox', c) => AcceptedIn(ingress, about, zoneBox, c)
           /\ AcceptedIn(ingress, about, zoneBox, c) => AcceptedIn(ingress', about', zoneBox', c) \/ heard' = c
<1>1. /\ UNCHANGED <<ingress, about>>
      /\ heard' = IF zoneBox[1].about # Nothing THEN zoneBox[1].about ELSE heard
      /\ \A i \in 1..Len(zoneBox') : i + 1 \in 1..Len(zoneBox) /\ zoneBox'[i] = zoneBox[i + 1]
      /\ \A i \in 1..Len(zoneBox) : i # 1 => i - 1 \in 1..Len(zoneBox') /\ zoneBox'[i - 1] = zoneBox[i]
  BY Heard
<1>2. (\E i \in 1..Len(zoneBox') : zoneBox'[i].about = c) => (\E i \in 1..Len(zoneBox) : zoneBox[i].about = c)
  BY <1>1
<1>3. (\E i \in 1..Len(zoneBox) : zoneBox[i].about = c)
         => (\E i \in 1..Len(zoneBox') : zoneBox'[i].about = c) \/ heard' = c
  BY <1>1
<1> QED BY <1>1, <1>2, <1>3 DEF AcceptedIn

\* A response that is let in is accepted if it confirms.
LEMMA LetInAccepted ==
    ASSUME TripInv, OrderInv, WireIdsDiffer, Reports, NEW c
    PROVE  /\ UNCHANGED <<ingress, about>> =>
                 (AcceptedIn(ingress', about', zoneBox', c) <=> AcceptedIn(ingress, about, zoneBox, c))
           /\ AcceptedIn(ingress, about, zoneBox, c) => AcceptedIn(ingress', about', zoneBox', c)
           /\ ~UNCHANGED <<ingress, about>> /\ toGateway[1].kind = "ACK" =>
                 AcceptedIn(ingress', about', zoneBox', latest)
<1>1. zoneBox' = zoneBox
  BY LetIn
<1>2. CASE UNCHANGED <<ingress, about>>
  BY <1>1, <1>2
<1>3. CASE ~UNCHANGED <<ingress, about>>
  <2>1. /\ Len(ingress') = Len(ingress) + 1
        /\ ingress'[Len(ingress) + 1].confirmed = (toGateway[1].kind = "ACK")
        /\ about'[Len(ingress) + 1] = latest
        /\ \A i \in 1..Len(ingress) : ingress'[i] = ingress[i] /\ about'[i] = about[i]
    BY <1>3, LetIn
  <2>2. Len(ingress) + 1 \in 1..Len(ingress') /\ \A i \in 1..Len(ingress) : i \in 1..Len(ingress')
    BY <2>1, Waiting
  <2> QED BY <1>1, <1>3, <2>1, <2>2 DEF AcceptedIn
<1> QED BY <1>2, <1>3

\* Confirmations and refusals that wait at the gateway.
LEMMA ReturnStep ==
    ASSUME TripInv, OrderInv, CarriedInv, NumbersInv, OutwardInv, WireIdsDiffer, ToldInv, DueInv,
           ReturnInv, UnheardInv, Num(done) <= Num(done'), Num(done') \in Nat,
           (Outward /\ SameReports) \/ Reports \/ Tells \/ Hears
    PROVE  ReturnInv' /\ UnheardInv'
<1> DEFINE Acc(c)  == AcceptedIn(ingress, about, zoneBox, c)
           Acc2(c) == AcceptedIn(ingress', about', zoneBox', c)
<1>t. /\ toGateway \in Seq(Frame) /\ toActuator \in Seq(Frame) /\ Len(toGateway) \in Nat
      /\ \A i \in 1..Len(toGateway) : toGateway[i].command \in issued
      /\ \A c \in issued : Num(c) \in Nat /\ 1 <= Num(c) /\ Num(c) <= Num(latest) /\ c # Nothing
      /\ latest # Nothing => latest \in issued
      /\ pending # Nothing => latest # Nothing
      /\ publishing # Nothing => publishing = latest /\ working # latest
      /\ working # Nothing => working \in issued
      /\ heard \in issued \cup {Nothing} /\ done \in issued \cup {Nothing}
      /\ Num(done) \in Nat /\ Num(heard) \in Nat /\ Num(Nothing) = 0
  BY NumNat, Waiting, NothingElse DEF OrderInv, TypeOK, KnownInv, LastInv, NumbersInv
<1>r. /\ \A i \in 1..Len(toGateway) :
           toGateway[i].kind = "ACK" => Num(toGateway[i].command) <= Num(done)
      /\ pending # Nothing => latest # heard /\ ~Acc(latest)
      /\ publishing # Nothing =>
           /\ pending # Nothing
           /\ \A i \in 1..Len(toGateway) : toGateway[i].command # latest
      /\ FrameIn(toGateway, "NACK", latest) => ~Underway
      /\ pending = Nothing /\ latest # Nothing => Acc(latest) \/ heard = latest \/ ~Underway
  BY DEF ReturnInv, InGateway, Accepted
<1>u. heard # done => done # Nothing /\ (Underway \/ Acc(done) \/ Confirming)
  BY DEF UnheardInv, Accepted
\* what has to be shown
<1>q. ASSUME /\ \A i \in 1..Len(toGateway') :
                  toGateway'[i].kind = "ACK" => Num(toGateway'[i].command) <= Num(done')
             /\ pending' # Nothing => latest' # heard' /\ ~Acc2(latest')
             /\ publishing' # Nothing =>
                  /\ pending' # Nothing
                  /\ \A i \in 1..Len(toGateway') : toGateway'[i].command # latest'
             /\ FrameIn(toGateway', "NACK", latest') => ~Underway'
             /\ pending' = Nothing /\ latest' # Nothing => Acc2(latest') \/ heard' = latest' \/ ~Underway'
             /\ heard' # done' => done' # Nothing /\ (Underway' \/ Acc2(done') \/ Confirming')
      PROVE  ReturnInv' /\ UnheardInv'
  BY <1>q DEF ReturnInv, UnheardInv, InGateway, Accepted
<1>s. ASSUME SameReports \/ Tells
      PROVE  heard' = heard /\ \A c : c # Nothing => (Acc2(c) <=> Acc(c))
  BY <1>s, SameAccepted, Taken DEF SameReports
<1> HIDE DEF Acc, Acc2
<1>1. CASE Sends /\ SameReports
  <2>1. /\ UNCHANGED <<toGateway, done, heard>>
        /\ latest' # Nothing /\ latest' \notin issued /\ publishing' # Nothing /\ pending' # Nothing
    BY <1>1, <1>s, SentIsLater DEF Sends, OnCommandSent
  <2>2. ~Acc2(latest')
    <3>1. Acc2(latest') => Acc(latest')
      BY <1>1, <1>s, <2>1
    <3>2. Acc(latest') => latest' \in issued
      BY <2>1, IssuedIfAccepted DEF Acc
    <3> QED BY <2>1, <3>1, <3>2
  <2>3. ~FrameIn(toGateway', "NACK", latest')
    BY <1>t, <2>1 DEF FrameIn
  <2>4. Underway'
    BY <2>1 DEF Underway
  <2> QED BY <1>q, <1>r, <1>t, <1>u, <2>1, <2>2, <2>3, <2>4
<1>2. CASE Writes /\ SameReports
  <2>1. /\ UNCHANGED <<toGateway, done, heard, pending, latest>>
        /\ publishing # Nothing /\ publishing' = Nothing
        /\ toActuator' = toActuator => heard = done
        /\ toActuator' \in Received(toActuator, [kind |-> "CMD", command |-> publishing])
    BY <1>2, <1>s DEF Writes, WriteCommandFrame
  <2>2. toActuator' # toActuator => toActuator' # << >>
    BY <1>t, <2>1 DEF Received
  <2>3. ~FrameIn(toGateway', "NACK", latest')
    BY <1>r, <2>1 DEF FrameIn
  <2>4. heard' # done' => Underway'
    BY <2>1, <2>2 DEF Underway
  <2>5. pending # Nothing
    BY <1>r, <2>1
  <2>6. ~Acc2(latest')
    BY <1>2, <1>r, <1>s, <1>t, <2>1, <2>5
  <2> QED BY <1>q, <1>r, <1>u, <2>1, <2>3, <2>4, <2>5, <2>6
<1>3. CASE Reads /\ SameReports
  <2>1. /\ UNCHANGED <<toGateway, done, heard, pending, latest, publishing>>
        /\ toActuator # << >> /\ working' = Head(toActuator).command
    BY <1>3, <1>s DEF Reads, ReadCommand, policyVars
  <2>2. working' # Nothing
    BY <1>t, <2>1, TailFrames DEF OrderInv, KnownInv
  <2>3. Underway /\ Underway'
    BY <2>1, <2>2 DEF Underway
  <2>4. latest # Nothing => (Acc2(latest') <=> Acc(latest))
    BY <1>3, <1>s, <2>1
  <2> QED BY <1>q, <1>r, <1>t, <1>u, <2>1, <2>3, <2>4
<1>4. CASE Carries /\ SameReports
  <2> DEFINE f == [kind |-> "ACK", command |-> working]
  <2>1. /\ UNCHANGED <<heard, pending, latest, publishing, toActuator>>
        /\ working # Nothing /\ done' = working /\ working' = Nothing
        /\ toGateway' \in Received(toGateway, f) /\ toGateway' # toGateway
    BY <1>4, <1>s DEF Carries, CarryOut, policyVars
  <2>2. f \in Frame /\ f.kind = "ACK" /\ f.command = working
    BY <2>1 DEF Frame, OrderInv, TypeOK
  <2> HIDE DEF f
  <2>3. /\ \A i \in 1..Len(toGateway') :
              toGateway'[i] = f \/ (i \in 1..Len(toGateway) /\ toGateway'[i] = toGateway[i])
        /\ \E i \in 1..Len(toGateway') : toGateway'[i] = f
    <3>1. \A b \in Received(toGateway, f) :
             /\ \A i \in 1..Len(b) : b[i] = f \/ (i \in 1..Len(toGateway) /\ b[i] = toGateway[i])
             /\ b # toGateway => \E i \in 1..Len(b) : b[i] = f
      <4> SUFFICES ASSUME NEW b \in Received(toGateway, f)
                   PROVE  /\ \A i \in 1..Len(b) : b[i] = f \/ (i \in 1..Len(toGateway) /\ b[i] = toGateway[i])
                          /\ b # toGateway => \E i \in 1..Len(b) : b[i] = f
        OBVIOUS
      <4>1. CASE b = toGateway
        BY <4>1
      <4>2. CASE b = Append(toGateway, f)
        <5>1. Len(b) = Len(toGateway) + 1 /\ b[Len(toGateway) + 1] = f
              /\ \A i \in 1..Len(toGateway) : b[i] = toGateway[i]
          BY <1>t, <2>2, <4>2
        <5> QED BY <1>t, <5>1
      <4>3. CASE b = toGateway \o <<f, f>>
        <5>1. Len(b) = Len(toGateway) + 2 /\ b[Len(toGateway) + 1] = f /\ b[Len(toGateway) + 2] = f
              /\ \A i \in 1..Len(toGateway) : b[i] = toGateway[i]
          BY <1>t, <2>2, <4>3
        <5>2. \A i \in 1..Len(b) : i \in 1..Len(toGateway) \/ i = Len(toGateway) + 1 \/ i = Len(toGateway) + 2
          BY <1>t, <5>1
        <5>3. Len(toGateway) + 1 \in 1..Len(b)
          BY <1>t, <5>1
        <5> QED BY <5>1, <5>2, <5>3
      <4> QED BY <4>1, <4>2, <4>3 DEF Received
    <3> QED BY <2>1, <3>1
  <2>4. \A i \in 1..Len(toGateway') :
           toGateway'[i].kind = "ACK" => Num(toGateway'[i].command) <= Num(done')
    <3> SUFFICES ASSUME NEW i \in 1..Len(toGateway'), toGateway'[i].kind = "ACK"
                 PROVE  Num(toGateway'[i].command) <= Num(done')
      OBVIOUS
    <3>1. CASE toGateway'[i] = f
      BY <2>1, <2>2, <3>1
    <3>2. CASE i \in 1..Len(toGateway) /\ toGateway'[i] = toGateway[i]
      BY <1>r, <1>t, <3>2
    <3> QED BY <2>3, <3>1, <3>2
  <2>5. publishing' # Nothing =>
           pending' # Nothing /\ \A i \in 1..Len(toGateway') : toGateway'[i].command # latest'
    BY <1>r, <1>t, <2>1, <2>2, <2>3
  <2>6. Underway
    BY <2>1 DEF Underway
  <2>7. ~FrameIn(toGateway', "NACK", latest')
    BY <1>r, <2>1, <2>2, <2>3, <2>6 DEF FrameIn
  <2>8. latest # Nothing => (Acc2(latest') <=> Acc(latest))
    BY <1>4, <1>s, <2>1
  <2>9. heard' # done' => done' # Nothing /\ (Underway' \/ Acc2(done') \/ Confirming')
    <3> SUFFICES ASSUME heard' # done', ~Underway' PROVE Acc2(done') \/ Confirming'
      BY <2>1
    <3>1. working = latest
      BY <2>1 DEF Underway, OutwardInv
    <3>2. CASE pending = Nothing
      BY <1>r, <2>1, <2>6, <2>8, <3>1, <3>2
    <3>3. CASE pending # Nothing
      <4>1. FrameIn(toGateway', "ACK", latest')
        BY <2>1, <2>2, <2>3, <3>1 DEF FrameIn
      <4> QED BY <2>1, <2>7, <3>1, <3>3, <4>1 DEF Confirming, InGateway
    <3> QED BY <3>2, <3>3
  <2> QED BY <1>q, <1>r, <1>t, <2>1, <2>4, <2>5, <2>6, <2>7, <2>8, <2>9
<1>5. CASE Refuses /\ SameReports
  <2> DEFINE f == [kind |-> "NACK", command |-> working]
  <2>1. /\ UNCHANGED <<heard, done, pending, latest, publishing, toActuator>> /\ heard = done
        /\ working # Nothing /\ working' = Nothing /\ toActuator = << >>
        /\ toGateway' \in Received(toGateway, f)
    BY <1>5, <1>s DEF Refuses, Refuse, policyVars
  <2>2. f \in Frame /\ f.kind = "NACK" /\ f.command = working
    BY <2>1 DEF Frame, OrderInv, TypeOK
  <2> HIDE DEF f
  <2>3. \A i \in 1..Len(toGateway') :
           toGateway'[i] = f \/ (i \in 1..Len(toGateway) /\ toGateway'[i] = toGateway[i])
    BY <1>t, <2>1, <2>2, ReceivedFrames
  <2>4. \A i \in 1..Len(toGateway') :
           toGateway'[i].kind = "ACK" => Num(toGateway'[i].command) <= Num(done')
    BY <1>r, <2>1, <2>2, <2>3
  <2>5. publishing' # Nothing =>
           pending' # Nothing /\ \A i \in 1..Len(toGateway') : toGateway'[i].command # latest'
    BY <1>r, <1>t, <2>1, <2>2, <2>3
  <2>6. publishing' = Nothing => ~Underway'
    BY <2>1 DEF Underway
  <2>7. FrameIn(toGateway', "NACK", latest') => ~Underway'
    BY <2>5, <2>6 DEF FrameIn
  <2>8. latest # Nothing => (Acc2(latest') <=> Acc(latest))
    BY <1>5, <1>s, <2>1
  <2> QED BY <1>q, <1>r, <1>t, <2>1, <2>4, <2>5, <2>6, <2>7, <2>8
<1>6. CASE Restarts /\ SameReports
  <2>1. /\ UNCHANGED <<toGateway, done, heard, pending, latest, publishing>> /\ heard = done
        /\ working' = Nothing /\ toActuator' = << >>
    BY <1>6, <1>s DEF Restarts, RestartActuator, policyVars
  <2>2. publishing' = Nothing => ~Underway'
    BY <2>1 DEF Underway
  <2>3. ~Underway => publishing = Nothing
    BY DEF Underway
  <2>4. latest # Nothing => (Acc2(latest') <=> Acc(latest))
    BY <1>6, <1>s, <2>1
  <2> QED BY <1>q, <1>r, <1>t, <2>1, <2>2, <2>3, <2>4
<1>7. CASE ((Issues \/ Elsewhere) /\ SameReports) \/ Tells
  <2>1. UNCHANGED <<toGateway, done, heard, pending, latest, publishing, working, toActuator>>
    BY <1>7, <1>s DEF Issues, Execute, Elsewhere, Tells, Dispatch, vars, policyVars, actuatorVars
  <2>2. (Underway' <=> Underway) /\ (Confirming' <=> Confirming)
    BY <2>1 DEF Underway, Confirming, InGateway
  <2>3. \A c : c # Nothing => (Acc2(c) <=> Acc(c))
    BY <1>7, <1>s
  <2> QED BY <1>q, <1>r, <1>t, <1>u, <2>1, <2>2, <2>3
<1>8. CASE Reports
  <2>1. /\ UNCHANGED <<zoneBox, done, heard, latest, publishing, working, toActuator, issued>>
        /\ 1 \in 1..Len(toGateway)
        /\ \A i \in 1..Len(toGateway') : i + 1 \in 1..Len(toGateway) /\ toGateway'[i] = toGateway[i + 1]
        /\ \A i \in 1..Len(toGateway) : i # 1 =>
              i - 1 \in 1..Len(toGateway') /\ toGateway'[i - 1] = toGateway[i]
    BY <1>8, LetIn
  <2>2. Underway' <=> Underway
    BY <2>1 DEF Underway
  <2>3. \A c : Acc(c) => Acc2(c)
    BY <1>8, LetInAccepted DEF Acc, Acc2
  <2>4. /\ \A i \in 1..Len(toGateway') :
              toGateway'[i].kind = "ACK" => Num(toGateway'[i].command) <= Num(done')
        /\ (\A i \in 1..Len(toGateway) : toGateway[i].command # latest)
              => \A i \in 1..Len(toGateway') : toGateway'[i].command # latest'
    BY <1>r, <2>1
  <2>5. FrameIn(toGateway', "NACK", latest') => FrameIn(toGateway, "NACK", latest)
    BY <2>1 DEF FrameIn
  <2>6. CASE UNCHANGED <<ingress, about>>
    <3>1. pending' = pending
          /\ (pending # Nothing => toGateway[1].kind = "CMD" \/ toGateway[1].command # latest)
      BY <1>8, <2>6, LetIn, Waiting
    <3>2. \A c : Acc2(c) <=> Acc(c)
      BY <1>8, <2>6, LetInAccepted DEF Acc, Acc2
    <3>3. Confirming => Confirming'
      <4> SUFFICES ASSUME Confirming PROVE Confirming'
        OBVIOUS
      <4>1. PICK i \in 1..Len(toGateway) : toGateway[i].kind = "ACK" /\ toGateway[i].command = latest
        BY DEF Confirming, InGateway, FrameIn
      <4>2. i # 1 /\ pending # Nothing
        BY <3>1, <4>1 DEF Confirming
      <4>3. FrameIn(toGateway', "ACK", latest')
        BY <2>1, <4>1, <4>2 DEF FrameIn
      <4> QED BY <2>1, <2>5, <3>1, <4>3 DEF Confirming, InGateway
    <3> QED BY <1>q, <1>r, <1>t, <1>u, <2>1, <2>2, <2>4, <2>5, <3>1, <3>2, <3>3
  <2>7. CASE ~UNCHANGED <<ingress, about>>
    <3>1. /\ pending # Nothing /\ pending' = Nothing /\ toGateway[1].command = latest
          /\ toGateway[1].kind # "CMD" /\ latest # Nothing
      BY <1>8, <2>7, LetIn
    <3>2. publishing = Nothing
      BY <1>r, <2>1, <3>1
    <3>3. toGateway[1].kind = "ACK" => Acc2(latest)
      BY <1>8, <2>7, LetInAccepted DEF Acc2
    <3>4. toGateway[1].kind \in {"ACK", "NACK"}
      <4>1. toGateway[1] \in Frame
        BY <1>t, <2>1
      <4> QED BY <3>1, <4>1 DEF Frame
    <3>5. toGateway[1].kind = "NACK" => FrameIn(toGateway, "NACK", latest)
      BY <2>1, <3>1 DEF FrameIn
    <3>6. Confirming => Acc2(done)
      BY <3>3, <3>4, <3>5 DEF Confirming, InGateway
    <3>7. Acc2(latest') \/ heard' = latest' \/ ~Underway'
      BY <1>r, <2>1, <2>2, <3>3, <3>4, <3>5
    <3> QED BY <1>q, <1>r, <1>u, <2>1, <2>2, <2>3, <2>4, <2>5, <3>1, <3>2, <3>6, <3>7
  <2> QED BY <2>6, <2>7
<1>9. CASE Hears
  <2>1. UNCHANGED <<toGateway, done, pending, latest, publishing, working, toActuator>>
    BY <1>9 DEF Hears, vars, policyVars, actuatorVars
  <2>2. (Underway' <=> Underway) /\ (Confirming' <=> Confirming)
    BY <2>1 DEF Underway, Confirming, InGateway
  <2>3. \A c : c # Nothing => (Acc2(c) => Acc(c)) /\ (Acc(c) => Acc2(c) \/ heard' = c)
    BY <1>9, HeardAccepted DEF Acc, Acc2
  <2>4. \/ heard' = heard
        \/ /\ heard' # Nothing /\ Acc(heard') /\ Num(heard) < Num(heard') /\ Num(heard') <= Num(done)
           /\ heard' \in issued
    <3>1. 1 \in 1..Len(zoneBox) /\ heard' = IF zoneBox[1].about # Nothing THEN zoneBox[1].about ELSE heard
      BY <1>9, Heard
    <3>2. CASE zoneBox[1].about # Nothing
      BY <3>1, <3>2, AcceptedIssued DEF ToldInv, Accepted, Acc
    <3> QED BY <3>1, <3>2
  <2>5. pending # Nothing => latest # heard' /\ ~Acc2(latest')
    BY <1>r, <1>t, <2>1, <2>3, <2>4
  <2>6. pending = Nothing /\ latest # Nothing => Acc2(latest') \/ heard' = latest' \/ ~Underway'
    <3>1. heard = latest /\ latest # Nothing => heard' = heard
      BY <1>t, <2>4
    <3> QED BY <1>r, <2>1, <2>2, <2>3, <3>1
  <2>7. heard' # done' => done' # Nothing /\ (Underway' \/ Acc2(done') \/ Confirming')
    <3> SUFFICES ASSUME heard' # done PROVE done # Nothing /\ (Underway \/ Acc2(done) \/ Confirming)
      BY <2>1, <2>2
    <3>1. heard # done
      BY <1>t, <2>4
    <3> QED BY <1>u, <2>3, <3>1
  <2> QED BY <1>q, <1>r, <2>1, <2>2, <2>5, <2>6, <2>7
<1> QED BY <1>1, <1>2, <1>3, <1>4, <1>5, <1>6, <1>7, <1>8, <1>9 DEF Outward

LEMMA KnowsStep ==
    TripInv /\ TripInv' /\ OrderInv /\ CarriedInv /\ KnowsInv /\ [RoundTripNext]_allVars => KnowsInv'
<1> SUFFICES ASSUME TripInv, TripInv', OrderInv, CarriedInv, KnowsInv, [RoundTripNext]_allVars, undisturbed'
             PROVE  /\ NumbersInv' /\ OutwardInv'
                    /\ WireIdsDiffer' => ToldInv' /\ DueInv' /\ ReturnInv' /\ UnheardInv'
  BY DEF KnowsInv
<1>1. undisturbed /\ ((Outward /\ SameReports) \/ Reports \/ Tells \/ Hears)
  BY UndisturbedSteps
<1>2. NumbersInv /\ OutwardInv
  BY <1>1 DEF KnowsInv
<1>3. NumbersInv'
  BY <1>1, <1>2, NumbersStep
<1>4. OutwardInv' /\ Num(done) <= Num(done')
  BY <1>1, <1>2, OutwardStep
<1>5. ASSUME WireIdsDiffer' PROVE ToldInv' /\ DueInv' /\ ReturnInv' /\ UnheardInv'
  <2>1. issued \subseteq issued'
    BY NextActuates, LatestIsFresh
  <2>2. WireIdsDiffer
    BY <1>5, <2>1 DEF WireIdsDiffer
  <2>3. ToldInv /\ DueInv /\ ReturnInv /\ UnheardInv
    BY <1>1, <2>2 DEF KnowsInv
  <2>4. Num(done') \in Nat
    BY NumNat DEF TripInv, BeliefInv
  <2>5. ToldInv'
    BY <1>1, <1>4, <2>2, <2>3, <2>4, ToldStep
  <2>6. DueInv'
    BY <1>1, <1>2, <1>4, <2>2, <2>3, <2>4, DueStep
  <2>7. ReturnInv' /\ UnheardInv'
    BY <1>1, <1>2, <1>4, <2>2, <2>3, <2>4, ReturnStep
  <2> QED BY <2>5, <2>6, <2>7
<1> QED BY <1>3, <1>4, <1>5

\* Once nothing is on its way, and nothing has kept a confirmation from it,
\* the twinlet has heard of the last command the lamp carried out, whatever
\* got lost, was refused or repeated after that was settled.
THEOREM TwinKnows == RoundTripSpec => []UndisturbedTwinKnows
<1>1. TripInv => TypeOK
  BY DEF TripInv
<1>2. RoundTripSpec => []OrderInv
  BY IsActuation, OrderCorrect, PTL
<1>3. RoundTripSpec => []KnowsInv
  BY <1>2, TripCorrect, CarriedCorrect, KnowsAtFirst, KnowsStep, PTL DEF RoundTripSpec
<1> QED BY <1>1, <1>3, TripCorrect, QuietKnows, PTL
=============================================================================
