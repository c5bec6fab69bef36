---------------------- MODULE HeadlampActuation_proofs ----------------------
(***************************************************************************)
(* Theorems about HeadlampActuation, for every width of the wire ids, every*)
(* capacity and every number of commands, sessions and frames.             *)
(***************************************************************************)
EXTENDS HeadlampActuation, TLAPS

-----------------------------------------------------------------------------
(* Buffers.                                                                *)

\* A buffer after a frame: what it held, then only copies of that frame.
LEMMA ReceivedFrames ==
    ASSUME NEW S, NEW buffer \in Seq(S), NEW f \in S, NEW b \in Received(buffer, f)
    PROVE  /\ b \in Seq(S)
           /\ Len(buffer) <= Len(b)
           /\ \A i \in 1..Len(buffer) : b[i] = buffer[i]
           /\ \A i \in 1..Len(b) : i > Len(buffer) => b[i] = f
<1>1. CASE b = buffer
  BY <1>1
<1>2. CASE b = Append(buffer, f)
  BY <1>2
<1>3. CASE b = buffer \o <<f, f>>
  BY <1>3
<1> QED BY <1>1, <1>2, <1>3 DEF Received

\* What is taken from a buffer leaves the rest in its order.
LEMMA TailFrames ==
    ASSUME NEW S, NEW s \in Seq(S), s # << >>
    PROVE  /\ Head(s) \in S /\ Head(s) = s[1] /\ 1 \in 1..Len(s)
           /\ Tail(s) \in Seq(S) /\ Len(Tail(s)) = Len(s) - 1
           /\ \A i \in 1..Len(Tail(s)) : Tail(s)[i] = s[i + 1] /\ i + 1 \in 1..Len(s)
  OBVIOUS

\* A command on the wire is one of the policy's pairs of numbers.
LEMMA WireIdType == \A c \in Command : WireId(c) \in WireIds
  BY BoundAssumption DEF Command, WireId, WireIds

-----------------------------------------------------------------------------
(* Types.                                                                  *)

\* TypeOK is inductive as it stands.
LEMMA TypeInit == Init => TypeOK
  BY BoundAssumption DEF Init, TypeOK, Direction

LEMMA TypeStep == TypeOK /\ [Next]_vars => TypeOK'
<1> SUFFICES ASSUME TypeOK, [Next]_vars PROVE TypeOK'
  OBVIOUS
<1> USE DEF TypeOK
<1>1. ASSUME NEW direction \in Direction, Execute(direction) PROVE TypeOK'
  <2>1. [session |-> session, sequence |-> nextSequence, direction |-> direction] \in Command
    BY DEF Command
  <2> QED BY <1>1, <2>1, BoundAssumption DEF Execute, policyVars, actuatorVars
<1>2. CASE OnCommandSent
  <2>1. Head(channel) \in Command /\ Tail(channel) \in Seq(Command)
        /\ Len(Tail(channel)) <= ChannelCapacity
    BY <1>2, BoundAssumption DEF OnCommandSent
  <2>2. [id |-> WireId(Head(channel)), direction |-> Head(channel).direction] \in Pending
    BY <2>1, WireIdType DEF Pending, Command
  <2> QED BY <1>2, <2>1, <2>2 DEF OnCommandSent, actuatorVars
<1>3. CASE WriteCommandFrame
  <2> DEFINE f == [kind |-> "CMD", command |-> publishing]
  <2>1. f \in Frame
    BY <1>3 DEF WriteCommandFrame, Frame
  <2>2. toGateway' \in Seq(Frame) /\ toActuator' \in Seq(Frame)
    BY <1>3, <2>1, ReceivedFrames DEF WriteCommandFrame
  <2>3. \A i \in 1..Len(toActuator') : toActuator'[i].kind = "CMD"
    <3> SUFFICES ASSUME NEW i \in 1..Len(toActuator') PROVE toActuator'[i].kind = "CMD"
      OBVIOUS
    <3>1. toActuator'[i] = f \/ (i \in 1..Len(toActuator) /\ toActuator'[i] = toActuator[i])
      BY <1>3, <2>1, ReceivedFrames DEF WriteCommandFrame
    <3> QED BY <3>1
  <2> QED BY <1>3, <2>2, <2>3 DEF WriteCommandFrame, managerVars
<1>4. CASE ReadCommand
  <2>1. Head(toActuator) \in Frame /\ Tail(toActuator) \in Seq(Frame)
        /\ \A i \in 1..Len(Tail(toActuator)) :
              Tail(toActuator)[i] = toActuator[i + 1] /\ i + 1 \in 1..Len(toActuator)
    BY <1>4, TailFrames DEF ReadCommand
  <2> QED BY <1>4, <2>1 DEF ReadCommand, Frame, managerVars, policyVars
<1>5. CASE Respond
  <2>1. [kind |-> "ACK", command |-> working] \in Frame
        /\ [kind |-> "NACK", command |-> working] \in Frame
    BY <1>5 DEF Respond, CarryOut, Refuse, Frame
  <2>2. toGateway' \in Seq(Frame)
    BY <1>5, <2>1, ReceivedFrames DEF Respond, CarryOut, Refuse
  <2>3. lit' \in Direction
    BY <1>5 DEF Respond, CarryOut, Refuse, Command
  <2> QED BY <1>5, <2>2, <2>3 DEF Respond, CarryOut, Refuse, managerVars, policyVars
<1>6. CASE RestartActuator
  BY <1>6 DEF RestartActuator, managerVars, policyVars
<1>7. CASE OnResponse
  <2>1. Head(toGateway) \in Frame /\ Tail(toGateway) \in Seq(Frame)
    BY <1>7 DEF OnResponse
  <2>2. CASE Answers(Head(toGateway))
    <3> DEFINE r == [direction |-> pending.direction, confirmed |-> Head(toGateway).kind = "ACK"]
    <3>1. pending.direction \in Direction
      BY <2>2 DEF Answers, Pending
    <3>2. (Head(toGateway).kind = "ACK") \in BOOLEAN
      OBVIOUS
    <3>3. r \in Response
      BY <3>1, <3>2, Zenon DEF Response
    <3>4. ingress' = Append(ingress, r) /\ pending' = Nothing
      BY <1>7, <2>2, Zenon DEF OnResponse, Accept
    <3> HIDE DEF r
    <3>5. ingress' \in Seq(Response)
      BY <3>3, <3>4
    <3> QED BY <1>7, <2>1, <3>4, <3>5 DEF OnResponse, managerVars, actuatorVars
  <2>3. CASE ~Answers(Head(toGateway))
    BY <1>7, <2>1, <2>3 DEF OnResponse, managerVars, actuatorVars
  <2> QED BY <2>2, <2>3
<1>8. CASE Dispatch
  BY <1>8 DEF Dispatch, managerVars, policyVars, actuatorVars
<1>9. CASE RestartGateway
  <2>1. session' \in Nat
    BY <1>9, BoundAssumption DEF RestartGateway
  <2> QED BY <1>9, <2>1, BoundAssumption DEF RestartGateway, actuatorVars
<1>10. CASE UNCHANGED vars
  BY <1>10 DEF vars, managerVars, policyVars, actuatorVars
<1> QED BY <1>1, <1>2, <1>3, <1>4, <1>5, <1>6, <1>7, <1>8, <1>9, <1>10 DEF Next

\* The types hold in every behaviour, whatever the constants are.
THEOREM TypeCorrect == Spec => []TypeOK
<1>1. Init => TypeOK
  BY TypeInit
<1>2. TypeOK /\ [Next]_vars => TypeOK'
  BY TypeStep
<1> QED BY <1>1, <1>2, PTL DEF Spec
-----------------------------------------------------------------------------
(* Only commands that were recorded are on their way, and what is pending  *)
(* is the last of them.                                                    *)

KnownInv ==
    /\ pending # Nothing =>
          /\ latest # Nothing
          /\ pending = [id |-> WireId(latest), direction |-> latest.direction]
    /\ latest # Nothing => latest \in issued
    /\ publishing # Nothing => publishing \in issued
    /\ working # Nothing => working \in issued
    /\ \A i \in 1..Len(toActuator) : toActuator[i].command \in issued
    /\ \A i \in 1..Len(toGateway) : toGateway[i].command \in issued

(* A command that waits in the channel has not been recorded, and the last *)
(* one recorded is the last to be carried out: nothing older comes after   *)
(* it at the actuator, and once it is confirmed nothing else is there.     *)

FreshInv ==
    /\ \A i \in 1..Len(channel) :
          channel[i].session = session /\ channel[i].sequence < nextSequence
    /\ \A i, j \in 1..Len(channel) : i < j => channel[i].sequence < channel[j].sequence
    /\ \A c \in issued :
          /\ c.session <= session
          /\ c.session = session =>
                /\ c.sequence < nextSequence
                /\ \A i \in 1..Len(channel) : c.sequence < channel[i].sequence

ConfirmedAt(i) == toGateway[i].kind = "ACK" /\ toGateway[i].command = latest

LastInv ==
    /\ \A i, j \in 1..Len(toActuator) :
          i <= j /\ toActuator[i].command = latest => toActuator[j].command = latest
    /\ working # Nothing /\ working = latest =>
          \A i \in 1..Len(toActuator) : toActuator[i].command = latest
    /\ publishing # Nothing =>
          /\ publishing = latest
          /\ working # latest
          /\ \A i \in 1..Len(toActuator) : toActuator[i].command # latest
    /\ \A i \in 1..Len(toGateway) : ConfirmedAt(i) =>
          /\ lit = latest.direction
          /\ publishing = Nothing
          /\ working \in {Nothing, latest}
          /\ \A j \in 1..Len(toActuator) : toActuator[j].command = latest

OrderInv == TypeOK /\ KnownInv /\ FreshInv /\ LastInv

\* Nothing is sent, recorded or on its way at first.
LEMMA OrderInit == Init => KnownInv /\ FreshInv /\ LastInv
  BY BoundAssumption DEF Init, KnownInv, FreshInv, LastInv

\* Every frame is about a recorded command, and pending is the last one.
LEMMA KnownStep == TypeOK /\ KnownInv /\ [Next]_vars => KnownInv'
<1> SUFFICES ASSUME TypeOK, KnownInv, [Next]_vars PROVE KnownInv'
  OBVIOUS
<1> USE DEF TypeOK, KnownInv
<1>1. ASSUME NEW direction \in Direction, Execute(direction) PROVE KnownInv'
  BY <1>1 DEF Execute, policyVars, actuatorVars
<1>2. CASE OnCommandSent
  <2>1. Head(channel) \in Command /\ Head(channel) # Nothing
    BY <1>2, NothingAssumption DEF OnCommandSent
  <2> QED BY <1>2, <2>1 DEF OnCommandSent, actuatorVars
<1>3. CASE WriteCommandFrame
  <2> DEFINE f == [kind |-> "CMD", command |-> publishing]
  <2>1. f \in Frame
    BY <1>3 DEF WriteCommandFrame, Frame
  <2>2. \A i \in 1..Len(toGateway') :
          toGateway'[i] = f \/ (i \in 1..Len(toGateway) /\ toGateway'[i] = toGateway[i])
    BY <1>3, <2>1, ReceivedFrames DEF WriteCommandFrame
  <2>3. \A i \in 1..Len(toActuator') :
          toActuator'[i] = f \/ (i \in 1..Len(toActuator) /\ toActuator'[i] = toActuator[i])
    BY <1>3, <2>1, ReceivedFrames DEF WriteCommandFrame
  <2>4. /\ pending' = pending /\ latest' = latest /\ issued' = issued /\ working' = working
        /\ publishing' = Nothing /\ f.command \in issued
    BY <1>3 DEF WriteCommandFrame
  <2> HIDE DEF f
  <2> QED BY <2>2, <2>3, <2>4
<1>4. CASE ReadCommand
  <2>1. Head(toActuator) = toActuator[1] /\ 1 \in 1..Len(toActuator)
        /\ \A i \in 1..Len(Tail(toActuator)) :
              Tail(toActuator)[i] = toActuator[i + 1] /\ i + 1 \in 1..Len(toActuator)
    BY <1>4, TailFrames DEF ReadCommand
  <2> QED BY <1>4, <2>1 DEF ReadCommand, managerVars, policyVars
<1>5. CASE Respond
  <2>1. PICK f \in Frame : f.command = working /\ toGateway' \in Received(toGateway, f)
    <3>1. [kind |-> "ACK", command |-> working] \in Frame
          /\ [kind |-> "NACK", command |-> working] \in Frame
      BY <1>5 DEF Respond, CarryOut, Refuse, Frame
    <3> QED BY <1>5, <3>1 DEF Respond, CarryOut, Refuse
  <2>2. \A i \in 1..Len(toGateway') :
          toGateway'[i] = f \/ (i \in 1..Len(toGateway) /\ toGateway'[i] = toGateway[i])
    BY <2>1, ReceivedFrames
  <2> QED BY <1>5, <2>1, <2>2 DEF Respond, CarryOut, Refuse, managerVars, policyVars
<1>6. CASE RestartActuator
  BY <1>6 DEF RestartActuator, managerVars, policyVars
<1>7. CASE OnResponse
  <2>1. \A i \in 1..Len(Tail(toGateway)) :
              Tail(toGateway)[i] = toGateway[i + 1] /\ i + 1 \in 1..Len(toGateway)
    BY <1>7, TailFrames DEF OnResponse
  <2>2. pending' \in {pending, Nothing}
    BY <1>7 DEF OnResponse, Accept
  <2> QED BY <1>7, <2>1, <2>2 DEF OnResponse, managerVars, actuatorVars
<1>8. CASE Dispatch
  BY <1>8 DEF Dispatch, managerVars, policyVars, actuatorVars
<1>9. CASE RestartGateway
  BY <1>9 DEF RestartGateway, actuatorVars
<1>10. CASE UNCHANGED vars
  BY <1>10 DEF vars, managerVars, policyVars, actuatorVars
<1> QED BY <1>1, <1>2, <1>3, <1>4, <1>5, <1>6, <1>7, <1>8, <1>9, <1>10 DEF Next

\* Sequence numbers grow along the channel, and sessions with the clock.
LEMMA FreshStep == TypeOK /\ FreshInv /\ [Next]_vars => FreshInv'
<1> SUFFICES ASSUME TypeOK, FreshInv, [Next]_vars PROVE FreshInv'
  OBVIOUS
<1> USE DEF TypeOK, FreshInv
<1>1. ASSUME NEW direction \in Direction, Execute(direction) PROVE FreshInv'
  <2> DEFINE c == [session |-> session, sequence |-> nextSequence, direction |-> direction]
  <2>1. c \in Command
    BY DEF Command
  <2>2. Len(channel') = Len(channel) + 1
        /\ \A i \in 1..Len(channel') :
              channel'[i] = IF i <= Len(channel) THEN channel[i] ELSE c
    BY <1>1, <2>1 DEF Execute
  <2>3. nextSequence' = nextSequence + 1 /\ session' = session /\ issued' = issued
    BY <1>1 DEF Execute, policyVars
  <2>4. c.session = session /\ c.sequence = nextSequence
    OBVIOUS
  <2> HIDE DEF c
  <2>5. \A i \in 1..Len(channel) : channel[i].sequence \in Nat
    <3>1. \A i \in 1..Len(channel) : channel[i] \in Command
      OBVIOUS
    <3> QED BY <3>1 DEF Command
  <2>6. \A i \in 1..Len(channel') :
            channel'[i].session = session' /\ channel'[i].sequence < nextSequence'
    BY <2>2, <2>3, <2>4, <2>5
  <2>7. \A i, j \in 1..Len(channel') : i < j => channel'[i].sequence < channel'[j].sequence
    <3> SUFFICES ASSUME NEW i \in 1..Len(channel'), NEW j \in 1..Len(channel'), i < j
                 PROVE  channel'[i].sequence < channel'[j].sequence
      OBVIOUS
    <3>1. Len(channel) \in Nat
      OBVIOUS
    <3>2. i \in 1..Len(channel) /\ channel'[i] = channel[i]
      BY <2>2, <3>1
    <3>3. CASE j <= Len(channel)
      <4>1. j \in 1..Len(channel) /\ channel'[j] = channel[j]
        BY <2>2, <3>1, <3>3
      <4> QED BY <3>2, <4>1
    <3>4. CASE ~(j <= Len(channel))
      <4>1. channel'[j] = c
        BY <2>2, <3>4
      <4> QED BY <2>4, <3>2, <4>1
    <3> QED BY <3>3, <3>4
  <2>8. \A d \in issued' :
          /\ d.session <= session'
          /\ d.session = session' =>
                /\ d.sequence < nextSequence'
                /\ \A i \in 1..Len(channel') : d.sequence < channel'[i].sequence
    <3> SUFFICES ASSUME NEW d \in issued
                 PROVE  /\ d.session <= session
                        /\ d.session = session =>
                              /\ d.sequence < nextSequence + 1
                              /\ \A i \in 1..Len(channel') : d.sequence < channel'[i].sequence
      BY <2>3
    <3>1. d.sequence \in Nat
      BY DEF Command
    <3>2. /\ d.session <= session
          /\ d.session = session =>
                /\ d.sequence < nextSequence
                /\ \A i \in 1..Len(channel) : d.sequence < channel[i].sequence
      OBVIOUS
    <3>3. ASSUME d.session = session, NEW i \in 1..Len(channel')
          PROVE  d.sequence < channel'[i].sequence
      <4>1. CASE i <= Len(channel)
        <5>1. i \in 1..Len(channel) /\ channel'[i] = channel[i]
          BY <2>2, <4>1
        <5> QED BY <3>2, <3>3, <5>1
      <4>2. CASE ~(i <= Len(channel))
        BY <2>2, <2>4, <3>2, <3>3, <4>2
      <4> QED BY <4>1, <4>2
    <3> QED BY <3>1, <3>2, <3>3
  <2> QED BY <2>6, <2>7, <2>8
<1>2. CASE OnCommandSent
  <2>1. Head(channel) = channel[1] /\ 1 \in 1..Len(channel)
        /\ \A i \in 1..Len(Tail(channel)) :
              Tail(channel)[i] = channel[i + 1] /\ i + 1 \in 1..Len(channel) /\ 1 < i + 1
    BY <1>2, TailFrames DEF OnCommandSent
  <2>2. \A i \in 1..Len(channel) : channel[i] \in Command
    OBVIOUS
  <2> QED BY <1>2, <2>1, <2>2 DEF OnCommandSent, Command
<1>3. CASE WriteCommandFrame
  BY <1>3 DEF WriteCommandFrame, managerVars
<1>4. CASE ReadCommand
  BY <1>4 DEF ReadCommand, managerVars, policyVars
<1>5. CASE Respond
  BY <1>5 DEF Respond, CarryOut, Refuse, managerVars, policyVars
<1>6. CASE RestartActuator
  BY <1>6 DEF RestartActuator, managerVars, policyVars
<1>7. CASE OnResponse
  BY <1>7 DEF OnResponse, managerVars
<1>8. CASE Dispatch
  BY <1>8 DEF Dispatch, managerVars, policyVars
<1>9. CASE RestartGateway
  BY <1>9, BoundAssumption DEF RestartGateway, Command
<1>10. CASE UNCHANGED vars
  BY <1>10 DEF vars, managerVars, policyVars
<1> QED BY <1>1, <1>2, <1>3, <1>4, <1>5, <1>6, <1>7, <1>8, <1>9, <1>10 DEF Next

\* A command at the head of the channel has not been recorded before.
LEMMA HeadIsFresh == TypeOK /\ FreshInv /\ channel # << >> => Head(channel) \notin issued
<1> SUFFICES ASSUME TypeOK, FreshInv, channel # << >>, Head(channel) \in issued PROVE FALSE
  OBVIOUS
<1>1. Head(channel) = channel[1] /\ 1 \in 1..Len(channel) /\ channel[1].sequence \in Nat
  BY DEF TypeOK, Command
<1> QED BY <1>1 DEF FreshInv

\* The last command recorded stays the last one to be carried out.
LEMMA LastStep == OrderInv /\ [Next]_vars => LastInv'
<1> SUFFICES ASSUME OrderInv, [Next]_vars PROVE LastInv'
  OBVIOUS
<1>a. TypeOK /\ KnownInv /\ FreshInv /\ LastInv
  BY DEF OrderInv
<1>b. /\ \A i \in 1..Len(toActuator) : toActuator[i].command \in Command
      /\ \A i \in 1..Len(toGateway) : toGateway[i].command \in Command
  <2>1. \A i \in 1..Len(toActuator) : toActuator[i] \in Frame
    BY <1>a DEF TypeOK
  <2>2. \A i \in 1..Len(toGateway) : toGateway[i] \in Frame
    BY <1>a DEF TypeOK
  <2> QED BY <2>1, <2>2 DEF Frame
<1>c. Nothing \notin Command
  BY NothingAssumption
<1>1. ASSUME NEW direction \in Direction, Execute(direction) PROVE LastInv'
  BY <1>a, <1>1 DEF Execute, policyVars, actuatorVars, LastInv, ConfirmedAt
<1>2. CASE OnCommandSent
  <2>1. Head(channel) \notin issued /\ Head(channel) \in Command
    BY <1>2, <1>a, HeadIsFresh DEF OnCommandSent, TypeOK
  <2>2. /\ latest' = Head(channel) /\ publishing' = Head(channel)
        /\ working' = working /\ toActuator' = toActuator /\ toGateway' = toGateway
    BY <1>2 DEF OnCommandSent, actuatorVars
  <2>3. /\ working # Head(channel)
        /\ \A i \in 1..Len(toActuator) : toActuator[i].command # Head(channel)
        /\ \A i \in 1..Len(toGateway) : toGateway[i].command # Head(channel)
    BY <1>a, <1>c, <2>1 DEF KnownInv
  <2> QED BY <2>2, <2>3 DEF LastInv, ConfirmedAt
<1>3. CASE WriteCommandFrame
  <2> DEFINE f == [kind |-> "CMD", command |-> publishing]
  <2>1. f \in Frame
    BY <1>3, <1>a DEF WriteCommandFrame, Frame, TypeOK
  <2>2. /\ \A i \in 1..Len(toGateway') :
             toGateway'[i] = f \/ (i \in 1..Len(toGateway) /\ toGateway'[i] = toGateway[i])
        /\ \A i \in 1..Len(toActuator') :
             toActuator'[i] = f \/ (i \in 1..Len(toActuator) /\ toActuator'[i] = toActuator[i])
        /\ \A i \in 1..Len(toActuator') : i > Len(toActuator) => toActuator'[i] = f
    BY <1>3, <1>a, <2>1, ReceivedFrames DEF WriteCommandFrame, TypeOK
  <2>3. /\ publishing # Nothing /\ publishing' = Nothing /\ working' = working
        /\ latest' = latest /\ lit' = lit
    BY <1>3 DEF WriteCommandFrame
  <2>4. /\ publishing = latest /\ working # latest
        /\ \A i \in 1..Len(toActuator) : toActuator[i].command # latest
    BY <1>a, <2>3 DEF LastInv
  <2>5. \A i \in 1..Len(toGateway) : ~ConfirmedAt(i)
    BY <1>a, <2>3 DEF LastInv
  <2>6. f.kind = "CMD" /\ f.command = latest
    BY <2>4
  <2> HIDE DEF f
  <2>7. \A i, j \in 1..Len(toActuator') :
          i <= j /\ toActuator'[i].command = latest => toActuator'[j].command = latest
    <3> SUFFICES ASSUME NEW i \in 1..Len(toActuator'), NEW j \in 1..Len(toActuator'),
                        i <= j, toActuator'[i].command = latest
                 PROVE  toActuator'[j].command = latest
      OBVIOUS
    <3>1. ~(i \in 1..Len(toActuator) /\ toActuator'[i] = toActuator[i])
      BY <2>4
    <3>2. toActuator'[i] = f
      BY <2>2, <3>1
    <3>3. CASE j > Len(toActuator)
      BY <2>2, <2>6, <3>3
    <3>4. CASE ~(j > Len(toActuator))
      <4>1. Len(toActuator) \in Nat
        BY <1>a DEF TypeOK
      <4>2. i \in 1..Len(toActuator) /\ Len(toActuator) <= Len(toActuator')
            /\ toActuator'[i] = toActuator[i]
        BY <1>3, <1>a, <2>1, <3>4, <4>1, ReceivedFrames DEF WriteCommandFrame, TypeOK, f
      <4> QED BY <3>1, <4>2
    <3> QED BY <3>3, <3>4
  <2>8. \A i \in 1..Len(toGateway') :
          ~(toGateway'[i].kind = "ACK" /\ toGateway'[i].command = latest)
    BY <2>2, <2>5, <2>6 DEF ConfirmedAt
  <2> QED BY <2>3, <2>4, <2>7, <2>8 DEF LastInv, ConfirmedAt
<1>4. CASE ReadCommand
  <2>1. /\ working = Nothing /\ working' = toActuator[1].command /\ 1 \in 1..Len(toActuator)
        /\ \A i \in 1..Len(toActuator') :
              toActuator'[i] = toActuator[i + 1] /\ i + 1 \in 1..Len(toActuator)
    BY <1>4, <1>a, TailFrames DEF ReadCommand, TypeOK
  <2>2. /\ latest' = latest /\ publishing' = publishing /\ toGateway' = toGateway /\ lit' = lit
    BY <1>4 DEF ReadCommand, policyVars
  <2>3. \A i, j \in 1..Len(toActuator') :
          i <= j /\ toActuator'[i].command = latest => toActuator'[j].command = latest
    BY <1>a, <2>1 DEF LastInv
  <2>4. working' = latest => \A i \in 1..Len(toActuator') : toActuator'[i].command = latest
    <3> SUFFICES ASSUME working' = latest, NEW i \in 1..Len(toActuator')
                 PROVE  toActuator'[i].command = latest
      OBVIOUS
    <3>1. toActuator[1].command = latest /\ 1 <= i + 1
      BY <2>1
    <3>2. toActuator[i + 1].command = latest
      BY <1>a, <2>1, <3>1 DEF LastInv
    <3> QED BY <2>1, <3>2
  <2>5. publishing # Nothing =>
          /\ publishing = latest
          /\ working' # latest
          /\ \A i \in 1..Len(toActuator') : toActuator'[i].command # latest
    BY <1>a, <2>1 DEF LastInv
  <2>6. \A i \in 1..Len(toGateway) : ConfirmedAt(i) =>
          /\ lit = latest.direction
          /\ publishing = Nothing
          /\ working' = latest
          /\ \A j \in 1..Len(toActuator') : toActuator'[j].command = latest
    BY <1>a, <2>1 DEF LastInv
  <2> QED BY <2>2, <2>3, <2>4, <2>5, <2>6 DEF LastInv, ConfirmedAt
<1>5. CASE Respond
  <2>1. PICK f \in Frame :
          /\ f.command = working /\ toGateway' \in Received(toGateway, f)
          /\ f.kind = "ACK" => lit' = working.direction
          /\ f.kind # "ACK" => lit' = lit
    <3>1. [kind |-> "ACK", command |-> working] \in Frame
          /\ [kind |-> "NACK", command |-> working] \in Frame
      BY <1>5, <1>a DEF Respond, CarryOut, Refuse, Frame, TypeOK
    <3> QED BY <1>5, <3>1 DEF Respond, CarryOut, Refuse
  <2>2. \A i \in 1..Len(toGateway') :
          toGateway'[i] = f \/ (i \in 1..Len(toGateway) /\ toGateway'[i] = toGateway[i])
    BY <1>a, <2>1, ReceivedFrames DEF TypeOK
  <2>3. /\ working # Nothing /\ working' = Nothing /\ toActuator' = toActuator
        /\ latest' = latest /\ publishing' = publishing
    BY <1>5 DEF Respond, CarryOut, Refuse, policyVars
  <2>4. \A i \in 1..Len(toGateway') :
          toGateway'[i].kind = "ACK" /\ toGateway'[i].command = latest =>
             /\ lit' = latest.direction
             /\ publishing = Nothing
             /\ \A j \in 1..Len(toActuator) : toActuator[j].command = latest
    <3> SUFFICES ASSUME NEW i \in 1..Len(toGateway'),
                        toGateway'[i].kind = "ACK", toGateway'[i].command = latest
                 PROVE  /\ lit' = latest.direction
                        /\ publishing = Nothing
                        /\ \A j \in 1..Len(toActuator) : toActuator[j].command = latest
      OBVIOUS
    <3>1. CASE toGateway'[i] = f
      <4>1. working = latest /\ lit' = latest.direction
        BY <2>1, <3>1
      <4> QED BY <1>a, <2>3, <4>1 DEF LastInv
    <3>2. CASE i \in 1..Len(toGateway) /\ toGateway'[i] = toGateway[i]
      <4>1. ConfirmedAt(i)
        BY <3>2 DEF ConfirmedAt
      <4>2. /\ lit = latest.direction /\ publishing = Nothing /\ working = latest
            /\ \A j \in 1..Len(toActuator) : toActuator[j].command = latest
        BY <1>a, <2>3, <3>2, <4>1 DEF LastInv
      <4> QED BY <2>1, <4>2
    <3> QED BY <2>2, <3>1, <3>2
  <2>5. publishing # Nothing => publishing = latest /\ latest # Nothing
        /\ \A i \in 1..Len(toActuator) : toActuator[i].command # latest
    BY <1>a DEF LastInv
  <2> QED BY <1>a, <2>3, <2>4, <2>5 DEF LastInv, ConfirmedAt
<1>6. CASE RestartActuator
  <2>1. publishing # Nothing => publishing = latest /\ latest # Nothing
    BY <1>a DEF LastInv
  <2> QED BY <1>a, <1>6, <2>1 DEF RestartActuator, policyVars, LastInv, ConfirmedAt
<1>7. CASE OnResponse
  <2>1. \A i \in 1..Len(toGateway') :
              toGateway'[i] = toGateway[i + 1] /\ i + 1 \in 1..Len(toGateway)
    BY <1>7, <1>a, TailFrames DEF OnResponse, TypeOK
  <2>2. /\ latest' = latest /\ publishing' = publishing /\ working' = working
        /\ toActuator' = toActuator /\ lit' = lit
    BY <1>7 DEF OnResponse, actuatorVars
  <2> QED BY <1>a, <2>1, <2>2 DEF LastInv, ConfirmedAt
<1>8. CASE Dispatch
  BY <1>a, <1>8 DEF Dispatch, policyVars, actuatorVars, LastInv, ConfirmedAt
<1>9. CASE RestartGateway
  <2>1. latest' = Nothing /\ publishing' = Nothing /\ toGateway' = << >>
        /\ toActuator' = toActuator /\ working' = working
    BY <1>9 DEF RestartGateway, actuatorVars
  <2> QED BY <1>b, <1>c, <2>1 DEF LastInv, ConfirmedAt
<1>10. CASE UNCHANGED vars
  BY <1>a, <1>10 DEF vars, policyVars, actuatorVars, LastInv, ConfirmedAt
<1> QED BY <1>1, <1>2, <1>3, <1>4, <1>5, <1>6, <1>7, <1>8, <1>9, <1>10 DEF Next

\* The inductive invariant holds in every behaviour.
LEMMA OrderCorrect == Spec => []OrderInv
<1>1. Init => OrderInv
  BY TypeInit, OrderInit DEF OrderInv
<1>2. OrderInv /\ [Next]_vars => OrderInv'
  BY TypeStep, KnownStep, FreshStep, LastStep DEF OrderInv
<1> QED BY <1>1, <1>2, PTL DEF Spec

-----------------------------------------------------------------------------
(* When the ids on the wire differ.                                        *)

UniqueInv ==
    \A c, d \in issued : c.session = d.session /\ c.sequence = d.sequence => c = d

LEMMA UniqueStep == OrderInv /\ UniqueInv /\ [Next]_vars => UniqueInv'
<1> SUFFICES ASSUME OrderInv, UniqueInv, [Next]_vars PROVE UniqueInv'
  OBVIOUS
<1>1. CASE OnCommandSent
  <2>1. Head(channel) = channel[1] /\ 1 \in 1..Len(channel) /\ channel[1] \in Command
    BY <1>1, TailFrames DEF OnCommandSent, OrderInv, TypeOK
  <2>2. issued' = issued \cup {channel[1]}
    BY <1>1, <2>1 DEF OnCommandSent
  <2>3. \A c \in issued : ~(c.session = channel[1].session /\ c.sequence = channel[1].sequence)
    <3> SUFFICES ASSUME NEW c \in issued, c.session = channel[1].session, c.sequence = channel[1].sequence
                 PROVE  FALSE
      OBVIOUS
    <3>1. c.sequence < channel[1].sequence /\ channel[1].sequence \in Nat
      BY <2>1 DEF OrderInv, FreshInv, Command
    <3> QED BY <3>1
  <2> QED BY <2>2, <2>3 DEF UniqueInv
<1>2. CASE issued' = issued
  BY <1>2 DEF UniqueInv
<1>3. CASE ~OnCommandSent
  <2>1. issued' = issued
    BY <1>3 DEF Next, Execute, WriteCommandFrame, ReadCommand, Respond, CarryOut, Refuse, RestartActuator,
       OnResponse, Dispatch, RestartGateway, vars, policyVars
  <2> QED BY <1>2, <2>1
<1> QED BY <1>1, <1>3

\* What fits its width is not changed by the cut.
LEMMA Uncut == \A m \in Nat \ {0}, n \in Nat : n < m => n % m = n
  OBVIOUS

\* No process has numbered more commands than the frame has numbers for.
NumbersFit == \A c \in issued : c.sequence < SequenceModulus

\* The clocks at which two gateway processes started differ in the bits that
\* the frame carries.
ClocksTellApart ==
    \A c, d \in issued :
       c.session # d.session => c.session % SessionModulus # d.session % SessionModulus

\* The correlation id of a command is its own: execute numbers the commands of
\* a process, and a later process has a later session.  On the wire two
\* commands look alike only if a process has numbered more of them than the
\* frame has numbers for, or if the low bits of the clocks of two processes
\* happen to agree; within one process only the former.
THEOREM WideIdsDiffer ==
    Spec => [](UniqueInv /\ (NumbersFit /\ ClocksTellApart => WireIdsDiffer))
<1>1. Init => UniqueInv
  BY DEF Init, UniqueInv
<1>2. OrderInv /\ UniqueInv =>
         UniqueInv /\ (NumbersFit /\ ClocksTellApart => WireIdsDiffer)
  <2> SUFFICES ASSUME OrderInv, UniqueInv, NumbersFit, ClocksTellApart,
                      NEW c \in issued, NEW d \in issued, WireId(c) = WireId(d)
               PROVE  c = d
    BY DEF WireIdsDiffer
  <2>1. c \in Command /\ d \in Command
    BY DEF OrderInv, TypeOK
  <2>2. /\ c.session % SessionModulus = d.session % SessionModulus
        /\ c.sequence % SequenceModulus = d.sequence % SequenceModulus
    BY DEF WireId
  <2>3. c.session = d.session
    BY <2>2 DEF ClocksTellApart
  <2>4. c.sequence = d.sequence
    BY <2>1, <2>2, Uncut, BoundAssumption DEF Command, NumbersFit
  <2> QED BY <2>3, <2>4 DEF UniqueInv
<1> QED BY <1>1, <1>2, UniqueStep, OrderCorrect, PTL DEF Spec

-----------------------------------------------------------------------------
(* What is let in.                                                         *)

\* on_response lets in a response to the command recorded last only, as long
\* as no two commands look alike on the wire.
THEOREM AnswersLatestCorrect == Spec => AnswersLatest
<1>1. ASSUME OrderInv, OnResponse, Answers(Head(toGateway)), WireIdsDiffer
      PROVE  Head(toGateway).command = latest
  <2>1. Head(toGateway).command \in issued
    BY <1>1, TailFrames DEF OrderInv, TypeOK, KnownInv, OnResponse
  <2>2. latest \in issued /\ WireId(latest) = WireId(Head(toGateway).command)
    BY <1>1 DEF OrderInv, KnownInv, Answers
  <2> QED BY <1>1, <2>1, <2>2 DEF WireIdsDiffer
<1>2. OrderInv => [OnResponse /\ Answers(Head(toGateway)) /\ WireIdsDiffer
                     => Head(toGateway).command = latest]_vars
  BY <1>1
<1> QED BY <1>2, OrderCorrect, PTL DEF AnswersLatest

\* A confirmation that is let in tells the truth about the lamp, as long as
\* no two commands look alike on the wire.
THEOREM ConfirmedLampCorrect == Spec => ConfirmedLampIsSet
<1>1. ASSUME OrderInv, OnResponse, Answers(Head(toGateway)), Head(toGateway).kind = "ACK",
             WireIdsDiffer
      PROVE  lit = Head(toGateway).command.direction
  <2>1. Head(toGateway) = toGateway[1] /\ 1 \in 1..Len(toGateway)
    BY <1>1, TailFrames DEF OrderInv, TypeOK, OnResponse
  <2>2. Head(toGateway).command \in issued
    BY <1>1, <2>1 DEF OrderInv, KnownInv
  <2>3. latest \in issued /\ WireId(latest) = WireId(Head(toGateway).command)
    BY <1>1 DEF OrderInv, KnownInv, Answers
  <2>4. Head(toGateway).command = latest
    BY <1>1, <2>2, <2>3 DEF WireIdsDiffer
  <2> QED BY <1>1, <2>1, <2>4 DEF OrderInv, LastInv, ConfirmedAt
<1>2. OrderInv => [OnResponse /\ Answers(Head(toGateway)) /\ Head(toGateway).kind = "ACK"
                     /\ WireIdsDiffer => lit = Head(toGateway).command.direction]_vars
  BY <1>1
<1> QED BY <1>2, OrderCorrect, PTL DEF ConfirmedLampIsSet

-----------------------------------------------------------------------------
(* The implementation of CommandFeedback.  It needs types only: the policy *)
(* forgets a command when it is answered, whatever is on the bus.          *)

\* Every step is one of CommandFeedback, or leaves what it speaks of alone.
LEMMA NextFeedsBack == TypeOK /\ [Next]_vars => [Feedback!Next]_(Feedback!vars)
<1> SUFFICES ASSUME TypeOK, [Next]_vars PROVE [Feedback!Next]_(Feedback!vars)
  OBVIOUS
<1> DEFINE awaiting == IF pending = Nothing THEN Nothing ELSE pending.direction
<1>a. \A d \in Direction : d # Nothing
  BY NothingAssumption
<1>b. \A p \in Pending : p # Nothing /\ p.direction \in Direction
  BY NothingAssumption DEF Pending
<1>c. ASSUME UNCHANGED <<pending, ingress>> PROVE [Feedback!Next]_(Feedback!vars)
  BY <1>c DEF Feedback!vars
<1>1. ASSUME NEW direction \in Direction, Execute(direction)
      PROVE  [Feedback!Next]_(Feedback!vars)
  BY <1>1, <1>c DEF Execute, policyVars
<1>2. CASE OnCommandSent
  <2>1. Head(channel) \in Command
    BY <1>2 DEF OnCommandSent, TypeOK
  <2>2. pending' \in Pending /\ pending'.direction = Head(channel).direction
        /\ Head(channel).direction \in Direction
    BY <1>2, <2>1, WireIdType DEF OnCommandSent, Pending, Command
  <2>3. Feedback!Send(Head(channel).direction)
    BY <1>2, <1>b, <2>2 DEF OnCommandSent, Feedback!Send
  <2> QED BY <2>2, <2>3 DEF Feedback!Next
<1>3. CASE WriteCommandFrame
  BY <1>3, <1>c DEF WriteCommandFrame
<1>4. CASE ReadCommand
  BY <1>4, <1>c DEF ReadCommand, policyVars
<1>5. CASE Respond
  BY <1>5, <1>c DEF Respond, CarryOut, Refuse, policyVars
<1>6. CASE RestartActuator
  BY <1>6, <1>c DEF RestartActuator, policyVars
<1>7. CASE OnResponse
  <2>1. CASE Answers(Head(toGateway))
    <3>1. awaiting = pending.direction /\ awaiting # Nothing /\ awaiting' = Nothing
      BY <1>7, <2>1, <1>a, <1>b DEF OnResponse, Answers, Accept, TypeOK
    <3>2. ingress' = Append(ingress, [direction |-> pending.direction,
                                      confirmed |-> Head(toGateway).kind = "ACK"])
      BY <1>7, <2>1, Zenon DEF OnResponse, Accept
    <3>3. Feedback!Answer(Head(toGateway).kind = "ACK")
      BY <3>1, <3>2, Zenon DEF Feedback!Answer
    <3>4. (Head(toGateway).kind = "ACK") \in BOOLEAN
      OBVIOUS
    <3> QED BY <3>3, <3>4, Zenon DEF Feedback!Next
  <2>2. CASE ~Answers(Head(toGateway))
    BY <1>7, <1>c, <2>2 DEF OnResponse
  <2> QED BY <2>1, <2>2
<1>8. CASE Dispatch
  BY <1>8 DEF Dispatch, policyVars, Feedback!Deliver, Feedback!Next
<1>9. CASE RestartGateway
  BY <1>9 DEF RestartGateway, Feedback!Restart, Feedback!Next
<1>10. CASE UNCHANGED vars
  BY <1>10, <1>c DEF vars, policyVars
<1> QED BY <1>1, <1>2, <1>3, <1>4, <1>5, <1>6, <1>7, <1>8, <1>9, <1>10 DEF Next

\* The gateway feeds back at most one response for a command, and only for
\* the last one sent, even if wire ids repeat.
THEOREM FeedbackRefinement == Spec => ImplementsCommandFeedback
<1>1. Init => Feedback!Init
  BY DEF Init, Feedback!Init
<1> QED BY <1>1, TypeCorrect, NextFeedsBack, PTL
        DEF Spec, ImplementsCommandFeedback, Feedback!Spec
=============================================================================
