------------------------- MODULE HeadlampActuation --------------------------
(***************************************************************************)
(* The way of a headlamp command to the lamp and of the lamp's response    *)
(* back: the actuation manager that numbers the commands, the publisher    *)
(* task, the response policy it shares with the CAN reader thread under a  *)
(* lock, the bus, and the actuator process.                                *)
(*                                                                         *)
(* A command is known by its session and sequence number.  On the wire     *)
(* both are cut to their width (WireId), so two commands may look alike.   *)
(* A frame of the model carries the command it is about, and every         *)
(* decision of the code is taken on what is on the wire.                   *)
(*                                                                         *)
(* The lock makes on_command_sent and on_response atomic.  The publisher   *)
(* releases it before it writes the frame, so the two are steps apart.     *)
(***************************************************************************)
EXTENDS Integers, Sequences, FiniteSets

CONSTANTS
    Nothing,          \* None of an Option
    SessionModulus,   \* 2^16: session_id as u16
    SequenceModulus,  \* 2^32: sequence_no as u32
    ChannelCapacity,  \* ACTUATION_COMMAND_CHANNEL_CAPACITY
    MaxCommands,      \* bound: commands that reach a publisher
    MaxSession,       \* bound: restarts of the gateway
    MaxFrames         \* bound: frames that wait in a socket before it drops more

ASSUME BoundAssumption ==
    /\ SessionModulus \in Nat \ {0}
    /\ SequenceModulus \in Nat \ {0}
    /\ ChannelCapacity \in Nat \ {0}
    /\ MaxCommands \in Nat
    /\ MaxSession \in Nat
    /\ MaxFrames \in Nat

VARIABLES
    session,      \* session_id: the clock at the start of the process
    nextSequence, \* next_sequence_no
    channel,      \* commands on their way to the publisher
    publishing,   \* recorded by the publisher, frame not written yet
    pending,      \* FrontHeadlampPolicy::pending
    toActuator,   \* frames in the receive buffer of the actuator's socket
    toGateway,    \* frames in the receive buffer of the CAN reader's socket
    working,      \* command the actuator works on
    ingress,      \* ActuationResponse envelopes for the dispatch loop
    lit,          \* history: the lamp, as the last command carried out left it
    issued,       \* history: commands ever recorded by a publisher
    latest        \* history: the command recorded last by this process

managerVars == <<session, nextSequence, channel>>
policyVars  == <<publishing, pending, issued, latest>>
actuatorVars == <<toActuator, working, lit>>
vars == <<managerVars, policyVars, actuatorVars, toGateway, ingress>>

-----------------------------------------------------------------------------
(* Data.                                                                   *)

\* on_command, the FrontHeadlampSwitchDirection of a command
Direction == {"On", "Off"}

\* ActuationCommand::SwitchFrontHeadlampOn / Off with its CorrelationId
Command == [session : Nat, sequence : Nat, direction : Direction]

\* actuation_command_wire_meta: what is left of a CorrelationId in a frame
WireId(c) == [session  |-> c.session % SessionModulus,
              sequence |-> c.sequence % SequenceModulus]

WireIds == [session : 0..(SessionModulus - 1), sequence : 0..(SequenceModulus - 1)]

\* PendingFrontHeadlampCommand
Pending == [id : WireIds, direction : Direction]

\* FrontHeadlampActuationPayload: the direction is part of its kind
Frame == [kind : {"CMD", "ACK", "NACK"}, command : Command]

\* FrontHeadlampCommandConfirmed / Rejected
Response == [direction : Direction, confirmed : BOOLEAN]

ASSUME NothingAssumption == Nothing \notin Command \cup Pending \cup Direction

\* What a socket may hold after frame f went over the bus: the frame was not
\* sent or is lost, arrives, or arrives twice.  A full socket drops it.
Received(buffer, f) ==
    {b \in {buffer, Append(buffer, f), buffer \o <<f, f>>} :
        b = buffer \/ Len(b) <= MaxFrames}

-----------------------------------------------------------------------------
(* The brain and the actuation manager.                                    *)

\* Mutant: a full channel does not hold the brain up.
ExecuteUnbounded(direction) ==
    /\ Cardinality(issued) + Len(channel) < MaxCommands
    /\ channel' = Append(channel, [session |-> session, sequence |-> nextSequence,
                                  direction |-> direction])
    /\ nextSequence' = nextSequence + 1
    /\ UNCHANGED <<session, policyVars, actuatorVars, toGateway, ingress>>

\* DefaultActuationManager::execute, RequestFrontHeadlampOn / Off
Execute(direction) ==
    /\ Cardinality(issued) + Len(channel) < MaxCommands
    /\ Len(channel) < ChannelCapacity
    /\ channel' = Append(channel, [session |-> session, sequence |-> nextSequence,
                                  direction |-> direction])
    /\ nextSequence' = nextSequence + 1
    /\ UNCHANGED <<session, policyVars, actuatorVars, toGateway, ingress>>

-----------------------------------------------------------------------------
(* The publisher task.                                                     *)

\* Mutant: a command does not replace one that is still pending.
OnCommandSentKeepsOld ==
    /\ publishing = Nothing
    /\ channel # << >>
    /\ LET c == Head(channel)
       IN  /\ pending' = IF pending = Nothing THEN [id |-> WireId(c), direction |-> c.direction] ELSE pending
           /\ publishing' = c
           /\ latest' = c
           /\ issued' = issued \cup {c}
    /\ channel' = Tail(channel)
    /\ UNCHANGED <<session, nextSequence, actuatorVars, toGateway, ingress>>

\* FrontHeadlampPolicy::on_command_sent, under the lock
OnCommandSent ==
    /\ publishing = Nothing
    /\ channel # << >>
    /\ LET c == Head(channel)
       IN  /\ pending' = [id |-> WireId(c), direction |-> c.direction]
           /\ publishing' = c
           /\ latest' = c
           /\ issued' = issued \cup {c}
    /\ channel' = Tail(channel)
    /\ UNCHANGED <<session, nextSequence, actuatorVars, toGateway, ingress>>

\* write_frame.  The CAN reader of the gateway receives the frame as well.
\* An error is only logged: the frame is then in neither buffer.
WriteCommandFrame ==
    /\ publishing # Nothing
    /\ LET f == [kind |-> "CMD", command |-> publishing]
       IN  /\ toActuator' \in Received(toActuator, f)
           /\ toGateway' \in Received(toGateway, f)
    /\ publishing' = Nothing
    /\ UNCHANGED <<managerVars, pending, issued, latest, working, lit, ingress>>

-----------------------------------------------------------------------------
(* The actuator process.                                                   *)

\* Mutant: the newest command is taken first.
ReadCommandLast ==
    /\ working = Nothing
    /\ toActuator # << >>
    /\ working' = toActuator[Len(toActuator)].command
    /\ toActuator' = SubSeq(toActuator, 1, Len(toActuator) - 1)
    /\ UNCHANGED <<managerVars, policyVars, lit, toGateway, ingress>>

\* read_frame and actuation_command_from_cmd_payload
ReadCommand ==
    /\ working = Nothing
    /\ toActuator # << >>
    /\ working' = Head(toActuator).command
    /\ toActuator' = Tail(toActuator)
    /\ UNCHANGED <<managerVars, policyVars, lit, toGateway, ingress>>

\* After the delay the command is carried out and confirmed, though the
\* confirmation may be lost (or is never sent) ...
CarryOut ==
    /\ working # Nothing
    /\ lit' = working.direction
    /\ toGateway' \in Received(toGateway, [kind |-> "ACK", command |-> working])
    /\ working' = Nothing
    /\ UNCHANGED <<managerVars, policyVars, toActuator, ingress>>

\* ... or refused, or dropped without a response.
Refuse ==
    /\ working # Nothing
    /\ toGateway' \in Received(toGateway, [kind |-> "NACK", command |-> working])
    /\ working' = Nothing
    /\ UNCHANGED <<managerVars, policyVars, toActuator, lit, ingress>>

Respond == CarryOut \/ Refuse

\* A new actuator process starts with an empty socket.
RestartActuator ==
    /\ toActuator' = << >>
    /\ working' = Nothing
    /\ UNCHANGED <<managerVars, policyVars, lit, toGateway, ingress>>

-----------------------------------------------------------------------------
(* The CAN reader thread and the dispatch loop.                            *)

\* Mutant: an accepted response leaves the command pending.
AcceptKeepsPending(f) ==
    /\ ingress' = Append(ingress, [direction |-> pending.direction, confirmed |-> f.kind = "ACK"])
    /\ UNCHANGED pending

Accept(f) ==
    /\ ingress' = Append(ingress, [direction |-> pending.direction, confirmed |-> f.kind = "ACK"])
    /\ pending' = Nothing

\* The checks of on_response: not a command frame, a command is pending, and
\* correlation and direction are its own.
Answers(f) ==
    /\ f.kind # "CMD"
    /\ pending # Nothing
    /\ pending.id = WireId(f.command)
    /\ pending.direction = f.command.direction

\* FrontHeadlampPolicy::on_response, under the lock, and the send of what it
\* accepts.  What it ignores is gone.
OnResponse ==
    /\ toGateway # << >>
    /\ IF Answers(Head(toGateway)) THEN Accept(Head(toGateway)) ELSE UNCHANGED <<pending, ingress>>
    /\ toGateway' = Tail(toGateway)
    /\ UNCHANGED <<managerVars, publishing, issued, latest, actuatorVars>>

\* run_can_ingress_dispatch_loop: the response goes to the brain's mailbox.
Dispatch ==
    /\ ingress # << >>
    /\ ingress' = Tail(ingress)
    /\ UNCHANGED <<managerVars, policyVars, actuatorVars, toGateway>>

\* A new gateway process: its session is a later instant of the clock, and
\* all that the old one held in memory is gone.
RestartGateway ==
    /\ \E s \in (session + 1)..MaxSession : session' = s
    /\ nextSequence' = 1
    /\ channel' = << >>
    /\ publishing' = Nothing
    /\ pending' = Nothing
    /\ latest' = Nothing
    /\ toGateway' = << >>
    /\ ingress' = << >>
    /\ UNCHANGED <<issued, actuatorVars>>

-----------------------------------------------------------------------------
Init ==
    /\ session = 0
    /\ nextSequence = 1
    /\ channel = << >>
    /\ publishing = Nothing
    /\ pending = Nothing
    /\ toActuator = << >>
    /\ toGateway = << >>
    /\ working = Nothing
    /\ ingress = << >>
    /\ lit = "Off"
    /\ issued = {}
    /\ latest = Nothing

Next == \/ \E direction \in Direction : Execute(direction)
        \/ OnCommandSent
        \/ WriteCommandFrame
        \/ ReadCommand
        \/ Respond
        \/ RestartActuator
        \/ OnResponse
        \/ Dispatch
        \/ RestartGateway

Spec == Init /\ [][Next]_vars

-----------------------------------------------------------------------------
(* Properties.                                                             *)

\* The variables hold what the code's types allow, and the channel keeps its
\* capacity.
TypeOK ==
    /\ session \in Nat
    /\ nextSequence \in Nat
    /\ channel \in Seq(Command) /\ Len(channel) <= ChannelCapacity
    /\ publishing \in Command \cup {Nothing}
    /\ pending \in Pending \cup {Nothing}
    /\ toActuator \in Seq(Frame) /\ \A i \in DOMAIN toActuator : toActuator[i].kind = "CMD"
    /\ toGateway \in Seq(Frame)
    /\ working \in Command \cup {Nothing}
    /\ ingress \in Seq(Response)
    /\ lit \in Direction
    /\ issued \subseteq Command
    /\ latest \in Command \cup {Nothing}

\* No two commands ever recorded look alike on the wire: no session sends
\* 2^32 commands, and no restart meets the same 16 bits of the clock.
WireIdsDiffer == \A c, d \in issued : WireId(c) = WireId(d) => c = d

\* A response that on_response accepts is one to the command recorded last,
\* however late, repeated or foreign the other frames on the bus are, and
\* although the publisher records a command before it writes the frame.
AnswersLatest ==
    [][OnResponse /\ Answers(Head(toGateway)) /\ WireIdsDiffer
         => Head(toGateway).command = latest]_vars

\* When a confirmation is accepted the lamp is as it says: no older command,
\* still waiting at the actuator, can be carried out after the confirmed one.
ConfirmedLampIsSet ==
    [][OnResponse /\ Answers(Head(toGateway)) /\ Head(toGateway).kind = "ACK" /\ WireIdsDiffer
         => lit = Head(toGateway).command.direction]_vars

\* The brain gets at most one feedback for a command, and only for the last
\* one sent: whatever the wire ids, the losses and the repeats.
Feedback == INSTANCE CommandFeedback
    WITH awaiting <- IF pending = Nothing THEN Nothing ELSE pending.direction,
         feedback <- ingress
ImplementsCommandFeedback == Feedback!Spec
=============================================================================
