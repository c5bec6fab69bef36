---------------------------- MODULE DigitalTwin -----------------------------
(***************************************************************************)
(* The committed twin as a state machine: one step per committed turn,     *)
(* with the lifecycle turns that StartAssemblies and StopAssemblies open.  *)
(* How the turns get their order and their replies is the business of the  *)
(* reorder buffer; here any reply a twinlet can give may come with a turn, *)
(* computed from any state of the twinlet's own copy, and so may none (the *)
(* turn was opened while assemblies were starting or stopping) or the one  *)
(* made up for a zone that stayed silent.                                  *)
(***************************************************************************)
EXTENDS TwinTurn

CONSTANTS Rpm,  \* rpm readings of the bus
          Lux   \* lux readings of the bus

ASSUME ReadingAssumption == Rpm \subseteq U16 /\ 0 \in Rpm /\ Lux \subseteq U16 /\ 100 \in Lux

VARIABLES
    twin,    \* current_state and context of DigitalTwinCar
    open,    \* lifecycle turns opened and not yet committed
    buzzer   \* history: StartBuzzer was performed more recently than StopBuzzer

vars == <<twin, open, buzzer>>

LifecycleTurn == [assembly : Assembly, message : {"BecomeOn", "BecomeOff"}]

ZoneState(z) == IF z = "Headlamp" THEN HeadlampState ELSE WiperState

\* What zone z may answer to m, from any copy it has: the handler's reply, or
\* the made-up one that keeps the copy.
Answers(z, m) == {OnReceivingMessage(z, c, m) : c \in ZoneState(z)}
                    \cup {Unresponsive(z, c) : c \in ZoneState(z)}

\* The reply with which the turn of event e may be committed.
Replies(e) ==
    IF UserEventToZoneTell(e) = NoTell THEN {NoReply}
    ELSE {NoReply} \cup Answers(UserEventToZoneTell(e).zone, UserEventToZoneTell(e).message)

\* Lifecycle turns an output opens: one per assembly.
OpenedBy(output) ==
    CASE output = "StartAssemblies" -> [assembly : Assembly, message : {"BecomeOn"}]
      [] output = "StopAssemblies"  -> [assembly : Assembly, message : {"BecomeOff"}]
      [] OTHER                      -> {}

\* commit_resolved_turn and apply_committed_quiescence of event e with a
\* reply; done is the set of lifecycle turns it consumes.
CommitResolvedTurn(e, reply, done) ==
    LET turn == Turn(twin, e, reply)
    IN  /\ twin' = turn.twin
        /\ buzzer' = BuzzerAfter(turn.outputs[2], BuzzerAfter(turn.outputs[1], buzzer))
        /\ open' = (open \ done) \cup OpenedBy(turn.outputs[1])

-----------------------------------------------------------------------------
PowerOn  == CommitResolvedTurn([kind |-> "PowerOn"], NoReply, {})
PowerOff == CommitResolvedTurn([kind |-> "PowerOff"], NoReply, {})

UpdateRpm(rpm) == CommitResolvedTurn([kind |-> "UpdateRpm", rpm |-> rpm], NoReply, {})

UpdateAmbientLux(lux) ==
    LET e == [kind |-> "UpdateAmbientLux", lux |-> lux]
    IN  \E reply \in Replies(e) : CommitResolvedTurn(e, reply, {})

FrontHeadlampAck(kind) ==
    LET e == [kind |-> kind]
    IN  \E reply \in Replies(e) : CommitResolvedTurn(e, reply, {})

\* from the bus (a negative acknowledgement), or from the twinlet's deadline
FrontHeadlampActuationIncomplete(direction) ==
    LET e == [kind |-> "FrontHeadlampActuationIncomplete", direction |-> direction]
    IN  \E reply \in Replies(e) : CommitResolvedTurn(e, reply, {})

Rains(kind) ==
    LET e == [kind |-> kind]
    IN  \E reply \in Replies(e) : CommitResolvedTurn(e, reply, {})

\* Whether the waits that began earlier have run out is left open.
TimerTick ==
    \E ackOverdue, warningAged \in BOOLEAN :
       CommitResolvedTurn([kind |-> "TimerTick", ackOverdue |-> ackOverdue,
                           warningAged |-> warningAged], NoReply, {})

\* Mutant: the lifecycle turn is not consumed, it may be committed again.
AssemblyZoneReadyTwice(l) ==
    \E reply \in Answers(l.assembly, [kind |-> l.message]) :
       CommitResolvedTurn([kind |-> "AssemblyZoneReady", assembly |-> l.assembly], reply, {})

\* an open lifecycle turn is committed, with the reply of its assembly
AssemblyZoneReady(l) ==
    \E reply \in Answers(l.assembly, [kind |-> l.message]) :
       CommitResolvedTurn([kind |-> "AssemblyZoneReady", assembly |-> l.assembly], reply, {l})

-----------------------------------------------------------------------------
Init ==
    /\ twin = InitialTwin
    /\ open = {}
    /\ buzzer = FALSE

Next ==
    \/ PowerOn
    \/ PowerOff
    \/ \E rpm \in Rpm : UpdateRpm(rpm)
    \/ \E lux \in Lux : UpdateAmbientLux(lux)
    \/ \E kind \in {"FrontHeadlampOnAck", "FrontHeadlampOffAck"} : FrontHeadlampAck(kind)
    \/ \E direction \in Direction : FrontHeadlampActuationIncomplete(direction)
    \/ \E kind \in {"RainsStarted", "RainsStopped"} : Rains(kind)
    \/ TimerTick
    \/ \E l \in open : AssemblyZoneReady(l)

Spec == Init /\ [][Next]_vars

-----------------------------------------------------------------------------
(* Properties.                                                             *)

\* The twin is a state and a context of the code's types, the countdown of a
\* Preparing state is not empty, and no other state has one.
TypeOK ==
    /\ twin \in TwinOver(Rpm, Lux)
    /\ (twin.remaining # {}) = (twin.mode \in Preparing)
    /\ open \subseteq LifecycleTurn
    /\ buzzer \in BOOLEAN

\* The countdown of PreparingToStart and PreparingToStop names exactly the
\* assemblies whose lifecycle turn is still open, with the right message, and
\* no lifecycle turn is open in any other state: startup and shutdown can
\* neither end early nor wait for an acknowledgement that cannot come.
CountdownIsOpenTurns ==
    open = CASE twin.mode = "PreparingToStart" ->
                    [assembly : twin.remaining, message : {"BecomeOn"}]
             [] twin.mode = "PreparingToStop" ->
                    [assembly : twin.remaining, message : {"BecomeOff"}]
             [] OTHER -> {}

\* ADR-7: no turn leaves the twin in Driving, in the dark, with a dark lamp;
\* that is, after at most one internal hop the detector has nothing to say.
QuiescentAfterCommit == ~LightingUnsafe(twin)

\* The alarm state is entered and kept only for its cause: whatever the order
\* of readings, acknowledgements and ticks, in DrivingDangerously the car
\* moves, it is dark and the lamp is not confirmed on.
DangerIsReal ==
    twin.mode = "DrivingDangerously" =>
       /\ twin.lux <= LUX_ON_THRESHOLD
       /\ twin.headlamp # "On"
       /\ ~Stationary(twin)

\* The buzzer sounds exactly in the two alarm states, over every path of one
\* or two hops: no Start or Stop is missing, doubled or in the wrong order.
BuzzerSoundsInAlarm == buzzer = (twin.mode \in Alarm)
=============================================================================
