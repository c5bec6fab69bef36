----------------------------- MODULE VirtualCar -----------------------------
(***************************************************************************)
(* The running twin: the brain (ReorderBuffer) with the real transition    *)
(* table and zone handlers (TwinTurn), and the two zone twinlets with      *)
(* their own copies of the zone state.  The headlamp twinlet also has the  *)
(* deadline of the acknowledgement it waits for.                           *)
(*                                                                         *)
(* That deadline is a timer whose handle the twinlet keeps and aborts.     *)
(* When a deadline is handled the handle is dropped without an abort       *)
(* (state.ack_timer = None), even if it is the handle of a newer timer:    *)
(* such a timer goes on loose, and its message will still come.            *)
(***************************************************************************)
EXTENDS TwinTurn

CONSTANTS
    Rpm, Lux,         \* readings of the bus
    Ingress,          \* events the bus and the clock send, after PowerOn
    Silent,           \* test_silent_headlamp, test_silent_wiper
    MaxRetries,       \* ZONE_TELL_BACK_MAX_RETRIES
    ChannelCapacity,  \* ACTUATION_COMMAND_CHANNEL_CAPACITY
    MaxIngress        \* bound: messages sent before the outside falls silent

ASSUME VirtualCarAssumption ==
    /\ Rpm \subseteq U16 /\ 0 \in Rpm
    /\ Lux \subseteq U16 /\ 100 \in Lux
    /\ Ingress \subseteq {e \in EventOver(Rpm, Lux) : e.kind # "AssemblyZoneReady"}
    /\ Silent \subseteq Assembly
    /\ MaxRetries \in Nat
    /\ ChannelCapacity \in Nat \ {0}
    /\ MaxIngress \in Nat

VARIABLES
    twin, nextTurn, queue, todo, inbox, zoneBox, timers, channel, committed, submitted,
    zoneCtx,   \* the copy each twinlet has of its zone state
    ackHeld,   \* direction of the deadline whose handle the headlamp twinlet has
    ackLoose,  \* number of deadlines of each direction that run without a handle
    ackBox,    \* AckWaitElapsed messages in the headlamp twinlet's mailbox
    buzzer,    \* history: as in DigitalTwin
    wiping     \* history: the last wiper command sent was StartWiper

brainVars == <<twin, nextTurn, queue, todo, inbox, zoneBox, timers, channel,
               committed, submitted>>
ackVars   == <<ackHeld, ackLoose, ackBox>>
vars == <<brainVars, zoneCtx, ackVars, buzzer, wiping>>

-----------------------------------------------------------------------------
(* The parameters of the reorder buffer.                                   *)

Twin  == TwinOver(Rpm, Lux)
Event == EventOver(Rpm, Lux)
SpontaneousEvent == [kind : {"FrontHeadlampActuationIncomplete"}, direction : Direction]
ZoneMessage == HeadlampMessage(Lux) \cup WiperMessage
Command == {"SwitchFrontHeadlampOn", "SwitchFrontHeadlampOff", "StartWiper", "StopWiper"}

\* outcome_map, and the command actuation_manager makes of the action
CommandOf(outcome) == CASE outcome = "RequestOn"    -> "SwitchFrontHeadlampOn"
                        [] outcome = "RequestOff"   -> "SwitchFrontHeadlampOff"
                        [] outcome = "StartWiping"  -> "StartWiper"
                        [] outcome = "StopWiping"   -> "StopWiper"

\* Mutant: the wiper is left out of ALL_ASSEMBLIES.
OpenAllForgetsWiper(message) ==
    << [kind |-> "open", event |-> [kind |-> "AssemblyZoneReady", assembly |-> "Headlamp"],
        tell |-> Tell("Headlamp", [kind |-> message])] >>

\* ALL_ASSEMBLIES, in its order
OpenAll(message) ==
    << [kind |-> "open", event |-> [kind |-> "AssemblyZoneReady", assembly |-> "Headlamp"],
        tell |-> Tell("Headlamp", [kind |-> message])],
       [kind |-> "open", event |-> [kind |-> "AssemblyZoneReady", assembly |-> "Wiper"],
        tell |-> Tell("Wiper", [kind |-> message])] >>

\* The actions of a turn that apply_committed_quiescence acts on.  Buzzer,
\* state sync and warnings reach no channel: `buzzer` records the first.
ActionsOf(turn) ==
    [i \in DOMAIN turn.outcomes |-> [kind |-> "send", command |-> CommandOf(turn.outcomes[i])]]
    \o CASE turn.outputs[1] = "StartAssemblies" -> OpenAll("BecomeOn")
         [] turn.outputs[1] = "StopAssemblies"  -> OpenAll("BecomeOff")
         [] OTHER -> << >>

Actions(t, e, reply) == ActionsOf(Turn(t, e, reply))
CommitTurn(t, e, reply) == Turn(t, e, reply).twin
Synthetic(t, z) == Unresponsive(z, ZoneCtx(t, z))

\* Deadlines of the twinlet are never more than the tells it has applied.
MaxMessages == 8 * (MaxRetries + 1) * (MaxIngress + 1)

RB == INSTANCE ReorderBuffer
    WITH Zone <- Assembly, Message <- ZoneMessage, Reply <- ZoneReply, InitTwin <- InitialTwin,
         MaxEvents <- MaxMessages, Route <- ZoneMessageForEvent,
         Ingress <- Ingress \cup {[kind |-> "PowerOn"]}

-----------------------------------------------------------------------------
(* The brain.                                                              *)

Receive ==
    /\ \/ RB!HandleFsm
       \/ \E i \in DOMAIN queue : RB!HandleZoneReady(i)
       \/ RB!DiscardZoneReady
       \/ \E i \in DOMAIN queue : RB!HandleTimeoutRetry(i) \/ RB!HandleTimeoutGaveUp(i)
       \/ RB!DiscardTimeout
    /\ UNCHANGED <<zoneCtx, ackVars, buzzer, wiping>>

\* Mutant: only the output of the internal hop is performed.
SoundLastOutputOnly(e, reply) == buzzer' = BuzzerAfter(Turn(twin, e, reply).outputs[2], buzzer)

\* A commit sounds or stops the buzzer.
Sound(e, reply) == buzzer' = BuzzerAfterTurn(Turn(twin, e, reply), buzzer)

HandleSpontaneous ==
    /\ RB!HandleSpontaneous
    /\ Sound(Head(inbox).event, Head(inbox).reply)
    /\ UNCHANGED <<zoneCtx, ackVars, wiping>>

CommitFront ==
    /\ RB!CommitFront
    /\ Sound(Head(queue).event, Head(queue).reply)
    /\ UNCHANGED <<zoneCtx, ackVars, wiping>>

PerformOpen ==
    /\ RB!PerformOpen
    /\ UNCHANGED <<zoneCtx, ackVars, buzzer, wiping>>

PerformSend ==
    /\ RB!PerformSend
    /\ wiping' = CASE Head(todo).command = "StartWiper" -> TRUE
                   [] Head(todo).command = "StopWiper"  -> FALSE
                   [] OTHER -> wiping
    /\ UNCHANGED <<zoneCtx, ackVars, buzzer>>

Brain == Receive \/ HandleSpontaneous \/ CommitFront \/ PerformOpen \/ PerformSend

-----------------------------------------------------------------------------
(* The twinlets.                                                           *)

\* The next message of the headlamp twinlet is a tell, or a deadline.
TellIsNext == ackBox # << >> => Head(ackBox).ahead > 0

\* Mutant: a tell is taken past a deadline that came before it.
HeadlampApplyOutOfOrder ==
    /\ zoneBox["Headlamp"] # << >>
    /\ LET reply == HeadlampOnMessage(zoneCtx["Headlamp"], Head(zoneBox["Headlamp"]).message)
       IN  /\ RB!ZoneAnswers("Headlamp", reply)
           /\ zoneCtx' = [zoneCtx EXCEPT !["Headlamp"] = reply.ctx]
           /\ ackHeld' = InFlight(reply.ctx)
    /\ ackBox' = [i \in DOMAIN ackBox |-> [ackBox[i] EXCEPT !.ahead = @ - 1]]
    /\ UNCHANGED <<ackLoose, buzzer, wiping>>

\* Mutant: the deadline is armed by the tell that raised the request only.
HeadlampApplyArmsOnce ==
    /\ TellIsNext
    /\ zoneBox["Headlamp"] # << >>
    /\ LET reply == HeadlampOnMessage(zoneCtx["Headlamp"], Head(zoneBox["Headlamp"]).message)
       IN  /\ RB!ZoneAnswers("Headlamp", reply)
           /\ zoneCtx' = [zoneCtx EXCEPT !["Headlamp"] = reply.ctx]
           /\ ackHeld' = IF reply.outcomes = << >> THEN "None" ELSE InFlight(reply.ctx)
    /\ ackBox' = [i \in DOMAIN ackBox |-> [ackBox[i] EXCEPT !.ahead = @ - 1]]
    /\ UNCHANGED <<ackLoose, buzzer, wiping>>

\* HeadlampActor::handle_apply: answer, and arm the deadline of a request in
\* flight anew.  The previous timer is aborted if the handle is still there.
HeadlampApply ==
    /\ TellIsNext
    /\ zoneBox["Headlamp"] # << >>
    /\ LET reply == HeadlampOnMessage(zoneCtx["Headlamp"], Head(zoneBox["Headlamp"]).message)
       IN  /\ RB!ZoneAnswers("Headlamp", reply)
           /\ zoneCtx' = [zoneCtx EXCEPT !["Headlamp"] = reply.ctx]
           /\ ackHeld' = InFlight(reply.ctx)
    /\ ackBox' = [i \in DOMAIN ackBox |-> [ackBox[i] EXCEPT !.ahead = @ - 1]]
    /\ UNCHANGED <<ackLoose, buzzer, wiping>>

\* WiperActor::handle_apply
WiperApply ==
    /\ zoneBox["Wiper"] # << >>
    /\ LET reply == WiperOnMessage(zoneCtx["Wiper"], Head(zoneBox["Wiper"]).message)
       IN  /\ RB!ZoneAnswers("Wiper", reply)
           /\ zoneCtx' = [zoneCtx EXCEPT !["Wiper"] = reply.ctx]
    /\ UNCHANGED <<ackVars, buzzer, wiping>>

\* handle_apply of a silent twinlet; it never arms a deadline
Swallow(z) ==
    /\ RB!ZoneSwallows(z)
    /\ UNCHANGED <<zoneCtx, ackVars, buzzer, wiping>>

Elapsed(direction) == [direction |-> direction, ahead |-> Len(zoneBox["Headlamp"])]

\* the runtime fires the timer whose handle is kept: abort comes too late now
AckTimerFires ==
    /\ ackHeld # "None"
    /\ ackBox' = Append(ackBox, Elapsed(ackHeld))
    /\ ackHeld' = "None"
    /\ UNCHANGED <<brainVars, zoneCtx, ackLoose, buzzer, wiping>>

\* the runtime fires a timer that runs loose
LooseTimerFires(direction) ==
    /\ ackLoose[direction] > 0
    /\ ackBox' = Append(ackBox, Elapsed(direction))
    /\ ackLoose' = [ackLoose EXCEPT ![direction] = @ - 1]
    /\ UNCHANGED <<brainVars, zoneCtx, ackHeld, buzzer, wiping>>

\* Mutant: the brain is told of the failure, the zone itself is not.
AckWaitElapsedTellsBrainOnly ==
    /\ ackBox # << >>
    /\ ~TellIsNext
    /\ LET direction == Head(ackBox).direction
       IN  RB!ZoneSpeaksUp([kind |-> "FrontHeadlampActuationIncomplete", direction |-> direction],
                           RecoverIncomplete(zoneCtx["Headlamp"], direction))
    /\ ackBox' = Tail(ackBox)
    /\ ackHeld' = "None"
    /\ ackLoose' = IF ackHeld = "None" THEN ackLoose ELSE [ackLoose EXCEPT ![ackHeld] = @ + 1]
    /\ UNCHANGED <<zoneCtx, buzzer, wiping>>

\* handle_ack_wait_elapsed: the zone takes it as ActuationIncomplete, and the
\* brain is told even if the zone had no such request any more
AckWaitElapsed ==
    /\ ackBox # << >>
    /\ ~TellIsNext
    /\ LET direction == Head(ackBox).direction
           reply     == RecoverIncomplete(zoneCtx["Headlamp"], direction)
       IN  /\ RB!ZoneSpeaksUp([kind |-> "FrontHeadlampActuationIncomplete",
                               direction |-> direction], reply)
           /\ zoneCtx' = [zoneCtx EXCEPT !["Headlamp"] = reply.ctx]
    /\ ackBox' = Tail(ackBox)
    /\ ackHeld' = "None"
    /\ ackLoose' = IF ackHeld = "None" THEN ackLoose ELSE [ackLoose EXCEPT ![ackHeld] = @ + 1]
    /\ UNCHANGED <<buzzer, wiping>>

Twinlets == \/ HeadlampApply
            \/ WiperApply
            \/ \E z \in Assembly : Swallow(z)
            \/ AckWaitElapsed

-----------------------------------------------------------------------------
(* The outside.                                                            *)

\* The gateway sends PowerOn before it starts any other sender.
Ingest(e) ==
    /\ submitted < MaxIngress
    /\ (submitted = 0) = (e.kind = "PowerOn")
    /\ RB!Submit(e)
    /\ UNCHANGED <<zoneCtx, ackVars, buzzer, wiping>>

TellBackTimerFires ==
    /\ \E d \in timers : RB!TimerFires(d)
    /\ UNCHANGED <<zoneCtx, ackVars, buzzer, wiping>>

ChannelReceive ==
    /\ RB!ChannelReceive
    /\ UNCHANGED <<zoneCtx, ackVars, buzzer, wiping>>

Outside == \/ \E e \in Ingress \cup {[kind |-> "PowerOn"]} : Ingest(e)
           \/ TellBackTimerFires
           \/ ChannelReceive
           \/ AckTimerFires
           \/ \E direction \in Direction : LooseTimerFires(direction)

-----------------------------------------------------------------------------
Init ==
    /\ RB!Init
    /\ zoneCtx = [z \in Assembly |-> "Off"]
    /\ ackHeld = "None"
    /\ ackLoose = [d \in Direction |-> 0]
    /\ ackBox = << >>
    /\ buzzer = FALSE
    /\ wiping = FALSE

Next == Brain \/ Twinlets \/ Outside

\* The three actor tasks are scheduled while they have work, timers fire, and
\* the fan-out task drains the channel.
Fairness ==
    /\ WF_vars(Brain)
    /\ WF_vars(HeadlampApply \/ AckWaitElapsed)
    /\ WF_vars(WiperApply)
    /\ WF_vars(TellBackTimerFires)
    /\ WF_vars(ChannelReceive)
    /\ WF_vars(AckTimerFires)
    /\ \A direction \in Direction : WF_vars(LooseTimerFires(direction))

Spec == Init /\ [][Next]_vars
FairSpec == Spec /\ Fairness

\* The car has been started and nothing is under way.  Every behaviour of Spec
\* in which PowerOn is the only event so far and all twinlets answer gets here.
StartedInit ==
    /\ twin = [InitialTwin EXCEPT !.mode = "Idle", !.headlamp = "Ready", !.wiper = "Ready"]
    /\ nextTurn = 4 /\ committed = 3 /\ submitted = 1
    /\ queue = << >> /\ todo = << >> /\ inbox = << >> /\ channel = << >>
    /\ zoneBox = [z \in Assembly |-> << >>] /\ timers = {}
    /\ zoneCtx = [z \in Assembly |-> "Ready"]
    /\ ackHeld = "None" /\ ackLoose = [d \in Direction |-> 0] /\ ackBox = << >>
    /\ buzzer = FALSE /\ wiping = FALSE

StartedSpec == StartedInit /\ [][Next]_vars

-----------------------------------------------------------------------------
(* Properties.                                                             *)

\* The twinlets' variables hold what the code's types allow, and a deadline
\* waits behind no more tells than there are.
TypeOK ==
    /\ zoneCtx \in [Assembly -> HeadlampState \cup WiperState]
    /\ zoneCtx["Headlamp"] \in HeadlampState /\ zoneCtx["Wiper"] \in WiperState
    /\ ackHeld \in Direction \cup {"None"}
    /\ ackLoose \in [Direction -> Nat]
    /\ \A i \in DOMAIN ackBox : ackBox[i].direction \in Direction
                                  /\ ackBox[i].ahead \in 0..Len(zoneBox["Headlamp"])
    /\ buzzer \in BOOLEAN
    /\ wiping \in BOOLEAN

\* A request the headlamp twinlet has in flight always has a deadline to come
\* in its own direction: held, loose, or fired and waiting in the mailbox.  No
\* order of tells, late deadlines and dropped handles strands the lamp between
\* two settled states.
RequestHasDeadline ==
    LET d == InFlight(zoneCtx["Headlamp"])
    IN  d # "None" => \/ ackHeld = d
                      \/ ackLoose[d] > 0
                      \/ \E i \in DOMAIN ackBox : ackBox[i].direction = d

\* The lifecycle turns in the barrier queue or still to be opened.
OpenTurns ==
    {[assembly |-> b.event.assembly, message |-> b.tell.message.kind] :
        b \in {queue[i] : i \in {j \in DOMAIN queue : queue[j].event.kind = "AssemblyZoneReady"}}
               \cup {todo[i] : i \in {j \in DOMAIN todo : todo[j].kind = "open"}}}

\* The running twin commits as the state machine of DigitalTwin does: whatever
\* the interleaving of brain, twinlets and timers, its countdown matches its
\* open lifecycle turns, its buzzer its mode, and no cut is unsafe.
Committed == INSTANCE DigitalTwin WITH open <- OpenTurns
ImplementsDigitalTwin == Committed!Spec

\* The steps of ImplementsDigitalTwin alone, for behaviours that do not begin
\* with the car off.
CommitsAsDigitalTwin == [][Committed!Next]_<<twin, OpenTurns, buzzer>>

\* Startup and shutdown end, even if a twinlet never answers.
PreparingEnds == twin.mode \in Preparing ~> twin.mode \notin Preparing

\* A request of the headlamp twinlet settles: by an acknowledgement, by the
\* shutdown of the lamp or by its deadline.
RequestSettles == (InFlight(zoneCtx["Headlamp"]) # "None") ~> (InFlight(zoneCtx["Headlamp"]) = "None")

\* Nothing is under way: every message is handled and every command sent.
Quiet == /\ RB!Idle /\ queue = << >> /\ inbox = << >>
         /\ \A z \in Assembly : zoneBox[z] = << >>

\* What the wiper's alphabet says: the motor wipes in Running, and in no other
\* state, once every event that came in has taken effect.
MotorFollowsWiper == Quiet => wiping = (twin.wiper = "Running")
=============================================================================
