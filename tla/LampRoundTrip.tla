--------------------------- MODULE LampRoundTrip ----------------------------
(***************************************************************************)
(* The headlamp twinlet over the way to the lamp: the lux turns that raise *)
(* requests, the commands they become, what the lamp does, and the turns   *)
(* that bring its responses back to the twinlet.  The question is what the *)
(* twinlet believes of the lamp against the lamp there is.                 *)
(*                                                                         *)
(* The brain is reduced to the turns that concern the headlamp: each is    *)
(* told, perhaps told again, answered or given up, and committed in its    *)
(* order (ReorderBuffer has the whole of it).  The twinlet's deadline for  *)
(* an acknowledgement may end at any time a request is in flight.          *)
(***************************************************************************)
EXTENDS HeadlampActuation

CONSTANTS
    Lux,        \* lux readings of the bus
    MaxRetries, \* ZONE_TELL_BACK_MAX_RETRIES
    MaxTurns,   \* bound: headlamp turns before the outside falls silent
    MaxOpen,    \* bound: headlamp turns open at a time
    MaxRetells  \* bound: turns told again

ASSUME RoundTripAssumption ==
    /\ Lux \subseteq Nat
    /\ MaxRetries \in Nat
    /\ MaxTurns \in Nat
    /\ MaxOpen \in Nat
    /\ MaxRetells \in Nat

VARIABLES
    phase,       \* what the assemblies are doing; stands for the twin's mode
    backlog,     \* barrier_queue: the headlamp's turns
    zoneBox,     \* the twinlet's mailbox
    nextTurn,    \* next_turn_id
    retells,     \* turns told again
    ctx,         \* the twinlet's lamp state
    about,       \* history: the commands the responses of `ingress` answer
    done,        \* history: the command carried out last
    heard,       \* history: the command whose confirmation the twinlet took last
    undisturbed  \* history: nothing has yet kept a confirmation from the twinlet

brainVars   == <<phase, backlog, zoneBox, nextTurn, retells, ctx>>
historyVars == <<about, done, heard, undisturbed>>
allVars     == <<vars, brainVars, historyVars>>

Zone == INSTANCE AssemblyZones

Phase == {"Off", "Starting", "Running", "Stopping"}

Message == Zone!HeadlampMessage(Lux)

-----------------------------------------------------------------------------
(* The brain.                                                              *)

LifecycleOpen == \E i \in DOMAIN backlog : backlog[i].message.kind \in {"BecomeOn", "BecomeOff"}

\* StartAssemblies and StopAssemblies push a turn for the headlamp and one for
\* the wiper right behind it.  The headlamp's is committed, so the wiper's
\* stands in front of every turn of the backlog, and none may pass it.
WiperInFront == phase \in {"Starting", "Stopping"} /\ ~LifecycleOpen

\* the test of try_drain_barrier_queue
CommitDue == backlog # << >> /\ Head(backlog).reply # Nothing /\ ~WiperInFront

\* No commit is due or under way: the brain takes a message.  A commit whose
\* command finds the channel full waits inside the handler.
Idle == ~CommitDue

\* A new turn of message m is told to the twinlet; c is the command m
\* confirms, if it confirms one.
Told(m, c) ==
    /\ backlog' = Append(backlog, [turn |-> nextTurn, told |-> TRUE, message |-> m, about |-> c,
                                   attempt |-> 0, retries |-> MaxRetries, reply |-> Nothing])
    /\ zoneBox' = Append(zoneBox, [turn |-> nextTurn, attempt |-> 0, message |-> m, about |-> c])

\* While assemblies start or stop the turn is told to nobody, and the handler
\* runs on the brain's copy of the lamp state, whatever that is by then.
NotTold(m, c) ==
    /\ \E lamp \in Zone!HeadlampState :
          backlog' = Append(backlog, [turn |-> nextTurn, told |-> FALSE, message |-> m, about |-> c,
                                      attempt |-> 0, retries |-> 0,
                                      reply |-> Zone!HeadlampOnMessage(lamp, m).outcomes])
    /\ UNCHANGED zoneBox

NewTurn ==
    /\ nextTurn <= MaxTurns
    /\ Len(backlog) < MaxOpen
    /\ nextTurn' = nextTurn + 1

\* zone_message_for_event
Routed(m, c) == IF phase \in {"Off", "Running"} THEN Told(m, c) ELSE NotTold(m, c)

LuxReading(lux) ==
    /\ Idle
    /\ NewTurn
    /\ Routed([kind |-> "AmbientLux", lux |-> lux], Nothing)
    /\ UNCHANGED <<vars, phase, retells, ctx, historyVars>>

\* Mutant: a refusal is projected like a confirmation.
MessageOfRefusalIgnored(r) == [kind |-> IF r.direction = "On" THEN "AckOn" ELSE "AckOff"]

\* project: the event of a response, and its message for the zone
MessageOf(r) ==
    IF r.confirmed THEN [kind |-> IF r.direction = "On" THEN "AckOn" ELSE "AckOff"]
    ELSE [kind |-> "ActuationIncomplete", direction |-> r.direction]

\* The dispatch loop hands the next response to the brain.
TakeResponse ==
    /\ Dispatch
    /\ Idle
    /\ NewTurn
    /\ LET r == Head(ingress)
           c == IF r.confirmed THEN Head(about) ELSE Nothing
       IN  /\ Routed(MessageOf(r), c)
           /\ undisturbed' = (undisturbed /\ (c # Nothing => phase \in {"Off", "Running"}))
    /\ about' = Tail(about)
    /\ UNCHANGED <<phase, retells, ctx, done, heard>>

\* StartAssemblies or StopAssemblies, when PowerOn or PowerOff is committed:
\* the headlamp's lifecycle turn.  Turns that came later than PowerOff and
\* before its commit are in the backlog, answered or not, and stay ahead.
Lifecycle(from, to, kind) ==
    /\ phase = from
    /\ NewTurn
    /\ phase' = to
    /\ Told([kind |-> kind], Nothing)
    /\ UNCHANGED <<vars, retells, ctx, historyVars>>

PowerOn  == Lifecycle("Off", "Starting", "BecomeOn")
PowerOff == Lifecycle("Running", "Stopping", "BecomeOff")

\* The wiper's lifecycle turn is answered or given up, and committed.
AssembliesReady ==
    /\ WiperInFront
    /\ phase' = IF phase = "Starting" THEN "Running" ELSE "Off"
    /\ UNCHANGED <<vars, backlog, zoneBox, nextTurn, retells, ctx, historyVars>>

\* A turn that was told may see its deadline pass: it is told again, or given
\* up.  Its reply may be here, when it waits behind another turn and the
\* timeout was in the mailbox already.
RetellDue(b) == b.told /\ b.retries > 0 /\ retells < MaxRetells
GiveUpDue(b) == b.told /\ b.retries = 0

\* Mutant: the budget of retries is not charged.
RetellForFree(i) ==
    /\ Idle
    /\ RetellDue(backlog[i])
    /\ retells' = retells + 1
    /\ backlog' = [backlog EXCEPT ![i].attempt = @ + 1]
    /\ zoneBox' = Append(zoneBox, [turn |-> backlog[i].turn, attempt |-> backlog[i].attempt + 1,
                                   message |-> backlog[i].message, about |-> backlog[i].about])
    /\ undisturbed' = (undisturbed /\ backlog[i].about = Nothing)
    /\ UNCHANGED <<vars, phase, nextTurn, ctx, about, done, heard>>

\* on_zone_timeout, Retry
Retell(i) ==
    /\ Idle
    /\ RetellDue(backlog[i])
    /\ retells' = retells + 1
    /\ backlog' = [backlog EXCEPT ![i].attempt = @ + 1, ![i].retries = @ - 1]
    /\ zoneBox' = Append(zoneBox, [turn |-> backlog[i].turn, attempt |-> backlog[i].attempt + 1,
                                   message |-> backlog[i].message, about |-> backlog[i].about])
    /\ undisturbed' = (undisturbed /\ backlog[i].about = Nothing)
    /\ UNCHANGED <<vars, phase, nextTurn, ctx, about, done, heard>>

\* on_zone_timeout, GaveUp: the made-up reply raises nothing
GiveUp(i) ==
    /\ Idle
    /\ GiveUpDue(backlog[i])
    /\ backlog' = [backlog EXCEPT ![i].reply = << >>]
    /\ UNCHANGED <<vars, phase, zoneBox, nextTurn, retells, ctx, historyVars>>

\* commit of the front turn, with the wait of its command for a place
CommitFront ==
    /\ CommitDue
    /\ backlog' = Tail(backlog)
    /\ CASE Head(backlog).reply = <<"RequestOn">>  -> Execute("On")
         [] Head(backlog).reply = <<"RequestOff">> -> Execute("Off")
         [] OTHER                                  -> UNCHANGED vars
    /\ UNCHANGED <<phase, zoneBox, nextTurn, retells, ctx, historyVars>>

-----------------------------------------------------------------------------
(* The twinlet.                                                            *)

BelievedLit == ctx \in {"On", "OffRequested"}

\* on_zone_ready: the answer completes the turn if it is still queued and has
\* not been told again since
Answered(tell, outcomes) ==
    [i \in DOMAIN backlog |->
        IF backlog[i].turn = tell.turn /\ backlog[i].attempt = tell.attempt
        THEN [backlog[i] EXCEPT !.reply = outcomes] ELSE backlog[i]]

\* handle_apply.  The brain takes the answer, unless the deadline of the
\* attempt passes while the answer is on its way.  A lamp believed lit that is
\* started or stopped is no longer believed lit: what was heard is given up.
HeadlampApply ==
    /\ zoneBox # << >>
    /\ LET tell  == Head(zoneBox)
           reply == Zone!HeadlampOnMessage(ctx, tell.message)
           givenUp == tell.message.kind \in {"BecomeOn", "BecomeOff"} /\ BelievedLit
       IN  /\ ctx' = reply.ctx
           /\ \/ backlog' = Answered(tell, reply.outcomes)
              \/ /\ \E i \in DOMAIN backlog :
                       /\ backlog[i].turn = tell.turn
                       /\ RetellDue(backlog[i]) \/ GiveUpDue(backlog[i])
                 /\ UNCHANGED backlog
           /\ heard' = CASE tell.message.kind \in {"AckOn", "AckOff"} -> tell.about
                         [] givenUp -> Nothing
                         [] OTHER -> heard
           /\ undisturbed' = (undisturbed /\ ~givenUp)
    /\ zoneBox' = Tail(zoneBox)
    /\ UNCHANGED <<vars, phase, nextTurn, retells, about, done>>

\* handle_ack_wait_elapsed: a deadline that is due, early or late
AckWaitElapsed(direction) ==
    /\ Zone!InFlight(ctx) = direction
    /\ ctx' = Zone!RecoverIncomplete(ctx, direction).ctx
    /\ UNCHANGED <<vars, phase, backlog, zoneBox, nextTurn, retells, historyVars>>

-----------------------------------------------------------------------------
(* The way to the lamp and back.                                           *)

\* A command is lost or refused.  It matters only if an earlier one is not
\* settled: the lamp may have obeyed that one, or may still, and the response
\* to it is ignored since the later command was recorded.
CommandFails(earlierSettled) == undisturbed' = (undisturbed /\ earlierSettled)

LampOnCommandSent ==
    /\ OnCommandSent
    /\ UNCHANGED <<brainVars, historyVars>>

\* The copy of the frame that the gateway reads is passed over (Answers), and
\* is left out here: it could only stand in the way of a response, which may
\* be lost anyway.
LampWriteCommandFrame ==
    /\ WriteCommandFrame
    /\ UNCHANGED toGateway
    /\ CommandFails(toActuator' = toActuator
                       => heard = done /\ toActuator = << >> /\ working = Nothing)
    /\ UNCHANGED <<brainVars, about, done, heard>>

LampReadCommand ==
    /\ ReadCommand
    /\ UNCHANGED <<brainVars, historyVars>>

LampCarryOut ==
    /\ CarryOut
    /\ done' = working
    /\ undisturbed' = (undisturbed /\ toGateway' # toGateway)
    /\ UNCHANGED <<brainVars, about, heard>>

LampRefuse ==
    /\ Refuse
    /\ CommandFails(heard = done /\ toActuator = << >>)
    /\ UNCHANGED <<brainVars, about, done, heard>>

\* (with nothing to lose, a restart of the actuator changes nothing)
LampRestartActuator ==
    /\ working # Nothing \/ toActuator # << >>
    /\ RestartActuator
    /\ CommandFails(heard = done)
    /\ UNCHANGED <<brainVars, about, done, heard>>

LampOnResponse ==
    /\ OnResponse
    /\ about' = IF Answers(Head(toGateway)) THEN Append(about, Head(toGateway).command) ELSE about
    /\ UNCHANGED <<brainVars, done, heard, undisturbed>>

\* A new gateway process has a new brain and new twinlets, as at first.  The
\* model goes on counting turns, for its bound: no old number is left to meet.
LampRestartGateway ==
    /\ RestartGateway
    /\ phase' = "Off" /\ backlog' = << >> /\ zoneBox' = << >> /\ ctx' = "Off"
    /\ about' = << >>
    /\ heard' = Nothing
    /\ undisturbed' = FALSE
    /\ UNCHANGED <<nextTurn, retells, done>>

-----------------------------------------------------------------------------
RoundTripInit ==
    /\ Init
    /\ phase = "Off" /\ backlog = << >> /\ zoneBox = << >>
    /\ nextTurn = 1 /\ retells = 0 /\ ctx = "Off"
    /\ about = << >> /\ done = Nothing /\ heard = Nothing /\ undisturbed = TRUE

RoundTripNext ==
    \/ \E lux \in Lux : LuxReading(lux)
    \/ TakeResponse
    \/ PowerOn
    \/ PowerOff
    \/ AssembliesReady
    \/ \E i \in DOMAIN backlog : Retell(i)
    \/ \E i \in DOMAIN backlog : GiveUp(i)
    \/ CommitFront
    \/ HeadlampApply
    \/ \E direction \in Direction : AckWaitElapsed(direction)
    \/ LampOnCommandSent
    \/ LampWriteCommandFrame
    \/ LampReadCommand
    \/ LampCarryOut
    \/ LampRefuse
    \/ LampRestartActuator
    \/ LampOnResponse
    \/ LampRestartGateway

RoundTripSpec == RoundTripInit /\ [][RoundTripNext]_allVars

-----------------------------------------------------------------------------
(* Properties.                                                             *)

\* ZONE_TELL: what the brain puts into the twinlet's mailbox
ZoneTell == [turn : Nat, attempt : 0..MaxRetries, message : Message,
             about : Command \cup {Nothing}]

\* BarrierEntry; a reply is its outcomes here
Barrier == [turn : Nat, told : BOOLEAN, message : Message, about : Command \cup {Nothing},
            attempt : 0..MaxRetries, retries : 0..MaxRetries,
            reply : Zone!AtMostOne(Zone!HeadlampOutcome) \cup {Nothing}]

\* The variables hold what the code's types allow, and the attempts a turn has
\* made and the retries it has left add up to the budget.
RoundTripTypeOK ==
    /\ TypeOK
    /\ phase \in Phase
    /\ backlog \in Seq(Barrier)
    /\ \A i \in DOMAIN backlog :
          backlog[i].told => backlog[i].attempt + backlog[i].retries = MaxRetries
    /\ zoneBox \in Seq(ZoneTell)
    /\ nextTurn \in Nat
    /\ retells \in 0..MaxRetells
    /\ ctx \in Zone!HeadlampState
    /\ about \in Seq(Command) /\ Len(about) = Len(ingress)
    /\ done \in Command \cup {Nothing}
    /\ heard \in Command \cup {Nothing}
    /\ undisturbed \in BOOLEAN

\* A twinlet whose last confirmation is that of the command last carried out
\* is right about the lamp, whatever the wire ids: no deadline, reading,
\* refusal or late turn makes it forget or invent that the lamp is lit.
HeardLampIsBelieved ==
    heard = done => (BelievedLit = (lit = "On"))

\* When the twinlet takes the confirmation of the command sent last, it is
\* true of the lamp, however long it was on its way and whatever the wire
\* ids; any other confirmation is for a command that was overtaken.
ConfirmationTrueOrOvertaken ==
    [][HeadlampApply /\ Head(zoneBox).about # Nothing
         => \/ lit = Head(zoneBox).about.direction
            \/ Head(zoneBox).about # latest]_allVars

\* Nothing is on its way between the brain, the twinlet and the lamp.
Quiet ==
    /\ channel = << >> /\ publishing = Nothing /\ toActuator = << >> /\ working = Nothing
    /\ toGateway = << >> /\ ingress = << >> /\ backlog = << >> /\ zoneBox = << >>

\* Once all is quiet the twinlet has heard of the last thing the lamp did,
\* if no two commands looked alike on the wire, and unless one of these
\* happened: a confirmation was lost, or came while the
\* assemblies started or stopped, or its turn was told twice; a command got
\* lost or was refused before an earlier one was settled; a lit lamp was
\* started or stopped; the gateway restarted.  Commands and refusals that get
\* lost, repeats, deadlines that race the answer and turns that are given up
\* do not lead it astray.
UndisturbedTwinKnows == Quiet /\ undisturbed /\ WireIdsDiffer => heard = done

\* front_headlamp.rs says of Ready: "assembly active, physical lamp dark".  It
\* is asked only of a running car in which nothing is under way and no command
\* waits for its response.
ReadyLampIsDark == phase = "Running" /\ Quiet /\ pending = Nothing /\ ctx = "Ready" => lit = "Off"
=============================================================================
