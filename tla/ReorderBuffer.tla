--------------------------- MODULE ReorderBuffer ----------------------------
(***************************************************************************)
(* The brain actor (VirtualCarActor) as a machine that processes turns:    *)
(* its mailbox, its queue of turn barriers, the tells it sends to the zone *)
(* twinlets, the tell-back deadlines it arms, the retries, the drain loop  *)
(* and the actions a commit makes it perform.                              *)
(*                                                                         *)
(* What the twin computes is a parameter: Route is zone_message_for_event, *)
(* CommitTurn the committed twin after run_to_quiescence, Actions the      *)
(* domain actions of that turn, Synthetic the reply made up for a zone     *)
(* that gave no answer.  Module VirtualCar supplies the real ones.         *)
(*                                                                         *)
(* A handler of the actor runs to its end before the next message is       *)
(* taken.  Its loops are unrolled into steps, because it awaits inside     *)
(* them and the other tasks go on meanwhile: one step per commit of the    *)
(* drain loop (CommitFront) and one per action of a commit (Perform...).   *)
(* Idle is the guard that keeps the next message out until the handler of  *)
(* the previous one has ended, so no step of a handler is optional.        *)
(***************************************************************************)
EXTENDS Integers, Sequences

CONSTANTS
    Zone,              \* AssemblyId
    Event,             \* FsmEvent: the ingress events and AssemblyZoneReady
    Ingress,           \* the events the outside sends
    SpontaneousEvent,  \* events of ZoneSpontaneous
    Message,           \* ZoneMessage
    Reply,             \* ZoneReply
    NoReply,           \* no reply stored
    NoTell,            \* Route: no zone is told
    Command,           \* ActuationCommand
    Twin,              \* committed (FsmState, VehicleContext)
    InitTwin,
    Silent,            \* zones that swallow their tells (test_silent_*)
    MaxRetries,        \* ZONE_TELL_BACK_MAX_RETRIES
    ChannelCapacity,   \* ACTUATION_COMMAND_CHANNEL_CAPACITY
    MaxEvents,         \* bound: messages the outside sends in a behaviour
    Route(_, _),          \* event, twin |-> the tell, or NoTell
    CommitTurn(_, _, _),  \* twin, event, reply |-> twin
    Actions(_, _, _),     \* twin, event, reply |-> sequence of actions
    Synthetic(_, _)       \* twin, zone |-> reply

ASSUME BoundAssumption ==
    /\ MaxRetries \in Nat
    /\ ChannelCapacity \in Nat \ {0}
    /\ MaxEvents \in Nat

VARIABLES
    twin,       \* twin_car
    nextTurn,   \* next_turn_id
    queue,      \* barrier_queue
    todo,       \* actions of the running commit not performed yet
    inbox,      \* mailbox of the brain
    zoneBox,    \* mailbox of each zone twinlet
    timers,     \* tell-back timers armed and not yet fired or aborted
    channel,    \* the bounded actuation command channel
    committed,  \* history: turn of the barrier committed last
    submitted   \* history: messages sent by the outside

vars == <<twin, nextTurn, queue, todo, inbox, zoneBox, timers, channel,
          committed, submitted>>

-----------------------------------------------------------------------------
(* Data.                                                                   *)

NoTimer == -1
Attempt == 0..MaxRetries
Turn    == Nat \ {0}

\* A message for one zone.  Every barrier of the code waits for one zone.
Tell == [zone : Zone, message : Message]

\* BarrierEntry.  Passthrough is the barrier with tell = NoTell.
Barrier == [turn    : Turn,
            event   : Event,
            tell    : Tell \cup {NoTell},
            pending : BOOLEAN,               \* the zone is in `pending`
            attempt : Attempt,               \* TellBackWait.tell_attempt
            retries : Attempt,               \* TellBackWait.retries_remaining
            timer   : Attempt \cup {NoTimer},\* the handle in zone_timers
            reply   : Reply \cup {NoReply}]

Timer == [zone : Zone, turn : Turn, attempt : Attempt]

\* The arms of DigitalTwinCarVocabulary that reach the queue.
FsmMsg         == [kind : {"Fsm"}, event : Event]
ZoneReadyMsg   == [kind : {"ZoneReady"}, zone : Zone, turn : Turn,
                   attempt : Attempt, reply : Reply]
TimeoutMsg     == [kind : {"Timeout"}, zone : Zone, turn : Turn, attempt : Attempt]
SpontaneousMsg == [kind : {"Spontaneous"}, event : SpontaneousEvent, reply : Reply]
InboxMsg == FsmMsg \cup ZoneReadyMsg \cup TimeoutMsg \cup SpontaneousMsg

\* HeadlampActorVocabulary / WiperActorVocabulary
ZoneTell == [turn : Turn, attempt : Attempt, message : Message]

\* An element of the action list: open an assembly's turn, or send a command.
OpenAction == [kind : {"open"}, event : Event, tell : Tell]
SendAction == [kind : {"send"}, command : Command]
Action == OpenAction \cup SendAction

ASSUME DataAssumption ==
    /\ InitTwin \in Twin
    /\ Ingress \subseteq Event
    /\ NoReply \notin Reply
    /\ NoTell \notin Tell
    /\ Silent \subseteq Zone

\* Every event is routed and committed in every state: the code's match
\* expressions are total.
ASSUME OperatorAssumption ==
    /\ \A t \in Twin, e \in Event : Route(e, t) \in Tell \cup {NoTell}
    /\ \A t \in Twin, z \in Zone : Synthetic(t, z) \in Reply
    /\ \A t \in Twin, e \in Event \cup SpontaneousEvent, r \in Reply \cup {NoReply} :
          /\ CommitTurn(t, e, r) \in Twin
          /\ Actions(t, e, r) \in Seq(Action)

-----------------------------------------------------------------------------
(* TurnBarrier and PassthroughBarrier.                                     *)

\* TurnBarrier::new + add_pending_zone, or PassthroughBarrier::new
NewBarrier(t, e, tell) ==
    [turn    |-> t,
     event   |-> e,
     tell    |-> tell,
     pending |-> tell # NoTell,
     attempt |-> 0,
     retries |-> MaxRetries,
     timer   |-> IF tell = NoTell THEN NoTimer ELSE 0,
     reply   |-> NoReply]

\* A reply or a timeout m concerns barrier b: same turn, and b waits for zones.
Concerns(m, b) == b.turn = m.turn /\ b.tell # NoTell

\* tell_attempt_matches: a barrier has a wait for its own zone only
TellAttemptMatches(b, m) == b.tell.zone = m.zone /\ b.attempt = m.attempt

\* act_on_zone_reply
ActOnZoneReply(b, r) == [b EXCEPT !.pending = FALSE, !.timer = NoTimer, !.reply = r]

\* the timer task whose handle b holds: what abort() stops
HeldTimer(b) == [zone |-> b.tell.zone, turn |-> b.turn, attempt |-> b.timer]

\* Mutant: the last retry is not made.
RetryDueTooFew(b, m) == TellAttemptMatches(b, m) /\ b.retries > 1

\* act_on_zone_timeout: Retry rather than GaveUp
RetryDue(b, m) == TellAttemptMatches(b, m) /\ b.retries > 0

\* Mutant: the retry budget is never charged.
RetriedForFree(b) == [b EXCEPT !.attempt = @ + 1, !.timer = b.attempt + 1]

\* act_on_zone_timeout = Retry, then store_retry_timer
Retried(b) == [b EXCEPT !.attempt = @ + 1, !.retries = @ - 1, !.timer = b.attempt + 1]

IsComplete(b) == ~b.pending

-----------------------------------------------------------------------------
(* The brain.                                                              *)

\* No handler is running: the list of actions is done and the drain loop has
\* stopped at an incomplete barrier or an empty queue.
Idle == todo = << >> /\ (queue # << >> => ~IsComplete(Head(queue)))

\* begin_fsm_turn, and the body of the Start/StopAssemblies loops: take a turn
\* number, tell the zone (attempt 0), arm its deadline, push the barrier.
OpenTurn(e, tell) ==
    /\ nextTurn' = nextTurn + 1
    /\ queue' = Append(queue, NewBarrier(nextTurn, e, tell))
    /\ IF tell = NoTell
       THEN UNCHANGED <<zoneBox, timers>>
       ELSE /\ zoneBox' = [zoneBox EXCEPT ![tell.zone] =
                   Append(@, [turn |-> nextTurn, attempt |-> 0, message |-> tell.message])]
            /\ timers' = timers \cup {[zone |-> tell.zone, turn |-> nextTurn, attempt |-> 0]}

\* The brain takes the next message, of kind k, from its mailbox.
Receive(k) ==
    /\ Idle
    /\ inbox # << >>
    /\ Head(inbox).kind = k
    /\ inbox' = Tail(inbox)

\* Fsm(event): the zone is chosen from the state committed at arrival
HandleFsm ==
    /\ Receive("Fsm")
    /\ OpenTurn(Head(inbox).event, Route(Head(inbox).event, twin))
    /\ UNCHANGED <<twin, todo, channel, committed, submitted>>

\* on_zone_ready, the turn is queued and the attempt is the current one
HandleZoneReady(i) ==
    /\ Receive("ZoneReady")
    /\ Concerns(Head(inbox), queue[i])
    /\ TellAttemptMatches(queue[i], Head(inbox))
    /\ queue' = [queue EXCEPT ![i] = ActOnZoneReply(queue[i], Head(inbox).reply)]
    /\ timers' = timers \ {HeldTimer(queue[i])}
    /\ UNCHANGED <<twin, nextTurn, todo, zoneBox, channel, committed, submitted>>

\* on_zone_ready, early returns: turn gone, or an answer to an older attempt
DiscardZoneReady ==
    /\ Receive("ZoneReady")
    /\ \A i \in DOMAIN queue :
          Concerns(Head(inbox), queue[i]) => ~TellAttemptMatches(queue[i], Head(inbox))
    /\ UNCHANGED <<twin, nextTurn, queue, todo, zoneBox, timers, channel, committed, submitted>>

\* Mutant: the zone is told again but no deadline is armed.
HandleTimeoutRetryUnarmed(i) ==
    /\ Receive("Timeout")
    /\ Concerns(Head(inbox), queue[i])
    /\ RetryDue(queue[i], Head(inbox))
    /\ queue' = [queue EXCEPT ![i] = Retried(queue[i])]
    /\ zoneBox' = [zoneBox EXCEPT ![queue[i].tell.zone] =
           Append(@, [turn |-> queue[i].turn, attempt |-> queue[i].attempt + 1,
                      message |-> queue[i].tell.message])]
    /\ UNCHANGED <<twin, nextTurn, todo, timers, channel, committed, submitted>>

\* Mutant: the new deadline carries the attempt that has just timed out.
HandleTimeoutRetryOldAttempt(i) ==
    /\ Receive("Timeout")
    /\ Concerns(Head(inbox), queue[i])
    /\ RetryDue(queue[i], Head(inbox))
    /\ queue' = [queue EXCEPT ![i] = Retried(queue[i])]
    /\ zoneBox' = [zoneBox EXCEPT ![queue[i].tell.zone] =
           Append(@, [turn |-> queue[i].turn, attempt |-> queue[i].attempt + 1,
                      message |-> queue[i].tell.message])]
    /\ timers' = timers \cup {[zone |-> queue[i].tell.zone, turn |-> queue[i].turn,
                               attempt |-> queue[i].attempt]}
    /\ UNCHANGED <<twin, nextTurn, todo, channel, committed, submitted>>

\* on_zone_timeout, Retry: the stored message is told again as a new attempt.
\* Nothing looks at whether the zone is still pending.
HandleTimeoutRetry(i) ==
    /\ Receive("Timeout")
    /\ Concerns(Head(inbox), queue[i])
    /\ RetryDue(queue[i], Head(inbox))
    /\ queue' = [queue EXCEPT ![i] = Retried(queue[i])]
    /\ zoneBox' = [zoneBox EXCEPT ![queue[i].tell.zone] =
           Append(@, [turn |-> queue[i].turn, attempt |-> queue[i].attempt + 1,
                      message |-> queue[i].tell.message])]
    /\ timers' = timers \cup {[zone |-> queue[i].tell.zone, turn |-> queue[i].turn,
                               attempt |-> queue[i].attempt + 1]}
    /\ UNCHANGED <<twin, nextTurn, todo, channel, committed, submitted>>

\* Mutant: the made-up reply is stored nowhere, and the zone stays pending.
HandleTimeoutGaveUpForgets(i) ==
    /\ Receive("Timeout")
    /\ Concerns(Head(inbox), queue[i])
    /\ ~RetryDue(queue[i], Head(inbox))
    /\ UNCHANGED <<twin, nextTurn, queue, todo, zoneBox, timers, channel, committed, submitted>>

\* on_zone_timeout, GaveUp: a reply is made up from the twin committed now
HandleTimeoutGaveUp(i) ==
    /\ Receive("Timeout")
    /\ Concerns(Head(inbox), queue[i])
    /\ ~RetryDue(queue[i], Head(inbox))
    /\ queue' = [queue EXCEPT ![i] =
                    ActOnZoneReply(queue[i], Synthetic(twin, Head(inbox).zone))]
    /\ UNCHANGED <<twin, nextTurn, todo, zoneBox, timers, channel, committed, submitted>>

\* on_zone_timeout, early return: the turn was committed meanwhile
DiscardTimeout ==
    /\ Receive("Timeout")
    /\ \A i \in DOMAIN queue : ~Concerns(Head(inbox), queue[i])
    /\ UNCHANGED <<twin, nextTurn, queue, todo, zoneBox, timers, channel, committed, submitted>>

\* on_zone_spontaneous: committed at once, ahead of every queued barrier
HandleSpontaneous ==
    /\ Receive("Spontaneous")
    /\ twin' = CommitTurn(twin, Head(inbox).event, Head(inbox).reply)
    /\ todo' = Actions(twin, Head(inbox).event, Head(inbox).reply)
    /\ UNCHANGED <<nextTurn, queue, zoneBox, timers, channel, committed, submitted>>

\* Mutant: a complete barrier is committed wherever it stands in the queue.
CommitFrontAnywhere ==
    /\ todo = << >>
    /\ \E i \in DOMAIN queue :
          /\ IsComplete(queue[i])
          /\ twin' = CommitTurn(twin, queue[i].event, queue[i].reply)
          /\ todo' = Actions(twin, queue[i].event, queue[i].reply)
          /\ queue' = SubSeq(queue, 1, i - 1) \o SubSeq(queue, i + 1, Len(queue))
          /\ committed' = queue[i].turn
    /\ UNCHANGED <<nextTurn, inbox, zoneBox, timers, channel, submitted>>

\* one round of try_drain_barrier_queue: pop the front and commit it.  The
\* barrier is dropped with the handle of its timer, which is not aborted.
CommitFront ==
    /\ todo = << >>
    /\ queue # << >>
    /\ IsComplete(Head(queue))
    /\ twin' = CommitTurn(twin, Head(queue).event, Head(queue).reply)
    /\ todo' = Actions(twin, Head(queue).event, Head(queue).reply)
    /\ queue' = Tail(queue)
    /\ committed' = Head(queue).turn
    /\ UNCHANGED <<nextTurn, inbox, zoneBox, timers, channel, submitted>>

\* one assembly of a StartAssemblies or StopAssemblies action
PerformOpen ==
    /\ todo # << >>
    /\ Head(todo).kind = "open"
    /\ OpenTurn(Head(todo).event, Head(todo).tell)
    /\ todo' = Tail(todo)
    /\ UNCHANGED <<twin, inbox, channel, committed, submitted>>

\* actuation_manager.execute(..).await: waits while the channel is full
PerformSend ==
    /\ todo # << >>
    /\ Head(todo).kind = "send"
    /\ Len(channel) < ChannelCapacity
    /\ channel' = Append(channel, Head(todo).command)
    /\ todo' = Tail(todo)
    /\ UNCHANGED <<twin, nextTurn, queue, inbox, zoneBox, timers, committed, submitted>>

Brain == \/ HandleFsm
         \/ \E i \in DOMAIN queue : HandleZoneReady(i)
         \/ DiscardZoneReady
         \/ \E i \in DOMAIN queue : HandleTimeoutRetry(i)
         \/ \E i \in DOMAIN queue : HandleTimeoutGaveUp(i)
         \/ DiscardTimeout
         \/ HandleSpontaneous
         \/ CommitFront
         \/ PerformOpen
         \/ PerformSend

-----------------------------------------------------------------------------
(* What surrounds the brain.                                               *)

\* Mutant: send_interval instead of send_after, the timer stays armed.
TimerFiresAgain(d) ==
    /\ inbox' = Append(inbox, [kind |-> "Timeout", zone |-> d.zone,
                               turn |-> d.turn, attempt |-> d.attempt])
    /\ UNCHANGED <<twin, nextTurn, queue, todo, zoneBox, timers, channel, committed, submitted>>

\* the runtime fires an armed tell-back timer
TimerFires(d) ==
    /\ timers' = timers \ {d}
    /\ inbox' = Append(inbox, [kind |-> "Timeout", zone |-> d.zone,
                               turn |-> d.turn, attempt |-> d.attempt])
    /\ UNCHANGED <<twin, nextTurn, queue, todo, zoneBox, channel, committed, submitted>>

\* the gateway's fan-out task takes a command from the channel
ChannelReceive ==
    /\ channel # << >>
    /\ channel' = Tail(channel)
    /\ UNCHANGED <<twin, nextTurn, queue, todo, inbox, zoneBox, timers, committed, submitted>>

\* submit_physical_car_event / send_power_on: an event enters the mailbox
Submit(e) ==
    /\ submitted < MaxEvents
    /\ submitted' = submitted + 1
    /\ inbox' = Append(inbox, [kind |-> "Fsm", event |-> e])
    /\ UNCHANGED <<twin, nextTurn, queue, todo, zoneBox, timers, channel, committed>>

\* a twinlet applies its next tell and answers with that turn and attempt
ZoneAnswers(z, r) ==
    /\ z \notin Silent
    /\ zoneBox[z] # << >>
    /\ inbox' = Append(inbox, [kind |-> "ZoneReady", zone |-> z, turn |-> Head(zoneBox[z]).turn,
                               attempt |-> Head(zoneBox[z]).attempt, reply |-> r])
    /\ zoneBox' = [zoneBox EXCEPT ![z] = Tail(@)]
    /\ UNCHANGED <<twin, nextTurn, queue, todo, timers, channel, committed, submitted>>

\* a silent twinlet swallows its next tell
ZoneSwallows(z) ==
    /\ z \in Silent
    /\ zoneBox[z] # << >>
    /\ zoneBox' = [zoneBox EXCEPT ![z] = Tail(@)]
    /\ UNCHANGED <<twin, nextTurn, queue, todo, inbox, timers, channel, committed, submitted>>

\* a twinlet's own deadline raises an event
ZoneSpeaksUp(e, r) ==
    /\ submitted < MaxEvents
    /\ submitted' = submitted + 1
    /\ inbox' = Append(inbox, [kind |-> "Spontaneous", event |-> e, reply |-> r])
    /\ UNCHANGED <<twin, nextTurn, queue, todo, zoneBox, timers, channel, committed>>

Surroundings ==
    \/ \E d \in timers : TimerFires(d)
    \/ ChannelReceive
    \/ \E e \in Ingress : Submit(e)
    \/ \E z \in Zone, r \in Reply : ZoneAnswers(z, r)
    \/ \E z \in Zone : ZoneSwallows(z)
    \/ \E e \in SpontaneousEvent, r \in Reply : ZoneSpeaksUp(e, r)

-----------------------------------------------------------------------------
Init ==
    /\ twin = InitTwin
    /\ nextTurn = 1
    /\ queue = << >>
    /\ todo = << >>
    /\ inbox = << >>
    /\ zoneBox = [z \in Zone |-> << >>]
    /\ timers = {}
    /\ channel = << >>
    /\ committed = 0
    /\ submitted = 0

Next == Brain \/ Surroundings

\* The actor's task is scheduled while it has work, timers fire, and the
\* fan-out task drains the channel.  Nothing is assumed of the twinlets.
Fairness == /\ WF_vars(Brain)
            /\ WF_vars(\E d \in timers : TimerFires(d))
            /\ WF_vars(ChannelReceive)

Spec == Init /\ [][Next]_vars
FairSpec == Spec /\ Fairness

-----------------------------------------------------------------------------
(* Properties.                                                             *)

\* Every variable holds what the code's types and counters allow: attempts
\* and retries stay within the budget of ZONE_TELL_BACK_MAX_RETRIES.
TypeOK ==
    /\ twin \in Twin
    /\ nextTurn \in Turn
    /\ queue \in Seq(Barrier)
    /\ todo \in Seq(Action)
    /\ inbox \in Seq(InboxMsg)
    /\ zoneBox \in [Zone -> Seq(ZoneTell)]
    /\ timers \subseteq Timer
    /\ channel \in Seq(Command)
    /\ committed \in Nat
    /\ submitted \in Nat

\* The deadline of barrier b is still to come: its timer is armed, or has
\* fired and its message waits in the mailbox.
DeadlineArmed(b)   == [zone |-> b.tell.zone, turn |-> b.turn, attempt |-> b.attempt] \in timers
DeadlineExpired(b) == \E k \in DOMAIN inbox : inbox[k] = [kind |-> "Timeout", zone |-> b.tell.zone,
                                                          turn |-> b.turn, attempt |-> b.attempt]

\* A barrier that waits for its zone always has a deadline to come: whatever
\* the order in which replies, timeouts, retries and aborts meet, no turn can
\* be left with nothing that would ever complete it.
NoOrphanBarrier ==
    \A i \in DOMAIN queue : queue[i].pending => DeadlineArmed(queue[i]) \/ DeadlineExpired(queue[i])

\* A deadline that concerns a queued turn is that turn's present attempt at
\* its own zone: a retry never leaves the deadline of an older attempt behind.
DeadlineIsCurrent ==
    \A i \in DOMAIN queue :
       /\ \A d \in timers : Concerns(d, queue[i]) => TellAttemptMatches(queue[i], d)
       /\ \A k \in DOMAIN inbox :
             inbox[k].kind = "Timeout" /\ Concerns(inbox[k], queue[i])
                => TellAttemptMatches(queue[i], inbox[k])

\* A turn never has two deadlines, armed or in the mailbox: else one tell
\* would be paid for with two retries of the budget.
OneDeadline ==
    /\ \A d \in timers : \A c \in timers : d.turn = c.turn => d = c
    /\ \A d \in timers : \A k \in DOMAIN inbox :
          inbox[k].kind = "Timeout" => inbox[k].turn # d.turn
    /\ \A k, l \in DOMAIN inbox :
          inbox[k].kind = "Timeout" /\ inbox[l].kind = "Timeout" /\ inbox[k].turn = inbox[l].turn
             => k = l

\* A reply is made up for a zone only when the retries of its turn are spent.
\* act_on_zone_timeout also gives up when the attempt does not match; this
\* says that branch is never taken.
GiveUpOnlyWhenExhausted ==
    [][\A i \in DOMAIN queue : HandleTimeoutGaveUp(i) => queue[i].retries = 0]_vars

\* The brain is a twin that consumes its turns one at a time in the order in
\* which they were opened, each once, and with a reply when it asked a zone.
Sequential == INSTANCE SequentialTwin
    WITH Commit  <- CommitTurn,
         backlog <- [i \in DOMAIN queue |-> [turn  |-> queue[i].turn,
                                             event |-> queue[i].event,
                                             asks  |-> queue[i].tell # NoTell]]
ImplementsSequentialTwin == Sequential!Spec

\* Once the outside falls silent (MaxEvents) every turn that was opened, by an
\* event or by the start of an assembly, is committed, even when its zone never
\* answers: the retries end, and a full actuation channel is drained.
EveryTurnCommits == <>[](committed = nextTurn - 1)
=============================================================================
