# TLA+ models of the SDV digital twin

This directory holds the formal models of the vehicle digital twin in `crates/`:
TLA+ modules, TLC configurations that model-check them on small instances, and
proofs of their main theorems that TLAPS checks for every value of the constants.
Paths below are relative to `crates/`; `common/` stands for `common/src/`.

## 1. The system

A gateway process reads CAN frames and keeps a *digital twin* of one car. The twin
is an actor system (ractor on tokio) of three actors, and hardware stands on the
other side of the bus.

```
 CAN reader ─┐                        ┌─ Apply(turn, attempt) ─> HeadlampActor ─ AckWaitElapsed (own timer)
 tick loop ──┼─ Fsm(event) ─> BRAIN ──┤        <─ ZoneReady, ZoneSpontaneous ─┘
 PowerOn ────┘   VirtualCarActor      └─ Apply(turn, attempt) ─> WiperActor
                 │  ^ ZoneTellBackTimeout (own timers)  <─ ZoneReady ─┘
                 └─ bounded command channel ─> fan-out ─> headlamp / wiper publisher ─> CAN ─> actuators
                                                                                   CAN <─ ACK / NACK
```

| Component | State | Operations | What makes it correct |
|---|---|---|---|
| Brain (`common/twin_runtime/controller/virtual_car_actor.rs`, `turn_barrier.rs`) | committed twin, next turn number, queue of turn barriers, tell-back timers | `Fsm`, `ZoneReady`, `ZoneTellBackTimeout`, `ZoneSpontaneous`, `GetStatus`; drain loop; actions of a commit | turns are committed in order and once; no barrier is stranded; a reply is made up only when the retries are spent; startup and shutdown end |
| Operational state machine (`common/fsm/`) | none (pure) | `transition`, `output`, `step` | alarm states have their cause, the buzzer follows them, the lifecycle countdown is exact |
| Zone handlers (`common/vehicle_state/`) | none (pure) | `on_receiving_message` of headlamp and wiper | deadband, recovery of a failed request, lifecycle |
| Turn engine (`common/twin_runtime/twin_turn.rs`, `zone_turn.rs`, `detectors/`) | none (pure) | `zone_turn`, `run_to_quiescence` | quiescent after every commit |
| Headlamp twinlet (`common/twin_runtime/headlamp_actor.rs`) | its zone state, handle of the acknowledgement timer | `Apply`, `AckWaitElapsed` | a request in flight always has a deadline and settles |
| Wiper twinlet (`common/twin_runtime/wiper_actor.rs`) | its zone state | `Apply` | agrees with the twin and with the motor |
| Controller, projection (`vehicle_controller.rs`, `connectors/`) | none | `send_power_on`, `submit_physical_car_event`, `get_snapshot` | every event enters the mailbox once |
| Actuation manager (`actuation_manager.rs`) | correlation counter, channel | `execute` | waits when the channel is full |
| Gateway (`gateway/src/gateway_runtime.rs`) | pending headlamp command, three channels | CAN reader, tick loop, fan-out, two publishers | only the response to the present command is let in; an assembly's commands stay in order; the brain's wait ends |
| Device bus (`vehicle_device_bus`), actuators | wire formats, lamp and motor | encode, decode, policy | correlation, duplicates and losses; what the twin believes of the lamp |
| Ledger, diagnostics (`published.rs`, `transition_sink.rs`, `diagnostic/`, `gateway/src/transition_log.rs`) | record number, bounded sink | number and offer the rows of a commit, `GetStatus`, print | a gap means a loss; rows and snapshots fit together |
| Emulator | none | random frames | |

What is hard here: the brain awaits inside its handlers, so timers fire, twinlets
answer and the fan-out drains the channel while a commit is half done; each
deadline races the answer it is for; a zone is *told* in one state of the twin and
its event *committed* in another; brain and twinlets hold separate copies of the
zone states; a deadline's handle can be dropped while its timer still runs; a
full command channel holds up the whole brain, and a publisher that dies takes the other
assembly's commands with it; what the twin believes of the lamp rests on responses that
may be lost, late or for an older command; and the rows of a turn are offered one by one
to a sink that may be full. `PROJECT.json` lists these hazards
at their lines, each with the property that covers it or the plan for it.

## 2. Modules

| Module | Models | Uses |
|---|---|---|
| `SequentialTwin` | abstract: a twin that consumes its turns one at a time | |
| `ReorderBuffer` | the brain: mailbox, queue, timers, retries, drain loop, channel; the twin is a parameter | |
| `ReorderBuffer_proofs` | theorems about `ReorderBuffer` | `ReorderBuffer` |
| `VehiclePhysics` | thresholds and kinematics | |
| `AssemblyZones` | the two zone handlers | `VehiclePhysics` |
| `OperationalFsm` | transition table, outputs, lighting detector | `AssemblyZones` |
| `TwinTurn` | `zone_turn` and `run_to_quiescence` | `OperationalFsm` |
| `DigitalTwin` | the committed twin: a step per committed turn; at once a component and the abstract specification of the running twin | `TwinTurn` |
| `DigitalTwin_proofs` | theorems about `DigitalTwin` | `DigitalTwin`, `TwinTurn_proofs` |
| `VirtualCar` | composition: brain, both twinlets, their timers, ingress | `TwinTurn`, instances of `ReorderBuffer` and `DigitalTwin` |
| `CommandFeedback` | abstract: at most one feedback for a command, and only for the last one sent | |
| `HeadlampActuation` | command numbers, publisher, response policy, bus, actuator process | instance of `CommandFeedback` |
| `HeadlampActuation_proofs` | theorems about `HeadlampActuation` | `HeadlampActuation` |
| `LampRoundTrip` | composition: the headlamp twinlet and its turns over the way to the lamp and back | `HeadlampActuation`, instance of `AssemblyZones` |
| `LampRoundTrip_proofs` | theorems about `LampRoundTrip` | `LampRoundTrip`, `HeadlampActuation_proofs` |
| `CommandRelay` | abstract: an assembly's commands reach the bus in order, each once, until it is cut off | |
| `CommandFanOut` | `execute`, fan-out task, three channels, publisher tasks, wiper frames and motor | instance of `CommandRelay` |
| `CommandFanOut_proofs` | theorems about `CommandFanOut` | `CommandFanOut` |
| `Ledger` | rows of a commit, record numbers, the sink and its reader, snapshots, console lines | `TwinTurn` |
| `Ledger_proofs` | theorems about `Ledger` | `Ledger`, `TwinTurn_proofs` |
| `TwinTurn_proofs` | lemmas: the types and the shape of a turn | `TwinTurn` |
| `VirtualCar_proofs` | theorems about `VirtualCar` | `VirtualCar`, `TwinTurn_proofs`, instances of `ReorderBuffer_proofs` and `DigitalTwin_proofs` |
| `MCReorderBuffer`, `MCDigitalTwin`, `MCVirtualCar`, `MCHeadlampActuation`, `MCLampRoundTrip`, `MCCommandFanOut`, `MCLedger` | values of the constants for TLC | |

An operator that ends a group named *Mutant* in a comment is a plausible defect of
the operator after it; it is used nowhere. Each property has been seen to fail when
the operator is replaced by that defect.

### The brain: `ReorderBuffer`

| Variable | Code |
|---|---|
| `twin` | `VirtualCarRuntimeState::twin_car` |
| `nextTurn`, `queue` | `next_turn_id`, `barrier_queue` |
| `todo` | what remains of `merged_actions()` in the loop of `apply_committed_quiescence` |
| `inbox`, `zoneBox` | mailboxes of the brain and of the twinlets (FIFO) |
| `timers` | tokio tasks of `send_after` that have neither fired nor been aborted |
| `channel` | the `mpsc` channel of actuation commands |
| `committed`, `submitted` | history: last turn committed; messages from outside |

A barrier is one record: every barrier of the code waits for one zone or for none,
and `PassthroughBarrier` is the one with `tell = NoTell`. `attempt`, `retries` and
`timer` are `TellBackWait` and the handle in `zone_timers`.

A ractor handler runs to its end before the next message is taken, but it awaits.
So a handler is a run of steps: the arm itself (`HandleFsm`, `HandleZoneReady`, ...),
then one `CommitFront` per round of the drain loop, then one `PerformOpen` or
`PerformSend` per action of that commit. `Idle` guards the taking of a message: a
step of a handler that is due can be interleaved with other tasks, never left out.
`HandleSpontaneous` commits at once and its actions come before the drain loop.
`PerformSend` is disabled while the channel is full, as `execute(..).await` waits.

The model keeps two details that matter. A reply does not change the attempt, so a
timeout that was in the mailbox before is processed. And a popped barrier drops the
handle of its timer without aborting it, so the timeout comes later and finds no turn.

`SequentialTwin` is what a caller may rely on: turns are numbered when opened, and
consumed from the front, each once, with some reply exactly if a zone was asked; a
zone's own event is committed at any time. The refinement maps `queue` to the
backlog of open turns and forgets waits, attempts, timers and mailboxes.

### The committed twin: `TwinTurn`, `DigitalTwin`

`Turn(t, e, reply)` is `run_to_quiescence`: `ZoneTurn`, then `Step` (`transition` and
`output`), then at most one internal hop. `DigitalTwin` has one action per event, with
any reply the zone may give *from any copy of its state*, the made-up reply, or none;
this is more than the running system can do, and what holds here holds there because
`VirtualCar` implements it (`TwinRefinement`). `open` is the set of lifecycle turns that
`StartAssemblies` and `StopAssemblies` opened. `buzzer` is a history variable.

Abstracted: the instant in `ExtremeOperationWarning` is a flag of `TimerTick`, and so is
`ack_pending_since` (the lamp state says whether it is set); health never changes; the
four wheels always carry one rpm; causes of an incomplete actuation and warning texts
only reach the log.

### The running twin: `VirtualCar`

`ReorderBuffer` with the real `ZoneMessageForEvent`, `Turn` and made-up replies,
and the twinlets in place of its arbitrary answers. `zoneCtx` is the twinlets' own
state. The acknowledgement deadline has three places: `ackHeld` (its handle is kept),
`ackLoose` (the handle was dropped by `state.ack_timer = None`, which does not abort a
tokio task) and `ackBox` (fired, in the mailbox; `ahead` is its place among the tells).
The gateway sends `PowerOn` before it starts any other sender, hence `Ingest`. No event
from outside is an `AssemblyZoneReady`, for `connectors/physical_to_digital.rs` makes none:
only the brain opens those turns.
`wiping` is a history variable: the last command sent to the wiper motor.

### The way to the lamp: `HeadlampActuation`

| Variable | Code |
|---|---|
| `session`, `nextSequence`, `channel` | `DefaultActuationManager` and the channels to the publisher, one FIFO here |
| `publishing` | `cmd` of the publisher between `on_command_sent` and `write_frame` |
| `pending` | `FrontHeadlampPolicy::pending`, with its ids as they are on the wire |
| `toActuator`, `toGateway` | receive buffers of the two sockets that are read |
| `working` | `cmd` of the actuator during its delay |
| `ingress` | unbounded channel from the CAN reader to the dispatch loop |
| `lit`, `issued`, `latest` | history: the lamp, the commands recorded, the last of them |

The policy is shared under a lock by the publisher and the CAN reader thread, so
`OnCommandSent` and `OnResponse` are atomic; the frame is written after the lock is
released, and a response may be read in between. A frame carries the whole command for
the sake of the properties, but the code's decisions see only `WireId`, where session and
sequence are cut to their width and the source id is missing. A frame may be lost, or
arrive twice, at each socket on its own; a command frame reaches the gateway's reader
too. The bus keeps the order of frames. Either process may restart: a new gateway takes a
later instant of the clock as its session and counts from 1, while the actuator still
works on the commands of the old one.

`CommandFeedback` is what the brain may rely on. It holds whatever the wire ids are.
`AnswersLatest` and `ConfirmedLampIsSet` are about the commands behind the ids and hold as
long as no two commands recorded look alike (`WireIdsDiffer`): that takes 2^32 commands in
one session or a restart that meets the same low 16 bits of the clock in nanoseconds; in
the run both happen, and then only `CommandFeedback` is left.

### What the twin believes of the lamp: `LampRoundTrip`

| Variable | Code |
|---|---|
| `phase` | mode of the twin, as far as routing looks at it: off, starting, running, stopping |
| `backlog`, `zoneBox`, `nextTurn` | the headlamp's turns in `barrier_queue`, the twinlet's mailbox, `next_turn_id` |
| `ctx` | the twinlet's `HeadlampContext` |
| `about` | history: the command each response of `ingress` answers |
| `done`, `heard` | history: the command carried out last; the one whose confirmation the twinlet took last |
| `undisturbed` | history: nothing has yet kept a confirmation from the twinlet |

The headlamp twinlet of `VirtualCar` is joined to `HeadlampActuation`: a lux reading
raises a request, its turn is committed and becomes a command, the lamp acts, and the
response comes back as an event, which is told like any other. The brain keeps what the
question needs: turns are told, told again (`Retell`), given up (`GiveUp`), answered and
committed in order. While the headlamp's lifecycle turn is committed and the wiper's is not,
the latter stands in front of the whole backlog (`WiperInFront`), so what came
during a startup or shutdown is committed after it, in the new mode. A turn opened while
assemblies start or stop is told to nobody and handled on the brain's copy; that copy may
be any here, which is more than the code can do. What holds here holds there, but
a counterexample that uses such a turn would not count: the run that refutes a statement does without
them. Turns of other zones are left out, but what they do to the order is not: a turn may
wait behind them with its reply, and `PowerOn` or `PowerOff`, when it is committed, may find
later turns in the backlog (`Lifecycle`). The deadline for an acknowledgement is always due while a request is in flight, so the
model has every time at which the code's timer may fire, and some at which it cannot.

`HeardLampIsBelieved` says that a twinlet that has heard of the lamp's last act is right
about it: no deadline, reading, refusal or late turn makes it forget. `UndisturbedTwinKnows`
says when it has heard: once all is quiet, if no two commands looked alike on the wire, and
unless one of the events listed at its definition happened. (If two do look alike, a late
confirmation of the first takes the place of the second's, and that one is ignored.) Each of
those events is a way in which this code leaves the twin wrong about a lamp until a further reading:
a confirmation that is lost or comes while assemblies start or stop, a confirmation whose
tell is repeated, a command lost or refused before an earlier one was settled, a lit lamp
stopped or started, and a gateway that restarts.

### The way through the gateway: `CommandFanOut`

| Variable | Code |
|---|---|
| `waiting` | the command in `execute(..).await`; the brain does nothing else meanwhile |
| `main`, `box` | `actuation_cmd_*`, `headlamp_*` and `wiper_*` channels |
| `held` | `cmd` of the fan-out task between `recv` and the end of `send` |
| `fanOut`, `publisher` | whether the tasks run; a publisher opens its socket when it is first polled |
| `motorBox`, `motor` | receive buffer of the wiper actuator; its motor (history: the code only logs it) |
| `issued`, `written`, `fatal`, `missed` | history: commands issued, frames written, the command whose send failed, a frame missed |

If a socket does not open, its publisher ends and drops its receiver; the fan-out task
notices at the next command for it, breaks out of its loop and drops both the receiver
of `main` and the sender of the other assembly, whose publisher writes what it has and ends.
`execute` then returns at once with an error that nobody looks at. `CommandRelay` is
what an assembly may rely on through all this; `SilencedFromFatalOn` says exactly which
commands are lost. `SendReturns` is the fact that `ReorderBuffer` assumes of the
reader of its channel.

### The ledger: `Ledger`

| Variable | Code |
|---|---|
| `twin` | `current_state` and `context` |
| `commit` | what `apply_committed_quiescence` has still to offer and to apply |
| `nextRecordSeq` | `next_record_seq` |
| `sink`, `reading`, `printed` | the transition channel, its task, the last row printed |
| `snapshot` | the last answer to `GetStatus` |
| `dropped`, `shown` | history: numbers of rows lost; mode in the last "Transitioned to" line |

Between turns any event may be committed with any reply a twinlet can give, so the
interleaving is that of the brain's handler with the reader, a row at a time. A row carries
`PublishedKind` and `PublishedCtx`, in which the code loses three things: lifecycle events
and rain are published as `TimerTick`, the wiper is not in the context, and the
countdown is not in the mode.

## 3. Runs

| Run | Question | Bounds |
|---|---|---|
| `MCReorderBuffer` | types, one current deadline for each pending barrier, no reply made up early, implements `SequentialTwin`; under fairness every turn opened is committed | 2 zones, one silent and one that may answer anything or nothing, 1 retry, channel of 1, 2 messages from outside; 738,255 states |
| `MCDigitalTwin` | countdown, quiescence, cause of the alarm, buzzer | rpm and lux on both sides of every threshold; 9,522 states |
| `MCVirtualCar` | the running twin implements `DigitalTwin`, from ignition on | 3 messages, no retry, channel of 1; 304,383 states |
| `MCVirtualCarNight` | a request always has a deadline; commits as `DigitalTwin` | starts in Idle, 4 messages; 849,664 states |
| `MCVirtualCarLive` | startup and shutdown end, a lamp request settles | wiper silent, 1 retry, 2 messages |
| `MCHeadlampActuation` | what is let in answers the last command, once, and a confirmation is true of the lamp | 3 commands, 3 gateway processes, ids of 1 bit, 3 frames in a socket; 915,520 states |
| `MCLampRoundTrip` | what the twinlet believes of the lamp, and what can keep it wrong | started car, 2 commands, 5 headlamp turns, 2 of them open, 1 tell repeated, 1 restart of the gateway, 2 frames in a socket; 2,004,321 states |
| `MCCommandFanOut` | order of an assembly's commands, what a dead publisher silences, the motor, that a send returns and a command is written | channels of 1, 5 commands, 2 frames; 179,011 states |
| `MCLedger` | what a reader may conclude from numbers, rows and snapshots | sink of 2, 4 turns, from ignition or the started car; 2,289,808 states |

The bounds are enough for the cases that matter: two messages from outside open four
turns (one that starts the assemblies opens two more, one of them for the silent zone; that
all are committed is asked of whatever turns a behaviour opens), so a turn waits behind another,
a commit opens turns in the middle of the drain loop, a late timeout finds its turn
complete or gone, and the channel of one place is full while an action waits. One retry
is the least for which an answer is stale. `VirtualCar` starts either from ignition or,
to reach further with the same budget, from the started car (`StartedInit`), which is
reached from ignition when all twinlets answer. Three commands and ids of one bit are the
least for which the first and the last of a session look alike, and three gateway
processes for sessions that do; an old command, a newer one and a repeat of either then
meet at the actuator and in the policy. In `MCLampRoundTrip` two commands are the least
for which a late confirmation meets a newer request, and five turns bring both of them
out and back with one reading to spare. In `MCCommandFanOut` five commands fill all three
channels, the fan-out task's hand and the brain's wait; a sink of two places takes
one turn of two hops whole and the next in part.

`MCDigitalTwin` and `MCHeadlampActuation` check deadlock; the other runs do not, for the
outside falls silent at its bound and the system then rightly stops, and in
`CommandFanOut` its tasks may all have ended. That nobody waits for ever is checked as
liveness instead (`EveryTurnCommits`, `PreparingEnds`, `RequestSettles`, `SendReturns`,
`EveryCommandWritten`). Bounds: `MaxEvents`/`MaxIngress` cap the messages from outside,
`MaxMessages` the twinlets' deadlines (out of reach), `MaxCommands`, `MaxSession` and
`MaxFrames` the actuation path and the fan-out, `MaxTurns`, `MaxOpen` and `MaxRetells` the
turns of `LampRoundTrip` (`MaxTurns` those of `Ledger`). Nothing else is capped.

Three runs each refute one statement that the repository makes about the program:

| Run | Statement | What happens |
|---|---|---|
| `MCMotorFollowsWiper` | wiper alphabet: `Ready` does not wipe | rain during startup starts the motor through the brain's copy only; when the rain ends the twinlet is in `Ready` and says nothing, and the motor wipes on until a later rain that is told has come and gone |
| `MCRetriedRain` | wiper alphabet: `Running` is "actively wiping" | `Start` is told again because the answer is late; the first answer, which would start the motor, is dropped, the second has no outcome, and the motor is never started |
| `MCReadyLampIsDark` | headlamp alphabet: `Ready` is "assembly active, physical lamp dark" | the car is switched off with its lamp lit, or about to be, and no command is sent; switched on again, the twinlet is in `Ready` and the lamp is lit. One event at a time, and none while assemblies start or stop (`PatientSpec`) |

More statements do not fit the code, and are plain enough to need no run:

- Comment on `act_on_zone_timeout` (`turn_barrier.rs`): a superseded timeout is not
  processed. It is, if it was in the mailbox before the reply was handled and the turn
  waits behind another; `ReorderBuffer` has it so.
- README and DESIGN: events during startup and shutdown are recorded with
  `applied: false` and discarded. They take effect on the brain's copy of the zone
  (`VirtualCar`, `MCMotorFollowsWiper`), and no record has such a field.
- Law `kinetic_locking` (`car_behaviour_checker.rs`): an `Off` car stands still.
  `PowerOff` is accepted in `Idle` while the car rolls below the driving threshold.
- Law `rpm_above_threshold`: `Driving` implies rpm above 1000. The table leaves `Driving`
  only at standstill.
- README's "`Off` ignores all zone messages except `BecomeOn`/`BecomeOff`": `apply_on_ack`
  assigns the state whatever it was.
- README's "event ingress order is the ledger order": `on_zone_spontaneous` commits ahead
  of the queue. `CommitSpontaneous` of `SequentialTwin` is what holds instead.
- `published.rs` calls itself the "full, lossless mirror" of the core's types, and
  `docs/Wiper-Assembly-Design-Plan.md` lets a row show `wiper.state`. The projection
  has neither the wiper nor the countdown, and publishes `AssemblyZoneReady`,
  `RainsStarted` and `RainsStopped` as `TimerTick` (`PublishedKind`, `PublishedCtx`).
- `diagnostic/mod.rs`: an acknowledgement is recorded as `old_ctx` to `current_ctx`.
  `step` is given the context the zones have already changed, so the two are
  always the same. The same comment has the confirmation printed for a command "positively
  acknowledged"; it is printed for every step from `OffRequested` to `Ready`, which
  `BecomeOn` takes too.

### Fairness

Weak fairness of the brain, of each twinlet that is not silent, of the armed timers and
of the channel's reader: the runtime polls a task that has work, a tokio timer that is
not aborted fires, and the fan-out task loops over `recv`. Nothing is assumed of the
outside, or, in `ReorderBuffer`, of the twinlets: that every turn ends must follow from
deadlines and retries alone. Weak fairness is enough because a task with work keeps it.
That the channel's reader never stops for good is `SendReturns` of `CommandFanOut`, under
weak fairness of the send itself, the fan-out task and each publisher task, with nothing
assumed of the brain, the bus or the actuator. A publisher that can never open its socket
fails and ends, so it returns too.

## 4. What is proved

For every value of the constants, under the assumptions named in the modules.

`ReorderBuffer_proofs` (any zones, events, routing and twin; any retry budget;
any channel capacity of at least 1). The proofs assume `BoundAssumption`,
`DataAssumption` and `OperatorAssumption` (the code's total `match`es).

- `TypeCorrect`. `TypeOK` is not inductive: a retry could leave the budget. It is
  strengthened by `Budget`, attempts made + retries left = budget (`TypeInv`).
- `Refinement`: `Spec => ImplementsSequentialTwin`. It needs `OrderInv`: the turns of
  the queue are consecutive from the last commit, and a barrier that asked a zone and is
  not pending has a reply. Each action maps to a step of `SequentialTwin` or a stutter.
- `NoOrphan`, `CurrentDeadlines`, `SingleDeadline`, `GiveUp`. One inductive invariant
  `DeadlineInv`, the conjunction of the three state properties with: no deadline exists
  for a turn not yet opened. None is inductive alone: that a retry's new deadline
  is the only one needs that the handled one was the only one, and that it is current.

`DigitalTwin_proofs` (any sets of u16 readings): `TypeCorrect`, `Countdowns`,
`Quiescence`, `Danger`, `Buzzer`. Their conjunction with `DrivingMoves` (the speed is not
0 in Driving) is inductive; the last is needed because the internal hop
into DrivingDangerously does not look at the speed. Replies range over all a twinlet can
give from any copy of its state, so the proofs do not rest on the copies agreeing.

`HeadlampActuation_proofs` (any widths of the ids, capacity and bounds): `TypeCorrect`;
`FeedbackRefinement`, which needs types only, because the policy forgets a command when
it is answered; `AnswersLatestCorrect` and `ConfirmedLampCorrect` from `OrderInv`. Its
parts: every frame is about a recorded command and `pending` is the last one
(`KnownInv`); a command in the channel is not recorded yet (`FreshInv`); and the last
command recorded is the last to be carried out (`LastInv`), which needs the second, for
only a fresh command can become the last one without a copy of it already on its way.
Both properties assume `WireIdsDiffer`. `WideIdsDiffer` says when that is so in terms of the
code's counters and clocks: a correlation id is never used twice, restarts included
(`UniqueInv`), so ids differ on the wire unless a process numbers 2^32 commands
(`NumbersFit`) or two processes started at instants whose nanoseconds agree in the low 16 bits
(`ClocksTellApart`). The session is such an instant, far beyond 16 bits, so nothing is assumed of
its size; for a single process only the first condition is left.

`TwinTurn_proofs` has no theorem of its own: its lemmas give the type of every reply, zone
turn, transition and turn, and the shape of an internal hop, for the proofs about
`DigitalTwin`, `Ledger` and `VirtualCar`.

`VirtualCar_proofs` (any sets of readings and of events from outside, any silent
twinlets, any budget and capacity). `ParametersFit` shows that the real routing, turn,
actions and made-up replies meet the assumptions of `ReorderBuffer`, so its theorems hold
of the instance `P`.

- `IsReorderBuffer`: `Spec => P!Spec`, step by step: a twinlet's answer is one of the
  answers `ReorderBuffer` allows, a dropped or late deadline of the lamp is a stutter.
- `CommitsInOrder`, `NoTurnStranded`: what follows by the theorems on `ReorderBuffer`.
- `TypeCorrect`, `DeadlineCorrect`, from `CarInv`: the types of the brain, the copies
  and the tells on their way (`ZoneInv`: a mailbox holds only messages its zone
  understands), the places of the lamp's deadlines (`AckInv`), and `RequestHasDeadline`
  itself, which is inductive only with them: a deadline that is handled while another one
  is behind it in the mailbox must leave a request with the direction of the second.
- `TwinRefinement`: `Spec => ImplementsDigitalTwin`, and `CommitsCorrect`, its steps from the
  started car. The abstract `open` is read off the queue and the actions still to perform
  (`OpenTurns`). A commit of the brain takes whatever reply its barrier holds, which is a step
  of `DigitalTwin` only if the zone could give that reply *to the event of that turn*; and
  turn numbers, not events, are what a reply carries. `ReplyInv` therefore says of
  every tell in a mailbox, every answer on its way and every stored reply that it is of a turn
  already opened and, if that turn is still queued, about the message its event asks. `OnceInv`
  says that no assembly has two lifecycle turns queued or still to be opened, without
  which the countdown could lose an assembly while another turn of it is open. The whole
  invariant is `TwinInv`, these two with `CarInv`, the order and the deadlines of `ReorderBuffer`
  and the invariant of `DigitalTwin`; TLC checked it on the instance of `MCVirtualCarNight`.
- `SafeTwin`: hence countdown, quiescence, cause of the alarm and buzzer hold of the
  running twin, whatever order twinlets, timers and outside act in.

`CommandFanOut_proofs` (any capacity and bounds): `TypeCorrect`, `RelayCorrect`,
`SilenceCorrect`, `MotorCorrect`. The invariant `PipeInv` says that what waits, is in the
first channel or in the task's hand are the newest commands, without a gap (`WayInv`), and
that an assembly's written commands followed by its channel are exactly the older ones
for it, in order (`ShareInv`). Every property reads off which commands have passed which
point. `MotorInv` adds that frames under way end with the last wiper command written.

`Ledger_proofs` (any readings, kinds of events, stale copies, capacity): `TypeCorrect`,
`GapsCorrect` from `NumberInv` (the rows are increasing and every used number is either
there or dropped), `RowsCorrect` from `ChainInv`, which speaks of the set of all rows
printed, waiting and not yet offered, so that a step that moves a row changes
nothing; `SnapshotCorrect` from `SnapshotInv` on top of it, `ConsoleCorrect` from `ShownInv`.

`LampRoundTrip_proofs` (any budget, readings, ids and bounds). `IsActuation`: the whole
implements `HeadlampActuation`, so its invariant `OrderInv` holds here. `RoundTripTypes` and
`HeardCorrect` from `TripInv`: a response, turn or tell that confirms is about a command of
its own direction (`QueuesInv`, `AboutInv`), and the twinlet believes the lamp lit
exactly if what it heard last was a confirmation of *on* (`BeliefInv`, which is stronger than
`HeardLampIsBelieved`: it holds whether or not the lamp has moved on).
`ConfirmationCorrect` from `CarriedInv`: as long as the last command recorded is confirmed by
anything on its way to the twinlet, the lamp is settled: publisher, actuator and
socket have nothing older to carry out. Neither needs the wire ids to differ.

`TwinKnows` (`UndisturbedTwinKnows`) from `KnowsInv`, which follows the commands of an
undisturbed behaviour by their numbers. Outward, they are carried out in order, and if nothing
waits to be written the last one recorded is the last under way (`OutwardInv`). On the
way back, accepted confirmations stand in the order of their commands, in the twinlet's mailbox
(`ToldInv`) before those still in the brain's (`DueInv`), all of them newer than what was
heard and none newer than what was done. While a command is pending none of its confirmations has
been accepted; one that is neither pending nor accepted nor heard has nothing behind it
(`ReturnInv`). So if the lamp has done what the twinlet has not heard, more is under way, or that
confirmation is accepted, or the frame that will be is at the gateway (`UnheardInv`), and none of
this is so once all is quiet. The attempt to prove the property without `WireIdsDiffer` failed for
a good reason, which TLC then showed with numbers of one value: hence the condition. `KnowsInv` was
checked by TLC on the instance of `MCLampRoundTrip`, and with such numbers.

Every invariant and action property that a run checks, and each of the four refinements, is now
a theorem. Only model-checked are the five liveness properties (`EveryTurnCommits`,
`PreparingEnds`, `RequestSettles`, `SendReturns`, `EveryCommandWritten`), for `ENABLED` and with
it fairness are beyond TLAPS, and the three runs that refute a statement.

## 5. Not modelled

- `post_stop`, the end of the process, and actors that fail: the code has no recovery
  from either, a gateway that restarts begins anew (`RestartGateway`).
- `ResetForIgnitionOff` of the zones: nothing sends it.
- Byte layouts of frames (`signals.rs`, `can.rs`): pure encoding; what the decisions see
  of it, the truncated ids and the kind of a command, is in the models.
- Of the ledger, wall-clock times and recorded actions; of the diagnostics, every text
  but the "Transitioned to" line.
- The emulator: a random source of frames. The models take any reading at any time.
- The wiper twinlet over its way to the motor as one system, as `LampRoundTrip` is for the
  lamp: the wiper's commands are answered by nothing, so `VirtualCar` (`wiping`) and
  `CommandFanOut` (`motor`) meet only in the order of commands, which `CommandRelay` states.
- `saturating_add` of turn and record numbers: u64, not reached.

## 6. Plan

What is described above is built. Left, in the order of their worth:

1. Proofs: what the liveness properties rest on and can be said without fairness: that a
   brain which is not idle can always take a step once the channel has room, and that
   every wait in `CommandFanOut` is for a task that still runs.
2. Larger instances of `MCVirtualCar` with a retry and both twinlets answering.
