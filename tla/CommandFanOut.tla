--------------------------- MODULE CommandFanOut ----------------------------
(***************************************************************************)
(* The commands' way through the gateway: the bounded channel the brain    *)
(* waits for, the fan-out task, a channel and a publisher task for each    *)
(* assembly, and the wiper's actuator process, which answers nothing.      *)
(* (What the headlamp does with a frame is in HeadlampActuation.)          *)
(*                                                                         *)
(* A publisher opens its socket when it first runs.  If that fails the     *)
(* task ends and drops the receiver of its channel; a send to it then      *)
(* fails, which ends the fan-out task, which drops the receiver of the     *)
(* channel before it.  Sends that wait for room fail at that moment.       *)
(***************************************************************************)
EXTENDS Integers, Sequences

CONSTANTS
    Nothing,     \* None of an Option
    Capacity,    \* ACTUATION_COMMAND_CHANNEL_CAPACITY, of all three channels
    MaxCommands, \* bound: commands the brain issues
    MaxFrames    \* bound: frames that wait in the wiper's socket

ASSUME FanOutAssumption ==
    /\ Capacity \in Nat \ {0}
    /\ MaxCommands \in Nat
    /\ MaxFrames \in Nat
    /\ Nothing \notin Nat

VARIABLES
    issued,     \* the kinds of the commands issued, in their order
    waiting,    \* the command in execute(..).await, if the brain waits there
    main,       \* actuation_cmd_tx / actuation_cmd_rx
    held,       \* cmd of the fan-out task, between recv and the end of send
    fanOut,     \* whether the fan-out task runs
    box,        \* headlamp_tx / headlamp_rx and wiper_tx / wiper_rx
    publisher,  \* what each publisher task is doing
    written,    \* history: the commands each publisher gave to write_frame
    fatal,      \* history: the command whose send ended the fan-out task
    motorBox,   \* frames in the receive buffer of the wiper actuator's socket
    motor,      \* history: the wiper motor, as the last command obeyed left it
    missed      \* history: the motor missed a command that was written

channelVars == <<waiting, main, held, fanOut, box, publisher, fatal>>
motorVars   == <<motorBox, motor, missed>>
vars == <<issued, channelVars, written, motorVars>>

-----------------------------------------------------------------------------
Assembly == {"Headlamp", "Wiper"}

\* ActuationCommand.  A headlamp command's direction does not matter here.
Kind == {"SwitchFrontHeadlamp", "StartWiper", "StopWiper"}

AssemblyOf(kind) == IF kind \in {"StartWiper", "StopWiper"} THEN "Wiper" ELSE "Headlamp"

\* A command is its place in `issued`.
For(n) == AssemblyOf(issued[n])

\* encode_wiper_command_frame and what the actuator decodes from the frame: of
\* a wiper command only the kind is on the wire.
FrameOf(n) == issued[n]

\* the receiver of an assembly's channel is there
Receives(a) == publisher[a] \in {"opening", "running"}

\* What the wiper's socket may hold after a frame: it was lost, or arrives,
\* once or twice.  A full socket drops it.
Received(buffer, kind) ==
    {b \in {buffer, Append(buffer, kind), buffer \o <<kind, kind>>} :
        b = buffer \/ Len(b) <= MaxFrames}

-----------------------------------------------------------------------------
(* The brain.                                                              *)

\* execute: the send begins; while it waits the brain does nothing else
Execute(kind) ==
    /\ waiting = Nothing
    /\ Len(issued) < MaxCommands
    /\ issued' = Append(issued, kind)
    /\ waiting' = Len(issued) + 1
    /\ UNCHANGED <<main, held, fanOut, box, publisher, fatal, written, motorVars>>

\* Mutant: a full channel does not hold the brain up.
SendUnbounded ==
    /\ waiting # Nothing
    /\ fanOut = "running"
    /\ main' = Append(main, waiting)
    /\ waiting' = Nothing
    /\ UNCHANGED <<issued, held, fanOut, box, publisher, fatal, written, motorVars>>

Send ==
    /\ waiting # Nothing
    /\ fanOut = "running"
    /\ Len(main) < Capacity
    /\ main' = Append(main, waiting)
    /\ waiting' = Nothing
    /\ UNCHANGED <<issued, held, fanOut, box, publisher, fatal, written, motorVars>>

\* Mutant: a send that fails is tried again.
SendFailsRetried ==
    /\ waiting # Nothing
    /\ fanOut = "ended"
    /\ UNCHANGED vars

\* The receiver is gone: the send returns an error, which is not looked at.
SendFails ==
    /\ waiting # Nothing
    /\ fanOut = "ended"
    /\ waiting' = Nothing
    /\ UNCHANGED <<issued, main, held, fanOut, box, publisher, fatal, written, motorVars>>

-----------------------------------------------------------------------------
(* The fan-out task.                                                       *)

FanOutReceive ==
    /\ fanOut = "running"
    /\ held = Nothing
    /\ main # << >>
    /\ held' = Head(main)
    /\ main' = Tail(main)
    /\ UNCHANGED <<issued, waiting, fanOut, box, publisher, fatal, written, motorVars>>

\* Mutant: a command for a full channel is dropped (try_send for send).
FanOutSendOrDrop ==
    /\ held # Nothing
    /\ Receives(For(held))
    /\ box' = IF Len(box[For(held)]) < Capacity
              THEN [box EXCEPT ![For(held)] = Append(@, held)] ELSE box
    /\ held' = Nothing
    /\ UNCHANGED <<issued, waiting, main, fanOut, publisher, fatal, written, motorVars>>

\* It waits while the assembly's channel is full, and so does all behind it.
FanOutSend ==
    /\ held # Nothing
    /\ Receives(For(held))
    /\ Len(box[For(held)]) < Capacity
    /\ box' = [box EXCEPT ![For(held)] = Append(@, held)]
    /\ held' = Nothing
    /\ UNCHANGED <<issued, waiting, main, fanOut, publisher, fatal, written, motorVars>>

\* The receiver of the assembly is gone: the task ends, with what it holds
\* and what waits in its channel.
FanOutEnds ==
    /\ held # Nothing
    /\ ~Receives(For(held))
    /\ fanOut' = "ended"
    /\ fatal' = held
    /\ held' = Nothing
    /\ main' = << >>
    /\ UNCHANGED <<issued, waiting, box, publisher, written, motorVars>>

-----------------------------------------------------------------------------
(* The publisher tasks.                                                    *)

OpenSocket(a) ==
    /\ publisher[a] = "opening"
    /\ publisher' = [publisher EXCEPT ![a] = "running"]
    /\ UNCHANGED <<issued, waiting, main, held, fanOut, box, fatal, written, motorVars>>

\* CanSocket::open fails: the task returns, and its channel goes with it.
OpenFails(a) ==
    /\ publisher[a] = "opening"
    /\ publisher' = [publisher EXCEPT ![a] = "failed"]
    /\ box' = [box EXCEPT ![a] = << >>]
    /\ UNCHANGED <<issued, waiting, main, held, fanOut, fatal, written, motorVars>>

\* recv, encode and write_frame, with no await between them.  An error of
\* write_frame is only logged.
Publish(a) ==
    /\ publisher[a] = "running"
    /\ box[a] # << >>
    /\ box' = [box EXCEPT ![a] = Tail(@)]
    /\ written' = [written EXCEPT ![a] = Append(@, Head(box[a]))]
    /\ IF a = "Wiper"
       THEN /\ motorBox' \in Received(motorBox, FrameOf(Head(box[a])))
            /\ missed' = (missed \/ motorBox' = motorBox)
       ELSE UNCHANGED <<motorBox, missed>>
    /\ UNCHANGED <<issued, waiting, main, held, fanOut, publisher, fatal, motor>>

\* Mutant: the task ends with commands still in its channel.
PublisherEndsAtOnce(a) ==
    /\ publisher[a] = "running"
    /\ fanOut = "ended"
    /\ publisher' = [publisher EXCEPT ![a] = "ended"]
    /\ box' = [box EXCEPT ![a] = << >>]
    /\ UNCHANGED <<issued, waiting, main, held, fanOut, fatal, written, motorVars>>

\* The fan-out task is gone and took the senders with it: recv returns None
\* once the channel is empty.
PublisherEnds(a) ==
    /\ publisher[a] = "running"
    /\ fanOut = "ended"
    /\ box[a] = << >>
    /\ publisher' = [publisher EXCEPT ![a] = "ended"]
    /\ UNCHANGED <<issued, waiting, main, held, fanOut, box, fatal, written, motorVars>>

-----------------------------------------------------------------------------
(* The wiper's actuator process.                                           *)

\* Mutant: the two kinds are taken for each other.
ObeySwapped ==
    /\ motorBox # << >>
    /\ motor' = (Head(motorBox) = "StopWiper")
    /\ motorBox' = Tail(motorBox)
    /\ UNCHANGED <<issued, channelVars, written, missed>>

Obey ==
    /\ motorBox # << >>
    /\ motor' = (Head(motorBox) = "StartWiper")
    /\ motorBox' = Tail(motorBox)
    /\ UNCHANGED <<issued, channelVars, written, missed>>

\* ACTUATION_DROP_RESPONSE_PROB: the command is read and ignored
IgnoreCommand ==
    /\ motorBox # << >>
    /\ motorBox' = Tail(motorBox)
    /\ missed' = TRUE
    /\ UNCHANGED <<issued, channelVars, written, motor>>

-----------------------------------------------------------------------------
Init ==
    /\ issued = << >>
    /\ waiting = Nothing
    /\ main = << >>
    /\ held = Nothing
    /\ fanOut = "running"
    /\ box = [a \in Assembly |-> << >>]
    /\ publisher = [a \in Assembly |-> "opening"]
    /\ written = [a \in Assembly |-> << >>]
    /\ fatal = Nothing
    /\ motorBox = << >>
    /\ motor = FALSE
    /\ missed = FALSE

FanOut == FanOutReceive \/ FanOutSend \/ FanOutEnds
Publisher(a) == OpenSocket(a) \/ OpenFails(a) \/ Publish(a) \/ PublisherEnds(a)

Next ==
    \/ \E kind \in Kind : Execute(kind)
    \/ Send
    \/ SendFails
    \/ FanOutReceive
    \/ FanOutSend
    \/ FanOutEnds
    \/ \E a \in Assembly : OpenSocket(a)
    \/ \E a \in Assembly : OpenFails(a)
    \/ \E a \in Assembly : Publish(a)
    \/ \E a \in Assembly : PublisherEnds(a)
    \/ Obey
    \/ IgnoreCommand

Spec == Init /\ [][Next]_vars

\* The runtime polls a task that can go on.  Nothing is assumed of the brain
\* but that a send that can return does, nor of the actuator.
Fairness ==
    /\ WF_vars(Send \/ SendFails)
    /\ WF_vars(FanOut)
    /\ \A a \in Assembly : WF_vars(Publisher(a))

FairSpec == Spec /\ Fairness

-----------------------------------------------------------------------------
(* Properties.                                                             *)

\* The variables hold what the code's types allow, and no channel holds more
\* than its capacity.
TypeOK ==
    /\ issued \in Seq(Kind)
    /\ waiting \in (1..Len(issued)) \cup {Nothing}
    /\ main \in Seq(1..Len(issued)) /\ Len(main) <= Capacity
    /\ held \in (1..Len(issued)) \cup {Nothing}
    /\ fanOut \in {"running", "ended"}
    /\ box \in [Assembly -> Seq(1..Len(issued))]
    /\ \A a \in Assembly : Len(box[a]) <= Capacity
    /\ publisher \in [Assembly -> {"opening", "running", "failed", "ended"}]
    /\ written \in [Assembly -> Seq(1..Len(issued))]
    /\ fatal \in (1..Len(issued)) \cup {Nothing}
    /\ motorBox \in Seq({"StartWiper", "StopWiper"})
    /\ motor \in BOOLEAN
    /\ missed \in BOOLEAN

\* Through three channels and three tasks the commands of an assembly stay in
\* order, each once and none left out, until the assembly is cut off.
Relay == INSTANCE CommandRelay
    WITH delivered <- written,
         cutOff <- {a \in Assembly : publisher[a] \in {"failed", "ended"}}
ImplementsCommandRelay == Relay!Spec

InBox(a, n)     == \E i \in DOMAIN box[a] : box[a][i] = n
IsWritten(a, n) == \E i \in DOMAIN written[a] : written[a][i] = n

\* One publisher that ends takes the other assembly down, but not before the
\* next command for its own: all commands issued before that one are written
\* or still to be written, and none issued after it ever is.
SilencedFromFatalOn ==
    fanOut = "ended" =>
       /\ publisher[For(fatal)] = "failed"
       /\ \A n \in 1..Len(issued) :
             publisher[For(n)] # "failed" =>
                (IsWritten(For(n), n) \/ InBox(For(n), n) <=> n < fatal)

\* A brain that waits in execute comes back, however full the channels are
\* and whichever publisher ends.
SendReturns == waiting # Nothing ~> waiting = Nothing

\* Every command is written, unless a publisher fails.
EveryCommandWritten ==
    \A n \in 1..MaxCommands :
       Len(issued) >= n ~> \/ \E a \in Assembly : publisher[a] = "failed"
                           \/ \E a \in Assembly : IsWritten(a, n)

\* Nothing is on its way to the wiper motor.
WiperQuiet ==
    /\ waiting = Nothing /\ main = << >> /\ held = Nothing
    /\ box["Wiper"] = << >> /\ motorBox = << >>

\* With the fan-out and the wiper's publisher running and no frame missed, the
\* motor runs exactly if the last wiper command issued is a start, although
\* no answer ever says so and repeats are obeyed again.
MotorFollowsCommands ==
    WiperQuiet /\ fanOut = "running" /\ publisher["Wiper"] = "running" /\ ~missed =>
       motor = \E n \in 1..Len(issued) :
                  /\ issued[n] = "StartWiper"
                  /\ \A m \in (n + 1)..Len(issued) : issued[m] # "StopWiper"
=============================================================================
