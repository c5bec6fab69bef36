--------------------------- MODULE CommandFeedback --------------------------
(***************************************************************************)
(* What the brain may rely on when it commands the front headlamp: every   *)
(* feedback it gets answers the command that was the last to be sent when  *)
(* the feedback was let in, in that command's direction, and no command    *)
(* gets more than one.  A command may be left without any.                 *)
(***************************************************************************)
EXTENDS Sequences

CONSTANTS Direction,  \* on_command: switch on, switch off
          Nothing     \* no direction

VARIABLES
    awaiting,  \* direction of the last command if it may still be answered
    feedback   \* let in and not yet delivered to the brain

vars == <<awaiting, feedback>>

Init == awaiting = Nothing /\ feedback = << >>

\* A command takes the place of the one before it, answered or not.
Send(direction) == awaiting' = direction /\ UNCHANGED feedback

Answer(confirmed) ==
    /\ awaiting # Nothing
    /\ feedback' = Append(feedback, [direction |-> awaiting, confirmed |-> confirmed])
    /\ awaiting' = Nothing

Deliver ==
    /\ feedback # << >>
    /\ feedback' = Tail(feedback)
    /\ UNCHANGED awaiting

\* A new gateway process knows of no command.
Restart == awaiting' = Nothing /\ feedback' = << >>

Next == \/ \E direction \in Direction : Send(direction)
        \/ \E confirmed \in BOOLEAN : Answer(confirmed)
        \/ Deliver
        \/ Restart

Spec == Init /\ [][Next]_vars
=============================================================================
