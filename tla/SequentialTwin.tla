--------------------------- MODULE SequentialTwin ---------------------------
(***************************************************************************)
(* What the reorder buffer of the brain actor promises, with nothing of    *)
(* how it does it: a digital twin that consumes its turns one at a time,   *)
(* in the order in which they were opened, each exactly once, whatever     *)
(* the zone twinlets answer.  A turn gets its number when it is opened.    *)
(* Zones may also make the twin commit an event of their own at any time   *)
(* (the spontaneous hops), which consumes no turn.                         *)
(***************************************************************************)
EXTENDS Integers, Sequences

CONSTANTS Event,              \* ingress events that open a turn
          SpontaneousEvent,   \* events a zone raises on its own deadline
          Reply,              \* what a zone may answer
          NoReply,            \* a turn that asked no zone
          InitTwin,           \* the committed twin at start
          Commit(_, _, _)     \* twin, event, reply |-> the next committed twin

VARIABLES twin,       \* the committed twin
          backlog,    \* the open turns, oldest first
          committed   \* number of the last turn committed

vars == <<twin, backlog, committed>>

Init == /\ twin = InitTwin
        /\ backlog = << >>
        /\ committed = 0

\* A turn is opened behind every other one and takes the next number.  It
\* asks a zone or it does not.
Open(e, asks) ==
    /\ backlog' = Append(backlog, [turn  |-> committed + Len(backlog) + 1,
                                  event |-> e,
                                  asks  |-> asks])
    /\ UNCHANGED <<twin, committed>>

\* The oldest open turn is committed: with some answer if it asked a zone, and
\* with none otherwise.
CommitOldest ==
    /\ backlog # << >>
    /\ \E r \in IF Head(backlog).asks THEN Reply ELSE {NoReply} :
          twin' = Commit(twin, Head(backlog).event, r)
    /\ committed' = Head(backlog).turn
    /\ backlog' = Tail(backlog)

\* A zone's own event is committed; the open turns keep their places.
CommitSpontaneous ==
    /\ \E e \in SpontaneousEvent, r \in Reply : twin' = Commit(twin, e, r)
    /\ UNCHANGED <<backlog, committed>>

Next == \/ \E e \in Event, asks \in BOOLEAN : Open(e, asks)
        \/ CommitOldest
        \/ CommitSpontaneous

Spec == Init /\ [][Next]_vars
=============================================================================
