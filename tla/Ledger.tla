------------------------------- MODULE Ledger -------------------------------
(***************************************************************************)
(* The transition ledger: apply_committed_quiescence numbers the hops of a *)
(* committed turn, offers each as a row to the transition sink with        *)
(* try_send, and only then applies the turn to the twin.  The sink is a    *)
(* bounded channel; its reader prints the rows and may be gone.  A row     *)
(* that finds the sink full or closed is dropped, its number is not.       *)
(* GetStatus answers with the twin and the number of the last row.         *)
(*                                                                         *)
(* The reader runs on a thread of its own, so a row may be taken between   *)
(* two rows of a turn; GetStatus waits in the mailbox until the handler    *)
(* has ended.  Which turn comes next is the business of VirtualCar and     *)
(* DigitalTwin: here any turn may, with any reply a twinlet gives from the *)
(* brain's copy of its state or from a stale one.                          *)
(***************************************************************************)
EXTENDS TwinTurn

CONSTANTS
    Rpm, Lux,     \* readings of the bus
    Kind,         \* the kinds of events turns are opened for
    Stale,        \* zone states a twinlet may answer from, besides the brain's copy
    SinkCapacity, \* places in the transition sink
    MaxTurns      \* bound on the turns committed

ASSUME LedgerAssumption ==
    /\ Rpm \subseteq U16 /\ 0 \in Rpm
    /\ Lux \subseteq U16 /\ 100 \in Lux
    /\ Stale \subseteq HeadlampState \cap WiperState
    /\ SinkCapacity \in Nat \ {0}
    /\ MaxTurns \in Nat

VARIABLES
    twin,          \* current_state and context of DigitalTwinCar
    commit,        \* what apply_committed_quiescence has still to do, or NoCommit
    nextRecordSeq, \* next_record_seq
    turns,         \* bounded: turns committed
    sink,          \* rows in the transition sink
    reading,       \* the reader's task runs
    printed,       \* the last row the reader has printed, or NoRow
    snapshot,      \* the last answer to GetStatus, or NoSnapshot
    dropped,       \* history: numbers of the rows the sink refused
    shown          \* history: the mode in the last "Transitioned to" line

sinkVars == <<sink, reading, printed, dropped>>
vars     == <<twin, commit, nextRecordSeq, turns, snapshot, shown, sinkVars>>

-----------------------------------------------------------------------------
(* The published projection.                                               *)

\* PublishedFsmEvent: lifecycle events and rain have no representation of
\* their own, they are published as a TimerTick.
PublishedKind(e) ==
    IF e.kind \in {"AssemblyZoneReady", "RainsStarted", "RainsStopped"} THEN "TimerTick" ELSE e.kind

\* PublishedVehicleContext: the wiper is not part of it.
PublishedCtx(t) ==
    [rpm |-> t.rpm, speed |-> t.speed, lux |-> t.lux, headlamp |-> t.headlamp]

\* A hop before it has its number.  step is given the context the zones have
\* already taken the event into, so old_ctx is the same context again.  The
\* recorded actions follow from the hop and are left out.
Hop(old, next, kind) ==
    [old |-> old, next |-> next.mode, event |-> kind, ctx |-> PublishedCtx(next)]

\* Mutant: the internal hop is recorded as leaving the state before the turn.
HopsFromInitial(t, e, reply) ==
    LET external == ExternalHop(t, e, reply)
        first    == Hop(t.mode, external.twin, PublishedKind(e))
        second   == Hop(t.mode, Turn(t, e, reply).twin, LightingUnsafeEvent.kind)
    IN  IF LightingUnsafe(external.twin) THEN <<first, second>> ELSE <<first>>

\* The hops of run_to_quiescence: the event's own, and the internal one if
\* the detector asks for it.
Hops(t, e, reply) ==
    LET external == ExternalHop(t, e, reply)
        first    == Hop(t.mode, external.twin, PublishedKind(e))
        second   == Hop(external.twin.mode, Turn(t, e, reply).twin, LightingUnsafeEvent.kind)
    IN  IF LightingUnsafe(external.twin) THEN <<first, second>> ELSE <<first>>

\* PublishedTransitionRecord: a hop with its record_seq
Numbered(hop, n) == [seq |-> n, hop |-> hop]

NoCommit   == [hops |-> << >>]
NoRow      == [seq |-> 0]
NoSnapshot == [asOf |-> "None"]

\* No handler is running: the brain may take its next message.
Idle == commit = NoCommit

-----------------------------------------------------------------------------
(* The brain.                                                              *)

\* The replies with which the turn of event e may be committed.  A lifecycle
\* turn has one always; its message is that of the phase.
Answers(z, m) ==
    LET copies == {ZoneCtx(twin, z)} \cup Stale
    IN  {OnReceivingMessage(z, c, m) : c \in copies} \cup {Unresponsive(z, c) : c \in copies}

Replies(e) ==
    IF e.kind = "AssemblyZoneReady"
    THEN Answers(e.assembly,
                 [kind |-> IF twin.mode = "PreparingToStart" THEN "BecomeOn" ELSE "BecomeOff"])
    ELSE IF UserEventToZoneTell(e) = NoTell THEN {NoReply}
    ELSE {NoReply} \cup Answers(UserEventToZoneTell(e).zone, UserEventToZoneTell(e).message)

Event == {e \in EventOver(Rpm, Lux) : e.kind \in Kind}

\* A lifecycle turn is open as long as the countdown names its assembly.
Due(e) == e.kind = "AssemblyZoneReady" => e.assembly \in twin.remaining

\* commit_resolved_turn: the hops are known, none is numbered yet.
CommitResolvedTurn(e) ==
    /\ Idle
    /\ turns < MaxTurns
    /\ turns' = turns + 1
    /\ Due(e)
    /\ \E reply \in Replies(e) :
          commit' = [hops |-> Hops(twin, e, reply), twin |-> Turn(twin, e, reply).twin]
    /\ UNCHANGED <<twin, nextRecordSeq, snapshot, shown, sinkVars>>

\* Mutant: a place too many.
AcceptsOneMore == reading /\ Len(sink) <= SinkCapacity

\* The sink takes a row if its reader is there and it has a free place.
Accepts == reading /\ Len(sink) < SinkCapacity

\* Mutant: only a row the sink has taken uses up its number.
TryEmitTransitionRecordReuse ==
    /\ commit.hops # << >>
    /\ commit' = [commit EXCEPT !.hops = Tail(@)]
    /\ IF Accepts
       THEN /\ nextRecordSeq' = nextRecordSeq + 1
            /\ sink' = Append(sink, Numbered(Head(commit.hops), nextRecordSeq))
            /\ UNCHANGED dropped
       ELSE /\ dropped' = dropped \cup {nextRecordSeq}
            /\ UNCHANGED <<nextRecordSeq, sink>>
    /\ UNCHANGED <<twin, turns, snapshot, shown, reading, printed>>

\* try_emit_transition_record for the next hop.  The number is used up before
\* the sink is asked.
TryEmitTransitionRecord ==
    /\ commit.hops # << >>
    /\ commit' = [commit EXCEPT !.hops = Tail(@)]
    /\ nextRecordSeq' = nextRecordSeq + 1
    /\ IF Accepts
       THEN /\ sink' = Append(sink, Numbered(Head(commit.hops), nextRecordSeq))
            /\ UNCHANGED dropped
       ELSE /\ dropped' = dropped \cup {nextRecordSeq}
            /\ UNCHANGED sink
    /\ UNCHANGED <<twin, turns, snapshot, shown, reading, printed>>

\* diag_state_transition, if the turn changed the state: the countdown counts.
ShownAfter(old, new) ==
    IF new.mode # old.mode \/ new.remaining # old.remaining THEN new.mode ELSE shown

\* Mutant: the old state is read after apply_step, nothing ever changes.
ApplyStepComparesAfter ==
    /\ ~Idle
    /\ commit.hops = << >>
    /\ twin' = commit.twin
    /\ commit' = NoCommit
    /\ UNCHANGED <<nextRecordSeq, turns, snapshot, shown, sinkVars>>

\* apply_step, when all rows are offered, and the line of the diagnostics.  The
\* actions between are left to VirtualCar.
ApplyStep ==
    /\ ~Idle
    /\ commit.hops = << >>
    /\ twin' = commit.twin
    /\ shown' = ShownAfter(twin, commit.twin)
    /\ commit' = NoCommit
    /\ UNCHANGED <<nextRecordSeq, turns, snapshot, sinkVars>>

\* Mutant: the answer is given while a turn is being committed.
GetStatusAtOnce ==
    /\ snapshot' = [asOf |-> nextRecordSeq - 1, mode |-> twin.mode, ctx |-> PublishedCtx(twin)]
    /\ UNCHANGED <<twin, commit, nextRecordSeq, turns, shown, sinkVars>>

\* GetStatus: as_of_seq is the last number used
GetStatus ==
    /\ Idle
    /\ snapshot' = [asOf |-> nextRecordSeq - 1, mode |-> twin.mode, ctx |-> PublishedCtx(twin)]
    /\ UNCHANGED <<twin, commit, nextRecordSeq, turns, shown, sinkVars>>

-----------------------------------------------------------------------------
(* The reader.                                                             *)

PrintRow ==
    /\ reading
    /\ sink # << >>
    /\ printed' = Head(sink)
    /\ sink' = Tail(sink)
    /\ UNCHANGED <<twin, commit, nextRecordSeq, turns, snapshot, shown, reading, dropped>>

\* println! fails, for the other end of the output is gone: the task ends and
\* what is in the channel is lost with it.
ReaderEnds ==
    /\ reading
    /\ sink # << >>
    /\ reading' = FALSE
    /\ dropped' = dropped \cup {sink[i].seq : i \in DOMAIN sink}
    /\ sink' = << >>
    /\ UNCHANGED <<twin, commit, nextRecordSeq, turns, snapshot, shown, printed>>

-----------------------------------------------------------------------------
Init ==
    /\ twin = InitialTwin
    /\ commit = NoCommit
    /\ nextRecordSeq = 1
    /\ turns = 0
    /\ sink = << >>
    /\ reading = TRUE
    /\ printed = NoRow
    /\ snapshot = NoSnapshot
    /\ dropped = {}
    /\ shown = "Off"

Next ==
    \/ \E e \in Event : CommitResolvedTurn(e)
    \/ TryEmitTransitionRecord
    \/ ApplyStep
    \/ GetStatus
    \/ PrintRow
    \/ ReaderEnds

Spec == Init /\ [][Next]_vars

-----------------------------------------------------------------------------
(* Properties.                                                             *)

\* The rows a reader has or can still get, oldest first.
Rows == IF printed = NoRow THEN sink ELSE <<printed>> \o sink

\* The number of the newest row that got through, or 0.
LastSeq == IF Rows = << >> THEN 0 ELSE Rows[Len(Rows)].seq

\* The sink keeps its capacity, numbers are positive, and what is still to be
\* offered is at most the two hops of one turn.
TypeOK ==
    /\ twin \in TwinOver(Rpm, Lux)
    /\ nextRecordSeq \in Nat \ {0}
    /\ turns \in 0..MaxTurns
    /\ Len(sink) <= SinkCapacity
    /\ Len(commit.hops) <= 2
    /\ reading \in BOOLEAN
    /\ dropped \subseteq Nat
    /\ shown \in Mode

\* What a reader may conclude from the numbers alone: they only grow, and a
\* number that is missing, before, between or after the rows that got through,
\* is one of a row the sink refused or lost.  No loss is silent, and no row
\* is both lost and there.
GapMeansDrop ==
    LET before(i) == IF i = 1 THEN 0 ELSE Rows[i - 1].seq
    IN  /\ \A i \in DOMAIN Rows :
             /\ before(i) < Rows[i].seq
             /\ Rows[i].seq \notin dropped
        /\ \A i \in DOMAIN Rows \ (IF printed = NoRow THEN {} ELSE {1}) :
             \A n \in (before(i) + 1)..(Rows[i].seq - 1) : n \in dropped
        /\ (LastSeq + 1)..(nextRecordSeq - 1) \subseteq dropped

\* The row shows the cut the detector watches for.
UnsafeRow(hop) ==
    LightingUnsafe([mode |-> hop.next, lux |-> hop.ctx.lux, headlamp |-> hop.ctx.headlamp])

\* Two rows with consecutive numbers are consecutive hops of the twin: the
\* second begins where the first ended.  And a row that shows the unsafe cut
\* (driving, dark, lamp dark) is followed by the internal hop that leaves it,
\* over the same context; no other row is.
RowsChain ==
    \A i \in 2..Len(Rows) :
       Rows[i].seq = Rows[i - 1].seq + 1 =>
          LET first == Rows[i - 1].hop  second == Rows[i].hop
          IN  /\ second.old = first.next
              /\ UnsafeRow(first) <=> second.event = LightingUnsafeEvent.kind
              /\ second.event = LightingUnsafeEvent.kind => second.ctx = first.ctx

\* CarSnapshot: a snapshot can be reconciled with the ledger.  The row that
\* bears the number of the snapshot shows its mode and its context; a row with
\* that number is the last one of its turn; 0 is the twin as it was born.
SnapshotReconciles ==
    snapshot # NoSnapshot =>
       /\ \A i \in DOMAIN Rows : Rows[i].seq = snapshot.asOf =>
             /\ Rows[i].hop.next = snapshot.mode
             /\ Rows[i].hop.ctx = snapshot.ctx
       /\ snapshot.asOf = 0 =>
             /\ snapshot.mode = InitialTwin.mode
             /\ snapshot.ctx = PublishedCtx(InitialTwin)

\* The operator's lines are complete: between two turns the last one names
\* the mode the twin is in, whether the turn had one hop or two.
ConsoleShowsMode == Idle => shown = twin.mode
=============================================================================
