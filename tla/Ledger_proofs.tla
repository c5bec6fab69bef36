---------------------------- MODULE Ledger_proofs ---------------------------
(***************************************************************************)
(* Theorems about Ledger, for all sets of readings and kinds of events,    *)
(* every capacity of the sink and every number of turns.  What is known of *)
(* the rows is stated of the rows as a set, because a reader takes them    *)
(* one by one and the sink loses some of them.                             *)
(***************************************************************************)
EXTENDS Ledger, TwinTurn_proofs, TLAPS

-----------------------------------------------------------------------------
(* Types.                                                                  *)

Twin     == {t \in TwinOver(Rpm, Lux) : Shaped(t)}
CtxType  == {PublishedCtx(t) : t \in Twin}
Kinds    == {PublishedKind(e) : e \in EventOver(Rpm, Lux) \cup {LightingUnsafeEvent}}
HopType  == [old : Mode, next : Mode, event : Kinds, ctx : CtxType]
RowType  == [seq : Nat \ {0}, hop : HopType]
Underway == [hops : Seq(HopType), twin : Twin]

\* TypeOK with what it leaves open: the twin is shaped, what is underway and
\* the rows are made of hops.
TypeInv == /\ TypeOK
           /\ twin \in Twin
           /\ commit \in {NoCommit} \cup Underway
           /\ sink \in Seq(RowType)
           /\ printed \in {NoRow} \cup RowType

\* A commit underway is not the absence of one.
LEMMA CommitKinds ==
    /\ \A c \in Underway : c # NoCommit
    /\ NoCommit.hops = << >>
<1>1. ASSUME NEW c \in Underway, c = NoCommit PROVE FALSE
  <2>1. DOMAIN c = {"hops", "twin"}
    BY DEF Underway
  <2>2. DOMAIN NoCommit = {"hops"}
    BY DEF NoCommit
  <2> QED BY <1>1, <2>1, <2>2
<1> QED BY <1>1 DEF NoCommit

\* A row has a number of its own.
LEMMA RowKinds == \A r \in RowType : r # NoRow
<1>1. ASSUME NEW r \in RowType, r = NoRow PROVE FALSE
  <2>1. DOMAIN r = {"seq", "hop"}
    BY DEF RowType
  <2>2. DOMAIN NoRow = {"seq"}
    BY DEF NoRow
  <2> QED BY <1>1, <2>1, <2>2
<1> QED BY <1>1

\* The twin at birth is a twin.
LEMMA InitialTwinType == InitialTwin \in Twin
<1>1. InitialTwin \in TwinOver(Rpm, Lux)
  BY LedgerAssumption DEF LedgerAssumption, InitialTwin, TwinOver, Mode, HeadlampState, WiperState
<1>2. Shaped(InitialTwin)
  BY DEF InitialTwin, Shaped, Preparing
<1> QED BY <1>1, <1>2 DEF Twin

\* The replies a turn may be committed with are replies of the zones.
LEMMA RepliesType ==
    ASSUME twin \in Twin, NEW e \in EventOver(Rpm, Lux)
    PROVE  Replies(e) \subseteq ZoneReply \cup {NoReply}
<1>1. ASSUME NEW z \in Assembly, NEW m,
             z = "Headlamp" => m \in HeadlampMessage(Lux),
             z = "Wiper" => m \in WiperMessage
      PROVE  Answers(z, m) \subseteq ZoneReply
  <2>1. ASSUME NEW c \in {ZoneCtx(twin, z)} \cup Stale
        PROVE  /\ OnReceivingMessage(z, c, m) \in {r \in ZoneReply : r.zone = z}
               /\ Unresponsive(z, c) \in {r \in ZoneReply : r.zone = z}
    <3>1. /\ z = "Headlamp" => c \in HeadlampState
          /\ z = "Wiper" => c \in WiperState
      BY LedgerAssumption DEF LedgerAssumption, ZoneCtx, Twin, TwinOver, Assembly
    <3> QED BY <1>1, <3>1, AnswerType
  <2> QED BY <2>1 DEF Answers
<1>2. CASE e.kind = "AssemblyZoneReady"
  <2> DEFINE m == [kind |-> IF twin.mode = "PreparingToStart" THEN "BecomeOn" ELSE "BecomeOff"]
  <2>1. m \in HeadlampMessage(Lux) /\ m \in WiperMessage
    BY DEF HeadlampMessage, WiperMessage
  <2>2. e.assembly \in Assembly
    BY <1>2 DEF EventOver
  <2>3. Replies(e) = Answers(e.assembly, m)
    BY <1>2 DEF Replies
  <2> HIDE DEF m
  <2> QED BY <1>1, <2>1, <2>2, <2>3
<1>3. CASE e.kind # "AssemblyZoneReady" /\ UserEventToZoneTell(e) = NoTell
  BY <1>3 DEF Replies
<1>4. CASE e.kind # "AssemblyZoneReady" /\ UserEventToZoneTell(e) # NoTell
  <2> DEFINE tell == UserEventToZoneTell(e)
  <2>1. \/ tell.zone = "Headlamp" /\ tell.message \in HeadlampMessage(Lux)
        \/ tell.zone = "Wiper" /\ tell.message \in WiperMessage
    BY <1>4, TellType
  <2>2. Replies(e) = {NoReply} \cup Answers(tell.zone, tell.message)
    BY <1>4 DEF Replies
  <2> HIDE DEF tell
  <2> QED BY <1>1, <2>1, <2>2 DEF Assembly
<1> QED BY <1>2, <1>3, <1>4

\* A length is a number.
LEMMA ShortSeq == ASSUME NEW S, NEW s \in Seq(S), Len(s) \in 1..2 PROVE Len(s) <= 2 /\ s # << >>
<1>1. \A n \in 1..2 : n <= 2
  OBVIOUS
<1>2. Len(s) <= 2
  BY <1>1
<1> QED BY <1>2

\* What is left of a short sequence
LEMMA ShortTail ==
    ASSUME NEW S, NEW s \in Seq(S), s # << >>, Len(s) <= 2
    PROVE  /\ Len(s) = 1 \/ Len(s) = 2
           /\ Len(s) = 1 => Tail(s) = << >>
           /\ Len(s) = 2 => Tail(s) # << >> /\ Len(Tail(s)) = 1 /\ Tail(s)[1] = s[2]
<1>1. \A n \in Nat : n <= 2 /\ n # 0 => n = 1 \/ n = 2
  OBVIOUS
<1>2. Len(s) \in Nat /\ Len(s) # 0
  OBVIOUS
<1>3. Len(Tail(s)) = Len(s) - 1 /\ Tail(s) \in Seq(S)
  OBVIOUS
<1>4. ASSUME Len(s) = 1 PROVE Tail(s) = << >>
  <2>1. \A t \in Seq(S) : Len(t) = 0 => t = << >>
    OBVIOUS
  <2>2. Len(Tail(s)) = 0
    BY <1>3, <1>4
  <2> QED BY <1>3, <2>1, <2>2
<1>5. ASSUME Len(s) = 2 PROVE Tail(s) # << >> /\ Len(Tail(s)) = 1 /\ Tail(s)[1] = s[2]
  <2>1. Len(<< >>) = 0
    OBVIOUS
  <2>2. Len(Tail(s)) = 1
    BY <1>3, <1>5
  <2>3. \A i \in 1..Len(Tail(s)) : Tail(s)[i] = s[i + 1]
    OBVIOUS
  <2>4. 1 \in 1..1 /\ 1 + 1 = 2
    OBVIOUS
  <2>5. Tail(s)[1] = s[2]
    BY <2>2, <2>3, <2>4
  <2>6. Tail(s) # << >>
    <3>1. Len(Tail(s)) # Len(<< >>)
      BY <2>1, <2>2
    <3> QED BY <3>1, Zenon
  <2> QED BY <2>2, <2>5, <2>6
<1> QED BY <1>1, <1>2, <1>4, <1>5

\* A hop is a hop.
LEMMA HopIsHop ==
    ASSUME NEW m \in Mode, NEW t \in Twin,
           NEW e \in EventOver(Rpm, Lux) \cup {LightingUnsafeEvent}
    PROVE  Hop(m, t, PublishedKind(e)) \in HopType
  BY DEF Hop, HopType, CtxType, Kinds, Twin, TwinOver

\* The row shows the cut the detector watches for exactly if its twin does.
LEMMA UnsafeHop ==
    ASSUME NEW m, NEW t, NEW k
    PROVE  /\ UnsafeRow(Hop(m, t, k)) = LightingUnsafe(t)
           /\ Hop(m, t, k).next = t.mode
           /\ Hop(m, t, k).old = m
           /\ Hop(m, t, k).event = k
           /\ Hop(m, t, k).ctx = PublishedCtx(t)
  BY DEF UnsafeRow, Hop, PublishedCtx, LightingUnsafe

\* Only the detector's event is published under its kind.
LEMMA OnlyInternal ==
    /\ \A e \in EventOver(Rpm, Lux) : PublishedKind(e) # LightingUnsafeEvent.kind
    /\ PublishedKind(LightingUnsafeEvent) = LightingUnsafeEvent.kind
  BY DEF EventOver, PublishedKind, LightingUnsafeEvent

\* The second hop follows on the first: it begins where the first ended, and
\* it is the internal one exactly if the first ends in the unsafe cut.
Follows(first, second) ==
    /\ second.old = first.next
    /\ UnsafeRow(first) <=> second.event = LightingUnsafeEvent.kind
    /\ second.event = LightingUnsafeEvent.kind => second.ctx = first.ctx

\* A hop that ends with twin t, which is safe
Ends(hop, t) == /\ hop.next = t.mode
                /\ hop.ctx = PublishedCtx(t)
                /\ ~UnsafeRow(hop)

\* The hops of a turn: one or two, which follow on each other; the first
\* begins with the twin and the last ends with the twin after the turn.
LEMMA HopsOfTurn ==
    ASSUME NEW t \in Twin, NEW e \in EventOver(Rpm, Lux), NEW reply \in ZoneReply \cup {NoReply}
    PROVE  LET hs == Hops(t, e, reply)
               u  == Turn(t, e, reply).twin
           IN  /\ u \in Twin /\ ~LightingUnsafe(u)
               /\ hs \in Seq(HopType)
               /\ Len(hs) \in 1..2
               /\ hs[1].old = t.mode /\ hs[1].event # LightingUnsafeEvent.kind
               /\ Len(hs) = 2 => Follows(hs[1], hs[2])
               /\ Ends(hs[Len(hs)], u)
<1> DEFINE hs     == Hops(t, e, reply)
           h      == ExternalHop(t, e, reply).twin
           u      == Turn(t, e, reply).twin
           first  == Hop(t.mode, h, PublishedKind(e))
           second == Hop(h.mode, u, LightingUnsafeEvent.kind)
<1>1. /\ h \in Twin /\ u \in Twin
      /\ ~LightingUnsafe(h) => u = h
      /\ LightingUnsafe(h) => u = [h EXCEPT !.mode = "DrivingDangerously", !.remaining = {}]
  <2>1. t \in TwinOver(Rpm, Lux) /\ Shaped(t)
    BY DEF Twin
  <2>2. h \in TwinOver(Rpm, Lux) /\ Shaped(h)
    BY <2>1, TurnType
  <2>3. u \in TwinOver(Rpm, Lux)
    BY <2>1, TurnType
  <2>4. Shaped(u)
    BY <2>1, TurnType
  <2>5. ~LightingUnsafe(h) => u = h
    BY DEF Turn
  <2>6. LightingUnsafe(h) => u = [h EXCEPT !.mode = "DrivingDangerously", !.remaining = {}]
    <3>1. LightingUnsafe(h) => u = Step(h, LightingUnsafeEvent).twin
      BY DEF Turn
    <3> HIDE DEF h, u
    <3> QED BY <2>2, <3>1, InternalHop
  <2> HIDE DEF h, u
  <2> QED BY <2>2, <2>3, <2>4, <2>5, <2>6 DEF Twin
<1>2. hs = IF LightingUnsafe(h) THEN <<first, second>> ELSE <<first>>
  BY DEF Hops
<1> HIDE DEF hs, h, u
<1>3. t.mode \in Mode /\ h.mode \in Mode
  BY <1>1 DEF Twin, TwinOver
<1>4. first \in HopType /\ second \in HopType
  BY <1>1, <1>3, HopIsHop, OnlyInternal
<1>5. /\ first.old = t.mode /\ first.event # LightingUnsafeEvent.kind
      /\ first.next = h.mode /\ first.ctx = PublishedCtx(h)
      /\ UnsafeRow(first) = LightingUnsafe(h)
  BY UnsafeHop, OnlyInternal
<1>6. /\ second.old = h.mode /\ second.event = LightingUnsafeEvent.kind
      /\ second.next = u.mode /\ second.ctx = PublishedCtx(u)
      /\ UnsafeRow(second) = LightingUnsafe(u)
  BY UnsafeHop
<1> HIDE DEF first, second
<1>7. CASE ~LightingUnsafe(h)
  <2>1. hs = <<first>> /\ u = h
    BY <1>1, <1>2, <1>7
  <2> QED BY <1>1, <1>4, <1>5, <1>7, <2>1 DEF Ends, hs, h, u
<1>8. CASE LightingUnsafe(h)
  <2>1. hs = <<first, second>>
    BY <1>2, <1>8
  <2>2. u.mode = "DrivingDangerously" /\ PublishedCtx(u) = PublishedCtx(h)
    BY <1>1, <1>8 DEF PublishedCtx, Twin, TwinOver
  <2>3. ~LightingUnsafe(u)
    BY <2>2 DEF LightingUnsafe
  <2>4. Follows(first, second)
    BY <1>5, <1>6, <1>8, <2>2 DEF Follows
  <2>5. Ends(second, u)
    BY <1>6, <2>3 DEF Ends
  <2> QED BY <1>1, <1>4, <1>5, <2>1, <2>3, <2>4, <2>5 DEF hs, h, u
<1> QED BY <1>7, <1>8

\* What an action finds and leaves of the commit and of the rows.
LEMMA CommitFacts ==
    ASSUME TypeInv
    PROVE  /\ ~Idle => commit \in Underway
           /\ commit.hops # << >> =>
                 /\ ~Idle
                 /\ commit.hops \in Seq(HopType) /\ Head(commit.hops) \in HopType
                 /\ Head(commit.hops) = commit.hops[1]
                 /\ Tail(commit.hops) \in Seq(HopType)
                 /\ Len(Tail(commit.hops)) = Len(commit.hops) - 1
                 /\ [commit EXCEPT !.hops = Tail(@)] \in Underway
                 /\ [commit EXCEPT !.hops = Tail(@)].hops = Tail(commit.hops)
                 /\ [commit EXCEPT !.hops = Tail(@)].twin = commit.twin
<1>1. ~Idle => commit \in Underway
  BY DEF TypeInv, Idle
<1>2. commit.hops # << >> => ~Idle
  BY CommitKinds DEF Idle
<1>3. ASSUME commit.hops # << >>
      PROVE  /\ commit.hops \in Seq(HopType) /\ Head(commit.hops) \in HopType
             /\ Head(commit.hops) = commit.hops[1]
             /\ Tail(commit.hops) \in Seq(HopType)
             /\ Len(Tail(commit.hops)) = Len(commit.hops) - 1
             /\ [commit EXCEPT !.hops = Tail(@)] \in Underway
             /\ [commit EXCEPT !.hops = Tail(@)].hops = Tail(commit.hops)
             /\ [commit EXCEPT !.hops = Tail(@)].twin = commit.twin
  <2>1. commit \in Underway
    BY <1>1, <1>2, <1>3
  <2>2. commit.hops \in Seq(HopType)
    BY <2>1 DEF Underway
  <2>3. /\ Head(commit.hops) \in HopType
        /\ Head(commit.hops) = commit.hops[1]
        /\ Tail(commit.hops) \in Seq(HopType)
        /\ Len(Tail(commit.hops)) = Len(commit.hops) - 1
    BY <1>3, <2>2
  <2> QED BY <2>1, <2>2, <2>3 DEF Underway
<1> QED BY <1>1, <1>2, <1>3

LEMMA TypeInit == Init => TypeInv
<1> SUFFICES ASSUME Init PROVE TypeInv
  OBVIOUS
<1>1. Len(commit.hops) <= 2 /\ Len(sink) <= SinkCapacity
  BY LedgerAssumption DEF LedgerAssumption, Init, NoCommit
<1>2. twin \in Twin /\ twin \in TwinOver(Rpm, Lux)
  BY InitialTwinType DEF Init, Twin
<1> QED BY <1>1, <1>2, LedgerAssumption DEF LedgerAssumption, Init, TypeInv, TypeOK, Mode

\* A row offered to the sink is a row.
LEMMA OfferedRow ==
    ASSUME TypeInv, commit.hops # << >>
    PROVE  Numbered(Head(commit.hops), nextRecordSeq) \in RowType
  BY CommitFacts DEF TypeInv, TypeOK, Numbered, RowType

LEMMA TypeStep == TypeInv /\ [Next]_vars => TypeInv'
<1> SUFFICES ASSUME TypeInv, [Next]_vars PROVE TypeInv'
  OBVIOUS
<1> USE DEF TypeInv, TypeOK
<1>1. ASSUME NEW e \in Event, CommitResolvedTurn(e) PROVE TypeInv'
  <2>1. e \in EventOver(Rpm, Lux)
    BY DEF Event
  <2>2. PICK reply \in Replies(e) :
           commit' = [hops |-> Hops(twin, e, reply), twin |-> Turn(twin, e, reply).twin]
    BY <1>1 DEF CommitResolvedTurn
  <2>3. reply \in ZoneReply \cup {NoReply}
    BY <2>1, <2>2, RepliesType
  <2>4. /\ Turn(twin, e, reply).twin \in Twin
        /\ Hops(twin, e, reply) \in Seq(HopType)
        /\ Len(Hops(twin, e, reply)) \in 1..2
    BY <2>1, <2>3, HopsOfTurn
  <2>5. commit' \in Underway /\ Len(commit'.hops) <= 2
    <3> DEFINE hs == Hops(twin, e, reply)
               u  == Turn(twin, e, reply).twin
    <3>1. u \in Twin /\ hs \in Seq(HopType) /\ Len(hs) \in 1..2
      BY <2>4, Zenon
    <3>2. commit' = [hops |-> hs, twin |-> u]
      BY <2>2
    <3> HIDE DEF hs, u
    <3>3. Len(hs) <= 2
      BY <3>1, ShortSeq
    <3> QED BY <3>1, <3>2, <3>3 DEF Underway
  <2>6. /\ UNCHANGED <<twin, nextRecordSeq, shown, sink, reading, printed, dropped>>
        /\ turns' = turns + 1 /\ turns < MaxTurns
    BY <1>1 DEF CommitResolvedTurn, sinkVars
  <2>7. turns' \in 0..MaxTurns
    BY <2>6, LedgerAssumption DEF LedgerAssumption
  <2> QED BY <2>5, <2>6, <2>7
<1>2. CASE TryEmitTransitionRecord
  <2> DEFINE row == Numbered(Head(commit.hops), nextRecordSeq)
  <2>1. row \in RowType
    BY <1>2, OfferedRow DEF TryEmitTransitionRecord
  <2>2. commit' \in Underway /\ Len(commit'.hops) <= 2
    <3>1. commit' = [commit EXCEPT !.hops = Tail(@)] /\ commit.hops # << >>
      BY <1>2 DEF TryEmitTransitionRecord
    <3>2. commit' \in Underway /\ commit'.hops = Tail(commit.hops)
      BY <3>1, CommitFacts
    <3>3. Len(Tail(commit.hops)) = Len(commit.hops) - 1 /\ Len(commit.hops) \in Nat
      BY <3>1, CommitFacts
    <3> QED BY <3>2, <3>3
  <2>3. sink' \in Seq(RowType) /\ Len(sink') <= SinkCapacity /\ dropped' \subseteq Nat
    <3>1. CASE Accepts
      <4>1. sink' = Append(sink, row) /\ dropped' = dropped
        BY <1>2, <3>1 DEF TryEmitTransitionRecord
      <4>2. Len(sink) < SinkCapacity
        BY <3>1 DEF Accepts
      <4> HIDE DEF row
      <4> QED BY <2>1, <4>1, <4>2, LedgerAssumption DEF LedgerAssumption
    <3>2. CASE ~Accepts
      BY <1>2, <3>2 DEF TryEmitTransitionRecord
    <3> QED BY <3>1, <3>2
  <2>4. nextRecordSeq' = nextRecordSeq + 1
    BY <1>2 DEF TryEmitTransitionRecord
  <2> QED BY <1>2, <2>2, <2>3, <2>4 DEF TryEmitTransitionRecord
<1>3. CASE ApplyStep
  <2>1. commit.twin \in Twin /\ commit.twin \in TwinOver(Rpm, Lux)
    BY <1>3, CommitFacts DEF ApplyStep, Underway, Twin
  <2>2. shown' \in Mode
    BY <1>3, <2>1 DEF ApplyStep, ShownAfter, TwinOver
  <2>3. Len(commit'.hops) <= 2
    BY <1>3, CommitKinds DEF ApplyStep
  <2> QED BY <1>3, <2>1, <2>2, <2>3 DEF ApplyStep, sinkVars
<1>4. CASE GetStatus
  BY <1>4 DEF GetStatus, sinkVars
<1>5. CASE PrintRow
  <2>1. Head(sink) \in RowType /\ Tail(sink) \in Seq(RowType) /\ Len(Tail(sink)) <= SinkCapacity
    BY <1>5, LedgerAssumption DEF PrintRow, LedgerAssumption
  <2> QED BY <1>5, <2>1 DEF PrintRow
<1>6. CASE ReaderEnds
  <2>1. {sink[i].seq : i \in DOMAIN sink} \subseteq Nat
    <3>1. \A i \in DOMAIN sink : sink[i] \in RowType
      OBVIOUS
    <3> QED BY <3>1 DEF RowType
  <2>2. dropped' \subseteq Nat /\ sink' = << >> /\ reading' = FALSE
    BY <1>6, <2>1 DEF ReaderEnds
  <2>3. sink' \in Seq(RowType) /\ Len(sink') <= SinkCapacity
    BY <2>2, LedgerAssumption DEF LedgerAssumption
  <2> QED BY <1>6, <2>2, <2>3 DEF ReaderEnds
<1>7. CASE UNCHANGED vars
  BY <1>7 DEF vars, sinkVars
<1> QED BY <1>1, <1>2, <1>3, <1>4, <1>5, <1>6, <1>7 DEF Next

\* The types hold in every behaviour, whatever the constants are.
THEOREM TypeCorrect == Spec => []TypeOK
<1>1. Init => TypeInv
  BY TypeInit
<1>2. TypeInv /\ [Next]_vars => TypeInv'
  BY TypeStep
<1>3. TypeInv => TypeOK
  BY DEF TypeInv
<1> QED BY <1>1, <1>2, <1>3, PTL DEF Spec
-----------------------------------------------------------------------------
(* The operator's lines.                                                   *)

\* During a turn, too, the last line names the twin's mode: apply_step moves
\* both.  It is what makes ConsoleShowsMode inductive.
ShownInv == shown = twin.mode

LEMMA ShownStep == TypeInv /\ ShownInv /\ [Next]_vars => ShownInv'
<1> SUFFICES ASSUME TypeInv, ShownInv, [Next]_vars PROVE ShownInv'
  OBVIOUS
<1> USE DEF ShownInv
<1>1. CASE ApplyStep
  BY <1>1 DEF ApplyStep, ShownAfter
<1>2. CASE UNCHANGED <<twin, shown>>
  BY <1>2
<1>3. ASSUME NEW e \in Event, CommitResolvedTurn(e) PROVE UNCHANGED <<twin, shown>>
  BY <1>3 DEF CommitResolvedTurn
<1>4. TryEmitTransitionRecord \/ GetStatus \/ PrintRow \/ ReaderEnds \/ UNCHANGED vars
         => UNCHANGED <<twin, shown>>
  BY DEF TryEmitTransitionRecord, GetStatus, PrintRow, ReaderEnds, vars
<1> QED BY <1>1, <1>2, <1>3, <1>4 DEF Next

\* Whenever no turn is being committed, the last "Transitioned to" line of the
\* diagnostics names the mode the twin is in.
THEOREM ConsoleCorrect == Spec => []ConsoleShowsMode
<1>1. Init => TypeInv /\ ShownInv
  BY TypeInit DEF Init, ShownInv, InitialTwin
<1>2. TypeInv /\ ShownInv /\ [Next]_vars => (TypeInv /\ ShownInv)'
  BY TypeStep, ShownStep
<1>3. ShownInv => ConsoleShowsMode
  BY DEF ShownInv, ConsoleShowsMode
<1> QED BY <1>1, <1>2, <1>3, PTL DEF Spec
-----------------------------------------------------------------------------
(* The numbers.                                                            *)

\* The number of the row printed last, 0 if there is none
Base == printed.seq

\* Every number used after the last printed one is of a row that was dropped or
\* still is in the sink, of one of them only, and the sink is in their order.
NumberInv ==
    /\ Base < nextRecordSeq
    /\ Base \notin dropped
    /\ dropped \subseteq 1..(nextRecordSeq - 1)
    /\ \A i \in 1..Len(sink) :
          Base < sink[i].seq /\ sink[i].seq < nextRecordSeq /\ sink[i].seq \notin dropped
    /\ \A i, j \in 1..Len(sink) : i < j => sink[i].seq < sink[j].seq
    /\ \A n \in (Base + 1)..(nextRecordSeq - 1) :
          n \in dropped \/ \E i \in 1..Len(sink) : sink[i].seq = n

\* Numbers are numbers.
LEMMA NumberTypes ==
    ASSUME TypeInv
    PROVE  /\ Base \in Nat /\ nextRecordSeq \in Nat /\ Len(sink) \in Nat
           /\ \A i \in 1..Len(sink) : sink[i] \in RowType /\ sink[i].seq \in Nat
           /\ printed # NoRow => printed \in RowType /\ Base # 0
           /\ printed = NoRow => Base = 0
<1>1. \A r \in RowType : r.seq \in Nat \ {0}
  BY DEF RowType
<1>2. NoRow.seq = 0
  BY DEF NoRow
<1>3. \A i \in 1..Len(sink) : sink[i] \in RowType
  BY DEF TypeInv
<1>4. Len(sink) \in Nat /\ nextRecordSeq \in Nat
  BY DEF TypeInv, TypeOK
<1> QED BY <1>1, <1>2, <1>3, <1>4 DEF TypeInv, Base

LEMMA NumberInit == Init => NumberInv
  BY DEF Init, NumberInv, Base, NoRow

LEMMA NumberStep == TypeInv /\ NumberInv /\ [Next]_vars => NumberInv'
<1> SUFFICES ASSUME TypeInv, NumberInv, [Next]_vars PROVE NumberInv'
  OBVIOUS
<1> USE NumberTypes DEF NumberInv
<1>1. CASE UNCHANGED <<printed, nextRecordSeq, dropped, sink>>
  BY <1>1 DEF Base
<1>2. CASE TryEmitTransitionRecord
  <2> DEFINE row == Numbered(Head(commit.hops), nextRecordSeq)
  <2>1. nextRecordSeq' = nextRecordSeq + 1 /\ Base' = Base
    BY <1>2 DEF TryEmitTransitionRecord, Base
  <2>2. CASE Accepts
    <3>1. sink' = Append(sink, row) /\ dropped' = dropped
      BY <1>2, <2>2 DEF TryEmitTransitionRecord
    <3>2. row.seq = nextRecordSeq
      BY DEF Numbered
    <3> HIDE DEF row
    <3>3. /\ Len(sink') = Len(sink) + 1
          /\ \A i \in 1..Len(sink) : sink'[i] = sink[i]
          /\ sink'[Len(sink) + 1] = row
      BY <3>1 DEF TypeInv
    <3>4. /\ \A i \in 1..Len(sink) : sink'[i].seq = sink[i].seq
          /\ sink'[Len(sink) + 1].seq = nextRecordSeq
      BY <3>2, <3>3
    <3>5. \A i \in 1..Len(sink') : i \in 1..Len(sink) \/ i = Len(sink) + 1
      BY <3>3
    <3>6. \A i \in 1..Len(sink') :
             Base < sink'[i].seq /\ sink'[i].seq < nextRecordSeq' /\ sink'[i].seq \notin dropped
      <4> SUFFICES ASSUME NEW i \in 1..Len(sink')
                   PROVE  Base < sink'[i].seq /\ sink'[i].seq < nextRecordSeq' /\ sink'[i].seq \notin dropped
        OBVIOUS
      <4>1. CASE i \in 1..Len(sink)
        <5>1. sink'[i].seq = sink[i].seq
          BY <3>4, <4>1
        <5>2. Base < sink[i].seq /\ sink[i].seq < nextRecordSeq /\ sink[i].seq \notin dropped
          BY <4>1
        <5> QED BY <2>1, <4>1, <5>1, <5>2
      <4>2. CASE i = Len(sink) + 1
        <5>1. sink'[i].seq = nextRecordSeq
          BY <3>4, <4>2
        <5>2. nextRecordSeq \notin dropped
          OBVIOUS
        <5> QED BY <2>1, <5>1, <5>2
      <4> QED BY <3>5, <4>1, <4>2
    <3>7. \A i, j \in 1..Len(sink') : i < j => sink'[i].seq < sink'[j].seq
      <4> SUFFICES ASSUME NEW i \in 1..Len(sink'), NEW j \in 1..Len(sink'), i < j
                   PROVE  sink'[i].seq < sink'[j].seq
        OBVIOUS
      <4>1. i \in 1..Len(sink) /\ sink'[i].seq = sink[i].seq
        BY <3>3, <3>4
      <4>2. CASE j \in 1..Len(sink)
        <5>1. sink'[j].seq = sink[j].seq
          BY <3>4, <4>2
        <5> QED BY <4>1, <4>2, <5>1
      <4>3. CASE j = Len(sink) + 1
        <5>1. sink'[j].seq = nextRecordSeq
          BY <3>4, <4>3
        <5> QED BY <4>1, <5>1
      <4> QED BY <3>5, <4>2, <4>3
    <3>8. \A n \in (Base + 1)..nextRecordSeq :
             n \in dropped \/ \E i \in 1..Len(sink') : sink'[i].seq = n
      <4> SUFFICES ASSUME NEW n \in (Base + 1)..nextRecordSeq, n \notin dropped
                   PROVE  \E i \in 1..Len(sink') : sink'[i].seq = n
        OBVIOUS
      <4>1. CASE n = nextRecordSeq
        BY <3>3, <3>4, <4>1
      <4>2. CASE n # nextRecordSeq
        <5>0. n \in (Base + 1)..(nextRecordSeq - 1)
          BY <4>2
        <5>1. PICK i \in 1..Len(sink) : sink[i].seq = n
          BY <5>0
        <5> QED BY <3>3, <3>4, <5>1
      <4> QED BY <4>1, <4>2
    <3> QED BY <2>1, <3>1, <3>6, <3>7, <3>8
  <2>3. CASE ~Accepts
    <3>1. sink' = sink /\ dropped' = dropped \cup {nextRecordSeq}
      BY <1>2, <2>3 DEF TryEmitTransitionRecord
    <3>2. \A i \in 1..Len(sink') :
             Base < sink'[i].seq /\ sink'[i].seq < nextRecordSeq' /\ sink'[i].seq \notin dropped'
      BY <2>1, <3>1
    <3>3. \A n \in (Base + 1)..nextRecordSeq :
             n \in dropped' \/ \E i \in 1..Len(sink') : sink'[i].seq = n
      <4> SUFFICES ASSUME NEW n \in (Base + 1)..nextRecordSeq, n \notin dropped'
                   PROVE  \E i \in 1..Len(sink') : sink'[i].seq = n
        OBVIOUS
      <4>1. n \in (Base + 1)..(nextRecordSeq - 1) /\ n \notin dropped
        BY <3>1
      <4> QED BY <3>1, <4>1
    <3>4. Base \notin dropped' /\ dropped' \subseteq 1..nextRecordSeq
      <4>1. Base # nextRecordSeq
        OBVIOUS
      <4>2. \A n \in dropped : n \in 1..nextRecordSeq
        <5> SUFFICES ASSUME NEW n \in 1..(nextRecordSeq - 1) PROVE n \in 1..nextRecordSeq
          OBVIOUS
        <5> QED OBVIOUS
      <4>3. nextRecordSeq \in 1..nextRecordSeq
        OBVIOUS
      <4> QED BY <3>1, <4>1, <4>2, <4>3
    <3>5. \A i, j \in 1..Len(sink') : i < j => sink'[i].seq < sink'[j].seq
      BY <3>1
    <3>6. Base' < nextRecordSeq' /\ nextRecordSeq' - 1 = nextRecordSeq
      BY <2>1
    <3> QED BY <2>1, <3>2, <3>3, <3>4, <3>5, <3>6
  <2> QED BY <2>2, <2>3
<1>3. CASE PrintRow
  <2>1. /\ Len(sink) # 0 /\ 1 \in 1..Len(sink)
        /\ Base' = sink[1].seq
        /\ Len(sink') = Len(sink) - 1
        /\ \A i \in 1..Len(sink') : sink'[i] = sink[i + 1] /\ i + 1 \in 1..Len(sink)
        /\ dropped' = dropped /\ nextRecordSeq' = nextRecordSeq
    BY <1>3 DEF PrintRow, Base, TypeInv
  <2>2. Base < Base' /\ Base' < nextRecordSeq /\ Base' \notin dropped
    BY <2>1
  <2>3. \A i \in 1..Len(sink') :
           Base' < sink'[i].seq /\ sink'[i].seq < nextRecordSeq /\ sink'[i].seq \notin dropped
    <3> SUFFICES ASSUME NEW i \in 1..Len(sink')
                 PROVE  Base' < sink'[i].seq /\ sink'[i].seq < nextRecordSeq /\ sink'[i].seq \notin dropped
      OBVIOUS
    <3>1. 1 < i + 1 /\ i + 1 \in 1..Len(sink) /\ sink'[i] = sink[i + 1]
      BY <2>1
    <3> QED BY <2>1, <3>1
  <2>4. \A i, j \in 1..Len(sink') : i < j => sink'[i].seq < sink'[j].seq
    <3> SUFFICES ASSUME NEW i \in 1..Len(sink'), NEW j \in 1..Len(sink'), i < j
                 PROVE  sink'[i].seq < sink'[j].seq
      OBVIOUS
    <3>1. i + 1 \in 1..Len(sink) /\ j + 1 \in 1..Len(sink) /\ i + 1 < j + 1
      BY <2>1
    <3>2. sink'[i] = sink[i + 1] /\ sink'[j] = sink[j + 1]
      BY <2>1
    <3> QED BY <3>1, <3>2
  <2>5. \A n \in (Base' + 1)..(nextRecordSeq - 1) :
           n \in dropped \/ \E i \in 1..Len(sink') : sink'[i].seq = n
    <3> SUFFICES ASSUME NEW n \in (Base' + 1)..(nextRecordSeq - 1), n \notin dropped
                 PROVE  \E i \in 1..Len(sink') : sink'[i].seq = n
      OBVIOUS
    <3>1. PICK i \in 1..Len(sink) : sink[i].seq = n
      BY <2>1, <2>2
    <3>2. i # 1
      BY <2>1, <3>1
    <3>3. i - 1 \in 1..Len(sink')
      BY <2>1, <3>2
    <3>4. sink'[i - 1] = sink[(i - 1) + 1] /\ (i - 1) + 1 = i
      BY <2>1, <3>3
    <3> QED BY <3>1, <3>3, <3>4
  <2> QED BY <2>1, <2>2, <2>3, <2>4, <2>5
<1>4. CASE ReaderEnds
  <2>1. /\ sink' = << >> /\ Len(sink') = 0
        /\ Base' = Base /\ nextRecordSeq' = nextRecordSeq
        /\ dropped' = dropped \cup {sink[i].seq : i \in 1..Len(sink)}
    BY <1>4 DEF ReaderEnds, Base, TypeInv
  <2>2. Base' \notin dropped' /\ dropped' \subseteq 1..(nextRecordSeq' - 1)
    <3>1. \A i \in 1..Len(sink) : sink[i].seq # Base /\ sink[i].seq \in 1..(nextRecordSeq - 1)
      <4> SUFFICES ASSUME NEW i \in 1..Len(sink)
                   PROVE  sink[i].seq # Base /\ sink[i].seq \in 1..(nextRecordSeq - 1)
        OBVIOUS
      <4>1. Base < sink[i].seq /\ sink[i].seq < nextRecordSeq /\ sink[i].seq \in Nat
        OBVIOUS
      <4> QED BY <4>1
    <3> DEFINE lost == {sink[i].seq : i \in 1..Len(sink)}
    <3>2. Base \notin lost /\ lost \subseteq 1..(nextRecordSeq - 1)
      BY <3>1
    <3>3. dropped' = dropped \cup lost
      BY <2>1
    <3> HIDE DEF lost
    <3> QED BY <2>1, <3>2, <3>3
  <2>3. \A n \in (Base' + 1)..(nextRecordSeq' - 1) : n \in dropped'
    <3> SUFFICES ASSUME NEW n \in (Base + 1)..(nextRecordSeq - 1), n \notin dropped
                 PROVE  \E i \in 1..Len(sink) : sink[i].seq = n
      BY <2>1
    <3> QED OBVIOUS
  <2>4. \A i \in 1..Len(sink') : FALSE
    BY <2>1
  <2> QED BY <2>1, <2>2, <2>3, <2>4
<1>5. ASSUME NEW e \in Event, CommitResolvedTurn(e)
      PROVE  UNCHANGED <<printed, nextRecordSeq, dropped, sink>>
  BY <1>5 DEF CommitResolvedTurn, sinkVars
<1>6. ApplyStep \/ GetStatus \/ UNCHANGED vars
         => UNCHANGED <<printed, nextRecordSeq, dropped, sink>>
  BY DEF ApplyStep, GetStatus, vars, sinkVars
<1> QED BY <1>1, <1>2, <1>3, <1>4, <1>5, <1>6 DEF Next

\* The rows, place by place: a printed one comes first.
LEMMA RowsAre ==
    ASSUME TypeInv
    PROVE  LET k == IF printed = NoRow THEN 0 ELSE 1
           IN  /\ DOMAIN Rows = 1..Len(Rows) /\ Len(Rows) = Len(sink) + k
               /\ \A i \in 1..Len(Rows) : i > k => i - k \in 1..Len(sink) /\ Rows[i] = sink[i - k]
               /\ printed # NoRow => 1 \in 1..Len(Rows) /\ Rows[1] = printed
               /\ Rows = << >> <=> Len(Rows) = 0
<1>0. sink \in Seq(RowType)
  BY DEF TypeInv
<1>1. CASE printed = NoRow
  BY <1>0, <1>1 DEF Rows
<1>2. CASE printed # NoRow
  <2>1. printed \in RowType
    BY <1>2, NumberTypes
  <2>2. Rows = <<printed>> \o sink
    BY <1>2 DEF Rows
  <2>3. <<printed>> \in Seq(RowType) /\ Len(<<printed>>) = 1
    BY <2>1
  <2>4. /\ Rows \in Seq(RowType) /\ Len(Rows) = Len(sink) + 1
        /\ Rows[1] = printed
        /\ \A i \in 1..Len(Rows) : i > 1 => Rows[i] = sink[i - 1]
    BY <1>0, <2>2, <2>3
  <2>5. Len(sink) \in Nat
    BY <1>0
  <2> QED BY <1>2, <2>4, <2>5
<1> QED BY <1>1, <1>2

\* Before a row of the sink stands the one before it in the sink, or the one
\* printed last; what is missing in between was dropped.
LEMMA Between ==
    ASSUME TypeInv, NumberInv, NEW i \in 1..Len(sink)
    PROVE  LET b == IF i = 1 THEN Base ELSE sink[i - 1].seq
           IN  /\ b < sink[i].seq
               /\ \A n \in (b + 1)..(sink[i].seq - 1) : n \in dropped
<1> DEFINE b == IF i = 1 THEN Base ELSE sink[i - 1].seq
<1> USE NumberTypes DEF NumberInv
<1>1. i # 1 => i - 1 \in 1..Len(sink) /\ i - 1 < i
  OBVIOUS
<1>2. b \in Nat /\ Base <= b /\ b < sink[i].seq
  BY <1>1
<1>3. ASSUME NEW n \in (b + 1)..(sink[i].seq - 1), n \notin dropped PROVE FALSE
  <2>1. n \in (Base + 1)..(nextRecordSeq - 1)
    BY <1>2, <1>3
  <2>2. PICK j \in 1..Len(sink) : sink[j].seq = n
    BY <1>3, <2>1
  <2>3. sink[j].seq < sink[i].seq /\ b < sink[j].seq
    BY <1>2, <1>3, <2>2
  <2>4. j < i
    <3>1. CASE i < j
      BY <2>3, <3>1
    <3> QED BY <2>3, <3>1
  <2>5. i # 1 /\ b = sink[i - 1].seq
    BY <2>4
  <2>6. j = i - 1 \/ j < i - 1
    BY <2>4
  <2>7. CASE j = i - 1
    BY <2>3, <2>5, <2>7
  <2>8. CASE j < i - 1
    <3>1. sink[j].seq < sink[i - 1].seq
      BY <1>1, <2>5, <2>8
    <3> QED BY <1>1, <2>3, <2>5, <3>1
  <2> QED BY <2>6, <2>7, <2>8
<1> QED BY <1>2, <1>3

\* After the last row there are only dropped ones.
LEMMA After ==
    ASSUME TypeInv, NumberInv
    PROVE  LET l == IF Len(sink) = 0 THEN Base ELSE sink[Len(sink)].seq
           IN  (l + 1)..(nextRecordSeq - 1) \subseteq dropped
<1> DEFINE l == IF Len(sink) = 0 THEN Base ELSE sink[Len(sink)].seq
<1> USE NumberTypes DEF NumberInv
<1>1. Len(sink) # 0 => Len(sink) \in 1..Len(sink)
  OBVIOUS
<1>2. l \in Nat /\ Base <= l
  BY <1>1
<1>3. ASSUME NEW n \in (l + 1)..(nextRecordSeq - 1), n \notin dropped PROVE FALSE
  <2>1. n \in (Base + 1)..(nextRecordSeq - 1)
    BY <1>2
  <2>2. PICK j \in 1..Len(sink) : sink[j].seq = n
    BY <1>3, <2>1
  <2>3. l = sink[Len(sink)].seq /\ Len(sink) \in 1..Len(sink)
    BY <1>1, <2>2
  <2>4. sink[j].seq <= l
    <3>1. j = Len(sink) \/ j < Len(sink)
      BY <2>2
    <3> QED BY <2>3, <3>1
  <2> QED BY <1>2, <2>2, <2>4
<1> QED BY <1>3

LEMMA GapsFromNumbers == TypeInv /\ NumberInv => GapMeansDrop
<1> SUFFICES ASSUME TypeInv, NumberInv PROVE GapMeansDrop
  OBVIOUS
<1> DEFINE k         == IF printed = NoRow THEN 0 ELSE 1
           before(i) == IF i = 1 THEN 0 ELSE Rows[i - 1].seq
<1>1. /\ DOMAIN Rows = 1..Len(Rows) /\ Len(Rows) = Len(sink) + k
      /\ \A i \in 1..Len(Rows) : i > k => i - k \in 1..Len(sink) /\ Rows[i] = sink[i - k]
      /\ printed # NoRow => 1 \in 1..Len(Rows) /\ Rows[1] = printed
      /\ Rows = << >> <=> Len(Rows) = 0
  BY RowsAre
<1>2. ASSUME NEW i \in 1..Len(Rows), i > k
      PROVE  /\ before(i) < Rows[i].seq
             /\ Rows[i].seq \notin dropped
             /\ \A n \in (before(i) + 1)..(Rows[i].seq - 1) : n \in dropped
  <2>1. i - k \in 1..Len(sink) /\ Rows[i] = sink[i - k]
    BY <1>1, <1>2
  <2>2. before(i) = IF i - k = 1 THEN Base ELSE sink[(i - k) - 1].seq
    <3>1. CASE i = 1
      BY <1>2, <3>1, NumberTypes
    <3>2. CASE i # 1 /\ i - k = 1
      <4>1. i = 2 /\ k = 1
        BY <3>2
      <4> QED BY <1>1, <4>1 DEF Base
    <3>3. CASE i # 1 /\ i - k # 1
      <4>1. i - 1 \in 1..Len(Rows) /\ i - 1 > k
        BY <1>1, <1>2, <2>1, <3>3
      <4>2. Rows[i - 1] = sink[(i - 1) - k] /\ (i - 1) - k = (i - k) - 1
        BY <1>1, <4>1
      <4> QED BY <3>3, <4>2
    <3> QED BY <3>1, <3>2, <3>3
  <2>3. sink[i - k].seq \notin dropped
    BY <2>1 DEF NumberInv
  <2> HIDE DEF k, before
  <2> QED BY <2>1, <2>2, <2>3, Between
<1>3. ASSUME printed # NoRow PROVE before(1) < Rows[1].seq /\ Rows[1].seq \notin dropped
  <2>1. Rows[1].seq = Base /\ Base > 0
    BY <1>1, <1>3, NumberTypes DEF Base
  <2> QED BY <2>1 DEF NumberInv
<1>4. (LastSeq + 1)..(nextRecordSeq - 1) \subseteq dropped
  <2>1. LastSeq = IF Len(sink) = 0 THEN Base ELSE sink[Len(sink)].seq
    <3>1. CASE Len(sink) = 0
      BY <1>1, <3>1, NumberTypes DEF LastSeq, Base
    <3>2. CASE Len(sink) # 0
      <4>1. Len(Rows) \in 1..Len(Rows) /\ Len(Rows) > k /\ Len(Rows) - k = Len(sink) /\ Rows # << >>
        BY <1>1, <3>2, NumberTypes
      <4>2. Rows[Len(Rows)] = sink[Len(sink)]
        BY <1>1, <4>1
      <4> QED BY <3>2, <4>1, <4>2 DEF LastSeq
    <3> QED BY <3>1, <3>2
  <2> QED BY <2>1, After
<1>5. \A i \in DOMAIN Rows : before(i) < Rows[i].seq /\ Rows[i].seq \notin dropped
  <2> SUFFICES ASSUME NEW i \in 1..Len(Rows)
               PROVE  before(i) < Rows[i].seq /\ Rows[i].seq \notin dropped
    BY <1>1
  <2>1. i > k \/ (i = 1 /\ printed # NoRow)
    BY <1>1, NumberTypes
  <2> HIDE DEF before, k
  <2> QED BY <1>2, <1>3, <2>1
<1>6. \A i \in DOMAIN Rows \ (IF printed = NoRow THEN {} ELSE {1}) :
         \A n \in (before(i) + 1)..(Rows[i].seq - 1) : n \in dropped
  <2> SUFFICES ASSUME NEW i \in DOMAIN Rows \ (IF printed = NoRow THEN {} ELSE {1})
               PROVE  \A n \in (before(i) + 1)..(Rows[i].seq - 1) : n \in dropped
    OBVIOUS
  <2>1. i \in 1..Len(Rows) /\ i > k
    BY <1>1
  <2> HIDE DEF before, k
  <2> QED BY <1>2, <2>1
<1> QED BY <1>4, <1>5, <1>6 DEF GapMeansDrop

\* A missing number is one of a row that was dropped, no row is both lost and
\* there, and the rows come in the order of their numbers.
THEOREM GapsCorrect == Spec => []GapMeansDrop
<1>1. Init => TypeInv /\ NumberInv
  BY TypeInit, NumberInit
<1>2. TypeInv /\ NumberInv /\ [Next]_vars => (TypeInv /\ NumberInv)'
  BY TypeStep, NumberStep
<1> QED BY <1>1, <1>2, GapsFromNumbers, PTL DEF Spec
-----------------------------------------------------------------------------
(* The hops.                                                               *)

\* The rows a reader has or can still get, as a set
Present == {sink[i] : i \in DOMAIN sink} \cup ({printed} \ {NoRow})

\* The row with the last number used, if it got through
Latest(r) == r.seq = nextRecordSeq - 1

\* Rows with consecutive numbers follow on each other; the latest one ends with
\* the twin, or with the twin of the commit underway, unless there are hops
\* still to be offered, which follow on it and end with that twin.
ChainInv ==
    /\ ~LightingUnsafe(twin)
    /\ nextRecordSeq = 1 => twin = InitialTwin
    /\ \A r \in Present : r.seq < nextRecordSeq
    /\ \A r, q \in Present : q.seq = r.seq + 1 => Follows(r.hop, q.hop)
    /\ Idle => \A r \in Present : Latest(r) => Ends(r.hop, twin)
    /\ ~Idle =>
          /\ ~LightingUnsafe(commit.twin)
          /\ commit.hops = << >> =>
                /\ nextRecordSeq # 1
                /\ \A r \in Present : Latest(r) => Ends(r.hop, commit.twin)
          /\ commit.hops # << >> =>
                /\ \A r \in Present : Latest(r) => Follows(r.hop, commit.hops[1])
                /\ Len(commit.hops) = 2 => Follows(commit.hops[1], commit.hops[2])
                /\ Ends(commit.hops[Len(commit.hops)], commit.twin)

\* What the rows of an action are made of.
LEMMA PresentType == TypeInv => \A r \in Present : r.seq \in Nat
  BY NumberTypes DEF Present, RowType, TypeInv

LEMMA PresentSteps ==
    ASSUME TypeInv
    PROVE  /\ (PrintRow \/ ReaderEnds) => Present' \subseteq Present
           /\ UNCHANGED <<sink, printed>> => Present' = Present
           /\ TryEmitTransitionRecord =>
                 Present' \subseteq Present \cup {Numbered(Head(commit.hops), nextRecordSeq)}
<1>0. sink \in Seq(RowType)
  BY DEF TypeInv
<1>1. ASSUME PrintRow PROVE Present' \subseteq Present
  <2>1. /\ printed' = sink[1] /\ 1 \in DOMAIN sink
        /\ \A i \in DOMAIN sink' : sink'[i] = sink[i + 1] /\ i + 1 \in DOMAIN sink
    BY <1>0, <1>1 DEF PrintRow
  <2> QED BY <2>1 DEF Present
<1>2. ASSUME ReaderEnds PROVE Present' \subseteq Present
  BY <1>2 DEF ReaderEnds, Present
<1>3. UNCHANGED <<sink, printed>> => Present' = Present
  BY DEF Present
<1>4. ASSUME TryEmitTransitionRecord
      PROVE  Present' \subseteq Present \cup {Numbered(Head(commit.hops), nextRecordSeq)}
  <2> DEFINE row == Numbered(Head(commit.hops), nextRecordSeq)
  <2>1. printed' = printed /\ (sink' = sink \/ sink' = Append(sink, row))
    BY <1>4 DEF TryEmitTransitionRecord
  <2>2. row \in RowType
    BY <1>4, OfferedRow DEF TryEmitTransitionRecord
  <2> HIDE DEF row
  <2>3. \A i \in DOMAIN sink' : sink'[i] = row \/ (i \in DOMAIN sink /\ sink'[i] = sink[i])
    BY <1>0, <2>1, <2>2
  <2>4. Present' \subseteq Present \cup {row}
    BY <2>1, <2>3 DEF Present
  <2> QED BY <2>4 DEF row
<1> QED BY <1>1, <1>2, <1>3, <1>4

\* Off is safe.
LEMMA BornSafe == ~LightingUnsafe(InitialTwin)
  BY DEF LightingUnsafe, InitialTwin

LEMMA ChainInit == Init => ChainInv
<1> SUFFICES ASSUME Init PROVE ChainInv
  OBVIOUS
<1>1. Present = {} /\ Idle
  BY DEF Init, Present, Idle
<1> QED BY <1>1, BornSafe DEF Init, ChainInv

\* A new commit: its first hop begins with the twin.
LEMMA ChainCommit ==
    ASSUME TypeInv, ChainInv, NEW e \in Event, CommitResolvedTurn(e)
    PROVE  ChainInv'
<1>1. e \in EventOver(Rpm, Lux)
  BY DEF Event
<1>2. PICK reply \in Replies(e) :
         commit' = [hops |-> Hops(twin, e, reply), twin |-> Turn(twin, e, reply).twin]
  BY DEF CommitResolvedTurn
<1>3. reply \in ZoneReply \cup {NoReply} /\ twin \in Twin
  BY <1>1, <1>2, RepliesType DEF TypeInv
<1> DEFINE hs == Hops(twin, e, reply)
           u  == Turn(twin, e, reply).twin
<1>4. /\ u \in Twin /\ ~LightingUnsafe(u)
      /\ hs \in Seq(HopType) /\ Len(hs) \in 1..2
      /\ hs[1].old = twin.mode /\ hs[1].event # LightingUnsafeEvent.kind
      /\ Len(hs) = 2 => Follows(hs[1], hs[2])
      /\ Ends(hs[Len(hs)], u)
  BY <1>1, <1>3, HopsOfTurn, Zenon
<1>5. commit' = [hops |-> hs, twin |-> u]
  BY <1>2
<1> HIDE DEF hs, u
<1>6. /\ Idle /\ UNCHANGED <<twin, nextRecordSeq, sink, printed>>
  BY DEF CommitResolvedTurn, sinkVars
<1>7. Present' = Present
  BY <1>6, PresentSteps
<1>8. commit'.hops = hs /\ commit'.twin = u /\ hs # << >>
  BY <1>4, <1>5, ShortSeq
<1>9. ASSUME NEW r \in Present, Latest(r) PROVE Follows(r.hop, hs[1])
  <2>1. Ends(r.hop, twin)
    BY <1>6, <1>9 DEF ChainInv
  <2> QED BY <1>4, <2>1 DEF Ends, Follows
<1>10. \A r \in Present' : Latest(r)' => Follows(r.hop, commit'.hops[1])
  BY <1>6, <1>7, <1>8, <1>9 DEF Latest
<1>11. ~Idle'
  <2>1. commit' \in Underway
    BY <1>4, <1>5 DEF Underway
  <2> QED BY <2>1, CommitKinds DEF Idle
<1> QED BY <1>4, <1>6, <1>7, <1>8, <1>10, <1>11 DEF ChainInv

\* An offered hop: whether the sink takes it or not, the next number is used.
LEMMA ChainEmit ==
    ASSUME TypeInv, ChainInv, TryEmitTransitionRecord
    PROVE  ChainInv'
<1> DEFINE hs  == commit.hops
           row == Numbered(Head(hs), nextRecordSeq)
<1>1. /\ hs # << >> /\ commit' = [commit EXCEPT !.hops = Tail(@)]
      /\ nextRecordSeq' = nextRecordSeq + 1 /\ twin' = twin
  BY DEF TryEmitTransitionRecord
<1>2. /\ ~Idle /\ hs \in Seq(HopType) /\ Head(hs) = hs[1]
      /\ Tail(hs) \in Seq(HopType) /\ Len(Tail(hs)) = Len(hs) - 1
      /\ commit' \in Underway /\ commit'.hops = Tail(hs) /\ commit'.twin = commit.twin
  BY <1>1, CommitFacts
<1>3. /\ ~LightingUnsafe(commit.twin)
      /\ \A r \in Present : Latest(r) => Follows(r.hop, hs[1])
      /\ Len(hs) = 2 => Follows(hs[1], hs[2])
      /\ Ends(hs[Len(hs)], commit.twin)
  BY <1>1, <1>2 DEF ChainInv
<1>4. Len(hs) \in Nat /\ Len(hs) <= 2 /\ Len(hs) # 0
  BY <1>1, <1>2 DEF TypeInv, TypeOK
<1>5. ~Idle'
  BY <1>2, CommitKinds DEF Idle
<1>6. row.seq = nextRecordSeq /\ row.hop = hs[1]
  BY <1>2 DEF Numbered
<1>7. Present' \subseteq Present \cup {row}
  BY PresentSteps
<1>8. nextRecordSeq \in Nat \ {0}
  BY DEF TypeInv, TypeOK
<1> HIDE DEF row
<1>9. \A r \in Present : r.seq \in Nat /\ r.seq < nextRecordSeq
  BY PresentType DEF ChainInv
<1>10. \A r \in Present' : r.seq < nextRecordSeq'
  BY <1>1, <1>6, <1>7, <1>8, <1>9
<1>11. \A r, q \in Present' : q.seq = r.seq + 1 => Follows(r.hop, q.hop)
  <2> SUFFICES ASSUME NEW r \in Present', NEW q \in Present', q.seq = r.seq + 1
               PROVE  Follows(r.hop, q.hop)
    OBVIOUS
  <2>1. CASE r \in Present /\ q \in Present
    BY <2>1 DEF ChainInv
  <2>2. CASE r \in Present /\ q = row
    <3>1. Latest(r)
      BY <1>6, <1>8, <1>9, <2>2 DEF Latest
    <3> QED BY <1>3, <1>6, <2>2, <3>1
  <2>3. r # row
    <3> SUFFICES ASSUME r = row PROVE FALSE
      OBVIOUS
    <3>1. r.seq = nextRecordSeq /\ q.seq = nextRecordSeq + 1
      BY <1>6
    <3>2. q.seq < nextRecordSeq + 1
      BY <1>1, <1>10
    <3> QED BY <1>8, <3>1, <3>2
  <2> QED BY <1>7, <2>1, <2>2, <2>3
<1>12. \A r \in Present' : Latest(r)' => r = row
  <2> SUFFICES ASSUME NEW r \in Present', r.seq = nextRecordSeq PROVE r = row
    BY <1>1, <1>8 DEF Latest
  <2> QED BY <1>7, <1>8, <1>9
<1>13. CASE Len(hs) = 1
  <2>1. Tail(hs) = << >>
    BY <1>1, <1>2, <1>4, <1>13, ShortTail
  <2>2. Ends(row.hop, commit.twin)
    BY <1>3, <1>6, <1>13
  <2>3. nextRecordSeq' # 1
    BY <1>1, <1>8
  <2> QED BY <1>1, <1>2, <1>3, <1>5, <1>10, <1>11, <1>12, <2>1, <2>2, <2>3 DEF ChainInv
<1>14. CASE Len(hs) = 2
  <2>1. Tail(hs) # << >> /\ Len(Tail(hs)) = 1 /\ Tail(hs)[1] = hs[2]
    BY <1>1, <1>2, <1>4, <1>14, ShortTail
  <2>2. Follows(row.hop, Tail(hs)[1]) /\ Ends(Tail(hs)[Len(Tail(hs))], commit.twin)
    BY <1>3, <1>6, <1>14, <2>1
  <2>3. nextRecordSeq' # 1
    BY <1>1, <1>8
  <2> QED BY <1>1, <1>2, <1>3, <1>5, <1>10, <1>11, <1>12, <2>1, <2>2, <2>3 DEF ChainInv
<1> QED BY <1>1, <1>2, <1>4, <1>13, <1>14, ShortTail

LEMMA ChainStep == TypeInv /\ ChainInv /\ [Next]_vars => ChainInv'
<1> SUFFICES ASSUME TypeInv, ChainInv, [Next]_vars PROVE ChainInv'
  OBVIOUS
<1>1. ASSUME NEW e \in Event, CommitResolvedTurn(e) PROVE ChainInv'
  BY <1>1, ChainCommit
<1>2. CASE TryEmitTransitionRecord
  BY <1>2, ChainEmit
<1>3. CASE ApplyStep
  <2>1. /\ ~Idle /\ commit.hops = << >> /\ twin' = commit.twin /\ Idle'
        /\ UNCHANGED <<nextRecordSeq, sink, printed>>
    BY <1>3 DEF ApplyStep, Idle, sinkVars
  <2>2. Present' = Present
    BY <2>1, PresentSteps
  <2> QED BY <2>1, <2>2 DEF ChainInv, Latest
<1>4. CASE PrintRow \/ ReaderEnds
  <2>1. /\ UNCHANGED <<twin, commit, nextRecordSeq>>
        /\ Present' \subseteq Present
    BY <1>4, PresentSteps DEF PrintRow, ReaderEnds
  <2>2. Idle' = Idle
    BY <2>1 DEF Idle
  <2> QED BY <2>1, <2>2 DEF ChainInv, Latest
<1>5. CASE GetStatus \/ UNCHANGED vars
  <2>1. UNCHANGED <<twin, commit, nextRecordSeq, sink, printed>>
    BY <1>5 DEF GetStatus, vars, sinkVars
  <2>2. Present' = Present /\ Idle' = Idle
    BY <2>1, PresentSteps DEF Idle
  <2> QED BY <2>1, <2>2 DEF ChainInv, Latest
<1> QED BY <1>1, <1>2, <1>3, <1>4, <1>5 DEF Next

\* The rows in their order are the rows as a set.
LEMMA RowsPresent == TypeInv => \A i \in 1..Len(Rows) : Rows[i] \in Present
<1> SUFFICES ASSUME TypeInv, NEW i \in 1..Len(Rows) PROVE Rows[i] \in Present
  OBVIOUS
<1>1. DOMAIN sink = 1..Len(sink) /\ Len(sink) \in Nat
  BY DEF TypeInv
<1>2. CASE printed = NoRow
  <2>1. Rows = sink
    BY <1>2 DEF Rows
  <2> QED BY <1>1, <2>1 DEF Present
<1>3. CASE printed # NoRow
  <2>1. /\ \A j \in 1..Len(Rows) : j > 1 => j - 1 \in 1..Len(sink) /\ Rows[j] = sink[j - 1]
        /\ Rows[1] = printed /\ Len(Rows) = Len(sink) + 1
    BY <1>3, RowsAre
  <2>2. CASE i = 1
    BY <1>3, <2>1, <2>2 DEF Present
  <2>3. CASE i # 1
    <3>1. i > 1
      BY <1>1, <2>1, <2>3
    <3> QED BY <1>1, <2>1, <3>1 DEF Present
  <2> QED BY <2>2, <2>3
<1> QED BY <1>2, <1>3

LEMMA RowsFromChain == TypeInv /\ ChainInv => RowsChain
<1> SUFFICES ASSUME TypeInv, ChainInv, NEW i \in 2..Len(Rows), Rows[i].seq = Rows[i - 1].seq + 1
             PROVE  Follows(Rows[i - 1].hop, Rows[i].hop)
  BY DEF RowsChain, Follows
<1>1. i \in 1..Len(Rows) /\ i - 1 \in 1..Len(Rows)
  <2>1. Len(Rows) \in Nat
    <3>1. \A k \in {0, 1} : Len(sink) + k \in Nat
      BY NumberTypes
    <3>2. \E k \in {0, 1} : Len(Rows) = Len(sink) + k
      BY RowsAre
    <3> QED BY <3>1, <3>2
  <2> QED BY <2>1
<1>2. Rows[i] \in Present /\ Rows[i - 1] \in Present
  BY <1>1, RowsPresent
<1> QED BY <1>2 DEF ChainInv

\* Two rows with consecutive numbers are consecutive hops of the twin, and the
\* internal hop follows exactly on a row that shows the unsafe cut.
THEOREM RowsCorrect == Spec => []RowsChain
<1>1. Init => TypeInv /\ ChainInv
  BY TypeInit, ChainInit
<1>2. TypeInv /\ ChainInv /\ [Next]_vars => (TypeInv /\ ChainInv)'
  BY TypeStep, ChainStep
<1> QED BY <1>1, <1>2, RowsFromChain, PTL DEF Spec
-----------------------------------------------------------------------------
(* The snapshot.                                                           *)

\* A snapshot bears the number of a row of the past, and if that row is still
\* there the snapshot shows what the row shows.
SnapshotInv ==
    snapshot # NoSnapshot =>
       /\ snapshot.asOf \in Nat
       /\ snapshot.asOf < nextRecordSeq
       /\ \A r \in Present : r.seq = snapshot.asOf =>
             /\ r.hop.next = snapshot.mode
             /\ r.hop.ctx = snapshot.ctx
       /\ snapshot.asOf = 0 =>
             /\ snapshot.mode = InitialTwin.mode
             /\ snapshot.ctx = PublishedCtx(InitialTwin)

\* It is a step of the brain between two turns that takes a snapshot: the
\* latest row ends with the twin then, and later rows have other numbers.
LEMMA SnapshotStep == TypeInv /\ ChainInv /\ SnapshotInv /\ [Next]_vars => SnapshotInv'
<1> SUFFICES ASSUME TypeInv, ChainInv, SnapshotInv, [Next]_vars PROVE SnapshotInv'
  OBVIOUS
<1>0. nextRecordSeq \in Nat \ {0}
  BY DEF TypeInv, TypeOK
<1>1. CASE GetStatus
  <2>1. /\ Idle /\ UNCHANGED <<nextRecordSeq, sink, printed>>
        /\ snapshot' = [asOf |-> nextRecordSeq - 1, mode |-> twin.mode, ctx |-> PublishedCtx(twin)]
    BY <1>1 DEF GetStatus, sinkVars
  <2>2. /\ snapshot'.asOf = nextRecordSeq - 1
        /\ snapshot'.mode = twin.mode
        /\ snapshot'.ctx = PublishedCtx(twin)
    BY <2>1
  <2>3. Present' = Present
    BY <2>1, PresentSteps
  <2>4. \A r \in Present : Latest(r) => Ends(r.hop, twin)
    BY <2>1 DEF ChainInv
  <2>5. snapshot'.asOf = 0 => twin = InitialTwin
    BY <1>0, <2>2 DEF ChainInv
  <2>6. snapshot'.asOf \in Nat /\ snapshot'.asOf < nextRecordSeq'
    BY <1>0, <2>1, <2>2
  <2> QED BY <2>2, <2>3, <2>4, <2>5, <2>6 DEF SnapshotInv, Latest, Ends
<1>2. CASE TryEmitTransitionRecord
  <2> DEFINE row == Numbered(Head(commit.hops), nextRecordSeq)
  <2>1. snapshot' = snapshot /\ nextRecordSeq' = nextRecordSeq + 1
    BY <1>2 DEF TryEmitTransitionRecord
  <2>2. Present' \subseteq Present \cup {row} /\ row.seq = nextRecordSeq
    BY <1>2, PresentSteps DEF Numbered
  <2> HIDE DEF row
  <2> SUFFICES ASSUME snapshot # NoSnapshot
               PROVE  /\ snapshot.asOf < nextRecordSeq'
                      /\ \A r \in Present' : r.seq = snapshot.asOf => r \in Present
    BY <2>1 DEF SnapshotInv
  <2>3. snapshot.asOf \in Nat /\ snapshot.asOf < nextRecordSeq
    BY DEF SnapshotInv
  <2>4. snapshot.asOf < nextRecordSeq'
    BY <1>0, <2>1, <2>3
  <2>5. snapshot.asOf # row.seq
    BY <1>0, <2>2, <2>3
  <2> QED BY <2>2, <2>4, <2>5
<1>3. CASE PrintRow \/ ReaderEnds
  <2>1. UNCHANGED <<snapshot, nextRecordSeq>> /\ Present' \subseteq Present
    BY <1>3, PresentSteps DEF PrintRow, ReaderEnds
  <2> QED BY <2>1 DEF SnapshotInv
<1>4. CASE UNCHANGED <<snapshot, nextRecordSeq, sink, printed>>
  <2>1. Present' = Present
    BY <1>4, PresentSteps
  <2> QED BY <1>4, <2>1 DEF SnapshotInv
<1>5. ASSUME NEW e \in Event, CommitResolvedTurn(e)
      PROVE  UNCHANGED <<snapshot, nextRecordSeq, sink, printed>>
  BY <1>5 DEF CommitResolvedTurn, sinkVars
<1>6. ApplyStep \/ UNCHANGED vars => UNCHANGED <<snapshot, nextRecordSeq, sink, printed>>
  BY DEF ApplyStep, vars, sinkVars
<1> QED BY <1>1, <1>2, <1>3, <1>4, <1>5, <1>6 DEF Next

LEMMA ReconcilesFromInv == TypeInv /\ SnapshotInv => SnapshotReconciles
<1> SUFFICES ASSUME TypeInv, SnapshotInv, snapshot # NoSnapshot
             PROVE  /\ \A i \in DOMAIN Rows : Rows[i].seq = snapshot.asOf =>
                         /\ Rows[i].hop.next = snapshot.mode
                         /\ Rows[i].hop.ctx = snapshot.ctx
                    /\ snapshot.asOf = 0 =>
                         /\ snapshot.mode = InitialTwin.mode
                         /\ snapshot.ctx = PublishedCtx(InitialTwin)
  BY DEF SnapshotReconciles
<1>1. \A i \in DOMAIN Rows : Rows[i] \in Present
  BY RowsAre, RowsPresent
<1> QED BY <1>1 DEF SnapshotInv

\* The row that bears the number of a snapshot shows the snapshot's mode and
\* context, whenever a reader comes to compare them.
THEOREM SnapshotCorrect == Spec => []SnapshotReconciles
<1>1. Init => TypeInv /\ ChainInv /\ SnapshotInv
  BY TypeInit, ChainInit DEF Init, SnapshotInv
<1>2. TypeInv /\ ChainInv /\ SnapshotInv /\ [Next]_vars => (TypeInv /\ ChainInv /\ SnapshotInv)'
  BY TypeStep, ChainStep, SnapshotStep
<1> QED BY <1>1, <1>2, ReconcilesFromInv, PTL DEF Spec
=============================================================================
