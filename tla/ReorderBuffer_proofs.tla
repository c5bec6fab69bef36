------------------------ MODULE ReorderBuffer_proofs ------------------------
(***************************************************************************)
(* Theorems about ReorderBuffer, for every set of zones, events and        *)
(* replies, every retry budget and every channel capacity.                 *)
(***************************************************************************)
EXTENDS ReorderBuffer, SequenceTheorems, TLAPS

-----------------------------------------------------------------------------
(* Types.  A retry stays within the budget because the attempts made and   *)
(* the retries left always add up to it.                                   *)

Budget == \A i \in DOMAIN queue : queue[i].attempt + queue[i].retries = MaxRetries

TypeInv == TypeOK /\ Budget

\* Replacing one element of a sequence.
LEMMA ReplaceOne ==
  ASSUME NEW S, NEW s \in Seq(S), NEW i \in DOMAIN s, NEW x \in S
  PROVE  /\ [s EXCEPT ![i] = x] \in Seq(S)
         /\ Len([s EXCEPT ![i] = x]) = Len(s)
         /\ \A j \in DOMAIN s : [s EXCEPT ![i] = x][j] = IF j = i THEN x ELSE s[j]
  BY ExceptSeq

\* A tell put into one zone's mailbox.
LEMMA DeliverType ==
  ASSUME NEW box \in [Zone -> Seq(ZoneTell)], NEW z \in Zone, NEW m \in ZoneTell
  PROVE  [box EXCEPT ![z] = Append(@, m)] \in [Zone -> Seq(ZoneTell)]
  <1>1. Append(box[z], m) \in Seq(ZoneTell)
    OBVIOUS
  <1> QED BY <1>1

\* A step that replaces one barrier by one within the budget.
LEMMA ReplaceBarrierType ==
  ASSUME TypeInv, NEW i \in DOMAIN queue, NEW b \in Barrier,
         b.attempt + b.retries = MaxRetries, queue' = [queue EXCEPT ![i] = b]
  PROVE  queue' \in Seq(Barrier) /\ Budget'
  <1>1. queue \in Seq(Barrier)
    BY DEF TypeInv, TypeOK
  <1>2. queue' \in Seq(Barrier) /\ DOMAIN queue' = DOMAIN queue
    BY <1>1, ReplaceOne
  <1>3. \A j \in DOMAIN queue : queue'[j] = IF j = i THEN b ELSE queue[j]
    BY <1>1, ReplaceOne
  <1> QED BY <1>2, <1>3 DEF TypeInv, Budget

\* A reply taken by a barrier (act_on_zone_reply) keeps types and budget.
LEMMA ActOnZoneReplyType ==
  ASSUME TypeInv, NEW i \in DOMAIN queue, NEW r \in Reply
  PROVE  LET b == ActOnZoneReply(queue[i], r)
         IN  b \in Barrier /\ b.attempt + b.retries = MaxRetries
  <1>1. queue[i] \in Barrier /\ queue[i].attempt + queue[i].retries = MaxRetries
    BY DEF TypeInv, TypeOK, Budget
  <1> QED BY <1>1 DEF ActOnZoneReply, Barrier

\* A retry that is due stays within the budget of attempts.
LEMMA RetriedType ==
  ASSUME NEW b \in Barrier, b.attempt + b.retries = MaxRetries, b.retries > 0
  PROVE  Retried(b) \in Barrier /\ Retried(b).attempt + Retried(b).retries = MaxRetries
  <1>1. b.attempt + 1 \in Attempt /\ b.retries - 1 \in Attempt
    BY BoundAssumption DEF Barrier, Attempt
  <1>2. /\ Retried(b).attempt = b.attempt + 1
        /\ Retried(b).retries = b.retries - 1
    BY DEF Retried, Barrier
  <1>3. Retried(b) \in Barrier
    BY <1>1 DEF Retried, Barrier
  <1> QED BY <1>1, <1>2, <1>3 DEF Attempt, Barrier

\* The actor's state before its first message is typed.
LEMMA InitType == Init => TypeInv
  BY BoundAssumption, DataAssumption DEF Init, TypeInv, TypeOK, Budget, Turn

\* A new barrier is typed and has its whole retry budget.
LEMMA NewBarrierType ==
  ASSUME NEW t \in Turn, NEW e \in Event, NEW tell \in Tell \cup {NoTell}
  PROVE  /\ NewBarrier(t, e, tell) \in Barrier
         /\ NewBarrier(t, e, tell).attempt + NewBarrier(t, e, tell).retries = MaxRetries
  BY BoundAssumption DEF NewBarrier, Barrier, Attempt, NoTimer

\* Opening a turn (begin_fsm_turn) keeps types and budget.
LEMMA OpenTurnType ==
  ASSUME TypeInv, NEW e \in Event, NEW tell \in Tell \cup {NoTell}, OpenTurn(e, tell)
  PROVE  /\ nextTurn' \in Turn
         /\ queue' \in Seq(Barrier)
         /\ Budget'
         /\ zoneBox' \in [Zone -> Seq(ZoneTell)]
         /\ timers' \subseteq Timer
  <1>1. nextTurn' \in Turn
    BY DEF TypeInv, TypeOK, OpenTurn, Turn
  <1>2. queue' \in Seq(Barrier) /\ Budget'
    <2> DEFINE b == NewBarrier(nextTurn, e, tell)
    <2>1. queue \in Seq(Barrier) /\ b \in Barrier /\ queue' = Append(queue, b)
      BY NewBarrierType DEF TypeInv, TypeOK, OpenTurn
    <2>2. b.attempt + b.retries = MaxRetries
      BY NewBarrierType DEF TypeInv, TypeOK
    <2>3. Budget
      BY DEF TypeInv
    <2> HIDE DEF b
    <2> QED BY <2>1, <2>2, <2>3 DEF Budget
  <1>3. zoneBox' \in [Zone -> Seq(ZoneTell)] /\ timers' \subseteq Timer
    <2>1. CASE tell = NoTell
      BY <2>1 DEF TypeInv, TypeOK, OpenTurn
    <2>2. CASE tell \in Tell /\ tell # NoTell
      <3> DEFINE m == [turn |-> nextTurn, attempt |-> 0, message |-> tell.message]
      <3>1. tell.zone \in Zone /\ 0 \in Attempt
        BY <2>2, BoundAssumption DEF Tell, Attempt
      <3>2. m \in ZoneTell
        BY <2>2, <3>1 DEF Tell, ZoneTell, TypeInv, TypeOK
      <3>3. [zone |-> tell.zone, turn |-> nextTurn, attempt |-> 0] \in Timer
        BY <3>1 DEF Timer, TypeInv, TypeOK
      <3>4. zoneBox \in [Zone -> Seq(ZoneTell)] /\ zoneBox' = [zoneBox EXCEPT ![tell.zone] = Append(@, m)]
        BY <2>2 DEF TypeInv, TypeOK, OpenTurn
      <3>5. zoneBox' \in [Zone -> Seq(ZoneTell)]
        <4> HIDE DEF m
        <4> QED BY <3>1, <3>2, <3>4, DeliverType
      <3>6. timers' \subseteq Timer
        BY <2>2, <3>3 DEF TypeInv, TypeOK, OpenTurn
      <3> QED BY <3>5, <3>6
    <2> QED BY <2>1, <2>2
  <1> QED BY <1>1, <1>2, <1>3

\* Taking a message from the mailbox keeps the mailbox typed.
LEMMA ReceiveType ==
  ASSUME TypeInv, NEW k \in {"Fsm", "ZoneReady", "Timeout", "Spontaneous"}, Receive(k)
  PROVE  /\ inbox' \in Seq(InboxMsg)
         /\ k = "Fsm" => Head(inbox) \in FsmMsg
         /\ k = "ZoneReady" => Head(inbox) \in ZoneReadyMsg
         /\ k = "Timeout" => Head(inbox) \in TimeoutMsg
         /\ k = "Spontaneous" => Head(inbox) \in SpontaneousMsg
  <1>1. Head(inbox) \in InboxMsg /\ Head(inbox).kind = k /\ inbox' \in Seq(InboxMsg)
    BY DEF TypeInv, TypeOK, Receive
  <1> QED BY <1>1 DEF InboxMsg, FsmMsg, ZoneReadyMsg, TimeoutMsg, SpontaneousMsg

\* Every step of the brain and of its surroundings keeps types and budget.
LEMMA NextType == TypeInv /\ [Next]_vars => TypeInv'
  <1> SUFFICES ASSUME TypeInv, [Next]_vars PROVE TypeInv'
    OBVIOUS
  <1>1. CASE HandleFsm
    <2> DEFINE e == Head(inbox).event
    <2>1. e \in Event /\ inbox' \in Seq(InboxMsg)
      BY <1>1, ReceiveType DEF HandleFsm, FsmMsg
    <2>2. Route(e, twin) \in Tell \cup {NoTell}
      BY <2>1, OperatorAssumption DEF TypeInv, TypeOK
    <2> QED BY <1>1, <2>1, <2>2, OpenTurnType DEF HandleFsm, TypeInv, TypeOK
  <1>2. CASE \E i \in DOMAIN queue : HandleZoneReady(i)
    <2> PICK i \in DOMAIN queue : HandleZoneReady(i)
      BY <1>2
    <2>1. Head(inbox).reply \in Reply /\ inbox' \in Seq(InboxMsg)
      BY ReceiveType DEF HandleZoneReady, ZoneReadyMsg
    <2>2. queue' \in Seq(Barrier) /\ Budget'
      BY <2>1, ActOnZoneReplyType, ReplaceBarrierType DEF HandleZoneReady
    <2> QED BY <2>1, <2>2 DEF HandleZoneReady, TypeInv, TypeOK
  <1>3. CASE DiscardZoneReady
    BY <1>3, ReceiveType DEF DiscardZoneReady, TypeInv, TypeOK, Budget
  <1>4. CASE \E i \in DOMAIN queue : HandleTimeoutRetry(i)
    <2> PICK i \in DOMAIN queue : HandleTimeoutRetry(i)
      BY <1>4
    <2> DEFINE b == queue[i]
    <2>1. b \in Barrier /\ b.attempt + b.retries = MaxRetries
      BY DEF TypeInv, TypeOK, Budget
    <2>2. b.tell \in Tell /\ b.retries > 0
      BY <2>1 DEF Barrier, HandleTimeoutRetry, Concerns, RetryDue
    <2>3. b.attempt + 1 \in Attempt /\ b.retries - 1 \in Attempt
      BY <2>1, <2>2, BoundAssumption DEF Barrier, Attempt
    <2>4. Retried(b) \in Barrier /\ Retried(b).attempt + Retried(b).retries = MaxRetries
      BY <2>1, <2>2, RetriedType
    <2>5. queue' \in Seq(Barrier) /\ Budget'
      BY <2>4, ReplaceBarrierType DEF HandleTimeoutRetry
    <2>6. [turn |-> b.turn, attempt |-> b.attempt + 1, message |-> b.tell.message] \in ZoneTell
      BY <2>1, <2>2, <2>3 DEF Barrier, Tell, ZoneTell
    <2>7. [zone |-> b.tell.zone, turn |-> b.turn, attempt |-> b.attempt + 1] \in Timer
      BY <2>1, <2>2, <2>3 DEF Barrier, Tell, Timer
    <2>8. timers' \subseteq Timer /\ zoneBox' \in [Zone -> Seq(ZoneTell)]
      BY <2>2, <2>6, <2>7 DEF HandleTimeoutRetry, TypeInv, TypeOK, Tell
    <2> QED BY <2>5, <2>8, ReceiveType DEF HandleTimeoutRetry, TypeInv, TypeOK
  <1>5. CASE \E i \in DOMAIN queue : HandleTimeoutGaveUp(i)
    <2> PICK i \in DOMAIN queue : HandleTimeoutGaveUp(i)
      BY <1>5
    <2>1. Head(inbox).zone \in Zone /\ inbox' \in Seq(InboxMsg)
      BY ReceiveType DEF HandleTimeoutGaveUp, TimeoutMsg
    <2>2. Synthetic(twin, Head(inbox).zone) \in Reply
      BY <2>1, OperatorAssumption DEF TypeInv, TypeOK
    <2>3. queue' \in Seq(Barrier) /\ Budget'
      BY <2>2, ActOnZoneReplyType, ReplaceBarrierType DEF HandleTimeoutGaveUp
    <2> QED BY <2>1, <2>3 DEF HandleTimeoutGaveUp, TypeInv, TypeOK
  <1>6. CASE DiscardTimeout
    BY <1>6, ReceiveType DEF DiscardTimeout, TypeInv, TypeOK, Budget
  <1>7. CASE HandleSpontaneous
    BY <1>7, ReceiveType, OperatorAssumption
       DEF HandleSpontaneous, TypeInv, TypeOK, Budget, SpontaneousMsg
  <1>8. CASE CommitFront
    <2> DEFINE b == Head(queue)
    <2>1. b \in Barrier /\ queue' \in Seq(Barrier) /\ Budget'
      BY <1>8 DEF CommitFront, TypeInv, TypeOK, Budget
    <2>2. twin' \in Twin /\ todo' \in Seq(Action)
      BY <1>8, <2>1, OperatorAssumption DEF CommitFront, TypeInv, TypeOK, Barrier
    <2>3. committed' \in Nat
      BY <1>8, <2>1 DEF CommitFront, Barrier, Turn
    <2> QED BY <1>8, <2>1, <2>2, <2>3 DEF CommitFront, TypeInv, TypeOK
  <1>9. CASE PerformOpen
    <2>1. Head(todo) \in Action /\ Head(todo).kind = "open" /\ todo' \in Seq(Action)
      BY <1>9 DEF PerformOpen, TypeInv, TypeOK
    <2>2. Head(todo).event \in Event /\ Head(todo).tell \in Tell
      BY <2>1 DEF Action, OpenAction, SendAction
    <2> QED BY <1>9, <2>1, <2>2, OpenTurnType DEF PerformOpen, TypeInv, TypeOK
  <1>10. CASE PerformSend
    <2>1. Head(todo) \in Action /\ Head(todo).kind = "send" /\ todo' \in Seq(Action)
      BY <1>10 DEF PerformSend, TypeInv, TypeOK
    <2>2. Head(todo).command \in Command
      BY <2>1 DEF Action, OpenAction, SendAction
    <2> QED BY <1>10, <2>1, <2>2 DEF PerformSend, TypeInv, TypeOK, Budget
  <1>11. CASE \E d \in timers : TimerFires(d)
    BY <1>11 DEF TimerFires, TypeInv, TypeOK, Budget, Timer, InboxMsg, TimeoutMsg
  <1>12. CASE ChannelReceive
    BY <1>12 DEF ChannelReceive, TypeInv, TypeOK, Budget
  <1>13. CASE \E e \in Ingress : Submit(e)
    BY <1>13, DataAssumption DEF Submit, TypeInv, TypeOK, Budget, InboxMsg, FsmMsg
  <1>14. CASE \E z \in Zone, r \in Reply : ZoneAnswers(z, r)
    <2> PICK z \in Zone, r \in Reply : ZoneAnswers(z, r)
      BY <1>14
    <2>1. Head(zoneBox[z]) \in ZoneTell /\ zoneBox' \in [Zone -> Seq(ZoneTell)]
      BY DEF ZoneAnswers, TypeInv, TypeOK
    <2>2. inbox' \in Seq(InboxMsg)
      BY <2>1 DEF ZoneAnswers, TypeInv, TypeOK, ZoneTell, InboxMsg, ZoneReadyMsg
    <2> QED BY <2>1, <2>2 DEF ZoneAnswers, TypeInv, TypeOK, Budget
  <1>15. CASE \E z \in Zone : ZoneSwallows(z)
    BY <1>15 DEF ZoneSwallows, TypeInv, TypeOK, Budget
  <1>16. CASE \E e \in SpontaneousEvent, r \in Reply : ZoneSpeaksUp(e, r)
    BY <1>16 DEF ZoneSpeaksUp, TypeInv, TypeOK, Budget, InboxMsg, SpontaneousMsg
  <1>17. CASE UNCHANGED vars
    BY <1>17 DEF vars, TypeInv, TypeOK, Budget
  <1> QED
    BY <1>1, <1>2, <1>3, <1>4, <1>5, <1>6, <1>7, <1>8, <1>9, <1>10, <1>11, <1>12,
       <1>13, <1>14, <1>15, <1>16, <1>17 DEF Next, Brain, Surroundings

\* The types of all variables, and with them the bounds on attempts and
\* retries, hold in every state whatever the order of replies and timeouts.
THEOREM TypeCorrect == Spec => []TypeOK
  <1>1. TypeInv => TypeOK
    BY DEF TypeInv
  <1> QED BY <1>1, InitType, NextType, PTL DEF Spec
-----------------------------------------------------------------------------
(* Turns are numbered in queue order, without gaps, from the last one      *)
(* committed; and a barrier that asked a zone is complete only with a      *)
(* reply.                                                                  *)

InOrder == /\ nextTurn = committed + Len(queue) + 1
           /\ \A i \in DOMAIN queue : queue[i].turn = committed + i

Answered == \A i \in DOMAIN queue :
               /\ queue[i].tell = NoTell => ~queue[i].pending /\ queue[i].reply = NoReply
               /\ queue[i].tell # NoTell /\ ~queue[i].pending => queue[i].reply \in Reply

OrderInv == InOrder /\ Answered

\* The empty queue is in order.
LEMMA InitOrder == Init => OrderInv
  BY DEF Init, OrderInv, InOrder, Answered

\* A turn opened at the back (begin_fsm_turn) keeps the queue in order.
LEMMA OpenTurnOrder ==
  ASSUME TypeInv, OrderInv, NEW e \in Event, NEW tell \in Tell \cup {NoTell},
         OpenTurn(e, tell), committed' = committed
  PROVE  OrderInv'
  <1> DEFINE b == NewBarrier(nextTurn, e, tell)
  <1>1. queue \in Seq(Barrier) /\ queue' = Append(queue, b) /\ nextTurn' = nextTurn + 1
    BY DEF TypeInv, TypeOK, OpenTurn
  <1>2. /\ b.turn = nextTurn
        /\ b.tell = NoTell => ~b.pending /\ b.reply = NoReply
        /\ b.tell # NoTell => b.pending
    BY DEF NewBarrier
  <1>3. nextTurn = committed + Len(queue) + 1 /\ committed \in Nat
    BY DEF OrderInv, InOrder, TypeInv, TypeOK
  <1> HIDE DEF b
  <1>4. InOrder'
    BY <1>1, <1>2, <1>3 DEF OrderInv, InOrder
  <1>5. Answered'
    BY <1>1, <1>2 DEF OrderInv, Answered
  <1> QED BY <1>4, <1>5 DEF OrderInv

\* Replacing a barrier by one of the same turn that is answered when complete.
LEMMA ReplaceBarrierOrder ==
  ASSUME TypeInv, OrderInv, NEW i \in DOMAIN queue, NEW b \in Barrier,
         b.turn = queue[i].turn,
         b.tell # NoTell, ~b.pending => b.reply \in Reply,
         queue' = [queue EXCEPT ![i] = b], UNCHANGED <<nextTurn, committed>>
  PROVE  OrderInv'
  <1>1. queue \in Seq(Barrier)
    BY DEF TypeInv, TypeOK
  <1>2. Len(queue') = Len(queue) /\ DOMAIN queue' = DOMAIN queue
    BY <1>1, ReplaceOne
  <1>3. \A j \in DOMAIN queue : queue'[j] = IF j = i THEN b ELSE queue[j]
    BY <1>1, ReplaceOne
  <1>4. InOrder'
    BY <1>2, <1>3 DEF OrderInv, InOrder
  <1>5. Answered'
    BY <1>2, <1>3 DEF OrderInv, Answered
  <1> QED BY <1>4, <1>5 DEF OrderInv

\* Every step keeps the turns of the queue consecutive from the last commit.
LEMMA NextOrder == TypeInv /\ OrderInv /\ [Next]_vars => OrderInv'
  <1> SUFFICES ASSUME TypeInv, OrderInv, [Next]_vars PROVE OrderInv'
    OBVIOUS
  <1> USE DEF OrderInv, InOrder, Answered
  <1>1. CASE HandleFsm
    <2>1. Head(inbox).event \in Event
      BY <1>1, ReceiveType DEF HandleFsm, FsmMsg
    <2>2. Route(Head(inbox).event, twin) \in Tell \cup {NoTell}
      BY <2>1, OperatorAssumption DEF TypeInv, TypeOK
    <2> QED BY <1>1, <2>1, <2>2, OpenTurnOrder DEF HandleFsm
  <1>2. CASE \E i \in DOMAIN queue : HandleZoneReady(i)
    <2> PICK i \in DOMAIN queue : HandleZoneReady(i)
      BY <1>2
    <2> DEFINE b == ActOnZoneReply(queue[i], Head(inbox).reply)
    <2>1. Head(inbox).reply \in Reply
      BY ReceiveType DEF HandleZoneReady, ZoneReadyMsg
    <2>2. b \in Barrier
      BY <2>1, ActOnZoneReplyType
    <2>3. b.turn = queue[i].turn /\ b.tell # NoTell /\ b.reply \in Reply
      BY <2>1, <2>2 DEF ActOnZoneReply, HandleZoneReady, Concerns, TypeInv, TypeOK, Barrier
    <2>4. queue' = [queue EXCEPT ![i] = b] /\ UNCHANGED <<nextTurn, committed>>
      BY DEF HandleZoneReady
    <2> HIDE DEF b
    <2> QED BY <2>2, <2>3, <2>4, ReplaceBarrierOrder
  <1>3. CASE DiscardZoneReady
    BY <1>3 DEF DiscardZoneReady
  <1>4. CASE \E i \in DOMAIN queue : HandleTimeoutRetry(i)
    <2> PICK i \in DOMAIN queue : HandleTimeoutRetry(i)
      BY <1>4
    <2> DEFINE b == Retried(queue[i])
    <2>1. queue[i] \in Barrier /\ queue[i].attempt + queue[i].retries = MaxRetries
      BY DEF TypeInv, TypeOK, Budget
    <2>2. queue[i].retries > 0 /\ queue[i].tell # NoTell
      BY DEF HandleTimeoutRetry, RetryDue, Concerns
    <2>3. b \in Barrier
      BY <2>1, <2>2, RetriedType
    <2>4. b.turn = queue[i].turn /\ b.tell # NoTell /\ (~b.pending => b.reply \in Reply)
      BY <2>1, <2>2 DEF Retried, Barrier
    <2>5. queue' = [queue EXCEPT ![i] = b] /\ UNCHANGED <<nextTurn, committed>>
      BY DEF HandleTimeoutRetry
    <2> HIDE DEF b
    <2> QED BY <2>3, <2>4, <2>5, ReplaceBarrierOrder
  <1>5. CASE \E i \in DOMAIN queue : HandleTimeoutGaveUp(i)
    <2> PICK i \in DOMAIN queue : HandleTimeoutGaveUp(i)
      BY <1>5
    <2> DEFINE r == Synthetic(twin, Head(inbox).zone)
               b == ActOnZoneReply(queue[i], r)
    <2>1. r \in Reply
      BY ReceiveType, OperatorAssumption DEF HandleTimeoutGaveUp, TimeoutMsg, TypeInv, TypeOK
    <2>2. b \in Barrier
      BY <2>1, ActOnZoneReplyType
    <2>3. b.turn = queue[i].turn /\ b.tell # NoTell /\ b.reply \in Reply
      BY <2>1, <2>2 DEF ActOnZoneReply, HandleTimeoutGaveUp, Concerns, TypeInv, TypeOK, Barrier
    <2>4. queue' = [queue EXCEPT ![i] = b] /\ UNCHANGED <<nextTurn, committed>>
      BY DEF HandleTimeoutGaveUp
    <2> HIDE DEF b
    <2> QED BY <2>2, <2>3, <2>4, ReplaceBarrierOrder
  <1>6. CASE DiscardTimeout
    BY <1>6 DEF DiscardTimeout
  <1>7. CASE HandleSpontaneous
    BY <1>7 DEF HandleSpontaneous
  <1>8. CASE CommitFront
    <2>1. queue \in Seq(Barrier) /\ queue # << >> /\ queue' = Tail(queue) /\ committed \in Nat
      BY <1>8 DEF CommitFront, TypeInv, TypeOK
    <2>2. committed' = committed + 1 /\ nextTurn' = nextTurn
      BY <1>8, <2>1 DEF CommitFront
    <2>3. \A i \in DOMAIN queue' : i + 1 \in DOMAIN queue /\ queue'[i] = queue[i + 1]
      BY <2>1
    <2>4. InOrder'
      BY <2>1, <2>2, <2>3
    <2>5. Answered'
      BY <2>3
    <2> QED BY <2>4, <2>5
  <1>9. CASE PerformOpen
    <2>1. Head(todo) \in Action /\ Head(todo).kind = "open"
      BY <1>9 DEF PerformOpen, TypeInv, TypeOK
    <2>2. Head(todo).event \in Event /\ Head(todo).tell \in Tell
      BY <2>1 DEF Action, OpenAction, SendAction
    <2> QED BY <1>9, <2>2, OpenTurnOrder DEF PerformOpen
  <1>10. CASE PerformSend
    BY <1>10 DEF PerformSend
  <1>11. CASE Surroundings
    BY <1>11 DEF Surroundings, TimerFires, ChannelReceive, Submit, ZoneAnswers, ZoneSwallows,
                 ZoneSpeaksUp
  <1>12. CASE UNCHANGED vars
    BY <1>12 DEF vars
  <1> QED
    BY <1>1, <1>2, <1>3, <1>4, <1>5, <1>6, <1>7, <1>8, <1>9, <1>10, <1>11, <1>12
       DEF Next, Brain

\* Types and order hold in every reachable state.
LEMMA OrderCorrect == Spec => [](TypeInv /\ OrderInv)
  BY InitType, InitOrder, NextType, NextOrder, PTL DEF Spec

-----------------------------------------------------------------------------
(* The reorder buffer implements SequentialTwin.                           *)

Backlog == [i \in DOMAIN queue |-> [turn  |-> queue[i].turn,
                                    event |-> queue[i].event,
                                    asks  |-> queue[i].tell # NoTell]]

\* A turn opened on the queue is opened on the backlog.
LEMMA OpenTurnRefines ==
  ASSUME TypeInv, OrderInv, NEW e \in Event, NEW tell \in Tell \cup {NoTell},
         OpenTurn(e, tell), UNCHANGED <<twin, committed>>
  PROVE  Sequential!Next
  <1> DEFINE b == NewBarrier(nextTurn, e, tell)
             x == [turn |-> nextTurn, event |-> e, asks |-> tell # NoTell]
  <1>1. queue \in Seq(Barrier) /\ queue' = Append(queue, b)
    BY DEF TypeInv, TypeOK, OpenTurn
  <1>2. [turn |-> b.turn, event |-> b.event, asks |-> b.tell # NoTell] = x
    BY DEF NewBarrier
  <1>3. nextTurn = committed + Len(Backlog) + 1
    BY <1>1 DEF OrderInv, InOrder, Backlog
  <1> HIDE DEF b
  <1>4. Backlog' = Append(Backlog, x)
    <2>1. DOMAIN queue' = 1..(Len(queue) + 1) /\ DOMAIN Backlog = 1..Len(queue)
      BY <1>1 DEF Backlog
    <2>2. Backlog \in Seq({Backlog[i] : i \in DOMAIN Backlog}) /\ Len(Backlog) = Len(queue)
      BY <1>1 DEF Backlog
    <2> QED BY <1>1, <1>2, <2>1, <2>2 DEF Backlog
  <1>5. Sequential!Open(e, tell # NoTell)
    BY <1>3, <1>4 DEF Sequential!Open, Backlog
  <1> QED BY <1>5 DEF Sequential!Next


\* A change to a barrier's wait or reply is not visible in the backlog.
LEMMA ReplaceBarrierRefines ==
  ASSUME TypeInv, NEW i \in DOMAIN queue, NEW b \in Barrier,
         b.turn = queue[i].turn, b.event = queue[i].event, b.tell = queue[i].tell,
         queue' = [queue EXCEPT ![i] = b]
  PROVE  Backlog' = Backlog
  <1>1. queue \in Seq(Barrier)
    BY DEF TypeInv, TypeOK
  <1>2. DOMAIN queue' = DOMAIN queue
    BY <1>1, ReplaceOne
  <1>3. \A j \in DOMAIN queue : queue'[j] = IF j = i THEN b ELSE queue[j]
    BY <1>1, ReplaceOne
  <1> QED BY <1>2, <1>3 DEF Backlog

\* One round of the drain loop is CommitOldest of the sequential twin.
LEMMA CommitFrontRefines ==
  ASSUME TypeInv, OrderInv, CommitFront
  PROVE  Sequential!CommitOldest
  <1>1. /\ queue \in Seq(Barrier) /\ queue # << >> /\ queue' = Tail(queue)
        /\ Head(queue) \in Barrier /\ ~Head(queue).pending
    BY DEF TypeInv, TypeOK, CommitFront, IsComplete
  <1>2. Backlog # << >> /\ Head(Backlog) = [turn  |-> Head(queue).turn,
                                            event |-> Head(queue).event,
                                            asks  |-> Head(queue).tell # NoTell]
    BY <1>1 DEF Backlog
  <1>3. Backlog' = Tail(Backlog)
    <2>1. /\ Backlog \in Seq({Backlog[i] : i \in DOMAIN Backlog}) /\ Len(Backlog) = Len(queue)
          /\ DOMAIN Backlog = 1..Len(queue)
      BY <1>1 DEF Backlog
    <2>2. DOMAIN queue' = 1..(Len(queue) - 1) /\ \A i \in DOMAIN queue' : queue'[i] = queue[i + 1]
      BY <1>1
    <2> QED BY <1>1, <2>1, <2>2 DEF Backlog
  <1>4. Head(queue).reply \in IF Head(Backlog).asks THEN Reply ELSE {NoReply}
    <2>1. 1 \in DOMAIN queue /\ Head(queue) = queue[1]
      BY <1>1
    <2>2. IF queue[1].tell # NoTell THEN queue[1].reply \in Reply ELSE queue[1].reply = NoReply
      BY <1>1, <2>1 DEF OrderInv, Answered
    <2>3. Head(Backlog).asks = (queue[1].tell # NoTell)
      BY <1>2, <2>1
    <2>4. CASE queue[1].tell # NoTell
      BY <2>1, <2>2, <2>3, <2>4
    <2>5. CASE queue[1].tell = NoTell
      BY <2>1, <2>2, <2>3, <2>5
    <2> QED BY <2>4, <2>5
  <1>5. twin' = CommitTurn(twin, Head(Backlog).event, Head(queue).reply)
        /\ committed' = Head(Backlog).turn
    BY <1>2 DEF CommitFront
  <1> QED BY <1>2, <1>3, <1>4, <1>5 DEF Sequential!CommitOldest, Backlog

\* Every step is a step of the sequential twin or leaves it as it is.
LEMMA NextRefines ==
  ASSUME TypeInv, OrderInv, [Next]_vars
  PROVE  [Sequential!Next]_(Sequential!vars)
  <1>0. UNCHANGED <<twin, Backlog, committed>> => UNCHANGED Sequential!vars
    BY DEF Sequential!vars, Backlog
  <1>1. CASE HandleFsm
    <2>1. Head(inbox).event \in Event
      BY <1>1, ReceiveType DEF HandleFsm, FsmMsg
    <2>2. Route(Head(inbox).event, twin) \in Tell \cup {NoTell}
      BY <2>1, OperatorAssumption DEF TypeInv, TypeOK
    <2> QED BY <1>1, <2>1, <2>2, OpenTurnRefines DEF HandleFsm
  <1>2. CASE \E i \in DOMAIN queue : HandleZoneReady(i)
    <2> PICK i \in DOMAIN queue : HandleZoneReady(i)
      BY <1>2
    <2> DEFINE b == ActOnZoneReply(queue[i], Head(inbox).reply)
    <2>1. b \in Barrier
      BY ReceiveType, ActOnZoneReplyType DEF HandleZoneReady, ZoneReadyMsg
    <2>2. b.turn = queue[i].turn /\ b.event = queue[i].event /\ b.tell = queue[i].tell
      BY DEF ActOnZoneReply, TypeInv, TypeOK, Barrier
    <2>3. queue' = [queue EXCEPT ![i] = b] /\ UNCHANGED <<twin, committed>>
      BY DEF HandleZoneReady
    <2> HIDE DEF b
    <2> QED BY <1>0, <2>1, <2>2, <2>3, ReplaceBarrierRefines
  <1>3. CASE DiscardZoneReady
    BY <1>0, <1>3 DEF DiscardZoneReady, Backlog
  <1>4. CASE \E i \in DOMAIN queue : HandleTimeoutRetry(i)
    <2> PICK i \in DOMAIN queue : HandleTimeoutRetry(i)
      BY <1>4
    <2> DEFINE b == Retried(queue[i])
    <2>1. queue[i] \in Barrier /\ queue[i].attempt + queue[i].retries = MaxRetries
      BY DEF TypeInv, TypeOK, Budget
    <2>2. b \in Barrier
      BY <2>1, RetriedType DEF HandleTimeoutRetry, RetryDue
    <2>3. b.turn = queue[i].turn /\ b.event = queue[i].event /\ b.tell = queue[i].tell
      BY <2>1 DEF Retried, Barrier
    <2>4. queue' = [queue EXCEPT ![i] = b] /\ UNCHANGED <<twin, committed>>
      BY DEF HandleTimeoutRetry
    <2> HIDE DEF b
    <2> QED BY <1>0, <2>2, <2>3, <2>4, ReplaceBarrierRefines
  <1>5. CASE \E i \in DOMAIN queue : HandleTimeoutGaveUp(i)
    <2> PICK i \in DOMAIN queue : HandleTimeoutGaveUp(i)
      BY <1>5
    <2> DEFINE r == Synthetic(twin, Head(inbox).zone)
               b == ActOnZoneReply(queue[i], r)
    <2>1. r \in Reply
      BY ReceiveType, OperatorAssumption DEF HandleTimeoutGaveUp, TimeoutMsg, TypeInv, TypeOK
    <2>2. b \in Barrier
      BY <2>1, ActOnZoneReplyType
    <2>3. b.turn = queue[i].turn /\ b.event = queue[i].event /\ b.tell = queue[i].tell
      BY DEF ActOnZoneReply, TypeInv, TypeOK, Barrier
    <2>4. queue' = [queue EXCEPT ![i] = b] /\ UNCHANGED <<twin, committed>>
      BY DEF HandleTimeoutGaveUp
    <2> HIDE DEF b
    <2> QED BY <1>0, <2>2, <2>3, <2>4, ReplaceBarrierRefines
  <1>6. CASE DiscardTimeout
    BY <1>0, <1>6 DEF DiscardTimeout, Backlog
  <1>7. CASE HandleSpontaneous
    <2>1. Head(inbox).event \in SpontaneousEvent /\ Head(inbox).reply \in Reply
      BY <1>7, ReceiveType DEF HandleSpontaneous, SpontaneousMsg
    <2>2. Sequential!CommitSpontaneous
      BY <1>7, <2>1 DEF HandleSpontaneous, Sequential!CommitSpontaneous
    <2> QED BY <2>2 DEF Sequential!Next
  <1>8. CASE CommitFront
    BY <1>8, CommitFrontRefines DEF Sequential!Next
  <1>9. CASE PerformOpen
    <2>1. Head(todo) \in Action /\ Head(todo).kind = "open"
      BY <1>9 DEF PerformOpen, TypeInv, TypeOK
    <2>2. Head(todo).event \in Event /\ Head(todo).tell \in Tell
      BY <2>1 DEF Action, OpenAction, SendAction
    <2> QED BY <1>9, <2>2, OpenTurnRefines DEF PerformOpen
  <1>10. CASE PerformSend
    BY <1>0, <1>10 DEF PerformSend, Backlog
  <1>11. CASE Surroundings
    BY <1>0, <1>11 DEF Surroundings, TimerFires, ChannelReceive, Submit, ZoneAnswers, ZoneSwallows,
                       ZoneSpeaksUp, Backlog
  <1>12. CASE UNCHANGED vars
    BY <1>0, <1>12 DEF vars, Backlog
  <1> QED
    BY <1>1, <1>2, <1>3, <1>4, <1>5, <1>6, <1>7, <1>8, <1>9, <1>10, <1>11, <1>12
       DEF Next, Brain

\* Whatever the zones do, the brain behaves as a twin that commits its turns
\* one at a time in the order in which they were opened, each exactly once,
\* and never commits a turn that asked a zone without a reply.
THEOREM Refinement == Spec => ImplementsSequentialTwin
  <1>1. Init => Sequential!Init
    BY DEF Init, Sequential!Init
  <1> QED
    BY <1>1, OrderCorrect, NextRefines, PTL DEF Spec, ImplementsSequentialTwin, Sequential!Spec

-----------------------------------------------------------------------------
(* Deadlines.  Every deadline, armed or expired, belongs to a turn that    *)
(* was opened, to which it is the only one; if that turn is still queued   *)
(* it is the deadline of its present attempt; and a pending barrier has    *)
(* one.  All of these are needed at once: a timeout may use up a deadline  *)
(* because it is the only one, and a retry may arm the next one because    *)
(* there is no other.                                                      *)

DeadlineOpened ==
    /\ \A d \in timers : d.turn < nextTurn
    /\ \A k \in DOMAIN inbox : inbox[k].kind = "Timeout" => inbox[k].turn < nextTurn

DeadlineInv == NoOrphanBarrier /\ DeadlineIsCurrent /\ OneDeadline /\ DeadlineOpened

\* No two queued barriers have the same turn, and none has a turn to come.
LEMMA DistinctTurns ==
  ASSUME TypeInv, OrderInv
  PROVE  /\ \A i, j \in DOMAIN queue : queue[i].turn = queue[j].turn => i = j
         /\ \A i \in DOMAIN queue : queue[i].turn < nextTurn
  BY DEF TypeInv, TypeOK, OrderInv, InOrder

\* What a message taken from the mailbox leaves, and one put into it adds.
LEMMA TakeMessage ==
  ASSUME TypeInv, NEW k, Receive(k)
  PROVE  /\ \A i \in DOMAIN inbox' :
               i \in Int /\ i + 1 \in DOMAIN inbox /\ inbox'[i] = inbox[i + 1]
         /\ \A i \in DOMAIN inbox : i # 1 => i - 1 \in DOMAIN inbox' /\ inbox'[i - 1] = inbox[i]
         /\ 1 \in DOMAIN inbox /\ Head(inbox) = inbox[1]
  BY DEF TypeInv, TypeOK, Receive

\* A message appended to the mailbox is its last, and the others stay.
LEMMA AddMessage ==
  ASSUME TypeInv, NEW m \in InboxMsg, inbox' = Append(inbox, m)
  PROVE  /\ DOMAIN inbox' = DOMAIN inbox \cup {Len(inbox) + 1} /\ Len(inbox) + 1 \notin DOMAIN inbox
         /\ \A i \in DOMAIN inbox : inbox'[i] = inbox[i]
         /\ inbox'[Len(inbox) + 1] = m
  BY DEF TypeInv, TypeOK

\* A timeout message in the mailbox has a zone, a turn and an attempt.
LEMMA TimeoutType ==
  ASSUME TypeInv
  PROVE  \A k \in DOMAIN inbox : inbox[k].kind = "Timeout" =>
            inbox[k] \in TimeoutMsg /\ inbox[k].turn \in Nat /\ inbox[k].attempt \in Nat
  <1> SUFFICES ASSUME NEW k \in DOMAIN inbox, inbox[k].kind = "Timeout"
               PROVE  inbox[k] \in TimeoutMsg /\ inbox[k].turn \in Nat /\ inbox[k].attempt \in Nat
    OBVIOUS
  <1>1. inbox[k] \in InboxMsg
    BY DEF TypeInv, TypeOK
  <1>2. inbox[k] \in TimeoutMsg
    BY <1>1 DEF InboxMsg, FsmMsg, ZoneReadyMsg, TimeoutMsg, SpontaneousMsg
  <1> QED BY <1>2, BoundAssumption DEF TimeoutMsg, Turn, Attempt

\* An expired deadline stays in the mailbox while its message is not taken.
LEMMA ExpiredKept ==
  ASSUME TypeInv, NEW b, DeadlineExpired(b), NEW k, Receive(k),
         ~(/\ Head(inbox).kind = "Timeout"
           /\ Head(inbox).zone = b.tell.zone
           /\ Head(inbox).turn = b.turn
           /\ Head(inbox).attempt = b.attempt)
  PROVE  \E l \in DOMAIN inbox' : inbox'[l] = [kind |-> "Timeout", zone |-> b.tell.zone,
                                             turn |-> b.turn, attempt |-> b.attempt]
  <1> DEFINE m == [kind |-> "Timeout", zone |-> b.tell.zone, turn |-> b.turn, attempt |-> b.attempt]
  <1>1. PICK j \in DOMAIN inbox : inbox[j] = m
    BY DEF DeadlineExpired
  <1>2. j # 1
    BY <1>1, TakeMessage
  <1> HIDE DEF m
  <1>3. j - 1 \in DOMAIN inbox' /\ inbox'[j - 1] = m
    BY <1>1, <1>2, TakeMessage
  <1> QED BY <1>3 DEF m

\* Steps that leave the barriers and the timers alone, and take from the
\* mailbox or put into it a message that is not a timeout.
LEMMA OtherMessageDeadline ==
  ASSUME TypeInv, DeadlineInv, UNCHANGED <<queue, timers, nextTurn>>,
         \/ \E k \in {"Fsm", "ZoneReady", "Spontaneous"} : Receive(k)
         \/ \E m \in InboxMsg : m.kind # "Timeout" /\ inbox' = Append(inbox, m)
         \/ inbox' = inbox
  PROVE  DeadlineInv'
  <1> USE DEF DeadlineInv
  <1>1. CASE \E k \in {"Fsm", "ZoneReady", "Spontaneous"} : Receive(k)
    <2> PICK k \in {"Fsm", "ZoneReady", "Spontaneous"} : Receive(k)
      BY <1>1
    <2>1. NoOrphanBarrier'
      <3> SUFFICES ASSUME NEW i \in DOMAIN queue, queue[i].pending
                   PROVE  DeadlineArmed(queue[i])' \/ DeadlineExpired(queue[i])'
        BY DEF NoOrphanBarrier
      <3>1. CASE DeadlineArmed(queue[i])
        BY <3>1 DEF DeadlineArmed
      <3>2. CASE DeadlineExpired(queue[i])
        BY <3>2, ExpiredKept DEF Receive, DeadlineExpired
      <3> QED BY <3>1, <3>2 DEF NoOrphanBarrier
    <2>2. DeadlineIsCurrent'
      BY TakeMessage DEF DeadlineIsCurrent
    <2>3. OneDeadline' /\ DeadlineOpened'
      BY TakeMessage DEF OneDeadline, DeadlineOpened
    <2> QED BY <2>1, <2>2, <2>3
  <1>2. CASE \E m \in InboxMsg : m.kind # "Timeout" /\ inbox' = Append(inbox, m)
    <2> PICK m \in InboxMsg : m.kind # "Timeout" /\ inbox' = Append(inbox, m)
      BY <1>2
    <2>1. NoOrphanBarrier'
      BY AddMessage DEF NoOrphanBarrier, DeadlineArmed, DeadlineExpired
    <2>2. DeadlineIsCurrent'
      BY AddMessage DEF DeadlineIsCurrent
    <2>3. OneDeadline' /\ DeadlineOpened'
      BY AddMessage DEF OneDeadline, DeadlineOpened
    <2> QED BY <2>1, <2>2, <2>3
  <1>3. CASE inbox' = inbox
    BY <1>3 DEF NoOrphanBarrier, DeadlineArmed, DeadlineExpired, DeadlineIsCurrent, OneDeadline,
                DeadlineOpened
  <1> QED BY <1>1, <1>2, <1>3

\* A turn that asks a zone gets a fresh number and one fresh deadline.
LEMMA OpenTurnDeadline ==
  ASSUME TypeInv, OrderInv, DeadlineInv, NEW e \in Event, NEW tell \in Tell \cup {NoTell},
         OpenTurn(e, tell), inbox' = inbox \/ Receive("Fsm")
  PROVE  DeadlineInv'
  <1> DEFINE b == NewBarrier(nextTurn, e, tell)
             d == [zone |-> tell.zone, turn |-> nextTurn, attempt |-> 0]
  <1>1. queue \in Seq(Barrier) /\ queue' = Append(queue, b) /\ nextTurn' = nextTurn + 1
    BY DEF OpenTurn, TypeInv, TypeOK
  <1>2. /\ b.turn = nextTurn /\ b.tell = tell /\ b.attempt = 0
        /\ b.pending = (tell # NoTell)
    BY DEF NewBarrier
  <1>3. timers' = IF tell = NoTell THEN timers ELSE timers \cup {d}
    BY DEF OpenTurn
  <1>4. /\ d.zone = tell.zone /\ d.turn = nextTurn /\ d.attempt = 0
        /\ nextTurn \in Nat
    BY DEF TypeInv, TypeOK, Turn
  <1>5. /\ DOMAIN queue' = DOMAIN queue \cup {Len(queue) + 1}
        /\ Len(queue) + 1 \notin DOMAIN queue
        /\ \A i \in DOMAIN queue : queue'[i] = queue[i]
        /\ queue'[Len(queue) + 1] = b
    BY <1>1
  <1>a. PICK s \in {0, 1} : \A k \in DOMAIN inbox' :
                             k \in Int /\ k + s \in DOMAIN inbox /\ inbox'[k] = inbox[k + s]
    <2>1. CASE inbox' = inbox
      BY <2>1 DEF TypeInv, TypeOK
    <2>2. CASE Receive("Fsm")
      BY <2>2, TakeMessage
    <2> QED BY <2>1, <2>2
  <1>b. ASSUME NEW i \in DOMAIN queue, DeadlineExpired(queue[i])
        PROVE  DeadlineExpired(queue[i])'
    <2>1. CASE inbox' = inbox
      BY <1>5, <1>b, <2>1 DEF DeadlineExpired
    <2>2. CASE Receive("Fsm")
      <3>1. Head(inbox).kind # "Timeout"
        BY <2>2 DEF Receive
      <3> QED BY <1>5, <1>b, <2>2, <3>1, ExpiredKept DEF DeadlineExpired
    <2> QED BY <2>1, <2>2
  <1>6. NoOrphanBarrier'
    <2> SUFFICES ASSUME NEW i \in DOMAIN queue', queue'[i].pending
                 PROVE  DeadlineArmed(queue[i])' \/ DeadlineExpired(queue[i])'
      BY DEF NoOrphanBarrier
    <2>1. CASE i \in DOMAIN queue
      BY <1>3, <1>5, <1>b, <2>1 DEF DeadlineInv, NoOrphanBarrier, DeadlineArmed
    <2>2. CASE i = Len(queue) + 1
      BY <1>2, <1>3, <1>5, <2>2 DEF DeadlineArmed
    <2> QED BY <1>5, <2>1, <2>2
  <1> HIDE DEF b, d
  <1>7. DeadlineOpened'
    <2>1. \A c \in timers : c.turn \in Nat
      BY DEF TypeInv, TypeOK, Timer, Turn
    <2>2. \A c \in timers' : c.turn < nextTurn'
      BY <1>1, <1>3, <1>4, <2>1 DEF DeadlineInv, DeadlineOpened
    <2>3. \A k \in DOMAIN inbox : inbox[k].kind = "Timeout" => inbox[k].turn < nextTurn'
      BY <1>1, <1>4, TimeoutType DEF DeadlineInv, DeadlineOpened
    <2>4. \A k \in DOMAIN inbox' : inbox'[k].kind = "Timeout" => inbox'[k].turn < nextTurn'
      BY <1>a, <2>3
    <2> QED BY <2>2, <2>4 DEF DeadlineOpened
  <1>8. OneDeadline'
    BY <1>3, <1>4, <1>a DEF DeadlineInv, DeadlineOpened, OneDeadline
  <1>9. DeadlineIsCurrent'
    <2> SUFFICES ASSUME NEW i \in DOMAIN queue'
                 PROVE  /\ \A c \in timers' : Concerns(c, queue'[i]) => TellAttemptMatches(queue'[i], c)
                        /\ \A k \in DOMAIN inbox' :
                              inbox'[k].kind = "Timeout" /\ Concerns(inbox'[k], queue'[i])
                                 => TellAttemptMatches(queue'[i], inbox'[k])
      BY DEF DeadlineIsCurrent
    <2>1. CASE i \in DOMAIN queue
      BY <1>3, <1>4, <1>5, <1>a, <2>1, DistinctTurns DEF DeadlineInv, DeadlineIsCurrent, Concerns
    <2>2. CASE i = Len(queue) + 1
      BY <1>2, <1>3, <1>4, <1>5, <1>a, <2>2
         DEF DeadlineInv, DeadlineOpened, Concerns, TellAttemptMatches
    <2> QED BY <1>5, <2>1, <2>2
  <1> QED BY <1>6, <1>7, <1>8, <1>9 DEF DeadlineInv

\* A reply leaves a barrier that waits for nothing: it needs no deadline.
LEMMA ZoneReadyDeadline ==
  ASSUME TypeInv, OrderInv, DeadlineInv, NEW i \in DOMAIN queue, HandleZoneReady(i)
  PROVE  DeadlineInv'
  <1> DEFINE b == ActOnZoneReply(queue[i], Head(inbox).reply)
  <1>1. /\ queue \in Seq(Barrier) /\ queue[i] \in Barrier
        /\ nextTurn' = nextTurn /\ timers' = timers \ {HeldTimer(queue[i])}
        /\ Receive("ZoneReady")
    BY DEF HandleZoneReady, TypeInv, TypeOK
  <1>2. b \in Barrier
    BY ReceiveType, ActOnZoneReplyType DEF HandleZoneReady, ZoneReadyMsg
  <1>3. /\ ~b.pending /\ b.turn = queue[i].turn /\ b.tell = queue[i].tell
        /\ b.attempt = queue[i].attempt
    BY <1>1 DEF ActOnZoneReply, Barrier
  <1>4. queue' = [queue EXCEPT ![i] = b]
    BY DEF HandleZoneReady
  <1>5. /\ DOMAIN queue' = DOMAIN queue
        /\ \A j \in DOMAIN queue : queue'[j] = IF j = i THEN b ELSE queue[j]
    <2> HIDE DEF b
    <2> QED BY <1>1, <1>2, <1>4, ReplaceOne
  <1> HIDE DEF b
  <1>6. NoOrphanBarrier'
    <2> SUFFICES ASSUME NEW j \in DOMAIN queue, j # i, queue[j].pending
                 PROVE  DeadlineArmed(queue[j])' \/ DeadlineExpired(queue[j])'
      BY <1>3, <1>5 DEF NoOrphanBarrier, DeadlineArmed, DeadlineExpired
    <2>1. CASE DeadlineArmed(queue[j])
      BY <1>1, <1>5, <2>1, DistinctTurns DEF DeadlineArmed, HeldTimer
    <2>2. CASE DeadlineExpired(queue[j])
      <3>1. Receive("ZoneReady") /\ Head(inbox).kind # "Timeout"
        BY <1>1 DEF Receive
      <3>2. queue'[j] = queue[j]
        BY <1>5
      <3> QED BY <2>2, <3>1, <3>2, ExpiredKept DEF DeadlineExpired
    <2> QED BY <2>1, <2>2 DEF DeadlineInv, NoOrphanBarrier
  <1>7. DeadlineIsCurrent'
    BY <1>1, <1>3, <1>5, TakeMessage DEF DeadlineInv, DeadlineIsCurrent, Concerns, TellAttemptMatches
  <1>8. OneDeadline' /\ DeadlineOpened'
    BY <1>1, TakeMessage DEF DeadlineInv, OneDeadline, DeadlineOpened
  <1> QED BY <1>6, <1>7, <1>8 DEF DeadlineInv


\* A timeout uses up its deadline: it was the only one of its turn.
LEMMA TimeoutUsesUp ==
  ASSUME TypeInv, OrderInv, DeadlineInv, Receive("Timeout")
  PROVE  /\ \A d \in timers : d.turn # Head(inbox).turn
         /\ \A k \in DOMAIN inbox' :
               inbox'[k].kind = "Timeout" => inbox'[k].turn # Head(inbox).turn
  <1>1. \A d \in timers : d.turn # Head(inbox).turn
    BY TakeMessage DEF DeadlineInv, OneDeadline, Receive
  <1>2. ASSUME NEW k \in DOMAIN inbox', inbox'[k].kind = "Timeout"
        PROVE  inbox'[k].turn # Head(inbox).turn
    <2>1. k + 1 \in DOMAIN inbox /\ inbox'[k] = inbox[k + 1] /\ k + 1 # 1
      BY TakeMessage DEF TypeInv, TypeOK, Receive
    <2> QED BY <1>2, <2>1, TakeMessage DEF DeadlineInv, OneDeadline, Receive
  <1> QED BY <1>1, <1>2

\* ... and it concerns a queued turn with its present attempt.
LEMMA TimeoutMatches ==
  ASSUME TypeInv, DeadlineInv, Receive("Timeout"), NEW i \in DOMAIN queue,
         Concerns(Head(inbox), queue[i])
  PROVE  TellAttemptMatches(queue[i], Head(inbox))
  BY TakeMessage DEF DeadlineInv, DeadlineIsCurrent, Receive

\* A retry arms the deadline of the new attempt as it uses up the old one.
LEMMA TimeoutRetryDeadline ==
  ASSUME TypeInv, OrderInv, DeadlineInv, NEW i \in DOMAIN queue, HandleTimeoutRetry(i)
  PROVE  DeadlineInv'
  <1> DEFINE b == Retried(queue[i])
             d == [zone |-> queue[i].tell.zone, turn |-> queue[i].turn,
                   attempt |-> queue[i].attempt + 1]
  <1>1. /\ queue \in Seq(Barrier) /\ queue[i] \in Barrier
        /\ nextTurn' = nextTurn /\ timers' = timers \cup {d}
        /\ Receive("Timeout") /\ Head(inbox).turn = queue[i].turn
    BY DEF HandleTimeoutRetry, TypeInv, TypeOK, Concerns
  <1>2. b \in Barrier
    BY RetriedType DEF HandleTimeoutRetry, RetryDue, TypeInv, TypeOK, Budget
  <1>3. /\ b.turn = queue[i].turn /\ b.tell = queue[i].tell
        /\ b.attempt = queue[i].attempt + 1
    BY <1>1 DEF Retried, Barrier
  <1>4. /\ d.turn = queue[i].turn /\ d.zone = queue[i].tell.zone
        /\ d.attempt = queue[i].attempt + 1
        /\ d = [zone |-> b.tell.zone, turn |-> b.turn, attempt |-> b.attempt]
    BY <1>3
  <1>5. /\ DOMAIN queue' = DOMAIN queue
        /\ \A j \in DOMAIN queue : queue'[j] = IF j = i THEN b ELSE queue[j]
    <2>1. queue' = [queue EXCEPT ![i] = b]
      BY DEF HandleTimeoutRetry
    <2> HIDE DEF b
    <2> QED BY <1>1, <1>2, <2>1, ReplaceOne
  <1> HIDE DEF b, d
  <1>6. NoOrphanBarrier'
    <2>1. DeadlineArmed(queue[i])'
      BY <1>1, <1>4, <1>5 DEF DeadlineArmed
    <2>2. ASSUME NEW j \in DOMAIN queue, j # i, queue[j].pending
          PROVE  DeadlineArmed(queue[j])' \/ DeadlineExpired(queue[j])'
      <3>1. CASE DeadlineArmed(queue[j])
        BY <1>1, <1>5, <2>2, <3>1 DEF DeadlineArmed
      <3>2. CASE DeadlineExpired(queue[j])
        BY <1>1, <1>5, <2>2, <3>2, ExpiredKept, DistinctTurns DEF DeadlineExpired
      <3> QED BY <2>2, <3>1, <3>2 DEF DeadlineInv, NoOrphanBarrier
    <2>3. ASSUME NEW j \in DOMAIN queue', queue'[j].pending
          PROVE  DeadlineArmed(queue[j])' \/ DeadlineExpired(queue[j])'
      BY <1>5, <2>1, <2>2, <2>3
    <2> QED BY <2>3 DEF NoOrphanBarrier
  <1>7. DeadlineIsCurrent'
    <2> SUFFICES ASSUME NEW j \in DOMAIN queue
                 PROVE  /\ \A c \in timers' : Concerns(c, queue'[j]) => TellAttemptMatches(queue'[j], c)
                        /\ \A k \in DOMAIN inbox' :
                              inbox'[k].kind = "Timeout" /\ Concerns(inbox'[k], queue'[j])
                                 => TellAttemptMatches(queue'[j], inbox'[k])
      BY <1>5 DEF DeadlineIsCurrent
    <2>1. CASE j = i
      BY <1>1, <1>3, <1>4, <1>5, <2>1, TimeoutUsesUp DEF Concerns, TellAttemptMatches
    <2>2. CASE j # i
      BY <1>1, <1>4, <1>5, <2>2, TakeMessage, DistinctTurns
         DEF DeadlineInv, DeadlineIsCurrent, Concerns
    <2> QED BY <2>1, <2>2
  <1>8. OneDeadline'
    BY <1>1, <1>4, TakeMessage, TimeoutUsesUp DEF DeadlineInv, OneDeadline
  <1>9. DeadlineOpened'
    BY <1>1, <1>4, TakeMessage, DistinctTurns DEF DeadlineInv, DeadlineOpened
  <1> QED BY <1>6, <1>7, <1>8, <1>9 DEF DeadlineInv

\* Giving up ends the wait, so no deadline is needed any more.
LEMMA TimeoutGaveUpDeadline ==
  ASSUME TypeInv, OrderInv, DeadlineInv, NEW i \in DOMAIN queue, HandleTimeoutGaveUp(i)
  PROVE  DeadlineInv'
  <1> DEFINE r == Synthetic(twin, Head(inbox).zone)
             b == ActOnZoneReply(queue[i], r)
  <1>1. /\ queue \in Seq(Barrier) /\ queue[i] \in Barrier
        /\ UNCHANGED <<nextTurn, timers>>
        /\ Receive("Timeout") /\ Head(inbox).turn = queue[i].turn
    BY DEF HandleTimeoutGaveUp, TypeInv, TypeOK, Concerns
  <1>2. r \in Reply
    BY ReceiveType, OperatorAssumption DEF HandleTimeoutGaveUp, TimeoutMsg, TypeInv, TypeOK
  <1> HIDE DEF r
  <1>3. b \in Barrier
    BY <1>2, ActOnZoneReplyType
  <1>4. /\ ~b.pending /\ b.turn = queue[i].turn /\ b.tell = queue[i].tell
        /\ b.attempt = queue[i].attempt
    BY <1>1 DEF ActOnZoneReply, Barrier
  <1>5. /\ DOMAIN queue' = DOMAIN queue
        /\ \A j \in DOMAIN queue : queue'[j] = IF j = i THEN b ELSE queue[j]
    <2>1. queue' = [queue EXCEPT ![i] = b]
      BY DEF HandleTimeoutGaveUp, r
    <2> HIDE DEF b
    <2> QED BY <1>1, <1>3, <2>1, ReplaceOne
  <1> HIDE DEF b
  <1>6. NoOrphanBarrier'
    <2> SUFFICES ASSUME NEW j \in DOMAIN queue, j # i, queue[j].pending
                 PROVE  DeadlineArmed(queue[j])' \/ DeadlineExpired(queue[j])'
      BY <1>4, <1>5 DEF NoOrphanBarrier
    <2>1. CASE DeadlineArmed(queue[j])
      BY <1>1, <1>5, <2>1 DEF DeadlineArmed
    <2>2. CASE DeadlineExpired(queue[j])
      BY <1>1, <1>5, <2>2, ExpiredKept, DistinctTurns DEF DeadlineExpired
    <2> QED BY <2>1, <2>2 DEF DeadlineInv, NoOrphanBarrier
  <1>7. DeadlineIsCurrent'
    <2> SUFFICES ASSUME NEW j \in DOMAIN queue
                 PROVE  /\ \A c \in timers : Concerns(c, queue'[j]) => TellAttemptMatches(queue'[j], c)
                        /\ \A k \in DOMAIN inbox' :
                              inbox'[k].kind = "Timeout" /\ Concerns(inbox'[k], queue'[j])
                                 => TellAttemptMatches(queue'[j], inbox'[k])
      BY <1>1, <1>5 DEF DeadlineIsCurrent
    <2>1. CASE j = i
      BY <1>1, <1>4, <1>5, <2>1, TimeoutUsesUp DEF Concerns
    <2>2. CASE j # i
      BY <1>1, <1>5, <2>2, TakeMessage DEF DeadlineInv, DeadlineIsCurrent, Concerns
    <2> QED BY <2>1, <2>2
  <1>8. OneDeadline' /\ DeadlineOpened'
    BY <1>1, TakeMessage DEF DeadlineInv, OneDeadline, DeadlineOpened
  <1> QED BY <1>6, <1>7, <1>8 DEF DeadlineInv


\* A timeout of a turn that is no longer queued is nobody's deadline.
LEMMA DiscardTimeoutDeadline ==
  ASSUME TypeInv, OrderInv, DeadlineInv, DiscardTimeout
  PROVE  DeadlineInv'
  <1>1. Receive("Timeout") /\ UNCHANGED <<queue, timers, nextTurn>>
    BY DEF DiscardTimeout
  <1>2. NoOrphanBarrier'
    <2> SUFFICES ASSUME NEW j \in DOMAIN queue, queue[j].pending
                 PROVE  DeadlineArmed(queue[j])' \/ DeadlineExpired(queue[j])'
      BY <1>1 DEF NoOrphanBarrier
    <2>1. CASE DeadlineArmed(queue[j])
      BY <1>1, <2>1 DEF DeadlineArmed
    <2>2. CASE DeadlineExpired(queue[j])
      <3>1. queue[j].turn # Head(inbox).turn
        BY DEF DiscardTimeout, Concerns, OrderInv, Answered
      <3> QED BY <1>1, <2>2, <3>1, ExpiredKept DEF DeadlineExpired
    <2> QED BY <2>1, <2>2 DEF DeadlineInv, NoOrphanBarrier
  <1>3. DeadlineIsCurrent' /\ OneDeadline' /\ DeadlineOpened'
    BY <1>1, TakeMessage DEF DeadlineInv, DeadlineIsCurrent, OneDeadline, DeadlineOpened
  <1> QED BY <1>2, <1>3 DEF DeadlineInv

\* Popping the front leaves the deadlines of the other turns as they are.
LEMMA CommitFrontDeadline ==
  ASSUME TypeInv, DeadlineInv, CommitFront
  PROVE  DeadlineInv'
  <1>1. /\ UNCHANGED <<inbox, timers, nextTurn>>
        /\ \A i \in DOMAIN queue' : i + 1 \in DOMAIN queue /\ queue'[i] = queue[i + 1]
    BY DEF CommitFront, TypeInv, TypeOK
  <1>2. NoOrphanBarrier'
    BY <1>1 DEF DeadlineInv, NoOrphanBarrier, DeadlineArmed, DeadlineExpired
  <1>3. DeadlineIsCurrent' /\ OneDeadline' /\ DeadlineOpened'
    BY <1>1 DEF DeadlineInv, DeadlineIsCurrent, OneDeadline, DeadlineOpened
  <1> QED BY <1>2, <1>3 DEF DeadlineInv

\* A timer that fires moves its deadline into the mailbox.
LEMMA TimerFiresDeadline ==
  ASSUME TypeInv, DeadlineInv, NEW d \in timers, TimerFires(d)
  PROVE  DeadlineInv'
  <1> DEFINE m == [kind |-> "Timeout", zone |-> d.zone, turn |-> d.turn, attempt |-> d.attempt]
  <1>1. /\ UNCHANGED <<queue, nextTurn>> /\ timers' = timers \ {d} /\ inbox' = Append(inbox, m)
    BY DEF TimerFires
  <1>2. d \in Timer /\ m \in InboxMsg
    BY DEF TypeInv, TypeOK, Timer, InboxMsg, TimeoutMsg
  <1>3. /\ m.kind = "Timeout" /\ m.zone = d.zone /\ m.turn = d.turn /\ m.attempt = d.attempt
    OBVIOUS
  <1>4. NoOrphanBarrier'
    <2> SUFFICES ASSUME NEW j \in DOMAIN queue, queue[j].pending
                 PROVE  DeadlineArmed(queue[j])' \/ DeadlineExpired(queue[j])'
      BY <1>1 DEF NoOrphanBarrier
    <2> DEFINE c == [zone |-> queue[j].tell.zone, turn |-> queue[j].turn,
                     attempt |-> queue[j].attempt]
    <2>1. CASE c \in timers /\ c # d
      BY <1>1, <2>1 DEF DeadlineArmed
    <2>2. CASE c = d
      <3>1. m = [kind |-> "Timeout", zone |-> queue[j].tell.zone, turn |-> queue[j].turn,
                 attempt |-> queue[j].attempt]
        BY <2>2
      <3>2. Len(inbox) + 1 \in DOMAIN inbox' /\ inbox'[Len(inbox) + 1] = m
        <4> HIDE DEF m
        <4> QED BY <1>1, <1>2, AddMessage
      <3> QED BY <1>1, <3>1, <3>2 DEF DeadlineExpired
    <2>3. CASE DeadlineExpired(queue[j])
      <3> HIDE DEF m
      <3> QED BY <1>1, <1>2, <2>3, AddMessage DEF DeadlineExpired
    <2> QED BY <2>1, <2>2, <2>3 DEF DeadlineInv, NoOrphanBarrier, DeadlineArmed
  <1> HIDE DEF m
  <1>5. DeadlineIsCurrent'
    BY <1>1, <1>2, <1>3, AddMessage DEF DeadlineInv, DeadlineIsCurrent, Concerns, TellAttemptMatches
  <1>6. OneDeadline' /\ DeadlineOpened'
    BY <1>1, <1>2, <1>3, AddMessage DEF DeadlineInv, OneDeadline, DeadlineOpened
  <1> QED BY <1>4, <1>5, <1>6 DEF DeadlineInv

\* Before the first message there is no barrier and no deadline.
LEMMA InitDeadline == Init => DeadlineInv
  BY DEF Init, DeadlineInv, NoOrphanBarrier, DeadlineIsCurrent, OneDeadline, DeadlineOpened

\* Every step keeps one current deadline for every pending barrier.
LEMMA NextDeadline == TypeInv /\ OrderInv /\ DeadlineInv /\ [Next]_vars => DeadlineInv'
  <1> SUFFICES ASSUME TypeInv, OrderInv, DeadlineInv, [Next]_vars PROVE DeadlineInv'
    OBVIOUS
  <1>1. CASE HandleFsm
    <2> DEFINE e == Head(inbox).event
               tell == Route(e, twin)
    <2>1. e \in Event /\ tell \in Tell \cup {NoTell}
      BY <1>1, ReceiveType, OperatorAssumption DEF HandleFsm, FsmMsg, TypeInv, TypeOK
    <2>2. OpenTurn(e, tell) /\ Receive("Fsm")
      BY <1>1 DEF HandleFsm
    <2> HIDE DEF e, tell
    <2> QED BY <2>1, <2>2, OpenTurnDeadline
  <1>2. CASE \E i \in DOMAIN queue : HandleZoneReady(i)
    BY <1>2, ZoneReadyDeadline
  <1>3. CASE DiscardZoneReady
    BY <1>3, OtherMessageDeadline DEF DiscardZoneReady
  <1>4. CASE \E i \in DOMAIN queue : HandleTimeoutRetry(i)
    BY <1>4, TimeoutRetryDeadline
  <1>5. CASE \E i \in DOMAIN queue : HandleTimeoutGaveUp(i)
    BY <1>5, TimeoutGaveUpDeadline
  <1>6. CASE DiscardTimeout
    BY <1>6, DiscardTimeoutDeadline
  <1>7. CASE HandleSpontaneous
    BY <1>7, OtherMessageDeadline DEF HandleSpontaneous
  <1>8. CASE CommitFront
    BY <1>8, CommitFrontDeadline
  <1>9. CASE PerformOpen
    <2>1. Head(todo) \in Action /\ Head(todo).kind = "open"
      BY <1>9 DEF PerformOpen, TypeInv, TypeOK
    <2>2. Head(todo).event \in Event /\ Head(todo).tell \in Tell
      BY <2>1 DEF Action, OpenAction, SendAction
    <2> QED BY <1>9, <2>2, OpenTurnDeadline DEF PerformOpen
  <1>10. CASE PerformSend
    BY <1>10, OtherMessageDeadline DEF PerformSend
  <1>11. CASE \E d \in timers : TimerFires(d)
    BY <1>11, TimerFiresDeadline
  <1>12. CASE ChannelReceive
    BY <1>12, OtherMessageDeadline DEF ChannelReceive
  <1>13. CASE \E e \in Ingress : Submit(e)
    <2> PICK e \in Ingress : Submit(e)
      BY <1>13
    <2>1. [kind |-> "Fsm", event |-> e] \in InboxMsg
      BY DataAssumption DEF InboxMsg, FsmMsg
    <2> QED BY <2>1, OtherMessageDeadline DEF Submit
  <1>14. CASE \E z \in Zone, r \in Reply : ZoneAnswers(z, r)
    <2> PICK z \in Zone, r \in Reply : ZoneAnswers(z, r)
      BY <1>14
    <2>1. Head(zoneBox[z]) \in ZoneTell
      BY DEF ZoneAnswers, TypeInv, TypeOK
    <2>2. [kind |-> "ZoneReady", zone |-> z, turn |-> Head(zoneBox[z]).turn,
           attempt |-> Head(zoneBox[z]).attempt, reply |-> r] \in InboxMsg
      BY <2>1 DEF ZoneTell, InboxMsg, ZoneReadyMsg
    <2> QED BY <2>2, OtherMessageDeadline DEF ZoneAnswers
  <1>15. CASE \E z \in Zone : ZoneSwallows(z)
    BY <1>15, OtherMessageDeadline DEF ZoneSwallows
  <1>16. CASE \E e \in SpontaneousEvent, r \in Reply : ZoneSpeaksUp(e, r)
    <2> PICK e \in SpontaneousEvent, r \in Reply : ZoneSpeaksUp(e, r)
      BY <1>16
    <2>1. [kind |-> "Spontaneous", event |-> e, reply |-> r] \in InboxMsg
      BY DEF InboxMsg, SpontaneousMsg
    <2> QED BY <2>1, OtherMessageDeadline DEF ZoneSpeaksUp
  <1>17. CASE UNCHANGED vars
    BY <1>17, OtherMessageDeadline DEF vars
  <1> QED
    BY <1>1, <1>2, <1>3, <1>4, <1>5, <1>6, <1>7, <1>8, <1>9, <1>10, <1>11, <1>12,
       <1>13, <1>14, <1>15, <1>16, <1>17 DEF Next, Brain, Surroundings

\* The three invariants hold together in every reachable state.
LEMMA DeadlineCorrect == Spec => [](TypeInv /\ OrderInv /\ DeadlineInv)
  BY InitType, InitOrder, InitDeadline, NextType, NextOrder, NextDeadline, PTL DEF Spec

\* A pending barrier always has a deadline to come, so no turn is left with
\* nothing that would complete it.
THEOREM NoOrphan == Spec => []NoOrphanBarrier
  <1>1. DeadlineInv => NoOrphanBarrier
    BY DEF DeadlineInv
  <1> QED BY <1>1, DeadlineCorrect, PTL

\* The deadlines of queued turns are those of their present attempts.
THEOREM CurrentDeadlines == Spec => []DeadlineIsCurrent
  <1>1. DeadlineInv => DeadlineIsCurrent
    BY DEF DeadlineInv
  <1> QED BY <1>1, DeadlineCorrect, PTL

\* No turn has two deadlines.
THEOREM SingleDeadline == Spec => []OneDeadline
  <1>1. DeadlineInv => OneDeadline
    BY DEF DeadlineInv
  <1> QED BY <1>1, DeadlineCorrect, PTL

\* A reply is made up only for a turn whose retries are spent: the branch of
\* act_on_zone_timeout for an attempt that does not match is dead.
THEOREM GiveUp == Spec => GiveUpOnlyWhenExhausted
  <1>1. ASSUME TypeInv, DeadlineInv, NEW i \in DOMAIN queue, HandleTimeoutGaveUp(i)
        PROVE  queue[i].retries = 0
    <2>1. TellAttemptMatches(queue[i], Head(inbox))
      BY <1>1, TimeoutMatches DEF HandleTimeoutGaveUp
    <2>2. queue[i].retries \in Nat
      <3>1. queue[i] \in Barrier
        BY <1>1 DEF TypeInv, TypeOK
      <3> QED BY <3>1, BoundAssumption DEF Barrier, Attempt
    <2> QED BY <1>1, <2>1, <2>2 DEF HandleTimeoutGaveUp, RetryDue
  <1>2. TypeInv /\ DeadlineInv =>
           [\A i \in DOMAIN queue : HandleTimeoutGaveUp(i) => queue[i].retries = 0]_vars
    BY <1>1
  <1> QED BY <1>2, DeadlineCorrect, PTL DEF GiveUpOnlyWhenExhausted

=============================================================================
