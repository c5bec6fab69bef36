------------------------ MODULE CommandFanOut_proofs ------------------------
(***************************************************************************)
(* Theorems about CommandFanOut, for every capacity of the channels, every *)
(* number of commands and every size of the wiper's socket.                *)
(***************************************************************************)
EXTENDS CommandFanOut, TLAPS

-----------------------------------------------------------------------------
(* Sequences of serial numbers.                                            *)

Increasing(s) == \A i, j \in 1..Len(s) : i < j => s[i] < s[j]

\* Places in a sequence of one more element
LEMMA Places ==
    \A n \in Nat : \A i, j \in 1..(n + 1) : i < j => i \in 1..n /\ (j \in 1..n \/ j = n + 1)
  OBVIOUS

\* One more element.
LEMMA Longer ==
    ASSUME NEW S, NEW s \in Seq(S), NEW x \in S
    PROVE  /\ Append(s, x) \in Seq(S) /\ Len(Append(s, x)) = Len(s) + 1 /\ Len(s) \in Nat
           /\ DOMAIN Append(s, x) = 1..(Len(s) + 1) /\ DOMAIN s = 1..Len(s)
           /\ \A i \in 1..Len(s) : Append(s, x)[i] = s[i] /\ s[i] \in S
           /\ Append(s, x)[Len(s) + 1] = x
  OBVIOUS

\* One element less, at the front.
LEMMA Shorter ==
    ASSUME NEW S, NEW s \in Seq(S), s # << >>
    PROVE  /\ Tail(s) \in Seq(S) /\ Len(Tail(s)) = Len(s) - 1 /\ Len(s) \in Nat \ {0}
           /\ DOMAIN Tail(s) = 1..(Len(s) - 1) /\ DOMAIN s = 1..Len(s)
           /\ \A i \in 1..(Len(s) - 1) : Tail(s)[i] = s[i + 1]
           /\ Head(s) = s[1] /\ 1 \in DOMAIN s /\ s[1] \in S
           /\ \A i \in 1..Len(s) : s[i] \in S
  OBVIOUS

\* More serial numbers.
LEMMA Wider ==
    ASSUME NEW n \in Nat, NEW s \in Seq(1..n)
    PROVE  s \in Seq(1..(n + 1))
<1>1. 1..n \subseteq 1..(n + 1)
  OBVIOUS
<1> QED BY <1>1

-----------------------------------------------------------------------------
(* Types.                                                                  *)

LEMMA InitType == Init => TypeOK
<1> SUFFICES ASSUME Init PROVE TypeOK
  OBVIOUS
<1>1. Len(<< >>) = 0 /\ \A S : << >> \in Seq(S)
  OBVIOUS
<1>2. \A a \in Assembly : box[a] = << >>
  BY DEF Init
<1>3. Len(main) <= Capacity /\ \A a \in Assembly : Len(box[a]) <= Capacity
  BY <1>1, <1>2, FanOutAssumption DEF FanOutAssumption, Init
<1>4. /\ box \in [Assembly -> Seq(1..Len(issued))]
      /\ written \in [Assembly -> Seq(1..Len(issued))]
      /\ publisher \in [Assembly -> {"opening", "running", "failed", "ended"}]
  BY <1>1 DEF Init
<1> QED BY <1>1, <1>3, <1>4 DEF Init, TypeOK

\* A command is issued.
LEMMA ExecuteType ==
    ASSUME TypeOK, NEW kind \in Kind, Execute(kind)
    PROVE  /\ TypeOK' /\ Len(issued') = Len(issued) + 1 /\ Len(issued) \in Nat
           /\ issued'[Len(issued) + 1] = kind
           /\ \A i \in 1..Len(issued) : issued'[i] = issued[i]
<1>1. /\ issued' \in Seq(Kind) /\ Len(issued') = Len(issued) + 1 /\ Len(issued) \in Nat
      /\ issued'[Len(issued) + 1] = kind
      /\ \A i \in 1..Len(issued) : issued'[i] = issued[i]
  BY Longer DEF TypeOK, Execute
<1>2. waiting' \in (1..Len(issued')) \cup {Nothing}
  BY <1>1 DEF Execute
<1>3. \A s \in Seq(1..Len(issued)) : s \in Seq(1..Len(issued'))
  BY <1>1, Wider
<1>4. 1..Len(issued) \subseteq 1..Len(issued')
  BY <1>1
<1>5. box' \in [Assembly -> Seq(1..Len(issued'))] /\ written' \in [Assembly -> Seq(1..Len(issued'))]
  BY <1>3 DEF TypeOK, Execute
<1>6. main' \in Seq(1..Len(issued')) /\ Len(main') <= Capacity
  BY <1>3 DEF TypeOK, Execute
<1>7. held' \in (1..Len(issued')) \cup {Nothing} /\ fatal' \in (1..Len(issued')) \cup {Nothing}
  BY <1>4 DEF TypeOK, Execute
<1>8. /\ fanOut' = fanOut /\ box' = box /\ publisher' = publisher
      /\ motorBox' = motorBox /\ motor' = motor /\ missed' = missed
  BY DEF Execute, motorVars
<1> QED BY <1>1, <1>2, <1>5, <1>6, <1>7, <1>8 DEF TypeOK

\* The brain's send and the fan-out task.
LEMMA ChannelType ==
    ASSUME TypeOK, Send \/ SendFails \/ FanOutReceive \/ FanOutEnds
    PROVE  TypeOK'
<1>1. CASE Send
  <2>1. /\ waiting \in 1..Len(issued) /\ main' = Append(main, waiting) /\ waiting' = Nothing
        /\ Len(main) < Capacity
        /\ UNCHANGED <<issued, held, fanOut, box, publisher, fatal, written, motorVars>>
    BY <1>1 DEF Send, TypeOK
  <2>2. main' \in Seq(1..Len(issued)) /\ Len(main') = Len(main) + 1 /\ Len(main) \in Nat
    BY <2>1, Longer DEF TypeOK
  <2>3. Len(main') <= Capacity
    BY <2>1, <2>2, FanOutAssumption DEF FanOutAssumption
  <2> QED BY <2>1, <2>2, <2>3 DEF TypeOK, motorVars
<1>2. CASE SendFails
  BY <1>2 DEF SendFails, TypeOK, motorVars
<1>3. CASE FanOutReceive
  <2>1. /\ main # << >> /\ held' = Head(main) /\ main' = Tail(main)
        /\ UNCHANGED <<issued, waiting, fanOut, box, publisher, fatal, written, motorVars>>
    BY <1>3 DEF FanOutReceive
  <2>2. /\ main' \in Seq(1..Len(issued)) /\ Len(main') = Len(main) - 1 /\ Len(main) \in Nat
        /\ Head(main) \in 1..Len(issued)
    BY <2>1, Shorter DEF TypeOK
  <2>3. Len(main') <= Capacity
    BY <2>2, FanOutAssumption DEF FanOutAssumption, TypeOK
  <2> QED BY <2>1, <2>2, <2>3 DEF TypeOK, motorVars
<1>4. CASE FanOutEnds
  <2>1. << >> \in Seq(1..Len(issued)) /\ Len(<< >>) = 0
    OBVIOUS
  <2>2. 0 <= Capacity
    BY FanOutAssumption DEF FanOutAssumption
  <2> QED BY <1>4, <2>1, <2>2 DEF FanOutEnds, TypeOK, motorVars
<1> QED BY <1>1, <1>2, <1>3, <1>4

\* A command is for an assembly.
LEMMA ForType == \A n : For(n) \in Assembly
  BY DEF For, AssemblyOf, Assembly

\* The fan-out task passes a command on.
LEMMA FanOutSendType ==
    ASSUME TypeOK, FanOutSend
    PROVE  /\ TypeOK'
           /\ box'[For(held)] = Append(box[For(held)], held)
           /\ \A a \in Assembly : a # For(held) => box'[a] = box[a]
<1>1. /\ held \in 1..Len(issued) /\ held' = Nothing
      /\ Len(box[For(held)]) < Capacity
      /\ box' = [box EXCEPT ![For(held)] = Append(@, held)]
      /\ UNCHANGED <<issued, waiting, main, fanOut, publisher, fatal, written, motorVars>>
  BY DEF FanOutSend, TypeOK
<1>2. For(held) \in Assembly /\ box \in [Assembly -> Seq(1..Len(issued))]
  BY ForType DEF TypeOK
<1>3. box[For(held)] \in Seq(1..Len(issued))
  BY <1>2
<1>4. /\ Append(box[For(held)], held) \in Seq(1..Len(issued))
      /\ Len(Append(box[For(held)], held)) = Len(box[For(held)]) + 1 /\ Len(box[For(held)]) \in Nat
  BY <1>1, <1>3, Longer
<1>5. /\ box' \in [Assembly -> Seq(1..Len(issued))]
      /\ box'[For(held)] = Append(box[For(held)], held)
      /\ \A a \in Assembly : a # For(held) => box'[a] = box[a]
  BY <1>1, <1>2, <1>4
<1>6. \A a \in Assembly : Len(box'[a]) <= Capacity
  <2>1. Len(box'[For(held)]) <= Capacity
    BY <1>1, <1>4, <1>5, FanOutAssumption DEF FanOutAssumption
  <2> QED BY <1>5, <2>1 DEF TypeOK
<1> QED BY <1>1, <1>5, <1>6 DEF TypeOK, motorVars

\* A publisher task begins or ends.
LEMMA PublisherType ==
    ASSUME TypeOK, NEW a \in Assembly, OpenSocket(a) \/ OpenFails(a) \/ PublisherEnds(a)
    PROVE  TypeOK'
<1>1. publisher' \in [Assembly -> {"opening", "running", "failed", "ended"}]
  BY DEF OpenSocket, OpenFails, PublisherEnds, TypeOK
<1>2. box' \in [Assembly -> Seq(1..Len(issued))] /\ \A c \in Assembly : Len(box'[c]) <= Capacity
  <2>1. CASE OpenFails(a)
    <3>1. << >> \in Seq(1..Len(issued)) /\ Len(<< >>) = 0 /\ 0 <= Capacity
      BY FanOutAssumption DEF FanOutAssumption
    <3>2. \A c \in Assembly : box'[c] = IF c = a THEN << >> ELSE box[c]
      BY <2>1 DEF OpenFails, TypeOK
    <3>3. box' \in [Assembly -> Seq(1..Len(issued))]
      BY <2>1, <3>1 DEF OpenFails, TypeOK
    <3> QED BY <3>1, <3>2, <3>3 DEF TypeOK
  <2>2. CASE OpenSocket(a) \/ PublisherEnds(a)
    BY <2>2 DEF OpenSocket, PublisherEnds, TypeOK
  <2> QED BY <2>1, <2>2
<1> QED BY <1>1, <1>2 DEF OpenSocket, OpenFails, PublisherEnds, TypeOK, motorVars

\* Frames of wiper commands, in the wiper's socket
LEMMA FrameType ==
    ASSUME NEW buffer \in Seq({"StartWiper", "StopWiper"}), NEW kind \in {"StartWiper", "StopWiper"},
           NEW b \in Received(buffer, kind)
    PROVE  /\ b \in Seq({"StartWiper", "StopWiper"})
           /\ b # buffer => b # << >> /\ b[Len(b)] = kind
<1>1. b = buffer \/ b = Append(buffer, kind) \/ b = buffer \o <<kind, kind>>
  BY DEF Received
<1>2. CASE b = buffer
  BY <1>2
<1>3. CASE b = Append(buffer, kind)
  BY <1>3, Longer
<1>4. CASE b = buffer \o <<kind, kind>>
  <2>1. <<kind, kind>> \in Seq({"StartWiper", "StopWiper"}) /\ Len(<<kind, kind>>) = 2
    OBVIOUS
  <2>2. /\ b \in Seq({"StartWiper", "StopWiper"}) /\ Len(b) = Len(buffer) + 2 /\ Len(buffer) \in Nat
        /\ b[Len(buffer) + 2] = kind
    BY <1>4, <2>1
  <2> QED BY <2>2
<1> QED BY <1>1, <1>2, <1>3, <1>4

\* A publisher writes a command of its own assembly.
LEMMA PublishType ==
    ASSUME TypeOK, NEW a \in Assembly, Publish(a), \A i \in DOMAIN box[a] : For(box[a][i]) = a
    PROVE  /\ TypeOK'
           /\ box[a] \in Seq(1..Len(issued)) /\ box[a] # << >> /\ Head(box[a]) \in 1..Len(issued)
           /\ box'[a] = Tail(box[a]) /\ written'[a] = Append(written[a], Head(box[a]))
           /\ \A c \in Assembly : c # a => box'[c] = box[c] /\ written'[c] = written[c]
           /\ a = "Wiper" => /\ issued[Head(box[a])] \in {"StartWiper", "StopWiper"}
                             /\ motorBox' \in Received(motorBox, issued[Head(box[a])])
<1>1. /\ box[a] # << >>
      /\ box' = [box EXCEPT ![a] = Tail(@)]
      /\ written' = [written EXCEPT ![a] = Append(@, Head(box[a]))]
      /\ UNCHANGED <<issued, waiting, main, held, fanOut, publisher, fatal, motor>>
  BY DEF Publish
<1>2. box[a] \in Seq(1..Len(issued)) /\ written[a] \in Seq(1..Len(issued))
  BY DEF TypeOK
<1>3. /\ Tail(box[a]) \in Seq(1..Len(issued)) /\ Len(Tail(box[a])) = Len(box[a]) - 1
      /\ Len(box[a]) \in Nat /\ Head(box[a]) \in 1..Len(issued) /\ For(Head(box[a])) = a
  <2>1. /\ Tail(box[a]) \in Seq(1..Len(issued)) /\ Len(Tail(box[a])) = Len(box[a]) - 1
        /\ Len(box[a]) \in Nat /\ Head(box[a]) \in 1..Len(issued)
        /\ Head(box[a]) = box[a][1] /\ 1 \in DOMAIN box[a]
    <3> DEFINE s == box[a]
    <3>1. s # << >> /\ s \in Seq(1..Len(issued))
      BY <1>1, <1>2
    <3> HIDE DEF s
    <3>2. /\ Tail(s) \in Seq(1..Len(issued)) /\ Len(Tail(s)) = Len(s) - 1
          /\ Len(s) \in Nat /\ Head(s) \in 1..Len(issued)
          /\ Head(s) = s[1] /\ 1 \in DOMAIN s
      BY <3>1, Shorter
    <3> QED BY <3>2 DEF s
  <2>2. For(box[a][1]) = a
    BY <2>1
  <2> QED BY <2>1, <2>2
<1>4. Append(written[a], Head(box[a])) \in Seq(1..Len(issued))
  BY <1>2, <1>3, Longer
<1>5. /\ box'[a] = Tail(box[a]) /\ written'[a] = Append(written[a], Head(box[a]))
      /\ \A c \in Assembly : c # a => box'[c] = box[c] /\ written'[c] = written[c]
  BY <1>1 DEF TypeOK
<1>6. box' \in [Assembly -> Seq(1..Len(issued))] /\ written' \in [Assembly -> Seq(1..Len(issued))]
  BY <1>1, <1>3, <1>4 DEF TypeOK
<1>7. \A c \in Assembly : Len(box'[c]) <= Capacity
  <2>1. Len(box'[a]) <= Capacity
    BY <1>3, <1>5, FanOutAssumption DEF FanOutAssumption, TypeOK
  <2> QED BY <1>5, <2>1 DEF TypeOK
<1>8. a = "Wiper" => issued[Head(box[a])] \in {"StartWiper", "StopWiper"}
  BY <1>3 DEF For, AssemblyOf
<1>9. a = "Wiper" => motorBox' \in Received(motorBox, issued[Head(box[a])])
  BY DEF Publish, FrameOf
<1>10. motorBox' \in Seq({"StartWiper", "StopWiper"}) /\ missed' \in BOOLEAN
  <2>1. CASE a = "Wiper"
    <3>1. motorBox' \in Seq({"StartWiper", "StopWiper"})
      BY <1>8, <1>9, <2>1, FrameType DEF TypeOK
    <3>2. missed' \in BOOLEAN
      BY <2>1, Zenon DEF Publish, TypeOK
    <3> QED BY <3>1, <3>2
  <2>2. CASE a # "Wiper"
    BY <2>2 DEF Publish, TypeOK
  <2> QED BY <2>1, <2>2
<1> QED BY <1>1, <1>2, <1>3, <1>5, <1>6, <1>7, <1>8, <1>9, <1>10 DEF TypeOK

\* The actuator takes a frame.
LEMMA MotorType ==
    ASSUME TypeOK, Obey \/ IgnoreCommand
    PROVE  TypeOK'
<1>1. motorBox' \in Seq({"StartWiper", "StopWiper"})
  <2>1. motorBox \in Seq({"StartWiper", "StopWiper"}) /\ motorBox # << >> /\ motorBox' = Tail(motorBox)
    BY DEF Obey, IgnoreCommand, TypeOK
  <2> QED BY <2>1, Shorter
<1>2. motor' \in BOOLEAN /\ missed' \in BOOLEAN
  BY Zenon DEF Obey, IgnoreCommand, TypeOK
<1> QED BY <1>1, <1>2 DEF Obey, IgnoreCommand, TypeOK, channelVars

-----------------------------------------------------------------------------
(* Where a command is.                                                     *)

\* One for a place that is taken
One(x) == IF x = Nothing THEN 0 ELSE 1

\* How many commands the fan-out task has passed on: all that were issued but
\* those the brain waits with, those in the channel and the one it holds.
Fanned == IF fanOut = "ended" THEN fatal - 1
          ELSE Len(issued) - One(waiting) - Len(main) - One(held)

\* On the way to the publishers are the newest commands, in their order.
WayInv ==
    /\ Fanned \in Nat
    /\ waiting # Nothing => waiting = Len(issued)
    /\ fanOut = "running" =>
          /\ held # Nothing => held = Fanned + 1
          /\ \A i \in 1..Len(main) : main[i] = Fanned + One(held) + i
    /\ fanOut = "ended" =>
          /\ held = Nothing /\ main = << >> /\ fatal # Nothing
          /\ publisher[For(fatal)] = "failed"

\* The others are written or will be, in their order, unless their assembly
\* is cut off.
ShareInv(a) ==
    /\ Increasing(written[a]) /\ Increasing(box[a])
    /\ \A i \in 1..Len(written[a]), j \in 1..Len(box[a]) : written[a][i] < box[a][j]
    /\ publisher[a] = "opening" => written[a] = << >>
    /\ publisher[a] = "failed" => written[a] = << >> /\ box[a] = << >>
    /\ publisher[a] = "ended" => box[a] = << >> /\ fanOut = "ended"
    /\ publisher[a] # "failed" =>
          \A n \in 1..Len(issued) : IsWritten(a, n) \/ InBox(a, n) <=> n <= Fanned /\ For(n) = a

PipeInv == TypeOK /\ WayInv /\ \A a \in Assembly : ShareInv(a)

\* What waits for a publisher is for its assembly.
LEMMA BoxIsOwn ==
    ASSUME PipeInv, NEW a \in Assembly
    PROVE  \A i \in DOMAIN box[a] : For(box[a][i]) = a /\ box[a][i] <= Fanned
<1> SUFFICES ASSUME NEW i \in DOMAIN box[a] PROVE For(box[a][i]) = a /\ box[a][i] <= Fanned
  OBVIOUS
<1>1. box[a] \in Seq(1..Len(issued)) /\ box[a][i] \in 1..Len(issued)
  BY DEF PipeInv, TypeOK
<1>2. publisher[a] # "failed"
  BY <1>1 DEF PipeInv, ShareInv
<1>3. InBox(a, box[a][i])
  BY DEF InBox
<1> QED BY <1>1, <1>2, <1>3 DEF PipeInv, ShareInv

\* The numbers of what is on the way
LEMMA WayType ==
    ASSUME TypeOK
    PROVE  /\ Len(issued) \in Nat /\ Len(main) \in Nat
           /\ One(waiting) \in {0, 1} /\ One(held) \in {0, 1}
           /\ waiting # Nothing => waiting \in 1..Len(issued)
           /\ held # Nothing => held \in 1..Len(issued)
           /\ fatal # Nothing => fatal \in 1..Len(issued)
           /\ \A n \in Nat : n # Nothing
  BY FanOutAssumption DEF FanOutAssumption, TypeOK, One

\* A step that leaves the assembly's share alone.
LEMMA ShareKept ==
    ASSUME NEW a, ShareInv(a), Fanned' = Fanned, issued' = issued,
           written'[a] = written[a], box'[a] = box[a], publisher'[a] = publisher[a], fanOut' = fanOut
    PROVE  ShareInv(a)'
<1>1. \A n : (IsWritten(a, n)' <=> IsWritten(a, n)) /\ (InBox(a, n)' <=> InBox(a, n)) /\ For(n)' = For(n)
  BY DEF IsWritten, InBox, For
<1>2. (\A n \in 1..Len(issued) : IsWritten(a, n) \/ InBox(a, n) <=> n <= Fanned /\ For(n) = a)
        => (\A n \in 1..Len(issued) : IsWritten(a, n) \/ InBox(a, n) <=> n <= Fanned /\ For(n) = a)'
  BY <1>1
<1> QED BY <1>2 DEF ShareInv, Increasing

\* A command is issued: it waits, so no share changes.
LEMMA ExecutePipe ==
    ASSUME PipeInv, NEW kind \in Kind, Execute(kind)
    PROVE  PipeInv' /\ Fanned' = Fanned
<1>1. /\ TypeOK' /\ Len(issued') = Len(issued) + 1 /\ Len(issued) \in Nat
      /\ \A i \in 1..Len(issued) : issued'[i] = issued[i]
  BY ExecuteType DEF PipeInv
<1>2. /\ waiting = Nothing /\ waiting' = Len(issued) + 1
      /\ main' = main /\ held' = held /\ fanOut' = fanOut /\ box' = box
      /\ publisher' = publisher /\ fatal' = fatal /\ written' = written
  BY DEF Execute
<1>3. TypeOK /\ WayInv /\ waiting' # Nothing
  BY <1>1, <1>2, FanOutAssumption DEF FanOutAssumption, PipeInv
<1>4. Fanned' = Fanned
  BY <1>1, <1>2, <1>3, WayType DEF Fanned, One
<1>5. \A n \in 1..Len(issued) : For(n)' = For(n)
  BY <1>1 DEF For
<1>6. WayInv'
  <2>1. fatal # Nothing => For(fatal)' = For(fatal)
    BY <1>1, <1>2, <1>3, WayType DEF For
  <2>2. One(held)' = One(held)
    BY <1>2 DEF One
  <2> QED BY <1>1, <1>2, <1>3, <1>4, <2>1, <2>2 DEF WayInv
<1>7. Fanned <= Len(issued) /\ Fanned \in Nat
  BY <1>3, WayType DEF Fanned, WayInv, One
<1>8. ASSUME NEW a \in Assembly PROVE ShareInv(a)'
  <2>1. ShareInv(a)
    BY DEF PipeInv
  <2>2. \A n \in 1..Len(issued) : (IsWritten(a, n)' <=> IsWritten(a, n)) /\ (InBox(a, n)' <=> InBox(a, n))
    BY <1>2 DEF IsWritten, InBox
  <2>3. ASSUME NEW n, n = Len(issued) + 1 PROVE ~IsWritten(a, n)' /\ ~InBox(a, n)'
    <3>1. \A i \in DOMAIN written[a] : written[a][i] \in 1..Len(issued)
      BY <1>3 DEF TypeOK
    <3>2. \A i \in DOMAIN box[a] : box[a][i] \in 1..Len(issued)
      BY <1>3 DEF TypeOK
    <3> QED BY <1>1, <1>2, <2>3, <3>1, <3>2 DEF IsWritten, InBox
  <2>4. publisher[a] # "failed" =>
          \A n \in 1..Len(issued') : (IsWritten(a, n)' \/ InBox(a, n)') <=> (n <= Fanned /\ For(n)' = a)
    <3> SUFFICES ASSUME publisher[a] # "failed", NEW n \in 1..Len(issued')
                 PROVE  (IsWritten(a, n)' \/ InBox(a, n)') <=> (n <= Fanned /\ For(n)' = a)
      OBVIOUS
    <3>1. CASE n \in 1..Len(issued)
      BY <1>5, <2>1, <2>2, <3>1 DEF ShareInv
    <3>2. CASE n = Len(issued) + 1
      BY <1>1, <1>7, <2>3, <3>2
    <3> QED BY <1>1, <3>1, <3>2
  <2> QED BY <1>2, <1>4, <2>1, <2>4 DEF ShareInv, Increasing
<1> QED BY <1>1, <1>4, <1>6, <1>8 DEF PipeInv

\* The shares of all assemblies are kept.
LEMMA SharesKept ==
    ASSUME PipeInv, Fanned' = Fanned,
           UNCHANGED <<issued, box, publisher, fanOut, written>>
    PROVE  \A a \in Assembly : ShareInv(a)'
  BY ShareKept DEF PipeInv

\* A command goes from the brain into the channel.
LEMMA SendPipe ==
    ASSUME PipeInv, Send
    PROVE  PipeInv' /\ Fanned' = Fanned
<1>1. /\ waiting # Nothing /\ fanOut = "running" /\ main' = Append(main, waiting) /\ waiting' = Nothing
      /\ UNCHANGED <<issued, held, fanOut, box, publisher, fatal, written>>
  BY DEF Send
<1>2. TypeOK /\ WayInv /\ TypeOK'
  BY ChannelType DEF PipeInv
<1>3. waiting \in 1..Len(issued) /\ main \in Seq(1..Len(issued))
  BY <1>1, <1>2 DEF TypeOK
<1>4. /\ Len(main') = Len(main) + 1 /\ Len(main) \in Nat
      /\ \A i \in 1..Len(main) : main'[i] = main[i]
      /\ main'[Len(main) + 1] = waiting
  BY <1>1, <1>3, Longer
<1>5. One(waiting) = 1 /\ One(waiting)' = 0 /\ One(held)' = One(held)
  BY <1>1 DEF One
<1>6. Fanned' = Fanned /\ Fanned = Len(issued) - 1 - Len(main) - One(held) /\ One(held) \in {0, 1}
  BY <1>1, <1>2, <1>4, <1>5, WayType DEF Fanned
<1>7. \A i \in 1..Len(main') : main'[i] = Fanned + One(held) + i
  <2> SUFFICES ASSUME NEW i \in 1..Len(main') PROVE main'[i] = Fanned + One(held) + i
    OBVIOUS
  <2>1. CASE i \in 1..Len(main)
    BY <1>1, <1>2, <1>4, <2>1 DEF WayInv
  <2>2. CASE i = Len(main) + 1
    <3>1. main'[i] = Len(issued) /\ Len(issued) \in Nat
      BY <1>1, <1>2, <1>4, <2>2, WayType DEF WayInv
    <3> QED BY <1>4, <1>6, <2>2, <3>1
  <2> QED BY <1>4, <2>1, <2>2
<1>8. WayInv'
  BY <1>1, <1>2, <1>5, <1>6, <1>7 DEF WayInv
<1> QED BY <1>1, <1>2, <1>6, <1>8, SharesKept DEF PipeInv

\* A send that fails.
LEMMA SendFailsPipe ==
    ASSUME PipeInv, SendFails
    PROVE  PipeInv' /\ Fanned' = Fanned
<1>1. /\ fanOut = "ended" /\ waiting' = Nothing
      /\ UNCHANGED <<issued, main, held, fanOut, box, publisher, fatal, written>>
  BY DEF SendFails
<1>2. TypeOK' /\ WayInv
  BY ChannelType DEF PipeInv
<1>3. Fanned' = Fanned
  BY <1>1 DEF Fanned
<1>4. WayInv'
  <2>1. For(fatal)' = For(fatal)
    BY <1>1 DEF For
  <2> QED BY <1>1, <1>2, <1>3, <2>1 DEF WayInv
<1> QED BY <1>1, <1>2, <1>3, <1>4, SharesKept DEF PipeInv

\* The fan-out task takes a command from the channel.
LEMMA ReceivePipe ==
    ASSUME PipeInv, FanOutReceive
    PROVE  PipeInv' /\ Fanned' = Fanned
<1>1. /\ fanOut = "running" /\ held = Nothing /\ main # << >> /\ held' = Head(main) /\ main' = Tail(main)
      /\ UNCHANGED <<issued, waiting, fanOut, box, publisher, fatal, written>>
  BY DEF FanOutReceive
<1>2. TypeOK /\ WayInv /\ TypeOK'
  BY ChannelType DEF PipeInv
<1>3. /\ Len(main') = Len(main) - 1 /\ Len(main) \in Nat \ {0}
      /\ \A i \in 1..(Len(main) - 1) : main'[i] = main[i + 1]
      /\ Head(main) = main[1] /\ main[1] \in 1..Len(issued)
  BY <1>1, <1>2, Shorter DEF TypeOK
<1>4. held' # Nothing
  BY <1>1, <1>3, FanOutAssumption DEF FanOutAssumption
<1>5. One(held) = 0 /\ One(held)' = 1 /\ One(waiting)' = One(waiting)
  BY <1>1, <1>4 DEF One
<1>6. Fanned' = Fanned /\ Fanned \in Nat
  BY <1>1, <1>2, <1>3, <1>5, WayType DEF Fanned, WayInv
<1>7. \A i \in 1..Len(main) : main[i] = Fanned + i
  BY <1>1, <1>2, <1>5, <1>6 DEF WayInv
<1>8. held' = Fanned + 1
  BY <1>1, <1>3, <1>7
<1>9. \A i \in 1..Len(main') : main'[i] = Fanned + 1 + i
  BY <1>3, <1>6, <1>7
<1>10. WayInv'
  BY <1>1, <1>2, <1>5, <1>6, <1>8, <1>9 DEF WayInv
<1> QED BY <1>1, <1>2, <1>6, <1>10, SharesKept DEF PipeInv

\* The fan-out task passes a command on: it becomes the last of its share.
LEMMA FanOutSendPipe ==
    ASSUME PipeInv, FanOutSend
    PROVE  PipeInv'
<1>1. /\ held # Nothing /\ held' = Nothing /\ Receives(For(held))
      /\ UNCHANGED <<issued, waiting, main, fanOut, publisher, fatal, written>>
  BY DEF FanOutSend
<1>2. /\ TypeOK /\ WayInv /\ TypeOK'
      /\ box'[For(held)] = Append(box[For(held)], held)
      /\ \A a \in Assembly : a # For(held) => box'[a] = box[a]
  BY FanOutSendType DEF PipeInv
<1>3. fanOut = "running" /\ held = Fanned + 1 /\ Fanned \in Nat /\ held \in 1..Len(issued)
  BY <1>1, <1>2, WayType DEF WayInv, TypeOK
<1>4. One(held) = 1 /\ One(held)' = 0 /\ One(waiting)' = One(waiting)
  BY <1>1 DEF One
<1>5. Fanned' = Fanned + 1
  BY <1>1, <1>2, <1>3, <1>4, WayType DEF Fanned
<1>6. WayInv'
  <2>1. \A i \in 1..Len(main) : main[i] = Fanned + 1 + i
    BY <1>2, <1>3, <1>4 DEF WayInv
  <2>2. \A i \in 1..Len(main') : main'[i] = Fanned' + One(held)' + i
    BY <1>1, <1>3, <1>4, <1>5, <2>1
  <2> QED BY <1>1, <1>2, <1>3, <1>5, <2>2 DEF WayInv
<1>7. \A n : For(n)' = For(n)
  BY <1>1 DEF For
<1>8. ASSUME NEW a \in Assembly, a # For(held) PROVE ShareInv(a)'
  <2>1. ShareInv(a) /\ box'[a] = box[a]
    BY <1>2, <1>8 DEF PipeInv
  <2>2. \A n : (IsWritten(a, n)' <=> IsWritten(a, n)) /\ (InBox(a, n)' <=> InBox(a, n))
    BY <1>1, <2>1 DEF IsWritten, InBox
  <2>3. \A n \in 1..Len(issued) : For(n) = a => (n <= Fanned' <=> n <= Fanned)
    BY <1>2, <1>3, <1>5, <1>8, WayType
  <2>4. publisher[a] # "failed" =>
          \A n \in 1..Len(issued) : (IsWritten(a, n)' \/ InBox(a, n)') <=> (n <= Fanned' /\ For(n)' = a)
    <3> SUFFICES ASSUME publisher[a] # "failed", NEW n \in 1..Len(issued)
                 PROVE  (IsWritten(a, n)' \/ InBox(a, n)') <=> (n <= Fanned' /\ For(n)' = a)
      OBVIOUS
    <3>1. (IsWritten(a, n) \/ InBox(a, n)) <=> (n <= Fanned /\ For(n) = a)
      BY <2>1 DEF ShareInv
    <3> QED BY <1>7, <2>2, <2>3, <3>1
  <2> QED BY <1>1, <2>1, <2>4 DEF ShareInv, Increasing
<1>9. ASSUME NEW a \in Assembly, a = For(held) PROVE ShareInv(a)'
  <2> DEFINE s == box[a]
             w == written[a]
  <2>1. ShareInv(a) /\ s \in Seq(1..Len(issued)) /\ w \in Seq(1..Len(issued)) /\ box'[a] = Append(s, held)
    BY <1>2, <1>9 DEF PipeInv, TypeOK
  <2>2. publisher[a] # "failed" /\ publisher[a] # "ended"
    BY <1>1, <1>9 DEF Receives
  <2>3. \A n : (IsWritten(a, n)' <=> IsWritten(a, n))
    BY <1>1 DEF IsWritten
  <2>4. /\ Len(box'[a]) = Len(s) + 1 /\ Len(s) \in Nat
        /\ \A i \in 1..Len(s) : box'[a][i] = s[i] /\ s[i] \in 1..Len(issued)
        /\ box'[a][Len(s) + 1] = held
        /\ DOMAIN box'[a] = 1..(Len(s) + 1) /\ DOMAIN s = 1..Len(s)
    BY <1>3, <2>1, Longer
  <2>5. \A n : InBox(a, n)' <=> (InBox(a, n) \/ n = held)
    <3>1. ASSUME NEW n, InBox(a, n)' PROVE InBox(a, n) \/ n = held
      <4>1. PICK i \in 1..(Len(s) + 1) : box'[a][i] = n
        BY <2>4, <3>1 DEF InBox
      <4>2. CASE i \in 1..Len(s)
        <5>1. s[i] = n /\ i \in DOMAIN s
          BY <2>4, <4>1, <4>2
        <5> QED BY <5>1 DEF InBox
      <4>3. CASE i = Len(s) + 1
        BY <2>4, <4>1, <4>3
      <4> QED BY <2>4, <4>1, <4>2, <4>3
    <3>2. ASSUME NEW n, InBox(a, n) PROVE InBox(a, n)'
      <4>1. PICK i \in 1..Len(s) : s[i] = n
        BY <2>4, <3>2 DEF InBox
      <4>2. i \in 1..(Len(s) + 1) /\ box'[a][i] = n
        BY <2>4, <4>1
      <4> QED BY <2>4, <4>2 DEF InBox
    <3>3. ASSUME NEW n, n = held PROVE InBox(a, n)'
      <4>1. Len(s) + 1 \in DOMAIN box'[a]
        BY <2>4
      <4> QED BY <2>4, <3>3, <4>1 DEF InBox
    <3> QED BY <3>1, <3>2, <3>3
  <2>6. \A i \in 1..Len(s) : s[i] < held
    <3>1. \A i \in DOMAIN box[a] : box[a][i] <= Fanned
      BY BoxIsOwn
    <3> QED BY <1>3, <2>4, <3>1
  <2>7. \A i \in 1..Len(w) : w[i] \in 1..Len(issued) /\ w[i] < held
    <3> SUFFICES ASSUME NEW i \in 1..Len(w) PROVE w[i] \in 1..Len(issued) /\ w[i] < held
      OBVIOUS
    <3>1. i \in DOMAIN written[a] /\ w[i] \in 1..Len(issued)
      BY <2>1
    <3>2. IsWritten(a, w[i])
      BY <3>1 DEF IsWritten
    <3>3. w[i] <= Fanned
      BY <2>1, <2>2, <3>1, <3>2 DEF ShareInv
    <3> QED BY <1>3, <3>1, <3>3
  <2>8. Increasing(w) /\ Increasing(s) /\ \A i \in 1..Len(w), j \in 1..Len(s) : w[i] < s[j]
    BY <2>1 DEF ShareInv
  <2> DEFINE t == box'[a]
  <2>9. Len(t) = Len(s) + 1 /\ Len(s) \in Nat /\ (\A i \in 1..Len(s) : t[i] = s[i]) /\ t[Len(s) + 1] = held
    BY <2>4
  <2>10. \A n \in 1..Len(issued) : (IsWritten(a, n)' \/ InBox(a, n)') <=> (n <= Fanned' /\ For(n)' = a)
    <3> SUFFICES ASSUME NEW n \in 1..Len(issued)
                 PROVE  (IsWritten(a, n)' \/ InBox(a, n)') <=> (n <= Fanned' /\ For(n)' = a)
      OBVIOUS
    <3>1. (IsWritten(a, n) \/ InBox(a, n)) <=> (n <= Fanned /\ For(n) = a)
      BY <2>1, <2>2 DEF ShareInv
    <3>2. n <= Fanned' <=> (n <= Fanned \/ n = held)
      BY <1>3, <1>5
    <3> QED BY <1>7, <1>9, <2>3, <2>5, <3>1, <3>2
  <2>11. publisher'[a] # "failed" /\ publisher'[a] # "ended" /\ (publisher'[a] = "opening" => written'[a] = << >>)
    BY <1>1, <2>1, <2>2 DEF ShareInv
  <2> HIDE DEF s, t
  <2>12. Increasing(t)
    BY <2>6, <2>8, <2>9 DEF Increasing
  <2>13. \A i \in 1..Len(w), j \in 1..Len(t) : w[i] < t[j]
    <3> SUFFICES ASSUME NEW i \in 1..Len(w), NEW j \in 1..Len(t) PROVE w[i] < t[j]
      OBVIOUS
    <3>1. j \in 1..Len(s) \/ j = Len(s) + 1
      BY <2>9
    <3> QED BY <2>7, <2>8, <2>9, <3>1
  <2>14. Increasing(written[a])' /\ Increasing(box[a])'
    BY <1>1, <2>8, <2>12 DEF Increasing, t
  <2> QED BY <1>1, <2>10, <2>11, <2>13, <2>14 DEF ShareInv, t
<1> QED BY <1>2, <1>6, <1>8, <1>9 DEF PipeInv

\* The fan-out task ends.
LEMMA FanOutEndsPipe ==
    ASSUME PipeInv, FanOutEnds
    PROVE  PipeInv' /\ Fanned' = Fanned
<1>1. /\ held # Nothing /\ ~Receives(For(held)) /\ fanOut' = "ended" /\ fatal' = held
      /\ held' = Nothing /\ main' = << >>
      /\ UNCHANGED <<issued, waiting, box, publisher, written>>
  BY DEF FanOutEnds
<1>2. TypeOK /\ WayInv /\ TypeOK'
  BY ChannelType DEF PipeInv
<1>3. fanOut = "running" /\ held = Fanned + 1 /\ Fanned \in Nat /\ held \in 1..Len(issued)
  BY <1>1, <1>2, WayType DEF WayInv, TypeOK
<1>4. Fanned' = Fanned
  BY <1>1, <1>3 DEF Fanned
<1>5. \A n : For(n)' = For(n)
  BY <1>1 DEF For
<1>6. publisher[For(held)] = "failed"
  <2>1. For(held) \in Assembly /\ ShareInv(For(held))
    BY ForType DEF PipeInv
  <2>2. publisher[For(held)] # "ended"
    BY <1>3, <2>1 DEF ShareInv
  <2> QED BY <1>1, <1>2, <2>1, <2>2 DEF Receives, TypeOK
<1>7. WayInv'
  <2>1. For(fatal)' = For(held)
    BY <1>1 DEF For
  <2> QED BY <1>1, <1>2, <1>3, <1>4, <1>6, <2>1 DEF WayInv
<1>8. ASSUME NEW a \in Assembly PROVE ShareInv(a)'
  <2>1. ShareInv(a) /\ publisher[a] # "ended"
    BY <1>3 DEF PipeInv, ShareInv
  <2>2. \A n : (IsWritten(a, n)' <=> IsWritten(a, n)) /\ (InBox(a, n)' <=> InBox(a, n))
    BY <1>1 DEF IsWritten, InBox
  <2>3. publisher[a] # "failed" =>
          \A n \in 1..Len(issued) : (IsWritten(a, n)' \/ InBox(a, n)') <=> (n <= Fanned' /\ For(n)' = a)
    BY <1>4, <1>5, <2>1, <2>2 DEF ShareInv
  <2> QED BY <1>1, <2>1, <2>3 DEF ShareInv, Increasing
<1> QED BY <1>2, <1>4, <1>7, <1>8 DEF PipeInv

\* A publisher task begins, fails to or ends.  It fails only before it has
\* written anything, and ends only with an empty channel.
LEMMA PublisherPipe ==
    ASSUME PipeInv, NEW a \in Assembly, OpenSocket(a) \/ OpenFails(a) \/ PublisherEnds(a)
    PROVE  PipeInv' /\ Fanned' = Fanned
<1>1. UNCHANGED <<issued, waiting, main, held, fanOut, fatal, written>>
  BY DEF OpenSocket, OpenFails, PublisherEnds
<1>2. TypeOK /\ WayInv /\ TypeOK'
  BY PublisherType DEF PipeInv
<1>3. Fanned' = Fanned
  BY <1>1 DEF Fanned, One
<1>4. \A c \in Assembly : c # a => publisher'[c] = publisher[c] /\ box'[c] = box[c]
  BY <1>2 DEF OpenSocket, OpenFails, PublisherEnds, TypeOK
<1>5. \/ /\ publisher[a] = "opening" /\ publisher'[a] = "running" /\ box'[a] = box[a]
      \/ /\ publisher[a] = "opening" /\ publisher'[a] = "failed" /\ box'[a] = << >>
      \/ /\ publisher[a] = "running" /\ publisher'[a] = "ended" /\ box'[a] = box[a]
         /\ fanOut = "ended" /\ box[a] = << >>
  BY <1>2 DEF OpenSocket, OpenFails, PublisherEnds, TypeOK
<1>6. \A n : For(n)' = For(n)
  BY <1>1 DEF For
<1>7. WayInv'
  <2>1. fanOut = "ended" => publisher'[For(fatal)] = "failed"
    BY <1>2, <1>4, <1>5, ForType DEF WayInv
  <2>2. One(held)' = One(held) /\ For(fatal)' = For(fatal)
    BY <1>1 DEF One, For
  <2> QED BY <1>1, <1>2, <1>3, <2>1, <2>2 DEF WayInv
<1>8. ASSUME NEW c \in Assembly, c # a PROVE ShareInv(c)'
  BY <1>1, <1>3, <1>4, <1>8, ShareKept DEF PipeInv
<1>9. ShareInv(a)'
  <2>1. ShareInv(a)
    BY DEF PipeInv
  <2>2. Len(<< >>) = 0
    OBVIOUS
  <2>3. CASE box'[a] = << >> /\ publisher'[a] = "failed" /\ written[a] = << >>
    BY <1>1, <2>2, <2>3 DEF ShareInv, Increasing
  <2>4. CASE box'[a] = box[a] /\ publisher[a] # "failed" /\ publisher'[a] \in {"running", "ended"}
             /\ (publisher'[a] = "ended" => box[a] = << >> /\ fanOut = "ended")
    <3>1. \A n : (IsWritten(a, n)' <=> IsWritten(a, n)) /\ (InBox(a, n)' <=> InBox(a, n))
      BY <1>1, <2>4 DEF IsWritten, InBox
    <3>2. \A n \in 1..Len(issued) : (IsWritten(a, n)' \/ InBox(a, n)') <=> (n <= Fanned' /\ For(n)' = a)
      BY <1>3, <1>6, <2>1, <2>4, <3>1 DEF ShareInv
    <3> QED BY <1>1, <2>1, <2>4, <3>2 DEF ShareInv, Increasing
  <2> QED BY <1>5, <2>1, <2>3, <2>4 DEF ShareInv
<1> QED BY <1>2, <1>3, <1>7, <1>8, <1>9 DEF PipeInv

\* The first of one increasing sequence goes to the end of another before it.
LEMMA MovesOn ==
    ASSUME NEW k \in Nat, NEW s \in Seq(1..k), NEW w \in Seq(1..k), s # << >>,
           Increasing(s), Increasing(w), \A i \in 1..Len(w), j \in 1..Len(s) : w[i] < s[j]
    PROVE  LET t == Tail(s)
               v == Append(w, Head(s))
           IN  /\ Increasing(t) /\ Increasing(v)
               /\ \A i \in 1..Len(v), j \in 1..Len(t) : v[i] < t[j]
               /\ \A m : (\E i \in DOMAIN v : v[i] = m) <=> (\E i \in DOMAIN w : w[i] = m) \/ m = Head(s)
               /\ \A m : (\E i \in DOMAIN s : s[i] = m) <=> (\E i \in DOMAIN t : t[i] = m) \/ m = Head(s)
<1> DEFINE t == Tail(s)
           h == s[1]
           v == Append(w, h)
<1>1. /\ Len(t) = Len(s) - 1 /\ Len(s) \in Nat \ {0} /\ DOMAIN t = 1..(Len(s) - 1) /\ DOMAIN s = 1..Len(s)
      /\ \A i \in 1..(Len(s) - 1) : t[i] = s[i + 1]
      /\ Head(s) = h /\ h \in 1..k /\ \A i \in 1..Len(s) : s[i] \in 1..k
  BY Shorter
<1>2. /\ Len(v) = Len(w) + 1 /\ Len(w) \in Nat /\ DOMAIN v = 1..(Len(w) + 1) /\ DOMAIN w = 1..Len(w)
      /\ \A i \in 1..Len(w) : v[i] = w[i] /\ w[i] \in 1..k
      /\ v[Len(w) + 1] = h
  BY <1>1, Longer
<1>3. \A i \in 1..Len(w) : w[i] < h
  BY <1>1
<1>4. \A j \in 1..Len(t) : h < t[j] /\ t[j] \in 1..k /\ \A i \in 1..Len(w) : w[i] < t[j]
  <2> SUFFICES ASSUME NEW j \in 1..Len(t)
               PROVE  h < t[j] /\ t[j] \in 1..k /\ \A i \in 1..Len(w) : w[i] < t[j]
    OBVIOUS
  <2> HIDE DEF t
  <2>1. t[j] = s[j + 1] /\ 1 \in 1..Len(s) /\ j + 1 \in 1..Len(s) /\ 1 < j + 1
    BY <1>1
  <2> QED BY <1>1, <2>1 DEF Increasing
<1> HIDE DEF t, h, v
<1>5. Increasing(t)
  <2> SUFFICES ASSUME NEW i \in 1..Len(t), NEW j \in 1..Len(t), i < j PROVE t[i] < t[j]
    BY DEF Increasing
  <2>1. i + 1 \in 1..Len(s) /\ j + 1 \in 1..Len(s) /\ i + 1 < j + 1
    BY <1>1
  <2>2. t[i] = s[i + 1] /\ t[j] = s[j + 1]
    BY <1>1
  <2>3. s[i + 1] < s[j + 1]
    BY <2>1 DEF Increasing
  <2> QED BY <2>2, <2>3
<1>6. Increasing(v)
  <2> SUFFICES ASSUME NEW i \in 1..Len(v), NEW j \in 1..Len(v), i < j PROVE v[i] < v[j]
    BY DEF Increasing
  <2>1. Len(v) = Len(w) + 1 /\ Len(w) \in Nat
    BY <1>2
  <2>2. i \in 1..Len(w) /\ (j \in 1..Len(w) \/ j = Len(w) + 1)
    <3>1. i \in 1..(Len(w) + 1) /\ j \in 1..(Len(w) + 1)
      BY <2>1, Zenon
    <3> QED BY <2>1, <3>1, Places, Zenon
  <2> QED BY <1>2, <1>3, <2>2 DEF Increasing
<1>7. \A i \in 1..Len(v), j \in 1..Len(t) : v[i] < t[j]
  <2> SUFFICES ASSUME NEW i \in 1..Len(v), NEW j \in 1..Len(t) PROVE v[i] < t[j]
    OBVIOUS
  <2>1. i \in 1..Len(w) \/ i = Len(w) + 1
    BY <1>2
  <2> QED BY <1>2, <1>4, <2>1
<1>8. ASSUME NEW m PROVE (\E i \in DOMAIN v : v[i] = m) <=> (\E i \in DOMAIN w : w[i] = m) \/ m = h
  <2>1. \A i : i \in DOMAIN v <=> i \in DOMAIN w \/ i = Len(w) + 1
    BY <1>2
  <2> QED BY <1>2, <2>1
<1>9. ASSUME NEW m PROVE (\E i \in DOMAIN s : s[i] = m) <=> (\E i \in DOMAIN t : t[i] = m) \/ m = h
  <2>1. ASSUME NEW i \in DOMAIN s, s[i] = m, i # 1 PROVE \E j \in DOMAIN t : t[j] = m
    <3>1. i \in 1..Len(s) /\ Len(s) \in Nat
      BY <1>1
    <3>2. i - 1 \in 1..(Len(s) - 1) /\ (i - 1) + 1 = i
      BY <2>1, <3>1
    <3>3. i - 1 \in DOMAIN t /\ t[i - 1] = s[i]
      BY <1>1, <3>2
    <3> QED BY <2>1, <3>3
  <2>2. ASSUME NEW i \in DOMAIN t, t[i] = m PROVE \E j \in DOMAIN s : s[j] = m
    <3>1. i + 1 \in DOMAIN s /\ t[i] = s[i + 1]
      BY <1>1
    <3> QED BY <2>2, <3>1
  <2>3. 1 \in DOMAIN s /\ s[1] = h
    BY <1>1 DEF h
  <2> QED BY <2>1, <2>2, <2>3
<1> QED BY <1>1, <1>5, <1>6, <1>7, <1>8, <1>9 DEF t, v

\* A publisher writes: the command moves from its channel to what is written.
LEMMA PublishPipe ==
    ASSUME PipeInv, NEW a \in Assembly, Publish(a)
    PROVE  PipeInv' /\ Fanned' = Fanned
<1>1. /\ publisher[a] = "running"
      /\ UNCHANGED <<issued, waiting, main, held, fanOut, publisher, fatal>>
  BY DEF Publish
<1>2. TypeOK /\ WayInv
  BY DEF PipeInv
<1> DEFINE s == box[a]
           w == written[a]
<1>3. /\ TypeOK'
      /\ s \in Seq(1..Len(issued)) /\ s # << >>
      /\ box'[a] = Tail(s) /\ written'[a] = Append(w, Head(s))
      /\ \A c \in Assembly : c # a => box'[c] = box[c] /\ written'[c] = written[c]
  <2>1. \A i \in DOMAIN box[a] : For(box[a][i]) = a
    BY BoxIsOwn
  <2> QED BY <1>2, <2>1, PublishType
<1>4. Fanned' = Fanned
  BY <1>1 DEF Fanned, One
<1>5. WayInv'
  <2>1. One(held)' = One(held) /\ For(fatal)' = For(fatal)
    BY <1>1 DEF One, For
  <2> QED BY <1>1, <1>2, <1>4, <2>1 DEF WayInv
<1>6. ASSUME NEW c \in Assembly, c # a PROVE ShareInv(c)'
  BY <1>1, <1>3, <1>4, <1>6, ShareKept DEF PipeInv
<1>7. ShareInv(a)'
  <2>1. ShareInv(a) /\ w \in Seq(1..Len(issued)) /\ Len(issued) \in Nat
    BY <1>2 DEF PipeInv, TypeOK
  <2>2. Increasing(s) /\ Increasing(w) /\ \A i \in 1..Len(w), j \in 1..Len(s) : w[i] < s[j]
    BY <2>1 DEF ShareInv
  <2> DEFINE t == box'[a]
             v == written'[a]
  <2>3. /\ Increasing(t) /\ Increasing(v)
        /\ \A i \in 1..Len(v), j \in 1..Len(t) : v[i] < t[j]
        /\ \A m : (\E i \in DOMAIN v : v[i] = m) <=> (\E i \in DOMAIN w : w[i] = m) \/ m = Head(s)
        /\ \A m : (\E i \in DOMAIN s : s[i] = m) <=> (\E i \in DOMAIN t : t[i] = m) \/ m = Head(s)
    <3> HIDE DEF s, w, t, v
    <3>1. t = Tail(s) /\ v = Append(w, Head(s))
      BY <1>3 DEF s, w, t, v
    <3>2. LET r == Tail(s)
              u == Append(w, Head(s))
          IN  /\ Increasing(r) /\ Increasing(u)
              /\ \A i \in 1..Len(u), j \in 1..Len(r) : u[i] < r[j]
              /\ \A m : (\E i \in DOMAIN u : u[i] = m) <=> (\E i \in DOMAIN w : w[i] = m) \/ m = Head(s)
              /\ \A m : (\E i \in DOMAIN s : s[i] = m) <=> (\E i \in DOMAIN r : r[i] = m) \/ m = Head(s)
      BY <1>3, <2>1, <2>2, MovesOn, Zenon
    <3> QED BY <3>1, <3>2, Zenon
  <2>4. \A n : (IsWritten(a, n)' \/ InBox(a, n)') <=> (IsWritten(a, n) \/ InBox(a, n))
    BY <2>3 DEF IsWritten, InBox
  <2>5. \A n \in 1..Len(issued) : (IsWritten(a, n)' \/ InBox(a, n)') <=> (n <= Fanned' /\ For(n)' = a)
    <3>1. \A n : For(n)' = For(n)
      BY <1>1 DEF For
    <3> QED BY <1>1, <1>4, <2>1, <2>4, <3>1 DEF ShareInv
  <2>6. Increasing(written[a])' /\ Increasing(box[a])'
    BY <2>3 DEF Increasing
  <2> QED BY <1>1, <2>3, <2>5, <2>6 DEF ShareInv
<1> QED BY <1>3, <1>4, <1>5, <1>6, <1>7 DEF PipeInv

\* The actuator has no share in this.
LEMMA MotorPipe ==
    ASSUME PipeInv, Obey \/ IgnoreCommand
    PROVE  PipeInv' /\ Fanned' = Fanned
<1>1. UNCHANGED <<issued, waiting, main, held, fanOut, box, publisher, fatal, written>>
  BY DEF Obey, IgnoreCommand, channelVars
<1>2. TypeOK' /\ WayInv
  BY MotorType DEF PipeInv
<1>3. Fanned' = Fanned /\ One(held)' = One(held) /\ For(fatal)' = For(fatal)
  BY <1>1 DEF Fanned, One, For
<1>4. WayInv'
  BY <1>1, <1>2, <1>3 DEF WayInv
<1> QED BY <1>1, <1>2, <1>3, <1>4, SharesKept DEF PipeInv

LEMMA InitPipe == Init => PipeInv
<1> SUFFICES ASSUME Init PROVE PipeInv
  OBVIOUS
<1>1. Len(<< >>) = 0 /\ DOMAIN << >> = {}
  OBVIOUS
<1>2. TypeOK
  BY InitType
<1>3. Fanned = 0
  BY <1>1 DEF Init, Fanned, One
<1>4. WayInv
  BY <1>1, <1>3 DEF Init, WayInv
<1>5. ASSUME NEW a \in Assembly PROVE ShareInv(a)
  <2>1. box[a] = << >> /\ written[a] = << >> /\ publisher[a] = "opening" /\ issued = << >>
    BY DEF Init
  <2> QED BY <1>1, <2>1 DEF ShareInv, Increasing
<1> QED BY <1>2, <1>4, <1>5 DEF PipeInv

LEMMA NextPipe == PipeInv /\ [Next]_vars => PipeInv'
<1> SUFFICES ASSUME PipeInv, [Next]_vars PROVE PipeInv'
  OBVIOUS
<1>1. CASE UNCHANGED vars
  <2>1. UNCHANGED <<issued, waiting, main, held, fanOut, box, publisher, fatal, written>> /\ UNCHANGED motorVars
    BY <1>1 DEF vars, channelVars
  <2>2. TypeOK' /\ WayInv
    BY <2>1 DEF PipeInv, TypeOK, motorVars
  <2>3. Fanned' = Fanned /\ One(held)' = One(held) /\ For(fatal)' = For(fatal)
    BY <2>1 DEF Fanned, One, For
  <2>4. WayInv'
    BY <2>1, <2>2, <2>3 DEF WayInv
  <2> QED BY <2>1, <2>2, <2>3, <2>4, SharesKept DEF PipeInv
<1>2. CASE Next
  BY <1>2, ExecutePipe, SendPipe, SendFailsPipe, ReceivePipe, FanOutSendPipe, FanOutEndsPipe,
     PublisherPipe, PublishPipe, MotorPipe, Zenon DEF Next
<1> QED BY <1>1, <1>2

LEMMA PipeCorrect == Spec => []PipeInv
  BY InitPipe, NextPipe, PTL DEF Spec

-----------------------------------------------------------------------------
(* The wiper's motor.                                                      *)

\* The kind of the last command the wiper's publisher wrote
LastKind == issued[written["Wiper"][Len(written["Wiper"])]]

\* While no frame is missed, the newest frame in the socket is that of the
\* last command written; if the socket is empty, the motor has obeyed it.
MotorInv ==
    ~missed =>
      /\ written["Wiper"] = << >> => motorBox = << >> /\ ~motor
      /\ written["Wiper"] # << >> =>
            /\ LastKind \in {"StartWiper", "StopWiper"}
            /\ motorBox = << >> => motor = (LastKind = "StartWiper")
            /\ motorBox # << >> => motorBox[Len(motorBox)] = LastKind

\* The last of a sequence without its first
LEMMA LastOfTail ==
    ASSUME NEW S, NEW s \in Seq(S), s # << >>
    PROVE  /\ Tail(s) = << >> => Head(s) = s[Len(s)]
           /\ Tail(s) # << >> => Tail(s)[Len(Tail(s))] = s[Len(s)]
<1>1. /\ Tail(s) \in Seq(S) /\ Len(Tail(s)) = Len(s) - 1 /\ Len(s) \in Nat \ {0} /\ Head(s) = s[1]
      /\ \A i \in 1..(Len(s) - 1) : Tail(s)[i] = s[i + 1]
  BY Shorter
<1>2. Tail(s) = << >> <=> Len(s) = 1
  BY <1>1
<1>3. CASE Len(s) = 1
  BY <1>1, <1>2, <1>3
<1>4. CASE Len(s) # 1
  <2>1. Len(s) - 1 \in 1..(Len(s) - 1) /\ (Len(s) - 1) + 1 = Len(s)
    BY <1>1, <1>4
  <2> QED BY <1>1, <1>2, <1>4, <2>1
<1> QED BY <1>3, <1>4

\* The last command written has a kind, if there is one.
LEMMA LastIsIssued ==
    ASSUME TypeOK, written["Wiper"] # << >>
    PROVE  written["Wiper"][Len(written["Wiper"])] \in 1..Len(issued)
<1>1. written["Wiper"] \in Seq(1..Len(issued))
  BY DEF TypeOK, Assembly
<1>2. Len(written["Wiper"]) \in Nat \ {0}
  BY <1>1
<1> QED BY <1>1, <1>2

\* Only the wiper's publisher and its actuator touch the motor.
LEMMA MotorKept ==
    ASSUME PipeInv, MotorInv, UNCHANGED motorVars, written' = written,
           issued' = issued \/ \E kind \in Kind : Execute(kind)
    PROVE  MotorInv'
<1>1. motorBox' = motorBox /\ motor' = motor /\ missed' = missed /\ TypeOK
  BY DEF motorVars, PipeInv
<1>2. written["Wiper"] # << >> => LastKind' = LastKind
  <2>1. CASE issued' = issued
    BY <2>1 DEF LastKind
  <2>2. ASSUME NEW kind \in Kind, Execute(kind), written["Wiper"] # << >> PROVE LastKind' = LastKind
    <3>1. \A i \in 1..Len(issued) : issued'[i] = issued[i]
      BY <1>1, <2>2, ExecuteType
    <3> QED BY <1>1, <2>2, <3>1, LastIsIssued DEF LastKind
  <2> QED BY <2>1, <2>2
<1> QED BY <1>1, <1>2 DEF MotorInv

\* A frame is written to the socket, and perhaps lost.
LEMMA WriteMotor ==
    ASSUME PipeInv, MotorInv, Publish("Wiper")
    PROVE  MotorInv'
<1> DEFINE h == Head(box["Wiper"])
           w == written["Wiper"]
<1>1. "Wiper" \in Assembly /\ TypeOK
  BY DEF Assembly, PipeInv
<1>2. /\ h \in 1..Len(issued)
      /\ written'["Wiper"] = Append(w, h)
      /\ issued[h] \in {"StartWiper", "StopWiper"}
      /\ motorBox' \in Received(motorBox, issued[h])
  <2>1. \A i \in DOMAIN box["Wiper"] : For(box["Wiper"][i]) = "Wiper"
    BY <1>1, BoxIsOwn
  <2> QED BY <1>1, <2>1, PublishType
<1>3. issued' = issued /\ (~missed' => motorBox' # motorBox)
  BY DEF Publish
<1>4. w \in Seq(1..Len(issued))
  BY <1>1 DEF TypeOK
<1>5. written'["Wiper"] # << >> /\ written'["Wiper"][Len(written'["Wiper"])] = h
  <2> HIDE DEF h, w
  <2>1. Len(Append(w, h)) = Len(w) + 1 /\ Len(w) \in Nat /\ Append(w, h)[Len(w) + 1] = h
    BY <1>2, <1>4, Longer
  <2>2. Append(w, h) # << >>
    BY <2>1
  <2> QED BY <1>2, <2>1, <2>2
<1>6. LastKind' = issued[h]
  BY <1>3, <1>5 DEF LastKind
<1>7. ~missed' => motorBox' # << >> /\ motorBox'[Len(motorBox')] = issued[h]
  BY <1>1, <1>2, <1>3, FrameType DEF TypeOK
<1> QED BY <1>2, <1>5, <1>6, <1>7 DEF MotorInv

\* The actuator obeys a frame.
LEMMA ObeyMotor ==
    ASSUME PipeInv, MotorInv, Obey
    PROVE  MotorInv'
<1>1. /\ motorBox # << >> /\ motorBox' = Tail(motorBox) /\ motor' = (Head(motorBox) = "StartWiper")
      /\ missed' = missed /\ written' = written /\ issued' = issued
  BY Zenon DEF Obey, channelVars
<1>2. LastKind' = LastKind
  BY <1>1 DEF LastKind
<1>3. /\ motorBox' = << >> => Head(motorBox) = motorBox[Len(motorBox)]
      /\ motorBox' # << >> => motorBox'[Len(motorBox')] = motorBox[Len(motorBox)]
  <2>1. motorBox \in Seq({"StartWiper", "StopWiper"})
    BY DEF PipeInv, TypeOK
  <2> QED BY <1>1, <2>1, LastOfTail
<1>4. ASSUME ~missed PROVE /\ written["Wiper"] # << >>
                           /\ LastKind \in {"StartWiper", "StopWiper"}
                           /\ motorBox[Len(motorBox)] = LastKind
  BY <1>1, <1>4 DEF MotorInv
<1>5. ASSUME ~missed, motorBox' = << >> PROVE motor' = (LastKind = "StartWiper")
  <2>1. Head(motorBox) = LastKind
    BY <1>3, <1>4, <1>5
  <2> QED BY <1>1, <2>1, Zenon
<1> QED BY <1>1, <1>2, <1>3, <1>4, <1>5, Zenon DEF MotorInv

LEMMA InitMotor == Init => MotorInv
  BY DEF Init, MotorInv, Assembly

LEMMA NextMotor == PipeInv /\ MotorInv /\ [Next]_vars => MotorInv'
<1> SUFFICES ASSUME PipeInv, MotorInv, [Next]_vars PROVE MotorInv'
  OBVIOUS
<1>1. ASSUME NEW kind \in Kind, Execute(kind) PROVE MotorInv'
  BY <1>1, MotorKept DEF Execute
<1>2. CASE Send \/ SendFails \/ FanOutReceive \/ FanOutSend \/ FanOutEnds
  BY <1>2, MotorKept DEF Send, SendFails, FanOutReceive, FanOutSend, FanOutEnds
<1>3. ASSUME NEW a \in Assembly, OpenSocket(a) \/ OpenFails(a) \/ PublisherEnds(a) PROVE MotorInv'
  BY <1>3, MotorKept DEF OpenSocket, OpenFails, PublisherEnds
<1>4. ASSUME NEW a \in Assembly, Publish(a) PROVE MotorInv'
  <2>1. CASE a = "Wiper"
    BY <1>4, <2>1, WriteMotor
  <2>2. CASE a # "Wiper"
    <3>1. motorBox' = motorBox /\ missed' = missed /\ motor' = motor /\ issued' = issued
      BY <1>4, <2>2 DEF Publish
    <3>2. written'["Wiper"] = written["Wiper"]
      BY <1>4, <2>2 DEF Publish, PipeInv, TypeOK, Assembly
    <3>3. LastKind' = LastKind
      BY <3>1, <3>2 DEF LastKind
    <3> QED BY <3>1, <3>2, <3>3 DEF MotorInv
  <2> QED BY <2>1, <2>2
<1>5. CASE IgnoreCommand
  BY <1>5 DEF IgnoreCommand, MotorInv
<1>6. CASE UNCHANGED vars
  BY <1>6, MotorKept DEF vars, channelVars
<1> QED BY <1>1, <1>2, <1>3, <1>4, <1>5, <1>6, ObeyMotor, Zenon DEF Next

-----------------------------------------------------------------------------
(* The theorems.                                                           *)

\* The tasks' variables hold what the code's types allow, and no channel ever
\* holds more commands than its capacity.
THEOREM TypeCorrect == Spec => []TypeOK
<1>1. PipeInv => TypeOK
  BY DEF PipeInv
<1> QED BY <1>1, PipeCorrect, PTL

\* A publisher task that fails silences both assemblies from the next command
\* for its own on (spawn_fan_out, spawn_assembly_publisher): what was issued
\* before is written or still will be, what is issued later never is.
THEOREM SilenceCorrect == Spec => []SilencedFromFatalOn
<1>1. PipeInv => SilencedFromFatalOn
  <2> SUFFICES ASSUME PipeInv, fanOut = "ended"
               PROVE  /\ publisher[For(fatal)] = "failed"
                      /\ \A n \in 1..Len(issued) :
                            publisher[For(n)] # "failed" =>
                               (IsWritten(For(n), n) \/ InBox(For(n), n) <=> n < fatal)
    BY DEF SilencedFromFatalOn
  <2>1. publisher[For(fatal)] = "failed" /\ Fanned = fatal - 1 /\ fatal \in 1..Len(issued)
    BY DEF PipeInv, WayInv, Fanned, TypeOK
  <2>2. ASSUME NEW n \in 1..Len(issued), publisher[For(n)] # "failed"
        PROVE  IsWritten(For(n), n) \/ InBox(For(n), n) <=> n < fatal
    <3>1. IsWritten(For(n), n) \/ InBox(For(n), n) <=> n <= Fanned
      BY <2>2, ForType DEF PipeInv, ShareInv
    <3>2. n <= Fanned <=> n < fatal
      BY <2>1
    <3> QED BY <3>1, <3>2, Zenon
  <2> QED BY <2>1, <2>2
<1> QED BY <1>1, PipeCorrect, PTL

\* With nothing on the way and no frame missed, the wiper's motor runs exactly
\* if the last wiper command issued is a start.
THEOREM MotorCorrect == Spec => []MotorFollowsCommands
<1>1. PipeInv /\ MotorInv => MotorFollowsCommands
  <2> SUFFICES ASSUME PipeInv, MotorInv, WiperQuiet, fanOut = "running",
                      publisher["Wiper"] = "running", ~missed
               PROVE  motor = \E n \in 1..Len(issued) :
                                 /\ issued[n] = "StartWiper"
                                 /\ \A m \in (n + 1)..Len(issued) : issued[m] # "StopWiper"
    BY Zenon DEF MotorFollowsCommands
  <2> DEFINE w == written["Wiper"]
             started == \E n \in 1..Len(issued) :
                           /\ issued[n] = "StartWiper"
                           /\ \A m \in (n + 1)..Len(issued) : issued[m] # "StopWiper"
  <2>1. TypeOK /\ ShareInv("Wiper") /\ w \in Seq(1..Len(issued)) /\ Len(issued) \in Nat /\ issued \in Seq(Kind)
    BY DEF PipeInv, TypeOK, Assembly
  <2>2. Fanned = Len(issued)
    <3>1. Len(main) = 0 /\ One(waiting) = 0 /\ One(held) = 0
      BY DEF WiperQuiet, One
    <3> QED BY <2>1, <3>1 DEF Fanned
  <2>3. \A n \in 1..Len(issued) : ~InBox("Wiper", n)
    <3>1. DOMAIN box["Wiper"] = {}
      BY DEF WiperQuiet
    <3> QED BY <3>1 DEF InBox
  <2>4. \A n \in 1..Len(issued) : issued[n] \in {"StartWiper", "StopWiper"} => \E i \in 1..Len(w) : w[i] = n
    <3> SUFFICES ASSUME NEW n \in 1..Len(issued), issued[n] \in {"StartWiper", "StopWiper"}
                 PROVE  \E i \in 1..Len(w) : w[i] = n
      OBVIOUS
    <3>1. For(n) = "Wiper"
      BY DEF For, AssemblyOf
    <3>2. IsWritten("Wiper", n)
      BY <2>1, <2>2, <2>3, <3>1 DEF ShareInv
    <3> QED BY <2>1, <3>2 DEF IsWritten
  <2>5. CASE w = << >>
    <3>1. motor = FALSE
      BY <2>1, <2>5 DEF MotorInv, TypeOK
    <3>2. ~started
      BY <2>4, <2>5
    <3> HIDE DEF started
    <3> QED BY <3>1, <3>2, Zenon DEF started
  <2>6. CASE w # << >>
    <3> DEFINE last == w[Len(w)]
    <3>1. last \in 1..Len(issued) /\ Len(w) \in Nat \ {0}
      BY <2>1, <2>6
    <3>2. /\ issued[last] \in {"StartWiper", "StopWiper"}
          /\ motor = (issued[last] = "StartWiper")
      BY <2>6, Zenon DEF MotorInv, LastKind, WiperQuiet
    <3>3. ASSUME NEW n \in 1..Len(issued), issued[n] \in {"StartWiper", "StopWiper"} PROVE n <= last
      <4>1. PICK i \in 1..Len(w) : w[i] = n
        BY <2>4, <3>3
      <4>2. i = Len(w) \/ i < Len(w)
        BY <3>1
      <4> QED BY <2>1, <3>1, <4>1, <4>2 DEF ShareInv, Increasing
    <3> HIDE DEF last
    <3>4. issued[last] = "StartWiper" => started
      <4>1. SUFFICES ASSUME issued[last] = "StartWiper"
                     PROVE  \A m \in (last + 1)..Len(issued) : issued[m] # "StopWiper"
        BY <3>1
      <4>2. \A m \in (last + 1)..Len(issued) : m \in 1..Len(issued) /\ ~(m <= last)
        BY <2>1, <3>1
      <4> QED BY <3>3, <4>2
    <3>5. started => issued[last] = "StartWiper"
      <4> SUFFICES ASSUME NEW n \in 1..Len(issued), issued[n] = "StartWiper",
                          \A m \in (n + 1)..Len(issued) : issued[m] # "StopWiper"
                   PROVE  issued[last] = "StartWiper"
        OBVIOUS
      <4>1. n <= last
        BY <3>3
      <4>2. n = last \/ last \in (n + 1)..Len(issued)
        BY <2>1, <3>1, <4>1
      <4> QED BY <3>2, <4>2
    <3> HIDE DEF started
    <3> QED BY <3>2, <3>4, <3>5, Zenon DEF started
  <2> QED BY <2>5, <2>6
<1>2. Init => MotorInv
  BY InitMotor
<1> QED BY <1>1, <1>2, NextMotor, PipeCorrect, PTL DEF Spec

-----------------------------------------------------------------------------
(* The refinement.                                                         *)

\* What a publisher writes is the next command of its assembly.
LEMMA WritesNext ==
    ASSUME PipeInv, NEW a \in Assembly, publisher[a] # "failed", box[a] # << >>
    PROVE  Relay!IsNext(a, Head(box[a]))
<1> DEFINE s == box[a]
           w == written[a]
           h == s[1]
           last == Relay!LastDelivered(a)
<1>1. /\ TypeOK /\ ShareInv(a) /\ Len(issued) \in Nat
      /\ s \in Seq(1..Len(issued)) /\ w \in Seq(1..Len(issued)) /\ s # << >>
  BY DEF PipeInv, TypeOK
<1>2. /\ Head(s) = h /\ 1 \in DOMAIN s /\ h \in 1..Len(issued)
      /\ Len(s) \in Nat \ {0} /\ DOMAIN s = 1..Len(s) /\ \A i \in 1..Len(s) : s[i] \in 1..Len(issued)
  BY <1>1, Shorter
<1>3. For(h) = a /\ h <= Fanned
  BY <1>2, BoxIsOwn
<1>4. /\ last = IF w = << >> THEN 0 ELSE w[Len(w)]
      /\ Len(w) \in Nat /\ DOMAIN w = 1..Len(w) /\ \A i \in 1..Len(w) : w[i] \in 1..Len(issued)
      /\ w # << >> => Len(w) \in 1..Len(w)
      /\ w = << >> => Len(w) = 0
  BY <1>1 DEF Relay!LastDelivered
<1>5. h > last
  <2>1. CASE w = << >>
    BY <1>2, <1>4, <2>1
  <2>2. CASE w # << >>
    <3>1. w[Len(w)] < s[1]
      BY <1>1, <1>2, <1>4, <2>2 DEF ShareInv
    <3> QED BY <1>2, <1>4, <2>2, <3>1
  <2> QED BY <2>1, <2>2
<1>6. ASSUME NEW m \in 1..Len(issued), last < m, m < h, For(m) = a PROVE FALSE
  <2>1. m <= Fanned
    <3>1. Fanned \in Nat
      BY DEF PipeInv, WayInv
    <3> QED BY <1>2, <1>3, <1>6, <3>1
  <2>2. IsWritten(a, m) \/ InBox(a, m)
    BY <1>1, <1>6, <2>1 DEF ShareInv
  <2>3. CASE IsWritten(a, m)
    <3>1. PICK i \in 1..Len(w) : w[i] = m
      BY <1>4, <2>3 DEF IsWritten
    <3>2. w # << >> /\ last = w[Len(w)] /\ last \in 1..Len(issued)
      BY <1>4, <3>1
    <3>3. i = Len(w) \/ i < Len(w)
      BY <1>4
    <3>4. i < Len(w) => w[i] < w[Len(w)]
      BY <1>1, <1>4, <3>2 DEF ShareInv, Increasing
    <3> QED BY <1>6, <3>1, <3>2, <3>3, <3>4
  <2>4. CASE InBox(a, m)
    <3>1. PICK i \in 1..Len(s) : s[i] = m
      BY <1>2, <2>4 DEF InBox
    <3>2. i = 1 \/ s[1] < s[i]
      BY <1>1, <1>2 DEF ShareInv, Increasing
    <3> QED BY <1>2, <1>6, <3>1, <3>2
  <2> QED BY <2>2, <2>3, <2>4
<1> HIDE DEF s, w, h, last
<1>7. Relay!IsNext(a, h)
  BY <1>2, <1>3, <1>5, <1>6 DEF Relay!IsNext, For, last
<1> QED BY <1>2, <1>7 DEF s

\* The assemblies that are cut off
Cut == {a \in Assembly : publisher[a] \in {"failed", "ended"}}

\* Every step is one of CommandRelay's, or leaves its variables alone.
LEMMA NextRelays ==
    ASSUME PipeInv, [Next]_vars
    PROVE  [Relay!Next]_(Relay!vars)
<1> USE DEF Cut
<1>1. ASSUME NEW kind \in Kind, Execute(kind) PROVE Relay!Next
  BY <1>1 DEF Execute, Relay!Next, Relay!Issue
<1>2. ASSUME UNCHANGED <<issued, written, publisher>> PROVE UNCHANGED Relay!vars
  BY <1>2 DEF Relay!vars
<1>3. CASE Send \/ SendFails \/ FanOutReceive \/ FanOutSend \/ FanOutEnds \/ Obey \/ IgnoreCommand
  BY <1>2, <1>3 DEF Send, SendFails, FanOutReceive, FanOutSend, FanOutEnds, Obey, IgnoreCommand, channelVars
<1>4. ASSUME NEW a \in Assembly, OpenSocket(a) PROVE UNCHANGED Relay!vars
  <2>1. Cut' = Cut
    BY <1>4 DEF OpenSocket, PipeInv, TypeOK
  <2> QED BY <1>4, <2>1 DEF OpenSocket, Relay!vars
<1>5. ASSUME NEW a \in Assembly, OpenFails(a) \/ PublisherEnds(a) PROVE Relay!Next
  <2>1. Cut' = Cut \cup {a}
    BY <1>5 DEF OpenFails, PublisherEnds, PipeInv, TypeOK
  <2>2. Relay!CutOff(a)
    BY <1>5, <2>1 DEF OpenFails, PublisherEnds, Relay!CutOff
  <2> QED BY <2>2 DEF Relay!Next
<1>6. ASSUME NEW a \in Assembly, Publish(a) PROVE Relay!Next
  <2> DEFINE h == Head(box[a])
  <2>1. /\ publisher[a] = "running" /\ box[a] # << >> /\ publisher' = publisher /\ issued' = issued
        /\ written' = [written EXCEPT ![a] = Append(@, h)]
    BY <1>6 DEF Publish
  <2>2. Relay!IsNext(a, h)
    BY <2>1, WritesNext
  <2>3. h \in 1..Len(issued)
    BY <2>2 DEF Relay!IsNext
  <2> HIDE DEF h
  <2>4. a \notin Cut /\ Cut' = Cut
    BY <2>1
  <2>5. Relay!Deliver(a, h)
    BY <2>1, <2>2, <2>4 DEF Relay!Deliver
  <2> QED BY <2>3, <2>5 DEF Relay!Next
<1>7. CASE UNCHANGED vars
  BY <1>2, <1>7 DEF vars, channelVars
<1> QED BY <1>1, <1>3, <1>4, <1>5, <1>6, <1>7, Zenon DEF Next

\* The gateway relays the commands of an assembly in order, each once and none
\* left out, until the assembly is cut off, whatever the three channels and
\* tasks do in between.
THEOREM RelayCorrect == Spec => ImplementsCommandRelay
<1>1. Init => Relay!Init
  BY DEF Init, Relay!Init
<1> QED BY <1>1, NextRelays, PipeCorrect, PTL DEF Spec, ImplementsCommandRelay, Relay!Spec
=============================================================================
