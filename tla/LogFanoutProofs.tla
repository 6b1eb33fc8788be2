--------------------------- MODULE LogFanoutProofs ---------------------------
(***************************************************************************)
(* NoTornLine and ShownOnceInOrder for every capacity of the channels and  *)
(* every number of lines, from LogAssumption: the buffer ring is larger    *)
(* than what the two channels, the pipe and the handler can hold.  And     *)
(* what the history ring returns, for every size of it.                    *)
(***************************************************************************)
EXTENDS LogFanout, TLAPS

USE DEF writer, buffers, session

(* The ring arithmetic: going back less than a full round from i does not  *)
(* reach i, stays in the ring, and one step forward undoes one step back.  *)
LEMMA SlotBackFacts ==
  ASSUME NEW i \in Slot, NEW d \in Nat, d >= 1, d <= BufRing - 1
  PROVE  /\ SlotBack(i, d) \in Slot
         /\ SlotBack(i, d) # i
         /\ d + 1 <= BufRing - 1 => SlotBack(Advance(i, TRUE), d + 1) = SlotBack(i, d)
BY LogAssumption DEF SlotBack, Advance, Slot

LEMMA AdvanceFacts ==
  ASSUME NEW i \in Slot
  PROVE  /\ Advance(i, TRUE) \in Slot
         /\ SlotBack(Advance(i, TRUE), 1) = i
BY LogAssumption DEF SlotBack, Advance, Slot

(* What a stream can have in flight.                                       *)
LEMMA InFlight ==
  ASSUME TypeOK, Hops, NEW st \in Stream
  PROVE  sent[st] - done[st] <= BufRing - 1
<1>1. /\ \A s \in Stream : {sent[s], piped[s], put[s], recv[s], done[s]} \subseteq Nat
      /\ ChanCap \in Nat /\ MergedCap \in Nat /\ BufRing \in Nat
  BY LogAssumption DEF TypeOK, CountersOK
<1>2. put[st] - recv[st] <= MergedCap
  BY <1>1 DEF Hops, InMerged, Stream
<1> QED BY <1>1, <1>2, LogAssumption DEF Hops

(* One line more fits the bound MaxLines, so its number is in the domain.  *)
LEMMA NextLine ==
  ASSUME TypeOK, Hops, NEW st \in Stream, WriteLine(st)
  PROVE  lines[st] + 1 \in 1..MaxLines /\ sent[st] + 1 \in 1..MaxLines
<1>1. \A s \in Stream : lines[s] \in Nat /\ sent[s] \in Nat
  BY Zenon DEF TypeOK, CountersOK
<1>2. lines["stdout"] + lines["stderr"] < MaxLines BY Zenon DEF WriteLine
<1>3. lines[st] < MaxLines /\ sent[st] <= lines[st]
  BY <1>1, <1>2, LogAssumption DEF Hops, Stream
<1> QED BY <1>1, <1>3, LogAssumption

(* Every step keeps the types.                                             *)
LEMMA TypeStep == TypeOK /\ Hops /\ [Next]_vars => TypeOK'
<1> SUFFICES ASSUME TypeOK, Hops, [Next]_vars PROVE TypeOK'
  BY Zenon
<1>1. CASE UNCHANGED vars
  BY Zenon, <1>1 DEF vars, TypeOK, CountersOK, RingOK, BuffersOK
<1>2. ASSUME NEW st \in Stream, WriteLine(st) PROVE TypeOK'
  <2> DEFINE room == sent[st] - piped[st] < ChanCap
             n == lines[st] + 1
  <2>0. n \in Nat /\ n \in 1..MaxLines /\ sent[st] + 1 \in Nat /\ sent[st] + 1 \in 1..MaxLines
    BY <1>2, NextLine DEF TypeOK, CountersOK
  <2>1. FanOut(st, n) \/ UNCHANGED <<buffers, sent>> BY Zenon, <1>2 DEF WriteLine
  <2>2. CountersOK'
    <3>1. sent' = [sent EXCEPT ![st] = sent[st] + 1] \/ UNCHANGED sent BY Zenon, <2>1 DEF FanOut
    <3>2. sent' \in [Stream -> Nat] BY Zenon, <2>0, <3>1 DEF TypeOK, CountersOK
    <3>3. lines' \in [Stream -> Nat] BY Zenon, <1>2, <2>0 DEF WriteLine, TypeOK, CountersOK
    <3> QED BY Zenon, <1>2, <3>2, <3>3 DEF WriteLine, TypeOK, CountersOK
  <2>3. RingOK'
    <3>1. ring' = [ring EXCEPT ![st] = [ring[st] EXCEPT ![ringPos[st]] = n]]
      BY Zenon, <1>2 DEF WriteLine, RingWrite
    <3>2. [ring[st] EXCEPT ![ringPos[st]] = n] \in [0..(History - 1) -> Nat]
      BY Zenon, <2>0 DEF TypeOK, RingOK
    <3>3. ring' \in [Stream -> [0..(History - 1) -> Nat]] BY Zenon, <3>1, <3>2 DEF TypeOK, RingOK
    <3>4. (IF ringPos[st] + 1 >= History THEN 0 ELSE ringPos[st] + 1) \in 0..(History - 1)
      BY LogAssumption DEF TypeOK, RingOK
    <3>5. ringPos' \in [Stream -> 0..(History - 1)]
      BY Zenon, <1>2, <3>4 DEF WriteLine, RingWrite, TypeOK, RingOK
    <3>6. ringFull' \in [Stream -> BOOLEAN]
      BY Zenon, <1>2 DEF WriteLine, RingWrite, TypeOK, RingOK
    <3> QED BY Zenon, <3>3, <3>5, <3>6 DEF RingOK
  <2>4. BuffersOK'
    <3>1. CASE FanOut(st, n)
      <4>1. Advance(bufIdx[st], room) \in Slot
        <5>1. bufIdx[st] \in Slot BY Zenon DEF TypeOK, BuffersOK
        <5> QED BY <5>1, LogAssumption DEF Advance, Slot
      <4>2. bufIdx' \in [Stream -> Slot]
        BY Zenon, <3>1, <4>1 DEF FanOut, TypeOK, BuffersOK
      <4>3. [bufs[st] EXCEPT ![bufIdx[st]] = n] \in [Slot -> Nat]
        BY Zenon, <2>0 DEF TypeOK, BuffersOK
      <4>4. bufs' = [bufs EXCEPT ![st] = [bufs[st] EXCEPT ![bufIdx[st]] = n]]
        BY Zenon, <3>1 DEF FanOut
      <4>5. bufs' \in [Stream -> [Slot -> Nat]] BY Zenon, <4>3, <4>4 DEF TypeOK, BuffersOK
      <4>6. /\ [slotOf[st] EXCEPT ![sent[st] + 1] = bufIdx[st]] \in [1..MaxLines -> Slot]
            /\ [lineOf[st] EXCEPT ![sent[st] + 1] = n] \in [1..MaxLines -> Nat]
        BY Zenon, <2>0 DEF TypeOK, BuffersOK
      <4>7. \/ UNCHANGED <<slotOf, lineOf>>
            \/ /\ slotOf' = [slotOf EXCEPT ![st] = [slotOf[st] EXCEPT ![sent[st] + 1] = bufIdx[st]]]
               /\ lineOf' = [lineOf EXCEPT ![st] = [lineOf[st] EXCEPT ![sent[st] + 1] = n]]
        BY Zenon, <3>1 DEF FanOut
      <4>8. slotOf' \in [Stream -> [1..MaxLines -> Slot]]
        BY Zenon, <4>6, <4>7 DEF TypeOK, BuffersOK
      <4>9. lineOf' \in [Stream -> [1..MaxLines -> Nat]]
        BY Zenon, <4>6, <4>7 DEF TypeOK, BuffersOK
      <4> QED BY Zenon, <4>2, <4>5, <4>8, <4>9 DEF BuffersOK
    <3>2. CASE UNCHANGED <<buffers, sent>> BY Zenon, <3>2 DEF TypeOK, BuffersOK
    <3> QED BY Zenon, <2>1, <3>1, <3>2
  <2> QED BY Zenon, <1>2, <2>2, <2>3, <2>4 DEF WriteLine, TypeOK
<1>3. ASSUME NEW st \in Stream, Recent(st) PROVE TypeOK'
  <2>1. step' \in 1..4
    <3>1. step # 4 BY <1>3 DEF Recent, At, LogsSteps
    <3> QED BY <1>3, <3>1 DEF Recent, TypeOK
  <2>2. recent' \in [Stream -> Nat \cup {NotRead}] /\ shown' \in [Stream -> Nat]
    BY Zenon, <1>3 DEF Recent, TypeOK, CountersOK
  <2> QED BY Zenon, <1>3, <2>1, <2>2 DEF Recent, TypeOK, CountersOK, RingOK, BuffersOK
<1>4. ASSUME NEW st \in Stream, Subscribe(st) PROVE TypeOK'
  <2>1. step' \in 1..4
    <3>1. step # 4 BY <1>4 DEF Subscribe, At, LogsSteps
    <3> QED BY <1>4, <3>1 DEF Subscribe, TypeOK
  <2>2. subscribed' \in [Stream -> BOOLEAN] BY Zenon, <1>4 DEF Subscribe, TypeOK
  <2> QED BY Zenon, <1>4, <2>1, <2>2 DEF Subscribe, TypeOK, CountersOK, RingOK, BuffersOK
<1>5. ASSUME NEW st \in Stream, PipeTake(st) \/ PipePut(st) \/ HandlerTake(st) PROVE TypeOK'
  <2>1. piped' \in [Stream -> Nat] /\ put' \in [Stream -> Nat] /\ recv' \in [Stream -> Nat]
    BY <1>5 DEF PipeTake, PipePut, HandlerTake, TypeOK, CountersOK
  <2> QED
    BY Zenon, <1>5, <2>1 DEF PipeTake, PipePut, HandlerTake, TypeOK, CountersOK, RingOK, BuffersOK
<1>6. ASSUME NEW st \in Stream, HandlerWrite(st) PROVE TypeOK'
  <2>1. recv[st] \in 1..MaxLines
    <3>1. \A s \in Stream : {lines[s], sent[s], piped[s], put[s], recv[s], done[s]} \subseteq Nat
      BY DEF TypeOK, CountersOK
    <3>2. lines[st] <= MaxLines BY <3>1, LogAssumption DEF Hops, Stream
    <3>3. done[st] < recv[st] BY Zenon, <1>6 DEF HandlerWrite
    <3>4. recv[st] <= put[st] /\ put[st] <= piped[st] /\ piped[st] <= sent[st] /\ sent[st] <= lines[st]
      BY Zenon DEF Hops
    <3>5. {lines[st], sent[st], piped[st], put[st], recv[st], done[st]} \subseteq Nat BY Zenon, <3>1
    <3> QED BY <3>2, <3>3, <3>4, <3>5, LogAssumption
  <2>2. bufs[st][slotOf[st][recv[st]]] \in Nat
    <3>1. slotOf[st] \in [1..MaxLines -> Slot] /\ bufs[st] \in [Slot -> Nat]
      BY Zenon DEF TypeOK, BuffersOK
    <3>2. slotOf[st][recv[st]] \in Slot BY Zenon, <2>1, <3>1
    <3> QED BY Zenon, <3>1, <3>2
  <2>3. done' \in [Stream -> Nat] /\ shown' \in [Stream -> Nat]
    BY <1>6, <2>2 DEF HandlerWrite, TypeOK, CountersOK
  <2> QED BY Zenon, <1>6, <2>3 DEF HandlerWrite, TypeOK, CountersOK, RingOK, BuffersOK
<1>7. CASE Unsubscribe
  <2>1. step' \in 1..4
    <3>1. step # 4 BY <1>7 DEF Unsubscribe, At, LogsSteps
    <3> QED BY <1>7, <3>1 DEF Unsubscribe, TypeOK
  <2> QED BY Zenon, <1>7, <2>1 DEF Unsubscribe, TypeOK, CountersOK, RingOK, BuffersOK
<1> QED BY Zenon, <1>1, <1>2, <1>3, <1>4, <1>5, <1>6, <1>7 DEF Next

(* Every step keeps the hops in order and within their capacities.         *)
LEMMA HopsStep == TypeOK /\ Hops /\ [Next]_vars => Hops'
<1> SUFFICES ASSUME TypeOK, Hops, [Next]_vars PROVE Hops'
  BY Zenon
<1> USE DEF InMerged
<1>0. CountersOK BY Zenon DEF TypeOK
<1>1. CASE UNCHANGED vars
  BY Zenon, <1>1 DEF vars, Hops
<1>2. ASSUME NEW st \in Stream, WriteLine(st) PROVE Hops'
  <2>1. lines' = [lines EXCEPT ![st] = lines[st] + 1] /\ UNCHANGED <<piped, put, recv, done>>
    BY Zenon, <1>2 DEF WriteLine
  <2>2. \/ UNCHANGED sent
        \/ sent' = [sent EXCEPT ![st] = sent[st] + 1] /\ sent[st] - piped[st] < ChanCap
    BY Zenon, <1>2 DEF WriteLine, FanOut
  <2>3. lines["stdout"] + lines["stderr"] < MaxLines BY Zenon, <1>2 DEF WriteLine
  <2>4. lines'["stdout"] + lines'["stderr"] <= MaxLines
    BY <1>0, <2>1, <2>3, LogAssumption DEF CountersOK, Stream
  <2>5. ASSUME NEW t \in Stream
        PROVE  piped[t] <= sent'[t] /\ sent'[t] <= piped[t] + ChanCap /\ sent'[t] <= lines'[t]
    BY <1>0, <2>1, <2>2, LogAssumption DEF Hops, CountersOK
  <2> QED BY Zenon, <2>1, <2>4, <2>5 DEF Hops
<1>3. ASSUME NEW st \in Stream, Recent(st) \/ Subscribe(st) PROVE Hops'
  BY Zenon, <1>3 DEF Recent, Subscribe, Hops
<1>4. ASSUME NEW st \in Stream, PipeTake(st) PROVE Hops'
  <2>1. UNCHANGED <<lines, sent, put, recv, done>> BY Zenon, <1>4 DEF PipeTake
  <2>2. ASSUME NEW t \in Stream
        PROVE  /\ put[t] <= piped'[t] /\ piped'[t] <= put[t] + 1 /\ piped'[t] <= sent[t]
               /\ sent[t] <= piped'[t] + ChanCap
    BY <1>0, <1>4, LogAssumption DEF PipeTake, Hops, CountersOK
  <2> QED BY Zenon, <2>1, <2>2 DEF Hops
<1>5. ASSUME NEW st \in Stream, PipePut(st) PROVE Hops'
  <2>1. UNCHANGED <<lines, sent, piped, recv, done>> BY Zenon, <1>5 DEF PipePut
  <2>2. ASSUME NEW t \in Stream
        PROVE  recv[t] <= put'[t] /\ put'[t] <= piped[t] /\ piped[t] <= put'[t] + 1
    BY <1>0, <1>5 DEF PipePut, Hops, CountersOK
  <2>3. InMerged' <= MergedCap
    BY <1>0, <1>5, LogAssumption DEF PipePut, CountersOK, Stream
  <2> QED BY Zenon, <2>1, <2>2, <2>3 DEF Hops
<1>6. ASSUME NEW st \in Stream, HandlerTake(st) PROVE Hops'
  <2>1. UNCHANGED <<lines, sent, piped, put, done>> BY Zenon, <1>6 DEF HandlerTake
  <2>2. ASSUME NEW t \in Stream
        PROVE  done[t] <= recv'[t] /\ recv'[t] <= done[t] + 1 /\ recv'[t] <= put[t]
    BY <1>0, <1>6 DEF HandlerTake, Hops, CountersOK
  <2>3. recv'["stdout"] + recv'["stderr"] = recv["stdout"] + recv["stderr"] + 1
    BY <1>0, <1>6 DEF HandlerTake, CountersOK, Stream
  <2>4. /\ {put["stdout"], put["stderr"], recv["stdout"], recv["stderr"]} \subseteq Nat
        /\ {recv'["stdout"], recv'["stderr"]} \subseteq Nat
    BY <1>0, <1>6 DEF HandlerTake, CountersOK, Stream
  <2>5. InMerged' <= MergedCap
    BY <2>1, <2>3, <2>4, LogAssumption DEF Hops
  <2> QED BY Zenon, <2>1, <2>2, <2>5 DEF Hops
<1>7. ASSUME NEW st \in Stream, HandlerWrite(st) PROVE Hops'
  <2>1. UNCHANGED <<lines, sent, piped, put, recv>> BY Zenon, <1>7 DEF HandlerWrite
  <2>2. ASSUME NEW t \in Stream
        PROVE  done'[t] <= recv[t] /\ recv[t] <= done'[t] + 1
    BY <1>0, <1>7 DEF HandlerWrite, Hops, CountersOK
  <2> QED BY Zenon, <2>1, <2>2 DEF Hops
<1>8. CASE Unsubscribe
  BY Zenon, <1>8 DEF Unsubscribe, Hops
<1> QED BY Zenon, <1>1, <1>2, <1>3, <1>4, <1>5, <1>6, <1>7, <1>8 DEF Next

(* Every step keeps the slots and the lines in them: a write lands in a    *)
(* slot no line in flight is in.                                           *)
LEMMA SlotsStep == TypeOK /\ IInv /\ [Next]_vars => Slots' /\ NoTornLine'
<1> SUFFICES ASSUME TypeOK, IInv, [Next]_vars PROVE Slots' /\ NoTornLine'
  BY Zenon
<1> USE DEF IInv
<1>0. TypeOK' /\ Hops' BY Zenon, TypeStep, HopsStep
<1>1. CASE UNCHANGED <<bufs, bufIdx, slotOf, lineOf, sent>> /\ \A st \in Stream : done'[st] >= done[st]
  BY <1>0, <1>1 DEF Slots, NoTornLine, TypeOK, CountersOK
<1>2. ASSUME NEW st \in Stream, WriteLine(st) PROVE Slots' /\ NoTornLine'
  <2>1. CASE ~subscribed[st]
    BY <1>1, <1>2, <2>1 DEF WriteLine, TypeOK, CountersOK
  <2>2. CASE subscribed[st]
    <3> DEFINE n == lines[st] + 1
               room == sent[st] - piped[st] < ChanCap
               i == bufIdx[st]
               m == sent[st] + 1
    <3>1. FanOut(st, n) /\ UNCHANGED done BY Zenon, <1>2, <2>2 DEF WriteLine
    <3>2. i \in Slot /\ m \in 1..MaxLines /\ n \in Nat /\ done[st] \in Nat /\ sent[st] \in Nat
      <4>1. i \in Slot BY Zenon DEF TypeOK, BuffersOK
      <4>2. lines[st] \in Nat /\ done[st] \in Nat /\ sent[st] \in Nat BY Zenon DEF TypeOK, CountersOK
      <4>3. m \in 1..MaxLines BY Zenon, <1>2, NextLine
      <4> QED BY <4>1, <4>2, <4>3
    <3>3. bufs' = [bufs EXCEPT ![st][i] = n] /\ bufIdx' = [bufIdx EXCEPT ![st] = Advance(i, room)]
      BY Zenon, <3>1 DEF FanOut
    <3>4. ASSUME NEW t \in Stream \ {st}, NEW k \in 1..MaxLines, done'[t] < k, k <= sent'[t]
          PROVE  /\ slotOf'[t][k] = SlotBack(bufIdx'[t], (sent'[t] + 1) - k)
                 /\ bufs'[t][slotOf'[t][k]] = lineOf'[t][k]
      <4>1. /\ bufs'[t] = bufs[t] /\ bufIdx'[t] = bufIdx[t] /\ sent'[t] = sent[t]
            /\ slotOf'[t] = slotOf[t] /\ lineOf'[t] = lineOf[t] /\ done'[t] = done[t]
        <5>1. /\ DOMAIN bufs = Stream /\ DOMAIN bufIdx = Stream /\ DOMAIN sent = Stream
              /\ DOMAIN slotOf = Stream /\ DOMAIN lineOf = Stream
          BY Zenon DEF TypeOK, CountersOK, BuffersOK
        <5>2. bufs'[t] = bufs[t] /\ bufIdx'[t] = bufIdx[t] BY Zenon, <3>3, <3>4, <5>1
        <5>3. sent'[t] = sent[t] BY Zenon, <3>1, <3>4, <5>1 DEF FanOut
        <5>4. slotOf'[t] = slotOf[t] BY Zenon, <3>1, <3>4, <5>1 DEF FanOut
        <5>5. lineOf'[t] = lineOf[t] BY Zenon, <3>1, <3>4, <5>1 DEF FanOut
        <5> QED BY Zenon, <3>1, <5>2, <5>3, <5>4, <5>5
      <4> QED BY <3>4, <4>1 DEF Slots, NoTornLine
    <3>5. ASSUME NEW k \in 1..MaxLines, done[st] < k, k <= sent[st]
          PROVE  /\ slotOf'[st][k] = SlotBack(i, m - k)
                 /\ bufs'[st][slotOf'[st][k]] = lineOf'[st][k]
                 /\ m - k \in Nat /\ m - k >= 1 /\ m - k <= BufRing - 1
      <4>1. m - k \in Nat /\ m - k >= 1 /\ m - k <= BufRing - 1
        <5>1. sent[st] - done[st] <= BufRing - 1 BY Zenon, InFlight
        <5> QED BY <3>2, <3>5, <5>1, LogAssumption
      <4>2. slotOf[st][k] = SlotBack(i, m - k)  BY Zenon, <3>5 DEF Slots
      <4>3. slotOf[st][k] # i /\ slotOf[st][k] \in Slot
        <5> DEFINE d == m - k
        <5>1. i \in Slot /\ d \in Nat /\ d >= 1 /\ d <= BufRing - 1 BY Zenon, <3>2, <4>1
        <5>2. slotOf[st][k] = SlotBack(i, d) BY Zenon, <4>2
        <5> HIDE DEF d, i
        <5> QED BY Zenon, <5>1, <5>2, SlotBackFacts
      <4>4. slotOf'[st][k] = slotOf[st][k] /\ lineOf'[st][k] = lineOf[st][k]
        <5>1. k # m BY <3>2, <3>5
        <5>2. \/ UNCHANGED <<slotOf, lineOf>>
              \/ /\ slotOf' = [slotOf EXCEPT ![st][m] = i]
                 /\ lineOf' = [lineOf EXCEPT ![st][m] = n]
          BY Zenon, <3>1 DEF FanOut
        <5>3. \/ UNCHANGED <<slotOf, lineOf>>
              \/ /\ slotOf'[st] = [slotOf[st] EXCEPT ![m] = i]
                 /\ lineOf'[st] = [lineOf[st] EXCEPT ![m] = n]
          BY Zenon, <5>2 DEF TypeOK, BuffersOK
        <5>4. DOMAIN slotOf[st] = 1..MaxLines /\ DOMAIN lineOf[st] = 1..MaxLines
          BY Zenon DEF TypeOK, BuffersOK
        <5> QED BY Zenon, <5>1, <5>3, <5>4
      <4>5. bufs'[st][slotOf[st][k]] = bufs[st][slotOf[st][k]]
        BY Zenon, <3>3, <4>3 DEF TypeOK, BuffersOK
      <4> QED BY Zenon, <3>5, <4>1, <4>2, <4>4, <4>5 DEF NoTornLine
    <3>6. CASE ~room
      <4>1. sent'[st] = sent[st] /\ bufIdx'[st] = i
        <5>1. Advance(i, room) = i BY Zenon, <3>6 DEF Advance
        <5>2. UNCHANGED sent BY Zenon, <3>1, <3>6 DEF FanOut
        <5> QED BY Zenon, <3>3, <5>1, <5>2 DEF TypeOK, BuffersOK
      <4>2. ASSUME NEW k \in 1..MaxLines, done'[st] < k, k <= sent'[st]
            PROVE  /\ slotOf'[st][k] = SlotBack(bufIdx'[st], (sent'[st] + 1) - k)
                   /\ bufs'[st][slotOf'[st][k]] = lineOf'[st][k]
        <5>1. done[st] < k /\ k <= sent[st] BY Zenon, <3>1, <4>1, <4>2
        <5>2. slotOf'[st][k] = SlotBack(i, m - k) /\ bufs'[st][slotOf'[st][k]] = lineOf'[st][k]
          BY Zenon, <3>5, <5>1
        <5> QED BY Zenon, <4>1, <5>2
      <4> QED BY <3>4, <4>2 DEF Slots, NoTornLine
    <3>7. CASE room
      <4>1. /\ sent'[st] = m /\ bufIdx'[st] = Advance(i, TRUE)
            /\ slotOf'[st][m] = i /\ lineOf'[st][m] = n
        <5>1. Advance(i, room) = Advance(i, TRUE) BY Zenon, <3>7 DEF Advance
        <5>2. /\ sent' = [sent EXCEPT ![st] = m] /\ slotOf' = [slotOf EXCEPT ![st][m] = i]
              /\ lineOf' = [lineOf EXCEPT ![st][m] = n]
          BY Zenon, <3>1, <3>7 DEF FanOut
        <5>3. sent'[st] = m BY Zenon, <5>2 DEF TypeOK, CountersOK
        <5>4. slotOf'[st][m] = i /\ lineOf'[st][m] = n BY Zenon, <3>2, <5>2 DEF TypeOK, BuffersOK
        <5>5. bufIdx'[st] = Advance(i, TRUE) BY Zenon, <3>3, <5>1 DEF TypeOK, BuffersOK
        <5> QED BY Zenon, <5>3, <5>4, <5>5
      <4>2. sent'[st] - done'[st] <= BufRing - 1
        <5>1. (TypeOK /\ Hops => sent[st] - done[st] <= BufRing - 1)'
          BY InFlight, PTL
        <5> QED BY Zenon, <1>0, <5>1
      <4>3. ASSUME NEW k \in 1..MaxLines, done'[st] < k, k <= sent'[st]
            PROVE  /\ slotOf'[st][k] = SlotBack(bufIdx'[st], (sent'[st] + 1) - k)
                   /\ bufs'[st][slotOf'[st][k]] = lineOf'[st][k]
        <5>1. CASE k = m
          <6>1. bufs'[st][i] = n BY Zenon, <3>2, <3>3 DEF TypeOK, BuffersOK
          <6>2. SlotBack(Advance(i, TRUE), 1) = i BY Zenon, <3>2, AdvanceFacts
          <6>3. (m + 1) - m = 1 BY <3>2
          <6> QED BY Zenon, <4>1, <5>1, <6>1, <6>2, <6>3
        <5>2. CASE k # m
          <6>1. done[st] < k /\ k <= sent[st] BY <3>1, <3>2, <4>1, <4>3, <5>2
          <6>2. (m + 1) - k = (m - k) + 1 /\ (m - k) + 1 <= BufRing - 1
            BY <3>1, <3>2, <4>1, <4>2, <6>1, LogAssumption
          <6>3. SlotBack(Advance(i, TRUE), (m - k) + 1) = SlotBack(i, m - k)
            BY Zenon, <3>2, <3>5, <6>1, <6>2, SlotBackFacts
          <6> QED BY Zenon, <3>5, <4>1, <6>1, <6>2, <6>3
        <5> QED BY Zenon, <5>1, <5>2
      <4> QED BY <3>4, <4>3 DEF Slots, NoTornLine
    <3> QED BY Zenon, <3>6, <3>7
  <2> QED BY Zenon, <2>1, <2>2
<1>3. ASSUME NEW st \in Stream, Recent(st) \/ Subscribe(st) \/ PipeTake(st) \/ PipePut(st) \/ HandlerTake(st)
      PROVE  Slots' /\ NoTornLine'
  BY <1>1, <1>3 DEF Recent, Subscribe, PipeTake, PipePut, HandlerTake, TypeOK, CountersOK
<1>4. ASSUME NEW st \in Stream, HandlerWrite(st) PROVE Slots' /\ NoTornLine'
  BY <1>1, <1>4 DEF HandlerWrite, TypeOK, CountersOK
<1>5. CASE Unsubscribe \/ UNCHANGED vars
  BY <1>1, <1>5 DEF Unsubscribe, vars, TypeOK, CountersOK
<1> QED BY Zenon, <1>2, <1>3, <1>4, <1>5 DEF Next

-----------------------------------------------------------------------------
(* The order of the lines                                                  *)

(* Nothing is sent before the session has its history; the lines sent are  *)
(* in the order in which they were written, and those still on their way   *)
(* come after the last one shown.                                          *)
Ordered ==
  /\ step = 1 => \A st \in Stream : sent[st] = 0 /\ ~subscribed[st]
  /\ \A st \in Stream, k \in 1..MaxLines : k <= sent[st] =>
       /\ lineOf[st][k] <= lines[st]
       /\ done[st] < k => shown[st] < lineOf[st][k]
       /\ \A j \in 1..MaxLines : j < k => lineOf[st][j] < lineOf[st][k]
  /\ \A st \in Stream : shown[st] <= lines[st]

(* A line the handler writes out is the one that was sent, and no earlier  *)
(* one is still to come.                                                   *)
LEMMA WrittenLine ==
  ASSUME TypeOK, IInv, Ordered, NEW st \in Stream, HandlerWrite(st)
  PROVE  /\ recv[st] \in 1..MaxLines /\ done[st] < recv[st] /\ recv[st] <= sent[st]
         /\ done'[st] = recv[st] /\ shown'[st] = lineOf[st][recv[st]]
         /\ shown[st] < shown'[st] /\ shown'[st] <= lines[st]
         /\ \A t \in Stream \ {st} : shown'[t] = shown[t] /\ done'[t] = done[t]
<1>1. \A s \in Stream : {lines[s], sent[s], piped[s], put[s], recv[s], done[s]} \subseteq Nat
  BY DEF TypeOK, CountersOK
<1>2. lines[st] <= MaxLines
  BY <1>1, LogAssumption DEF IInv, Hops, Stream
<1>3. /\ done[st] < recv[st] /\ recv[st] <= done[st] + 1 /\ recv[st] <= put[st] /\ put[st] <= piped[st]
      /\ piped[st] <= sent[st] /\ sent[st] <= lines[st]
  BY Zenon DEF HandlerWrite, IInv, Hops
<1>4. {lines[st], sent[st], piped[st], put[st], recv[st], done[st]} \subseteq Nat
  BY Zenon, <1>1
<1>5. recv[st] \in 1..MaxLines /\ recv[st] <= sent[st] /\ recv[st] = done[st] + 1
  BY <1>2, <1>3, <1>4, LogAssumption
<1>6. done' = [done EXCEPT ![st] = done[st] + 1] /\ shown' = [shown EXCEPT ![st] = bufs[st][slotOf[st][recv[st]]]]
  BY Zenon DEF HandlerWrite
<1>7. /\ done'[st] = done[st] + 1 /\ shown'[st] = bufs[st][slotOf[st][recv[st]]]
      /\ \A t \in Stream \ {st} : shown'[t] = shown[t] /\ done'[t] = done[t]
  BY Zenon, <1>6 DEF TypeOK, CountersOK
<1>8. bufs[st][slotOf[st][recv[st]]] = lineOf[st][recv[st]]
  BY Zenon, <1>3, <1>5 DEF IInv, NoTornLine
<1>9. shown[st] < lineOf[st][recv[st]] /\ lineOf[st][recv[st]] <= lines[st]
  BY Zenon, <1>3, <1>5 DEF Ordered
<1> QED BY Zenon, <1>3, <1>5, <1>7, <1>8, <1>9

(* Every step keeps the order.                                             *)
LEMMA OrderedStep == TypeOK /\ IInv /\ Ordered /\ [Next]_vars => Ordered'
<1> SUFFICES ASSUME TypeOK, IInv, Ordered, [Next]_vars PROVE Ordered'
  BY Zenon
<1>1. ASSUME NEW st \in Stream, WriteLine(st) PROVE Ordered'
  <2> DEFINE n == lines[st] + 1
             m == sent[st] + 1
  <2>1. /\ lines \in [Stream -> Nat] /\ sent \in [Stream -> Nat] /\ shown \in [Stream -> Nat]
        /\ lineOf \in [Stream -> [1..MaxLines -> Nat]]
    BY Zenon DEF TypeOK, CountersOK, BuffersOK
  <2>2. m \in 1..MaxLines
    BY Zenon, <1>1, NextLine DEF IInv
  <2>3. lines' = [lines EXCEPT ![st] = n] /\ UNCHANGED <<step, subscribed, done, shown>>
    BY Zenon, <1>1 DEF WriteLine
  <2>4. \/ UNCHANGED <<sent, lineOf>>
        \/ /\ subscribed[st] /\ sent' = [sent EXCEPT ![st] = m]
           /\ lineOf' = [lineOf EXCEPT ![st] = [lineOf[st] EXCEPT ![m] = n]]
    BY Zenon, <1>1 DEF WriteLine, FanOut
  <2>5. lines'[st] = n /\ \A t \in Stream : lines[t] <= lines'[t] /\ lines'[t] \in Nat
    BY <2>1, <2>3
  <2>6. \A t \in Stream : shown'[t] <= lines'[t]
    BY <2>1, <2>3, <2>5 DEF Ordered
  <2>7. CASE UNCHANGED <<sent, lineOf>>
    <3>1. ASSUME NEW t \in Stream, NEW k \in 1..MaxLines, k <= sent[t] PROVE lineOf[t][k] <= lines'[t]
      <4>1. lineOf[t][k] <= lines[t]
        BY Zenon, <3>1 DEF Ordered
      <4>2. lineOf[t][k] \in Nat /\ lines[t] \in Nat /\ lines'[t] \in Nat /\ lines[t] <= lines'[t]
        BY Zenon, <2>1, <2>5
      <4> QED BY <4>1, <4>2
    <3> QED BY Zenon, <2>3, <2>6, <2>7, <3>1 DEF Ordered
  <2>8. CASE /\ subscribed[st] /\ sent' = [sent EXCEPT ![st] = m]
             /\ lineOf' = [lineOf EXCEPT ![st] = [lineOf[st] EXCEPT ![m] = n]]
    <3>1. step # 1
      BY Zenon, <2>8 DEF Ordered
    <3>2. /\ sent'[st] = m /\ lineOf'[st] = [lineOf[st] EXCEPT ![m] = n]
          /\ \A t \in Stream : t # st => sent'[t] = sent[t] /\ lineOf'[t] = lineOf[t] /\ lines'[t] = lines[t]
      BY Zenon, <2>1, <2>3, <2>8
    <3>3. lineOf'[st][m] = n /\ \A k \in 1..MaxLines : k # m => lineOf'[st][k] = lineOf[st][k]
      <4>1. DOMAIN lineOf[st] = 1..MaxLines
        BY Zenon, <2>1
      <4> HIDE DEF m, n
      <4> QED BY Zenon, <2>2, <3>2, <4>1
    <3>4. \A k \in 1..MaxLines : k <= m => k = m \/ k <= sent[st]
      BY <2>1
    <3>5. \A k \in 1..MaxLines : k <= sent[st] => k # m
      BY <2>1
    <3> HIDE DEF m
    <3>6. \A k \in 1..MaxLines : k <= m =>
            /\ lineOf'[st][k] <= lines'[st]
            /\ done[st] < k => shown[st] < lineOf'[st][k]
      <4>1. ASSUME NEW k \in 1..MaxLines, k <= sent[st]
            PROVE  lineOf'[st][k] <= lines'[st] /\ (done[st] < k => shown[st] < lineOf'[st][k])
        <5>1. lineOf'[st][k] = lineOf[st][k]
          BY Zenon, <3>3, <3>5, <4>1
        <5>2. lineOf[st][k] <= lines[st] /\ (done[st] < k => shown[st] < lineOf[st][k])
          BY Zenon, <4>1 DEF Ordered
        <5>3. lineOf[st][k] \in Nat /\ lines[st] \in Nat /\ lines'[st] \in Nat /\ lines[st] <= lines'[st]
          BY Zenon, <2>1, <2>5
        <5> QED BY <5>1, <5>2, <5>3
      <4>2. lineOf'[st][m] <= lines'[st] /\ shown[st] < lineOf'[st][m]
        BY <2>1, <2>5, <3>3 DEF Ordered
      <4> QED BY Zenon, <3>4, <4>1, <4>2
    <3>7. ASSUME NEW k \in 1..MaxLines, k <= m, NEW j \in 1..MaxLines, j < k
          PROVE  lineOf'[st][j] < lineOf'[st][k]
      <4>1. j <= sent[st] /\ j # m /\ lineOf'[st][j] = lineOf[st][j]
        BY <2>1, <2>2, <3>3, <3>7 DEF m
      <4>2. CASE k = m
        <5>1. lineOf[st][j] <= lines[st] /\ lineOf[st][j] \in Nat /\ lines[st] \in Nat
          BY Zenon, <2>1, <4>1 DEF Ordered
        <5> QED BY <3>3, <4>1, <4>2, <5>1
      <4>3. CASE k <= sent[st]
        BY Zenon, <3>3, <3>5, <3>7, <4>1, <4>3 DEF Ordered
      <4> QED BY Zenon, <3>4, <3>7, <4>2, <4>3
    <3> QED BY Zenon, <2>3, <2>6, <3>1, <3>2, <3>6, <3>7 DEF Ordered
  <2> QED BY Zenon, <2>4, <2>7, <2>8
<1>2. ASSUME NEW st \in Stream, Recent(st) PROVE Ordered'
  <2>1. step = 1
    BY <1>2 DEF Recent, At, LogsSteps, TypeOK
  <2>2. \A t \in Stream : shown'[t] <= lines[t]
    BY <1>2 DEF Recent, Ordered, TypeOK, CountersOK
  <2>3. /\ \A t \in Stream : sent[t] = 0 /\ ~subscribed[t]
        /\ UNCHANGED <<sent, subscribed, lineOf, lines, done>>
    BY Zenon, <1>2, <2>1 DEF Ordered, Recent
  <2>4. \A t \in Stream, k \in 1..MaxLines : ~(k <= sent'[t])
    BY <2>3
  <2> QED BY Zenon, <2>2, <2>3, <2>4 DEF Ordered
<1>3. ASSUME NEW st \in Stream, Subscribe(st) PROVE Ordered'
  <2>1. step = 2
    BY <1>3 DEF Subscribe, At, LogsSteps, TypeOK
  <2>2. step' # 1
    BY <1>3, <2>1 DEF Subscribe
  <2> QED BY Zenon, <1>3, <2>2 DEF Subscribe, Ordered
<1>4. ASSUME NEW st \in Stream, PipeTake(st) \/ PipePut(st) \/ HandlerTake(st) PROVE Ordered'
  BY Zenon, <1>4 DEF PipeTake, PipePut, HandlerTake, Ordered
<1>5. ASSUME NEW st \in Stream, HandlerWrite(st) PROVE Ordered'
  <2>1. UNCHANGED <<step, subscribed, sent, lines, lineOf>>
    BY Zenon, <1>5 DEF HandlerWrite
  <2>2. /\ recv[st] \in 1..MaxLines /\ done[st] < recv[st] /\ recv[st] <= sent[st]
        /\ done'[st] = recv[st] /\ shown'[st] = lineOf[st][recv[st]] /\ shown'[st] <= lines[st]
        /\ \A t \in Stream \ {st} : shown'[t] = shown[t] /\ done'[t] = done[t]
    BY Zenon, <1>5, WrittenLine
  <2>3. \A t \in Stream : shown'[t] <= lines[t]
    BY Zenon, <2>2 DEF Ordered
  <2>4. \A t \in Stream, k \in 1..MaxLines : k <= sent[t] /\ done'[t] < k => shown'[t] < lineOf[t][k]
    BY <2>2 DEF Ordered
  <2> QED BY Zenon, <2>1, <2>3, <2>4 DEF Ordered
<1>6. CASE Unsubscribe
  <2>1. step = 3
    BY <1>6 DEF Unsubscribe, At, LogsSteps, TypeOK
  <2>2. step' # 1
    BY <1>6, <2>1 DEF Unsubscribe
  <2> QED BY Zenon, <1>6, <2>2 DEF Unsubscribe, Ordered
<1>7. CASE UNCHANGED vars
  BY Zenon, <1>7 DEF vars, Ordered
<1> QED BY Zenon, <1>1, <1>2, <1>3, <1>4, <1>5, <1>6, <1>7 DEF Next

-----------------------------------------------------------------------------
(* The history ring                                                        *)

(* ring[i] is as old as its distance from ringPos says.                    *)
Ring ==
  \A st \in Stream :
    /\ ringFull[st] => lines[st] >= History
    /\ ~ringFull[st] => ringPos[st] = lines[st]
    /\ \A i \in 0..(History - 1) :
         /\ i < ringPos[st] => ring[st][i] = (lines[st] - ringPos[st]) + (i + 1)
         /\ ringFull[st] /\ i >= ringPos[st] => ring[st][i] = (lines[st] - ringPos[st]) + (i + 1) - History

(* What Recent returns: the last History lines, or all of them while there *)
(* are fewer, oldest first and without a gap.                              *)
HistoryIsRecent ==
  \A st \in Stream :
    /\ RecentLen(st) = IF lines[st] < History THEN lines[st] ELSE History
    /\ \A n \in 1..RecentLen(st) : RecentLine(st, n) = (lines[st] - RecentLen(st)) + n

(* A write into the ring keeps the ages right, across the wrap too.        *)
LEMMA RingStep == TypeOK /\ Ring /\ [Next]_vars => Ring'
<1> SUFFICES ASSUME TypeOK, Ring, [Next]_vars PROVE Ring'
  BY Zenon
<1>1. CASE UNCHANGED writer
  BY Zenon, <1>1 DEF Ring
<1>2. ASSUME NEW st \in Stream, WriteLine(st) PROVE Ring'
  <2> DEFINE n == lines[st] + 1
             pos == ringPos[st]
             wraps == pos + 1 >= History
  <2>1. /\ lines \in [Stream -> Nat] /\ ring \in [Stream -> [0..(History - 1) -> Nat]]
        /\ ringPos \in [Stream -> 0..(History - 1)] /\ ringFull \in [Stream -> BOOLEAN]
    BY Zenon DEF TypeOK, CountersOK, RingOK
  <2>0. History \in Nat /\ History >= 1
    BY LogAssumption
  <2>2. /\ lines' = [lines EXCEPT ![st] = n]
        /\ ring' = [ring EXCEPT ![st] = [ring[st] EXCEPT ![pos] = n]]
        /\ ringPos' = [ringPos EXCEPT ![st] = IF wraps THEN 0 ELSE pos + 1]
        /\ ringFull' = [ringFull EXCEPT ![st] = ringFull[st] \/ wraps]
    BY Zenon, <1>2 DEF WriteLine, RingWrite
  <2>3. /\ lines'[st] = n /\ ring'[st] = [ring[st] EXCEPT ![pos] = n]
        /\ ringPos'[st] = IF wraps THEN 0 ELSE pos + 1
        /\ ringFull'[st] = (ringFull[st] \/ wraps)
    BY Zenon, <2>1, <2>2
  <2>4. \A t \in Stream : t # st =>
          /\ lines'[t] = lines[t] /\ ring'[t] = ring[t] /\ ringPos'[t] = ringPos[t] /\ ringFull'[t] = ringFull[t]
    BY Zenon, <2>1, <2>2
  <2>5. pos \in 0..(History - 1) /\ lines[st] \in Nat
    BY Zenon, <2>1
  <2>6. ring'[st][pos] = n /\ \A i \in 0..(History - 1) : i # pos => ring'[st][i] = ring[st][i]
    BY Zenon, <2>1, <2>3, <2>5
  <2>7. /\ ringFull[st] => lines[st] >= History
        /\ ~ringFull[st] => pos = lines[st]
        /\ \A i \in 0..(History - 1) :
             /\ i < pos => ring[st][i] = (lines[st] - pos) + (i + 1)
             /\ ringFull[st] /\ i >= pos => ring[st][i] = (lines[st] - pos) + (i + 1) - History
    BY Zenon DEF Ring
  <2> HIDE DEF pos
  <2>8. CASE wraps
    <3>1. pos = History - 1 /\ ringPos'[st] = 0 /\ ringFull'[st]
      <4>1. pos = History - 1 /\ ringPos'[st] = 0
        BY <2>0, <2>3, <2>5, <2>8
      <4>2. ringFull'[st]
        BY Zenon, <2>3, <2>8
      <4> QED BY Zenon, <4>1, <4>2
    <3>2. lines'[st] >= History
      BY <2>0, <2>3, <2>5, <2>7, <3>1
    <3>3. ASSUME NEW i \in 0..(History - 1) PROVE ring'[st][i] = (lines'[st] - 0) + (i + 1) - History
      <4>1. CASE i = pos
        BY <2>0, <2>3, <2>5, <2>6, <3>1, <4>1
      <4>2. CASE i # pos
        <5>1. i < pos
          BY <2>0, <3>1, <4>2
        <5>2. ring'[st][i] = (lines[st] - pos) + (i + 1)
          BY Zenon, <2>6, <2>7, <4>2, <5>1
        <5> QED BY <2>0, <2>3, <2>5, <3>1, <5>2
      <4> QED BY Zenon, <4>1, <4>2
    <3>4. \A i \in 0..(History - 1) : ~(i < 0)
      OBVIOUS
    <3> QED BY <2>4, <3>1, <3>2, <3>3, <3>4 DEF Ring
  <2>9. CASE ~wraps
    <3>1. ringPos'[st] = pos + 1 /\ ringFull'[st] = ringFull[st]
      BY Zenon, <2>1, <2>3, <2>9
    <3>2. /\ ringFull'[st] => lines'[st] >= History
          /\ ~ringFull'[st] => pos + 1 = lines'[st]
      BY <2>0, <2>3, <2>5, <2>7, <3>1
    <3>3. ASSUME NEW i \in 0..(History - 1)
          PROVE  /\ i < pos + 1 => ring'[st][i] = (lines'[st] - (pos + 1)) + (i + 1)
                 /\ ringFull'[st] /\ i >= pos + 1 => ring'[st][i] = (lines'[st] - (pos + 1)) + (i + 1) - History
      <4>1. CASE i = pos
        BY <2>0, <2>3, <2>5, <2>6, <4>1
      <4>2. CASE i # pos
        <5>1. ring'[st][i] = ring[st][i]
          BY Zenon, <2>6, <4>2
        <5>2. /\ i < pos => ring[st][i] = (lines[st] - pos) + (i + 1)
              /\ ringFull'[st] /\ i >= pos => ring[st][i] = (lines[st] - pos) + (i + 1) - History
          BY Zenon, <2>7, <3>1
        <5> QED BY <2>0, <2>3, <2>5, <4>2, <5>1, <5>2
      <4> QED BY Zenon, <4>1, <4>2
    <3> QED BY <2>4, <3>1, <3>2, <3>3 DEF Ring
  <2> QED BY Zenon, <2>8, <2>9
<1>3. ASSUME NEW st \in Stream,
             \/ Recent(st) \/ Subscribe(st) \/ PipeTake(st) \/ PipePut(st)
             \/ HandlerTake(st) \/ HandlerWrite(st)
      PROVE  Ring'
  BY Zenon, <1>1, <1>3 DEF Recent, Subscribe, PipeTake, PipePut, HandlerTake, HandlerWrite
<1>4. CASE Unsubscribe \/ UNCHANGED vars
  BY Zenon, <1>1, <1>4 DEF Unsubscribe, vars
<1> QED BY Zenon, <1>2, <1>3, <1>4 DEF Next

-----------------------------------------------------------------------------
(* The theorems                                                            *)

(* The inductive invariant holds in every reachable state.                 *)
LEMMA InvInductive == Spec => [](TypeOK /\ IInv /\ Ordered /\ Ring)
<1>1. Init => TypeOK /\ IInv /\ Ordered /\ Ring
  <2> SUFFICES ASSUME Init PROVE TypeOK /\ IInv /\ Ordered /\ Ring BY Zenon
  <2>1. TypeOK BY LogAssumption DEF Init, TypeOK, CountersOK, RingOK, BuffersOK, Slot, Zero
  <2>2. Hops BY LogAssumption DEF Init, Hops, InMerged, Zero, Stream
  <2>3. Slots /\ NoTornLine BY LogAssumption DEF Init, Slots, NoTornLine, Zero
  <2>4. Ordered BY LogAssumption DEF Init, Ordered, Zero
  <2>5. Ring BY LogAssumption DEF Init, Ring, Zero
  <2> QED BY Zenon, <2>1, <2>2, <2>3, <2>4, <2>5 DEF IInv
<1>2. TypeOK /\ IInv /\ Ordered /\ Ring /\ [Next]_vars => (TypeOK /\ IInv /\ Ordered /\ Ring)'
  BY Zenon, TypeStep, HopsStep, SlotsStep, OrderedStep, RingStep DEF IInv
<1> QED BY <1>1, <1>2, PTL DEF Spec

(* No line on its way to a client is overwritten by the writer, whatever   *)
(* the capacities, as long as the buffer ring has three slots more than    *)
(* the two channels: subBufRingSize is sized right.                        *)
THEOREM LinesAreNotTorn == Spec => []NoTornLine
<1>1. IInv => NoTornLine BY Zenon DEF IInv
<1> QED BY <1>1, InvInductive, PTL

(* A `logs -f` client sees each stream in order and no line twice, from    *)
(* the history into the live lines, however many lines are dropped on the  *)
(* way.                                                                    *)
THEOREM LinesAreShownInOrder == Spec => ShownOnceInOrder
<1> DEFINE Once == \A st \in Stream : done'[st] # done[st] => shown'[st] > shown[st]
<1>1. ASSUME TypeOK, IInv, Ordered, [Next]_vars PROVE [Once]_vars
  <2>1. UNCHANGED done \/ \E st \in Stream : HandlerWrite(st)
    BY Zenon, <1>1 DEF Next, WriteLine, Recent, Subscribe, PipeTake, PipePut, HandlerTake, Unsubscribe, vars
  <2>2. ASSUME NEW st \in Stream, HandlerWrite(st) PROVE Once
    <3>1. /\ shown[st] < shown'[st] /\ \A t \in Stream \ {st} : done'[t] = done[t]
      BY Zenon, <1>1, <2>2, WrittenLine
    <3>2. shown[st] \in Nat /\ shown'[st] \in Nat
      BY Zenon, <1>1, TypeStep DEF IInv, TypeOK, CountersOK
    <3> QED BY Zenon, <3>1, <3>2
  <2> QED BY Zenon, <2>1, <2>2
<1> QED BY <1>1, InvInductive, PTL DEF Spec, ShownOnceInOrder

(* The ring buffer of PrefixWriter gives a new session the last            *)
(* defaultRingSize lines, oldest first, before and after the ring wraps.   *)
THEOREM HistoryIsComplete == Spec => []HistoryIsRecent
<1>1. ASSUME TypeOK, Ring PROVE HistoryIsRecent
  <2> SUFFICES ASSUME NEW st \in Stream
               PROVE  /\ RecentLen(st) = IF lines[st] < History THEN lines[st] ELSE History
                      /\ \A n \in 1..RecentLen(st) : RecentLine(st, n) = (lines[st] - RecentLen(st)) + n
    BY Zenon DEF HistoryIsRecent
  <2>1. /\ lines[st] \in Nat /\ ringPos[st] \in 0..(History - 1) /\ ringFull[st] \in BOOLEAN
        /\ History \in Nat /\ History >= 1
    BY <1>1, LogAssumption DEF TypeOK, CountersOK, RingOK
  <2>2. /\ ringFull[st] => lines[st] >= History
        /\ ~ringFull[st] => ringPos[st] = lines[st]
        /\ \A i \in 0..(History - 1) :
             /\ i < ringPos[st] => ring[st][i] = (lines[st] - ringPos[st]) + (i + 1)
             /\ ringFull[st] /\ i >= ringPos[st] => ring[st][i] = (lines[st] - ringPos[st]) + (i + 1) - History
    BY Zenon, <1>1 DEF Ring
  <2>3. CASE ringFull[st]
    <3>1. ASSUME NEW n \in 1..History PROVE RecentLine(st, n) = (lines[st] - History) + n
      <4>1. CASE ringPos[st] + n - 1 < History
        <5>1. ringPos[st] + n - 1 \in 0..(History - 1) /\ ringPos[st] + n - 1 >= ringPos[st]
          BY <2>1, <4>1
        <5>2. ring[st][ringPos[st] + n - 1] = (lines[st] - ringPos[st]) + ((ringPos[st] + n - 1) + 1) - History
          BY Zenon, <2>2, <2>3, <5>1
        <5> QED BY <2>1, <2>3, <4>1, <5>2 DEF RecentLine
      <4>2. CASE ~(ringPos[st] + n - 1 < History)
        <5>1. ringPos[st] + n - 1 - History \in 0..(History - 1) /\ ringPos[st] + n - 1 - History < ringPos[st]
          BY <2>1, <4>2
        <5>2. ring[st][ringPos[st] + n - 1 - History]
                = (lines[st] - ringPos[st]) + ((ringPos[st] + n - 1 - History) + 1)
          BY Zenon, <2>2, <5>1
        <5> QED BY <2>1, <2>3, <4>2, <5>2 DEF RecentLine
      <4> QED BY Zenon, <4>1, <4>2
    <3> QED BY <2>1, <2>2, <2>3, <3>1 DEF RecentLen
  <2>4. CASE ~ringFull[st]
    <3>1. ASSUME NEW n \in 1..ringPos[st] PROVE RecentLine(st, n) = n
      <4>1. n - 1 \in 0..(History - 1) /\ n - 1 < ringPos[st]
        BY <2>1
      <4>2. ring[st][n - 1] = (lines[st] - ringPos[st]) + ((n - 1) + 1)
        BY Zenon, <2>2, <4>1
      <4> QED BY <2>1, <2>2, <2>4, <4>2 DEF RecentLine
    <3> QED BY <2>1, <2>2, <2>4, <3>1 DEF RecentLen
  <2> QED BY Zenon, <2>3, <2>4
<1> QED BY <1>1, InvInductive, PTL

=============================================================================
