------------------------------ MODULE LogFanout ------------------------------
(***************************************************************************)
(* One `logs -f` session: the PrefixWriter of each of a service's streams, *)
(* its history ring and the session's subscription, the two pipe           *)
(* goroutines and the merged channel of LogsFn, and the connection handler *)
(* that writes the lines out.                                              *)
(*                                                                         *)
(* A line is its number in its stream.  The lines sent to a subscriber are *)
(* numbered too; the channels are FIFO, so how far each hop has come is a  *)
(* counter, and the lines in flight are those between two counters.        *)
(***************************************************************************)
EXTENDS Integers, Sequences

CONSTANTS
  ChanCap,      \* subChanCap
  MergedCap,    \* capacity of LogsFn's merged channel
  BufRing,      \* subBufRingSize
  History,      \* defaultRingSize
  MaxLines      \* bound: lines the service writes

ASSUME LogAssumption ==
  /\ ChanCap \in Nat \ {0} /\ MergedCap \in Nat \ {0}
  /\ BufRing \in Nat /\ BufRing >= ChanCap + MergedCap + 3
  /\ History \in Nat \ {0} /\ MaxLines \in Nat

Stream == {"stdout", "stderr"}
NotRead == -1

VARIABLES
  lines,        \* lines written to the stream
  ring, ringPos, ringFull,  \* PrefixWriter: the history ring
  subscribed,   \* the session's subscription is in pw.subs
  bufs, bufIdx, \* subscription: the buffers, by slot, and the next slot
  slotOf,       \* the slot whose slice was sent, by number of the send
  lineOf,       \* the line it held when it was sent
  sent, piped, put, recv, done,  \* sends; taken by pipe; in merged; by the handler; written out
  step,         \* the session's next step, an index of LogsSteps
  recent,       \* the last line of the history the session was given, or NotRead
  shown         \* the last line written to the client

writer == <<lines, ring, ringPos, ringFull>>
buffers == <<bufs, bufIdx, slotOf, lineOf>>
session == <<subscribed, step, recent>>
vars == <<writer, buffers, session, sent, piped, put, recv, done, shown>>

Slot == 0..(BufRing - 1)

CountersOK ==
  /\ lines \in [Stream -> Nat] /\ shown \in [Stream -> Nat]
  /\ sent \in [Stream -> Nat] /\ piped \in [Stream -> Nat] /\ put \in [Stream -> Nat]
  /\ recv \in [Stream -> Nat] /\ done \in [Stream -> Nat]

RingOK ==
  /\ ring \in [Stream -> [0..(History - 1) -> Nat]]
  /\ ringPos \in [Stream -> 0..(History - 1)] /\ ringFull \in [Stream -> BOOLEAN]

BuffersOK ==
  /\ bufs \in [Stream -> [Slot -> Nat]] /\ bufIdx \in [Stream -> Slot]
  /\ slotOf \in [Stream -> [1..MaxLines -> Slot]] /\ lineOf \in [Stream -> [1..MaxLines -> Nat]]

TypeOK ==
  /\ CountersOK /\ RingOK /\ BuffersOK
  /\ subscribed \in [Stream -> BOOLEAN]
  /\ step \in 1..4
  /\ recent \in [Stream -> Nat \cup {NotRead}]

Zero == [st \in Stream |-> 0]
Init ==
  /\ lines = Zero
  /\ ring = [st \in Stream |-> [i \in 0..(History - 1) |-> 0]]
  /\ ringPos = Zero /\ ringFull = [st \in Stream |-> FALSE]
  /\ subscribed = [st \in Stream |-> FALSE]
  /\ bufs = [st \in Stream |-> [i \in Slot |-> 0]] /\ bufIdx = Zero
  /\ slotOf = [st \in Stream |-> [k \in 1..MaxLines |-> 0]]
  /\ lineOf = [st \in Stream |-> [k \in 1..MaxLines |-> 0]]
  /\ sent = Zero /\ piped = Zero /\ put = Zero /\ recv = Zero /\ done = Zero
  /\ step = 1 /\ recent = [st \in Stream |-> NotRead] /\ shown = Zero

-----------------------------------------------------------------------------
(* PrefixWriter                                                            *)

(* The line goes into the history ring.                                    *)
RingWrite(st, n) ==
  LET next == ringPos[st] + 1 IN
  /\ ring' = [ring EXCEPT ![st][ringPos[st]] = n]
  /\ ringPos' = [ringPos EXCEPT ![st] = IF next >= History THEN 0 ELSE next]
  /\ ringFull' = [ringFull EXCEPT ![st] = @ \/ next >= History]

(* bufIdx after a send, wrapping at the end of the ring, or after a drop.  *)
AdvanceMut(i, ok) == IF i + 1 >= BufRing THEN 0 ELSE i + 1  \* on a drop too
Advance(i, ok) == IF ~ok THEN i ELSE IF i + 1 >= BufRing THEN 0 ELSE i + 1

(* The copy into the subscriber's slot, in the worst case into the array   *)
(* that was sent before, and the non-blocking send.                        *)
FanOut(st, n) ==
  LET room == sent[st] - piped[st] < ChanCap
      k == sent[st] + 1 IN
  /\ bufs' = [bufs EXCEPT ![st][bufIdx[st]] = n]
  /\ bufIdx' = [bufIdx EXCEPT ![st] = Advance(@, room)]
  /\ \/ /\ room
        /\ sent' = [sent EXCEPT ![st] = k]
        /\ slotOf' = [slotOf EXCEPT ![st][k] = bufIdx[st]]
        /\ lineOf' = [lineOf EXCEPT ![st][k] = n]
     \/ ~room /\ UNCHANGED <<sent, slotOf, lineOf>>

(* One iteration of Write's drain loop: one line, under pw.mu.             *)
WriteLine(st) ==
  LET n == lines[st] + 1 IN
  /\ lines["stdout"] + lines["stderr"] < MaxLines
  /\ lines' = [lines EXCEPT ![st] = n]
  /\ RingWrite(st, n)
  /\ \/ subscribed[st] /\ FanOut(st, n)
     \/ ~subscribed[st] /\ UNCHANGED <<buffers, sent>>
  /\ UNCHANGED <<session, piped, put, recv, done, shown>>

(* The lines of the history, oldest first, as the n-th for n from 1.       *)
RecentLen(st) == IF ringFull[st] THEN History ELSE ringPos[st]
RecentLine(st, n) ==
  IF ~ringFull[st] THEN ring[st][n - 1]
  ELSE IF ringPos[st] + n - 1 < History THEN ring[st][ringPos[st] + n - 1]
  ELSE ring[st][ringPos[st] + n - 1 - History]

-----------------------------------------------------------------------------
(* LogsFn and the session.  Each stream's step takes its own writer's lock,*)
(* stdout first.                                                           *)

LogsStepsMut == <<"subscribe", "recent", "stream", "end">>  \* subscribe first
LogsSteps == <<"recent", "subscribe", "stream", "end">>
At(s) == LogsSteps[step] = s

Recent(st) ==
  /\ At("recent") /\ recent[st] = NotRead
  /\ st = "stderr" => recent["stdout"] # NotRead
  /\ recent' = [recent EXCEPT ![st] = lines[st]]
  /\ shown' = [shown EXCEPT ![st] = lines[st]]
  /\ step' = IF \A s \in Stream : recent'[s] # NotRead THEN step + 1 ELSE step
  /\ UNCHANGED <<writer, buffers, subscribed, sent, piped, put, recv, done>>

Subscribe(st) ==
  /\ At("subscribe") /\ ~subscribed[st]
  /\ st = "stderr" => subscribed["stdout"]
  /\ subscribed' = [subscribed EXCEPT ![st] = TRUE]
  /\ step' = IF \A s \in Stream : subscribed'[s] THEN step + 1 ELSE step
  /\ UNCHANGED <<writer, buffers, recent, sent, piped, put, recv, done, shown>>

(* pipe: receive from the subscription, then send to merged.               *)
PipeTake(st) ==
  /\ At("stream") /\ piped[st] = put[st] /\ piped[st] < sent[st]
  /\ piped' = [piped EXCEPT ![st] = @ + 1]
  /\ UNCHANGED <<writer, buffers, session, sent, put, recv, done, shown>>

InMerged == put["stdout"] - recv["stdout"] + put["stderr"] - recv["stderr"]
PipePut(st) ==
  /\ At("stream") /\ put[st] < piped[st]
  /\ InMerged < MergedCap
  /\ put' = [put EXCEPT ![st] = @ + 1]
  /\ UNCHANGED <<writer, buffers, session, sent, piped, recv, done, shown>>

(* handleLogs: take a line from merged, write it to the connection.        *)
HandlerTake(st) ==
  /\ At("stream") /\ recv = done /\ recv[st] < put[st]
  /\ recv' = [recv EXCEPT ![st] = @ + 1]
  /\ UNCHANGED <<writer, buffers, session, sent, piped, put, done, shown>>

HandlerWrite(st) ==
  /\ At("stream") /\ done[st] < recv[st]
  /\ done' = [done EXCEPT ![st] = @ + 1]
  /\ shown' = [shown EXCEPT ![st] = bufs[st][slotOf[st][recv[st]]]]
  /\ UNCHANGED <<writer, buffers, session, sent, piped, put, recv>>

(* The client is gone, the server stops or the session idled: unsub.       *)
Unsubscribe ==
  /\ At("stream") /\ step' = step + 1
  /\ subscribed' = [st \in Stream |-> FALSE]
  /\ UNCHANGED <<writer, buffers, recent, sent, piped, put, recv, done, shown>>

Next ==
  \/ \E st \in Stream :
       \/ WriteLine(st) \/ Recent(st) \/ Subscribe(st) \/ PipeTake(st) \/ PipePut(st)
       \/ HandlerTake(st) \/ HandlerWrite(st)
  \/ Unsubscribe

Spec == Init /\ [][Next]_vars

-----------------------------------------------------------------------------
(* No line on its way to the client is overwritten: the slice of every     *)
(* line in flight still holds the line it was sent with, because           *)
(* subBufRingSize exceeds what the two channels, the pipe and the handler  *)
(* can hold.                                                               *)
NoTornLine ==
  \A st \in Stream, k \in 1..MaxLines :
    done[st] < k /\ k <= sent[st] => bufs[st][slotOf[st][k]] = lineOf[st][k]

(* A client sees the lines of a stream in order and none twice, the end of *)
(* the history and the start of the live lines included.                   *)
ShownOnceInOrder ==
  [][\A st \in Stream : done'[st] # done[st] => shown'[st] > shown[st]]_vars

-----------------------------------------------------------------------------
(* The inductive invariant of NoTornLine                                   *)

(* The hops are in order and within their capacities.                      *)
Hops ==
  /\ \A st \in Stream :
       /\ done[st] <= recv[st] /\ recv[st] <= done[st] + 1
       /\ recv[st] <= put[st] /\ put[st] <= piped[st] /\ piped[st] <= put[st] + 1
       /\ piped[st] <= sent[st] /\ sent[st] <= piped[st] + ChanCap
       /\ sent[st] <= lines[st]
  /\ InMerged <= MergedCap
  /\ lines["stdout"] + lines["stderr"] <= MaxLines

(* The k-th line sent is in the slot that many slots before bufIdx.        *)
SlotBack(i, d) == IF d <= i THEN i - d ELSE i - d + BufRing
Slots ==
  \A st \in Stream, k \in 1..MaxLines :
    done[st] < k /\ k <= sent[st] =>
      slotOf[st][k] = SlotBack(bufIdx[st], (sent[st] + 1) - k)

IInv == Hops /\ Slots /\ NoTornLine

=============================================================================
