---------------------------- MODULE ShutdownProofs ----------------------------
(***************************************************************************)
(* What gopherd has done when it exits, of its two ends.                   *)
(*                                                                         *)
(* Of the control socket, for any number of connections and any size of    *)
(* the two pools: the semaphores and the wait group count exactly the      *)
(* handlers that they are there for (Counted), so a connection is turned   *)
(* away only at capacity, and Stop leaves at most one handler behind.      *)
(*                                                                         *)
(* Of the process groups, for any number of runs: the SIGKILL that Stop    *)
(* defers goes to what was stopped, and none of it is alive at the end.    *)
(***************************************************************************)
EXTENDS ControlServer, ProcessGroup, FiniteSetTheorems, TLAPS

-----------------------------------------------------------------------------
(* The control socket                                                      *)

One(b) == IF b THEN 1 ELSE 0

(* The deferred release finds out right whether the slot was given back.   *)
Released ==
  \A c \in Conn :
    /\ conn[c] \in {"none", "queued", "accepted", "read", "command"} => c \notin cmdReleased
    /\ conn[c] \in {"swap", "stream"} => c \in cmdReleased

(* Slots and wait group are the numbers of the handlers that hold them.    *)
Counted ==
  /\ cmdSem = Cardinality(In({"read", "command"}))
  /\ streamSem = Cardinality(In({"stream"}))
  /\ handlersWg = Cardinality(In(Handling))

(* The accept loop has one connection in its hand, between Accept and the  *)
(* start of the handler.                                                   *)
OneAccepted ==
  /\ loop # "got" => In({"accepted"}) = {}
  /\ \A c, d \in In({"accepted"}) : c = d

(* Nothing is accepted after the listener is closed, and once Stop has     *)
(* seen the wait group at zero only the connection in the loop's hand can  *)
(* still become a handler.                                                 *)
Stopped ==
  /\ stop \in {"listener", "returned"} => ~listening
  /\ stop = "returned" => \A c, d \in In(Handling \cup {"accepted"}) : c = d

Inv == ServerTypeOK /\ Released /\ Counted /\ OneAccepted /\ Stopped

(* The handlers are finitely many.                                         *)
LEMMA InFinite ==
  ASSUME NEW S
  PROVE  IsFiniteSet(In(S)) /\ Cardinality(In(S)) \in Nat
BY Zenon, PoolAssumption, FS_Subset, FS_CardinalityType DEF In

(* One connection that moves adds one where it goes and takes one away     *)
(* where it was.                                                           *)
LEMMA MoveCounts ==
  ASSUME conn \in [Conn -> ConnState], NEW c \in Conn, NEW s, conn' = [conn EXCEPT ![c] = s], NEW S
  PROVE  Cardinality(In(S))' = Cardinality(In(S)) + One(s \in S) - One(conn[c] \in S)
<1> DEFINE A == In(S)
           B == In(S)'
<1>1. B = IF s \in S THEN A \cup {c} ELSE A \ {c}
  BY Zenon DEF In
<1>2. c \in A <=> conn[c] \in S
  BY Zenon DEF In
<1>3. IsFiniteSet(A) /\ Cardinality(A) \in Nat
  BY Zenon, InFinite
<1>4. Cardinality(B) = Cardinality(A) + One(s \in S) - One(conn[c] \in S)
  <2> HIDE DEF A, B
  <2>1. CASE s \in S /\ c \in A
    <3>1. B = A
      BY Zenon, <1>1, <2>1
    <3> QED
      BY <1>2, <1>3, <2>1, <3>1 DEF One
  <2>2. CASE s \in S /\ c \notin A
    <3>1. Cardinality(B) = Cardinality(A) + 1
      BY Zenon, <1>1, <1>3, <2>2, FS_AddElement
    <3> QED
      BY <1>2, <1>3, <2>2, <3>1 DEF One
  <2>3. CASE s \notin S /\ c \in A
    <3>1. Cardinality(B) = Cardinality(A) - 1
      BY Zenon, <1>1, <1>3, <2>3, FS_RemoveElement
    <3> QED
      BY <1>2, <1>3, <2>3, <3>1 DEF One
  <2>4. CASE s \notin S /\ c \notin A
    <3>1. B = A
      BY Zenon, <1>1, <2>4
    <3> QED
      BY <1>2, <1>3, <2>4, <3>1 DEF One
  <2> QED
    BY Zenon, <2>1, <2>2, <2>3, <2>4
<1> QED
  BY Zenon, <1>4

(* What a handler still has to give back has been counted.                 *)
LEMMA HeldIsCounted ==
  ASSUME NEW c \in Conn, NEW S, conn[c] \in S
  PROVE  Cardinality(In(S)) >= 1
<1>1. c \in In(S)
  BY Zenon DEF In
<1> QED
  BY <1>1, InFinite, FS_EmptySet

(* All three counts after connection c moved to s.                         *)
Shift(c, s) ==
  /\ Cardinality(In({"read", "command"}))' =
       cmdSem + One(s \in {"read", "command"}) - One(conn[c] \in {"read", "command"})
  /\ Cardinality(In({"stream"}))' = streamSem + One(s \in {"stream"}) - One(conn[c] \in {"stream"})
  /\ Cardinality(In(Handling))' = handlersWg + One(s \in Handling) - One(conn[c] \in Handling)
  /\ cmdSem \in Nat /\ streamSem \in Nat /\ handlersWg \in Nat
  /\ conn[c] \in {"read", "command"} => cmdSem >= 1
  /\ conn[c] = "stream" => streamSem >= 1
  /\ conn[c] \in Handling => handlersWg >= 1

(* Every move of one connection shifts the counts so.                      *)
LEMMA MoveShifts ==
  ASSUME conn \in [Conn -> ConnState], Counted, NEW c \in Conn, NEW s, conn' = [conn EXCEPT ![c] = s]
  PROVE  Shift(c, s)
<1>1. Cardinality(In({"read", "command"}))' =
        Cardinality(In({"read", "command"})) + One(s \in {"read", "command"}) - One(conn[c] \in {"read", "command"})
  BY Zenon, MoveCounts
<1>2. Cardinality(In({"stream"}))' = Cardinality(In({"stream"})) + One(s \in {"stream"}) - One(conn[c] \in {"stream"})
  BY Zenon, MoveCounts
<1>3. Cardinality(In(Handling))' = Cardinality(In(Handling)) + One(s \in Handling) - One(conn[c] \in Handling)
  BY Zenon, MoveCounts
<1>4. cmdSem \in Nat /\ streamSem \in Nat /\ handlersWg \in Nat
  BY Zenon, InFinite DEF Counted
<1>5. /\ conn[c] \in {"read", "command"} => cmdSem >= 1
      /\ conn[c] \in {"stream"} => streamSem >= 1
      /\ conn[c] \in Handling => handlersWg >= 1
  BY Zenon, HeldIsCounted DEF Counted
<1> QED
  BY Zenon, <1>1, <1>2, <1>3, <1>4, <1>5 DEF Counted, Shift

(* Slots and wait group stay right, and within their bounds.               *)
LEMMA CountedKept ==
  ASSUME ServerTypeOK, Released, Counted, [ServerNext]_serverVars
  PROVE  Counted' /\ ServerTypeOK'
<1> USE PoolAssumption DEF pools, server
<1>0. conn \in [Conn -> ConnState]
  BY Zenon DEF ServerTypeOK
<1>1. ASSUME NEW c \in Conn, Connect(c) \/ Accept(c) PROVE Counted' /\ ServerTypeOK'
  <2>1. PICK s \in {"queued", "accepted"} : conn' = [conn EXCEPT ![c] = s] /\ conn[c] \in {"none", "queued"}
    BY Zenon, <1>1 DEF Connect, Accept
  <2>2. Counted'
    <3>1. Shift(c, s)
      BY Zenon, <1>0, <1>1, <2>1, MoveShifts
    <3> QED
      BY <1>0, <1>1, <2>1, <3>1 DEF Shift, Counted, Connect, Accept, One, Handling
  <2> QED
    BY Zenon, <1>1, <2>1, <2>2 DEF ServerTypeOK, ConnState, Connect, Accept
<1>2. ASSUME NEW c \in Conn, Admit(c) PROVE Counted' /\ ServerTypeOK'
  <2>1. CASE cmdSem # MaxConns /\ conn' = [conn EXCEPT ![c] = "read"]
    <3>1. cmdSem' = cmdSem + 1 /\ handlersWg' = handlersWg + 1 /\ streamSem' = streamSem /\ conn[c] = "accepted"
      BY Zenon, <1>0, <1>2, <2>1 DEF Admit, AtCapacity
    <3>2. Counted'
      <4>1. Shift(c, "read")
        BY Zenon, <1>0, <2>1, <3>1, MoveShifts
      <4> QED
        BY <1>0, <2>1, <3>1, <4>1 DEF Shift, Counted, One, Handling
    <3> QED
      BY <1>2, <2>1, <3>1, <3>2 DEF ServerTypeOK, ConnState, Handling, Admit
  <2>2. CASE conn' = [conn EXCEPT ![c] = "gone"] /\ UNCHANGED <<cmdSem, handlersWg>>
    <3>1. streamSem' = streamSem /\ conn[c] = "accepted"
      BY Zenon, <1>2, <2>2 DEF Admit
    <3>2. Counted'
      <4>1. Shift(c, "gone")
        BY Zenon, <1>0, <2>2, <3>1, MoveShifts
      <4> QED
        BY <1>0, <2>2, <3>1, <4>1 DEF Shift, Counted, One, Handling
    <3> QED
      BY Zenon, <1>2, <2>2, <3>1, <3>2 DEF ServerTypeOK, ConnState, Admit
  <2> QED
    BY Zenon, <1>2, <2>1, <2>2 DEF Admit, AtCapacity
<1>3. ASSUME NEW c \in Conn, ReadCommand(c) PROVE Counted' /\ ServerTypeOK'
  <2>1. c \notin cmdReleased /\ conn[c] = "read" /\ UNCHANGED <<streamSem, handlersWg>>
    BY Zenon, <1>3 DEF Released, ReadCommand
  <2>2. CASE conn' = [conn EXCEPT ![c] = "command"] /\ UNCHANGED <<cmdSem, cmdReleased>>
    <3>1. Counted'
      <4>1. Shift(c, "command")
        BY Zenon, <1>0, <2>1, <2>2, MoveShifts
      <4> QED
        BY <1>0, <2>1, <2>2, <4>1 DEF Shift, Counted, One, Handling
    <3> QED
      BY Zenon, <1>3, <2>2, <3>1 DEF ServerTypeOK, ConnState, Handling, ReadCommand
  <2>3. CASE conn' = [conn EXCEPT ![c] = "swap"] /\ ReleaseCmd(c)
    <3>1. cmdSem' = cmdSem - 1 /\ cmdReleased' = cmdReleased \cup {c}
      BY Zenon, <2>1, <2>3 DEF ReleaseCmd
    <3>2. Counted' /\ cmdSem >= 1
      <4>1. Shift(c, "swap")
        BY Zenon, <1>0, <2>1, <2>3, <3>1, MoveShifts
      <4> QED
        BY <1>0, <2>1, <2>3, <3>1, <4>1 DEF Shift, Counted, One, Handling
    <3> QED
      BY <1>3, <2>3, <3>1, <3>2 DEF ServerTypeOK, ConnState, Handling, ReadCommand
  <2> QED
    BY Zenon, <1>3, <2>2, <2>3 DEF ReadCommand
<1>4. ASSUME NEW c \in Conn, ReadNothing(c) \/ Command(c) PROVE Counted' /\ ServerTypeOK'
  <2>1. /\ c \notin cmdReleased /\ conn[c] \in {"read", "command"}
        /\ conn' = [conn EXCEPT ![c] = "gone"] /\ handlersWg' = handlersWg - 1 /\ streamSem' = streamSem
        /\ cmdSem' = cmdSem - 1 /\ cmdReleased' = cmdReleased \cup {c}
    BY Zenon, <1>4 DEF Released, ReadNothing, Command, Return, ReleaseCmd
  <2>2. Counted' /\ cmdSem >= 1 /\ handlersWg >= 1
    <3>1. Shift(c, "gone")
      BY Zenon, <1>0, <2>1, MoveShifts
    <3> QED
      BY <1>0, <2>1, <3>1 DEF Shift, Counted, One, Handling
  <2> QED
    BY <1>4, <2>1, <2>2 DEF ServerTypeOK, ConnState, ReadNothing, Command
<1>5. ASSUME NEW c \in Conn, TakeStreamSlot(c) PROVE Counted' /\ ServerTypeOK'
  <2>1. c \in cmdReleased /\ conn[c] = "swap"
    BY Zenon, <1>5 DEF Released, TakeStreamSlot
  <2>2. CASE streamSem < MaxStreaming /\ conn' = [conn EXCEPT ![c] = "stream"]
    <3>1. streamSem' = streamSem + 1 /\ UNCHANGED <<cmdSem, cmdReleased, handlersWg>>
      BY Zenon, <1>0, <1>5, <2>2 DEF TakeStreamSlot, Return
    <3>2. Counted'
      <4>1. Shift(c, "stream")
        BY Zenon, <1>0, <2>1, <2>2, <3>1, MoveShifts
      <4> QED
        BY <1>0, <2>1, <2>2, <3>1, <4>1 DEF Shift, Counted, One, Handling
    <3> QED
      BY <1>5, <2>2, <3>1, <3>2 DEF ServerTypeOK, ConnState, Handling, TakeStreamSlot
  <2>3. CASE Return(c) /\ UNCHANGED streamSem
    <3>1. /\ conn' = [conn EXCEPT ![c] = "gone"] /\ handlersWg' = handlersWg - 1
          /\ cmdSem' = cmdSem /\ cmdReleased' = cmdReleased
      BY Zenon, <2>1, <2>3 DEF Return, ReleaseCmd
    <3>2. Counted' /\ handlersWg >= 1
      <4>1. Shift(c, "gone")
        BY Zenon, <1>0, <2>1, <2>3, <3>1, MoveShifts
      <4> QED
        BY <1>0, <2>1, <2>3, <3>1, <4>1 DEF Shift, Counted, One, Handling
    <3> QED
      BY <1>5, <2>3, <3>1, <3>2 DEF ServerTypeOK, ConnState, TakeStreamSlot
  <2> QED
    BY Zenon, <1>5, <2>2, <2>3 DEF TakeStreamSlot
<1>6. ASSUME NEW c \in Conn, EndStream(c) PROVE Counted' /\ ServerTypeOK'
  <2>1. /\ conn[c] = "stream" /\ conn' = [conn EXCEPT ![c] = "gone"] /\ handlersWg' = handlersWg - 1
        /\ streamSem' = streamSem - 1 /\ cmdSem' = cmdSem /\ cmdReleased' = cmdReleased
    BY Zenon, <1>6 DEF Released, EndStream, Return, ReleaseCmd
  <2>2. Counted' /\ streamSem >= 1 /\ handlersWg >= 1
    <3>1. Shift(c, "gone")
      BY Zenon, <1>0, <2>1, MoveShifts
    <3> QED
      BY <1>0, <2>1, <3>1 DEF Shift, Counted, One, Handling
  <2> QED
    BY <1>6, <2>1, <2>2 DEF ServerTypeOK, ConnState, EndStream
<1>7. CASE StopListener
  <2>1. conn' \in [Conn -> ConnState]
    BY Zenon, <1>0, <1>7 DEF StopListener, ConnState
  <2>2. \A T \in {{"read", "command"}, {"stream"}, Handling} : In(T)' = In(T)
    BY Zenon, <1>0, <1>7 DEF StopListener, In, Handling
  <2> QED
    BY Zenon, <1>7, <2>1, <2>2 DEF ServerTypeOK, Counted, StopListener
<1>8. CASE AcceptError \/ StopClosed \/ StopDone \/ StopReturn \/ UNCHANGED serverVars
  BY Zenon, <1>8 DEF ServerTypeOK, Counted, In, AcceptError, StopClosed, StopDone, StopReturn, serverVars
<1> QED
  BY Zenon, <1>1, <1>2, <1>3, <1>4, <1>5, <1>6, <1>7, <1>8 DEF ServerNext, Handler, ServerStop

(* A handler that gives its slot back says so.                             *)
LEMMA ReleasedKept ==
  ASSUME ServerTypeOK, Released, [ServerNext]_serverVars
  PROVE  Released'
<1> USE DEF ServerTypeOK, Released, pools, server, Return, ReleaseCmd
<1>1. ASSUME NEW c \in Conn, Connect(c) \/ Accept(c) \/ Admit(c) PROVE Released'
  BY Zenon, <1>1 DEF Connect, Accept, Admit
<1>2. ASSUME NEW c \in Conn, ReadCommand(c) \/ ReadNothing(c) \/ Command(c) PROVE Released'
  BY Zenon, <1>2 DEF ReadCommand, ReadNothing, Command
<1>3. ASSUME NEW c \in Conn, TakeStreamSlot(c) \/ EndStream(c) PROVE Released'
  BY Zenon, <1>3 DEF TakeStreamSlot, EndStream
<1>4. CASE AcceptError \/ StopClosed \/ StopDone \/ StopListener \/ StopReturn \/ UNCHANGED serverVars
  BY Zenon, <1>4 DEF AcceptError, StopClosed, StopDone, StopListener, StopReturn, serverVars
<1> QED
  BY Zenon, <1>1, <1>2, <1>3, <1>4 DEF ServerNext, Handler, ServerStop

(* Accept, then start the handler, then Accept again.                      *)
LEMMA OneAcceptedKept ==
  ASSUME ServerTypeOK, OneAccepted, [ServerNext]_serverVars
  PROVE  OneAccepted'
<1> USE DEF ServerTypeOK, OneAccepted, In, pools, server, Return, ReleaseCmd
<1>1. ASSUME NEW c \in Conn, Connect(c) \/ Accept(c) \/ Admit(c) PROVE OneAccepted'
  BY <1>1 DEF Connect, Accept, Admit
<1>2. ASSUME NEW c \in Conn, Handler(c) PROVE OneAccepted'
  BY Zenon, <1>2 DEF Handler, ReadCommand, ReadNothing, Command, TakeStreamSlot, EndStream
<1>3. CASE AcceptError \/ StopClosed \/ StopDone \/ StopListener \/ StopReturn \/ UNCHANGED serverVars
  BY Zenon, <1>3 DEF AcceptError, StopClosed, StopDone, StopListener, StopReturn, serverVars
<1> QED
  BY Zenon, <1>1, <1>2, <1>3 DEF ServerNext, ServerStop

(* After the listener is closed the handlers and the connection in the     *)
(* loop's hand only become fewer.                                          *)
LEMMA StoppedKept ==
  ASSUME ServerTypeOK, Counted, OneAccepted, Stopped, [ServerNext]_serverVars
  PROVE  Stopped'
<1> DEFINE Busy == In(Handling \cup {"accepted"})
<1>1. CASE StopReturn
  <2>1. Cardinality(In(Handling)) = 0
    BY Zenon, <1>1 DEF Counted, StopReturn, HandlersDone
  <2>2. In(Handling) = {}
    BY Zenon, <2>1, InFinite, FS_EmptySet
  <2>3. \A c, d \in Busy : c = d
    BY Zenon, <2>2 DEF In, OneAccepted
  <2>4. Busy' = Busy
    BY Zenon, <1>1 DEF StopReturn, In
  <2> QED
    BY Zenon, <1>1, <2>3, <2>4 DEF Stopped, StopReturn
<1>2. ASSUME NEW c \in Conn, Connect(c) \/ Accept(c) \/ Admit(c) PROVE Stopped'
  BY <1>2 DEF ServerTypeOK, Stopped, In, Handling, pools, server, Connect, Accept, Admit
<1>3. ASSUME NEW c \in Conn, Handler(c) PROVE Stopped'
  BY <1>3 DEF ServerTypeOK, Stopped, In, Handling, pools, server, Return, Handler, ReadCommand, ReadNothing,
              Command, TakeStreamSlot, EndStream
<1>4. CASE AcceptError \/ StopClosed \/ StopDone \/ StopListener \/ UNCHANGED serverVars
  BY <1>4 DEF ServerTypeOK, Stopped, In, Handling, pools, server, AcceptError, StopClosed, StopDone, StopListener, serverVars
<1> QED
  BY Zenon, <1>1, <1>2, <1>3, <1>4 DEF ServerNext, ServerStop

(* The whole invariant holds at the start and every step keeps it.         *)
LEMMA InvInductive == (ServerInit => Inv) /\ (Inv /\ [ServerNext]_serverVars => Inv')
<1>1. ASSUME ServerInit PROVE Inv
  <2>1. \A T \in {{"read", "command"}, {"stream"}, Handling, {"accepted"}, Handling \cup {"accepted"}} : In(T) = {}
    BY Zenon, <1>1 DEF ServerInit, In, Handling
  <2>2. ServerTypeOK
    <3>1. conn \in [Conn -> ConnState] /\ 0 \in 0..MaxConns /\ 0 \in 0..MaxStreaming
      BY <1>1, PoolAssumption DEF ServerInit, ConnState
    <3> QED
      BY Zenon, <1>1, <3>1 DEF ServerInit, ServerTypeOK
  <2>4. Released
    BY Zenon, <1>1 DEF ServerInit, Released
  <2>3. Counted
    BY Zenon, <1>1, <2>1, FS_EmptySet DEF ServerInit, Counted
  <2> QED
    BY Zenon, <1>1, <2>1, <2>2, <2>3, <2>4 DEF ServerInit, Inv, OneAccepted, Stopped
<1>2. Inv /\ [ServerNext]_serverVars => Inv'
  BY Zenon, CountedKept, ReleasedKept, OneAcceptedKept, StoppedKept DEF Inv
<1> QED
  BY Zenon, <1>1, <1>2

(* Stop's handlersWg.Wait misses no handler but one: after Stop has        *)
(* returned, at most one connection is served, whatever the number of      *)
(* clients was.                                                            *)
THEOREM StopLeavesOneAtMost == ServerSpec => []OneStragglerAtMost
<1>1. ASSUME Inv PROVE OneStragglerAtMost
  <2>1. SUFFICES ASSUME stop = "returned" PROVE Cardinality(In(Handling)) <= 1
    BY Zenon DEF OneStragglerAtMost
  <2>2. \A c, d \in In(Handling) : c = d
    BY Zenon, <1>1, <2>1 DEF Inv, Stopped, In
  <2>3. CASE In(Handling) = {}
    BY <2>3, FS_EmptySet
  <2>4. ASSUME NEW c \in In(Handling) PROVE Cardinality(In(Handling)) = 1
    <3>1. In(Handling) = {c}
      BY Zenon, <2>2, <2>4
    <3> QED
      BY Zenon, <3>1, FS_Singleton
  <2> QED
    BY <2>3, <2>4
<1> QED
  BY <1>1, InvInductive, PTL DEF ServerSpec

(* The command pool is full only of connections that are read or whose     *)
(* command runs: log followers, however many, turn no command away.        *)
THEOREM FollowersTurnNobodyAway == ServerSpec => OnlyCommandsTurnAway
<1> DEFINE TurnedAway ==
       \A c \in Conn : conn[c] = "accepted" /\ conn'[c] = "gone" =>
         Cardinality(In({"read", "command"})) = MaxConns
<1>1. ASSUME Inv, [ServerNext]_serverVars PROVE [TurnedAway]_serverVars
  <2>1. SUFFICES ASSUME NEW c \in Conn, conn[c] = "accepted", conn'[c] = "gone", ServerNext
                 PROVE  cmdSem = MaxConns
    BY Zenon, <1>1 DEF Inv, Counted
  <2>2. Admit(c)
    BY Zenon, <1>1, <2>1 DEF ServerNext, Handler, ServerStop, Inv, ServerTypeOK, Connect, Accept, Admit, ReadCommand, ReadNothing, Command,
         TakeStreamSlot, EndStream, Return, AcceptError, StopClosed, StopDone, StopListener, StopReturn
  <2> QED
    BY Zenon, <1>1, <2>1, <2>2 DEF Admit, AtCapacity, Inv, ServerTypeOK
<1> QED
  BY <1>1, InvInductive, PTL DEF ServerSpec, OnlyCommandsTurnAway

-----------------------------------------------------------------------------
(* The process groups                                                      *)

USE DEF procs, kill, pipes, State, KeepTimer

(* The types, which Alive and the sets of runs need.                       *)
LEMMA TypeStep == TypeOK /\ [Next]_vars => TypeOK'
<1> SUFFICES ASSUME TypeOK, [Next]_vars PROVE TypeOK'
  OBVIOUS
<1> USE DEF TypeOK
<1>1. ASSUME NEW p \in Pid, ForkMember(p) \/ LeaderExit(p) \/ MemberExit(p) \/ ReapMember(p) PROVE TypeOK'
  BY <1>1 DEF ForkMember, LeaderExit, MemberExit, ReapMember
<1>2. ASSUME NEW p \in Pid, Wait4(p) \/ FinishStart(p) PROVE TypeOK'
  BY <1>2 DEF Wait4, FinishStart
<1>3. ASSUME NEW p \in Pid, KillCallback(p) PROVE TypeOK'
  BY <1>3 DEF KillCallback, KillTarget, SigKill
<1>4. ASSUME NEW p \in Pid, DrainGrace(p) \/ CopyCapture(p) PROVE TypeOK'
  BY <1>4 DEF DrainGrace, CopyCapture
<1>5. CASE StopService \/ KillTimer
  BY <1>5 DEF StopService, Stop, ArmTimer, KillTimer
<1>6. CASE MarkExited
  BY <1>6 DEF MarkExited, ReleaseCapture
<1>7. CASE Shutdown
  BY <1>7 DEF Shutdown, Stop, ArmTimer
<1>8. CASE AwaitDone
  BY Zenon, <1>8 DEF AwaitDone
<1>9. CASE WaitGroupExit
  BY Zenon, <1>9 DEF WaitGroupExit
<1>10. CASE UNCHANGED vars
  BY <1>10 DEF vars
<1> QED
  BY <1>1, <1>2, <1>3, <1>4, <1>5, <1>6, <1>7, <1>8, <1>9, <1>10 DEF Next, Timers

(* An escalation is armed by Stop only, for the run it stops, and a        *)
(* callback kills the group it was armed for.                              *)
LEMMA EscalationStep ==
  TypeOK /\ EscalationOfStopped /\ [Next]_vars => EscalationOfStopped'
<1> SUFFICES ASSUME TypeOK, EscalationOfStopped, [Next]_vars PROVE EscalationOfStopped'
  OBVIOUS
<1> USE DEF EscalationOfStopped, SigKillHitsStoppedRunsOnly
<1>1. CASE UNCHANGED <<timer, firing, wanted, killed>>
  BY <1>1
<1>2. ASSUME NEW p \in Pid, ForkMember(p) \/ LeaderExit(p) \/ MemberExit(p) \/ ReapMember(p)
                            \/ Wait4(p) \/ FinishStart(p) \/ DrainGrace(p) \/ CopyCapture(p)
      PROVE  EscalationOfStopped'
  BY <1>1, <1>2 DEF ForkMember, LeaderExit, MemberExit, ReapMember, Wait4, FinishStart,
                    DrainGrace, CopyCapture
<1>3. ASSUME NEW p \in Pid, KillCallback(p) PROVE EscalationOfStopped'
  BY <1>3 DEF KillCallback, KillTarget, SigKill
<1>4. CASE StopService \/ Shutdown
  BY <1>4 DEF StopService, Shutdown, Stop, ArmTimer
<1>5. CASE KillTimer
  BY <1>5, PidAssumption DEF KillTimer
<1>6. CASE MarkExited \/ AwaitDone \/ WaitGroupExit \/ UNCHANGED vars
  BY <1>1, <1>6 DEF MarkExited, AwaitDone, WaitGroupExit, vars
<1> QED
  BY <1>2, <1>3, <1>4, <1>5, <1>6 DEF Next, Timers

(* A dead group stays dead: its leader's pid is used, and only a leader    *)
(* that is alive forks.                                                    *)
LEMMA DeadStaysDead ==
  ASSUME TypeOK, NEW r \in Pid, r \in used, ~Alive(r), [Next]_vars
  PROVE  ~Alive(r)'
<1> USE DEF TypeOK, Alive
<1>1. CASE UNCHANGED <<leader, member>>
  BY <1>1
<1>2. ASSUME NEW p \in Pid, ForkMember(p) \/ LeaderExit(p) \/ MemberExit(p) \/ ReapMember(p)
                            \/ Wait4(p) \/ FinishStart(p)
      PROVE  ~Alive(r)'
  BY <1>2 DEF ForkMember, LeaderExit, MemberExit, ReapMember, Wait4, FinishStart
<1>3. ASSUME NEW p \in Pid, KillCallback(p) PROVE ~Alive(r)'
  BY <1>3 DEF KillCallback, KillTarget, SigKill
<1>4. ASSUME NEW p \in Pid, DrainGrace(p) \/ CopyCapture(p) PROVE ~Alive(r)'
  BY <1>1, <1>4 DEF DrainGrace, CopyCapture
<1>5. CASE StopService \/ KillTimer \/ MarkExited \/ Shutdown \/ AwaitDone \/ UNCHANGED vars
  <2>1. UNCHANGED <<leader, member>>
    BY Zenon, <1>5 DEF StopService, KillTimer, MarkExited, Shutdown, AwaitDone, vars
  <2> QED BY Zenon, <1>1, <2>1
<1>6. CASE WaitGroupExit
  <2>1. /\ UNCHANGED leader
        /\ member' = [member EXCEPT ![killPgid] = IF @ = "zombie" THEN "none" ELSE @]
    BY Zenon, <1>6 DEF WaitGroupExit
  <2> QED BY <2>1
<1> QED
  BY Zenon, <1>2, <1>3, <1>4, <1>5, <1>6 DEF Next, Timers

(* From shutdown's Stop on, the run's escalation stays on its way until    *)
(* the group is dead, and WaitGroupExit ends only then.                    *)
LEMMA ShutdownStep == TypeOK /\ IInv /\ [Next]_vars => IInv'
<1> SUFFICES ASSUME TypeOK, IInv, [Next]_vars PROVE IInv'
  OBVIOUS
<1> USE DEF IInv, ShutdownEscalates
<1>0. EscalationOfStopped' /\ TypeOK'
  BY TypeStep, EscalationStep
<1>1. ASSUME shutRun # None, ~Alive(shutRun) PROVE ~Alive(shutRun)'  \/ shutRun' # shutRun
  <2>1. shutRun \in Pid /\ shutRun \in used BY <1>1 DEF TypeOK
  <2>2. CASE shutRun' = shutRun
    <3>1. (leader'[shutRun] = "alive" \/ member'[shutRun] = "alive") = FALSE
      BY <1>1, <2>1, DeadStaysDead DEF Alive
    <3> QED BY <2>2, <3>1 DEF Alive
  <2> QED BY <2>2
<1>2. CASE UNCHANGED <<timer, firing, killPgid, pid, used, shut, shutRun>>
  BY <1>0, <1>1, <1>2
<1>3. ASSUME NEW p \in Pid, ForkMember(p) \/ LeaderExit(p) \/ MemberExit(p) \/ ReapMember(p)
                            \/ Wait4(p) \/ DrainGrace(p) \/ CopyCapture(p)
      PROVE  IInv'
  BY <1>2, <1>3 DEF ForkMember, LeaderExit, MemberExit, ReapMember, Wait4, DrainGrace, CopyCapture
<1>4. ASSUME NEW p \in Pid, FinishStart(p) PROVE IInv'
  BY <1>0, <1>1, <1>4 DEF FinishStart
<1>5. ASSUME NEW p \in Pid, KillCallback(p) PROVE IInv'
  <2>1. UNCHANGED <<timer, killPgid, pid, used, shut, shutRun>> /\ shut # "exited" /\ firing' = firing \ {p}
    BY <1>5 DEF KillCallback
  <2>2. leader'[p] # "alive" /\ member'[p] # "alive"
    <3>1. CASE SigKill(p) BY <3>1 DEF SigKill, TypeOK
    <3>2. CASE ~Probe(p) /\ UNCHANGED <<procs, killed>> BY <3>2 DEF Probe
    <3>3. p # None BY PidAssumption
    <3> QED BY <1>5, <3>1, <3>2, <3>3 DEF KillCallback, KillTarget
  <2>3. p = shutRun => ~Alive(shutRun)'
    BY <2>1, <2>2 DEF Alive
  <2> QED BY <1>0, <1>1, <2>1, <2>3
<1>6. CASE StopService
  BY <1>0, <1>1, <1>6 DEF StopService, Stop, ArmTimer
<1>7. CASE KillTimer
  BY <1>0, <1>1, <1>7 DEF KillTimer
<1>8. CASE MarkExited
  BY <1>0, <1>1, <1>8 DEF MarkExited
<1>9. CASE Shutdown
  BY <1>0, <1>1, <1>9 DEF Shutdown, Stop, ArmTimer
<1>10. CASE AwaitDone
  BY <1>0, <1>1, <1>10 DEF AwaitDone
<1>11. CASE WaitGroupExit
  <2>1. UNCHANGED <<leader, timer, firing, killPgid, pid, used, shutRun>> /\ shut = "group"
    BY <1>11 DEF WaitGroupExit
  <2>2. shutRun # None /\ shutRun \in Pid /\ killPgid = shutRun BY <2>1 DEF TypeOK
  <2>3. shut' = "exited" => ~Alive(shutRun)'
    BY <1>1, <1>11, <2>1, <2>2 DEF WaitGroupExit, Deadline, Alive, TypeOK
  <2>4. shut' \in {"exited", "group"} BY <1>11 DEF WaitGroupExit
  <2> QED BY <1>0, <1>1, <2>1, <2>2, <2>3, <2>4
<1>12. CASE UNCHANGED vars
  BY <1>2, <1>12 DEF vars
<1> QED
  BY <1>3, <1>4, <1>5, <1>6, <1>7, <1>8, <1>9, <1>10, <1>11, <1>12 DEF Next, Timers

(* Both invariants, and the types, hold in every reachable state.          *)
LEMMA Invariance == Spec => [](TypeOK /\ IInv)
<1>1. Init => TypeOK /\ IInv
  BY PidAssumption DEF Init, TypeOK, IInv, EscalationOfStopped, SigKillHitsStoppedRunsOnly, ShutdownEscalates
<1> QED BY <1>1, TypeStep, ShutdownStep, PTL DEF Spec

(* The SIGKILL that Stop defers never reaches a run that was not stopped,  *)
(* whatever starts, exits and stops happen before it fires.                *)
THEOREM KillIsAimed == Spec => []SigKillHitsStoppedRunsOnly
<1>1. IInv => SigKillHitsStoppedRunsOnly BY DEF IInv, EscalationOfStopped
<1> QED BY <1>1, Invariance, PTL

(* gopherd does not exit while a process of the group its shutdown stopped *)
(* is alive: WaitGroupExit outlasts the escalation.                        *)
THEOREM NoSurvivorAtExit == Spec => []ShutdownKillsGroup
<1>1. IInv => ShutdownKillsGroup BY DEF IInv, ShutdownEscalates, ShutdownKillsGroup
<1> QED BY <1>1, Invariance, PTL
=============================================================================
