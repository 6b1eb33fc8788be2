---------------------------- MODULE ControlServer ----------------------------
(***************************************************************************)
(* The control socket: the accept loop, one handler per connection with    *)
(* the two slot pools, and Stop.                                           *)
(*                                                                         *)
(* What a command says is left out; a handler sees whether it is a one-    *)
(* shot command, a logs command, or nothing it serves.  Callbacks return:  *)
(* their own waits are bounded by the client's timeout.                    *)
(***************************************************************************)
EXTENDS Integers, FiniteSets

CONSTANTS
  Conn,         \* connections
  MaxConns,     \* maxConns
  MaxStreaming  \* maxStreaming

ASSUME PoolAssumption ==
  MaxConns \in Nat \ {0} /\ MaxStreaming \in Nat \ {0} /\ IsFiniteSet(Conn)

VARIABLES
  conn,         \* where each connection is
  loop,         \* acceptLoop: "accept", "got" or "ended"
  cmdSem, streamSem,   \* slots taken
  cmdReleased,  \* handlers that gave their command slot back
  handlersWg,
  closed, done, \* Server.closed; the done channel is closed
  listening,
  stop          \* Stop: "off", "closed", "done", "listener", "returned"

pools == <<cmdSem, streamSem, cmdReleased>>
serverVars == <<conn, loop, pools, handlersWg, closed, done, listening, stop>>
server == <<closed, done, listening, stop>>

Handling == {"read", "command", "swap", "stream"}
ConnState == {"none", "queued", "accepted", "gone"} \cup Handling

ServerTypeOK ==
  /\ conn \in [Conn -> ConnState] /\ loop \in {"accept", "got", "ended"}
  /\ cmdSem \in 0..MaxConns /\ streamSem \in 0..MaxStreaming /\ handlersWg \in Nat
  /\ cmdReleased \subseteq Conn
  /\ closed \in BOOLEAN /\ done \in BOOLEAN /\ listening \in BOOLEAN
  /\ stop \in {"off", "closed", "done", "listener", "returned"}

ServerInit ==
  /\ conn = [c \in Conn |-> "none"] /\ loop = "accept"
  /\ cmdSem = 0 /\ streamSem = 0 /\ handlersWg = 0 /\ cmdReleased = {}
  /\ closed = FALSE /\ done = FALSE /\ listening = TRUE /\ stop = "off"

In(S) == {c \in Conn : conn[c] \in S}

-----------------------------------------------------------------------------
(* acceptLoop                                                              *)

Connect(c) ==
  /\ conn[c] = "none" /\ listening
  /\ conn' = [conn EXCEPT ![c] = "queued"]
  /\ UNCHANGED <<loop, pools, handlersWg, server>>

Accept(c) ==
  /\ loop = "accept" /\ listening /\ conn[c] = "queued"
  /\ conn' = [conn EXCEPT ![c] = "accepted"]
  /\ loop' = "got"
  /\ UNCHANGED <<pools, handlersWg, server>>

(* Accept fails: the listener is closed.  A transient error only retries.  *)
AcceptError ==
  /\ loop = "accept" /\ ~listening /\ closed
  /\ loop' = "ended"
  /\ UNCHANGED <<conn, pools, handlersWg, server>>

(* Take a command slot and start the handler, or close at capacity.        *)
AtCapacityMut == cmdSem + streamSem >= MaxConns  \* one pool for both
AtCapacity == cmdSem = MaxConns

Admit(c) ==
  /\ loop = "got" /\ conn[c] = "accepted"
  /\ loop' = "accept"
  /\ \/ /\ ~AtCapacity
        /\ cmdSem' = cmdSem + 1 /\ handlersWg' = handlersWg + 1
        /\ conn' = [conn EXCEPT ![c] = "read"]
     \/ /\ AtCapacity
        /\ conn' = [conn EXCEPT ![c] = "gone"]
        /\ UNCHANGED <<cmdSem, handlersWg>>
  /\ UNCHANGED <<streamSem, cmdReleased, server>>

-----------------------------------------------------------------------------
(* handleConn: every exit runs the deferred function, after a panic of a   *)
(* callback too.                                                           *)

ReleaseCmd(c) ==
  /\ cmdSem' = IF c \in cmdReleased THEN cmdSem ELSE cmdSem - 1
  /\ cmdReleased' = cmdReleased \cup {c}

Return(c) ==
  /\ ReleaseCmd(c)
  /\ conn' = [conn EXCEPT ![c] = "gone"]
  /\ handlersWg' = handlersWg - 1

(* A one-shot command keeps its slot; a logs command gives it back.        *)
ReadCommand(c) ==
  /\ conn[c] = "read"
  /\ \/ conn' = [conn EXCEPT ![c] = "command"] /\ UNCHANGED <<cmdSem, cmdReleased>>
     \/ conn' = [conn EXCEPT ![c] = "swap"] /\ ReleaseCmd(c)
  /\ UNCHANGED <<loop, streamSem, handlersWg, server>>

(* The read deadline, a closed connection, an empty line, or a peer that   *)
(* may not.                                                                *)
ReadNothingMut(c) == FALSE  \* no read deadline
ReadNothing(c) ==
  /\ conn[c] = "read" /\ Return(c)
  /\ UNCHANGED <<loop, streamSem, server>>

(* handleCommand and the reply.                                            *)
Command(c) ==
  /\ conn[c] = "command" /\ Return(c)
  /\ UNCHANGED <<loop, streamSem, server>>

(* A streaming slot, or an error.                                          *)
TakeStreamSlot(c) ==
  /\ conn[c] = "swap"
  /\ \/ /\ streamSem < MaxStreaming
        /\ streamSem' = streamSem + 1
        /\ conn' = [conn EXCEPT ![c] = "stream"]
        /\ UNCHANGED <<cmdSem, cmdReleased, handlersWg>>
     \/ streamSem = MaxStreaming /\ Return(c) /\ UNCHANGED streamSem
  /\ UNCHANGED <<loop, server>>

(* handleLogs ends: history only, client gone, subscription closed, idle   *)
(* too long, or done.                                                      *)
EndStream(c) ==
  /\ conn[c] = "stream" /\ Return(c)
  /\ streamSem' = streamSem - 1
  /\ UNCHANGED <<loop, server>>

SeesDoneMut(c) == FALSE  \* no case <-cs.done
SeesDone(c) == done /\ conn[c] = "stream"

-----------------------------------------------------------------------------
(* Stop                                                                    *)

StopClosed ==
  /\ stop = "off" /\ stop' = "closed" /\ closed' = TRUE
  /\ UNCHANGED <<conn, loop, pools, handlersWg, done, listening>>

StopDone ==
  /\ stop = "closed" /\ stop' = "done" /\ done' = TRUE
  /\ UNCHANGED <<conn, loop, pools, handlersWg, closed, listening>>

(* Closing the listener resets the connections nobody accepted.            *)
StopListener ==
  /\ stop = "done" /\ stop' = "listener" /\ listening' = FALSE
  /\ conn' = [c \in Conn |-> IF conn[c] = "queued" THEN "gone" ELSE conn[c]]
  /\ UNCHANGED <<loop, pools, handlersWg, closed, done>>

HandlersDoneMut == TRUE  \* no handlersWg.Wait
HandlersDone == handlersWg = 0

StopReturn ==
  /\ stop = "listener" /\ HandlersDone
  /\ stop' = "returned"
  /\ UNCHANGED <<conn, loop, pools, handlersWg, closed, done, listening>>

ServerStop == StopClosed \/ StopDone \/ StopListener \/ StopReturn
Handler(c) == ReadCommand(c) \/ ReadNothing(c) \/ Command(c) \/ TakeStreamSlot(c) \/ EndStream(c)
ServerNext ==
  \/ \E c \in Conn : Connect(c) \/ Accept(c) \/ Admit(c) \/ Handler(c)
  \/ AcceptError \/ ServerStop

ServerSpec == ServerInit /\ [][ServerNext]_serverVars

(* The goroutines run and the read deadline expires; clients owe nothing,  *)
(* so a stream ends of itself only when done is closed.                    *)
ServerFairness ==
  /\ WF_serverVars(StopDone) /\ WF_serverVars(StopListener) /\ WF_serverVars(StopReturn) /\ WF_serverVars(AcceptError)
  /\ \A c \in Conn :
       /\ WF_serverVars(Admit(c)) /\ WF_serverVars(ReadNothing(c)) /\ WF_serverVars(Command(c))
       /\ WF_serverVars(TakeStreamSlot(c)) /\ WF_serverVars(SeesDone(c) /\ EndStream(c))
ServerFairSpec == ServerSpec /\ ServerFairness

-----------------------------------------------------------------------------
(* Followers cannot starve one-shot commands: a connection is turned away  *)
(* only when maxConns others are reading or running a command.             *)
OnlyCommandsTurnAway ==
  [][\A c \in Conn : conn[c] = "accepted" /\ conn'[c] = "gone" =>
       Cardinality(In({"read", "command"})) = MaxConns]_serverVars

(* Every connection that was accepted is answered and closed, or streams.  *)
ConnsAreServed ==
  \A c \in Conn : conn[c] \in {"accepted", "read", "command", "swap"} ~> conn[c] \in {"stream", "gone"}

(* Stop returns, with followers connected to silent services too.          *)
StopReturns == stop = "closed" ~> stop = "returned"

(* After Stop has returned at most one connection is still served: the one *)
(* the accept loop had accepted and not yet counted.                       *)
OneStragglerAtMost == stop = "returned" => Cardinality(In(Handling)) <= 1

=============================================================================
