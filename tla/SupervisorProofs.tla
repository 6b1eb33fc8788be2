-------------------------- MODULE SupervisorProofs --------------------------
(***************************************************************************)
(* Proofs of the type correctness and of the safety invariants of          *)
(* Supervisor, for any number of services, pids and concurrent commands.   *)
(***************************************************************************)
EXTENDS Supervisor, TLAPS

USE DEF svcVars, mainVars, metricVars, bounds, IsRunning, Done, CloseGor, CloseSd,
        FinishStart, MarkRestartPending, RunningDone, AllClosed, TimerSet, SendersDone

-----------------------------------------------------------------------------
(* Types                                                                   *)

(* The order stopAll follows is a sequence of names in every mode.         *)
LEMMA StopSeqType == StopSeq \in Seq(Name)
<1> DEFINE n == Len(ShutdownSeq)
<1>1. ShutdownSeq \in Seq(Name)
  BY Zenon, ConstAssumption
<1>2. n \in Nat /\ ShutdownSeq \in [1..n -> Name]
  BY <1>1
<1>3. \A i \in 1..n : n + 1 - i \in 1..n
  BY <1>2
<1>4. Reverse(ShutdownSeq) \in [1..n -> Name]
  BY Zenon, <1>2, <1>3 DEF Reverse
<1>5. Reverse(ShutdownSeq) \in Seq(Name)
  BY <1>2, <1>4
<1> QED
  BY Zenon, <1>1, <1>5 DEF StopSeq

(* The ways a goroutine slot is written.                                   *)
LEMMA IdleType == Idle \in Goroutine
BY Zenon DEF Idle, Goroutine, GorPc

LEMMA SlotUpdate ==
  ASSUME TypeOK, NEW g \in Gor, NEW r \in Goroutine
  PROVE  [gor EXCEPT ![g] = r] \in [Gor -> Goroutine]
BY Zenon DEF TypeOK

LEMMA PcUpdate ==
  ASSUME TypeOK, NEW g \in Gor, gor[g].pc # "free", NEW pc \in GorPc
  PROVE  [gor EXCEPT ![g].pc = pc] \in [Gor -> Goroutine]
<1>1. gor[g] \in Goroutine BY Zenon DEF TypeOK
<1>2. [gor[g] EXCEPT !.pc = pc] \in Goroutine BY Zenon, <1>1 DEF Goroutine
<1>3. [gor EXCEPT ![g].pc = pc] = [gor EXCEPT ![g] = [gor[g] EXCEPT !.pc = pc]]
  BY Zenon DEF TypeOK
<1> QED BY Zenon, <1>2, <1>3, SlotUpdate

(* A step of goroutine g goes to another pc or ends it.                    *)
GorStep(g, pcs) ==
  \/ gor' = [gor EXCEPT ![g] = Idle]
  \/ gor[g].pc # "free" /\ \E pc \in pcs : gor' = [gor EXCEPT ![g].pc = pc]

(* ... and stays well typed.                                               *)
LEMMA GorStepType ==
  ASSUME TypeOK, NEW g \in Gor, NEW pcs \in SUBSET GorPc, GorStep(g, pcs)
  PROVE  gor' \in [Gor -> Goroutine]
BY SlotUpdate, PcUpdate, IdleType DEF GorStep

(* A set of services is finite, so a batch of requests has a size.         *)
LEMMA BatchSize == ASSUME NEW T \in SUBSET Svc PROVE Cardinality(T) \in Nat
BY Zenon, ConstAssumption

(* StopAndEnqueue keeps the types of what it writes.                       *)
LEMMA EnqueueType ==
  ASSUME TypeOK, NEW T \in SUBSET Svc, StopAndEnqueue(T)
  PROVE  /\ gor' \in [Gor -> Goroutine] /\ pendingRestarts' \in Int
         /\ restartPending' \subseteq Name
         /\ stopped' \in [Svc -> BOOLEAN]
         /\ proc' \in [Pid -> {"free", "alive", "term", "zombie"}]
<1>1. PICK slot \in [T -> FreeGor(Cardinality(T))] :
        gor' = [g \in Gor |-> IF \E s \in T : slot[s] = g
                              THEN LET s == CHOOSE s \in T : slot[s] = g IN Request(s, Done(s))
                              ELSE gor[g]]
  BY Zenon DEF StopAndEnqueue, Enqueue
<1>2. gor' \in [Gor -> Goroutine]
  <2>1. ASSUME NEW g \in Gor, \E s \in T : slot[s] = g
        PROVE  (LET s == CHOOSE s \in T : slot[s] = g IN Request(s, Done(s))) \in Goroutine
    <3> DEFINE s == CHOOSE s \in T : slot[s] = g
    <3>1. s \in Svc BY Zenon, <2>1
    <3>2. pid[s] \in Pid \cup {None} BY Zenon, <3>1 DEF TypeOK
    <3> HIDE DEF s
    <3>3. Request(s, Done(s)) \in Goroutine BY Zenon, <3>1, <3>2 DEF Request, Goroutine, GorPc
    <3> QED BY Zenon, <3>3 DEF s
  <2>2. \A g \in Gor : gor[g] \in Goroutine BY Zenon DEF TypeOK
  <2> QED BY Zenon, <1>1, <2>1, <2>2
<1>3. pendingRestarts' \in Int
  BY BatchSize DEF StopAndEnqueue, Enqueue, TypeOK
<1>4. restartPending' \subseteq Name
  BY ConstAssumption DEF StopAndEnqueue, TypeOK
<1>5. stopped' \in [Svc -> BOOLEAN] /\ proc' \in [Pid -> {"free", "alive", "term", "zombie"}]
  BY Zenon DEF StopAndEnqueue, Stop, TypeOK
<1> QED BY Zenon, <1>2, <1>3, <1>4, <1>5

(* Stop() keeps the types of what it writes.                               *)
LEMMA StopType ==
  ASSUME TypeOK, NEW T, Stop(T)
  PROVE  stopped' \in [Svc -> BOOLEAN] /\ proc' \in [Pid -> {"free", "alive", "term", "zombie"}]
BY Zenon DEF Stop, TypeOK

(* Every action keeps the types.                                           *)
LEMMA TypeStep == TypeOK /\ [Next]_vars => TypeOK'
<1> SUFFICES ASSUME TypeOK, [Next]_vars PROVE TypeOK'
  BY Zenon
<1>a. 0 \in Code /\ 1 \in Code /\ NameOf \in [Svc -> Name] /\ ExitCodeMap \in [Svc -> [Code -> Code]]
  BY Zenon, ConstAssumption
<1>1. CASE UNCHANGED vars
  BY Zenon, <1>1 DEF vars, TypeOK
<1>2. ASSUME NEW p \in Pid, ProcExit(p) \/ Reparent(p) PROVE TypeOK'
  BY <1>2 DEF ProcExit, Reparent, TypeOK
<1>3. CASE SigShutdown
  <2>1. sd' \in ShutdownState
    BY Zenon, <1>3, <1>a DEF SigShutdown, InitiateShutdown, TypeOK, ShutdownState, SdPc
  <2> QED BY Zenon, <1>3, <2>1 DEF SigShutdown, InitiateShutdown, TypeOK
<1>4. CASE HandleCheckFailure
  <2>1. PICK T \in SUBSET Svc : StopAndEnqueue(T)
    BY Zenon, <1>4 DEF HandleCheckFailure, ToRestart, TypeOK
  <2>2. trigger' \subseteq Code
    BY Zenon, <1>4, <1>a DEF HandleCheckFailure, ShutdownCode, TypeOK
  <2>3. ops' \in Nat /\ orphans' \in Nat
    BY <1>4 DEF HandleCheckFailure, Op, TypeOK
  <2> QED BY Zenon, <1>4, <2>1, <2>2, <2>3, EnqueueType DEF HandleCheckFailure, TypeOK
<1>5. ASSUME NEW s \in Svc, RestartFn(s) PROVE TypeOK'
  <2>1. StopAndEnqueue({s}) BY Zenon, <1>5 DEF RestartFn
  <2>2. ops' \in Nat /\ orphans' \in Nat
    BY <1>5 DEF RestartFn, Op, TypeOK
  <2> QED BY Zenon, <1>5, <2>1, <2>2, EnqueueType DEF RestartFn, TypeOK
<1>6. ASSUME NEW g \in Gor, NEW s \in Svc, StartFn(g, s) \/ StopFn(g, s) PROVE TypeOK'
  <2>1. gor' \in [Gor -> Goroutine]
    <3>1. \E c \in Pid \cup {None}, pc \in {"start", "stop"} : Spawn(g, pc, s, c)
      BY Zenon, <1>6 DEF StartFn, StopFn, TypeOK
    <3>2. \A c \in Pid \cup {None}, pc \in {"start", "stop"} :
            [pc |-> pc, svc |-> s, ch |-> c, restart |-> FALSE] \in Goroutine
      BY Zenon DEF Goroutine, GorPc
    <3>3. PICK c \in Pid \cup {None}, pc \in {"start", "stop"} : Spawn(g, pc, s, c)
      BY Zenon, <3>1
    <3>4. [pc |-> pc, svc |-> s, ch |-> c, restart |-> FALSE] \in Goroutine
      BY Zenon, <3>2
    <3>5. gor' = [gor EXCEPT ![g] = [pc |-> pc, svc |-> s, ch |-> c, restart |-> FALSE]]
      BY Zenon, <3>3 DEF Spawn
    <3> QED BY Zenon, <3>4, <3>5, SlotUpdate
  <2>2. ops' \in Nat /\ orphans' \in Nat
    BY <1>6 DEF StartFn, StopFn, Op, TypeOK
  <2> QED BY Zenon, <1>6, <2>1, <2>2 DEF StartFn, StopFn, TypeOK
<1>7. ASSUME NEW g \in Gor, Dispatch(g) PROVE TypeOK'
  <2>1. gor' \in [Gor -> Goroutine]
    BY Zenon, <1>7, PcUpdate DEF Dispatch, GorPc
  <2> QED BY Zenon, <1>7, <2>1 DEF Dispatch, TypeOK
<1>8. ASSUME NEW g \in Gor, HandleRestartReq(g) PROVE TypeOK'
  <2>1. gor' \in [Gor -> Goroutine]
    <3>1. GorStep(g, {"start"})
      BY Zenon, <1>8 DEF HandleRestartReq, Settle, GorStep
    <3> QED BY Zenon, <3>1, GorStepType DEF GorPc
  <2>2. pendingRestarts' \in Int
    BY <1>8, <1>a DEF HandleRestartReq, Settle, TypeOK
  <2> QED BY Zenon, <1>8, <2>1, <2>2 DEF HandleRestartReq, TypeOK
<1>9. ASSUME NEW g \in Gor, RestartFailed(g) \/ RestartGivenUp(g) PROVE TypeOK'
  <2>1. gor' \in [Gor -> Goroutine]
    <3>1. GorStep(g, {"shut"})
      BY Zenon, <1>9 DEF RestartFailed, RestartGivenUp, Settle, GorStep
    <3> QED BY Zenon, <3>1, GorStepType DEF GorPc
  <2>2. sd' \in ShutdownState /\ shuttingDown' \in BOOLEAN
    BY Zenon, <1>9, <1>a DEF RestartFailed, RestartGivenUp, InitiateShutdown, TypeOK, ShutdownState, SdPc
  <2>3. pendingRestarts' \in Int
    BY <1>9, <1>a DEF RestartFailed, RestartGivenUp, Settle, TypeOK
  <2> QED BY Zenon, <1>9, <2>1, <2>2, <2>3 DEF RestartFailed, RestartGivenUp, TypeOK
<1>10. ASSUME NEW g \in Gor, StartSkipped(g) \/ StartError(g) \/ StartCheck(g) PROVE TypeOK'
  <2>1. gor' \in [Gor -> Goroutine]
    <3>1. GorStep(g, {"fork", "fail"})
      BY Zenon, <1>10 DEF StartSkipped, StartError, StartCheck, Settle, GorStep
    <3> QED BY Zenon, <3>1, GorStepType DEF GorPc
  <2>2. pendingRestarts' \in Int
    BY <1>10, <1>a DEF StartSkipped, StartError, StartCheck, Settle, TypeOK
  <2>3. skipped' \subseteq Name /\ mu' \in Gor \cup {None}
    <3>1. gor[g].pc = "start" => gor[g].svc \in Svc BY Zenon DEF TypeOK, Goroutine
    <3> QED BY <1>10, <1>a, <3>1 DEF StartSkipped, StartError, StartCheck, TypeOK
  <2> QED BY Zenon, <1>10, <2>1, <2>2, <2>3 DEF StartSkipped, StartError, StartCheck, TypeOK
<1>11. ASSUME NEW g \in Gor, NEW p \in Pid, Fork(g, p) PROVE TypeOK'
  <2>1. gor' \in [Gor -> Goroutine]
    BY Zenon, <1>11, SlotUpdate, IdleType DEF Fork, Settle
  <2>2. pendingRestarts' \in Int
    BY <1>11, <1>a DEF Fork, Settle, TypeOK
  <2>3. gor[g].svc \in Svc BY Zenon, <1>11 DEF Fork, TypeOK, Goroutine
  <2>4. up' \subseteq Name /\ skipped' \subseteq Name
    <3>1. NameOf[gor[g].svc] \in Name BY Zenon, <1>a, <2>3
    <3> QED BY Zenon, <1>11, <3>1 DEF Fork, TypeOK
  <2> QED BY Zenon, <1>11, <2>1, <2>2, <2>3, <2>4 DEF Fork, WakeReapLoop, TypeOK
<1>12. ASSUME NEW g \in Gor, Stopper(g) PROVE TypeOK'
  <2>1. gor' \in [Gor -> Goroutine]
    <3>1. GorStep(g, {"stopwait"})
      BY Zenon, <1>12 DEF Stopper, StopFnStop, StopFnReply, StopFnGiveUp, GorStep
    <3> QED BY Zenon, <3>1, GorStepType DEF GorPc
  <2>2. stopped' \in [Svc -> BOOLEAN] /\ proc' \in [Pid -> {"free", "alive", "term", "zombie"}]
    <3>1. Stop({gor[g].svc}) \/ UNCHANGED <<proc, svcVars>>
      BY Zenon, <1>12 DEF Stopper, StopFnStop, StopFnReply, StopFnGiveUp
    <3> QED BY Zenon, <3>1, StopType DEF svcVars, TypeOK
  <2> QED BY Zenon, <1>12, <2>1, <2>2 DEF Stopper, StopFnStop, StopFnReply, StopFnGiveUp, TypeOK
<1>13. ASSUME NEW c \in Code, Trigger(c) PROVE TypeOK'
  <2>1. sd' \in ShutdownState /\ shuttingDown' \in BOOLEAN
    BY Zenon, <1>13, <1>a DEF Trigger, InitiateShutdown, TypeOK, ShutdownState, SdPc
  <2>2. trigger' \subseteq Code
    BY Zenon, <1>13, <1>a DEF Trigger, TypeOK
  <2> QED BY Zenon, <1>13, <2>1, <2>2 DEF Trigger, TypeOK
<1>14. CASE StoreExitCode
  <2>1. sd' \in ShutdownState
    BY Zenon, <1>14, <1>a, StopSeqType DEF StoreExitCode, TypeOK, ShutdownState, SdPc
  <2>2. exitCode' \in Code
    BY Zenon, <1>14, <1>a DEF StoreExitCode, TypeOK, ShutdownState
  <2> QED BY Zenon, <1>14, <2>1, <2>2 DEF StoreExitCode, TypeOK
<1>15. CASE StopAll
  <2>1. sd' \in ShutdownState
    <3>1. ASSUME NEW s \in Svc, IsRunning(s), NEW rest \in Seq(Name), StopOne(s, rest)
          PROVE  sd' \in ShutdownState
      <4>1. sd \in ShutdownState /\ Done(s) \in Pid
        BY Zenon, <3>1 DEF TypeOK, IsRunning, Done
      <4>2. sd' = [sd EXCEPT !.pc = "wait", !.seq = rest, !.chs = {Done(s)}]
        BY Zenon, <3>1 DEF StopOne
      <4> QED BY Zenon, <3>1, <4>1, <4>2 DEF ShutdownState, SdPc
    <3>2. CASE StopSequential
      <4>1. sd.seq \in Seq(Name) BY Zenon DEF TypeOK, ShutdownState
      <4>2. \A i \in DOMAIN sd.seq : SubSeq(sd.seq, i + 1, Len(sd.seq)) \in Seq(Name)
        BY <4>1
      <4>3. <<>> \in Seq(Name) OBVIOUS
      <4>4. services \subseteq Svc BY Zenon DEF TypeOK
      <4> QED BY Zenon, <3>1, <3>2, <4>2, <4>3, <4>4 DEF StopSequential
    <3>3. CASE StopSimultaneous
      <4>1. {Done(s) : s \in {t \in services : IsRunning(t)}} \in SUBSET Pid
        BY DEF TypeOK
      <4> QED BY Zenon, <3>3, <4>1 DEF StopSimultaneous, TypeOK, ShutdownState, SdPc
    <3>4. CASE sd' = [sd EXCEPT !.pc = "done"]
      BY Zenon, <3>4 DEF TypeOK, ShutdownState, SdPc
    <3> QED BY Zenon, <1>15, <3>2, <3>3, <3>4 DEF StopAll
  <2>2. stopped' \in [Svc -> BOOLEAN] /\ proc' \in [Pid -> {"free", "alive", "term", "zombie"}]
    <3>1. (\E T \in SUBSET Svc : Stop(T)) \/ UNCHANGED <<proc, stopped>>
      <4>1. CASE StopSequential
        BY Zenon, <4>1 DEF StopSequential, StopOne, TypeOK
      <4>2. CASE StopSimultaneous
        BY Zenon, <4>2 DEF StopSimultaneous, TypeOK
      <4> QED BY Zenon, <1>15, <4>1, <4>2 DEF StopAll
    <3> QED BY Zenon, <3>1, StopType DEF TypeOK
  <2> QED BY Zenon, <1>15, <2>1, <2>2 DEF StopAll, TypeOK
<1>16. CASE StopAllWait
  <2>1. sd' \in ShutdownState
    BY Zenon, <1>16, <1>a DEF StopAllWait, TypeOK, ShutdownState, SdPc
  <2> QED BY Zenon, <1>16, <2>1 DEF StopAllWait, TypeOK
<1>17. ASSUME NEW p \in Pid, Wait4(p) PROVE TypeOK'
  <2>1. reap' \in ReapState
    BY <1>17, <1>a DEF Wait4, TypeOK, ReapState, ReapPc
  <2> QED BY Zenon, <1>17, <2>1 DEF Wait4, TypeOK
<1>18. CASE EChild \/ EChildNext \/ Wake
  <2>1. reap' \in ReapState
    BY Zenon, <1>18, <1>a DEF EChild, EChildNext, EChildBranch, Wake, Goto, TypeOK, ReapState, ReapPc
  <2>2. childStarted' \in BOOLEAN
    BY Zenon, <1>18, <1>a DEF EChild, EChildNext, Wake, TypeOK
  <2> QED BY Zenon, <1>18, <2>1, <2>2 DEF EChild, EChildNext, Wake, TypeOK
<1>19. CASE ReapUnmanaged \/ UnmanagedNext
  <2>1. reap' \in ReapState
    <3>1. \E pc \in ReapPc : Goto(pc)
      BY Zenon, <1>19 DEF ReapUnmanaged, UnmanagedNext, ReapPc
    <3> QED BY Zenon, <1>a, <3>1 DEF Goto, TypeOK, ReapState
  <2> QED BY Zenon, <1>19, <2>1 DEF ReapUnmanaged, UnmanagedNext, TypeOK
<1>20. ASSUME NEW s \in Svc, ReapManaged(s) PROVE TypeOK'
  <2> DEFINE eff == IF stopped[s] /\ ExitCodeMap[s][reap.code] > 128 THEN 0 ELSE ExitCodeMap[s][reap.code]
  <2>0. eff \in Code BY <1>a DEF TypeOK, ReapState
  <2>1. CloseGor(Done(s)) \in [Gor -> Goroutine]
    BY DEF TypeOK, Goroutine
  <2>2. gor' \in [Gor -> Goroutine] /\ pendingRestarts' \in Int
    <3>1. Request(s, None) \in Goroutine BY Zenon DEF Request, Goroutine, GorPc
    <3>2. \/ gor' = CloseGor(Done(s)) /\ UNCHANGED pendingRestarts
          \/ /\ \E g \in FreeGor(1) : gor' = [CloseGor(Done(s)) EXCEPT ![g] = Request(s, None)]
             /\ pendingRestarts' = pendingRestarts + 1
      BY Zenon, <1>20 DEF ReapManaged
    <3>3. FreeGor(1) \subseteq Gor BY Zenon DEF FreeGor
    <3>4. pendingRestarts' \in Int BY <3>2 DEF TypeOK
    <3> HIDE DEF CloseGor
    <3> QED BY Zenon, <2>1, <3>1, <3>2, <3>3, <3>4
  <2>3. sd' \in ShutdownState
    BY Zenon, <1>20 DEF ReapManaged, TypeOK, ShutdownState
  <2>4. reap' \in ReapState
    <3>1. \/ \E pc \in ReapPc : Goto(pc)
          \/ reap' = [reap EXCEPT !.pc = "prestore", !.pid = None, !.code = eff]
      BY Zenon, <1>20 DEF ReapManaged, ReapPc
    <3> HIDE DEF eff
    <3> QED BY Zenon, <1>a, <2>0, <3>1 DEF Goto, TypeOK, ReapState, ReapPc
  <2>5. stopped' \in [Svc -> BOOLEAN] /\ proc' \in [Pid -> {"free", "alive", "term", "zombie"}]
    <3>1. (\E T : Stop(T)) \/ UNCHANGED <<proc, stopped>>
      BY Zenon, <1>20 DEF ReapManaged
    <3> QED BY Zenon, <3>1, StopType DEF TypeOK
  <2>6. /\ pid' \in [Svc -> Pid \cup {None}] /\ pidMap' \in [Pid -> Svc \cup {None}]
        /\ restartPending' \subseteq Name /\ up' \subseteq Name
    BY Zenon, <1>20 DEF ReapManaged, TakeRestartPending, ExitRecorded, TypeOK
  <2>7. trigger' \subseteq Code
    BY Zenon, <1>20, <1>a DEF ReapManaged, TypeOK
  <2> QED BY Zenon, <1>20, <2>2, <2>3, <2>4, <2>5, <2>6, <2>7 DEF ReapManaged, TypeOK
<1>21. CASE PreStore \/ TearDown
  <2>1. reap' \in ReapState
    <3>1. \E pc \in ReapPc : Goto(pc)
      BY Zenon, <1>21 DEF PreStore, TearDown, ReapPc
    <3> QED BY Zenon, <1>a, <3>1 DEF Goto, TypeOK, ReapState
  <2>2. exitCode' \in Code /\ trigger' \subseteq Code
    BY <1>21, <1>a DEF PreStore, TearDown, TypeOK, ReapState
  <2> QED BY Zenon, <1>21, <2>1, <2>2 DEF PreStore, TearDown, TypeOK
<1> QED
  BY Zenon, <1>1, <1>2, <1>3, <1>4, <1>5, <1>6, <1>7, <1>8, <1>9, <1>10, <1>11, <1>12, <1>13,
     <1>14, <1>15, <1>16, <1>17, <1>18, <1>19, <1>20, <1>21
     DEF Next, Step, Environment, Goroutines, Handler, StartService, Shutdown, ReapLoop

(* Every variable keeps its type in every reachable state, with any number *)
(* of goroutines of run() and of the control socket in flight.             *)
THEOREM TypeCorrect == Spec => []TypeOK
<1>1. Init => TypeOK
  <2> SUFFICES ASSUME Init PROVE TypeOK BY Zenon
  <2>1. gor \in [Gor -> Goroutine] BY Zenon, IdleType DEF Init
  <2>2. reap \in ReapState /\ sd \in ShutdownState
    BY ConstAssumption DEF Init, ReapState, ShutdownState, ReapPc, SdPc
  <2>3. up \subseteq Name /\ skipped \subseteq Name BY ConstAssumption DEF Init
  <2>4. /\ proc \in [Pid -> {"free", "alive", "term", "zombie"}]
        /\ stopped \in [Svc -> BOOLEAN] /\ services \subseteq Svc
    BY Zenon, ConstAssumption DEF Init
  <2>5. exitCode \in Code /\ ops \in Nat /\ orphans \in Nat
    BY Zenon, ConstAssumption DEF Init
  <2>6. /\ pid \in [Svc -> Pid \cup {None}] /\ pidMap \in [Pid -> Svc \cup {None}]
        /\ restartPending \subseteq Name /\ pendingRestarts \in Int
        /\ mu \in Gor \cup {None} /\ trigger \subseteq Code
    BY DEF Init
  <2>7. shuttingDown \in BOOLEAN /\ childStarted \in BOOLEAN
    BY Zenon DEF Init
  <2> QED BY Zenon, <2>1, <2>2, <2>3, <2>4, <2>5, <2>6, <2>7 DEF TypeOK
<1> QED BY <1>1, TypeStep, PTL DEF Spec

-----------------------------------------------------------------------------
(* Effects shared by several actions                                       *)

(* Stop() never frees a pid and never clears a stopped flag.               *)
LEMMA StopEffect ==
  ASSUME TypeOK, NEW T, Stop(T)
  PROVE  /\ \A p \in Pid : proc'[p] = "free" <=> proc[p] = "free"
         /\ \A s \in Svc : stopped[s] => stopped'[s]
         /\ \A s \in Svc : s \in T /\ IsRunning(s) => stopped'[s]
BY Zenon DEF Stop, TypeOK

(* A batch of requests only fills free slots, each with a request for a    *)
(* service of the batch, holding the done channel of its current run.      *)
LEMMA EnqueueEffect ==
  ASSUME TypeOK, NEW T \in SUBSET Svc, StopAndEnqueue(T)
  PROVE  /\ \A g \in Gor : \/ gor'[g] = gor[g]
                           \/ /\ gor[g].pc = "free" /\ gor'[g].pc = "send"
                              /\ \E s \in T : gor'[g].svc = s /\ gor'[g].ch = Done(s)
         /\ \A n \in restartPending' :
              n \in restartPending \/ \E s \in T : NameOf[s] = n /\ IsRunning(s)
<1>1. PICK slot \in [T -> FreeGor(Cardinality(T))] :
        gor' = [g \in Gor |-> IF \E s \in T : slot[s] = g
                              THEN LET s == CHOOSE s \in T : slot[s] = g IN Request(s, Done(s))
                              ELSE gor[g]]
  BY Zenon DEF StopAndEnqueue, Enqueue
<1>2. ASSUME NEW g \in Gor, NEW t \in T, slot[t] = g
      PROVE  /\ gor[g].pc = "free" /\ gor'[g].pc = "send"
             /\ \E s \in T : gor'[g].svc = s /\ gor'[g].ch = Done(s)
  <2> DEFINE c == CHOOSE s \in T : slot[s] = g
  <2>1. c \in T BY Zenon, <1>2
  <2>2. gor'[g] = Request(c, Done(c)) BY Zenon, <1>1, <1>2
  <2>3. gor[g].pc = "free" BY Zenon, <1>2 DEF FreeGor
  <2> HIDE DEF c
  <2> QED BY <2>1, <2>2, <2>3 DEF Request
<1>3. ASSUME NEW g \in Gor, ~\E s \in T : slot[s] = g PROVE gor'[g] = gor[g]
  BY Zenon, <1>1, <1>3
<1>4. \A n \in restartPending' :
        n \in restartPending \/ \E s \in T : NameOf[s] = n /\ IsRunning(s)
  BY Zenon DEF StopAndEnqueue
<1> QED BY <1>2, <1>3, <1>4

-----------------------------------------------------------------------------
(* Tracking                                                                *)

(* Tracking survives a step that frees no pid and writes nothing else.     *)
LEMMA TrackingFrame ==
  ASSUME Tracking, UNCHANGED <<pid, pidMap, services, reap>>,
         \A p \in Pid : proc'[p] = "free" => proc[p] = "free"
  PROVE  Tracking'
BY Zenon DEF Tracking, FreePid

(* Every step keeps Tracking: Fork, which takes a free pid for a service   *)
(* that is not running, and ReapManaged, which drops both entries, are the *)
(* cases that matter.                                                      *)
LEMMA TrackingStep ==
  ASSUME TypeOK, IInv, [Next]_vars
  PROVE  Tracking'
<1> USE DEF IInv
<1>1. CASE UNCHANGED vars
  BY Zenon, <1>1 DEF vars, Tracking, FreePid
<1>2. ASSUME NEW p \in Pid, ProcExit(p) \/ Reparent(p) PROVE Tracking'
  <2>1. \A q \in Pid : proc'[q] = "free" => proc[q] = "free"
    BY Zenon, <1>2 DEF ProcExit, Reparent, TypeOK
  <2> QED BY Zenon, <1>2, <2>1, TrackingFrame DEF ProcExit, Reparent
<1>3. CASE HandleCheckFailure \/ \E s \in Svc : RestartFn(s)
  <2>1. PICK T : Stop(T)
    BY Zenon, <1>3 DEF HandleCheckFailure, RestartFn, StopAndEnqueue
  <2>2. UNCHANGED <<pid, pidMap, services, reap>>
    BY Zenon, <1>3 DEF HandleCheckFailure, RestartFn
  <2> QED BY Zenon, <2>1, <2>2, StopEffect, TrackingFrame
<1>4. ASSUME NEW g \in Gor, Stopper(g) PROVE Tracking'
  <2>1. (\E T : Stop(T)) \/ UNCHANGED proc
    BY Zenon, <1>4 DEF Stopper, StopFnStop, StopFnReply, StopFnGiveUp
  <2>2. UNCHANGED <<pid, pidMap, services, reap>>
    BY Zenon, <1>4 DEF Stopper, StopFnStop, StopFnReply, StopFnGiveUp
  <2> QED BY Zenon, <2>1, <2>2, StopEffect, TrackingFrame
<1>5. CASE StopAll
  <2>1. (\E T : Stop(T)) \/ UNCHANGED proc
    BY Zenon, <1>5 DEF StopAll, StopSequential, StopSimultaneous, StopOne
  <2>2. UNCHANGED <<pid, pidMap, services, reap>>
    BY Zenon, <1>5 DEF StopAll
  <2> QED BY Zenon, <2>1, <2>2, StopEffect, TrackingFrame
<1>6. ASSUME NEW g \in Gor, NEW s \in Svc, StartFn(g, s) \/ StopFn(g, s) PROVE Tracking'
  BY Zenon, <1>6, TrackingFrame DEF StartFn, StopFn
<1>7. ASSUME NEW g \in Gor, Dispatch(g) \/ Handler(g) \/ StartSkipped(g) \/ StartError(g) \/ StartCheck(g)
      PROVE Tracking'
  BY Zenon, <1>7, TrackingFrame DEF Dispatch, Handler, HandleRestartReq, RestartFailed, RestartGivenUp,
                             StartSkipped, StartError, StartCheck
<1>8. ASSUME NEW g \in Gor, NEW p \in Pid, Fork(g, p) PROVE Tracking'
  <2> DEFINE s == gor[g].svc
  <2>1. s \in services /\ s \in Svc /\ pid[s] = None /\ FreePid(p)
    BY Zenon, <1>8 DEF Fork, Locking, TypeOK
  <2>2. pidMap[p] = None BY Zenon, <2>1 DEF Tracking
  <2>3. /\ pid' = [pid EXCEPT ![s] = p] /\ pidMap' = [pidMap EXCEPT ![p] = s]
        /\ proc' = [proc EXCEPT ![p] = "alive"] /\ UNCHANGED <<services, reap>>
    BY Zenon, <1>8 DEF Fork
  <2> HIDE DEF s
  <2>4. \A q \in Pid, t \in Svc : pidMap'[q] = t <=> pid'[t] = q
    BY <2>1, <2>2, <2>3, ConstAssumption DEF Tracking, TypeOK
  <2>5. \A q \in Pid : pidMap'[q] # None => ~FreePid(q)'
    BY <2>1, <2>3 DEF Tracking, TypeOK, FreePid
  <2>6. \A t \in Svc : IsRunning(t)' => t \in services'
    BY <2>1, <2>3 DEF Tracking, TypeOK
  <2> QED BY Zenon, <2>3, <2>4, <2>5, <2>6 DEF Tracking
<1>9. ASSUME NEW p \in Pid, Wait4(p) PROVE Tracking'
  BY <1>9 DEF Wait4, Tracking, FreePid, TypeOK
<1>10. CASE EChild \/ EChildNext \/ Wake \/ ReapUnmanaged \/ UnmanagedNext \/ PreStore \/ TearDown
  <2>1. UNCHANGED <<proc, pid, pidMap, services>> /\ reap'.pc # "got"
    BY Zenon, <1>10 DEF EChild, EChildNext, EChildBranch, Wake, ReapUnmanaged, UnmanagedNext, PreStore,
                 TearDown, Goto, TypeOK, ReapState
  <2>2. \A p \in Pid : pidMap[p] # None => proc[p] # "free"
    BY Zenon, <1>10 DEF EChild, EChildNext, Wake, ReapUnmanaged, UnmanagedNext, PreStore, TearDown,
                 Tracking, FreePid
  <2> QED BY Zenon, <2>1, <2>2 DEF Tracking, FreePid
<1>11. ASSUME NEW s \in Svc, ReapManaged(s) PROVE Tracking'
  <2> DEFINE p == reap.pid
  <2>1. /\ p \in Pid /\ pidMap[p] = s /\ reap.pc = "got"
        /\ pid' = [pid EXCEPT ![s] = None] /\ pidMap' = [pidMap EXCEPT ![p] = None]
        /\ UNCHANGED services
    BY Zenon, <1>11 DEF ReapManaged, Tracking
  <2>2. \A q \in Pid : proc'[q] = "free" <=> proc[q] = "free"
    BY Zenon, <1>11, StopEffect DEF ReapManaged
  <2>3. reap'.pc # "got"
    BY Zenon, <1>11 DEF ReapManaged, Goto, TypeOK, ReapState
  <2>4. pid[s] = p BY <2>1 DEF Tracking
  <2>5. \A q \in Pid, t \in Svc : pidMap'[q] = t <=> pid'[t] = q
    BY <2>1, <2>4, ConstAssumption DEF Tracking, TypeOK
  <2>6. \A q \in Pid : pidMap'[q] # None => proc'[q] # "free"
    BY <2>1, <2>2 DEF Tracking, FreePid, TypeOK
  <2>7. \A t \in Svc : pid'[t] # None => t \in services'
    BY <2>1 DEF Tracking, TypeOK
  <2> QED BY Zenon, <2>3, <2>5, <2>6, <2>7 DEF Tracking, FreePid
<1>12. CASE SigShutdown \/ (\E c \in Code : Trigger(c)) \/ StoreExitCode \/ StopAllWait
  BY Zenon, <1>12, TrackingFrame DEF SigShutdown, Trigger, StoreExitCode, StopAllWait
<1> QED
  BY Zenon, <1>1, <1>2, <1>3, <1>4, <1>5, <1>6, <1>7, <1>8, <1>9, <1>10, <1>11, <1>12
     DEF Next, Step, Environment, Goroutines, StartService, Shutdown, ReapLoop

-----------------------------------------------------------------------------
(* Locking                                                                 *)

(* Locking survives a step that leaves the starters alone.                 *)
LEMMA LockingFrame ==
  ASSUME Locking, UNCHANGED <<pid, services, mu, gor>> PROVE Locking'
BY Zenon DEF Locking

(* A step of g that neither enters nor leaves "fork".                      *)
LEMMA LockingSlot ==
  ASSUME Locking, UNCHANGED <<pid, services, mu>>, NEW g \in Gor,
         gor[g].pc # "fork", gor'[g].pc # "fork",
         \A h \in Gor \ {g} : gor'[h] = gor[h]
  PROVE  Locking'
BY Zenon DEF Locking

(* Every step keeps Locking: a starter enters "fork" with d.mu and leaves  *)
(* it when it unlocks; nobody else starts a service or writes services.    *)
LEMMA LockingStep ==
  ASSUME TypeOK, IInv, [Next]_vars
  PROVE  Locking'
<1> USE DEF IInv
<1>1. CASE UNCHANGED vars
  BY Zenon, <1>1, LockingFrame DEF vars
<1>2. ASSUME NEW p \in Pid, ProcExit(p) \/ Reparent(p) \/ Wait4(p) PROVE Locking'
  BY Zenon, <1>2, LockingFrame DEF ProcExit, Reparent, Wait4
<1>3. CASE HandleCheckFailure \/ \E s \in Svc : RestartFn(s)
  <2>1. PICK T \in SUBSET Svc : StopAndEnqueue(T)
    BY Zenon, <1>3 DEF HandleCheckFailure, RestartFn, ToRestart, TypeOK
  <2>2. UNCHANGED <<pid, services, mu>>
    BY Zenon, <1>3 DEF HandleCheckFailure, RestartFn
  <2>3. \A g \in Gor : gor'[g] = gor[g] \/ (gor[g].pc = "free" /\ gor'[g].pc = "send")
    BY Zenon, <2>1, EnqueueEffect
  <2> QED BY Zenon, <2>2, <2>3 DEF Locking
<1>4. ASSUME NEW g \in Gor, NEW s \in Svc, StartFn(g, s) \/ StopFn(g, s) PROVE Locking'
  <2>1. \E pc \in {"start", "stop"} : \E c : Spawn(g, pc, s, c)
    BY Zenon, <1>4 DEF StartFn, StopFn
  <2>2. gor[g].pc # "fork" /\ gor'[g].pc # "fork" /\ \A h \in Gor \ {g} : gor'[h] = gor[h]
    BY <2>1 DEF Spawn, FreeGor, TypeOK
  <2>3. UNCHANGED <<pid, services, mu>> BY Zenon, <1>4 DEF StartFn, StopFn
  <2> QED BY Zenon, <2>2, <2>3, LockingSlot
<1>5. ASSUME NEW g \in Gor, Dispatch(g) \/ Handler(g) \/ StartSkipped(g) \/ Stopper(g) PROVE Locking'
  <2>1. GorStep(g, {"wait", "start", "shut", "stopwait"}) /\ gor[g].pc # "fork"
    BY Zenon, <1>5 DEF GorStep, Dispatch, Handler, HandleRestartReq, RestartFailed, RestartGivenUp,
                StartSkipped, Stopper, StopFnStop, StopFnReply, StopFnGiveUp, Settle
  <2>2. gor'[g].pc # "fork" /\ \A h \in Gor \ {g} : gor'[h] = gor[h]
    BY <2>1 DEF GorStep, Idle, TypeOK, Goroutine
  <2>3. UNCHANGED <<pid, services, mu>>
    BY Zenon, <1>5 DEF Dispatch, Handler, HandleRestartReq, RestartFailed, RestartGivenUp,
                StartSkipped, Stopper, StopFnStop, StopFnReply, StopFnGiveUp
  <2> QED BY Zenon, <2>1, <2>2, <2>3, LockingSlot
<1>6. ASSUME NEW g \in Gor, StartError(g) PROVE Locking'
  <2>1. GorStep(g, {"fail"})
    BY Zenon, <1>6 DEF GorStep, StartError, Settle
  <2>2. gor'[g].pc # "fork" /\ \A h \in Gor \ {g} : gor'[h] = gor[h]
    BY <2>1 DEF GorStep, Idle, TypeOK, Goroutine
  <2> QED BY <1>6, <2>2, ConstAssumption DEF StartError, Locking
<1>7. ASSUME NEW g \in Gor, StartCheck(g) PROVE Locking'
  <2>1. \A h \in Gor \ {g} : gor'[h] = gor[h]
    BY Zenon, <1>7 DEF StartCheck, Settle, TypeOK
  <2>2. CASE StartRefused(gor[g].svc)
    <3>1. gor[g].pc # "fork" /\ gor'[g].pc # "fork"
      BY <1>7, <2>2 DEF StartCheck, Settle, Idle, TypeOK
    <3>2. UNCHANGED <<pid, services, mu>> BY Zenon, <1>7, <2>2 DEF StartCheck
    <3> QED BY Zenon, <2>1, <3>1, <3>2, LockingSlot
  <2>3. CASE ~StartRefused(gor[g].svc)
    <3>1. /\ gor'[g].pc = "fork" /\ gor'[g].svc = gor[g].svc
          /\ mu = None /\ mu' = g /\ UNCHANGED <<pid, services>>
      BY <1>7, <2>3 DEF StartCheck, TypeOK, Goroutine
    <3>2. \A h \in Gor : gor[h].pc # "fork"
      BY Zenon, <3>1, ConstAssumption DEF Locking
    <3> QED BY Zenon, <2>1, <2>3, <3>1, <3>2 DEF StartRefused, Locking
  <2> QED BY Zenon, <2>2, <2>3
<1>8. ASSUME NEW g \in Gor, NEW p \in Pid, Fork(g, p) PROVE Locking'
  <2>1. mu = g /\ mu' = None /\ gor' = [gor EXCEPT ![g] = Idle]
    BY Zenon, <1>8 DEF Fork, Locking, Settle
  <2>2. \A h \in Gor : gor'[h].pc # "fork"
    BY Zenon, <2>1 DEF Locking, Idle, TypeOK
  <2> QED BY Zenon, <2>1, <2>2, ConstAssumption DEF Locking
<1>9. CASE StopAll \/ SigShutdown \/ (\E c \in Code : Trigger(c)) \/ StoreExitCode \/ StopAllWait
  BY Zenon, <1>9, LockingFrame DEF StopAll, SigShutdown, Trigger, StoreExitCode, StopAllWait
<1>10. CASE EChild \/ EChildNext \/ Wake \/ ReapUnmanaged \/ UnmanagedNext \/ PreStore \/ TearDown
  BY ZenonT(30), <1>10, LockingFrame DEF EChild, EChildNext, Wake, ReapUnmanaged, UnmanagedNext, PreStore, TearDown
<1>11. ASSUME NEW s \in Svc, ReapManaged(s) PROVE Locking'
  <2>1. mu = None /\ mu' = None
    BY Zenon, <1>11 DEF ReapManaged
  <2>2. \A g \in Gor : gor[g].pc # "fork"
    BY SMTT(30), <2>1, ConstAssumption DEF Locking
  <2>3. \A g \in Gor : gor'[g].pc # "fork"
    <3>1. \A g \in Gor : CloseGor(Done(s))[g].pc = gor[g].pc
      BY Zenon DEF TypeOK, Goroutine
    <3>2. CASE gor' = CloseGor(Done(s)) BY Zenon, <2>2, <3>1, <3>2
    <3>3. CASE \E g \in FreeGor(1) : gor' = [CloseGor(Done(s)) EXCEPT ![g] = Request(s, None)]
      <4>1. PICK g \in FreeGor(1) : gor' = [CloseGor(Done(s)) EXCEPT ![g] = Request(s, None)]
        BY Zenon, <3>3
      <4>2. Request(s, None).pc = "send" BY Zenon DEF Request
      <4> QED BY Zenon, <2>2, <3>1, <4>1, <4>2
    <3> QED BY Zenon, <1>11, <3>2, <3>3 DEF ReapManaged
  <2> QED BY Zenon, <2>1, <2>3, ConstAssumption DEF Locking
<1> QED
  BY Zenon, <1>1, <1>2, <1>3, <1>4, <1>5, <1>6, <1>7, <1>8, <1>9, <1>10, <1>11
     DEF Next, Step, Environment, Goroutines, StartService, Shutdown, ReapLoop

-----------------------------------------------------------------------------
(* Shutdown phases                                                         *)

(* ShutdownPhases survives a step outside shutdown.                        *)
LEMMA PhasesFrame ==
  ASSUME ShutdownPhases, UNCHANGED <<shuttingDown, sd, mu, pid, reap>> PROVE ShutdownPhases'
BY Zenon DEF ShutdownPhases, LoopLeft

(* The CAS of initiateShutdown.                                            *)
LEMMA PhasesInitiate ==
  ASSUME TypeOK, ShutdownPhases, NEW code, InitiateShutdown(code), UNCHANGED <<mu, pid, reap>>
  PROVE  ShutdownPhases'
BY Zenon DEF ShutdownPhases, InitiateShutdown, LoopLeft, TypeOK, ShutdownState

(* Every step keeps ShutdownPhases: once stopAll has taken d.mu, no start  *)
(* passes its check, so what stopAll found down stays down.                *)
LEMMA PhasesStep ==
  ASSUME TypeOK, IInv, [Next]_vars
  PROVE  ShutdownPhases'
<1> USE DEF IInv
<1>1. CASE UNCHANGED vars
  BY Zenon, <1>1, PhasesFrame DEF vars
<1>2. ASSUME NEW p \in Pid, ProcExit(p) \/ Reparent(p) PROVE ShutdownPhases'
  BY Zenon, <1>2, PhasesFrame DEF ProcExit, Reparent
<1>3. CASE HandleCheckFailure \/ \E s \in Svc : RestartFn(s)
  BY Zenon, <1>3, PhasesFrame DEF HandleCheckFailure, RestartFn
<1>4. ASSUME NEW g \in Gor, NEW s \in Svc, StartFn(g, s) \/ StopFn(g, s) PROVE ShutdownPhases'
  BY Zenon, <1>4, PhasesFrame DEF StartFn, StopFn
<1>5. ASSUME NEW g \in Gor,
             Dispatch(g) \/ HandleRestartReq(g) \/ RestartGivenUp(g) \/ StartSkipped(g) \/ Stopper(g)
      PROVE  ShutdownPhases'
  BY Zenon, <1>5, PhasesFrame DEF Dispatch, HandleRestartReq, RestartGivenUp, StartSkipped,
                           Stopper, StopFnStop, StopFnReply, StopFnGiveUp
<1>6. ASSUME NEW g \in Gor, RestartFailed(g) PROVE ShutdownPhases'
  BY Zenon, <1>6, PhasesInitiate DEF RestartFailed
<1>7. ASSUME NEW g \in Gor, StartError(g) PROVE ShutdownPhases'
  <2>1. mu' = mu \/ mu' = None
    BY Zenon, <1>7 DEF StartError
  <2> QED BY Zenon, <1>7, <2>1 DEF StartError, ShutdownPhases, LoopLeft
<1>8. ASSUME NEW g \in Gor, StartCheck(g) PROVE ShutdownPhases'
  <2>1. UNCHANGED mu \/ ~shuttingDown
    BY Zenon, <1>8 DEF StartCheck, StartRefused
  <2> QED BY Zenon, <1>8, <2>1 DEF StartCheck, ShutdownPhases, LoopLeft
<1>9. ASSUME NEW g \in Gor, NEW p \in Pid, Fork(g, p) PROVE ShutdownPhases'
  <2>1. mu = g /\ g # None BY Zenon, <1>9, ConstAssumption DEF Fork, Locking
  <2>2. sd.pc \notin {"wait", "done"} BY Zenon, <2>1 DEF ShutdownPhases
  <2> QED BY Zenon, <1>9, <2>2 DEF Fork, ShutdownPhases, LoopLeft
<1>10. CASE SigShutdown
  BY Zenon, <1>10, PhasesInitiate DEF SigShutdown
<1>11. ASSUME NEW c \in Code, Trigger(c) PROVE ShutdownPhases'
  <2>1. CASE InitiateShutdown(c) BY Zenon, <1>11, <2>1, PhasesInitiate DEF Trigger
  <2>2. CASE UNCHANGED <<shuttingDown, sd>> BY Zenon, <1>11, <2>2, PhasesFrame DEF Trigger
  <2> QED BY Zenon, <1>11, <2>1, <2>2 DEF Trigger
<1>12. CASE StoreExitCode
  BY Zenon, <1>12 DEF StoreExitCode, ShutdownPhases, LoopLeft, TypeOK, ShutdownState
<1>13. CASE StopAll
  <2>1. sd.pc = "stop" /\ mu = None /\ UNCHANGED <<shuttingDown, mu, pid, reap>>
    BY Zenon, <1>13 DEF StopAll
  <2>2. sd'.pc \in {"wait", "done"}
    <3>1. CASE StopSequential
      BY Zenon, <3>1 DEF StopSequential, StopOne, TypeOK, ShutdownState
    <3>2. CASE StopSimultaneous
      BY Zenon, <3>2 DEF StopSimultaneous, TypeOK, ShutdownState
    <3> QED BY Zenon, <1>13, <3>1, <3>2 DEF StopAll, TypeOK, ShutdownState
  <2>3. sd'.pc = "done" => \A s \in Svc : ~IsRunning(s)
    <3>1. ASSUME StopSequential PROVE sd'.pc = "wait"
      BY Zenon, <3>1 DEF StopSequential, StopOne, TypeOK, ShutdownState
    <3>2. ASSUME StopSimultaneous PROVE sd'.pc = "wait"
      BY Zenon, <3>2 DEF StopSimultaneous, TypeOK, ShutdownState
    <3> QED BY Zenon, <1>13, <3>1, <3>2 DEF StopAll, Tracking
  <2>4. sd'.pc = "wait" /\ ShutdownMode = "simultaneous" => \A s \in Svc : IsRunning(s) => Done(s) \in sd'.chs
    <3>1. CASE StopSimultaneous
      <4>1. sd'.chs = {Done(s) : s \in {t \in services : IsRunning(t)}}
        BY Zenon, <3>1 DEF StopSimultaneous, TypeOK, ShutdownState
      <4> QED BY Zenon, <4>1 DEF Tracking
    <3>2. CASE ~StopSimultaneous
      BY Zenon, <1>13, <3>2 DEF StopAll, StopSequential, TypeOK, ShutdownState
    <3> QED BY Zenon, <3>1, <3>2
  <2>5. ~(LoopLeft /\ reap.pc # "drain")
    BY Zenon, <2>1 DEF ShutdownPhases
  <2> QED BY Zenon, <2>1, <2>2, <2>3, <2>4, <2>5 DEF ShutdownPhases, LoopLeft
<1>14. CASE StopAllWait
  <2>1. /\ sd.pc = "wait" /\ sd.chs = {} /\ UNCHANGED <<shuttingDown, mu, pid, reap>>
        /\ sd'.pc = IF ShutdownMode = "simultaneous" THEN "done" ELSE "stop"
    BY Zenon, <1>14 DEF StopAllWait, TypeOK, ShutdownState
  <2>2. sd'.pc = "done" => \A s \in Svc : ~IsRunning(s)
    <3>1. ASSUME ShutdownMode = "simultaneous", NEW s \in Svc, IsRunning(s) PROVE FALSE
      <4>1. Done(s) \in sd.chs
        BY <2>1, <3>1 DEF ShutdownPhases
      <4> QED BY Zenon, <2>1, <4>1
    <3> QED BY Zenon, <2>1, <3>1
  <2> QED BY Zenon, <2>1, <2>2 DEF ShutdownPhases, LoopLeft
<1>15. ASSUME NEW p \in Pid, Wait4(p) PROVE ShutdownPhases'
  BY <1>15 DEF Wait4, ShutdownPhases, LoopLeft
<1>16. CASE EChild \/ EChildNext \/ Wake \/ ReapUnmanaged \/ UnmanagedNext \/ PreStore
  <2>1. reap'.pc \in {"echild", "pend", "idle", "wait4", "unmanaged"} \/ (reap'.pc = "drain" /\ shuttingDown)
    <3>1. \E pc \in {"echild", "pend", "idle", "wait4", "unmanaged", "drain"} :
            Goto(pc) /\ (pc = "drain" => shuttingDown)
      BY Zenon, <1>16 DEF EChild, EChildNext, EChildBranch, Wake, ReapUnmanaged, UnmanagedNext, PreStore
    <3>2. \A pc : Goto(pc) => reap'.pc = pc
      BY Zenon DEF Goto, TypeOK, ReapState
    <3> QED BY Zenon, <3>1, <3>2
  <2>2. UNCHANGED <<shuttingDown, sd, mu, pid>>
    BY Zenon, <1>16 DEF EChild, EChildNext, Wake, ReapUnmanaged, UnmanagedNext, PreStore
  <2> QED BY Zenon, <2>1, <2>2 DEF ShutdownPhases, LoopLeft
<1>17. ASSUME NEW s \in Svc, ReapManaged(s) PROVE ShutdownPhases'
  <2>1. /\ reap.pc = "got" /\ reap.pid \in Pid /\ pid[s] = reap.pid
        /\ pid' = [pid EXCEPT ![s] = None] /\ UNCHANGED <<shuttingDown, mu>>
    BY Zenon, <1>17 DEF ReapManaged, Tracking
  <2>2. sd'.pc = sd.pc /\ sd'.chs = sd.chs \ {pid[s]}
    BY Zenon, <1>17 DEF ReapManaged, TypeOK, ShutdownState
  <2>3. reap'.pc \in {"wait4", "prestore"} \/ (reap'.pc = "drain" /\ shuttingDown)
    BY ZenonT(30), <1>17 DEF ReapManaged, Goto, TypeOK, ReapState
  <2>4. \A t \in Svc : pid'[t] # None => pid'[t] = pid[t] /\ pid[t] # pid[s]
    BY <2>1 DEF Tracking, TypeOK
  <2> QED BY Zenon, <2>1, <2>2, <2>3, <2>4 DEF ShutdownPhases, LoopLeft
<1>18. CASE TearDown
  <2>1. /\ LoopLeft /\ LoopLeft' /\ UNCHANGED <<shuttingDown, sd, mu, pid>>
        /\ reap.pc = "drain" => sd.pc = "done"
    BY Zenon, <1>18 DEF TearDown, Goto, LoopLeft, TypeOK, ReapState
  <2> QED BY Zenon, <2>1 DEF ShutdownPhases
<1> QED
  BY Zenon, <1>1, <1>2, <1>3, <1>4, <1>5, <1>6, <1>7, <1>8, <1>9, <1>10, <1>11, <1>12, <1>13,
     <1>14, <1>15, <1>16, <1>17, <1>18
     DEF Next, Step, Environment, Goroutines, Handler, StartService, Shutdown, ReapLoop

-----------------------------------------------------------------------------
(* Awaited channels                                                        *)

(* A step of g keeps its channel or drops it.                              *)
LEMMA GorStepCh ==
  ASSUME TypeOK, NEW g \in Gor, NEW pcs, GorStep(g, pcs)
  PROVE  \A h \in Gor : gor'[h].ch \in {gor[h].ch, None}
BY DEF GorStep, Idle, TypeOK, Goroutine

(* Every step keeps AwaitedRunsAreTracked: channels are captured from      *)
(* running services, and the exit that ends a run closes its channel.      *)
LEMMA AwaitedStep ==
  ASSUME TypeOK, IInv, [Next]_vars
  PROVE  AwaitedRunsAreTracked'
<1> USE DEF IInv
<1>1. CASE UNCHANGED <<gor, sd, pid>>
  BY Zenon, <1>1 DEF AwaitedRunsAreTracked
<1>2. CASE HandleCheckFailure \/ \E s \in Svc : RestartFn(s)
  <2>1. PICK T \in SUBSET Svc : StopAndEnqueue(T)
    BY Zenon, <1>2 DEF HandleCheckFailure, RestartFn, ToRestart, TypeOK
  <2>2. UNCHANGED <<pid, sd>>
    BY Zenon, <1>2 DEF HandleCheckFailure, RestartFn
  <2>3. \A g \in Gor : gor'[g].ch = gor[g].ch \/ \E s \in Svc : gor'[g].ch = pid[s]
    BY <2>1, EnqueueEffect
  <2> QED BY <2>2, <2>3 DEF AwaitedRunsAreTracked
<1>3. ASSUME NEW g \in Gor, NEW s \in Svc, StartFn(g, s) \/ StopFn(g, s) PROVE AwaitedRunsAreTracked'
  <2>1. UNCHANGED <<pid, sd>> BY Zenon, <1>3 DEF StartFn, StopFn
  <2>2. gor'[g].ch \in {None, pid[s]} /\ \A h \in Gor \ {g} : gor'[h] = gor[h]
    BY <1>3 DEF StartFn, StopFn, Spawn, TypeOK
  <2> QED BY <2>1, <2>2 DEF AwaitedRunsAreTracked
<1>4. ASSUME NEW g \in Gor,
             \/ Dispatch(g) \/ HandleRestartReq(g) \/ RestartGivenUp(g) \/ StartSkipped(g)
             \/ StartError(g) \/ StartCheck(g) \/ Stopper(g)
      PROVE  AwaitedRunsAreTracked'
  <2>1. GorStep(g, {"wait", "start", "fork", "fail", "stopwait"})
    BY Zenon, <1>4 DEF GorStep, Dispatch, HandleRestartReq, RestartGivenUp, StartSkipped, StartError,
                StartCheck, Stopper, StopFnStop, StopFnReply, StopFnGiveUp, Settle
  <2>2. UNCHANGED <<pid, sd>>
    BY Zenon, <1>4 DEF Dispatch, HandleRestartReq, RestartGivenUp, StartSkipped, StartError,
                StartCheck, Stopper, StopFnStop, StopFnReply, StopFnGiveUp
  <2> QED BY SMTT(30), <2>1, <2>2, GorStepCh DEF AwaitedRunsAreTracked
<1>5. ASSUME NEW g \in Gor, RestartFailed(g) PROVE AwaitedRunsAreTracked'
  <2>1. GorStep(g, {"shut"}) BY Zenon, <1>5 DEF GorStep, RestartFailed
  <2>2. UNCHANGED pid /\ sd'.chs = sd.chs
    BY Zenon, <1>5 DEF RestartFailed, InitiateShutdown, TypeOK, ShutdownState
  <2> QED BY <2>1, <2>2, GorStepCh DEF AwaitedRunsAreTracked
<1>6. ASSUME NEW g \in Gor, NEW p \in Pid, Fork(g, p) PROVE AwaitedRunsAreTracked'
  <2>1. GorStep(g, {}) /\ UNCHANGED sd
    BY Zenon, <1>6 DEF GorStep, Fork, Settle
  <2>2. \A s \in Svc : pid[s] # None => pid'[s] = pid[s]
    BY Zenon, <1>6 DEF Fork, Locking, TypeOK
  <2>3. sd.chs \subseteq Pid /\ None \notin Pid
    BY Zenon, ConstAssumption DEF TypeOK, ShutdownState
  <2> QED BY <2>1, <2>2, <2>3, GorStepCh DEF AwaitedRunsAreTracked
<1>7. CASE SigShutdown \/ (\E c \in Code : Trigger(c)) \/ StoreExitCode \/ StopAllWait
  <2>1. sd'.chs = sd.chs /\ UNCHANGED <<pid, gor>>
    BY Zenon, <1>7 DEF SigShutdown, Trigger, InitiateShutdown, StoreExitCode, StopAllWait, TypeOK, ShutdownState
  <2> QED BY Zenon, <2>1 DEF AwaitedRunsAreTracked
<1>8. CASE StopAll
  <2>1. \A c \in sd'.chs : c \in sd.chs \/ \E s \in services : c = pid[s]
    <3>1. CASE StopSequential
      <4>1. PICK s \in services : \E rest : StopOne(s, rest) BY Zenon, <3>1 DEF StopSequential
      <4> QED BY <4>1 DEF StopOne, TypeOK, ShutdownState
    <3>2. CASE StopSimultaneous
      BY <3>2 DEF StopSimultaneous, TypeOK, ShutdownState
    <3> QED BY Zenon, <1>8, <3>1, <3>2 DEF StopAll, TypeOK, ShutdownState
  <2>2. UNCHANGED <<pid, gor>> /\ services \subseteq Svc
    BY Zenon, <1>8 DEF StopAll, TypeOK
  <2> QED BY Zenon, <2>1, <2>2 DEF AwaitedRunsAreTracked
<1>9. ASSUME NEW s \in Svc, ReapManaged(s) PROVE AwaitedRunsAreTracked'
  <2>1. sd'.chs = sd.chs \ {pid[s]} /\ pid' = [pid EXCEPT ![s] = None]
    BY Zenon, <1>9 DEF ReapManaged, TypeOK, ShutdownState
  <2>2. \A g \in Gor : CloseGor(Done(s))[g].ch = IF gor[g].ch = pid[s] THEN None ELSE gor[g].ch
    BY SMTT(30) DEF TypeOK, Goroutine
  <2>3. \A g \in Gor : gor'[g].ch = None \/ (gor'[g].ch = gor[g].ch /\ gor[g].ch # pid[s])
    <3>1. CASE gor' = CloseGor(Done(s)) BY Zenon, <2>2, <3>1
    <3>2. CASE \E g \in FreeGor(1) : gor' = [CloseGor(Done(s)) EXCEPT ![g] = Request(s, None)]
      <4>1. PICK g \in FreeGor(1) : gor' = [CloseGor(Done(s)) EXCEPT ![g] = Request(s, None)]
        BY Zenon, <3>2
      <4>2. Request(s, None).ch = None BY Zenon DEF Request
      <4> QED BY Zenon, <2>2, <4>1, <4>2
    <3> QED BY Zenon, <1>9, <3>1, <3>2 DEF ReapManaged
  <2> QED BY <2>1, <2>3 DEF AwaitedRunsAreTracked, TypeOK
<1>10. CASE UNCHANGED vars
  BY Zenon, <1>1, <1>10 DEF vars
<1>11. ASSUME NEW p \in Pid, ProcExit(p) \/ Reparent(p) \/ Wait4(p) PROVE AwaitedRunsAreTracked'
  BY Zenon, <1>1, <1>11 DEF ProcExit, Reparent, Wait4
<1>12. CASE EChild \/ EChildNext \/ Wake \/ ReapUnmanaged \/ UnmanagedNext \/ PreStore \/ TearDown
  BY Zenon, <1>1, <1>12 DEF EChild, EChildNext, Wake, ReapUnmanaged, UnmanagedNext, PreStore, TearDown
<1> QED
  BY Zenon, <1>2, <1>3, <1>4, <1>5, <1>6, <1>7, <1>8, <1>9, <1>10, <1>11, <1>12
     DEF Next, Step, Environment, Goroutines, Handler, StartService, Shutdown, ReapLoop

-----------------------------------------------------------------------------
(* Restart marks                                                           *)

(* A mark survives a step that keeps the runs and the stopped flags of all *)
(* the services and adds no mark.                                          *)
LEMMA MarksFrame ==
  ASSUME RestartMarkHasItsExit, UNCHANGED pid, restartPending' \subseteq restartPending,
         \A s \in Svc : stopped[s] => stopped'[s]
  PROVE  RestartMarkHasItsExit'
BY Zenon DEF RestartMarkHasItsExit

(* Every step keeps RestartMarkHasItsExit: marks are set together with the *)
(* Stop of a running service, a fork clears the flag only of a service     *)
(* that is not running, and the exit that ends the run takes the mark.     *)
LEMMA MarksStep ==
  ASSUME TypeOK, IInv, [Next]_vars
  PROVE  RestartMarkHasItsExit'
<1> USE DEF IInv
<1>1. CASE UNCHANGED <<pid, stopped, restartPending>>
  BY Zenon, <1>1 DEF RestartMarkHasItsExit
<1>2. CASE HandleCheckFailure \/ \E s \in Svc : RestartFn(s)
  <2>1. PICK T \in SUBSET Svc : StopAndEnqueue(T)
    BY Zenon, <1>2 DEF HandleCheckFailure, RestartFn, ToRestart, TypeOK
  <2>2. UNCHANGED pid
    BY Zenon, <1>2 DEF HandleCheckFailure, RestartFn
  <2>3. Stop(T) BY SMTT(30), <2>1 DEF StopAndEnqueue
  <2>4. \A n \in restartPending' : n \in restartPending \/ \E s \in T : NameOf[s] = n /\ IsRunning(s)
    BY SMTT(30), <2>1, EnqueueEffect
  <2> QED BY <2>2, <2>3, <2>4, StopEffect DEF RestartMarkHasItsExit
<1>3. ASSUME NEW g \in Gor, Stopper(g) PROVE RestartMarkHasItsExit'
  <2>1. (\E T : Stop(T)) \/ UNCHANGED stopped
    BY Zenon, <1>3 DEF Stopper, StopFnStop, StopFnReply, StopFnGiveUp
  <2>2. UNCHANGED <<pid, restartPending>>
    BY Zenon, <1>3 DEF Stopper, StopFnStop, StopFnReply, StopFnGiveUp
  <2> QED BY Zenon, <2>1, <2>2, StopEffect, MarksFrame
<1>4. CASE StopAll
  <2>1. (\E T : Stop(T)) \/ UNCHANGED stopped
    BY Zenon, <1>4 DEF StopAll, StopSequential, StopSimultaneous, StopOne
  <2>2. UNCHANGED <<pid, restartPending>>
    BY Zenon, <1>4 DEF StopAll
  <2> QED BY Zenon, <2>1, <2>2, StopEffect, MarksFrame
<1>5. ASSUME NEW g \in Gor, NEW p \in Pid, Fork(g, p) PROVE RestartMarkHasItsExit'
  <2> DEFINE s == gor[g].svc
  <2>1. s \in Svc /\ pid[s] = None
    BY SMTT(30), <1>5 DEF Fork, Locking, TypeOK
  <2>2. pid' = [pid EXCEPT ![s] = p] /\ stopped' = [stopped EXCEPT ![s] = FALSE] /\ UNCHANGED restartPending
    BY Zenon, <1>5 DEF Fork
  <2> HIDE DEF s
  <2>3. \A t \in Svc : pid[t] # None => pid'[t] = pid[t] /\ stopped'[t] = stopped[t]
    BY Zenon, <2>1, <2>2 DEF TypeOK
  <2> QED BY ZenonT(30), <2>2, <2>3 DEF RestartMarkHasItsExit
<1>6. ASSUME NEW s \in Svc, ReapManaged(s) PROVE RestartMarkHasItsExit'
  <2>1. pid' = [pid EXCEPT ![s] = None] /\ restartPending' = restartPending \ {NameOf[s]}
    BY Zenon, <1>6 DEF ReapManaged, TakeRestartPending
  <2>2. \A t \in Svc : stopped[t] => stopped'[t]
    BY SMTT(30), <1>6, StopEffect DEF ReapManaged
  <2>3. \A t \in Svc : NameOf[t] # NameOf[s] => pid'[t] = pid[t]
    BY Zenon, <2>1 DEF TypeOK
  <2> QED BY Zenon, <2>1, <2>2, <2>3 DEF RestartMarkHasItsExit
<1>7. ASSUME NEW g \in Gor, NEW s \in Svc, StartFn(g, s) \/ StopFn(g, s) PROVE RestartMarkHasItsExit'
  BY Zenon, <1>1, <1>7 DEF StartFn, StopFn
<1>8. ASSUME NEW g \in Gor, Dispatch(g) \/ Handler(g) \/ StartSkipped(g) \/ StartError(g) \/ StartCheck(g)
      PROVE  RestartMarkHasItsExit'
  BY Zenon, <1>1, <1>8 DEF Dispatch, Handler, HandleRestartReq, RestartFailed, RestartGivenUp,
                    StartSkipped, StartError, StartCheck
<1>9. ASSUME NEW p \in Pid, ProcExit(p) \/ Reparent(p) \/ Wait4(p) PROVE RestartMarkHasItsExit'
  BY Zenon, <1>1, <1>9 DEF ProcExit, Reparent, Wait4
<1>10. CASE EChild \/ EChildNext \/ Wake \/ ReapUnmanaged \/ UnmanagedNext \/ PreStore \/ TearDown
  BY Zenon, <1>1, <1>10 DEF EChild, EChildNext, Wake, ReapUnmanaged, UnmanagedNext, PreStore, TearDown
<1>11. CASE SigShutdown \/ (\E c \in Code : Trigger(c)) \/ StoreExitCode \/ StopAllWait
  BY Zenon, <1>1, <1>11 DEF SigShutdown, Trigger, StoreExitCode, StopAllWait
<1>12. CASE UNCHANGED vars
  BY Zenon, <1>1, <1>12 DEF vars
<1> QED
  BY Zenon, <1>2, <1>3, <1>4, <1>5, <1>6, <1>7, <1>8, <1>9, <1>10, <1>11, <1>12
     DEF Next, Step, Environment, Goroutines, StartService, Shutdown, ReapLoop

-----------------------------------------------------------------------------
(* Sends on restartCh                                                      *)

(* A step of g that does not go to "send" makes no other goroutine a       *)
(* sender.                                                                 *)
LEMMA GorStepSend ==
  ASSUME TypeOK, NEW g \in Gor, NEW pcs, GorStep(g, pcs), "send" \notin pcs
  PROVE  \A h \in Gor : gor'[h].pc = "send" => gor[h].pc = "send"
BY DEF GorStep, Idle, TypeOK, Goroutine

(* Every step keeps NoSendOnClosedChannel: senders are only added before   *)
(* shutdown begins or by the reap loop itself, and run() closes restartCh  *)
(* after its loop, once it has seen every sender finish.                   *)
LEMMA NoSendStep ==
  ASSUME TypeOK, IInv, [Next]_vars
  PROVE  NoSendOnClosedChannel'
<1> USE DEF IInv
<1>1. CASE UNCHANGED <<gor, reap>>
  BY Zenon, <1>1 DEF NoSendOnClosedChannel, RestartChClosed
<1>2. CASE UNCHANGED reap /\ \A h \in Gor : gor'[h].pc = "send" => gor[h].pc = "send"
  BY Zenon, <1>2 DEF NoSendOnClosedChannel, RestartChClosed
<1>3. CASE HandleCheckFailure \/ \E s \in Svc : RestartFn(s)
  <2>1. ~shuttingDown /\ UNCHANGED reap
    BY ZenonT(30), <1>3 DEF HandleCheckFailure, RestartFn
  <2>2. ~RestartChClosed
    BY Zenon, <2>1 DEF ShutdownPhases, LoopLeft, RestartChClosed
  <2> QED BY Zenon, <2>1, <2>2 DEF NoSendOnClosedChannel, RestartChClosed
<1>4. ASSUME NEW g \in Gor, NEW s \in Svc, StartFn(g, s) \/ StopFn(g, s) PROVE NoSendOnClosedChannel'
  <2>1. \A h \in Gor : gor'[h].pc = "send" => gor[h].pc = "send"
    <3>1. PICK c \in Pid \cup {None}, pc \in {"start", "stop"} : Spawn(g, pc, s, c)
      BY Zenon, <1>4 DEF StartFn, StopFn, TypeOK
    <3>2. gor \in [Gor -> Goroutine]
      BY Zenon DEF TypeOK
    <3> QED BY <3>1, <3>2 DEF Spawn
  <2> QED BY Zenon, <1>2, <1>4, <2>1 DEF StartFn, StopFn
<1>5. ASSUME NEW g \in Gor,
             Dispatch(g) \/ Handler(g) \/ StartSkipped(g) \/ StartError(g) \/ StartCheck(g) \/ Stopper(g)
      PROVE  NoSendOnClosedChannel'
  <2>1. GorStep(g, {"wait", "start", "fork", "fail", "shut", "stopwait"})
    BY Zenon, <1>5 DEF GorStep, Dispatch, Handler, HandleRestartReq, RestartFailed, RestartGivenUp, StartSkipped,
                StartError, StartCheck, Stopper, StopFnStop, StopFnReply, StopFnGiveUp, Settle
  <2>2. UNCHANGED reap
    BY Zenon, <1>5 DEF Dispatch, Handler, HandleRestartReq, RestartFailed, RestartGivenUp, StartSkipped,
                StartError, StartCheck, Stopper, StopFnStop, StopFnReply, StopFnGiveUp
  <2> QED BY SMTT(30), <1>2, <2>1, <2>2, GorStepSend
<1>6. ASSUME NEW g \in Gor, NEW p \in Pid, Fork(g, p) PROVE NoSendOnClosedChannel'
  <2>1. GorStep(g, {}) /\ UNCHANGED reap
    BY Zenon, <1>6 DEF GorStep, Fork, Settle
  <2> QED BY Zenon, <1>2, <2>1, GorStepSend
<1>7. ASSUME NEW s \in Svc, ReapManaged(s) PROVE NoSendOnClosedChannel'
  BY Zenon, <1>7 DEF ReapManaged, Goto, NoSendOnClosedChannel, RestartChClosed, TypeOK, ReapState
<1>8. CASE EChild \/ EChildNext \/ Wake \/ ReapUnmanaged \/ UnmanagedNext \/ PreStore
  BY Zenon, <1>8 DEF EChild, EChildNext, EChildBranch, Wake, ReapUnmanaged, UnmanagedNext, PreStore,
              Goto, NoSendOnClosedChannel, RestartChClosed, TypeOK, ReapState
<1>9. CASE TearDown
  BY Zenon, <1>9 DEF TearDown, Goto, NoSendOnClosedChannel, RestartChClosed, TypeOK, ReapState
<1>10. ASSUME NEW p \in Pid, Wait4(p) PROVE NoSendOnClosedChannel'
  BY <1>10 DEF Wait4, NoSendOnClosedChannel, RestartChClosed
<1>11. ASSUME NEW p \in Pid, ProcExit(p) \/ Reparent(p) PROVE NoSendOnClosedChannel'
  BY Zenon, <1>1, <1>11 DEF ProcExit, Reparent
<1>12. CASE SigShutdown \/ (\E c \in Code : Trigger(c)) \/ StoreExitCode \/ StopAll \/ StopAllWait
  BY Zenon, <1>1, <1>12 DEF SigShutdown, Trigger, StoreExitCode, StopAll, StopAllWait
<1>13. CASE UNCHANGED vars
  BY Zenon, <1>1, <1>13 DEF vars
<1> QED
  BY Zenon, <1>3, <1>4, <1>5, <1>6, <1>7, <1>8, <1>9, <1>10, <1>11, <1>12, <1>13
     DEF Next, Step, Environment, Goroutines, StartService, Shutdown, ReapLoop

-----------------------------------------------------------------------------
(* Restart requests and the up metric                                      *)

(* Where no restart request ever is: a free slot, and a stop command.      *)
NoRestart == {"free", "stop", "stopwait"}

(* A restart request is for a service of d.services.  A restart-pending    *)
(* mark belongs to a request that waits for the end of the run that the    *)
(* mark is about.                                                          *)
Requests ==
  /\ services = Loaded
  /\ \A g \in Gor : /\ gor[g].pc \in NoRestart => ~gor[g].restart
                    /\ gor[g].restart => gor[g].svc \in services
  /\ \A n \in restartPending : \E g \in Gor :
       /\ gor[g].pc \in {"send", "wait"} /\ gor[g].restart /\ NameOf[gor[g].svc] = n
       /\ gor[g].ch # None /\ gor[g].ch = pid[gor[g].svc]

(* What one slot may turn into without a restart getting lost.             *)
Carries(g) ==
  /\ gor'[g].restart = gor[g].restart /\ gor'[g].svc = gor[g].svc
  /\ gor[g].pc \notin NoRestart => gor'[g].pc \notin NoRestart
  /\ gor[g].pc \in {"send", "wait"} => gor'[g].pc \in {"send", "wait"}

(* Every service of a batch gets a request of its own.                     *)
LEMMA EnqueueServes ==
  ASSUME TypeOK, NEW T \in SUBSET Svc, StopAndEnqueue(T)
  PROVE  /\ \A g \in Gor : \/ gor'[g] = gor[g]
                           \/ gor[g].pc = "free" /\ \E s \in T : gor'[g] = Request(s, Done(s))
         /\ \A s \in T : \E g \in Gor : gor'[g] = Request(s, Done(s))
<1>1. PICK slot \in [T -> FreeGor(Cardinality(T))] :
        /\ \A s, t \in T : slot[s] = slot[t] => s = t
        /\ gor' = [g \in Gor |-> IF \E s \in T : slot[s] = g
                              THEN LET s == CHOOSE s \in T : slot[s] = g IN Request(s, Done(s))
                              ELSE gor[g]]
  BY Zenon DEF StopAndEnqueue, Enqueue
<1>2. ASSUME NEW t \in T
      PROVE  slot[t] \in Gor /\ gor[slot[t]].pc = "free" /\ gor'[slot[t]] = Request(t, Done(t))
  <2>1. slot[t] \in Gor /\ gor[slot[t]].pc = "free"
    <3>1. slot[t] \in FreeGor(Cardinality(T))
      BY Zenon
    <3> QED BY Zenon, <3>1 DEF FreeGor
  <2> DEFINE c == CHOOSE s \in T : slot[s] = slot[t]
  <2>2. c \in T /\ slot[c] = slot[t]
    BY Zenon
  <2>3. c = t
    BY Zenon, <1>1, <2>2
  <2>4. gor'[slot[t]] = Request(c, Done(c))
    BY Zenon, <1>1, <2>1
  <2> HIDE DEF c
  <2> QED BY Zenon, <2>1, <2>3, <2>4
<1>3. ASSUME NEW g \in Gor, ~\E s \in T : slot[s] = g PROVE gor'[g] = gor[g]
  BY Zenon, <1>1, <1>3
<1> QED
  BY Zenon, <1>2, <1>3

(* Requests survive a step that leaves the runs alone, fills only free     *)
(* slots, and frees none that waits for an exit.                           *)
LEMMA RequestsFrame ==
  ASSUME Requests, UNCHANGED <<services, pid>>, restartPending' \subseteq restartPending,
         \A g \in Gor : /\ \/ gor'[g] = Idle
                           \/ ~gor'[g].restart
                           \/ Carries(g)
                        /\ gor[g].pc \in {"send", "wait"} /\ gor[g].ch # None
                             => Carries(g) /\ gor'[g].ch = gor[g].ch
  PROVE  Requests'
<1>1. \A g \in Gor : /\ gor'[g].pc \in NoRestart => ~gor'[g].restart
                     /\ gor'[g].restart => gor'[g].svc \in services
  BY DEF Requests, Carries, Idle, NoRestart
<1>2. ASSUME NEW n \in restartPending'
      PROVE  \E g \in Gor :
               /\ gor'[g].pc \in {"send", "wait"} /\ gor'[g].restart /\ NameOf[gor'[g].svc] = n
               /\ gor'[g].ch # None /\ gor'[g].ch = pid'[gor'[g].svc]
  <2>1. PICK g \in Gor : /\ gor[g].pc \in {"send", "wait"} /\ gor[g].restart /\ NameOf[gor[g].svc] = n
                         /\ gor[g].ch # None /\ gor[g].ch = pid[gor[g].svc]
    BY <1>2 DEF Requests
  <2> QED BY Zenon, <2>1 DEF Carries
<1> QED BY Zenon, <1>1, <1>2 DEF Requests

(* A goroutine's own step carries its request on, or ends it after the     *)
(* exit that it waited for.                                                *)
LEMMA GorStepCarries ==
  ASSUME TypeOK, NEW g \in Gor, NEW pcs \in SUBSET (GorPc \ {"free"}), GorStep(g, pcs)
  PROVE  /\ \A h \in Gor : h # g => gor'[h] = gor[h]
         /\ \/ gor'[g] = Idle
            \/ /\ gor[g].pc # "free" /\ gor'[g].pc \in pcs /\ gor'[g].pc # "free"
               /\ gor'[g].restart = gor[g].restart /\ gor'[g].svc = gor[g].svc /\ gor'[g].ch = gor[g].ch
<1>1. gor \in [Gor -> Goroutine] /\ gor[g] \in [pc : GorPc, svc : Svc \cup {None}, ch : Pid \cup {None}, restart : BOOLEAN]
  BY Zenon DEF TypeOK, Goroutine
<1>2. CASE gor' = [gor EXCEPT ![g] = Idle]
  BY Zenon, <1>1, <1>2
<1>3. CASE gor[g].pc # "free" /\ \E pc \in pcs : gor' = [gor EXCEPT ![g].pc = pc]
  <2>1. PICK pc \in pcs : gor' = [gor EXCEPT ![g].pc = pc]
    BY Zenon, <1>3
  <2>2. gor'[g] = [gor[g] EXCEPT !.pc = pc] /\ \A h \in Gor : h # g => gor'[h] = gor[h]
    BY Zenon, <1>1, <2>1
  <2> QED BY Zenon, <1>1, <1>3, <2>2
<1> QED BY Zenon, <1>2, <1>3 DEF GorStep

(* A service that is stopped for a restart has its request from the same   *)
(* critical section on, and the reap loop closes the channel of a run with *)
(* the mark of that run.                                                   *)
LEMMA RequestsStep ==
  ASSUME TypeOK, IInv, Requests, [Next]_vars
  PROVE  Requests'
<1>0. gor \in [Gor -> Goroutine]
  BY Zenon DEF TypeOK
<1>1. CASE UNCHANGED <<services, pid, restartPending, gor>>
  BY <1>1 DEF Requests
<1>2. CASE HandleCheckFailure \/ \E s \in Svc : RestartFn(s)
  <2>1. PICK T \in SUBSET services : StopAndEnqueue(T)
    BY Zenon, <1>2 DEF HandleCheckFailure, RestartFn, ToRestart
  <2>2. T \in SUBSET Svc /\ UNCHANGED <<services, pid>>
    BY Zenon, <1>2 DEF HandleCheckFailure, RestartFn, TypeOK
  <2>3. /\ \A g \in Gor : \/ gor'[g] = gor[g]
                          \/ gor[g].pc = "free" /\ \E s \in T : gor'[g] = Request(s, Done(s))
        /\ \A s \in T : \E g \in Gor : gor'[g] = Request(s, Done(s))
    BY Zenon, <2>1, <2>2, EnqueueServes
  <2>4. \A n \in restartPending' :
          n \in restartPending \/ \E s \in T : NameOf[s] = n /\ IsRunning(s)
    BY Zenon, <2>1, <2>2, EnqueueEffect
  <2>5. \A g \in Gor : /\ gor'[g].pc \in NoRestart => ~gor'[g].restart
                       /\ gor'[g].restart => gor'[g].svc \in services'
    <3>1. \A s \in T : Request(s, Done(s)).pc \notin NoRestart /\ Request(s, Done(s)).svc = s
      BY Zenon DEF Request, NoRestart
    <3>2. \A s \in T : s \in services'
      BY Zenon, <2>2
    <3> HIDE DEF Request
    <3> QED BY <2>2, <2>3, <3>1, <3>2 DEF Requests
  <2>6. ASSUME NEW n \in restartPending'
        PROVE  \E g \in Gor :
                 /\ gor'[g].pc \in {"send", "wait"} /\ gor'[g].restart /\ NameOf[gor'[g].svc] = n
                 /\ gor'[g].ch # None /\ gor'[g].ch = pid'[gor'[g].svc]
    <3>1. CASE n \in restartPending
      <4>1. PICK g \in Gor : /\ gor[g].pc \in {"send", "wait"} /\ gor[g].restart /\ NameOf[gor[g].svc] = n
                             /\ gor[g].ch # None /\ gor[g].ch = pid[gor[g].svc]
        BY Zenon, <3>1 DEF Requests
      <4>2. gor'[g] = gor[g]
        BY Zenon, <2>3, <4>1
      <4> QED BY Zenon, <2>2, <4>1, <4>2
    <3>2. CASE \E s \in T : NameOf[s] = n /\ IsRunning(s)
      <4>1. PICK s \in T : NameOf[s] = n /\ IsRunning(s)
        BY Zenon, <3>2
      <4>2. PICK g \in Gor : gor'[g] = Request(s, Done(s))
        BY Zenon, <2>3
      <4> QED BY <2>2, <4>1, <4>2 DEF Request
    <3> QED BY Zenon, <2>4, <3>1, <3>2
  <2> QED BY Zenon, <2>2, <2>5, <2>6 DEF Requests
<1>3. ASSUME NEW g \in Gor, NEW s \in Svc, StartFn(g, s) \/ StopFn(g, s) PROVE Requests'
  <2>1. gor[g].pc = "free" /\ UNCHANGED <<services, pid, restartPending>>
    BY Zenon, <1>3 DEF StartFn, StopFn, Spawn, FreeGor
  <2>2. ~gor'[g].restart /\ \A h \in Gor : h # g => gor'[h] = gor[h]
    BY <1>0, <1>3 DEF StartFn, StopFn, Spawn
  <2> QED BY Zenon, <2>1, <2>2, RequestsFrame DEF Carries, NoRestart
<1>4. ASSUME NEW g \in Gor, Dispatch(g) PROVE Requests'
  <2>1. GorStep(g, {"wait"}) /\ gor[g].pc = "send" /\ UNCHANGED <<services, pid, restartPending>>
    BY Zenon, <1>4 DEF Dispatch, GorStep
  <2>2. gor' = [gor EXCEPT ![g].pc = "wait"]
    BY Zenon, <1>4 DEF Dispatch
  <2>3. /\ \A h \in Gor : h # g => gor'[h] = gor[h]
        /\ gor'[g].pc = "wait" /\ gor'[g].restart = gor[g].restart /\ gor'[g].svc = gor[g].svc
        /\ gor'[g].ch = gor[g].ch
    BY Zenon, <1>0, <2>2 DEF Goroutine
  <2> QED BY Zenon, <2>1, <2>3, RequestsFrame DEF Carries, NoRestart
<1>5. ASSUME NEW g \in Gor,
             Handler(g) \/ StartSkipped(g) \/ StartError(g) \/ StartCheck(g) \/ Stopper(g)
      PROVE  Requests'
  <2>1. GorStep(g, {"start", "fork", "fail", "shut", "stopwait"})
    BY Zenon, <1>5 DEF GorStep, Handler, HandleRestartReq, RestartFailed, RestartGivenUp, StartSkipped,
                StartError, StartCheck, Stopper, StopFnStop, StopFnReply, StopFnGiveUp, Settle
  <2>2. UNCHANGED <<services, pid, restartPending>> /\ ~(gor[g].pc \in {"send", "wait"} /\ gor[g].ch # None)
    BY Zenon, <1>5 DEF Handler, HandleRestartReq, RestartFailed, RestartGivenUp, StartSkipped,
                StartError, StartCheck, Stopper, StopFnStop, StopFnReply, StopFnGiveUp
  <2>3. {"start", "fork", "fail", "shut", "stopwait"} \in SUBSET (GorPc \ {"free"})
    BY Zenon DEF GorPc
  <2>4. /\ \A h \in Gor : h # g => gor'[h] = gor[h]
        /\ \/ gor'[g] = Idle
           \/ /\ gor'[g].pc \in NoRestart => gor[g].pc \in NoRestart
              /\ gor'[g].restart = gor[g].restart /\ gor'[g].svc = gor[g].svc
    <3>1. /\ \A h \in Gor : h # g => gor'[h] = gor[h]
          /\ \/ gor'[g] = Idle
             \/ gor'[g].pc # "free" /\ gor'[g].restart = gor[g].restart /\ gor'[g].svc = gor[g].svc
      BY Zenon, <2>1, <2>3, GorStepCarries
    <3>2. CASE StopFnStop(g)
      BY Zenon, <3>1, <3>2 DEF StopFnStop, NoRestart
    <3>3. CASE ~StopFnStop(g)
      <4>1. GorStep(g, {"start", "fork", "fail", "shut"})
        BY Zenon, <1>5, <3>3 DEF GorStep, Handler, HandleRestartReq, RestartFailed, RestartGivenUp, StartSkipped,
                StartError, StartCheck, Stopper, StopFnReply, StopFnGiveUp, Settle
      <4>2. gor'[g] = Idle \/ gor'[g].pc \in {"start", "fork", "fail", "shut"}
        BY Zenon, <4>1, <2>3, GorStepCarries
      <4> QED BY Zenon, <3>1, <4>2 DEF NoRestart
    <3> QED BY Zenon, <3>2, <3>3
  <2>6. \A h \in Gor : /\ gor'[h].pc \in NoRestart => ~gor'[h].restart
                       /\ gor'[h].restart => gor'[h].svc \in services'
    BY <2>2, <2>4 DEF Requests, Idle, NoRestart
  <2>7. ASSUME NEW n \in restartPending'
        PROVE  \E h \in Gor :
                 /\ gor'[h].pc \in {"send", "wait"} /\ gor'[h].restart /\ NameOf[gor'[h].svc] = n
                 /\ gor'[h].ch # None /\ gor'[h].ch = pid'[gor'[h].svc]
    <3>1. PICK h \in Gor : /\ gor[h].pc \in {"send", "wait"} /\ gor[h].restart /\ NameOf[gor[h].svc] = n
                           /\ gor[h].ch # None /\ gor[h].ch = pid[gor[h].svc]
      BY Zenon, <2>2, <2>7 DEF Requests
    <3> QED BY Zenon, <2>2, <2>4, <3>1
  <2> QED BY Zenon, <2>2, <2>6, <2>7 DEF Requests
<1>6. ASSUME NEW g \in Gor, NEW p \in Pid, Fork(g, p) PROVE Requests'
  <2> DEFINE s == gor[g].svc
  <2>1. /\ gor' = [gor EXCEPT ![g] = Idle] /\ UNCHANGED <<services, restartPending>>
        /\ gor[g].pc = "fork" /\ pid' = [pid EXCEPT ![s] = p] /\ pid[s] = None
    BY Zenon, <1>6 DEF Fork, Settle, IInv, Locking
  <2>2. gor'[g] = Idle /\ \A h \in Gor : h # g => gor'[h] = gor[h]
    BY Zenon, <1>0, <2>1
  <2> HIDE DEF s
  <2>3. \A h \in Gor : /\ gor'[h].pc \in NoRestart => ~gor'[h].restart
                       /\ gor'[h].restart => gor'[h].svc \in services'
    BY <2>1, <2>2 DEF Requests, Idle, NoRestart
  <2>4. ASSUME NEW n \in restartPending'
        PROVE  \E h \in Gor :
                 /\ gor'[h].pc \in {"send", "wait"} /\ gor'[h].restart /\ NameOf[gor'[h].svc] = n
                 /\ gor'[h].ch # None /\ gor'[h].ch = pid'[gor'[h].svc]
    <3>1. PICK h \in Gor : /\ gor[h].pc \in {"send", "wait"} /\ gor[h].restart /\ NameOf[gor[h].svc] = n
                           /\ gor[h].ch # None /\ gor[h].ch = pid[gor[h].svc]
      BY Zenon, <2>1, <2>4 DEF Requests
    <3>2. gor[h].svc # s /\ gor[h].svc \in Svc /\ h # g
      BY Zenon, <2>1, <3>1 DEF TypeOK, Goroutine
    <3>3. pid'[gor[h].svc] = pid[gor[h].svc]
      BY Zenon, <2>1, <3>2 DEF TypeOK
    <3> QED BY <2>2, <3>1, <3>2, <3>3
  <2> QED BY Zenon, <2>1, <2>3, <2>4 DEF Requests
<1>7. ASSUME NEW s \in Svc, ReapManaged(s) PROVE Requests'
  <2>1. /\ pid' = [pid EXCEPT ![s] = None] /\ UNCHANGED services
        /\ restartPending' = restartPending \ {NameOf[s]}
    BY Zenon, <1>7 DEF ReapManaged, TakeRestartPending
  <2>2. reap.pid \in Pid /\ pid[s] = reap.pid /\ pid[s] # None
    BY <1>7, ConstAssumption DEF ReapManaged, IInv, Tracking
  <2>3. \/ gor' = CloseGor(Done(s))
        \/ \E g \in FreeGor(1) : gor' = [CloseGor(Done(s)) EXCEPT ![g] = Request(s, None)]
    BY Zenon, <1>7 DEF ReapManaged
  <2>4. \A h \in Gor : \/ gor'[h] = CloseGor(Done(s))[h]
                       \/ gor[h].pc = "free" /\ gor'[h] = Request(s, None)
    BY ZenonT(30), <2>3 DEF FreeGor
  <2>5. \A h \in Gor : CloseGor(Done(s))[h] = IF gor[h].ch = pid[s] THEN [gor[h] EXCEPT !.ch = None] ELSE gor[h]
    BY Zenon
  <2>6. \A h \in Gor : /\ CloseGor(Done(s))[h].pc = gor[h].pc /\ CloseGor(Done(s))[h].restart = gor[h].restart
                       /\ CloseGor(Done(s))[h].svc = gor[h].svc
    BY Zenon, <1>0, <2>5 DEF Goroutine
  <2> HIDE DEF CloseGor
  <2>7. s \in services
    BY Zenon, <2>2 DEF IInv, Tracking
  <2>8. \A h \in Gor : /\ gor'[h].pc \in NoRestart => ~gor'[h].restart
                       /\ gor'[h].restart => gor'[h].svc \in services'
    BY <2>1, <2>4, <2>6, <2>7 DEF Requests, Request, NoRestart
  <2>9. ASSUME NEW n \in restartPending'
        PROVE  \E h \in Gor :
                 /\ gor'[h].pc \in {"send", "wait"} /\ gor'[h].restart /\ NameOf[gor'[h].svc] = n
                 /\ gor'[h].ch # None /\ gor'[h].ch = pid'[gor'[h].svc]
    <3>1. PICK h \in Gor : /\ gor[h].pc \in {"send", "wait"} /\ gor[h].restart /\ NameOf[gor[h].svc] = n
                           /\ gor[h].ch # None /\ gor[h].ch = pid[gor[h].svc]
      BY Zenon, <2>1, <2>9 DEF Requests
    <3>2. gor[h].svc # s /\ gor[h].svc \in Svc
      BY Zenon, <2>1, <2>9, <3>1 DEF TypeOK, Goroutine
    <3>3. pid[gor[h].svc] # pid[s]
      BY <2>2, <3>2 DEF IInv, Tracking
    <3>4. gor'[h] = gor[h]
      BY Zenon, <2>4, <2>5, <3>1, <3>3
    <3>5. pid'[gor[h].svc] = pid[gor[h].svc]
      BY Zenon, <2>1, <3>2 DEF TypeOK
    <3> QED BY Zenon, <3>1, <3>4, <3>5
  <2> QED BY Zenon, <2>1, <2>8, <2>9 DEF Requests
<1>8. ASSUME NEW p \in Pid, ProcExit(p) \/ Reparent(p) \/ Wait4(p) PROVE Requests'
  BY Zenon, <1>1, <1>8 DEF ProcExit, Reparent, Wait4
<1>9. CASE EChild \/ EChildNext \/ Wake \/ ReapUnmanaged \/ UnmanagedNext \/ PreStore \/ TearDown
  BY Zenon, <1>1, <1>9 DEF EChild, EChildNext, Wake, ReapUnmanaged, UnmanagedNext, PreStore, TearDown
<1>10. CASE SigShutdown \/ (\E c \in Code : Trigger(c)) \/ StoreExitCode \/ StopAll \/ StopAllWait
  BY Zenon, <1>1, <1>10 DEF SigShutdown, Trigger, StoreExitCode, StopAll, StopAllWait
<1>11. CASE UNCHANGED vars
  BY Zenon, <1>1, <1>11 DEF vars
<1> QED
  BY Zenon, <1>2, <1>3, <1>4, <1>5, <1>6, <1>7, <1>8, <1>9, <1>10, <1>11
     DEF Next, Step, Environment, Goroutines, StartService, Shutdown, ReapLoop

(* The up flags survive a step that changes neither them nor the runs,     *)
(* when every restart that ends has left its service running or skipped,   *)
(* or the daemon is shutting down.                                         *)
LEMMA UpFrame ==
  ASSUME UpIsAccountedFor, UNCHANGED <<pid, up>>, skipped \subseteq skipped',
         shuttingDown => shuttingDown',
         \A g \in Gor : gor[g].restart =>
           \/ gor'[g].restart /\ gor'[g].svc = gor[g].svc
           \/ gor[g].svc \in Svc /\ IsRunning(gor[g].svc)
           \/ NameOf[gor[g].svc] \in skipped'
           \/ shuttingDown'
  PROVE  UpIsAccountedFor'
<1>1. \A s \in Svc : pid'[s] # None => NameOf[s] \in up'
  BY Zenon DEF UpIsAccountedFor, IsRunning
<1>2. ASSUME NEW n \in up'
      PROVE  \/ \E s \in Svc : NameOf[s] = n /\ pid'[s] # None
             \/ \E g \in Gor : gor'[g].restart /\ NameOf[gor'[g].svc] = n
             \/ n \in skipped'
             \/ shuttingDown'
  <2>1. \/ \E s \in Svc : NameOf[s] = n /\ IsRunning(s)
        \/ \E g \in Gor : gor[g].restart /\ NameOf[gor[g].svc] = n
        \/ n \in skipped
        \/ shuttingDown
    BY Zenon, <1>2 DEF UpIsAccountedFor
  <2>2. CASE \E g \in Gor : gor[g].restart /\ NameOf[gor[g].svc] = n
    <3>1. PICK g \in Gor : gor[g].restart /\ NameOf[gor[g].svc] = n
      BY Zenon, <2>2
    <3> QED BY Zenon, <3>1 DEF IsRunning
  <2> QED BY Zenon, <2>1, <2>2 DEF IsRunning
<1> QED BY Zenon, <1>1, <1>2 DEF UpIsAccountedFor, IsRunning

(* ServiceStarted and ServiceExited are called where the run begins and    *)
(* ends; an exit that is part of a restart keeps the flag, and there the   *)
(* request takes over.                                                     *)
LEMMA UpStep ==
  ASSUME TypeOK, IInv, Requests, UpIsAccountedFor, [Next]_vars
  PROVE  UpIsAccountedFor'
<1>0. gor \in [Gor -> Goroutine]
  BY Zenon DEF TypeOK
<1>1. ASSUME UNCHANGED <<pid, up, skipped, gor>>, shuttingDown => shuttingDown' PROVE UpIsAccountedFor'
  BY Zenon, <1>1, UpFrame
<1>2. CASE HandleCheckFailure \/ \E s \in Svc : RestartFn(s)
  <2>1. PICK T \in SUBSET services : StopAndEnqueue(T)
    BY Zenon, <1>2 DEF HandleCheckFailure, RestartFn, ToRestart
  <2>2. T \in SUBSET Svc /\ UNCHANGED <<pid, up, skipped, shuttingDown>>
    BY Zenon, <1>2 DEF HandleCheckFailure, RestartFn, TypeOK
  <2>3. \A g \in Gor : gor'[g] = gor[g] \/ gor[g].pc = "free"
    BY Zenon, <2>1, <2>2, EnqueueServes
  <2>4. \A g \in Gor : gor[g].restart => gor'[g] = gor[g]
    BY Zenon, <2>3 DEF Requests, NoRestart
  <2> QED BY Zenon, <2>2, <2>4, UpFrame
<1>3. ASSUME NEW g \in Gor, NEW s \in Svc, StartFn(g, s) \/ StopFn(g, s) PROVE UpIsAccountedFor'
  <2>1. gor[g].pc = "free" /\ UNCHANGED <<pid, up, skipped, shuttingDown>>
    BY Zenon, <1>3 DEF StartFn, StopFn, Spawn, FreeGor
  <2>2. \A h \in Gor : h # g => gor'[h] = gor[h]
    BY Zenon, <1>0, <1>3 DEF StartFn, StopFn, Spawn
  <2>3. ~gor[g].restart
    BY Zenon, <2>1 DEF Requests, NoRestart
  <2> QED BY Zenon, <2>1, <2>2, <2>3, UpFrame
<1>4. ASSUME NEW g \in Gor, Dispatch(g) \/ Handler(g) \/ StartSkipped(g) \/ StartError(g) \/ StartCheck(g) \/ Stopper(g)
      PROVE  UpIsAccountedFor'
  <2>1. GorStep(g, {"wait", "start", "fork", "fail", "shut", "stopwait"})
    BY Zenon, <1>4 DEF GorStep, Dispatch, Handler, HandleRestartReq, RestartFailed, RestartGivenUp, StartSkipped,
                StartError, StartCheck, Stopper, StopFnStop, StopFnReply, StopFnGiveUp, Settle
  <2>2. {"wait", "start", "fork", "fail", "shut", "stopwait"} \in SUBSET (GorPc \ {"free"})
    BY Zenon DEF GorPc
  <2>3. /\ \A h \in Gor : h # g => gor'[h] = gor[h]
        /\ \/ gor'[g] = Idle
           \/ gor'[g].restart = gor[g].restart /\ gor'[g].svc = gor[g].svc
    BY Zenon, <2>1, <2>2, GorStepCarries
  <2>4. UNCHANGED <<pid, up>> /\ skipped \subseteq skipped' /\ (shuttingDown => shuttingDown')
    BY <1>4 DEF Dispatch, Handler, HandleRestartReq, RestartFailed, RestartGivenUp, InitiateShutdown,
                StartSkipped, StartError, StartCheck, Stopper, StopFnStop, StopFnReply, StopFnGiveUp,
                svcVars, metricVars
  <2>5. gor[g].restart => gor[g].svc \in services /\ gor[g].svc \in Svc /\ gor[g].pc # "free"
    BY Zenon DEF Requests, TypeOK, NoRestart
  <2>6. gor[g].restart /\ gor'[g] = Idle =>
          \/ IsRunning(gor[g].svc) \/ NameOf[gor[g].svc] \in skipped' \/ shuttingDown'
    <3>1. ASSUME gor[g].restart, Dispatch(g) \/ StartError(g) \/ RestartFailed(g) PROVE gor'[g] # Idle
      BY <1>0, <3>1 DEF Dispatch, StartError, RestartFailed, Idle, Goroutine
    <3>7. ASSUME Stopper(g) PROVE ~gor[g].restart
      BY Zenon, <3>7 DEF Stopper, StopFnStop, StopFnReply, StopFnGiveUp, Requests, NoRestart
    <3>2. ASSUME HandleRestartReq(g), ~IsRunning(gor[g].svc) PROVE gor'[g] # Idle
      BY <1>0, <3>2 DEF HandleRestartReq, Idle, Goroutine
    <3>3. ASSUME StartCheck(g), ~StartRefused(gor[g].svc) PROVE gor'[g] # Idle
      BY <1>0, <3>3 DEF StartCheck, Idle, Goroutine
    <3>4. ASSUME StartCheck(g), StartRefused(gor[g].svc), gor[g].restart
          PROVE  shuttingDown' \/ IsRunning(gor[g].svc)
      BY SMTT(30), <2>5, <3>4 DEF StartCheck, StartRefused
    <3>5. ASSUME StartSkipped(g) PROVE NameOf[gor[g].svc] \in skipped'
      BY Zenon, <3>5 DEF StartSkipped
    <3>6. ASSUME RestartGivenUp(g) PROVE shuttingDown'
      BY Zenon, <3>6 DEF RestartGivenUp, IInv, ShutdownPhases
    <3> QED BY Zenon, <1>4, <3>1, <3>2, <3>3, <3>4, <3>5, <3>6, <3>7 DEF Handler
  <2>7. \A h \in Gor : gor[h].restart =>
           \/ gor'[h].restart /\ gor'[h].svc = gor[h].svc
           \/ gor[h].svc \in Svc /\ IsRunning(gor[h].svc)
           \/ NameOf[gor[h].svc] \in skipped'
           \/ shuttingDown'
    BY Zenon, <2>3, <2>5, <2>6
  <2> QED BY Zenon, <2>4, <2>7, UpFrame
<1>5. ASSUME NEW g \in Gor, NEW p \in Pid, Fork(g, p) PROVE UpIsAccountedFor'
  <2> DEFINE s == gor[g].svc
  <2>1. /\ gor' = [gor EXCEPT ![g] = Idle] /\ UNCHANGED shuttingDown
        /\ pid' = [pid EXCEPT ![s] = p] /\ s \in Svc /\ pid \in [Svc -> Pid \cup {None}] /\ p # None
        /\ up' = up \cup {NameOf[s]} /\ skipped' = skipped \ {NameOf[s]}
    BY Zenon, <1>5, ConstAssumption DEF Fork, FinishStart, Settle, TypeOK, Goroutine, metricVars
  <2>2. \A h \in Gor : h # g => gor'[h] = gor[h]
    BY Zenon, <1>0, <2>1
  <2> HIDE DEF s
  <2>3. pid'[s] # None /\ \A t \in Svc : t # s => pid'[t] = pid[t]
    BY Zenon, <2>1
  <2>4. \A t \in Svc : pid'[t] # None => NameOf[t] \in up'
    BY Zenon, <2>1, <2>3 DEF UpIsAccountedFor, IsRunning
  <2>5. ASSUME NEW n \in up', n # NameOf[s]
        PROVE  \/ \E t \in Svc : NameOf[t] = n /\ pid'[t] # None
               \/ \E h \in Gor : gor'[h].restart /\ NameOf[gor'[h].svc] = n
               \/ n \in skipped'
               \/ shuttingDown'
    <3>1. \/ \E t \in Svc : NameOf[t] = n /\ pid[t] # None
          \/ \E h \in Gor : gor[h].restart /\ NameOf[gor[h].svc] = n
          \/ n \in skipped
          \/ shuttingDown
      BY Zenon, <2>1, <2>5 DEF UpIsAccountedFor, IsRunning
    <3>2. ASSUME NEW h \in Gor, NameOf[gor[h].svc] = n PROVE gor'[h] = gor[h]
      BY Zenon, <2>2, <2>5, <3>2 DEF s
    <3> QED BY Zenon, <2>1, <2>3, <2>5, <3>1, <3>2
  <2> QED BY Zenon, <2>1, <2>3, <2>4, <2>5 DEF UpIsAccountedFor, IsRunning
<1>6. ASSUME NEW s \in Svc, ReapManaged(s) PROVE UpIsAccountedFor'
  <2>1. /\ pid' = [pid EXCEPT ![s] = None] /\ UNCHANGED <<shuttingDown, skipped, services>>
        /\ up' \in {up, up \ {NameOf[s]}}
    BY Zenon, <1>6 DEF ReapManaged, ExitRecorded, metricVars
  <2>2. /\ reap.pid \in Pid /\ pid[s] = reap.pid /\ pid[s] # None /\ s \in services
    BY <1>6, ConstAssumption DEF ReapManaged, IInv, Tracking, IsRunning
  <2>3. pid'[s] = None /\ \A t \in Svc : t # s => pid'[t] = pid[t]
    BY Zenon, <2>1 DEF TypeOK
  <2>4. \A t \in Svc : pid'[t] # None => NameOf[t] \in up'
    <3>1. \A t \in Svc : pid'[t] # None /\ t # s => t \in Loaded /\ NameOf[t] # NameOf[s] /\ NameOf[t] \in up
      BY Zenon, <2>2, <2>3, ConstAssumption DEF UpIsAccountedFor, IsRunning, IInv, Tracking, Requests
    <3> QED BY Zenon, <2>1, <2>3, <3>1
  <2>5. \/ gor' = CloseGor(Done(s))
        \/ \E g \in FreeGor(1) : gor' = [CloseGor(Done(s)) EXCEPT ![g] = Request(s, None)]
    BY Zenon, <1>6 DEF ReapManaged
  <2>6. \A h \in Gor : \/ gor'[h] = CloseGor(Done(s))[h]
                       \/ gor[h].pc = "free" /\ gor'[h] = Request(s, None)
    BY ZenonT(30), <2>5 DEF FreeGor
  <2>7. \A h \in Gor : CloseGor(Done(s))[h].restart = gor[h].restart /\ CloseGor(Done(s))[h].svc = gor[h].svc
    BY Zenon, <1>0 DEF Goroutine, CloseGor
  <2>8. \A h \in Gor : gor[h].restart => gor'[h].restart /\ gor'[h].svc = gor[h].svc
    <3>1. \A h \in Gor : gor[h].restart => gor[h].pc # "free"
      BY Zenon DEF Requests, NoRestart
    <3> QED BY Zenon, <2>6, <2>7, <3>1
  <2>9. NameOf[s] \in up' =>
          \/ \E h \in Gor : gor'[h].restart /\ NameOf[gor'[h].svc] = NameOf[s]
          \/ shuttingDown'
    <3>1. SUFFICES ASSUME NameOf[s] \in up', ~shuttingDown
                   PROVE  \E h \in Gor : gor'[h].restart /\ NameOf[gor'[h].svc] = NameOf[s]
      BY Zenon, <2>1
    <3>2. NameOf[s] \in restartPending
            \/ \E g \in FreeGor(1) : gor' = [CloseGor(Done(s)) EXCEPT ![g] = Request(s, None)]
      BY Zenon, <1>6, <3>1 DEF ReapManaged, ExitRecorded
    <3>3. CASE NameOf[s] \in restartPending
      <4>1. PICK h \in Gor : gor[h].restart /\ NameOf[gor[h].svc] = NameOf[s]
        BY Zenon, <3>3 DEF Requests
      <4> QED BY Zenon, <2>8, <4>1
    <3>4. CASE \E g \in FreeGor(1) : gor' = [CloseGor(Done(s)) EXCEPT ![g] = Request(s, None)]
      <4>1. PICK g \in FreeGor(1) : gor' = [CloseGor(Done(s)) EXCEPT ![g] = Request(s, None)]
        BY Zenon, <3>4
      <4>2. g \in Gor
        BY Zenon, <4>1 DEF FreeGor
      <4>3. gor'[g] = Request(s, None)
        BY Zenon, <4>1, <4>2 DEF CloseGor
      <4> QED BY <4>2, <4>3 DEF Request
    <3> QED BY Zenon, <3>2, <3>3, <3>4
  <2>10. ASSUME NEW n \in up', n # NameOf[s]
         PROVE  \/ \E t \in Svc : NameOf[t] = n /\ pid'[t] # None
                \/ \E h \in Gor : gor'[h].restart /\ NameOf[gor'[h].svc] = n
                \/ n \in skipped'
                \/ shuttingDown'
    <3>1. \/ \E t \in Svc : NameOf[t] = n /\ pid[t] # None
          \/ \E h \in Gor : gor[h].restart /\ NameOf[gor[h].svc] = n
          \/ n \in skipped
          \/ shuttingDown
      BY Zenon, <2>1, <2>10 DEF UpIsAccountedFor, IsRunning
    <3> QED BY Zenon, <2>1, <2>3, <2>8, <2>10, <3>1
  <2> QED BY Zenon, <2>4, <2>9, <2>10 DEF UpIsAccountedFor, IsRunning
<1>7. ASSUME NEW p \in Pid, ProcExit(p) \/ Reparent(p) \/ Wait4(p) PROVE UpIsAccountedFor'
  <2>1. UNCHANGED <<pid, up, skipped, gor, shuttingDown>>
    BY Zenon, <1>7 DEF ProcExit, Reparent, Wait4, svcVars, metricVars
  <2> QED BY Zenon, <1>1, <2>1
<1>8. CASE EChild \/ EChildNext \/ Wake \/ ReapUnmanaged \/ UnmanagedNext \/ PreStore \/ TearDown
  <2>1. UNCHANGED <<pid, up, skipped, gor, shuttingDown>>
    <3>1. CASE EChild \/ EChildNext \/ Wake
      BY Zenon, <3>1 DEF EChild, EChildNext, Wake, svcVars, metricVars
    <3>2. CASE ReapUnmanaged \/ UnmanagedNext \/ PreStore \/ TearDown
      BY Zenon, <3>2 DEF ReapUnmanaged, UnmanagedNext, PreStore, TearDown, svcVars, metricVars
    <3> QED BY Zenon, <1>8, <3>1, <3>2
  <2> QED BY Zenon, <1>1, <2>1
<1>9. CASE SigShutdown \/ (\E c \in Code : Trigger(c)) \/ StoreExitCode \/ StopAll \/ StopAllWait
  BY Zenon, <1>1, <1>9 DEF SigShutdown, Trigger, InitiateShutdown, StoreExitCode, StopAll, StopAllWait, svcVars, metricVars
<1>10. CASE UNCHANGED vars
  BY Zenon, <1>1, <1>10 DEF vars, svcVars, metricVars
<1> QED
  BY Zenon, <1>2, <1>3, <1>4, <1>5, <1>6, <1>7, <1>8, <1>9, <1>10
     DEF Next, Step, Environment, Goroutines, StartService, Shutdown, ReapLoop

-----------------------------------------------------------------------------
(* The order of the shutdown                                               *)

(* The names of the order that stopAll has gone past.                      *)
Passed == Len(StopSeq) - Len(sd.seq)

(* What remains of the order is its tail; no start is under way once the   *)
(* first name has been passed; and a service whose name has been passed is *)
(* down, or is the one whose done channel stopAll waits for.               *)
StopOrder ==
  /\ sd.pc \in {"off", "store", "stop"} => sd.chs = {}
  /\ ShutdownMode # "simultaneous" /\ sd.pc \in {"stop", "wait"} =>
       /\ Passed >= 0
       /\ \A i \in DOMAIN sd.seq : sd.seq[i] = StopSeq[Passed + i]
       /\ Passed > 0 => mu = None
       /\ \A i \in 1..Passed, t \in services : NameOf[t] = StopSeq[i] /\ IsRunning(t) => Done(t) \in sd.chs

(* The stop order names a service once, like the start order.              *)
LEMMA StopSeqOnce == \A i, j \in DOMAIN StopSeq : StopSeq[i] = StopSeq[j] => i = j
<1> DEFINE n == Len(ShutdownSeq)
<1>1. n \in Nat /\ DOMAIN ShutdownSeq = 1..n
  BY ConstAssumption
<1>2. CASE ShutdownMode = "reverse-dep"
  <2>1. StopSeq = [i \in 1..n |-> ShutdownSeq[n + 1 - i]]
    BY Zenon, <1>2 DEF StopSeq, Reverse
  <2> HIDE DEF n
  <2>2. DOMAIN StopSeq = 1..n /\ \A i \in 1..n : StopSeq[i] = ShutdownSeq[n + 1 - i] /\ n + 1 - i \in 1..n
    BY <1>1, <2>1
  <2>3. \A i, j \in 1..n : ShutdownSeq[i] = ShutdownSeq[j] => i = j
    BY Zenon, <1>1, ConstAssumption
  <2>4. ASSUME NEW i \in 1..n, NEW j \in 1..n, StopSeq[i] = StopSeq[j] PROVE i = j
    <3>1. n + 1 - i = n + 1 - j
      BY ZenonT(20), <2>2, <2>3, <2>4
    <3> QED BY <1>1, <3>1
  <2> QED BY Zenon, <2>2, <2>4
<1>3. CASE ShutdownMode # "reverse-dep"
  BY Zenon, <1>3, ConstAssumption DEF StopSeq
<1> QED BY Zenon, <1>2, <1>3

(* A sequence without its first i entries.                                 *)
LEMMA DropPrefix ==
  ASSUME NEW S, NEW seq \in Seq(S), NEW i \in DOMAIN seq
  PROVE  /\ SubSeq(seq, i + 1, Len(seq)) \in Seq(S)
         /\ Len(SubSeq(seq, i + 1, Len(seq))) = Len(seq) - i
         /\ \A j \in 1..(Len(seq) - i) : SubSeq(seq, i + 1, Len(seq))[j] = seq[i + j]
OBVIOUS

(* One step of stopAll in a sequential mode: the services before the one   *)
(* that it stops are down.                                                 *)
LEMMA StopSequentialOrder ==
  ASSUME TypeOK, IInv, Requests, StopOrder, sd.pc = "stop", StopSequential
  PROVE  \E s \in services :
           /\ IsRunning(s) /\ sd'.chs = {Done(s)} /\ sd'.pc = "wait"
           /\ Len(sd'.seq) <= Len(sd.seq)
           /\ \A i \in DOMAIN sd'.seq : sd'.seq[i] = StopSeq[Passed' + i]
           /\ \A i \in 1..Passed', t \in services : NameOf[t] = StopSeq[i] /\ IsRunning(t) => t = s
           /\ \A i, j \in DOMAIN StopSeq, t \in services :
                StopSeq[j] = NameOf[s] /\ i < j /\ StopSeq[i] = NameOf[t] => ~IsRunning(t)
<1> DEFINE L == Len(StopSeq)
           n == Len(sd.seq)
           k == L - n
<1>1. /\ ShutdownMode # "simultaneous" /\ sd \in ShutdownState
      /\ sd.seq \in Seq(Name) /\ n \in Nat /\ DOMAIN sd.seq = 1..n
      /\ L \in Nat /\ DOMAIN StopSeq = 1..L
  BY SMTT(30), StopSeqType DEF StopSequential, TypeOK, ShutdownState
<1>2. /\ k >= 0 /\ k \in Nat
      /\ \A i \in 1..n : sd.seq[i] = StopSeq[k + i]
      /\ \A i \in 1..k, t \in services : NameOf[t] = StopSeq[i] => ~IsRunning(t)
  <2>1. Passed = k
    BY Zenon DEF Passed
  <2>2. sd.pc = "stop"
    OBVIOUS
  <2>3. /\ sd.chs = {} /\ Passed >= 0
        /\ \A i \in DOMAIN sd.seq : sd.seq[i] = StopSeq[Passed + i]
        /\ \A i \in 1..Passed, t \in services : NameOf[t] = StopSeq[i] /\ IsRunning(t) => Done(t) \in sd.chs
    BY Zenon, <1>1, <2>2 DEF StopOrder
  <2>4. k >= 0 /\ k \in Nat
    <3>1. L \in Nat /\ n \in Nat /\ k >= 0
      BY Zenon, <1>1, <2>1, <2>3
    <3> HIDE DEF L, n
    <3> QED BY <3>1
  <2> QED BY Zenon, <1>1, <2>1, <2>3, <2>4
<1>3. \A s, t \in services : NameOf[s] = NameOf[t] => s = t
  BY SMTT(30), ConstAssumption DEF Requests
<1>4. PICK s \in services :
       /\ IsRunning(s)
       /\ \/ \E i \in DOMAIN sd.seq :
               /\ FirstStoppable(sd.seq, i) /\ sd.seq[i] = NameOf[s]
               /\ StopOne(s, SubSeq(sd.seq, i + 1, Len(sd.seq)))
          \/ /\ \A i \in DOMAIN sd.seq : ~Stoppable(sd.seq[i])
             /\ StopOne(s, <<>>)
  BY Zenon DEF StopSequential
<1> HIDE DEF L, n, k
<1>5. CASE \E i \in DOMAIN sd.seq :
               /\ FirstStoppable(sd.seq, i) /\ sd.seq[i] = NameOf[s]
               /\ StopOne(s, SubSeq(sd.seq, i + 1, Len(sd.seq)))
  <2>1. PICK m \in 1..n : /\ FirstStoppable(sd.seq, m) /\ sd.seq[m] = NameOf[s]
                          /\ StopOne(s, SubSeq(sd.seq, m + 1, n))
    BY Zenon, <1>1, <1>5 DEF n
  <2>2. /\ sd'.chs = {Done(s)} /\ sd'.pc = "wait" /\ sd'.seq = SubSeq(sd.seq, m + 1, n)
    BY Zenon, <1>1, <2>1 DEF StopOne, ShutdownState
  <2>3. /\ Len(sd'.seq) = n - m /\ DOMAIN sd'.seq = 1..(n - m)
        /\ \A j \in 1..(n - m) : sd'.seq[j] = sd.seq[m + j]
    <3>1. sd'.seq \in Seq(Name) /\ Len(sd'.seq) = n - m
          /\ \A j \in 1..(n - m) : sd'.seq[j] = sd.seq[m + j]
      <4>1. m \in DOMAIN sd.seq /\ sd'.seq = SubSeq(sd.seq, m + 1, Len(sd.seq))
        BY Zenon, <1>1, <2>2 DEF n
      <4>2. /\ sd'.seq \in Seq(Name) /\ Len(sd'.seq) = Len(sd.seq) - m
            /\ \A j \in 1..(Len(sd.seq) - m) : sd'.seq[j] = sd.seq[m + j]
        BY <1>1, <4>1, DropPrefix
      <4> QED BY Zenon, <4>2 DEF n
    <3> QED BY <3>1
  <2>4. Passed' = k + m
    BY <1>1, <2>3 DEF Passed, k, L, StopSeq
  <2>5. \A i \in 1..(m - 1), t \in services : NameOf[t] = StopSeq[k + i] => ~IsRunning(t)
    <3>1. \A i \in 1..(m - 1) : i \in 1..n /\ sd.seq[i] = StopSeq[k + i]
      BY <1>1, <1>2
    <3>2. \A i \in 1..(m - 1) : ~Stoppable(sd.seq[i])
      BY Zenon, <2>1 DEF FirstStoppable
    <3> QED BY Zenon, <3>1, <3>2 DEF Stoppable
  <2>6. \A i \in 1..(k + m - 1), t \in services : NameOf[t] = StopSeq[i] => ~IsRunning(t)
    <3>1. ASSUME NEW i \in 1..(k + m - 1), i > k PROVE i - k \in 1..(m - 1) /\ k + (i - k) = i
      BY <1>2, <3>1
    <3> QED BY <1>2, <2>5, <3>1
  <2>7. StopSeq[k + m] = NameOf[s]
    BY Zenon, <1>2, <2>1
  <2>8. \A i \in 1..(k + m), t \in services : NameOf[t] = StopSeq[i] /\ IsRunning(t) => t = s
    <3>1. \A i \in 1..(k + m) : i = k + m \/ i \in 1..(k + m - 1)
      BY <1>2
    <3> QED BY Zenon, <1>3, <2>6, <2>7, <3>1
  <2>9. ASSUME NEW i \in 1..L, NEW j \in 1..L, NEW t \in services,
               StopSeq[j] = NameOf[s], i < j, StopSeq[i] = NameOf[t]
        PROVE  ~IsRunning(t)
    <3>1. k + m \in 1..L
      BY <1>1, <1>2 DEF k
    <3>2. j = k + m
      BY Zenon, <1>1, <2>7, <2>9, <3>1, StopSeqOnce
    <3>3. i \in 1..(k + m - 1)
      BY <1>1, <1>2, <2>9, <3>2
    <3> QED BY Zenon, <2>6, <2>9, <3>3
  <2>10. \A i \in 1..(n - m) : sd'.seq[i] = StopSeq[Passed' + i]
    <3>1. ASSUME NEW i \in 1..(n - m) PROVE m + i \in 1..n /\ k + (m + i) = (k + m) + i
      BY <1>1, <1>2
    <3> QED BY <1>2, <2>3, <2>4, <3>1
  <2>11. Len(sd'.seq) <= Len(sd.seq)
    BY <1>1, <2>3 DEF n
  <2>12. \A i \in 1..Passed', t \in services : NameOf[t] = StopSeq[i] /\ IsRunning(t) => t = s
    BY Zenon, <2>4, <2>8
  <2>13. \A i \in DOMAIN sd'.seq : sd'.seq[i] = StopSeq[Passed' + i]
    BY Zenon, <2>3, <2>10
  <2>14. \A i, j \in DOMAIN StopSeq, t \in services :
           StopSeq[j] = NameOf[s] /\ i < j /\ StopSeq[i] = NameOf[t] => ~IsRunning(t)
    BY Zenon, <1>1, <2>9
  <2> QED BY Zenon, <1>4, <2>2, <2>11, <2>12, <2>13, <2>14
<1>6. CASE (\A i \in DOMAIN sd.seq : ~Stoppable(sd.seq[i])) /\ StopOne(s, <<>>)
  <2>1. /\ sd'.chs = {Done(s)} /\ sd'.pc = "wait" /\ sd'.seq = <<>>
    BY Zenon, <1>1, <1>6 DEF StopOne, ShutdownState
  <2>2. Len(sd'.seq) = 0 /\ DOMAIN sd'.seq = {} /\ Passed' = L
    BY <1>1, <2>1 DEF Passed, L, StopSeq
  <2>3. ASSUME NEW i \in 1..L, NEW t \in services, NameOf[t] = StopSeq[i] PROVE ~IsRunning(t)
    <3>1. CASE i > k
      <4>1. i - k \in 1..n /\ k + (i - k) = i
        BY <1>1, <1>2, <3>1 DEF k
      <4>2. NameOf[t] = sd.seq[i - k] /\ i - k \in DOMAIN sd.seq
        BY <1>1, <1>2, <2>3, <4>1
      <4> QED BY ZenonT(30), <1>6, <4>2 DEF Stoppable
    <3>2. CASE i <= k
      BY <1>2, <2>3, <3>2
    <3> QED BY <1>2, <3>1, <3>2
  <2> QED BY <1>1, <1>4, <2>1, <2>2, <2>3 DEF n
<1> QED BY Zenon, <1>4, <1>5, <1>6

(* The order survives a step that leaves stopAll alone, starts nothing and *)
(* takes d.mu only before the shutdown.                                    *)
LEMMA OrderFrame ==
  ASSUME StopOrder, UNCHANGED <<pid, services, sd>>,
         mu' = mu \/ mu' = None \/ sd.pc \notin {"stop", "wait"}
  PROVE  StopOrder'
BY ZenonT(30) DEF StopOrder, Passed, IsRunning, StopSeq

(* ... and the CAS of initiateShutdown.                                    *)
LEMMA OrderInitiate ==
  ASSUME TypeOK, ShutdownPhases, StopOrder, NEW code, InitiateShutdown(code)
  PROVE  StopOrder'
<1>1. sd.pc = "off" /\ sd'.pc = "store" /\ sd'.chs = sd.chs
  BY Zenon DEF InitiateShutdown, ShutdownPhases, TypeOK, ShutdownState
<1> QED BY Zenon, <1>1 DEF StopOrder

(* stopAll goes through the order name by name, and no start can bring a   *)
(* service back behind it.                                                 *)
LEMMA OrderStep ==
  ASSUME TypeOK, IInv, Requests, StopOrder, [Next]_vars
  PROVE  StopOrder'
<1> USE DEF IInv
<1>1. CASE UNCHANGED vars
  BY Zenon, <1>1, OrderFrame DEF vars
<1>2. ASSUME NEW p \in Pid, ProcExit(p) \/ Reparent(p) \/ Wait4(p) PROVE StopOrder'
  BY Zenon, <1>2, OrderFrame DEF ProcExit, Reparent, Wait4
<1>3. CASE HandleCheckFailure \/ \E s \in Svc : RestartFn(s)
  BY Zenon, <1>3, OrderFrame DEF HandleCheckFailure, RestartFn
<1>4. ASSUME NEW g \in Gor, NEW s \in Svc, StartFn(g, s) \/ StopFn(g, s) PROVE StopOrder'
  BY Zenon, <1>4, OrderFrame DEF StartFn, StopFn
<1>5. ASSUME NEW g \in Gor,
             \/ Dispatch(g) \/ HandleRestartReq(g) \/ RestartGivenUp(g) \/ StartSkipped(g)
             \/ Stopper(g) \/ StartError(g)
      PROVE  StopOrder'
  BY Zenon, <1>5, OrderFrame DEF Dispatch, HandleRestartReq, RestartGivenUp, StartSkipped, StartError,
                          Stopper, StopFnStop, StopFnReply, StopFnGiveUp
<1>6. ASSUME NEW g \in Gor, RestartFailed(g) PROVE StopOrder'
  BY Zenon, <1>6, OrderInitiate DEF RestartFailed
<1>7. ASSUME NEW g \in Gor, StartCheck(g) PROVE StopOrder'
  <2>1. UNCHANGED mu \/ ~shuttingDown
    BY Zenon, <1>7 DEF StartCheck, StartRefused
  <2> QED BY Zenon, <1>7, <2>1, OrderFrame DEF StartCheck, ShutdownPhases
<1>8. ASSUME NEW g \in Gor, NEW p \in Pid, Fork(g, p) PROVE StopOrder'
  <2>1. mu = g /\ g # None /\ UNCHANGED <<services, sd>> /\ mu' = None
    BY Zenon, <1>8, ConstAssumption DEF Fork, Locking
  <2>2. sd.pc # "wait"
    BY Zenon, <2>1 DEF ShutdownPhases
  <2>3. ShutdownMode # "simultaneous" /\ sd.pc = "stop" => ~(Passed > 0) /\ Passed \in Int
    BY <2>1, StopSeqType DEF StopOrder, Passed, TypeOK, ShutdownState
  <2>4. Passed' = Passed
    BY Zenon, <2>1 DEF Passed, StopSeq
  <2> QED BY <2>1, <2>2, <2>3, <2>4 DEF StopOrder, StopSeq
<1>9. CASE SigShutdown
  BY Zenon, <1>9, OrderInitiate DEF SigShutdown
<1>10. ASSUME NEW c \in Code, Trigger(c) PROVE StopOrder'
  <2>1. CASE InitiateShutdown(c) BY Zenon, <2>1, OrderInitiate
  <2>2. CASE UNCHANGED <<shuttingDown, sd>> BY Zenon, <1>10, <2>2, OrderFrame DEF Trigger
  <2> QED BY Zenon, <1>10, <2>1, <2>2 DEF Trigger
<1>11. CASE StoreExitCode
  <2>1. sd.chs = {} /\ sd'.pc = "stop" /\ sd'.seq = StopSeq /\ sd'.chs = {}
    BY Zenon, <1>11 DEF StoreExitCode, StopOrder, TypeOK, ShutdownState
  <2>2. Passed' = 0
    BY <2>1, StopSeqType DEF Passed, StopSeq
  <2>3. \A i \in DOMAIN StopSeq : StopSeq[i] = StopSeq[0 + i]
    BY StopSeqType
  <2> QED BY <2>1, <2>2, <2>3 DEF StopOrder
<1>12. CASE StopAll
  <2>1. sd.pc = "stop" /\ mu = None /\ UNCHANGED <<services, mu, pid>>
    BY Zenon, <1>12 DEF StopAll
  <2>2. CASE ~StopSequential
    <3>1. sd'.pc = "done" \/ (sd'.pc = "wait" /\ ShutdownMode = "simultaneous")
      BY Zenon, <1>12, <2>2 DEF StopAll, StopSimultaneous, TypeOK, ShutdownState
    <3> QED BY Zenon, <3>1 DEF StopOrder
  <2>3. CASE StopSequential
    <3>1. PICK s \in services :
           /\ IsRunning(s) /\ sd'.chs = {Done(s)} /\ sd'.pc = "wait"
           /\ Len(sd'.seq) <= Len(sd.seq)
           /\ \A i \in DOMAIN sd'.seq : sd'.seq[i] = StopSeq[Passed' + i]
           /\ \A i \in 1..Passed', t \in services : NameOf[t] = StopSeq[i] /\ IsRunning(t) => t = s
      BY Zenon, <2>1, <2>3, StopSequentialOrder
    <3>2. Passed' >= 0
      <4>1. Passed >= 0 /\ ShutdownMode # "simultaneous"
        BY Zenon, <2>1, <2>3 DEF StopOrder, StopSequential
      <4>2. Len(StopSeq) \in Nat /\ Len(sd.seq) \in Nat /\ Len(sd'.seq) \in Nat
        BY StopSeqType, TypeStep DEF TypeOK, ShutdownState
      <4> QED BY <3>1, <4>1, <4>2 DEF Passed, StopSeq
    <3>3. \A i \in 1..Passed', t \in services' :
            NameOf[t] = StopSeq[i] /\ pid'[t] # None => pid'[t] \in sd'.chs
      BY Zenon, <2>1, <3>1
    <3> QED BY Zenon, <2>1, <3>1, <3>2, <3>3 DEF StopOrder, StopSeq
  <2> QED BY Zenon, <2>2, <2>3
<1>13. CASE StopAllWait
  <2>1. /\ sd.pc = "wait" /\ sd.chs = {} /\ UNCHANGED <<services, mu, pid>>
        /\ sd'.pc = IF ShutdownMode = "simultaneous" THEN "done" ELSE "stop"
        /\ sd'.chs = {} /\ sd'.seq = sd.seq
    BY Zenon, <1>13 DEF StopAllWait, TypeOK, ShutdownState
  <2> QED BY Zenon, <2>1 DEF StopOrder, Passed, StopSeq
<1>14. CASE EChild \/ EChildNext \/ Wake \/ ReapUnmanaged \/ UnmanagedNext \/ PreStore \/ TearDown
  BY Zenon, <1>14, OrderFrame DEF EChild, EChildNext, Wake, ReapUnmanaged, UnmanagedNext, PreStore, TearDown
<1>15. ASSUME NEW s \in Svc, ReapManaged(s) PROVE StopOrder'
  <2>1. /\ reap.pid \in Pid /\ pid[s] = reap.pid
        /\ pid' = [pid EXCEPT ![s] = None] /\ UNCHANGED <<services, mu>>
    BY Zenon, <1>15 DEF ReapManaged, Tracking
  <2>2. sd'.pc = sd.pc /\ sd'.chs = sd.chs \ {pid[s]} /\ sd'.seq = sd.seq
    BY SMTT(30), <1>15 DEF ReapManaged, TypeOK, ShutdownState
  <2>3. \A t \in Svc : pid'[t] # None => pid'[t] = pid[t] /\ pid[t] # pid[s]
    <3>1. pid'[s] = None /\ \A t \in Svc : t # s => pid'[t] = pid[t]
      BY Zenon, <2>1 DEF TypeOK
    <3>2. \A t \in Svc : pid[t] = reap.pid => t = s
      BY <2>1 DEF Tracking
    <3> QED BY Zenon, <2>1, <3>1, <3>2
  <2>4. services \subseteq Svc
    BY Zenon DEF TypeOK
  <2>5. Passed' = Passed
    BY Zenon, <2>2 DEF Passed, StopSeq
  <2>6. \A i \in 1..Passed, t \in services :
          (NameOf[t] = StopSeq[i] /\ pid[t] # None => pid[t] \in sd.chs)
            => (NameOf[t] = StopSeq[i] /\ pid'[t] # None => pid'[t] \in sd'.chs)
    BY Zenon, <2>2, <2>3, <2>4
  <2> QED BY <2>1, <2>2, <2>5, <2>6 DEF StopOrder, StopSeq
<1> QED
  BY Zenon, <1>1, <1>2, <1>3, <1>4, <1>5, <1>6, <1>7, <1>8, <1>9, <1>10, <1>11, <1>12, <1>13, <1>14, <1>15
     DEF Next, Step, Environment, Goroutines, Handler, StartService, Shutdown, ReapLoop

-----------------------------------------------------------------------------
(* The theorems                                                            *)

(* The inductive invariant holds in every reachable state: what the reap   *)
(* loop, the start path, the restart requests and stopAll rely on of each  *)
(* other.                                                                  *)
THEOREM Invariance == Spec => [](TypeOK /\ IInv)
<1>1. Init => IInv
  <2> SUFFICES ASSUME Init PROVE IInv BY Zenon
  <2>1. Tracking
    <3>1. \A p \in Pid, s \in Svc : pidMap[p] = s <=> pid[s] = p
      BY Zenon DEF Init
    <3>2. \A p \in Pid : pidMap[p] # None => proc[p] # "free"
      BY Zenon DEF Init
    <3>3. reap.pc # "got" /\ \A s \in Svc : IsRunning(s) => s \in services
      BY Zenon DEF Init, IsRunning
    <3> QED BY Zenon, <3>1, <3>2, <3>3 DEF Tracking, FreePid
  <2>2. Locking
    <3>1. mu = None /\ \A g \in Gor : gor[g].pc = "free"
      BY Zenon DEF Init, Idle
    <3>2. None \notin Gor
      BY ConstAssumption
    <3> QED BY Zenon, <3>1, <3>2 DEF Locking
  <2>3. ShutdownPhases
    <3>1. ~shuttingDown /\ sd.pc = "off" /\ reap.pc = "wait4"
      BY Zenon DEF Init
    <3> QED BY Zenon, <3>1 DEF ShutdownPhases, LoopLeft
  <2>4. AwaitedRunsAreTracked
    BY Zenon DEF Init, AwaitedRunsAreTracked, Idle
  <2>5. RestartMarkHasItsExit /\ NoSendOnClosedChannel
    BY Zenon DEF Init, RestartMarkHasItsExit, NoSendOnClosedChannel, RestartChClosed
  <2> QED BY Zenon, <2>1, <2>2, <2>3, <2>4, <2>5 DEF IInv
<1>2. TypeOK /\ IInv /\ [Next]_vars => IInv'
  BY Zenon, TrackingStep, LockingStep, PhasesStep, AwaitedStep, MarksStep, NoSendStep DEF IInv
<1> QED BY <1>1, <1>2, TypeCorrect, PTL DEF Spec

(* pidMap and the services' runs agree: startService never forks over a    *)
(* live run and the reap loop never loses one, however many commands,      *)
(* restarts and check failures are in flight.                              *)
THEOREM SingleRun == Spec => []OneRunPerService
<1>1. TypeOK /\ IInv => OneRunPerService
  BY DEF IInv, Tracking, OneRunPerService, TypeOK
<1> QED BY <1>1, Invariance, PTL

(* No restart handler, stop client or stopAll waits on a done channel of a *)
(* run that is no longer in pidMap.                                        *)
THEOREM NoLostWait == Spec => []AwaitedRunsAreTracked
<1>1. IInv => AwaitedRunsAreTracked
  BY Zenon DEF IInv
<1> QED BY <1>1, Invariance, PTL

(* takeRestartPending never swallows the metric of an exit that nobody     *)
(* asked for.                                                              *)
THEOREM MarksAreConsumed == Spec => []RestartMarkHasItsExit
<1>1. IInv => RestartMarkHasItsExit
  BY Zenon DEF IInv
<1> QED BY <1>1, Invariance, PTL

(* run() closes restartCh only after the last sender: PID 1 does not panic *)
(* on the way out.                                                         *)
THEOREM NoPanicOnClose == Spec => []NoSendOnClosedChannel
<1>1. IInv => NoSendOnClosedChannel
  BY Zenon DEF IInv
<1> QED BY <1>1, Invariance, PTL

(* When run() goes past its wait for stopAll, no service is running, even  *)
(* though starts race with the shutdown.                                   *)
THEOREM NothingLeftRunning == Spec => []NoServiceOutlivesDaemon
<1>1. TypeOK /\ IInv => NoServiceOutlivesDaemon
  <2> SUFFICES ASSUME TypeOK, IInv, reap.pc \in {"ctrl", "senders", "closed", "exited"}, NEW p \in Pid
               PROVE  pidMap[p] = None
    BY Zenon DEF NoServiceOutlivesDaemon
  <2>1. \A s \in Svc : pid[s] = None
    BY Zenon DEF IInv, ShutdownPhases, LoopLeft
  <2>2. pidMap[p] \in Svc => pid[pidMap[p]] = p
    BY Zenon DEF IInv, Tracking
  <2>3. pidMap[p] \in Svc \cup {None} BY Zenon DEF TypeOK
  <2> QED BY Zenon, <2>1, <2>2, <2>3, ConstAssumption
<1> QED BY <1>1, Invariance, PTL

(* Between the end of a run and its restart the request is never lost, and *)
(* stopAll never has a running service behind it.                          *)
THEOREM RequestsAndOrder == Spec => [](Requests /\ UpIsAccountedFor /\ StopOrder)
<1>1. Init => Requests /\ UpIsAccountedFor /\ StopOrder
  <2> SUFFICES ASSUME Init PROVE Requests /\ UpIsAccountedFor /\ StopOrder
    BY Zenon
  <2>1. Requests
    <3>1. services = Loaded /\ restartPending = {} /\ \A g \in Gor : gor[g].restart = FALSE
      BY Zenon DEF Init, Idle
    <3> QED BY Zenon, <3>1 DEF Requests
  <2>2. UpIsAccountedFor
    <3>1. up = {NameOf[s] : s \in {t \in Svc : pid[t] # None}}
      BY Zenon DEF Init
    <3> QED BY Zenon, <3>1 DEF UpIsAccountedFor, IsRunning
  <2>3. StopOrder
    BY Zenon DEF Init, StopOrder
  <2> QED BY Zenon, <2>1, <2>2, <2>3
<1>2. TypeOK /\ IInv /\ Requests /\ UpIsAccountedFor /\ StopOrder /\ [Next]_vars
        => (Requests /\ UpIsAccountedFor /\ StopOrder)'
  BY Zenon, RequestsStep, UpStep, OrderStep
<1> QED BY <1>1, <1>2, Invariance, PTL DEF Spec

(* ServiceStarted and ServiceExited keep the up metric of every service    *)
(* true through starts, exits, restarts, refused restarts and shutdown.    *)
THEOREM UpMetricIsTrue == Spec => []UpIsAccountedFor
BY RequestsAndOrder, PTL

(* stopSequential never signals a service while one that comes before it   *)
(* in the shutdown order is still running, whatever starts and restarts    *)
(* were in flight when the shutdown began.                                 *)
THEOREM DependentsStopFirst == Spec => StopOrderRespected
<1> DEFINE Ordered == \A s, t \in services, i, j \in DOMAIN StopSeq :
       /\ sd.pc = "stop" /\ sd'.pc = "wait" /\ ShutdownMode # "simultaneous"
       /\ Done(s) \in sd'.chs /\ StopSeq[j] = NameOf[s]
       /\ StopSeq[i] = NameOf[t] /\ i < j
       => ~IsRunning(t)
<1>1. ASSUME TypeOK, IInv, Requests, StopOrder, [Next]_vars PROVE [Ordered]_vars
  <2>1. SUFFICES ASSUME NEW s \in services, NEW t \in services,
                        NEW i \in DOMAIN StopSeq, NEW j \in DOMAIN StopSeq,
                        sd.pc = "stop", sd'.pc = "wait", ShutdownMode # "simultaneous",
                        Done(s) \in sd'.chs, StopSeq[j] = NameOf[s], StopSeq[i] = NameOf[t], i < j
                 PROVE  ~IsRunning(t)
    BY Zenon
  <2>2. StopAll
    <3>1. \/ sd' = sd \/ StopAll \/ StopAllWait \/ StoreExitCode
          \/ \E code \in Code : InitiateShutdown(code)
          \/ \E u \in Svc : ReapManaged(u)
      <4>1. ASSUME NEW g \in Gor, Goroutines(g) PROVE sd' = sd \/ \E code \in Code : InitiateShutdown(code)
        <5>1. CASE Dispatch(g) \/ HandleRestartReq(g) \/ RestartGivenUp(g) \/ Stopper(g)
          BY Zenon, <5>1 DEF Dispatch, HandleRestartReq, RestartGivenUp, Stopper, StopFnStop, StopFnReply, StopFnGiveUp
        <5>2. CASE RestartFailed(g)
          BY Zenon, <5>2, ConstAssumption DEF RestartFailed
        <5>3. CASE StartService(g)
          BY Zenon, <5>3 DEF StartService, StartSkipped, StartError, StartCheck, Fork
        <5> QED BY Zenon, <4>1, <5>1, <5>2, <5>3 DEF Goroutines, Handler
      <4>2. ASSUME Environment PROVE sd' = sd \/ \E code \in Code : InitiateShutdown(code)
        BY ZenonT(30), <4>2, ConstAssumption DEF Environment, ProcExit, Reparent, SigShutdown, StartFn, StopFn,
             RestartFn, HandleCheckFailure
      <4>3. ASSUME ReapLoop PROVE sd' = sd \/ \E u \in Svc : ReapManaged(u)
        BY Zenon, <4>3 DEF ReapLoop, Wait4, EChild, EChildNext, Wake, ReapUnmanaged, UnmanagedNext, PreStore, TearDown
      <4>4. ASSUME NEW c \in Code, Trigger(c) PROVE sd' = sd \/ \E code \in Code : InitiateShutdown(code)
        BY Zenon, <4>4 DEF Trigger
      <4> QED BY Zenon, <1>1, <4>1, <4>2, <4>3, <4>4 DEF Next, Step, Shutdown, vars
    <3>2. sd \in ShutdownState
      BY Zenon, <1>1 DEF TypeOK
    <3> QED BY ZenonT(30), <2>1, <3>1, <3>2 DEF StopAllWait, StoreExitCode, InitiateShutdown, ReapManaged, ShutdownState
  <2>3. StopSequential
    BY Zenon, <1>1, <2>1, <2>2 DEF StopAll, StopSimultaneous, TypeOK, ShutdownState
  <2>4. PICK u \in services :
           /\ IsRunning(u) /\ sd'.chs = {Done(u)}
           /\ \A m, k \in DOMAIN StopSeq, v \in services :
                StopSeq[k] = NameOf[u] /\ m < k /\ StopSeq[m] = NameOf[v] => ~IsRunning(v)
    BY Zenon, <1>1, <2>1, <2>3, StopSequentialOrder
  <2>5. s = u
    <3>1. s \in Svc /\ u \in Svc /\ pid[u] \in Pid
      BY Zenon, <1>1, <2>4 DEF TypeOK, IsRunning
    <3>2. pid[s] = pid[u]
      BY Zenon, <2>1, <2>4 DEF Done
    <3>3. \A p \in Pid, x \in Svc : pidMap[p] = x <=> pid[x] = p
      BY Zenon, <1>1 DEF IInv, Tracking
    <3>4. pidMap[pid[u]] = u
      BY Zenon, <3>1, <3>3
    <3>5. pidMap[pid[u]] = s
      BY Zenon, <3>1, <3>2, <3>3
    <3> QED BY Zenon, <3>4, <3>5
  <2> QED BY Zenon, <2>1, <2>4, <2>5
<1> QED BY <1>1, Invariance, RequestsAndOrder, PTL DEF Spec, StopOrderRespected

=============================================================================
