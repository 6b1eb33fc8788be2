-------------------------- MODULE HealthCheckProofs --------------------------
(***************************************************************************)
(* For every set of checkers, gates and pids: a probe's verdict is the one *)
(* of its own process, the reap loop does not sleep over a registered      *)
(* probe, and a checker's alarms are edges.                                *)
(*                                                                         *)
(* The first two rest on who holds a pid: it is one prober's from the fork *)
(* to the return of the probe, and while it is registered its status is in *)
(* the kernel, in the reap loop's hand or in the channel, never in two of  *)
(* these (OneHolder, StatusIsOwn, RegisteredIsPending).                    *)
(***************************************************************************)
EXTENDS HealthCheck, TLAPS

Registered == {"wake", "wait", "killed"}
Holding == Registered \cup {"direct", "canceled"}

(* A prober holds a pid from the fork to the return, and no other does.    *)
OneHolder ==
  /\ \A q \in Prober : pc[q] \in Holding <=> probe[q] # None
  /\ \A q, r \in Prober : probe[q] # None /\ probe[q] = probe[r] => q = r

(* The reap loop holds a pid between Wait4 and Deliver: reaped, not reused.*)
LoopHolds ==
  /\ loop = "got" => got.pid \in Pid /\ child[got.pid] = "free"
  /\ loop # "got" => got.pid = None

(* Wherever the status of a probe is, it is how that probe ended.          *)
StatusIsOwn ==
  \A q \in Prober : probe[q] # None =>
    /\ child[probe[q]] = "zombie" => outcome[q] = code[probe[q]]
    /\ got.pid = probe[q] => outcome[q] = got.code
    /\ pc[q] \in Registered /\ chan[probe[q]] # None =>
         child[probe[q]] = "free" /\ outcome[q] = chan[probe[q]]

(* A registered pid has a prober, and is still to be reaped or delivered.  *)
RegisteredIsPending ==
  \A p \in waiters :
    /\ \E q \in Prober : probe[q] = p /\ pc[q] \in Registered
    /\ child[p] # "free" \/ got.pid = p

(* The checkers start once the registry is active, so they use it.         *)
CheckersAreLate ==
  /\ loop # "boot" => active
  /\ \A c \in Checker :
       /\ loop \in {"boot", "active"} => pc[c] = "off"
       /\ pc[c] \notin {"run", "direct", "canceled"}

(* The edge of a checker: who raised an alarm is unhealthy until a probe   *)
(* passes, and who raises one after Stop does so once.                     *)
Edges ==
  \A c \in Checker :
    /\ alarmed[c] => ~healthy[c]
    /\ pc[c] \in {"call", "handler"} => ~healthy[c] /\ ~alarmed[c]
    /\ pc[c] = "handler" => late[c] = 0
    /\ late[c] # 0 => stopped[c]

Inv ==
  /\ TypeOK /\ OneHolder /\ LoopHolds /\ StatusIsOwn /\ RegisteredIsPending
  /\ CheckersAreLate /\ Edges /\ VerdictIsTrue /\ IdleLoopIsWoken

(* The variables keep their types.                                         *)
LEMMA TypeKept ==
  ASSUME TypeOK, [Next]_vars
  PROVE  TypeOK'
<1> USE HealthAssumption DEF TypeOK, Prober, Status, Nothing, Pc
<1>1. ASSUME NEW q \in Prober, CheckExec(q) \/ Wake(q) \/ Tick(q) PROVE TypeOK'
  <2>1. CASE CheckExec(q)
    BY <2>1 DEF CheckExec, kernel, checker, registry, reaper, past, Goto
  <2>2. CASE Wake(q)
    BY <2>2 DEF Wake, kernel, checker, registry, reaper, past, Goto
  <2>3. CASE Tick(q)
    BY <2>3 DEF Tick, kernel, checker, registry, reaper, past, Goto
  <2> QED BY Zenon, <1>1, <2>1, <2>2, <2>3
<1>2. ASSUME NEW q \in Prober, StartError(q) PROVE TypeOK'
  BY Zenon, <1>2 DEF StartError, kernel, checker, registry, reaper, past, Goto
<1>3. ASSUME NEW q \in Prober, Receive(q) \/ GiveUp(q) PROVE TypeOK'
  <2>1. ASSUME NEW v \in {"pass", "fail", "lost"}, Return(q, v)
        PROVE /\ verdict' \in [Prober -> {"none", "pass", "fail", "lost"}]
              /\ waiters' \subseteq Pid /\ chan' \in [Pid -> Status \cup {None}]
              /\ probe' \in [Prober -> Pid \cup {None}] /\ pc' \in [Prober -> Pc]
    BY Zenon, <2>1 DEF Return, Forget, Goto
  <2>2. \E v \in {"pass", "fail", "lost"} : Return(q, v)
    BY Zenon, <1>3 DEF Receive, GiveUp, PassOrFail
  <2>3. UNCHANGED <<kernel, checker, active, reaper, token, past>>
    BY Zenon, <1>3 DEF Receive, GiveUp
  <2>4. /\ verdict' \in [Prober -> {"none", "pass", "fail", "lost"}]
        /\ waiters' \subseteq Pid /\ chan' \in [Pid -> Status \cup {None}]
        /\ probe' \in [Prober -> Pid \cup {None}] /\ pc' \in [Prober -> Pc]
    BY Zenon, <2>1, <2>2
  <2> QED
    BY Zenon, <2>3, <2>4 DEF kernel, checker, reaper, past
<1>4. ASSUME NEW q \in Prober, Deadline(q) \/ Cancel(q) PROVE TypeOK'
  BY <1>4 DEF Deadline, Cancel, Kill, Ends, kernel, checker, registry, reaper, past, Goto
<1>5. ASSUME NEW q \in Prober, RunReturn(q) PROVE TypeOK'
  BY <1>5 DEF RunReturn, Reap, PassOrFail, Stolen, kernel, checker, registry, reaper, past, Goto
<1>6. ASSUME NEW q \in Prober, NEW p \in Pid, Start(q, p) \/ Run(q, p) PROVE TypeOK'
  BY <1>6 DEF Start, Run, Spawn, FreePid, kernel, checker, registry, reaper, past, Goto
<1>7. ASSUME NEW p \in Pid, Exit(p) PROVE TypeOK'
  BY <1>7 DEF Exit, Ends, kernel, checker, registry, reaper, past, Goto
<1>8. ASSUME NEW c \in Checker, Observe(c) PROVE TypeOK'
  <2> DEFINE f == Bump(failures[c])
  <2>1. f \in 0..Threshold
    BY DEF Bump
  <2>2. failures' \in [Checker -> 0..Threshold] /\ healthy' \in [Checker -> BOOLEAN]
    <3>1. CASE verdict[c] = "lost" /\ UNCHANGED <<failures, healthy>>
      BY Zenon, <3>1
    <3>2. CASE failures' = [failures EXCEPT ![c] = f] /\ \E b \in BOOLEAN : healthy' = [healthy EXCEPT ![c] = b]
      BY <2>1, <3>2
    <3>3. CASE failures' = [failures EXCEPT ![c] = 0] /\ healthy' = [healthy EXCEPT ![c] = TRUE]
      BY <3>3
    <3> QED
      BY Zenon, <1>8, <3>1, <3>2, <3>3 DEF Observe, Crossed
  <2>3. alarmed' \in [Checker -> BOOLEAN]
    BY Zenon, <1>8 DEF Observe
  <2> QED
    BY Zenon, <1>8, <2>2, <2>3 DEF Observe, Settled, kernel, checker, registry, reaper, past, Goto
<1>9. ASSUME NEW c \in Checker, Call(c) \/ HandleCheckFailure(c) \/ Leave(c) PROVE TypeOK'
  <2>1. CASE Call(c)
    BY Zenon, <2>1 DEF Call, MayCall, kernel, checker, registry, reaper, past, Goto
  <2>2. CASE HandleCheckFailure(c)
    BY <2>2 DEF HandleCheckFailure, kernel, checker, registry, reaper, past, Goto
  <2>3. CASE Leave(c)
    BY Zenon, <2>3 DEF Leave, StopSeen, kernel, checker, registry, reaper, past, Goto
  <2> QED
    BY Zenon, <1>9, <2>1, <2>2, <2>3
<1>10. ASSUME NEW q \in Gate, ObserveGate(q) \/ LeaveGate(q) PROVE TypeOK'
  BY <1>10 DEF ObserveGate, LeaveGate, Settled, kernel, checker, registry, reaper, past, Goto
<1>11. CASE Activate \/ StopChecks \/ EChild \/ WakeUp
  <2>1. CASE Activate
    BY <2>1 DEF Activate, kernel, checker, registry, reaper, past, Goto
  <2>2. CASE StopChecks
    BY <2>2 DEF StopChecks, kernel, checker, registry, reaper, past, Goto
  <2>3. CASE EChild
    BY <2>3 DEF EChild, kernel, checker, registry, reaper, past, Goto
  <2>4. CASE WakeUp
    BY Zenon, <2>4 DEF WakeUp, kernel, checker, registry, reaper, past, Goto
  <2> QED BY Zenon, <1>11, <2>1, <2>2, <2>3, <2>4
<1>12. CASE StartChecks
  BY Zenon, <1>12 DEF StartChecks, kernel, checker, registry, reaper, past, Goto
<1>13. CASE Deliver
  BY Zenon, <1>13 DEF Deliver, Nothing, kernel, checker, registry, reaper, past, Goto
<1>14. ASSUME NEW p \in Pid, Wait4(p) PROVE TypeOK'
  BY Zenon, <1>14 DEF Wait4, Reap, kernel, checker, registry, reaper, past, Goto
<1>15. CASE UNCHANGED vars
  BY Zenon, <1>15 DEF vars, kernel, checker, registry, reaper, past, Goto
<1> QED
  BY Zenon, <1>1, <1>2, <1>3, <1>4, <1>5, <1>6, <1>7, <1>8, <1>9, <1>10, <1>11, <1>12, <1>13, <1>14,
     <1>15
     DEF Next, Execute, React, ReapLoop

(* startChecks runs after Activate, so a checker finds the registry active. *)
LEMMA CheckersAreLateKept ==
  ASSUME TypeOK, CheckersAreLate, [Next]_vars
  PROVE  CheckersAreLate'
<1>0. pc \in [Prober -> Pc]
  BY Zenon DEF TypeOK
<1> USE <1>0, HealthAssumption DEF Prober, CheckersAreLate
<1>1. ASSUME NEW q \in Prober, CheckExec(q) \/ Wake(q) \/ Tick(q) PROVE CheckersAreLate'
  BY <1>1 DEF CheckExec, Wake, Tick, kernel, checker, registry, reaper, past, Goto
<1>2. ASSUME NEW q \in Prober, StartError(q) PROVE CheckersAreLate'
  BY Zenon, <1>2 DEF StartError, kernel, checker, registry, reaper, past, Goto
<1>3. ASSUME NEW q \in Prober, Receive(q) \/ GiveUp(q) PROVE CheckersAreLate'
  BY <1>3 DEF Receive, GiveUp, Return, Forget, PassOrFail, kernel, checker, registry, reaper,
     past, Goto
<1>4. ASSUME NEW q \in Prober, Deadline(q) \/ Cancel(q) PROVE CheckersAreLate'
  BY <1>4 DEF Deadline, Cancel, Kill, Ends, kernel, checker, registry, reaper, past, Goto
<1>5. ASSUME NEW q \in Prober, RunReturn(q) PROVE CheckersAreLate'
  BY Zenon, <1>5 DEF RunReturn, Reap, PassOrFail, Stolen, kernel, checker, registry, reaper, past, Goto
<1>6. ASSUME NEW q \in Prober, NEW p \in Pid, Start(q, p) \/ Run(q, p) PROVE CheckersAreLate'
  BY <1>6 DEF Start, Run, Spawn, FreePid, kernel, checker, registry, reaper, past, Goto
<1>7. ASSUME NEW p \in Pid, Exit(p) PROVE CheckersAreLate'
  BY Zenon, <1>7 DEF Exit, Ends, kernel, checker, registry, reaper, past, Goto
<1>8. ASSUME NEW c \in Checker, Observe(c) PROVE CheckersAreLate'
  BY Zenon, <1>8 DEF Observe, Bump, Crossed, Settled, kernel, checker, registry, reaper, past, Goto
<1>9. ASSUME NEW c \in Checker, Call(c) \/ HandleCheckFailure(c) \/ Leave(c) PROVE CheckersAreLate'
  BY <1>9 DEF Call, HandleCheckFailure, Leave, MayCall, StopSeen, kernel, checker, registry,
     reaper, past, Goto
<1>10. ASSUME NEW q \in Gate, ObserveGate(q) \/ LeaveGate(q) PROVE CheckersAreLate'
  BY <1>10 DEF ObserveGate, LeaveGate, Settled, kernel, checker, registry, reaper, past, Goto
<1>11. CASE Activate \/ StopChecks \/ EChild \/ WakeUp
  BY Zenon, <1>11 DEF Activate, StopChecks, EChild, WakeUp, kernel, checker, registry, reaper, past, Goto
<1>12. CASE StartChecks
  BY Zenon, <1>12 DEF StartChecks, kernel, checker, registry, reaper, past, Goto
<1>13. CASE Deliver
  BY Zenon, <1>13 DEF Deliver, Nothing, kernel, checker, registry, reaper, past, Goto
<1>14. ASSUME NEW p \in Pid, Wait4(p) PROVE CheckersAreLate'
  BY Zenon, <1>14 DEF Wait4, Reap, kernel, checker, registry, reaper, past, Goto
<1>15. CASE UNCHANGED vars
  BY Zenon, <1>15 DEF vars, kernel, checker, registry, reaper, past, Goto
<1> QED
  BY Zenon, <1>1, <1>2, <1>3, <1>4, <1>5, <1>6, <1>7, <1>8, <1>9, <1>10, <1>11, <1>12, <1>13, <1>14,
     <1>15
     DEF Next, Execute, React, ReapLoop

(* fork does not hand out a pid that someone holds, and a probe that       *)
(* returns lets go of its own.                                             *)
LEMMA OneHolderKept ==
  ASSUME TypeOK, CheckersAreLate, OneHolder, [Next]_vars
  PROVE  OneHolder'
<1>0. pc \in [Prober -> Pc] /\ probe \in [Prober -> Pid \cup {None}]
  BY Zenon DEF TypeOK
<1> USE <1>0, HealthAssumption DEF Prober, Registered, Holding, OneHolder
<1>1. ASSUME NEW q \in Prober, CheckExec(q) \/ Wake(q) \/ Tick(q) PROVE OneHolder'
  BY <1>1 DEF CheckExec, Wake, Tick, kernel, checker, registry, reaper, past, Goto
<1>2. ASSUME NEW q \in Prober, StartError(q) PROVE OneHolder'
  BY Zenon, <1>2 DEF StartError, kernel, checker, registry, reaper, past, Goto
<1>3. ASSUME NEW q \in Prober, Receive(q) \/ GiveUp(q) PROVE OneHolder'
  BY <1>3 DEF Receive, GiveUp, Return, Forget, PassOrFail, kernel, checker, registry, reaper,
     past, Goto
<1>4. ASSUME NEW q \in Prober, Deadline(q) \/ Cancel(q) PROVE OneHolder'
  BY <1>4 DEF Deadline, Cancel, Kill, Ends, kernel, checker, registry, reaper, past, Goto
<1>5. ASSUME NEW q \in Prober, RunReturn(q) PROVE OneHolder'
  BY Zenon, <1>5 DEF RunReturn, Reap, PassOrFail, Stolen, kernel, checker, registry, reaper, past, Goto
<1>6. ASSUME NEW q \in Prober, NEW p \in Pid, Start(q, p) \/ Run(q, p) PROVE OneHolder'
  BY <1>6 DEF Start, Run, Spawn, FreePid, kernel, checker, registry, reaper, past, Goto
<1>7. ASSUME NEW p \in Pid, Exit(p) PROVE OneHolder'
  BY Zenon, <1>7 DEF Exit, Ends, kernel, checker, registry, reaper, past, Goto
<1>8. ASSUME NEW c \in Checker, Observe(c) PROVE OneHolder'
  BY Zenon, <1>8 DEF Observe, Bump, Crossed, Settled, kernel, checker, registry, reaper, past, Goto
<1>9. ASSUME NEW c \in Checker, Call(c) \/ HandleCheckFailure(c) \/ Leave(c) PROVE OneHolder'
  BY <1>9 DEF Call, HandleCheckFailure, Leave, MayCall, StopSeen, kernel, checker, registry,
     reaper, past, Goto
<1>10. ASSUME NEW q \in Gate, ObserveGate(q) \/ LeaveGate(q) PROVE OneHolder'
  BY <1>10 DEF ObserveGate, LeaveGate, Settled, kernel, checker, registry, reaper, past, Goto
<1>11. CASE Activate \/ StopChecks \/ EChild \/ WakeUp
  BY Zenon, <1>11 DEF Activate, StopChecks, EChild, WakeUp, kernel, checker, registry, reaper, past, Goto
<1>12. CASE StartChecks
  <2>1. UNCHANGED probe /\ \A q \in Prober : pc'[q] = IF q \in Checker THEN "tick" ELSE pc[q]
    BY Zenon, <1>12 DEF StartChecks
  <2>2. \A q \in Prober : q \in Checker => pc[q] = "off"
    BY Zenon, <1>12 DEF StartChecks, CheckersAreLate
  <2> QED BY Zenon, <2>1, <2>2
<1>13. CASE Deliver
  BY Zenon, <1>13 DEF Deliver, Nothing, kernel, checker, registry, reaper, past, Goto
<1>14. ASSUME NEW p \in Pid, Wait4(p) PROVE OneHolder'
  BY Zenon, <1>14 DEF Wait4, Reap, kernel, checker, registry, reaper, past, Goto
<1>15. CASE UNCHANGED vars
  BY Zenon, <1>15 DEF vars, kernel, checker, registry, reaper, past, Goto
<1> QED
  BY Zenon, <1>1, <1>2, <1>3, <1>4, <1>5, <1>6, <1>7, <1>8, <1>9, <1>10, <1>11, <1>12, <1>13, <1>14,
     <1>15
     DEF Next, Execute, React, ReapLoop

(* Wait4 fills the hand of the reap loop and Deliver empties it.           *)
LEMMA LoopHoldsKept ==
  ASSUME TypeOK, OneHolder, LoopHolds, [Next]_vars
  PROVE  LoopHolds'
<1>0. /\ child \in [Pid -> {"free", "alive", "zombie"}] /\ code \in [Pid -> Status]
      /\ pc \in [Prober -> Pc] /\ probe \in [Prober -> Pid \cup {None}]
      /\ waiters \subseteq Pid /\ chan \in [Pid -> Status \cup {None}]
      /\ outcome \in [Prober -> Status \cup {None}]
  BY Zenon DEF TypeOK
<1> USE <1>0, HealthAssumption DEF Prober, Nothing, Registered, Holding, OneHolder, LoopHolds
<1>1. ASSUME NEW q \in Prober, CheckExec(q) \/ Wake(q) \/ Tick(q) PROVE LoopHolds'
  BY Zenon, <1>1 DEF CheckExec, Wake, Tick, kernel, checker, registry, reaper, past, Goto
<1>2. ASSUME NEW q \in Prober, StartError(q) PROVE LoopHolds'
  BY Zenon, <1>2 DEF StartError, kernel, checker, registry, reaper, past, Goto
<1>3. ASSUME NEW q \in Prober, Receive(q) \/ GiveUp(q) PROVE LoopHolds'
  BY Zenon, <1>3 DEF Receive, GiveUp, Return, Forget, PassOrFail, kernel, checker, registry, reaper,
     past, Goto
<1>4. ASSUME NEW q \in Prober, Deadline(q) \/ Cancel(q) PROVE LoopHolds'
  BY <1>4 DEF Deadline, Cancel, Kill, Ends, kernel, checker, registry, reaper, past, Goto
<1>5. ASSUME NEW q \in Prober, RunReturn(q) PROVE LoopHolds'
  BY <1>5 DEF RunReturn, Reap, PassOrFail, Stolen, kernel, checker, registry, reaper, past, Goto
<1>6. ASSUME NEW q \in Prober, NEW p \in Pid, Start(q, p) \/ Run(q, p) PROVE LoopHolds'
  BY <1>6 DEF Start, Run, Spawn, FreePid, kernel, checker, registry, reaper, past, Goto
<1>7. ASSUME NEW p \in Pid, Exit(p) PROVE LoopHolds'
  BY <1>7 DEF Exit, Ends, kernel, checker, registry, reaper, past, Goto
<1>8. ASSUME NEW c \in Checker, Observe(c) PROVE LoopHolds'
  BY Zenon, <1>8 DEF Observe, Bump, Crossed, Settled, kernel, checker, registry, reaper, past, Goto
<1>9. ASSUME NEW c \in Checker, Call(c) \/ HandleCheckFailure(c) \/ Leave(c) PROVE LoopHolds'
  BY Zenon, <1>9 DEF Call, HandleCheckFailure, Leave, MayCall, StopSeen, kernel, checker, registry,
     reaper, past, Goto
<1>10. ASSUME NEW q \in Gate, ObserveGate(q) \/ LeaveGate(q) PROVE LoopHolds'
  BY Zenon, <1>10 DEF ObserveGate, LeaveGate, Settled, kernel, checker, registry, reaper, past, Goto
<1>11. CASE Activate \/ StopChecks \/ EChild \/ WakeUp
  BY Zenon, <1>11 DEF Activate, StopChecks, EChild, WakeUp, kernel, checker, registry, reaper, past, Goto
<1>12. CASE StartChecks
  BY Zenon, <1>12 DEF StartChecks, kernel, checker, registry, reaper, past, Goto
<1>13. CASE Deliver
  BY Zenon, <1>13 DEF Deliver, Nothing, kernel, checker, registry, reaper, past, Goto
<1>14. ASSUME NEW p \in Pid, Wait4(p) PROVE LoopHolds'
  BY <1>14 DEF Wait4, Reap, kernel, checker, registry, reaper, past, Goto
<1>15. CASE UNCHANGED vars
  BY Zenon, <1>15 DEF vars, kernel, checker, registry, reaper, past, Goto
<1> QED
  BY Zenon, <1>1, <1>2, <1>3, <1>4, <1>5, <1>6, <1>7, <1>8, <1>9, <1>10, <1>11, <1>12, <1>13, <1>14,
     <1>15
     DEF Next, Execute, React, ReapLoop

(* Registry.Start registers what it forks under one lock, Deliver takes out *)
(* what it delivers, and nobody else waits for a registered pid.           *)
LEMMA RegisteredIsPendingKept ==
  ASSUME TypeOK, CheckersAreLate, OneHolder, LoopHolds, RegisteredIsPending, [Next]_vars
  PROVE  RegisteredIsPending'
<1>0. /\ child \in [Pid -> {"free", "alive", "zombie"}] /\ code \in [Pid -> Status]
      /\ pc \in [Prober -> Pc] /\ probe \in [Prober -> Pid \cup {None}]
      /\ waiters \subseteq Pid /\ chan \in [Pid -> Status \cup {None}]
      /\ outcome \in [Prober -> Status \cup {None}]
  BY Zenon DEF TypeOK
<1> USE <1>0, HealthAssumption DEF Prober, Registered, Holding, OneHolder, LoopHolds, RegisteredIsPending
<1>1. ASSUME NEW q \in Prober, CheckExec(q) \/ Wake(q) \/ Tick(q) PROVE RegisteredIsPending'
  BY <1>1 DEF CheckExec, Wake, Tick, kernel, checker, registry, reaper, past, Goto
<1>2. ASSUME NEW q \in Prober, StartError(q) PROVE RegisteredIsPending'
  BY <1>2 DEF StartError, kernel, checker, registry, reaper, past, Goto
<1>3. ASSUME NEW q \in Prober, Receive(q) \/ GiveUp(q) PROVE RegisteredIsPending'
  BY <1>3 DEF Receive, GiveUp, Return, Forget, PassOrFail, kernel, checker, registry, reaper,
     past, Goto
<1>4. ASSUME NEW q \in Prober, Deadline(q) \/ Cancel(q) PROVE RegisteredIsPending'
  BY <1>4 DEF Deadline, Cancel, Kill, Ends, kernel, checker, registry, reaper, past, Goto
<1>5. ASSUME NEW q \in Prober, RunReturn(q) PROVE RegisteredIsPending'
  BY <1>5 DEF RunReturn, Reap, PassOrFail, Stolen, kernel, checker, registry, reaper, past, Goto
<1>6. ASSUME NEW q \in Prober, NEW p \in Pid, Start(q, p) \/ Run(q, p) PROVE RegisteredIsPending'
  <2>1. CASE Start(q, p)
    BY <2>1 DEF Start, Spawn, FreePid, kernel, checker, registry, reaper, past, Goto
  <2>2. CASE Run(q, p)
    BY <2>2 DEF Run, Spawn, FreePid, kernel, checker, registry, reaper, past, Goto
  <2> QED
    BY Zenon, <1>6, <2>1, <2>2
<1>7. ASSUME NEW p \in Pid, Exit(p) PROVE RegisteredIsPending'
  BY <1>7 DEF Exit, Ends, kernel, checker, registry, reaper, past, Goto
<1>8. ASSUME NEW c \in Checker, Observe(c) PROVE RegisteredIsPending'
  BY <1>8 DEF Observe, Bump, Crossed, Settled, kernel, checker, registry, reaper, past, Goto
<1>9. ASSUME NEW c \in Checker, Call(c) \/ HandleCheckFailure(c) \/ Leave(c) PROVE RegisteredIsPending'
  BY <1>9 DEF Call, HandleCheckFailure, Leave, MayCall, StopSeen, kernel, checker, registry,
     reaper, past, Goto
<1>10. ASSUME NEW q \in Gate, ObserveGate(q) \/ LeaveGate(q) PROVE RegisteredIsPending'
  BY <1>10 DEF ObserveGate, LeaveGate, Settled, kernel, checker, registry, reaper, past, Goto
<1>11. CASE Activate \/ StopChecks \/ EChild \/ WakeUp
  BY <1>11 DEF Activate, StopChecks, EChild, WakeUp, kernel, checker, registry, reaper, past, Goto
<1>12. CASE StartChecks
  <2>1. UNCHANGED <<waiters, probe, child, got>> /\ \A q \in Prober : pc[q] \in Registered => pc'[q] = pc[q]
    BY <1>12 DEF StartChecks, CheckersAreLate, kernel, registry
  <2>2. ASSUME NEW p \in waiters'
        PROVE  /\ \E q \in Prober : probe'[q] = p /\ pc'[q] \in Registered
               /\ child'[p] # "free" \/ got'.pid = p
    <3>1. p \in waiters
      BY Zenon, <2>1, <2>2
    <3>2. PICK q \in Prober : probe[q] = p /\ pc[q] \in Registered
      BY Zenon, <3>1 DEF RegisteredIsPending
    <3>3. probe'[q] = p /\ pc'[q] \in Registered
      BY Zenon, <2>1, <3>2
    <3> QED BY Zenon, <2>1, <3>1, <3>3 DEF RegisteredIsPending
  <2> QED BY Zenon, <2>2 DEF RegisteredIsPending
<1>13. CASE Deliver
  BY <1>13 DEF Deliver, Nothing, kernel, checker, registry, reaper, past, Goto
<1>14. ASSUME NEW p \in Pid, Wait4(p) PROVE RegisteredIsPending'
  BY <1>14 DEF Wait4, Reap, kernel, checker, registry, reaper, past, Goto
<1>15. CASE UNCHANGED vars
  BY <1>15 DEF vars, kernel, checker, registry, reaper, past, Goto
<1> QED
  BY Zenon, <1>1, <1>2, <1>3, <1>4, <1>5, <1>6, <1>7, <1>8, <1>9, <1>10, <1>11, <1>12, <1>13, <1>14,
     <1>15
     DEF Next, Execute, React, ReapLoop

(* On its way from the kernel to the channel a status stays with its pid.  *)
LEMMA StatusIsOwnKept ==
  ASSUME TypeOK, OneHolder, LoopHolds, RegisteredIsPending, StatusIsOwn, [Next]_vars
  PROVE  StatusIsOwn'
<1>0. /\ child \in [Pid -> {"free", "alive", "zombie"}] /\ code \in [Pid -> Status]
      /\ pc \in [Prober -> Pc] /\ probe \in [Prober -> Pid \cup {None}]
      /\ waiters \subseteq Pid /\ chan \in [Pid -> Status \cup {None}]
      /\ outcome \in [Prober -> Status \cup {None}]
  BY Zenon DEF TypeOK
<1> USE <1>0, HealthAssumption DEF Prober, Status, Nothing, Registered, Holding, OneHolder,
    LoopHolds, RegisteredIsPending, StatusIsOwn
<1>1. ASSUME NEW q \in Prober, CheckExec(q) \/ Wake(q) \/ Tick(q) PROVE StatusIsOwn'
  BY <1>1 DEF CheckExec, Wake, Tick, kernel, checker, registry, reaper, past, Goto
<1>2. ASSUME NEW q \in Prober, StartError(q) PROVE StatusIsOwn'
  BY <1>2 DEF StartError, kernel, checker, registry, reaper, past, Goto
<1>3. ASSUME NEW q \in Prober, Receive(q) \/ GiveUp(q) PROVE StatusIsOwn'
  BY <1>3 DEF Receive, GiveUp, Return, Forget, PassOrFail, kernel, checker, registry, reaper,
     past, Goto
<1>4. ASSUME NEW q \in Prober, Deadline(q) \/ Cancel(q) PROVE StatusIsOwn'
  BY <1>4 DEF Deadline, Cancel, Kill, Ends, kernel, checker, registry, reaper, past, Goto
<1>5. ASSUME NEW q \in Prober, RunReturn(q) PROVE StatusIsOwn'
  BY <1>5 DEF RunReturn, Reap, PassOrFail, Stolen, kernel, checker, registry, reaper, past, Goto
<1>6. ASSUME NEW q \in Prober, NEW p \in Pid, Start(q, p) \/ Run(q, p) PROVE StatusIsOwn'
  BY <1>6 DEF Start, Run, Spawn, FreePid, kernel, checker, registry, reaper, past, Goto
<1>7. ASSUME NEW p \in Pid, Exit(p) PROVE StatusIsOwn'
  BY <1>7 DEF Exit, Ends, kernel, checker, registry, reaper, past, Goto
<1>8. ASSUME NEW c \in Checker, Observe(c) PROVE StatusIsOwn'
  BY <1>8 DEF Observe, Bump, Crossed, Settled, kernel, checker, registry, reaper, past, Goto
<1>9. ASSUME NEW c \in Checker, Call(c) \/ HandleCheckFailure(c) \/ Leave(c) PROVE StatusIsOwn'
  BY <1>9 DEF Call, HandleCheckFailure, Leave, MayCall, StopSeen, kernel, checker, registry,
     reaper, past, Goto
<1>10. ASSUME NEW q \in Gate, ObserveGate(q) \/ LeaveGate(q) PROVE StatusIsOwn'
  BY <1>10 DEF ObserveGate, LeaveGate, Settled, kernel, checker, registry, reaper, past, Goto
<1>11. CASE Activate \/ StopChecks \/ EChild \/ WakeUp
  BY <1>11 DEF Activate, StopChecks, EChild, WakeUp, kernel, checker, registry, reaper, past, Goto
<1>12. CASE StartChecks
  BY Zenon, <1>12 DEF StartChecks, kernel, checker, registry, reaper, past, Goto
<1>13. CASE Deliver
  BY <1>13 DEF Deliver, Nothing, kernel, checker, registry, reaper, past, Goto
<1>14. ASSUME NEW p \in Pid, Wait4(p) PROVE StatusIsOwn'
  BY <1>14 DEF Wait4, Reap, kernel, checker, registry, reaper, past, Goto
<1>15. CASE UNCHANGED vars
  BY Zenon, <1>15 DEF vars, kernel, checker, registry, reaper, past, Goto
<1> QED
  BY Zenon, <1>1, <1>2, <1>3, <1>4, <1>5, <1>6, <1>7, <1>8, <1>9, <1>10, <1>11, <1>12, <1>13, <1>14,
     <1>15
     DEF Next, Execute, React, ReapLoop

(* A prober draws its verdict from a status of its own, or from none.      *)
LEMMA VerdictIsTrueKept ==
  ASSUME TypeOK, OneHolder, StatusIsOwn, CheckersAreLate, VerdictIsTrue, [Next]_vars
  PROVE  VerdictIsTrue'
<1>0. /\ child \in [Pid -> {"free", "alive", "zombie"}] /\ code \in [Pid -> Status]
      /\ pc \in [Prober -> Pc] /\ probe \in [Prober -> Pid \cup {None}]
      /\ waiters \subseteq Pid /\ chan \in [Pid -> Status \cup {None}]
      /\ outcome \in [Prober -> Status \cup {None}]
      /\ verdict \in [Prober -> {"none", "pass", "fail", "lost"}]
  BY Zenon DEF TypeOK
<1> USE <1>0, HealthAssumption DEF Prober, Status, Registered, Holding, OneHolder,
    StatusIsOwn, VerdictIsTrue
<1>1. ASSUME NEW q \in Prober, CheckExec(q) \/ Wake(q) \/ Tick(q) PROVE VerdictIsTrue'
  BY <1>1 DEF CheckExec, Wake, Tick, kernel, checker, registry, reaper, past, Goto
<1>2. ASSUME NEW q \in Prober, StartError(q) PROVE VerdictIsTrue'
  BY Zenon, <1>2 DEF StartError, kernel, checker, registry, reaper, past, Goto
<1>3. ASSUME NEW q \in Prober, Receive(q) \/ GiveUp(q) PROVE VerdictIsTrue'
  <2>1. CASE Receive(q)
    BY <2>1 DEF Receive, Return, Forget, PassOrFail, kernel, checker, registry, reaper, past, Goto
  <2>2. CASE GiveUp(q)
    BY Zenon, <2>2 DEF GiveUp, Return, Forget, kernel, checker, registry, reaper, past, Goto
  <2> QED
    BY Zenon, <1>3, <2>1, <2>2
<1>4. ASSUME NEW q \in Prober, Deadline(q) \/ Cancel(q) PROVE VerdictIsTrue'
  BY <1>4 DEF Deadline, Cancel, Kill, Ends, kernel, checker, registry, reaper, past, Goto
<1>5. ASSUME NEW q \in Prober, RunReturn(q) PROVE VerdictIsTrue'
  <2>1. q \notin Checker
    BY Zenon, <1>5 DEF RunReturn, CheckersAreLate
  <2> QED
    BY <1>5, <2>1 DEF RunReturn, Reap, PassOrFail, Stolen, kernel, Goto
<1>6. ASSUME NEW q \in Prober, NEW p \in Pid, Start(q, p) \/ Run(q, p) PROVE VerdictIsTrue'
  BY <1>6 DEF Start, Run, Spawn, FreePid, kernel, checker, registry, reaper, past, Goto
<1>7. ASSUME NEW p \in Pid, Exit(p) PROVE VerdictIsTrue'
  BY <1>7 DEF Exit, Ends, kernel, checker, registry, reaper, past, Goto
<1>8. ASSUME NEW c \in Checker, Observe(c) PROVE VerdictIsTrue'
  BY Zenon, <1>8 DEF Observe, Bump, Crossed, Settled, kernel, checker, registry, reaper, past, Goto
<1>9. ASSUME NEW c \in Checker, Call(c) \/ HandleCheckFailure(c) \/ Leave(c) PROVE VerdictIsTrue'
  BY <1>9 DEF Call, HandleCheckFailure, Leave, MayCall, StopSeen, kernel, checker, registry,
     reaper, past, Goto
<1>10. ASSUME NEW q \in Gate, ObserveGate(q) \/ LeaveGate(q) PROVE VerdictIsTrue'
  BY <1>10 DEF ObserveGate, LeaveGate, Settled, kernel, checker, registry, reaper, past, Goto
<1>11. CASE Activate \/ StopChecks \/ EChild \/ WakeUp
  BY <1>11 DEF Activate, StopChecks, EChild, WakeUp, kernel, checker, registry, reaper, past, Goto
<1>12. CASE StartChecks
  BY Zenon, <1>12 DEF StartChecks, kernel, checker, registry, reaper, past, Goto
<1>13. CASE Deliver
  BY Zenon, <1>13 DEF Deliver, Nothing, kernel, checker, registry, reaper, past, Goto
<1>14. ASSUME NEW p \in Pid, Wait4(p) PROVE VerdictIsTrue'
  BY Zenon, <1>14 DEF Wait4, Reap, kernel, checker, registry, reaper, past, Goto
<1>15. CASE UNCHANGED vars
  BY Zenon, <1>15 DEF vars, kernel, checker, registry, reaper, past, Goto
<1> QED
  BY Zenon, <1>1, <1>2, <1>3, <1>4, <1>5, <1>6, <1>7, <1>8, <1>9, <1>10, <1>11, <1>12, <1>13, <1>14,
     <1>15
     DEF Next, Execute, React, ReapLoop

(* At ECHILD no pid is registered; who registers one afterwards wakes the  *)
(* loop.                                                                   *)
LEMMA IdleLoopIsWokenKept ==
  ASSUME TypeOK, LoopHolds, RegisteredIsPending, IdleLoopIsWoken, [Next]_vars
  PROVE  IdleLoopIsWoken'
<1>0. /\ child \in [Pid -> {"free", "alive", "zombie"}] /\ code \in [Pid -> Status]
      /\ pc \in [Prober -> Pc] /\ probe \in [Prober -> Pid \cup {None}]
      /\ waiters \subseteq Pid /\ chan \in [Pid -> Status \cup {None}]
      /\ outcome \in [Prober -> Status \cup {None}]
  BY Zenon DEF TypeOK
<1> USE <1>0, HealthAssumption DEF Prober, Registered, LoopHolds, RegisteredIsPending,
    IdleLoopIsWoken
<1>1. ASSUME NEW q \in Prober, CheckExec(q) \/ Wake(q) \/ Tick(q) PROVE IdleLoopIsWoken'
  BY <1>1 DEF CheckExec, Wake, Tick, kernel, checker, registry, reaper, past, Goto
<1>2. ASSUME NEW q \in Prober, StartError(q) PROVE IdleLoopIsWoken'
  BY Zenon, <1>2 DEF StartError, kernel, checker, registry, reaper, past, Goto
<1>3. ASSUME NEW q \in Prober, Receive(q) \/ GiveUp(q) PROVE IdleLoopIsWoken'
  BY <1>3 DEF Receive, GiveUp, Return, Forget, PassOrFail, kernel, checker, registry, reaper,
     past, Goto
<1>4. ASSUME NEW q \in Prober, Deadline(q) \/ Cancel(q) PROVE IdleLoopIsWoken'
  BY <1>4 DEF Deadline, Cancel, Kill, Ends, kernel, checker, registry, reaper, past, Goto
<1>5. ASSUME NEW q \in Prober, RunReturn(q) PROVE IdleLoopIsWoken'
  BY Zenon, <1>5 DEF RunReturn, Reap, PassOrFail, Stolen, kernel, checker, registry, reaper, past, Goto
<1>6. ASSUME NEW q \in Prober, NEW p \in Pid, Start(q, p) \/ Run(q, p) PROVE IdleLoopIsWoken'
  BY <1>6 DEF Start, Run, Spawn, FreePid, kernel, checker, registry, reaper, past, Goto
<1>7. ASSUME NEW p \in Pid, Exit(p) PROVE IdleLoopIsWoken'
  BY Zenon, <1>7 DEF Exit, Ends, kernel, checker, registry, reaper, past, Goto
<1>8. ASSUME NEW c \in Checker, Observe(c) PROVE IdleLoopIsWoken'
  BY Zenon, <1>8 DEF Observe, Bump, Crossed, Settled, kernel, checker, registry, reaper, past, Goto
<1>9. ASSUME NEW c \in Checker, Call(c) \/ HandleCheckFailure(c) \/ Leave(c) PROVE IdleLoopIsWoken'
  BY <1>9 DEF Call, HandleCheckFailure, Leave, MayCall, StopSeen, kernel, checker, registry,
     reaper, past, Goto
<1>10. ASSUME NEW q \in Gate, ObserveGate(q) \/ LeaveGate(q) PROVE IdleLoopIsWoken'
  BY <1>10 DEF ObserveGate, LeaveGate, Settled, kernel, checker, registry, reaper, past, Goto
<1>11. CASE Activate \/ StopChecks \/ EChild \/ WakeUp
  BY <1>11 DEF Activate, StopChecks, EChild, WakeUp, kernel, checker, registry, reaper, past, Goto
<1>12. CASE StartChecks
  BY Zenon, <1>12 DEF StartChecks, kernel, checker, registry, reaper, past, Goto
<1>13. CASE Deliver
  BY Zenon, <1>13 DEF Deliver, Nothing, kernel, checker, registry, reaper, past, Goto
<1>14. ASSUME NEW p \in Pid, Wait4(p) PROVE IdleLoopIsWoken'
  BY Zenon, <1>14 DEF Wait4, Reap, kernel, checker, registry, reaper, past, Goto
<1>15. CASE UNCHANGED vars
  BY Zenon, <1>15 DEF vars, kernel, checker, registry, reaper, past, Goto
<1> QED
  BY Zenon, <1>1, <1>2, <1>3, <1>4, <1>5, <1>6, <1>7, <1>8, <1>9, <1>10, <1>11, <1>12, <1>13, <1>14,
     <1>15
     DEF Next, Execute, React, ReapLoop

(* An alarm needs a healthy checker, leaves it unhealthy, and only a       *)
(* passing probe makes it healthy again.                                   *)
LEMMA EdgesKept ==
  ASSUME TypeOK, CheckersAreLate, Edges, [Next]_vars
  PROVE  Edges'
<1>0. /\ pc \in [Prober -> Pc] /\ failures \in [Checker -> 0..Threshold]
      /\ healthy \in [Checker -> BOOLEAN] /\ stopped \in [Checker -> BOOLEAN]
      /\ late \in [Checker -> 0..2] /\ alarmed \in [Checker -> BOOLEAN]
      /\ verdict \in [Prober -> {"none", "pass", "fail", "lost"}]
  BY Zenon DEF TypeOK
<1> USE <1>0, HealthAssumption DEF Prober, Edges
<1>1. ASSUME NEW q \in Prober, CheckExec(q) \/ Wake(q) \/ Tick(q) PROVE Edges'
  BY <1>1 DEF CheckExec, Wake, Tick, kernel, checker, registry, reaper, past, Goto
<1>2. ASSUME NEW q \in Prober, StartError(q) PROVE Edges'
  BY Zenon, <1>2 DEF StartError, kernel, checker, registry, reaper, past, Goto
<1>3. ASSUME NEW q \in Prober, Receive(q) \/ GiveUp(q) PROVE Edges'
  BY <1>3 DEF Receive, GiveUp, Return, Forget, PassOrFail, kernel, checker, registry, reaper,
     past, Goto
<1>4. ASSUME NEW q \in Prober, Deadline(q) \/ Cancel(q) PROVE Edges'
  BY <1>4 DEF Deadline, Cancel, Kill, Ends, kernel, checker, registry, reaper, past, Goto
<1>5. ASSUME NEW q \in Prober, RunReturn(q) PROVE Edges'
  BY Zenon, <1>5 DEF RunReturn, Reap, PassOrFail, Stolen, kernel, checker, registry, reaper, past, Goto
<1>6. ASSUME NEW q \in Prober, NEW p \in Pid, Start(q, p) \/ Run(q, p) PROVE Edges'
  BY <1>6 DEF Start, Run, Spawn, FreePid, kernel, checker, registry, reaper, past, Goto
<1>7. ASSUME NEW p \in Pid, Exit(p) PROVE Edges'
  BY Zenon, <1>7 DEF Exit, Ends, kernel, checker, registry, reaper, past, Goto
<1>8. ASSUME NEW c \in Checker, Observe(c) PROVE Edges'
  BY <1>8 DEF Observe, Bump, Crossed, Settled, kernel, checker, registry, reaper, past, Goto
<1>9. ASSUME NEW c \in Checker, Call(c) \/ HandleCheckFailure(c) \/ Leave(c) PROVE Edges'
  BY <1>9 DEF Call, HandleCheckFailure, Leave, MayCall, StopSeen, kernel, checker, registry,
     reaper, past, Goto
<1>10. ASSUME NEW q \in Gate, ObserveGate(q) \/ LeaveGate(q) PROVE Edges'
  BY <1>10 DEF ObserveGate, LeaveGate, Settled, kernel, checker, registry, reaper, past, Goto
<1>11. CASE Activate \/ StopChecks \/ EChild \/ WakeUp
  BY <1>11 DEF Activate, StopChecks, EChild, WakeUp, kernel, checker, registry, reaper, past, Goto
<1>12. CASE StartChecks
  BY Zenon, <1>12 DEF StartChecks, kernel, checker, registry, reaper, past, Goto
<1>13. CASE Deliver
  BY Zenon, <1>13 DEF Deliver, Nothing, kernel, checker, registry, reaper, past, Goto
<1>14. ASSUME NEW p \in Pid, Wait4(p) PROVE Edges'
  BY Zenon, <1>14 DEF Wait4, Reap, kernel, checker, registry, reaper, past, Goto
<1>15. CASE UNCHANGED vars
  BY Zenon, <1>15 DEF vars, kernel, checker, registry, reaper, past, Goto
<1> QED
  BY Zenon, <1>1, <1>2, <1>3, <1>4, <1>5, <1>6, <1>7, <1>8, <1>9, <1>10, <1>11, <1>12, <1>13, <1>14,
     <1>15
     DEF Next, Execute, React, ReapLoop

(* The whole invariant holds at the start and every step keeps it.         *)
LEMMA InvInductive == (Init => Inv) /\ (Inv /\ [Next]_vars => Inv')
<1>1. ASSUME Init PROVE Inv
  <2> USE <1>1, HealthAssumption DEF Init, Prober, Nothing
  <2>1. TypeOK
    <3>1. pc \in [Prober -> Pc]
      BY Zenon DEF Pc
    <3>2. failures \in [Checker -> 0..Threshold]
      OBVIOUS
    <3>3. /\ child \in [Pid -> {"free", "alive", "zombie"}] /\ code \in [Pid -> Status]
          /\ probe \in [Prober -> Pid \cup {None}] /\ verdict \in [Prober -> {"none", "pass", "fail", "lost"}]
          /\ outcome \in [Prober -> Status \cup {None}] /\ chan \in [Pid -> Status \cup {None}]
      BY Zenon DEF Status
    <3>4. /\ healthy \in [Checker -> BOOLEAN] /\ stopped \in [Checker -> BOOLEAN]
          /\ late \in [Checker -> 0..2] /\ alarmed \in [Checker -> BOOLEAN]
      OBVIOUS
    <3>5. got \in [pid : Pid \cup {None}, code : Status]
      BY Zenon DEF Status
    <3> QED
      BY Zenon, <3>1, <3>2, <3>3, <3>4, <3>5 DEF TypeOK
  <2>2. \A q \in Prober : pc[q] \in {"exec", "off"} /\ probe[q] = None
    BY Zenon
  <2>3. OneHolder /\ StatusIsOwn /\ VerdictIsTrue
    BY Zenon, <2>2 DEF OneHolder, StatusIsOwn, VerdictIsTrue, Registered, Holding
  <2>4. LoopHolds /\ RegisteredIsPending /\ IdleLoopIsWoken
    BY Zenon DEF LoopHolds, RegisteredIsPending, IdleLoopIsWoken
  <2>5. CheckersAreLate
    BY Zenon DEF CheckersAreLate
  <2>6. Edges
    BY Zenon DEF Edges
  <2> QED
    BY Zenon, <2>1, <2>3, <2>4, <2>5, <2>6 DEF Inv
<1>2. Inv /\ [Next]_vars => Inv'
  BY Zenon, TypeKept, CheckersAreLateKept, OneHolderKept, LoopHoldsKept, RegisteredIsPendingKept,
     StatusIsOwnKept, VerdictIsTrueKept, IdleLoopIsWokenKept, EdgesKept DEF Inv
<1> QED
  BY Zenon, <1>1, <1>2

(* The exit status that a prober acts on is the one of the process it      *)
(* started, although the reap loop and cmd.Run race for the statuses, pids *)
(* nobody holds are reused, and the deadline may kill one that has exited. *)
THEOREM ProbesAreToldTheTruth == Spec => []VerdictIsTrue
<1>1. Inv => VerdictIsTrue
  BY Zenon DEF Inv
<1> QED
  BY <1>1, InvInductive, PTL DEF Spec

(* Registry.Start's wake-up after the unlock is enough: the reap loop      *)
(* never blocks in its idle wait while a probe is registered and no token  *)
(* is there or about to be.                                                *)
THEOREM NoSleepOverAProbe == Spec => []IdleLoopIsWoken
<1>1. Inv => IdleLoopIsWoken
  BY Zenon DEF Inv
<1> QED
  BY <1>1, InvInductive, PTL DEF Spec

(* The callback of a checker is called on the edge from healthy to         *)
(* unhealthy only, and at most once after Stop.                            *)
THEOREM AlarmsOnEdgesOnly == Spec => AlarmsAreEdges
<1> DEFINE Edge == \A c \in Checker :
                     pc[c] = "handler" /\ pc'[c] = "tick" => ~alarmed[c] /\ late'[c] <= 1
<1>1. ASSUME Inv, [Next]_vars PROVE [Edge]_vars
  <2>1. CASE UNCHANGED vars
    BY Zenon, <2>1
  <2>2. ASSUME NEW c \in Checker, pc[c] = "handler" PROVE ~alarmed[c] /\ late[c] = 0
    BY Zenon, <1>1, <2>2 DEF Inv, Edges
  <2>3. UNCHANGED late \/ \E d \in Checker : HandleCheckFailure(d)
    BY Zenon, <1>1 DEF Next, Execute, React, ReapLoop, CheckExec, StartError, Wake, Receive, Deadline, GiveUp,
         Cancel, RunReturn, Start, Run, Exit, Tick, Observe, Call, Leave, ObserveGate, LeaveGate, Activate,
         StartChecks, StopChecks, Deliver, EChild, WakeUp, Wait4, vars, past
  <2>4. late \in [Checker -> 0..2]
    BY Zenon, <1>1 DEF Inv, TypeOK
  <2>5. ASSUME NEW c \in Checker, pc[c] = "handler", NEW d \in Checker, HandleCheckFailure(d)
        PROVE  late'[c] <= 1
    BY <2>2, <2>4, <2>5 DEF HandleCheckFailure
  <2> QED
    BY <2>2, <2>3, <2>4, <2>5
<1> QED
  BY <1>1, InvInductive, PTL DEF Spec, AlarmsAreEdges
=============================================================================
