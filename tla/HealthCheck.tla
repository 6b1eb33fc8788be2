----------------------------- MODULE HealthCheck -----------------------------
(***************************************************************************)
(* Exec health checks: the checker goroutines and the ready gates that run *)
(* probes, the registry through which the reap loop hands them their exit  *)
(* statuses, and a reload that stops the checkers meanwhile.  The checkers *)
(* a reload starts share the registry only, as the gates do.               *)
(*                                                                         *)
(* Time is left out: a deadline may expire at any moment after it is set.  *)
(* A pid is not reused while a prober or the reap loop still holds it.     *)
(***************************************************************************)
EXTENDS Integers, FiniteSets

CONSTANTS
  Checker,        \* the checkers startChecks starts
  Gate,           \* ready gates: WaitReady callers, from boot on
  Pid, None,
  Threshold

Prober == Checker \cup Gate

ASSUME HealthAssumption ==
  /\ Checker \cap Gate = {}
  /\ None \notin Pid /\ Threshold \in Nat \ {0}

VARIABLES
  child, code,    \* kernel: "free", "alive", "zombie"; the exit status
  pc,             \* by prober
  probe,          \* the pid of its probe
  verdict,        \* of its last probe: "pass", "fail" or "lost"
  failures, healthy, stopped,  \* Checker
  waiters, chan,  \* Registry: registered pids; by pid, the channel's status
  active,
  loop, got,      \* the reap loop, and the pid and status its Wait4 returned
  token,          \* d.childStarted
  outcome,        \* history: how the prober's last probe really ended
  late,           \* history: alarms a checker raised after its Stop, up to 2
  alarmed         \* history: it raised one since its last passing probe

kernel == <<child, code, outcome>>
checker == <<failures, healthy, stopped>>
registry == <<waiters, chan, active>>
reaper == <<loop, got>>
past == <<late, alarmed>>
vars == <<kernel, pc, probe, verdict, checker, registry, reaper, token, past>>

Status == {0, 1}
Nothing == [pid |-> None, code |-> 0]
Pc == {"off", "exec", "fork", "wake", "wait", "killed", "run", "direct", "canceled",
       "observe", "call", "handler", "tick", "ready", "ended"}

TypeOK ==
  /\ child \in [Pid -> {"free", "alive", "zombie"}] /\ code \in [Pid -> Status]
  /\ pc \in [Prober -> Pc] /\ probe \in [Prober -> Pid \cup {None}]
  /\ verdict \in [Prober -> {"none", "pass", "fail", "lost"}]
  /\ failures \in [Checker -> 0..Threshold]
  /\ healthy \in [Checker -> BOOLEAN] /\ stopped \in [Checker -> BOOLEAN]
  /\ waiters \subseteq Pid /\ chan \in [Pid -> Status \cup {None}] /\ active \in BOOLEAN
  /\ loop \in {"boot", "active", "wait4", "got", "idle"}
  /\ got \in [pid : Pid \cup {None}, code : Status]
  /\ token \in BOOLEAN
  /\ outcome \in [Prober -> Status \cup {None}] /\ late \in [Checker -> 0..2] /\ alarmed \in [Checker -> BOOLEAN]

Init ==
  /\ child = [p \in Pid |-> "free"] /\ code = [p \in Pid |-> 0]
  /\ pc = [q \in Prober |-> IF q \in Gate THEN "exec" ELSE "off"]
  /\ probe = [q \in Prober |-> None] /\ verdict = [q \in Prober |-> "none"]
  /\ failures = [c \in Checker |-> 0]
  /\ healthy = [c \in Checker |-> TRUE] /\ stopped = [c \in Checker |-> FALSE]
  /\ waiters = {} /\ chan = [p \in Pid |-> None] /\ active = FALSE
  /\ loop = "boot" /\ got = Nothing /\ token = FALSE
  /\ outcome = [q \in Prober |-> None] /\ late = [c \in Checker |-> 0]
  /\ alarmed = [c \in Checker |-> FALSE]

Goto(q, l) == pc' = [pc EXCEPT ![q] = l]
FreePid(p) == child[p] = "free" /\ got.pid # p /\ \A q \in Prober : probe[q] # p
PassOrFail(s) == IF s = 0 THEN "pass" ELSE "fail"

-----------------------------------------------------------------------------
(* The probe processes                                                     *)

Ends(p, s) ==
  /\ child' = [child EXCEPT ![p] = "zombie"] /\ code' = [code EXCEPT ![p] = s]
  /\ outcome' = [q \in Prober |-> IF probe[q] = p THEN s ELSE outcome[q]]

Exit(p) ==
  /\ child[p] = "alive" /\ \E s \in Status : Ends(p, s)
  /\ UNCHANGED <<pc, probe, verdict, checker, registry, reaper, token, past>>

(* kill(-pid, SIGKILL); a zombie is past it.                               *)
Kill(p) == IF child[p] = "alive" THEN Ends(p, 1) ELSE UNCHANGED kernel

Reap(p) ==
  /\ child' = [child EXCEPT ![p] = "free"] /\ code' = [code EXCEPT ![p] = 0]
  /\ UNCHANGED outcome

Spawn(q, p) ==
  /\ FreePid(p)
  /\ child' = [child EXCEPT ![p] = "alive"] /\ UNCHANGED code
  /\ probe' = [probe EXCEPT ![q] = p]
  /\ outcome' = [outcome EXCEPT ![q] = None]

-----------------------------------------------------------------------------
(* checkExec                                                               *)

CheckExec(q) ==
  /\ pc[q] = "exec" /\ Goto(q, IF active THEN "fork" ELSE "run")
  /\ UNCHANGED <<kernel, probe, verdict, checker, registry, reaper, token, past>>

(* Registry.Start: fork and registration are one critical section of r.mu, *)
(* which Deliver takes too.                                                *)
StartMut(q, p) ==  \* returns without waking the reap loop
  /\ pc[q] = "fork" /\ Spawn(q, p)
  /\ waiters' = waiters \cup {p} /\ chan' = [chan EXCEPT ![p] = None]
  /\ Goto(q, "wait")
  /\ UNCHANGED <<verdict, checker, active, reaper, token, past>>
Start(q, p) ==
  /\ pc[q] = "fork" /\ Spawn(q, p)
  /\ waiters' = waiters \cup {p} /\ chan' = [chan EXCEPT ![p] = None]
  /\ Goto(q, "wake")
  /\ UNCHANGED <<verdict, checker, active, reaper, token, past>>

(* After the unlock: wakeReapLoop, a send that does not block.             *)
Wake(q) ==
  /\ pc[q] = "wake" /\ token' = TRUE
  /\ Goto(q, "wait")
  /\ UNCHANGED <<kernel, probe, verdict, checker, registry, reaper, past>>

StartError(q) ==
  /\ pc[q] \in {"fork", "run"}
  /\ verdict' = [verdict EXCEPT ![q] = "fail"] /\ outcome' = [outcome EXCEPT ![q] = 1]
  /\ Goto(q, "observe")
  /\ UNCHANGED <<child, code, probe, checker, registry, reaper, token, past>>

(* checkExecReaped returns, and its deferred Forget drops the waiter.      *)
Forget(p) == waiters \ {p}

Return(q, v) ==
  /\ verdict' = [verdict EXCEPT ![q] = v]
  /\ waiters' = Forget(probe[q]) /\ chan' = [chan EXCEPT ![probe[q]] = None]
  /\ probe' = [probe EXCEPT ![q] = None]
  /\ Goto(q, "observe")

(* A status, before the deadline or after the kill.                        *)
Receive(q) ==
  /\ pc[q] \in {"wait", "killed"} /\ chan[probe[q]] # None
  /\ Return(q, PassOrFail(chan[probe[q]]))
  /\ UNCHANGED <<kernel, checker, active, reaper, token, past>>

DeadlineMut(q) == FALSE  \* no deadline
Deadline(q) ==
  /\ pc[q] = "wait" /\ Kill(probe[q])
  /\ Goto(q, "killed")
  /\ UNCHANGED <<probe, verdict, checker, registry, reaper, token, past>>

(* Killed, and no status within another timeout.                           *)
GiveUp(q) ==
  /\ pc[q] = "killed" /\ Return(q, "lost")
  /\ UNCHANGED <<kernel, checker, active, reaper, token, past>>

(* cmd.Run, before the registry is active: it waits for the pid itself.    *)
Run(q, p) ==
  /\ pc[q] = "run" /\ Spawn(q, p)
  /\ Goto(q, "direct")
  /\ UNCHANGED <<verdict, checker, registry, reaper, token, past>>

(* cmd.Cancel: ESRCH, once the leader is reaped, keeps the real status.    *)
Cancel(q) ==
  /\ pc[q] = "direct" /\ child[probe[q]] # "free" /\ Kill(probe[q])
  /\ Goto(q, "canceled")
  /\ UNCHANGED <<probe, verdict, checker, registry, reaper, token, past>>

StolenMut == "pass"  \* ECHILD taken for a finished child
Stolen == "lost"

RunReturn(q) ==
  LET p == probe[q] IN
  /\ pc[q] \in {"direct", "canceled"}
  /\ \/ /\ child[p] = "zombie" /\ Reap(p)
        /\ verdict' = [verdict EXCEPT ![q] = IF pc[q] = "canceled" THEN "fail" ELSE PassOrFail(code[p])]
     \/ /\ child[p] = "free" /\ UNCHANGED kernel
        /\ verdict' = [verdict EXCEPT ![q] = Stolen]
  /\ probe' = [probe EXCEPT ![q] = None]
  /\ Goto(q, "observe")
  /\ UNCHANGED <<checker, registry, reaper, token, past>>

-----------------------------------------------------------------------------
(* Checker.Run and WaitReady                                               *)

(* The result of the probe is used.                                        *)
Settled(q) ==
  /\ verdict' = [verdict EXCEPT ![q] = "none"] /\ outcome' = [outcome EXCEPT ![q] = None]

(* The failure streak, which matters up to the threshold only.             *)
Bump(n) == IF n < Threshold THEN n + 1 ELSE n

CrossedMut(c, f) == f >= Threshold  \* healthy not tested
Crossed(c, f) == f >= Threshold /\ healthy[c]

Observe(c) ==
  LET f == Bump(failures[c])
      crossed == verdict[c] = "fail" /\ Crossed(c, f) IN
  /\ pc[c] = "observe"
  /\ \/ verdict[c] = "lost" /\ UNCHANGED <<failures, healthy>>
     \/ /\ verdict[c] = "fail"
        /\ failures' = [failures EXCEPT ![c] = f]
        /\ healthy' = [healthy EXCEPT ![c] = @ /\ ~crossed]
     \/ /\ verdict[c] = "pass"
        /\ failures' = [failures EXCEPT ![c] = 0] /\ healthy' = [healthy EXCEPT ![c] = TRUE]
  /\ alarmed' = [alarmed EXCEPT ![c] = @ /\ verdict[c] # "pass"]
  /\ Goto(c, IF crossed THEN "call" ELSE "tick") /\ Settled(c)
  /\ UNCHANGED <<child, code, probe, stopped, registry, reaper, token, late>>

ObserveGate(q) ==
  /\ pc[q] = "observe"
  /\ Goto(q, IF verdict[q] = "pass" THEN "ready" ELSE "tick") /\ Settled(q)
  /\ UNCHANGED <<child, code, probe, checker, registry, reaper, token, past>>

(* The load of stopped, and the call, are two steps.                       *)
MayCall(c) == ~stopped[c]

Call(c) ==
  /\ pc[c] = "call"
  /\ Goto(c, IF MayCall(c) THEN "handler" ELSE "tick")
  /\ UNCHANGED <<kernel, probe, verdict, checker, registry, reaper, token, past>>

(* handleCheckFailure under d.mu; what it does to the services is in       *)
(* Supervisor.                                                             *)
HandleCheckFailure(c) ==
  /\ pc[c] = "handler"
  /\ late' = [late EXCEPT ![c] = IF stopped[c] /\ @ < 2 THEN @ + 1 ELSE @]
  /\ alarmed' = [alarmed EXCEPT ![c] = TRUE]
  /\ Goto(c, "tick")
  /\ UNCHANGED <<kernel, probe, verdict, checker, registry, reaper, token>>

(* The initial delay or the ticker.  A select with stopCh closed too may   *)
(* take either branch.                                                     *)
Tick(q) ==
  /\ pc[q] = "tick" /\ Goto(q, "exec")
  /\ UNCHANGED <<kernel, probe, verdict, checker, registry, reaper, token, past>>

StopSeen(c) == stopped[c]

Leave(c) ==
  /\ pc[c] = "tick" /\ StopSeen(c)
  /\ Goto(c, "ended")
  /\ UNCHANGED <<kernel, probe, verdict, checker, registry, reaper, token, past>>

(* ready-timeout, or the client of the gate is gone.                       *)
LeaveGate(q) ==
  /\ pc[q] = "tick" /\ Goto(q, "ended")
  /\ UNCHANGED <<kernel, probe, verdict, checker, registry, reaper, token, past>>

-----------------------------------------------------------------------------
(* The daemon: startChecks, stopChecks, the reap loop                      *)

Activate ==
  /\ loop = "boot" /\ loop' = "active" /\ active' = TRUE
  /\ UNCHANGED <<kernel, pc, probe, verdict, checker, waiters, chan, got, token, past>>

StartChecks ==
  /\ loop = "active" /\ loop' = "wait4"
  /\ pc' = [q \in Prober |-> IF q \in Checker THEN "tick" ELSE pc[q]]
  /\ UNCHANGED <<kernel, probe, verdict, checker, registry, got, token, past>>

(* stopChecks, by reload or at the end of run().                           *)
StopChecks ==
  /\ loop \in {"wait4", "got", "idle"}
  /\ stopped' = [c \in Checker |-> TRUE]
  /\ UNCHANGED <<kernel, pc, probe, verdict, failures, healthy, registry, reaper, token, past>>

Wait4(p) ==
  /\ loop = "wait4" /\ child[p] = "zombie" /\ Reap(p)
  /\ loop' = "got" /\ got' = [pid |-> p, code |-> code[p]]
  /\ UNCHANGED <<pc, probe, verdict, checker, registry, token, past>>

(* The pid is no service's: Deliver.                                       *)
Deliver ==
  /\ loop = "got" /\ loop' = "wait4" /\ got' = Nothing
  /\ \/ /\ got.pid \in waiters
        /\ waiters' = waiters \ {got.pid} /\ chan' = [chan EXCEPT ![got.pid] = got.code]
     \/ got.pid \notin waiters /\ UNCHANGED <<waiters, chan>>
  /\ UNCHANGED <<kernel, pc, probe, verdict, checker, active, token, past>>

(* ECHILD, and the idle wait that follows it.                              *)
EChild ==
  /\ loop = "wait4" /\ loop' = "idle"
  /\ \A p \in Pid : child[p] = "free"
  /\ UNCHANGED <<kernel, pc, probe, verdict, checker, registry, got, token, past>>

WakeUp ==
  /\ loop = "idle" /\ loop' = "wait4"
  /\ token /\ token' = FALSE
  /\ UNCHANGED <<kernel, pc, probe, verdict, checker, registry, got, past>>

Execute(q) ==
  \/ CheckExec(q) \/ StartError(q) \/ Wake(q) \/ Receive(q) \/ Deadline(q) \/ GiveUp(q)
  \/ Cancel(q) \/ RunReturn(q)
  \/ \E p \in Pid : Start(q, p) \/ Run(q, p)
React(c) == Observe(c) \/ Call(c) \/ HandleCheckFailure(c)
ReapLoop == Deliver \/ EChild \/ WakeUp \/ \E p \in Pid : Wait4(p)
Next ==
  \/ \E p \in Pid : Exit(p)
  \/ \E q \in Prober : Execute(q) \/ Tick(q)
  \/ \E c \in Checker : React(c) \/ Leave(c)
  \/ \E q \in Gate : ObserveGate(q) \/ LeaveGate(q)
  \/ Activate \/ StartChecks \/ StopChecks \/ ReapLoop

Spec == Init /\ [][Next]_vars

(* Goroutines and timers run; a select whose cases are both ready for ever *)
(* takes each of them at some time; probes and operators owe nothing.      *)
Fairness ==
  /\ \A q \in Prober : WF_vars(Execute(q))
  /\ \A c \in Checker : WF_vars(React(c)) /\ WF_vars(Tick(c)) /\ SF_vars(Leave(c))
FairSpec == Spec /\ Fairness

-----------------------------------------------------------------------------
(* A probe passes only if its process exited with 0, and, once the reap    *)
(* loop delivers statuses, fails only if it did not: no status reaches a   *)
(* prober but its own, and one that is lost to a race counts as neither.   *)
VerdictIsTrue ==
  \A q \in Prober :
    /\ pc[q] = "observe" /\ verdict[q] = "pass" => outcome[q] = 0
    /\ pc[q] = "observe" /\ verdict[q] = "fail" /\ q \in Checker => outcome[q] = 1

(* The reap loop does not sleep over a registered probe: its wake-up is    *)
(* on its way.                                                             *)
IdleLoopIsWoken ==
  loop = "idle" /\ waiters # {} => token \/ \E q \in Prober : pc[q] = "wake"

(* A check that stays down raises one alarm, not one per failed probe: a   *)
(* passing probe lies between two alarms of a checker.  After its Stop a   *)
(* checker raises at most one, the one already past the stopped guard.     *)
AlarmsAreEdges ==
  [][\A c \in Checker : pc[c] = "handler" /\ pc'[c] = "tick" =>
       ~alarmed[c] /\ late'[c] <= 1]_vars

(* Every probe ends, although its process may hang and its status may be   *)
(* lost, and so does a stopped checker's goroutine.                        *)
ProbesEnd ==
  /\ \A q \in Prober : pc[q] \in {"wake", "direct"} ~> pc[q] = "observe"
  /\ \A c \in Checker : stopped[c] ~> pc[c] = "ended"

=============================================================================
