----------------------------- MODULE Supervisor -----------------------------
(***************************************************************************)
(* The daemon's core: the reap loop of run(), startService, the restart    *)
(* requests, the control-socket start/stop/restart handlers, the           *)
(* check-failure handler and initiateShutdown/stopAll, interleaved at the  *)
(* granularity of d.mu.  A critical section of d.mu is one step, except    *)
(* startService, whose shuttingDown check and fork are two steps, because  *)
(* shuttingDown is written, and read by the ECHILD path of the reap loop,  *)
(* without d.mu.                                                           *)
(*                                                                         *)
(* A Service's running flag, Pid and done channel are set together by      *)
(* FinishStart and cleared together by MarkExited, so one variable, pid,   *)
(* stands for the three: a done channel is named by the pid of the run it  *)
(* belongs to, and None is the nil (closed) channel.  When MarkExited      *)
(* closes a channel, every goroutine holding it sees None from then on.    *)
(***************************************************************************)
EXTENDS Integers, FiniteSets, Sequences

CONSTANTS
  Svc,             \* Service objects
  Name, NameOf,    \* service names, and the name of each object
  Loaded,          \* the objects in d.services when the reap loop starts
  Pid,             \* process ids the kernel can hand out
  Gor,             \* goroutines: restart requests and control handlers in flight
  None,            \* no pid, no service, nil channel, unlocked mutex
  Code,            \* exit statuses of children
  OnSuccess, OnFailure,  \* exit actions
  CheckAction,     \* OnCheckFailure of each service for the check, or "none"
  Oneshot, Scheduled, Conditional,  \* services of that kind; with a file condition
  Requires,        \* names each service requires
  ExitCodeMap,     \* exit-code-map of each service
  ShutdownSeq,     \* start order of the services
  ShutdownMode,    \* "reverse-dep", "dep" or "simultaneous"
  Subreaper,       \* subreaper: true
  MaxOps,          \* bound: control commands, check failures and cron ticks
  MaxOrphans       \* bound: processes reparented to gopherd

ExitAction == {"restart", "shutdown", "success-shutdown", "failure-shutdown", "ignore"}

ASSUME ConstAssumption ==
  /\ NameOf \in [Svc -> Name]
  /\ Loaded \subseteq Svc
  /\ None \notin Svc \cup Pid \cup Gor /\ Gor \subseteq Nat
  /\ {0, 1} \subseteq Code /\ Code \subseteq Nat
  /\ OnSuccess \in [Svc -> ExitAction] /\ OnFailure \in [Svc -> ExitAction]
  /\ CheckAction \in [Svc -> ExitAction \cup {"none"}]
  /\ Oneshot \subseteq Svc /\ Scheduled \subseteq Svc /\ Conditional \subseteq Svc
  /\ Requires \in [Svc -> SUBSET Name]
  /\ ExitCodeMap \in [Svc -> [Code -> Code]]
  /\ ShutdownSeq \in Seq(Name)
  /\ \A i, j \in DOMAIN ShutdownSeq : ShutdownSeq[i] = ShutdownSeq[j] => i = j  \* each name once
  /\ ShutdownMode \in {"reverse-dep", "dep", "simultaneous"}
  /\ Subreaper \in BOOLEAN
  /\ MaxOps \in Nat /\ MaxOrphans \in Nat
  /\ \A T \in SUBSET Svc : Cardinality(T) \in Nat  \* finitely many services
  /\ \A s, t \in Loaded : NameOf[s] = NameOf[t] => s = t

VARIABLES
  proc,            \* kernel: "free", "alive", "term" (stop signal sent), "zombie"
  pid, stopped,    \* service.Service: Pid/running/done, stopped
  services,        \* d.services, as the set of current objects
  pidMap, restartPending, pendingRestarts,
  shuttingDown, exitCode, childStarted,
  mu,              \* the starter holding d.mu between check and fork, or None
  gor,             \* goroutines, see Goroutine
  reap,            \* the reap loop: pc, and the pid and code Wait4 returned
  sd,              \* the winning initiateShutdown: pc, code, names left, channels awaited
  trigger,         \* codes of initiateShutdown calls whose CAS has not run yet
  up, skipped,     \* metrics: names shown up; names with a skip reason
  ops, orphans     \* operations and orphans left, see MaxOps and MaxOrphans

svcVars == <<pid, stopped>>
mainVars == <<services, pidMap, restartPending, pendingRestarts>>
metricVars == <<up, skipped>>
bounds == <<ops, orphans>>
vars == <<proc, svcVars, mainVars, shuttingDown, exitCode, childStarted, mu,
          gor, reap, sd, trigger, metricVars, bounds>>

GorPc == {"free", "send", "wait", "start", "fork", "fail", "shut",
          "stop", "stopwait"}
ReapPc == {"wait4", "echild", "pend", "idle", "got", "unmanaged", "prestore",
           "drain", "ctrl", "senders", "closed", "exited"}
SdPc == {"off", "store", "stop", "wait", "done"}

Goroutine == {r \in [pc : GorPc, svc : Svc \cup {None}, ch : Pid \cup {None}, restart : BOOLEAN] :
                r.pc = "free" \/ r.svc \in Svc}
Idle == [pc |-> "free", svc |-> None, ch |-> None, restart |-> FALSE]

ReapState == [pc : ReapPc, pid : Pid \cup {None}, code : Code]
ShutdownState == [pc : SdPc, code : Code, seq : Seq(Name), chs : SUBSET Pid]

TypeOK ==
  /\ proc \in [Pid -> {"free", "alive", "term", "zombie"}]
  /\ pid \in [Svc -> Pid \cup {None}] /\ stopped \in [Svc -> BOOLEAN]
  /\ services \subseteq Svc
  /\ pidMap \in [Pid -> Svc \cup {None}]
  /\ restartPending \subseteq Name /\ pendingRestarts \in Int
  /\ shuttingDown \in BOOLEAN /\ exitCode \in Code /\ childStarted \in BOOLEAN
  /\ mu \in Gor \cup {None}
  /\ gor \in [Gor -> Goroutine]
  /\ reap \in ReapState
  /\ sd \in ShutdownState
  /\ trigger \subseteq Code
  /\ up \subseteq Name /\ skipped \subseteq Name
  /\ ops \in Nat /\ orphans \in Nat

(***************************************************************************)
(* The daemon when the reap loop starts: boot has started some of the      *)
(* loaded services (others are disabled, scheduled, skipped or finished).  *)
(***************************************************************************)
Init ==
  /\ pid \in [Svc -> Pid \cup {None}]
  /\ \A s \in Svc : pid[s] # None => s \in Loaded
  /\ \A s, t \in Svc : pid[s] = pid[t] /\ pid[s] # None => s = t
  /\ pidMap \in [Pid -> Svc \cup {None}]
  /\ \A p \in Pid, s \in Svc : pidMap[p] = s <=> pid[s] = p
  /\ proc = [p \in Pid |-> IF pidMap[p] = None THEN "free" ELSE "alive"]
  /\ stopped = [s \in Svc |-> FALSE]
  /\ services = Loaded
  /\ restartPending = {} /\ pendingRestarts = 0
  /\ shuttingDown = FALSE /\ exitCode = 0 /\ childStarted = FALSE
  /\ mu = None
  /\ gor = [g \in Gor |-> Idle]
  /\ reap = [pc |-> "wait4", pid |-> None, code |-> 0]
  /\ sd = [pc |-> "off", code |-> 0, seq |-> <<>>, chs |-> {}]
  /\ trigger = {}
  /\ up = {NameOf[s] : s \in {t \in Svc : pid[t] # None}} /\ skipped = {}
  /\ ops = MaxOps /\ orphans = MaxOrphans

-----------------------------------------------------------------------------
(* service.Service                                                         *)

IsRunning(s) == pid[s] # None
Done(s) == pid[s]

(* Stop() on each service of T: sets the stopped flag and signals the      *)
(* group of a running service.                                             *)
Stop(T) ==
  /\ stopped' = [s \in Svc |-> stopped[s] \/ (s \in T /\ IsRunning(s))]
  /\ proc' = [p \in Pid |-> IF proc[p] = "alive" /\ \E s \in T : pid[s] = p
                            THEN "term" ELSE proc[p]]

(* New goroutines take the lowest n free slots.                            *)
FreeGor(n) ==
  LET free == {g \in Gor : gor[g].pc = "free"}
  IN  {g \in free : Cardinality({h \in free : h < g}) < n}

(* Every holder of channel c sees it closed.                               *)
CloseGorMut(c) == gor  \* close(done) forgotten
CloseGor(c) == [g \in Gor |-> IF gor[g].ch = c THEN [gor[g] EXCEPT !.ch = None] ELSE gor[g]]
CloseSd(c) == [sd EXCEPT !.chs = @ \ {c}]

-----------------------------------------------------------------------------
(* The kernel                                                              *)

(* A child exits, on its own or because of a signal.                       *)
ProcExit(p) ==
  /\ proc[p] \in {"alive", "term"}
  /\ proc' = [proc EXCEPT ![p] = "zombie"]
  /\ UNCHANGED <<svcVars, mainVars, shuttingDown, exitCode, childStarted, mu,
                 gor, reap, sd, trigger, metricVars, bounds>>

(* The pids fork may return.  The kernel hands pids out cyclically, so one *)
(* that Wait4 has just freed is not reused before the reap loop has looked *)
(* it up.                                                                  *)
FreePid(p) == proc[p] = "free" /\ ~(reap.pc = "got" /\ reap.pid = p)

(* A process gopherd did not start becomes its child.                      *)
Reparent(p) ==
  /\ orphans > 0 /\ orphans' = orphans - 1
  /\ FreePid(p)
  /\ proc' = [proc EXCEPT ![p] = "alive"]
  /\ UNCHANGED <<svcVars, mainVars, shuttingDown, exitCode, childStarted, mu,
                 gor, reap, sd, trigger, metricVars, ops>>

-----------------------------------------------------------------------------
(* startService, run by a restart handler or a control/scheduler goroutine *)

(* The goroutine is finished: a restart handler settles its request.       *)
Settle(g) ==
  /\ gor' = [gor EXCEPT ![g] = Idle]
  /\ pendingRestarts' = pendingRestarts - (IF gor[g].restart THEN 1 ELSE 0)

(* The file condition is unmet: the start is refused and recorded.         *)
StartSkipped(g) ==
  /\ gor[g].pc = "start" /\ gor[g].svc \in Conditional
  /\ skipped' = skipped \cup {NameOf[gor[g].svc]}
  /\ Settle(g)
  /\ UNCHANGED <<proc, svcVars, services, pidMap, restartPending, shuttingDown,
                 exitCode, childStarted, mu, reap, sd, trigger, up, bounds>>

(* A failed PrepareStart or FinishStart: a restart handler shuts the       *)
(* daemon down, the other callers report the error.                        *)
StartError(g) ==
  /\ gor[g].pc \in {"start", "fork"}
  /\ mu' = IF mu = g THEN None ELSE mu
  /\ IF gor[g].restart
     THEN gor' = [gor EXCEPT ![g].pc = "fail"] /\ UNCHANGED pendingRestarts
     ELSE Settle(g)
  /\ UNCHANGED <<proc, svcVars, services, pidMap, restartPending, shuttingDown,
                 exitCode, childStarted, reap, sd, trigger, metricVars, bounds>>

(* Under d.mu: shutting down, replaced by a reload, or already running.    *)
StartRefusedMutRunning(s) == shuttingDown \/ s \notin services   \* no IsRunning recheck
StartRefusedMutShutdown(s) == s \notin services \/ IsRunning(s)  \* no shuttingDown check
StartRefused(s) == shuttingDown \/ s \notin services \/ IsRunning(s)

StartCheck(g) ==
  /\ gor[g].pc = "start" /\ mu = None
  /\ IF StartRefused(gor[g].svc)
     THEN Settle(g) /\ UNCHANGED mu
     ELSE /\ mu' = g
          /\ gor' = [gor EXCEPT ![g].pc = "fork"]
          /\ UNCHANGED pendingRestarts
  /\ UNCHANGED <<proc, svcVars, services, pidMap, restartPending, shuttingDown,
                 exitCode, childStarted, reap, sd, trigger, metricVars, bounds>>

(* wakeReapLoop: a one-slot channel, sent to without blocking.             *)
WakeReapLoopMut == UNCHANGED childStarted  \* wakeReapLoop forgotten
WakeReapLoop == childStarted' = TRUE

FinishStart(s, p) ==
  /\ FreePid(p)
  /\ proc' = [proc EXCEPT ![p] = "alive"]
  /\ pid' = [pid EXCEPT ![s] = p]
  /\ stopped' = [stopped EXCEPT ![s] = FALSE]

(* FinishStart, the pidMap entry, ServiceStarted, the unlock and           *)
(* wakeReapLoop.                                                           *)
Fork(g, p) ==
  LET s == gor[g].svc IN
  /\ gor[g].pc = "fork"
  /\ FinishStart(s, p)
  /\ pidMap' = [pidMap EXCEPT ![p] = s]
  /\ up' = up \cup {NameOf[s]} /\ skipped' = skipped \ {NameOf[s]}
  /\ mu' = None
  /\ WakeReapLoop
  /\ Settle(g)
  /\ UNCHANGED <<services, restartPending, shuttingDown, exitCode, reap, sd,
                 trigger, bounds>>

-----------------------------------------------------------------------------
(* Restart requests                                                        *)

(* Enqueue one restart request per service of T, each on its own tracked   *)
(* sender, with the done channel captured before Stop.                     *)
Request(s, c) == [pc |-> "send", svc |-> s, ch |-> c, restart |-> TRUE]
Enqueue(T) ==
  /\ \E slot \in [T -> FreeGor(Cardinality(T))] :
       /\ \A s, t \in T : slot[s] = slot[t] => s = t
       /\ gor' = [g \in Gor |-> IF \E s \in T : slot[s] = g
                                THEN LET s == CHOOSE s \in T : slot[s] = g IN Request(s, Done(s))
                                ELSE gor[g]]
  /\ pendingRestarts' = pendingRestarts + Cardinality(T)

(* markRestartPending, for the services that will exit because of it.      *)
MarkRestartPendingMut(T) == restartPending' = restartPending \cup {NameOf[s] : s \in T}  \* running or not
MarkRestartPending(T) ==
  restartPending' = restartPending \cup {NameOf[s] : s \in {t \in T : IsRunning(t)}}

(* Stop the running services of T, mark their exit as part of a restart    *)
(* and enqueue a request for each service of T.                            *)
StopAndEnqueue(T) == Stop(T) /\ MarkRestartPending(T) /\ Enqueue(T)

(* The send completes and the dispatcher spawns the handler.               *)
Dispatch(g) ==
  /\ gor[g].pc = "send"
  /\ gor' = [gor EXCEPT ![g].pc = "wait"]
  /\ UNCHANGED <<proc, svcVars, mainVars, shuttingDown, exitCode, childStarted,
                 mu, reap, sd, trigger, metricVars, bounds>>

(* handleRestartReq up to startService: the exit it waits for has been     *)
(* observed; the backoff sleep is the time this step is not taken.         *)
HandleRestartReq(g) ==
  /\ gor[g].pc = "wait" /\ gor[g].ch = None
  /\ IF IsRunning(gor[g].svc)
     THEN Settle(g)
     ELSE gor' = [gor EXCEPT ![g].pc = "start"] /\ UNCHANGED pendingRestarts
  /\ UNCHANGED <<proc, svcVars, services, pidMap, restartPending, shuttingDown,
                 exitCode, childStarted, mu, reap, sd, trigger, metricVars, bounds>>

-----------------------------------------------------------------------------
(* Shutdown                                                                *)

(* initiateShutdown: the CAS, and close(shutdownCh), by the one winner.    *)
InitiateShutdown(code) ==
  /\ ~shuttingDown /\ shuttingDown' = TRUE
  /\ sd' = [sd EXCEPT !.pc = "store", !.code = code]

(* A signal of the shutdown set.                                           *)
SigShutdown ==
  /\ InitiateShutdown(0)
  /\ UNCHANGED <<proc, svcVars, mainVars, exitCode, childStarted, mu, gor, reap,
                 trigger, metricVars, bounds>>

(* A goroutine spawned by the reap loop or a checker; the losers of the    *)
(* CAS return.                                                             *)
Trigger(code) ==
  /\ code \in trigger
  /\ trigger' = trigger \ {code}
  /\ \/ InitiateShutdown(code)
     \/ shuttingDown /\ UNCHANGED <<shuttingDown, sd>>
  /\ UNCHANGED <<proc, svcVars, mainVars, exitCode, childStarted, mu, gor, reap,
                 metricVars, bounds>>

(* The restart handler whose start failed calls initiateShutdown(1).       *)
RestartFailed(g) ==
  /\ gor[g].pc = "fail"
  /\ InitiateShutdown(1)
  /\ gor' = [gor EXCEPT ![g].pc = "shut"]
  /\ UNCHANGED <<proc, svcVars, mainVars, exitCode, childStarted, mu, reap,
                 trigger, metricVars, bounds>>

(* ... which returns when it lost the CAS, or when stopAll has returned.   *)
RestartGivenUp(g) ==
  /\ \/ gor[g].pc = "fail" /\ shuttingDown
     \/ gor[g].pc = "shut" /\ sd.pc = "done"
  /\ Settle(g)
  /\ UNCHANGED <<proc, svcVars, services, pidMap, restartPending, shuttingDown,
                 exitCode, childStarted, mu, reap, sd, trigger, metricVars, bounds>>

Reverse(seq) == [i \in 1..Len(seq) |-> seq[Len(seq) + 1 - i]]
StopSeq == IF ShutdownMode = "reverse-dep" THEN Reverse(ShutdownSeq) ELSE ShutdownSeq

StoreExitCode ==
  /\ sd.pc = "store"
  /\ exitCode' = sd.code
  /\ sd' = [sd EXCEPT !.pc = "stop", !.seq = StopSeq]
  /\ UNCHANGED <<proc, svcVars, mainVars, shuttingDown, childStarted, mu, gor,
                 reap, trigger, metricVars, bounds>>

(* The positions of the remaining sequence that name a running service.    *)
Stoppable(n) == \E s \in services : NameOf[s] = n /\ IsRunning(s)
FirstStoppable(seq, i) ==
  i \in DOMAIN seq /\ Stoppable(seq[i]) /\ \A j \in 1..(i - 1) : ~Stoppable(seq[j])

(* stopSequential: stop the next running service of the order, or, past    *)
(* the order, any other running service, and release d.mu.                 *)
StopOne(s, rest) ==
  /\ Stop({s})
  /\ sd' = [sd EXCEPT !.pc = "wait", !.seq = rest, !.chs = {Done(s)}]

StopSequential ==
  /\ ShutdownMode # "simultaneous"
  /\ \E s \in services :
       /\ IsRunning(s)
       /\ \/ \E i \in DOMAIN sd.seq :
               /\ FirstStoppable(sd.seq, i) /\ sd.seq[i] = NameOf[s]
               /\ StopOne(s, SubSeq(sd.seq, i + 1, Len(sd.seq)))
          \/ /\ \A i \in DOMAIN sd.seq : ~Stoppable(sd.seq[i])
             /\ StopOne(s, <<>>)

RunningDone == {Done(s) : s \in {t \in services : IsRunning(t)}}

StopSimultaneous ==
  /\ ShutdownMode = "simultaneous"
  /\ \E s \in services : IsRunning(s)
  /\ Stop(services)
  /\ sd' = [sd EXCEPT !.pc = "wait", !.chs = RunningDone]

StopAll ==
  /\ sd.pc = "stop" /\ mu = None
  /\ \/ StopSequential
     \/ StopSimultaneous
     \/ /\ \A s \in services : ~IsRunning(s)
        /\ sd' = [sd EXCEPT !.pc = "done"] /\ UNCHANGED <<proc, stopped>>
  /\ UNCHANGED <<pid, mainVars, shuttingDown, exitCode, childStarted, mu, gor,
                 reap, trigger, metricVars, bounds>>

(* <-done (and WaitGroupExit, see ProcessGroup): every channel is closed.  *)
AllClosedMut == TRUE  \* the next service is stopped without waiting
AllClosed == sd.chs = {}

StopAllWait ==
  /\ sd.pc = "wait" /\ AllClosed
  /\ sd' = [sd EXCEPT !.pc = IF ShutdownMode = "simultaneous" THEN "done" ELSE "stop"]
  /\ UNCHANGED <<proc, svcVars, mainVars, shuttingDown, exitCode, childStarted,
                 mu, gor, reap, trigger, metricVars, bounds>>

-----------------------------------------------------------------------------
(* Control socket, scheduler and check callbacks                           *)

Op == ops > 0 /\ ops' = ops - 1 /\ UNCHANGED orphans
Spawn(g, pc, s, c) ==
  /\ g \in FreeGor(1)
  /\ gor' = [gor EXCEPT ![g] = [pc |-> pc, svc |-> s, ch |-> c, restart |-> FALSE]]

(* StartFn, or a cron tick of a scheduled service, unless it is running.   *)
StartFn(g, s) ==
  /\ Op /\ s \in services /\ ~IsRunning(s)
  /\ Spawn(g, "start", s, None)
  /\ UNCHANGED <<proc, svcVars, mainVars, shuttingDown, exitCode, childStarted,
                 mu, reap, sd, trigger, metricVars>>

(* StopFn with --wait: capture done, then Stop, then wait.  No step holds  *)
(* d.mu.                                                                   *)
StopFn(g, s) ==
  /\ Op /\ s \in services /\ IsRunning(s)
  /\ Spawn(g, "stop", s, Done(s))
  /\ UNCHANGED <<proc, svcVars, mainVars, shuttingDown, exitCode, childStarted,
                 mu, reap, sd, trigger, metricVars>>

StopFnStop(g) ==
  /\ gor[g].pc = "stop"
  /\ Stop({gor[g].svc})
  /\ gor' = [gor EXCEPT ![g].pc = "stopwait"]
  /\ UNCHANGED <<pid, mainVars, shuttingDown, exitCode, childStarted, mu, reap,
                 sd, trigger, metricVars, bounds>>

(* waitExit: the reply "stopped".                                          *)
StopFnReply(g) ==
  /\ gor[g].pc = "stopwait" /\ gor[g].ch = None
  /\ gor' = [gor EXCEPT ![g] = Idle]
  /\ UNCHANGED <<proc, svcVars, mainVars, shuttingDown, exitCode, childStarted,
                 mu, reap, sd, trigger, metricVars, bounds>>

(* waitExit: shutdown began or --timeout expired.                          *)
StopFnGiveUp(g) ==
  /\ gor[g].pc = "stopwait"
  /\ gor' = [gor EXCEPT ![g] = Idle]
  /\ UNCHANGED <<proc, svcVars, mainVars, shuttingDown, exitCode, childStarted,
                 mu, reap, sd, trigger, metricVars, bounds>>

(* RestartFn without --wait and without dependents.                        *)
RestartFn(s) ==
  /\ Op /\ mu = None
  /\ s \in services /\ ~shuttingDown
  /\ StopAndEnqueue({s})
  /\ UNCHANGED <<pid, services, pidMap, shuttingDown, exitCode, childStarted, mu,
                 reap, sd, trigger, metricVars>>

(* handleCheckFailure: the services are visited in map order, and the      *)
(* first shutdown action ends the visit, so T is then any subset of the    *)
(* services to restart.                                                    *)
ToRestart == {s \in services : CheckAction[s] = "restart"}
ShutdownCode(action) == IF action = "success-shutdown" THEN 0 ELSE 1

HandleCheckFailure ==
  /\ Op /\ mu = None /\ ~shuttingDown
  /\ \/ /\ \A s \in services : CheckAction[s] \in {"none", "ignore", "restart"}
        /\ StopAndEnqueue(ToRestart)
        /\ UNCHANGED trigger
     \/ \E s \in services, T \in SUBSET ToRestart :
          /\ CheckAction[s] \notin {"none", "ignore", "restart"}
          /\ StopAndEnqueue(T)
          /\ trigger' = trigger \cup {ShutdownCode(CheckAction[s])}
  /\ UNCHANGED <<pid, services, pidMap, shuttingDown, exitCode, childStarted, mu,
                 reap, sd, metricVars>>

-----------------------------------------------------------------------------
(* The reap loop                                                           *)

Goto(pc) == reap' = [reap EXCEPT !.pc = pc, !.pid = None, !.code = 0]

Wait4(p) ==
  /\ reap.pc = "wait4" /\ proc[p] = "zombie"
  /\ proc' = [proc EXCEPT ![p] = "free"]
  /\ \E c \in Code : reap' = [pc |-> "got", pid |-> p, code |-> c]
  /\ UNCHANGED <<svcVars, mainVars, shuttingDown, exitCode, childStarted, mu,
                 gor, sd, trigger, metricVars, bounds>>

(* Wait4 returns ECHILD; the flags are read after it returned.             *)
EChild ==
  /\ reap.pc = "wait4" /\ \A p \in Pid : proc[p] = "free"
  /\ Goto("echild")
  /\ UNCHANGED <<proc, svcVars, mainVars, shuttingDown, exitCode, childStarted,
                 mu, gor, sd, trigger, metricVars, bounds>>

EChildBranchMut ==  \* shutdown is not seen on ECHILD
  IF pendingRestarts > 0 THEN "pend" ELSE "idle"
EChildBranch ==
  IF shuttingDown THEN "drain" ELSE IF pendingRestarts > 0 THEN "pend" ELSE "idle"

EChildNext ==
  /\ reap.pc = "echild"
  /\ Goto(EChildBranch)
  /\ UNCHANGED <<proc, svcVars, mainVars, shuttingDown, exitCode, childStarted,
                 mu, gor, sd, trigger, metricVars, bounds>>

(* The selects of the ECHILD path: a wake-up token, the closed shutdownCh, *)
(* or the timer (250ms with a restart in flight, 1s as subreaper).         *)
TimerSet == reap.pc = "pend" \/ Subreaper

Wake ==
  /\ reap.pc \in {"pend", "idle"}
  /\ \/ childStarted /\ childStarted' = FALSE
     \/ (shuttingDown \/ TimerSet) /\ UNCHANGED childStarted
  /\ Goto("wait4")
  /\ UNCHANGED <<proc, svcVars, mainVars, shuttingDown, exitCode, mu, gor, sd,
                 trigger, metricVars, bounds>>

(* An unmanaged child: its status goes to the probe registry (see Reaper). *)
ReapUnmanaged ==
  /\ reap.pc = "got" /\ mu = None /\ pidMap[reap.pid] = None
  /\ Goto("unmanaged")
  /\ UNCHANGED <<proc, svcVars, mainVars, shuttingDown, exitCode, childStarted,
                 mu, gor, sd, trigger, metricVars, bounds>>

NoneMapped(m) == \A p \in Pid : m[p] = None

UnmanagedNext ==
  /\ reap.pc = "unmanaged"
  /\ \/ ~shuttingDown /\ Goto("wait4")
     \/ /\ shuttingDown /\ mu = None
        /\ Goto(IF NoneMapped(pidMap) THEN "drain" ELSE "wait4")
  /\ UNCHANGED <<proc, svcVars, mainVars, shuttingDown, exitCode, childStarted,
                 mu, gor, sd, trigger, metricVars, bounds>>

(* The action an exit with (effective) code takes.                         *)
ActionOf(s, code) ==
  CASE stopped[s] \/ s \in Scheduled -> "ignore"
    [] s \in Oneshot /\ code = 0     -> "ignore"
    [] OTHER -> IF code = 0 THEN OnSuccess[s] ELSE OnFailure[s]

(* The running dependents a failing service takes down.                    *)
Cascade(s, code) ==
  IF stopped[s] \/ s \in Scheduled \cup Oneshot \/ code = 0 THEN {}
  ELSE {t \in services : NameOf[s] \in Requires[t] /\ IsRunning(t) /\ t # s}

ExitRecordedMut(n) == UNCHANGED up  \* the up flag is not cleared
ExitRecorded(n) == up' = up \ {n}

TakeRestartPending(n) == restartPending' = restartPending \ {n}

(* A managed child has exited: the critical section of the reap loop, and  *)
(* the step of the action that follows the unlock where no other goroutine *)
(* can tell the two apart.                                                 *)
ReapManaged(s) ==
  LET n == NameOf[s]
      code == ExitCodeMap[s][reap.code]
      eff == IF stopped[s] /\ code > 128 THEN 0 ELSE code
      action == ActionOf(s, eff)
      consumed == n \in restartPending IN
  /\ reap.pc = "got" /\ mu = None /\ pidMap[reap.pid] = s
  /\ pidMap' = [pidMap EXCEPT ![reap.pid] = None]
  /\ pid' = [pid EXCEPT ![s] = None]
  /\ sd' = CloseSd(Done(s))
  /\ TakeRestartPending(n)
  /\ \/ /\ shuttingDown
        /\ IF consumed THEN UNCHANGED up ELSE ExitRecorded(n)
        /\ Goto(IF NoneMapped(pidMap') THEN "drain" ELSE "wait4")
        /\ gor' = CloseGor(Done(s))
        /\ UNCHANGED <<proc, stopped, pendingRestarts, trigger>>
     \/ /\ ~shuttingDown
        /\ Stop(Cascade(s, eff))
        /\ IF consumed \/ action = "restart" THEN UNCHANGED up ELSE ExitRecorded(n)
        /\ \/ /\ action = "restart"
              /\ \E g \in FreeGor(1) : gor' = [CloseGor(Done(s)) EXCEPT ![g] = Request(s, None)]
              /\ pendingRestarts' = pendingRestarts + 1
              /\ Goto("wait4") /\ UNCHANGED trigger
           \/ /\ action # "restart"
              /\ gor' = CloseGor(Done(s)) /\ UNCHANGED pendingRestarts
              /\ \/ /\ action \in {"shutdown", "failure-shutdown"}
                    /\ reap' = [reap EXCEPT !.pc = "prestore", !.pid = None, !.code = eff]
                    /\ UNCHANGED trigger
                 \/ /\ action = "success-shutdown"
                    /\ trigger' = trigger \cup {0} /\ Goto("wait4")
                 \/ /\ action = "ignore"
                    /\ Goto("wait4") /\ UNCHANGED trigger
  /\ UNCHANGED <<services, shuttingDown, exitCode, childStarted, mu, skipped, bounds>>

(* After the unlock: exitCode.CompareAndSwap(0, code), and the goroutine.  *)
PreStore ==
  /\ reap.pc = "prestore"
  /\ exitCode' = IF exitCode = 0 THEN reap.code ELSE exitCode
  /\ trigger' = trigger \cup {reap.code}
  /\ Goto("wait4")
  /\ UNCHANGED <<proc, svcVars, mainVars, shuttingDown, childStarted, mu, gor,
                 sd, metricVars, bounds>>

(* After the loop: wait for stopAll, for the control handlers, for the     *)
(* tracked senders; close(restartCh); return.                              *)
Control == {g \in Gor : gor[g].pc # "free" /\ ~gor[g].restart /\ gor[g].svc \notin Scheduled}

SendersDoneMut == TRUE  \* no senderWg.Wait
SendersDone == \A g \in Gor : gor[g].pc # "send"

TearDown ==
  /\ \/ reap.pc = "drain" /\ sd.pc = "done" /\ Goto("ctrl")
     \/ reap.pc = "ctrl" /\ Control = {} /\ Goto("senders")
     \/ reap.pc = "senders" /\ SendersDone /\ Goto("closed")
     \/ reap.pc = "closed" /\ Goto("exited")
  /\ UNCHANGED <<proc, svcVars, mainVars, shuttingDown, exitCode, childStarted,
                 mu, gor, sd, trigger, metricVars, bounds>>

-----------------------------------------------------------------------------
(* The specification.  Nothing runs once run() has returned.               *)

Environment ==
  \/ \E p \in Pid : ProcExit(p) \/ Reparent(p)
  \/ SigShutdown
  \/ HandleCheckFailure
  \/ \E s \in Svc : RestartFn(s) \/ \E g \in Gor : StartFn(g, s) \/ StopFn(g, s)

StartService(g) == StartSkipped(g) \/ StartError(g) \/ StartCheck(g) \/ \E p \in Pid : Fork(g, p)
Handler(g) == HandleRestartReq(g) \/ RestartFailed(g) \/ RestartGivenUp(g)
Stopper(g) == StopFnStop(g) \/ StopFnReply(g) \/ StopFnGiveUp(g)
Goroutines(g) == Dispatch(g) \/ Handler(g) \/ StartService(g) \/ Stopper(g)
Shutdown == StoreExitCode \/ StopAll \/ StopAllWait
ReapLoop ==
  \/ \E p \in Pid : Wait4(p)
  \/ EChild \/ EChildNext \/ Wake
  \/ ReapUnmanaged \/ UnmanagedNext
  \/ \E s \in Svc : ReapManaged(s)
  \/ PreStore \/ TearDown

Step ==
  \/ Environment
  \/ \E g \in Gor : Goroutines(g)
  \/ \E c \in Code : Trigger(c)
  \/ Shutdown
  \/ ReapLoop

Up == reap.pc # "exited"
Next == Up /\ Step

Spec == Init /\ [][Next]_vars

(* The Go scheduler runs every goroutine that can run; a process that was  *)
(* sent its stop signal exits, since kill-delay ends in SIGKILL; wait4(-1) *)
(* takes the oldest exited child first, so none is passed over for ever.   *)
(* Children that were not stopped, orphans and clients owe nothing.        *)
Fairness ==
  /\ \A p \in Pid : SF_vars(Up /\ Wait4(p))
  /\ \A p \in Pid : WF_vars(Up /\ proc[p] = "term" /\ ProcExit(p))
  /\ \A g \in Gor : WF_vars(Up /\ Goroutines(g))
  /\ \A c \in Code : WF_vars(Up /\ Trigger(c))
  /\ WF_vars(Up /\ Shutdown)
  /\ WF_vars(Up /\ ReapLoop)

FairSpec == Spec /\ Fairness

-----------------------------------------------------------------------------
(* Safety                                                                  *)

(* Every process in pidMap is the current run of its service, and every    *)
(* run is in pidMap: no start ever forks a second process over a live one  *)
(* (startService rechecks IsRunning under d.mu), and no run is lost track  *)
(* of.                                                                     *)
OneRunPerService ==
  /\ \A p \in Pid : pidMap[p] # None => pid[pidMap[p]] = p
  /\ \A s \in Svc : IsRunning(s) => pidMap[pid[s]] = s

(* A done channel somebody waits on belongs to a run that is still         *)
(* tracked, so reaping that run closes it: no restart handler, stop client *)
(* or stopAll waits on a channel nobody will close.                        *)
AwaitedRunsAreTracked ==
  /\ \A g \in Gor : gor[g].ch # None => \E s \in Svc : pid[s] = gor[g].ch
  /\ \A c \in sd.chs : \E s \in Svc : pid[s] = c

(* A restart-pending mark always has the exit it is meant for still to     *)
(* come: the service is running and has been told to stop, so the mark     *)
(* cannot swallow the metric of a later, genuine crash.                    *)
RestartMarkHasItsExit ==
  \A n \in restartPending : \E s \in Svc : NameOf[s] = n /\ IsRunning(s) /\ stopped[s]

(* Nothing is sent on restartCh after run() closed it (a panic in PID 1).  *)
RestartChClosed == reap.pc \in {"closed", "exited"}
NoSendOnClosedChannel == RestartChClosed => \A g \in Gor : gor[g].pc # "send"

(* Once run() has seen stopAll finish, no service is running: gopherd does *)
(* not exit over a live service.                                           *)
NoServiceOutlivesDaemon ==
  reap.pc \in {"ctrl", "senders", "closed", "exited"} => \A p \in Pid : pidMap[p] = None

(* Metrics: a running service is never shown down, and one shown up is     *)
(* running, or has a restart in flight, or was refused by its condition on *)
(* that restart, or the daemon is shutting down.                           *)
UpIsAccountedFor ==
  /\ \A s \in Svc : IsRunning(s) => NameOf[s] \in up
  /\ \A n \in up :
       \/ \E s \in Svc : NameOf[s] = n /\ IsRunning(s)
       \/ \E g \in Gor : gor[g].restart /\ NameOf[gor[g].svc] = n
       \/ n \in skipped
       \/ shuttingDown

(* stopAll in a sequential mode stops a service only when every service    *)
(* before it in the shutdown order is down.                                *)
StopOrderRespected ==
  [][\A s, t \in services, i, j \in DOMAIN StopSeq :
       /\ sd.pc = "stop" /\ sd'.pc = "wait" /\ ShutdownMode # "simultaneous"
       /\ Done(s) \in sd'.chs /\ StopSeq[j] = NameOf[s]
       /\ StopSeq[i] = NameOf[t] /\ i < j
       => ~IsRunning(t)]_vars

-----------------------------------------------------------------------------
(* The inductive invariant behind the safety invariants                    *)

(* pidMap and the services' own pids agree, and a mapped pid is not free   *)
(* for a fork to return.                                                   *)
Tracking ==
  /\ \A p \in Pid, s \in Svc : pidMap[p] = s <=> pid[s] = p
  /\ \A p \in Pid : pidMap[p] # None => ~FreePid(p)
  /\ reap.pc = "got" => reap.pid \in Pid
  /\ \A s \in Svc : IsRunning(s) => s \in services

(* d.mu is held from the check to the fork, by one starter, and what the   *)
(* check saw of the service still holds at the fork.                       *)
Locking ==
  \A g \in Gor :
    /\ gor[g].pc = "fork" <=> mu = g
    /\ gor[g].pc = "fork" => gor[g].svc \in services /\ ~IsRunning(gor[g].svc)

(* The reap loop has left its loop.                                        *)
LoopLeft == reap.pc \in {"drain", "ctrl", "senders", "closed", "exited"}

(* How far shutdown has come, and what is settled by then.                 *)
ShutdownPhases ==
  /\ shuttingDown => sd.pc # "off"
  /\ sd.pc # "off" => shuttingDown
  /\ LoopLeft => shuttingDown
  /\ sd.pc \in {"wait", "done"} => mu = None
  /\ sd.pc = "wait" /\ ShutdownMode = "simultaneous" =>
       \A s \in Svc : IsRunning(s) => Done(s) \in sd.chs
  /\ sd.pc = "done" => \A s \in Svc : ~IsRunning(s)
  /\ LoopLeft /\ reap.pc # "drain" => sd.pc = "done"

IInv ==
  /\ Tracking /\ Locking /\ ShutdownPhases
  /\ AwaitedRunsAreTracked /\ RestartMarkHasItsExit /\ NoSendOnClosedChannel

-----------------------------------------------------------------------------
(* Liveness                                                                *)

(* Every service that exits is reaped while the loop runs: no start loses  *)
(* the wake-up of an idle loop.                                            *)
ServicesAreReaped ==
  \A p \in Pid : pidMap[p] # None /\ proc[p] = "zombie" ~> proc[p] # "zombie" \/ LoopLeft

(* A restart request is handled once the run it waits for has exited,      *)
(* which it does since that run was stopped.                               *)
RestartsAreHandled ==
  \A g \in Gor : gor[g].pc \in {"send", "wait"} ~> gor[g].pc \notin {"send", "wait"} \/ shuttingDown

(* Shutdown: stop all services, then exit.                                 *)
ShutdownExits == shuttingDown ~> reap.pc = "exited"

(* The two ways the code can miss that (see ShutdownExits): the reap loop  *)
(* left on ECHILD while a start was about to fork, or a child gopherd did  *)
(* not start keeps Wait4 blocked.                                          *)
Stranded ==
  \/ LoopLeft /\ \E p \in Pid : pidMap[p] # None
  \/ ~LoopLeft /\ \E p \in Pid : proc[p] = "alive" /\ pidMap[p] = None
ShutdownExitsUnlessStranded == shuttingDown ~> reap.pc = "exited" \/ Stranded

=============================================================================
