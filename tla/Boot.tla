-------------------------------- MODULE Boot --------------------------------
(***************************************************************************)
(* gopherd's startup, from the configuration file to the reap loop: run()  *)
(* loads the file, orders the services and starts them layer by layer,     *)
(* oneshots first and awaited, the others through their gates, each in a   *)
(* goroutine of its own.  Control clients are served meanwhile.  Until the *)
(* reap loop runs nobody waits for a child that is not a startup oneshot,  *)
(* so a service that has died still counts as running.                     *)
(*                                                                         *)
(* A thread is a gated start: of a service at boot (named like it) or of a *)
(* client.  runs holds one record per fork; svc maps a service to its      *)
(* current run, 0 when it is not running.                                  *)
(***************************************************************************)
EXTENDS Order, Config

CONSTANTS
  Files,           \* configuration files
  Client           \* control clients; each sends one command

Thread == Name \cup Client
Free == "free"

(* A process entry with the names that its fields may hold, and a file     *)
(* with any number of them.                                                *)
ProcessEntry ==
  [name : Name, after : SUBSET Name, before : SUBSET Name, requires : SUBSET Name,
   startup : [template : BOOLEAN, value : STRING], schedule : STRING, actions : BOOLEAN,
   ready : STRING, onCheck : SUBSET STRING, env : BOOLEAN, malformed : BOOLEAN,
   rewrite : SUBSET STRING, entry : BOOLEAN, sd : BOOLEAN, timeout : STRING,
   exitMap : SUBSET Int, ignore : BOOLEAN, cond : BOOLEAN]
ConfigFile == [stop : SUBSET STRING, procs : Seq(ProcessEntry), checks : SUBSET STRING]

(* A thread is a service's or a client's.                                  *)
ASSUME BootAssumption ==
  /\ Name # {} /\ Name \cap Client = {} /\ Free \notin Thread
  /\ Files \subseteq ConfigFile

VARIABLES
  cfg,             \* the configuration file; what it loads to once loaded
  pc, why,         \* where run() is, and why it called log.Fatalf
  at, rest,        \* the layer, and what a loop over it has still to visit
  runs, svc,       \* forked processes; the current one of each service
  awaited, fatal,  \* oneshots whose result is due; whether one failed
  skipped,         \* services an unmet file condition kept down
  th, mu,          \* gated starts, and who of them holds d.mu
  shuttingDown     \* a failed restart has called initiateShutdown

procVars == <<runs, svc>>
bootVars == <<cfg, pc, why, at, rest, awaited, fatal>>
threadVars == <<skipped, th, mu, shuttingDown>>
vars == <<orderVars, procVars, bootVars, threadVars>>

(* A run: forked by runLayerOneshots (by = "oneshot", pid not in pidMap)   *)
(* or by startService for run() ("boot") or a client ("client").  killed:  *)
(* it has a signal that ends it, SIGKILL or the stop signal that SIGKILL   *)
(* follows.  out is what waitOneshot returns, and closed tells that        *)
(* MarkExited has closed its done channel.                                 *)
NewRun(n, by) ==
  [owner |-> n, by |-> by, up |-> TRUE, code |-> 0, ready |-> FALSE, killed |-> FALSE,
   out |-> "none", closed |-> FALSE]
(* The process of a service in the service map that buildServices makes.   *)
Conf(n) == ServiceOf(cfg, n)
Running(n) == svc[n] # 0
Idle == [pc |-> "idle", svc |-> CHOOSE n \in Name : TRUE, run |-> 0, gated |-> TRUE, bounce |-> FALSE]

Init ==
  /\ OrderInit
  /\ cfg \in Files
  /\ pc = "init" /\ why = "none" /\ at = 0 /\ rest = {}
  /\ runs = <<>> /\ svc = [n \in Name |-> 0] /\ awaited = {} /\ fatal = FALSE
  /\ skipped = {} /\ th = [t \in Thread |-> Idle] /\ mu = Free
  /\ shuttingDown = FALSE

Alive == pc \notin {"dead", "loop"}
Serving == pc \in {"oneshots", "collect", "services", "next"}

(* log.Fatalf: gopherd exits as it is.                                     *)
Fatalf(reason) == pc' = "dead" /\ why' = reason

-----------------------------------------------------------------------------
(* run() until the first service                                           *)

Load ==
  /\ pc = "init" /\ phase = "load"
  /\ \/ /\ Rejected(cfg) \/ EntrypointClash(Loaded(cfg))
        /\ Fatalf("config") /\ UNCHANGED <<cfg, services, phase>>
     \/ /\ ~Rejected(cfg) /\ ~EntrypointClash(Loaded(cfg))
        /\ cfg' = Loaded(cfg)
        /\ services' = buildOrderServices(cfg') /\ phase' = "edges"
        /\ UNCHANGED <<pc, why>>
  /\ UNCHANGED <<err, cycled, inDegree, seeded, queue, head, todo, layers>>
  /\ UNCHANGED <<at, rest, awaited, fatal, procVars, threadVars>>

SortAndLayer == pc = "init" /\ OrderNext /\ UNCHANGED <<procVars, bootVars, threadVars>>

OrderFailed ==
  /\ pc = "init" /\ phase = "failed"
  /\ Fatalf("order")
  /\ UNCHANGED <<orderVars, procVars, threadVars, cfg, at, rest, awaited, fatal>>

(* buildServices may refuse a field, and the control socket may be held.   *)
Build ==
  /\ pc = "init" /\ phase = "ordered"
  /\ \/ pc' = "next" /\ UNCHANGED why
     \/ Fatalf("build")
  /\ UNCHANGED <<orderVars, procVars, threadVars, cfg, at, rest, awaited, fatal>>

NextLayer ==
  /\ pc = "next"
  /\ \/ at < Len(layers) /\ pc' = "oneshots" /\ at' = at + 1 /\ rest' = layers[at + 1]
     \/ at = Len(layers) /\ pc' = "loop" /\ UNCHANGED <<at, rest>>
  /\ UNCHANGED <<orderVars, procVars, threadVars, cfg, why, awaited, fatal>>

-----------------------------------------------------------------------------
(* runLayerOneshots                                                        *)

IsOneshot(n) == Startup(Conf(n)) = "oneshot"
IsService(n) == Startup(Conf(n)) = "enabled"

Fork(n, by) ==
  /\ runs' = Append(runs, NewRun(n, by))
  /\ svc' = [svc EXCEPT ![n] = Len(runs) + 1]

(* SIGKILL to the group of every run in set.                               *)
Kill(set) ==
  runs' = [r \in DOMAIN runs |-> IF r \in set THEN [runs[r] EXCEPT !.killed = TRUE] ELSE runs[r]]

StartOneshot(n) ==
  /\ pc = "oneshots" /\ n \in rest
  /\ rest' = rest \ {n}
  /\ \/ /\ ~IsOneshot(n)
        /\ UNCHANGED <<procVars, awaited, skipped, pc, why>>
     \/ /\ IsOneshot(n) /\ Conf(n).cond
        /\ skipped' = skipped \cup {n}
        /\ UNCHANGED <<procVars, awaited, pc, why>>
     \/ /\ IsOneshot(n) /\ Fork(n, "oneshot")
        /\ awaited' = awaited \cup {Len(runs) + 1}
        /\ UNCHANGED <<skipped, pc, why>>
     \/ /\ IsOneshot(n) /\ Kill(awaited) /\ Fatalf("oneshot")
        /\ UNCHANGED <<svc, awaited, skipped>>
  /\ UNCHANGED <<orderVars, cfg, at, fatal, th, mu, shuttingDown>>

OneshotsStarted ==
  /\ pc = "oneshots" /\ rest = {} /\ pc' = "collect"
  /\ UNCHANGED <<orderVars, procVars, threadVars, cfg, why, at, rest, awaited, fatal>>

(* waitOneshot returns the exit code, or an error once startup-timeout is  *)
(* over or cannot be parsed; its goroutine then kills the group.           *)
WaitOneshot(r) ==
  /\ pc = "collect" /\ r \in awaited /\ runs[r].out = "none"
  /\ LET timeout == Conf(runs[r].owner).timeout
     IN  \/ /\ ~runs[r].up /\ timeout # "bad"
            /\ runs' = [runs EXCEPT ![r].out = "exit"]
         \/ /\ timeout # "none"
            /\ runs' = [runs EXCEPT ![r].out = "err", ![r].killed = TRUE]
  /\ UNCHANGED <<orderVars, bootVars, threadVars, svc>>

(* MarkExited: the service is not running, and its done channel closes.    *)
MarkExited(n) ==
  /\ svc' = [svc EXCEPT ![n] = 0]
  /\ runs' = IF svc[n] = 0 THEN runs ELSE [runs EXCEPT ![svc[n]].closed = TRUE]

RemapExitCode(n, code) == IF code \in Conf(n).exitMap THEN 0 ELSE code

Collect(r) ==
  /\ pc = "collect" /\ r \in awaited /\ runs[r].out # "none"
  /\ awaited' = awaited \ {r}
  /\ LET n == runs[r].owner
     IN  \/ /\ runs[r].out = "err"
            /\ fatal' = TRUE /\ UNCHANGED procVars
         \/ /\ runs[r].out = "exit"
            /\ MarkExited(n)
            /\ fatal' = (fatal \/ (RemapExitCode(n, runs[r].code) # 0 /\ ~Conf(n).ignore))
  /\ UNCHANGED <<orderVars, threadVars, cfg, pc, why, at, rest>>

(* Every oneshot of the layer has reported.                                *)
CollectedMut == pc = "collect" /\ (fatal \/ awaited = {})  \* fails at once
Collected == pc = "collect" /\ awaited = {}

LayerSettled ==
  /\ Collected
  /\ \/ fatal /\ Fatalf("oneshot") /\ UNCHANGED rest
     \/ ~fatal /\ pc' = "services" /\ rest' = layers[at] /\ UNCHANGED why
  /\ UNCHANGED <<orderVars, procVars, threadVars, cfg, at, awaited, fatal>>

-----------------------------------------------------------------------------
(* startLayerNonOneshots                                                   *)

(* A goroutine for every enabled service that does not run yet.            *)
StartService(n) ==
  /\ pc = "services" /\ n \in rest
  /\ rest' = rest \ {n}
  /\ \/ ~IsService(n) /\ UNCHANGED th
     \/ IsService(n) /\ Running(n) /\ UNCHANGED th
     \/ /\ IsService(n) /\ ~Running(n)
        /\ th' = [th EXCEPT ![n] = [Idle EXCEPT !.pc = "gate", !.svc = n]]
  /\ UNCHANGED <<orderVars, procVars, cfg, pc, why, at, awaited, fatal>>
  /\ UNCHANGED <<skipped, mu, shuttingDown>>

(* wg.Wait                                                                 *)
Joined == rest = {} /\ \A n \in Name : th[n].pc \in {"idle", "done"}

ServicesStarted ==
  /\ pc = "services" /\ Joined
  /\ pc' = "next"
  /\ UNCHANGED <<orderVars, procVars, threadVars, cfg, why, at, rest, awaited, fatal>>

-----------------------------------------------------------------------------
(* startGated and startService, one step per lock or wait                  *)

GoTo(t, next) == th' = [th EXCEPT ![t].pc = next]

(* The start fails: fatal at boot, a reply to a client, and a shutdown if  *)
(* the client asked for a restart.                                         *)
Fail(t) ==
  \/ /\ t \in Name
     /\ Fatalf("start") /\ UNCHANGED <<th, shuttingDown>>
  \/ /\ t \in Client /\ ~(th[t].bounce /\ ~shuttingDown)
     /\ GoTo(t, "done") /\ UNCHANGED <<pc, why, shuttingDown>>
  \/ /\ t \in Client /\ th[t].bounce /\ ~shuttingDown
     /\ GoTo(t, "done") /\ shuttingDown' = TRUE /\ UNCHANGED <<pc, why>>

Continue(t, next) == GoTo(t, next) /\ UNCHANGED <<pc, why, shuttingDown>>

(* The ready-check must be defined and pass within ready-timeout.          *)
Gate(t) ==
  /\ Alive /\ th[t].pc = "gate"
  /\ LET check == Conf(th[t].svc).ready
     IN  \/ check = NoCheck /\ Continue(t, "cond")
         \/ check # NoCheck /\ check \in cfg.checks /\ Continue(t, "cond")
         \/ check # NoCheck /\ Fail(t)
  /\ UNCHANGED <<orderVars, procVars, cfg, at, rest, awaited, fatal, skipped, mu>>

(* File conditions and PrepareStart, off d.mu.                             *)
Prepare(t) ==
  /\ Alive /\ th[t].pc = "cond"
  /\ \/ /\ Conf(th[t].svc).cond
        /\ skipped' = skipped \cup {th[t].svc} /\ Continue(t, "done")
     \/ Continue(t, "check") /\ UNCHANGED skipped
     \/ Fail(t) /\ UNCHANGED skipped
  /\ UNCHANGED <<orderVars, procVars, cfg, at, rest, awaited, fatal, mu>>

AfterStart(t) == IF th[t].gated /\ Conf(th[t].svc).sd THEN "listen" ELSE "done"

(* Under d.mu: not during shutdown, and not twice.                         *)
CheckMut(t) ==  \* IsRunning is not checked again under the lock
  \/ shuttingDown /\ Fail(t) /\ UNCHANGED mu
  \/ ~shuttingDown /\ mu' = t /\ Continue(t, "fork")
Check(t) ==
  \/ shuttingDown /\ Fail(t) /\ UNCHANGED mu
  \/ ~shuttingDown /\ Running(th[t].svc) /\ Continue(t, AfterStart(t)) /\ UNCHANGED mu
  \/ ~shuttingDown /\ ~Running(th[t].svc) /\ mu' = t /\ Continue(t, "fork")

Recheck(t) ==
  /\ Alive /\ th[t].pc = "check" /\ mu = Free
  /\ Check(t)
  /\ UNCHANGED <<orderVars, procVars, cfg, at, rest, awaited, fatal, skipped>>

(* d.mu is released on every way out of startService.                      *)
Unlock(t) == mu' = Free

Finish(t) ==
  /\ Alive /\ th[t].pc = "fork" /\ mu = t
  /\ \/ Fork(th[t].svc, IF t \in Name THEN "boot" ELSE "client") /\ Continue(t, AfterStart(t))
     \/ Fail(t) /\ UNCHANGED procVars
  /\ Unlock(t)
  /\ UNCHANGED <<orderVars, cfg, at, rest, awaited, fatal, skipped>>

(* WaitSDNotifyReady: the listener of the current run, if it has one.      *)
Listen(t) ==
  /\ Alive /\ th[t].pc = "listen"
  /\ \/ /\ Running(th[t].svc)
        /\ th' = [th EXCEPT ![t].pc = "sd", ![t].run = svc[th[t].svc]]
        /\ UNCHANGED <<pc, why, shuttingDown>>
     \/ ~Running(th[t].svc) /\ Fail(t)
  /\ UNCHANGED <<orderVars, procVars, cfg, at, rest, awaited, fatal, skipped, mu>>

(* READY=1 arrives, or sd-notify-timeout is over.                          *)
NotifyMut(t) == Continue(t, "done")  \* the result of the wait is dropped
PatientMut(t) == runs[th[t].run].ready /\ Continue(t, "done")  \* without a timeout
Notify(t) ==
  \/ runs[th[t].run].ready /\ Continue(t, "done")
  \/ Fail(t)

AwaitReady(t) ==
  /\ Alive /\ th[t].pc = "sd"
  /\ Notify(t)
  /\ UNCHANGED <<orderVars, procVars, cfg, at, rest, awaited, fatal, skipped, mu>>

-----------------------------------------------------------------------------
(* Control clients during startup                                          *)

Stopped(r) == [runs EXCEPT ![r].killed = TRUE]

(* start, with or without --wait                                           *)
ClientStart(c, n, wait) ==
  /\ Serving /\ th[c].pc = "idle" /\ n \in Names /\ ~Running(n)
  /\ th' = [th EXCEPT ![c] = [Idle EXCEPT !.svc = n, !.gated = wait,
                                          !.pc = IF wait THEN "gate" ELSE "cond"]]
  /\ UNCHANGED <<orderVars, procVars, bootVars, skipped, mu, shuttingDown>>

(* stop: the stop signal, then SIGKILL after kill-delay                    *)
ClientStop(c, n) ==
  /\ Serving /\ th[c].pc = "idle" /\ n \in Names /\ Running(n)
  /\ runs' = Stopped(svc[n]) /\ GoTo(c, "done")
  /\ UNCHANGED <<orderVars, bootVars, svc, skipped, mu, shuttingDown>>

(* restart --wait: stopForRestart, then the exit, then a gated start       *)
ClientRestart(c, n) ==
  /\ Serving /\ th[c].pc = "idle" /\ n \in Names /\ mu = Free /\ ~shuttingDown
  /\ runs' = IF Running(n) THEN Stopped(svc[n]) ELSE runs
  /\ th' = [th EXCEPT ![c] = [Idle EXCEPT !.svc = n, !.bounce = TRUE, !.run = svc[n],
                                          !.pc = "exit"]]
  /\ UNCHANGED <<orderVars, bootVars, svc, skipped, mu, shuttingDown>>

WaitExit(c) ==
  /\ Alive /\ th[c].pc = "exit"
  /\ \/ (th[c].run # 0 => runs[th[c].run].closed) /\ GoTo(c, "gate")
     \/ shuttingDown /\ GoTo(c, "done")
  /\ UNCHANGED <<orderVars, procVars, bootVars, skipped, mu, shuttingDown>>

(* stopAll signals what runs; Supervisor has its order and its waits.      *)
StopAll(n) ==
  /\ Alive /\ shuttingDown /\ mu = Free /\ Running(n) /\ ~runs[svc[n]].killed
  /\ runs' = Stopped(svc[n])
  /\ UNCHANGED <<orderVars, bootVars, threadVars, svc>>

-----------------------------------------------------------------------------
(* The children                                                            *)

ChildExits(r) ==
  /\ Alive /\ runs[r].up
  /\ \E code \in {0, 1} : runs' = [runs EXCEPT ![r].up = FALSE, ![r].code = code]
  /\ UNCHANGED <<orderVars, bootVars, threadVars, svc>>

ChildReady(r) ==
  /\ Alive /\ runs[r].up /\ Conf(runs[r].owner).sd /\ ~runs[r].ready
  /\ runs' = [runs EXCEPT ![r].ready = TRUE]
  /\ UNCHANGED <<orderVars, bootVars, threadVars, svc>>

MainStep ==
  \/ Load \/ SortAndLayer \/ OrderFailed \/ Build \/ NextLayer
  \/ \E n \in Name : StartOneshot(n) \/ StartService(n)
  \/ OneshotsStarted \/ LayerSettled \/ ServicesStarted
  \/ \E r \in DOMAIN runs : Collect(r)

ThreadStep(t) ==
  \/ Gate(t) \/ Prepare(t) \/ Recheck(t) \/ Finish(t) \/ Listen(t) \/ AwaitReady(t)

Next ==
  \/ MainStep
  \/ \E t \in Thread : ThreadStep(t)
  \/ \E r \in DOMAIN runs : WaitOneshot(r) \/ ChildExits(r) \/ ChildReady(r)
  \/ \E c \in Client : WaitExit(c)
  \/ \E c \in Client, n \in Name :
       \/ \E wait \in BOOLEAN : ClientStart(c, n, wait)
       \/ ClientStop(c, n) \/ ClientRestart(c, n)
  \/ \E n \in Name : StopAll(n)

(* The goroutines run and the timers fire; a run that was signalled dies.  *)
Fairness ==
  /\ WF_vars(MainStep)
  /\ \A t \in Thread : WF_vars(ThreadStep(t))
  /\ WF_vars(\E r \in DOMAIN runs : WaitOneshot(r))
  /\ WF_vars(\E r \in DOMAIN runs : runs[r].killed /\ ChildExits(r))

Spec == Init /\ [][Next]_vars /\ Fairness

-----------------------------------------------------------------------------
TypeOK ==
  /\ pc \in {"init", "next", "oneshots", "collect", "services", "loop", "dead"}
  /\ \A n \in Name : svc[n] \in 0..Len(runs) /\ (svc[n] # 0 => runs[svc[n]].owner = n)
  /\ awaited \subseteq DOMAIN runs /\ rest \subseteq Names
  /\ \A t \in Thread : th[t].run \in 0..Len(runs)
  /\ mu = Free \/ th[mu].pc = "fork"

(* A dependency is settled when boot need not wait for it: it is not       *)
(* started at boot, its condition keeps it down, it is a oneshot that      *)
(* completed, or it runs and has said READY if it is to.  A client's run   *)
(* counts without READY: boot does not gate what it finds running.         *)
Settled(m) ==
  \/ ~IsOneshot(m) /\ ~IsService(m)
  \/ m \in skipped
  \/ \E r \in DOMAIN runs :
       /\ runs[r].owner = m
       /\ \/ /\ runs[r].by = "oneshot" /\ runs[r].out = "exit" /\ r \notin awaited
             /\ RemapExitCode(m, runs[r].code) = 0 \/ Conf(m).ignore
          \/ runs[r].by = "boot" /\ IsService(m) /\ (Conf(m).sd => runs[r].ready)
          \/ runs[r].by = "client" /\ IsService(m)

(* startServiceLayers "brings up every enabled service in topological      *)
(* order": what boot forks finds all its dependencies settled, oneshots    *)
(* completed and gates passed.                                             *)
DependenciesFirst ==
  [][Len(runs') > Len(runs) /\ runs'[Len(runs')].by # "client" =>
       \A m \in Preds(runs'[Len(runs')].owner) : Settled(m)]_vars

(* runLayerOneshots aborts "without leaving stragglers running": when a    *)
(* oneshot ends gopherd, each other one has exited or been killed.         *)
FatalSettles ==
  why = "oneshot" =>
    \A r \in DOMAIN runs : runs[r].by = "oneshot" => ~runs[r].up \/ runs[r].killed

(* What the reap loop takes over: no startup oneshot is left to wait for,  *)
(* and whatever else was forked is the one current run of its service,     *)
(* unless it is a oneshot that a client ran besides boot.                  *)
HandoffTracked ==
  pc = "loop" => \A r \in DOMAIN runs :
    IF runs[r].by = "oneshot" THEN runs[r].out = "exit"
    ELSE svc[runs[r].owner] = r \/ IsOneshot(runs[r].owner)

(* Startup ends, in the reap loop or in log.Fatalf, unless a oneshot       *)
(* without a startup-timeout hangs: every other wait has a timeout.        *)
Hangs(r) == runs[r].up /\ ~runs[r].killed /\ Conf(runs[r].owner).timeout = "none"
BootEnds == <>~Alive \/ <>[](\E r \in awaited : Hangs(r))

(* Of every file, before it is loaded: excluding a process is as safe as   *)
(* leaving it out, and turning a schedule on as safe as leaving it off.    *)
GatesAreSafe == phase = "load" => GateFlipIsSafe(cfg) /\ ExclusionIsAbsence(cfg)
=============================================================================
