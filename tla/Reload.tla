------------------------------- MODULE Reload -------------------------------
(***************************************************************************)
(* Hot reload against everything that holds on to a service object: the    *)
(* restart requests of the reap loop, control commands, ordered restarts   *)
(* (lifecycle.go) and scheduler ticks.  A reload installs new objects; who *)
(* captured an old one may still try to start it.                          *)
(*                                                                         *)
(* An object is <<name, generation>>: generation 0 is boot's, each reload  *)
(* that is applied makes the next one.  A critical section of d.mu is one  *)
(* step.  A check that restarts a service takes the path of a plain        *)
(* restart command, and both are in Supervisor in more detail.             *)
(***************************************************************************)
EXTENDS Config

CONSTANTS
  Name,            \* service names
  BootFiles,       \* contents of the configuration file at startup
  Files,           \* and at a reload
  Client,          \* goroutines of control commands, numbered
  MaxGen,          \* bound on the reloads that are applied
  MaxEvents        \* bound on reloads, commands, ticks and exits nobody asked for

ASSUME ReloadAssumption == Client \subseteq Nat /\ MaxGen \in Nat /\ MaxEvents \in Nat

Gen == 0..MaxGen
Object == Name \X Gen
None == -1

VARIABLES
  cfg,             \* d.cfg
  services,        \* d.services: the generation of each name's object, or None
  conf,            \* the objects: their configuration
  obj,             \* and their process
  gen,             \* reloads applied so far
  shutdownSeq,     \* d.shutdownSeq: the start order
  checkers,        \* running checks
  stats,           \* checks in the metrics
  runners,         \* objects whose schedule is run
  rl,              \* the reload under way
  reqs,            \* restart requests: the object, and the run to wait for
  ticks,           \* scheduled starts under way
  timers,          \* startup timeouts of scheduled runs
  th,              \* control commands
  shuttingDown, quit,   \* and a goroutine that is about to shut down
  events           \* how many of what MaxEvents bounds

confVars == <<cfg, services, conf, gen, shutdownSeq, checkers, stats, runners>>
goVars == <<reqs, ticks, timers>>
endVars == <<shuttingDown, quit>>
vars == <<confVars, obj, rl, goVars, th, endVars, events>>

-----------------------------------------------------------------------------
(* Service objects                                                         *)

(* service.New: the process entry, the exit actions, and the generation of *)
(* the log targets it writes to, None after ClearTargets.                  *)
New(p, g) == [proc |-> p, onSuccess |-> p.onSuccess, onFailure |-> p.onFailure, tg |-> g]

(* pid is "none", "up" or, until it is reaped, "dead"; runs counts starts  *)
(* and names the done channel.  down is history: there is a reason for the *)
(* service not to run.                                                     *)
NotRun == [pid |-> "none", stopped |-> FALSE, failed |-> FALSE, runs |-> 0, down |-> FALSE]

Running(o) == obj[o].pid # "none"
Current(o) == services[o[1]] = o[2]
Here == {n \in Name : services[n] # None}
Serving(n) == <<n, services[n]>>

(* Stop marks the run, which then dies: by the signal or by SIGKILL.       *)
StopIfRunning(o) == IF Running(o) THEN [obj[o] EXCEPT !.stopped = TRUE] ELSE obj[o]

(* Done(): the channel of a run is closed once that run is over.           *)
Closed(o, run) == obj[o].runs > run \/ ~Running(o)

(* What the checks of startService under d.mu answer.                      *)
CheckedMut(o) ==  \* any object will do
  IF shuttingDown THEN "down" ELSE IF Running(o) THEN "already" ELSE "ok"
Checked(o) ==
  IF shuttingDown THEN "down"
  ELSE IF ~Current(o) THEN "replaced"
  ELSE IF Running(o) THEN "already"
  ELSE "ok"

Fork(o) ==
  [obj[o] EXCEPT !.pid = "up", !.stopped = FALSE, !.failed = FALSE, !.runs = @ + 1, !.down = FALSE]

Answers == {"unmet", "fail", "ok", "down", "replaced", "already"}

(* A file condition or PrepareStart may refuse first, FinishStart last.    *)
startService(o, answer) ==
  \/ /\ answer = "fail" \/ (answer = "unmet" /\ conf[o].proc.cond)
     /\ obj' = [obj EXCEPT ![o].down = @ \/ ~Running(o)]
  \/ answer = "ok" /\ Checked(o) = "ok" /\ obj' = [obj EXCEPT ![o] = Fork(o)]
  \/ answer # "ok" /\ Checked(o) = answer /\ UNCHANGED obj

Event == events < MaxEvents /\ events' = events + 1

(* initiateShutdown; the stops of stopAll are steps of their own.          *)
initiateShutdown == shuttingDown' = TRUE /\ quit' = FALSE

-----------------------------------------------------------------------------
(* Configurations                                                          *)

Names(c) == {c.procs[i].name : i \in DOMAIN c.procs}

(* What TopoSort may answer (StartOrder): nothing when the graph has a     *)
(* cycle, a name that is there twice or one that is not there.             *)
Orders(c) ==
  LET first(a, b) ==
        \E i \in DOMAIN c.procs :
          \/ c.procs[i].name = b /\ a \in c.procs[i].after \cup c.procs[i].requires
          \/ c.procs[i].name = a /\ b \in c.procs[i].before
  IN  {s \in [DOMAIN c.procs -> Names(c)] :
         /\ \A i \in DOMAIN c.procs : Deps(c.procs[i]) \subseteq Names(c)
         /\ \A i, j \in DOMAIN s : /\ s[i] = s[j] => i = j
                                   /\ first(s[i], s[j]) => i < j}

(* Name has every name of the files, and a process entry every field that  *)
(* a reload compares or updates.                                           *)
Compared == {"args", "startup", "ready", "sd"}
InPlace == {"onCheck", "requires", "exitMap", "rewrite", "rwd", "cond"}

ASSUME FilesAssumption ==
  \A f \in BootFiles \cup Files :
    /\ Names(Loaded(f)) \subseteq Name
    /\ \A i \in DOMAIN Loaded(f).procs : Compared \cup InPlace \subseteq DOMAIN Loaded(f).procs[i]

(* A set of names as the list in which they are met on a walk along an     *)
(* order.                                                                  *)
Listed(D, ord) ==
  {s \in UNION {[1..k -> D] : k \in 0..Len(ord)} :
     /\ \A n \in D : \E i \in DOMAIN s : s[i] = n
     /\ \A i, j \in DOMAIN s :
          i < j => \E k, l \in DOMAIN ord : k < l /\ ord[k] = s[i] /\ ord[l] = s[j]}

Loadable(f) == ~Rejected(f) /\ ~EntrypointClash(Loaded(f)) /\ Orders(Loaded(f)) # {}

IsService(p) == Startup(p) = "enabled"     \* svc.Enabled, neither oneshot nor scheduled

StartupField(p) == IF p.startup.template THEN Startup(p) ELSE p.startup.value

ChangedMut(p, q) == p.args # q.args        \* startup is forgotten
(* processConfigChanged: args stands for the command and all that is       *)
(* applied when it is spawned.                                             *)
Changed(p, q) ==
  \/ p.args # q.args
  \/ StartupField(p) # StartupField(q)
  \/ p.ready # q.ready \/ p.sd # q.sd

(* client tells who runs the reload: a control command or the signal       *)
(* goroutine.                                                              *)
IdleReload ==
  [pc |-> "idle", client |-> FALSE, new |-> <<>>, order |-> <<>>, wait |-> {}, start |-> <<>>, old |-> {}]
IdleClient == [pc |-> "idle", o |-> <<>>, run |-> 0, stops |-> <<>>, starts |-> <<>>, first |-> FALSE]

(* After startup the enabled services run and "started" admits reloads.    *)
Init ==
  /\ \E f \in BootFiles : Loadable(f) /\ cfg = Loaded(f)
  /\ shutdownSeq \in Orders(cfg)
  /\ services = [n \in Name |-> IF n \in Names(cfg) THEN 0 ELSE None]
  /\ conf = [o \in Object |-> IF o[2] = 0 /\ o[1] \in Names(cfg)
                              THEN New(ServiceOf(cfg, o[1]), 0) ELSE <<>>]
  /\ obj = [o \in Object |->
       IF o[2] = 0 /\ o[1] \in Names(cfg) /\ IsService(ServiceOf(cfg, o[1]))
       THEN [NotRun EXCEPT !.pid = "up", !.runs = 1] ELSE NotRun]
  /\ gen = 0 /\ checkers = cfg.checks /\ stats = cfg.checks
  /\ runners = {<<n, 0>> : n \in {m \in Names(cfg) : Startup(ServiceOf(cfg, m)) = "scheduled"}}
  /\ rl = IdleReload
  /\ reqs = {} /\ ticks = {} /\ timers = {} /\ th = [c \in Client |-> IdleClient]
  /\ shuttingDown = FALSE /\ quit = FALSE /\ events = 0

-----------------------------------------------------------------------------
(* reload()                                                                *)

(* Off d.mu: read, Unmarshal, the entrypoint check, TopoSort, a dry run.   *)
(* Whatever the file holds at this moment is what the reload works with.   *)
ReloadReads ==
  /\ rl.pc = "read"
  /\ \E f \in Files :
       \/ ~Loadable(f) /\ rl' = IdleReload
       \/ /\ Loadable(f)
          /\ \E s \in Orders(Loaded(f)) :
               rl' = [rl EXCEPT !.pc = "lock", !.new = Loaded(f), !.order = s]
  /\ UNCHANGED <<confVars, obj, goVars, th, endVars, events>>

ReloadRefused ==
  /\ rl.pc = "lock" /\ shuttingDown /\ rl' = IdleReload
  /\ UNCHANGED <<confVars, obj, goVars, th, endVars, events>>

(* A running service whose process would be the same keeps its object.     *)
Preserved(n) ==
  n \in Here /\ Running(Serving(n)) /\ ~Changed(conf[Serving(n)].proc, ServiceOf(rl.new, n))
Replaced(n) == n \in Here /\ Running(Serving(n)) /\ ~Preserved(n)

(* The policy fields that are updated in place, and the new log targets.   *)
Updated(c, p, g) ==
  [proc |-> [f \in DOMAIN c.proc |-> IF f \in InPlace THEN p[f] ELSE c.proc[f]],
   onSuccess |-> p.onSuccess, onFailure |-> p.onFailure, tg |-> g]

(* ClearTargets, for every object that was in d.services; the exit of one  *)
(* that is removed, or replaced while it runs, is ignored.                 *)
Cleared(c, gone) ==
  [proc |-> c.proc, onSuccess |-> IF gone THEN "ignore" ELSE c.onSuccess,
   onFailure |-> IF gone THEN "ignore" ELSE c.onFailure, tg |-> None]

ToStartMut ==  \* a service that ran is taken for preserved
  {n \in Names(rl.new) : IsService(ServiceOf(rl.new, n)) /\ ~(n \in Here /\ Running(Serving(n)))}
ToStart == {n \in Names(rl.new) : IsService(ServiceOf(rl.new, n)) /\ ~Preserved(n)}

(* The critical section that installs the new configuration.               *)
ReloadApplies ==
  /\ rl.pc = "lock" /\ ~shuttingDown
  /\ LET g == gen + 1
         kept == Names(rl.new)
     IN  /\ gen' = g
         /\ conf' = [o \in Object |->
              IF o[1] \in kept /\ o[2] = g THEN New(ServiceOf(rl.new, o[1]), g)
              ELSE IF ~Current(o) THEN conf[o]
              ELSE IF o[1] \in kept /\ Preserved(o[1])
              THEN Updated(conf[o], ServiceOf(rl.new, o[1]), g)
              ELSE Cleared(conf[o], o[1] \notin kept \/ Replaced(o[1]))]
         /\ obj' = [o \in Object |->
              IF Current(o) /\ ~(o[1] \in kept /\ Preserved(o[1])) THEN StopIfRunning(o) ELSE obj[o]]
         /\ services' = [n \in Name |-> IF n \notin kept THEN None
                                        ELSE IF Preserved(n) THEN services[n] ELSE g]
         /\ \E names \in Listed(ToStart, rl.order) :
              rl' = [rl EXCEPT !.pc = "wait", !.start = [i \in DOMAIN names |-> <<names[i], g>>],
                       !.old = cfg.checks,
                       !.wait = {[o |-> Serving(n), run |-> obj[Serving(n)].runs] :
                                  n \in {m \in kept : Replaced(m)}}]
  /\ cfg' = rl.new /\ shutdownSeq' = rl.order /\ checkers' = {} /\ runners' = {}
  /\ UNCHANGED <<stats, goVars, th, endVars, events>>

ReloadWaits ==
  /\ rl.pc = "wait" /\ \A w \in rl.wait : Closed(w.o, w.run)
  /\ rl' = [rl EXCEPT !.pc = "start", !.wait = {}]
  /\ UNCHANGED <<confVars, obj, goVars, th, endVars, events>>

(* Failures to start are only logged.                                      *)
ReloadStarts ==
  /\ rl.pc = "start" /\ rl.start # <<>>
  /\ \E a \in Answers : startService(Head(rl.start), a)
  /\ rl' = [rl EXCEPT !.start = Tail(@)]
  /\ UNCHANGED <<confVars, goVars, th, endVars, events>>

(* Under d.mu again: startChecks, startSchedulers, UnregisterCheck.        *)
ReloadFinishes ==
  /\ rl.pc = "start" /\ rl.start = <<>>
  /\ checkers' = cfg.checks
  /\ stats' = (stats \cup cfg.checks) \ (rl.old \ cfg.checks)
  /\ runners' = {Serving(n) : n \in {m \in Here : Startup(conf[Serving(m)].proc) = "scheduled"}}
  /\ rl' = IdleReload
  /\ UNCHANGED <<cfg, services, conf, gen, shutdownSeq, obj, goVars, th, endVars, events>>

-----------------------------------------------------------------------------
(* The signal goroutine calls reload(), so a SIGTERM waits for it; a       *)
(* client's reload runs in its handler.  reloadMu admits one at a time.    *)

SigHup ==
  /\ rl.pc = "idle" /\ gen < MaxGen /\ ~shuttingDown /\ Event
  /\ rl' = [rl EXCEPT !.pc = "read"]
  /\ UNCHANGED <<confVars, obj, goVars, th, endVars>>

ReloadFn ==
  /\ rl.pc = "idle" /\ gen < MaxGen /\ ~shuttingDown /\ Event
  /\ rl' = [rl EXCEPT !.pc = "read", !.client = TRUE]
  /\ UNCHANGED <<confVars, obj, goVars, th, endVars>>

SigTerm ==
  /\ rl.pc = "idle" \/ rl.client
  /\ ~shuttingDown /\ initiateShutdown
  /\ UNCHANGED <<confVars, obj, rl, goVars, th, events>>

-----------------------------------------------------------------------------
(* Processes and the reap loop                                             *)

ProcessExits(o) ==
  /\ obj[o].pid = "up"
  /\ \E bad \in IF obj[o].stopped THEN {FALSE} ELSE BOOLEAN :
       obj' = [obj EXCEPT ![o].pid = "dead", ![o].failed = bad]
  /\ IF obj[o].stopped THEN UNCHANGED events ELSE Event
  /\ UNCHANGED <<confVars, rl, goVars, th, endVars>>

(* A stop that was asked for and the end of a scheduled run mean nothing,  *)
(* a oneshot's clean exit neither.                                         *)
ExitAction(o) ==
  LET kind == Startup(conf[o].proc)
  IN  IF obj[o].stopped \/ kind = "scheduled" THEN "ignore"
      ELSE IF kind = "oneshot" THEN IF obj[o].failed THEN conf[o].proc.onFailure ELSE "ignore"
      ELSE IF obj[o].failed THEN conf[o].onFailure
      ELSE conf[o].onSuccess

(* A failure stops the running services that require the one that failed.  *)
Cascades(o) ==
  /\ ~shuttingDown /\ ~obj[o].stopped /\ obj[o].failed
  /\ Startup(conf[o].proc) \notin {"scheduled", "oneshot"}

Reap(o) ==
  /\ obj[o].pid = "dead"
  /\ obj' = [p \in Object |->
       IF p = o THEN [obj[o] EXCEPT !.pid = "none", !.failed = FALSE,
                               !.down = @ \/ (~obj[o].stopped /\ ExitAction(o) # "restart")]
       ELSE IF Cascades(o) /\ Current(p) /\ Running(p) /\ o[1] \in conf[p].proc.requires
       THEN [StopIfRunning(p) EXCEPT !.down = TRUE]
       ELSE obj[p]]
  /\ reqs' = IF ~shuttingDown /\ ExitAction(o) = "restart"
             THEN reqs \cup {[o |-> o, run |-> obj[o].runs]} ELSE reqs
  /\ quit' = (quit \/ (~shuttingDown /\ ExitAction(o) = "shutdown"))
  /\ UNCHANGED <<confVars, rl, ticks, timers, th, shuttingDown, events>>

(* The goroutine of an exit with a shutdown action.                        *)
Quit ==
  /\ quit /\ ~shuttingDown /\ initiateShutdown
  /\ UNCHANGED <<confVars, obj, rl, goVars, th, events>>

(* stopAll; its order and the waits between the stops are in Supervisor.   *)
StopAll ==
  /\ shuttingDown /\ \E n \in Here : Running(Serving(n)) /\ ~obj[Serving(n)].stopped
  /\ obj' = [o \in Object |-> IF Current(o) THEN StopIfRunning(o) ELSE obj[o]]
  /\ UNCHANGED <<confVars, rl, goVars, th, endVars, events>>

(* handleRestartReq once its backoff is over.                              *)
handleRestartReq(r) ==
  /\ Closed(r.o, r.run) /\ reqs' = reqs \ {r}
  /\ \/ Running(r.o) /\ UNCHANGED <<obj, endVars>>
     \/ \E a \in Answers :
          /\ startService(r.o, a)
          /\ IF a = "fail" THEN initiateShutdown ELSE UNCHANGED endVars
  /\ UNCHANGED <<confVars, rl, ticks, timers, th, events>>

(* A tick of a runner, and the start that it leads to: the runner may be   *)
(* stopped in between.                                                     *)
Tick(o) ==
  /\ o \in runners /\ ~Running(o) /\ Event
  /\ ticks' = ticks \cup {o}
  /\ UNCHANGED <<confVars, obj, rl, reqs, timers, th, endVars>>

startScheduledRun(o) ==
  /\ o \in ticks /\ ticks' = ticks \ {o}
  /\ \E a \in Answers :
       /\ startService(o, a)
       /\ timers' = IF a = "ok" /\ conf[o].proc.timeout = "ok"
                    THEN timers \cup {[o |-> o, run |-> obj[o].runs + 1]} ELSE timers
  /\ UNCHANGED <<confVars, rl, reqs, th, endVars, events>>

(* startup-timeout: the run that set the timer is stopped, no later one.   *)
Overstays(t) ==
  /\ t \in timers /\ timers' = timers \ {t}
  /\ obj' = IF obj[t.o].runs = t.run THEN [obj EXCEPT ![t.o] = StopIfRunning(t.o)] ELSE obj
  /\ UNCHANGED <<confVars, rl, reqs, ticks, th, endVars, events>>

-----------------------------------------------------------------------------
(* Control commands.  The object is looked up first and used later.        *)

(* The goroutine of a command; any idle one would do.                      *)
Command(c) ==
  /\ th[c].pc = "idle" /\ \A d \in Client : d < c => th[d].pc # "idle"
  /\ ~shuttingDown /\ Event

LooksUp(c, n, pc) ==
  /\ Command(c) /\ n \in Here
  /\ IF pc = "start" THEN ~Running(Serving(n)) ELSE Running(Serving(n))
  /\ th' = [th EXCEPT ![c].pc = pc, ![c].o = Serving(n)]
  /\ UNCHANGED <<confVars, obj, rl, goVars, endVars>>

(* StartFn, with or without the gates of --wait; errors go to the client.  *)
StartFn(c) ==
  /\ th[c].pc = "start" /\ th' = [th EXCEPT ![c] = IdleClient]
  /\ \E a \in Answers : startService(th[c].o, a)
  /\ UNCHANGED <<confVars, rl, goVars, endVars, events>>

StopFn(c) ==
  /\ th[c].pc = "stop" /\ th' = [th EXCEPT ![c] = IdleClient]
  /\ obj' = [obj EXCEPT ![th[c].o] = [StopIfRunning(th[c].o) EXCEPT !.down = @ \/ Running(th[c].o)]]
  /\ UNCHANGED <<confVars, rl, goVars, endVars, events>>

(* RestartFn: with --wait, or with running dependents, an ordered restart; *)
(* otherwise a stop and a restart request.                                 *)
dependentClosure(n) ==
  LET near(S) == {m \in Here : conf[Serving(m)].proc.requires \cap S # {}}
      step[k \in 0..Cardinality(Name)] ==
        IF k = 0 THEN {n} ELSE step[k - 1] \cup near(step[k - 1])
  IN  step[Cardinality(Name)] \ {n}

runningDependents(n) == {m \in dependentClosure(n) : m \in Here /\ Running(Serving(m))}

Backward(s) == [i \in DOMAIN s |-> s[Len(s) + 1 - i]]

RestartFn(c, n) ==
  /\ Command(c) /\ n \in Here
  /\ LET o == Serving(n)
         deps == IF conf[o].proc.rwd THEN runningDependents(n) ELSE {}
     IN  \/ /\ \E names \in Listed(deps, shutdownSeq) :
                 LET legs == [i \in DOMAIN names |-> Serving(names[i])]
                 IN  th' = [th EXCEPT ![c] = [IdleClient EXCEPT !.pc = "restart",
                            !.stops = Append(Backward(legs), o), !.starts = <<o>> \o legs,
                            !.first = TRUE]]
            /\ UNCHANGED <<obj, reqs>>
         \/ /\ deps = {}
            /\ obj' = [obj EXCEPT ![o] = StopIfRunning(o)]
            /\ reqs' = reqs \cup {[o |-> o, run |-> obj[o].runs]}
            /\ UNCHANGED th
  /\ UNCHANGED <<confVars, rl, ticks, timers, endVars>>

-----------------------------------------------------------------------------
(* runRestart: a goroutine that outlives its client.                       *)

(* stopForRestart                                                          *)
RestartStopsMut(c) ==  \* without the stop
  /\ th[c].pc = "restart" /\ th[c].stops # <<>>
  /\ LET o == Head(th[c].stops)
     IN  th' = [th EXCEPT ![c].pc = "exit", ![c].o = o, ![c].run = obj[o].runs]
  /\ UNCHANGED <<confVars, obj, rl, goVars, endVars, events>>
RestartStops(c) ==
  /\ th[c].pc = "restart" /\ th[c].stops # <<>>
  /\ LET o == Head(th[c].stops)
     IN  IF shuttingDown THEN th' = [th EXCEPT ![c] = IdleClient] /\ UNCHANGED obj
         ELSE /\ obj' = [obj EXCEPT ![o] = StopIfRunning(o)]
              /\ th' = [th EXCEPT ![c].pc = "exit", ![c].o = o, ![c].run = obj[o].runs]
  /\ UNCHANGED <<confVars, rl, goVars, endVars, events>>

(* waitExit without a deadline                                             *)
RestartWaits(c) ==
  /\ th[c].pc = "exit"
  /\ \/ /\ Closed(th[c].o, th[c].run)
        /\ th' = [th EXCEPT ![c].pc = "restart", ![c].stops = Tail(@)]
     \/ shuttingDown /\ th' = [th EXCEPT ![c] = IdleClient]
  /\ UNCHANGED <<confVars, obj, rl, goVars, endVars, events>>

(* The next leg; a file condition that refuses the first leg ends the      *)
(* restart, and what it stopped stays down.                                *)
NextLeg(c) ==
  IF Len(th[c].starts) = 1 THEN IdleClient
  ELSE [th[c] EXCEPT !.pc = "restart", !.starts = Tail(@), !.first = FALSE]
GivesUp(c, f) ==
  [o \in Object |-> IF \E i \in DOMAIN th[c].starts : th[c].starts[i] = o
                    THEN [f[o] EXCEPT !.down = @ \/ f[o].pid = "none"] ELSE f[o]]

(* startForRestart; "fail" is also the answer of a gate before the start.  *)
RestartStarts(c) ==
  /\ th[c].pc = "restart" /\ th[c].stops = <<>>
  /\ LET o == Head(th[c].starts)
     IN  \E a \in Answers :
           IF a = "unmet" /\ th[c].first
           THEN /\ conf[o].proc.cond /\ obj' = GivesUp(c, obj)
                /\ th' = [th EXCEPT ![c] = IdleClient] /\ UNCHANGED endVars
           ELSE /\ startService(o, a)
                /\ IF a = "fail" THEN initiateShutdown ELSE UNCHANGED endVars
                /\ th' = [th EXCEPT ![c] =
                     IF a \in {"fail", "down"} THEN IdleClient
                     ELSE IF a \in {"ok", "already"} /\ conf[o].proc.sd
                     THEN [th[c] EXCEPT !.pc = "ready"] ELSE NextLeg(c)]
  /\ UNCHANGED <<confVars, rl, goVars, events>>

(* READY=1 arrives, or its timeout ends the daemon.                        *)
RestartReady(c) ==
  /\ th[c].pc = "ready"
  /\ \/ th' = [th EXCEPT ![c] = NextLeg(c)] /\ UNCHANGED endVars
     \/ th' = [th EXCEPT ![c] = IdleClient] /\ initiateShutdown
  /\ UNCHANGED <<confVars, obj, rl, goVars, events>>

-----------------------------------------------------------------------------
Reloading ==
  \/ ReloadReads \/ ReloadRefused \/ ReloadApplies \/ ReloadWaits
  \/ ReloadStarts \/ ReloadFinishes

Restarting(c) == RestartStops(c) \/ RestartWaits(c) \/ RestartStarts(c) \/ RestartReady(c)

Next ==
  \/ Reloading \/ SigHup \/ ReloadFn \/ SigTerm \/ Quit \/ StopAll
  \/ \E o \in Object : ProcessExits(o) \/ Reap(o) \/ Tick(o) \/ startScheduledRun(o)
  \/ \E r \in reqs : handleRestartReq(r)
  \/ \E t \in timers : Overstays(t)
  \/ \E c \in Client : StartFn(c) \/ StopFn(c) \/ Restarting(c)
  \/ \E c \in Client, n \in Name :
       LooksUp(c, n, "start") \/ LooksUp(c, n, "stop") \/ RestartFn(c, n)

Spec == Init /\ [][Next]_vars

-----------------------------------------------------------------------------
(* The promise behind errServiceReplaced and the stops of reload(): a      *)
(* process that nobody told to stop belongs to the object that d.services  *)
(* holds for its name, whoever started it and whatever it had captured.    *)
(* So two such processes never run for one name.                           *)
CurrentOrStopped ==
  \A o \in Object : Running(o) /\ ~obj[o].stopped => Current(o)

(* "Tuning takes effect": a process that nobody told to stop runs what the *)
(* configuration in force says, its exit is treated as that configuration  *)
(* says, and its output goes to the log targets of that configuration.     *)
ConfigTakesEffect ==
  \A n \in Here :
    LET o == Serving(n)
        c == conf[o]
        p == ServiceOf(cfg, n)
    IN  Running(o) /\ ~obj[o].stopped =>
          /\ \A f \in {"args", "ready", "sd", "requires", "onCheck", "rewrite", "exitMap", "rwd", "cond"} :
               c.proc[f] = p[f]
          /\ StartupField(c.proc) = StartupField(p)
          /\ c.onFailure = p.onFailure /\ c.onSuccess = p.onSuccess /\ c.tg = gen

(* Nothing is lost between a restart and a reload: an enabled service that *)
(* does not run is about to be started by someone, or it was stopped by a  *)
(* client or with a service it requires, or its exit action left it so, or *)
(* its start was refused or failed.                                        *)
DownIsAccountedFor ==
  ~shuttingDown /\ ~quit =>
    \A n \in Here :
      LET o == Serving(n)
      IN  IsService(conf[o].proc) /\ ~Running(o) /\ ~obj[o].down =>
            \/ \E r \in reqs : r.o = o
            \/ \E i \in DOMAIN rl.start : rl.start[i] = o
            \/ \E c \in Client : \E i \in DOMAIN th[c].starts : th[c].starts[i] = o

(* Whoever waits for an exit gets it: the run that a reload, an ordered    *)
(* restart or a restart request waits for is over, or it was told to stop  *)
(* and will be killed.  So a reload returns, and the SIGTERM behind it in  *)
(* the signal goroutine is handled.                                        *)
AwaitedRunsAreStopped ==
  LET ends(o, run) == Closed(o, run) \/ obj[o].stopped
  IN  /\ \A w \in rl.wait : ends(w.o, w.run)
      /\ \A r \in reqs : ends(r.o, r.run)
      /\ \A c \in Client : th[c].pc = "exit" => ends(th[c].o, th[c].run)
=============================================================================
