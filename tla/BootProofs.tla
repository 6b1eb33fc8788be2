------------------------------ MODULE BootProofs ------------------------------
(***************************************************************************)
(* Startup, for every set of files, services and clients: the gates of a   *)
(* file are safe (GatesAreSafe); ordering the services inside run()        *)
(* behaves as OrderSpec says; boot forks nothing before its dependencies   *)
(* are settled (DependenciesFirst); a failed oneshot leaves no straggler   *)
(* (FatalSettles); and the reap loop takes over runs it can account for    *)
(* (HandoffTracked).                                                       *)
(***************************************************************************)
EXTENDS Boot, TLAPS

RunRecord ==
  [owner : Name, by : {"oneshot", "boot", "client"}, up : BOOLEAN, code : {0, 1},
   ready : BOOLEAN, killed : BOOLEAN, out : {"none", "exit", "err"}, closed : BOOLEAN]
ThreadRecord ==
  [pc : {"idle", "exit", "gate", "cond", "check", "fork", "listen", "sd", "done"},
   svc : Name, run : Nat, gated : BOOLEAN, bounce : BOOLEAN]

(* The types, and whom the run numbers and the lock point to.              *)
Types ==
  /\ runs \in Seq(RunRecord) /\ svc \in [Name -> Nat] /\ th \in [Thread -> ThreadRecord]
  /\ mu \in Thread \cup {Free} /\ fatal \in BOOLEAN /\ at \in Nat
  /\ awaited \subseteq DOMAIN runs /\ rest \subseteq Name /\ skipped \subseteq Name
  /\ \A n \in Name : svc[n] # 0 => svc[n] \in DOMAIN runs /\ runs[svc[n]].owner = n
  /\ \A t \in Thread : th[t].pc = "sd" =>
       th[t].run \in DOMAIN runs /\ runs[th[t].run].owner = th[t].svc
  /\ \A t \in Thread : th[t].pc = "fork" <=> mu = t

(* Where run() is tells what it has done and what is still due.            *)
Control ==
  /\ pc \in {"init", "next", "oneshots", "collect", "services", "loop"} /\ why # "oneshot"
  /\ pc = "init" =>
       DOMAIN runs = {} /\ awaited = {} /\ ~fatal /\ at = 0 /\ \A t \in Thread : th[t].pc = "idle"
  /\ pc \in {"services", "next", "loop"} => awaited = {}
  /\ pc \in {"oneshots", "services", "next", "loop"} => ~fatal
  /\ pc # "init" => phase = "ordered"

(* A startup oneshot is awaited until its result is in, and no thread      *)
(* replaces the run of a service that runs.                                *)
Tracked ==
  /\ \A r \in awaited : runs[r].by = "oneshot"
  /\ \A r \in DOMAIN runs : runs[r].by = "oneshot" =>
       /\ IsOneshot(runs[r].owner)
       /\ runs[r].out = "exit" => ~runs[r].up
       /\ runs[r].out = "err" => runs[r].killed
       /\ r \notin awaited => runs[r].out # "none" /\ (runs[r].out = "err" => fatal)
  /\ \A r \in DOMAIN runs : runs[r].by # "oneshot" =>
       svc[runs[r].owner] = r \/ IsOneshot(runs[r].owner)
  /\ \A t \in Thread : mu = t => ~Running(th[t].svc) \/ IsOneshot(th[t].svc)

Starting(n) == th[n].pc \notin {"idle", "done"}

(* The layers behind run() are settled, and in the current one what its    *)
(* loops have passed is settled or on the way.                             *)
Current ==
  /\ pc = "next" => at <= Len(layers)
  /\ pc \in {"oneshots", "collect", "services"} => at \in DOMAIN layers /\ rest \subseteq layers[at]
  /\ \A k \in DOMAIN layers : \A m \in layers[k] :
       /\ k < at => Settled(m)
       /\ k = at =>
            /\ pc = "next" => Settled(m)
            /\ IsOneshot(m) /\ (pc = "collect" \/ (pc = "oneshots" /\ m \notin rest)) =>
                 fatal \/ Settled(m) \/ \E r \in awaited : runs[r].owner = m
            /\ pc = "services" =>
                 /\ IsOneshot(m) => Settled(m)
                 /\ IsService(m) /\ m \notin rest => Settled(m) \/ Starting(m)

(* The goroutines that boot starts services with, and what they forked.    *)
Starts ==
  /\ \A n \in Name : th[n].pc # "idle" =>
       /\ th[n].svc = n /\ th[n].gated /\ IsService(n)
       /\ th[n].pc = "done" => Settled(n)
       /\ Starting(n) => pc = "services" /\ n \in layers[at]
       /\ \E k \in DOMAIN layers :
            /\ n \in layers[k] /\ k <= at
            /\ k = at => pc = "next" \/ (pc = "services" /\ n \notin rest)
  /\ \A r \in DOMAIN runs : runs[r].by = "boot" =>
       th[runs[r].owner].pc \in {"listen", "sd", "done"}

Layered == Serving => Current /\ Starts

(* log.Fatalf ends everything, so nothing is claimed after it but that a   *)
(* failed oneshot has left no straggler.                                   *)
Live == Types /\ Control /\ Tracked /\ Layered
LayersOK == layers \in Seq(SUBSET Names) /\ Names \subseteq Name /\ LayersInOrder
BootInv == FatalSettles /\ (pc # "dead" => Live)

-----------------------------------------------------------------------------
(* What the steps of threads, clients and children have in common          *)

(* What may happen to a run: it exits, is signalled, says READY, and its   *)
(* result is taken once.                                                   *)
Kept(a, b) ==
  /\ b.owner = a.owner /\ b.by = a.by
  /\ ~a.up => ~b.up /\ b.code = a.code
  /\ a.killed => b.killed
  /\ a.ready => b.ready
  /\ a.out # "none" => b.out = a.out
  /\ b.out = "exit" => a.out = "exit" \/ ~b.up
  /\ b.out = "err" => a.out = "err" \/ b.killed

(* Children, clients and waitOneshot: runs change but none is added, and   *)
(* of the threads only those of clients move, outside the lock.            *)
Touch ==
  /\ UNCHANGED <<orderVars, bootVars, svc, skipped, mu>>
  /\ runs' \in Seq(RunRecord) /\ DOMAIN runs' = DOMAIN runs
  /\ \A r \in DOMAIN runs : Kept(runs[r], runs'[r])
  /\ th' \in [Thread -> ThreadRecord]
  /\ \A t \in Thread : \/ th'[t] = th[t]
                       \/ t \in Client /\ th[t].pc \in {"idle", "exit"} /\ th'[t].pc \notin {"fork", "sd"}
  /\ pc = "init" => th' = th

(* A thread goes on to next without forking.                               *)
Move(t, next) ==
  /\ UNCHANGED <<orderVars, procVars, cfg, pc, why, at, rest, awaited, fatal>>
  /\ pc # "init" /\ next \in ThreadRecord
  /\ th[t].pc \in {"gate", "cond", "check", "listen", "sd"}
  /\ next.pc \in {"cond", "check", "fork", "listen", "sd", "done"}
  /\ th' = [th EXCEPT ![t] = next]
  /\ next.svc = th[t].svc /\ next.gated = th[t].gated
  /\ skipped \subseteq skipped' /\ skipped' \subseteq Name
  /\ th[t].pc \in {"listen", "sd"} => next.pc \in {"sd", "done"}
  /\ next.pc = "fork" => mu = Free /\ mu' = t /\ ~Running(th[t].svc)
  /\ next.pc # "fork" => mu' = mu
  /\ next.pc = "sd" => Running(th[t].svc) /\ next.run = svc[th[t].svc]
  /\ next.pc = "done" =>
       \/ t \in Client
       \/ th[t].svc \in skipped'
       \/ Running(th[t].svc) /\ (th[t].gated => ~Conf(th[t].svc).sd)
       \/ th[t].pc = "sd" /\ runs[th[t].run].ready

(* Idle is a thread.                                                       *)
LEMMA IdleThread == /\ Idle \in ThreadRecord /\ Idle.pc = "idle" /\ Idle.gated
                    /\ Name \subseteq Thread /\ Client \subseteq Thread /\ Free \notin Thread
                    /\ \A t \in Thread : t \in Name \/ t \in Client
                    /\ \A t \in Client : t \notin Name
<1>1. (CHOOSE n \in Name : TRUE) \in Name
  BY Zenon, BootAssumption
<1> QED BY Zenon, <1>1, BootAssumption DEF Idle, ThreadRecord, Thread

(* The steps of startGated and startService that do not fork.              *)
LEMMA ThreadMoves ==
  ASSUME Types, Control, NEW t \in Thread, pc' # "dead",
         Gate(t) \/ Prepare(t) \/ Recheck(t) \/ Listen(t) \/ AwaitReady(t)
  PROVE  \E next \in ThreadRecord : Move(t, next)
<1>1. th \in [Thread -> ThreadRecord] /\ th[t] \in ThreadRecord /\ th[t].svc \in Name
  BY Zenon DEF Types, ThreadRecord
<1>2. pc # "init"
  BY Zenon DEF Control, Gate, Prepare, Recheck, Listen, AwaitReady
<1>3. ASSUME NEW x \in {"cond", "check", "fork", "listen", "sd", "done"}
      PROVE  LET y == [th[t] EXCEPT !.pc = x]
             IN  /\ y \in ThreadRecord /\ y.pc = x /\ y.svc = th[t].svc /\ y.gated = th[t].gated
                 /\ [th EXCEPT ![t].pc = x] = [th EXCEPT ![t] = y]
  BY Zenon, <1>1 DEF ThreadRecord
<1>4. ASSUME Fail(t)
      PROVE  t \in Client /\ GoTo(t, "done") /\ UNCHANGED <<pc, why>>
  BY Zenon, <1>4, IdleThread DEF Fail, Fatalf
<1>5. AfterStart(t) \in {"listen", "done"}
  BY Zenon DEF AfterStart
<1>6. ASSUME NEW x \in {"cond", "check", "fork", "listen", "done"}, GoTo(t, x),
             UNCHANGED <<orderVars, procVars, cfg, pc, why, at, rest, awaited, fatal>>,
             th[t].pc \in {"gate", "cond", "check", "listen", "sd"},
             skipped \subseteq skipped', skipped' \subseteq Name,
             th[t].pc \in {"listen", "sd"} => x = "done",
             x = "fork" => mu = Free /\ mu' = t /\ ~Running(th[t].svc),
             x # "fork" => mu' = mu,
             x = "done" => \/ t \in Client
                           \/ th[t].svc \in skipped'
                           \/ Running(th[t].svc) /\ (th[t].gated => ~Conf(th[t].svc).sd)
                           \/ th[t].pc = "sd" /\ runs[th[t].run].ready
      PROVE  \E next \in ThreadRecord : Move(t, next)
  <2> DEFINE y == [th[t] EXCEPT !.pc = x]
  <2>1. /\ y \in ThreadRecord /\ y.pc = x /\ y.svc = th[t].svc /\ y.gated = th[t].gated
        /\ th' = [th EXCEPT ![t] = y]
    BY <1>3, <1>6 DEF GoTo
  <2> HIDE DEF y
  <2>2. Move(t, y)
    BY Zenon, <1>2, <1>6, <2>1 DEF Move
  <2> QED BY Zenon, <2>1, <2>2
<1>7. skipped \subseteq Name
  BY Zenon DEF Types
<1>8. CASE Gate(t)
  <2>1. CASE Fail(t)
    BY Zenon, <1>4, <1>6, <1>7, <1>8, <2>1 DEF Gate
  <2>2. CASE Continue(t, "cond")
    BY Zenon, <1>6, <1>7, <1>8, <2>2 DEF Gate, Continue
  <2> QED BY Zenon, <1>8, <2>1, <2>2 DEF Gate
<1>9. CASE Prepare(t)
  <2>1. CASE Fail(t) /\ UNCHANGED skipped
    BY Zenon, <1>4, <1>6, <1>7, <1>9, <2>1 DEF Prepare
  <2>2. CASE Continue(t, "check") /\ UNCHANGED skipped
    BY Zenon, <1>6, <1>7, <1>9, <2>2 DEF Prepare, Continue
  <2>3. CASE skipped' = skipped \cup {th[t].svc} /\ Continue(t, "done")
    <3>1. skipped \subseteq skipped' /\ skipped' \subseteq Name /\ th[t].svc \in skipped'
      BY Zenon, <1>1, <1>7, <2>3
    <3> QED BY Zenon, <1>6, <1>9, <2>3, <3>1 DEF Prepare, Continue
  <2> QED BY Zenon, <1>9, <2>1, <2>2, <2>3 DEF Prepare
<1>10. CASE Recheck(t)
  <2>1. CASE Fail(t) /\ UNCHANGED mu
    BY Zenon, <1>4, <1>6, <1>7, <1>10, <2>1 DEF Recheck
  <2>2. CASE Running(th[t].svc) /\ Continue(t, AfterStart(t)) /\ UNCHANGED mu
    <3>1. AfterStart(t) = "done" => Running(th[t].svc) /\ (th[t].gated => ~Conf(th[t].svc).sd)
      BY Zenon, <2>2 DEF AfterStart
    <3> QED BY <1>5, <1>6, <1>7, <1>10, <2>2, <3>1 DEF Recheck, Continue
  <2>3. CASE ~Running(th[t].svc) /\ mu' = t /\ Continue(t, "fork")
    BY Zenon, <1>6, <1>7, <1>10, <2>3 DEF Recheck, Continue
  <2> QED BY Zenon, <1>10, <2>1, <2>2, <2>3 DEF Recheck, Check
<1>11. CASE Listen(t)
  <2>1. CASE Fail(t)
    BY Zenon, <1>4, <1>6, <1>7, <1>11, <2>1 DEF Listen
  <2>2. CASE /\ Running(th[t].svc)
             /\ th' = [th EXCEPT ![t].pc = "sd", ![t].run = svc[th[t].svc]]
             /\ UNCHANGED <<pc, why, shuttingDown>>
    <3> DEFINE y == [th[t] EXCEPT !.pc = "sd", !.run = svc[th[t].svc]]
    <3>1. svc[th[t].svc] \in Nat
      BY Zenon, <1>1 DEF Types
    <3>2. /\ y \in ThreadRecord /\ y.pc = "sd" /\ y.svc = th[t].svc /\ y.gated = th[t].gated
          /\ y.run = svc[th[t].svc]
      BY Zenon, <1>1, <3>1 DEF ThreadRecord
    <3>3. th' = [th EXCEPT ![t] = y]
      BY Zenon, <1>1, <2>2
    <3> HIDE DEF y
    <3>4. Move(t, y)
      BY Zenon, <1>2, <1>7, <1>11, <2>2, <3>2, <3>3 DEF Move, Listen
    <3> QED BY Zenon, <3>2, <3>4
  <2> QED BY Zenon, <1>11, <2>1, <2>2 DEF Listen
<1>12. CASE AwaitReady(t)
  <2>1. CASE Fail(t)
    BY Zenon, <1>4, <1>6, <1>7, <1>12, <2>1 DEF AwaitReady
  <2>2. CASE runs[th[t].run].ready /\ Continue(t, "done")
    BY Zenon, <1>6, <1>7, <1>12, <2>2 DEF AwaitReady, Continue
  <2> QED BY Zenon, <1>12, <2>1, <2>2 DEF AwaitReady, Notify
<1> QED BY Zenon, <1>8, <1>9, <1>10, <1>11, <1>12

(* One run changes as it may.                                              *)
LEMMA RunChanged ==
  ASSUME runs \in Seq(RunRecord), NEW r \in DOMAIN runs, NEW b \in RunRecord,
         Kept(runs[r], b), runs' = [runs EXCEPT ![r] = b]
  PROVE  /\ runs' \in Seq(RunRecord) /\ DOMAIN runs' = DOMAIN runs
         /\ \A q \in DOMAIN runs : Kept(runs[q], runs'[q])
<1>1. runs' \in Seq(RunRecord) /\ DOMAIN runs' = DOMAIN runs
  OBVIOUS
<1>2. \A q \in DOMAIN runs : runs'[q] = IF q = r THEN b ELSE runs[q]
  BY Zenon
<1>3. \A a : Kept(a, a)
  BY Zenon DEF Kept
<1> QED BY Zenon, <1>1, <1>2, <1>3

LEMMA RunStopped ==
  ASSUME runs \in Seq(RunRecord), NEW r \in DOMAIN runs, runs' = Stopped(r)
  PROVE  /\ runs' \in Seq(RunRecord) /\ DOMAIN runs' = DOMAIN runs
         /\ \A q \in DOMAIN runs : Kept(runs[q], runs'[q])
<1> DEFINE b == [runs[r] EXCEPT !.killed = TRUE]
<1>1. runs[r] \in RunRecord
  OBVIOUS
<1>2. b \in RunRecord /\ Kept(runs[r], b)
  BY Zenon, <1>1 DEF RunRecord, Kept
<1>3. runs' = [runs EXCEPT ![r] = b]
  BY Zenon DEF Stopped
<1> HIDE DEF b
<1> QED BY Zenon, <1>2, <1>3, RunChanged

(* The steps of children, clients and waitOneshot.                         *)
LEMMA OthersTouch ==
  ASSUME Types, Control, pc' # "dead",
         \/ \E r \in DOMAIN runs : WaitOneshot(r) \/ ChildExits(r) \/ ChildReady(r)
         \/ \E c \in Client : WaitExit(c)
         \/ \E c \in Client, n \in Name :
              \/ \E wait \in BOOLEAN : ClientStart(c, n, wait)
              \/ ClientStop(c, n) \/ ClientRestart(c, n)
         \/ \E n \in Name : StopAll(n)
         \/ UNCHANGED vars
  PROVE  Touch
<1>1. /\ runs \in Seq(RunRecord) /\ th \in [Thread -> ThreadRecord] /\ svc \in [Name -> Nat]
      /\ \A n \in Name : svc[n] # 0 => svc[n] \in DOMAIN runs
      /\ \A t \in Thread : th[t] \in ThreadRecord
  BY Zenon DEF Types
<1>2. ASSUME UNCHANGED runs
      PROVE  /\ runs' \in Seq(RunRecord) /\ DOMAIN runs' = DOMAIN runs
             /\ \A r \in DOMAIN runs : Kept(runs[r], runs'[r])
  BY Zenon, <1>1, <1>2 DEF Kept
<1>3. ASSUME UNCHANGED <<orderVars, bootVars, svc, skipped, mu, th>>,
             runs' \in Seq(RunRecord), DOMAIN runs' = DOMAIN runs,
             \A r \in DOMAIN runs : Kept(runs[r], runs'[r])
      PROVE  Touch
  BY Zenon, <1>1, <1>3 DEF Touch
<1>4. ASSUME UNCHANGED <<orderVars, bootVars, svc, skipped, mu>>, pc # "init",
             NEW c \in Client, NEW y \in ThreadRecord,
             th[c].pc \in {"idle", "exit"}, y.pc \notin {"fork", "sd"}, th' = [th EXCEPT ![c] = y],
             runs' \in Seq(RunRecord), DOMAIN runs' = DOMAIN runs,
             \A r \in DOMAIN runs : Kept(runs[r], runs'[r])
      PROVE  Touch
  <2>1. c \in Thread
    BY Zenon, IdleThread
  <2>2. th' \in [Thread -> ThreadRecord] /\ \A t \in Thread : th'[t] = IF t = c THEN y ELSE th[t]
    BY Zenon, <1>1, <1>4, <2>1
  <2> QED BY Zenon, <1>4, <2>2 DEF Touch
<1>5. ASSUME NEW r \in DOMAIN runs, WaitOneshot(r)
      PROVE  Touch
  <2>1. runs[r] \in RunRecord
    BY <1>1
  <2>2. \E b \in RunRecord : Kept(runs[r], b) /\ runs' = [runs EXCEPT ![r] = b]
    <3>1. CASE ~runs[r].up /\ runs' = [runs EXCEPT ![r].out = "exit"]
      <4>1. [runs[r] EXCEPT !.out = "exit"] \in RunRecord
        BY Zenon, <2>1 DEF RunRecord
      <4>2. Kept(runs[r], [runs[r] EXCEPT !.out = "exit"])
        BY Zenon, <1>5, <2>1, <3>1 DEF WaitOneshot, RunRecord, Kept
      <4> QED BY Zenon, <3>1, <4>1, <4>2
    <3>2. CASE runs' = [runs EXCEPT ![r].out = "err", ![r].killed = TRUE]
      <4> DEFINE b == [runs[r] EXCEPT !.out = "err", !.killed = TRUE]
      <4>1. b \in RunRecord
        BY Zenon, <2>1 DEF RunRecord
      <4>2. Kept(runs[r], b)
        BY Zenon, <1>5, <2>1 DEF WaitOneshot, RunRecord, Kept
      <4>3. runs' = [runs EXCEPT ![r] = b]
        BY Zenon, <1>1, <3>2
      <4> QED BY Zenon, <4>1, <4>2, <4>3
    <3> QED BY Zenon, <1>5, <3>1, <3>2 DEF WaitOneshot
  <2>3. UNCHANGED <<orderVars, bootVars, svc, skipped, mu, th>>
    BY Zenon, <1>5 DEF WaitOneshot, threadVars
  <2> QED BY Zenon, <1>1, <1>3, <2>2, <2>3, RunChanged
<1>6. ASSUME NEW r \in DOMAIN runs, ChildExits(r)
      PROVE  Touch
  <2>1. runs[r] \in RunRecord
    BY <1>1
  <2>2. PICK code \in {0, 1} : runs' = [runs EXCEPT ![r].up = FALSE, ![r].code = code]
    BY Zenon, <1>6 DEF ChildExits
  <2> DEFINE b == [runs[r] EXCEPT !.up = FALSE, !.code = code]
  <2>3. b \in RunRecord /\ Kept(runs[r], b)
    BY Zenon, <1>6, <2>1 DEF ChildExits, RunRecord, Kept
  <2>4. runs' = [runs EXCEPT ![r] = b]
    BY Zenon, <1>1, <2>2
  <2>5. UNCHANGED <<orderVars, bootVars, svc, skipped, mu, th>>
    BY Zenon, <1>6 DEF ChildExits, threadVars
  <2> HIDE DEF b
  <2> QED BY Zenon, <1>1, <1>3, <2>3, <2>4, <2>5, RunChanged
<1>7. ASSUME NEW r \in DOMAIN runs, ChildReady(r)
      PROVE  Touch
  <2> DEFINE b == [runs[r] EXCEPT !.ready = TRUE]
  <2>1. runs[r] \in RunRecord
    BY <1>1
  <2>2. b \in RunRecord /\ Kept(runs[r], b)
    BY Zenon, <2>1 DEF RunRecord, Kept
  <2>3. runs' = [runs EXCEPT ![r] = b]
    BY Zenon, <1>7 DEF ChildReady
  <2>4. UNCHANGED <<orderVars, bootVars, svc, skipped, mu, th>>
    BY Zenon, <1>7 DEF ChildReady, threadVars
  <2> HIDE DEF b
  <2> QED BY Zenon, <1>1, <1>3, <2>2, <2>3, <2>4, RunChanged
<1>8. ASSUME NEW n \in Name, StopAll(n)
      PROVE  Touch
  <2>1. svc[n] \in DOMAIN runs /\ runs' = Stopped(svc[n])
    BY Zenon, <1>1, <1>8 DEF StopAll, Running
  <2>2. UNCHANGED <<orderVars, bootVars, svc, skipped, mu, th>>
    BY Zenon, <1>8 DEF StopAll, threadVars
  <2> QED BY Zenon, <1>1, <1>3, <2>1, <2>2, RunStopped
<1>9. ASSUME NEW c \in Client, NEW x \in {"gate", "done"}
      PROVE  LET y == [th[c] EXCEPT !.pc = x]
             IN  y \in ThreadRecord /\ y.pc = x /\ [th EXCEPT ![c].pc = x] = [th EXCEPT ![c] = y]
  BY Zenon, <1>1, IdleThread DEF ThreadRecord
<1>10. ASSUME NEW c \in Client, WaitExit(c)
       PROVE  Touch
  <2>1. PICK x \in {"gate", "done"} : th' = [th EXCEPT ![c].pc = x]
    BY Zenon, <1>10 DEF WaitExit, GoTo
  <2>2. UNCHANGED <<orderVars, bootVars, svc, skipped, mu, runs>> /\ th[c].pc = "exit"
    BY Zenon, <1>10 DEF WaitExit, procVars
  <2>3. pc # "init"
    BY Zenon, <2>2, IdleThread DEF Control
  <2> DEFINE y == [th[c] EXCEPT !.pc = x]
  <2>4. y \in ThreadRecord /\ y.pc = x /\ th' = [th EXCEPT ![c] = y]
    BY Zenon, <1>9, <2>1
  <2> HIDE DEF y
  <2> QED BY Zenon, <1>2, <1>4, <2>2, <2>3, <2>4
<1>11. ASSUME NEW c \in Client, NEW n \in Name, ClientStop(c, n)
       PROVE  Touch
  <2>1. /\ UNCHANGED <<orderVars, bootVars, svc, skipped, mu>> /\ th[c].pc = "idle" /\ pc # "init"
        /\ runs' = Stopped(svc[n]) /\ th' = [th EXCEPT ![c].pc = "done"] /\ svc[n] \in DOMAIN runs
    BY Zenon, <1>1, <1>11 DEF ClientStop, GoTo, Serving, Running
  <2> DEFINE y == [th[c] EXCEPT !.pc = "done"]
  <2>2. y \in ThreadRecord /\ y.pc = "done" /\ th' = [th EXCEPT ![c] = y]
    BY Zenon, <1>9, <2>1
  <2> HIDE DEF y
  <2> QED BY Zenon, <1>1, <1>4, <2>1, <2>2, RunStopped
<1>12. ASSUME NEW c \in Client, NEW n \in Name, NEW wait \in BOOLEAN, ClientStart(c, n, wait)
       PROVE  Touch
  <2> DEFINE y == [Idle EXCEPT !.svc = n, !.gated = wait, !.pc = IF wait THEN "gate" ELSE "cond"]
  <2>1. /\ UNCHANGED <<orderVars, bootVars, svc, skipped, mu, runs>> /\ th[c].pc = "idle"
        /\ pc # "init" /\ th' = [th EXCEPT ![c] = y]
    BY Zenon, <1>12 DEF ClientStart, Serving, procVars
  <2>2. y \in ThreadRecord /\ y.pc \notin {"fork", "sd"}
    BY Zenon, IdleThread DEF ThreadRecord
  <2> HIDE DEF y
  <2> QED BY Zenon, <1>2, <1>4, <2>1, <2>2
<1>13. ASSUME NEW c \in Client, NEW n \in Name, ClientRestart(c, n)
       PROVE  Touch
  <2> DEFINE y == [Idle EXCEPT !.svc = n, !.bounce = TRUE, !.run = svc[n], !.pc = "exit"]
  <2>1. /\ UNCHANGED <<orderVars, bootVars, svc, skipped, mu>> /\ th[c].pc = "idle"
        /\ pc # "init" /\ th' = [th EXCEPT ![c] = y]
    BY Zenon, <1>13 DEF ClientRestart, Serving
  <2>2. y \in ThreadRecord /\ y.pc \notin {"fork", "sd"}
    BY Zenon, <1>1, IdleThread DEF ThreadRecord
  <2>3. /\ runs' \in Seq(RunRecord) /\ DOMAIN runs' = DOMAIN runs
        /\ \A r \in DOMAIN runs : Kept(runs[r], runs'[r])
    <3>1. CASE Running(n)
      <4>1. svc[n] \in DOMAIN runs /\ runs' = Stopped(svc[n])
        BY Zenon, <1>1, <1>13, <3>1 DEF ClientRestart, Running
      <4> QED BY Zenon, <1>1, <4>1, RunStopped
    <3>2. CASE ~Running(n)
      BY Zenon, <1>2, <1>13, <3>2 DEF ClientRestart
    <3> QED BY Zenon, <3>1, <3>2
  <2> HIDE DEF y
  <2> QED BY Zenon, <1>4, <2>1, <2>2, <2>3
<1>14. ASSUME UNCHANGED vars
       PROVE  Touch
  BY Zenon, <1>2, <1>3, <1>14 DEF vars, procVars, threadVars
<1> QED BY <1>5, <1>6, <1>7, <1>8, <1>10, <1>11, <1>12, <1>13, <1>14

-----------------------------------------------------------------------------
(* Every step keeps the invariant                                          *)

(* The configuration and the layers are fixed once loaded.                 *)
LEMMA SameConf ==
  ASSUME cfg' = cfg
  PROVE  \A n : Conf(n)' = Conf(n) /\ IsOneshot(n)' = IsOneshot(n) /\ IsService(n)' = IsService(n)
BY Zenon DEF Conf, ServiceOf, IsOneshot, IsService, Startup

LEMMA OwnersAreNames ==
  ASSUME runs \in Seq(RunRecord)
  PROVE  \A r \in DOMAIN runs : runs[r] \in RunRecord /\ runs[r].owner \in Name
<1>1. \A r \in DOMAIN runs : runs[r] \in RunRecord
  OBVIOUS
<1> QED BY Zenon, <1>1 DEF RunRecord

(* What is settled stays settled.                                          *)
LEMMA SettledStays ==
  ASSUME Types, Tracked, cfg' = cfg, skipped \subseteq skipped',
         \A r \in DOMAIN runs : /\ r \in DOMAIN runs' /\ Kept(runs[r], runs'[r])
                                /\ r \in awaited' => r \in awaited
  PROVE  \A m : Settled(m) => Settled(m)'
<1> SUFFICES ASSUME NEW m, Settled(m) PROVE Settled(m)'
  BY Zenon
<1>1. Conf(m)' = Conf(m) /\ IsOneshot(m)' = IsOneshot(m) /\ IsService(m)' = IsService(m)
  BY Zenon, SameConf
<1>2. CASE ~IsOneshot(m) /\ ~IsService(m)
  BY Zenon, <1>1, <1>2 DEF Settled
<1>3. CASE m \in skipped
  BY Zenon, <1>3 DEF Settled
<1>4. ASSUME NEW r \in DOMAIN runs, runs[r].owner = m, runs[r].by = "oneshot",
             runs[r].out = "exit", r \notin awaited,
             RemapExitCode(m, runs[r].code) = 0 \/ Conf(m).ignore
      PROVE  Settled(m)'
  <2>1. /\ r \in DOMAIN runs' /\ r \notin awaited' /\ runs'[r].owner = m /\ runs'[r].by = "oneshot"
        /\ runs'[r].out = "exit"
    BY Zenon, <1>4 DEF Kept
  <2>2. runs'[r].code = runs[r].code
    BY Zenon, <1>4 DEF Kept, Tracked
  <2>3. (RemapExitCode(m, runs[r].code) = 0 \/ Conf(m).ignore)'
    BY Zenon, <1>1, <1>4, <2>2 DEF RemapExitCode
  <2> QED BY Zenon, <2>1, <2>3 DEF Settled
<1>5. ASSUME NEW r \in DOMAIN runs, runs[r].owner = m, runs[r].by = "boot", IsService(m),
             Conf(m).sd => runs[r].ready
      PROVE  Settled(m)'
  <2>1. r \in DOMAIN runs' /\ runs'[r].owner = m /\ runs'[r].by = "boot"
    BY Zenon, <1>5 DEF Kept
  <2>2. Conf(m)'.sd => runs'[r].ready
    BY Zenon, <1>1, <1>5 DEF Kept
  <2> QED BY Zenon, <1>1, <1>5, <2>1, <2>2 DEF Settled
<1>6. ASSUME NEW r \in DOMAIN runs, runs[r].owner = m, runs[r].by = "client", IsService(m)
      PROVE  Settled(m)'
  <2>1. r \in DOMAIN runs' /\ runs'[r].owner = m /\ runs'[r].by = "client"
    BY Zenon, <1>6 DEF Kept
  <2> QED BY Zenon, <1>1, <1>6, <2>1 DEF Settled
<1> QED BY Zenon, <1>2, <1>3, <1>4, <1>5, <1>6 DEF Settled

(* What a loop over the layer has passed stays settled or on the way.      *)
LEMMA CurrentKept ==
  ASSUME Current, LayersOK, layers' = layers, cfg' = cfg, pc' = pc, at' = at, rest' \subseteq rest,
         fatal => fatal',
         \A m : Settled(m) => Settled(m)',
         \A n \in Name : Starting(n) => Settled(n)' \/ Starting(n)',
         \A m : (\E r \in awaited : runs[r].owner = m) =>
                  fatal' \/ Settled(m)' \/ \E q \in awaited' : runs'[q].owner = m,
         \A n \in rest \ rest' :
           /\ pc = "oneshots" /\ IsOneshot(n) => Settled(n)' \/ \E q \in awaited' : runs'[q].owner = n
           /\ pc = "services" /\ IsService(n) => Settled(n)' \/ Starting(n)'
  PROVE  Current'
<1>1. /\ pc' = "next" => at' <= Len(layers')
      /\ pc' \in {"oneshots", "collect", "services"} => at' \in DOMAIN layers' /\ rest' \subseteq layers'[at']
  BY Zenon DEF Current
<1>2. \A n : IsOneshot(n)' = IsOneshot(n) /\ IsService(n)' = IsService(n)
  BY Zenon, SameConf
<1>3. ASSUME NEW k \in DOMAIN layers, NEW m \in layers[k]
      PROVE  /\ k < at => Settled(m)'
             /\ k = at =>
                  /\ pc = "next" => Settled(m)'
                  /\ pc = "services" /\ IsOneshot(m) => Settled(m)'
  BY Zenon, <1>3 DEF Current
<1>4. ASSUME NEW k \in DOMAIN layers, NEW m \in layers[k], k = at, IsOneshot(m),
             pc = "collect" \/ (pc = "oneshots" /\ m \notin rest')
      PROVE  fatal' \/ Settled(m)' \/ \E q \in awaited' : runs'[q].owner = m
  <2>1. CASE m \in rest /\ pc = "oneshots"
    BY Zenon, <1>4, <2>1
  <2>2. CASE ~(m \in rest /\ pc = "oneshots")
    <3>1. fatal \/ Settled(m) \/ \E r \in awaited : runs[r].owner = m
      BY Zenon, <1>4, <2>2 DEF Current
    <3> QED BY Zenon, <3>1
  <2> QED BY Zenon, <2>1, <2>2
<1>5. ASSUME NEW k \in DOMAIN layers, NEW m \in layers[k], k = at, IsService(m),
             pc = "services", m \notin rest'
      PROVE  Settled(m)' \/ Starting(m)'
  <2>1. m \in Name
    BY DEF LayersOK
  <2> QED BY Zenon, <1>5, <2>1 DEF Current
<1> QED BY Zenon, <1>1, <1>2, <1>3, <1>4, <1>5 DEF Current

(* Children, clients and waitOneshot.                                      *)
LEMMA TouchKeeps ==
  ASSUME Live, LayersOK, Touch
  PROVE  Live'
<1>1. /\ Types /\ Control /\ Tracked /\ Layered
      /\ runs \in Seq(RunRecord) /\ runs' \in Seq(RunRecord) /\ DOMAIN runs' = DOMAIN runs
      /\ \A r \in DOMAIN runs : Kept(runs[r], runs'[r])
      /\ awaited \subseteq DOMAIN runs /\ svc \in [Name -> Nat]
  BY Zenon DEF Live, Touch, Types
<1>2. /\ layers' = layers /\ phase' = phase /\ cfg' = cfg /\ pc' = pc /\ why' = why /\ at' = at
      /\ rest' = rest /\ awaited' = awaited /\ fatal' = fatal /\ svc' = svc
      /\ skipped' = skipped /\ mu' = mu
  BY Zenon DEF Touch, orderVars, bootVars
<1>3. \A t \in Thread : \/ th'[t] = th[t]
                        \/ t \in Client /\ th[t].pc \notin {"fork", "sd"} /\ th'[t].pc \notin {"fork", "sd"}
  BY Zenon DEF Touch
<1>4. \A n \in Name : n \in Thread /\ th'[n] = th[n]
  BY Zenon, <1>3, IdleThread
<1>5. \A r \in DOMAIN runs : /\ runs'[r].owner = runs[r].owner /\ runs'[r].by = runs[r].by
  BY Zenon, <1>1 DEF Kept
<1>6. Types'
  <2>1. \A n \in Name : svc'[n] # 0 => svc'[n] \in DOMAIN runs' /\ runs'[svc'[n]].owner = n
    BY Zenon, <1>1, <1>2, <1>5 DEF Types
  <2>2. \A t \in Thread : th'[t].pc = "sd" =>
          th'[t].run \in DOMAIN runs' /\ runs'[th'[t].run].owner = th'[t].svc
    BY <1>1, <1>3, <1>5 DEF Types
  <2>3. \A t \in Thread : th'[t].pc = "fork" <=> mu' = t
    BY Zenon, <1>1, <1>2, <1>3 DEF Types
  <2>4. th' \in [Thread -> ThreadRecord]
    BY Zenon DEF Touch
  <2> QED BY Zenon, <1>1, <1>2, <2>1, <2>2, <2>3, <2>4 DEF Types
<1>7. Control'
  BY Zenon, <1>1, <1>2 DEF Control, Touch
<1>8. Tracked'
  <2>1. \A n : IsOneshot(n)' = IsOneshot(n)
    BY Zenon, <1>2, SameConf
  <2>2. \A r \in awaited' : runs'[r].by = "oneshot"
    BY Zenon, <1>1, <1>2, <1>5 DEF Tracked
  <2>3. ASSUME NEW r \in DOMAIN runs', runs'[r].by = "oneshot"
        PROVE  /\ IsOneshot(runs[r].owner)'
               /\ runs'[r].out = "exit" => ~runs'[r].up
               /\ runs'[r].out = "err" => runs'[r].killed
               /\ r \notin awaited' => runs'[r].out # "none" /\ (runs'[r].out = "err" => fatal')
    <3>1. /\ IsOneshot(runs[r].owner)
          /\ runs[r].out = "exit" => ~runs[r].up
          /\ runs[r].out = "err" => runs[r].killed
          /\ r \notin awaited => runs[r].out # "none" /\ (runs[r].out = "err" => fatal)
      BY Zenon, <1>1, <1>5, <2>3 DEF Tracked
    <3>2. Kept(runs[r], runs'[r])
      BY Zenon, <1>1, <2>3
    <3> QED BY Zenon, <1>2, <2>1, <3>1, <3>2 DEF Kept
  <2>4. \A r \in DOMAIN runs' : runs'[r].by # "oneshot" =>
          svc'[runs'[r].owner] = r \/ IsOneshot(runs[r].owner)'
    BY Zenon, <1>1, <1>2, <1>5, <2>1 DEF Tracked
  <2>5. ASSUME NEW t \in Thread, mu' = t
        PROVE  svc'[th'[t].svc] = 0 \/ IsOneshot(th[t].svc)'
    <3>1. th'[t] = th[t]
      BY Zenon, <1>1, <1>2, <1>3, <2>5 DEF Types
    <3> QED BY Zenon, <1>1, <1>2, <2>1, <2>5, <3>1 DEF Tracked, Running
  <2> QED BY Zenon, <2>2, <2>3, <2>4, <2>5 DEF Tracked, Running
<1>9. Layered'
  <2> SUFFICES ASSUME Serving PROVE Current' /\ Starts'
    BY Zenon, <1>2 DEF Layered, Serving
  <2>1. Current /\ Starts
    BY Zenon, <1>1 DEF Layered
  <2>2. \A m : /\ Settled(m) => Settled(m)'
               /\ IsOneshot(m)' = IsOneshot(m) /\ IsService(m)' = IsService(m)
    BY Zenon, <1>1, <1>2, SameConf, SettledStays
  <2>3. Current'
    <3>1. \A r \in awaited : r \in awaited' /\ runs'[r].owner = runs[r].owner
      BY Zenon, <1>1, <1>2, <1>5
    <3>2. \A n \in Name : Starting(n) => Starting(n)'
      BY Zenon, <1>4 DEF Starting
    <3> QED BY Zenon, <1>2, <2>1, <2>2, <3>1, <3>2, CurrentKept
  <2>4. Starts'
    <3>1. \A n \in Name : Starting(n)' = Starting(n)
      BY Zenon, <1>4 DEF Starting
    <3>2. \A r \in DOMAIN runs : runs[r].owner \in Name
      BY Zenon, <1>1, OwnersAreNames
    <3> QED BY <1>1, <1>2, <1>4, <1>5, <2>1, <2>2, <3>1, <3>2 DEF Starts
  <2> QED BY Zenon, <2>3, <2>4
<1> QED BY Zenon, <1>6, <1>7, <1>8, <1>9 DEF Live

(* A run that boot finds for an enabled service settles it, unless it is   *)
(* boot's own and has not said READY.                                      *)
LEMMA RunSettles ==
  ASSUME Types, Tracked, NEW n \in Name, IsService(n), NEW r \in DOMAIN runs, runs[r].owner = n,
         runs[r].by = "client" \/ ~Conf(n).sd \/ runs[r].ready
  PROVE  Settled(n)
<1>1. runs[r].by \in {"oneshot", "boot", "client"}
  BY Zenon, OwnersAreNames DEF Types, RunRecord
<1>2. runs[r].by # "oneshot"
  BY Zenon DEF Tracked, IsOneshot, IsService
<1>3. CASE runs[r].by = "client"
  BY Zenon, <1>3 DEF Settled
<1>4. CASE runs[r].by = "boot"
  BY Zenon, <1>4 DEF Settled
<1> QED BY Zenon, <1>1, <1>2, <1>3, <1>4

(* A thread that goes on without forking.                                  *)
LEMMA MoveKeeps ==
  ASSUME Live, LayersOK, NEW t \in Thread, NEW next \in ThreadRecord, Move(t, next)
  PROVE  Live'
<1>1. /\ Types /\ Control /\ Tracked /\ Layered
      /\ runs \in Seq(RunRecord) /\ awaited \subseteq DOMAIN runs /\ svc \in [Name -> Nat]
      /\ th \in [Thread -> ThreadRecord] /\ th[t].svc \in Name
      /\ \A u \in Thread : th[u].svc \in Name
  BY Zenon DEF Live, Types, ThreadRecord
<1>2. /\ layers' = layers /\ phase' = phase /\ cfg' = cfg /\ pc' = pc /\ why' = why /\ at' = at
      /\ rest' = rest /\ awaited' = awaited /\ fatal' = fatal /\ runs' = runs /\ svc' = svc
      /\ skipped \subseteq skipped' /\ skipped' \subseteq Name
  BY Zenon DEF Move, orderVars, procVars
<1>3. /\ pc # "init" /\ th[t].pc \notin {"idle", "fork", "done", "exit"}
      /\ next.svc = th[t].svc /\ next.gated = th[t].gated /\ next.pc # "idle"
      /\ th' \in [Thread -> ThreadRecord]
      /\ \A u \in Thread : th'[u] = IF u = t THEN next ELSE th[u]
  BY Zenon, <1>1 DEF Move
<1>4. /\ next.pc = "fork" => mu = Free /\ mu' = t /\ svc[th[t].svc] = 0
      /\ next.pc # "fork" => mu' = mu
      /\ next.pc = "sd" => svc[th[t].svc] # 0 /\ next.run = svc[th[t].svc]
  BY Zenon DEF Move, Running
<1>5. \A n : IsOneshot(n)' = IsOneshot(n) /\ IsService(n)' = IsService(n) /\ Conf(n)' = Conf(n)
  BY Zenon, <1>2, SameConf
<1>6. Types'
  <2>1. \A u \in Thread : th'[u].pc = "sd" =>
          th'[u].run \in DOMAIN runs /\ runs[th'[u].run].owner = th'[u].svc
    BY <1>1, <1>3, <1>4 DEF Types
  <2>2. \A u \in Thread : th'[u].pc = "fork" <=> mu' = u
    BY <1>1, <1>3, <1>4, IdleThread DEF Types
  <2>3. mu' \in Thread \cup {Free}
    BY Zenon, <1>1, <1>4 DEF Types
  <2> QED BY <1>1, <1>2, <1>3, <2>1, <2>2, <2>3 DEF Types
<1>7. Control'
  BY Zenon, <1>1, <1>2, <1>3 DEF Control
<1>8. Tracked'
  <2>1. ASSUME NEW u \in Thread, mu' = u
        PROVE  svc'[th'[u].svc] = 0 \/ IsOneshot(th[u].svc)'
    <3>1. CASE next.pc = "fork"
      BY <1>2, <1>3, <1>4, <2>1, <3>1
    <3>2. CASE next.pc # "fork"
      <4>1. mu = u /\ u # t
        BY Zenon, <1>1, <1>3, <1>4, <2>1, <3>2 DEF Types
      <4>2. svc[th[u].svc] = 0 \/ IsOneshot(th[u].svc)
        BY Zenon, <1>1, <4>1 DEF Tracked, Running
      <4>3. th'[u] = th[u]
        BY Zenon, <1>3, <4>1
      <4> QED BY Zenon, <1>2, <1>5, <4>2, <4>3
    <3> QED BY Zenon, <3>1, <3>2
  <2> QED BY Zenon, <1>1, <1>2, <1>5, <2>1 DEF Tracked, Running
<1>9. Layered'
  <2> SUFFICES ASSUME Serving PROVE Current' /\ Starts'
    BY Zenon, <1>2 DEF Layered, Serving
  <2>1. Current /\ Starts
    BY Zenon, <1>1 DEF Layered
  <2>2. \A m : Settled(m) => Settled(m)'
    <3>1. \A r \in DOMAIN runs : Kept(runs[r], runs'[r])
      BY Zenon, <1>2 DEF Kept
    <3> QED BY Zenon, <1>1, <1>2, <3>1, SettledStays
  <2>3. ASSUME NEW n \in Name, t = n
        PROVE  th[n].svc = n /\ IsService(n) /\ th[n].gated /\ Starting(n)
    BY Zenon, <1>3, <2>1, <2>3 DEF Starts, Starting
  <2>4. ASSUME NEW n \in Name, t = n, next.pc = "done"
        PROVE  Settled(n)'
    <3>0. t \notin Client /\ IsService(n) /\ th[t].svc = n /\ th[t].gated
      BY Zenon, <2>3, <2>4, IdleThread
    <3>1. CASE n \in skipped'
      BY Zenon, <3>1 DEF Settled
    <3>2. CASE Running(n) /\ ~Conf(n).sd
      <4>1. svc[n] \in DOMAIN runs /\ runs[svc[n]].owner = n
        BY Zenon, <1>1, <3>2 DEF Types, Running
      <4> QED BY Zenon, <1>1, <2>2, <3>0, <3>2, <4>1, RunSettles
    <3>3. CASE th[t].pc = "sd" /\ runs[th[t].run].ready
      <4>1. th[t].run \in DOMAIN runs /\ runs[th[t].run].owner = n
        BY Zenon, <1>1, <3>0, <3>3 DEF Types
      <4> QED BY Zenon, <1>1, <2>2, <3>0, <3>3, <4>1, RunSettles
    <3> QED BY <2>4, <3>0, <3>1, <3>2, <3>3 DEF Move
  <2>5. ASSUME NEW n \in Name, Starting(n)
        PROVE  Settled(n)' \/ Starting(n)'
    <3>1. th'[n] = IF n = t THEN next ELSE th[n]
      BY Zenon, <1>3, IdleThread
    <3>2. CASE n # t
      BY Zenon, <2>5, <3>1, <3>2 DEF Starting
    <3>3. CASE n = t
      BY Zenon, <1>3, <2>4, <3>1, <3>3 DEF Starting
    <3> QED BY Zenon, <3>2, <3>3
  <2>6. Current'
    BY Zenon, <1>2, <2>1, <2>2, <2>5, CurrentKept
  <2>7. Starts'
    <3>1. \A r \in DOMAIN runs : runs[r].owner \in Name
      BY Zenon, <1>1, OwnersAreNames
    <3>2. ASSUME NEW n \in Name, th'[n].pc # "idle"
          PROVE  /\ th'[n].svc = n /\ th'[n].gated /\ IsService(n)'
                 /\ th'[n].pc = "done" => Settled(n)'
                 /\ Starting(n)' => pc = "services" /\ n \in layers[at]
                 /\ \E k \in DOMAIN layers :
                      /\ n \in layers[k] /\ k <= at
                      /\ k = at => pc = "next" \/ (pc = "services" /\ n \notin rest)
      <4>1. th'[n] = (IF n = t THEN next ELSE th[n]) /\ n \in Thread
        BY Zenon, <1>3, IdleThread
      <4>2. th[n].pc # "idle"
        BY Zenon, <1>3, <3>2, <4>1
      <4>3. /\ th'[n].svc = n /\ th'[n].gated /\ IsService(n)'
            /\ Starting(n)' => Starting(n)
            /\ th'[n].pc = "done" => Settled(n)'
        BY <1>3, <1>5, <2>1, <2>2, <2>3, <2>4, <4>1, <4>2 DEF Starts, Starting
      <4> QED BY Zenon, <2>1, <4>2, <4>3 DEF Starts
    <3>3. ASSUME NEW r \in DOMAIN runs, runs[r].by = "boot"
          PROVE  th'[runs[r].owner].pc \in {"listen", "sd", "done"}
      <4> DEFINE n == runs[r].owner
      <4>1. n \in Name /\ n \in Thread /\ th[n].pc \in {"listen", "sd", "done"}
        BY Zenon, <2>1, <3>1, <3>3, IdleThread DEF Starts
      <4>2. th'[n] = IF n = t THEN next ELSE th[n]
        BY Zenon, <1>3, <4>1
      <4>3. CASE n # t
        BY Zenon, <4>1, <4>2, <4>3
      <4>4. CASE n = t
        <5>1. th[t].pc \in {"listen", "sd"} => next.pc \in {"sd", "done"}
          BY Zenon DEF Move
        <5> QED BY Zenon, <1>3, <4>1, <4>2, <4>4, <5>1
      <4> QED BY Zenon, <4>3, <4>4
    <3> QED BY Zenon, <1>2, <3>2, <3>3 DEF Starts
  <2> QED BY Zenon, <2>6, <2>7
<1> QED BY Zenon, <1>6, <1>7, <1>8, <1>9 DEF Live

(* A fork adds one run, the current one of its service.                    *)
LEMMA Forked ==
  ASSUME Types, NEW n \in Name, NEW by \in {"oneshot", "boot", "client"}, Fork(n, by)
  PROVE  /\ runs' \in Seq(RunRecord) /\ svc' \in [Name -> Nat]
         /\ Len(runs) + 1 \in Nat \ {0} /\ Len(runs) + 1 \notin DOMAIN runs
         /\ Len(runs') = Len(runs) + 1 /\ Len(runs) + 1 \in DOMAIN runs'
         /\ \A r \in DOMAIN runs : r \in DOMAIN runs' /\ runs'[r] = runs[r]
         /\ \A r \in DOMAIN runs' : r \in DOMAIN runs \/ r = Len(runs) + 1
         /\ \A m \in Name : svc'[m] = IF m = n THEN Len(runs) + 1 ELSE svc[m]
         /\ runs'[Len(runs) + 1].owner = n /\ runs'[Len(runs) + 1].by = by
         /\ runs'[Len(runs) + 1].out = "none" /\ runs'[Len(runs) + 1].up
<1>1. runs \in Seq(RunRecord) /\ svc \in [Name -> Nat]
  BY Zenon DEF Types
<1>2. NewRun(n, by) \in RunRecord
  BY Zenon DEF NewRun, RunRecord
<1>3. /\ NewRun(n, by).owner = n /\ NewRun(n, by).by = by /\ NewRun(n, by).out = "none"
      /\ NewRun(n, by).up
  BY Zenon DEF NewRun
<1>4. runs' = Append(runs, NewRun(n, by)) /\ svc' = [svc EXCEPT ![n] = Len(runs) + 1]
  BY Zenon DEF Fork
<1> QED BY <1>1, <1>2, <1>3, <1>4

(* A thread leaves the lock: it has forked, or its client is told why not. *)
LEMMA FinishKeeps ==
  ASSUME Live, LayersOK, NEW t \in Thread, Finish(t), pc' # "dead"
  PROVE  Live'
<1> DEFINE n == th[t].svc
           l == Len(runs) + 1
<1>1. /\ Types /\ Control /\ Tracked /\ Layered
      /\ runs \in Seq(RunRecord) /\ awaited \subseteq DOMAIN runs /\ svc \in [Name -> Nat]
      /\ th \in [Thread -> ThreadRecord] /\ n \in Name /\ th[t].pc = "fork"
      /\ \A r \in DOMAIN runs : runs[r].owner \in Name /\ r \in Nat \ {0}
  <2>1. Types
    BY Zenon DEF Live
  <2> QED BY <2>1, OwnersAreNames DEF Live, Types, ThreadRecord, Finish
<1>2. /\ layers' = layers /\ phase' = phase /\ cfg' = cfg /\ at' = at
      /\ rest' = rest /\ awaited' = awaited /\ fatal' = fatal /\ skipped' = skipped
      /\ mu = t /\ mu' = Free /\ mu' \notin Thread
  BY Zenon, IdleThread DEF Finish, Unlock, orderVars
<1>3. \A m : IsOneshot(m)' = IsOneshot(m) /\ IsService(m)' = IsService(m) /\ Conf(m)' = Conf(m)
  BY Zenon, <1>2, SameConf
<1>4. pc # "init"
  BY Zenon, <1>1 DEF Control
<1>5. ASSUME NEW x, th' = [th EXCEPT ![t].pc = x], x \in {"listen", "done"}
      PROVE  /\ th' \in [Thread -> ThreadRecord]
             /\ th'[t].pc = x /\ th'[t].svc = n /\ th'[t].gated = th[t].gated
             /\ \A u \in Thread : u # t => th'[u] = th[u]
  BY Zenon, <1>1, <1>5 DEF ThreadRecord
<1>6. svc[n] = 0 \/ IsOneshot(n)
  BY Zenon, <1>1, <1>2 DEF Tracked, Running
<1>7. \A u \in Thread : u # t => th[u].pc # "fork"
  BY Zenon, <1>1, <1>2 DEF Types
<1>8. CASE Fail(t) /\ UNCHANGED procVars
  <2>1. t \in Client /\ t \notin Name /\ GoTo(t, "done") /\ UNCHANGED <<pc, why, runs, svc>>
    BY Zenon, <1>8, IdleThread DEF Fail, Fatalf, procVars
  <2>2. /\ th' \in [Thread -> ThreadRecord] /\ th'[t].pc = "done"
        /\ \A u \in Thread : u # t => th'[u] = th[u]
    BY Zenon, <1>5, <2>1 DEF GoTo
  <2>3. \A m \in Name : th'[m] = th[m] /\ Starting(m)' = Starting(m)
    BY Zenon, <2>1, <2>2, IdleThread DEF Starting
  <2>4. Types'
    <3>1. \A u \in Thread : th'[u].pc # "fork"
      BY Zenon, <1>7, <2>2
    <3>2. \A u \in Thread : th'[u].pc = "sd" =>
            th'[u].run \in DOMAIN runs /\ runs[th'[u].run].owner = th'[u].svc
      BY <1>1, <2>2 DEF Types
    <3> QED BY Zenon, <1>1, <1>2, <2>1, <2>2, <3>1, <3>2 DEF Types
  <2>5. Control'
    BY Zenon, <1>1, <1>2, <1>4, <2>1 DEF Control
  <2>6. Tracked'
    BY Zenon, <1>1, <1>2, <1>3, <2>1 DEF Tracked
  <2>7. ASSUME Serving PROVE Current' /\ Starts'
    <3>1. Current /\ Starts
      BY Zenon, <1>1, <2>7 DEF Layered
    <3>2. \A m : Settled(m) => Settled(m)'
      <4>1. \A r \in DOMAIN runs : Kept(runs[r], runs'[r])
        BY Zenon, <2>1 DEF Kept
      <4> QED BY Zenon, <1>1, <1>2, <2>1, <4>1, SettledStays
    <3>3. Current'
      BY Zenon, <1>2, <2>1, <2>3, <3>1, <3>2, CurrentKept
    <3>4. Starts'
      BY <1>1, <1>2, <1>3, <2>1, <2>3, <3>1, <3>2 DEF Starts
    <3> QED BY Zenon, <3>3, <3>4
  <2>8. Layered'
    BY Zenon, <2>1, <2>7 DEF Layered, Serving
  <2> QED BY Zenon, <2>4, <2>5, <2>6, <2>8 DEF Live
<1>9. CASE Fork(n, IF t \in Name THEN "boot" ELSE "client") /\ Continue(t, AfterStart(t))
  <2> DEFINE by == IF t \in Name THEN "boot" ELSE "client"
  <2>1. UNCHANGED <<pc, why>> /\ GoTo(t, AfterStart(t))
    BY Zenon, <1>9 DEF Continue
  <2>2. /\ th' \in [Thread -> ThreadRecord] /\ th'[t].pc = AfterStart(t) /\ th'[t].svc = n
        /\ th'[t].gated = th[t].gated
        /\ \A u \in Thread : u # t => th'[u] = th[u]
        /\ AfterStart(t) \in {"listen", "done"}
    <3>1. AfterStart(t) \in {"listen", "done"}
      BY Zenon DEF AfterStart
    <3> QED BY Zenon, <1>5, <2>1, <3>1 DEF GoTo
  <2>3. /\ runs' \in Seq(RunRecord) /\ svc' \in [Name -> Nat]
        /\ l \in Nat \ {0} /\ l \notin DOMAIN runs /\ l \in DOMAIN runs'
        /\ \A r \in DOMAIN runs : r \in DOMAIN runs' /\ runs'[r] = runs[r]
        /\ \A r \in DOMAIN runs' : r \in DOMAIN runs \/ r = l
        /\ \A m \in Name : svc'[m] = IF m = n THEN l ELSE svc[m]
        /\ runs'[l].owner = n /\ runs'[l].by = by
    <3>1. by \in {"oneshot", "boot", "client"}
      BY Zenon
    <3> HIDE DEF by
    <3>2. Fork(n, by)
      BY Zenon, <1>9 DEF by
    <3> QED BY <1>1, <3>1, <3>2, Forked
  <2>4. by # "oneshot" /\ (by = "boot" => t \in Name)
    BY Zenon
  <2> HIDE DEF l, by
  <2>5. Types'
    <3>1. \A u \in Thread : th'[u].pc # "fork"
      BY Zenon, <1>7, <2>2
    <3>2. \A u \in Thread : th'[u].pc = "sd" =>
            th'[u].run \in DOMAIN runs' /\ runs'[th'[u].run].owner = th'[u].svc
      BY <1>1, <2>2, <2>3 DEF Types
    <3>3. \A m \in Name : svc'[m] # 0 => svc'[m] \in DOMAIN runs' /\ runs'[svc'[m]].owner = m
      BY <1>1, <2>3 DEF Types
    <3> QED BY Zenon, <1>1, <1>2, <2>2, <2>3, <3>1, <3>2, <3>3 DEF Types
  <2>6. Control'
    BY Zenon, <1>1, <1>2, <1>4, <2>1 DEF Control
  <2>7. Tracked'
    <3>1. \A r \in awaited' : runs'[r].by = "oneshot"
      BY <1>1, <1>2, <2>3 DEF Tracked
    <3>2. ASSUME NEW r \in DOMAIN runs', runs'[r].by = "oneshot"
          PROVE  r \in DOMAIN runs /\ runs'[r] = runs[r] /\ runs[r].by = "oneshot"
      BY Zenon, <2>3, <2>4, <3>2
    <3>3. ASSUME NEW r \in DOMAIN runs', runs'[r].by # "oneshot"
          PROVE  svc'[runs'[r].owner] = r \/ IsOneshot(runs[r].owner)'
      <4>1. CASE r = l
        BY Zenon, <1>1, <2>3, <4>1
      <4>2. CASE r \in DOMAIN runs
        <5>1. svc[runs[r].owner] = r \/ IsOneshot(runs[r].owner)
          BY Zenon, <1>1, <2>3, <3>3, <4>2 DEF Tracked
        <5>2. runs[r].owner = n => r # 0
          BY Zenon, <1>1, <4>2
        <5> QED BY <1>1, <1>3, <1>6, <2>3, <4>2, <5>1, <5>2
      <4> QED BY Zenon, <2>3, <4>1, <4>2
    <3> QED BY Zenon, <1>1, <1>2, <1>3, <3>1, <3>2, <3>3 DEF Tracked
  <2>8. ASSUME Serving PROVE Current' /\ Starts'
    <3>1. Current /\ Starts
      BY Zenon, <1>1, <2>8 DEF Layered
    <3>2. \A m : Settled(m) => Settled(m)'
      <4>1. \A r \in DOMAIN runs : r \in DOMAIN runs' /\ Kept(runs[r], runs'[r])
        BY Zenon, <2>3 DEF Kept
      <4> QED BY Zenon, <1>1, <1>2, <4>1, SettledStays
    <3>3. ASSUME t \in Name
          PROVE  n = t /\ IsService(n) /\ th[t].gated
      BY Zenon, <1>1, <3>1, <3>3 DEF Starts
    <3>4. ASSUME t \in Name, th'[t].pc = "done"
          PROVE  Settled(t)'
      <4>1. ~Conf(n).sd
        BY Zenon, <2>2, <3>3, <3>4 DEF AfterStart
      <4>2. by = "boot"
        BY Zenon, <3>4 DEF by
      <4> QED BY <1>3, <2>3, <3>3, <3>4, <4>1, <4>2 DEF Settled
    <3>5. \A m \in Name : Starting(m) => Settled(m)' \/ Starting(m)'
      <4>1. ASSUME NEW m \in Name, Starting(m) PROVE Settled(m)' \/ Starting(m)'
        <5>1. CASE m = t
          BY Zenon, <2>2, <3>4, <5>1 DEF Starting
        <5>2. CASE m # t
          BY Zenon, <2>2, <4>1, <5>2, IdleThread DEF Starting
        <5> QED BY Zenon, <5>1, <5>2
      <4> QED BY Zenon, <4>1
    <3>6. Current'
      <4>1. \A r \in awaited : r \in awaited' /\ runs'[r].owner = runs[r].owner
        BY Zenon, <1>1, <1>2, <2>3
      <4> QED BY <1>2, <2>1, <3>1, <3>2, <3>5, <4>1, CurrentKept
    <3>7. ASSUME NEW m \in Name, th'[m].pc # "idle"
          PROVE  /\ th'[m].svc = m /\ th'[m].gated /\ IsService(m)'
                 /\ th'[m].pc = "done" => Settled(m)'
                 /\ Starting(m)' => pc = "services" /\ m \in layers[at]
                 /\ \E k \in DOMAIN layers :
                      /\ m \in layers[k] /\ k <= at
                      /\ k = at => pc = "next" \/ (pc = "services" /\ m \notin rest)
      <4>1. CASE m = t
        <5>1. th[m].pc # "idle" /\ Starting(m)
          BY Zenon, <1>1, <4>1 DEF Starting
        <5> QED BY <1>3, <2>2, <3>1, <3>3, <3>4, <4>1, <5>1 DEF Starts
      <4>2. CASE m # t
        <5>1. th'[m] = th[m] /\ Starting(m)' = Starting(m)
          BY Zenon, <2>2, <4>2, IdleThread DEF Starting
        <5> QED BY <1>3, <3>1, <3>2, <3>7, <5>1 DEF Starts
      <4> QED BY Zenon, <4>1, <4>2
    <3>8. ASSUME NEW r \in DOMAIN runs', runs'[r].by = "boot"
          PROVE  th'[runs'[r].owner].pc \in {"listen", "sd", "done"}
      <4>1. CASE r = l
        BY <2>2, <2>3, <2>4, <3>3, <3>8, <4>1
      <4>2. CASE r \in DOMAIN runs
        <5>1. runs'[r] = runs[r] /\ th[runs[r].owner].pc \in {"listen", "sd", "done"}
          BY Zenon, <2>3, <3>1, <3>8, <4>2 DEF Starts
        <5>2. runs[r].owner # t /\ runs[r].owner \in Thread
          BY Zenon, <1>1, <4>2, <5>1, IdleThread
        <5> QED BY Zenon, <2>2, <5>1, <5>2
      <4> QED BY Zenon, <2>3, <4>1, <4>2
    <3>9. Starts'
      BY Zenon, <1>2, <2>1, <3>7, <3>8 DEF Starts
    <3> QED BY Zenon, <3>6, <3>9
  <2>9. Layered'
    BY Zenon, <2>1, <2>8 DEF Layered, Serving
  <2> QED BY Zenon, <2>5, <2>6, <2>7, <2>9 DEF Live
<1> QED BY Zenon, <1>8, <1>9 DEF Finish

(* runLayerOneshots skips a process or forks a oneshot.                    *)
LEMMA StartOneshotKeeps ==
  ASSUME Live, LayersOK, NEW n \in Name, StartOneshot(n), pc' # "dead"
  PROVE  Live'
<1> DEFINE l == Len(runs) + 1
<1>1. /\ Types /\ Control /\ Tracked /\ Layered
      /\ runs \in Seq(RunRecord) /\ awaited \subseteq DOMAIN runs /\ svc \in [Name -> Nat]
      /\ th \in [Thread -> ThreadRecord]
      /\ \A t \in Thread : th[t].svc \in Name
      /\ \A r \in DOMAIN runs : runs[r].owner \in Name
  <2>1. Types
    BY Zenon DEF Live
  <2> QED BY Zenon, <2>1, OwnersAreNames DEF Live, Types, ThreadRecord
<1>2. /\ layers' = layers /\ phase' = phase /\ cfg' = cfg /\ at' = at /\ fatal' = fatal
      /\ th' = th /\ mu' = mu /\ pc = "oneshots" /\ n \in rest /\ rest' = rest \ {n}
      /\ pc' = pc /\ why' = why
  BY Zenon DEF StartOneshot, Fatalf, orderVars
<1>3. \A m : IsOneshot(m)' = IsOneshot(m) /\ IsService(m)' = IsService(m)
  BY Zenon, <1>2, SameConf
<1>4. Current /\ Starts
  BY Zenon, <1>1, <1>2 DEF Layered, Serving
<1>5. \A m : Starting(m)' = Starting(m)
  BY Zenon, <1>2 DEF Starting
<1>6. ASSUME \A m : Settled(m) => Settled(m)',
             \A r \in DOMAIN runs : r \in DOMAIN runs' /\ runs'[r] = runs[r],
             \A r \in DOMAIN runs' : runs'[r].by = "boot" => r \in DOMAIN runs
      PROVE  Starts'
  <2>1. ASSUME NEW m \in Name, th[m].pc # "idle"
        PROVE  /\ th[m].svc = m /\ th[m].gated /\ IsService(m)'
               /\ th[m].pc = "done" => Settled(m)'
               /\ ~Starting(m)
               /\ \E k \in DOMAIN layers : m \in layers[k] /\ k <= at /\ k # at
    BY <1>2, <1>3, <1>4, <1>6, <2>1 DEF Starts
  <2>2. \A r \in DOMAIN runs' : runs'[r].by = "boot" => th[runs'[r].owner].pc \in {"listen", "sd", "done"}
    BY Zenon, <1>4, <1>6 DEF Starts
  <2> QED BY Zenon, <1>2, <1>5, <2>1, <2>2 DEF Starts
<1>7. CASE /\ UNCHANGED <<procVars, awaited>> /\ skipped \subseteq skipped' /\ skipped' \subseteq Name
           /\ IsOneshot(n) => n \in skipped'
  <2>1. runs' = runs /\ svc' = svc /\ awaited' = awaited
    BY Zenon, <1>7 DEF procVars
  <2>2. Types'
    BY Zenon, <1>1, <1>2, <1>7, <2>1 DEF Types
  <2>3. Control'
    BY Zenon, <1>1, <1>2, <2>1 DEF Control
  <2>4. Tracked'
    BY Zenon, <1>1, <1>2, <1>3, <2>1 DEF Tracked, Running
  <2>5. \A m : Settled(m) => Settled(m)'
    <3>1. \A r \in DOMAIN runs : Kept(runs[r], runs'[r])
      BY Zenon, <2>1 DEF Kept
    <3> QED BY Zenon, <1>1, <1>2, <1>7, <2>1, <3>1, SettledStays
  <2>6. Current'
    <3>1. \A m \in rest \ rest' : m = n
      BY Zenon, <1>2
    <3>2. n \in skipped' => Settled(n)'
      BY Zenon DEF Settled
    <3> QED BY <1>2, <1>4, <1>5, <1>7, <2>1, <2>5, <3>1, <3>2, CurrentKept
  <2>7. Starts'
    BY Zenon, <1>6, <2>1, <2>5
  <2> QED BY Zenon, <2>2, <2>3, <2>4, <2>6, <2>7 DEF Live, Layered
<1>8. CASE IsOneshot(n) /\ Fork(n, "oneshot") /\ awaited' = awaited \cup {Len(runs) + 1} /\ UNCHANGED skipped
  <2>1. /\ runs' \in Seq(RunRecord) /\ svc' \in [Name -> Nat]
        /\ l \in Nat \ {0} /\ l \notin DOMAIN runs /\ l \in DOMAIN runs'
        /\ \A r \in DOMAIN runs : r \in DOMAIN runs' /\ runs'[r] = runs[r]
        /\ \A r \in DOMAIN runs' : r \in DOMAIN runs \/ r = l
        /\ \A m \in Name : svc'[m] = IF m = n THEN l ELSE svc[m]
        /\ runs'[l].owner = n /\ runs'[l].by = "oneshot" /\ runs'[l].out = "none"
        /\ awaited' = awaited \cup {l}
    BY Zenon, <1>1, <1>8, Forked
  <2> HIDE DEF l
  <2>2. Types'
    <3>1. \A m \in Name : svc'[m] # 0 => svc'[m] \in DOMAIN runs' /\ runs'[svc'[m]].owner = m
      BY <1>1, <2>1 DEF Types
    <3>2. \A t \in Thread : th[t].pc = "sd" =>
            th[t].run \in DOMAIN runs' /\ runs'[th[t].run].owner = th[t].svc
      BY Zenon, <1>1, <2>1 DEF Types
    <3>3. awaited' \subseteq DOMAIN runs' /\ rest' \subseteq Name
      BY Zenon, <1>1, <1>2, <2>1 DEF Types
    <3> QED BY <1>1, <1>2, <1>8, <2>1, <3>1, <3>2, <3>3 DEF Types
  <2>3. Control'
    BY Zenon, <1>1, <1>2 DEF Control
  <2>4. Tracked'
    <3>1. \A r \in awaited' : runs'[r].by = "oneshot"
      BY <1>1, <2>1 DEF Tracked
    <3>2. ASSUME NEW r \in DOMAIN runs', runs'[r].by = "oneshot"
          PROVE  /\ IsOneshot(runs[r].owner)'
                 /\ runs'[r].out = "exit" => ~runs'[r].up
                 /\ runs'[r].out = "err" => runs'[r].killed
                 /\ r \notin awaited' => runs'[r].out # "none" /\ (runs'[r].out = "err" => fatal')
      <4>1. CASE r = l
        BY Zenon, <1>3, <1>8, <2>1, <4>1
      <4>2. CASE r \in DOMAIN runs
        <5>1. runs'[r] = runs[r] /\ runs[r].by = "oneshot" /\ (r \notin awaited' => r \notin awaited)
          BY Zenon, <2>1, <3>2, <4>2
        <5> QED BY Zenon, <1>1, <1>2, <1>3, <4>2, <5>1 DEF Tracked
      <4> QED BY Zenon, <2>1, <4>1, <4>2
    <3>3. ASSUME NEW r \in DOMAIN runs', runs'[r].by # "oneshot"
          PROVE  svc'[runs'[r].owner] = r \/ IsOneshot(runs[r].owner)'
      <4>1. r \in DOMAIN runs /\ runs'[r] = runs[r]
        BY Zenon, <2>1, <3>3
      <4>2. svc[runs[r].owner] = r \/ IsOneshot(runs[r].owner)
        BY Zenon, <1>1, <3>3, <4>1 DEF Tracked
      <4> QED BY <1>1, <1>3, <1>8, <2>1, <4>1, <4>2
    <3>4. ASSUME NEW t \in Thread, mu = t
          PROVE  svc'[th[t].svc] = 0 \/ IsOneshot(th[t].svc)
      <4>1. svc[th[t].svc] = 0 \/ IsOneshot(th[t].svc)
        BY Zenon, <1>1, <3>4 DEF Tracked, Running
      <4> QED BY Zenon, <1>1, <1>8, <2>1, <4>1
    <3> QED BY <1>2, <1>3, <3>1, <3>2, <3>3, <3>4 DEF Tracked, Running
  <2>5. \A m : Settled(m) => Settled(m)'
    <3>1. \A r \in DOMAIN runs : /\ r \in DOMAIN runs' /\ Kept(runs[r], runs'[r])
                                 /\ r \in awaited' => r \in awaited
      BY Zenon, <2>1 DEF Kept
    <3> QED BY Zenon, <1>1, <1>2, <1>8, <3>1, SettledStays
  <2>6. Current'
    <3>1. \A m \in rest \ rest' : m = n
      BY Zenon, <1>2
    <3>2. \A r \in awaited : r \in awaited' /\ runs'[r].owner = runs[r].owner
      BY Zenon, <1>1, <2>1
    <3>3. l \in awaited' /\ runs'[l].owner = n
      BY Zenon, <2>1
    <3> QED BY <1>2, <1>4, <1>5, <2>5, <3>1, <3>2, <3>3, CurrentKept
  <2>7. Starts'
    BY Zenon, <1>6, <2>1, <2>5
  <2> QED BY Zenon, <2>2, <2>3, <2>4, <2>6, <2>7 DEF Live, Layered
<1>9. skipped \subseteq Name
  BY Zenon, <1>1 DEF Types
<1> QED BY <1>2, <1>7, <1>8, <1>9 DEF StartOneshot, Fatalf

(* startLayerNonOneshots passes a process or starts its goroutine.         *)
LEMMA StartServiceKeeps ==
  ASSUME Live, LayersOK, NEW n \in Name, StartService(n)
  PROVE  Live'
<1>1. /\ Types /\ Control /\ Tracked /\ Layered
      /\ runs \in Seq(RunRecord) /\ awaited \subseteq DOMAIN runs /\ svc \in [Name -> Nat]
      /\ th \in [Thread -> ThreadRecord]
      /\ \A t \in Thread : th[t].svc \in Name
      /\ \A r \in DOMAIN runs : runs[r].owner \in Name
  <2>1. Types
    BY Zenon DEF Live
  <2> QED BY Zenon, <2>1, OwnersAreNames DEF Live, Types, ThreadRecord
<1>2. /\ layers' = layers /\ phase' = phase /\ cfg' = cfg /\ at' = at /\ fatal' = fatal
      /\ mu' = mu /\ pc = "services" /\ n \in rest /\ rest' = rest \ {n} /\ pc' = pc /\ why' = why
      /\ runs' = runs /\ svc' = svc /\ awaited' = awaited /\ skipped' = skipped
  BY Zenon DEF StartService, orderVars, procVars
<1>3. \A m : IsOneshot(m)' = IsOneshot(m) /\ IsService(m)' = IsService(m)
  BY Zenon, <1>2, SameConf
<1>4. Current /\ Starts
  BY Zenon, <1>1, <1>2 DEF Layered, Serving
<1>5. \A m : Settled(m) => Settled(m)'
  <2>1. \A r \in DOMAIN runs : Kept(runs[r], runs'[r])
    BY Zenon, <1>2 DEF Kept
  <2> QED BY Zenon, <1>1, <1>2, <2>1, SettledStays
<1>6. at \in DOMAIN layers /\ n \in layers[at] /\ n \in Thread
  BY Zenon, <1>2, <1>4, IdleThread DEF Current
<1>7. th[n].pc = "idle"  \* the layer has n once
  <2>1. n \in Names
    BY <1>6 DEF LayersOK
  <2>2. \A k \in DOMAIN layers : n \in layers[k] => k = at
    BY Zenon, <1>6, <2>1 DEF LayersOK, LayersInOrder
  <2> QED BY Zenon, <1>2, <1>4, <2>2 DEF Starts
<1>8. \A r \in DOMAIN runs : runs[r].by = "boot" => runs[r].owner # n
  BY Zenon, <1>4, <1>7 DEF Starts
<1>9. Control'
  BY Zenon, <1>1, <1>2 DEF Control
<1>10. \A m \in rest \ rest' : m = n
  BY Zenon, <1>2
<1>11. CASE UNCHANGED th /\ (IsService(n) => Settled(n))
  <2>1. Types'
    BY Zenon, <1>1, <1>2, <1>11 DEF Types
  <2>2. Tracked'
    BY Zenon, <1>1, <1>2, <1>3, <1>11 DEF Tracked, Running
  <2>3. \A m : Starting(m)' = Starting(m)
    BY Zenon, <1>11 DEF Starting
  <2>4. Current'
    BY Zenon, <1>2, <1>4, <1>5, <1>10, <1>11, <2>3, CurrentKept
  <2>5. Starts'
    BY Zenon, <1>2, <1>3, <1>4, <1>5, <1>11, <2>3 DEF Starts
  <2> QED BY Zenon, <1>9, <2>1, <2>2, <2>4, <2>5 DEF Live, Layered
<1>12. CASE IsService(n) /\ th' = [th EXCEPT ![n] = [Idle EXCEPT !.pc = "gate", !.svc = n]]
  <2>1. /\ th' \in [Thread -> ThreadRecord]
        /\ th'[n].pc = "gate" /\ th'[n].svc = n /\ th'[n].gated
        /\ \A t \in Thread : t # n => th'[t] = th[t]
    BY Zenon, <1>1, <1>6, <1>12, IdleThread DEF ThreadRecord
  <2>2. Types'
    <3>1. \A t \in Thread : th'[t].pc = "fork" <=> mu' = t
      BY <1>1, <1>2, <1>6, <1>7, <2>1 DEF Types
    <3>2. \A t \in Thread : th'[t].pc = "sd" =>
            th'[t].run \in DOMAIN runs /\ runs[th'[t].run].owner = th'[t].svc
      BY <1>1, <2>1 DEF Types
    <3> QED BY Zenon, <1>1, <1>2, <2>1, <3>1, <3>2 DEF Types
  <2>3. Tracked'
    <3>1. \A t \in Thread : mu = t => th'[t] = th[t]
      BY Zenon, <1>1, <1>6, <1>7, <2>1 DEF Types
    <3> QED BY Zenon, <1>1, <1>2, <1>3, <3>1 DEF Tracked, Running
  <2>4. Starting(n)' /\ \A m \in Name : m # n => th'[m] = th[m] /\ Starting(m)' = Starting(m)
    BY Zenon, <2>1, IdleThread DEF Starting
  <2>5. Current'
    <3>1. \A m \in Name : Starting(m) => Settled(m)' \/ Starting(m)'
      BY Zenon, <2>4
    <3> QED BY <1>2, <1>3, <1>4, <1>5, <1>10, <2>4, <3>1, CurrentKept
  <2>6. Starts'
    <3>1. ASSUME NEW m \in Name, th'[m].pc # "idle"
          PROVE  /\ th'[m].svc = m /\ th'[m].gated /\ IsService(m)'
                 /\ th'[m].pc = "done" => Settled(m)'
                 /\ Starting(m)' => m \in layers[at]
                 /\ \E k \in DOMAIN layers : /\ m \in layers[k] /\ k <= at
                                             /\ k = at => m \notin rest'
      <4>1. CASE m = n
        <5>1. at <= at /\ n \notin rest'
          BY <1>1, <1>2 DEF Types
        <5> QED BY Zenon, <1>3, <1>6, <1>12, <2>1, <4>1, <5>1
      <4>2. CASE m # n
        BY Zenon, <1>2, <1>3, <1>4, <1>5, <2>4, <3>1, <4>2 DEF Starts
      <4> QED BY Zenon, <4>1, <4>2
    <3>2. \A r \in DOMAIN runs : runs[r].by = "boot" => th'[runs[r].owner].pc \in {"listen", "sd", "done"}
      BY Zenon, <1>1, <1>4, <1>8, <2>4 DEF Starts
    <3> QED BY Zenon, <1>2, <3>1, <3>2 DEF Starts
  <2> QED BY Zenon, <1>9, <2>2, <2>3, <2>5, <2>6 DEF Live, Layered
<1>13. ASSUME IsService(n), Running(n) PROVE Settled(n)
  <2>1. svc[n] \in DOMAIN runs /\ runs[svc[n]].owner = n
    BY Zenon, <1>1, <1>13 DEF Types, Running
  <2>2. runs[svc[n]].by \in {"oneshot", "boot", "client"}
    BY Zenon, <1>1, <2>1, OwnersAreNames DEF RunRecord
  <2>3. runs[svc[n]].by # "oneshot"
    BY Zenon, <1>1, <1>13, <2>1 DEF Tracked, IsOneshot, IsService
  <2> QED BY <1>1, <1>8, <1>13, <2>1, <2>2, <2>3, RunSettles
<1> QED BY Zenon, <1>11, <1>12, <1>13 DEF StartService

(* The result of a oneshot is taken.                                       *)
LEMMA CollectKeeps ==
  ASSUME Live, LayersOK, NEW r \in DOMAIN runs, Collect(r)
  PROVE  Live'
<1>1. /\ Types /\ Control /\ Tracked /\ Layered
      /\ runs \in Seq(RunRecord) /\ awaited \subseteq DOMAIN runs /\ svc \in [Name -> Nat]
      /\ th \in [Thread -> ThreadRecord] /\ fatal \in BOOLEAN
      /\ \A t \in Thread : th[t].svc \in Name
      /\ \A q \in DOMAIN runs : runs[q] \in RunRecord /\ runs[q].owner \in Name
  <2>1. Types
    BY Zenon DEF Live
  <2> QED BY Zenon, <2>1, OwnersAreNames DEF Live, Types, ThreadRecord
<1>1a. PICK n \in Name : n = runs[r].owner
  BY Zenon, <1>1
<1>2. /\ layers' = layers /\ phase' = phase /\ cfg' = cfg /\ at' = at /\ th' = th /\ mu' = mu
      /\ pc = "collect" /\ rest' = rest /\ pc' = pc /\ why' = why /\ skipped' = skipped
      /\ r \in awaited /\ awaited' = awaited \ {r} /\ runs[r].out # "none"
  BY Zenon DEF Collect, orderVars, threadVars
<1>3. \A m : IsOneshot(m)' = IsOneshot(m) /\ IsService(m)' = IsService(m) /\ Conf(m)' = Conf(m)
  BY Zenon, <1>2, SameConf
<1>4. Current /\ Starts
  BY Zenon, <1>1, <1>2 DEF Layered, Serving
<1>5. \A m : Starting(m)' = Starting(m)
  BY Zenon, <1>2 DEF Starting
<1>6. n \in Name /\ runs[r].by = "oneshot" /\ IsOneshot(n)
  BY Zenon, <1>1, <1>1a, <1>2 DEF Tracked
<1>7. /\ fatal' \in BOOLEAN /\ (fatal => fatal')
      /\ runs[r].out = "err" => fatal'
      /\ ~fatal' => runs[r].out = "exit" /\ (RemapExitCode(n, runs[r].code) = 0 \/ Conf(n).ignore)
      /\ svc' \in [Name -> Nat]
      /\ \A m \in Name : svc'[m] = svc[m] \/ (m = n /\ svc'[m] = 0)
      /\ runs' \in Seq(RunRecord) /\ DOMAIN runs' = DOMAIN runs
      /\ \A q \in DOMAIN runs : /\ Kept(runs[q], runs'[q])
                                /\ runs'[q].out = runs[q].out /\ runs'[q].up = runs[q].up
                                /\ runs'[q].code = runs[q].code
  <2>1. CASE runs[r].out = "err" /\ fatal' = TRUE /\ UNCHANGED procVars
    <3>1. runs' = runs /\ svc' = svc /\ fatal' = TRUE
      BY Zenon, <2>1 DEF procVars
    <3> QED BY Zenon, <1>1, <2>1, <3>1 DEF Kept
  <2>2. CASE /\ runs[r].out = "exit" /\ MarkExited(n)
             /\ fatal' = (fatal \/ (RemapExitCode(n, runs[r].code) # 0 /\ ~Conf(n).ignore))
    <3>1. /\ fatal' \in BOOLEAN /\ (fatal => fatal')
          /\ ~fatal' => RemapExitCode(n, runs[r].code) = 0 \/ Conf(n).ignore
      BY Zenon, <2>2
    <3>2. svc' = [svc EXCEPT ![n] = 0]
      BY Zenon, <2>2 DEF MarkExited
    <3>3. svc' \in [Name -> Nat] /\ \A m \in Name : svc'[m] = svc[m] \/ (m = n /\ svc'[m] = 0)
      BY Zenon, <1>1, <1>6, <3>2
    <3>4. CASE svc[n] = 0
      <4>1. runs' = runs
        BY Zenon, <2>2, <3>4 DEF MarkExited
      <4> QED BY Zenon, <1>1, <2>2, <3>1, <3>3, <4>1 DEF Kept
    <3>5. CASE svc[n] # 0
      <4> DEFINE s == svc[n]
                 b == [runs[s] EXCEPT !.closed = TRUE]
      <4>1. s \in DOMAIN runs
        BY Zenon, <1>1, <1>6, <3>5 DEF Types
      <4>2. runs' = [runs EXCEPT ![s] = b]
        BY Zenon, <2>2, <3>5 DEF MarkExited
      <4>3. runs[s] \in RunRecord
        BY Zenon, <1>1, <4>1
      <4> HIDE DEF s
      <4>4. /\ b \in RunRecord /\ Kept(runs[s], b)
            /\ b.out = runs[s].out /\ b.up = runs[s].up /\ b.code = runs[s].code
        BY Zenon, <4>3 DEF RunRecord, Kept
      <4> HIDE DEF b
      <4>5. /\ runs' \in Seq(RunRecord) /\ DOMAIN runs' = DOMAIN runs
            /\ \A q \in DOMAIN runs : Kept(runs[q], runs'[q])
        BY Zenon, <1>1, <4>1, <4>2, <4>4, RunChanged
      <4>6. \A q \in DOMAIN runs : runs'[q] = IF q = s THEN b ELSE runs[q]
        BY Zenon, <1>1, <4>1, <4>2
      <4> QED BY Zenon, <2>2, <3>1, <3>3, <4>4, <4>5, <4>6
    <3> QED BY Zenon, <3>4, <3>5
  <2> QED BY Zenon, <1>1a, <2>1, <2>2 DEF Collect
<1>8. \A q \in DOMAIN runs : /\ runs'[q].owner = runs[q].owner /\ runs'[q].by = runs[q].by
                             /\ runs[q].killed => runs'[q].killed
  BY Zenon, <1>7 DEF Kept
<1>9. Types'
  <2>1. \A m \in Name : svc'[m] # 0 => svc'[m] \in DOMAIN runs' /\ runs'[svc'[m]].owner = m
    BY <1>1, <1>7, <1>8 DEF Types
  <2>2. \A t \in Thread : th[t].pc = "sd" =>
          th[t].run \in DOMAIN runs' /\ runs'[th[t].run].owner = th[t].svc
    <3>1. \A t \in Thread : th[t].pc = "sd" =>
            th[t].run \in DOMAIN runs /\ runs[th[t].run].owner = th[t].svc
      BY Zenon, <1>1 DEF Types
    <3> QED BY Zenon, <1>7, <1>8, <3>1
  <2>3. awaited' \subseteq DOMAIN runs'
    BY Zenon, <1>1, <1>2, <1>7
  <2> QED BY Zenon, <1>1, <1>2, <1>7, <2>1, <2>2, <2>3 DEF Types
<1>10. Control'
  BY Zenon, <1>1, <1>2 DEF Control
<1>11. Tracked'
  <2>1. \A q \in awaited' : runs'[q].by = "oneshot"
    BY Zenon, <1>1, <1>2, <1>8 DEF Tracked
  <2>2. ASSUME NEW q \in DOMAIN runs', runs'[q].by = "oneshot"
        PROVE  /\ IsOneshot(runs[q].owner)'
               /\ runs'[q].out = "exit" => ~runs'[q].up
               /\ runs'[q].out = "err" => runs'[q].killed
               /\ q \notin awaited' => runs'[q].out # "none" /\ (runs'[q].out = "err" => fatal')
    <3>1. /\ q \in DOMAIN runs /\ runs[q].by = "oneshot"
          /\ runs'[q].out = runs[q].out /\ runs'[q].up = runs[q].up /\ runs'[q].owner = runs[q].owner
      BY Zenon, <1>7, <1>8, <2>2
    <3>2. q \notin awaited' => q \notin awaited \/ q = r
      BY Zenon, <1>2
    <3> QED BY <1>1, <1>2, <1>3, <1>7, <1>8, <3>1, <3>2 DEF Tracked
  <2>3. ASSUME NEW q \in DOMAIN runs', runs'[q].by # "oneshot"
        PROVE  svc'[runs'[q].owner] = q \/ IsOneshot(runs[q].owner)'
    <3>1. /\ q \in DOMAIN runs /\ runs[q].by # "oneshot" /\ runs'[q].owner = runs[q].owner
          /\ runs[q].owner \in Name
      BY Zenon, <1>1, <1>7, <1>8, <2>3
    <3>2. svc[runs[q].owner] = q \/ IsOneshot(runs[q].owner)
      BY Zenon, <1>1, <3>1 DEF Tracked
    <3> QED BY Zenon, <1>1a, <1>3, <1>6, <1>7, <3>1, <3>2
  <2>4. ASSUME NEW t \in Thread, mu = t
        PROVE  svc'[th[t].svc] = 0 \/ IsOneshot(th[t].svc)
    <3>1. svc[th[t].svc] = 0 \/ IsOneshot(th[t].svc)
      BY Zenon, <1>1, <2>4 DEF Tracked, Running
    <3> QED BY Zenon, <1>1, <1>7, <3>1
  <2> QED BY Zenon, <1>2, <1>3, <2>1, <2>2, <2>3, <2>4 DEF Tracked, Running
<1>12. \A m : Settled(m) => Settled(m)'
  BY Zenon, <1>1, <1>2, <1>7, SettledStays
<1>13. ~fatal' => Settled(n)'
  <2>1. ASSUME ~fatal' PROVE Settled(n)'
    <3>1. /\ r \in DOMAIN runs' /\ r \notin awaited' /\ runs'[r].owner = n /\ runs'[r].by = "oneshot"
          /\ runs'[r].out = "exit"
      BY Zenon, <1>1a, <1>2, <1>6, <1>7, <1>8, <2>1
    <3>2. (RemapExitCode(n, runs[r].code) = 0)' \/ Conf(n)'.ignore
      BY Zenon, <1>3, <1>7, <2>1 DEF RemapExitCode
    <3> QED BY Zenon, <3>1, <3>2 DEF Settled
  <2> QED BY Zenon, <2>1
<1>14. Current'
  <2>1. ASSUME NEW m, NEW q \in awaited, runs[q].owner = m
        PROVE  fatal' \/ Settled(m)' \/ \E p \in awaited' : runs'[p].owner = m
    <3>1. CASE q = r
      BY Zenon, <1>1a, <1>13, <2>1, <3>1
    <3>2. CASE q # r
      BY Zenon, <1>1, <1>2, <1>8, <2>1, <3>2
    <3> QED BY Zenon, <3>1, <3>2
  <2>2. Current /\ LayersOK
    BY Zenon, <1>4, <1>5
  <2>3. layers' = layers /\ cfg' = cfg /\ pc' = pc /\ at' = at /\ rest' \subseteq rest /\ (fatal => fatal')
    BY Zenon, <1>2, <1>7
  <2>4. \A m \in Name : Starting(m) => Starting(m)'
    BY Zenon, <1>2, <1>7 DEF Starting
  <2>5. \A m \in rest : m \in rest'
    BY Zenon, <1>2, <1>7
  <2> QED BY Zenon, <1>12, <2>1, <2>2, <2>3, <2>4, <2>5, CurrentKept
<1>15. Starts'
  BY Zenon, <1>2, <1>3, <1>4, <1>5, <1>7, <1>8, <1>12 DEF Starts
<1> QED BY Zenon, <1>9, <1>10, <1>11, <1>14, <1>15 DEF Live, Layered

(* run() goes on to the next loop or the next layer.                       *)
LEMMA MainKeeps ==
  ASSUME Live, LayersOK, pc' # "dead",
         Build \/ NextLayer \/ OneshotsStarted \/ LayerSettled \/ ServicesStarted
  PROVE  Live'
<1>1. /\ Types /\ Control /\ Tracked /\ Layered /\ at \in Nat /\ rest \subseteq Name
      /\ Len(layers) \in Nat /\ DOMAIN layers = 1..Len(layers)
      /\ \A k \in DOMAIN layers : layers[k] \subseteq Name
  BY DEF Live, Types, LayersOK
<1>2. /\ layers' = layers /\ phase' = phase /\ cfg' = cfg /\ runs' = runs /\ svc' = svc
      /\ skipped' = skipped /\ th' = th /\ mu' = mu /\ awaited' = awaited /\ fatal' = fatal
      /\ pc # "dead" /\ why' = why
  BY Zenon DEF Build, NextLayer, OneshotsStarted, LayerSettled, ServicesStarted, Collected, Fatalf,
         orderVars, procVars, threadVars
<1>3. \A m : /\ IsOneshot(m)' = IsOneshot(m) /\ IsService(m)' = IsService(m)
             /\ Settled(m)' = Settled(m) /\ Starting(m)' = Starting(m)
  <2>1. \A m : IsOneshot(m)' = IsOneshot(m) /\ IsService(m)' = IsService(m) /\ Conf(m)' = Conf(m)
    BY Zenon, <1>2, SameConf
  <2>2. ASSUME NEW m PROVE Settled(m)' = Settled(m)
    BY Zenon, <1>2, <2>1 DEF Settled, RemapExitCode
  <2>3. ASSUME NEW m PROVE Starting(m)' = Starting(m)
    BY Zenon, <1>2 DEF Starting
  <2> QED BY Zenon, <2>1, <2>2, <2>3
<1>4. ASSUME at' \in Nat, rest' \subseteq Name PROVE Types'
  BY Zenon, <1>1, <1>2, <1>4 DEF Types
<1>5. Tracked'
  BY Zenon, <1>1, <1>2, <1>3 DEF Tracked, Running
<1>6. CASE Build
  <2>1. pc = "init" /\ pc' = "next" /\ at' = at /\ rest' = rest /\ phase = "ordered"
    BY Zenon, <1>6 DEF Build, Fatalf
  <2>2. at = 0 /\ (\A t \in Thread : th[t].pc = "idle") /\ DOMAIN runs = {} /\ awaited = {} /\ ~fatal
    BY Zenon, <1>1, <2>1 DEF Control
  <2>3. Control'
    BY Zenon, <1>1, <1>2, <2>1, <2>2 DEF Control
  <2>4. Current'
    <3>1. \A k \in DOMAIN layers : ~(k < 0) /\ k # 0
      BY <1>1
    <3> QED BY <1>1, <1>2, <2>1, <2>2, <3>1 DEF Current
  <2>5. Starts'
    BY Zenon, <1>2, <2>2, IdleThread DEF Starts
  <2> QED BY Zenon, <1>1, <1>4, <1>5, <2>1, <2>3, <2>4, <2>5 DEF Live, Layered
<1>7. CASE NextLayer
  <2>1. pc = "next" /\ Current /\ Starts
    BY Zenon, <1>1, <1>7 DEF NextLayer, Layered, Serving
  <2>2. CASE at = Len(layers) /\ pc' = "loop" /\ UNCHANGED <<at, rest>>
    <3>1. Control'
      BY Zenon, <1>1, <1>2, <2>1, <2>2 DEF Control
    <3> QED BY Zenon, <1>1, <1>4, <1>5, <2>2, <3>1 DEF Live, Layered, Serving
  <2>3. CASE at < Len(layers) /\ pc' = "oneshots" /\ at' = at + 1 /\ rest' = layers[at + 1]
    <3>1. at' \in DOMAIN layers /\ rest' \subseteq Name /\ at' \in Nat
      BY <1>1, <2>3
    <3>2. Control'
      BY Zenon, <1>1, <1>2, <2>1, <2>3 DEF Control
    <3>3. \A k \in DOMAIN layers : (k < at' => k < at \/ k = at) /\ (k <= at => k <= at' /\ k # at')
      BY <1>1, <2>3
    <3>4. \A k \in DOMAIN layers : \A m \in layers[k] : k < at' => Settled(m)
      BY Zenon, <2>1, <3>3 DEF Current
    <3>5. Current'
      BY Zenon, <1>2, <1>3, <2>3, <3>1, <3>4 DEF Current
    <3>6. Starts'
      BY <1>2, <1>3, <2>1, <2>3, <3>3 DEF Starts
    <3> QED BY Zenon, <1>4, <1>5, <3>1, <3>2, <3>5, <3>6 DEF Live, Layered
  <2> QED BY Zenon, <1>7, <2>2, <2>3 DEF NextLayer
<1>8. CASE OneshotsStarted
  <2>1. pc = "oneshots" /\ pc' = "collect" /\ at' = at /\ rest' = rest /\ rest = {}
    BY Zenon, <1>8 DEF OneshotsStarted
  <2>2. Current /\ Starts
    BY Zenon, <1>1, <2>1 DEF Layered, Serving
  <2>3. Control'
    BY Zenon, <1>1, <1>2, <2>1 DEF Control
  <2>4. Current'
    BY Zenon, <1>2, <1>3, <2>1, <2>2 DEF Current
  <2>5. Starts'
    BY Zenon, <1>2, <1>3, <2>1, <2>2 DEF Starts
  <2> QED BY <1>1, <1>4, <1>5, <2>1, <2>3, <2>4, <2>5 DEF Live, Layered
<1>9. CASE LayerSettled
  <2>1. /\ pc = "collect" /\ pc' = "services" /\ at' = at /\ rest' = layers[at]
        /\ awaited = {} /\ ~fatal
    BY Zenon, <1>9 DEF LayerSettled, Collected, Fatalf
  <2>2. Current /\ Starts
    BY Zenon, <1>1, <2>1 DEF Layered, Serving
  <2>3. Control'
    BY Zenon, <1>1, <1>2, <2>1 DEF Control
  <2>4. at \in DOMAIN layers /\ rest' \subseteq Name
    BY Zenon, <1>1, <2>1, <2>2 DEF Current
  <2>5. \A k \in DOMAIN layers : \A m \in layers[k] :
          (k < at => Settled(m)) /\ (k = at /\ IsOneshot(m) => Settled(m))
    BY Zenon, <2>1, <2>2 DEF Current
  <2>6. Current'
    BY <1>2, <1>3, <2>1, <2>4, <2>5 DEF Current
  <2>7. Starts'
    BY Zenon, <1>2, <1>3, <2>1, <2>2 DEF Starts
  <2> QED BY <1>1, <1>4, <1>5, <2>1, <2>3, <2>4, <2>6, <2>7 DEF Live, Layered
<1>10. CASE ServicesStarted
  <2>1. /\ pc = "services" /\ pc' = "next" /\ at' = at /\ rest' = rest /\ rest = {}
        /\ \A m \in Name : ~Starting(m)
    BY Zenon, <1>10 DEF ServicesStarted, Joined, Starting
  <2>2. Current /\ Starts
    BY Zenon, <1>1, <2>1 DEF Layered, Serving
  <2>3. Control'
    BY Zenon, <1>1, <1>2, <2>1 DEF Control
  <2>4. \A k \in DOMAIN layers : \A m \in layers[k] : k < at \/ k = at => Settled(m)
    <3>1. ASSUME NEW k \in DOMAIN layers, NEW m \in layers[k], k = at PROVE Settled(m)
      <4>1. m \in Name
        BY Zenon, <1>1
      <4>2. CASE IsOneshot(m) \/ IsService(m)
        BY Zenon, <2>1, <2>2, <3>1, <4>1, <4>2 DEF Current
      <4>3. CASE ~IsOneshot(m) /\ ~IsService(m)
        BY Zenon, <4>3 DEF Settled
      <4> QED BY Zenon, <4>2, <4>3
    <3> QED BY Zenon, <2>2, <3>1 DEF Current
  <2>5. at <= Len(layers)
    BY <1>1, <2>1, <2>2 DEF Current
  <2>6. Current'
    BY Zenon, <1>2, <1>3, <2>1, <2>4, <2>5 DEF Current
  <2>7. Starts'
    BY Zenon, <1>2, <1>3, <2>1, <2>2 DEF Starts
  <2> QED BY <1>1, <1>4, <1>5, <2>1, <2>3, <2>6, <2>7 DEF Live, Layered
<1> QED BY <1>6, <1>7, <1>8, <1>9, <1>10

(* Loading and ordering, before anything runs.                             *)
LEMMA LoadKeeps ==
  ASSUME Live, Load \/ SortAndLayer, pc' # "dead"
  PROVE  Live'
<1>1. Types /\ Control /\ Tracked
  BY Zenon DEF Live
<1>2. /\ pc = "init" /\ pc' = pc /\ why' = why /\ runs' = runs /\ svc' = svc /\ skipped' = skipped
      /\ th' = th /\ mu' = mu /\ awaited' = awaited /\ fatal' = fatal /\ at' = at /\ rest' = rest
  BY Zenon DEF Load, SortAndLayer, Fatalf, procVars, bootVars, threadVars
<1>3. /\ DOMAIN runs = {} /\ awaited = {} /\ \A t \in Thread : th[t].pc = "idle" /\ mu # t
  BY Zenon, <1>1, <1>2 DEF Control, Types
<1>4. Types'
  BY Zenon, <1>1, <1>2 DEF Types
<1>5. Control'
  BY Zenon, <1>1, <1>2 DEF Control
<1>6. Tracked'
  BY Zenon, <1>2, <1>3 DEF Tracked
<1>7. Layered'
  BY Zenon, <1>2 DEF Layered, Serving
<1> QED BY Zenon, <1>4, <1>5, <1>6, <1>7 DEF Live

-----------------------------------------------------------------------------
(* The other steps                                                         *)

(* log.Fatalf is the end.                                                  *)
LEMMA NothingAfterFatalf ==
  ASSUME pc = "dead", [Next]_vars
  PROVE  UNCHANGED vars
<1>1. ~Alive /\ ~Serving
  BY Zenon DEF Alive, Serving
<1>2. ~MainStep
  BY Zenon DEF MainStep, Load, SortAndLayer, OrderFailed, Build, NextLayer, OneshotsStarted, LayerSettled,
         Collected, ServicesStarted, StartOneshot, StartService, Collect
<1>3. \A t : ~ThreadStep(t) /\ ~WaitExit(t)
  BY Zenon, <1>1 DEF ThreadStep, Gate, Prepare, Recheck, Finish, Listen, AwaitReady, WaitExit
<1>4. \A r : ~WaitOneshot(r) /\ ~ChildExits(r) /\ ~ChildReady(r) /\ ~StopAll(r)
  BY Zenon, <1>1 DEF WaitOneshot, ChildExits, ChildReady, StopAll
<1>5. \A c, n, wait : ~ClientStart(c, n, wait) /\ ~ClientStop(c, n) /\ ~ClientRestart(c, n)
  BY Zenon, <1>1 DEF ClientStart, ClientStop, ClientRestart
<1> QED BY Zenon, <1>2, <1>3, <1>4, <1>5 DEF Next

(* A step that does not end in log.Fatalf.                                 *)
LEMMA LiveStep ==
  ASSUME Live, LayersOK, [Next]_vars, pc' # "dead"
  PROVE  Live'
<1>1. Types /\ Control
  BY Zenon DEF Live
<1>2. ASSUME NEW t \in Thread, ThreadStep(t) PROVE Live'
  <2>1. CASE Finish(t)
    BY Zenon, <2>1, FinishKeeps
  <2>2. CASE Gate(t) \/ Prepare(t) \/ Recheck(t) \/ Listen(t) \/ AwaitReady(t)
    BY Zenon, <1>1, <2>2, ThreadMoves, MoveKeeps
  <2> QED BY Zenon, <1>2, <2>1, <2>2 DEF ThreadStep
<1>3. CASE \/ \E r \in DOMAIN runs : WaitOneshot(r) \/ ChildExits(r) \/ ChildReady(r)
           \/ \E c \in Client : WaitExit(c)
           \/ \E c \in Client, n \in Name :
                \/ \E wait \in BOOLEAN : ClientStart(c, n, wait)
                \/ ClientStop(c, n) \/ ClientRestart(c, n)
           \/ \E n \in Name : StopAll(n)
           \/ UNCHANGED vars
  BY Zenon, <1>1, <1>3, OthersTouch, TouchKeeps
<1>4. CASE MainStep
  <2>1. CASE Load \/ SortAndLayer
    BY Zenon, <2>1, LoadKeeps
  <2>2. CASE Build \/ NextLayer \/ OneshotsStarted \/ LayerSettled \/ ServicesStarted
    BY Zenon, <2>2, MainKeeps
  <2>3. ASSUME NEW n \in Name, StartOneshot(n) \/ StartService(n) PROVE Live'
    BY Zenon, <2>3, StartOneshotKeeps, StartServiceKeeps
  <2>4. ASSUME NEW r \in DOMAIN runs, Collect(r) PROVE Live'
    BY Zenon, <2>4, CollectKeeps
  <2>5. ~OrderFailed
    BY Zenon DEF OrderFailed, Fatalf
  <2> QED BY Zenon, <1>4, <2>1, <2>2, <2>3, <2>4, <2>5 DEF MainStep
<1> QED BY Zenon, <1>2, <1>3, <1>4 DEF Next

(* log.Fatalf for a oneshot comes with none of the startup oneshots left   *)
(* running unsignalled.                                                    *)
LEMMA FatalStep ==
  ASSUME Live, Next
  PROVE  FatalSettles'
<1>1. why # "oneshot" /\ Tracked /\ runs \in Seq(RunRecord)
  BY Zenon DEF Live, Control, Types
<1>2. CASE \E n \in Name : StartOneshot(n)
  <2>1. CASE Kill(awaited)
    <3>1. \A r \in DOMAIN runs' : r \in DOMAIN runs /\ runs'[r] =
            IF r \in awaited THEN [runs[r] EXCEPT !.killed = TRUE] ELSE runs[r]
      BY Zenon, <2>1 DEF Kill
    <3>2. ASSUME NEW r \in DOMAIN runs', runs'[r].by = "oneshot"
          PROVE  ~runs'[r].up \/ runs'[r].killed
      <4>1. r \in DOMAIN runs /\ runs[r] \in RunRecord
        BY <1>1, <3>1
      <4>2. CASE r \in awaited
        BY Zenon, <3>1, <4>1, <4>2 DEF RunRecord
      <4>3. CASE r \notin awaited
        <5>1. runs'[r] = runs[r] /\ runs[r].out \in {"exit", "err"}
          BY Zenon, <1>1, <3>1, <3>2, <4>1, <4>3 DEF Tracked, RunRecord
        <5> QED BY Zenon, <1>1, <3>2, <4>1, <5>1 DEF Tracked
      <4> QED BY Zenon, <4>2, <4>3
    <3> QED BY Zenon, <3>2 DEF FatalSettles
  <2>2. CASE UNCHANGED why
    BY Zenon, <1>1, <2>2 DEF FatalSettles
  <2> QED BY Zenon, <1>2, <2>1, <2>2 DEF StartOneshot
<1>3. CASE LayerSettled
  <2>1. CASE ~fatal
    BY Zenon, <1>1, <1>3, <2>1 DEF LayerSettled, FatalSettles
  <2>2. runs' = runs /\ awaited = {}
    BY Zenon, <1>3 DEF LayerSettled, Collected, procVars
  <2>3. ASSUME NEW r \in DOMAIN runs, runs[r].by = "oneshot"
        PROVE  ~runs[r].up \/ runs[r].killed
    <3>1. runs[r].out \in {"none", "exit", "err"}
      <4>1. runs[r] \in RunRecord
        BY <1>1
      <4> QED BY Zenon, <4>1 DEF RunRecord
    <3>2. runs[r].out # "none"
      BY Zenon, <1>1, <2>2, <2>3 DEF Tracked
    <3> QED BY Zenon, <1>1, <2>3, <3>1, <3>2 DEF Tracked
  <2> QED BY Zenon, <2>2, <2>3 DEF FatalSettles
<1>4. CASE why' # "oneshot"
  BY Zenon, <1>4 DEF FatalSettles
<1>5. CASE Load \/ SortAndLayer \/ OrderFailed \/ Build \/ NextLayer \/ OneshotsStarted \/ ServicesStarted
  BY Zenon, <1>1, <1>4, <1>5 DEF Load, SortAndLayer, OrderFailed, Build, NextLayer, OneshotsStarted,
       ServicesStarted, Fatalf, bootVars
<1>6. CASE (\E n \in Name : StartService(n)) \/ (\E r \in DOMAIN runs : Collect(r))
  BY Zenon, <1>1, <1>4, <1>6 DEF StartService, Collect
<1>7. CASE \E t \in Thread : ThreadStep(t)
  BY <1>1, <1>4, <1>7 DEF ThreadStep, Gate, Prepare, Recheck, Check, Finish, Listen, AwaitReady, Notify,
       Continue, Fail, Fatalf
<1>8. CASE \/ \E r \in DOMAIN runs : WaitOneshot(r) \/ ChildExits(r) \/ ChildReady(r)
           \/ \E c \in Client : WaitExit(c)
           \/ \E n \in Name : StopAll(n)
  BY Zenon, <1>1, <1>4, <1>8 DEF WaitOneshot, ChildExits, ChildReady, WaitExit, StopAll, bootVars
<1>9. CASE \E c \in Client, n \in Name :
             \/ \E wait \in BOOLEAN : ClientStart(c, n, wait)
             \/ ClientStop(c, n) \/ ClientRestart(c, n)
  BY Zenon, <1>1, <1>4, <1>9 DEF ClientStart, ClientStop, ClientRestart, bootVars
<1> QED BY <1>2, <1>3, <1>5, <1>6, <1>7, <1>8, <1>9 DEF Next, MainStep

(* What boot forks is in the layer it is at.                               *)
LEMMA ForksAreCurrent ==
  ASSUME Live, LayersOK, Next, Len(runs') > Len(runs), runs'[Len(runs')].by # "client"
  PROVE  Serving /\ at \in DOMAIN layers /\ runs'[Len(runs')].owner \in layers[at]
<1>1. Types /\ Control /\ runs \in Seq(RunRecord)
  BY Zenon DEF Live, Types
<1>2. ASSUME NEW n, NEW by, Fork(n, by)
      PROVE  runs'[Len(runs')].owner = n /\ runs'[Len(runs')].by = by
  BY <1>1, <1>2 DEF Fork, NewRun
<1>3. DOMAIN runs' # DOMAIN runs \/ runs' \notin Seq(RunRecord)
  BY <1>1
<1>4. runs' # runs
  BY <1>1
<1>5. Layered
  BY Zenon DEF Live
<1>6. ASSUME NEW n \in Name, StartOneshot(n)
      PROVE  Serving /\ at \in DOMAIN layers /\ runs'[Len(runs')].owner \in layers[at]
  <2>1. ~Kill(awaited)
    <3>1. SUFFICES ASSUME Kill(awaited) PROVE FALSE
      BY Zenon
    <3>2. DOMAIN runs' = 1..Len(runs)
      BY <1>1, <3>1 DEF Kill
    <3>3. \A r \in 1..Len(runs) : runs'[r] \in RunRecord
      <4>1. \A r \in 1..Len(runs) : runs[r] \in RunRecord
        BY <1>1
      <4>2. \A x \in RunRecord : [x EXCEPT !.killed = TRUE] \in RunRecord
        BY Zenon DEF RunRecord
      <4> QED BY <1>1, <3>1, <4>1, <4>2 DEF Kill
    <3>4. runs' \in [1..Len(runs) -> RunRecord]
      BY <1>1, <3>1, <3>3 DEF Kill
    <3>5. runs' \in Seq(RunRecord)
      BY <1>1, <3>4
    <3> QED BY <1>1, <1>3, <3>2, <3>5
  <2>2. Fork(n, "oneshot")
    BY Zenon, <1>4, <1>6, <2>1 DEF StartOneshot, procVars
  <2>3. pc = "oneshots" /\ n \in rest
    BY Zenon, <1>6 DEF StartOneshot
  <2>4. Serving /\ at \in DOMAIN layers /\ n \in layers[at]
    BY Zenon, <1>5, <2>3 DEF Layered, Serving, Current
  <2> QED BY Zenon, <1>2, <2>2, <2>4
<1>7. ASSUME NEW t \in Thread, Finish(t)
      PROVE  Serving /\ at \in DOMAIN layers /\ runs'[Len(runs')].owner \in layers[at]
  <2>1. Fork(th[t].svc, IF t \in Name THEN "boot" ELSE "client")
    BY Zenon, <1>4, <1>7 DEF Finish, procVars
  <2>2. t \in Name
    BY Zenon, <1>2, <2>1
  <2>3. th[t].pc = "fork" /\ pc # "init" /\ pc # "loop"
    BY Zenon, <1>1, <1>7 DEF Finish, Alive, Control
  <2>4. Serving /\ Current /\ Starts
    BY Zenon, <1>1, <1>5, <2>3 DEF Layered, Serving, Control
  <2>5. th[t].svc = t /\ pc = "services" /\ t \in layers[at]
    BY Zenon, <2>2, <2>3, <2>4 DEF Starts, Starting
  <2>6. at \in DOMAIN layers
    BY Zenon, <2>4, <2>5 DEF Current
  <2> QED BY Zenon, <1>2, <2>1, <2>4, <2>5, <2>6
<1>8. ASSUME UNCHANGED runs PROVE FALSE
  BY Zenon, <1>4, <1>8
<1>9. ASSUME Touch PROVE FALSE
  BY Zenon, <1>3, <1>9 DEF Touch
<1>10. CASE MainStep
  <2>1. CASE Load \/ SortAndLayer \/ OrderFailed \/ Build \/ NextLayer \/ OneshotsStarted \/ LayerSettled
             \/ ServicesStarted \/ \E n \in Name : StartService(n)
    BY Zenon, <1>8, <2>1 DEF Load, SortAndLayer, OrderFailed, Build, NextLayer, OneshotsStarted, LayerSettled,
         ServicesStarted, StartService, procVars
  <2>2. ASSUME NEW r \in DOMAIN runs, Collect(r) PROVE FALSE
    <3>1. CASE UNCHANGED runs
      BY Zenon, <1>8, <3>1
    <3>2. CASE runs' # runs
      <4>1. PICK n : svc[n] # 0 /\ runs' = [runs EXCEPT ![svc[n]].closed = TRUE] /\ n = runs[r].owner
        BY Zenon, <2>2, <3>2 DEF Collect, MarkExited, procVars
      <4>2. n \in Name /\ svc[n] \in DOMAIN runs
        BY Zenon, <1>1, <2>2, <4>1, OwnersAreNames DEF Types
      <4>3. runs[svc[n]] \in RunRecord
        BY <1>1, <4>2
      <4>4. [runs[svc[n]] EXCEPT !.closed = TRUE] \in RunRecord
        BY Zenon, <4>3 DEF RunRecord
      <4>5. runs' \in Seq(RunRecord) /\ DOMAIN runs' = DOMAIN runs
        BY <1>1, <4>1, <4>2, <4>4
      <4> QED BY Zenon, <1>3, <4>5
    <3> QED BY Zenon, <3>1, <3>2
  <2> QED BY Zenon, <1>6, <1>10, <2>1, <2>2 DEF MainStep
<1>11. CASE \E t \in Thread : ThreadStep(t)
  <2>1. CASE \E t \in Thread : Gate(t) \/ Prepare(t) \/ Recheck(t) \/ Listen(t) \/ AwaitReady(t)
    BY Zenon, <1>8, <2>1 DEF Gate, Prepare, Recheck, Listen, AwaitReady, procVars
  <2> QED BY Zenon, <1>7, <1>11, <2>1 DEF ThreadStep
<1>12. ASSUME \/ \E r \in DOMAIN runs : WaitOneshot(r) \/ ChildExits(r) \/ ChildReady(r)
              \/ \E c \in Client : WaitExit(c)
              \/ \E c \in Client, n \in Name :
                   \/ \E wait \in BOOLEAN : ClientStart(c, n, wait)
                   \/ ClientStop(c, n) \/ ClientRestart(c, n)
              \/ \E n \in Name : StopAll(n)
       PROVE  FALSE
  <2>1. UNCHANGED pc
    BY Zenon, <1>12 DEF WaitOneshot, ChildExits, ChildReady, WaitExit, ClientStart, ClientStop, ClientRestart,
         StopAll, bootVars
  <2>2. pc' # "dead"
    BY Zenon, <1>1, <2>1 DEF Control
  <2> QED BY Zenon, <1>1, <1>9, <1>12, <2>2, OthersTouch
<1> QED BY Zenon, <1>10, <1>11, <1>12 DEF Next

(* It holds when run() begins ...                                         *)
LEMMA InitInv ==
  ASSUME Init
  PROVE  BootInv
<1>1. /\ pc = "init" /\ why = "none" /\ at = 0 /\ awaited = {} /\ rest = {} /\ fatal = FALSE
      /\ runs = <<>> /\ svc = [n \in Name |-> 0] /\ skipped = {} /\ mu = Free
      /\ th = [t \in Thread |-> Idle]
  BY Zenon DEF Init
<1>2. Types
  <2>1. th \in [Thread -> ThreadRecord] /\ \A t \in Thread : th[t].pc = "idle" /\ t # mu
    BY Zenon, <1>1, IdleThread
  <2>2. runs \in Seq(RunRecord) /\ svc \in [Name -> Nat] /\ \A n \in Name : svc[n] = 0
    BY <1>1
  <2> QED BY Zenon, <1>1, <2>1, <2>2 DEF Types
<1>3. Control
  BY <1>1, IdleThread DEF Control
<1>4. Tracked
  BY <1>1, IdleThread DEF Tracked
<1> QED BY Zenon, <1>1, <1>2, <1>3, <1>4 DEF BootInv, FatalSettles, Live, Layered, Serving

(* ... and after every step.                                              *)
LEMMA InvStep ==
  ASSUME BootInv, LayersOK, [Next]_vars
  PROVE  BootInv'
<1>1. CASE pc = "dead"
  <2>1. UNCHANGED vars
    BY Zenon, <1>1, NothingAfterFatalf
  <2> QED BY Zenon, <1>1, <2>1 DEF vars, BootInv, FatalSettles, bootVars, procVars
<1>2. CASE pc # "dead"
  <2>1. Live
    BY Zenon, <1>2 DEF BootInv
  <2>2. FatalSettles'
    <3>1. CASE Next
      BY Zenon, <2>1, <3>1, FatalStep
    <3>2. CASE UNCHANGED vars
      BY Zenon, <3>2 DEF vars, BootInv, FatalSettles, bootVars, procVars
    <3> QED BY Zenon, <3>1, <3>2
  <2>3. pc' # "dead" => Live'
    BY Zenon, <2>1, LiveStep
  <2> QED BY Zenon, <2>2, <2>3 DEF BootInv
<1> QED BY Zenon, <1>1, <1>2

(* What the reap loop takes over.                                          *)
LEMMA HandoffKnown ==
  ASSUME BootInv
  PROVE  HandoffTracked
<1>1. SUFFICES ASSUME pc = "loop", NEW r \in DOMAIN runs
               PROVE  IF runs[r].by = "oneshot" THEN runs[r].out = "exit"
                      ELSE svc[runs[r].owner] = r \/ IsOneshot(runs[r].owner)
  BY Zenon DEF HandoffTracked
<1>2. awaited = {} /\ ~fatal /\ Tracked /\ runs[r] \in RunRecord
  BY <1>1 DEF BootInv, Live, Control, Types
<1>3. runs[r].out \in {"none", "exit", "err"}
  BY Zenon, <1>2 DEF RunRecord
<1> QED BY Zenon, <1>2, <1>3 DEF Tracked

(* What a run that boot forks depends on is settled.                       *)
ForkedInOrder ==
  Len(runs') > Len(runs) /\ runs'[Len(runs')].by # "client" =>
    \A m \in Preds(runs'[Len(runs')].owner) : Settled(m)

(* The layers before the current one are settled.                          *)
LEMMA ForkStep ==
  ASSUME BootInv, LayersOK, [Next]_vars
  PROVE  [ForkedInOrder]_vars
<1>1. CASE UNCHANGED vars
  BY Zenon, <1>1
<1>2. CASE Next /\ ~UNCHANGED vars
  <2>1. Live
    BY Zenon, <1>2, NothingAfterFatalf DEF BootInv
  <2>2. SUFFICES ASSUME Len(runs') > Len(runs), runs'[Len(runs')].by # "client",
                        NEW m \in Preds(runs'[Len(runs')].owner)
                 PROVE  Settled(m)
    BY Zenon DEF ForkedInOrder
  <2>3. PICK n : n = runs'[Len(runs')].owner
    BY Zenon
  <2>4. Serving /\ at \in DOMAIN layers /\ n \in layers[at]
    BY <1>2, <2>1, <2>2, <2>3, ForksAreCurrent
  <2>5. PICK j \in DOMAIN layers : j < at /\ m \in layers[j]
    BY <2>2, <2>3, <2>4 DEF LayersOK, LayersInOrder
  <2>6. Current
    BY Zenon, <2>1, <2>4 DEF Live, Layered
  <2> QED BY Zenon, <2>5, <2>6 DEF Current
<1> QED BY Zenon, <1>1, <1>2

-----------------------------------------------------------------------------
(* Loading the file                                                        *)

(* What holds of 0 and is passed on holds of all numbers up to n:          *)
(* OrderProofs proves it, from the theorems about well-founded orders.     *)
Induction ==
  \A n \in Nat, T \in SUBSET Nat :
    0 \in T /\ (\A k \in 1..n : k - 1 \in T => k \in T) => \A k \in 0..n : k \in T

(* What the loop over the processes makes of the first k.                  *)
Round(procs, gone, f, k) ==
  IF k = 0 THEN <<>>
  ELSE IF procs[k].name \in gone THEN f[k - 1]
  ELSE Append(f[k - 1], Strip(procs[k], gone))

(* The loop of excludeProcesses can be run round by round.                 *)
LEMMA Rounds ==
  ASSUME Induction, NEW procs \in Seq(ProcessEntry), NEW gone
  PROVE  \E keep : /\ \A k \in 0..Len(procs) : keep[k] = Round(procs, gone, keep, k)
                   /\ excludeProcesses(procs, gone) = keep[Len(procs)]
<1> DEFINE N == Len(procs)
           Is(f, n) == f = [k \in 0..n |-> Round(procs, gone, f, k)]
           T == {n \in 0..N : \E f : Is(f, n)}
<1>0. N \in Nat
  OBVIOUS
<1>1. 0 \in T
  <2> DEFINE f == [k \in 0..0 |-> <<>>]
  <2>1. \A k \in 0..0 : k = 0
    OBVIOUS
  <2>2. \A k \in 0..0 : Round(procs, gone, f, k) = <<>>
    BY Zenon, <2>1 DEF Round
  <2>3. Is(f, 0)
    BY Zenon, <2>2
  <2>4. 0 \in 0..N
    BY <1>0
  <2> QED BY Zenon, <2>3, <2>4
<1>2. ASSUME NEW n \in 1..N, n - 1 \in T PROVE n \in T
  <2>1. PICK f : Is(f, n - 1)
    BY Zenon, <1>2
  <2>2. n \in Int /\ n \in 0..N /\ 0..n = (0..(n - 1)) \cup {n} /\ n \notin 0..(n - 1) /\ n # 0 /\ n - 1 \in 0..(n - 1)
    BY <1>0
  <2>3. \A k \in 0..(n - 1) : k # 0 => k - 1 \in 0..(n - 1)
    BY <2>2
  <2> DEFINE g == [k \in 0..n |-> IF k = n THEN Round(procs, gone, f, n) ELSE f[k]]
  <2>4. \A k \in 0..(n - 1) : g[k] = f[k] /\ f[k] = Round(procs, gone, f, k)
    BY Zenon, <2>1, <2>2
  <2>5. g[n] = Round(procs, gone, f, n)
    BY Zenon, <2>2
  <2> HIDE DEF g
  <2>6. \A k \in 0..n : g[k] = Round(procs, gone, g, k)
    BY Zenon, <2>2, <2>3, <2>4, <2>5 DEF Round
  <2>7. g = [k \in 0..n |-> g[k]]
    BY DEF g
  <2>8. Is(g, n)
    BY Zenon, <2>6, <2>7
  <2> QED BY Zenon, <2>2, <2>8
<1>3. N \in T
  <2>0. T \in SUBSET Nat
    OBVIOUS
  <2> HIDE DEF T
  <2>1. \A n \in 0..N : n \in T
    BY Zenon, <1>0, <1>1, <1>2, <2>0 DEF Induction
  <2>2. N \in 0..N
    BY <1>0
  <2> QED BY Zenon, <2>1, <2>2
<1> DEFINE keep == CHOOSE f : Is(f, N)
<1>4. Is(keep, N)
  BY Zenon, <1>3
<1>5. excludeProcesses(procs, gone) = keep[N]
  BY Zenon DEF excludeProcesses, Round
<1>6. \A k \in 0..N : keep[k] = Round(procs, gone, keep, k)
  <2> HIDE DEF keep
  <2> QED BY Zenon, <1>4
<1> QED BY Zenon, <1>5, <1>6

(* An entry without the edges to the excluded is an entry.                 *)
LEMMA Stripped ==
  ASSUME NEW p \in ProcessEntry, NEW gone
  PROVE  /\ Strip(p, gone) \in ProcessEntry
         /\ Strip(p, gone).name = p.name /\ Strip(p, gone).ready = p.ready /\ Strip(p, gone).onCheck = p.onCheck
         /\ Strip(p, gone).after = p.after \ gone /\ Strip(p, gone).before = p.before \ gone
         /\ Strip(p, gone).requires = p.requires \ gone
<1>1. Strip(p, gone) \in ProcessEntry
  <2>1. /\ \A q \in ProcessEntry, x \in SUBSET Name : [q EXCEPT !.after = x] \in ProcessEntry
        /\ \A q \in ProcessEntry, x \in SUBSET Name : [q EXCEPT !.before = x] \in ProcessEntry
        /\ \A q \in ProcessEntry, x \in SUBSET Name : [q EXCEPT !.requires = x] \in ProcessEntry
    <3>1. \A q \in ProcessEntry, x \in SUBSET Name : [q EXCEPT !.after = x] \in ProcessEntry
      BY DEF ProcessEntry
    <3>2. \A q \in ProcessEntry, x \in SUBSET Name : [q EXCEPT !.before = x] \in ProcessEntry
      BY DEF ProcessEntry
    <3>3. \A q \in ProcessEntry, x \in SUBSET Name : [q EXCEPT !.requires = x] \in ProcessEntry
      BY DEF ProcessEntry
    <3> QED BY <3>1, <3>2, <3>3
  <2>2. p.after \ gone \in SUBSET Name /\ p.before \ gone \in SUBSET Name /\ p.requires \ gone \in SUBSET Name
    BY DEF ProcessEntry
  <2> DEFINE a == [p EXCEPT !.after = p.after \ gone]
             b == [a EXCEPT !.before = p.before \ gone]
             c == [b EXCEPT !.requires = p.requires \ gone]
  <2>3. Strip(p, gone) = c
    BY DEF Strip, ProcessEntry
  <2>4. a \in ProcessEntry
    BY Zenon, <2>1, <2>2
  <2> HIDE DEF a
  <2>5. b \in ProcessEntry
    BY Zenon, <2>1, <2>2, <2>4
  <2> HIDE DEF b
  <2>6. c \in ProcessEntry
    BY Zenon, <2>1, <2>2, <2>5
  <2> HIDE DEF c
  <2> QED BY Zenon, <2>3, <2>6
<1>2. Strip(p, gone).name = p.name /\ Strip(p, gone).ready = p.ready /\ Strip(p, gone).onCheck = p.onCheck
  BY DEF Strip, ProcessEntry
<1>3. Strip(p, gone).after = p.after \ gone
  BY DEF Strip, ProcessEntry
<1>4. Strip(p, gone).before = p.before \ gone
  BY DEF Strip, ProcessEntry
<1>5. Strip(p, gone).requires = p.requires \ gone
  BY DEF Strip, ProcessEntry
<1> QED BY Zenon, <1>1, <1>2, <1>3, <1>4, <1>5

(* t is s with the entry p added.                                          *)
Longer(t, s, p) ==
  /\ t \in Seq(ProcessEntry) /\ DOMAIN t = DOMAIN s \cup {Len(s) + 1}
  /\ t[Len(s) + 1] = p /\ \A j \in DOMAIN s : t[j] = s[j]

(* Append adds an entry.                                                   *)
LEMMA EntryAppended ==
  ASSUME NEW s \in Seq(ProcessEntry), NEW p \in ProcessEntry
  PROVE  Longer(Append(s, p), s, p)
<1>1. Append(s, p) \in Seq(ProcessEntry) /\ Append(s, p)[Len(s) + 1] = p
  OBVIOUS
<1>2. DOMAIN Append(s, p) = DOMAIN s \cup {Len(s) + 1}
  OBVIOUS
<1>3. \A j \in DOMAIN s : Append(s, p)[j] = s[j]
  OBVIOUS
<1> QED BY Zenon, <1>1, <1>2, <1>3 DEF Longer

(* excludeProcesses keeps the entries that are not excluded, stripped, and *)
(* no others.                                                              *)
LEMMA Survivors ==
  ASSUME Induction, NEW procs \in Seq(ProcessEntry), NEW gone
  PROVE  /\ excludeProcesses(procs, gone) \in Seq(ProcessEntry)
         /\ \A j \in DOMAIN excludeProcesses(procs, gone) : \E i \in DOMAIN procs :
              procs[i].name \notin gone /\ excludeProcesses(procs, gone)[j] = Strip(procs[i], gone)
         /\ \A i \in DOMAIN procs : procs[i].name \notin gone =>
              \E j \in DOMAIN excludeProcesses(procs, gone) :
                excludeProcesses(procs, gone)[j] = Strip(procs[i], gone)
<1> DEFINE N == Len(procs)
           Stays(i) == procs[i].name \notin gone
           From(s, k) == \A j \in DOMAIN s : \E i \in 1..k : Stays(i) /\ s[j] = Strip(procs[i], gone)
           All(s, k) == \A i \in 1..k : Stays(i) => \E j \in DOMAIN s : s[j] = Strip(procs[i], gone)
<1>0. N \in Nat /\ DOMAIN procs = 1..N /\ \A i \in 1..N : procs[i] \in ProcessEntry
  OBVIOUS
<1>1. PICK keep : /\ \A k \in 0..N : keep[k] = Round(procs, gone, keep, k)
                  /\ excludeProcesses(procs, gone) = keep[N]
  BY Zenon, Rounds
<1> DEFINE T == {k \in 0..N : keep[k] \in Seq(ProcessEntry) /\ From(keep[k], k) /\ All(keep[k], k)}
<1>2. 0 \in T
  <2>1. 0 \in 0..N /\ 1..0 = {}
    BY <1>0
  <2>2. keep[0] = <<>>
    BY Zenon, <1>1, <2>1 DEF Round
  <2>3. <<>> \in Seq(ProcessEntry) /\ DOMAIN <<>> = {}
    OBVIOUS
  <2> QED BY Zenon, <2>1, <2>2, <2>3
<1>3. ASSUME NEW n \in 1..N, n - 1 \in T PROVE n \in T
  <2> DEFINE s == keep[n - 1]
             p == Strip(procs[n], gone)
  <2>1. s \in Seq(ProcessEntry) /\ From(s, n - 1) /\ All(s, n - 1)
    BY Zenon, <1>3
  <2>2. n \in 0..N /\ n # 0 /\ 1..n = (1..(n - 1)) \cup {n}
    BY <1>0
  <2>3. keep[n] = IF Stays(n) THEN Append(s, p) ELSE s
    BY Zenon, <1>1, <2>2 DEF Round
  <2>4. CASE ~Stays(n)
    <3>1. keep[n] = s
      BY Zenon, <2>3, <2>4
    <3> HIDE DEF s, p
    <3>2. From(s, n) /\ All(s, n)
      BY Zenon, <2>1, <2>2, <2>4
    <3> HIDE DEF From, All
    <3> QED BY Zenon, <2>1, <2>2, <3>1, <3>2
  <2>5. CASE Stays(n)
    <3>1. p \in ProcessEntry
      BY Zenon, <1>0, Stripped
    <3>2. keep[n] = Append(s, p)
      BY Zenon, <2>3, <2>5
    <3> HIDE DEF s, p
    <3>3. /\ keep[n] \in Seq(ProcessEntry) /\ DOMAIN keep[n] = DOMAIN s \cup {Len(s) + 1}
          /\ keep[n][Len(s) + 1] = p /\ \A j \in DOMAIN s : keep[n][j] = s[j]
      <4>1. Longer(Append(s, p), s, p)
        BY Zenon, <2>1, <3>1, EntryAppended
      <4>2. Longer(keep[n], s, p)
        BY Zenon, <3>2, <4>1
      <4> QED BY Zenon, <4>2 DEF Longer
    <3>4. ASSUME NEW j \in DOMAIN keep[n] PROVE \E i \in 1..n : Stays(i) /\ keep[n][j] = Strip(procs[i], gone)
      <4>1. CASE j \in DOMAIN s
        BY Zenon, <2>1, <2>2, <3>3, <4>1
      <4>2. CASE j = Len(s) + 1
        BY Zenon, <2>2, <2>5, <3>3, <4>2 DEF p
      <4> QED BY Zenon, <3>3, <4>1, <4>2
    <3>5. All(keep[n], n)
      BY Zenon, <2>1, <2>2, <3>3 DEF p
    <3> QED BY Zenon, <2>2, <3>3, <3>4, <3>5
  <2> QED BY Zenon, <2>4, <2>5
<1>4. N \in T
  <2>0. T \in SUBSET Nat
    OBVIOUS
  <2> HIDE DEF T
  <2>1. \A k \in 0..N : k \in T
    BY Zenon, <1>0, <1>2, <1>3, <2>0 DEF Induction
  <2>2. N \in 0..N
    BY <1>0
  <2> QED BY Zenon, <2>1, <2>2
<1> QED BY Zenon, <1>0, <1>1, <1>4

(* What a file loads to is a list of entries.                              *)
LEMMA LoadedProcs ==
  ASSUME NEW file \in ConfigFile
  PROVE  /\ Loaded(file).procs = excludeProcesses(file.procs, Excluded(file))
         /\ Loaded(file).checks = KeptChecks(file)
         /\ file.procs \in Seq(ProcessEntry) /\ \A i \in DOMAIN file.procs : file.procs[i] \in ProcessEntry
<1>1. file.procs \in Seq(ProcessEntry)
  BY DEF ConfigFile
<1>2. \A i \in DOMAIN file.procs : file.procs[i] \in ProcessEntry
  BY <1>1
<1>3. Loaded(file).procs = KeptProcs(file) /\ Loaded(file).checks = KeptChecks(file)
  BY Zenon DEF Loaded
<1> QED BY Zenon, <1>1, <1>2, <1>3 DEF KeptProcs

(* "The survivors order as if the entry were absent", of every file.       *)
LEMMA ExclusionSafe ==
  ASSUME Induction, NEW file \in ConfigFile
  PROVE  ExclusionIsAbsence(file)
<1> DEFINE gone == Excluded(file)
           kept == Loaded(file).procs
           Before(s, a, b) ==
             \E i \in DOMAIN s : \/ s[i].name = b /\ a \in s[i].after \cup s[i].requires
                                 \/ s[i].name = a /\ b \in s[i].before
           Named2(s) == UNION {Deps(s[i]) \cup {s[i].name} : i \in DOMAIN s}
<1>0. /\ kept = excludeProcesses(file.procs, gone) /\ file.procs \in Seq(ProcessEntry)
      /\ \A i \in DOMAIN file.procs : file.procs[i] \in ProcessEntry
  BY Zenon, LoadedProcs
<1> HIDE DEF kept, gone
<1>1. /\ \A j \in DOMAIN kept : \E i \in DOMAIN file.procs :
            file.procs[i].name \notin gone /\ kept[j] = Strip(file.procs[i], gone)
      /\ \A i \in DOMAIN file.procs : file.procs[i].name \notin gone =>
            \E j \in DOMAIN kept : kept[j] = Strip(file.procs[i], gone)
  <2>1. /\ \A j \in DOMAIN excludeProcesses(file.procs, gone) : \E i \in DOMAIN file.procs :
             file.procs[i].name \notin gone /\ excludeProcesses(file.procs, gone)[j] = Strip(file.procs[i], gone)
        /\ \A i \in DOMAIN file.procs : file.procs[i].name \notin gone =>
             \E j \in DOMAIN excludeProcesses(file.procs, gone) :
               excludeProcesses(file.procs, gone)[j] = Strip(file.procs[i], gone)
    BY Zenon, <1>0, Survivors
  <2> QED BY <1>0, <2>1
<1>2. ASSUME NEW i \in DOMAIN file.procs, NEW q, q = Strip(file.procs[i], gone)
      PROVE  /\ q.name = file.procs[i].name /\ q.ready = file.procs[i].ready
             /\ q.onCheck = file.procs[i].onCheck /\ q.after = file.procs[i].after \ gone
             /\ q.before = file.procs[i].before \ gone /\ q.requires = file.procs[i].requires \ gone
  <2>1. file.procs[i] \in ProcessEntry
    BY Zenon, <1>0
  <2>2. LET p == Strip(file.procs[i], gone)
        IN  /\ p.name = file.procs[i].name /\ p.ready = file.procs[i].ready
            /\ p.onCheck = file.procs[i].onCheck /\ p.after = file.procs[i].after \ gone
            /\ p.before = file.procs[i].before \ gone /\ p.requires = file.procs[i].requires \ gone
    BY Zenon, <2>1, Stripped
  <2> QED BY Zenon, <1>2, <2>2
<1>3. ASSUME NEW x \in Named2(kept) PROVE x \notin gone
  <2>1. PICK j \in DOMAIN kept : x \in Deps(kept[j]) \cup {kept[j].name}
    BY Zenon, <1>3
  <2>2. PICK i \in DOMAIN file.procs : file.procs[i].name \notin gone /\ kept[j] = Strip(file.procs[i], gone)
    BY Zenon, <1>1
  <2>3. /\ kept[j].name = file.procs[i].name /\ kept[j].after = file.procs[i].after \ gone
        /\ kept[j].before = file.procs[i].before \ gone /\ kept[j].requires = file.procs[i].requires \ gone
    BY Zenon, <1>2, <2>2
  <2> QED BY Zenon, <2>1, <2>2, <2>3 DEF Deps
<1>4. ASSUME NEW a, a \notin gone, NEW b, b \notin gone PROVE Before(kept, a, b) <=> Before(file.procs, a, b)
  <2>1. ASSUME NEW j \in DOMAIN kept,
               \/ kept[j].name = b /\ a \in kept[j].after \cup kept[j].requires
               \/ kept[j].name = a /\ b \in kept[j].before
        PROVE  Before(file.procs, a, b)
    <3>1. PICK i \in DOMAIN file.procs : kept[j] = Strip(file.procs[i], gone)
      BY Zenon, <1>1
    <3>2. /\ kept[j].name = file.procs[i].name /\ kept[j].after = file.procs[i].after \ gone
          /\ kept[j].before = file.procs[i].before \ gone /\ kept[j].requires = file.procs[i].requires \ gone
      BY Zenon, <1>2, <3>1
    <3> QED BY Zenon, <2>1, <3>2
  <2>2. ASSUME NEW i \in DOMAIN file.procs,
               \/ file.procs[i].name = b /\ a \in file.procs[i].after \cup file.procs[i].requires
               \/ file.procs[i].name = a /\ b \in file.procs[i].before
        PROVE  Before(kept, a, b)
    <3>1. file.procs[i].name \notin gone
      BY Zenon, <1>4, <2>2
    <3>2. PICK j \in DOMAIN kept : kept[j] = Strip(file.procs[i], gone)
      BY Zenon, <1>1, <3>1
    <3>3. /\ kept[j].name = file.procs[i].name /\ kept[j].after = file.procs[i].after \ gone
          /\ kept[j].before = file.procs[i].before \ gone /\ kept[j].requires = file.procs[i].requires \ gone
      BY Zenon, <1>2, <3>2
    <3> QED BY Zenon, <1>4, <2>2, <3>3
  <2> QED BY Zenon, <2>1, <2>2
<1>5. ASSUME NEW j \in DOMAIN kept, NEW c \in (kept[j].onCheck \cup {kept[j].ready}) \cap file.checks
      PROVE  c \in Loaded(file).checks
  <2>1. PICK i \in DOMAIN file.procs : file.procs[i].name \notin gone /\ kept[j] = Strip(file.procs[i], gone)
    BY Zenon, <1>1
  <2>2. Uses(file.procs[i], c) /\ c \in file.checks
    BY Zenon, <1>2, <1>5, <2>1 DEF Uses
  <2> DEFINE users == {file.procs[k].name : k \in {l \in DOMAIN file.procs : Uses(file.procs[l], c)}}
  <2>3. ~(users \subseteq gone)
    BY Zenon, <2>1, <2>2
  <2> QED BY Zenon, <2>2, <2>3, LoadedProcs DEF KeptChecks, gone
<1>6. Named2(kept) \cap gone = {}
  BY Zenon, <1>3
<1>7. \A a, b \in Named2(file.procs) \ gone : Before(kept, a, b) <=> Before(file.procs, a, b)
  BY Zenon, <1>4
<1>8. \A i \in DOMAIN kept : (kept[i].onCheck \cup {kept[i].ready}) \cap file.checks \subseteq Loaded(file).checks
  BY Zenon, <1>5
<1> QED BY Zenon, <1>6, <1>7, <1>8 DEF ExclusionIsAbsence, kept, gone

(* "Flipping the gate can never surface a new config error", of every      *)
(* file: a disabled service with a schedule is held to the scheduled       *)
(* contract already.                                                       *)
LEMMA GateFlipSafe ==
  ASSUME NEW file \in ConfigFile
  PROVE  GateFlipIsSafe(file)
<1> SUFFICES ASSUME NEW i \in DOMAIN file.procs, NEW f, f = [file EXCEPT !.procs[i].startup.value = "scheduled"],
                    file.procs[i].startup.template, Startup(file.procs[i]) = "disabled",
                    file.procs[i].schedule # "none", ~Rejected(file)
             PROVE  ~Rejected(f)
  BY Zenon DEF GateFlipIsSafe
<1> DEFINE p == file.procs[i]
           q == [p EXCEPT !.startup.value = "scheduled"]
<1>1. /\ file.procs \in Seq(ProcessEntry) /\ p \in ProcessEntry /\ DOMAIN file = {"stop", "procs", "checks"}
      /\ p.startup \in [template : BOOLEAN, value : STRING] /\ DOMAIN file.procs = 1..Len(file.procs)
  <2>1. file.procs \in Seq(ProcessEntry) /\ DOMAIN file = {"stop", "procs", "checks"}
    BY DEF ConfigFile
  <2>2. p \in ProcessEntry
    BY <2>1
  <2>3. p.startup \in [template : BOOLEAN, value : STRING]
    BY <2>2 DEF ProcessEntry
  <2> QED BY <2>1, <2>2, <2>3
<1>2. f.stop = file.stop /\ f.procs = [file.procs EXCEPT ![i] = q]
  BY <1>1
<1>3. /\ q.startup.value = "scheduled" /\ q.name = p.name /\ q.malformed = p.malformed /\ q.schedule = p.schedule
      /\ q.actions = p.actions /\ q.timeout = p.timeout /\ q.rewrite = p.rewrite
      /\ q.after = p.after /\ q.before = p.before /\ q.requires = p.requires
  BY <1>1 DEF ProcessEntry
<1> HIDE DEF q
<1>4. DOMAIN f.procs = DOMAIN file.procs /\ f.procs[i] = q /\ \A k \in DOMAIN file.procs : k # i => f.procs[k] = file.procs[k]
  BY <1>1, <1>2
<1>5. Startup(q) = "scheduled" /\ OnSchedule(q) /\ OnSchedule(p) /\ ~ParseFails(p)
  <2>1. Startup(q) = "scheduled"
    BY <1>3 DEF Startup
  <2>2. ~ParseFails(p)
    BY Zenon DEF Rejected
  <2> QED BY Zenon, <2>1, <2>2 DEF OnSchedule
<1>6. ~ParseFails(q) /\ Deps(q) = Deps(p)
  <2>1. Deps(q) = Deps(p)
    BY Zenon, <1>3 DEF Deps
  <2>2. ~q.malformed /\ "scheduled" \in StartupKinds
    BY Zenon, <1>3, <1>5 DEF ParseFails, StartupKinds
  <2> QED BY Zenon, <1>5, <2>1, <2>2 DEF ParseFails
<1>7. \A k \in DOMAIN file.procs : /\ f.procs[k].name = file.procs[k].name
                                  /\ OnSchedule(f.procs[k]) <=> OnSchedule(file.procs[k])
  BY Zenon, <1>3, <1>4, <1>5
<1>8. ScheduledSet(f) = ScheduledSet(file) /\ ShutdownSignals(f) = ShutdownSignals(file)
  <2>1. ShutdownSignals(f) = ShutdownSignals(file)
    BY <1>2 DEF ShutdownSignals
  <2> DEFINE S == {j \in DOMAIN f.procs : OnSchedule(f.procs[j])}
             T == {j \in DOMAIN file.procs : OnSchedule(file.procs[j])}
  <2>2. S = T /\ \A j \in T : f.procs[j].name = file.procs[j].name
    <3>1. S = T
      BY <1>4, <1>7
    <3>2. \A j \in T : f.procs[j].name = file.procs[j].name
      BY Zenon, <1>7
    <3> QED BY Zenon, <3>1, <3>2
  <2> HIDE DEF S, T
  <2>3. {f.procs[j].name : j \in S} = {file.procs[j].name : j \in T}
    BY <2>2
  <2> QED BY Zenon, <2>1, <2>3 DEF ScheduledSet, S, T
<1>9. ASSUME NEW k \in DOMAIN f.procs
      PROVE  /\ ~ParseFails(f.procs[k]) /\ ~RewriteInvalid(f.procs[k], ShutdownSignals(f))
             /\ ~ScheduledInvalid(f.procs[k], ScheduledSet(f))
  <2>1. /\ ~ParseFails(file.procs[k]) /\ ~RewriteInvalid(file.procs[k], ShutdownSignals(f))
        /\ ~ScheduledInvalid(file.procs[k], ScheduledSet(f))
    BY Zenon, <1>4, <1>8 DEF Rejected
  <2>2. CASE k # i
    BY Zenon, <1>4, <2>1, <2>2
  <2>3. CASE k = i
    <3>1. f.procs[k] = q /\ file.procs[k] = p
      BY Zenon, <1>4, <2>3
    <3>2. ~RewriteInvalid(p, ShutdownSignals(f)) /\ ~ScheduledInvalid(p, ScheduledSet(f))
      BY Zenon, <2>1, <3>1
    <3>3. ~RewriteInvalid(q, ShutdownSignals(f))
      BY Zenon, <1>3, <3>2 DEF RewriteInvalid
    <3> HIDE DEF p
    <3>4. ~ScheduledInvalid(q, ScheduledSet(f))
      BY <1>3, <1>5, <1>6, <3>2 DEF ScheduledInvalid
    <3> QED BY Zenon, <1>6, <3>1, <3>3, <3>4
  <2> QED BY Zenon, <2>2, <2>3
<1>10. f.procs # <<>>
  <2>1. file.procs # <<>> /\ DOMAIN <<>> = {} /\ i \in DOMAIN f.procs
    BY <1>4
  <2> QED BY Zenon, <2>1
<1> QED BY Zenon, <1>9, <1>10 DEF Rejected

(* What a file loads to is a list of processes over the names in it.       *)
LEMMA LoadedServices ==
  ASSUME Induction, NEW file \in ConfigFile
  PROVE  buildOrderServices(Loaded(file)) \in Seq(Process)
<1> DEFINE procs == Loaded(file).procs
           row(i) == [name |-> procs[i].name, after |-> procs[i].after,
                      before |-> procs[i].before, requires |-> procs[i].requires]
<1>1. procs \in Seq(ProcessEntry)
  <2>1. file.procs \in Seq(ProcessEntry) /\ procs = excludeProcesses(file.procs, Excluded(file))
    BY Zenon, LoadedProcs
  <2>2. excludeProcesses(file.procs, Excluded(file)) \in Seq(ProcessEntry)
    BY Zenon, <2>1, Survivors
  <2> QED BY Zenon, <2>1, <2>2
<1>2. buildOrderServices(Loaded(file)) = [i \in DOMAIN procs |-> row(i)]
  BY Zenon DEF buildOrderServices
<1> HIDE DEF procs
<1>3. ASSUME NEW i \in DOMAIN procs PROVE row(i) \in Process
  <2>1. procs[i] \in ProcessEntry
    BY <1>1
  <2>2. /\ procs[i].name \in Name /\ procs[i].after \in SUBSET Name
        /\ procs[i].before \in SUBSET Name /\ procs[i].requires \in SUBSET Name
    BY <2>1 DEF ProcessEntry
  <2> QED BY <2>2 DEF Process
<1> HIDE DEF row
<1>4. [i \in DOMAIN procs |-> row(i)] \in Seq(Process)
  BY <1>1, <1>3
<1> QED BY Zenon, <1>2, <1>4

-----------------------------------------------------------------------------
(* Ordering inside run()                                                   *)

(* What Load reads is a configuration file.                                *)
FileThere == phase = "load" => cfg \in Files

(* Whatever file that is, its gates are safe.                              *)
LEMMA GatesOfFile ==
  ASSUME Induction, FileThere
  PROVE  GatesAreSafe
<1> SUFFICES ASSUME phase = "load" PROVE GateFlipIsSafe(cfg) /\ ExclusionIsAbsence(cfg)
  BY Zenon DEF GatesAreSafe
<1>1. cfg \in ConfigFile
  BY Zenon, BootAssumption DEF FileThere
<1> QED BY Zenon, <1>1, GateFlipSafe, ExclusionSafe

(* Every step of run() that ordering sees is one of OrderSpec.             *)
LEMMA OrderStep ==
  ASSUME Induction, FileThere, [Next]_vars
  PROVE  FileThere' /\ [Take \/ OrderNext]_orderVars
<1>1. CASE Load
  <2>1. CASE UNCHANGED <<cfg, services, phase>>
    BY Zenon, <1>1, <2>1 DEF Load, FileThere, orderVars
  <2>2. CASE cfg' = Loaded(cfg) /\ services' = buildOrderServices(cfg') /\ phase' = "edges"
    <3>1. cfg \in Files /\ phase = "load"
      BY Zenon, <1>1 DEF Load, FileThere
    <3>2. services' \in Seq(Process)
      <4>1. cfg \in ConfigFile
        BY Zenon, <3>1, BootAssumption
      <4>2. buildOrderServices(Loaded(cfg)) \in Seq(Process)
        BY Zenon, <4>1, LoadedServices
      <4> QED BY Zenon, <2>2, <4>2
    <3> QED BY Zenon, <1>1, <2>2, <3>1, <3>2 DEF Load, Take, FileThere
  <2> QED BY Zenon, <1>1, <2>1, <2>2 DEF Load
<1>2. CASE SortAndLayer
  BY Zenon, <1>2 DEF SortAndLayer, FileThere, bootVars, OrderNext, BuildEdges, Seed, SeedDone,
       Dequeue, Relax, SortDone, CutLayer, CutDone
<1>3. CASE UNCHANGED <<orderVars, cfg>>
  BY Zenon, <1>3 DEF FileThere, orderVars
<1>4. CASE MainStep
  <2>1. CASE OrderFailed \/ Build \/ NextLayer \/ OneshotsStarted \/ LayerSettled \/ ServicesStarted
    BY Zenon, <1>3, <2>1 DEF OrderFailed, Build, NextLayer, OneshotsStarted, LayerSettled, ServicesStarted
  <2>2. CASE \E n \in Name : StartOneshot(n) \/ StartService(n)
    BY Zenon, <1>3, <2>2 DEF StartOneshot, StartService
  <2>3. CASE \E r \in DOMAIN runs : Collect(r)
    BY Zenon, <1>3, <2>3 DEF Collect
  <2> QED BY <1>1, <1>2, <1>4, <2>1, <2>2, <2>3 DEF MainStep
<1>5. CASE \E t \in Thread : ThreadStep(t)
  BY Zenon, <1>3, <1>5 DEF ThreadStep, Gate, Prepare, Recheck, Finish, Listen, AwaitReady
<1>6. CASE \/ \E r \in DOMAIN runs : WaitOneshot(r) \/ ChildExits(r) \/ ChildReady(r)
           \/ \E n \in Name : StopAll(n)
  BY Zenon, <1>3, <1>6 DEF WaitOneshot, ChildExits, ChildReady, StopAll, bootVars
<1>7. CASE \/ \E c \in Client : WaitExit(c)
           \/ \E c \in Client, n \in Name :
                \/ \E wait \in BOOLEAN : ClientStart(c, n, wait)
                \/ ClientStop(c, n) \/ ClientRestart(c, n)
  BY Zenon, <1>3, <1>7 DEF WaitExit, ClientStart, ClientStop, ClientRestart, bootVars
<1>8. CASE UNCHANGED vars
  BY Zenon, <1>3, <1>8 DEF vars, bootVars
<1> QED BY <1>4, <1>5, <1>6, <1>7, <1>8 DEF Next

(* The layers are made of the names of the configuration.                  *)
LEMMA OrderedLayers ==
  ASSUME services \in Seq(Process), layers \in Seq(SUBSET Names), LayersInOrder
  PROVE  LayersOK
<1>1. \A i \in DOMAIN services : services[i] \in Process
  OBVIOUS
<1>2. \A i \in DOMAIN services : services[i].name \in Name
  BY Zenon, <1>1 DEF Process
<1>3. Names \subseteq Name
  BY Zenon, <1>2 DEF Names
<1> QED BY <1>3 DEF LayersOK

(* What OrderProofs has proved.                                            *)
Ordering == INSTANCE OrderProofs

(* Numbers can be gone through one by one.                                 *)
LEMMA Inducts == Induction
BY Zenon, Ordering!UpTo DEF Induction

(* run() orders the services as OrderSpec says, so what OrderProofs has    *)
(* proved of TopoSort and TopoLayers holds of startup.                     *)
THEOREM BootOrders == Spec => OrderSpec
<1>1. Init => OrderInit /\ FileThere
  BY Zenon DEF Init, FileThere
<1>2. FileThere /\ [Next]_vars => FileThere' /\ [Take \/ OrderNext]_orderVars
  BY Zenon, OrderStep, Inducts
<1> QED BY <1>1, <1>2, PTL DEF Spec, OrderSpec

(* The layers that boot goes through.                                      *)
LEMMA LayersAreOK == Spec => []LayersOK
<1>1. OrderInit => Ordering!OrderInit
  BY DEF OrderInit, Ordering!OrderInit
<1>2. [Take \/ OrderNext]_orderVars => [Ordering!Take \/ Ordering!OrderNext]_Ordering!orderVars
  <2> USE DEF Names, Ordering!Names, Edges, Ordering!Edges, Preds, Ordering!Preds
  <2> \A S : Cardinality(S) = Ordering!Cardinality(S)
    BY DEF Cardinality, Ordering!Cardinality
  <2>1. Take => Ordering!Take
    BY Zenon DEF Take, Ordering!Take, Process, Ordering!Process
  <2>2. BuildEdges => Ordering!BuildEdges
    BY Zenon DEF BuildEdges, Ordering!BuildEdges, Duplicate, Ordering!Duplicate, Unknown, Ordering!Unknown
  <2>3. (Seed => Ordering!Seed) /\ (SeedDone => Ordering!SeedDone)
    BY Zenon DEF Seed, Ordering!Seed, SeedDone, Ordering!SeedDone
  <2>4. Dequeue => Ordering!Dequeue
    BY Zenon DEF Dequeue, Ordering!Dequeue, Succs, Ordering!Succs
  <2>5. Relax => Ordering!Relax
    BY Zenon DEF Relax, Ordering!Relax, Visit, Ordering!Visit
  <2>6. SortDone => Ordering!SortDone
    BY Zenon DEF SortDone, Ordering!SortDone, Report, Ordering!Report
  <2>7. CutLayer => Ordering!CutLayer
    BY Zenon DEF CutLayer, Ordering!CutLayer, Emitted, Ordering!Emitted, Layer, Ordering!Layer,
         Drain, Ordering!Drain
  <2>8. CutDone => Ordering!CutDone
    BY Zenon DEF CutDone, Ordering!CutDone, Emitted, Ordering!Emitted
  <2> QED
    BY Zenon, <2>1, <2>2, <2>3, <2>4, <2>5, <2>6, <2>7, <2>8
    DEF OrderNext, Ordering!OrderNext, orderVars, Ordering!orderVars
<1>3. ASSUME Ordering!OrderInv, Ordering!LayersInOrder PROVE LayersOK
  <2>1. services \in Seq(Process) /\ layers \in Seq(SUBSET Names)
    BY Zenon, <1>3 DEF Ordering!OrderInv, Ordering!Shape, Ordering!Process, Process, Ordering!Names, Names
  <2>2. LayersInOrder
    BY <1>3 DEF LayersInOrder, Ordering!LayersInOrder, Names, Ordering!Names, Edges, Ordering!Edges,
         Preds, Ordering!Preds
  <2> QED BY Zenon, <2>1, <2>2, OrderedLayers
<1>4. OrderSpec => Ordering!OrderSpec
  BY <1>1, <1>2, PTL DEF OrderSpec, Ordering!OrderSpec
<1> QED BY <1>3, <1>4, BootOrders, Ordering!OrderCorrect, Ordering!LayersAreInOrder, PTL

-----------------------------------------------------------------------------
(* The results                                                             *)

(* The invariant holds throughout.                                         *)
THEOREM BootCorrect == Spec => []BootInv
BY InitInv, InvStep, LayersAreOK, PTL DEF Spec

(* What the two gates in a file promise holds of every file: turning a     *)
(* schedule on adds no error, and excluding a process leaves the others in *)
(* the order and with the checks that they had.                            *)
THEOREM GatesAreHarmless == Spec => []GatesAreSafe
<1>1. Init => FileThere
  BY Zenon DEF Init, FileThere
<1>2. FileThere /\ [Next]_vars => FileThere'
  BY Zenon, OrderStep, Inducts
<1>3. FileThere => GatesAreSafe
  BY Zenon, GatesOfFile, Inducts
<1> QED BY <1>1, <1>2, <1>3, PTL DEF Spec

(* A startup oneshot that fails takes the program down only when the       *)
(* others of its layer have exited or been killed.                         *)
THEOREM NoStragglers == Spec => []FatalSettles
<1>1. BootInv => FatalSettles
  BY Zenon DEF BootInv
<1> QED BY <1>1, BootCorrect, PTL

(* The reap loop is handed runs it knows: every startup oneshot has been   *)
(* collected, and every run of a service is the one its entry names.       *)
THEOREM NothingIsLost == Spec => []HandoffTracked
BY HandoffKnown, BootCorrect, PTL

(* Boot forks a oneshot or a service only when all that it depends on is   *)
(* settled: a oneshot collected with success, a service started and, with  *)
(* sd_notify, ready, or skipped by its condition.                          *)
THEOREM DependenciesComeFirst == Spec => DependenciesFirst
BY ForkStep, BootCorrect, LayersAreOK, PTL DEF Spec, DependenciesFirst, ForkedInOrder
=============================================================================
