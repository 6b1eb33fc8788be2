----------------------------- MODULE ProcessGroup -----------------------------
(***************************************************************************)
(* The process groups of one service: its leader and one more member per   *)
(* group, Stop with its deferred SIGKILL, MarkExited, the log-capture      *)
(* pipes, and stopSequential with WaitGroupExit at shutdown.               *)
(*                                                                         *)
(* A run is named by its pid, which is its pgid (Setsid).  Pids are not    *)
(* reused.  kill-delay is positive and log-capture is on.  Time is left    *)
(* out: a timer fires at any moment after it is set; only the deadline of  *)
(* WaitGroupExit, half a second after the timer's, is never early.         *)
(***************************************************************************)
EXTENDS FiniteSets

CONSTANTS
  Pid,          \* one per run
  None

ASSUME PidAssumption == None \notin Pid /\ IsFiniteSet(Pid)

VARIABLES
  leader,       \* by run: "none", "alive" or "zombie"
  member,       \* by run: a process of the group that is not the leader
  used,         \* the pids there have been
  pid,          \* svc.Pid and running: the tracked run, or None
  reaped,       \* the run Wait4 returned whose MarkExited is to come, or None
  timer,        \* the pgid of the armed killTimer, or None
  firing,       \* timer callbacks that wait for s.mu
  killPgid,
  open,         \* runs whose capture read ends are open
  releasing,    \* runs whose captureDrainGrace is running
  shut,         \* shutdown: "off", "done", "group" or "exited"
  shutRun,      \* the run stopSequential stopped
  wanted,       \* history: runs Stop was called for
  killed        \* history: groups a SIGKILL was sent to

procs == <<leader, member, used>>
kill == <<timer, firing, killPgid>>
pipes == <<open, releasing>>
vars == <<procs, pid, reaped, kill, pipes, shut, shutRun, wanted, killed>>

State == {"none", "alive", "zombie"}

TypeOK ==
  /\ leader \in [Pid -> State] /\ member \in [Pid -> State] /\ used \subseteq Pid
  /\ pid \in Pid \cup {None} /\ reaped \in Pid \cup {None}
  /\ timer \in Pid \cup {None} /\ firing \subseteq Pid /\ killPgid \in Pid \cup {None}
  /\ open \subseteq Pid /\ releasing \subseteq Pid
  /\ shut \in {"off", "done", "group", "exited"} /\ shutRun \in Pid \cup {None}
  /\ wanted \subseteq Pid /\ killed \subseteq Pid

Init ==
  /\ leader = [p \in Pid |-> "none"] /\ member = [p \in Pid |-> "none"] /\ used = {}
  /\ pid = None /\ reaped = None
  /\ timer = None /\ firing = {} /\ killPgid = None
  /\ open = {} /\ releasing = {}
  /\ shut = "off" /\ shutRun = None
  /\ wanted = {} /\ killed = {}

Alive(p) == leader[p] = "alive" \/ member[p] = "alive"
(* kill(-p, 0) succeeds: a zombie still keeps its group.                   *)
Probe(p) == leader[p] # "none" \/ member[p] # "none"

-----------------------------------------------------------------------------
(* The processes and the kernel                                            *)

ForkMember(p) ==
  /\ leader[p] = "alive" /\ member[p] = "none"
  /\ member' = [member EXCEPT ![p] = "alive"]
  /\ UNCHANGED <<leader, used, pid, reaped, kill, pipes, shut, shutRun, wanted, killed>>

LeaderExit(p) ==
  /\ leader[p] = "alive"
  /\ leader' = [leader EXCEPT ![p] = "zombie"]
  /\ UNCHANGED <<member, used, pid, reaped, kill, pipes, shut, shutRun, wanted, killed>>

MemberExit(p) ==
  /\ member[p] = "alive"
  /\ member' = [member EXCEPT ![p] = "zombie"]
  /\ UNCHANGED <<leader, used, pid, reaped, kill, pipes, shut, shutRun, wanted, killed>>

(* A member's zombie goes to its parent or to the reap loop, which has     *)
(* nothing to do for it.                                                   *)
ReapMember(p) ==
  /\ member[p] = "zombie"
  /\ member' = [member EXCEPT ![p] = "none"]
  /\ UNCHANGED <<leader, used, pid, reaped, kill, pipes, shut, shutRun, wanted, killed>>

(* The reap loop's Wait4 returns the leader.                               *)
Wait4(p) ==
  /\ leader[p] = "zombie" /\ reaped = None
  /\ leader' = [leader EXCEPT ![p] = "none"]
  /\ reaped' = p
  /\ UNCHANGED <<member, used, pid, kill, pipes, shut, shutRun, wanted, killed>>

-----------------------------------------------------------------------------
(* service.go                                                              *)

(* FinishStart, once startService found the service down and no shutdown.  *)
KeepTimerMut == timer' = None  \* a restart cancels the escalation
KeepTimer == UNCHANGED timer

FinishStart(p) ==
  /\ shut = "off" /\ pid = None /\ p \notin used
  /\ leader' = [leader EXCEPT ![p] = "alive"]
  /\ used' = used \cup {p}
  /\ pid' = p
  /\ open' = open \cup {p}
  /\ KeepTimer
  /\ UNCHANGED <<member, reaped, firing, killPgid, releasing, shut, shutRun, wanted, killed>>

(* Stop of a running service: the stop signal, which a process may heed    *)
(* (LeaderExit, MemberExit) or ignore, and the timer.  time.Timer.Stop     *)
(* does not recall a callback that has begun.                              *)
ArmTimer(p) == timer' = p /\ killPgid' = p

Stop ==
  /\ ArmTimer(pid)
  /\ wanted' = wanted \cup {pid}
  /\ UNCHANGED <<firing, killed>>

(* StopFn or the restart paths call Stop.                                  *)
StopService ==
  /\ shut # "exited" /\ pid # None
  /\ Stop
  /\ UNCHANGED <<procs, pid, reaped, pipes, shut, shutRun>>

KillTimer ==
  /\ timer # None /\ shut # "exited"
  /\ firing' = firing \cup {timer}
  /\ timer' = None
  /\ UNCHANGED <<procs, pid, reaped, killPgid, pipes, shut, shutRun, wanted, killed>>

SigKill(p) ==
  /\ leader' = [leader EXCEPT ![p] = IF @ = "alive" THEN "zombie" ELSE @]
  /\ member' = [member EXCEPT ![p] = IF @ = "alive" THEN "zombie" ELSE @]
  /\ killed' = killed \cup {p}

(* The group the callback for p kills: the captured kpid.                  *)
KillTargetMut(p) == pid  \* s.Pid when the timer fires
KillTarget(p) == p

KillCallback(p) ==
  LET k == KillTarget(p)
      hit == k # None /\ Probe(k) IN
  /\ p \in firing /\ shut # "exited"
  /\ firing' = firing \ {p}
  /\ \/ hit /\ SigKill(k) /\ UNCHANGED used
     \/ ~hit /\ UNCHANGED <<procs, killed>>
  /\ UNCHANGED <<pid, reaped, timer, killPgid, pipes, shut, shutRun, wanted>>

ReleaseCaptureMut(p) == UNCHANGED releasing  \* left to EOF
ReleaseCapture(p) == releasing' = releasing \cup (open \cap {p})

(* The states in which stopSequential holds d.mu while it waits.           *)
HeldMut == {"done"}  \* no Unlock before <-done
Held == {}

(* The reap loop takes d.mu and calls MarkExited, which leaves the timer.  *)
MarkExited ==
  /\ reaped # None /\ shut \notin Held
  /\ pid' = None /\ reaped' = None
  /\ ReleaseCapture(reaped)
  /\ UNCHANGED <<procs, kill, open, shut, shutRun, wanted, killed>>

(* releaseCapture's callback closes the read ends.                         *)
DrainGrace(p) ==
  /\ p \in releasing
  /\ open' = open \ {p} /\ releasing' = releasing \ {p}
  /\ UNCHANGED <<procs, pid, reaped, kill, shut, shutRun, wanted, killed>>

(* copyCapture sees EOF: no process holds the write ends any more.         *)
CopyCapture(p) ==
  /\ p \in open /\ ~Alive(p)
  /\ open' = open \ {p}
  /\ UNCHANGED <<procs, pid, reaped, kill, releasing, shut, shutRun, wanted, killed>>

-----------------------------------------------------------------------------
(* initiateShutdown                                                        *)

Shutdown ==
  /\ shut = "off"
  /\ \/ pid = None /\ shut' = "exited" /\ UNCHANGED <<shutRun, kill, wanted, killed>>
     \/ pid # None /\ Stop /\ shut' = "done" /\ shutRun' = pid
  /\ UNCHANGED <<procs, pid, reaped, pipes>>

(* done is closed by the run's MarkExited.                                 *)
AwaitDone ==
  /\ shut = "done" /\ pid # shutRun
  /\ shut' = "group"
  /\ UNCHANGED <<procs, pid, reaped, kill, pipes, shutRun, wanted, killed>>

(* One round of WaitGroupExit: Wait4(-pgid) until nothing is left, probe,  *)
(* and the deadline, by which the callback has run.                        *)
DeadlineMut == TRUE  \* no grace after the timer's own deadline
Deadline == timer # killPgid /\ killPgid \notin firing

WaitGroupExit ==
  /\ shut = "group"
  /\ LET g == killPgid
         m == [member EXCEPT ![g] = IF @ = "zombie" THEN "none" ELSE @] IN
       /\ member' = m
       /\ shut' = IF (leader[g] = "none" /\ m[g] = "none") \/ Deadline THEN "exited" ELSE "group"
  /\ UNCHANGED <<leader, used, pid, reaped, kill, pipes, shutRun, wanted, killed>>

Timers(p) == KillCallback(p) \/ DrainGrace(p)
Next ==
  \/ \E p \in Pid :
       \/ ForkMember(p) \/ LeaderExit(p) \/ MemberExit(p) \/ ReapMember(p) \/ Wait4(p)
       \/ FinishStart(p) \/ Timers(p) \/ CopyCapture(p)
  \/ StopService \/ KillTimer \/ MarkExited
  \/ Shutdown \/ AwaitDone \/ WaitGroupExit

Spec == Init /\ [][Next]_vars

(* The runtime runs due timers and the reap loop keeps reaping; the        *)
(* processes and the operator owe nothing.                                 *)
Fairness ==
  /\ WF_vars(KillTimer) /\ WF_vars(MarkExited) /\ WF_vars(AwaitDone) /\ WF_vars(WaitGroupExit)
  /\ \A p \in Pid : WF_vars(KillCallback(p)) /\ WF_vars(DrainGrace(p)) /\ WF_vars(Wait4(p))
FairSpec == Spec /\ Fairness

-----------------------------------------------------------------------------
(* The deferred SIGKILL never hits a run that was not stopped: a restart   *)
(* within kill-delay of a Stop is safe, because the callback kills the     *)
(* group it captured and not the service's current one.                    *)
SigKillHitsStoppedRunsOnly == killed \subseteq wanted

(* When gopherd exits, no process is left of a group that the shutdown     *)
(* itself stopped, the members that outlived their leader included:        *)
(* WaitGroupExit does not give up before the escalation.                   *)
ShutdownKillsGroup == shut = "exited" /\ shutRun # None => ~Alive(shutRun)

(* A stopped group dies, whatever it ignores and although its leader may   *)
(* be long reaped, unless a later run is stopped before kill-delay is over *)
(* or gopherd exits.                                                       *)
EscalationReachesGroup ==
  \A p \in Pid : p \in wanted ~> ~Alive(p) \/ killPgid # p \/ shut = "exited"

(* stopAll is bounded: shutdown ends although every process may ignore the *)
(* stop signal.                                                            *)
ShutdownIsBounded == shut = "done" ~> shut = "exited"

(* The capture pipes of a run that ended are closed, although a survivor   *)
(* of its group may hold the write ends for ever.                          *)
PipesAreReleased == \A p \in Pid : p \in open /\ pid # p ~> p \notin open

-----------------------------------------------------------------------------
(* The inductive invariants                                                *)

(* Every escalation, pending, firing or done, is of a stopped run.         *)
EscalationOfStopped ==
  /\ timer # None => timer \in wanted
  /\ firing \subseteq wanted
  /\ SigKillHitsStoppedRunsOnly

(* From the moment shutdown stopped its run until the end, the run is the  *)
(* one killPgid names, and it is dead or its escalation is still to come.  *)
ShutdownEscalates ==
  shutRun # None =>
    /\ shut # "off" /\ shutRun \in used /\ killPgid = shutRun /\ pid \in {shutRun, None}
    /\ shut # "exited" => timer = shutRun \/ shutRun \in firing \/ ~Alive(shutRun)
    /\ shut = "exited" => ~Alive(shutRun)

IInv ==
  /\ EscalationOfStopped /\ ShutdownEscalates
  /\ pid # None => pid \in used
  /\ shut \in {"done", "group"} => shutRun # None

=============================================================================
