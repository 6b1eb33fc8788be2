---------------------------- MODULE ReloadProofs ----------------------------
(***************************************************************************)
(* For every set of files and names, and any number of reloads, commands   *)
(* and exits: the four invariants of hot reload.                           *)
(*                                                                         *)
(* What happens to one object in one step is Moves: it is forked, which    *)
(* startService does for the current object only, or it goes on, stops or  *)
(* ends.  The critical section of reload() aside, d.services stays.  Who   *)
(* waits for a run, or is about to start an object, is a Holder.           *)
(***************************************************************************)
EXTENDS Reload, TLAPS

Obj == [pid : {"none", "up", "dead"}, stopped : BOOLEAN, failed : BOOLEAN, runs : Nat, down : BOOLEAN]

(* The processes are what their names say.                                 *)
TypeOK == obj \in [Object -> Obj]

(* A run that nobody told to stop, in a state f of the objects.            *)
Live(f, o) == f[o].pid # "none" /\ ~f[o].stopped

(* A step of object o: a new run of the current object, or the same run,   *)
(* which may end or be told to stop but not revive.                        *)
Moves(o) ==
  \/ Current(o) /\ obj'[o].runs > obj[o].runs
  \/ /\ obj'[o].runs = obj[o].runs
     /\ obj'[o].pid # "none" => obj[o].pid # "none"
     /\ obj[o].stopped => obj'[o].stopped

Moved == obj' \in [Object -> Obj] /\ \A o \in Object : Moves(o)

-----------------------------------------------------------------------------
(* What the operations do to the objects                                   *)

(* Stop() marks a run, or does nothing.                                    *)
LEMMA StopIfRunningIs ==
  ASSUME TypeOK, NEW o \in Object
  PROVE  /\ StopIfRunning(o) \in Obj
         /\ StopIfRunning(o).pid = obj[o].pid /\ StopIfRunning(o).runs = obj[o].runs
         /\ StopIfRunning(o).down = obj[o].down
         /\ StopIfRunning(o).pid # "none" => StopIfRunning(o).stopped
         /\ obj[o].stopped => StopIfRunning(o).stopped
         /\ StopIfRunning(o).pid = "none" => StopIfRunning(o) = obj[o]
<1>1. obj[o] \in Obj
  BY Zenon DEF TypeOK
<1>2. CASE Running(o)
  BY Zenon, <1>1, <1>2 DEF StopIfRunning, Running, Obj
<1>3. CASE ~Running(o)
  BY Zenon, <1>1, <1>3 DEF StopIfRunning, Running, Obj
<1> QED
  BY Zenon, <1>2, <1>3

(* The four outcomes of startService, for the object o and for the others. *)
LEMMA StartIs ==
  ASSUME TypeOK, NEW o, NEW a, startService(o, a)
  PROVE  /\ Moved
         /\ \A x \in Object : x # o => obj'[x] = obj[x]
         /\ o \in Object =>
              \/ Checked(o) = "ok" /\ obj'[o].pid = "up" /\ ~obj'[o].stopped
              \/ /\ obj'[o].pid = obj[o].pid /\ obj'[o].stopped = obj[o].stopped
                 /\ obj'[o].runs = obj[o].runs
                 /\ obj'[o].down \/ (obj'[o] = obj[o] /\ (Running(o) \/ Checked(o) \in {"down", "replaced"}))
<1> USE DEF Obj
<1>1. obj \in [Object -> Obj]
  BY Zenon DEF TypeOK
<1>2. CASE obj' = [obj EXCEPT ![o].down = @ \/ ~Running(o)]
  <2>1. obj' \in [Object -> Obj]
    <3>1. \A x \in Obj, b \in BOOLEAN : [x EXCEPT !.down = b] \in Obj
      BY Zenon
    <3>2. \A x \in Obj : (x.down \/ ~Running(o)) \in BOOLEAN
      BY Zenon
    <3> HIDE DEF Obj
    <3> QED
      BY Zenon, <1>1, <1>2, <3>1, <3>2
  <2>2. \A x \in Object : /\ obj'[x].pid = obj[x].pid /\ obj'[x].stopped = obj[x].stopped
                          /\ obj'[x].runs = obj[x].runs /\ (x # o => obj'[x] = obj[x])
    BY Zenon, <1>1, <1>2
  <2>3. o \in Object => obj'[o].down \/ (obj'[o] = obj[o] /\ Running(o))
    BY Zenon, <1>1, <1>2
  <2> QED
    BY Zenon, <2>1, <2>2, <2>3 DEF Moved, Moves
<1>3. CASE Checked(o) = "ok" /\ obj' = [obj EXCEPT ![o] = Fork(o)]
  <2>1. Current(o)
    BY Zenon, <1>3 DEF Checked
  <2>2. o \in Object => Fork(o) \in Obj /\ Fork(o).runs > obj[o].runs /\ Fork(o).pid = "up" /\ ~Fork(o).stopped
    <3> SUFFICES ASSUME o \in Object
                 PROVE  Fork(o) \in Obj /\ Fork(o).runs > obj[o].runs /\ Fork(o).pid = "up" /\ ~Fork(o).stopped
      BY Zenon
    <3>1. obj[o] \in Obj /\ obj[o].runs + 1 \in Nat /\ obj[o].runs + 1 > obj[o].runs
      BY <1>1
    <3> QED
      BY Zenon, <3>1 DEF Fork
  <2>3. obj' \in [Object -> Obj]
    BY Zenon, <1>1, <1>3, <2>2
  <2>4. \A x \in Object : x # o => obj'[x] = obj[x]
    BY Zenon, <1>1, <1>3
  <2>5. o \in Object => obj'[o] = Fork(o)
    BY Zenon, <1>1, <1>3
  <2> QED
    BY Zenon, <1>3, <2>1, <2>2, <2>3, <2>4, <2>5 DEF Moved, Moves
<1>4. CASE a # "ok" /\ Checked(o) = a /\ UNCHANGED obj
  <2>1. Running(o) \/ Checked(o) \in {"down", "replaced"}
    BY Zenon, <1>4 DEF Checked
  <2> QED
    BY Zenon, <1>1, <1>4, <2>1 DEF Moved, Moves
<1> QED
  BY Zenon, <1>2, <1>3, <1>4 DEF startService

(* A step that leaves the processes alone moves nothing.                   *)
LEMMA SameMoves ==
  ASSUME TypeOK, UNCHANGED obj
  PROVE  Moved
BY Zenon DEF TypeOK, Moved, Moves, Obj

(* Stopping one object, and noting why, moves it.                          *)
LEMMA StopMoves ==
  ASSUME TypeOK, NEW o,
         \/ obj' = [obj EXCEPT ![o] = StopIfRunning(o)]
         \/ obj' = [obj EXCEPT ![o] = [StopIfRunning(o) EXCEPT !.down = @ \/ Running(o)]]
  PROVE  Moved
<1>1. obj \in [Object -> Obj]
  BY Zenon DEF TypeOK
<1> DEFINE s == [StopIfRunning(o) EXCEPT !.down = @ \/ Running(o)]
<1>2. o \in Object => /\ StopIfRunning(o) \in Obj /\ StopIfRunning(o).pid = obj[o].pid
                      /\ StopIfRunning(o).runs = obj[o].runs
                      /\ obj[o].stopped => StopIfRunning(o).stopped
  BY Zenon, StopIfRunningIs
<1>3. o \in Object => /\ s \in Obj /\ s.pid = obj[o].pid /\ s.runs = obj[o].runs
                      /\ obj[o].stopped => s.stopped
  BY Zenon, <1>2 DEF Obj
<1>4. ASSUME NEW t, obj' = [obj EXCEPT ![o] = t],
             o \in Object => t \in Obj /\ t.pid = obj[o].pid /\ t.runs = obj[o].runs
                             /\ (obj[o].stopped => t.stopped)
      PROVE  Moved
  <2>1. obj' \in [Object -> Obj]
    BY Zenon, <1>1, <1>4
  <2>2. \A x \in Object : Moves(x)
    BY Zenon, <1>1, <1>4 DEF Moves
  <2> QED
    BY Zenon, <2>1, <2>2 DEF Moved
<1> QED
  BY Zenon, <1>2, <1>3, <1>4

(* The critical section of reload() forks nothing.                         *)
LEMMA ReloadMoves ==
  ASSUME TypeOK, ReloadApplies
  PROVE  Moved
<1> DEFINE hit(o) == Current(o) /\ ~(o[1] \in Names(rl.new) /\ Preserved(o[1]))
<1>1. obj' = [o \in Object |-> IF hit(o) THEN StopIfRunning(o) ELSE obj[o]]
  BY Zenon DEF ReloadApplies
<1>2. \A o \in Object : obj[o] \in Obj
  BY Zenon DEF TypeOK
<1> HIDE DEF hit
<1>3. \A o \in Object : obj'[o] \in Obj /\ Moves(o)
  <2> TAKE o \in Object
  <2>1. obj'[o] = StopIfRunning(o) \/ obj'[o] = obj[o]
    BY Zenon, <1>1
  <2> QED
    BY Zenon, <1>2, <2>1, StopIfRunningIs DEF Moves
<1> QED
  BY Zenon, <1>1, <1>3 DEF Moved

(* What the reap loop does at an exit: the run is over, and a cascade      *)
(* stops others.                                                           *)
LEMMA ReapIs ==
  ASSUME TypeOK, NEW o \in Object, Reap(o)
  PROVE  /\ Moved
         /\ obj'[o].pid = "none"
         /\ obj'[o].down = (obj[o].down \/ (~obj[o].stopped /\ ExitAction(o) # "restart"))
         /\ \A p \in Object : p # o => obj'[p].down \/ obj'[p] = obj[p]
<1> DEFINE reaped == [obj[o] EXCEPT !.pid = "none", !.failed = FALSE,
                        !.down = @ \/ (~obj[o].stopped /\ ExitAction(o) # "restart")]
           cascade(p) == [StopIfRunning(p) EXCEPT !.down = TRUE]
           hit(p) == Cascades(o) /\ Current(p) /\ Running(p) /\ o[1] \in conf[p].proc.requires
<1>1. obj' = [p \in Object |-> IF p = o THEN reaped ELSE IF hit(p) THEN cascade(p) ELSE obj[p]]
  BY Zenon DEF Reap
<1>2. \A p \in Object : obj[p] \in Obj
  BY Zenon DEF TypeOK
<1>3. /\ reaped \in Obj /\ reaped.pid = "none" /\ reaped.runs = obj[o].runs /\ reaped.stopped = obj[o].stopped
      /\ reaped.down = (obj[o].down \/ (~obj[o].stopped /\ ExitAction(o) # "restart"))
  BY Zenon, <1>2 DEF Obj
<1>4. ASSUME NEW p \in Object
      PROVE  /\ cascade(p) \in Obj /\ cascade(p).pid = obj[p].pid /\ cascade(p).runs = obj[p].runs
             /\ (obj[p].stopped => cascade(p).stopped) /\ cascade(p).down
  <2>1. /\ StopIfRunning(p) \in Obj
        /\ StopIfRunning(p).pid = obj[p].pid /\ StopIfRunning(p).runs = obj[p].runs
        /\ obj[p].stopped => StopIfRunning(p).stopped
    BY Zenon, StopIfRunningIs
  <2>2. \A x \in Obj : LET y == [x EXCEPT !.down = TRUE]
                      IN  y \in Obj /\ y.pid = x.pid /\ y.runs = x.runs /\ y.stopped = x.stopped /\ y.down
    BY Zenon DEF Obj
  <2> QED
    BY Zenon, <2>1, <2>2
<1> HIDE DEF reaped, cascade, hit
<1>5. obj'[o] = reaped
  BY Zenon, <1>1
<1>6. \A p \in Object : p # o => obj'[p] = cascade(p) \/ obj'[p] = obj[p]
  BY Zenon, <1>1
<1>7. \A p \in Object : obj'[p] \in Obj
  BY Zenon, <1>2, <1>3, <1>4, <1>5, <1>6
<1>8. \A p \in Object : Moves(p)
  BY <1>2, <1>3, <1>4, <1>5, <1>6 DEF Moves
<1>9. obj' \in [Object -> Obj]
  BY Zenon, <1>1, <1>7
<1> QED
  BY Zenon, <1>3, <1>4, <1>5, <1>6, <1>8, <1>9 DEF Moved

(* Every step of the daemon, of its clients and of the processes moves the *)
(* objects so, and no step but ReloadApplies touches what d.mu guards of   *)
(* the configuration.                                                      *)
Settled == UNCHANGED <<cfg, services, conf, gen, shutdownSeq>>

LEMMA NextMoves ==
  ASSUME TypeOK, [Next]_vars
  PROVE  Moved /\ (ReloadApplies \/ Settled)
<1> USE DEF confVars, goVars, endVars, Settled
<1>1. CASE ReloadReads \/ ReloadRefused \/ ReloadWaits \/ ReloadFinishes
  BY Zenon, <1>1, SameMoves DEF ReloadReads, ReloadRefused, ReloadWaits, ReloadFinishes
<1>2. CASE ReloadApplies
  BY Zenon, <1>2, ReloadMoves
<1>3. CASE ReloadStarts
  BY Zenon, <1>3, StartIs DEF ReloadStarts
<1>4. CASE SigHup \/ ReloadFn \/ SigTerm \/ Quit
  BY Zenon, <1>4, SameMoves DEF SigHup, ReloadFn, SigTerm, Quit
<1>5. CASE StopAll
  <2>1. obj' = [o \in Object |-> IF Current(o) THEN StopIfRunning(o) ELSE obj[o]]
    BY Zenon, <1>5 DEF StopAll
  <2>2. \A o \in Object : obj'[o] \in Obj /\ Moves(o)
    <3> TAKE o \in Object
    <3>1. obj'[o] = StopIfRunning(o) \/ obj'[o] = obj[o]
      BY Zenon, <2>1
    <3> QED
      BY Zenon, <3>1, StopIfRunningIs DEF TypeOK, Moves
  <2> QED
    BY Zenon, <1>5, <2>1, <2>2 DEF StopAll, Moved
<1>6. ASSUME NEW o \in Object, ProcessExits(o) PROVE Moved /\ Settled
  <2>1. PICK bad \in BOOLEAN : obj' = [obj EXCEPT ![o].pid = "dead", ![o].failed = bad]
    BY Zenon, <1>6 DEF ProcessExits
  <2>2. obj' \in [Object -> Obj]
    <3>1. \A x \in Obj : [x EXCEPT !.pid = "dead", !.failed = bad] \in Obj
      BY Zenon DEF Obj
    <3> QED
      BY Zenon, <2>1, <3>1 DEF TypeOK
  <2>3. obj[o].pid # "none"
    BY Zenon, <1>6 DEF ProcessExits
  <2>4. \A x \in Object : Moves(x)
    BY Zenon, <2>1, <2>3 DEF TypeOK, Obj, Moves
  <2> QED
    BY Zenon, <1>6, <2>2, <2>4 DEF Moved, ProcessExits
<1>7. ASSUME NEW o \in Object, Reap(o) PROVE Moved /\ Settled
  BY Zenon, <1>7, ReapIs DEF Reap
<1>8. ASSUME NEW o \in Object, Tick(o) PROVE Moved /\ Settled
  BY Zenon, <1>8, SameMoves DEF Tick
<1>9. ASSUME NEW o \in Object, startScheduledRun(o) PROVE Moved /\ Settled
  BY Zenon, <1>9, StartIs DEF startScheduledRun
<1>10. ASSUME NEW r \in reqs, handleRestartReq(r) PROVE Moved /\ Settled
  BY Zenon, <1>10, StartIs, SameMoves DEF handleRestartReq
<1>11. ASSUME NEW t \in timers, Overstays(t) PROVE Moved /\ Settled
  BY Zenon, <1>11, StopMoves, SameMoves DEF Overstays
<1>12. ASSUME NEW c \in Client, StartFn(c) PROVE Moved /\ Settled
  BY Zenon, <1>12, StartIs DEF StartFn
<1>13. ASSUME NEW c \in Client, StopFn(c) PROVE Moved /\ Settled
  BY ZenonT(30), <1>13, StopMoves DEF StopFn
<1>14. ASSUME NEW c \in Client, NEW n \in Name, LooksUp(c, n, "start") \/ LooksUp(c, n, "stop")
       PROVE  Moved /\ Settled
  BY Zenon, <1>14, SameMoves DEF LooksUp
<1>15. ASSUME NEW c \in Client, NEW n \in Name, RestartFn(c, n) PROVE Moved /\ Settled
  <2>1. UNCHANGED obj \/ obj' = [obj EXCEPT ![Serving(n)] = StopIfRunning(Serving(n))]
    BY Zenon, <1>15 DEF RestartFn
  <2> QED
    BY Zenon, <1>15, <2>1, StopMoves, SameMoves DEF RestartFn
<1>16. ASSUME NEW c \in Client, RestartStops(c) PROVE Moved /\ Settled
  <2>1. UNCHANGED obj \/ obj' = [obj EXCEPT ![Head(th[c].stops)] = StopIfRunning(Head(th[c].stops))]
    BY Zenon, <1>16 DEF RestartStops
  <2> QED
    BY Zenon, <1>16, <2>1, StopMoves, SameMoves DEF RestartStops
<1>17. ASSUME NEW c \in Client, RestartWaits(c) \/ RestartReady(c) PROVE Moved /\ Settled
  BY Zenon, <1>17, SameMoves DEF RestartWaits, RestartReady
<1>18. ASSUME NEW c \in Client, RestartStarts(c) PROVE Moved /\ Settled
  <2>1. CASE obj' = GivesUp(c, obj)
    <3>1. \A o \in Object : obj[o] \in Obj /\ [obj[o] EXCEPT !.down = @ \/ obj[o].pid = "none"] \in Obj
      BY Zenon DEF TypeOK, Obj
    <3>2. obj' \in [Object -> Obj]
      BY Zenon, <2>1, <3>1 DEF GivesUp
    <3>3. \A o \in Object : obj'[o] = obj[o] \/ obj'[o] = [obj[o] EXCEPT !.down = @ \/ obj[o].pid = "none"]
      BY Zenon, <2>1 DEF GivesUp
    <3>4. \A o \in Object : Moves(o)
      <4>1. \A x \in Obj, b \in BOOLEAN : LET y == [x EXCEPT !.down = b]
                                           IN  y.pid = x.pid /\ y.runs = x.runs /\ y.stopped = x.stopped
        BY Zenon DEF Obj
      <4>2. \A o \in Object : obj'[o].pid = obj[o].pid /\ obj'[o].runs = obj[o].runs /\ obj'[o].stopped = obj[o].stopped
        <5> TAKE o \in Object
        <5>1. obj[o] \in Obj /\ (obj[o].down \/ obj[o].pid = "none") \in BOOLEAN
          BY Zenon DEF TypeOK, Obj
        <5>2. CASE obj'[o] = [obj[o] EXCEPT !.down = @ \/ obj[o].pid = "none"]
          BY Zenon, <4>1, <5>1, <5>2
        <5> QED
          BY Zenon, <3>3, <5>2
      <4> QED
        BY Zenon, <4>2 DEF Moves
    <3> QED
      BY Zenon, <1>18, <3>2, <3>4 DEF Moved, RestartStarts
  <2>2. CASE \E a \in Answers : startService(Head(th[c].starts), a)
    BY Zenon, <1>18, <2>2, StartIs DEF RestartStarts
  <2> QED
    BY Zenon, <1>18, <2>1, <2>2 DEF RestartStarts
<1>19. CASE UNCHANGED vars
  BY Zenon, <1>19, SameMoves DEF vars
<1> QED
  BY Zenon, <1>1, <1>2, <1>3, <1>4, <1>5, <1>6, <1>7, <1>8, <1>9, <1>10, <1>11, <1>12, <1>13, <1>14, <1>15,
     <1>16, <1>17, <1>18, <1>19
     DEF Next, Reloading, Restarting

-----------------------------------------------------------------------------
(* Which steps touch what                                                  *)

(* Only a reload, and the signal or command that begins one, changes the   *)
(* configuration or the state of a reload.                                 *)
LEMMA ReloadFrame ==
  ASSUME [Next]_vars
  PROVE  Reloading \/ SigHup \/ ReloadFn \/ UNCHANGED <<confVars, rl>>
BY ZenonT(30) DEF Next, Restarting, vars, SigTerm, Quit, StopAll, ProcessExits, Reap, Tick, startScheduledRun,
       handleRestartReq, Overstays, StartFn, StopFn, RestartStops, RestartWaits, RestartStarts, RestartReady,
       LooksUp, RestartFn

(* Restart requests come from the reap loop and the restart command, and   *)
(* go when they are handled.                                               *)
LEMMA ReqsFrame ==
  ASSUME [Next]_vars
  PROVE  \/ UNCHANGED reqs
         \/ \E o \in Object : Reap(o)
         \/ \E r \in reqs : handleRestartReq(r)
         \/ \E c \in Client, n \in Name : RestartFn(c, n)
BY ZenonT(30) DEF Next, Reloading, Restarting, vars, goVars, ReloadReads, ReloadRefused, ReloadApplies, ReloadWaits,
       ReloadStarts, ReloadFinishes, SigHup, ReloadFn, SigTerm, Quit, StopAll, ProcessExits, Tick,
       startScheduledRun, Overstays, StartFn, StopFn, RestartStops, RestartWaits, RestartStarts, RestartReady,
       LooksUp

(* A command moves by itself.                                              *)
Commands(c) ==
  \/ StartFn(c) \/ StopFn(c) \/ RestartStops(c) \/ RestartWaits(c) \/ RestartStarts(c) \/ RestartReady(c)
  \/ \E n \in Name : LooksUp(c, n, "start") \/ LooksUp(c, n, "stop") \/ RestartFn(c, n)

LEMMA CommandFrame ==
  ASSUME [Next]_vars
  PROVE  UNCHANGED th \/ \E c \in Client : Commands(c)
BY Zenon DEF Next, Reloading, Restarting, Commands, vars, ReloadReads, ReloadRefused, ReloadApplies, ReloadWaits,
       ReloadStarts, ReloadFinishes, SigHup, ReloadFn, SigTerm, Quit, StopAll, ProcessExits, Reap, Tick,
       startScheduledRun, handleRestartReq, Overstays

-----------------------------------------------------------------------------
(* Generations                                                             *)

ReloadFields == {"pc", "client", "new", "order", "wait", "start", "old"}

(* The reload under way: it has room for one more generation, works with a *)
(* file that loaded, and starts nothing before it has applied it.          *)
ReloadOK ==
  /\ DOMAIN rl = ReloadFields
  /\ rl.pc \in {"read", "lock"} => gen < MaxGen
  /\ rl.pc \in {"idle", "read", "lock"} => rl.start = <<>>
  /\ rl.pc = "lock" => \E f \in Files : rl.new = Loaded(f)

(* d.services holds objects that exist, and no others ran.                 *)
GenOK ==
  /\ services \in [Name -> Gen \cup {None}] /\ gen \in Gen
  /\ \A n \in Name : services[n] <= gen
  /\ \A o \in Object : o[2] > gen => obj[o].pid = "none"

(* reload() goes through its phases.                                       *)
LEMMA ReloadOKKept ==
  ASSUME ReloadOK, [Next]_vars
  PROVE  ReloadOK'
<1> USE DEF ReloadOK, ReloadFields, confVars
<1>1. ASSUME rl' = IdleReload PROVE ReloadOK'
  BY SMTT(30), <1>1 DEF IdleReload
<1>2. CASE ReloadReads
  BY Zenon, <1>1, <1>2 DEF ReloadReads
<1>3. CASE ReloadRefused \/ ReloadFinishes
  BY Zenon, <1>1, <1>3 DEF ReloadRefused, ReloadFinishes
<1>4. CASE ReloadApplies
  BY Zenon, <1>4 DEF ReloadApplies
<1>5. CASE ReloadWaits \/ ReloadStarts
  BY Zenon, <1>5 DEF ReloadWaits, ReloadStarts
<1>6. CASE SigHup \/ ReloadFn
  BY Zenon, <1>6 DEF SigHup, ReloadFn
<1>7. CASE UNCHANGED <<confVars, rl>>
  BY Zenon, <1>7
<1> QED
  BY Zenon, <1>2, <1>3, <1>4, <1>5, <1>6, <1>7, ReloadFrame DEF Reloading

(* A reload makes the next generation, and startService forks the current  *)
(* object only.                                                            *)
LEMMA GenOKKept ==
  ASSUME TypeOK, ReloadOK, GenOK, [Next]_vars
  PROVE  GenOK'
<1> USE ReloadAssumption DEF Gen, None
<1>1. Moved
  BY Zenon, NextMoves
<1>2. ASSUME NEW o \in Object, o[2] > gen PROVE obj'[o].pid = "none"
  <2>1. o[1] \in Name /\ services[o[1]] <= gen /\ o[2] \in Gen
    BY Zenon DEF GenOK, Object
  <2>2. ~Current(o)
    BY <1>2, <2>1 DEF Current, GenOK
  <2>3. obj[o].pid = "none"
    BY Zenon, <1>2 DEF GenOK
  <2> QED
    BY Zenon, <1>1, <2>2, <2>3 DEF Moved, Moves
<1>3. CASE ReloadApplies
  <2>1. gen' = gen + 1 /\ gen < MaxGen /\ gen \in Nat
    BY <1>3 DEF ReloadApplies, ReloadOK, GenOK
  <2>2. \A n \in Name : services'[n] \in {None, services[n], gen + 1} /\ services' = [m \in Name |-> services'[m]]
    BY Zenon, <1>3 DEF ReloadApplies
  <2>3. services' \in [Name -> Gen \cup {None}] /\ \A n \in Name : services'[n] <= gen'
    <3>1. \A n \in Name : services'[n] \in Gen \cup {None} /\ services'[n] <= gen'
      BY <2>1, <2>2 DEF GenOK
    <3> QED
      BY Zenon, <1>3, <3>1 DEF ReloadApplies
  <2>4. \A o \in Object : o[2] > gen' => o[2] > gen
    BY <2>1 DEF Object
  <2> QED
    BY <1>2, <2>1, <2>3, <2>4 DEF GenOK
<1>4. CASE Settled
  BY Zenon, <1>2, <1>4 DEF GenOK, Settled
<1> QED
  BY Zenon, <1>3, <1>4, NextMoves

(* A process that nobody told to stop is the current object's.             *)
LEMMA CurrentOrStoppedKept ==
  ASSUME TypeOK, CurrentOrStopped, [Next]_vars
  PROVE  CurrentOrStopped'
<1>1. Moved /\ (ReloadApplies \/ Settled)
  BY Zenon, NextMoves
<1>2. \A o \in Object : Live(obj', o) => Current(o)
  BY Zenon, <1>1 DEF Moved, Moves, Live, CurrentOrStopped, Running, TypeOK, Obj
<1>3. CASE Settled
  BY Zenon, <1>2, <1>3 DEF Settled, CurrentOrStopped, Running, Live, Current
<1>4. CASE ReloadApplies
  <2> DEFINE kept == Names(rl.new)
             stays(o) == o[1] \in kept /\ Preserved(o[1])
  <2>1. /\ obj' = [o \in Object |-> IF Current(o) /\ ~stays(o) THEN StopIfRunning(o) ELSE obj[o]]
        /\ services' = [n \in Name |-> IF n \notin kept THEN None
                                       ELSE IF Preserved(n) THEN services[n] ELSE gen + 1]
    BY Zenon, <1>4 DEF ReloadApplies
  <2> HIDE DEF kept
  <2>2. ASSUME NEW o \in Object, Live(obj', o) PROVE Current(o)'
    <3>1. Current(o) /\ o[1] \in Name
      BY Zenon, <1>2, <2>2 DEF Object
    <3>2. stays(o)
      BY Zenon, <2>1, <2>2, <3>1, StopIfRunningIs DEF Live
    <3>3. services'[o[1]] = services[o[1]]
      BY Zenon, <2>1, <3>1, <3>2
    <3> QED
      BY Zenon, <3>1, <3>3 DEF Current
  <2> QED
    BY Zenon, <2>2 DEF CurrentOrStopped, Running, Live
<1> QED
  BY Zenon, <1>1, <1>3, <1>4

(* What runs is what the configuration says, for stopped and idle services *)
(* too: it is the entry of the new file, or one that differs from it in    *)
(* nothing that reload() does not update in place.                         *)
Matching ==
  \A n \in Here :
    LET c == conf[Serving(n)]
        p == ServiceOf(cfg, n)
    IN  /\ Compared \cup InPlace \subseteq DOMAIN c.proc
        /\ \A f \in {"args", "ready", "sd"} \cup InPlace : c.proc[f] = p[f]
        /\ StartupField(c.proc) = StartupField(p)
        /\ c.onFailure = p.onFailure /\ c.onSuccess = p.onSuccess /\ c.tg = gen

(* An entry that a loaded file has for a name has all its fields.          *)
LEMMA EntryFields ==
  ASSUME NEW f \in BootFiles \cup Files, NEW n \in Names(Loaded(f))
  PROVE  n \in Name /\ Compared \cup InPlace \subseteq DOMAIN ServiceOf(Loaded(f), n)
<1> DEFINE c == Loaded(f)
<1>1. \E i \in DOMAIN c.procs : c.procs[i].name = n
  BY Zenon DEF Names
<1> HIDE DEF c
<1>2. \E i \in DOMAIN c.procs : ServiceOf(c, n) = c.procs[i]
  BY Zenon, <1>1 DEF ServiceOf
<1> QED
  BY Zenon, <1>2, FilesAssumption DEF c

(* The critical section of reload() makes every object match.              *)
LEMMA MatchingKept ==
  ASSUME TypeOK, ReloadOK, GenOK, Matching, [Next]_vars
  PROVE  Matching'
<1>1. CASE Settled
  BY Zenon, <1>1 DEF Settled, Matching, Here, Serving
<1>2. CASE ReloadApplies
  <2> DEFINE g == gen + 1
             p(n) == ServiceOf(rl.new, n)
  <2>1. PICK f \in Files : rl.new = Loaded(f)
    BY Zenon, <1>2 DEF ReloadApplies, ReloadOK
  <2>2. gen \in Nat /\ g \in Gen /\ g # None /\ gen' = g /\ cfg' = rl.new
    BY <1>2, ReloadAssumption DEF ReloadApplies, ReloadOK, GenOK, Gen, None
  <2>3. /\ services' = [n \in Name |-> IF n \notin Names(rl.new) THEN None
                                       ELSE IF Preserved(n) THEN services[n] ELSE g]
        /\ conf' = [o \in Object |->
              IF o[1] \in Names(rl.new) /\ o[2] = g THEN New(p(o[1]), g)
              ELSE IF ~Current(o) THEN conf[o]
              ELSE IF o[1] \in Names(rl.new) /\ Preserved(o[1]) THEN Updated(conf[o], p(o[1]), g)
              ELSE Cleared(conf[o], o[1] \notin Names(rl.new) \/ Replaced(o[1]))]
    BY Zenon, <1>2 DEF ReloadApplies
  <2> SUFFICES ASSUME NEW n \in Here'
               PROVE  LET c == conf'[Serving(n)']
                      IN  /\ Compared \cup InPlace \subseteq DOMAIN c.proc
                          /\ \A x \in {"args", "ready", "sd"} \cup InPlace : c.proc[x] = p(n)[x]
                          /\ StartupField(c.proc) = StartupField(p(n))
                          /\ c.onFailure = p(n).onFailure /\ c.onSuccess = p(n).onSuccess /\ c.tg = g
    BY Zenon, <2>2 DEF Matching
  <2>4. n \in Name /\ n \in Names(rl.new)
    BY Zenon, <2>3 DEF Here
  <2>5. Compared \cup InPlace \subseteq DOMAIN p(n)
    BY SMTT(30), <2>1, <2>4, EntryFields
  <2>6. CASE Preserved(n)
    <3> DEFINE o == <<n, services[n]>>
    <3>1. n \in Here /\ ~Changed(conf[o].proc, p(n)) /\ services'[n] = services[n]
      BY Zenon, <2>3, <2>4, <2>6 DEF Preserved, Serving
    <3>2. o \in Object /\ Current(o) /\ services[n] # g /\ Serving(n)' = o
      BY <2>2, <2>4, <3>1 DEF Object, Current, Here, GenOK, Gen, None, Serving
    <3>3. conf'[o] = Updated(conf[o], p(n), g)
      BY Zenon, <2>3, <2>4, <2>6, <3>2
    <3>4. Compared \cup InPlace \subseteq DOMAIN conf[o].proc
      BY Zenon, <3>1 DEF Matching, Serving
    <3>5. /\ conf[o].proc.args = p(n).args /\ conf[o].proc.ready = p(n).ready /\ conf[o].proc.sd = p(n).sd
          /\ StartupField(conf[o].proc) = StartupField(p(n))
      BY Zenon, <3>1 DEF Changed
    <3>6. conf'[o].proc = [x \in DOMAIN conf[o].proc |-> IF x \in InPlace THEN p(n)[x] ELSE conf[o].proc[x]]
      BY SMTT(30), <3>3 DEF Updated
    <3>7. StartupField(conf'[o].proc) = StartupField(conf[o].proc)
      BY Zenon, <3>4, <3>6 DEF StartupField, Startup, Compared, InPlace
    <3>8. \A x \in {"args", "ready", "sd"} \cup InPlace : conf'[o].proc[x] = p(n)[x]
      BY <3>4, <3>5, <3>6 DEF Compared, InPlace
    <3>9. Compared \cup InPlace \subseteq DOMAIN conf'[o].proc
      BY Zenon, <3>4, <3>6
    <3>10. /\ conf'[o].onFailure = p(n).onFailure /\ conf'[o].onSuccess = p(n).onSuccess
           /\ conf'[o].tg = g
      BY <3>3 DEF Updated
    <3> HIDE DEF o, p, g
    <3> QED
      BY Zenon, <3>2, <3>5, <3>7, <3>8, <3>9, <3>10
  <2>7. CASE ~Preserved(n)
    <3>1. Serving(n)' = <<n, g>> /\ <<n, g>> \in Object
      BY Zenon, <2>2, <2>3, <2>4, <2>7 DEF Serving, Object
    <3>2. conf'[<<n, g>>] = New(p(n), g)
      BY Zenon, <2>3, <2>4, <3>1
    <3> QED
      BY <2>5, <3>1, <3>2 DEF New
  <2> QED
    BY Zenon, <2>6, <2>7
<1> QED
  BY Zenon, <1>1, <1>2, NextMoves

-----------------------------------------------------------------------------
(* Who waits, and who is about to start something                          *)

Await == [o : Object, run : Nat]

CommandType ==
  [pc : {"idle", "start", "stop", "restart", "exit", "ready"}, o : Object \cup {<<>>}, run : Nat,
   stops : Seq(Object), starts : Seq(Object), first : BOOLEAN]

Elements(s) == {s[i] : i \in DOMAIN s}

(* A command has something to start from its first stop to its last start, *)
(* and stops only what it will start.                                      *)
CommandOK(t) ==
  /\ t.pc \in {"start", "stop", "exit"} => t.o \in Object
  /\ t.pc \in {"restart", "exit", "ready"} => t.starts # <<>>
  /\ t.pc \in {"idle", "start", "stop"} => t.starts = <<>>
  /\ t.pc \in {"restart", "exit"} => Elements(t.stops) \subseteq Elements(t.starts)
  /\ t.pc = "exit" => t.o \in Elements(t.starts) /\ t.stops # <<>>
  /\ t.pc = "ready" => t.stops = <<>>

HoldersOK ==
  /\ reqs \subseteq Await /\ rl.wait \subseteq Await /\ rl.start \in Seq(Object)
  /\ th \in [Client -> CommandType] /\ \A c \in Client : CommandOK(th[c])

(* A list is its head and the rest.                                        *)
LEMMA HeadTail ==
  ASSUME NEW S, NEW s \in Seq(S), s # <<>>
  PROVE  /\ Head(s) \in S /\ Tail(s) \in Seq(S) /\ (Len(s) # 1 => Tail(s) # <<>>)
         /\ Elements(s) = {Head(s)} \cup Elements(Tail(s))
         /\ Len(s) = 1 => Elements(s) = {Head(s)}
<1>1. Len(s) \in Nat /\ Len(s) >= 1 /\ DOMAIN s = 1..Len(s) /\ Head(s) = s[1] /\ Head(s) \in S
  OBVIOUS
<1> DEFINE t == Tail(s)
<1>2. t \in Seq(S) /\ Len(t) = Len(s) - 1 /\ \A i \in 1..Len(t) : t[i] = s[i + 1]
  OBVIOUS
<1> HIDE DEF t
<1>3. DOMAIN t = 1..(Len(s) - 1)
  BY <1>2
<1>4. Len(s) # 1 => t # <<>>
  BY <1>1, <1>2
<1>5. ASSUME NEW i \in 1..Len(s), i # 1 PROVE i - 1 \in 1..(Len(s) - 1) /\ s[i] = t[i - 1]
  BY <1>1, <1>2, <1>5
<1>6. ASSUME NEW i \in 1..(Len(s) - 1) PROVE i + 1 \in 1..Len(s) /\ t[i] = s[i + 1]
  BY <1>1, <1>2
<1>7. Elements(s) = {Head(s)} \cup Elements(t)
  <2>1. ASSUME NEW i \in 1..Len(s) PROVE s[i] = Head(s) \/ \E k \in 1..(Len(s) - 1) : s[i] = t[k]
    BY Zenon, <1>1, <1>5
  <2>2. ASSUME NEW i \in 1..(Len(s) - 1) PROVE \E k \in 1..Len(s) : t[i] = s[k]
    BY Zenon, <1>6
  <2>3. 1 \in 1..Len(s)
    BY <1>1
  <2>4. Elements(s) \subseteq {Head(s)} \cup Elements(t)
    <3>1. ASSUME NEW e \in Elements(s) PROVE e = Head(s) \/ e \in Elements(t)
      <4>1. PICK i \in 1..Len(s) : e = s[i]
        BY Zenon, <1>1 DEF Elements
      <4> QED
        BY Zenon, <1>3, <2>1, <4>1 DEF Elements
    <3> QED
      BY Zenon, <3>1
  <2>5. Elements(t) \subseteq Elements(s)
    BY <1>1, <1>3, <2>2 DEF Elements
  <2>6. Head(s) \in Elements(s)
    BY Zenon, <1>1, <2>3 DEF Elements
  <2> QED
    BY Zenon, <2>4, <2>5, <2>6
<1>8. Len(s) = 1 => Elements(s) = {Head(s)}
  BY <1>1, <1>5 DEF Elements
<1> QED
  BY Zenon, <1>1, <1>2, <1>4, <1>7, <1>8 DEF t

(* A serving name has an object.                                           *)
LEMMA ServingIsObject ==
  ASSUME GenOK, NEW n \in Here
  PROVE  Serving(n) \in Object /\ Current(Serving(n))
BY Zenon DEF GenOK, Here, Serving, Object, Current

(* The list of a set of names has all of them and no other.                *)
LEMMA ListedIs ==
  ASSUME NEW D, NEW ord, NEW s \in Listed(D, ord)
  PROVE  /\ s \in Seq(D) /\ DOMAIN s = 1..Len(s)
         /\ \A n \in D : \E i \in DOMAIN s : s[i] = n
<1>1. PICK k \in 0..Len(ord) : s \in [1..k -> D]
  BY Zenon DEF Listed
<1>2. k \in Nat
  OBVIOUS
<1>3. \A n \in D : \E i \in DOMAIN s : s[i] = n
  BY Zenon DEF Listed
<1> QED
  BY <1>1, <1>2, <1>3

(* An idle command holds nothing.                                          *)
LEMMA IdleIsOK == IdleClient \in CommandType /\ CommandOK(IdleClient)
<1>1. IdleClient \in CommandType
  BY DEF IdleClient, CommandType
<1> QED
  BY Zenon, <1>1 DEF IdleClient, CommandOK, Elements

(* An ordered restart begins by taking down what it will start.            *)
LEMMA RestartIsOK ==
  ASSUME NEW o \in Object, NEW legs \in Seq(Object), NEW t,
         t = [IdleClient EXCEPT !.pc = "restart", !.stops = Append(Backward(legs), o),
                                !.starts = <<o>> \o legs, !.first = TRUE]
  PROVE  t \in CommandType /\ CommandOK(t)
<1>1. /\ Backward(legs) \in Seq(Object) /\ Len(Backward(legs)) = Len(legs)
      /\ \A i \in 1..Len(legs) : Backward(legs)[i] = legs[Len(legs) + 1 - i]
  BY DEF Backward
<1>2. Append(Backward(legs), o) \in Seq(Object) /\ <<o>> \o legs \in Seq(Object) /\ <<o>> \o legs # <<>>
  BY <1>1
<1>3. t = [pc |-> "restart", o |-> <<>>, run |-> 0, stops |-> Append(Backward(legs), o),
           starts |-> <<o>> \o legs, first |-> TRUE]
  BY Zenon DEF IdleClient
<1>4. Elements(Append(Backward(legs), o)) \subseteq Elements(<<o>> \o legs)
  <2> DEFINE s == Append(Backward(legs), o)
             u == <<o>> \o legs
  <2>1. Len(u) = Len(legs) + 1 /\ u[1] = o /\ \A i \in 1..Len(legs) : u[i + 1] = legs[i]
    OBVIOUS
  <2>2. /\ Len(s) = Len(legs) + 1 /\ s[Len(legs) + 1] = o
        /\ \A i \in 1..Len(legs) : s[i] = legs[Len(legs) + 1 - i]
    BY <1>1
  <2>3. DOMAIN s = 1..(Len(legs) + 1) /\ DOMAIN u = 1..(Len(legs) + 1) /\ Len(legs) \in Nat
    BY <1>1, <1>2, <2>1, <2>2
  <2> HIDE DEF s, u
  <2>4. ASSUME NEW i \in 1..(Len(legs) + 1) PROVE \E j \in 1..(Len(legs) + 1) : s[i] = u[j]
    <3>1. CASE i = Len(legs) + 1
      <4>1. s[i] = u[1] /\ 1 \in 1..(Len(legs) + 1)
        BY <2>1, <2>2, <2>3, <3>1
      <4> QED
        BY Zenon, <4>1
    <3>2. CASE i # Len(legs) + 1
      <4> DEFINE k == Len(legs) + 1 - i
      <4>1. i \in 1..Len(legs) /\ k \in 1..Len(legs) /\ k + 1 \in 1..(Len(legs) + 1)
        BY <2>3, <3>2
      <4>2. s[i] = u[k + 1]
        BY Zenon, <2>1, <2>2, <4>1
      <4> QED
        BY Zenon, <4>1, <4>2
    <3> QED
      BY Zenon, <3>1, <3>2
  <2>5. Elements(s) \subseteq Elements(u)
    BY Zenon, <2>3, <2>4 DEF Elements
  <2> QED
    BY Zenon, <2>5 DEF s, u
<1>5. t \in CommandType
  <2>1. ASSUME NEW a \in Seq(Object), NEW b \in Seq(Object)
        PROVE  [pc |-> "restart", o |-> <<>>, run |-> 0, stops |-> a, starts |-> b, first |-> TRUE] \in CommandType
    BY Zenon DEF CommandType
  <2> QED
    BY Zenon, <1>2, <1>3, <2>1
<1> QED
  BY Zenon, <1>2, <1>3, <1>4, <1>5 DEF CommandOK

(* The next leg of an ordered restart.                                     *)
LEMMA NextLegIsOK ==
  ASSUME HoldersOK, NEW c \in Client, th[c].pc \in {"restart", "ready"}, th[c].stops = <<>>
  PROVE  NextLeg(c) \in CommandType /\ CommandOK(NextLeg(c))
<1>1. th[c] \in CommandType /\ CommandOK(th[c]) /\ th[c].starts \in Seq(Object) /\ th[c].starts # <<>>
  BY Zenon DEF HoldersOK, CommandOK, CommandType
<1>2. CASE Len(th[c].starts) = 1
  BY Zenon, <1>2, IdleIsOK DEF NextLeg
<1>3. CASE Len(th[c].starts) # 1
  <2>1. Tail(th[c].starts) \in Seq(Object) /\ Tail(th[c].starts) # <<>>
    BY Zenon, <1>1, <1>3, HeadTail
  <2>2. NextLeg(c) = [th[c] EXCEPT !.pc = "restart", !.starts = Tail(@), !.first = FALSE]
    BY Zenon, <1>3 DEF NextLeg
  <2>3. NextLeg(c) \in CommandType /\ NextLeg(c).pc = "restart" /\ NextLeg(c).starts = Tail(th[c].starts)
        /\ NextLeg(c).stops = <<>>
    BY Zenon, <1>1, <2>1, <2>2 DEF CommandType
  <2> QED
    BY <2>1, <2>3 DEF CommandOK, Elements
<1> QED
  BY Zenon, <1>2, <1>3

(* What reload() waits for and is about to start are objects.              *)
LEMMA ReloadHolds ==
  ASSUME TypeOK, ReloadOK, GenOK, ReloadApplies
  PROVE  /\ rl'.wait = {[o |-> Serving(n), run |-> obj[Serving(n)].runs] :
                          n \in {m \in Names(rl.new) : Replaced(m)}}
         /\ rl'.wait \subseteq Await /\ rl'.start \in Seq(Object)
         /\ \A n \in ToStart : <<n, gen + 1>> \in Elements(rl'.start)
<1>1. PICK names \in Listed(ToStart, rl.order) :
        rl' = [rl EXCEPT !.pc = "wait", !.start = [i \in DOMAIN names |-> <<names[i], gen + 1>>],
                 !.old = cfg.checks,
                 !.wait = {[o |-> Serving(n), run |-> obj[Serving(n)].runs] :
                            n \in {m \in Names(rl.new) : Replaced(m)}}]
  BY Zenon DEF ReloadApplies
<1>2. /\ rl'.wait = {[o |-> Serving(n), run |-> obj[Serving(n)].runs] :
                       n \in {m \in Names(rl.new) : Replaced(m)}}
      /\ rl'.start = [i \in DOMAIN names |-> <<names[i], gen + 1>>]
  BY Zenon, <1>1 DEF ReloadOK, ReloadFields
<1>3. \A n \in Names(rl.new) : Replaced(n) => Serving(n) \in Object
  BY Zenon, ServingIsObject DEF Replaced
<1>4. rl'.wait \subseteq Await
  BY <1>2, <1>3 DEF Await, TypeOK, Obj
<1>5. gen + 1 \in Gen
  BY ReloadAssumption DEF ReloadApplies, ReloadOK, GenOK, Gen
<1>6. PICK f \in Files : rl.new = Loaded(f)
  BY Zenon DEF ReloadApplies, ReloadOK
<1>7. ToStart \subseteq Name
  BY Zenon, <1>6, EntryFields DEF ToStart
<1>8. /\ names \in Seq(ToStart) /\ Len(names) \in Nat /\ DOMAIN names = 1..Len(names)
      /\ \A n \in ToStart : \E i \in DOMAIN names : names[i] = n
  <2>1. ASSUME NEW D, D = ToStart, NEW ord, ord = rl.order, names \in Listed(D, ord)
        PROVE  /\ names \in Seq(D) /\ DOMAIN names = 1..Len(names)
               /\ \A n \in D : \E i \in DOMAIN names : names[i] = n
    BY <1>7, <2>1, ListedIs
  <2> QED
    BY <2>1
<1>9. rl'.start \in Seq(Object)
  <2>1. \A i \in 1..Len(names) : <<names[i], gen + 1>> \in Object
    BY <1>5, <1>7, <1>8 DEF Object
  <2> QED
    BY <1>2, <1>8, <2>1
<1>10. \A n \in ToStart : <<n, gen + 1>> \in Elements(rl'.start)
  BY <1>2, <1>8 DEF Elements
<1> QED
  BY Zenon, <1>2, <1>4, <1>9, <1>10

(* A step of a command keeps it in order.                                  *)
LEMMA CommandKept ==
  ASSUME TypeOK, GenOK, HoldersOK, NEW c \in Client, Commands(c)
  PROVE  th' \in [Client -> CommandType] /\ \A d \in Client : CommandOK(th'[d])
<1>0. th \in [Client -> CommandType] /\ \A d \in Client : CommandOK(th[d]) /\ th[d] \in CommandType
  BY Zenon DEF HoldersOK
<1>1. ASSUME NEW t \in CommandType, CommandOK(t), th' = [th EXCEPT ![c] = t]
      PROVE  th' \in [Client -> CommandType] /\ \A d \in Client : CommandOK(th'[d])
  BY Zenon, <1>0, <1>1
<1>2. CASE th' = [th EXCEPT ![c] = IdleClient]
  BY Zenon, <1>1, <1>2, IdleIsOK
<1>3. CASE RestartStops(c)
  <2> DEFINE o == Head(th[c].stops)
             t == [th[c] EXCEPT !.pc = "exit", !.o = o, !.run = obj[o].runs]
  <2>1. th[c].pc = "restart" /\ th[c].stops # <<>> /\ th[c].stops \in Seq(Object) /\ th[c].starts # <<>>
    BY Zenon, <1>0, <1>3 DEF RestartStops, CommandType, CommandOK
  <2>2. o \in Object /\ o \in Elements(th[c].stops)
    BY <2>1, HeadTail
  <2>3. obj[o].runs \in Nat
    BY Zenon, <2>2 DEF TypeOK, Obj
  <2>4. /\ t \in CommandType /\ t.pc = "exit" /\ t.o = o /\ t.starts = th[c].starts /\ t.stops = th[c].stops
    BY Zenon, <1>0, <2>2, <2>3 DEF CommandType
  <2>5. CommandOK(t)
    BY Zenon, <1>0, <2>1, <2>2, <2>4 DEF CommandOK
  <2>6. th' = [th EXCEPT ![c] = t] \/ th' = [th EXCEPT ![c] = IdleClient]
    BY Zenon, <1>0, <1>3 DEF RestartStops
  <2> QED
    BY Zenon, <1>1, <1>2, <2>4, <2>5, <2>6
<1>4. CASE RestartWaits(c)
  <2> DEFINE t == [th[c] EXCEPT !.pc = "restart", !.stops = Tail(@)]
  <2>1. th[c].pc = "exit" /\ th[c].stops \in Seq(Object) /\ th[c].stops # <<>> /\ th[c].starts # <<>>
    BY Zenon, <1>0, <1>4 DEF RestartWaits, CommandType, CommandOK
  <2>2. Tail(th[c].stops) \in Seq(Object) /\ Elements(Tail(th[c].stops)) \subseteq Elements(th[c].stops)
    BY Zenon, <2>1, HeadTail
  <2>3. t \in CommandType /\ t.pc = "restart" /\ t.starts = th[c].starts /\ t.stops = Tail(th[c].stops)
    BY Zenon, <1>0, <2>2 DEF CommandType
  <2>4. CommandOK(t)
    BY Zenon, <1>0, <2>1, <2>2, <2>3 DEF CommandOK
  <2>5. th' = [th EXCEPT ![c] = t] \/ th' = [th EXCEPT ![c] = IdleClient]
    BY Zenon, <1>0, <1>4 DEF RestartWaits
  <2> QED
    BY Zenon, <1>1, <1>2, <2>3, <2>4, <2>5
<1>5. CASE RestartStarts(c)
  <2> DEFINE t == [th[c] EXCEPT !.pc = "ready"]
  <2>1. th[c].pc = "restart" /\ th[c].stops = <<>> /\ th[c].starts # <<>>
    BY Zenon, <1>0, <1>5 DEF RestartStarts, CommandOK
  <2>2. t \in CommandType /\ t.pc = "ready" /\ t.starts = th[c].starts /\ t.stops = <<>>
    BY Zenon, <1>0, <2>1 DEF CommandType
  <2>3. CommandOK(t)
    BY Zenon, <2>1, <2>2 DEF CommandOK
  <2>4. NextLeg(c) \in CommandType /\ CommandOK(NextLeg(c))
    BY Zenon, <2>1, NextLegIsOK
  <2>5. \/ th' = [th EXCEPT ![c] = t] \/ th' = [th EXCEPT ![c] = IdleClient]
        \/ th' = [th EXCEPT ![c] = NextLeg(c)]
    BY Zenon, <1>5 DEF RestartStarts
  <2> QED
    BY Zenon, <1>1, <1>2, <2>2, <2>3, <2>4, <2>5
<1>6. CASE RestartReady(c)
  <2>1. th[c].pc = "ready" /\ th[c].stops = <<>>
    BY Zenon, <1>0, <1>6 DEF RestartReady, CommandOK
  <2>2. NextLeg(c) \in CommandType /\ CommandOK(NextLeg(c))
    BY Zenon, <2>1, NextLegIsOK
  <2>3. th' = [th EXCEPT ![c] = NextLeg(c)] \/ th' = [th EXCEPT ![c] = IdleClient]
    BY Zenon, <1>6 DEF RestartReady
  <2> QED
    BY Zenon, <1>1, <1>2, <2>2, <2>3
<1>7. ASSUME NEW n \in Name, NEW pc \in {"start", "stop"}, LooksUp(c, n, pc)
      PROVE  th' \in [Client -> CommandType] /\ \A d \in Client : CommandOK(th'[d])
  <2> DEFINE t == [th[c] EXCEPT !.pc = pc, !.o = Serving(n)]
  <2>1. th[c].pc = "idle" /\ th[c].starts = <<>> /\ Serving(n) \in Object
    BY Zenon, <1>0, <1>7, ServingIsObject DEF LooksUp, Command, CommandOK
  <2>2. t \in CommandType /\ t.pc = pc /\ t.o = Serving(n) /\ t.starts = <<>>
    BY Zenon, <1>0, <2>1 DEF CommandType
  <2>3. CommandOK(t)
    BY Zenon, <2>1, <2>2 DEF CommandOK
  <2>4. th' = [th EXCEPT ![c] = t]
    BY Zenon, <1>0, <1>7 DEF LooksUp
  <2> QED
    BY Zenon, <1>1, <2>2, <2>3, <2>4
<1>8. ASSUME NEW n \in Name, RestartFn(c, n)
      PROVE  th' \in [Client -> CommandType] /\ \A d \in Client : CommandOK(th'[d])
  <2>1. Serving(n) \in Object
    BY Zenon, <1>8, ServingIsObject DEF RestartFn
  <2>2. CASE UNCHANGED th
    BY SMTT(30), <1>0, <2>2
  <2> DEFINE deps == IF conf[Serving(n)].proc.rwd THEN runningDependents(n) ELSE {}
             legs(names) == [i \in DOMAIN names |-> Serving(names[i])]
             t(names) == [IdleClient EXCEPT !.pc = "restart", !.stops = Append(Backward(legs(names)), Serving(n)),
                            !.starts = <<Serving(n)>> \o legs(names), !.first = TRUE]
  <2>3. UNCHANGED th \/ \E names \in Listed(deps, shutdownSeq) : th' = [th EXCEPT ![c] = t(names)]
    BY Zenon, <1>8 DEF RestartFn
  <2>4. deps \subseteq Here
    BY Zenon DEF runningDependents
  <2> HIDE DEF deps
  <2>5. deps \subseteq Name /\ \A m \in deps : Serving(m) \in Object
    BY SMTT(30), <2>4, ServingIsObject DEF Here
  <2>6. ASSUME NEW names \in Listed(deps, shutdownSeq) PROVE t(names) \in CommandType /\ CommandOK(t(names))
    <3>1. names \in Seq(deps) /\ DOMAIN names = 1..Len(names) /\ Len(names) \in Nat
      BY <2>5, ListedIs
    <3>2. legs(names) \in Seq(Object)
      BY <2>5, <3>1
    <3> QED
      BY Zenon, <2>1, <3>2, RestartIsOK
  <2> HIDE DEF t
  <2> QED
    BY Zenon, <1>1, <2>2, <2>3, <2>6
<1>9. CASE StartFn(c) \/ StopFn(c)
  BY Zenon, <1>2, <1>9 DEF StartFn, StopFn
<1> QED
  BY Zenon, <1>3, <1>4, <1>5, <1>6, <1>7, <1>8, <1>9 DEF Commands

(* Requests, waits and commands name objects.                              *)
LEMMA HoldersKept ==
  ASSUME TypeOK, ReloadOK, GenOK, HoldersOK, [Next]_vars
  PROVE  HoldersOK'
<1>1. reqs' \subseteq Await
  <2>1. ASSUME NEW o \in Object PROVE [o |-> o, run |-> obj[o].runs] \in Await
    BY Zenon DEF Await, TypeOK, Obj
  <2>2. ASSUME NEW o \in Object, Reap(o) PROVE reqs' \subseteq Await
    BY Zenon, <2>1, <2>2 DEF Reap, HoldersOK
  <2>3. ASSUME NEW c \in Client, NEW n \in Name, RestartFn(c, n) PROVE reqs' \subseteq Await
    <3>1. Serving(n) \in Object
      BY ZenonT(30), <2>3, ServingIsObject DEF RestartFn
    <3>2. reqs' = reqs \/ reqs' = reqs \cup {[o |-> Serving(n), run |-> obj[Serving(n)].runs]}
      BY Zenon, <2>3 DEF RestartFn
    <3> QED
      BY SMTT(30), <2>1, <3>1, <3>2 DEF HoldersOK
  <2> QED
    BY Zenon, <2>2, <2>3, ReqsFrame DEF HoldersOK, handleRestartReq
<1>2. rl'.wait \subseteq Await /\ rl'.start \in Seq(Object)
  <2>1. CASE ReloadApplies
    BY Zenon, <2>1, ReloadHolds
  <2>2. CASE rl' = IdleReload
    BY SMTT(30), <2>2 DEF IdleReload
  <2>3. CASE ReloadReads \/ ReloadRefused \/ ReloadFinishes
    BY Zenon, <2>2, <2>3 DEF ReloadReads, ReloadRefused, ReloadFinishes, HoldersOK, ReloadOK, ReloadFields
  <2>4. CASE ReloadWaits \/ SigHup \/ ReloadFn
    BY Zenon, <2>4 DEF ReloadWaits, SigHup, ReloadFn, HoldersOK, ReloadOK, ReloadFields
  <2>5. CASE ReloadStarts
    <3>1. rl.start # <<>> /\ rl.start \in Seq(Object)
      BY Zenon, <2>5 DEF ReloadStarts, HoldersOK
    <3>2. Tail(rl.start) \in Seq(Object)
      BY Zenon, <3>1, HeadTail
    <3> QED
      BY Zenon, <2>5, <3>2 DEF ReloadStarts, HoldersOK, ReloadOK, ReloadFields
  <2>6. CASE UNCHANGED <<confVars, rl>>
    BY Zenon, <2>6 DEF HoldersOK
  <2> QED
    BY Zenon, <2>1, <2>3, <2>4, <2>5, <2>6, ReloadFrame DEF Reloading
<1>3. th' \in [Client -> CommandType] /\ \A c \in Client : CommandOK(th'[c])
  BY Zenon, CommandFrame, CommandKept DEF HoldersOK
<1> QED
  BY Zenon, <1>1, <1>2, <1>3 DEF HoldersOK

-----------------------------------------------------------------------------
(* Awaited runs                                                            *)

(* A run that somebody waits for has begun, and it is over or will be.     *)
Ending(o, run) == run <= obj[o].runs /\ (Closed(o, run) \/ obj[o].stopped)

AwaitedEnd ==
  /\ \A w \in rl.wait : Ending(w.o, w.run)
  /\ \A r \in reqs : Ending(r.o, r.run)
  /\ \A c \in Client : th[c].pc = "exit" => Ending(th[c].o, th[c].run)

(* No step takes a stop back or reopens a done channel.                    *)
LEMMA EndingKept ==
  ASSUME TypeOK, Moved, NEW o \in Object, NEW run \in Nat, Ending(o, run)
  PROVE  Ending(o, run)'
<1>1. obj[o].runs \in Nat /\ obj'[o].runs \in Nat
  BY Zenon DEF TypeOK, Moved, Obj
<1> QED
  BY <1>1 DEF Ending, Closed, Running, Moved, Moves

(* A run that has just been told to stop, or reaped, is an ending one.     *)
LEMMA StoppedIsEnding ==
  ASSUME TypeOK, Moved, NEW o \in Object, obj'[o].pid = "none" \/ obj'[o].stopped,
         NEW run, run = obj[o].runs
  PROVE  Ending(o, run)'
<1>1. obj[o].runs \in Nat /\ obj'[o].runs \in Nat /\ obj[o].runs <= obj'[o].runs
  BY DEF TypeOK, Moved, Moves, Obj
<1> QED
  BY Zenon, <1>1 DEF Ending, Closed, Running

(* Stop() tells the run to stop.                                           *)
LEMMA StopEnds ==
  ASSUME TypeOK, NEW o \in Object, obj' = [obj EXCEPT ![o] = StopIfRunning(o)]
  PROVE  obj'[o].pid = "none" \/ obj'[o].stopped
<1>1. obj'[o] = StopIfRunning(o)
  BY Zenon DEF TypeOK
<1> QED
  BY Zenon, <1>1, StopIfRunningIs

(* A command that waits for an exit has just stopped the run, or was       *)
(* waiting for it before.                                                  *)
LEMMA ExitFrame ==
  ASSUME HoldersOK, NEW c \in Client, Commands(c), NEW d \in Client, th'[d].pc = "exit"
  PROVE  th'[d] = th[d] \/ (d = c /\ RestartStops(c))
<1>1. th \in [Client -> CommandType]
  BY Zenon DEF HoldersOK
<1>2. CASE StartFn(c) \/ StopFn(c)
  BY <1>1, <1>2 DEF StartFn, StopFn, IdleClient
<1>3. CASE RestartWaits(c)
  BY <1>1, <1>3 DEF RestartWaits, IdleClient, CommandType
<1>4. CASE th' = [th EXCEPT ![c] = NextLeg(c)]
  BY Zenon, <1>1, <1>4 DEF NextLeg, IdleClient, CommandType
<1>5. CASE RestartStarts(c)
  BY <1>1, <1>4, <1>5 DEF RestartStarts, IdleClient, CommandType
<1>6. CASE RestartReady(c)
  BY <1>1, <1>4, <1>6 DEF RestartReady, IdleClient
<1>7. ASSUME NEW n \in Name, LooksUp(c, n, "start") \/ LooksUp(c, n, "stop")
      PROVE  th'[d] = th[d]
  BY SMTT(30), <1>1, <1>7 DEF LooksUp, CommandType
<1>8. ASSUME NEW n \in Name, RestartFn(c, n) PROVE th'[d] = th[d]
  <2>1. UNCHANGED th \/ \E a, b : th' = [th EXCEPT ![c] = [IdleClient EXCEPT !.pc = "restart", !.stops = a,
                                                              !.starts = b, !.first = TRUE]]
    BY Zenon, <1>8 DEF RestartFn
  <2> QED
    BY ZenonT(30), <1>1, <2>1 DEF IdleClient
<1>9. CASE RestartStops(c)
  BY Zenon, <1>1, <1>9 DEF RestartStops
<1> QED
  BY Zenon, <1>2, <1>3, <1>5, <1>6, <1>7, <1>8, <1>9 DEF Commands

(* Whoever begins to wait for a run has just stopped it or seen it reaped. *)
LEMMA AwaitedEndKept ==
  ASSUME TypeOK, ReloadOK, GenOK, HoldersOK, AwaitedEnd, [Next]_vars
  PROVE  AwaitedEnd'
<1>1. Moved
  BY Zenon, NextMoves
<1>2. HoldersOK'
  BY Zenon, HoldersKept
<1>3. ASSUME NEW w \in Await, Ending(w.o, w.run) PROVE Ending(w.o, w.run)'
  BY Zenon, <1>1, <1>3, EndingKept DEF Await
<1>4. ASSUME NEW r \in reqs' PROVE Ending(r.o, r.run)'
  <2>1. CASE r \in reqs
    BY Zenon, <1>3, <2>1 DEF HoldersOK, AwaitedEnd
  <2>2. ASSUME NEW o \in Object, Reap(o), r \notin reqs PROVE Ending(r.o, r.run)'
    <3>1. r.o = o /\ r.run = obj[o].runs
      BY <2>2 DEF Reap
    <3> QED
      BY Zenon, <1>1, <2>2, <3>1, ReapIs, StoppedIsEnding
  <2>3. ASSUME NEW c \in Client, NEW n \in Name, RestartFn(c, n), r \notin reqs PROVE Ending(r.o, r.run)'
    <3>1. Serving(n) \in Object
      BY Zenon, <2>3, ServingIsObject DEF RestartFn
    <3>2. \/ UNCHANGED reqs
          \/ /\ obj' = [obj EXCEPT ![Serving(n)] = StopIfRunning(Serving(n))]
             /\ reqs' = reqs \cup {[o |-> Serving(n), run |-> obj[Serving(n)].runs]}
      BY Zenon, <2>3 DEF RestartFn
    <3>3. /\ obj' = [obj EXCEPT ![Serving(n)] = StopIfRunning(Serving(n))]
          /\ r.o = Serving(n) /\ r.run = obj[Serving(n)].runs
      BY <2>3, <3>2
    <3> QED
      BY ZenonT(30), <1>1, <3>1, <3>3, StopEnds, StoppedIsEnding
  <2> QED
    BY Zenon, <2>1, <2>2, <2>3, ReqsFrame DEF handleRestartReq
<1>5. ASSUME NEW w \in rl'.wait PROVE Ending(w.o, w.run)'
  <2>1. CASE w \in rl.wait
    BY SMTT(30), <1>3, <2>1 DEF HoldersOK, AwaitedEnd
  <2>2. CASE ReloadApplies
    <3>1. PICK n \in Names(rl.new) : Replaced(n) /\ w.o = Serving(n) /\ w.run = obj[Serving(n)].runs
      BY <2>2, ReloadHolds
    <3>2. Serving(n) \in Object /\ Current(Serving(n)) /\ Serving(n)[1] = n /\ ~Preserved(n)
      BY Zenon, <3>1, ServingIsObject DEF Replaced, Serving
    <3>3. obj'[Serving(n)] = StopIfRunning(Serving(n))
      BY Zenon, <2>2, <3>2 DEF ReloadApplies
    <3> QED
      BY SMTT(30), <1>1, <3>1, <3>2, <3>3, StopIfRunningIs, StoppedIsEnding
  <2>3. CASE rl' = IdleReload
    BY SMTT(30), <2>3 DEF IdleReload
  <2>4. CASE ~ReloadApplies /\ rl' # IdleReload /\ w \notin rl.wait
    BY ZenonT(30), <2>4, ReloadFrame DEF Reloading, ReloadReads, ReloadRefused, ReloadWaits, ReloadStarts, ReloadFinishes,
                             SigHup, ReloadFn, ReloadOK, ReloadFields
  <2> QED
    BY Zenon, <2>1, <2>2, <2>3, <2>4
<1>6. ASSUME NEW d \in Client, th'[d].pc = "exit" PROVE Ending(th[d].o, th[d].run)'
  <2>1. ASSUME NEW o, NEW run, o = th'[d].o, run = th'[d].run, Ending(o, run)'
        PROVE  Ending(th[d].o, th[d].run)'
    BY Zenon, <2>1
  <2>2. CASE th'[d] = th[d]
    <3>1. th[d].o \in Object /\ th[d].run \in Nat /\ Ending(th[d].o, th[d].run)
      BY Zenon, <1>6, <2>2 DEF HoldersOK, CommandOK, CommandType, AwaitedEnd
    <3> QED
      BY SMTT(30), <1>1, <2>1, <2>2, <3>1, EndingKept
  <2>3. ASSUME RestartStops(d), th'[d].pc = "exit" PROVE Ending(th[d].o, th[d].run)'
    <3> DEFINE o == Head(th[d].stops)
    <3>1. th[d] \in CommandType /\ th[d].stops # <<>> /\ th[d].stops \in Seq(Object)
      BY Zenon, <2>3 DEF RestartStops, HoldersOK, CommandType
    <3>2. o \in Object
      BY Zenon, <3>1, HeadTail
    <3>3. obj' = [obj EXCEPT ![o] = StopIfRunning(o)] /\ th'[d].o = o /\ th'[d].run = obj[o].runs
      BY <2>3, <3>1 DEF RestartStops, HoldersOK, IdleClient, CommandType
    <3> HIDE DEF o
    <3>4. obj'[o].pid = "none" \/ obj'[o].stopped
      BY Zenon, <3>2, <3>3, StopEnds
    <3> QED
      BY Zenon, <1>1, <2>1, <3>2, <3>3, <3>4, StoppedIsEnding
  <2> QED
    BY Zenon, <1>6, <2>2, <2>3, CommandFrame, ExitFrame
<1> QED
  BY Zenon, <1>4, <1>5, <1>6 DEF AwaitedEnd

-----------------------------------------------------------------------------
(* Services that do not run                                                *)

(* What a command will still start; while it waits for READY=1 the first   *)
(* of its list has been started.                                           *)
Pending(c) == IF th[c].pc = "ready" THEN Elements(Tail(th[c].starts)) ELSE Elements(th[c].starts)

(* Somebody is about to start o.                                           *)
Due(o) ==
  \/ \E r \in reqs : r.o = o
  \/ o \in Elements(rl.start)
  \/ \E c \in Client : o \in Pending(c)

(* Who told this run of o to stop waits for its end, to start o again.     *)
Returns(o) ==
  \/ \E r \in reqs : r.o = o /\ r.run >= obj[o].runs
  \/ \E c \in Client : th[c].pc = "exit" /\ th[c].o = o /\ th[c].run >= obj[o].runs

(* DownIsAccountedFor, and its reason while the run has not ended yet: a   *)
(* service that was told to stop, by who did not mean it to stay down,     *)
(* will be started by who told it.                                         *)
Account(o) ==
  IsService(conf[o].proc) /\ ~obj[o].down =>
    /\ ~Running(o) => Due(o)
    /\ Running(o) /\ obj[o].stopped => Returns(o)

Accounted == ~shuttingDown /\ ~quit => \A n \in Here : Account(Serving(n))

(* An object whose process and whose holders stay keeps its account.       *)
LEMMA SameAccounts ==
  ASSUME NEW o, Account(o), UNCHANGED conf,
         Running(o)' <=> Running(o), obj'[o].stopped => obj[o].stopped, obj[o].down => obj'[o].down,
         Due(o) => Due(o)', Returns(o) => Returns(o)'
  PROVE  Account(o)'
BY Zenon DEF Account

(* startService of the current object, if it is not the daemon that is     *)
(* going down and nothing refuses the start, leaves it running.            *)
LEMMA StartServes ==
  ASSUME TypeOK, NEW o \in Object, Current(o), ~shuttingDown, NEW a, startService(o, a), ~obj'[o].down
  PROVE  (obj'[o].pid = "up" /\ ~obj'[o].stopped) \/ (obj'[o] = obj[o] /\ Running(o))
<1>1. Checked(o) \notin {"down", "replaced"}
  BY Zenon DEF Checked
<1> QED
  BY Zenon, <1>1, StartIs

(* So it needs nobody to start it any more.                                *)
LEMMA StartAccounts ==
  ASSUME TypeOK, NEW o \in Object, Current(o), Account(o), UNCHANGED conf, ~shuttingDown,
         NEW x, NEW a, startService(x, a),
         Running(o) /\ Returns(o) /\ obj'[o] = obj[o] => Returns(o)',
         o # x => (Due(o) => Due(o)')
  PROVE  Account(o)'
<1>1. CASE o # x
  <2>1. obj'[o] = obj[o]
    BY SMTT(30), <1>1, StartIs
  <2> QED
    BY SMTT(30), <1>1, <2>1 DEF Account, Running
<1>2. CASE o = x
  BY Zenon, <1>2, StartServes DEF Account, Running
<1> QED
  BY SMTT(30), <1>1, <1>2

(* The steps of reload() off its critical section.                         *)
LEMMA ReloadAccounts ==
  ASSUME TypeOK, ReloadOK, GenOK, HoldersOK, NEW o \in Object, Current(o), Account(o), ~shuttingDown,
         ReloadReads \/ ReloadRefused \/ ReloadWaits \/ ReloadStarts \/ ReloadFinishes \/ SigHup \/ ReloadFn
  PROVE  Account(o)'
<1> USE DEF confVars, goVars
<1>1. UNCHANGED <<reqs, th, conf>>
  BY ZenonT(30) DEF ReloadReads, ReloadRefused, ReloadWaits, ReloadStarts, ReloadFinishes, SigHup, ReloadFn
<1>2. CASE ReloadStarts
  <2> DEFINE x == Head(rl.start)
  <2>1. PICK a \in Answers : startService(x, a)
    BY Zenon, <1>2 DEF ReloadStarts
  <2>2. rl.start # <<>> /\ rl.start \in Seq(Object) /\ rl'.start = Tail(rl.start)
    BY Zenon, <1>2 DEF ReloadStarts, HoldersOK, ReloadOK, ReloadFields
  <2>3. Elements(rl.start) = {x} \cup Elements(rl'.start)
    BY Zenon, <2>2, HeadTail
  <2> HIDE DEF x
  <2>4. o # x => (Due(o) => Due(o)')
    BY SMTT(30), <1>1, <2>3 DEF Due, Pending
  <2>5. obj'[o] = obj[o] => (Returns(o) => Returns(o)')
    BY Zenon, <1>1 DEF Returns
  <2> QED
    BY Zenon, <1>1, <2>1, <2>4, <2>5, StartAccounts
<1>3. CASE ~ReloadStarts
  <2>1. UNCHANGED obj
    BY ZenonT(30), <1>3 DEF ReloadReads, ReloadRefused, ReloadWaits, ReloadFinishes, SigHup, ReloadFn
  <2>2. rl.start = <<>> \/ rl'.start = rl.start
    BY Zenon, <1>3 DEF ReloadReads, ReloadRefused, ReloadWaits, ReloadFinishes, SigHup, ReloadFn, ReloadOK, ReloadFields
  <2>3. Elements(rl.start) \subseteq Elements(rl'.start)
    BY SMTT(30), <2>2 DEF Elements
  <2>4. (Due(o) => Due(o)') /\ (Returns(o) => Returns(o)')
    BY Zenon, <1>1, <2>1, <2>3 DEF Due, Pending, Returns
  <2> QED
    BY SMTT(30), <1>1, <2>1, <2>4, SameAccounts DEF Running
<1> QED
  BY SMTT(30), <1>2, <1>3

(* A step of a command leaves the other commands alone, and is no step of  *)
(* reload().                                                               *)
LEMMA CommandAlone ==
  ASSUME HoldersOK, NEW c \in Client, Commands(c)
  PROVE  /\ \A d \in Client : d # c => th'[d] = th[d]
         /\ reqs \subseteq reqs' /\ UNCHANGED <<conf, rl>>
<1>1. th \in [Client -> CommandType]
  BY Zenon DEF HoldersOK
<1>2. CASE \E n \in Name : RestartFn(c, n)
  <2>1. PICK n \in Name : RestartFn(c, n)
    BY SMTT(30), <1>2
  <2>2. (\E t : th' = [th EXCEPT ![c] = t]) \/ UNCHANGED th
    BY ZenonT(30), <2>1 DEF RestartFn
  <2>3. reqs \subseteq reqs' /\ UNCHANGED <<conf, rl>>
    BY ZenonT(30), <2>1 DEF RestartFn, confVars
  <2> QED
    BY Zenon, <1>1, <2>2, <2>3
<1>3. CASE ~\E n \in Name : RestartFn(c, n)
  BY Zenon, <1>1, <1>3 DEF Commands, StartFn, StopFn, RestartStops, RestartWaits, RestartStarts, RestartReady,
     LooksUp, confVars, goVars
<1> QED
  BY Zenon, <1>2, <1>3

(* What is due stays due if the command that moves still has it to start.  *)
LEMMA CommandDue ==
  ASSUME HoldersOK, NEW c \in Client, Commands(c), NEW o, o \in Pending(c) => o \in Pending(c)'
  PROVE  Due(o) => Due(o)'
<1>1. \A d \in Client : d # c => th'[d] = th[d]
  BY Zenon, CommandAlone
<1>2. reqs \subseteq reqs' /\ rl' = rl
  BY Zenon, CommandAlone
<1>3. \A d \in Client : o \in Pending(d) => o \in Pending(d)'
  BY Zenon, <1>1 DEF Pending
<1> QED
  BY Zenon, <1>2, <1>3 DEF Due

(* A run that will be started again still will, unless it was the command  *)
(* that moves who waited for it.                                           *)
LEMMA CommandReturns ==
  ASSUME HoldersOK, NEW c \in Client, Commands(c), NEW o, obj'[o].runs = obj[o].runs,
         th[c].pc = "exit" /\ th[c].o = o => ~(th[c].run >= obj[o].runs)
  PROVE  Returns(o) => Returns(o)'
<1>1. \A d \in Client : d # c => th'[d] = th[d]
  BY Zenon, CommandAlone
<1>2. reqs \subseteq reqs'
  BY Zenon, CommandAlone
<1> QED
  BY Zenon, <1>1, <1>2 DEF Returns

(* A command that goes on to its next leg still has all but the first to   *)
(* start.                                                                  *)
LEMMA NextLegPending ==
  ASSUME HoldersOK, NEW c \in Client, th[c].pc \in {"restart", "ready"}, th'[c] = NextLeg(c),
         NEW o, o \in Elements(Tail(th[c].starts))
  PROVE  o \in Pending(c)'
<1>1. th[c] \in CommandType /\ th[c].starts \in Seq(Object) /\ th[c].starts # <<>>
  BY Zenon DEF HoldersOK, CommandOK, CommandType
<1> DEFINE rest == Tail(th[c].starts)
<1> HIDE DEF rest
<1>2. Len(th[c].starts) # 1
  <2> SUFFICES ASSUME Len(th[c].starts) = 1 PROVE FALSE
    BY Zenon
  <2>1. rest \in Seq(Object) /\ Len(rest) = 0
    BY <1>1 DEF rest
  <2>2. DOMAIN rest = {}
    BY <2>1
  <2> QED
    BY Zenon, <2>2 DEF Elements, rest
<1>3. th'[c] = [th[c] EXCEPT !.pc = "restart", !.starts = rest, !.first = FALSE]
  BY Zenon, <1>2 DEF NextLeg, rest
<1>4. th'[c].pc = "restart" /\ th'[c].starts = rest
  BY Zenon, <1>1, <1>3 DEF CommandType
<1> QED
  BY Zenon, <1>4 DEF Pending, rest

(* A command accounts for what it stops and for what it starts.            *)
LEMMA CommandAccounts ==
  ASSUME TypeOK, GenOK, HoldersOK, NEW o \in Object, Current(o), Account(o), ~shuttingDown, ~shuttingDown',
         NEW c \in Client, Commands(c)
  PROVE  Account(o)'
<1>1. /\ obj \in [Object -> Obj] /\ th \in [Client -> CommandType]
      /\ th[c] \in CommandType /\ CommandOK(th[c])
  BY Zenon DEF TypeOK, HoldersOK
<1>2. UNCHANGED conf /\ reqs \subseteq reqs'
  BY Zenon, CommandAlone
<1>3. CASE \E n \in Name : LooksUp(c, n, "start") \/ LooksUp(c, n, "stop")
  <2>1. UNCHANGED obj /\ th[c].pc = "idle" /\ th'[c].starts = th[c].starts
    BY <1>1, <1>3 DEF LooksUp, Command, CommandType
  <2>2. th[c].starts = <<>>
    BY Zenon, <1>1, <2>1 DEF CommandOK
  <2>3. o \notin Pending(c)
    BY <2>1, <2>2 DEF Pending, Elements
  <2> QED
    BY Zenon, <1>2, <2>1, <2>3, CommandDue, CommandReturns, SameAccounts DEF Running
<1>4. CASE StartFn(c)
  <2>1. PICK a \in Answers : startService(th[c].o, a)
    BY Zenon, <1>4 DEF StartFn
  <2>2. th[c].pc = "start" /\ th[c].starts = <<>>
    BY Zenon, <1>1, <1>4 DEF StartFn, CommandOK
  <2>3. o \notin Pending(c)
    BY <2>2 DEF Pending, Elements
  <2>4. (Due(o) => Due(o)') /\ (obj'[o].runs = obj[o].runs => (Returns(o) => Returns(o)'))
    BY Zenon, <2>2, <2>3, CommandDue, CommandReturns
  <2> QED
    BY Zenon, <1>2, <2>1, <2>4, StartAccounts
<1>5. CASE StopFn(c)
  <2> DEFINE x == th[c].o
  <2>1. th[c].pc = "stop" /\ th[c].starts = <<>>
    BY Zenon, <1>1, <1>5 DEF StopFn, CommandOK
  <2>2. o \notin Pending(c)
    BY <2>1 DEF Pending, Elements
  <2>3. obj' = [obj EXCEPT ![x] = [StopIfRunning(x) EXCEPT !.down = @ \/ Running(x)]]
    BY Zenon, <1>5 DEF StopFn
  <2>4. CASE o # x
    <3>1. obj'[o] = obj[o]
      BY Zenon, <1>1, <2>3, <2>4
    <3> QED
      BY Zenon, <1>2, <2>1, <2>2, <3>1, CommandDue, CommandReturns, SameAccounts DEF Running
  <2>5. CASE o = x
    <3>1. obj'[o] = [StopIfRunning(o) EXCEPT !.down = @ \/ Running(o)]
      BY Zenon, <1>1, <2>3, <2>5
    <3>2. /\ obj'[o].pid = obj[o].pid /\ obj'[o].runs = obj[o].runs
          /\ obj'[o].down = (obj[o].down \/ Running(o))
      BY <3>1, StopIfRunningIs DEF Obj
    <3>3. Due(o) => Due(o)'
      BY Zenon, <2>2, CommandDue
    <3> QED
      BY Zenon, <1>2, <3>2, <3>3 DEF Account, Running
  <2> QED
    BY Zenon, <2>4, <2>5
<1>6. CASE \E n \in Name : RestartFn(c, n)
  <2>1. PICK n \in Name : RestartFn(c, n)
    BY SMTT(30), <1>6
  <2>2. th[c].pc = "idle" /\ th[c].starts = <<>>
    BY Zenon, <1>1, <2>1 DEF RestartFn, Command, CommandOK
  <2>3. o \notin Pending(c)
    BY SMTT(30), <2>2 DEF Pending, Elements
  <2> DEFINE x == Serving(n)
  <2>4. \/ UNCHANGED obj
        \/ /\ obj' = [obj EXCEPT ![x] = StopIfRunning(x)]
           /\ reqs' = reqs \cup {[o |-> x, run |-> obj[x].runs]}
    BY Zenon, <2>1 DEF RestartFn
  <2> HIDE DEF x
  <2>5. CASE obj'[o] = obj[o]
    BY Zenon, <1>2, <2>2, <2>3, <2>5, CommandDue, CommandReturns, SameAccounts DEF Running
  <2>6. CASE obj'[o] # obj[o]
    <3>1. o = x
      BY Zenon, <1>1, <2>4, <2>6
    <3>2. obj'[o] = StopIfRunning(o) /\ [o |-> o, run |-> obj[o].runs] \in reqs'
      BY Zenon, <1>1, <2>4, <2>6, <3>1
    <3>3. obj'[o].runs = obj[o].runs /\ obj[o].runs \in Nat
      BY Zenon, <1>1, <3>2, StopIfRunningIs DEF Obj
    <3>4. \E r \in reqs' : r.o = o /\ r.run >= obj'[o].runs
      <4>1. [o |-> o, run |-> obj[o].runs].o = o /\ [o |-> o, run |-> obj[o].runs].run >= obj'[o].runs
        BY <3>3
      <4> QED
        BY Zenon, <3>2, <4>1
    <3> QED
      BY Zenon, <3>4 DEF Account, Due, Returns
  <2> QED
    BY Zenon, <2>5, <2>6
<1>7. CASE RestartStops(c)
  <2> DEFINE x == Head(th[c].stops)
  <2>1. /\ th[c].pc = "restart" /\ obj' = [obj EXCEPT ![x] = StopIfRunning(x)]
        /\ th' = [th EXCEPT ![c].pc = "exit", ![c].o = x, ![c].run = obj[x].runs]
    BY Zenon, <1>7 DEF RestartStops
  <2> HIDE DEF x
  <2>2. /\ th'[c].pc = "exit" /\ th'[c].o = x /\ th'[c].run = obj[x].runs
        /\ th'[c].starts = th[c].starts
    BY Zenon, <1>1, <2>1 DEF CommandType
  <2>3. Due(o) => Due(o)'
    BY Zenon, <2>1, <2>2, CommandDue DEF Pending
  <2>4. CASE o # x
    <3>1. obj'[o] = obj[o]
      BY Zenon, <1>1, <2>1, <2>4
    <3> QED
      BY Zenon, <1>2, <2>1, <2>3, <3>1, CommandReturns, SameAccounts DEF Running
  <2>5. CASE o = x
    <3>1. /\ obj'[o].pid = obj[o].pid /\ obj'[o].down = obj[o].down
          /\ obj'[o].runs = obj[o].runs /\ obj[o].runs \in Nat
      BY Zenon, <1>1, <2>1, <2>5, StopIfRunningIs DEF Obj
    <3>2. Returns(o)'
      BY <2>2, <2>5, <3>1 DEF Returns
    <3> QED
      BY Zenon, <1>2, <2>3, <3>1, <3>2 DEF Account, Running
  <2> QED
    BY Zenon, <2>4, <2>5
<1>8. CASE RestartWaits(c)
  <2>1. /\ th[c].pc = "exit" /\ Closed(th[c].o, th[c].run) /\ UNCHANGED obj
        /\ th' = [th EXCEPT ![c].pc = "restart", ![c].stops = Tail(@)]
    BY Zenon, <1>8 DEF RestartWaits
  <2>2. th'[c].pc = "restart" /\ th'[c].starts = th[c].starts
    BY Zenon, <1>1, <2>1 DEF CommandType
  <2>3. Due(o) => Due(o)'
    BY Zenon, <2>1, <2>2, CommandDue DEF Pending
  <2>4. CASE Running(o)
    <3>1. th[c].o = o => ~(th[c].run >= obj[o].runs)
      <4>1. th[c].run \in Nat /\ obj[o].runs \in Nat
        BY Zenon, <1>1 DEF CommandType, Obj
      <4> QED
        BY <2>1, <2>4, <4>1 DEF Closed
    <3> QED
      BY Zenon, <1>2, <2>1, <2>3, <3>1, CommandReturns, SameAccounts DEF Running
  <2>5. CASE ~Running(o)
    BY Zenon, <1>2, <2>1, <2>3, <2>5 DEF Account, Running
  <2> QED
    BY Zenon, <2>4, <2>5
<1>9. CASE RestartReady(c)
  <2>1. /\ th[c].pc = "ready" /\ UNCHANGED obj /\ th' = [th EXCEPT ![c] = NextLeg(c)]
    BY Zenon, <1>9 DEF RestartReady, initiateShutdown
  <2>2. th'[c] = NextLeg(c)
    BY Zenon, <1>1, <2>1
  <2>3. o \in Pending(c) => o \in Pending(c)'
    BY Zenon, <2>1, <2>2, NextLegPending DEF Pending
  <2> QED
    BY Zenon, <1>2, <2>1, <2>3, CommandDue, CommandReturns, SameAccounts DEF Running
<1>10. CASE RestartStarts(c)
  <2> DEFINE x == Head(th[c].starts)
  <2>1. /\ th[c].pc = "restart" /\ th[c].starts \in Seq(Object) /\ th[c].starts # <<>>
    BY Zenon, <1>1, <1>10 DEF RestartStarts, CommandOK, CommandType
  <2>2. Elements(th[c].starts) = {x} \cup Elements(Tail(th[c].starts))
    BY Zenon, <2>1, HeadTail
  <2>3. \/ obj' = GivesUp(c, obj)
        \/ \E a \in Answers :
             /\ startService(x, a) /\ a # "fail"
             /\ th' = [th EXCEPT ![c] =
                  IF a \in {"fail", "down"} THEN IdleClient
                  ELSE IF a \in {"ok", "already"} /\ conf[x].proc.sd
                  THEN [th[c] EXCEPT !.pc = "ready"] ELSE NextLeg(c)]
    BY Zenon, <1>10 DEF RestartStarts, initiateShutdown
  <2>4. CASE obj' = GivesUp(c, obj)
    <3>1. CASE o \in Elements(th[c].starts)
      <4>1. obj'[o] = [obj[o] EXCEPT !.down = @ \/ obj[o].pid = "none"]
        BY Zenon, <2>4, <3>1 DEF GivesUp, Elements
      <4>2. /\ obj'[o].pid = obj[o].pid /\ obj'[o].stopped = obj[o].stopped /\ obj'[o].runs = obj[o].runs
            /\ obj'[o].down = (obj[o].down \/ obj[o].pid = "none")
        BY <1>1, <4>1 DEF Obj
      <4>3. Returns(o) => Returns(o)'
        BY Zenon, <2>1, <4>2, CommandReturns
      <4> QED
        BY ZenonT(30), <1>2, <4>2, <4>3 DEF Account, Running
    <3>2. CASE o \notin Elements(th[c].starts)
      <4>1. obj'[o] = obj[o]
        BY Zenon, <2>4, <3>2 DEF GivesUp, Elements
      <4>2. o \notin Pending(c)
        BY Zenon, <2>1, <3>2 DEF Pending
      <4> QED
        BY Zenon, <1>2, <2>1, <4>1, <4>2, CommandDue, CommandReturns, SameAccounts DEF Running
    <3> QED
      BY Zenon, <3>1, <3>2
  <2>5. CASE obj' # GivesUp(c, obj)
    <3>1. PICK a \in Answers :
             /\ startService(x, a) /\ a # "fail"
             /\ th' = [th EXCEPT ![c] =
                  IF a \in {"fail", "down"} THEN IdleClient
                  ELSE IF a \in {"ok", "already"} /\ conf[x].proc.sd
                  THEN [th[c] EXCEPT !.pc = "ready"] ELSE NextLeg(c)]
      BY Zenon, <2>3, <2>5
    <3> HIDE DEF x
    <3>2. a # "down"
      BY Zenon, <3>1 DEF startService, Checked
    <3>3. th'[c] = NextLeg(c) \/ th'[c] = [th[c] EXCEPT !.pc = "ready"]
      BY Zenon, <1>1, <3>1, <3>2
    <3>4. ASSUME o \in Elements(Tail(th[c].starts)) PROVE o \in Pending(c)'
      <4>1. CASE th'[c] = NextLeg(c)
        BY Zenon, <2>1, <3>4, <4>1, NextLegPending
      <4>2. CASE th'[c] = [th[c] EXCEPT !.pc = "ready"]
        <5>1. th'[c].pc = "ready" /\ th'[c].starts = th[c].starts
          BY Zenon, <1>1, <4>2 DEF CommandType
        <5> QED
          BY Zenon, <3>4, <5>1 DEF Pending
      <4> QED
        BY Zenon, <3>3, <4>1, <4>2
    <3>5. o # x => (Due(o) => Due(o)')
      BY Zenon, <2>1, <2>2, <3>4, CommandDue DEF Pending
    <3>6. obj'[o] = obj[o] => (Returns(o) => Returns(o)')
      BY Zenon, <2>1, CommandReturns
    <3> QED
      BY SMTT(30), <1>2, <3>1, <3>5, <3>6, StartAccounts
  <2> QED
    BY Zenon, <2>4, <2>5
<1> QED
  BY Zenon, <1>3, <1>4, <1>5, <1>6, <1>7, <1>8, <1>9, <1>10 DEF Commands

(* The end of a run hands the service to who will start it again: to the   *)
(* restart request of its exit, or to who told it to stop.                 *)
LEMMA ReapAccounts ==
  ASSUME TypeOK, HoldersOK, NEW o \in Object, Account(o), ~shuttingDown, ~quit',
         NEW x \in Object, Reap(x)
  PROVE  Account(o)'
<1>1. UNCHANGED <<conf, rl, th>> /\ reqs \subseteq reqs'
  BY Zenon DEF Reap, confVars
<1>2. Due(o) => Due(o)'
  BY Zenon, <1>1 DEF Due, Pending
<1>3. obj'[o].runs = obj[o].runs => (Returns(o) => Returns(o)')
  BY Zenon, <1>1 DEF Returns
<1>4. CASE o # x
  <2>1. obj'[o].down \/ obj'[o] = obj[o]
    BY Zenon, <1>4, ReapIs
  <2> QED
    BY <1>1, <1>2, <1>3, <2>1, SameAccounts DEF Account, Running
<1>5. CASE o = x
  <2>1. /\ obj'[o].pid = "none" /\ obj[o].pid = "dead"
        /\ obj'[o].down = (obj[o].down \/ (~obj[o].stopped /\ ExitAction(o) # "restart"))
    BY Zenon, <1>5, ReapIs DEF Reap
  <2>2. CASE obj[o].stopped
    <3>1. Returns(o) => Due(o)
      <4>1. ASSUME NEW c \in Client, th[c].pc = "exit", th[c].o = o PROVE o \in Pending(c)
        BY Zenon, <4>1 DEF HoldersOK, CommandOK, Pending
      <4> QED
        BY Zenon, <4>1 DEF Returns, Due
    <3> QED
      BY Zenon, <1>1, <1>2, <2>1, <2>2, <3>1 DEF Account, Running
  <2>3. CASE ~obj[o].stopped
    <3>1. ExitAction(o) = "restart" => Due(o)'
      <4>1. ExitAction(o) = "restart" => [o |-> o, run |-> obj[o].runs] \in reqs'
        BY Zenon, <1>5 DEF Reap
      <4> QED
        BY Zenon, <4>1 DEF Due
    <3> QED
      BY Zenon, <2>1, <2>3, <3>1 DEF Account, Running
  <2> QED
    BY SMTT(30), <2>2, <2>3
<1> QED
  BY Zenon, <1>4, <1>5

(* A request that is handled has seen its run end: it is not what a later  *)
(* run, told to stop, waits for.                                           *)
LEMMA RequestAccounts ==
  ASSUME TypeOK, HoldersOK, NEW o \in Object, Current(o), Account(o), ~shuttingDown,
         NEW r \in reqs, handleRestartReq(r)
  PROVE  Account(o)'
<1>1. r \in Await /\ obj \in [Object -> Obj]
  BY Zenon DEF HoldersOK, TypeOK
<1>2. UNCHANGED <<conf, rl, th>> /\ reqs' = reqs \ {r} /\ Closed(r.o, r.run)
  BY Zenon DEF handleRestartReq, confVars
<1>3. r.o # o => (Due(o) => Due(o)')
  BY Zenon, <1>2 DEF Due, Pending
<1>4. Running(o) /\ Returns(o) /\ obj'[o] = obj[o] => Returns(o)'
  <2>1. r.run \in Nat /\ obj[o].runs \in Nat
    BY Zenon, <1>1 DEF Await, Obj
  <2>2. Running(o) /\ r.o = o => ~(r.run >= obj[o].runs)
    BY <1>2, <2>1 DEF Closed
  <2> QED
    BY Zenon, <1>2, <2>2 DEF Returns
<1>5. CASE Running(r.o) /\ UNCHANGED obj
  BY SMTT(30), <1>2, <1>3, <1>4, <1>5 DEF Account, Running
<1>6. CASE \E a \in Answers : startService(r.o, a)
  <2>1. PICK a \in Answers : startService(r.o, a)
    BY Zenon, <1>6
  <2> QED
    BY Zenon, <1>2, <1>3, <1>4, <2>1, StartAccounts
<1> QED
  BY Zenon, <1>5, <1>6 DEF handleRestartReq

(* The objects with a runner, a tick or a timer are scheduled.             *)
Timed ==
  /\ runners \subseteq Object /\ ticks \subseteq Object /\ timers \subseteq Await
  /\ \A o \in runners \cup ticks \cup {t.o : t \in timers} :
       o[2] <= gen /\ Startup(conf[o].proc) = "scheduled"

(* Processes, ticks and timers.                                            *)
LEMMA OtherAccounts ==
  ASSUME TypeOK, HoldersOK, Timed, NEW o \in Object, Current(o), Account(o), ~shuttingDown,
         \/ \E x \in Object : ProcessExits(x) \/ Tick(x) \/ startScheduledRun(x)
         \/ \E t \in timers : Overstays(t)
  PROVE  Account(o)'
<1>1. UNCHANGED <<conf, rl, th, reqs>>
  BY Zenon DEF ProcessExits, Tick, startScheduledRun, Overstays, confVars, goVars
<1>2. obj \in [Object -> Obj]
  BY Zenon DEF TypeOK
<1>3. Due(o) => Due(o)'
  BY Zenon, <1>1 DEF Due, Pending
<1>4. obj'[o].runs = obj[o].runs => (Returns(o) => Returns(o)')
  BY Zenon, <1>1 DEF Returns
<1>5. CASE \E x \in Object : ProcessExits(x)
  <2>1. PICK x \in Object : ProcessExits(x)
    BY Zenon, <1>5
  <2>2. PICK bad \in BOOLEAN : obj' = [obj EXCEPT ![x].pid = "dead", ![x].failed = bad]
    BY ZenonT(30), <2>1 DEF ProcessExits
  <2>3. /\ obj'[o].stopped = obj[o].stopped /\ obj'[o].runs = obj[o].runs /\ obj'[o].down = obj[o].down
        /\ obj'[o].pid = IF o = x THEN "dead" ELSE obj[o].pid
    BY <1>2, <2>2 DEF Obj
  <2>4. Running(o)' <=> Running(o)
    BY Zenon, <2>1, <2>3 DEF ProcessExits, Running
  <2> QED
    BY Zenon, <1>1, <1>3, <1>4, <2>3, <2>4, SameAccounts
<1>6. CASE \E x \in Object : Tick(x)
  BY Zenon, <1>1, <1>3, <1>4, <1>6, SameAccounts DEF Tick, Running
<1>7. CASE \E x \in Object : startScheduledRun(x)
  <2>1. PICK x \in Object, a \in Answers : startService(x, a)
    BY Zenon, <1>7 DEF startScheduledRun
  <2> QED
    BY Zenon, <1>1, <1>3, <1>4, <2>1, StartAccounts
<1>8. CASE \E t \in timers : Overstays(t)
  <2>1. PICK t \in timers : Overstays(t)
    BY Zenon, <1>8
  <2>2. CASE o = t.o
    <3>1. ~IsService(conf'[o].proc)
      BY Zenon, <1>1, <2>2 DEF Timed, IsService
    <3> QED
      BY Zenon, <3>1 DEF Account
  <2>3. CASE o # t.o
    <3>1. obj'[o] = obj[o]
      BY Zenon, <1>2, <2>1, <2>3 DEF Overstays
    <3> QED
      BY SMTT(30), <1>1, <1>3, <1>4, <3>1, SameAccounts DEF Running
  <2> QED
    BY Zenon, <2>2, <2>3
<1> QED
  BY Zenon, <1>5, <1>6, <1>7, <1>8

(* No reload changes whether an object is a service, a oneshot or          *)
(* scheduled.                                                              *)
LEMMA StartupStays ==
  ASSUME TypeOK, ReloadOK, GenOK, Matching, [Next]_vars, NEW o \in Object, o[2] <= gen
  PROVE  Startup(conf'[o].proc) = Startup(conf[o].proc)
<1>1. CASE Settled
  BY Zenon, <1>1 DEF Settled
<1>2. CASE ReloadApplies
  <2>1. conf' = [x \in Object |->
              IF x[1] \in Names(rl.new) /\ x[2] = gen + 1 THEN New(ServiceOf(rl.new, x[1]), gen + 1)
              ELSE IF ~Current(x) THEN conf[x]
              ELSE IF x[1] \in Names(rl.new) /\ Preserved(x[1])
              THEN Updated(conf[x], ServiceOf(rl.new, x[1]), gen + 1)
              ELSE Cleared(conf[x], x[1] \notin Names(rl.new) \/ Replaced(x[1]))]
    BY Zenon, <1>2 DEF ReloadApplies
  <2>2. o[2] # gen + 1 /\ o[1] \in Name /\ o = <<o[1], o[2]>> /\ o[2] \in Nat
    BY ReloadAssumption DEF GenOK, Object, Gen
  <2>3. CASE Current(o) /\ o[1] \in Names(rl.new) /\ Preserved(o[1])
    <3>1. conf'[o].proc = [x \in DOMAIN conf[o].proc |->
                             IF x \in InPlace THEN ServiceOf(rl.new, o[1])[x] ELSE conf[o].proc[x]]
      BY Zenon, <2>1, <2>2, <2>3 DEF Updated
    <3>2. o[1] \in Here /\ Serving(o[1]) = o
      BY <2>2, <2>3 DEF Current, Here, Serving, None
    <3>3. "startup" \in DOMAIN conf[o].proc /\ "startup" \notin InPlace
      BY Zenon, <3>2 DEF Matching, Compared, InPlace
    <3>4. conf'[o].proc.startup = conf[o].proc.startup
      BY Zenon, <3>1, <3>3
    <3> QED
      BY Zenon, <3>4 DEF Startup
  <2>4. CASE ~(Current(o) /\ o[1] \in Names(rl.new) /\ Preserved(o[1]))
    <3>1. conf'[o].proc = conf[o].proc
      BY Zenon, <2>1, <2>2, <2>4 DEF Cleared
    <3> QED
      BY Zenon, <3>1
  <2> QED
    BY Zenon, <2>3, <2>4
<1> QED
  BY Zenon, <1>1, <1>2, NextMoves

(* The schedulers are started for the objects that are scheduled, and a    *)
(* tick or a timer stays with its object.                                  *)
LEMMA TimedKept ==
  ASSUME TypeOK, ReloadOK, GenOK, Matching, Timed, [Next]_vars
  PROVE  Timed'
<1> DEFINE Old(o) == o \in runners \cup ticks \cup {t.o : t \in timers}
           IsTimed(o) == o \in Object /\ o[2] <= gen /\ Startup(conf[o].proc) = "scheduled"
<1>1. ASSUME NEW o \in Object, o[2] <= gen, Startup(conf[o].proc) = "scheduled"
      PROVE  o[2] <= gen' /\ Startup(conf'[o].proc) = "scheduled"
  <2>1. gen' = gen \/ gen' = gen + 1
    BY Zenon, NextMoves DEF Settled, ReloadApplies
  <2>2. gen \in Nat /\ o[2] \in Nat
    BY ReloadAssumption DEF GenOK, Gen, Object
  <2> QED
    BY SMTT(30), <1>1, <2>1, <2>2, StartupStays
<1>2. ASSUME NEW o, Old(o) PROVE IsTimed(o)
  BY Zenon, <1>2 DEF Timed, Await
<1>3. \/ UNCHANGED <<runners, ticks, timers>>
      \/ ReloadApplies \/ ReloadFinishes
      \/ \E o \in Object : Tick(o) \/ startScheduledRun(o)
      \/ \E t \in timers : Overstays(t)
  <2>1. \/ UNCHANGED <<ticks, timers>>
        \/ \E o \in Object : Tick(o) \/ startScheduledRun(o)
        \/ \E t \in timers : Overstays(t)
    BY ZenonT(30) DEF Next, Reloading, Restarting, vars, goVars, ReloadReads, ReloadRefused, ReloadApplies, ReloadWaits,
       ReloadStarts, ReloadFinishes, SigHup, ReloadFn, SigTerm, Quit, StopAll, ProcessExits, Reap,
       handleRestartReq, StartFn, StopFn, RestartStops, RestartWaits, RestartStarts, RestartReady,
       LooksUp, RestartFn
  <2>2. UNCHANGED runners \/ ReloadApplies \/ ReloadFinishes
    BY ZenonT(30), ReloadFrame DEF Reloading, confVars, ReloadReads, ReloadRefused, ReloadWaits, ReloadStarts, SigHup,
       ReloadFn
  <2> QED
    BY SMTT(30), <2>1, <2>2
<1>4. /\ \A o \in runners' : IsTimed(o)
      /\ \A o \in ticks' : IsTimed(o)
      /\ \A t \in timers' : t \in Await /\ IsTimed(t.o)
  <2>1. CASE UNCHANGED <<runners, ticks, timers>>
    BY Zenon, <1>2, <2>1 DEF Timed
  <2>2. CASE ReloadApplies
    BY Zenon, <1>2, <2>2 DEF ReloadApplies, goVars, Timed
  <2>3. CASE ReloadFinishes
    <3>1. ASSUME NEW n \in Here PROVE Serving(n) \in Object /\ Serving(n)[2] <= gen
      BY Zenon, <3>1, ServingIsObject DEF GenOK, Here, Serving
    <3>2. /\ runners' = {Serving(n) : n \in {m \in Here : Startup(conf[Serving(m)].proc) = "scheduled"}}
          /\ UNCHANGED <<ticks, timers>>
      BY Zenon, <2>3 DEF ReloadFinishes, goVars
    <3>3. \A o \in runners' : IsTimed(o)
      BY Zenon, <3>1, <3>2
    <3> QED
      BY Zenon, <1>2, <3>2, <3>3 DEF Timed
  <2>4. CASE \E o \in Object : Tick(o)
    BY Zenon, <1>2, <2>4 DEF Tick, confVars, Timed
  <2>5. CASE \E o \in Object : startScheduledRun(o)
    <3>1. PICK o \in ticks :
            /\ UNCHANGED runners /\ ticks' \subseteq ticks
            /\ timers' = timers \/ timers' = timers \cup {[o |-> o, run |-> obj[o].runs + 1]}
      BY Zenon, <2>5 DEF startScheduledRun, confVars
    <3>2. IsTimed(o)
      BY Zenon, <1>2
    <3>3. [o |-> o, run |-> obj[o].runs + 1] \in Await
      BY <3>2 DEF TypeOK, Obj, Await
    <3>4. \A t \in timers' : t \in timers \/ (t \in Await /\ t.o = o)
      BY <3>1, <3>3
    <3> QED
      BY Zenon, <1>2, <3>1, <3>2, <3>4 DEF Timed
  <2>6. CASE \E t \in timers : Overstays(t)
    BY Zenon, <1>2, <2>6 DEF Overstays, confVars, Timed
  <2> QED
    BY Zenon, <1>3, <2>1, <2>2, <2>3, <2>4, <2>5, <2>6
<1> QED
  BY Zenon, <1>1, <1>4 DEF Timed

(* A reload keeps the account of what it preserves, and has on its list    *)
(* what it installs.                                                       *)
LEMMA ReloadAppliesAccounts ==
  ASSUME TypeOK, ReloadOK, GenOK, Matching, ReloadApplies, NEW n \in Here',
         n \in Here => Account(Serving(n))
  PROVE  Account(Serving(n))'
<1> DEFINE g == gen + 1
           p == ServiceOf(rl.new, n)
<1>1. gen \in Nat /\ g \in Gen /\ g # None
  BY ReloadAssumption DEF ReloadApplies, ReloadOK, GenOK, Gen, None
<1>2. /\ services' = [m \in Name |-> IF m \notin Names(rl.new) THEN None
                                     ELSE IF Preserved(m) THEN services[m] ELSE g]
      /\ obj' = [o \in Object |->
           IF Current(o) /\ ~(o[1] \in Names(rl.new) /\ Preserved(o[1])) THEN StopIfRunning(o) ELSE obj[o]]
  BY Zenon DEF ReloadApplies
<1>3. UNCHANGED <<reqs, th>>
  BY Zenon DEF ReloadApplies, goVars
<1>4. n \in Name /\ n \in Names(rl.new)
  BY Zenon, <1>2 DEF Here
<1>5. CASE Preserved(n)
  <2>1. PICK o : o = Serving(n)
    BY Zenon
  <2>2. n \in Here /\ Running(o) /\ Account(o) /\ o \in Object /\ o[1] = n /\ o[2] = services[n]
    BY Zenon, <1>5, <2>1, ServingIsObject DEF Preserved, Serving
  <2>3. Serving(n)' = o
    BY Zenon, <1>2, <1>4, <1>5, <2>1 DEF Serving
  <2>4. obj'[o] = obj[o]
    BY Zenon, <1>2, <1>4, <1>5, <2>2
  <2>5. o[2] <= gen
    BY Zenon, <1>4, <2>2 DEF GenOK
  <2>6. Startup(conf'[o].proc) = Startup(conf[o].proc)
    BY Zenon, <2>2, <2>5, StartupStays DEF Next, Reloading
  <2>7. Returns(o) => Returns(o)'
    BY Zenon, <1>3, <2>4 DEF Returns
  <2>8. Account(o)'
    BY Zenon, <2>2, <2>4, <2>6, <2>7 DEF Account, IsService, Running
  <2> QED
    BY Zenon, <2>3, <2>8
<1>6. CASE ~Preserved(n)
  <2>1. PICK o : o = <<n, g>>
    BY Zenon
  <2>2. Serving(n)' = o /\ o \in Object /\ o[1] = n /\ o[2] = g
    BY Zenon, <1>1, <1>2, <1>4, <1>6, <2>1 DEF Serving, Object
  <2>3. conf'[o].proc = p
    BY Zenon, <1>4, <2>2 DEF ReloadApplies, New
  <2>4. IsService(p) => Due(o)'
    <3>1. IsService(p) => n \in ToStart
      BY Zenon, <1>4, <1>6 DEF ToStart
    <3> QED
      BY Zenon, <2>1, <3>1, ReloadHolds DEF Due
  <2>5. obj'[o].pid = "none"
    <3>1. obj[o].pid = "none"
      BY <1>1, <2>2 DEF GenOK
    <3> QED
      BY Zenon, <1>2, <2>2, <3>1 DEF StopIfRunning, Running
  <2>6. Account(o)'
    BY Zenon, <2>3, <2>4, <2>5 DEF Account, Running
  <2> QED
    BY Zenon, <2>2, <2>6
<1> QED
  BY Zenon, <1>5, <1>6

(* Every step keeps the accounts; a shutdown closes them.                  *)
LEMMA AccountedKept ==
  ASSUME TypeOK, ReloadOK, GenOK, Matching, HoldersOK, Timed, Accounted, [Next]_vars
  PROVE  Accounted'
<1> SUFFICES ASSUME ~shuttingDown', ~quit', NEW n \in Here' PROVE Account(Serving(n))'
  BY Zenon DEF Accounted
<1>1. ~shuttingDown /\ ~quit
  <2>1. UNCHANGED <<shuttingDown, quit>> \/ shuttingDown' \/ (UNCHANGED shuttingDown /\ (quit => quit'))
    BY ZenonT(30) DEF Next, Reloading, Restarting, vars, endVars, initiateShutdown, ReloadReads, ReloadRefused,
       ReloadApplies, ReloadWaits, ReloadStarts, ReloadFinishes, SigHup, ReloadFn, SigTerm, Quit, StopAll,
       ProcessExits, Reap, Tick, startScheduledRun, handleRestartReq, Overstays, StartFn, StopFn,
       RestartStops, RestartWaits, RestartStarts, RestartReady, LooksUp, RestartFn
  <2> QED
    BY SMTT(30), <2>1
<1>2. \A m \in Here : Account(Serving(m))
  BY Zenon, <1>1 DEF Accounted
<1>3. CASE ReloadApplies
  BY Zenon, <1>2, <1>3, ReloadAppliesAccounts
<1>4. CASE Settled
  <2>1. PICK o : o = Serving(n)
    BY Zenon
  <2>2. o \in Object /\ Current(o) /\ Account(o) /\ Serving(n)' = o
    BY Zenon, <1>2, <1>4, <2>1, ServingIsObject DEF Settled, Here, Serving
  <2>3. CASE ReloadReads \/ ReloadRefused \/ ReloadWaits \/ ReloadStarts \/ ReloadFinishes \/ SigHup \/ ReloadFn
    BY Zenon, <1>1, <2>2, <2>3, ReloadAccounts
  <2>4. CASE \E c \in Client : Commands(c)
    BY Zenon, <1>1, <2>2, <2>4, CommandAccounts
  <2>5. CASE \E x \in Object : Reap(x)
    BY Zenon, <1>1, <2>2, <2>5, ReapAccounts
  <2>6. CASE \E r \in reqs : handleRestartReq(r)
    BY Zenon, <1>1, <2>2, <2>6, RequestAccounts
  <2>7. CASE \/ \E x \in Object : ProcessExits(x) \/ Tick(x) \/ startScheduledRun(x)
             \/ \E t \in timers : Overstays(t)
    BY Zenon, <1>1, <2>2, <2>7, OtherAccounts
  <2>8. ~(SigTerm \/ Quit \/ StopAll)
    BY Zenon, <1>1 DEF SigTerm, Quit, StopAll, initiateShutdown
  <2>9. CASE UNCHANGED vars
    <3>1. UNCHANGED <<conf, obj, reqs, rl, th>>
      BY Zenon, <2>9 DEF vars, confVars, goVars
    <3>2. (Due(o) => Due(o)') /\ (Returns(o) => Returns(o)')
      BY Zenon, <3>1 DEF Due, Pending, Returns
    <3> QED
      BY Zenon, <2>2, <3>1, <3>2, SameAccounts DEF Running
  <2>10. CASE ReloadApplies
    BY Zenon, <1>3, <2>10
  <2> QED
    BY Zenon, <2>2, <2>3, <2>4, <2>5, <2>6, <2>7, <2>8, <2>9, <2>10 DEF Next, Reloading, Restarting, Commands
<1> QED
  BY Zenon, <1>3, <1>4, NextMoves

-----------------------------------------------------------------------------
(* The inductive invariant                                                 *)

Inv ==
  /\ TypeOK /\ ReloadOK /\ GenOK /\ CurrentOrStopped /\ Matching
  /\ HoldersOK /\ AwaitedEnd /\ Timed /\ Accounted

(* At boot nobody waits, and the enabled services run.                     *)
LEMMA InitInv ==
  ASSUME Init
  PROVE  Inv
<1> DEFINE named(o) == o[2] = 0 /\ o[1] \in Names(cfg)
           starts(o) == IsService(ServiceOf(cfg, o[1]))
           up == [NotRun EXCEPT !.pid = "up", !.runs = 1]
<1>1. /\ services = [n \in Name |-> IF n \in Names(cfg) THEN 0 ELSE None]
      /\ conf = [o \in Object |-> IF named(o) THEN New(ServiceOf(cfg, o[1]), 0) ELSE <<>>]
      /\ obj = [o \in Object |-> IF named(o) /\ starts(o) THEN up ELSE NotRun]
  BY Zenon DEF Init
<1>2. /\ up \in Obj /\ NotRun \in Obj /\ NotRun.pid = "none"
      /\ up.pid = "up" /\ ~up.stopped /\ ~NotRun.down
  BY Zenon DEF NotRun, Obj
<1>3. PICK f \in BootFiles : cfg = Loaded(f)
  BY Zenon DEF Init
<1>4. \A n \in Names(cfg) : n \in Name /\ <<n, 0>> \in Object
  BY <1>3, EntryFields, ReloadAssumption DEF Object, Gen
<1>5. \A n \in Here : n \in Names(cfg) /\ services[n] = 0 /\ Serving(n) = <<n, 0>>
  BY Zenon, <1>1 DEF Here, Serving
<1>6. gen = 0 /\ reqs = {} /\ ticks = {} /\ timers = {} /\ th = [c \in Client |-> IdleClient]
  BY Zenon DEF Init
<1>7. /\ DOMAIN rl = ReloadFields /\ rl.pc = "idle" /\ rl.wait = {} /\ rl.start = <<>>
  BY Zenon DEF Init, IdleReload, ReloadFields
<1>8. \A n \in Here : conf[<<n, 0>>] = New(ServiceOf(cfg, n), 0)
  BY Zenon, <1>1, <1>4, <1>5
<1> HIDE DEF starts, up
<1>9. TypeOK
  BY Zenon, <1>1, <1>2 DEF TypeOK
<1>10. ReloadOK
  BY Zenon, <1>7 DEF ReloadOK
<1>11. \A o \in Object : Running(o) => named(o)
  BY Zenon, <1>1, <1>2 DEF Running
<1>12. GenOK
  BY <1>1, <1>6, <1>11, ReloadAssumption DEF GenOK, Gen, None, Running
<1>13. CurrentOrStopped
  BY Zenon, <1>1, <1>11 DEF CurrentOrStopped, Current, Object
<1>14. Matching
  <2> SUFFICES ASSUME NEW n \in Here
               PROVE  LET c == conf[<<n, 0>>]
                          p == ServiceOf(cfg, n)
                      IN  /\ Compared \cup InPlace \subseteq DOMAIN c.proc
                          /\ \A x \in {"args", "ready", "sd"} \cup InPlace : c.proc[x] = p[x]
                          /\ StartupField(c.proc) = StartupField(p)
                          /\ c.onFailure = p.onFailure /\ c.onSuccess = p.onSuccess /\ c.tg = gen
    BY Zenon, <1>5 DEF Matching
  <2>1. Compared \cup InPlace \subseteq DOMAIN ServiceOf(cfg, n)
    BY SMTT(30), <1>3, <1>5, EntryFields
  <2> DEFINE p == ServiceOf(cfg, n)
  <2> HIDE DEF p
  <2>2. conf[<<n, 0>>] = New(p, 0)
    BY Zenon, <1>8 DEF p
  <2>3. /\ New(p, 0).proc = p /\ New(p, 0).tg = 0
        /\ New(p, 0).onFailure = p.onFailure /\ New(p, 0).onSuccess = p.onSuccess
    BY Zenon DEF New
  <2> QED
    BY SMTT(30), <1>6, <2>1, <2>2, <2>3 DEF p
<1>15. HoldersOK
  BY <1>6, <1>7, IdleIsOK DEF HoldersOK
<1>16. AwaitedEnd
  BY Zenon, <1>6, <1>7 DEF AwaitedEnd, IdleClient
<1>17. Timed
  <2>1. runners = {<<n, 0>> : n \in {m \in Names(cfg) : Startup(ServiceOf(cfg, m)) = "scheduled"}}
    BY Zenon DEF Init
  <2>2. ASSUME NEW n \in Names(cfg), Startup(ServiceOf(cfg, n)) = "scheduled"
        PROVE  <<n, 0>> \in Object /\ Startup(conf[<<n, 0>>].proc) = "scheduled"
    BY Zenon, <1>1, <1>4, <2>2 DEF New
  <2>3. \A o \in runners : o \in Object /\ o[2] <= gen /\ Startup(conf[o].proc) = "scheduled"
    BY <1>6, <2>1, <2>2
  <2> QED
    BY Zenon, <1>6, <2>3 DEF Timed
<1>18. Accounted
  <2> SUFFICES ASSUME NEW n \in Here PROVE Account(<<n, 0>>)
    BY Zenon, <1>5 DEF Accounted
  <2>1. IsService(conf[<<n, 0>>].proc) => obj[<<n, 0>>] = up
    BY Zenon, <1>1, <1>4, <1>5, <1>8 DEF New, starts
  <2> QED
    BY Zenon, <1>2, <2>1 DEF Account, Running
<1> QED
  BY Zenon, <1>9, <1>10, <1>12, <1>13, <1>14, <1>15, <1>16, <1>17, <1>18 DEF Inv

(* It is kept, conjunct by conjunct.                                       *)
LEMMA InvInductive ==
  ASSUME Inv, [Next]_vars
  PROVE  Inv'
<1>1. TypeOK'
  BY Zenon, NextMoves DEF Inv, Moved, TypeOK
<1>2. ReloadOK' /\ GenOK' /\ CurrentOrStopped' /\ Matching'
  BY Zenon, ReloadOKKept, GenOKKept, CurrentOrStoppedKept, MatchingKept DEF Inv
<1>3. HoldersOK' /\ AwaitedEnd' /\ Timed' /\ Accounted'
  BY Zenon, HoldersKept, AwaitedEndKept, TimedKept, AccountedKept DEF Inv
<1> QED
  BY Zenon, <1>1, <1>2, <1>3 DEF Inv

(* So it holds in every reachable state.                                   *)
LEMMA InvHolds == Spec => []Inv
<1>1. Init => Inv
  BY Zenon, InitInv
<1>2. Inv /\ [Next]_vars => Inv'
  BY Zenon, InvInductive
<1> QED
  BY <1>1, <1>2, PTL DEF Spec

(* startService refuses an object that a reload replaced, and reload()     *)
(* stops what it replaces or removes: in every behaviour, a process that   *)
(* nobody told to stop belongs to the object that d.services holds.        *)
THEOREM NoStrayProcess == Spec => []CurrentOrStopped
<1>1. Inv => CurrentOrStopped
  BY Zenon DEF Inv
<1> QED
  BY <1>1, InvHolds, PTL

(* Two live processes of one name are one process.                         *)
OneCopy ==
  \A o, p \in Object : Live(obj, o) /\ Live(obj, p) /\ o[1] = p[1] => o = p

(* So a restart request, a tick or a command that captured an object       *)
(* before a reload never adds a second copy of the service beside the one  *)
(* that the reload started.                                                *)
THEOREM OneCopyPerName == Spec => []OneCopy
<1>1. CurrentOrStopped => OneCopy
  BY DEF CurrentOrStopped, OneCopy, Live, Running, Current, Object
<1> QED
  BY <1>1, NoStrayProcess, PTL

(* What reload() updates in place and what processConfigChanged compares   *)
(* are together all that a running service was configured with: whatever   *)
(* files are loaded, one after the other, a process that a reload left     *)
(* running is the one its last file describes.                             *)
THEOREM ReloadsTakeEffect == Spec => []ConfigTakesEffect
<1>1. Matching => ConfigTakesEffect
  BY Zenon DEF Matching, ConfigTakesEffect, InPlace
<1> QED
  BY <1>1, InvHolds, PTL DEF Inv

(* No wait of reload(), stopForRestart or handleRestartReq is for a run    *)
(* that nobody told to stop, so none is for ever.                          *)
THEOREM NobodyWaitsForNothing == Spec => []AwaitedRunsAreStopped
<1>1. AwaitedEnd => AwaitedRunsAreStopped
  BY Zenon DEF AwaitedEnd, AwaitedRunsAreStopped, Ending
<1> QED
  BY <1>1, InvHolds, PTL DEF Inv

(* No interleaving of reloads, restarts, exits and ordered restarts loses  *)
(* a service: one that is down, and for which there is no reason, is       *)
(* about to be started.                                                    *)
THEOREM NoServiceIsLost == Spec => []DownIsAccountedFor
<1>1. Inv => DownIsAccountedFor
  <2> SUFFICES ASSUME Inv, ~shuttingDown, ~quit, NEW n \in Here, NEW o, o = Serving(n),
                      IsService(conf[o].proc), ~Running(o), ~obj[o].down
               PROVE  \/ \E r \in reqs : r.o = o
                      \/ \E i \in DOMAIN rl.start : rl.start[i] = o
                      \/ \E c \in Client : \E i \in DOMAIN th[c].starts : th[c].starts[i] = o
    BY Zenon DEF DownIsAccountedFor
  <2>1. Due(o)
    BY Zenon DEF Inv, Accounted, Account
  <2>2. ASSUME NEW c \in Client PROVE Pending(c) \subseteq Elements(th[c].starts)
    <3>1. th[c].pc = "ready" => th[c].starts \in Seq(Object) /\ th[c].starts # <<>>
      BY Zenon, <2>2 DEF Inv, HoldersOK, CommandOK, CommandType
    <3> QED
      BY Zenon, <3>1, HeadTail DEF Pending
  <2> QED
    BY Zenon, <2>1, <2>2 DEF Due, Elements
<1> QED
  BY <1>1, InvHolds, PTL
=============================================================================
