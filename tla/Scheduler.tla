----------------------------- MODULE Scheduler ------------------------------
(***************************************************************************)
(* schedRunner.loop: one scheduled service, the search for its next tick,  *)
(* the timer, the start, and stop().                                       *)
(*                                                                         *)
(* The wall clock moves while the loop sleeps or while a start waits for   *)
(* d.mu; a loop that is ready to run does not lose a whole minute.  The    *)
(* clock is not set by anybody.                                            *)
(***************************************************************************)
EXTENDS Cron

CONSTANTS
  Exprs,     \* cron expressions
  Boots,     \* times at which startSchedulers may run
  MaxTicks,  \* ticks that are followed
  MaxDelay   \* minutes a start may wait for d.mu

ASSUME SchedulerAssumption == MaxTicks \in Nat /\ MaxDelay \in Nat

VARIABLES
  expr, sched,  \* the expression and what Parse made of it
  clock,
  pc,
  after, t,     \* the argument of Next and its candidate, then its result
  running,      \* svc.IsRunning
  stopped,      \* stopCh is closed
  ticks         \* history: ticks taken

search == <<after, t>>
vars == <<expr, sched, clock, pc, search, running, stopped, ticks>>

TypeOK ==
  /\ expr \in Exprs /\ sched = Parse(expr)
  /\ clock \in Nat /\ after \in Nat /\ t \in Nat
  /\ pc \in {"loop", "search", "select", "start", "exhausted", "ended"}
  /\ running \in BOOLEAN /\ stopped \in BOOLEAN
  /\ ticks \in 0..MaxTicks

(* An expression that does not parse is refused with the configuration.    *)
Init ==
  /\ expr \in {e \in Exprs : ~ParseError(e)} /\ sched = Parse(expr)
  /\ clock \in Boots /\ after = clock /\ t = clock
  /\ pc = "loop" /\ running = FALSE /\ stopped = FALSE
  /\ ticks = 0

-----------------------------------------------------------------------------
(* now := time.Now(); Next(now)                                            *)

Loop ==
  /\ pc = "loop" /\ pc' = "search"
  /\ ticks < MaxTicks
  /\ after' = clock /\ t' = First(clock)
  /\ UNCHANGED <<expr, sched, clock, running, stopped, ticks>>

Search ==
  /\ pc = "search" /\ t <= Limit(after) /\ ~Found(sched, t)
  /\ t' = Advance(sched, t)
  /\ UNCHANGED <<expr, sched, clock, pc, after, running, stopped, ticks>>

Match ==
  /\ pc = "search" /\ t <= Limit(after) /\ Found(sched, t)
  /\ pc' = "select"
  /\ UNCHANGED <<expr, sched, clock, search, running, stopped, ticks>>

(* The zero time: scheduling stops.                                        *)
Exhausted ==
  /\ pc = "search" /\ t > Limit(after)
  /\ pc' = "exhausted"
  /\ UNCHANGED <<expr, sched, clock, search, running, stopped, ticks>>

-----------------------------------------------------------------------------
(* The select: timer or stopCh; with both ready, either.                   *)

Sleep ==
  /\ pc = "select" /\ ~stopped /\ clock < t /\ clock' = t
  /\ UNCHANGED <<expr, sched, pc, search, running, stopped, ticks>>

Tick ==
  /\ pc = "select" /\ clock >= t
  /\ pc' = IF running THEN "loop" ELSE "start"
  /\ ticks' = ticks + 1
  /\ UNCHANGED <<expr, sched, clock, search, running, stopped>>

LeaveMut == FALSE  \* no case <-r.stopCh
Leave ==
  /\ pc = "select" /\ stopped /\ pc' = "ended"
  /\ UNCHANGED <<expr, sched, clock, search, running, stopped, ticks>>

(* startScheduledRun: startService waits for d.mu, and may refuse.  A run  *)
(* that its startup-timeout stops is one that ends.                        *)
Start ==
  /\ pc = "start" /\ pc' = "loop"
  /\ running' \in BOOLEAN
  /\ clock' \in clock..(clock + MaxDelay)
  /\ UNCHANGED <<expr, sched, search, stopped, ticks>>

RunEnds ==
  /\ running /\ running' = FALSE
  /\ UNCHANGED <<expr, sched, clock, pc, search, stopped, ticks>>

(* stopSchedulers, by reload or at the end of run().                       *)
Stop ==
  /\ ~stopped /\ stopped' = TRUE
  /\ UNCHANGED <<expr, sched, clock, pc, search, running, ticks>>

Runner == Loop \/ Search \/ Match \/ Exhausted \/ Tick \/ Start
Next == Runner \/ Sleep \/ Leave \/ RunEnds \/ Stop

Spec == Init /\ [][Next]_vars

(* The goroutine runs and its timer fires; a select takes each of two      *)
(* branches that stay ready.                                               *)
FairSpec == Spec /\ WF_vars(Runner) /\ WF_vars(Sleep) /\ SF_vars(Leave)
-----------------------------------------------------------------------------
(* What the expression says, without the parser: cron(5).                  *)

Has(field, i, v) ==
  \E k \in DOMAIN field :
    LET f == field[k] IN
    CASE f.kind = "*" -> f.step = 0 \/ (v - Min[i]) % f.step = 0
      [] f.kind = "one" -> v = f.lo \/ (f.step > 0 /\ v >= f.lo /\ (v - f.lo) % f.step = 0)
      [] f.kind = "range" -> v >= f.lo /\ v <= f.hi /\ (f.step = 0 \/ (v - f.lo) % f.step = 0)
HasDay(e, day, weekday) ==
  LET dom == Has(e[3], 3, day)
      dow == Has(e[5], 5, weekday) \/ (weekday = 0 /\ Has(e[5], 5, 7)) IN
  IF Star(e[3]) THEN dow ELSE IF Star(e[5]) THEN dom ELSE dom \/ dow
Matches(u) ==
  LET c == Civil(u) IN
  /\ Has(expr[4], 4, c.month) /\ HasDay(expr, c.day, c.weekday)
  /\ Has(expr[2], 2, c.hour) /\ Has(expr[1], 1, c.minute)
NoneMatches(a, b) == \A u \in a..(b - 1) : ~Matches(u)

NeverMatches ==
  ~\E mo \in 1..12 : Has(expr[4], 4, mo) /\
     \E d \in 1..(DayNumber[2000, mo + 1, 1] - DayNumber[2000, mo, 1]) :
       \E w \in 0..6 : HasDay(expr, d, w)

(* Next(now) is the first minute after now that the expression describes:  *)
(* neither the first candidate nor the jumps to the next month, day and    *)
(* hour pass over a matching minute, the result matches, and scheduling    *)
(* stops for want of one only if no date, 29 February included, ever does. *)
NextIsFirstMatch ==
  [][/\ pc = "search" => NoneMatches(t, t')
     /\ pc = "loop" /\ pc' = "search" => t' > clock /\ NoneMatches(clock + 1, t')
     /\ pc = "search" /\ pc' = "select" => Matches(t)
     /\ pc' = "exhausted" => NeverMatches]_vars

(* Every iteration of the search moves on, so that Next returns: it stops  *)
(* at its limit at the latest.                                             *)
SearchAdvances ==
  pc = "search" /\ t <= Limit(after) /\ ~Found(sched, t) => Advance(sched, t) > t

(* A stopped runner's goroutine ends, so every search for a tick ends too, *)
(* unless its ticks are no longer followed.                                *)
StoppedRunnersEnd == stopped ~> pc \in {"ended", "exhausted"} \/ ticks = MaxTicks
=============================================================================
