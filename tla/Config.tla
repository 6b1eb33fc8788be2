------------------------------- MODULE Config -------------------------------
(***************************************************************************)
(* yml.Unmarshal: which configuration files load, and what a loaded one    *)
(* holds.  Only the fields that other parts of the system act on are kept; *)
(* "malformed" stands for any field that parseProcess, parseCheck or       *)
(* Unmarshal reject by looking at its text alone.                          *)
(*                                                                         *)
(* A file is [stop, procs, checks]: the init-stop-signal set (empty when   *)
(* not given), the process entries in order, and the defined checks.       *)
(***************************************************************************)
EXTENDS Integers, Sequences, FiniteSets

NoCheck == "none"

(* startup is expanded first; an empty value that came from a reference    *)
(* means disabled, a literal empty one enabled.                            *)
Startup(p) ==
  IF p.startup.value = "" THEN IF p.startup.template THEN "disabled" ELSE "enabled"
  ELSE p.startup.value

StartupKinds == {"enabled", "disabled", "oneshot", "scheduled"}

ParseFails(p) == Startup(p) \notin StartupKinds \/ p.malformed

ShutdownSignals(file) == IF file.stop = {} THEN {"SIGTERM", "SIGINT"} ELSE file.stop

(* Under the scheduled contract: scheduled, or disabled with a schedule.   *)
OnSchedule(p) == Startup(p) = "scheduled" \/ (Startup(p) = "disabled" /\ p.schedule # "none")

Deps(p) == p.after \cup p.before \cup p.requires

ScheduledSet(file) == {file.procs[i].name : i \in {j \in DOMAIN file.procs : OnSchedule(file.procs[j])}}

(* validateScheduled: a schedule that parses, no exit actions, no backoff, *)
(* no ordering; nobody orders against a scheduled service.                 *)
ScheduledInvalid(p, scheduled) ==
  \/ OnSchedule(p) /\ (p.schedule # "ok" \/ p.actions \/ Deps(p) # {} \/ p.timeout = "bad")
  \/ ~OnSchedule(p) /\ p.schedule # "none"
  \/ Deps(p) \cap scheduled # {}

(* validateSignalRewrite: signals gopherd acts on itself are reserved.     *)
RewriteInvalid(p, shutdown) == p.rewrite \cap (shutdown \cup {"SIGHUP"}) # {}

Rejected(file) ==
  \/ \E i \in DOMAIN file.procs : ParseFails(file.procs[i])
  \/ file.procs = <<>>
  \/ \E i \in DOMAIN file.procs :
       \/ RewriteInvalid(file.procs[i], ShutdownSignals(file))
       \/ ScheduledInvalid(file.procs[i], ScheduledSet(file))

(* conditionEnvUnmet marks a process; its name is what is excluded.        *)
Unmet(p) == ~p.env
Excluded(file) == {file.procs[i].name : i \in {j \in DOMAIN file.procs : Unmet(file.procs[j])}}

(* excludeOrphanedChecks: a check goes when all its users are excluded.    *)
Uses(p, c) == c = p.ready \/ c \in p.onCheck
KeptChecks(file) ==
  {c \in file.checks :
    LET users == {file.procs[i].name : i \in {j \in DOMAIN file.procs : Uses(file.procs[j], c)}}
    IN  users = {} \/ ~(users \subseteq Excluded(file))}

(* excludeProcesses: the excluded entries go, and the edges to them.       *)
StripMut(p, gone) == [p EXCEPT !.after = @ \ gone, !.requires = @ \ gone]  \* before is kept
Strip(p, gone) ==
  [p EXCEPT !.after = @ \ gone, !.before = @ \ gone, !.requires = @ \ gone]

excludeProcesses(procs, excluded) ==
  LET keep[k \in 0..Len(procs)] ==
        IF k = 0 THEN <<>>
        ELSE IF procs[k].name \in excluded THEN keep[k - 1]
        ELSE Append(keep[k - 1], Strip(procs[k], excluded))
  IN  keep[Len(procs)]

KeptProcs(file) == excludeProcesses(file.procs, Excluded(file))

(* The Config that Unmarshal returns for a file that loads.                *)
Loaded(file) == [procs |-> KeptProcs(file), checks |-> KeptChecks(file)]

(* run() and reload() accept one user of the entrypoint arguments.         *)
EntrypointClash(c) == Cardinality({i \in DOMAIN c.procs : c.procs[i].entry}) > 1

buildOrderServices(c) ==
  [i \in DOMAIN c.procs |->
    [name |-> c.procs[i].name, after |-> c.procs[i].after,
     before |-> c.procs[i].before, requires |-> c.procs[i].requires]]

(* buildServices: the service map (TopoSort has refused duplicates).       *)
ServiceOf(c, n) == c.procs[CHOOSE i \in DOMAIN c.procs : c.procs[i].name = n]

-----------------------------------------------------------------------------
(* "Flipping the gate can never surface a new config error": a disabled    *)
(* service with a schedule that loads also loads once its startup          *)
(* reference resolves to scheduled.                                        *)
GateFlipIsSafe(file) ==
  \A i \in DOMAIN file.procs :
    LET p == file.procs[i]
        flipped == [file EXCEPT !.procs[i].startup.value = "scheduled"]
    IN  /\ p.startup.template /\ Startup(p) = "disabled" /\ p.schedule # "none"
        /\ ~Rejected(file)
        => ~Rejected(flipped)

(* "The survivors order as if the entry were absent": excluding a process  *)
(* leaves no reference to it, drops no ordering between two survivors and  *)
(* takes no check from one.                                                *)
ExclusionIsAbsence(file) ==
  ~Rejected(file) =>
    LET gone == Excluded(file)
        Before(s, a, b) ==
          \E i \in DOMAIN s : \/ s[i].name = b /\ a \in s[i].after \cup s[i].requires
                              \/ s[i].name = a /\ b \in s[i].before
        Named2(s) == UNION {Deps(s[i]) \cup {s[i].name} : i \in DOMAIN s}
        kept == Loaded(file).procs
    IN  /\ Named2(kept) \cap gone = {}
        /\ \A a, b \in Named2(file.procs) \ gone :
             Before(kept, a, b) <=> Before(file.procs, a, b)
        /\ \A i \in DOMAIN kept :
             (kept[i].onCheck \cup {kept[i].ready}) \cap file.checks \subseteq Loaded(file).checks
=============================================================================
