------------------------------ MODULE MCReload ------------------------------
(* A service, one that requires it, and a scheduled one, under the files   *)
(* below.                                                                  *)
EXTENDS Reload

Value(v) == [template |-> FALSE, value |-> v]
P(n) ==
  [name |-> n, startup |-> Value("enabled"), schedule |-> "none", actions |-> FALSE,
   after |-> {}, before |-> {}, requires |-> {}, ready |-> NoCheck, onCheck |-> {},
   env |-> TRUE, malformed |-> FALSE, rewrite |-> {}, entry |-> FALSE, sd |-> FALSE,
   timeout |-> "none", exitMap |-> {}, cond |-> FALSE, args |-> 1, rwd |-> FALSE,
   onSuccess |-> "shutdown", onFailure |-> "restart"]
File(procs) == [stop |-> {}, procs |-> procs, checks |-> {"k"}]

A == [P("a") EXCEPT !.rwd = TRUE]
B == [P("b") EXCEPT !.requires = {"a"}, !.sd = TRUE]
S == [P("b") EXCEPT !.startup = Value("scheduled"), !.schedule = "ok", !.timeout = "ok"]

Plain == File(<<A, B>>)
Timed == File(<<[A EXCEPT !.onFailure = "ignore"], S>>)
MCBootFiles == {Plain, Timed}
MCFiles ==
  {Plain, Timed, File(<<[A EXCEPT !.args = 2, !.cond = TRUE], B>>),
   [File(<<A>>) EXCEPT !.checks = {}],
   File(<<[A EXCEPT !.after = {"b"}], B>>)}
MCName == {"a", "b"}
=============================================================================
