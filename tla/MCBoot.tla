------------------------------- MODULE MCBoot -------------------------------
(* Startup with up to three services and one client, over the files below. *)
EXTENDS Boot

Value(v) == [template |-> FALSE, value |-> v]
Ref(v) == [template |-> TRUE, value |-> v]
P(n) ==
  [name |-> n, startup |-> Value("enabled"), schedule |-> "none", actions |-> FALSE,
   after |-> {}, before |-> {}, requires |-> {}, ready |-> NoCheck, onCheck |-> {},
   env |-> TRUE, malformed |-> FALSE, rewrite |-> {}, entry |-> FALSE, sd |-> FALSE,
   timeout |-> "none", exitMap |-> {}, ignore |-> FALSE, cond |-> FALSE]
Off(n) == [P(n) EXCEPT !.startup = Value("disabled")]
Oneshot(n) == [P(n) EXCEPT !.startup = Value("oneshot")]
File(procs) == [stop |-> {}, procs |-> procs, checks |-> {"k"}]

(* Every graph of three services written with after, and some with before  *)
(* and requires, a name that is not there and a name that is there twice.  *)
Graphs ==
  {File(<<[Off("a") EXCEPT !.after = x], [Off("b") EXCEPT !.after = y],
          [Off("c") EXCEPT !.after = z]>>) :
     x \in SUBSET {"a", "b", "c"}, y \in SUBSET {"a", "c"}, z \in SUBSET {"a", "b"}}
  \cup
  {File(<<[Off("a") EXCEPT !.before = x], [Off("b") EXCEPT !.requires = y],
          [Off(n) EXCEPT !.after = {"a"}]>>) :
     x \in SUBSET {"b", "c"}, y \in {{}, {"c"}, {"x"}, {"a", "c"}}, n \in {"b", "c"}}

(* Two services of the kinds that startup treats differently, the second   *)
(* after the first, and oneshots of one layer.                             *)
Oneshots(n) ==
  LET o == Oneshot(n)
  IN  {o, [o EXCEPT !.timeout = "ok"], [o EXCEPT !.ignore = TRUE, !.timeout = "ok"],
       [o EXCEPT !.cond = TRUE, !.exitMap = {1}]}
Services(n) ==
  LET p == P(n)
  IN  {p, [p EXCEPT !.sd = TRUE], [p EXCEPT !.ready = "k"], [p EXCEPT !.cond = TRUE],
       [p EXCEPT !.startup = Ref("")]}
Pairs ==
  {File(<<x, [y EXCEPT !.requires = {"a"}]>>) :
     x \in Oneshots("a") \cup Services("a"),
     y \in {Oneshot("b"), [P("b") EXCEPT !.sd = TRUE, !.ready = "k"]}}
  \cup
  {File(<<[Oneshot("a") EXCEPT !.timeout = "ok"], y>>) :
     y \in {[P("b") EXCEPT !.ready = "absent"], [Oneshot("b") EXCEPT !.timeout = "bad"],
            [Oneshot("b") EXCEPT !.cond = TRUE, !.exitMap = {1}]}}

(* Files that differ in what Unmarshal looks at.                           *)
Gates ==
  {File(<<[Off("a") EXCEPT !.startup = s, !.schedule = c, !.actions = x, !.after = d],
          [Off("b") EXCEPT !.before = e]>>) :
     s \in {Ref(""), Ref("scheduled"), Value("")}, c \in {"none", "ok", "bad"},
     x \in BOOLEAN, d \in {{}, {"b"}}, e \in {{}, {"a"}}}
Exclusions ==
  {File(<<[Off("a") EXCEPT !.env = x, !.onCheck = {"k"}],
          [Off("b") EXCEPT !.env = y, !.before = {"a", "c"}, !.ready = "k"],
          [Off("c") EXCEPT !.after = {"a"}, !.requires = {"b"}]>>) :
     x, y \in BOOLEAN}
Refusals ==
  {File(<<>>), File(<<[P("a") EXCEPT !.malformed = TRUE]>>),
   File(<<[P("a") EXCEPT !.startup = Value("never")]>>),
   File(<<[P("a") EXCEPT !.entry = TRUE], [P("b") EXCEPT !.entry = TRUE]>>),
   File(<<[P("a") EXCEPT !.rewrite = {"SIGINT"}]>>),
   [File(<<[P("a") EXCEPT !.rewrite = {"SIGINT"}]>>) EXCEPT !.stop = {"SIGQUIT"}]}

MCFiles == Graphs \cup Pairs \cup Gates \cup Exclusions \cup Refusals
MCName == {"a", "b", "c", "x"}
=============================================================================
