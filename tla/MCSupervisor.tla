---------------------------- MODULE MCSupervisor ----------------------------
(* Instances of Supervisor for TLC.                                        *)
EXTENDS Supervisor, TLC

CONSTANTS db, web, job, p1, p2, p3

OneSvc == {db}
ThreeSvc == {db, web, job}
MCNameOf == [s \in Svc |-> IF s = db THEN "db" ELSE IF s = web THEN "web" ELSE "job"]
MCName == {MCNameOf[s] : s \in Svc}
MCPid2 == {p1, p2}
MCPid3 == {p1, p2, p3}
MCGor2 == 1..2
MCGor4 == 1..4
Empty == {}
OneSeq == <<"db">>
(* web is in no order, for the loop over what the order does not cover.    *)
TwoSeq == <<"db", "job">>

Codes == {0, 1}
SignalCodes == {0, 1, 143}
Unmapped == [s \in Svc |-> [c \in Code |-> c]]
(* db reports its SIGTERM exit as a failure of its own.                    *)
Mapped == [s \in Svc |-> [c \in Code |-> IF s = db /\ c = 143 THEN 1 ELSE c]]

AllIgnored == [s \in Svc |-> "ignore"]
DbRestarts == [s \in Svc |-> IF s = db THEN "restart" ELSE "ignore"]
(* Three kinds: db is a service with a file condition, web is scheduled,   *)
(* and job is a oneshot that requires db; a failing job ends the daemon.   *)
JobRequiresDb == [s \in Svc |-> IF s = job THEN {"db"} ELSE {}]
JobSucceeds == [s \in Svc |-> IF s = db THEN "restart" ELSE IF s = job THEN "success-shutdown" ELSE "ignore"]
CheckEndsJob == [s \in Svc |-> IF s = db THEN "restart" ELSE IF s = job THEN "failure-shutdown" ELSE "none"]
JustDb == {db}
JustWeb == {web}
JustJob == {job}

PidSymmetry == Permutations(Pid)
=============================================================================
