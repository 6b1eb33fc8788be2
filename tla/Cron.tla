-------------------------------- MODULE Cron --------------------------------
(***************************************************************************)
(* internal/cron: a cron expression, the schedule it is parsed to, and one *)
(* step of the search for the next time that matches.                      *)
(*                                                                         *)
(* An expression is five fields, a field a sequence of list items.  An     *)
(* item is [kind, lo, hi, step]: "*", "lo" or "lo-hi"; step 0 stands for   *)
(* no "/step".  Names of months and days stand for their numbers.          *)
(***************************************************************************)
EXTENDS Calendar, Sequences

(* fieldDefs: minute, hour, day of month, month, day of week.              *)
Min == <<0, 0, 1, 1, 0>>
Max == <<MinutesPerHour - 1, HoursPerDay - 1, 31, 12, 7>>

-----------------------------------------------------------------------------
(* Parse                                                                   *)

(* parseValue: in bounds.                                                  *)
ParseValue(v, i) == v \in Min[i]..Max[i]

ItemOK(item, i) ==
  /\ item.step >= 0
  /\ item.kind \in {"one", "range"} => ParseValue(item.lo, i)
  /\ item.kind = "range" => ParseValue(item.hi, i) /\ item.lo <= item.hi

Lo(item, i) == IF item.kind = "*" THEN Min[i] ELSE item.lo
Hi(item, i) ==
  IF item.kind = "range" THEN item.hi
  ELSE IF item.kind = "one" /\ item.step = 0 THEN item.lo ELSE Max[i]
Step(item) == IF item.step = 0 THEN 1 ELSE item.step

(* The bit mask of a field, as a set.                                      *)
ParseField(field, i) ==
  UNION {{v \in Lo(field[k], i)..Hi(field[k], i) : (v - Lo(field[k], i)) % Step(field[k]) = 0}
         : k \in DOMAIN field}
Star(field) == Len(field) = 1 /\ field[1].kind = "*" /\ field[1].step = 0

ParseError(expr) == \E i \in 1..5 : \E k \in DOMAIN expr[i] : ~ItemOK(expr[i][k], i)

(* Day 7 is Sunday, as day 0 is.                                           *)
Sunday(days) == {v % 7 : v \in days}

Parse(expr) ==
  [minute |-> ParseField(expr[1], 1), hour |-> ParseField(expr[2], 2),
   dom |-> ParseField(expr[3], 3), month |-> ParseField(expr[4], 4),
   dow |-> Sunday(ParseField(expr[5], 5)),
   domStar |-> Star(expr[3]), dowStar |-> Star(expr[5])]

-----------------------------------------------------------------------------
(* Next                                                                    *)

DayMatchesMut(s, c) == c.day \in s.dom \/ c.weekday \in s.dow  \* stars not looked at
DayMatches(s, c) ==
  LET domOK == c.day \in s.dom
      dowOK == c.weekday \in s.dow IN
  IF ~s.domStar /\ ~s.dowStar THEN domOK \/ dowOK ELSE domOK /\ dowOK

(* The first candidate: the next whole minute.                             *)
First(after) ==
  LET c == Civil(after) IN Date(c.year, c.month, c.day, c.hour, c.minute) + 1

(* nextLimitYears.                                                         *)
Limit(after) ==
  LET c == Civil(after) IN Date(c.year + 9, c.month, c.day, c.hour, c.minute)

Found(s, t) ==
  LET c == Civil(t) IN
  c.month \in s.month /\ DayMatches(s, c) /\ c.hour \in s.hour /\ c.minute \in s.minute

NextMonth(c) == Date(c.year, c.month + 1, 1, 0, 0)
NextDay(c) == Date(c.year, c.month, c.day + 1, 0, 0)
NextHour(c) == Date(c.year, c.month, c.day, c.hour + 1, 0)

(* One iteration that does not return.                                     *)
Advance(s, t) ==
  LET c == Civil(t) IN
  CASE c.month \notin s.month -> NextMonth(c)
    [] c.month \in s.month /\ ~DayMatches(s, c) -> NextDay(c)
    [] c.month \in s.month /\ DayMatches(s, c) /\ c.hour \notin s.hour -> NextHour(c)
    [] OTHER -> t + 1
=============================================================================
