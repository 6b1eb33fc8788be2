---------------------------- MODULE MCScheduler -----------------------------
(* Instances of Scheduler for TLC: days of four hours of two minutes.      *)
EXTENDS Scheduler

Any == <<[kind |-> "*", lo |-> 0, hi |-> 0, step |-> 0]>>
Each(n) == <<[kind |-> "*", lo |-> 0, hi |-> 0, step |-> n]>>
One(v) == <<[kind |-> "one", lo |-> v, hi |-> v, step |-> 0]>>
From(v, n) == <<[kind |-> "one", lo |-> v, hi |-> v, step |-> n]>>
To(a, b, n) == <<[kind |-> "range", lo |-> a, hi |-> b, step |-> n]>>

Times == {<<Any, Any>>, <<One(1), One(3)>>, <<Each(2), From(1, 2)>>}
Dates ==
  {<<Any, Any, Any>>, <<One(29), One(2), Any>>, <<One(30), One(2), Any>>,
   <<One(31), To(1, 12, 3), Any>>, <<Any, Any, One(7)>>, <<Each(1), One(6), One(1)>>,
   <<One(13), One(2) \o One(12), One(5)>>, <<To(28, 31, 2), Any, To(1, 5, 0)>>,
   <<One(0), Any, Any>>, <<Any, To(5, 3, 0), Any>>}
AllExprs == {tm \o da : tm \in Times, da \in Dates}
DailyExprs == {<<One(0), One(h), Any, Any, Any>> : h \in 1..3} \cup {<<One(0), Any, Any, Any, Any>>}

(* A location without daylight saving.                                     *)
Fixed == [std |-> 2, dst |-> 2, from |-> 0, until |-> 0]
LocalTime(y, mo, d, h, mi) == DayNumber[y, mo, d] * 8 + h * 2 + mi - 2
AllBoots ==
  {LocalTime(2096, 2, 29, 3, 1), LocalTime(2023, 12, 31, 3, 1), LocalTime(2024, 2, 28, 2, 0)}

(* Two hours west of UTC, one in summer: at 2:00 on 10 March the clock     *)
(* goes to 3:00, at 2:00 on 3 November to 1:00.                            *)
West ==
  [std |-> -4, dst |-> -2,
   from |-> DayNumber[2024, 3, 10] * 8 + 4 + 4, until |-> DayNumber[2024, 11, 3] * 8 + 4 + 2]
SpringBoots == {DayNumber[2024, 3, 9] * 8 + 4}
=============================================================================
