--------------------------- MODULE RotationProofs ---------------------------
(***************************************************************************)
(* For every size, number of files and number of faults: the numbers of    *)
(* the rotated files are their ages, and no more of them are missing than  *)
(* rotations or shifts were spoilt.                                        *)
(*                                                                         *)
(* The first is an order on the files (Ages).  The second counts holes:    *)
(* the slots below a file hold newer ones, but for as many as were spoilt  *)
(* (Holes), so what is dropped from the last slot has as many newer files  *)
(* kept as there should be.  While the loop runs, a file it has passed     *)
(* counts for the slot it came from, and one that is in the way of the     *)
(* next shift counts for nothing.                                          *)
(***************************************************************************)
EXTENDS Rotation, FiniteSetTheorems, TLAPS

-----------------------------------------------------------------------------
(* The invariant                                                           *)

Real(f) == f # Absent /\ f # Torn

Shape ==
  /\ path \in SUBSET Int /\ plain \in [Slots -> SUBSET Int] /\ gz \in [Slots -> SUBSET Int]
  /\ pc \in {"idle", "append", "rotate", "drop", "gz", "plain", "rename", "gzip", "remove", "reopen"}
  /\ open \in BOOLEAN /\ i \in Int /\ next \in Nat
  /\ rotated \in Seq(SUBSET Int) /\ spoilt \in 0..MaxFiles
  /\ Dropped => i \in 0..(MaxFiles - 1) /\ (i = 0 <=> pc = "rename")

(* The file is closed during a rotation, and an empty one is not rotated.  *)
Control ==
  /\ path # Torn /\ (open => path # Absent)
  /\ open => pc \in {"idle", "append", "rotate"}
  /\ path = {} => open /\ size = 0 /\ pc \in {"idle", "append"}
  /\ pc = "remove" => gz[1] = plain[1]

(* The current file is the newest; lines are numbered as they come.        *)
Newest ==
  /\ \A x \in path : x <= next
  /\ \A s \in Slots : \A x \in plain[s] \cup gz[s] : x <= next
  /\ Real(path) =>
       \A s \in Slots : /\ Real(plain[s]) => Older(plain[s], path)
                        /\ Real(gz[s]) => Older(gz[s], path)

Behind(f, g) == Real(f) /\ Real(g) => Older(f, g) \/ f = g

(* Higher slots hold older files.  Where both schemes have a slot the      *)
(* compressed file is the older, except in the last, where one that could  *)
(* not be removed may lie.                                                 *)
Ages ==
  ~stuck =>
    /\ \A s, t \in Slots :
         s < t => /\ Behind(plain[t], plain[s]) /\ Behind(plain[t], gz[s])
                  /\ Behind(gz[t], plain[s]) /\ Behind(gz[t], gz[s])
    /\ \A s \in Slots : s < MaxFiles => Behind(gz[s], plain[s])
    /\ pc \in {"gz", "plain"} /\ i + 1 < MaxFiles => plain[i + 1] = Absent
    /\ pc = "plain" => gz[i] = Absent

-----------------------------------------------------------------------------
(* The variables keep their types, and the loop its range.                 *)
LEMMA ShapeKept ==
  ASSUME Shape, [Next]_vars
  PROVE  Shape'
<1> USE RotationAssumption DEF Slots, files, fw, history
<1>1. CASE Write
  BY <1>1 DEF Write, Shape, Dropped
<1>2. CASE WriteLine
  <2>1. path' \in SUBSET Int /\ next' \in Nat
    <3>1. next \in Nat /\ next + 1 \in Nat /\ path \in SUBSET Int
      BY DEF Shape
    <3>2. (path' = path \/ path' = path \cup {next + 1}) /\ (next' = next \/ next' = next + 1)
      BY Zenon, <1>2 DEF WriteLine
    <3>3. next + 1 \in Int
      BY <3>1
    <3>4. path' \subseteq Int
      BY Zenon, <3>1, <3>2, <3>3
    <3> QED BY Zenon, <3>1, <3>2, <3>4
  <2>2. pc' = "idle" /\ UNCHANGED <<plain, gz, open, i, rotated, spoilt>>
    BY Zenon, <1>2 DEF WriteLine
  <2> QED BY Zenon, <2>1, <2>2 DEF Shape, Dropped
<1>3. CASE Refuse
  BY <1>3 DEF Refuse, Fault, Shape, Dropped
<1>4. CASE CloseFile
  BY Zenon, <1>4 DEF CloseFile, Shape, Dropped
<1>5. CASE Drop
  BY <1>5 DEF Drop, ShiftStart, Absent, Shape, Dropped
<1>6. CASE ShiftGz
  BY <1>6 DEF ShiftGz, Moved, Fault, Spoil, Absent, Shape, Dropped
<1>7. CASE ShiftPlain
  BY <1>7 DEF ShiftPlain, Moved, Fault, Spoil, Absent, Shape, Dropped
<1>8. CASE Rename
  BY <1>8 DEF Rename, Absent, Shape, Dropped
<1>9. CASE RenameFails
  BY <1>9 DEF RenameFails, Fault, Spoil, Shape, Dropped
<1>10. CASE Gzip
  BY <1>10 DEF Gzip, Fault, Shape, Dropped
<1>11. CASE Remove
  BY <1>11 DEF Remove, Fault, Absent, Shape, Dropped
<1>12. CASE Reopen
  BY Zenon, <1>12 DEF Reopen, Shape, Dropped
<1>13. CASE NewWriter
  BY <1>13 DEF NewWriter, Fault, Spoil, Torn, Shape, Dropped
<1>14. CASE UNCHANGED vars
  BY <1>14 DEF vars, Shape, Dropped
<1> QED
  BY Zenon, <1>1, <1>2, <1>3, <1>4, <1>5, <1>6, <1>7, <1>8, <1>9, <1>10, <1>11, <1>12, <1>13, <1>14 DEF Next

(* Only a file that is open and empty has nothing to rotate.               *)
LEMMA ControlKept ==
  ASSUME Shape, Control, [Next]_vars
  PROVE  Control'
<1> USE RotationAssumption DEF files, fw, history
<1>1. CASE Write
  BY <1>1 DEF Write, Shape, Control
<1>2. CASE WriteLine
  <2>1. open => path' # {} /\ path' # Absent /\ path' # Torn
    <3>1. ASSUME open PROVE next + 1 \in path' /\ next + 1 # -1 /\ next + 1 # 0
      BY <1>2, <3>1 DEF WriteLine, Shape
    <3> QED BY <3>1 DEF Absent, Torn
  <2>2. ~open => UNCHANGED <<path, size>>
    BY Zenon, <1>2 DEF WriteLine
  <2>3. pc' = "idle" /\ UNCHANGED open
    BY Zenon, <1>2 DEF WriteLine
  <2> QED BY Zenon, <2>1, <2>2, <2>3 DEF Control
<1>3. CASE Refuse
  BY Zenon, <1>3 DEF Refuse, Control
<1>4. CASE CloseFile
  BY <1>4 DEF CloseFile, Control
<1>5. CASE Drop
  BY <1>5 DEF Drop, ShiftStart, Control
<1>6. CASE ShiftGz
  BY <1>6 DEF ShiftGz, Control
<1>7. CASE ShiftPlain
  BY <1>7 DEF ShiftPlain, Control
<1>8. CASE Rename
  BY <1>8 DEF Rename, Absent, Torn, Control
<1>9. CASE RenameFails
  BY <1>9 DEF RenameFails, Control
<1>10. CASE Gzip
  BY <1>10 DEF Gzip, Control, Shape, Slots
<1>11. CASE Remove
  BY <1>11 DEF Remove, Control
<1>12. CASE Reopen
  BY <1>12 DEF Reopen, Absent, Torn, Control
<1>13. CASE NewWriter
  <2>1. Cardinality({}) = 0
    BY Zenon, FS_EmptySet
  <2> QED BY <1>13, <2>1 DEF NewWriter, Absent, Torn, Control
<1>14. CASE UNCHANGED vars
  BY <1>14 DEF vars, Control
<1> QED
  BY Zenon, <1>1, <1>2, <1>3, <1>4, <1>5, <1>6, <1>7, <1>8, <1>9, <1>10, <1>11, <1>12, <1>13, <1>14 DEF Next

(* No file, and half a file, are in nobody's way.                          *)
LEMMA BehindFacts ==
  /\ \A f : Behind(f, f)
  /\ \A f : Behind(f, Absent) /\ Behind(f, Torn) /\ Behind(Absent, f) /\ Behind(Torn, f)
BY Zenon DEF Behind, Real

(* What a slot holds was in some slot before, or is no file or half a      *)
(* file; only Rename puts a file there that was in none.                   *)
Found(f) == (\E s \in Slots : f = plain[s] \/ f = gz[s]) \/ f = Absent \/ f = Torn

LEMMA FoundKept ==
  ASSUME Shape, [Next]_vars, ~Rename
  PROVE  \A s \in Slots : Found(plain'[s]) /\ Found(gz'[s])
<1> SUFFICES ASSUME NEW s \in Slots PROVE Found(plain'[s]) /\ Found(gz'[s])
  OBVIOUS
<1>0. /\ plain \in [Slots -> SUBSET Int] /\ gz \in [Slots -> SUBSET Int] /\ 1 \in Slots /\ MaxFiles \in Slots
      /\ pc \in {"gz", "plain"} => i \in Slots /\ i + 1 \in Slots
  BY RotationAssumption DEF Shape, Dropped, Slots
<1>1. Found(plain[s]) /\ Found(gz[s]) /\ Found(Absent) /\ Found(Torn) /\ \A t \in Slots : Found(plain[t]) /\ Found(gz[t])
  BY Zenon DEF Found
<1>2. CASE UNCHANGED <<plain, gz>>
  BY Zenon, <1>1, <1>2
<1>3. CASE Drop
  BY Zenon, <1>0, <1>1, <1>3 DEF Drop
<1>4. CASE ShiftGz
  BY Zenon, <1>0, <1>1, <1>4 DEF ShiftGz, Moved
<1>5. CASE ShiftPlain
  BY Zenon, <1>0, <1>1, <1>5 DEF ShiftPlain, Moved
<1>6. CASE Gzip
  BY Zenon, <1>0, <1>1, <1>6 DEF Gzip
<1>7. CASE Remove
  BY Zenon, <1>0, <1>1, <1>7 DEF Remove
<1>8. CASE NewWriter
  <2>1. UNCHANGED plain /\ (gz' = gz \/ gz' = [gz EXCEPT ![1] = Torn])
    BY Zenon, <1>8 DEF NewWriter
  <2> QED BY Zenon, <1>0, <1>1, <2>1
<1>9. CASE Write \/ WriteLine \/ Refuse \/ CloseFile \/ RenameFails \/ Reopen \/ UNCHANGED vars
  BY Zenon, <1>2, <1>9 DEF Write, WriteLine, Refuse, CloseFile, RenameFails, Reopen, files, vars
<1> QED
  BY Zenon, <1>3, <1>4, <1>5, <1>6, <1>7, <1>8, <1>9 DEF Next

(* The current file stays the newest.                                      *)
LEMMA NewestKept ==
  ASSUME Shape, Control, Newest, [Next]_vars
  PROVE  Newest'
<1> DEFINE Low(f) == \A x \in f : x <= next
           Beneath(f) == Real(f) /\ Real(path) => Older(f, path)
<1>0. next \in Nat /\ path \in SUBSET Int
  BY Zenon DEF Shape
<1>1. ASSUME NEW f, Found(f) PROVE Low(f) /\ Beneath(f)
  <2>1. Low(Absent) /\ Low(Torn)
    BY <1>0 DEF Absent, Torn
  <2> QED BY Zenon, <1>1, <2>1 DEF Newest, Found, Real
<1>2. CASE UNCHANGED <<path, next>> /\ ~Rename
  BY Zenon, <1>1, <1>2, FoundKept DEF Newest
<1>3. CASE next' = next /\ path' = {} /\ ~Rename
  BY Zenon, <1>1, <1>3, FoundKept DEF Newest, Older
<1>4. CASE WriteLine /\ open
  <2>1. path' = path \cup {next + 1} /\ next' = next + 1 /\ UNCHANGED <<plain, gz>>
    BY Zenon, <1>4 DEF WriteLine
  <2>2. \A f \in SUBSET Int : Low(f) => \A x \in f : x <= next + 1 /\ x < next + 1
    BY <1>0
  <2>3. /\ \A s \in Slots : plain[s] \in SUBSET Int /\ gz[s] \in SUBSET Int
        /\ Low(path) /\ \A s \in Slots : Low(plain[s]) /\ Low(gz[s])
    BY Zenon DEF Shape, Newest
  <2>4. Real(path) /\ next + 1 <= next + 1
    BY <1>0, <1>4 DEF Control, Real
  <2>5. \A s \in Slots : \A x \in plain[s] \cup gz[s] : x <= next + 1 /\ x < next + 1
    BY Zenon, <2>2, <2>3
  <2>6. \A x \in path' : x <= next'
    BY <1>0, <2>1, <2>3
  <2>7. \A s \in Slots : /\ Real(plain[s]) => Older(plain[s], path')
                         /\ Real(gz[s]) => Older(gz[s], path')
    BY Zenon, <2>1, <2>4, <2>5 DEF Newest, Older
  <2>8. \A s \in Slots : \A x \in plain'[s] \cup gz'[s] : x <= next'
    BY Zenon, <2>1, <2>5
  <2>9. \A s \in Slots : /\ Real(plain'[s]) => Older(plain'[s], path')
                         /\ Real(gz'[s]) => Older(gz'[s], path')
    BY Zenon, <2>1, <2>7
  <2> QED BY Zenon, <2>6, <2>8, <2>9 DEF Newest
<1>5. CASE Rename
  <2>1. path' = Absent /\ next' = next /\ plain' = [plain EXCEPT ![1] = path] /\ gz' = gz
    BY Zenon, <1>5 DEF Rename
  <2>2. Low(Absent) /\ \A s \in Slots : plain'[s] = plain[s] \/ plain'[s] = path
    BY <1>0, <2>1 DEF Absent, Shape
  <2> QED BY Zenon, <2>1, <2>2 DEF Newest, Real
<1>6. CASE NewWriter \/ Reopen
  BY Zenon, <1>2, <1>3, <1>6 DEF NewWriter, Reopen, Rename, history
<1>7. CASE WriteLine /\ ~open
  BY Zenon, <1>2, <1>7 DEF WriteLine, Rename
<1>8. CASE Write \/ Refuse \/ CloseFile \/ RenameFails \/ UNCHANGED vars
  BY Zenon, <1>8 DEF Write, Refuse, CloseFile, RenameFails, files, history, vars, Newest
<1>9. CASE Drop \/ ShiftGz \/ ShiftPlain \/ Gzip \/ Remove
  BY Zenon, <1>2, <1>9 DEF Drop, ShiftGz, ShiftPlain, Gzip, Remove, Rename, history
<1> QED
  BY Zenon, <1>4, <1>5, <1>6, <1>7, <1>8, <1>9 DEF Next

(* Numbers stay ages: the loop runs downwards, shifts both naming schemes, *)
(* and shifts the compressed file of a slot before the plain one.          *)
LEMMA AgesKept ==
  ASSUME Shape, Control, Newest, Ages, [Next]_vars
  PROVE  Ages'
<1> SUFFICES ASSUME ~stuck' PROVE Ages'
  BY Zenon DEF Ages
<1>0. /\ plain \in [Slots -> SUBSET Int] /\ gz \in [Slots -> SUBSET Int] /\ 1 \in Slots /\ MaxFiles \in Slots
      /\ pc \in {"gz", "plain"} => i \in 1..(MaxFiles - 1) /\ i \in Slots /\ i + 1 \in Slots
  BY RotationAssumption DEF Shape, Dropped, Slots
<1>a. Slots \subseteq Nat /\ \A s \in Slots : 1 <= s /\ s <= MaxFiles
  BY RotationAssumption DEF Slots
<1>1. ~stuck
  <2>1. stuck' = stuck \/ stuck' = TRUE
    BY Zenon DEF Next, Write, WriteLine, Refuse, CloseFile, Drop, ShiftGz, ShiftPlain, Rename, RenameFails, Gzip,
                 Remove, Reopen, NewWriter, history, vars
  <2> QED BY Zenon, <2>1
<1>2. CASE UNCHANGED <<plain, gz>> /\ pc' \notin {"gz", "plain"}
  BY Zenon, <1>1, <1>2 DEF Ages
<1>3. CASE Drop
  <2>1. /\ \A s \in Slots : (plain'[s] = plain[s] \/ plain'[s] = Absent) /\ (gz'[s] = gz[s] \/ gz'[s] = Absent)
        /\ i' = MaxFiles - 1 /\ pc' # "plain"
    BY Zenon, <1>0, <1>3 DEF Drop, ShiftStart
  <2>2. ~(i' + 1 < MaxFiles)
    BY <2>1, RotationAssumption
  <2> QED BY Zenon, <1>1, <2>1, <2>2, BehindFacts DEF Ages
<1>4. CASE ShiftGz
  <2>1. CASE gz[i] = Absent
    <3>1. UNCHANGED <<plain, gz, i>> /\ pc = "gz"
      BY Zenon, <1>1, <1>4, <2>1 DEF ShiftGz
    <3> QED BY Zenon, <1>1, <2>1, <3>1 DEF Ages
  <2>2. CASE gz' = Moved(gz)
    <3>1. /\ i \in Slots /\ i + 1 \in Slots /\ i < i + 1 /\ i < MaxFiles
          /\ gz'[i + 1] = gz[i] /\ gz'[i] = Absent
          /\ \A s \in Slots : s # i /\ s # i + 1 => gz'[s] = gz[s]
          /\ plain' = plain /\ i' = i /\ (i + 1 < MaxFiles => plain[i + 1] = Absent)
      <4>1. pc = "gz" /\ UNCHANGED <<plain, i>>
        BY Zenon, <1>4 DEF ShiftGz
      <4>2. i \in Slots /\ i + 1 \in Slots /\ i < i + 1 /\ i < MaxFiles /\ i + 1 # i
        BY <1>0, <4>1, RotationAssumption
      <4>3. /\ gz'[i + 1] = gz[i] /\ gz'[i] = Absent
            /\ \A s \in Slots : s # i /\ s # i + 1 => gz'[s] = gz[s]
        BY Zenon, <1>0, <2>2, <4>2 DEF Moved
      <4> QED BY Zenon, <1>1, <4>1, <4>2, <4>3 DEF Ages
    <3>2. \A s, t \in Slots :
            s < t => /\ Behind(plain'[t], plain'[s]) /\ Behind(plain'[t], gz'[s])
                     /\ Behind(gz'[t], plain'[s]) /\ Behind(gz'[t], gz'[s])
      <4>0. SUFFICES ASSUME NEW s \in Slots, NEW t \in Slots, s < t
                   PROVE  /\ Behind(plain'[t], plain'[s]) /\ Behind(plain'[t], gz'[s])
                          /\ Behind(gz'[t], plain'[s]) /\ Behind(gz'[t], gz'[s])
        BY Zenon
      <4>1. \/ t = i /\ s # i /\ s # i + 1
            \/ t = i + 1 /\ s = i
            \/ t = i + 1 /\ s < i /\ s # i + 1
            \/ t # i /\ t # i + 1 /\ s = i
            \/ t # i /\ t # i + 1 /\ s = i + 1 /\ i < t
            \/ t # i /\ t # i + 1 /\ s # i /\ s # i + 1
        BY <1>a, <3>1, <4>0
      <4> QED BY Zenon, <1>1, <3>1, <4>0, <4>1, BehindFacts DEF Ages
    <3>3. \A s \in Slots : s < MaxFiles => Behind(gz'[s], plain'[s])
      BY <1>1, <3>1, BehindFacts DEF Ages
    <3> QED BY Zenon, <3>1, <3>2, <3>3 DEF Ages
  <2> QED BY Zenon, <1>1, <1>4, <2>1, <2>2 DEF ShiftGz
<1>5. CASE ShiftPlain
  <2>1. i' = i - 1 /\ i' + 1 = i /\ pc = "plain" /\ pc' # "plain" /\ UNCHANGED gz /\ gz[i] = Absent
    BY <1>0, <1>1, <1>5 DEF ShiftPlain, Ages
  <2>2. CASE plain[i] = Absent
    <3>1. UNCHANGED plain
      BY Zenon, <1>1, <1>5, <2>2 DEF ShiftPlain
    <3> QED BY Zenon, <1>1, <2>1, <2>2, <3>1 DEF Ages
  <2>3. CASE plain' = Moved(plain)
    <3>1. i \in Slots /\ i + 1 \in Slots /\ i < i + 1 /\ i < MaxFiles /\ i + 1 # i
      BY <1>0, <2>1, RotationAssumption
    <3>2. /\ plain'[i + 1] = plain[i] /\ plain'[i] = Absent
          /\ \A s \in Slots : s # i /\ s # i + 1 => plain'[s] = plain[s]
      BY Zenon, <1>0, <2>3, <3>1 DEF Moved
    <3>3. ASSUME NEW s \in Slots, NEW t \in Slots, s < t
          PROVE  /\ Behind(plain'[t], plain'[s]) /\ Behind(plain'[t], gz'[s])
                 /\ Behind(gz'[t], plain'[s]) /\ Behind(gz'[t], gz'[s])
      <4>1. \/ t = i
            \/ t = i + 1 /\ s = i
            \/ t = i + 1 /\ s < i /\ s # i + 1
            \/ t # i /\ t # i + 1 /\ s = i
            \/ t # i /\ t # i + 1 /\ s = i + 1 /\ i < t
            \/ t # i /\ t # i + 1 /\ s # i /\ s # i + 1
        BY <1>a, <3>1, <3>3
      <4> QED BY Zenon, <1>1, <2>1, <3>1, <3>2, <3>3, <4>1, BehindFacts DEF Ages
    <3>4. \A s \in Slots : s < MaxFiles => Behind(gz'[s], plain'[s])
      BY <1>1, <2>1, <3>1, <3>2, BehindFacts DEF Ages
    <3> QED BY Zenon, <2>1, <3>2, <3>3, <3>4 DEF Ages
  <2> QED BY Zenon, <1>1, <1>5, <2>2, <2>3 DEF ShiftPlain
<1>6. CASE Rename
  <2>1. /\ plain'[1] = path /\ (\A s \in Slots : s # 1 => plain'[s] = plain[s])
        /\ UNCHANGED gz /\ pc' \notin {"gz", "plain"}
    BY Zenon, <1>0, <1>6 DEF Rename
  <2>2. \A s \in Slots : Behind(plain[s], path) /\ Behind(gz[s], path)
    BY Zenon DEF Newest, Behind
  <2>3. \A s, t \in Slots : s < t => t # 1
    BY <1>a
  <2> QED BY Zenon, <1>1, <2>1, <2>2, <2>3 DEF Ages
<1>7. CASE Gzip
  <2>1. CASE UNCHANGED gz
    BY Zenon, <1>2, <1>7, <2>1 DEF Gzip
  <2>2. CASE gz[1] = Absent /\ gz' = [gz EXCEPT ![1] = plain[1]]
    <3>1. /\ gz'[1] = plain[1] /\ (\A s \in Slots : s # 1 => gz'[s] = gz[s])
          /\ UNCHANGED plain /\ pc' \notin {"gz", "plain"}
      BY Zenon, <1>0, <1>7, <2>2 DEF Gzip
    <3> QED BY Zenon, <1>0, <1>1, <3>1, BehindFacts DEF Ages
  <2> QED BY Zenon, <1>7, <2>1, <2>2 DEF Gzip
<1>8. CASE Remove
  <2>1. /\ \A s \in Slots : plain'[s] = plain[s] \/ plain'[s] = Absent
        /\ UNCHANGED gz /\ pc' \notin {"gz", "plain"}
    BY Zenon, <1>0, <1>8 DEF Remove
  <2> QED BY Zenon, <1>1, <2>1, BehindFacts DEF Ages
<1>9. CASE NewWriter
  <2>1. /\ \A s \in Slots : gz'[s] = gz[s] \/ gz'[s] = Torn
        /\ UNCHANGED plain /\ pc' \notin {"gz", "plain"}
    BY Zenon, <1>0, <1>9 DEF NewWriter
  <2> QED BY Zenon, <1>1, <2>1, BehindFacts DEF Ages
<1>10. CASE Write \/ WriteLine \/ Refuse \/ CloseFile \/ RenameFails \/ Reopen
  BY Zenon, <1>2, <1>10 DEF Write, WriteLine, Refuse, CloseFile, RenameFails, Reopen, files
<1>11. CASE UNCHANGED vars
  BY Zenon, <1>1, <1>11 DEF Ages, vars, files
<1> QED
  BY Zenon, <1>3, <1>4, <1>5, <1>6, <1>7, <1>8, <1>9, <1>10, <1>11 DEF Next

-----------------------------------------------------------------------------
(* What was rotated                                                        *)

(* Files are rotated in the order of their lines, so no two are the same.  *)
Distinct(h) ==
  /\ h \in Seq(SUBSET Int)
  /\ \A n \in DOMAIN h : Real(h[n])
  /\ \A m, n \in DOMAIN h : h[m] = h[n] => m = n

History ==
  /\ Distinct(rotated)
  /\ \A n \in DOMAIN rotated : /\ rotated[n] # {} /\ (\A x \in rotated[n] : x <= next)
                               /\ Real(path) => Older(rotated[n], path)

(* What is rotated is newer than all that was.                             *)
LEMMA HistoryKept ==
  ASSUME Shape, Control, Newest, History, [Next]_vars
  PROVE  History'
<1>0. next \in Nat /\ path \in SUBSET Int
  BY Zenon DEF Shape
<1>1. CASE UNCHANGED <<path, next, rotated>>
  BY Zenon, <1>1 DEF History
<1>2. CASE path' = {} /\ UNCHANGED <<next, rotated>>
  BY Zenon, <1>2 DEF History, Older
<1>3. CASE WriteLine /\ open
  <2>1. path' = path \cup {next + 1} /\ next' = next + 1 /\ rotated' = rotated
    BY Zenon, <1>3 DEF WriteLine
  <2>2. \A n \in DOMAIN rotated : rotated[n] \in SUBSET Int
    BY DEF History, Distinct
  <2>3. ASSUME NEW n \in DOMAIN rotated, NEW x \in rotated[n]
        PROVE  x <= next + 1 /\ x < next + 1
    <3>1. x \in Int /\ x <= next
      BY Zenon, <2>2 DEF History
    <3> QED BY <1>0, <3>1
  <2>4. Real(path)
    BY Zenon, <1>3 DEF Control, Real
  <2> QED BY Zenon, <2>1, <2>3, <2>4 DEF History, Older
<1>4. CASE Rename
  <2>1. /\ path # Absent /\ path # {} /\ path' = Absent /\ next' = next
        /\ rotated' = Append(rotated, path)
    BY Zenon, <1>4 DEF Rename, Control
  <2>2. Real(path)
    BY Zenon, <2>1 DEF Control, Real
  <2>3. rotated \in Seq(SUBSET Int)
    BY Zenon DEF Shape
  <2>4. /\ rotated' \in Seq(SUBSET Int) /\ DOMAIN rotated' = DOMAIN rotated \cup {Len(rotated) + 1}
        /\ rotated'[Len(rotated) + 1] = path /\ \A n \in DOMAIN rotated : rotated'[n] = rotated[n]
        /\ Len(rotated) + 1 \notin DOMAIN rotated
    BY <1>0, <2>1, <2>3
  <2>5. ASSUME NEW n \in DOMAIN rotated PROVE rotated[n] # path
    <3>1. rotated[n] # {} /\ Older(rotated[n], path) /\ rotated[n] \in SUBSET Int
      BY <2>2, <2>3 DEF History
    <3>2. ASSUME rotated[n] = path PROVE FALSE
      <4>1. PICK x \in path : x < x /\ x \in Int
        BY Zenon, <3>1, <3>2 DEF Older
      <4> QED BY <4>1
    <3> QED BY Zenon, <3>2
  <2>6. Distinct(rotated')
    BY Zenon, <2>2, <2>4, <2>5 DEF History, Distinct
  <2>7. ~Real(path')
    BY Zenon, <2>1 DEF Real
  <2> QED BY Zenon, <2>1, <2>4, <2>6, <2>7 DEF History, Newest
<1>5. CASE NewWriter \/ Reopen
  BY Zenon, <1>1, <1>2, <1>5 DEF NewWriter, Reopen, history
<1>6. CASE WriteLine /\ ~open
  BY Zenon, <1>1, <1>6 DEF WriteLine
<1>7. CASE Write \/ Refuse \/ CloseFile \/ RenameFails \/ UNCHANGED vars
  BY Zenon, <1>1, <1>7 DEF Write, Refuse, CloseFile, RenameFails, files, history, vars
<1>8. CASE Drop \/ ShiftGz \/ ShiftPlain \/ Gzip \/ Remove
  BY Zenon, <1>1, <1>8 DEF Drop, ShiftGz, ShiftPlain, Gzip, Remove, history
<1> QED
  BY Zenon, <1>3, <1>4, <1>5, <1>6, <1>7, <1>8 DEF Next

-----------------------------------------------------------------------------
(* Counting the rotated files in the slots                                 *)

(* For a history h and the files a and b of the two naming schemes: the    *)
(* files newer than the n-th that have a slot below v, whether there are   *)
(* as many as there are slots, but for sp, whether that is so of all, and  *)
(* which of the newest w have no slot.                                     *)
Under(h, a, b, n, v) ==
  {m \in DOMAIN h : m > n /\ \E u \in Slots : u < v /\ (h[m] = a[u] \/ h[m] = b[u])}
Supported(h, a, b, sp, n, v) == v <= 1 + sp + Cardinality(Under(h, a, b, n, v))
AllSupported(h, a, b, sp) ==
  \A n \in DOMAIN h, v \in Slots : h[n] = a[v] \/ h[n] = b[v] => Supported(h, a, b, sp, n, v)
Gone(h, a, b, w) ==
  {n \in DOMAIN h : n > Len(h) - w /\ \A v \in Slots : h[n] # a[v] /\ h[n] # b[v]}

(* The slots are numbered from 1 to MaxFiles.                              *)
LEMMA SlotFacts ==
  /\ Slots \subseteq Int /\ 1 \in Slots /\ MaxFiles \in Slots
  /\ \A u \in Slots : 1 <= u /\ u <= MaxFiles /\ (u < MaxFiles \/ u = MaxFiles)
  /\ \A u \in Slots : u < MaxFiles => u + 1 \in Slots
  /\ \A u, v \in Slots : u < v => u < MaxFiles /\ u # MaxFiles
BY RotationAssumption DEF Slots

(* Counts are ordered.                                                     *)
LEMMA LessOrEqual == \A x, y, z \in Nat : x <= y /\ y <= z => x <= z
OBVIOUS

(* A slot more is allowed for by one more spoilt.                          *)
LEMMA OneMoreSlot ==
  \A v \in Int : \A sp, x, y \in Nat : v - 1 <= 1 + sp + x /\ x <= y => v <= 1 + (sp + 1) + y
OBVIOUS

(* Sets of places in a history are finite; a smaller one counts less.      *)
LEMMA PlacesCard ==
  ASSUME NEW h \in Seq(SUBSET Int), NEW A, NEW B, A \subseteq DOMAIN h, B \subseteq DOMAIN h
  PROVE  /\ IsFiniteSet(A) /\ Cardinality(A) \in Nat
         /\ A \subseteq B => Cardinality(A) <= Cardinality(B)
         /\ \A x : A \subseteq B \cup {x} => Cardinality(A) <= Cardinality(B) + 1
         /\ \A x, y : A \subseteq B \cup {x, y} => Cardinality(A) <= Cardinality(B) + 2
<1>1. IsFiniteSet(DOMAIN h)
  <2>1. Len(h) \in Int /\ DOMAIN h = 1..Len(h) /\ 1 \in Int
    OBVIOUS
  <2> QED BY Zenon, <2>1, FS_Interval
<1>2. IsFiniteSet(A) /\ IsFiniteSet(B) /\ Cardinality(A) \in Nat /\ Cardinality(B) \in Nat
  BY Zenon, <1>1, FS_Subset, FS_CardinalityType
<1>3. ASSUME A \subseteq B PROVE Cardinality(A) <= Cardinality(B)
  BY Zenon, <1>2, <1>3, FS_Subset
<1>4. ASSUME NEW S, IsFiniteSet(S), NEW x
      PROVE  /\ IsFiniteSet(S \cup {x}) /\ Cardinality(S) \in Nat
             /\ Cardinality(S \cup {x}) \in Nat /\ Cardinality(S \cup {x}) <= Cardinality(S) + 1
  <2>1. IsFiniteSet(S \cup {x}) /\ Cardinality(S) \in Nat /\ Cardinality(S \cup {x}) \in Nat
    BY Zenon, <1>4, FS_AddElement, FS_CardinalityType
  <2>2. Cardinality(S \cup {x}) = Cardinality(S) \/ Cardinality(S \cup {x}) = Cardinality(S) + 1
    BY Zenon, <1>4, FS_AddElement
  <2> QED BY <2>1, <2>2
<1>5. ASSUME NEW x, A \subseteq B \cup {x} PROVE Cardinality(A) <= Cardinality(B) + 1
  <2>1. Cardinality(A) <= Cardinality(B \cup {x})
    BY Zenon, <1>2, <1>4, <1>5, FS_Subset
  <2>2. Cardinality(B \cup {x}) \in Nat /\ Cardinality(B \cup {x}) <= Cardinality(B) + 1
    BY Zenon, <1>2, <1>4
  <2> QED BY <1>2, <2>1, <2>2
<1>6. ASSUME NEW x, NEW y, A \subseteq B \cup {x, y} PROVE Cardinality(A) <= Cardinality(B) + 2
  <2>1. A \subseteq (B \cup {x}) \cup {y}
    BY Zenon, <1>6
  <2>2. Cardinality(A) <= Cardinality((B \cup {x}) \cup {y})
    BY Zenon, <1>2, <1>4, <2>1, FS_Subset
  <2>3. /\ IsFiniteSet(B \cup {x}) /\ Cardinality(B \cup {x}) \in Nat
        /\ Cardinality(B \cup {x}) <= Cardinality(B) + 1
    BY Zenon, <1>2, <1>4
  <2>4. /\ Cardinality((B \cup {x}) \cup {y}) \in Nat
        /\ Cardinality((B \cup {x}) \cup {y}) <= Cardinality(B \cup {x}) + 1
    BY Zenon, <1>4, <2>3
  <2> QED BY <1>2, <2>2, <2>3, <2>4
<1> QED BY Zenon, <1>2, <1>3, <1>5, <1>6

(* Files of the history count for nothing where there are none.            *)
LEMMA UnderType ==
  ASSUME NEW h \in Seq(SUBSET Int), NEW a, NEW b, NEW n, NEW v, NEW w
  PROVE  /\ Under(h, a, b, n, v) \subseteq DOMAIN h /\ Cardinality(Under(h, a, b, n, v)) \in Nat
         /\ Gone(h, a, b, w) \subseteq DOMAIN h /\ Cardinality(Gone(h, a, b, w)) \in Nat
<1>1. Under(h, a, b, n, v) \subseteq DOMAIN h /\ Gone(h, a, b, w) \subseteq DOMAIN h
  BY Zenon DEF Under, Gone
<1> QED BY Zenon, <1>1, PlacesCard

(* A file is in one place of the history at most.                          *)
LEMMA OnePlace ==
  ASSUME NEW h, Distinct(h)
  PROVE  \A f : \E x : \A m \in DOMAIN h : h[m] = f => m = x
BY Zenon DEF Distinct

(* The first slot needs no support, and once as many rotations as there    *)
(* are slots were spoilt nothing does.                                     *)
LEMMA FreeSupport ==
  ASSUME NEW h \in Seq(SUBSET Int), NEW a, NEW b, NEW n, NEW v \in Slots, NEW sp \in Nat,
         v = 1 \/ sp = MaxFiles
  PROVE  Supported(h, a, b, sp, n, v)
<1>1. Cardinality(Under(h, a, b, n, v)) \in Nat
  BY Zenon, UnderType
<1> QED BY <1>1, RotationAssumption DEF Supported, Slots

(* Support by no fewer files.                                              *)
LEMMA MoreSupport ==
  ASSUME NEW h \in Seq(SUBSET Int), NEW a, NEW b, NEW c, NEW d, NEW n, NEW v \in Int,
         NEW sp \in Nat, Supported(h, a, b, sp, n, v),
         Under(h, a, b, n, v) \subseteq Under(h, c, d, n, v)
  PROVE  Supported(h, c, d, sp, n, v)
<1>1. Cardinality(Under(h, a, b, n, v)) \in Nat /\ Cardinality(Under(h, c, d, n, v)) \in Nat
  BY Zenon, UnderType
<1>2. Cardinality(Under(h, a, b, n, v)) <= Cardinality(Under(h, c, d, n, v))
  BY Zenon, PlacesCard, UnderType
<1> QED BY <1>1, <1>2 DEF Supported

(* Support by fewer files but more spoilt rotations.                       *)
LEMMA LessSupport ==
  ASSUME NEW h \in Seq(SUBSET Int), NEW a, NEW b, NEW c, NEW d, NEW n, NEW v \in Int, NEW w \in Int,
         NEW sp \in Nat, NEW k \in Nat, Supported(h, a, b, sp, n, v),
         Cardinality(Under(h, a, b, n, v)) <= Cardinality(Under(h, c, d, n, w)) + k
  PROVE  /\ w <= v => Supported(h, c, d, sp + k, n, w)
         /\ k = 2 /\ w + 1 <= v => Supported(h, c, d, sp + 1, n, w)
         /\ k = 1 /\ w + 1 <= v => Supported(h, c, d, sp, n, w)
<1>1. Cardinality(Under(h, a, b, n, v)) \in Nat /\ Cardinality(Under(h, c, d, n, w)) \in Nat
  BY Zenon, UnderType
<1> DEFINE x == Cardinality(Under(h, a, b, n, v))
           y == Cardinality(Under(h, c, d, n, w))
<1>2. x \in Nat /\ y \in Nat /\ v <= 1 + sp + x /\ x <= y + k
  BY Zenon, <1>1 DEF Supported
<1> HIDE DEF x, y
<1>3. /\ w <= v => w <= 1 + (sp + k) + y
      /\ k = 2 /\ w + 1 <= v => w <= 1 + (sp + 1) + y
      /\ k = 1 /\ w + 1 <= v => w <= 1 + sp + y
  BY <1>2
<1> QED BY Zenon, <1>3 DEF Supported, y

(* The loop counts another file for slot j of one scheme, in place of one  *)
(* that stays behind, or of none.                                          *)
Replaces(a, c, j, sp, sq) ==
  (\A u \in Slots : u # j => c[u] = a[u]) /\ ((sq = sp /\ a[j] = Absent) \/ sq = sp + 1)

(* What rested on the file that stays behind rests on one less, and a      *)
(* shift more was spoilt; what is taken has one slot less to support it.   *)
LEMMA Replaced ==
  ASSUME NEW h, Distinct(h), NEW a \in [Slots -> SUBSET Int], NEW b \in [Slots -> SUBSET Int],
         NEW sp \in Nat, NEW sq \in Nat, NEW j \in Slots, NEW c \in [Slots -> SUBSET Int],
         Replaces(a, c, j, sp, sq)
  PROVE  /\ \A n \in DOMAIN h, v \in Slots : Supported(h, a, b, sp, n, v) => Supported(h, c, b, sq, n, v)
         /\ \A n \in DOMAIN h : Supported(h, a, b, sp, n, j + 1) => Supported(h, c, b, sq, n, j)
         /\ \A w : Cardinality(Gone(h, a, b, w)) <= sp => Cardinality(Gone(h, c, b, w)) <= sq
<1>0. h \in Seq(SUBSET Int) /\ Slots \subseteq Int /\ DOMAIN h \subseteq Int
  BY RotationAssumption DEF Distinct, Slots
<1>z. (\A u \in Slots : u # j => c[u] = a[u]) /\ ((sq = sp /\ a[j] = Absent) \/ sq = sp + 1)
  BY Zenon DEF Replaces
<1> USE <1>z
<1>a. \A f : \E x : \A m \in DOMAIN h : h[m] = f => m = x
  BY Zenon, OnePlace
<1>1. PICK x : \A m \in DOMAIN h : h[m] = a[j] => m = x
  BY <1>a
<1>2. PICK y : \A m \in DOMAIN h : h[m] = b[j] => m = y
  BY <1>a
<1>3. a[j] = Absent => \A m \in DOMAIN h : h[m] # a[j]
  BY Zenon DEF Distinct, Real
<1>4. ASSUME NEW n \in DOMAIN h, NEW v \in Slots, Supported(h, a, b, sp, n, v)
      PROVE  Supported(h, c, b, sq, n, v)
  <2>1. Under(h, a, b, n, v) \subseteq Under(h, c, b, n, v) \cup {x}
    BY Zenon, <1>1 DEF Under
  <2>2. CASE a[j] = Absent /\ sq = sp
    <3>1. Under(h, a, b, n, v) \subseteq Under(h, c, b, n, v)
      BY Zenon, <1>3, <2>2 DEF Under
    <3> QED BY Zenon, <1>0, <1>4, <2>2, <3>1, MoreSupport
  <2>3. CASE sq = sp + 1
    <3>1. Cardinality(Under(h, a, b, n, v)) <= Cardinality(Under(h, c, b, n, v)) + 1
      BY Zenon, <1>0, <2>1, PlacesCard, UnderType
    <3>2. v <= v
      BY <1>0
    <3> QED BY Zenon, <1>0, <1>4, <2>3, <3>1, <3>2, LessSupport
  <2> QED BY Zenon, <2>2, <2>3
<1>5. ASSUME NEW n \in DOMAIN h, Supported(h, a, b, sp, n, j + 1)
      PROVE  Supported(h, c, b, sq, n, j)
  <2>0. j \in Int /\ j + 1 \in Int /\ j + 1 <= j + 1 /\ \A u \in Slots : u < j + 1 => u < j \/ u = j
    BY <1>0
  <2>a. \A u \in Slots : u < j => u # j
    BY <1>0
  <2>1. Under(h, a, b, n, j + 1) \subseteq Under(h, c, b, n, j) \cup {x, y}
    BY Zenon, <1>1, <1>2, <2>0, <2>a DEF Under
  <2>2. CASE a[j] = Absent /\ sq = sp
    <3>1. Under(h, a, b, n, j + 1) \subseteq Under(h, c, b, n, j) \cup {y}
      BY Zenon, <1>2, <1>3, <2>0, <2>a, <2>2 DEF Under
    <3>2. Cardinality(Under(h, a, b, n, j + 1)) <= Cardinality(Under(h, c, b, n, j)) + 1
      BY Zenon, <1>0, <3>1, PlacesCard, UnderType
    <3> QED BY Zenon, <1>5, <1>0, <2>0, <2>2, <3>2, LessSupport
  <2>3. CASE sq = sp + 1
    <3>1. Cardinality(Under(h, a, b, n, j + 1)) <= Cardinality(Under(h, c, b, n, j)) + 2
      BY Zenon, <1>0, <2>1, PlacesCard, UnderType
    <3> QED BY Zenon, <1>5, <1>0, <2>0, <2>3, <3>1, LessSupport
  <2> QED BY Zenon, <2>2, <2>3
<1>6. ASSUME NEW w, Cardinality(Gone(h, a, b, w)) <= sp PROVE Cardinality(Gone(h, c, b, w)) <= sq
  <2>1. Gone(h, c, b, w) \subseteq Gone(h, a, b, w) \cup {x}
    BY Zenon, <1>1 DEF Gone
  <2>2. a[j] = Absent => Gone(h, c, b, w) \subseteq Gone(h, a, b, w)
    BY Zenon, <1>3 DEF Gone
  <2>3. Cardinality(Gone(h, c, b, w)) \in Nat /\ Cardinality(Gone(h, a, b, w)) \in Nat
    BY Zenon, <1>0, UnderType
  <2>4. /\ Cardinality(Gone(h, c, b, w)) <= Cardinality(Gone(h, a, b, w)) + 1
        /\ a[j] = Absent => Cardinality(Gone(h, c, b, w)) <= Cardinality(Gone(h, a, b, w))
    BY Zenon, <1>0, <2>1, <2>2, PlacesCard, UnderType
  <2> QED BY <1>6, <2>3, <2>4
<1> QED BY Zenon, <1>4, <1>5, <1>6

(* What is in the slots counts, not in which scheme, nor how often.        *)
Alike(h, a, b, c, d) ==
  \A m \in DOMAIN h, u \in Slots : h[m] = a[u] \/ h[m] = b[u] <=> h[m] = c[u] \/ h[m] = d[u]

(* Files that are alike are supported, and missing, alike.                 *)
LEMMA SameCounts ==
  ASSUME NEW h, NEW a, NEW b, NEW c, NEW d, NEW sp, NEW w, Alike(h, a, b, c, d),
         AllSupported(h, a, b, sp), Cardinality(Gone(h, a, b, w)) <= sp
  PROVE  AllSupported(h, c, d, sp) /\ Cardinality(Gone(h, c, d, w)) <= sp
<1>1. ASSUME NEW n, NEW v PROVE Under(h, a, b, n, v) = Under(h, c, d, n, v)
  <2>1. \A m \in DOMAIN h :    (\E u \in Slots : u < v /\ (h[m] = a[u] \/ h[m] = b[u]))
                           <=> (\E u \in Slots : u < v /\ (h[m] = c[u] \/ h[m] = d[u]))
    BY Zenon DEF Alike
  <2> QED BY Zenon, <2>1 DEF Under
<1>2. Gone(h, a, b, w) = Gone(h, c, d, w)
  <2>1. \A m \in DOMAIN h :    (\A u \in Slots : h[m] # a[u] /\ h[m] # b[u])
                           <=> (\A u \in Slots : h[m] # c[u] /\ h[m] # d[u])
    BY Zenon DEF Alike
  <2> QED BY Zenon, <2>1 DEF Gone
<1>3. \A n, v : Supported(h, a, b, sp, n, v) <=> Supported(h, c, d, sp, n, v)
  BY Zenon, <1>1 DEF Supported
<1> QED BY Zenon, <1>2, <1>3 DEF AllSupported, Alike

(* Of the newest w there are w.                                            *)
LEMMA WindowCard ==
  ASSUME NEW h \in Seq(SUBSET Int), NEW w \in Nat
  PROVE  /\ Cardinality({n \in DOMAIN h : n > Len(h) - w}) <= w
         /\ Cardinality({n \in DOMAIN h : n > Len(h) - w}) \in Nat
<1> DEFINE W == {n \in DOMAIN h : n > Len(h) - w}
           I == (Len(h) - w + 1)..Len(h)
<1>1. Len(h) \in Nat /\ Len(h) - w + 1 \in Int /\ Len(h) \in Int
  OBVIOUS
<1>2. W \subseteq I
  BY <1>1
<1>3. IsFiniteSet(I) /\ Cardinality(I) = IF Len(h) - w + 1 > Len(h) THEN 0 ELSE Len(h) - (Len(h) - w + 1) + 1
  BY Zenon, <1>1, FS_Interval
<1>4. Cardinality(I) = w
  BY <1>1, <1>3
<1>5. Cardinality(W) \in Nat /\ Cardinality(W) <= Cardinality(I)
  BY Zenon, <1>2, <1>3, FS_Subset, FS_CardinalityType
<1> QED BY Zenon, <1>4, <1>5

(* When all slots are spoilt no count is too high.                         *)
LEMMA FewGone ==
  ASSUME NEW h \in Seq(SUBSET Int), NEW a, NEW b, NEW w \in Nat, w <= MaxFiles
  PROVE  Cardinality(Gone(h, a, b, w)) <= MaxFiles
<1> DEFINE W == {n \in DOMAIN h : n > Len(h) - w}
<1>1. Gone(h, a, b, w) \subseteq W /\ W \subseteq DOMAIN h
  BY Zenon DEF Gone
<1>2. Cardinality(Gone(h, a, b, w)) <= Cardinality(W) /\ Cardinality(Gone(h, a, b, w)) \in Nat
  BY Zenon, <1>1, PlacesCard, UnderType
<1>3. Cardinality(W) <= w /\ Cardinality(W) \in Nat
  BY Zenon, WindowCard
<1> HIDE DEF W
<1> QED BY <1>2, <1>3, RotationAssumption

(* The last slot is emptied.  A file that is lost by it has as many newer  *)
(* ones below as there should be, so among the newest MaxFiles - 1 no more *)
(* are missing than rotations were spoilt.                                 *)
LEMMA DropLast ==
  ASSUME NEW h, Distinct(h), NEW a, NEW b, NEW c, NEW d, NEW sp \in Nat,
         \A u \in Slots : u # MaxFiles => c[u] = a[u] /\ d[u] = b[u],
         c[MaxFiles] = Absent /\ d[MaxFiles] = Absent,
         \A n \in DOMAIN h : h[n] = a[MaxFiles] \/ h[n] = b[MaxFiles] => Supported(h, a, b, sp, n, MaxFiles),
         Cardinality(Gone(h, a, b, MaxFiles)) <= sp
  PROVE  /\ \A n : \A v \in Slots : Supported(h, a, b, sp, n, v) <=> Supported(h, c, d, sp, n, v)
         /\ Cardinality(Gone(h, c, d, MaxFiles - 1)) <= sp
<1>0. h \in Seq(SUBSET Int) /\ MaxFiles \in Slots /\ \A u, v \in Slots : u < v => u # MaxFiles
  BY Zenon, SlotFacts DEF Distinct
<1> DEFINE G == Gone(h, c, d, MaxFiles - 1)
           W == {n \in DOMAIN h : n > Len(h) - (MaxFiles - 1)}
<1>1. ASSUME NEW n, NEW v \in Slots PROVE Under(h, a, b, n, v) = Under(h, c, d, n, v)
  <2>1. \A m \in DOMAIN h :    (\E u \in Slots : u < v /\ (h[m] = a[u] \/ h[m] = b[u]))
                           <=> (\E u \in Slots : u < v /\ (h[m] = c[u] \/ h[m] = d[u]))
    BY Zenon, <1>0
  <2> QED BY Zenon, <2>1 DEF Under
<1>2. ASSUME G \subseteq Gone(h, a, b, MaxFiles) PROVE Cardinality(G) <= sp
  <2>1. Cardinality(G) <= Cardinality(Gone(h, a, b, MaxFiles))
    BY Zenon, <1>0, <1>2, PlacesCard, UnderType
  <2>2. Cardinality(G) \in Nat /\ Cardinality(Gone(h, a, b, MaxFiles)) \in Nat
    BY Zenon, <1>0, UnderType
  <2> QED BY Zenon, <2>1, <2>2, LessOrEqual
<1>3. ASSUME NEW x \in G, x \notin Gone(h, a, b, MaxFiles) PROVE Cardinality(G) <= sp
  <2> DEFINE U == Under(h, a, b, x, MaxFiles)
  <2>1. x \in DOMAIN h /\ x > Len(h) - (MaxFiles - 1) /\ \A v \in Slots : h[x] # c[v] /\ h[x] # d[v]
    BY Zenon DEF Gone
  <2>2. x > Len(h) - MaxFiles /\ x \in Int /\ Len(h) \in Nat
    BY <1>0, <2>1, RotationAssumption
  <2>3. h[x] = a[MaxFiles] \/ h[x] = b[MaxFiles]
    BY Zenon, <1>3, <2>1, <2>2 DEF Gone
  <2>4. MaxFiles <= 1 + sp + Cardinality(U)
    BY Zenon, <2>1, <2>3 DEF Supported
  <2>5. U \subseteq W
    <3>1. ASSUME NEW m \in DOMAIN h, m > x PROVE m > Len(h) - (MaxFiles - 1)
      BY <1>0, <2>1, <2>2, <3>1, RotationAssumption
    <3> QED BY Zenon, <3>1 DEF Under
  <2>6. U \cap G = {}
    BY Zenon, <1>0 DEF Under, Gone
  <2>7. G \subseteq W /\ W \subseteq DOMAIN h
    BY Zenon DEF Gone
  <2>8. /\ IsFiniteSet(U) /\ IsFiniteSet(G) /\ IsFiniteSet(W)
        /\ Cardinality(U) \in Nat /\ Cardinality(G) \in Nat /\ Cardinality(W) \in Nat
    BY Zenon, <1>0, <2>5, <2>7, PlacesCard
  <2>9. Cardinality(W) <= MaxFiles - 1
    <3>1. MaxFiles - 1 \in Nat
      BY RotationAssumption
    <3> QED BY Zenon, <1>0, <3>1, WindowCard
  <2>10. Cardinality(U \cup G) = Cardinality(U) + Cardinality(G) - Cardinality(U \cap G)
    BY Zenon, <2>8, FS_Union
  <2>11. Cardinality(U \cap G) = 0
    BY Zenon, <2>6, FS_EmptySet
  <2>12. Cardinality(U \cup G) <= Cardinality(W) /\ Cardinality(U \cup G) \in Nat
    BY Zenon, <2>5, <2>7, <2>8, FS_Subset, FS_CardinalityType
  <2> HIDE DEF U, G, W
  <2> QED BY <2>4, <2>8, <2>9, <2>10, <2>11, <2>12, RotationAssumption
<1> QED BY Zenon, <1>1, <1>2, <1>3 DEF Supported

(* The files of one scheme without slot r + 1, those behind it one down.   *)
Left(f, r) == [v \in Slots |-> IF v <= r THEN f[v] ELSE IF v < MaxFiles THEN f[v + 1] ELSE Absent]

(* Where its files come from and where they go.                            *)
LEMMA LeftAt ==
  ASSUME NEW f, NEW r \in 0..(MaxFiles - 1)
  PROVE  /\ \A u \in Slots : u <= r => Left(f, r)[u] = f[u]
         /\ \A u \in Slots : r < u /\ u < MaxFiles => Left(f, r)[u] = f[u + 1] /\ u + 1 \in Slots
         /\ \A u \in Slots : r < u /\ u = MaxFiles => Left(f, r)[u] = Absent
         /\ \A u \in Slots : r + 1 < u => u - 1 \in Slots /\ Left(f, r)[u - 1] = f[u]
         /\ \A u \in Slots : u <= r \/ u = r + 1 \/ r + 1 < u
         /\ \A u \in Slots : \/ Left(f, r)[u] = Absent \/ Left(f, r)[u] = f[u]
                             \/ u + 1 \in Slots /\ Left(f, r)[u] = f[u + 1]
BY RotationAssumption DEF Left, Slots

(* With r = 0 slot 1 is left out.                                          *)
LEMMA LeftAtZero ==
  ASSUME NEW f
  PROVE  /\ \A u \in Slots : u < MaxFiles => Left(f, 0)[u] = f[u + 1] /\ u + 1 \in Slots
         /\ \A u \in Slots : 1 < u => u - 1 \in Slots /\ Left(f, 0)[u - 1] = f[u]
         /\ Left(f, 0)[MaxFiles] = Absent
BY RotationAssumption DEF Left, Slots

(* What is in the loop's way is supported too.                             *)
Waits(h, a, b, sp, f, r) ==
  \A n \in DOMAIN h : r + 1 \in Slots /\ h[n] = f[r + 1] => Supported(h, a, b, sp, n, r + 1)

(* A loop that ends early leaves what it has passed one slot up, and what  *)
(* was in its way where it is; one rotation more is spoilt.                *)
LEMMA EndsEarly ==
  ASSUME NEW h, Distinct(h), NEW p \in [Slots -> SUBSET Int], NEW g \in [Slots -> SUBSET Int],
         NEW rp \in 0..(MaxFiles - 1), NEW rg \in 0..(MaxFiles - 1), rg = rp \/ rg = rp - 1,
         NEW sp \in Nat,
         AllSupported(h, Left(p, rp), Left(g, rg), sp),
         Waits(h, Left(p, rp), Left(g, rg), sp, p, rp), Waits(h, Left(p, rp), Left(g, rg), sp, g, rg),
         Cardinality(Gone(h, Left(p, rp), Left(g, rg), MaxFiles - 1)) <= sp
  PROVE  /\ AllSupported(h, p, g, sp + 1)
         /\ Cardinality(Gone(h, p, g, MaxFiles)) <= sp + 1
<1> DEFINE a == Left(p, rp)
           b == Left(g, rg)
<1>0. h \in Seq(SUBSET Int) /\ DOMAIN h \subseteq Int /\ Slots \subseteq Int /\ sp + 1 \in Nat
  <2>1. h \in Seq(SUBSET Int)
    BY Zenon DEF Distinct
  <2> QED BY <2>1, SlotFacts
<1>1. /\ \A u \in Slots : u <= rp => a[u] = p[u]
      /\ \A u \in Slots : rp + 1 < u => u - 1 \in Slots /\ a[u - 1] = p[u]
      /\ \A u \in Slots : a[u] = Absent \/ a[u] = p[u] \/ (u + 1 \in Slots /\ a[u] = p[u + 1])
  BY Zenon, LeftAt
<1>a. /\ \A u \in Slots : u <= rg => b[u] = g[u]
      /\ \A u \in Slots : rg < u /\ u < MaxFiles => b[u] = g[u + 1]
      /\ \A u \in Slots : rg + 1 < u => u - 1 \in Slots /\ b[u - 1] = g[u]
      /\ \A u \in Slots : b[u] = Absent \/ b[u] = g[u] \/ (u + 1 \in Slots /\ b[u] = g[u + 1])
  <2>1. /\ \A u \in Slots : u <= rg => b[u] = g[u]
        /\ \A u \in Slots : rg < u /\ u < MaxFiles => b[u] = g[u + 1] /\ u + 1 \in Slots
        /\ \A u \in Slots : rg + 1 < u => u - 1 \in Slots /\ b[u - 1] = g[u]
        /\ \A u \in Slots : b[u] = Absent \/ b[u] = g[u] \/ (u + 1 \in Slots /\ b[u] = g[u + 1])
    BY Zenon, LeftAt
  <2> QED BY Zenon, <2>1
<1>c. \A u \in Slots : (u <= rp \/ u = rp + 1 \/ rp + 1 < u) /\ (u <= rg \/ u = rg + 1 \/ rg + 1 < u)
  BY Zenon, LeftAt
<1>d. /\ AllSupported(h, a, b, sp) /\ Waits(h, a, b, sp, p, rp) /\ Waits(h, a, b, sp, g, rg)
      /\ Cardinality(Gone(h, a, b, MaxFiles - 1)) <= sp
  BY Zenon
<1> HIDE DEF a, b
<1>2. \A m \in DOMAIN h : h[m] # Absent
  BY Zenon DEF Distinct, Real
<1>3. ASSUME NEW n \in DOMAIN h, NEW s \in Slots, s - 1 \in Slots, Supported(h, a, b, sp, n, s - 1)
      PROVE  Supported(h, p, g, sp + 1, n, s)
  <2>1. ASSUME NEW m \in DOMAIN h, NEW u \in Slots, u < s - 1, h[m] = a[u] \/ h[m] = b[u]
        PROVE  \E w \in Slots : w < s /\ (h[m] = p[w] \/ h[m] = g[w])
    <3>1. u < s /\ u + 1 < s
      BY <1>0, <2>1
    <3>2. CASE h[m] = a[u]
      BY <1>1, <1>2, <3>1, <3>2
    <3>3. CASE h[m] = b[u]
      BY <1>a, <1>2, <3>1, <3>3
    <3> QED BY Zenon, <2>1, <3>2, <3>3
  <2>2. Under(h, a, b, n, s - 1) \subseteq Under(h, p, g, n, s)
    BY Zenon, <2>1 DEF Under
  <2>3. Cardinality(Under(h, a, b, n, s - 1)) <= Cardinality(Under(h, p, g, n, s))
    BY Zenon, <1>0, <2>2, PlacesCard, UnderType
  <2>4. Cardinality(Under(h, a, b, n, s - 1)) \in Nat /\ Cardinality(Under(h, p, g, n, s)) \in Nat
    BY Zenon, <1>0, UnderType
  <2>5. s - 1 <= 1 + sp + Cardinality(Under(h, a, b, n, s - 1))
    BY Zenon, <1>3 DEF Supported
  <2>6. s <= 1 + (sp + 1) + Cardinality(Under(h, p, g, n, s))
    BY Zenon, <1>0, <2>3, <2>4, <2>5, OneMoreSlot
  <2> QED BY Zenon, <2>6 DEF Supported
<1>4. ASSUME NEW n \in DOMAIN h, NEW s \in Slots, s <= rp + 1, Supported(h, a, b, sp, n, s)
      PROVE  Supported(h, p, g, sp + 1, n, s)
  <2>1. \A f : \E x : \A m \in DOMAIN h : h[m] = f => m = x
    BY Zenon, OnePlace
  <2>2. PICK y : \A m \in DOMAIN h : h[m] = g[s] => m = y
    BY <2>1
  <2>3. ASSUME NEW m \in DOMAIN h, NEW u \in Slots, u < s, h[m] = a[u] \/ h[m] = b[u]
        PROVE  h[m] = p[u] \/ h[m] = g[u] \/ h[m] = g[s]
    <3>1. u <= rp /\ (u <= rg \/ (rg < u /\ u < MaxFiles /\ u + 1 = s))
      <4>1. u \in Int /\ s \in Int /\ s <= MaxFiles
        BY Zenon, SlotFacts
      <4> QED BY <1>4, <2>3, <4>1, RotationAssumption
    <3>2. a[u] = p[u]
      BY Zenon, <1>1, <3>1
    <3>3. b[u] = g[u] \/ b[u] = g[s]
      BY Zenon, <1>a, <3>1
    <3> QED BY Zenon, <2>3, <3>2, <3>3
  <2>4. Under(h, a, b, n, s) \subseteq Under(h, p, g, n, s) \cup {y}
    BY Zenon, <2>2, <2>3 DEF Under
  <2>5. Cardinality(Under(h, a, b, n, s)) <= Cardinality(Under(h, p, g, n, s)) + 1
    BY Zenon, <1>0, <2>4, PlacesCard, UnderType
  <2>6. s <= s
    BY <1>0
  <2> QED BY Zenon, <1>0, <1>4, <2>5, <2>6, LessSupport
<1>5. ASSUME NEW n \in DOMAIN h, NEW s \in Slots, h[n] = p[s]
      PROVE  Supported(h, p, g, sp + 1, n, s)
  <2>1. CASE s <= rp
    <3>1. Supported(h, a, b, sp, n, s)
      BY Zenon, <1>1, <1>5, <1>d, <2>1 DEF AllSupported
    <3>2. s <= rp + 1
      BY <1>0, <2>1
    <3> QED BY Zenon, <1>4, <3>1, <3>2
  <2>2. CASE s = rp + 1
    <3>1. Supported(h, a, b, sp, n, s)
      BY Zenon, <1>5, <1>d, <2>2 DEF Waits
    <3>2. s <= rp + 1
      BY <1>0, <2>2
    <3> QED BY Zenon, <1>4, <3>1, <3>2
  <2>3. CASE rp + 1 < s
    BY Zenon, <1>1, <1>3, <1>5, <1>d, <2>3 DEF AllSupported
  <2> QED BY Zenon, <1>c, <2>1, <2>2, <2>3
<1>6. ASSUME NEW n \in DOMAIN h, NEW s \in Slots, h[n] = g[s]
      PROVE  Supported(h, p, g, sp + 1, n, s)
  <2>1. CASE s <= rg
    <3>1. Supported(h, a, b, sp, n, s)
      BY Zenon, <1>6, <1>a, <1>d, <2>1 DEF AllSupported
    <3>2. s <= rp + 1
      BY <1>0, <2>1
    <3> QED BY Zenon, <1>4, <3>1, <3>2
  <2>2. CASE s = rg + 1
    <3>1. Supported(h, a, b, sp, n, s)
      BY Zenon, <1>6, <1>d, <2>2 DEF Waits
    <3>2. s <= rp + 1
      BY <1>0, <2>2
    <3> QED BY Zenon, <1>4, <3>1, <3>2
  <2>3. CASE rg + 1 < s
    BY Zenon, <1>3, <1>6, <1>a, <1>d, <2>3 DEF AllSupported
  <2> QED BY Zenon, <1>c, <2>1, <2>2, <2>3
<1>7. Cardinality(Gone(h, p, g, MaxFiles)) <= sp + 1
  <2> DEFINE x == Len(h) - MaxFiles + 1
  <2>1. ASSUME NEW n \in DOMAIN h, n > Len(h) - MaxFiles, n # x PROVE n > Len(h) - (MaxFiles - 1)
    BY <1>0, <2>1, RotationAssumption
  <2>2. ASSUME NEW n \in DOMAIN h, NEW u \in Slots, h[n] = a[u] \/ h[n] = b[u]
        PROVE  \E v \in Slots : h[n] = p[v] \/ h[n] = g[v]
    <3>1. CASE h[n] = a[u]
      BY <1>1, <1>2, <3>1
    <3>2. CASE h[n] = b[u]
      BY <1>a, <1>2, <3>2
    <3> QED BY Zenon, <2>2, <3>1, <3>2
  <2>3. Gone(h, p, g, MaxFiles) \subseteq Gone(h, a, b, MaxFiles - 1) \cup {x}
    BY Zenon, <2>1, <2>2 DEF Gone
  <2>4. Cardinality(Gone(h, p, g, MaxFiles)) <= Cardinality(Gone(h, a, b, MaxFiles - 1)) + 1
    BY Zenon, <1>0, <2>3, PlacesCard, UnderType
  <2>5. Cardinality(Gone(h, p, g, MaxFiles)) \in Nat /\ Cardinality(Gone(h, a, b, MaxFiles - 1)) \in Nat
    BY Zenon, <1>0, UnderType
  <2> QED BY <1>d, <2>4, <2>5
<1> QED BY Zenon, <1>5, <1>6, <1>7 DEF AllSupported

(* A rotation that succeeds puts the new file below all others.            *)
LEMMA NewBelow ==
  ASSUME NEW h, Distinct(h), NEW f \in SUBSET Int,
         NEW p \in [Slots -> SUBSET Int], NEW g \in [Slots -> SUBSET Int], NEW q \in [Slots -> SUBSET Int],
         q[1] = f, \A s \in Slots : s # 1 => q[s] = p[s],
         \A s \in Slots : p[s] # f /\ g[s] # f,
         NEW sp \in Nat, AllSupported(h, Left(p, 0), Left(g, 0), sp),
         Cardinality(Gone(h, Left(p, 0), Left(g, 0), MaxFiles - 1)) <= sp,
         NEW k, k = Append(h, f)
  PROVE  /\ AllSupported(k, q, g, sp)
         /\ Cardinality(Gone(k, q, g, MaxFiles)) <= sp
<1>0. /\ h \in Seq(SUBSET Int) /\ k \in Seq(SUBSET Int) /\ Len(k) = Len(h) + 1 /\ Len(h) \in Nat
      /\ DOMAIN k = DOMAIN h \cup {Len(k)} /\ k[Len(k)] = f /\ \A n \in DOMAIN h : k[n] = h[n] /\ n < Len(k)
      /\ Slots \subseteq Int /\ 1 \in Slots /\ DOMAIN h \subseteq Int
  <2>1. h \in Seq(SUBSET Int)
    BY Zenon DEF Distinct
  <2> QED BY <2>1, RotationAssumption DEF Slots
<1> DEFINE a == Left(p, 0)
           b == Left(g, 0)
<1>d. \A u \in Slots : 0 < u /\ u + 1 # 1 /\ (u # 1 => 1 < u /\ u - 1 < MaxFiles)
  BY RotationAssumption DEF Slots
<1>e. /\ \A u \in Slots : u < MaxFiles => a[u] = p[u + 1] /\ b[u] = g[u + 1] /\ u + 1 \in Slots
      /\ \A u \in Slots : 1 < u => u - 1 \in Slots /\ a[u - 1] = p[u] /\ b[u - 1] = g[u]
      /\ a[MaxFiles] = Absent /\ b[MaxFiles] = Absent
  <2>1. /\ \A u \in Slots : u < MaxFiles => a[u] = p[u + 1] /\ u + 1 \in Slots
        /\ \A u \in Slots : 1 < u => u - 1 \in Slots /\ a[u - 1] = p[u]
        /\ a[MaxFiles] = Absent
    BY Zenon, LeftAtZero
  <2>2. /\ \A u \in Slots : u < MaxFiles => b[u] = g[u + 1] /\ u + 1 \in Slots
        /\ \A u \in Slots : 1 < u => u - 1 \in Slots /\ b[u - 1] = g[u]
        /\ b[MaxFiles] = Absent
    BY Zenon, LeftAtZero
  <2> HIDE DEF a, b
  <2> QED BY Zenon, <2>1, <2>2
<1>b. AllSupported(h, a, b, sp) /\ Cardinality(Gone(h, a, b, MaxFiles - 1)) <= sp
  BY Zenon
<1> HIDE DEF a, b
<1>1. \A u \in Slots : u < MaxFiles => a[u] = q[u + 1] /\ b[u] = g[u + 1] /\ u + 1 \in Slots
  BY Zenon, <1>d, <1>e
<1>a. \A u \in Slots : u # 1 => u - 1 \in Slots /\ u - 1 < MaxFiles /\ 1 < u /\ a[u - 1] = q[u] /\ b[u - 1] = g[u]
  BY Zenon, <1>d, <1>e
<1>c. a[MaxFiles] = Absent /\ b[MaxFiles] = Absent
  BY Zenon, <1>d, <1>e
<1>2. \A m \in DOMAIN h : h[m] # Absent
  BY Zenon DEF Distinct, Real
<1>3. ASSUME NEW n \in DOMAIN k, NEW s \in Slots, k[n] = q[s] \/ k[n] = g[s]
      PROVE  Supported(k, q, g, sp, n, s)
  <2>1. CASE s = 1
    BY Zenon, <1>0, <2>1, FreeSupport
  <2>2. CASE s # 1 /\ n \in DOMAIN h
    <3>1. /\ s - 1 \in Slots /\ s - 1 < MaxFiles /\ 1 < s
          /\ a[s - 1] = q[s] /\ b[s - 1] = g[s] /\ k[n] = h[n]
      BY Zenon, <1>0, <1>a, <2>2
    <3>2. Supported(h, a, b, sp, n, s - 1)
      BY Zenon, <1>3, <1>b, <2>2, <3>1 DEF AllSupported
    <3> DEFINE U == Under(h, a, b, n, s - 1)
               V == Under(k, q, g, n, s)
    <3>3. Len(k) \in V
      BY Zenon, <1>0, <2>2, <3>1 DEF Under
    <3>4. ASSUME NEW m \in DOMAIN h, NEW u \in Slots, u < s - 1, h[m] = a[u] \/ h[m] = b[u]
          PROVE  \E w \in Slots : w < s /\ (h[m] = q[w] \/ h[m] = g[w])
      <4>1. u + 1 < s /\ u < MaxFiles
        BY <1>0, <3>1, <3>4, SlotFacts
      <4>2. a[u] = q[u + 1] /\ b[u] = g[u + 1] /\ u + 1 \in Slots
        BY Zenon, <1>1, <4>1
      <4> QED BY Zenon, <3>4, <4>1, <4>2
    <3>5. U \subseteq V /\ U \subseteq DOMAIN h
      <4>1. ASSUME NEW m \in DOMAIN h, m > n, \E u \in Slots : u < s - 1 /\ (h[m] = a[u] \/ h[m] = b[u])
            PROVE  m \in DOMAIN k /\ \E w \in Slots : w < s /\ (k[m] = q[w] \/ k[m] = g[w])
        <5>1. \E w \in Slots : w < s /\ (h[m] = q[w] \/ h[m] = g[w])
          BY Zenon, <3>4, <4>1
        <5>2. k[m] = h[m] /\ m \in DOMAIN k
          BY Zenon, <1>0
        <5> QED BY Zenon, <5>1, <5>2
      <4> QED BY Zenon, <4>1 DEF Under
    <3>6. U \cup {Len(k)} \subseteq V /\ Len(k) \notin U /\ V \subseteq DOMAIN k
      <4>1. Len(k) \notin DOMAIN h
        BY <1>0
      <4> QED BY Zenon, <3>3, <3>5, <4>1 DEF Under
    <3>7. IsFiniteSet(U) /\ IsFiniteSet(V) /\ Cardinality(U) \in Nat /\ Cardinality(V) \in Nat
      BY Zenon, <1>0, <3>5, <3>6, PlacesCard
    <3>8. Cardinality(U \cup {Len(k)}) = Cardinality(U) + 1
      BY Zenon, <3>6, <3>7, FS_AddElement
    <3>9. Cardinality(U \cup {Len(k)}) <= Cardinality(V)
      BY Zenon, <3>6, <3>7, FS_Subset
    <3>10. s - 1 <= 1 + sp + Cardinality(U)
      BY Zenon, <3>2 DEF Supported
    <3>11. s <= 1 + sp + Cardinality(V)
      <4> HIDE DEF U, V
      <4> QED BY <1>0, <3>7, <3>8, <3>9, <3>10
    <3> QED BY Zenon, <3>11 DEF Supported
  <2>3. CASE s # 1 /\ n \notin DOMAIN h
    <3>1. k[n] = f
      BY Zenon, <1>0, <2>3
    <3> QED BY Zenon, <1>3, <2>3, <3>1
  <2> QED BY Zenon, <2>1, <2>2, <2>3
<1>4. Gone(k, q, g, MaxFiles) \subseteq Gone(h, a, b, MaxFiles - 1)
  <2>1. ASSUME NEW n \in DOMAIN k, n > Len(k) - MaxFiles, \A v \in Slots : k[n] # q[v] /\ k[n] # g[v]
        PROVE  n \in DOMAIN h /\ n > Len(h) - (MaxFiles - 1) /\ \A v \in Slots : h[n] # a[v] /\ h[n] # b[v]
    <3>1. n \in DOMAIN h /\ k[n] = h[n]
      BY Zenon, <1>0, <2>1
    <3>2. n > Len(h) - (MaxFiles - 1)
      BY <1>0, <2>1, <3>1, RotationAssumption
    <3>3. ASSUME NEW v \in Slots PROVE h[n] # a[v] /\ h[n] # b[v]
      <4>1. CASE v < MaxFiles
        <5>1. a[v] = q[v + 1] /\ b[v] = g[v + 1] /\ v + 1 \in Slots
          BY Zenon, <1>1, <4>1
        <5>2. k[n] # q[v + 1] /\ k[n] # g[v + 1]
          BY Zenon, <2>1, <5>1
        <5> QED BY Zenon, <3>1, <5>1, <5>2
      <4>2. CASE v = MaxFiles
        BY Zenon, <1>2, <1>c, <3>1, <4>2
      <4> QED BY Zenon, <4>1, <4>2, SlotFacts
    <3> QED BY Zenon, <3>1, <3>2, <3>3
  <2> QED BY Zenon, <2>1 DEF Gone
<1>5. /\ Gone(k, q, g, MaxFiles) \subseteq DOMAIN h /\ Cardinality(Gone(k, q, g, MaxFiles)) \in Nat
      /\ Gone(h, a, b, MaxFiles - 1) \subseteq DOMAIN h /\ Cardinality(Gone(h, a, b, MaxFiles - 1)) \in Nat
  BY Zenon, <1>0, <1>4, UnderType
<1>6. Cardinality(Gone(k, q, g, MaxFiles)) <= Cardinality(Gone(h, a, b, MaxFiles - 1))
  BY Zenon, <1>0, <1>4, <1>5, PlacesCard
<1>7. Cardinality(Gone(k, q, g, MaxFiles)) <= sp
  BY Zenon, <1>5, <1>6, <1>b, LessOrEqual
<1> QED BY Zenon, <1>3, <1>7 DEF AllSupported
(* Once as many rotations as there are slots were spoilt nothing is asked. *)
LEMMA AllSpoilt ==
  ASSUME NEW h, Distinct(h), NEW a, NEW b, NEW sp \in Nat, sp = MaxFiles
  PROVE  /\ AllSupported(h, a, b, sp) /\ \A f, r : Waits(h, a, b, sp, f, r)
         /\ Cardinality(Gone(h, a, b, MaxFiles)) <= sp /\ Cardinality(Gone(h, a, b, MaxFiles - 1)) <= sp
<1>1. h \in Seq(SUBSET Int)
  BY Zenon DEF Distinct
<1>2. MaxFiles \in Nat /\ MaxFiles - 1 \in Nat /\ MaxFiles <= MaxFiles /\ MaxFiles - 1 <= MaxFiles
  BY RotationAssumption
<1>3. \A n, v : v \in Slots => Supported(h, a, b, sp, n, v)
  BY Zenon, <1>1, FreeSupport
<1>4. Cardinality(Gone(h, a, b, MaxFiles)) <= MaxFiles /\ Cardinality(Gone(h, a, b, MaxFiles - 1)) <= MaxFiles
  BY Zenon, <1>1, <1>2, FewGone
<1> QED BY Zenon, <1>3, <1>4 DEF AllSupported, Waits

(* The last file is removed, or not.                                       *)
Emptied(f, k) == \A u \in Slots : k[u] = f[u] \/ (u = MaxFiles /\ k[u] = Absent)

(* The loop starts above the last slot, which is empty or in its way.      *)
LEMMA Dropping ==
  ASSUME NEW h, Distinct(h), NEW p, NEW g, NEW sp \in Nat,
         AllSupported(h, p, g, sp), Cardinality(Gone(h, p, g, MaxFiles)) <= sp,
         NEW q, Emptied(p, q), NEW k, Emptied(g, k)
  PROVE  /\ AllSupported(h, Left(q, MaxFiles - 1), Left(k, MaxFiles - 1), sp)
         /\ Waits(h, Left(q, MaxFiles - 1), Left(k, MaxFiles - 1), sp, q, MaxFiles - 1)
         /\ Waits(h, Left(q, MaxFiles - 1), Left(k, MaxFiles - 1), sp, k, MaxFiles - 1)
         /\ Cardinality(Gone(h, Left(q, MaxFiles - 1), Left(k, MaxFiles - 1), MaxFiles - 1)) <= sp
<1> DEFINE c == Left(q, MaxFiles - 1)
           d == Left(k, MaxFiles - 1)
<1>1. /\ \A u \in Slots : u # MaxFiles => c[u] = q[u] /\ d[u] = k[u]
      /\ c[MaxFiles] = Absent /\ d[MaxFiles] = Absent
      /\ MaxFiles \in Slots /\ (MaxFiles - 1) + 1 = MaxFiles
  BY RotationAssumption DEF Left, Slots
<1> HIDE DEF c, d
<1>2. \A u \in Slots : u # MaxFiles => c[u] = p[u] /\ d[u] = g[u]
  BY Zenon, <1>1 DEF Emptied
<1>3. \A n \in DOMAIN h : h[n] = p[MaxFiles] \/ h[n] = g[MaxFiles] => Supported(h, p, g, sp, n, MaxFiles)
  BY Zenon, <1>1 DEF AllSupported
<1>4. /\ \A n : \A v \in Slots : Supported(h, p, g, sp, n, v) <=> Supported(h, c, d, sp, n, v)
      /\ Cardinality(Gone(h, c, d, MaxFiles - 1)) <= sp
  BY Zenon, <1>1, <1>2, <1>3, DropLast
<1>5. \A n \in DOMAIN h : h[n] # Absent
  BY Zenon DEF Distinct, Real
<1>6. AllSupported(h, c, d, sp)
  BY Zenon, <1>1, <1>2, <1>4, <1>5 DEF AllSupported
<1>7. Waits(h, c, d, sp, q, MaxFiles - 1) /\ Waits(h, c, d, sp, k, MaxFiles - 1)
  BY Zenon, <1>1, <1>3, <1>4, <1>5 DEF Waits, Emptied
<1> QED BY Zenon, <1>4, <1>6, <1>7 DEF c, d
(* The two schemes are counted alike.                                      *)
LEMMA Swapped ==
  ASSUME NEW h, NEW a, NEW b
  PROVE  /\ \A sp : AllSupported(h, a, b, sp) <=> AllSupported(h, b, a, sp)
         /\ \A sp, f, r : Waits(h, a, b, sp, f, r) <=> Waits(h, b, a, sp, f, r)
         /\ \A w : Gone(h, a, b, w) = Gone(h, b, a, w)
<1>1. /\ \A w : Gone(h, a, b, w) = Gone(h, b, a, w)
      /\ \A sp, n, v : Supported(h, a, b, sp, n, v) <=> Supported(h, b, a, sp, n, v)
  <2>1. \A n, v : Under(h, a, b, n, v) = Under(h, b, a, n, v)
    BY Zenon DEF Under
  <2>2. \A w : Gone(h, a, b, w) = Gone(h, b, a, w)
    BY Zenon DEF Gone
  <2> QED BY Zenon, <2>1, <2>2 DEF Supported
<1> QED BY Zenon, <1>1 DEF AllSupported, Waits

(* Functions on the slots that agree are the same.                         *)
LEMMA SameFunction ==
  ASSUME NEW a \in [Slots -> SUBSET Int], NEW c \in [Slots -> SUBSET Int], \A u \in Slots : c[u] = a[u]
  PROVE  c = a
OBVIOUS

(* One scheme's step of the loop at slot j: its file is moved, or there is *)
(* none, or it stays and a shift more is spoilt.                           *)
Shifts(f, k, j, sp, sq) ==
  \/ sq = sp /\ f[j] # Absent /\ k = [f EXCEPT ![j + 1] = f[j], ![j] = Absent]
  \/ sq = sp /\ f[j] = Absent /\ k = f
  \/ sq = sp + 1 /\ k = f
  \/ sq = sp /\ sp = MaxFiles

(* Such a step keeps what is in the slots supported, and what waits.       *)
LEMMA Shifting ==
  ASSUME NEW h, Distinct(h), NEW f \in [Slots -> SUBSET Int], NEW b \in [Slots -> SUBSET Int],
         NEW j \in 1..(MaxFiles - 1), NEW sp \in Nat, NEW sq \in Nat, NEW k \in [Slots -> SUBSET Int],
         Shifts(f, k, j, sp, sq),
         AllSupported(h, Left(f, j), b, sp), Waits(h, Left(f, j), b, sp, f, j),
         Cardinality(Gone(h, Left(f, j), b, MaxFiles - 1)) <= sp
  PROVE  /\ AllSupported(h, Left(k, j - 1), b, sq) /\ Waits(h, Left(k, j - 1), b, sq, k, j - 1)
         /\ \A g, r : Waits(h, Left(f, j), b, sp, g, r) => Waits(h, Left(k, j - 1), b, sq, g, r)
         /\ Cardinality(Gone(h, Left(k, j - 1), b, MaxFiles - 1)) <= sq
<1> DEFINE a == Left(f, j)
           c == Left(k, j - 1)
<1>0. /\ j \in Slots /\ j + 1 \in Slots /\ (j - 1) + 1 = j
      /\ a \in [Slots -> SUBSET Int] /\ c \in [Slots -> SUBSET Int]
  BY RotationAssumption DEF Left, Slots, Absent
<1>1. /\ \A u \in Slots : u # j => a[u] = IF u < j THEN f[u] ELSE IF u < MaxFiles THEN f[u + 1] ELSE Absent
      /\ \A u \in Slots : u # j => c[u] = IF u < j THEN k[u] ELSE IF u < MaxFiles THEN k[u + 1] ELSE Absent
      /\ a[j] = f[j] /\ c[j] = k[j + 1]
  BY RotationAssumption DEF Left, Slots
<1>b. AllSupported(h, a, b, sp) /\ Waits(h, a, b, sp, f, j) /\ Cardinality(Gone(h, a, b, MaxFiles - 1)) <= sp
  BY Zenon
<1> HIDE DEF a, c
<1>2. \A n \in DOMAIN h : h[n] # Absent
  BY Zenon DEF Distinct, Real
<1>3. CASE sq = sp /\ k = [f EXCEPT ![j + 1] = f[j], ![j] = Absent]
  <2>1. \A u \in Slots : k[u] = IF u = j THEN Absent ELSE IF u = j + 1 THEN f[j] ELSE f[u]
    BY <1>0, <1>3
  <2>2. \A u \in Slots : u # j => c[u] = a[u]
    BY <1>1, <2>1, RotationAssumption DEF Slots
  <2>3. c[j] = a[j]
    BY <1>0, <1>1, <2>1, SlotFacts
  <2>4. \A u \in Slots : c[u] = a[u]
    BY Zenon, <2>2, <2>3
  <2>5. c = a
    BY Zenon, <1>0, <2>4, SameFunction
  <2>6. Waits(h, c, b, sq, k, j - 1)
    BY Zenon, <1>0, <1>2, <2>1 DEF Waits
  <2> QED BY Zenon, <1>3, <1>b, <2>5, <2>6 DEF a, c
<1>4. CASE k = f /\ ((sq = sp /\ a[j] = Absent) \/ sq = sp + 1)
  <2>1. \A u \in Slots : u # j => c[u] = a[u]
    BY Zenon, <1>1, <1>4
  <2>2. /\ \A n \in DOMAIN h, v \in Slots : Supported(h, a, b, sp, n, v) => Supported(h, c, b, sq, n, v)
        /\ \A n \in DOMAIN h : Supported(h, a, b, sp, n, j + 1) => Supported(h, c, b, sq, n, j)
        /\ Cardinality(Gone(h, c, b, MaxFiles - 1)) <= sq
    <3>1. Replaces(a, c, j, sp, sq)
      BY Zenon, <1>4, <2>1 DEF Replaces
    <3>2. /\ \A n \in DOMAIN h, v \in Slots : Supported(h, a, b, sp, n, v) => Supported(h, c, b, sq, n, v)
          /\ \A n \in DOMAIN h : Supported(h, a, b, sp, n, j + 1) => Supported(h, c, b, sq, n, j)
          /\ \A x : Cardinality(Gone(h, a, b, x)) <= sp => Cardinality(Gone(h, c, b, x)) <= sq
      BY Zenon, <1>0, <3>1, Replaced
    <3> QED BY Zenon, <1>b, <3>2
  <2>3. \A g, r : Waits(h, a, b, sp, g, r) => Waits(h, c, b, sq, g, r)
    BY Zenon, <2>2 DEF Waits
  <2>4. ASSUME NEW n \in DOMAIN h, h[n] = c[j] PROVE Supported(h, c, b, sq, n, j)
    BY Zenon, <1>0, <1>1, <1>4, <1>b, <2>2, <2>4 DEF Waits
  <2>5. ASSUME NEW n \in DOMAIN h, NEW v \in Slots, h[n] = c[v] \/ h[n] = b[v]
        PROVE  Supported(h, c, b, sq, n, v)
    <3>1. CASE h[n] = c[v] /\ v = j
      BY Zenon, <2>4, <3>1
    <3>2. CASE h[n] = c[v] /\ v # j
      BY Zenon, <1>b, <2>1, <2>2, <3>2 DEF AllSupported
    <3>3. CASE h[n] = b[v]
      BY Zenon, <1>b, <2>2, <3>3 DEF AllSupported
    <3> QED BY Zenon, <2>5, <3>1, <3>2, <3>3
  <2>6. ASSUME NEW n \in DOMAIN h, h[n] = f[j] PROVE Supported(h, c, b, sq, n, j)
    BY Zenon, <1>0, <1>1, <1>b, <2>2, <2>6 DEF AllSupported
  <2>7. AllSupported(h, c, b, sq) /\ Waits(h, c, b, sq, k, j - 1)
    BY Zenon, <1>0, <1>4, <2>5, <2>6 DEF AllSupported, Waits
  <2> QED BY Zenon, <2>2, <2>3, <2>7 DEF a, c
<1>5. CASE sq = sp /\ sp = MaxFiles
  BY Zenon, <1>5, AllSpoilt DEF a, c
<1> QED BY Zenon, <1>1, <1>3, <1>4, <1>5 DEF Shifts
-----------------------------------------------------------------------------
(* Holes and losses, step by step                                          *)

(* The slots the loop has yet to treat, and the files with what it has     *)
(* treated counted one slot down.                                          *)
LeftPlain == IF Dropped THEN i ELSE MaxFiles
LeftGz == IF pc = "plain" THEN i - 1 ELSE LeftPlain
Plains == Left(plain, LeftPlain)
Gzs == Left(gz, LeftGz)

Holes ==
  /\ AllSupported(rotated, Plains, Gzs, spoilt)
  /\ Waits(rotated, Plains, Gzs, spoilt, plain, LeftPlain)
  /\ Waits(rotated, Plains, Gzs, spoilt, gz, LeftGz)
  /\ Cardinality(Gone(rotated, Plains, Gzs, IF Dropped THEN MaxFiles - 1 ELSE MaxFiles)) <= spoilt

(* Outside the loop the files are where they are.                          *)
LEMMA AtRest ==
  Shape /\ ~Dropped =>
    (Holes <=> /\ AllSupported(rotated, plain, gz, spoilt)
               /\ Cardinality(Gone(rotated, plain, gz, MaxFiles)) <= spoilt)
<1> SUFFICES ASSUME Shape, ~Dropped
             PROVE  Holes <=> /\ AllSupported(rotated, plain, gz, spoilt)
                              /\ Cardinality(Gone(rotated, plain, gz, MaxFiles)) <= spoilt
  BY Zenon
<1>1. plain \in [Slots -> SUBSET Int] /\ gz \in [Slots -> SUBSET Int]
  BY Zenon DEF Shape
<1>2. LeftPlain = MaxFiles /\ LeftGz = MaxFiles
  BY Zenon DEF LeftPlain, LeftGz, Dropped
<1>3. ASSUME NEW f \in [Slots -> SUBSET Int] PROVE Left(f, MaxFiles) = f
  <2>1. \A u \in Slots : u <= MaxFiles
    BY Zenon, SlotFacts
  <2>2. Left(f, MaxFiles) = [u \in Slots |-> f[u]]
    BY <2>1 DEF Left
  <2> QED BY <2>2
<1>4. Plains = plain /\ Gzs = gz
  BY Zenon, <1>1, <1>2, <1>3 DEF Plains, Gzs
<1>5. MaxFiles + 1 \notin Slots
  BY RotationAssumption DEF Slots
<1>6. \A f : Waits(rotated, plain, gz, spoilt, f, MaxFiles)
  BY Zenon, <1>5 DEF Waits
<1> QED BY Zenon, <1>2, <1>4, <1>6 DEF Holes

(* Within the loop.                                                        *)
LEMMA InLoop ==
  ASSUME Shape, Dropped
  PROVE  /\ LeftPlain \in 0..(MaxFiles - 1) /\ LeftGz \in 0..(MaxFiles - 1)
         /\ LeftGz = LeftPlain \/ LeftGz = LeftPlain - 1
         /\ pc = "gz" => LeftPlain = i /\ LeftGz = i
         /\ pc = "plain" => LeftPlain = i /\ LeftGz = i - 1
         /\ pc = "rename" => LeftPlain = 0 /\ LeftGz = 0
         /\ pc # "rename" => i \in 1..(MaxFiles - 1)
<1>1. i \in 0..(MaxFiles - 1) /\ (i = 0 <=> pc = "rename")
  BY Zenon DEF Shape
<1>2. LeftPlain = i /\ LeftGz = IF pc = "plain" THEN i - 1 ELSE i
  BY Zenon DEF LeftPlain, LeftGz
<1> QED BY <1>1, <1>2, RotationAssumption

(* Outside the loop, files that are neither lost nor found.                *)
LEMMA RestKept ==
  ASSUME Shape, Shape', Holes, ~Dropped, ~Dropped', UNCHANGED <<rotated, spoilt>>,
         Alike(rotated, plain, gz, plain', gz')
  PROVE  Holes'
<1>1. AllSupported(rotated, plain, gz, spoilt) /\ Cardinality(Gone(rotated, plain, gz, MaxFiles)) <= spoilt
  BY Zenon, AtRest
<1>2. AllSupported(rotated, plain', gz', spoilt) /\ Cardinality(Gone(rotated, plain', gz', MaxFiles)) <= spoilt
  BY Zenon, <1>1, SameCounts
<1>3. Shape' /\ ~Dropped' =>
        (Holes' <=> /\ AllSupported(rotated, plain, gz, spoilt)'
                    /\ (Cardinality(Gone(rotated, plain, gz, MaxFiles)) <= spoilt)')
  BY AtRest, PTL
<1> QED BY Zenon, <1>2, <1>3
(* The last slot is emptied, or left to be overwritten.                    *)
LEMMA DropKept ==
  ASSUME Shape, Shape', History, Holes, Drop
  PROVE  Holes'
<1>1. /\ ~Dropped /\ Dropped' /\ pc' # "plain" /\ i' = MaxFiles - 1
      /\ UNCHANGED <<rotated, spoilt>> /\ Distinct(rotated) /\ spoilt \in Nat
      /\ plain \in [Slots -> SUBSET Int] /\ gz \in [Slots -> SUBSET Int]
  <2>1. pc = "drop" /\ pc' = ShiftStart /\ i' = MaxFiles - 1 /\ UNCHANGED <<rotated, spoilt>>
    BY Zenon DEF Drop, history
  <2>2. Distinct(rotated) /\ spoilt \in 0..MaxFiles
    BY Zenon DEF History, Shape
  <2>3. spoilt \in Nat
    BY <2>2, RotationAssumption
  <2>4. plain \in [Slots -> SUBSET Int] /\ gz \in [Slots -> SUBSET Int]
    BY Zenon DEF Shape
  <2> QED BY <2>1, <2>2, <2>3, <2>4 DEF ShiftStart, Dropped
<1>2. AllSupported(rotated, plain, gz, spoilt) /\ Cardinality(Gone(rotated, plain, gz, MaxFiles)) <= spoilt
  BY Zenon, <1>1, AtRest
<1>3. ASSUME NEW f \in [Slots -> SUBSET Int], NEW k, k \in {f, [f EXCEPT ![MaxFiles] = Absent]}
      PROVE  Emptied(f, k)
  BY <1>3, SlotFacts DEF Emptied
<1>4. plain' \in {plain, [plain EXCEPT ![MaxFiles] = Absent]} /\ gz' \in {gz, [gz EXCEPT ![MaxFiles] = Absent]}
  BY Zenon DEF Drop
<1>5. Emptied(plain, plain') /\ Emptied(gz, gz')
  BY Zenon, <1>1, <1>3, <1>4
<1>6. /\ AllSupported(rotated, Left(plain', MaxFiles - 1), Left(gz', MaxFiles - 1), spoilt)
      /\ Waits(rotated, Left(plain', MaxFiles - 1), Left(gz', MaxFiles - 1), spoilt, plain', MaxFiles - 1)
      /\ Waits(rotated, Left(plain', MaxFiles - 1), Left(gz', MaxFiles - 1), spoilt, gz', MaxFiles - 1)
      /\ Cardinality(Gone(rotated, Left(plain', MaxFiles - 1), Left(gz', MaxFiles - 1), MaxFiles - 1)) <= spoilt
  BY Zenon, <1>1, <1>2, <1>5, Dropping
<1>7. LeftPlain' = MaxFiles - 1 /\ LeftGz' = MaxFiles - 1
  BY Zenon, <1>1 DEF LeftPlain, LeftGz
<1> QED BY Zenon, <1>1, <1>6, <1>7 DEF Holes, Plains, Gzs
(* What a step of the loop does to the files of its scheme.                *)
LEMMA OneShift ==
  ASSUME NEW f \in [Slots -> SUBSET Int], Shape, pc \in {"gz", "plain"}, NEW k,
         \/ k = (IF f[i] # Absent THEN Moved(f) ELSE f) /\ UNCHANGED spoilt
         \/ f[i] # Absent /\ Spoil /\ k = f
  PROVE  Shifts(f, k, i, spoilt, spoilt')
<1>1. spoilt \in 0..MaxFiles
  BY Zenon DEF Shape
<1>2. Spoil => spoilt' = spoilt + 1 \/ (spoilt' = spoilt /\ spoilt = MaxFiles)
  BY <1>1, RotationAssumption DEF Spoil
<1> QED BY Zenon, <1>2 DEF Shifts, Moved

(* The loop shifts a compressed file.                                      *)
LEMMA ShiftGzKept ==
  ASSUME Shape, Shape', History, Holes, ShiftGz
  PROVE  Holes'
<1>1. /\ pc = "gz" /\ pc' = "plain" /\ UNCHANGED <<plain, i, rotated>> /\ Dropped /\ Dropped'
      /\ Distinct(rotated) /\ plain \in [Slots -> SUBSET Int] /\ gz \in [Slots -> SUBSET Int]
      /\ gz' \in [Slots -> SUBSET Int] /\ spoilt \in 0..MaxFiles /\ spoilt' \in 0..MaxFiles
  BY Zenon DEF ShiftGz, Dropped, History, Shape
<1>2. spoilt \in Nat /\ spoilt' \in Nat
  BY <1>1, RotationAssumption
<1>3. i \in 1..(MaxFiles - 1) /\ LeftPlain = i /\ LeftGz = i
  BY Zenon, <1>1, InLoop
<1>4. LeftPlain' = i /\ LeftGz' = i - 1
  BY Zenon, <1>1 DEF LeftPlain, LeftGz
<1>5. Shifts(gz, gz', i, spoilt, spoilt')
  <2>1. \/ gz' = (IF gz[i] # Absent THEN Moved(gz) ELSE gz) /\ UNCHANGED spoilt
        \/ gz[i] # Absent /\ Spoil /\ gz' = gz
    BY Zenon DEF ShiftGz
  <2> QED BY Zenon, <1>1, <2>1, OneShift
<1>6. Left(plain, i) \in [Slots -> SUBSET Int]
  BY <1>1, <1>3, RotationAssumption DEF Left, Slots, Absent
<1>7. /\ AllSupported(rotated, Left(gz, i), Left(plain, i), spoilt)
      /\ Waits(rotated, Left(gz, i), Left(plain, i), spoilt, gz, i)
      /\ Waits(rotated, Left(gz, i), Left(plain, i), spoilt, plain, i)
      /\ Cardinality(Gone(rotated, Left(gz, i), Left(plain, i), MaxFiles - 1)) <= spoilt
  <2>1. /\ AllSupported(rotated, Left(plain, i), Left(gz, i), spoilt)
        /\ Waits(rotated, Left(plain, i), Left(gz, i), spoilt, gz, i)
        /\ Waits(rotated, Left(plain, i), Left(gz, i), spoilt, plain, i)
        /\ Cardinality(Gone(rotated, Left(plain, i), Left(gz, i), MaxFiles - 1)) <= spoilt
    BY Zenon, <1>1, <1>3 DEF Holes, Plains, Gzs
  <2> QED BY Zenon, <2>1, Swapped
<1>8. /\ AllSupported(rotated, Left(gz', i - 1), Left(plain, i), spoilt')
      /\ Waits(rotated, Left(gz', i - 1), Left(plain, i), spoilt', gz', i - 1)
      /\ Waits(rotated, Left(gz', i - 1), Left(plain, i), spoilt', plain, i)
      /\ Cardinality(Gone(rotated, Left(gz', i - 1), Left(plain, i), MaxFiles - 1)) <= spoilt'
  BY Zenon, <1>1, <1>2, <1>3, <1>5, <1>6, <1>7, Shifting
<1>9. /\ AllSupported(rotated, Left(plain, i), Left(gz', i - 1), spoilt')
      /\ Waits(rotated, Left(plain, i), Left(gz', i - 1), spoilt', gz', i - 1)
      /\ Waits(rotated, Left(plain, i), Left(gz', i - 1), spoilt', plain, i)
      /\ Cardinality(Gone(rotated, Left(plain, i), Left(gz', i - 1), MaxFiles - 1)) <= spoilt'
  BY Zenon, <1>8, Swapped
<1> QED BY Zenon, <1>1, <1>4, <1>9 DEF Holes, Plains, Gzs

(* The loop shifts a plain file.                                           *)
LEMMA ShiftPlainKept ==
  ASSUME Shape, Shape', History, Holes, ShiftPlain
  PROVE  Holes'
<1>1. /\ pc = "plain" /\ i' = i - 1 /\ UNCHANGED <<gz, rotated>> /\ Dropped /\ Dropped' /\ pc' # "plain"
      /\ Distinct(rotated) /\ plain \in [Slots -> SUBSET Int] /\ gz \in [Slots -> SUBSET Int]
      /\ plain' \in [Slots -> SUBSET Int] /\ spoilt \in 0..MaxFiles /\ spoilt' \in 0..MaxFiles
  <2>1. /\ pc = "plain" /\ i' = i - 1 /\ UNCHANGED <<gz, rotated>>
        /\ pc' = IF i > 1 THEN "gz" ELSE "rename"
    BY Zenon DEF ShiftPlain
  <2>2. Dropped /\ Dropped' /\ pc' # "plain"
    BY <2>1 DEF Dropped
  <2> QED BY Zenon, <2>1, <2>2 DEF History, Shape
<1>2. spoilt \in Nat /\ spoilt' \in Nat
  BY <1>1, RotationAssumption
<1>3. i \in 1..(MaxFiles - 1) /\ LeftPlain = i /\ LeftGz = i - 1
  <2>1. pc # "rename"
    BY <1>1
  <2> QED BY Zenon, <1>1, <2>1, InLoop
<1>4. LeftPlain' = i - 1 /\ LeftGz' = i - 1
  BY Zenon, <1>1 DEF LeftPlain, LeftGz
<1>5. Shifts(plain, plain', i, spoilt, spoilt')
  <2>1. \/ plain' = (IF plain[i] # Absent THEN Moved(plain) ELSE plain) /\ UNCHANGED spoilt
        \/ plain[i] # Absent /\ Spoil /\ plain' = plain
    BY Zenon DEF ShiftPlain
  <2> QED BY Zenon, <1>1, <2>1, OneShift
<1>6. Left(gz, i - 1) \in [Slots -> SUBSET Int]
  BY <1>1, <1>3, RotationAssumption DEF Left, Slots, Absent
<1>7. /\ AllSupported(rotated, Left(plain, i), Left(gz, i - 1), spoilt)
      /\ Waits(rotated, Left(plain, i), Left(gz, i - 1), spoilt, gz, i - 1)
      /\ Waits(rotated, Left(plain, i), Left(gz, i - 1), spoilt, plain, i)
      /\ Cardinality(Gone(rotated, Left(plain, i), Left(gz, i - 1), MaxFiles - 1)) <= spoilt
  BY Zenon, <1>1, <1>3 DEF Holes, Plains, Gzs
<1>8. /\ AllSupported(rotated, Left(plain', i - 1), Left(gz, i - 1), spoilt')
      /\ Waits(rotated, Left(plain', i - 1), Left(gz, i - 1), spoilt', gz, i - 1)
      /\ Waits(rotated, Left(plain', i - 1), Left(gz, i - 1), spoilt', plain', i - 1)
      /\ Cardinality(Gone(rotated, Left(plain', i - 1), Left(gz, i - 1), MaxFiles - 1)) <= spoilt'
  BY Zenon, <1>1, <1>2, <1>3, <1>5, <1>6, <1>7, Shifting
<1> QED BY Zenon, <1>1, <1>4, <1>8 DEF Holes, Plains, Gzs
(* The current file becomes the first.                                     *)
LEMMA RenameKept ==
  ASSUME Shape, Shape', Control, Newest, History, Holes, Rename
  PROVE  Holes'
<1>1. /\ pc = "rename" /\ path # Absent /\ path # {} /\ path # Torn /\ UNCHANGED <<gz, spoilt>>
      /\ plain' = [plain EXCEPT ![1] = path] /\ rotated' = Append(rotated, path)
      /\ Dropped /\ ~Dropped' /\ Distinct(rotated) /\ path \in SUBSET Int
      /\ plain \in [Slots -> SUBSET Int] /\ gz \in [Slots -> SUBSET Int]
      /\ plain' \in [Slots -> SUBSET Int] /\ spoilt \in 0..MaxFiles
  <2>1. /\ pc = "rename" /\ path # Absent /\ UNCHANGED <<gz, spoilt>>
        /\ plain' = [plain EXCEPT ![1] = path] /\ rotated' = Append(rotated, path)
        /\ pc' = IF compress THEN "gzip" ELSE "reopen"
    BY Zenon DEF Rename
  <2>2. Dropped /\ ~Dropped'
    BY <2>1 DEF Dropped
  <2> QED BY Zenon, <2>1, <2>2 DEF History, Shape, Control
<1>2. spoilt \in Nat
  BY <1>1, RotationAssumption
<1>3. LeftPlain = 0 /\ LeftGz = 0
  BY Zenon, <1>1, InLoop
<1>4. plain'[1] = path /\ \A s \in Slots : s # 1 => plain'[s] = plain[s]
  BY <1>1, SlotFacts
<1>5. \A s \in Slots : plain[s] # path /\ gz[s] # path
  <2>1. Real(path)
    BY Zenon, <1>1 DEF Real
  <2>2. ~Older(path, path)
    <3>1. PICK x \in path : x \in Int
      BY Zenon, <1>1
    <3>2. ~(x < x)
      BY <3>1
    <3> QED BY Zenon, <3>1, <3>2 DEF Older
  <2> QED BY Zenon, <2>1, <2>2 DEF Newest
<1>6. /\ AllSupported(rotated, Left(plain, 0), Left(gz, 0), spoilt)
      /\ Cardinality(Gone(rotated, Left(plain, 0), Left(gz, 0), MaxFiles - 1)) <= spoilt
  BY Zenon, <1>1, <1>3 DEF Holes, Plains, Gzs
<1>7. AllSupported(rotated', plain', gz, spoilt) /\ Cardinality(Gone(rotated', plain', gz, MaxFiles)) <= spoilt
  BY Zenon, <1>1, <1>2, <1>4, <1>5, <1>6, NewBelow
<1>8. Shape' /\ ~Dropped' =>
        (Holes' <=> /\ AllSupported(rotated, plain, gz, spoilt)'
                    /\ (Cardinality(Gone(rotated, plain, gz, MaxFiles)) <= spoilt)')
  BY AtRest, PTL
<1> QED BY Zenon, <1>1, <1>7, <1>8

(* A rotation that has dropped a file ends without adding one.             *)
LEMMA SpoiltKept ==
  ASSUME Shape, Shape', History, Holes, Dropped, ~Dropped', Spoil, UNCHANGED <<plain, gz, rotated>>
  PROVE  Holes'
<1>1. /\ Distinct(rotated) /\ plain \in [Slots -> SUBSET Int] /\ gz \in [Slots -> SUBSET Int]
      /\ spoilt \in 0..MaxFiles
  BY Zenon DEF History, Shape
<1>2. spoilt \in Nat /\ (spoilt' = spoilt + 1 \/ (spoilt' = spoilt /\ spoilt = MaxFiles))
  BY <1>1, RotationAssumption DEF Spoil
<1>3. /\ AllSupported(rotated, plain, gz, spoilt')
      /\ Cardinality(Gone(rotated, plain, gz, MaxFiles)) <= spoilt'
  <2>1. CASE spoilt' = spoilt + 1
    <3>1. /\ LeftPlain \in 0..(MaxFiles - 1) /\ LeftGz \in 0..(MaxFiles - 1)
          /\ LeftGz = LeftPlain \/ LeftGz = LeftPlain - 1
      BY Zenon, InLoop
    <3>2. /\ AllSupported(rotated, Left(plain, LeftPlain), Left(gz, LeftGz), spoilt)
          /\ Waits(rotated, Left(plain, LeftPlain), Left(gz, LeftGz), spoilt, plain, LeftPlain)
          /\ Waits(rotated, Left(plain, LeftPlain), Left(gz, LeftGz), spoilt, gz, LeftGz)
          /\ Cardinality(Gone(rotated, Left(plain, LeftPlain), Left(gz, LeftGz), MaxFiles - 1)) <= spoilt
      BY Zenon DEF Holes, Plains, Gzs
    <3>3. /\ AllSupported(rotated, plain, gz, spoilt + 1)
          /\ Cardinality(Gone(rotated, plain, gz, MaxFiles)) <= spoilt + 1
      BY Zenon, <1>1, <1>2, <3>1, <3>2, EndsEarly
    <3> QED BY Zenon, <2>1, <3>3
  <2>2. CASE spoilt' = spoilt /\ spoilt = MaxFiles
    <3>1. AllSupported(rotated, plain, gz, spoilt) /\ Cardinality(Gone(rotated, plain, gz, MaxFiles)) <= spoilt
      BY Zenon, <1>1, <1>2, <2>2, AllSpoilt
    <3> QED BY Zenon, <2>2, <3>1
  <2> QED BY Zenon, <1>2, <2>1, <2>2
<1>4. Shape' /\ ~Dropped' =>
        (Holes' <=> /\ AllSupported(rotated, plain, gz, spoilt)'
                    /\ (Cardinality(Gone(rotated, plain, gz, MaxFiles)) <= spoilt)')
  BY AtRest, PTL
<1> QED BY Zenon, <1>3, <1>4
(* Compressing a file and removing what was compressed lose nothing, and   *)
(* neither does a compressed file cut short.                               *)
LEMMA GzipKept ==
  ASSUME Shape, Shape', Control, History, Holes, ~Dropped, ~Dropped', UNCHANGED <<rotated, spoilt>>,
         \/ UNCHANGED <<plain, gz>>
         \/ plain' = plain /\ gz[1] = Absent /\ gz' = [gz EXCEPT ![1] = plain[1]]
         \/ plain' = plain /\ gz[1] = Absent /\ gz' = [gz EXCEPT ![1] = Torn]
         \/ plain' = [plain EXCEPT ![1] = Absent] /\ gz' = gz /\ gz[1] = plain[1]
  PROVE  Holes'
<1>1. \A n \in DOMAIN rotated : rotated[n] # Absent /\ rotated[n] # Torn
  BY Zenon DEF History, Distinct, Real
<1>2. plain \in [Slots -> SUBSET Int] /\ gz \in [Slots -> SUBSET Int] /\ 1 \in Slots
  BY Zenon, SlotFacts DEF Shape
<1>3. \A x : \A f \in [Slots -> SUBSET Int] : /\ [f EXCEPT ![1] = x][1] = x
                                              /\ \A u \in Slots : u # 1 => [f EXCEPT ![1] = x][u] = f[u]
  BY <1>2
<1>4. Alike(rotated, plain, gz, plain', gz')
  <2>1. CASE UNCHANGED <<plain, gz>>
    BY Zenon, <2>1 DEF Alike
  <2>2. CASE plain' = plain /\ gz[1] = Absent /\ gz' = [gz EXCEPT ![1] = plain[1]]
    <3>1. gz'[1] = plain[1] /\ \A u \in Slots : u # 1 => gz'[u] = gz[u]
      BY Zenon, <1>2, <1>3, <2>2
    <3> QED BY Zenon, <1>1, <2>2, <3>1 DEF Alike
  <2>3. CASE plain' = plain /\ gz[1] = Absent /\ gz' = [gz EXCEPT ![1] = Torn]
    <3>1. gz'[1] = Torn /\ \A u \in Slots : u # 1 => gz'[u] = gz[u]
      BY Zenon, <1>2, <1>3, <2>3
    <3> QED BY Zenon, <1>1, <2>3, <3>1 DEF Alike
  <2>4. CASE plain' = [plain EXCEPT ![1] = Absent] /\ gz' = gz /\ gz[1] = plain[1]
    <3>1. plain'[1] = Absent /\ \A u \in Slots : u # 1 => plain'[u] = plain[u]
      BY Zenon, <1>2, <1>3, <2>4
    <3> QED BY Zenon, <1>1, <2>4, <3>1 DEF Alike
  <2> QED BY Zenon, <2>1, <2>2, <2>3, <2>4
<1> QED BY Zenon, <1>4, RestKept

(* Every step leaves no more holes and losses than it spoils.              *)
LEMMA HolesKept ==
  ASSUME Shape, Shape', Control, Newest, History, Holes, [Next]_vars
  PROVE  Holes'
<1>1. CASE ~Dropped /\ ~Dropped' /\ UNCHANGED <<plain, gz, rotated, spoilt>>
  BY Zenon, <1>1, GzipKept
<1>2. CASE Write \/ WriteLine \/ Refuse \/ CloseFile \/ Reopen
  <2>1. ~Dropped /\ ~Dropped'
    BY <1>2 DEF Write, WriteLine, Refuse, CloseFile, Reopen, Dropped
  <2> QED BY Zenon, <1>1, <1>2, <2>1 DEF Write, WriteLine, Refuse, CloseFile, Reopen, files, history
<1>3. CASE RenameFails
  <2>1. Dropped /\ ~Dropped'
    BY <1>3 DEF RenameFails, Dropped
  <2> QED BY Zenon, <1>3, <2>1, SpoiltKept DEF RenameFails, files
<1>4. CASE Gzip
  <2>1. ~Dropped /\ ~Dropped'
    BY <1>4 DEF Gzip, Dropped
  <2>2. /\ UNCHANGED <<plain, rotated, spoilt>>
        /\ gz' = gz \/ (gz[1] = Absent /\ gz' = [gz EXCEPT ![1] = plain[1]])
    BY Zenon, <1>4 DEF Gzip, history
  <2> QED BY Zenon, <2>1, <2>2, GzipKept
<1>5. CASE Remove
  <2>1. ~Dropped /\ ~Dropped'
    BY <1>5 DEF Remove, Dropped
  <2>2. /\ UNCHANGED <<gz, rotated, spoilt>> /\ gz[1] = plain[1]
        /\ plain' = plain \/ plain' = [plain EXCEPT ![1] = Absent]
    BY Zenon, <1>5 DEF Remove, history, Control
  <2> QED BY Zenon, <2>1, <2>2, GzipKept
<1>6. CASE NewWriter
  <2>1. pc' = "idle" /\ UNCHANGED <<plain, rotated>>
    BY Zenon, <1>6 DEF NewWriter
  <2>2. ~Dropped'
    BY <2>1 DEF Dropped
  <2>3. CASE Dropped
    <3>1. pc # "gzip"
      BY <2>3 DEF Dropped
    <3>2. gz' = gz /\ Spoil
      BY Zenon, <1>6, <2>3, <3>1 DEF NewWriter
    <3> QED BY Zenon, <2>1, <2>2, <2>3, <3>2, SpoiltKept
  <2>4. CASE ~Dropped
    <3>1. spoilt' = spoilt /\ (gz' = gz \/ (gz[1] = Absent /\ gz' = [gz EXCEPT ![1] = Torn]))
      BY Zenon, <1>6, <2>4 DEF NewWriter
    <3> QED BY Zenon, <2>1, <2>2, <2>4, <3>1, GzipKept
  <2> QED BY Zenon, <2>3, <2>4
<1>7. CASE UNCHANGED vars
  BY Zenon, <1>7 DEF Holes, Plains, Gzs, LeftPlain, LeftGz, Dropped, vars, files, history
<1>8. CASE Drop \/ ShiftGz \/ ShiftPlain \/ Rename
  BY Zenon, <1>8, DropKept, ShiftGzKept, ShiftPlainKept, RenameKept
<1> QED BY Zenon, <1>2, <1>3, <1>4, <1>5, <1>6, <1>7, <1>8 DEF Next
-----------------------------------------------------------------------------
(* The results                                                             *)

RotationInv == Shape /\ Control /\ Newest /\ Ages /\ History /\ Holes

(* There is nothing yet to be out of order or missing.                     *)
LEMMA RotationInit == Init => RotationInv
<1> SUFFICES ASSUME Init PROVE RotationInv
  BY Zenon
<1>1. /\ path = {} /\ (\A s \in Slots : plain[s] = Absent /\ gz[s] = Absent) /\ open = TRUE /\ size = 0
      /\ pc = "idle" /\ next = 0 /\ rotated = <<>> /\ spoilt = 0 /\ DOMAIN rotated = {}
  BY DEF Init
<1>2. ~Dropped
  BY <1>1 DEF Dropped
<1>3. Shape
  BY RotationAssumption DEF Init, Shape, Slots, Absent, Dropped
<1>4. {} # Absent /\ {} # Torn /\ pc # "remove" /\ pc \notin {"gz", "plain"} /\ \A x \in Absent : x <= 0
  BY <1>1 DEF Absent, Torn
<1>5. Control
  BY Zenon, <1>1, <1>4 DEF Control
<1>6. Newest
  BY Zenon, <1>1, <1>4 DEF Newest, Real
<1>7. Ages
  BY Zenon, <1>1, <1>4, BehindFacts DEF Ages
<1>8. rotated \in Seq(SUBSET Int)
  BY Zenon, <1>3 DEF Shape
<1>9. History
  BY Zenon, <1>1, <1>8 DEF History, Distinct
<1>10. AllSupported(rotated, plain, gz, spoilt)
  BY Zenon, <1>1 DEF AllSupported
<1>11. Cardinality(Gone(rotated, plain, gz, MaxFiles)) <= spoilt
  <2>1. Gone(rotated, plain, gz, MaxFiles) = {}
    BY Zenon, <1>1 DEF Gone
  <2>2. Cardinality(Gone(rotated, plain, gz, MaxFiles)) = 0
    BY Zenon, <2>1, FS_EmptySet
  <2> QED BY <1>1, <2>2
<1>12. Holes
  BY Zenon, <1>2, <1>3, <1>10, <1>11, AtRest
<1> QED BY Zenon, <1>3, <1>5, <1>6, <1>7, <1>9, <1>12 DEF RotationInv

(* Whatever fails and wherever a rotation is cut off, the files keep their *)
(* order, and nothing is missing that was not spoilt.                      *)
THEOREM RotationCorrect == Spec => []RotationInv
<1>1. RotationInv /\ [Next]_vars => RotationInv'
  <2> SUFFICES ASSUME RotationInv, [Next]_vars PROVE RotationInv'
    BY Zenon
  <2>1. Shape /\ Control /\ Newest /\ Ages /\ History /\ Holes
    BY Zenon DEF RotationInv
  <2>2. Shape'
    BY Zenon, <2>1, ShapeKept
  <2>3. Control' /\ Newest' /\ Ages' /\ History'
    BY Zenon, <2>1, ControlKept, NewestKept, AgesKept, HistoryKept
  <2>4. Holes'
    BY Zenon, <2>1, <2>2, HolesKept
  <2> QED BY Zenon, <2>2, <2>3, <2>4 DEF RotationInv
<1> QED BY RotationInit, <1>1, PTL DEF Spec

(* "existing files shift up by one": as long as no shift has failed, a     *)
(* higher number is an older file or a second copy of the same one.        *)
THEOREM HigherNumbersAreOlder == Spec => []NumbersAreAges
<1>1. RotationInv => NumbersAreAges
  <2> SUFFICES ASSUME Newest, Ages, ~stuck,
                      NEW s \in 0..MaxFiles, NEW t \in 0..MaxFiles, s < t,
                      View(s) \notin {Absent, Torn}, View(t) \notin {Absent, Torn}
               PROVE  Older(View(t), View(s)) \/ View(t) = View(s)
    BY Zenon DEF RotationInv, NumbersAreAges
  <2>1. t \in Slots /\ t # 0 /\ (s = 0 \/ (s \in Slots /\ s # 0))
    BY RotationAssumption DEF Slots
  <2>2. Real(View(s)) /\ Real(View(t)) /\ (View(t) = plain[t] \/ View(t) = gz[t])
    BY Zenon, <2>1 DEF Real, View
  <2>3. CASE s = 0
    <3>1. View(s) = path
      BY Zenon, <2>3 DEF View
    <3> QED BY Zenon, <2>1, <2>2, <3>1 DEF Newest
  <2>4. CASE s \in Slots /\ s # 0
    <3>1. View(s) = plain[s] \/ View(s) = gz[s]
      BY Zenon, <2>4 DEF View
    <3>2. /\ Behind(plain[t], plain[s]) /\ Behind(plain[t], gz[s])
          /\ Behind(gz[t], plain[s]) /\ Behind(gz[t], gz[s])
      BY Zenon, <2>1, <2>4 DEF Ages
    <3> QED BY Zenon, <2>2, <3>1, <3>2 DEF Behind
  <2> QED BY Zenon, <2>1, <2>3, <2>4
<1> QED BY RotationCorrect, <1>1, PTL

(* "retain this many rotated files": of the newest max-files no more are   *)
(* missing than rotations or shifts were spoilt, and one for the rotation  *)
(* that is under way.                                                      *)
THEOREM KeepsTheNewest == Spec => []RetainsMaxFiles
<1>1. RotationInv => RetainsMaxFiles
  <2> SUFFICES ASSUME Shape, History, Holes PROVE RetainsMaxFiles
    BY Zenon DEF RotationInv
  <2>1. /\ Distinct(rotated) /\ plain \in [Slots -> SUBSET Int] /\ gz \in [Slots -> SUBSET Int]
        /\ rotated \in Seq(SUBSET Int) /\ spoilt \in 0..MaxFiles
    BY Zenon DEF History, Shape
  <2>2. spoilt \in Nat
    BY <2>1, RotationAssumption
  <2> DEFINE G == Gone(rotated, plain, gz, MaxFiles)
             newest == {rotated[n] : n \in {m \in DOMAIN rotated : m > Len(rotated) - MaxFiles}}
             kept == {plain[s] : s \in Slots} \cup {gz[s] : s \in Slots}
             F == [n \in G |-> rotated[n]]
  <2>3. Cardinality(G) <= spoilt + (IF Dropped THEN 1 ELSE 0)
    <3>1. CASE ~Dropped
      <4>1. Cardinality(G) <= spoilt
        BY Zenon, <3>1, AtRest
      <4> HIDE DEF G
      <4> QED BY <2>2, <3>1, <4>1
    <3>2. CASE Dropped
      <4>1. /\ LeftPlain \in 0..(MaxFiles - 1) /\ LeftGz \in 0..(MaxFiles - 1)
            /\ LeftGz = LeftPlain \/ LeftGz = LeftPlain - 1
        BY Zenon, <3>2, InLoop
      <4>2. /\ AllSupported(rotated, Left(plain, LeftPlain), Left(gz, LeftGz), spoilt)
            /\ Waits(rotated, Left(plain, LeftPlain), Left(gz, LeftGz), spoilt, plain, LeftPlain)
            /\ Waits(rotated, Left(plain, LeftPlain), Left(gz, LeftGz), spoilt, gz, LeftGz)
            /\ Cardinality(Gone(rotated, Left(plain, LeftPlain), Left(gz, LeftGz), MaxFiles - 1)) <= spoilt
        BY Zenon, <3>2 DEF Holes, Plains, Gzs
      <4>3. Cardinality(G) <= spoilt + 1
        BY Zenon, <2>1, <2>2, <4>1, <4>2, EndsEarly
      <4> HIDE DEF G
      <4> QED BY Zenon, <3>2, <4>3
    <3> QED BY Zenon, <3>1, <3>2
  <2>4. G \subseteq DOMAIN rotated /\ Cardinality(G) \in Nat /\ IsFiniteSet(G)
    BY Zenon, <2>1, UnderType, PlacesCard
  <2>5. \A f : f \in newest \ kept <=> \E n \in G : f = rotated[n]
    BY Zenon DEF Gone
  <2>6. F \in Surjection(G, newest \ kept)
    <3>1. F \in [G -> newest \ kept] /\ \A f \in newest \ kept : \E n \in G : F[n] = f
      <4> HIDE DEF G, newest, kept
      <4> QED BY Zenon, <2>5
    <3> QED BY Zenon, <3>1 DEF Surjection
  <2>7. IsFiniteSet(newest \ kept) /\ Cardinality(newest \ kept) <= Cardinality(G)
    <3> HIDE DEF G, newest, kept, F
    <3> QED BY Zenon, <2>4, <2>6, FS_Surjection
  <2>8. Cardinality(newest \ kept) \in Nat
    <3> HIDE DEF newest, kept
    <3> QED BY Zenon, <2>7, FS_CardinalityType
  <2>9. Cardinality(newest \ kept) <= spoilt + (IF Dropped THEN 1 ELSE 0)
    <3> HIDE DEF G, newest, kept
    <3> QED BY <2>2, <2>3, <2>4, <2>7, <2>8
  <2> QED BY Zenon, <2>9 DEF RetainsMaxFiles
<1> QED BY RotationCorrect, <1>1, PTL
=============================================================================
