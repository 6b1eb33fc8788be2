------------------------------ MODULE Rotation ------------------------------
(***************************************************************************)
(* rotatingFileWriter: a log file that is rotated by size, step by step,   *)
(* with every system call that may fail and a crash between any two.       *)
(*                                                                         *)
(* A line has length 1 and the number of its acceptance; a file is the set *)
(* of its lines.  fw.mu makes Write and the rotation in it one caller's;   *)
(* a new writer is opened by a reload or after a crash.                    *)
(***************************************************************************)
EXTENDS Integers, Sequences, FiniteSets

CONSTANTS
  MaxSize,         \* max-size, in lines
  MaxFiles,        \* max-files
  MaxLines,        \* bound on accepted lines
  MaxFaults        \* bound on failed calls and crashes within a rotation

ASSUME RotationAssumption ==
  MaxSize \in Nat \ {0} /\ MaxFiles \in Nat \ {0} /\ MaxLines \in Nat /\ MaxFaults \in Nat

Absent == {-1}     \* no file
Torn == {0}        \* a gzip file that was cut short

VARIABLES
  path,            \* the file at fw.path
  plain, gz,       \* the rotated files, <path>.i and <path>.i.gz
  open, size, compress,   \* fw.f # nil, fw.size, fw.compress
  pc, i,           \* within Write, and the loop variable of rotate
  next,            \* lines accepted so far
  rotated,         \* history: the files that became <path>.1, oldest first
  spoilt,          \* history: rotations that dropped a file and added none,
                   \* and shifts that failed
  stuck,           \* history: a shift has failed
  faults

files == <<path, plain, gz>>
fw == <<open, size, compress>>
history == <<next, rotated, spoilt, stuck>>
vars == <<files, fw, pc, i, history, faults>>

Slots == 1..MaxFiles

(* openFile creates the file or appends to it, and seeds size from it.     *)
Init ==
  /\ path = {} /\ plain = [s \in Slots |-> Absent] /\ gz = [s \in Slots |-> Absent]
  /\ open = TRUE /\ size = 0 /\ compress \in BOOLEAN
  /\ pc = "idle" /\ i = 0
  /\ next = 0 /\ rotated = <<>> /\ spoilt = 0 /\ stuck = FALSE /\ faults = 0

Fault == faults < MaxFaults /\ faults' = faults + 1

(* (A count beyond MaxFiles says no more.)                                 *)
Spoil == spoilt' = IF spoilt < MaxFiles THEN spoilt + 1 ELSE spoilt

(* The oldest file is gone and the current one not yet rotated.            *)
Dropped == pc \in {"gz", "plain", "rename"}

-----------------------------------------------------------------------------
Write ==
  /\ pc = "idle" /\ next < MaxLines
  /\ pc' = IF size > 0 /\ size + 1 > MaxSize THEN "rotate" ELSE "append"
  /\ UNCHANGED <<files, fw, i, history, faults>>

(* The line goes to the open file; without one Write returns an error.     *)
WriteLine ==
  /\ pc = "append" /\ pc' = "idle"
  /\ IF open THEN /\ path' = path \cup {next + 1} /\ next' = next + 1
                  /\ size' = size + 1
     ELSE UNCHANGED <<path, next, size>>
  /\ UNCHANGED <<plain, gz, open, compress, i, rotated, spoilt, stuck, faults>>

(* checkAncestorsNotSymlinked may refuse; the file is then still open.     *)
Refuse ==
  /\ pc = "rotate" /\ Fault /\ pc' = "append"
  /\ UNCHANGED <<files, fw, i, history>>

CloseFile ==
  /\ pc = "rotate" /\ pc' = "drop" /\ open' = FALSE
  /\ UNCHANGED <<files, size, compress, i, history, faults>>

ShiftStart == IF MaxFiles > 1 THEN "gz" ELSE "rename"

(* What cannot be removed is overwritten by the shift, or stays.           *)
Drop ==
  /\ pc = "drop"
  /\ plain' \in {plain, [plain EXCEPT ![MaxFiles] = Absent]}
  /\ gz' \in {gz, [gz EXCEPT ![MaxFiles] = Absent]}
  /\ IF plain'[MaxFiles] = Absent /\ gz'[MaxFiles] = Absent THEN UNCHANGED faults ELSE Fault
  /\ i' = MaxFiles - 1 /\ pc' = ShiftStart
  /\ UNCHANGED <<path, fw, history>>

(* os.Rename(src(i), src(i + 1)) for one naming scheme; a failure is only  *)
(* logged.                                                                 *)
Moved(f) == [f EXCEPT ![i + 1] = f[i], ![i] = Absent]

ShiftGzMut ==  \* only the naming scheme in force is shifted
  /\ pc = "gz" /\ pc' = "plain"
  /\ gz' = IF compress /\ gz[i] # Absent THEN Moved(gz) ELSE gz
  /\ UNCHANGED <<path, plain, fw, i, history, faults>>
ShiftGz ==
  /\ pc = "gz" /\ pc' = "plain"
  /\ \/ gz' = (IF gz[i] # Absent THEN Moved(gz) ELSE gz) /\ UNCHANGED <<spoilt, stuck, faults>>
     \/ gz[i] # Absent /\ Fault /\ Spoil /\ stuck' = TRUE /\ UNCHANGED gz
  /\ UNCHANGED <<path, plain, fw, i, next, rotated>>

ShiftPlainMut ==  \* the loop runs upwards
  /\ pc = "plain"
  /\ LET j == MaxFiles - i
     IN  plain' = IF plain[j] # Absent THEN [plain EXCEPT ![j + 1] = plain[j], ![j] = Absent] ELSE plain
  /\ i' = i - 1 /\ pc' = IF i > 1 THEN "gz" ELSE "rename"
  /\ UNCHANGED <<path, gz, fw, history, faults>>
ShiftPlain ==
  /\ pc = "plain"
  /\ \/ plain' = (IF plain[i] # Absent THEN Moved(plain) ELSE plain) /\ UNCHANGED <<spoilt, stuck, faults>>
     \/ plain[i] # Absent /\ Fault /\ Spoil /\ stuck' = TRUE /\ UNCHANGED plain
  /\ i' = i - 1 /\ pc' = IF i > 1 THEN "gz" ELSE "rename"
  /\ UNCHANGED <<path, gz, fw, next, rotated>>

(* The current file becomes <path>.1.                                      *)
Rename ==
  /\ pc = "rename" /\ path # Absent
  /\ plain' = [plain EXCEPT ![1] = path] /\ path' = Absent
  /\ rotated' = Append(rotated, path)
  /\ pc' = IF compress THEN "gzip" ELSE "reopen"
  /\ UNCHANGED <<gz, fw, i, next, spoilt, stuck, faults>>

(* It is not there, or the call fails: rotate returns, and no file is open *)
RenameFails ==
  /\ pc = "rename" /\ IF path = Absent THEN UNCHANGED faults ELSE Fault
  /\ pc' = "append" /\ Spoil
  /\ UNCHANGED <<files, fw, i, next, rotated, stuck>>

(* gzipFile creates <path>.1.gz exclusively; a failure leaves <path>.1.    *)
Gzip ==
  /\ pc = "gzip"
  /\ \/ gz[1] = Absent /\ gz' = [gz EXCEPT ![1] = plain[1]] /\ pc' = "remove" /\ UNCHANGED faults
     \/ gz[1] = Absent /\ Fault /\ pc' = "reopen" /\ UNCHANGED gz
     \/ gz[1] # Absent /\ pc' = "reopen" /\ UNCHANGED <<gz, faults>>
  /\ UNCHANGED <<path, plain, fw, i, history>>

Remove ==
  /\ pc = "remove" /\ pc' = "reopen"
  /\ \/ plain' = [plain EXCEPT ![1] = Absent] /\ UNCHANGED faults
     \/ Fault /\ UNCHANGED plain
  /\ UNCHANGED <<path, gz, fw, i, history>>

(* A fresh file; if it cannot be made, fw.f stays nil and size stale.      *)
Reopen ==
  /\ pc = "reopen" /\ pc' = "append"
  /\ \/ path' = {} /\ open' = TRUE /\ size' = 0 /\ UNCHANGED faults
     \/ Fault /\ UNCHANGED <<path, open, size>>
  /\ UNCHANGED <<plain, gz, compress, i, history>>

(* A reload between two writes, or a crash anywhere: a new writer opens    *)
(* the file, perhaps with another compress setting.                        *)
NewWriter ==
  /\ IF pc = "idle" THEN UNCHANGED faults ELSE Fault
  /\ path' = IF path = Absent THEN {} ELSE path
  /\ open' = TRUE /\ size' = Cardinality(path') /\ compress' \in BOOLEAN
  /\ pc' = "idle" /\ i' = 0
  /\ gz' \in IF pc = "gzip" /\ gz[1] = Absent THEN {gz, [gz EXCEPT ![1] = Torn]} ELSE {gz}
  /\ IF Dropped THEN Spoil ELSE UNCHANGED spoilt
  /\ UNCHANGED <<plain, next, rotated, stuck>>

Next ==
  \/ Write \/ WriteLine \/ Refuse \/ CloseFile \/ Drop \/ ShiftGz \/ ShiftPlain
  \/ Rename \/ RenameFails \/ Gzip \/ Remove \/ Reopen \/ NewWriter

Spec == Init /\ [][Next]_vars
-----------------------------------------------------------------------------
(* What a reader finds in slot s.                                          *)
View(s) ==
  IF s = 0 THEN path ELSE IF plain[s] # Absent THEN plain[s] ELSE gz[s]

Older(f, g) == \A x \in f, y \in g : x < y

(* "existing files shift up by one": as long as no shift has failed, and   *)
(* whatever else fails and whichever naming scheme was in force when, a    *)
(* higher number is an older file or a second copy of the same one.        *)
NumbersAreAges ==
  ~stuck =>
    \A s, t \in 0..MaxFiles :
      s < t /\ View(s) \notin {Absent, Torn} /\ View(t) \notin {Absent, Torn} =>
        Older(View(t), View(s)) \/ View(t) = View(s)

(* "retain this many rotated files": of the newest max-files that were     *)
(* rotated, plain or compressed, no more are missing than rotations or     *)
(* shifts were spoilt, and one for the rotation that is under way.         *)
RetainsMaxFiles ==
  LET newest == {rotated[n] : n \in {m \in DOMAIN rotated : m > Len(rotated) - MaxFiles}}
      kept == {plain[s] : s \in Slots} \cup {gz[s] : s \in Slots}
  IN  Cardinality(newest \ kept) <= spoilt + (IF Dropped THEN 1 ELSE 0)
=============================================================================
