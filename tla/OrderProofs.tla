---------------------------- MODULE OrderProofs ----------------------------
(***************************************************************************)
(* For every set of names and every process list, TopoSort and TopoLayers  *)
(* keep the promise of StartOrder, and TopoLayers never fails after        *)
(* TopoSort.                                                               *)
(*                                                                         *)
(* The invariant counts: a node's in-degree is the number of its           *)
(* dependencies that are not yet counted off (Waits), a node is queued     *)
(* exactly when that number is zero, and nothing stands in the queue       *)
(* before a dependency of its own.  While layers are cut, the in-degree    *)
(* counts the dependencies outside the layers, and the first node of the   *)
(* sorted list that has no layer yet has all of its own in one.            *)
(***************************************************************************)
EXTENDS Order, FiniteSetTheorems, WellFoundedInduction, TLAPS

-----------------------------------------------------------------------------
(* Facts about finite sets and sequences to count with                     *)

(* A subset of a finite set is finite, no larger, and smaller if proper.   *)
LEMMA SubsetCard ==
  ASSUME NEW S, IsFiniteSet(S), NEW T, T \subseteq S
  PROVE  /\ IsFiniteSet(T)
         /\ Cardinality(T) \in Nat /\ Cardinality(S) \in Nat
         /\ Cardinality(T) <= Cardinality(S)
         /\ Cardinality(T) = Cardinality(S) => T = S
BY Zenon, FS_Subset, FS_CardinalityType

(* A finite set has no element exactly when it counts zero.                *)
LEMMA EmptyCard ==
  ASSUME NEW S, IsFiniteSet(S)
  PROVE  Cardinality(S) = 0 <=> S = {}
BY Zenon, FS_EmptySet

(* Taking out one element counts one down.                                 *)
LEMMA RemoveCard ==
  ASSUME NEW S, IsFiniteSet(S), NEW x \in S
  PROVE  Cardinality(S \ {x}) = Cardinality(S) - 1
BY Zenon, FS_RemoveElement

(* Taking out a subset counts its size down.                               *)
LEMMA DiffCard ==
  ASSUME NEW S, IsFiniteSet(S), NEW T
  PROVE  Cardinality(S \ T) = Cardinality(S) - Cardinality(S \cap T)
<1>1. ASSUME NEW A, NEW B, A = S \ T, B = S \cap T
      PROVE  Cardinality(A) = Cardinality(S) - Cardinality(B)
  <2>1. IsFiniteSet(A) /\ IsFiniteSet(B)
    BY Zenon, <1>1, FS_Subset
  <2>2. S = A \cup B /\ A \cap B = {}
    BY Zenon, <1>1
  <2>3. Cardinality(S) = Cardinality(A) + Cardinality(B) - Cardinality({})
    BY <2>1, <2>2, FS_Union
  <2>4. Cardinality(A) \in Nat /\ Cardinality(B) \in Nat /\ Cardinality({}) = 0
    BY Zenon, <2>1, FS_CardinalityType, FS_EmptySet
  <2>5. QED
    BY <2>3, <2>4
<1>2. QED
  BY Zenon, <1>1

(* The elements of a sequence without repetitions are as many as it is     *)
(* long.                                                                   *)
LEMMA SeqCard ==
  ASSUME NEW X, NEW q \in Seq(X),
         \A i, j \in 1..Len(q) : q[i] = q[j] => i = j
  PROVE  Cardinality({q[i] : i \in 1..Len(q)}) = Len(q)
<1> DEFINE S == {q[i] : i \in 1..Len(q)}
<1>1. q \in [1..Len(q) -> S] /\ Len(q) \in Nat
  OBVIOUS
<1>2. q \in Bijection(1..Len(q), S)
  BY Zenon, <1>1 DEF Bijection, Injection, Surjection, IsInjective
<1>3. QED
  BY Zenon, <1>1, <1>2, FS_CountingElements DEF ExistsBijection

(* What the entries of a sequence name is finite.                          *)
LEMMA FieldsFinite ==
  ASSUME NEW X, NEW q \in Seq(X)
  PROVE  IsFiniteSet({q[i].name : i \in DOMAIN q})
<1> DEFINE S == {q[i].name : i \in DOMAIN q}
           f == [i \in 1..Len(q) |-> q[i].name]
<1>1. Len(q) \in Nat /\ DOMAIN q = 1..Len(q)
  OBVIOUS
<1>2. f \in Surjection(1..Len(q), S)
  BY Zenon, <1>1 DEF Surjection
<1>3. IsFiniteSet(1..Len(q))
  BY <1>1, FS_Interval
<1>4. QED
  BY Zenon, <1>2, <1>3, FS_Surjection

(* A set of numbers that is not empty has a least one.                     *)
LEMMA LeastNat ==
  ASSUME NEW T, T \subseteq Nat, T # {}
  PROVE  \E m \in T : \A k \in T : m <= k
<1> DEFINE upto == {0..k : k \in T}
<1>1. upto \subseteq FiniteSubsetsOf(Nat) /\ upto # {}
  <2>1. ASSUME NEW k \in T
        PROVE  0..k \in FiniteSubsetsOf(Nat)
    <3>1. k \in Int /\ 0 \in Int /\ 0..k \subseteq Nat
      OBVIOUS
    <3>2. IsFiniteSet(0..k)
      BY Zenon, <3>1, FS_Interval
    <3>3. QED
      BY Zenon, <3>1, <3>2 DEF FiniteSubsetsOf
  <2>2. QED
    BY Zenon, <2>1
<1>2. PICK A \in upto : \A B \in upto : ~(<<B, A>> \in StrictSubsetOrdering(Nat))
  BY Zenon, <1>1, FS_StrictSubsetOrderingWellFounded, WFMin
<1>3. PICK m \in T : A = 0..m
  BY Zenon
<1>4. ASSUME NEW k \in T, k < m
      PROVE  FALSE
  <2>1. 0..k \in upto /\ 0..k \subseteq 0..m /\ m \in 0..m /\ m \notin 0..k
    BY <1>4
  <2>2. <<0..k, A>> \in StrictSubsetOrdering(Nat)
    BY <2>1, <1>3 DEF StrictSubsetOrdering
  <2>3. QED
    BY Zenon, <2>1, <2>2, <1>2
<1>5. QED
  BY <1>4

-----------------------------------------------------------------------------
(* What holds of 0 and is passed on holds of all numbers up to n.          *)
LEMMA UpTo ==
  ASSUME NEW n \in Nat, NEW T, 0 \in T, \A k \in 1..n : k - 1 \in T => k \in T
  PROVE  \A k \in 0..n : k \in T
<1> SUFFICES ASSUME (0..n) \ T # {} PROVE FALSE
  BY Zenon
<1>1. (0..n) \ T \subseteq Nat
  OBVIOUS
<1>2. PICK m \in (0..n) \ T : \A k \in (0..n) \ T : m <= k
  BY Zenon, <1>1, LeastNat
<1>3. m # 0
  BY Zenon, <1>2
<1>4. m \in 1..n /\ m - 1 \in 0..n /\ ~(m <= m - 1)
  BY <1>2, <1>3
<1> QED BY Zenon, <1>2, <1>4

(* The invariant                                                           *)

Queued == {queue[i] : i \in 1..Len(queue)}
Placed == {queue[i] : i \in 1..head}
Counted(n) == {queue[i] : i \in 1..(IF n \in todo THEN head - 1 ELSE head)}
Waits(n) == Preds(n) \ Counted(n)
Rest(n) == Preds(n) \ Emitted

Shape ==
  /\ services \in Seq(Process)
  /\ phase \in {"load", "edges", "seed", "kahn", "cut", "ordered", "failed"}
  /\ err \in {"none", "duplicate", "unknown", "cycle", "layers"}
  /\ phase = "failed" <=> err # "none"
  /\ queue \in Seq(Names) /\ head \in 0..Len(queue)
  /\ seeded \in 0..Len(services) /\ todo \subseteq Names
  /\ layers \in Seq(SUBSET Names)
  /\ phase \in {"load", "edges"} => queue = <<>> /\ head = 0 /\ seeded = 0 /\ todo = {}
  /\ phase \in {"load", "edges", "seed", "kahn"} => layers = <<>>
  /\ err \in {"duplicate", "unknown"} => head = 0 /\ layers = <<>>
  /\ err = "cycle" => layers = <<>>
  /\ phase \in {"seed", "kahn", "cut", "ordered"} =>
       inDegree \in [Names -> Int] /\ ~Duplicate

InOrder ==
  /\ \A i, j \in 1..Len(queue) : queue[i] = queue[j] => i = j
  /\ \A i \in 1..Len(queue) : \A m \in Preds(queue[i]) : \E j \in 1..(i - 1) : queue[j] = m

Counting ==
  phase \in {"seed", "kahn"} =>
    /\ todo # {} => head > 0 /\ \A n \in todo : queue[head] \in Preds(n)
    /\ \A n \in Names : inDegree[n] = Cardinality(Waits(n))
    /\ \A n \in Queued : Waits(n) = {}

Seeding ==
  /\ phase = "seed" =>
       /\ head = 0 /\ todo = {}
       /\ \A n \in Names : n \in Queued <=>
            Waits(n) = {} /\ \E i \in 1..seeded : services[i].name = n
  /\ phase = "kahn" => \A n \in Names : Waits(n) = {} => n \in Queued

Cutting ==
  phase \in {"cut", "ordered"} =>
    /\ head = Len(queue) /\ Queued = Names
    /\ \A n \in Names : inDegree[n] = IF n \in Emitted THEN -1 ELSE Cardinality(Rest(n))
    /\ \A n \in Emitted : Preds(n) \subseteq Emitted

OrderInv ==
  Shape /\ InOrder /\ Counting /\ Seeding /\ Cutting
  /\ LayersCannotFail /\ CycleIsReported /\ SortIsComplete

-----------------------------------------------------------------------------
(* The graph is finite, and its two readings agree.                        *)
LEMMA Graph ==
  ASSUME services \in Seq(Process)
  PROVE  /\ IsFiniteSet(Names)
         /\ \A n : Preds(n) \subseteq Names /\ Succs(n) \subseteq Names
         /\ \A n, m : m \in Names /\ n \in Names => (m \in Succs(n) <=> n \in Preds(m))
         /\ \A i \in 1..Len(services) : services[i].name \in Names
         /\ \A n \in Names : \E i \in 1..Len(services) : services[i].name = n
<1>1. IsFiniteSet(Names)
  BY Zenon, FieldsFinite DEF Names
<1>2. QED
  BY <1>1 DEF Names, Preds, Succs

(* A step that leaves the process list alone leaves the graph alone.       *)
LEMMA SameGraph ==
  ASSUME UNCHANGED services
  PROVE  /\ Names' = Names /\ Edges' = Edges /\ (Duplicate' <=> Duplicate)
         /\ \A n : Preds(n)' = Preds(n)
BY DEF Names, Edges, Duplicate, Preds

(* The sets that are counted are finite.                                   *)
LEMMA WaitsFinite ==
  ASSUME services \in Seq(Process)
  PROVE  \A n : IsFiniteSet(Waits(n)) /\ IsFiniteSet(Rest(n)) /\ IsFiniteSet(Preds(n))
BY Zenon, Graph, FS_Subset DEF Waits, Rest

(* The order of a queue that stays as it is.                               *)
LEMMA SameOrder ==
  ASSUME InOrder, UNCHANGED services, UNCHANGED queue
  PROVE  InOrder' /\ Queued' = Queued
<1>1. \A n : Preds(n)' = Preds(n)
  BY Zenon, SameGraph
<1>2. Len(queue') = Len(queue) /\ Queued' = Queued
  BY Zenon DEF Queued
<1>3. \A i \in 1..Len(queue) : Preds(queue[i])' = Preds(queue[i])
  BY Zenon, <1>1
<1>4. QED
  BY <1>2, <1>3 DEF InOrder

(* What appending a node whose dependencies are queued does to the queue.  *)
LEMMA Appended ==
  ASSUME services \in Seq(Process), queue \in Seq(Names), InOrder, UNCHANGED services,
         NEW n \in Names, n \notin Queued, Preds(n) \subseteq Queued,
         queue' = Append(queue, n)
  PROVE  /\ queue' \in Seq(Names) /\ Len(queue') = Len(queue) + 1
         /\ \A i \in 1..Len(queue) : queue'[i] = queue[i]
         /\ Queued' = Queued \cup {n} /\ InOrder'
<1>1. /\ queue' \in Seq(Names) /\ Len(queue') = Len(queue) + 1 /\ Len(queue) \in Nat
      /\ \A i \in 1..Len(queue) : queue'[i] = queue[i]
      /\ queue'[Len(queue) + 1] = n
  OBVIOUS
<1>2. Queued' = Queued \cup {n}
  <2>1. ASSUME NEW x \in Queued' PROVE x \in Queued \cup {n}
    <3>1. PICK i \in 1..(Len(queue) + 1) : x = queue'[i]
      BY Zenon, <2>1, <1>1 DEF Queued
    <3>2. i \in 1..Len(queue) \/ i = Len(queue) + 1
      BY <1>1
    <3>3. QED
      BY Zenon, <3>1, <3>2, <1>1 DEF Queued
  <2>2. ASSUME NEW x \in Queued PROVE x \in Queued'
    BY <1>1, <2>2 DEF Queued
  <2>3. n \in Queued'
    BY <1>1 DEF Queued
  <2>4. QED
    BY Zenon, <2>1, <2>2, <2>3
<1>3. \A m : Preds(m)' = Preds(m)
  BY Zenon, SameGraph
<1>4. \A i \in 1..Len(queue) : queue[i] # n
  BY Zenon DEF Queued
<1>5. \A i, j \in 1..Len(queue') : queue'[i] = queue'[j] => i = j
  <2> TAKE i, j \in 1..Len(queue')
  <2>1. /\ i \in 1..Len(queue) \/ i = Len(queue) + 1
        /\ j \in 1..Len(queue) \/ j = Len(queue) + 1
    BY <1>1
  <2>2. QED
    BY <2>1, <1>1, <1>4 DEF InOrder
<1>6. ASSUME NEW i \in 1..Len(queue'), NEW m \in Preds(queue'[i])
      PROVE  \E j \in 1..(i - 1) : queue'[j] = m
  <2>1. CASE i \in 1..Len(queue)
    <3>1. m \in Preds(queue[i])
      BY Zenon, <2>1, <1>1, <1>6
    <3>2. PICK j \in 1..(i - 1) : queue[j] = m
      BY Zenon, <2>1, <3>1 DEF InOrder
    <3>3. j \in 1..Len(queue)
      BY <2>1, <1>1
    <3>4. QED
      BY Zenon, <3>2, <3>3, <1>1
  <2>2. CASE i = Len(queue) + 1
    <3>1. m \in Queued /\ i - 1 = Len(queue)
      BY <2>2, <1>1, <1>6
    <3>2. QED
      BY Zenon, <3>1, <1>1 DEF Queued
  <2>3. QED
    BY <2>1, <2>2, <1>1
<1>7. InOrder'
  BY Zenon, <1>3, <1>5, <1>6 DEF InOrder
<1>8. QED
  BY Zenon, <1>1, <1>2, <1>7

(* Nothing is ordered before a process list is there.                      *)
LEMMA OrderInitInv == OrderInit => OrderInv
<1> SUFFICES ASSUME OrderInit PROVE OrderInv
  BY Zenon
<1>1. Shape
  BY DEF OrderInit, Shape
<1>2. InOrder /\ Counting /\ Seeding /\ Cutting
  BY DEF OrderInit, InOrder, Counting, Seeding, Cutting
<1>3. QED
  BY Zenon, <1>1, <1>2 DEF OrderInit, OrderInv, LayersCannotFail, CycleIsReported, SortIsComplete

-----------------------------------------------------------------------------
(* A list arrives and nothing is queued, counted or cut yet.               *)
LEMMA TakeInv == OrderInv /\ Take => OrderInv'
<1> SUFFICES ASSUME OrderInv, Take PROVE OrderInv'
  BY Zenon
<1>1. /\ queue = <<>> /\ head = 0 /\ seeded = 0 /\ todo = {} /\ layers = <<>>
      /\ phase' = "edges" /\ services' \in Seq(Process) /\ err = "none"
      /\ UNCHANGED <<err, cycled, inDegree, seeded, queue, head, todo, layers>>
  BY Zenon DEF Take, OrderInv, Shape
<1>2. Shape'
  BY <1>1 DEF Shape
<1>3. InOrder'
  BY <1>1 DEF InOrder
<1>4. QED
  BY Zenon, <1>1, <1>2, <1>3 DEF OrderInv, Counting, Seeding, Cutting,
     LayersCannotFail, CycleIsReported, SortIsComplete

(* The in-degrees start as the number of dependencies.                     *)
LEMMA BuildEdgesInv == OrderInv /\ BuildEdges => OrderInv'
<1> SUFFICES ASSUME OrderInv, BuildEdges PROVE OrderInv'
  BY Zenon
<1>1. /\ queue = <<>> /\ head = 0 /\ seeded = 0 /\ todo = {} /\ layers = <<>> /\ err = "none"
      /\ services \in Seq(Process)
      /\ UNCHANGED <<services, cycled, seeded, queue, head, todo, layers>>
  BY Zenon DEF BuildEdges, OrderInv, Shape
<1>2. /\ Names' = Names /\ (Duplicate' <=> Duplicate) /\ \A n : Preds(n)' = Preds(n)
      /\ \A n : IsFiniteSet(Preds(n))
  BY Zenon, <1>1, SameGraph, WaitsFinite
<1>3. \A n : Cardinality(Preds(n)) \in Nat
  BY Zenon, <1>2, FS_CardinalityType
<1>4. Shape'
  BY <1>1, <1>2, <1>3 DEF Shape, BuildEdges
<1>5. InOrder'
  BY <1>1 DEF InOrder
<1>6. Queued' = {} /\ \A n : Waits(n)' = Preds(n)
  BY <1>1, <1>2 DEF Queued, Waits, Counted
<1>7. Counting' /\ Seeding'
  BY <1>1, <1>2, <1>6 DEF Counting, Seeding, BuildEdges
<1>8. QED
  BY Zenon, <1>1, <1>4, <1>5, <1>7 DEF OrderInv, BuildEdges, Cutting,
     LayersCannotFail, CycleIsReported, SortIsComplete

(* Seeding queues what waits for nothing, once.                            *)
LEMMA SeedInv == OrderInv /\ Seed => OrderInv'
<1> SUFFICES ASSUME OrderInv, Seed PROVE OrderInv'
  BY Zenon
<1> DEFINE s == services[seeded + 1].name
<1>1. /\ services \in Seq(Process) /\ queue \in Seq(Names) /\ head = 0 /\ todo = {}
      /\ seeded \in 0..Len(services) /\ seeded < Len(services) /\ seeded' = seeded + 1
      /\ phase = "seed" /\ err = "none" /\ layers = <<>> /\ ~Duplicate /\ inDegree \in [Names -> Int]
      /\ UNCHANGED <<services, phase, err, cycled, inDegree, head, todo, layers>>
  BY Zenon DEF Seed, OrderInv, Shape, Seeding
<1>2. /\ Names' = Names /\ (Duplicate' <=> Duplicate) /\ \A n : Preds(n)' = Preds(n)
      /\ s \in Names
  BY <1>1, SameGraph, Graph
<1>3. /\ \A n : Waits(n)' = Waits(n) /\ Waits(n) = Preds(n)
      /\ \A n : IsFiniteSet(Waits(n))
  BY <1>1, <1>2, WaitsFinite DEF Waits, Counted
<1>4. inDegree[s] = 0 <=> Waits(s) = {}
  BY Zenon, <1>1, <1>2, <1>3, EmptyCard DEF OrderInv, Counting
<1>5. \A i \in 1..seeded : services[i].name # s
  BY <1>1 DEF Duplicate
<1>6. s \notin Queued
  BY Zenon, <1>1, <1>2, <1>5 DEF OrderInv, Seeding
<1>7. CASE inDegree[s] = 0
  <2>1. queue' = Append(queue, s)
    BY Zenon, <1>7 DEF Seed
  <2>2. Waits(s) = {} /\ Preds(s) \subseteq Queued
    BY Zenon, <1>3, <1>4, <1>7
  <2>3. queue' \in Seq(Names) /\ Len(queue') = Len(queue) + 1 /\ Queued' = Queued \cup {s} /\ InOrder'
    BY Zenon, <2>1, <2>2, <1>1, <1>2, <1>6, Appended DEF OrderInv
  <2>4. Shape'
    BY <1>1, <1>2, <2>3 DEF Shape
  <2>9. Counting'
    BY Zenon, <1>1, <1>2, <1>3, <1>4, <1>7, <2>3 DEF OrderInv, Counting
  <2>10. Seeding'
    <3>1. ASSUME NEW n \in Names
          PROVE  (\E i \in 1..(seeded + 1) : services[i].name = n) <=>
                 (n = s \/ \E i \in 1..seeded : services[i].name = n)
      BY <1>1
    <3>2. QED
      BY Zenon, <1>1, <1>2, <1>3, <2>2, <2>3, <3>1 DEF OrderInv, Seeding
  <2>11. QED
    BY Zenon, <1>1, <2>3, <2>4, <2>9, <2>10 DEF OrderInv, Cutting,
       LayersCannotFail, CycleIsReported, SortIsComplete
<1>8. CASE inDegree[s] # 0
  <2>1. queue' = queue /\ Queued' = Queued
    BY Zenon, <1>8 DEF Seed, Queued
  <2>2. Shape'
    BY <1>1, <1>2, <2>1 DEF Shape
  <2>3. InOrder' /\ Counting'
    BY Zenon, <1>1, <1>2, <1>3, <2>1, SameOrder DEF OrderInv, Counting
  <2>4. Seeding'
    BY <1>1, <1>2, <1>3, <1>4, <1>8, <2>1 DEF OrderInv, Seeding
  <2>5. QED
    BY Zenon, <1>1, <2>2, <2>3, <2>4 DEF OrderInv, Cutting,
       LayersCannotFail, CycleIsReported, SortIsComplete
<1>9. QED
  BY Zenon, <1>7, <1>8

(* After seeding, a process without dependencies is in the queue.          *)
LEMMA SeedDoneInv == OrderInv /\ SeedDone => OrderInv'
<1> SUFFICES ASSUME OrderInv, SeedDone PROVE OrderInv'
  BY Zenon
<1>1. /\ services \in Seq(Process) /\ phase = "seed" /\ phase' = "kahn" /\ seeded = Len(services)
      /\ UNCHANGED <<services, err, cycled, inDegree, seeded, queue, head, todo, layers>>
  BY Zenon DEF SeedDone, OrderInv, Shape
<1>2. /\ Names' = Names /\ (Duplicate' <=> Duplicate) /\ \A n : Preds(n)' = Preds(n)
  BY Zenon, <1>1, SameGraph
<1>3. Queued' = Queued /\ \A n : Waits(n)' = Waits(n)
  BY Zenon, <1>1, <1>2 DEF Queued, Waits, Counted
<1>4. Shape' /\ InOrder' /\ Counting'
  BY Zenon, <1>1, <1>2, <1>3, SameOrder DEF OrderInv, Shape, Counting
<1>5. Seeding'
  BY Zenon, <1>1, <1>2, <1>3, Graph DEF OrderInv, Seeding
<1>6. QED
  BY Zenon, <1>1, <1>4, <1>5 DEF OrderInv, Shape, Cutting,
     LayersCannotFail, CycleIsReported, SortIsComplete

(* What is dequeued has had its dependencies dequeued before it.           *)
LEMMA DequeueInv == OrderInv /\ Dequeue => OrderInv'
<1> SUFFICES ASSUME OrderInv, Dequeue PROVE OrderInv'
  BY Zenon
<1> DEFINE x == queue[head + 1]
<1>1. /\ services \in Seq(Process) /\ queue \in Seq(Names) /\ phase = "kahn" /\ todo = {}
      /\ head \in 0..Len(queue) /\ head < Len(queue) /\ head' = head + 1
      /\ todo' = Succs(x) /\ err = "none"
      /\ UNCHANGED <<services, phase, err, cycled, inDegree, seeded, queue, layers>>
  BY Zenon DEF Dequeue, OrderInv, Shape
<1>2. /\ Names' = Names /\ (Duplicate' <=> Duplicate) /\ \A n : Preds(n)' = Preds(n)
      /\ x \in Names /\ Succs(x) \subseteq Names
      /\ \A n \in Names : n \in Succs(x) <=> x \in Preds(n)
  BY <1>1, SameGraph, Graph
<1>3. Queued' = Queued /\ InOrder'
  BY Zenon, <1>1, SameOrder DEF OrderInv
<1>4. ASSUME NEW n \in Names
      PROVE  Waits(n)' = Waits(n)
  <2>1. CASE n \in Succs(x)
    <3>1. (IF n \in todo' THEN head' - 1 ELSE head') = (IF n \in todo THEN head - 1 ELSE head)
      BY <2>1, <1>1
    <3>2. QED
      BY Zenon, <3>1, <1>1, <1>2 DEF Waits, Counted
  <2>2. CASE n \notin Succs(x)
    <3>1. Counted(n)' = Counted(n) \cup {x}
      BY <2>2, <1>1 DEF Counted
    <3>2. QED
      BY Zenon, <2>2, <3>1, <1>2 DEF Waits
  <2>3. QED
    BY Zenon, <2>1, <2>2
<1>5. Queued \subseteq Names
  BY <1>1 DEF Queued
<1>6. Shape'
  BY <1>1, <1>2 DEF OrderInv, Shape
<1>7. Counting' /\ Seeding'
  BY <1>1, <1>2, <1>3, <1>4, <1>5 DEF OrderInv, Counting, Seeding
<1>8. QED
  BY Zenon, <1>1, <1>3, <1>6, <1>7 DEF OrderInv, Cutting,
     LayersCannotFail, CycleIsReported, SortIsComplete

(* Counting one dependency off queues a process when it was the last.      *)
LEMMA RelaxInv == OrderInv /\ Relax => OrderInv'
<1> SUFFICES ASSUME OrderInv, Relax PROVE OrderInv'
  BY Zenon
<1>1. PICK n \in todo : Visit(n) /\ todo' = todo \ {n}
  BY Zenon DEF Relax
<1> DEFINE x == queue[head]
<1>2. /\ services \in Seq(Process) /\ queue \in Seq(Names) /\ phase = "kahn" /\ err = "none"
      /\ head \in 1..Len(queue) /\ todo \subseteq Names /\ n \in Names /\ x \in Names
      /\ x \in Preds(n) /\ inDegree \in [Names -> Int] /\ layers = <<>> /\ Len(queue) \in Nat
      /\ inDegree' = [inDegree EXCEPT ![n] = @ - 1]
      /\ UNCHANGED <<services, phase, err, cycled, seeded, head, layers>>
  <2>1. /\ services \in Seq(Process) /\ queue \in Seq(Names) /\ phase = "kahn" /\ err = "none"
        /\ head \in 0..Len(queue) /\ todo \subseteq Names /\ inDegree \in [Names -> Int]
        /\ layers = <<>>
    BY Zenon DEF Relax, OrderInv, Shape
  <2>2. head > 0 /\ x \in Preds(n)
    BY Zenon, <2>1 DEF OrderInv, Counting
  <2>3. head \in 1..Len(queue) /\ Len(queue) \in Nat /\ x \in Names
    BY <2>1, <2>2
  <2>4. QED
    BY Zenon, <1>1, <2>1, <2>2, <2>3 DEF Relax, Visit
<1>3. /\ Names' = Names /\ (Duplicate' <=> Duplicate) /\ \A m : Preds(m)' = Preds(m)
      /\ \A m : IsFiniteSet(Waits(m))
  BY Zenon, <1>2, SameGraph, WaitsFinite
<1>4. x \in Waits(n)
  <2>1. \A i \in 1..(head - 1) : queue[i] # x
    BY <1>2 DEF OrderInv, InOrder
  <2>2. QED
    BY Zenon, <1>1, <1>2, <2>1 DEF Waits, Counted
<1>5. n \notin Queued
  BY Zenon, <1>2, <1>4 DEF OrderInv, Counting
<1>6. /\ inDegree[n] = Cardinality(Waits(n))
      /\ Cardinality(Waits(n) \ {x}) = inDegree[n] - 1
      /\ inDegree[n] - 1 = 0 <=> Waits(n) \ {x} = {}
  <2>1. inDegree[n] = Cardinality(Waits(n))
    BY Zenon, <1>2 DEF OrderInv, Counting
  <2>2. Cardinality(Waits(n) \ {x}) = Cardinality(Waits(n)) - 1 /\ IsFiniteSet(Waits(n) \ {x})
    BY Zenon, <1>3, <1>4, RemoveCard, FS_Subset
  <2>3. QED
    BY Zenon, <2>1, <2>2, EmptyCard
<1>7. /\ queue' \in Seq(Names) /\ InOrder' /\ Len(queue') \in Nat /\ Len(queue) <= Len(queue')
      /\ \A i \in 1..Len(queue) : queue'[i] = queue[i]
      /\ Queued' = IF Waits(n) \ {x} = {} THEN Queued \cup {n} ELSE Queued
  <2>1. CASE inDegree[n] = 1
    <3>1. queue' = Append(queue, n)
      BY Zenon, <1>1, <2>1 DEF Visit
    <3>2. Waits(n) \ {x} = {}
      BY <1>2, <1>6, <2>1
    <3>3. Preds(n) \subseteq Queued
      BY <1>1, <1>2, <3>2 DEF Waits, Counted, Queued
    <3>4. QED
      BY <1>2, <1>5, <3>1, <3>2, <3>3, Appended DEF OrderInv
  <2>2. CASE inDegree[n] # 1
    <3>1. queue' = queue /\ Waits(n) \ {x} # {}
      BY <1>1, <1>2, <1>6, <2>2 DEF Visit
    <3>2. QED
      BY <1>2, <3>1, SameOrder DEF OrderInv
  <2>3. QED
    BY Zenon, <2>1, <2>2
<1>8. \A k \in 0..head : {queue'[i] : i \in 1..k} = {queue[i] : i \in 1..k}
  <2> TAKE k \in 0..head
  <2>1. \A i \in 1..k : queue'[i] = queue[i]
    BY <1>2, <1>7
  <2>2. QED
    BY Zenon, <2>1
<1>9. \A m \in Names : Waits(m)' = IF m = n THEN Waits(n) \ {x} ELSE Waits(m)
  <2> TAKE m \in Names
  <2>1. CASE m = n
    <3>1. Counted(n) = {queue[i] : i \in 1..(head - 1)} /\ Counted(n)' = {queue[i] : i \in 1..head}
      <4>1. n \in todo /\ n \notin todo' /\ head' = head /\ head \in 0..head
        BY <1>1, <1>2
      <4>2. QED
        BY Zenon, <4>1, <1>8 DEF Counted
    <3>2. Counted(n)' = Counted(n) \cup {x}
      BY <1>2, <3>1
    <3>3. QED
      BY Zenon, <2>1, <3>2, <1>3 DEF Waits
  <2>2. CASE m # n
    <3>1. Counted(m)' = Counted(m)
      <4>1. /\ m \in todo' <=> m \in todo
            /\ head' = head /\ head \in 0..head /\ head - 1 \in 0..head
        BY <1>1, <1>2, <2>2
      <4>2. QED
        BY Zenon, <4>1, <1>8 DEF Counted
    <3>2. QED
      BY Zenon, <2>2, <3>1, <1>3 DEF Waits
  <2>3. QED
    BY Zenon, <2>1, <2>2
<1>10. Shape'
  <2>1. head' \in 0..Len(queue')
    BY <1>2, <1>7
  <2>2. todo' \subseteq Names
    BY Zenon, <1>1, <1>2
  <2>3. inDegree' \in [Names -> Int] /\ ~Duplicate
    <3>1. inDegree[n] - 1 \in Int
      BY <1>2
    <3>2. ~Duplicate
      BY Zenon, <1>2 DEF OrderInv, Shape
    <3>3. QED
      BY Zenon, <1>2, <3>1, <3>2
  <2>4. /\ seeded \in 0..Len(services) /\ layers \in Seq(SUBSET Names)
        /\ phase \in {"load", "edges", "seed", "kahn", "cut", "ordered", "failed"}
    BY Zenon DEF OrderInv, Shape
  <2>5. QED
    BY Zenon, <1>2, <1>3, <1>7, <2>1, <2>2, <2>3, <2>4 DEF Shape
<1>11. Counting'
  <2>1. todo' # {} => head' > 0 /\ \A m \in todo' : queue'[head'] \in Preds(m)'
    BY Zenon, <1>1, <1>2, <1>3, <1>7 DEF OrderInv, Counting
  <2>2. \A m \in Names' : inDegree'[m] = Cardinality(Waits(m))'
    BY Zenon, <1>2, <1>3, <1>6, <1>9 DEF OrderInv, Counting
  <2>3. Queued \subseteq Names
    BY <1>2 DEF Queued
  <2>4. \A m \in Queued' : Waits(m)' = {}
    BY Zenon, <1>2, <1>5, <1>7, <1>9, <2>3 DEF OrderInv, Counting
  <2>5. QED
    BY Zenon, <2>1, <2>2, <2>4 DEF Counting
<1>12. Seeding'
  BY Zenon, <1>2, <1>3, <1>7, <1>9 DEF OrderInv, Seeding
<1>13. QED
  BY Zenon, <1>2, <1>7, <1>10, <1>11, <1>12 DEF OrderInv, Cutting,
     LayersCannotFail, CycleIsReported, SortIsComplete

(* With nothing left to visit, what is queued is what waits for nothing.   *)
LEMMA Drained ==
  ASSUME OrderInv, phase = "kahn", todo = {}, head = Len(queue)
  PROVE  /\ Placed = Queued /\ Queued \subseteq Names
         /\ Cardinality(Queued) = head /\ Report = Names \ Queued
         /\ \A n \in Names : n \in Queued <=> Preds(n) \subseteq Queued
<1>1. /\ services \in Seq(Process) /\ queue \in Seq(Names) /\ inDegree \in [Names -> Int]
      /\ \A n : IsFiniteSet(Waits(n))
  BY Zenon, WaitsFinite DEF OrderInv, Shape
<1>2. Placed = Queued /\ Queued \subseteq Names
  BY <1>1 DEF Placed, Queued
<1>3. Cardinality(Queued) = head
  BY Zenon, <1>1, SeqCard DEF OrderInv, InOrder, Queued
<1>4. \A n : Waits(n) = Preds(n) \ Queued
  BY Zenon, <1>2 DEF Waits, Counted, Placed
<1>5. \A n \in Names : n \in Queued <=> Waits(n) = {}
  BY Zenon DEF OrderInv, Counting, Seeding
<1>6. \A n \in Names : inDegree[n] \in Nat /\ (inDegree[n] = 0 <=> Waits(n) = {})
  BY Zenon, <1>1, EmptyCard, FS_CardinalityType DEF OrderInv, Counting
<1>7. Report = Names \ Queued
  BY <1>5, <1>6 DEF Report
<1>8. QED
  BY Zenon, <1>2, <1>3, <1>4, <1>5, <1>7

(* Kahn's algorithm ends with everything placed, or with a cycle.          *)
LEMMA SortDoneInv == OrderInv /\ SortDone => OrderInv'
<1> SUFFICES ASSUME OrderInv, SortDone PROVE OrderInv'
  BY Zenon
<1>1. /\ services \in Seq(Process) /\ queue \in Seq(Names) /\ phase = "kahn" /\ todo = {}
      /\ head = Len(queue) /\ err = "none" /\ layers = <<>> /\ inDegree \in [Names -> Int]
      /\ UNCHANGED <<services, seeded, queue, head, todo, layers>>
  BY Zenon DEF SortDone, OrderInv, Shape
<1>2. /\ Names' = Names /\ (Duplicate' <=> Duplicate) /\ \A n : Preds(n)' = Preds(n)
      /\ \A n : IsFiniteSet(Preds(n)) /\ Preds(n) \subseteq Names
      /\ IsFiniteSet(Names)
  BY Zenon, <1>1, SameGraph, WaitsFinite, Graph
<1>3. /\ Placed = Queued /\ Queued \subseteq Names
      /\ Cardinality(Queued) = head /\ Report = Names \ Queued
      /\ \A n \in Names : n \in Queued <=> Preds(n) \subseteq Queued
  BY Zenon, <1>1, Drained
<1>4. InOrder' /\ Queued' = Queued
  BY Zenon, <1>1, SameOrder DEF OrderInv
<1>5. CASE head # Cardinality(Names)
  <2>1. /\ phase' = "failed" /\ err' = "cycle" /\ cycled' = Report /\ UNCHANGED inDegree
    BY Zenon, <1>5 DEF SortDone
  <2>2. Shape'
    BY Zenon, <1>1, <1>2, <2>1 DEF OrderInv, Shape
  <2>3. Queued # Names
    BY Zenon, <1>3, <1>5
  <2>4. CycleIsReported'
    BY Zenon, <1>2, <1>3, <2>1, <2>3 DEF CycleIsReported
  <2>5. QED
    BY Zenon, <1>4, <2>1, <2>2, <2>4 DEF OrderInv, Counting, Seeding, Cutting,
       LayersCannotFail, SortIsComplete
<1>6. CASE head = Cardinality(Names)
  <2>1. /\ phase' = "cut" /\ inDegree' = [n \in Names |-> Cardinality(Preds(n))]
        /\ UNCHANGED <<err, cycled>>
    BY Zenon, <1>6 DEF SortDone
  <2>2. \A n : Cardinality(Preds(n)) \in Nat
    BY Zenon, <1>2, FS_CardinalityType
  <2>3. Shape'
    BY <1>1, <1>2, <2>1, <2>2 DEF OrderInv, Shape
  <2>4. Queued = Names
    BY Zenon, <1>2, <1>3, <1>6, SubsetCard
  <2>5. Emitted' = {}
    BY <1>1 DEF Emitted
  <2>6. \A n : Rest(n)' = Preds(n)
    BY Zenon, <1>2, <2>5 DEF Rest
  <2>7. Cutting'
    BY Zenon, <1>1, <1>2, <1>4, <2>1, <2>4, <2>5, <2>6 DEF Cutting
  <2>8. SortIsComplete'
    <3>1. queue' = queue /\ (head' = head) /\ InOrder
      BY Zenon, <1>1 DEF OrderInv
    <3>2. QED
      BY <1>1, <1>2, <1>3, <2>4, <3>1 DEF SortIsComplete, InOrder, Queued
  <2>9. QED
    BY Zenon, <1>1, <1>4, <2>1, <2>3, <2>7, <2>8 DEF OrderInv, Counting, Seeding,
       LayersCannotFail, CycleIsReported
<1>7. QED
  BY Zenon, <1>5, <1>6

(* A list that is sorted and not yet cut has a next layer: its first node  *)
(* without one waits for nothing outside the layers.                       *)
LEMMA LayerAhead ==
  ASSUME OrderInv, phase = "cut", Emitted # Names, Emitted \subseteq Names
  PROVE  Layer # {}
<1>1. /\ services \in Seq(Process) /\ queue \in Seq(Names) /\ Queued = Names
      /\ \A n : Preds(n) \subseteq Names
  BY Zenon, Graph DEF OrderInv, Shape, Cutting
<1> DEFINE T == {i \in 1..Len(queue) : queue[i] \notin Emitted}
<1>2. T \subseteq Nat /\ T # {}
  <2>1. PICK n \in Names : n \notin Emitted
    BY Zenon
  <2>2. PICK i \in 1..Len(queue) : queue[i] = n
    BY Zenon, <1>1 DEF Queued
  <2>3. i \in T
    BY Zenon, <2>1, <2>2
  <2>4. QED
    BY <1>1, <2>3
<1>3. PICK i \in T : \A k \in T : i <= k
  BY Zenon, <1>2, LeastNat
<1>4. Preds(queue[i]) \subseteq Emitted
  <2> SUFFICES ASSUME NEW m \in Preds(queue[i]) PROVE m \in Emitted
    BY Zenon
  <2>1. PICK j \in 1..(i - 1) : queue[j] = m
    BY Zenon DEF OrderInv, InOrder
  <2>2. j \in 1..Len(queue) /\ ~(i <= j)
    BY <1>1
  <2>3. QED
    BY Zenon, <1>3, <2>1, <2>2
<1>5. queue[i] \in Names /\ queue[i] \notin Emitted /\ Rest(queue[i]) = {}
  BY <1>1, <1>4 DEF Rest
<1>6. inDegree[queue[i]] = 0
  BY Zenon, <1>5, FS_EmptySet DEF OrderInv, Cutting
<1>7. QED
  BY Zenon, <1>5, <1>6 DEF Layer

(* The layer to cut is new, and waits only for what is cut.                *)
LEMMA LayerIsReady ==
  ASSUME OrderInv, phase = "cut"
  PROVE  /\ Layer \subseteq Names \ Emitted
         /\ \A n \in Names : n \in Layer <=> n \notin Emitted /\ Preds(n) \subseteq Emitted
<1>1. services \in Seq(Process) /\ \A n : IsFiniteSet(Rest(n))
  BY Zenon, WaitsFinite DEF OrderInv, Shape
<1>2. \A n \in Names : Cardinality(Rest(n)) = 0 <=> Preds(n) \subseteq Emitted
  BY <1>1, EmptyCard DEF Rest
<1>3. QED
  BY <1>2 DEF OrderInv, Cutting, Layer

(* Emitted is what the layers hold, also after one more.                   *)
LEMMA EmittedGrows ==
  ASSUME NEW S, layers \in Seq(SUBSET S), NEW L \in SUBSET S
  PROVE  /\ Emitted \subseteq S
         /\ layers' = Append(layers, L) =>
              layers' \in Seq(SUBSET S) /\ Emitted' = Emitted \cup L
<1>1. Emitted \subseteq S
  BY DEF Emitted
<1>2. ASSUME layers' = Append(layers, L)
      PROVE  layers' \in Seq(SUBSET S) /\ Emitted' = Emitted \cup L
  <2>1. /\ layers' \in Seq(SUBSET S) /\ Len(layers) \in Nat
        /\ DOMAIN layers = 1..Len(layers) /\ DOMAIN layers' = 1..(Len(layers) + 1)
        /\ \A i \in 1..Len(layers) : layers'[i] = layers[i]
        /\ layers'[Len(layers) + 1] = L
    BY <1>2
  <2>2. \A i \in 1..(Len(layers) + 1) : i \in 1..Len(layers) \/ i = Len(layers) + 1
    BY <2>1
  <2>3. 1..Len(layers) \subseteq 1..(Len(layers) + 1) /\ Len(layers) + 1 \in 1..(Len(layers) + 1)
    BY <2>1
  <2>4. \A x : x \in Emitted' <=> x \in Emitted \/ x \in L
    BY Zenon, <2>1, <2>2, <2>3 DEF Emitted
  <2>5. QED
    BY Zenon, <2>1, <2>4
<1>3. QED
  BY Zenon, <1>1, <1>2

(* Cutting a layer keeps the count of dependencies outside the layers.     *)
LEMMA CutLayerInv == OrderInv /\ CutLayer => OrderInv'
<1> SUFFICES ASSUME OrderInv, CutLayer PROVE OrderInv'
  BY Zenon
<1>1. /\ services \in Seq(Process) /\ phase = "cut" /\ err = "none" /\ layers \in Seq(SUBSET Names)
      /\ inDegree \in [Names -> Int] /\ Cardinality(Emitted) < Cardinality(Names)
      /\ UNCHANGED <<services, cycled, seeded, queue, head, todo>>
  BY Zenon DEF CutLayer, OrderInv, Shape
<1>2. /\ Names' = Names /\ (Duplicate' <=> Duplicate) /\ \A n : Preds(n)' = Preds(n)
      /\ \A n : IsFiniteSet(Preds(n)) /\ Preds(n) \subseteq Names
      /\ \A n : IsFiniteSet(Rest(n))
      /\ IsFiniteSet(Names)
  BY Zenon, <1>1, SameGraph, WaitsFinite, Graph
<1>3. /\ Layer \subseteq Names /\ Layer \cap Emitted = {}
      /\ \A n \in Names : n \in Layer <=> n \notin Emitted /\ Preds(n) \subseteq Emitted
  BY Zenon, <1>1, LayerIsReady
<1>4. Emitted \subseteq Names /\ Emitted # Names
  <2>1. Emitted \subseteq Names
    BY Zenon, <1>1, EmittedGrows
  <2>2. Cardinality(Names) \in Nat
    BY Zenon, <1>2, FS_CardinalityType
  <2>3. QED
    BY <1>1, <2>1, <2>2
<1>5. Layer # {}
  BY Zenon, <1>1, <1>4, LayerAhead
<1>6. inDegree' = Drain /\ layers' = Append(layers, Layer) /\ UNCHANGED <<phase, err>>
  BY Zenon, <1>5 DEF CutLayer
<1>7. layers' \in Seq(SUBSET Names) /\ Emitted' = Emitted \cup Layer
  BY Zenon, <1>1, <1>3, <1>6, EmittedGrows
<1>8. \A n \in Names : Cardinality(Layer \cap Preds(n)) \in Nat
  BY Zenon, <1>2, FS_Subset, FS_CardinalityType
<1>9. \A n \in Names :
        Drain[n] = IF n \in Emitted' THEN -1 ELSE Cardinality(Rest(n)')
  <2> TAKE n \in Names
  <2>1. Drain[n] = (IF n \in Layer THEN -1 ELSE inDegree[n]) - Cardinality(Layer \cap Preds(n))
    BY Zenon DEF Drain
  <2>2. CASE n \in Emitted \cup Layer
    <3>1. Preds(n) \subseteq Emitted
      BY Zenon, <1>1, <1>3, <2>2 DEF OrderInv, Cutting
    <3>2. Layer \cap Preds(n) = {}
      BY Zenon, <1>3, <3>1
    <3>3. (IF n \in Layer THEN -1 ELSE inDegree[n]) = -1
      BY Zenon, <1>1, <2>2 DEF OrderInv, Cutting
    <3>4. Cardinality(Layer \cap Preds(n)) = 0
      BY Zenon, <3>2, FS_EmptySet
    <3>5. Drain[n] = -1
      BY <2>1, <3>3, <3>4
    <3>6. QED
      BY Zenon, <1>7, <2>2, <3>5
  <2>3. CASE n \notin Emitted \cup Layer
    <3>1. inDegree[n] = Cardinality(Rest(n))
      BY Zenon, <1>1, <2>3 DEF OrderInv, Cutting
    <3>2. Rest(n)' = Rest(n) \ Layer /\ Rest(n) \cap Layer = Layer \cap Preds(n)
      BY Zenon, <1>2, <1>3, <1>7 DEF Rest
    <3>3. Cardinality(Rest(n) \ Layer) = Cardinality(Rest(n)) - Cardinality(Rest(n) \cap Layer)
      BY Zenon, <1>2, DiffCard
    <3>4. QED
      BY Zenon, <1>7, <2>1, <2>3, <3>1, <3>2, <3>3
  <2>4. QED
    BY Zenon, <2>2, <2>3
<1>10. inDegree' \in [Names -> Int]
  <2>1. \A n \in Names :
          (IF n \in Layer THEN -1 ELSE inDegree[n]) - Cardinality(Layer \cap Preds(n)) \in Int
    <3> TAKE n \in Names
    <3>1. (IF n \in Layer THEN -1 ELSE inDegree[n]) \in Int
      BY <1>1
    <3>2. QED
      BY <1>8, <3>1
  <2>2. QED
    BY Zenon, <1>6, <2>1 DEF Drain
<1>11. Shape'
  BY Zenon, <1>1, <1>2, <1>6, <1>7, <1>10 DEF OrderInv, Shape
<1>12. InOrder' /\ Queued' = Queued
  BY Zenon, <1>1, SameOrder DEF OrderInv
<1>13. Cutting'
  <2>1. \A n \in Emitted' : Preds(n) \subseteq Emitted'
    BY Zenon, <1>1, <1>3, <1>7 DEF OrderInv, Cutting
  <2>2. QED
    BY Zenon, <1>1, <1>2, <1>6, <1>9, <1>12, <2>1 DEF OrderInv, Cutting
<1>14. SortIsComplete'
  BY <1>1, <1>2, <1>6 DEF OrderInv, SortIsComplete
<1>15. QED
  BY Zenon, <1>1, <1>6, <1>11, <1>12, <1>13, <1>14 DEF OrderInv, Counting, Seeding,
     LayersCannotFail, CycleIsReported

(* The layers hold everything.                                             *)
LEMMA CutDoneInv == OrderInv /\ CutDone => OrderInv'
<1> SUFFICES ASSUME OrderInv, CutDone PROVE OrderInv'
  BY Zenon
<1>1. /\ services \in Seq(Process) /\ phase = "cut" /\ err = "none" /\ phase' = "ordered"
      /\ UNCHANGED <<services, err, cycled, inDegree, seeded, queue, head, todo, layers>>
  BY Zenon DEF CutDone, OrderInv, Shape
<1>2. /\ Names' = Names /\ (Duplicate' <=> Duplicate) /\ \A n : Preds(n)' = Preds(n)
  BY Zenon, <1>1, SameGraph
<1>3. InOrder' /\ Queued' = Queued
  BY Zenon, <1>1, SameOrder DEF OrderInv
<1>4. Shape'
  BY Zenon, <1>1, <1>2 DEF OrderInv, Shape
<1>5. Emitted' = Emitted /\ \A n : Rest(n)' = Rest(n)
  BY Zenon, <1>1, <1>2 DEF Emitted, Rest
<1>6. Cutting' /\ SortIsComplete'
  BY <1>1, <1>2, <1>3, <1>5 DEF OrderInv, Cutting, SortIsComplete
<1>7. QED
  BY Zenon, <1>1, <1>3, <1>4, <1>6 DEF OrderInv, Counting, Seeding,
     LayersCannotFail, CycleIsReported

(* A step that changes none of the variables.                              *)
LEMMA OrderStutterInv == OrderInv /\ UNCHANGED orderVars => OrderInv'
<1> SUFFICES ASSUME OrderInv, UNCHANGED orderVars PROVE OrderInv'
  BY Zenon
<1>1. UNCHANGED <<services, phase, err, cycled, inDegree, seeded, queue, head, todo, layers>>
  BY Zenon DEF orderVars
<1>2. /\ Names' = Names /\ (Duplicate' <=> Duplicate) /\ \A n : Preds(n)' = Preds(n)
  BY Zenon, <1>1, SameGraph
<1>3. InOrder' /\ Queued' = Queued
  BY Zenon, <1>1, SameOrder DEF OrderInv
<1>4. Emitted' = Emitted /\ \A n : Rest(n)' = Rest(n) /\ Waits(n)' = Waits(n)
  BY Zenon, <1>1, <1>2 DEF Emitted, Rest, Waits, Counted
<1>5. Shape'
  BY Zenon, <1>1, <1>2 DEF OrderInv, Shape
<1>6. Counting' /\ Seeding' /\ Cutting'
  BY Zenon, <1>1, <1>2, <1>3, <1>4 DEF OrderInv, Counting, Seeding, Cutting
<1>7. LayersCannotFail' /\ CycleIsReported' /\ SortIsComplete'
  BY <1>1, <1>2 DEF OrderInv, LayersCannotFail, CycleIsReported, SortIsComplete
<1>8. QED
  BY Zenon, <1>3, <1>5, <1>6, <1>7 DEF OrderInv

(* Every step of the two functions keeps the invariant.                    *)
LEMMA OrderStepInv == OrderInv /\ [Take \/ OrderNext]_orderVars => OrderInv'
BY Zenon, TakeInv, BuildEdgesInv, SeedInv, SeedDoneInv, DequeueInv, RelaxInv, SortDoneInv,
   CutLayerInv, CutDoneInv, OrderStutterInv DEF OrderNext

-----------------------------------------------------------------------------
(* The invariant of TopoSort and TopoLayers that the theorems below need.  *)
THEOREM OrderCorrect == OrderSpec => []OrderInv
<1>1. QED
  BY OrderInitInv, OrderStepInv, PTL DEF OrderSpec

(* run() may ignore that TopoLayers can fail: on a list that TopoSort has  *)
(* ordered it never does.                                                  *)
THEOREM LayersNeverFail == OrderSpec => []LayersCannotFail
<1>1. OrderInv => LayersCannotFail
  BY Zenon DEF OrderInv
<1>2. QED
  BY <1>1, OrderCorrect, PTL

(* A cycle error names exactly the processes on a cycle and behind one.    *)
THEOREM CyclesAreReported == OrderSpec => []CycleIsReported
<1>1. OrderInv => CycleIsReported
  BY Zenon DEF OrderInv
<1>2. QED
  BY <1>1, OrderCorrect, PTL

(* A successful sort holds every process once.                             *)
THEOREM SortsAreComplete == OrderSpec => []SortIsComplete
<1>1. OrderInv => SortIsComplete
  BY Zenon DEF OrderInv
<1>2. QED
  BY <1>1, OrderCorrect, PTL

(* When run() starts the services layer by layer, every process comes once *)
(* and after the layers of its dependencies.                               *)
THEOREM LayersAreInOrder == OrderSpec => []LayersInOrder
<1>1. OrderInit => LayersInOrder
  BY DEF OrderInit, LayersInOrder
<1>2. ASSUME OrderInv, LayersInOrder, [Take \/ OrderNext]_orderVars PROVE LayersInOrder'
  <2>0. layers \in Seq(SUBSET Names)
    BY Zenon, <1>2 DEF OrderInv, Shape
  <2>1. CASE UNCHANGED <<services, layers>>
    <3>1. Names' = Names /\ \A n : Preds(n)' = Preds(n)
      BY Zenon, <2>1, SameGraph
    <3> QED BY Zenon, <1>2, <2>1, <3>1 DEF LayersInOrder
  <2>2. CASE Take
    <3>1. layers' = <<>>
      BY Zenon, <1>2, <2>2 DEF Take, OrderInv, Shape
    <3> QED BY <3>1 DEF LayersInOrder
  <2>3. CASE CutLayer
    <3>1. CASE Layer = {}
      BY Zenon, <2>1, <2>3, <3>1 DEF CutLayer
    <3>2. CASE Layer # {}
      <4> DEFINE l == Len(layers)
                 L == Layer
      <4>1. services' = services /\ layers' = Append(layers, L) /\ phase = "cut"
        BY Zenon, <2>3, <3>2 DEF CutLayer
      <4>2. Names' = Names /\ \A n : Preds(n)' = Preds(n)
        BY Zenon, <4>1, SameGraph
      <4>3. L \subseteq Names \ Emitted /\ \A n \in L : Preds(n) \subseteq Emitted
        BY Zenon, <1>2, <4>1, LayerIsReady
      <4> HIDE DEF L
      <4>4. /\ l \in Nat /\ DOMAIN layers = 1..l /\ DOMAIN layers' = 1..(l + 1)
            /\ \A i \in 1..l : layers'[i] = layers[i]
            /\ layers'[l + 1] = L
        BY <2>0, <4>1, <4>3
      <4>5. \A i \in DOMAIN layers' : i \in 1..l \/ i = l + 1
        BY <4>4
      <4>6. \A n \in L, j \in 1..l : n \notin layers'[j]
        BY <4>3, <4>4 DEF Emitted
      <4> HIDE DEF l
      <4>7. ASSUME NEW k \in 1..l, NEW n \in Names, n \in layers'[k]
            PROVE  /\ \A m \in Preds(n) : \E j \in 1..(k - 1) : m \in layers'[j]
                   /\ \A j \in DOMAIN layers' : n \in layers'[j] => j = k
        <5>1. n \in layers[k] /\ n \notin L
          BY Zenon, <4>4, <4>6, <4>7
        <5>2. /\ \A m \in Preds(n) : \E j \in 1..(k - 1) : m \in layers[j]
              /\ \A j \in 1..l : n \in layers[j] => j = k
          BY Zenon, <1>2, <4>4, <5>1 DEF LayersInOrder
        <5>3. \A j \in 1..(k - 1) : j \in 1..l
          BY <4>4
        <5> QED BY Zenon, <4>4, <4>5, <5>1, <5>2, <5>3
      <4>8. ASSUME NEW n \in Names, n \in L
            PROVE  /\ \A m \in Preds(n) : \E j \in 1..((l + 1) - 1) : m \in layers'[j]
                   /\ \A j \in DOMAIN layers' : n \in layers'[j] => j = l + 1
        <5>1. (l + 1) - 1 = l
          BY <4>4
        <5>2. \A m \in Preds(n) : \E j \in 1..l : m \in layers[j]
          BY <4>3, <4>4, <4>8 DEF Emitted
        <5> QED BY Zenon, <4>4, <4>5, <4>6, <4>8, <5>1, <5>2
      <4>9. ASSUME NEW k \in DOMAIN layers', NEW n \in Names, n \in layers'[k]
            PROVE  /\ \A m \in Preds(n) : \E j \in 1..(k - 1) : m \in layers'[j]
                   /\ \A j \in DOMAIN layers' : n \in layers'[j] => j = k
        BY Zenon, <4>4, <4>5, <4>7, <4>8, <4>9
      <4> QED BY Zenon, <4>2, <4>9 DEF LayersInOrder
    <3> QED BY Zenon, <3>1, <3>2
  <2>4. CASE BuildEdges \/ Seed \/ SeedDone \/ Dequeue \/ Relax \/ SortDone \/ CutDone \/ UNCHANGED orderVars
    BY Zenon, <2>1, <2>4 DEF BuildEdges, Seed, SeedDone, Dequeue, Relax, SortDone, CutDone, orderVars
  <2> QED BY Zenon, <1>2, <2>2, <2>3, <2>4 DEF OrderNext
<1> QED BY <1>1, <1>2, OrderCorrect, PTL DEF OrderSpec

(* TopoSort implements StartOrder.                                         *)
THEOREM TopoSortRefines == OrderSpec => TopoSortIsAStartOrder
<1>1. OrderInit => Sort!Init
  BY DEF OrderInit, Sort!Init, SortVerdict
<1>2. OrderInv /\ [Take \/ OrderNext]_orderVars => [Sort!Next]_(Sort!vars)
  <2> SUFFICES ASSUME OrderInv, [Take \/ OrderNext]_orderVars
               PROVE  [Sort!Next]_(Sort!vars)
    BY Zenon
  <2> USE DEF Placed
  <2>1. CASE Take
    <3>1. SortVerdict = "idle" /\ SortVerdict' = "idle"
      BY Zenon, <2>1 DEF Take, SortVerdict
    <3>2. Placed' = Placed
      BY Zenon, <2>1 DEF Take, OrderInv, Shape
    <3>3. QED
      BY Zenon, <3>1, <3>2 DEF Sort!vars
  <2>2. CASE BuildEdges
    <3>1. SortVerdict = "idle" /\ SortVerdict' \in {"invalid", "open"} /\ Placed' = Placed
      BY Zenon, <2>2 DEF BuildEdges, SortVerdict
    <3>2. Sort!Submit
      BY Zenon, <3>1 DEF Sort!Submit
    <3>3. QED
      BY Zenon, <3>2 DEF Sort!Next
  <2>3. CASE Seed \/ SeedDone
    <3>1. SortVerdict = "open" /\ SortVerdict' = "open" /\ UNCHANGED services
      BY Zenon, <2>3 DEF Seed, SeedDone, SortVerdict
    <3>2. Names' = Names /\ Edges' = Edges
      BY Zenon, <3>1, SameGraph
    <3>3. head = 0 /\ head' = 0
      BY Zenon, <2>3 DEF Seed, SeedDone, OrderInv, Seeding
    <3>4. Placed = {} /\ Placed' = {}
      BY <3>3
    <3>5. QED
      BY Zenon, <3>1, <3>2, <3>4 DEF Sort!vars
  <2>4. CASE Dequeue
    <3>1. /\ SortVerdict = "open" /\ SortVerdict' = "open" /\ UNCHANGED services
          /\ queue \in Seq(Names) /\ head \in 0..Len(queue) /\ head < Len(queue)
          /\ head' = head + 1 /\ queue' = queue /\ services \in Seq(Process)
      BY Zenon, <2>4 DEF Dequeue, SortVerdict, OrderInv, Shape
    <3>2. Names' = Names /\ Edges' = Edges
      BY Zenon, <3>1, SameGraph
    <3> DEFINE x == queue[head + 1]
    <3>3. Placed' = Placed \cup {x} /\ x \in Names /\ x \notin Placed
      <4>1. head + 1 \in 1..Len(queue) /\ x \in Names
        BY <3>1
      <4>2. 1..(head + 1) = (1..head) \cup {head + 1} /\ \A i \in 1..head : i \in 1..Len(queue) /\ i # head + 1
        BY <3>1
      <4>3. Placed' = {queue[i] : i \in 1..(head + 1)}
        BY Zenon, <3>1
      <4>4. Placed' = Placed \cup {x}
        BY Zenon, <4>2, <4>3
      <4>5. \A i \in 1..head : queue[i] # x
        BY Zenon, <4>1, <4>2 DEF OrderInv, InOrder
      <4>6. QED
        BY Zenon, <4>1, <4>4, <4>5
    <3>4. Preds(x) \subseteq Placed
      <4>1. head + 1 \in 1..Len(queue) /\ (head + 1) - 1 = head
        BY <3>1
      <4>2. QED
        BY Zenon, <4>1 DEF OrderInv, InOrder
    <3>5. Sort!Preds(x) = Preds(x)
      BY Zenon, <3>1 DEF Sort!Preds, Preds
    <3>6. Sort!Place
      BY Zenon, <3>1, <3>2, <3>3, <3>4, <3>5 DEF Sort!Place
    <3>7. QED
      BY Zenon, <3>6 DEF Sort!Next
  <2>5. CASE Relax
    <3>1. /\ SortVerdict = "open" /\ SortVerdict' = "open" /\ UNCHANGED <<services, head>>
          /\ queue \in Seq(Names) /\ head \in 0..Len(queue) /\ todo \subseteq Names
      BY Zenon, <2>5 DEF Relax, SortVerdict, OrderInv, Shape
    <3>2. Names' = Names /\ Edges' = Edges
      BY Zenon, <3>1, SameGraph
    <3>3. \A i \in 1..head : queue'[i] = queue[i]
      BY <2>5, <3>1 DEF Relax, Visit
    <3>4. Placed' = Placed
      BY Zenon, <3>1, <3>3
    <3>5. QED
      BY Zenon, <3>1, <3>2, <3>4 DEF Sort!vars
  <2>6. CASE SortDone
    <3>1. /\ SortVerdict = "open" /\ phase = "kahn" /\ todo = {} /\ head = Len(queue)
          /\ UNCHANGED <<services, head, queue>> /\ services \in Seq(Process) /\ err = "none"
      BY Zenon, <2>6 DEF SortDone, SortVerdict, OrderInv, Shape
    <3>2. Names' = Names /\ Edges' = Edges /\ Placed' = Placed
      BY Zenon, <3>1, SameGraph
    <3>3. /\ Placed = Queued /\ Queued \subseteq Names /\ Cardinality(Queued) = head
          /\ \A n \in Names : n \in Queued <=> Preds(n) \subseteq Queued
      BY Zenon, <3>1, Drained
    <3>4. \A n : Sort!Preds(n) = Preds(n)
      BY Zenon, <3>1 DEF Sort!Preds, Preds
    <3>5. CASE head # Cardinality(Names)
      <4>1. SortVerdict' = "cycle" /\ Placed # Names
        BY Zenon, <2>6, <3>3, <3>5 DEF SortDone, SortVerdict
      <4>2. Sort!Reject
        BY Zenon, <3>1, <3>2, <3>3, <3>4, <4>1 DEF Sort!Reject
      <4>3. QED
        BY Zenon, <4>2 DEF Sort!Next
    <3>6. CASE head = Cardinality(Names)
      <4>1. SortVerdict' = "ordered"
        BY Zenon, <2>6, <3>1, <3>6 DEF SortDone, SortVerdict
      <4>2. Placed = Names
        BY Zenon, <3>1, <3>3, <3>6, SubsetCard, Graph
      <4>3. Sort!Accept
        BY Zenon, <3>1, <3>2, <4>1, <4>2 DEF Sort!Accept
      <4>4. QED
        BY Zenon, <4>3 DEF Sort!Next
    <3>7. QED
      BY Zenon, <3>5, <3>6
  <2>7. CASE CutLayer \/ CutDone
    <3>1. OrderInv'
      BY Zenon, OrderStepInv
    <3>2. /\ SortVerdict = "ordered" /\ SortVerdict' = "ordered"
          /\ UNCHANGED <<services, queue, head>>
      BY Zenon, <2>7, <3>1 DEF CutLayer, CutDone, SortVerdict, OrderInv, Shape, LayersCannotFail
    <3>3. Names' = Names /\ Edges' = Edges /\ Placed' = Placed
      BY Zenon, <3>2, SameGraph
    <3>4. QED
      BY Zenon, <3>2, <3>3 DEF Sort!vars
  <2>8. CASE UNCHANGED orderVars
    BY <2>8 DEF orderVars, Sort!vars, SortVerdict, Names, Edges
  <2>9. QED
    BY Zenon, <2>1, <2>2, <2>3, <2>4, <2>5, <2>6, <2>7, <2>8 DEF OrderNext
<1>3. QED
  BY <1>1, <1>2, OrderCorrect, PTL DEF OrderSpec, TopoSortIsAStartOrder, Sort!Spec

(* TopoLayers implements StartOrder.                                       *)
THEOREM TopoLayersRefines == OrderSpec => TopoLayersIsAStartOrder
<1>1. OrderInit => Layering!Init
  BY DEF OrderInit, Layering!Init, LayerVerdict, Emitted
<1>2. OrderInv /\ [Take \/ OrderNext]_orderVars => [Layering!Next]_(Layering!vars)
  <2> SUFFICES ASSUME OrderInv, [Take \/ OrderNext]_orderVars
               PROVE  [Layering!Next]_(Layering!vars)
    BY Zenon
  <2>1. CASE Take \/ BuildEdges \/ Seed \/ SeedDone \/ Dequeue \/ Relax
    <3>1. LayerVerdict = "idle" /\ LayerVerdict' = "idle" /\ layers' = layers
      BY Zenon, <2>1 DEF Take, BuildEdges, Seed, SeedDone, Dequeue, Relax, LayerVerdict, OrderInv, Shape
    <3>2. QED
      BY Zenon, <3>1 DEF Layering!vars, Emitted
  <2>2. CASE SortDone
    <3>1. LayerVerdict = "idle" /\ LayerVerdict' \in {"idle", "open"} /\ layers' = layers
      BY Zenon, <2>2 DEF SortDone, LayerVerdict, OrderInv, Shape
    <3>2. Emitted' = Emitted
      BY Zenon, <3>1 DEF Emitted
    <3>3. QED
      BY Zenon, <3>1, <3>2 DEF Layering!vars, Layering!Next, Layering!Submit
  <2>3. CASE CutLayer
    <3>1. OrderInv'
      BY Zenon, OrderStepInv
    <3>2. /\ phase = "cut" /\ layers \in Seq(SUBSET Names) /\ services' = services
          /\ services \in Seq(Process) /\ Layer # {} /\ layers' = Append(layers, Layer)
          /\ phase' = phase
      BY Zenon, <2>3, <3>1 DEF CutLayer, OrderInv, Shape, LayersCannotFail
    <3>3. LayerVerdict = "open" /\ LayerVerdict' = "open"
      BY Zenon, <3>2 DEF LayerVerdict
    <3>4. Names' = Names /\ Edges' = Edges
      BY Zenon, <3>2, SameGraph
    <3>5. /\ Layer \subseteq Names \ Emitted
          /\ \A n \in Layer : Preds(n) \subseteq Emitted
      BY Zenon, <3>2, LayerIsReady
    <3>6. Emitted' = Emitted \cup Layer
      BY Zenon, <3>2, <3>5, EmittedGrows
    <3>7. \A n : Layering!Preds(n) = Preds(n)
      BY Zenon, <3>3 DEF Layering!Preds, Preds
    <3>8. Layering!Place
      BY Zenon, <3>2, <3>3, <3>4, <3>5, <3>6, <3>7 DEF Layering!Place
    <3>9. QED
      BY Zenon, <3>8 DEF Layering!Next
  <2>4. CASE CutDone
    <3>1. /\ phase = "cut" /\ layers \in Seq(SUBSET Names) /\ UNCHANGED <<services, layers>>
          /\ services \in Seq(Process) /\ phase' = "ordered"
          /\ Cardinality(Emitted) = Cardinality(Names)
      BY Zenon, <2>4 DEF CutDone, OrderInv, Shape
    <3>2. LayerVerdict = "open" /\ LayerVerdict' = "ordered"
      BY Zenon, <3>1 DEF LayerVerdict
    <3>3. Names' = Names /\ Edges' = Edges /\ Emitted' = Emitted
      BY Zenon, <3>1, SameGraph DEF Emitted
    <3>4. Emitted \subseteq Names /\ IsFiniteSet(Names)
      BY Zenon, <3>1, EmittedGrows, Graph
    <3>5. Emitted = Names
      BY Zenon, <3>1, <3>4, SubsetCard
    <3>6. Layering!Accept
      BY Zenon, <3>2, <3>3, <3>5 DEF Layering!Accept
    <3>7. QED
      BY Zenon, <3>6 DEF Layering!Next
  <2>5. CASE UNCHANGED orderVars
    BY <2>5 DEF orderVars, Layering!vars, LayerVerdict, Names, Edges, Emitted
  <2>6. QED
    BY Zenon, <2>1, <2>2, <2>3, <2>4, <2>5 DEF OrderNext
<1>3. QED
  BY <1>1, <1>2, OrderCorrect, PTL DEF OrderSpec, TopoLayersIsAStartOrder, Layering!Spec

=============================================================================
