-------------------------------- MODULE Order --------------------------------
(***************************************************************************)
(* order.TopoSort and order.TopoLayers, one after the other as run() calls *)
(* them: the dependency graph of a process list is checked, sorted with    *)
(* Kahn's algorithm and then cut into layers.  Reload uses TopoSort alone. *)
(*                                                                         *)
(* The lists after, before and requires are sets, since addEdge drops      *)
(* repeated edges; the neighbours of a node are visited in any order.      *)
(***************************************************************************)
EXTENDS Integers, Sequences, FiniteSets

CONSTANT Name      \* process names

Process == [name : Name, after : SUBSET Name, before : SUBSET Name, requires : SUBSET Name]

VARIABLES
  services,        \* the process list
  phase,           \* "load", "edges", "seed", "kahn", "cut", "ordered", "failed"
  err,             \* why ordering failed
  cycled,          \* the processes a cycle error names
  inDegree,        \* dependencies still to be placed; -1 when drained
  seeded,          \* processes the seeding loop has passed
  queue, head,     \* Kahn's queue, and how much of it is dequeued: the result
  todo,            \* neighbours of the last dequeued node still to be visited
  layers           \* the layers cut so far, as sets

orderVars == <<services, phase, err, cycled, inDegree, seeded, queue, head, todo, layers>>

Names == {services[i].name : i \in DOMAIN services}

(* addEdge: <<a, b>> when a must start before b.                           *)
Edges ==
  {e \in Names \X Names : \E i \in DOMAIN services :
     \/ services[i].name = e[2] /\ e[1] \in services[i].after \cup services[i].requires
     \/ services[i].name = e[1] /\ e[2] \in services[i].before}

Preds(n) == {m \in Names : <<m, n>> \in Edges}
Succs(n) == {m \in Names : <<n, m>> \in Edges}

Duplicate == \E i, j \in DOMAIN services : i # j /\ services[i].name = services[j].name
Unknown ==
  \E i \in DOMAIN services :
    ~(services[i].after \cup services[i].before \cup services[i].requires \subseteq Names)

(* The state before a process list is there.                               *)
OrderInit ==
  /\ services = <<>> /\ phase = "load" /\ err = "none" /\ cycled = {}
  /\ inDegree = <<>> /\ seeded = 0 /\ queue = <<>> /\ head = 0 /\ todo = {}
  /\ layers = <<>>

-----------------------------------------------------------------------------
(* TopoSort                                                                *)

(* Names and edges are checked, and every edge counted once.               *)
BuildEdges ==
  /\ phase = "edges"
  /\ \/ /\ Duplicate
        /\ phase' = "failed" /\ err' = "duplicate" /\ UNCHANGED inDegree
     \/ /\ ~Duplicate /\ Unknown
        /\ phase' = "failed" /\ err' = "unknown" /\ UNCHANGED inDegree
     \/ /\ ~Duplicate /\ ~Unknown
        /\ inDegree' = [n \in Names |-> Cardinality(Preds(n))]
        /\ phase' = "seed" /\ UNCHANGED err
  /\ UNCHANGED <<services, cycled, seeded, queue, head, todo, layers>>

(* The queue starts with the processes that wait for nothing.              *)
Seed ==
  /\ phase = "seed" /\ seeded < Len(services)
  /\ seeded' = seeded + 1
  /\ queue' = LET n == services[seeded + 1].name
              IN  IF inDegree[n] = 0 THEN Append(queue, n) ELSE queue
  /\ UNCHANGED <<services, phase, err, cycled, inDegree, head, todo, layers>>

SeedDone ==
  /\ phase = "seed" /\ seeded = Len(services)
  /\ phase' = "kahn"
  /\ UNCHANGED <<services, err, cycled, inDegree, seeded, queue, head, todo, layers>>

Dequeue ==
  /\ phase = "kahn" /\ todo = {} /\ head < Len(queue)
  /\ head' = head + 1
  /\ todo' = Succs(queue[head + 1])
  /\ UNCHANGED <<services, phase, err, cycled, inDegree, seeded, queue, layers>>

(* One neighbour has one dependency less.                                  *)
VisitMut(n) ==  \* queued when the first dependency is placed
  /\ inDegree' = [inDegree EXCEPT ![n] = @ - 1]
  /\ queue' = IF \E i \in DOMAIN queue : queue[i] = n THEN queue ELSE Append(queue, n)
Visit(n) ==
  /\ inDegree' = [inDegree EXCEPT ![n] = @ - 1]
  /\ queue' = IF inDegree[n] = 1 THEN Append(queue, n) ELSE queue

Relax ==
  /\ phase = "kahn"
  /\ \E n \in todo : Visit(n) /\ todo' = todo \ {n}
  /\ UNCHANGED <<services, phase, err, cycled, seeded, head, layers>>

(* The result is the dequeued part of the queue; if it is not everything,  *)
(* the error names the nodes whose in-degree is not zero.                  *)
Report == {n \in Names : inDegree[n] > 0}

SortDone ==
  /\ phase = "kahn" /\ todo = {} /\ head = Len(queue)
  /\ \/ /\ head # Cardinality(Names)
        /\ phase' = "failed" /\ err' = "cycle" /\ cycled' = Report
        /\ UNCHANGED inDegree
     \/ /\ head = Cardinality(Names)
        /\ phase' = "cut" /\ inDegree' = [n \in Names |-> Cardinality(Preds(n))]
        /\ UNCHANGED <<err, cycled>>
  /\ UNCHANGED <<services, seeded, queue, head, todo, layers>>

-----------------------------------------------------------------------------
(* TopoLayers, on the same list                                            *)

Emitted == UNION {layers[i] : i \in DOMAIN layers}
LayerMut == {n \in Names : inDegree[n] \in {0, 1}}  \* one dependency too early
Layer == {n \in Names : inDegree[n] = 0}

(* Drain a layer: mark its members and count them off their neighbours.    *)
Drain ==
  [n \in Names |->
    (IF n \in Layer THEN -1 ELSE inDegree[n]) - Cardinality(Layer \cap Preds(n))]

CutLayer ==
  /\ phase = "cut" /\ Cardinality(Emitted) < Cardinality(Names)
  /\ \/ /\ Layer = {}
        /\ phase' = "failed" /\ err' = "layers" /\ UNCHANGED <<inDegree, layers>>
     \/ /\ Layer # {}
        /\ inDegree' = Drain
        /\ layers' = Append(layers, Layer)
        /\ UNCHANGED <<phase, err>>
  /\ UNCHANGED <<services, cycled, seeded, queue, head, todo>>

CutDone ==
  /\ phase = "cut" /\ Cardinality(Emitted) = Cardinality(Names)
  /\ phase' = "ordered"
  /\ UNCHANGED <<services, err, cycled, inDegree, seeded, queue, head, todo, layers>>

OrderNext ==
  \/ BuildEdges \/ Seed \/ SeedDone \/ Dequeue \/ Relax \/ SortDone
  \/ CutLayer \/ CutDone

(* A process list arrives; in run() it is the loaded configuration.        *)
Take ==
  /\ phase = "load"
  /\ services' \in Seq(Process) /\ phase' = "edges"
  /\ UNCHANGED <<err, cycled, inDegree, seeded, queue, head, todo, layers>>

OrderSpec == OrderInit /\ [][Take \/ OrderNext]_orderVars

-----------------------------------------------------------------------------
(* Both functions keep the promise of StartOrder                           *)

SortVerdict ==
  IF phase \in {"load", "edges"} THEN "idle"
  ELSE IF phase \in {"seed", "kahn"} THEN "open"
  ELSE IF err \in {"duplicate", "unknown"} THEN "invalid"
  ELSE IF err = "cycle" THEN "cycle"
  ELSE "ordered"

Sort == INSTANCE StartOrder WITH
  nodes <- IF SortVerdict \in {"idle", "invalid"} THEN {} ELSE Names,
  edges <- IF SortVerdict \in {"idle", "invalid"} THEN {} ELSE Edges,
  placed <- {queue[i] : i \in 1..head},
  verdict <- SortVerdict

(* TopoSort implements StartOrder: what it has dequeued is placed, nothing *)
(* before its dependencies, and it reports a cycle exactly when the rest   *)
(* waits for itself.                                                       *)
TopoSortIsAStartOrder == Sort!Spec

LayerVerdict ==
  IF phase = "cut" THEN "open"
  ELSE IF phase = "ordered" THEN "ordered"
  ELSE IF err = "layers" THEN "cycle"
  ELSE "idle"

Layering == INSTANCE StartOrder WITH
  nodes <- IF LayerVerdict = "idle" THEN {} ELSE Names,
  edges <- IF LayerVerdict = "idle" THEN {} ELSE Edges,
  placed <- Emitted,
  verdict <- LayerVerdict

(* TopoLayers implements StartOrder too: a layer is a batch without edges  *)
(* inside it, so its members may start in parallel.                        *)
TopoLayersIsAStartOrder == Layering!Spec

(* "Cycles already failed above, so this can't surface a new error":       *)
(* TopoLayers never fails on a list TopoSort has ordered.                  *)
LayersCannotFail == err # "layers"

(* A cycle error names exactly the processes that can never start: those   *)
(* on a cycle and those behind one.                                        *)
CycleIsReported ==
  err = "cycle" =>
    /\ cycled # {}
    /\ \A n \in cycled : Preds(n) \cap cycled # {}
    /\ \A n \in Names \ cycled : Preds(n) \cap cycled = {}

(* The sort keeps every process, once.                                     *)
SortIsComplete ==
  phase \in {"cut", "ordered"} =>
    /\ {queue[i] : i \in 1..head} = Names
    /\ \A i, j \in 1..head : queue[i] = queue[j] => i = j

(* A process stands in one layer, and what it waits for in earlier ones.   *)
LayersInOrder ==
  \A k \in DOMAIN layers, n \in Names : n \in layers[k] =>
    /\ \A m \in Preds(n) : \E j \in 1..(k - 1) : m \in layers[j]
    /\ \A j \in DOMAIN layers : n \in layers[j] => j = k
=============================================================================
