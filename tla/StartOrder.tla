----------------------------- MODULE StartOrder -----------------------------
(***************************************************************************)
(* What a start order promises: the processes of a dependency graph are    *)
(* put in place in batches, each one only after everything it waits for,   *)
(* until all are placed, or until what is left waits for itself.           *)
(***************************************************************************)
EXTENDS FiniteSets

VARIABLES
  nodes, edges,    \* the graph: <<a, b>> means that a starts before b
  placed,          \* processes that have a place in the order
  verdict          \* "idle", "invalid", "open", "ordered" or "cycle"

vars == <<nodes, edges, placed, verdict>>

Preds(n) == {m \in nodes : <<m, n>> \in edges}

Init == nodes = {} /\ edges = {} /\ placed = {} /\ verdict = "idle"

(* A process list arrives; one that is no graph is turned down.            *)
Submit ==
  /\ verdict = "idle"
  /\ \/ verdict' = "open"
     \/ verdict' = "invalid" /\ UNCHANGED <<nodes, edges>>
  /\ UNCHANGED placed

(* The next batch: nothing in it waits for a process without a place.      *)
Place ==
  /\ verdict = "open"
  /\ \E batch \in SUBSET (nodes \ placed) :
       /\ batch # {} /\ \A n \in batch : Preds(n) \subseteq placed
       /\ placed' = placed \cup batch
  /\ UNCHANGED <<nodes, edges, verdict>>

Accept ==
  /\ verdict = "open" /\ placed = nodes
  /\ verdict' = "ordered"
  /\ UNCHANGED <<nodes, edges, placed>>

(* Every process left waits for another one left.                          *)
Reject ==
  /\ verdict = "open" /\ placed # nodes
  /\ \A n \in nodes \ placed : ~(Preds(n) \subseteq placed)
  /\ verdict' = "cycle"
  /\ UNCHANGED <<nodes, edges, placed>>

Next == Submit \/ Place \/ Accept \/ Reject

Spec == Init /\ [][Next]_vars

=============================================================================
