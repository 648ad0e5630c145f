--------------------------- MODULE ConfigDelivery ---------------------------
(***************************************************************************)
(* What configuration delivery promises, without its mechanism. Each       *)
(* change bumps the data a node must see; publishing gives the data a new  *)
(* generation; a node applies configurations that carry a generation and   *)
(* the data it was built from. The promise: the data applied under a       *)
(* generation is never older than the data that generation was published   *)
(* for, and neither the generation nor the data of a node goes back.       *)
(***************************************************************************)
EXTENDS Naturals, Sequences

CONSTANT Nodes

VARIABLES
  data,    \* changes committed so far that concern a node
  gen,     \* the node's generation
  floor,   \* floor[n][g + 1]: the changes generation g of n was published for
  node     \* the configuration a node has applied: its generation, its data

vars == <<data, gen, floor, node>>

Init ==
  /\ data = [n \in Nodes |-> 0]
  /\ gen = [n \in Nodes |-> 0]
  /\ floor = [n \in Nodes |-> <<0>>]
  /\ node = [n \in Nodes |-> [gen |-> 0, data |-> 0]]

Change(S) ==
  /\ data' = [n \in Nodes |-> IF n \in S THEN data[n] + 1 ELSE data[n]]
  /\ UNCHANGED <<gen, floor, node>>

Publish(n) ==
  /\ gen' = [gen EXCEPT ![n] = @ + 1]
  /\ floor' = [floor EXCEPT ![n] = Append(@, data[n])]
  /\ UNCHANGED <<data, node>>

(* A node applies a configuration built from data d and labelled g.        *)
Apply(n, g, d) ==
  /\ g <= gen[n]
  /\ floor[n][g + 1] <= d /\ node[n].data <= d /\ d <= data[n]
  /\ node' = [node EXCEPT ![n] = [gen |-> g, data |-> d]]
  /\ UNCHANGED <<data, gen, floor>>

(* A running node applies newer generations only.                          *)
Update(n) == \E g \in (node[n].gen + 1)..gen[n], d \in 0..data[n] : Apply(n, g, d)

(* A node that restarts may be given the generation it already had.        *)
Reload(n) == \E g \in node[n].gen..gen[n], d \in 0..data[n] : Apply(n, g, d)

Next ==
  \/ \E S \in SUBSET Nodes : Change(S)
  \/ \E n \in Nodes : Publish(n) \/ Update(n) \/ Reload(n)

Spec == Init /\ [][Next]_vars
=============================================================================
