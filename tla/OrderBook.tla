------------------------------ MODULE OrderBook ------------------------------
(***************************************************************************)
(* What the engine's order handling promises, with no engine in it: each   *)
(* entity has one durable slot; an order enters an empty slot, in the      *)
(* order in which the engine took the commands up; an order that has left  *)
(* its slot never returns.  Orders can be dropped at any time (they end,   *)
(* are replaced, or a restart loses them).                                 *)
(***************************************************************************)
EXTENDS Integers

CONSTANTS Entities, Order, None

VARIABLES
  slot,    \* the order each entity is committed to
  last     \* id of the latest order that was opened or passed over

Init == slot = [e \in Entities |-> None] /\ last = 0

Open(e) ==
  /\ slot[e] = None
  /\ slot'[e] \in Order /\ slot'[e].id > last
  /\ slot' = [slot EXCEPT ![e] = slot'[e]]
  /\ last' = slot'[e].id

(* An order is turned away, or lost before it was opened.                   *)
Pass ==
  /\ last' \in Nat /\ last' > last
  /\ slot' = slot

Close(E) ==
  /\ slot' = [e \in Entities |-> IF e \in E THEN None ELSE slot[e]]
  /\ last' = last

Next ==
  \/ \E e \in Entities : Open(e)
  \/ Pass
  \/ \E E \in SUBSET Entities : Close(E)

Spec == Init /\ [][Next]_<<slot, last>>
=============================================================================
