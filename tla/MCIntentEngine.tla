--------------------------- MODULE MCIntentEngine ---------------------------
(* Small instances of IntentEngine.                                         *)
EXTENDS IntentEngine, TLC

CONSTANTS p1, p2, ship, base, go, mine, hit, quit, halt, junk

Does(p, e, k, pol) == [player |-> p, entity |-> e, kind |-> k, policy |-> pol]

(* Two orders compete for one ship, which may also be told to destroy       *)
(* itself; a restart treats each differently.                               *)
ShipOwner    == ship :> p1
MoveMineQuit == go :> Does(p1, ship, "move", "replace")
             @@ mine :> Does(p1, ship, "standing", "replace")
             @@ quit :> Does(p1, ship, "destruct", "replace")

(* Every kind of payload, two players, two entities.                        *)
BothOwners == ship :> p1 @@ base :> p2
EveryKind  == go :> Does(p1, ship, "move", "append")
           @@ hit :> Does(p2, ship, "transient", "replace")
           @@ mine :> Does(p2, base, "standing", "append")
           @@ quit :> Does(p1, ship, "destruct", "replace")
           @@ halt :> Does(p2, base, "instant", "replace")
           @@ junk :> Does(p1, ship, "malformed", "replace")
=============================================================================
