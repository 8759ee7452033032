-------------------------- MODULE MCCommandInput ---------------------------
(* Instances of CommandInput: a worker that can do nearly everything, a        *)
(* mobile base and a dock.                                                     *)
EXTENDS CommandInput

CONSTANTS worker, ship, dock
Fleet == worker :> {"mobile", "collect", "carry", "build", "upgrade", "repair"}
         @@ ship :> {"mobile", "carry", "depot", "research"} @@ dock :> {"depot", "carry"}
OnePlayers == {[t \in Things |-> "me"]}

=============================================================================
