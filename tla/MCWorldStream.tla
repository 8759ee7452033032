--------------------------- MODULE MCWorldStream ---------------------------
(* Small instances of WorldStream, of which a behaviour is in one: what is    *)
(* shown, with two content revisions, research and two runs; what is          *)
(* forgotten, with more events and no mishap; or how the browser comes alive, *)
(* with two handshakes under way and nothing else to see.                     *)
EXTENDS WorldStream

OneFoe == {"foe"}
Line == [u \in {"own", "foe"} |-> IF u = "own" THEN {0, 4} ELSE {2, 3}]
Starts == [u \in {"own", "foe"} |-> IF u = "own" THEN 4 ELSE 3]
Alone == [u \in {"own"} |-> 4]
AlonePlace == [u \in {"own"} |-> {4}]
Sensors == <<1, 3>>
OneSensor == <<1>>

VARIABLE setting

Sight == INSTANCE WorldStream WITH MaxCalls <- 1, MaxEvents <- 2
Deaths == INSTANCE WorldStream WITH MaxCalls <- 1, MaxRuns <- 1, MaxTroubles <- 0,
                                    Research <- FALSE
Alive == INSTANCE WorldStream WITH Others <- {}, Retained <- {}, Start <- Alone, Places <- AlonePlace,
                                   Ranges <- OneSensor, Research <- FALSE, MaxEvents <- 1

OneInit == \/ setting = "sight" /\ Sight!Init
           \/ setting = "deaths" /\ Deaths!Init
           \/ setting = "alive" /\ Alive!Init

OneNext ==
  \/ setting = "sight" /\ Sight!Next /\ UNCHANGED setting
  \/ setting = "deaths" /\ Deaths!Next /\ UNCHANGED setting
  \/ setting = "alive" /\ Alive!Next /\ UNCHANGED setting

all == <<setting, vars>>
InAlive == setting = "alive" /\ UNCHANGED setting

(* The fairness of WorldStream; what is shown is checked without.             *)
OneSpec ==
  /\ OneInit /\ [][OneNext]_all
  /\ WF_all(InAlive /\ Alive!ResetGoesOn) /\ WF_all(InAlive /\ Alive!Heartbeat)
  /\ WF_all(InAlive /\ Alive!Recover) /\ WF_all(InAlive /\ Alive!Route)
  /\ WF_all(InAlive /\ Alive!Opens) /\ WF_all(InAlive /\ Alive!StreamEnds)
  /\ WF_all(InAlive /\ Alive!Deliver) /\ WF_all(InAlive /\ Alive!HandshakeAnswered)
  /\ WF_all(InAlive /\ Alive!RetryFires)

(* Whatever happened before, once troubles end the browser is live and stays  *)
(* so, unless its EventSource was answered with an error (retryBootstrap,     *)
(* onHealth, onError).                                                        *)
ComesAlive == <>[](setting = "alive" => Live \/ ui.es = "failed")
=============================================================================
