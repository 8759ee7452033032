----------------------------- MODULE MCBrowser -----------------------------
(* Services of a page that meet nowhere are checked in one run, and "part"    *)
(* tells which a behaviour is of: the progress display, the routing of        *)
(* collections (CollectionRouting), or the console, with every command but    *)
(* nothing that goes wrong, or with few commands and mishaps.                 *)
EXTENDS BuildProgress, Console

CONSTANTS Collectors, Depots, Players, Owner, Seen, Asks, MaxAsks, MaxLooks, Troubles, MaxTroubles, Risky

VARIABLES part, world, page, wish, spent

routed == <<world, page, wish, spent>>

Routing == INSTANCE CollectionRouting WITH Units <- Collectors, MaxChanges <- MaxLooks

ASSUME RoutingAssumption ==
  /\ Owner \in Players /\ Seen \subseteq Routing!Known
  /\ Asks \subseteq {"collect", "move", "other", "assign", "cargo"}
  /\ MaxAsks \in Nat /\ MaxLooks \in Nat /\ MaxTroubles \in Nat

Plain == [source |-> TRUE, way |-> "direct", rooms |-> {"near", "far"}, travels |-> TRUE]
Views == {Plain, [Plain EXCEPT !.way = "none"], [Plain EXCEPT !.way = "detour", !.rooms = {"far"}],
          [Plain EXCEPT !.travels = FALSE]}

Steady == INSTANCE Console WITH MaxMishaps <- 0
Shaky  == INSTANCE Console WITH Commands <- Risky, MaxTicks <- 0

(* A file is there from before, or not.                                       *)
OneInit ==
  /\ part \in {"routing", "progress", "steady", "shaky"}
  /\ Routing!Init /\ InitProgress /\ ConsoleInit
  /\ part # "routing"  => world.known = Plain
  /\ part # "progress" => store.ids = {}
  /\ cookie = "ann" /\ host.world = "near"
  /\ \A id \in Ids : shelf[id] = Nobody \/ (part \in {"steady", "shaky"} /\ shelf[id].holds = "far")

OneNext ==
  \/ part = "routing"  /\ Routing!Next       /\ UNCHANGED <<part, progress, console>>
  \/ part = "progress" /\ NextProgress       /\ UNCHANGED <<part, routed, console>>
  \/ part = "steady"   /\ Steady!ConsoleNext /\ UNCHANGED <<part, routed, progress>>
  \/ part = "shaky"    /\ Shaky!ConsoleNext  /\ UNCHANGED <<part, routed, progress>>

all == <<part, routed, progress, console>>
InProgress == part = "progress" /\ UNCHANGED <<part, routed, console>>

(* Timers fire, requests are answered, the stream's loop goes on; the engine, *)
(* who asks for progress and what goes wrong are under no obligation.         *)
OneSpec ==
  /\ OneInit /\ [][OneNext]_all
  /\ WF_all(InProgress /\ Stream) /\ WF_all(InProgress /\ Wait)
  /\ WF_all(InProgress /\ Poll) /\ WF_all(InProgress /\ (Read \/ Answered))

(* What is held for later, in storage too, is the last thing the player told  *)
(* the unit, unless a Move is still being planned (submit,                    *)
(* setCollectionRoutingHold and cancel of intentQueueManager.ts).             *)
HoldServesTheLastWish == Routing!HoldServesTheLastWish

(* A unit that was told something newer never goes back to what it was told   *)
(* before (adopt, refresh, submit of collectionRouting.ts).                   *)
NoOldWishReturns == Routing!NoOldWishReturns

(* When nothing changes any more, every followed unit comes to be shown with  *)
(* the progress it has, and nothing else is (streamDisconnected and poll of   *)
(* buildProgressStore.ts).                                                    *)
EndsUpCurrent == <>[](part = "progress" => Current)
=============================================================================
