------------------------- MODULE CollectionRouting -------------------------
(* Maintained collection in the browser: collectionRouting.ts keeps a route   *)
(* for every unit the player told to collect, asks the planner (a Web Worker)  *)
(* again whenever what is known of the world changes, sends what it found      *)
(* through the order queue (intentQueueManager.ts), and holds the unit when no *)
(* safe way is left; moveRouting.ts plans single Moves beside it. The geometry *)
(* of the planner is one value, the way it finds. The engine takes commands in *)
(* order and tells their end at once; WorldStream and OrderQueue model what    *)
(* lies between.                                                               *)
EXTENDS Naturals, Sequences, FiniteSets, FiniteSetsExt, SequencesExt

CONSTANTS
  None,         \* no value
  Units,        \* the player's collectors
  Depots,       \* depots a collection may deliver to
  Players,      \* who may use the page
  Owner,        \* the player the units belong to
  Seen,         \* what may be known of source, depots and ways
  Asks,         \* what the player may order
  MaxAsks,      \* orders the player gives
  MaxChanges,   \* changes of what is known, and stops on the way
  Troubles,     \* the mishaps that may happen
  MaxTroubles

Auto == "auto"     \* no depot assigned: the nearest
Ways == {"direct", "detour", "none"}
Known == [source : BOOLEAN, way : Ways, rooms : SUBSET Depots, travels : BOOLEAN]

VARIABLES
  world,    \* run, what is known of it, the units, what each of them does
  page,     \* router, planner, order queue and connection of the browser
  wish,     \* the last thing the player told each unit to do, None if undone
  spent     \* commands given (their numbers), changes, mishaps

vars == <<world, page, wish, spent>>

Spend(what) == spent' = [spent EXCEPT ![what] = @ + 1]
Change == spent.changes < MaxChanges /\ Spend("changes")
Trouble(t) == t \in Troubles /\ spent.troubles < MaxTroubles /\ Spend("troubles")

-----------------------------------------------------------------------------
(* The router. Each operation gives the page after it.                        *)

Connected(p) == p.snap /\ p.rec

Order(tag, plan, rev) ==
  [tag |-> tag, plan |-> plan, rev |-> rev, here |-> FALSE, accepted |-> TRUE, holding |-> FALSE,
   pending |-> FALSE, dirty |-> FALSE, key |-> None, stuck |-> FALSE, expected |-> None,
   answered |-> None]

\* Mutant: what is held for later stays when an order is canceled.
CancelKeepsHold(p, u) == [p EXCEPT !.orders[u] = None]

(* While the router itself moves a unit aside its order is not canceled.      *)
Cancel(p, u) == [p EXCEPT !.orders[u] = None, !.hold[u] = None]

Held(o) == IF o # None /\ o.accepted THEN [o EXCEPT !.pending = FALSE] ELSE None

(* The Worker ends and takes every request of its epoch with it.              *)
Suspend(p) ==
  [p EXCEPT !.live = FALSE, !.planner = <<>>,
            !.orders = [u \in Units |-> Held(@[u])],
            !.hold = [u \in Units |-> IF p.orders[u] # None /\ ~p.orders[u].accepted THEN None ELSE @[u]]]

Reset(p) ==
  [Suspend(p) EXCEPT !.orders = [u \in Units |-> None], !.run = p.shown, !.live = Connected(p)]

(* What a route depends on: the fingerprint of the relevant world.            *)
Key(u) == [known |-> world.known, assigned |-> world.unit[u].assigned]

Request(o, u) ==
  [unit |-> u, rev |-> o.rev, key |-> Key(u),
   pinned |-> IF o.plan = None THEN None
              ELSE IF Key(u).assigned # Auto THEN Key(u).assigned ELSE o.plan.depot,
   current |-> IF o.accepted /\ ~o.holding /\ ~o.stuck THEN o.plan ELSE None]

(* One order of a refresh: dropped when the unit is another's or was told     *)
(* something else; left alone while it awaits its depot or is up to date;      *)
(* marked for another round while it is being planned; asked about otherwise. *)
Look(p, u) ==
  LET o == p.orders[u]
      active == p.active[u]
      stuck == world.unit[u].stuck
      changed == o.key # Key(u) \/ (stuck /\ ~o.stuck)
      seen == [o EXCEPT !.expected = None, !.stuck = stuck]
      asked == [seen EXCEPT !.dirty = FALSE, !.key = Key(u), !.pending = TRUE]
      told == o.accepted /\ ~o.holding /\ active # None /\ active.kind # "collect"
  IN IF o = None \/ (world.unit[u].owner = p.player /\ o.expected \notin {None, Key(u).assigned})
     THEN p
     ELSE IF world.unit[u].owner # p.player \/ told THEN Cancel(p, u)
     ELSE IF o.pending THEN [p EXCEPT !.orders[u] = [seen EXCEPT !.dirty = @ \/ changed]]
     ELSE IF changed \/ o.dirty
          THEN [p EXCEPT !.orders[u] = asked, !.planner = Append(@, Request(asked, u))]
     ELSE [p EXCEPT !.orders[u] = seen]

Refresh(p) ==
  LET r == IF p.run # p.shown THEN Reset(p) ELSE p
  IN IF r.live /\ Connected(r) THEN FoldSet(LAMBDA u, acc : Look(acc, u), r, Units) ELSE r

(* An Assign on its way: what was being planned is no longer asked for.       *)
Reassign(p, u, d) ==
  IF p.orders[u] = None \/ ~p.orders[u].accepted THEN Cancel(p, u)
  ELSE [p EXCEPT !.serial = @ + 1,
                 !.orders[u] = [@ EXCEPT !.expected = d, !.rev = p.serial + 1, !.pending = FALSE]]

CargoChanged(p, u) ==
  IF p.orders[u] = None \/ ~p.orders[u].accepted THEN Cancel(p, u)
  ELSE [p EXCEPT !.serial = @ + 1,
                 !.orders[u] = [@ EXCEPT !.rev = p.serial + 1, !.pending = FALSE, !.key = None]]

-----------------------------------------------------------------------------
(* The order queue, as far as collection needs it.                            *)

Command(p, u, kind) ==
  [n |-> p.seq + 1, unit |-> u, kind |-> kind, tag |-> p.seq + 1, plan |-> None, depot |-> None,
   key |-> None, holds |-> FALSE]

\* Mutant: only settings are told to the router.
TellRouterSettings(p, c) == IF c.kind = "assign" THEN Reassign(p, c.unit, c.depot) ELSE p

TellRouter(p, c) ==
  CASE c.kind = "assign" -> Reassign(p, c.unit, c.depot)
    [] c.kind = "cargo" -> CargoChanged(p, c.unit)
    [] c.kind = "collect" \/ c.holds -> p
    [] OTHER -> Cancel(p, c.unit)

(* Every command passes here: it tells the router, ends a Move still being    *)
(* planned, forgets what was held and joins the chain of requests.            *)
Submit(p, c) ==
  LET u == c.unit
  IN [TellRouter(p, c) EXCEPT !.moving[u] = IF c.kind \in {"move", "assign", "cargo"} THEN @ ELSE None,
                  !.hold[u] = None, !.seq = c.n, !.chain = Append(@, c)]

(* A command that takes the unit's slot is shown at once.                     *)
Start(p, c) == Submit([p EXCEPT !.active[c.unit] = [n |-> c.n, kind |-> c.kind]], c)

SendCollect(p, u, tag, plan, key) ==
  Start(p, [Command(p, u, "collect") EXCEPT !.tag = tag, !.plan = plan, !.key = key])

(* No safe way is left: the unit stands still and the collection is kept for  *)
(* later, in the browser's storage too.                                       *)
HoldPosition(p, u, o) ==
  LET c == [Command(p, u, "move") EXCEPT !.holds = TRUE, !.tag = o.tag]
  IN [Start([p EXCEPT !.orders[u] = [o EXCEPT !.holding = TRUE]], c) EXCEPT
        !.hold[u] = [player |-> p.player, tag |-> o.tag, plan |-> o.plan, n |-> c.n]]

(* The queue of another run is empty.                                         *)
ResetForWorld(p) ==
  IF p.queueRun = world.run THEN p
  ELSE [Reset(p) EXCEPT !.queueRun = world.run, !.chain = <<>>,
                        !.active = [u \in Units |-> None], !.hold = [u \in Units |-> None],
                        !.moving = [u \in Units |-> None]]

-----------------------------------------------------------------------------
(* What the player orders.                                                    *)

(* A wish lives as long as anybody carries it.                                *)
Carried(p, w, u) ==
  {p.moving[u]} \cup {o.tag : o \in {p.orders[u], p.hold[u], w.engine[u]} \ {None}}
                \cup {c.tag : c \in {x \in Range(p.chain) : x.unit = u}}

Keeps(wishes) ==
  wish' = [u \in Units |-> IF wishes[u] \in Carried(page', world', u) THEN wishes[u] ELSE None]

Told(u, tag) == Keeps([wish EXCEPT ![u] = tag])

Ask(kind, u) ==
  /\ kind \in Asks /\ spent.asks < MaxAsks /\ Spend("asks")
  /\ world.unit[u].owner = page.player
  /\ UNCHANGED world

(* A new collection replaces the router's order; without a living connection  *)
(* nothing is planned, and a unit that does not travel needs no plan.         *)
AskCollect(u) ==
  LET tag == page.seq + 1
      free == Cancel([page EXCEPT !.moving[u] = None], u)
      order == [Order(tag, None, page.serial + 1) EXCEPT !.accepted = FALSE, !.here = TRUE]
      asked == [free EXCEPT !.orders[u] = order, !.serial = @ + 1, !.seq = tag]
  IN /\ Ask("collect", u)
     /\ page' = IF ~world.known.travels THEN SendCollect(free, u, tag, None, Key(u))
                ELSE IF page.live /\ page.snap THEN Refresh(asked) ELSE free
     /\ Told(u, tag)

(* A Move is planned first; it reaches the queue when the plan is there.      *)
AskMove(u) ==
  /\ Ask("move", u)
  /\ page' = [page EXCEPT !.moving[u] = page.seq + 1, !.seq = @ + 1]
  /\ Told(u, page.seq + 1)

MovePlanned(u) ==
  /\ page.moving[u] # None
  /\ LET c == [Command(page, u, "move") EXCEPT !.tag = page.moving[u]]
         done == [page EXCEPT !.moving[u] = None]
     IN page' = done \/ (Connected(page) /\ page' = Start(done, c))
  /\ UNCHANGED <<world, spent>> /\ Keeps(wish)

AskOther(u) ==
  /\ Ask("other", u)
  /\ page' = Start(page, Command(page, u, "other")) /\ Told(u, page.seq + 1)

(* Settings leave what the unit does alone.                                   *)
AskAssign(u) ==
  /\ Ask("assign", u)
  /\ \E d \in Depots \cup {Auto} :
       page' = Submit(page, [Command(page, u, "assign") EXCEPT !.depot = d])
  /\ Keeps(wish)

AskCargo(u) ==
  /\ Ask("cargo", u)
  /\ page' = Submit(page, Command(page, u, "cargo")) /\ Keeps(wish)

-----------------------------------------------------------------------------
(* The planner, in its Worker.                                                *)

(* A way is still safe if nothing worse than it is needed.                    *)
StillSafe(via, way) == way = "direct" \/ via = way

Answers(r) ==
  LET known == r.key.known
      open == IF r.key.assigned = Auto THEN known.rooms ELSE known.rooms \cap {r.key.assigned}
      choice == IF r.pinned = None THEN open ELSE open \cap {r.pinned}
      Answer(d) ==
        IF r.current # None /\ r.current.depot = d /\ StillSafe(r.current.via, known.way)
        THEN [kind |-> "retained"]
        ELSE IF known.way = "none" THEN [kind |-> "blocked"]
        ELSE [kind |-> "planned", plan |-> [depot |-> d, via |-> known.way]]
  IN IF ~known.travels THEN {[kind |-> "proximity"]}
     ELSE IF ~known.source \/ choice = {} THEN {[kind |-> "blocked"]}
     ELSE {Answer(d) : d \in choice}

Answered(p, r, a) ==
  LET u == r.unit
      o == [p.orders[u] EXCEPT !.pending = FALSE, !.answered = r.key]
      kept == [p EXCEPT !.orders[u] = o]
      planned == [o EXCEPT !.plan = a.plan, !.accepted = TRUE, !.holding = FALSE]
  IN CASE a.kind = "retained" -> kept
       [] a.kind = "blocked" -> IF o.accepted /\ ~o.holding THEN HoldPosition(p, u, o) ELSE kept
       [] a.kind = "proximity" ->
            Cancel(IF o.here THEN SendCollect(kept, u, o.tag, None, r.key) ELSE kept, u)
       [] a.kind = "planned" ->
            SendCollect([p EXCEPT !.orders[u] = planned], u, o.tag, a.plan, r.key)

UpToDate(p) == Refresh(p)

(* An answer is used after another look at the world: it counts for the order *)
(* it was asked for, unless that changed meanwhile.                           *)
Complete ==
  /\ page.planner # <<>> /\ UNCHANGED <<world, spent>>
  /\ LET r == Head(page.planner)
         seen == UpToDate(page)
         p == [seen EXCEPT !.planner = IF @ = <<>> THEN @ ELSE Tail(@)]
         o == p.orders[r.unit]
     IN IF seen.planner = <<>> \/ o = None \/ o.rev # r.rev THEN page' = p
        ELSE IF o.dirty THEN page' = Refresh([p EXCEPT !.orders[r.unit].pending = FALSE])
        ELSE \E a \in Answers(r) : page' = Answered(p, r, a)
  /\ Keeps(wish)

Timer == page.timer /\ page' = Refresh([page EXCEPT !.timer = FALSE])
         /\ UNCHANGED <<world, spent>> /\ Keeps(wish)

WorkerFails == Trouble("worker") /\ page.planner # <<>> /\ page' = Suspend(page)
               /\ UNCHANGED world /\ Keeps(wish)

-----------------------------------------------------------------------------
(* The engine and what it tells.                                              *)

Doing(u) == LET e == world.engine[u] IN IF e = None THEN None ELSE [n |-> e.n, kind |-> e.kind]

(* The first command of the chain reaches the engine and takes effect.        *)
EngineTakes ==
  /\ page.chain # <<>> /\ UNCHANGED spent
  /\ LET c == Head(page.chain)
         u == c.unit
         does == [n |-> c.n, tag |-> c.tag, kind |-> c.kind, plan |-> c.plan]
     IN /\ page' = [page EXCEPT !.chain = Tail(@), !.timer = TRUE]
        /\ world.unit[u].owner = page.player
        /\ world' = CASE c.kind = "assign" -> [world EXCEPT !.unit[u].assigned = c.depot]
                      [] c.kind = "cargo" -> world
                      [] OTHER -> [world EXCEPT !.engine[u] = does, !.unit[u].stuck = FALSE]
  /\ Keeps(wish)

(* It is refused, or never arrives: what is shown is what the engine does.    *)
EngineRefuses ==
  /\ page.chain # <<>> /\ UNCHANGED world
  /\ LET c == Head(page.chain)
         now == IF page.active[c.unit] # None /\ page.active[c.unit].n = c.n
                THEN Doing(c.unit) ELSE page.active[c.unit]
     IN /\ page' = [page EXCEPT !.chain = Tail(@), !.active[c.unit] = now]
        /\ IF world.unit[c.unit].owner = page.player THEN Trouble("refused") ELSE UNCHANGED spent
  /\ Keeps(wish)

(* A Move or another order ends; a collection goes on.                        *)
EngineFinishes(u) ==
  /\ world.engine[u] # None /\ world.engine[u].kind # "collect"
  /\ page' = [page EXCEPT !.active[u] = IF @ # None /\ @.n = world.engine[u].n THEN None ELSE @]
  /\ world' = [world EXCEPT !.engine[u] = None]
  /\ UNCHANGED spent /\ Keeps(wish)

(* A waypoint or the depot of a planned route is gone.                        *)
EngineBlocks(u) ==
  /\ world.engine[u] # None /\ world.engine[u].kind = "collect" /\ ~world.unit[u].stuck /\ Change
  /\ world' = [world EXCEPT !.unit[u].stuck = TRUE]
  /\ page' = [page EXCEPT !.timer = TRUE] /\ Keeps(wish)

(* Something is discovered, built, filled or lost; whether the units travel     *)
(* to collect is their type.                                                  *)
WorldChanges ==
  /\ Change
  /\ \E k \in Seen \ {world.known} :
       k.travels = world.known.travels /\ world' = [world EXCEPT !.known = k]
  /\ page' = [page EXCEPT !.timer = TRUE] /\ Keeps(wish)

UnitLost(u) ==
  /\ Trouble("lost") /\ world.unit[u].owner # None
  /\ world' = [world EXCEPT !.unit[u].owner = None, !.engine[u] = None]
  /\ page' = [page EXCEPT !.timer = TRUE, !.active[u] = None] /\ Keeps(wish)

-----------------------------------------------------------------------------
(* The connection.                                                            *)

(* Becoming live again wakes the router.                                      *)
GoesLive(p) == IF Connected(p) THEN [p EXCEPT !.live = TRUE, !.timer = TRUE] ELSE p

Unlinked(p) == [Suspend(p) EXCEPT !.snap = FALSE, !.rec = FALSE]

LineDrops ==
  /\ Trouble("line") /\ (page.snap \/ page.rec) /\ page' = Unlinked(page)
  /\ UNCHANGED world /\ Keeps(wish)

Snapshot ==
  /\ ~page.snap /\ UNCHANGED <<world, spent>>
  /\ LET p == [ResetForWorld(page) EXCEPT !.shown = world.run, !.snap = TRUE, !.timer = TRUE]
     IN page' = GoesLive(p)
  /\ Keeps(wish)

(* What was held is taken up again unless the unit does something else now;   *)
(* collections the engine knows are taken over; those it does not end.        *)
Adopt(p) ==
  LET Other(u) == world.engine[u] # None /\ world.engine[u].n # p.hold[u].n
      Free(q, u) == q.hold[u] # None /\ q.hold[u].player = q.player /\ q.orders[u] = None
      Holds(q, u) == IF ~Free(q, u) THEN q
                     ELSE IF Other(u) THEN [q EXCEPT !.hold[u] = None]
                     ELSE [q EXCEPT !.orders[u] = [Order(q.hold[u].tag, q.hold[u].plan, q.serial + 1)
                                                     EXCEPT !.holding = TRUE], !.serial = @ + 1]
      Collects(u) == world.engine[u] # None /\ world.engine[u].kind = "collect"
      Takes(q, u) == IF Collects(u) /\ q.orders[u] = None
                     THEN [q EXCEPT !.orders[u] = Order(world.engine[u].tag, world.engine[u].plan,
                                                        q.serial + 1), !.serial = @ + 1]
                     ELSE q
      Ends(q, u) == IF q.orders[u] # None /\ q.orders[u].accepted /\ ~q.orders[u].holding /\ ~Collects(u)
                    THEN Cancel(q, u) ELSE q
  IN FoldSet(LAMBDA u, q : Ends(Takes(Holds(q, u), u), u), [p EXCEPT !.run = world.run], Units)

(* Optimistic actions of commands under way stay.                             *)
Handshake ==
  /\ ~page.rec /\ UNCHANGED <<world, spent>>
  /\ LET p == ResetForWorld(page)
         OnItsWay(u) == p.active[u] # None /\ \E c \in Range(p.chain) : c.n = p.active[u].n
         real == [p EXCEPT !.active = [u \in Units |-> IF OnItsWay(u) THEN @[u] ELSE Doing(u)]]
     IN page' = GoesLive([Adopt(real) EXCEPT !.rec = TRUE])
  /\ Keeps(wish)

(* The operator resets the world, and the stream tells it.                    *)
WorldResets ==
  /\ Trouble("world")
  /\ world' = [world EXCEPT !.run = @ + 1, !.engine = [u \in Units |-> None],
                            !.unit = [u \in Units |-> [owner |-> Owner, stuck |-> FALSE, assigned |-> Auto]]]
  /\ LET p == Unlinked(page) IN
     page' = [Reset(p) EXCEPT !.queueRun = world.run + 1, !.chain = <<>>,
                !.active = [u \in Units |-> None], !.hold = [u \in Units |-> None],
                !.moving = [u \in Units |-> None]]
  /\ Keeps(wish)

FreshPage(player, kept) ==
  [player |-> player, shown |-> None, snap |-> FALSE, rec |-> FALSE, run |-> None, live |-> FALSE,
   timer |-> TRUE, orders |-> [u \in Units |-> None], planner |-> <<>>, active |-> kept.active,
   hold |-> kept.hold, moving |-> [u \in Units |-> None], chain |-> <<>>, seq |-> kept.seq,
   serial |-> 0, queueRun |-> kept.queueRun]

(* Storage keeps the number, what units do and what is held.                  *)
Reload == Trouble("reload") /\ page' = FreshPage(page.player, page) /\ UNCHANGED world /\ Keeps(wish)

(* Another player of this browser: the stream is opened for them.             *)
SwitchPlayer(player) ==
  /\ Trouble("switch") /\ player # page.player
  /\ page' = [Reset(Unlinked(page)) EXCEPT !.player = player, !.timer = TRUE,
                                           !.moving = [u \in Units |-> None]]
  /\ UNCHANGED world /\ Keeps(wish)

-----------------------------------------------------------------------------
Init ==
  /\ \E k \in Seen :
       world = [run |-> 1, known |-> k, engine |-> [u \in Units |-> None],
                unit |-> [u \in Units |-> [owner |-> Owner, stuck |-> FALSE, assigned |-> Auto]]]
  /\ page = FreshPage(Owner, [active |-> [u \in Units |-> None], hold |-> [u \in Units |-> None],
                              seq |-> 0, queueRun |-> None])
  /\ wish = [u \in Units |-> None]
  /\ spent = [asks |-> 0, changes |-> 0, troubles |-> 0]

Asked(u) == AskCollect(u) \/ AskMove(u) \/ AskOther(u) \/ AskAssign(u) \/ AskCargo(u)
Router == Complete \/ Timer
Engine == EngineTakes \/ EngineRefuses \/ WorldChanges
          \/ \E u \in Units : EngineFinishes(u) \/ EngineBlocks(u)
Link == Snapshot \/ Handshake
Mishap == WorkerFails \/ LineDrops \/ WorldResets \/ Reload
          \/ (\E u \in Units : UnitLost(u)) \/ (\E q \in Players : SwitchPlayer(q))

Next == Router \/ Engine \/ Link \/ Mishap \/ \E u \in Units : Asked(u) \/ MovePlanned(u)

Spec == Init /\ [][Next]_vars

-----------------------------------------------------------------------------
(* HoldServesTheLastWish: what is held for later, in storage too, is the last  *)
(* thing the player told the unit, unless a Move is still being planned        *)
(* (submit, setCollectionRoutingHold, cancel).                                 *)
HoldServesTheLastWish ==
  \A u \in Units : page.hold[u] # None /\ wish[u] # None
                     => wish[u] \in {page.hold[u].tag, page.moving[u]}

(* NoOldWishReturns: a unit that was told something newer never goes back to  *)
(* what it was told before (adopt, refresh, submit).                           *)
NoOldWishReturns ==
  [][\A u \in Units : world.engine[u] # None /\ world'.engine[u] # None
                       => world'.engine[u].tag >= world.engine[u].tag]_vars
=============================================================================
