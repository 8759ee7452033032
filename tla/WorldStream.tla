---------------------------- MODULE WorldStream ----------------------------
(* How one player's browser follows the world: the stream route, which sends  *)
(* a filtered snapshot and then filtered deltas (stream/route.ts, bootstrap.ts, *)
(* delta.ts, visibility.ts), and the bridge that keeps the browser's world    *)
(* and the state of the connection (GameStateStreamBridge.tsx, entityMemory.ts, *)
(* minimapMemory.ts, connection.ts).                                          *)
(*                                                                            *)
(* The engine is modelled by what it publishes: units on a line move, change, *)
(* die and spawn; what the player sees is remembered; deltas, checkpoints,    *)
(* content and world resets are written step by step.                         *)
EXTENDS Naturals, FiniteSets, SequencesExt

CONSTANTS
  None,        \* no value (a null, where one is sent)
  Own,         \* the player's unit
  Others,      \* units of others
  Places,      \* where each unit can be
  Ranges,      \* sensor range under each content revision
  FarSight,    \* the range at which the units of others can be seen anyway
  Start,       \* where each unit starts
  Gain,        \* what the technology adds to a sensor's range
  Retained,    \* units whose type stays on the map when lost from sight
  Research,    \* may the technology be researched
  MaxEvents,   \* deltas and reset markers in a behaviour
  MaxRuns,     \* runs of the world
  MaxTroubles, \* lost connections, refusals, failed handshakes, stalls, ...
  MaxWire,     \* messages written and not yet delivered
  MaxCalls     \* handshakes not yet answered

Units == {Own} \cup Others
Revisions == DOMAIN Ranges

ASSUME StreamAssumption ==
  /\ Own \notin Others /\ Retained \subseteq Others
  /\ Places \in [Units -> SUBSET Nat] /\ \A u \in Units : Start[u] \in Places[u]
  /\ DOMAIN Start = Units /\ None \notin Nat
  /\ Ranges \in Seq(Nat) /\ Ranges # <<>>
  /\ FarSight \in Nat /\ Gain \in Nat /\ Research \in BOOLEAN
  /\ MaxEvents \in Nat /\ MaxRuns \in Nat \ {0} /\ MaxTroubles \in Nat
  /\ MaxWire \in Nat \ {0} /\ MaxCalls \in Nat \ {0}

VARIABLES
  world,   \* the engine: run, units, what the player remembers and sees, technology
  redis,   \* what it publishes: events, checkpoint, runtime, content, life sign, joins
  phase,   \* how far a world reset has got
  srv,     \* the stream route's connection
  wire,    \* messages on their way to the browser
  ui,      \* the bridge and the browser's world
  troubles

vars == <<world, redis, phase, srv, wire, ui, troubles>>

Empty == <<>>
Without(f, S) == Restrict(f, DOMAIN f \ S)
Over(f, g) == [x \in DOMAIN f \cup DOMAIN g |-> IF x \in DOMAIN f THEN f[x] ELSE g[x]]

-----------------------------------------------------------------------------
(* Sight. A unit within a sensor's range shows its stock too; one that can be *)
(* seen from afar shows where it is.                                          *)

Distance(a, b) == IF a < b THEN b - a ELSE a - b
Reach(r, unit) == IF unit = Own \/ r > FarSight THEN r ELSE FarSight

\* Of a unit of another world a filter may hold a part only.
Placed(units) == {u \in DOMAIN units : "pos" \in DOMAIN units[u]}

\* A unit with a range of zero has no sensor, whatever can be seen from afar.
InRange(units, r, pos, reach) ==
  r > 0 /\ Own \in Placed(units) /\ Distance(units[Own].pos, pos) <= reach

WithinSensors(units, r) == {u \in Placed(units) : InRange(units, r, units[u].pos, r)}
Visible(units, r) ==
  {u \in DOMAIN units :
     u = Own \/ (u \in Placed(units) /\ InRange(units, r, units[u].pos, Reach(r, u)))}

(* The range the engine grants, and the one the stream's filter knows of.     *)
EngineRange(w, content) == Ranges[content] + (IF w.tech THEN Gain ELSE 0)
FilterRange(content) == Ranges[content]

-----------------------------------------------------------------------------
(* The engine's tick: what the player knows, and the delta.                   *)

(* A destroyed unit is forgotten by who owned it, saw it or could see it die. *)
Witnessed(w, r, u) ==
  u = Own \/ u \in w.sees \/ InRange(w.units, r, w.units[u].pos, Reach(r, u))

Observe(w, r, dead) ==
  LET seen == Visible(w.units, r)
      kept == Without(w.memory, dead)
      memory == Over([u \in seen |-> w.units[u].pos], kept)
      empty == {u \in DOMAIN memory \ seen : InRange(w.units, r, memory[u], Reach(r, u))}
      changed == {u \in seen : u \notin w.sees \/ u \notin DOMAIN kept \/ kept[u] # memory[u]}
      watched == (w.sees \cap DOMAIN kept) \ seen
  IN IF Own \notin DOMAIN w.units
     THEN [memory |-> kept, sees |-> {}, dirty |-> watched, lost |-> DOMAIN w.memory \cap dead]
     ELSE [memory |-> Without(memory, empty), sees |-> seen,
           dirty |-> changed \cup (watched \ empty),
           lost |-> (DOMAIN w.memory \cap dead) \cup empty]

(* Only the fields that changed are sent, everything of a new unit.           *)
Patch(old, new) == Restrict(new, {f \in DOMAIN new : old[f] # new[f]})
Changes(old, new) ==
  LET touched == {u \in DOMAIN new : u \notin DOMAIN old \/ old[u] # new[u]}
  IN [u \in touched |-> IF u \in DOMAIN old THEN Patch(old[u], new[u]) ELSE new[u]]

-----------------------------------------------------------------------------
(* The stream's filter, which lives as long as the connection.                *)

ForClient(unit, within) == IF within \/ "stock" \notin DOMAIN unit THEN unit
                           ELSE [unit EXCEPT !.stock = None]

FilterSnapshot(s, snap) ==
  LET vis == Visible(snap.units, FilterRange(s.content))
      near == WithinSensors(snap.units, FilterRange(s.content))
  IN [state |-> [s EXCEPT !.units = snap.units, !.visible = vis, !.near = near, !.dirty = FALSE,
                          !.looked = s.content],
      sends |-> [kind |-> "snapshot", run |-> snap.run, memory |-> snap.memory,
                 units |-> [u \in vis |-> ForClient(snap.units[u], u \in near)]]]

\* Mutant: content adopted on the way does not make the filter look again.
LooksAgainStale(s, d) == DOMAIN d.updates # {} \/ d.gone # {}

LooksAgain(s, d) == s.dirty \/ DOMAIN d.updates # {} \/ d.gone # {}

FilterDelta(s, d) ==
  LET update(u) == IF u \in DOMAIN d.updates THEN d.updates[u] ELSE Empty
      merged(u) == IF u \in DOMAIN s.units THEN Over(update(u), s.units[u]) ELSE update(u)
      units == Over([u \in DOMAIN d.updates |-> merged(u)], Without(s.units, d.gone))
      vis   == IF LooksAgain(s, d) THEN Visible(units, FilterRange(s.content)) ELSE s.visible
      near  == IF LooksAgain(s, d) THEN WithinSensors(units, FilterRange(s.content)) ELSE s.near
      stay  == vis \cap s.visible
      turns == {u \in stay : "stock" \in DOMAIN units[u] /\ (u \in near) # (u \in s.near)}
      sent(u) == IF u \in turns /\ u \in near THEN Over([stock |-> units[u].stock], update(u))
                 ELSE IF u \in turns THEN Over([stock |-> None], update(u))
                 ELSE ForClient(update(u), u \in near)
  IN [state |-> [s EXCEPT !.units = units, !.visible = vis, !.near = near, !.dirty = FALSE,
                          !.looked = s.content],
      sends |-> [kind |-> "delta", run |-> d.run, memory |-> d.memory, lost |-> d.lost,
                 gone |-> d.gone \cap s.visible, hidden |-> (s.visible \ vis) \cap DOMAIN units,
                 units |-> Over([u \in vis \ s.visible |-> ForClient(units[u], u \in near)],
                                [u \in stay \cap (DOMAIN d.updates \cup turns) |-> sent(u)])]]

(* Nothing is written when nothing is left for this player.                   *)
Silent(m) == /\ m.kind = "delta" /\ m.gone = {} /\ m.hidden = {} /\ m.lost = {}
             /\ DOMAIN m.units = {} /\ DOMAIN m.memory = {}

(* Events in order through the filter; the marker of a reset passes as it is. *)
Pass(acc, e) ==
  IF e.kind = "reset" THEN [acc EXCEPT !.out = Append(@, e)]
  ELSE LET f == FilterDelta(acc.state, e) IN
       [state |-> f.state, out |-> IF Silent(f.sends) THEN acc.out ELSE Append(acc.out, f.sends)]

Emit(s, batch) ==
  LET after[n \in 0..Len(batch)] ==
        IF n = 0 THEN [state |-> s, out |-> <<>>] ELSE Pass(after[n - 1], batch[n])
  IN after[Len(batch)]

-----------------------------------------------------------------------------
(* The browser's world.                                                       *)

(* A unit in view stays as it is, unless it is being hidden; the others are   *)
(* shown where they were last seen, or not at all.                            *)
SyncMemory(view, memory, units, hidden, r) ==
  LET stays == {u \in units \cap DOMAIN view : view[u].live /\ ~hidden}
      shown == {u \in units \ stays : u \in DOMAIN memory /\ u \in Retained}
  IN Over([u \in shown |-> [live |-> FALSE, of |-> r, pos |-> memory[u]]], Without(view, units \ stays))

Sightings(memory) == Without(memory, {Own})
Seen(unit, r) == Over(unit, [live |-> TRUE, of |-> r])

ApplySnapshot(c, m) ==
  LET memory == Sightings(m.memory)
      view == [u \in DOMAIN m.units |-> Seen(m.units[u], m.run)]
  IN [c EXCEPT !.run = m.run, !.memory = memory, !.snap = TRUE,
               !.view = SyncMemory(view, memory, DOMAIN memory, FALSE, m.run),
               !.calls = [i \in DOMAIN @ |-> [@[i] EXCEPT !.fresh = FALSE]]]

ApplyDelta(c, m) ==
  LET known  == Without(Over(Sightings(m.memory), c.memory), m.lost)
      memory == Without(known, m.gone)
      v1 == SyncMemory(c.view, known, m.lost, FALSE, c.run)
      v2 == Without(SyncMemory(v1, memory, m.hidden, TRUE, c.run), m.gone)
      v3 == Over([u \in DOMAIN m.units |-> LET seen == Seen(m.units[u], m.run) IN
                                            IF u \in DOMAIN v2 THEN Over(seen, v2[u]) ELSE seen], v2)
  IN [c EXCEPT !.memory = memory,
               !.view = SyncMemory(v3, memory, DOMAIN m.memory, FALSE, c.run)]

-----------------------------------------------------------------------------
(* The connection as the browser sees it.                                     *)

Disconnect(c) == [c EXCEPT !.snap = FALSE, !.rec = "no", !.health = "never"]

(* The bridge's effect is taken down and set up again.                        *)
Remount(c) == [Disconnect(c) EXCEPT !.es = "connecting", !.view = Empty, !.memory = Empty,
                                    !.calls = <<>>, !.retry = FALSE]

(* Live: a snapshot, a handshake, and a sign of life not too long ago.        *)
Live == ui.snap /\ ui.rec # "no" /\ ui.health = "recent"

NoStream == [pc |-> "off", content |-> 1, told |-> None, prev |-> None, read |-> None, cursor |-> 0,
             batch |-> <<>>, units |-> Empty, visible |-> {}, near |-> {}, dirty |-> FALSE,
             looked |-> 1]

Fresh(r) == [run |-> r, tech |-> FALSE, joined |-> FALSE, memory |-> Empty, sees |-> {},
             units |-> [u \in Others |-> [pos |-> Start[u], stock |-> 1]]]

Saved(w, at) == [run |-> w.run, units |-> w.units, memory |-> w.memory, at |-> at]

Init ==
  /\ world = Fresh(1) /\ phase = "idle"
  /\ redis = [events |-> <<>>, saved |-> Saved(Fresh(1), 0), run |-> 1, content |-> 1, alive |-> 1,
              asked |-> FALSE, pushing |-> FALSE, pending |-> FALSE]
  /\ srv = NoStream /\ wire = <<>> /\ troubles = 0
  /\ ui = [es |-> "connecting", run |-> None, view |-> Empty, memory |-> Empty, calls |-> <<>>,
           retry |-> FALSE, snap |-> FALSE, rec |-> "no", health |-> "never"]

Mishap == troubles < MaxTroubles /\ troubles' = troubles + 1

-----------------------------------------------------------------------------
(* The engine.                                                                *)

Publish(next, dead) ==
  LET r == EngineRange(next, redis.content)
      witnessed == {u \in dead : Witnessed(world, r, u)}
      know == Observe([next EXCEPT !.sees = @ \ witnessed], r, witnessed)
      changes == Changes(world.units, next.units)
      delta == [kind |-> "delta", run |-> world.run, updates |-> changes,
                gone |-> DOMAIN world.units \ DOMAIN next.units, lost |-> know.lost,
                memory |-> Restrict(know.memory, know.dirty)]
      empty == /\ delta.gone = {} /\ delta.lost = {} /\ DOMAIN changes = {} /\ know.dirty = {}
               /\ next.tech = world.tech
  IN /\ world' = [next EXCEPT !.memory = know.memory, !.sees = know.sees,
                              !.joined = @ \/ Own \in DOMAIN next.units]
     /\ redis' = [redis EXCEPT !.events = IF empty THEN @ ELSE Append(@, delta),
                               !.pending = @ /\ ~world.joined /\ Own \notin DOMAIN next.units]

Ticks ==
  /\ phase = "idle" /\ Len(redis.events) < MaxEvents
  /\ UNCHANGED <<phase, srv, wire, ui, troubles>>
Quiet == Ticks /\ Publish(world, {})
Move ==
  /\ Ticks
  /\ \E u \in DOMAIN world.units : \E c \in Places[u] :
       Publish([world EXCEPT !.units[u].pos = c], {})
Mine ==
  /\ Ticks
  /\ \E u \in Others \cap DOMAIN world.units : Publish([world EXCEPT !.units[u].stock = 0], {})
Die ==
  /\ Ticks
  /\ \E u \in DOMAIN world.units : Publish([world EXCEPT !.units = Without(@, {u})], {u})
Researched ==
  /\ Ticks /\ Research /\ Own \in DOMAIN world.units /\ ~world.tech
  /\ Publish([world EXCEPT !.tech = TRUE], {})
Spawn ==
  /\ Ticks /\ redis.pending /\ ~world.joined
  /\ Publish([world EXCEPT !.units = Over([u \in {Own} |-> [pos |-> Start[u], stock |-> 0]], @)], {})

Checkpoint ==
  /\ phase = "idle" /\ redis.saved # Saved(world, Len(redis.events))
  /\ redis' = [redis EXCEPT !.saved = Saved(world, Len(redis.events))]
  /\ UNCHANGED <<world, phase, srv, wire, ui, troubles>>

AcceptContent ==
  /\ phase = "idle" /\ redis.content < Len(Ranges)
  /\ redis' = [redis EXCEPT !.content = @ + 1]
  /\ UNCHANGED <<world, phase, srv, wire, ui, troubles>>

(* Another world: its checkpoint, its run, the marker, and a checkpoint that  *)
(* begins after the marker.                                                   *)
Reset ==
  /\ phase = "idle" /\ world.run < MaxRuns /\ Len(redis.events) < MaxEvents
  /\ world' = Fresh(world.run + 1) /\ phase' = "runtime"
  /\ redis' = [redis EXCEPT !.asked = FALSE, !.pending = FALSE,
                            !.saved = Saved(Fresh(world.run + 1), Len(redis.events))]
  /\ UNCHANGED <<srv, wire, ui, troubles>>

ResetGoesOn ==
  /\ phase \in {"runtime", "marker", "again"}
  /\ \/ /\ phase = "runtime" /\ phase' = "marker"
        /\ redis' = [redis EXCEPT !.run = world.run]
     \/ /\ phase = "marker" /\ phase' = "again"
        /\ redis' = [redis EXCEPT !.events = Append(@, [kind |-> "reset", run |-> world.run])]
     \/ /\ phase = "again" /\ phase' = "idle"
        /\ redis' = [redis EXCEPT !.saved = Saved(world, Len(redis.events))]
  /\ UNCHANGED <<world, srv, wire, ui, troubles>>

(* The sign of life names the run, and lapses when the engine is held up.     *)
Heartbeat ==
  /\ phase = "idle" /\ redis.alive # world.run
  /\ redis' = [redis EXCEPT !.alive = world.run]
  /\ UNCHANGED <<world, phase, srv, wire, ui, troubles>>

Stall ==
  /\ phase = "idle" /\ Mishap
  /\ phase' = "down" /\ redis' = [redis EXCEPT !.alive = None]
  /\ UNCHANGED <<world, srv, wire, ui>>

Recover ==
  /\ phase = "down" /\ phase' = "idle"
  /\ UNCHANGED <<world, redis, srv, wire, ui, troubles>>

-----------------------------------------------------------------------------
(* The stream route.                                                          *)

At(pc) == srv.pc = pc /\ UNCHANGED <<world, phase, ui, troubles>>

(* The run and the content are read before the checkpoint, which may be read   *)
(* again. The route reads them one after the other; here they are one step.    *)
ReadCheckpoint ==
  /\ \/ At("start") /\ srv' = [srv EXCEPT !.pc = "label", !.read = redis.saved,
                                         !.content = redis.content, !.prev = redis.run]
     \/ At("boot") /\ srv' = [srv EXCEPT !.pc = "label", !.read = redis.saved]
  /\ UNCHANGED <<redis, wire>>

(* A checkpoint of another run than the current one is read again.            *)
SendSnapshot ==
  /\ At("label")
  /\ IF srv.read.run # redis.run
     THEN srv' = [srv EXCEPT !.pc = "boot", !.read = None] /\ UNCHANGED wire
     ELSE LET f == FilterSnapshot(srv, srv.read) IN
          /\ srv' = [f.state EXCEPT !.pc = "gap", !.cursor = srv.read.at, !.read = None]
          /\ wire' = Append(wire, f.sends)
  /\ UNCHANGED redis

After(cursor) == SubSeq(redis.events, cursor + 1, Len(redis.events))

CatchUp ==
  /\ At("gap")
  /\ LET e == Emit(srv, After(srv.cursor)) IN
     /\ srv' = [e.state EXCEPT !.pc = "join", !.cursor = Len(redis.events)]
     /\ wire' = wire \o e.out
  /\ UNCHANGED redis

(* Only a revision not announced on this connection makes the filter look again. *)
Announce(s) == IF s.told = redis.content THEN s
               ELSE [s EXCEPT !.told = redis.content, !.content = redis.content, !.dirty = TRUE]

(* The player asks to join once per run, after the cursor is set: first the   *)
(* mark that it asked, then the request.                                      *)
AskToJoin ==
  /\ At("join")
  /\ srv' = [Announce(srv) EXCEPT !.pc = "live"]
  /\ redis' = [redis EXCEPT !.asked = TRUE, !.pushing = @ \/ ~redis.asked]
  /\ UNCHANGED wire

QueueJoin ==
  /\ redis.pushing
  /\ redis' = [redis EXCEPT !.pushing = FALSE, !.pending = TRUE]
  /\ UNCHANGED <<world, phase, srv, wire, ui, troubles>>

(* The request fails after the mark was set: the stream ends, the mark stays. *)
QueueJoinFails ==
  /\ redis.pushing /\ Mishap
  /\ redis' = [redis EXCEPT !.pushing = FALSE]
  /\ srv' = IF srv.pc = "live" THEN [NoStream EXCEPT !.pc = "ended"] ELSE srv
  /\ UNCHANGED <<world, phase, wire, ui>>

ReadEvents ==
  /\ At("live") /\ Len(wire) < MaxWire
  /\ srv' = [srv EXCEPT !.pc = "check", !.batch = After(srv.cursor)]
  /\ UNCHANGED <<redis, wire>>

(* What was read is sent after a look at the content, the run and the engine. *)
CheckAndSend ==
  /\ At("check")
  /\ LET s == Announce(srv)
         healthy == redis.alive = redis.run
         health == [kind |-> "health", ok |-> healthy, run |-> redis.run]
         e == Emit(s, srv.batch)
     IN IF redis.run # srv.prev
        THEN /\ srv' = [NoStream EXCEPT !.pc = "ended"]
             /\ wire' = Append(wire, [kind |-> "reset", run |-> redis.run])
        ELSE IF ~healthy
        THEN /\ srv' = [NoStream EXCEPT !.pc = "ended"] /\ wire' = Append(wire, health)
        ELSE /\ srv' = [e.state EXCEPT !.pc = "live", !.batch = <<>>,
                                       !.cursor = srv.cursor + Len(srv.batch)]
             /\ wire' = Append(wire, health) \o e.out
  /\ UNCHANGED redis

-----------------------------------------------------------------------------
(* The bridge.                                                                *)

Bridge == UNCHANGED <<world, redis, phase>>

(* Every open starts over and asks where the player's orders stand.           *)
Opens ==
  /\ Bridge /\ ui.es = "connecting" /\ Len(ui.calls) < MaxCalls
  /\ srv' = [NoStream EXCEPT !.pc = "start"] /\ wire' = <<>>
  /\ ui' = [Disconnect(ui) EXCEPT !.es = "open",
              !.calls = Append([i \in DOMAIN @ |-> [@[i] EXCEPT !.own = FALSE]],
                               [own |-> TRUE, fresh |-> TRUE, again |-> TRUE])]
  /\ UNCHANGED troubles

(* The connection is lost, with what was on its way; EventSource opens again. *)
Breaks ==
  /\ Bridge /\ ui.es = "open" /\ Mishap
  /\ srv' = NoStream /\ wire' = <<>>
  /\ ui' = [Disconnect(ui) EXCEPT !.es = "connecting"]

StreamEnds ==
  /\ Bridge /\ ui.es = "open" /\ srv.pc = "ended" /\ wire = <<>>
  /\ srv' = NoStream /\ ui' = [Disconnect(ui) EXCEPT !.es = "connecting"]
  /\ UNCHANGED <<wire, troubles>>

(* An answer that is an error ends an EventSource for good.                   *)
Refused ==
  /\ Bridge /\ ui.es = "connecting" /\ Mishap
  /\ ui' = [Disconnect(ui) EXCEPT !.es = "failed"]
  /\ UNCHANGED <<srv, wire>>

TakeDown(c) == ui' = Remount(c) /\ srv' = NoStream /\ wire' = <<>>

\* Mutant: the marker of another run leaves the stream open.
OnResetStays(m) == ui' = [ui EXCEPT !.memory = Empty] /\ wire' = Tail(wire) /\ UNCHANGED srv

OnReset(m) ==
  IF m.run = ui.run THEN wire' = Tail(wire) /\ UNCHANGED <<ui, srv>> ELSE TakeDown(ui)

(* A sign of life after a silence: the world shown may be old, start over.    *)
OnHealth(m) ==
  LET healthy == m.ok /\ m.run = ui.run IN
  IF healthy /\ ui.health = "old" THEN TakeDown(ui)
  ELSE /\ ui' = [ui EXCEPT !.health = IF healthy THEN "recent" ELSE "never"]
       /\ wire' = Tail(wire) /\ UNCHANGED srv

Deliver ==
  /\ Bridge /\ ui.es = "open" /\ wire # <<>> /\ UNCHANGED troubles
  /\ LET m == Head(wire) IN
     \/ /\ m.kind = "snapshot" /\ ui' = ApplySnapshot(ui, m) /\ wire' = Tail(wire) /\ UNCHANGED srv
     \/ /\ m.kind = "delta" /\ ui' = ApplyDelta(ui, m) /\ wire' = Tail(wire) /\ UNCHANGED srv
     \/ m.kind = "reset" /\ OnReset(m)
     \/ m.kind = "health" /\ OnHealth(m)

Lapses ==
  /\ Bridge /\ ui.health = "recent" /\ Mishap
  /\ ui' = [ui EXCEPT !.health = "old"]
  /\ UNCHANGED <<srv, wire>>

Answered(i) == [ui EXCEPT !.calls = RemoveAt(@, i)]

\* Mutant: a handshake that failed is not tried again.
TryAgainNever(c) == c

TryAgain(c) == [c EXCEPT !.retry = TRUE]

(* An answer given before a snapshot is asked for once more; on any open      *)
(* stream an answer counts, whichever opening asked for it.                   *)
HandshakeAnswered ==
  /\ Bridge /\ UNCHANGED <<srv, wire, troubles>>
  /\ \E i \in DOMAIN ui.calls :
       LET call == ui.calls[i] IN
       \/ /\ ~call.fresh /\ call.again
          /\ ui' = [ui EXCEPT !.calls[i].fresh = TRUE, !.calls[i].again = FALSE]
       \/ /\ ~call.fresh /\ ~call.again /\ ui' = TryAgain(Answered(i))
       \/ /\ call.fresh
          /\ ui' = CASE ui.es = "open" -> [Answered(i) EXCEPT !.rec = IF call.own THEN "own" ELSE "late"]
                     [] ui.es = "connecting" -> Answered(i)
                     [] ui.es = "failed" -> TryAgain(Answered(i))

HandshakeFails ==
  /\ Bridge /\ Mishap /\ UNCHANGED <<srv, wire>>
  /\ \E i \in DOMAIN ui.calls : ui' = TryAgain(Answered(i))

RetryFires ==
  /\ Bridge /\ ui.retry /\ UNCHANGED troubles
  /\ IF ui.es = "open" THEN TakeDown([ui EXCEPT !.retry = FALSE])
     ELSE ui' = [ui EXCEPT !.retry = FALSE] /\ UNCHANGED <<srv, wire>>

-----------------------------------------------------------------------------
Engine == Quiet \/ Move \/ Mine \/ Die \/ Spawn \/ Checkpoint \/ AcceptContent \/ Researched
Running == Reset \/ ResetGoesOn \/ Heartbeat \/ Stall \/ Recover
Route == ReadCheckpoint \/ SendSnapshot \/ CatchUp \/ AskToJoin \/ QueueJoin
         \/ ReadEvents \/ CheckAndSend
Follow == Opens \/ StreamEnds \/ Deliver \/ HandshakeAnswered \/ RetryFires
Trouble == Breaks \/ Refused \/ Lapses \/ HandshakeFails \/ QueueJoinFails

Next == Engine \/ Running \/ Route \/ Follow \/ Trouble

(* The server's loops, the browser's event loop and timers keep going; the    *)
(* engine completes a reset, comes back, and gives its sign of life.          *)
Fairness ==
  /\ WF_vars(ResetGoesOn) /\ WF_vars(Heartbeat) /\ WF_vars(Recover) /\ WF_vars(Route)
  /\ WF_vars(Opens) /\ WF_vars(StreamEnds) /\ WF_vars(Deliver)
  /\ WF_vars(HandshakeAnswered) /\ WF_vars(RetryFires)

Spec == Init /\ [][Next]_vars /\ Fairness

-----------------------------------------------------------------------------
(* Nothing is on its way and nothing is left to send.                         *)
AtRest ==
  /\ phase = "idle" /\ wire = <<>> /\ ui.es = "open" /\ ui.snap
  /\ srv.pc = "live" /\ srv.cursor = Len(redis.events) /\ srv.prev = redis.run
  /\ srv.looked = redis.content

View(w, r) ==
  LET vis == Visible(w.units, r) IN
  Over([u \in vis |-> Seen(ForClient(w.units[u], u \in WithinSensors(w.units, r)), w.run)],
       [u \in (DOMAIN w.memory \cap Retained) \ vis |->
          [live |-> FALSE, of |-> w.run, pos |-> w.memory[u]]])

(* ViewIsTruth: once everything sent has arrived, the browser shows exactly   *)
(* what the engine says the player sees, with its values, and the rest where  *)
(* the player last saw it (what filterDelta leaves out is nothing the player  *)
(* should have: visibility.ts, applyDelta). After other content was accepted  *)
(* it may have forgotten some of the dead: the filter may have looked at a    *)
(* death with a later revision's sensors than the engine.                     *)
ViewIsTruth == AtRest /\ ~world.tech =>
  \E forgotten \in SUBSET (DOMAIN world.memory \ DOMAIN world.units) :
    /\ redis.content = 1 => forgotten = {}
    /\ ui.view = Without(View(world, EngineRange(world, redis.content)), forgotten)

(* OneRunShown: the browser never mixes units of two runs of the world        *)
(* (bootstrap.ts compares runs, onWorldReset closes the stream).              *)
OneRunShown == \A u \in DOMAIN ui.view : ui.view[u].of = ui.run
=============================================================================
