---------------------------- MODULE IntentEngine ----------------------------
(***************************************************************************)
(* The order pipeline of the RTS engine: the web route appends command     *)
(* envelopes to a Redis stream, the engine's single tick task reads them,  *)
(* admits each by client sequence and dedupe key, activates it in the      *)
(* entity's one action slot, mirrors the slot to the Redis tracking hash,  *)
(* publishes lifecycle events, and now and then saves a snapshot.  Redis   *)
(* outlives the engine; the engine's memory does not.                      *)
(*                                                                         *)
(* The handler awaits Redis between its effects, so it is one action per   *)
(* awaited call: the process may die, or the call may fail, at each.       *)
(***************************************************************************)
EXTENDS Integers, FiniteSets

CONSTANTS
  Players, Entities, Cmds,   \* owners, units, client command UUIDs
  Seqs,                      \* client_seq values clients send
  Payload,                   \* what each command asks: it never changes on a resend
  Owner,                     \* owner_player_id of each entity
  MaxPosts, MaxDeltas,       \* bounds on the two Redis streams
  MaxCrashes, MaxFaults,     \* bounds on engine deaths and failed Redis calls
  None

(***************************************************************************)
(* Kinds group the payloads by what the engine does with them:             *)
(*   move       checkpointed in the snapshot with its route                *)
(*   standing   collect, build, upgrade, research, transport, resupply:    *)
(*              rebuilt from the tracking hash                             *)
(*   transient  attack, repair, one-trip deliver: dropped by a restart     *)
(*   instant    jettison, assign depot: done inside the handler            *)
(*   destruct   self-destruct: kills its entity inside the handler         *)
(*   malformed  bad UUID or protocol: refused before it is sequenced       *)
(***************************************************************************)
Kinds    == {"move", "standing", "transient", "instant", "destruct", "malformed"}
Lasting  == {"move", "standing", "transient"}
Refusals == {"invalid", "out_of_order", "duplicate", "busy"}
Endings  == {"finished", "canceled"}
States   == {"received", "accepted", "in_progress"} \cup Endings \cup Refusals

ASSUME EngineAssumption ==
  /\ Payload \in [Cmds -> [player : Players, entity : Entities, kind : Kinds,
                           policy : {"replace", "append"}]]
  /\ Owner \in [Entities -> Players]
  /\ Seqs \subseteq Nat
  /\ {MaxPosts, MaxDeltas, MaxCrashes, MaxFaults} \subseteq Nat

(* IntentMetadata: the fresh intent_id and the command; seq and entry say   *)
(* which envelope it came from, for the properties.                         *)
Order == [id : Nat, cmd : Cmds, seq : Seqs, entry : Nat]

ASSUME NoneAssumption == None \notin Order \cup [entity : Entities, order : Order, state : Endings]

VARIABLES
  clock,      \* last Redis stream id given out, over both streams
  stream,     \* rts:match:{id}:intents
  seqKey,     \* hash of persisted player sequences
  cmdKey,     \* live dedupe keys
  tracking,   \* hash of active intents
  snapshot,   \* latest snapshot and its boundary
  events,     \* lifecycle events published
  pc,         \* the engine task's next await
  batch, handling, prior, ending,   \* locals of the tick and of its handlers
  cursor, lastSeq, current, alive, lastDelta,   \* Engine fields
  minted, expired, crashes, faults  \* ids used; history and bounds

ids    == <<clock, stream>>
keys   == <<seqKey, cmdKey>>
book   == <<tracking, snapshot>>
locals == <<batch, handling, prior, ending>>
fields == <<cursor, lastSeq, current, alive, lastDelta>>
ghosts == <<minted, expired, crashes, faults>>
vars   == <<ids, keys, book, events, pc, locals, fields, ghosts>>

Kind(o)   == Payload[o.cmd].kind
Player(o) == Payload[o.cmd].player
Target(o) == Payload[o.cmd].entity
Idle      == [e \in Entities |-> None]

Init ==
  /\ clock = 0 /\ stream = {}
  /\ seqKey = [p \in Players |-> 0] /\ cmdKey = {}
  /\ tracking = Idle
  /\ snapshot = [alive |-> Entities, moves |-> Idle, boundary |-> 0]
  /\ events = {}
  /\ pc = "idle" /\ batch = {} /\ handling = None /\ prior = None /\ ending = None
  /\ cursor = 0 /\ lastSeq = [p \in Players |-> 0]
  /\ current = Idle /\ alive = Entities /\ lastDelta = 0
  /\ minted = 0 /\ expired = {} /\ crashes = 0 /\ faults = 0

-----------------------------------------------------------------------------
(* The web route and Redis, which run whatever the engine is doing.         *)

Post(c, s) ==
  /\ Cardinality(stream) < MaxPosts
  /\ clock' = clock + 1
  /\ stream' = stream \cup {[id |-> clock + 1, cmd |-> c, seq |-> s]}
  /\ UNCHANGED <<keys, book, events, pc, locals, fields, ghosts>>

(* The dedupe key's TTL runs out.                                           *)
Expire(c) ==
  /\ c \in cmdKey
  /\ cmdKey' = cmdKey \ {c}
  /\ expired' = expired \cup {c}
  /\ UNCHANGED <<ids, seqKey, book, events, pc, locals, fields, minted, crashes, faults>>

-----------------------------------------------------------------------------
(* Phase B of the tick: read a batch, handle its entries in stream order.   *)

Publish(o, s) == events' = events \cup {[order |-> o, state |-> s]}

EndEntrySkipsBatch ==
  /\ \E x \in batch : (\A y \in batch : y.id <= x.id) /\ cursor' = x.id
  /\ batch' = {}
  /\ handling' = None /\ prior' = None
  /\ pc' = "ingest"
  /\ UNCHANGED <<ending, lastSeq, lastDelta>>

(* process_raw_intent returned, Ok or Err: the cursor passes the entry.     *)
EndEntry ==
  /\ cursor' = handling.entry
  /\ batch' = {x \in batch : x.id # handling.entry}
  /\ handling' = None /\ prior' = None
  /\ pc' = "ingest"
  /\ UNCHANGED <<ending, lastSeq, lastDelta>>

ReadIntents ==
  /\ pc = "idle"
  /\ batch' = {x \in stream : x.id > cursor}
  /\ pc' = "ingest"
  /\ UNCHANGED <<ids, keys, book, events, handling, prior, ending, fields, ghosts>>

(* The route leaves intent_id empty: each handling mints a fresh one.       *)
TakeEntry ==
  /\ pc = "ingest"
  /\ \E x \in batch :
       /\ \A y \in batch : x.id <= y.id
       /\ handling' = [id |-> minted + 1, cmd |-> x.cmd, seq |-> x.seq, entry |-> x.id]
  /\ minted' = minted + 1
  /\ pc' = "receive"
  /\ UNCHANGED <<ids, keys, book, events, batch, prior, ending, fields, expired, crashes, faults>>

Receive ==
  /\ pc = "receive"
  /\ Publish(handling, "received")
  /\ pc' = "check"
  /\ UNCHANGED <<ids, keys, book, locals, fields, ghosts>>

(* The batch is done, or max_cmds_per_tick or max_batch_ms was reached.     *)
LeaveIngest ==
  /\ pc = "ingest"
  /\ batch' = {} /\ pc' = "act"
  /\ UNCHANGED <<ids, keys, book, events, handling, prior, ending, fields, ghosts>>

Refuse(why) ==
  /\ Publish(handling, why)
  /\ EndEntry
  /\ UNCHANGED <<ids, keys, book, current, alive, ghosts>>

(* Faulty variants, like this one, precede the definition they break.       *)
NeverDuplicate == FALSE

Malformed  == Kind(handling) = "malformed"
OutOfOrder == handling.seq > 0 /\ handling.seq <= lastSeq[Player(handling)]
Duplicate  == handling.cmd \in cmdKey

Check ==
  /\ pc = "check"
  /\ \/ Malformed /\ Refuse("invalid")
     \/ ~Malformed /\ OutOfOrder /\ Refuse("out_of_order")
     \/ ~Malformed /\ ~OutOfOrder /\ Duplicate /\ Refuse("duplicate")

(* player_last_seq is updated in memory, then awaited into Redis.           *)
Admit ==
  /\ pc = "check" /\ ~Malformed /\ ~OutOfOrder /\ ~Duplicate
  /\ IF handling.seq > 0
       THEN lastSeq' = [lastSeq EXCEPT ![Player(handling)] = handling.seq] /\ pc' = "seq"
       ELSE lastSeq' = lastSeq /\ pc' = "store"
  /\ UNCHANGED <<ids, keys, book, events, locals, cursor, current, alive, lastDelta, ghosts>>

PersistSeqNowhere ==
  /\ pc = "seq" /\ pc' = "store"
  /\ UNCHANGED <<ids, keys, book, events, locals, fields, ghosts>>

PersistSeq ==
  /\ pc = "seq"
  /\ seqKey' = [seqKey EXCEPT ![Player(handling)] = handling.seq]
  /\ pc' = "store"
  /\ UNCHANGED <<ids, cmdKey, book, events, locals, fields, ghosts>>

StoreCmd ==
  /\ pc = "store"
  /\ cmdKey' = cmdKey \cup {handling.cmd}
  /\ pc' = "validate"
  /\ UNCHANGED <<ids, seqKey, book, events, locals, fields, ghosts>>

-----------------------------------------------------------------------------
(* Validation and try_activate: no await until the slot has changed.        *)

Controls == Target(handling) \in alive /\ Owner[Target(handling)] = Player(handling)
Slot     == current[Target(handling)]
Append   == Payload[handling.cmd].policy = "append"
(* An appended Move to an entity on a Move edits its route instead.         *)
Edits    == Kind(handling) = "move" /\ Append /\ Slot # None /\ Kind(Slot) = "move"

RefuseTarget == pc = "validate" /\ ~Controls /\ Refuse("invalid")

(* Content rules fail: some handlers say so, the others only return Err.    *)
FailContent ==
  /\ pc = "validate" /\ Controls /\ Kind(handling) # "destruct"
  /\ \/ Refuse("invalid")
     \/ /\ Kind(handling) \in {"standing", "transient"}
        /\ EndEntry
        /\ UNCHANGED <<ids, keys, book, events, current, alive, ghosts>>

RefuseBusy ==
  /\ pc = "validate" /\ Controls /\ Kind(handling) \in Lasting /\ Append /\ Slot # None
  /\ Refuse("busy")   \* for an edit: the route is at its limit

EditRoute ==
  /\ pc = "validate" /\ Controls /\ Edits
  /\ pc' = "instant"
  /\ UNCHANGED <<ids, keys, book, events, locals, fields, ghosts>>

DoInstant ==
  /\ pc = "validate" /\ Controls /\ Kind(handling) \in {"instant", "destruct"}
  /\ alive' = IF Kind(handling) = "destruct" THEN alive \ {Target(handling)} ELSE alive
  /\ pc' = "instant"
  /\ UNCHANGED <<ids, keys, book, events, locals, cursor, lastSeq, current, lastDelta, ghosts>>

StartAlwaysPreempts ==
  /\ pc = "validate" /\ Controls /\ Kind(handling) \in Lasting
  /\ Append => Slot = None
  /\ current' = [current EXCEPT ![Target(handling)] = handling]
  /\ prior' = Slot /\ pc' = "preempt"
  /\ UNCHANGED <<ids, keys, book, events, batch, handling, ending, cursor, lastSeq,
                 alive, lastDelta, ghosts>>

Start ==
  /\ pc = "validate" /\ Controls /\ Kind(handling) \in Lasting
  /\ Append => Slot = None
  /\ current' = [current EXCEPT ![Target(handling)] = handling]
  /\ prior' = Slot
  /\ pc' = IF Slot = None THEN "track" ELSE "preempt"
  /\ UNCHANGED <<ids, keys, book, events, batch, handling, ending, cursor, lastSeq,
                 alive, lastDelta, ghosts>>

PreemptKeepsTracking ==
  /\ pc = "preempt" /\ pc' = "interrupted"
  /\ UNCHANGED <<ids, keys, book, events, locals, fields, ghosts>>

Preempt ==
  /\ pc = "preempt"
  /\ tracking' = [tracking EXCEPT ![Target(handling)] = None]
  /\ pc' = "interrupted"
  /\ UNCHANGED <<ids, keys, snapshot, events, locals, fields, ghosts>>

Interrupted ==
  /\ pc = "interrupted"
  /\ Publish(prior, "canceled")
  /\ prior' = None /\ pc' = "track"
  /\ UNCHANGED <<ids, keys, book, batch, handling, ending, fields, ghosts>>

Track ==
  /\ pc = "track"
  /\ tracking' = [tracking EXCEPT ![Target(handling)] = handling]
  /\ pc' = "accept"
  /\ UNCHANGED <<ids, keys, snapshot, events, locals, fields, ghosts>>

Accept ==
  /\ pc = "accept"
  /\ Publish(handling, "accepted")
  /\ pc' = "progress"
  /\ UNCHANGED <<ids, keys, book, locals, fields, ghosts>>

Progress ==
  /\ pc = "progress"
  /\ Publish(handling, "in_progress")
  /\ EndEntry
  /\ UNCHANGED <<ids, keys, book, current, alive, ghosts>>

(* finish: the slot is emptied in memory before tracking and the event.     *)
Finish(e, s) ==
  /\ current[e] # None
  /\ ending' = [entity |-> e, order |-> current[e], state |-> s]
  /\ current' = [current EXCEPT ![e] = None]
  /\ pc' = "untrack"

AcceptInstant ==
  /\ pc = "instant"
  /\ Publish(handling, "accepted")
  /\ IF Kind(handling) = "destruct" /\ Slot # None
       THEN Finish(Target(handling), "canceled")
       ELSE pc' = "done" /\ UNCHANGED <<ending, current>>
  /\ UNCHANGED <<ids, keys, book, batch, handling, prior, cursor, lastSeq, alive,
                 lastDelta, ghosts>>

FinishInstant ==
  /\ pc = "done"
  /\ Publish(handling, "finished")
  /\ EndEntry
  /\ UNCHANGED <<ids, keys, book, current, alive, ghosts>>

-----------------------------------------------------------------------------
(* The rest of the tick: orders end, units die, the tick is published.      *)

(* The order arrived, completed, or lost what it was working on.            *)
Complete(e) ==
  /\ pc = "act"
  /\ \E s \in Endings : Finish(e, s)
  /\ UNCHANGED <<ids, keys, book, events, batch, handling, prior, cursor, lastSeq,
                 alive, lastDelta, ghosts>>

(* Combat or radiation removes the entity; cancel_destroyed_intents.        *)
Destroy(e) ==
  /\ pc = "act" /\ e \in alive
  /\ alive' = alive \ {e}
  /\ IF current[e] = None THEN UNCHANGED <<ending, current, pc>> ELSE Finish(e, "canceled")
  /\ UNCHANGED <<ids, keys, book, events, batch, handling, prior, cursor, lastSeq,
                 lastDelta, ghosts>>

UntrackNothing ==
  /\ pc = "untrack" /\ pc' = "announce"
  /\ UNCHANGED <<ids, keys, book, events, locals, fields, ghosts>>

Untrack ==
  /\ pc = "untrack"
  /\ tracking' = [tracking EXCEPT ![ending.entity] = None]
  /\ pc' = "announce"
  /\ UNCHANGED <<ids, keys, snapshot, events, locals, fields, ghosts>>

(* A death inside a self-destruct returns to that handler.                  *)
AfterEnding == IF handling = None THEN "act" ELSE "done"

Announce ==
  /\ pc = "announce"
  /\ Publish(ending.order, ending.state)
  /\ ending' = None /\ pc' = AfterEnding
  /\ UNCHANGED <<ids, keys, book, batch, handling, prior, fields, ghosts>>

(* Nothing is published when nothing changed, or when the XADD fails.       *)
PublishTick ==
  /\ pc = "act"
  /\ \/ UNCHANGED <<clock, lastDelta>>
     \/ /\ clock - Cardinality(stream) < MaxDeltas
        /\ clock' = clock + 1 /\ lastDelta' = clock + 1
  /\ pc' = "publish"
  /\ UNCHANGED <<stream, keys, book, events, locals, cursor, lastSeq, current, alive, ghosts>>

Checkpoint(cur, al, b) ==
  [alive |-> al, boundary |-> b,
   moves |-> [e \in Entities |-> IF cur[e] # None /\ Kind(cur[e]) = "move" THEN cur[e] ELSE None]]

(* Every snapshot_interval ticks: which ticks those are is left open.       *)
EndTick ==
  /\ pc = "publish"
  /\ \/ snapshot' = Checkpoint(current, alive, lastDelta)
     \/ snapshot' = snapshot
  /\ pc' = "idle"
  /\ UNCHANGED <<ids, keys, tracking, events, locals, fields, ghosts>>

-----------------------------------------------------------------------------
(* Failures.                                                                *)

(* A Redis call of the handler fails: `?` leaves the rest of it undone.     *)
FailHandler ==
  /\ pc \in {"receive", "check", "seq", "store", "preempt", "interrupted", "track", "accept",
             "progress", "instant", "done"}
  /\ EndEntry
  /\ UNCHANGED <<ids, keys, book, events, current, alive>>

(* Outside it the failure is only logged, and the next step is taken.       *)
FailEnding ==
  /\ \/ pc = "untrack" /\ pc' = "announce" /\ ending' = ending
     \/ pc = "announce" /\ pc' = AfterEnding /\ ending' = None
  /\ UNCHANGED <<ids, keys, book, events, batch, handling, prior, fields>>

Fault ==
  /\ faults < MaxFaults /\ faults' = faults + 1
  /\ FailHandler \/ FailEnding
  /\ UNCHANGED <<minted, expired, crashes>>

Crash ==
  /\ crashes < MaxCrashes /\ crashes' = crashes + 1
  /\ pc # "down" /\ pc' = "down"
  /\ batch' = {} /\ handling' = None /\ prior' = None /\ ending' = None
  /\ cursor' = 0 /\ lastSeq' = [p \in Players |-> 0]
  /\ current' = Idle /\ alive' = {} /\ lastDelta' = 0
  /\ UNCHANGED <<ids, keys, book, events, minted, expired, faults>>

(* The order a restart gives back to an entity: the tracked Move if it is   *)
(* the one in the snapshot, or a standing order, rebuilt from tracking.     *)
RestoredFromSnapshot(e) ==
  IF e \in snapshot.alive /\ snapshot.moves[e] # None THEN snapshot.moves[e]
  ELSE IF tracking[e] # None /\ Kind(tracking[e]) = "standing" THEN tracking[e] ELSE None

Restored(e) ==
  IF /\ tracking[e] # None /\ e \in snapshot.alive
     /\ \/ Kind(tracking[e]) = "standing"
        \/ Kind(tracking[e]) = "move" /\ snapshot.moves[e] = tracking[e]
  THEN tracking[e] ELSE None

(* Engine::new with RESTORE_GAMESTATE_ON_RESTART.  `lapsed` are standing    *)
(* orders that the content or the rolled-back world no longer allows.       *)
Restore ==
  /\ pc = "down"
  /\ \E lapsed \in SUBSET {e \in Entities : Restored(e) # None /\ Kind(Restored(e)) = "standing"} :
       current' = [e \in Entities |-> IF e \in lapsed THEN None ELSE Restored(e)]
  /\ tracking' = current'
  /\ alive' = snapshot.alive
  /\ cursor' = snapshot.boundary /\ lastDelta' = snapshot.boundary
  /\ lastSeq' = seqKey
  /\ snapshot' = Checkpoint(current', alive', lastDelta')
  /\ pc' = "idle"
  /\ UNCHANGED <<ids, keys, events, locals, ghosts>>

-----------------------------------------------------------------------------
Handle ==
  \/ Receive \/ Check \/ Admit \/ PersistSeq \/ StoreCmd
  \/ RefuseTarget \/ FailContent \/ RefuseBusy \/ EditRoute \/ DoInstant \/ Start
  \/ Preempt \/ Interrupted \/ Track \/ Accept \/ Progress
  \/ AcceptInstant \/ FinishInstant

Tick ==
  \/ ReadIntents \/ TakeEntry \/ LeaveIngest \/ Handle
  \/ \E e \in Entities : Complete(e) \/ Destroy(e)
  \/ Untrack \/ Announce \/ PublishTick \/ EndTick

Next ==
  \/ \E c \in Cmds, s \in Seqs : Post(c, s)
  \/ \E c \in Cmds : Expire(c)
  \/ Tick
  \/ Fault \/ Crash \/ Restore

Spec == Init /\ [][Next]_vars

-----------------------------------------------------------------------------
(* Types.                                                                   *)

Slots == [Entities -> Order \cup {None}]

Handler  == {"receive", "check", "seq", "store", "validate", "preempt", "interrupted",
             "track", "accept", "progress", "instant", "done"}
Closing  == {"untrack", "announce"}
Between  == {"idle", "ingest", "act", "publish"}   \* no handler is under way

TypeOK ==
  /\ clock \in Nat
  /\ stream \subseteq [id : 1..clock, cmd : Cmds, seq : Seqs]
  /\ seqKey \in [Players -> Seqs \cup {0}] /\ cmdKey \subseteq Cmds
  /\ tracking \in Slots
  /\ snapshot \in [alive : SUBSET Entities, moves : Slots, boundary : Nat]
  /\ events \subseteq [order : Order, state : States]
  /\ pc \in {"down"} \cup Between \cup Handler \cup Closing
  /\ batch \subseteq stream
  /\ handling \in Order \cup {None} /\ prior \in Order \cup {None}
  /\ ending \in [entity : Entities, order : Order, state : Endings] \cup {None}
  /\ pc \in Handler => handling # None
  /\ pc \in Between \cup {"down"} => handling = None
  /\ prior # None <=> pc \in {"preempt", "interrupted"}
  /\ ending # None <=> pc \in Closing
  /\ cursor \in Nat /\ lastSeq \in [Players -> Seqs \cup {0}]
  /\ current \in Slots /\ alive \subseteq Entities /\ lastDelta \in Nat
  /\ minted \in Nat /\ expired \subseteq Cmds
  /\ crashes \in 0..MaxCrashes /\ faults \in 0..MaxFaults

-----------------------------------------------------------------------------
(* Safety.                                                                  *)

Orders(s) == {r.order : r \in {x \in events : x.state = s}}
Ended     == UNION {Orders(s) : s \in Endings \cup Refusals}

(* The engine accepts a player's commands in client_seq order, whatever is  *)
(* resent, re-read after a restart, or lost with the engine's memory: the   *)
(* sequence reaches Redis before ACCEPTED reaches the player.               *)
AcceptedInSequence ==
  \A a, b \in Orders("accepted") :
    Player(a) = Player(b) /\ a.seq > 0 /\ b.seq > 0 /\ a.id < b.id => a.seq < b.seq

(* A command is accepted at most once while its dedupe key lives, under any *)
(* resend (with a new client_seq), replay or restart.                       *)
AcceptedOnce ==
  \A a, b \in Orders("accepted") : a.cmd = b.cmd => a = b \/ a.cmd \in expired

(* An order has one outcome: it never both finishes and is canceled or      *)
(* refused, in one engine life or across several.                           *)
OneOutcome ==
  \A r, q \in events :
    r.order = q.order /\ r.state \in Endings \cup Refusals /\ q.state \in Endings \cup Refusals
      => r.state = q.state

(* An order whose outcome was published never holds an action slot again:   *)
(* the tracking entry is dropped before the event is sent, so no restart    *)
(* can bring it back.                                                       *)
NoResurrection == \A e \in Entities : current[e] = None \/ current[e] \notin Ended

(* Between handlers the tracking hash, which reconnecting clients and       *)
(* restarts read, names exactly the orders in the action slots.             *)
TrackingAgrees == pc \in Between => tracking = current

(* A removed entity has no order left to act on.                            *)
DeadAreIdle == pc \in Between => \A e \in Entities \ alive : current[e] = None

(* No entity runs an order older than one it was given since: a restart     *)
(* never brings back a Move that was replaced after the snapshot, even when *)
(* the replacement itself is lost (docs: "never resurrect a later           *)
(* replacement").                                                           *)
NewestOrderHolds ==
  \A e \in Entities : current[e] # None =>
    ~ \E o \in Orders("accepted") :
        /\ Target(o) = e /\ Kind(o) \in Lasting /\ Payload[o.cmd].policy = "replace"
        /\ o.id > current[e].id

(* The tracking hash is an order book: a slot is only filled when empty,    *)
(* with an order that was never in a slot before.                           *)
BeforeTrack == {"receive", "check", "seq", "store", "validate", "preempt", "interrupted", "track"}
Book == INSTANCE OrderBook
          WITH slot <- tracking, last <- IF pc \in BeforeTrack THEN minted - 1 ELSE minted
KeepsOrderBook == Book!Spec

-----------------------------------------------------------------------------
(* Liveness: the tick loop always takes its next step, and reading a batch  *)
(* is again and again quicker than max_batch_ms.                            *)

Fairness == WF_vars(Tick) /\ SF_vars(TakeEntry)
LiveSpec == Spec /\ Fairness

(* The restart documentation: every intent that the restored snapshot does  *)
(* not yet reflect is replayed; the cursor skips none the engine never saw. *)
NothingSkipped ==
  pc # "down" => \A x \in stream : x.id <= cursor => x.id \in {o.entry : o \in Orders("received")}

(* Without crashes and failed calls every posted envelope is eventually     *)
(* handled, however the batches fall: the cursor passes it, and not before  *)
(* a handler had it.                                                        *)
EveryPostIsHandled ==
  \A n \in 1..(MaxPosts + MaxDeltas) :
    (n \in {x.id : x \in stream}) ~>
      (faults > 0 \/ (cursor >= n /\ n \in {o.entry : o \in Orders("received")}))

=============================================================================
