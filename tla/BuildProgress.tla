--------------------------- MODULE BuildProgress ---------------------------
(* The progress of builds, upgrades and research as a page shows it           *)
(* (buildProgressStore.ts): whole batches that the engine publishes on the    *)
(* stream, and a request to the build-state route when the stream has been    *)
(* silent for a while. The units to follow are the union of what the stage    *)
(* and the detail panel ask for. The engine is what these two ways can tell:  *)
(* progress lives in the tracking hash, a batch repeats it now and then.      *)
EXTENDS Integers, Sequences, FiniteSets

CONSTANTS
  None,        \* no value
  Units,       \* the player's units
  Sources,     \* who asks for progress: the stage, the panel
  MaxChanges,  \* changes of progress
  MaxBatches,  \* batches published
  MaxUpsets    \* changes of what a source asks for, resets, lost connections, failed requests

VARIABLES
  engine,  \* run, tick, progress of each unit, batches published, the one that is kept
  link,    \* the stream's connection: how far, position in the batches, messages on their way
  shownRun,  \* game.runId of the page
  store,   \* the BuildProgressStore
  poll,    \* its request under way
  quiet,   \* STREAM_STALE_MS has passed since the stream spoke, since the units changed
  upsets

server   == <<engine, link>>
progress == <<engine, link, shownRun, store, poll, quiet, upsets>>

Nothing == [u \in Units |-> None]

(* Progress is told apart by the run and the tick it was last advanced in:    *)
(* progress_updated_at_unix_ms.                                               *)
Value(run, tick) == [run |-> run, tick |-> tick]

Only(states, ids) == [u \in Units |-> IF u \in ids THEN states[u] ELSE None]

Batch(run, tick, states) == [kind |-> "batch", run |-> run, tick |-> tick, states |-> states]

NoLink == [at |-> "off", run |-> 0, pos |-> 0, queue |-> <<>>]
NoPoll == [at |-> "none", ids |-> {}, rev |-> 0, tick |-> -1, heard |-> 0, run |-> None,
           states |-> Nothing]

InitProgress ==
  /\ engine = [run |-> 1, tick |-> 0, built |-> Nothing, batches |-> <<>>, kept |-> None, told |-> FALSE,
               changes |-> 0, published |-> 0]
  /\ link = NoLink /\ shownRun = None /\ poll = NoPoll
  /\ \E ids \in SUBSET Units :
       store = [sources |-> [s \in Sources |-> IF s = "stage" THEN ids ELSE {}], ids |-> ids,
                rev |-> 0, shown |-> Nothing, states |-> Nothing, run |-> None, tick |-> -1, heard |-> 0,
                blind |-> FALSE]
  /\ quiet = [stream |-> FALSE, watch |-> FALSE] /\ upsets = 0

Upset == upsets < MaxUpsets /\ upsets' = upsets + 1

-----------------------------------------------------------------------------
(* The engine.                                                                *)

client == <<link, shownRun, store, poll, quiet, upsets>>

Advance ==
  /\ engine.changes < MaxChanges
  /\ \E u \in Units, done \in BOOLEAN :
       /\ done => engine.built[u] # None
       /\ engine' = [engine EXCEPT !.tick = @ + 1, !.changes = @ + 1,
                       !.built[u] = IF done THEN None ELSE Value(engine.run, engine.tick + 1)]
  /\ UNCHANGED client

(* A batch is published while anyone builds, and once more when nobody does:  *)
(* on the stream and, in the same transaction, as the batch to begin with.    *)
Publish ==
  /\ engine.published < MaxBatches
  /\ engine.built # Nothing \/ engine.told
  /\ LET b == Batch(engine.run, engine.tick, engine.built) IN
     engine' = [engine EXCEPT !.batches = Append(@, b), !.published = @ + 1, !.kept = b, !.told = engine.built # Nothing]
  /\ UNCHANGED client

(* A new run: nothing is being built. The kept batch stays that of the old.   *)
Reset ==
  /\ Upset
  /\ engine' = [engine EXCEPT !.run = @ + 1, !.tick = 0, !.built = Nothing, !.batches = <<>>, !.told = FALSE]
  /\ UNCHANGED <<link, shownRun, store, poll, quiet>>

-----------------------------------------------------------------------------
(* The stream route: snapshot and the batches since it, then the kept batch   *)
(* or an empty one, then what is published. A reset ends it.                  *)

Send(messages) == [link EXCEPT !.queue = @ \o messages]

Bootstrap ==
  /\ link.at = "open"
  /\ \E boundary \in 0..Len(engine.batches) :
       link' = [Send(<<[kind |-> "snapshot", run |-> engine.run]>>
                     \o SubSeq(engine.batches, boundary + 1, Len(engine.batches)))
                  EXCEPT !.at = "caught up", !.run = engine.run, !.pos = Len(engine.batches)]
  /\ UNCHANGED <<engine, shownRun, store, poll, quiet, upsets>>

Begin ==
  /\ link.at = "caught up"
  /\ LET kept == engine.kept
         first == IF kept # None /\ kept.run = engine.run THEN kept ELSE Batch(engine.run, 0, Nothing)
     IN link' = [Send(<<first>>) EXCEPT !.at = "live"]
  /\ UNCHANGED <<engine, shownRun, store, poll, quiet, upsets>>

Live ==
  /\ link.at = "live"
  /\ \/ /\ link.run = engine.run /\ link.pos < Len(engine.batches)
        /\ link' = [Send(<<engine.batches[link.pos + 1]>>) EXCEPT !.pos = @ + 1]
     \/ /\ link.run # engine.run
        /\ link' = [Send(<<[kind |-> "reset", run |-> engine.run]>>) EXCEPT !.at = "ended"]
  /\ UNCHANGED <<engine, shownRun, store, poll, quiet, upsets>>

-----------------------------------------------------------------------------
(* The store. lastStreamAt is a moment like no other whenever the stream is   *)
(* heard: "heard" is 0 or 1, and a request that was made at another moment    *)
(* remembers neither. History: the run a request was made in, and whether     *)
(* what is shown was asked for in another one ("blind").                      *)

Past == 2

Overtaken(p) == IF p.heard = 1 THEN [p EXCEPT !.heard = Past] ELSE p

Older(s, b) == b.run = s.run /\ b.tick < s.tick

(* Whole batches replace what was known; one of an older tick is passed over. *)
ApplyStreamBatch(s, b) ==
  IF Older(s, b) THEN s
  ELSE [s EXCEPT !.run = b.run, !.tick = b.tick, !.states = b.states, !.heard = 1,
                 !.shown = Only(b.states, s.ids), !.blind = FALSE]

ResetStream(s) ==
  [s EXCEPT !.states = Nothing, !.run = None, !.tick = -1, !.heard = 0, !.shown = Nothing,
            !.blind = FALSE]

(* Another union: what is known of it stays shown.                            *)
SyncIds(s) ==
  LET ids == UNION {s.sources[x] : x \in Sources}
      known == IF s.heard # 0 THEN s.states ELSE s.shown
  IN IF ids = s.ids THEN s
     ELSE [s EXCEPT !.ids = ids, !.rev = @ + 1, !.shown = Only(known, ids)]

SetIds(source, ids) ==
  /\ Upset
  /\ store.sources[source] # ids
  /\ store' = SyncIds([store EXCEPT !.sources[source] = ids])
  /\ quiet' = IF store'.rev = store.rev THEN quiet ELSE [quiet EXCEPT !.watch = FALSE]
  /\ UNCHANGED <<server, shownRun, poll>>

(* The stage asks for every unit it believes to be building, the panel for    *)
(* the selected one if it is.                                                 *)
Scan  == \E ids \in SUBSET Units : SetIds("stage", ids)
Panel == \E ids \in {{}} \cup {{u} : u \in Units} : SetIds("panel", ids)

-----------------------------------------------------------------------------
(* The stream at the page.                                                    *)

Open ==
  /\ link.at = "off"
  /\ link' = [NoLink EXCEPT !.at = "open"]
  /\ store' = [store EXCEPT !.heard = 1] /\ quiet' = [quiet EXCEPT !.stream = FALSE]
  /\ poll' = Overtaken(poll)
  /\ UNCHANGED <<engine, shownRun, upsets>>

(* EventSource reports an error and opens another connection.                 *)
Drop ==
  /\ link.at # "off" /\ Upset
  /\ link' = NoLink /\ store' = [store EXCEPT !.heard = 0]
  /\ quiet' = [quiet EXCEPT !.stream = FALSE] /\ UNCHANGED <<engine, shownRun, poll>>

Deliver ==
  /\ link.queue # <<>>
  /\ LET m == Head(link.queue)
         read == [link EXCEPT !.queue = Tail(@)] IN
     \/ /\ m.kind = "snapshot" /\ link' = read /\ shownRun' = m.run
        /\ store' = IF m.run = shownRun THEN store ELSE ResetStream(store)
        /\ UNCHANGED <<quiet, poll>>
     \/ /\ m.kind = "batch" /\ link' = read /\ UNCHANGED shownRun
        /\ store' = IF m.run = shownRun THEN ApplyStreamBatch(store, m) ELSE store
        /\ IF m.run # shownRun \/ Older(store, m) THEN UNCHANGED <<quiet, poll>>
           ELSE quiet' = [quiet EXCEPT !.stream = FALSE] /\ poll' = Overtaken(poll)
     \/ /\ m.kind = "reset" /\ UNCHANGED <<shownRun, quiet, poll>>
        /\ IF m.run = shownRun THEN link' = read /\ UNCHANGED store
           ELSE link' = NoLink /\ store' = ResetStream(store)
  /\ UNCHANGED <<engine, upsets>>

-----------------------------------------------------------------------------
(* The request, when stream and watch have been quiet for long enough.        *)

Wait ==
  /\ \/ ~quiet.stream /\ store.heard # 0 /\ quiet' = [quiet EXCEPT !.stream = TRUE]
     \/ ~quiet.watch /\ store.ids # {} /\ quiet' = [quiet EXCEPT !.watch = TRUE]
  /\ UNCHANGED <<server, shownRun, store, poll, upsets>>

Poll ==
  /\ poll.at = "none" /\ store.ids # {}
  /\ quiet.watch /\ (quiet.stream \/ store.heard = 0)
  /\ poll' = [at |-> "asked", ids |-> store.ids, rev |-> store.rev, tick |-> store.tick,
              heard |-> store.heard, run |-> store.run, states |-> Nothing]
  /\ UNCHANGED <<server, shownRun, store, quiet, upsets>>

(* The route reads the tracking hash.                                         *)
Read ==
  /\ poll.at = "asked"
  /\ poll' = [poll EXCEPT !.at = "read", !.states = Only(engine.built, poll.ids)]
  /\ UNCHANGED <<server, shownRun, store, quiet, upsets>>

\* Mutant: an answer counts although the stream has spoken since.
CountsAlways == poll.rev = store.rev

(* The answer counts if units and stream are as they were when it was asked.  *)
Counts == poll.rev = store.rev /\ poll.tick = store.tick /\ poll.heard = store.heard

Answered ==
  /\ poll.at = "read"
  /\ poll' = NoPoll
  /\ store' = IF Counts THEN [store EXCEPT !.shown = poll.states, !.blind = poll.run # store.run]
             ELSE store
  /\ UNCHANGED <<server, shownRun, quiet, upsets>>

\* Mutant: after a failed request none is made again.
FailedKeepsFlag == poll' = [poll EXCEPT !.at = "failed"]

Failed == poll' = NoPoll

Fails ==
  /\ poll.at \in {"asked", "read"} /\ Upset /\ Failed
  /\ UNCHANGED <<server, shownRun, store, quiet>>

-----------------------------------------------------------------------------
Engine == Advance \/ Publish \/ Reset
Stream == Open \/ Bootstrap \/ Begin \/ Live \/ Deliver
Polling == Wait \/ Poll \/ Read \/ Answered

NextProgress == Engine \/ Stream \/ Scan \/ Panel \/ Polling \/ Drop \/ Fails
Progressing  == InitProgress /\ [][NextProgress]_progress

-----------------------------------------------------------------------------
(* No value of "states" is older than what the batch b says of its unit.      *)
NotBefore(states, b) ==
  \A u \in Units :
    LET is == states[u] was == b.states[u] IN
    is # None /\ is.run <= b.run =>
      is.run = b.run /\ is.tick >= (IF was = None THEN b.tick + 1 ELSE was.tick)

(* What is shown is never older than the last batch that was applied, though  *)
(* requests, batches and changes of the followed units overtake each other    *)
(* (applyStreamBatch, syncIds, poll). Not so for an answer that was asked for *)
(* in another run: if there was no connection then and there is none now, and *)
(* the ticks agree by chance, nothing tells it from a new one.                *)
NotBehindStream == store.tick # -1 /\ ~store.blind => NotBefore(store.shown, store)

(* What is shown is the progress that the followed units have, and no other. *)
Current == store.shown = Only(engine.built, store.ids)
=============================================================================
