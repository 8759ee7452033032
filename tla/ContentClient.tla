--------------------------- MODULE ContentClient ---------------------------
(* How a browser follows the accepted content: the gate that loads it before  *)
(* the game (GameStreamGate.tsx), the manager that gathers what the stream and *)
(* the handshake say (contentManager.ts, contentEvents.ts, the bridge), the    *)
(* stage that draws with it (GameStage.tsx) and the leases on its artwork      *)
(* (entityVisuals.ts). The engine and the web server only accept revisions,    *)
(* reset the world and answer. One stage is mounted at a time, so the manager  *)
(* has one renderer at most.                                                   *)
EXTENDS Naturals, FiniteSets, Sequences

CONSTANTS
  None,        \* no value
  History,     \* the revisions accepted, in order
  Files,       \* the artwork bundles each revision needs
  MaxRuns,     \* runs of the world
  MaxAsks,     \* handshakes under way
  MaxTroubles  \* lost connections, requests that fail, changes of player

Revisions == {History[i] : i \in DOMAIN History}
Bundles == UNION {Files[r] : r \in Revisions}

ASSUME ClientAssumption ==
  /\ History \in Seq(Revisions) /\ History # <<>> /\ None \notin Revisions \cup Nat
  /\ DOMAIN Files = Revisions
  /\ MaxRuns \in Nat \ {0} /\ MaxAsks \in Nat \ {0} /\ MaxTroubles \in Nat

VARIABLES
  server,   \* the accepted revision, those kept with their ticks, the world's run and tick
  gate,     \* the page's gate: state and what it was answered
  link,     \* the stream: connection, what it announced, messages on their way
  asks,     \* handshakes: what they were answered, the generation at their start
  game,     \* the run the bridge shows
  mgr,      \* the content manager
  jobs,     \* its downloads and drawings under way
  stage,    \* the mounted game: which mount, how far, what it draws with
  refs,     \* references to each artwork bundle
  troubles

web  == <<server, link, asks, game>>
page == <<gate, mgr, jobs, stage, refs>>
vars == <<server, gate, link, asks, game, mgr, jobs, stage, refs, troubles>>

Mishap == troubles < MaxTroubles /\ troubles' = troubles + 1

-----------------------------------------------------------------------------
(* Leases: a drawing takes one on every bundle of its revision when it starts. *)

Acquire(r, keys) == [k \in Bundles |-> r[k] + (IF k \in keys THEN 1 ELSE 0)]
Release(r, keys) == [k \in Bundles |-> r[k] - (IF k \in keys THEN 1 ELSE 0)]

FilesOf(rev) == IF rev = None THEN {} ELSE Files[rev]

-----------------------------------------------------------------------------
(* The manager. Each operation gives the manager, its jobs and the leases.    *)

Job(kind, rev, gen, mount) == [kind |-> kind, rev |-> rev, gen |-> gen, mount |-> mount]

Now == [mgr |-> mgr, jobs |-> jobs, refs |-> refs]

(* Nothing is drawn without a renderer, nor when another revision is advertised. *)
ApplyRenderers(s) ==
  IF s.mgr.renderer = None \/ s.mgr.data # s.mgr.adv THEN s
  ELSE [s EXCEPT !.jobs = @ \cup {Job("draw", s.mgr.data, s.mgr.gen, s.mgr.renderer)},
                 !.refs = Acquire(@, Files[s.mgr.data])]

(* The definitions of the advertised revision are there.                      *)
Defined(s) == ApplyRenderers([s EXCEPT !.mgr.def = s.mgr.data])

BeginWorld(s) ==
  [s EXCEPT !.mgr = [s.mgr EXCEPT !.gen = @ + 1, !.tick = None, !.pending = None, !.adv = None,
                                  !.no = 0, !.status = "loading"]]

Before(t, u) == t # None /\ u # None /\ t < u

(* An advertisement: from the stream with its tick, from a handshake without. *)
ValidateAndSync(s, a) ==
  LET m == s.mgr
      known == m.data = a.rev
      told == [m EXCEPT !.tick = IF a.tick = None THEN @ ELSE a.tick,
                        !.no = IF m.adv = a.rev /\ a.no > @ THEN a.no ELSE @]
      next == [told EXCEPT !.gen = @ + 1, !.adv = a.rev, !.no = a.no, !.status = "loading",
                           !.pending = [rev |-> a.rev, gen |-> m.gen + 1]]
      begun == [s EXCEPT !.mgr = next]
      drawn == Defined(begun)
  IN CASE Before(a.tick, m.tick) -> s
       [] ~Before(a.tick, m.tick) /\ m.adv = a.rev
            /\ (m.status = "synchronized" \/ (m.pending # None /\ m.pending.rev = a.rev)) ->
            [s EXCEPT !.mgr = told]
       [] OTHER ->
            IF ~known THEN [begun EXCEPT !.jobs = @ \cup {Job("fetch", a.rev, next.gen, None)}]
            ELSE IF drawn.jobs = begun.jobs THEN [drawn EXCEPT !.mgr.pending = None] ELSE drawn

LoadBundle(s, a) ==
  ApplyRenderers([s EXCEPT !.mgr = [s.mgr EXCEPT !.gen = @ + 1, !.tick = a.tick,
                                                 !.data = a.rev, !.adv = a.rev, !.def = a.rev,
                                                 !.no = a.no, !.status = "loading"]])

\* Mutant: a stage that registers waits for the next advertisement.
RegisterWaits(s, mount) == [s EXCEPT !.mgr.renderer = mount, !.mgr.status = "loading"]

Register(s, mount) ==
  ApplyRenderers([s EXCEPT !.mgr.renderer = mount, !.mgr.status = "loading"])

Unregister(s) == [s EXCEPT !.mgr.renderer = None, !.mgr.status = "loading"]

ReportFailure(s) == [s EXCEPT !.mgr.status = "failed"]

(* A job has ended: whoever waited for it is told.                            *)
Settle(s, j) ==
  [s EXCEPT !.jobs = @ \ {j},
            !.mgr.pending = IF @ # None /\ @.gen = j.gen /\ j.kind # "init" THEN None ELSE @]

Takes(s) == mgr' = s.mgr /\ jobs' = s.jobs /\ refs' = s.refs

\* Mutant: a download that was overtaken still delivers its definitions.
CurrentAlways(j) == TRUE

Current(j) == j.gen = mgr.gen

-----------------------------------------------------------------------------
Fresh == [data |-> None, adv |-> None, def |-> None, status |-> "loading", gen |-> 0, no |-> 0,
          tick |-> None, pending |-> None, renderer |-> None]

NoStage == [mount |-> 0, at |-> "off", shown |-> None]
NoLink == [at |-> "off", run |-> None, told |-> None, queue |-> <<>>]

\* The initial revision was accepted at tick 2. What a browser kept of an
\* earlier visit is replaced before anything uses it (restoreFromStorage).
Init ==
  /\ server = [run |-> 1, now |-> 2, no |-> 1,
             kept |-> [r \in Revisions |-> IF r = History[1] THEN 2 ELSE None]]
  /\ gate = [at |-> "asking", answer |-> None] /\ link = NoLink /\ asks = <<>> /\ game = None
  /\ mgr = Fresh
  /\ jobs = {} /\ stage = NoStage /\ refs = [k \in Bundles |-> 0] /\ troubles = 0

Active == [rev |-> History[server.no], tick |-> server.kept[History[server.no]], no |-> server.no]

-----------------------------------------------------------------------------
(* The engine accepts another revision, and regenerates the world: its tick   *)
(* starts again, the accepted revision keeps the tick it was accepted at.     *)

Accept ==
  /\ server.no < Len(History)
  /\ server' = [server EXCEPT !.no = @ + 1, !.now = @ + 1, !.kept[History[server.no + 1]] = server.now + 1]
  /\ UNCHANGED <<page, link, asks, game, troubles>>

Reset ==
  /\ server.run < MaxRuns
  /\ server' = [server EXCEPT !.run = @ + 1, !.now = 0]
  /\ UNCHANGED <<page, link, asks, game, troubles>>

-----------------------------------------------------------------------------
(* The gate: content first, then the stream and the stage.                    *)

GateAnswered ==
  /\ gate.at = "asking" /\ gate.answer = None
  /\ gate' = [gate EXCEPT !.answer = Active]
  /\ UNCHANGED <<web, mgr, jobs, stage, refs, troubles>>

(* The stage starts with the artwork of what the manager has.                 *)
GateOpens ==
  /\ gate.at = "asking" /\ gate.answer # None
  /\ gate' = [at |-> "ready", answer |-> None]
  /\ LET s == LoadBundle(Now, gate.answer)
         mount == stage.mount + 1 IN
     /\ Takes([s EXCEPT !.jobs = @ \cup {Job("init", s.mgr.data, 0, mount)},
                        !.refs = Acquire(@, Files[s.mgr.data])])
     /\ stage' = [mount |-> mount, at |-> "loading", shown |-> None]
  /\ link' = [NoLink EXCEPT !.at = "connecting"]
  /\ UNCHANGED <<server, asks, game, troubles>>

GateFails ==
  /\ gate.at = "asking" /\ Mishap
  /\ gate' = [at |-> "error", answer |-> None]
  /\ UNCHANGED <<web, mgr, jobs, stage, refs>>

Retry ==
  /\ gate.at = "error" /\ gate' = [at |-> "asking", answer |-> None]
  /\ UNCHANGED <<web, mgr, jobs, stage, refs, troubles>>

(* Another player: stream and stage are taken down, the gate asks again.      *)
Switch ==
  /\ gate.at = "ready" /\ Mishap
  /\ gate' = [at |-> "asking", answer |-> None]
  /\ LET s == IF stage.at = "on" THEN Unregister(Now) ELSE Now IN
     Takes([s EXCEPT !.refs = Release(@, FilesOf(stage.shown))])
  /\ stage' = [stage EXCEPT !.at = "off", !.shown = None]
  /\ link' = NoLink /\ asks' = <<>>
  /\ UNCHANGED <<server, game>>

-----------------------------------------------------------------------------
(* The stage. Cancelled by its unmounting, it gives back what it loaded.      *)

Mounted(j) == stage.mount = j.mount /\ stage.at # "off"

StageLoads ==
  /\ UNCHANGED <<web, gate, troubles>>
  /\ \E j \in jobs : j.kind = "init" /\
       LET done == Settle(Now, j) IN
       IF Mounted(j)
       THEN Takes(Register(done, j.mount)) /\ stage' = [stage EXCEPT !.at = "on", !.shown = j.rev]
       ELSE Takes([done EXCEPT !.refs = Release(@, Files[j.rev])]) /\ UNCHANGED stage

\* Mutant: artwork that came too late is not given back.
SwapKeeps(j, done) ==
  IF Current(j) /\ mgr.renderer = j.mount /\ mgr.adv = j.rev
  THEN /\ stage' = [stage EXCEPT !.shown = j.rev]
       /\ Takes([done EXCEPT !.refs = Release(@, FilesOf(stage.shown)), !.mgr.status = "synchronized"])
  ELSE /\ Takes(done) /\ UNCHANGED stage

(* The renderer's swap, and the acknowledgement.                              *)
Swap(j, done) ==
  IF Current(j) /\ mgr.renderer = j.mount /\ mgr.adv = j.rev
  THEN /\ stage' = [stage EXCEPT !.shown = j.rev]
       /\ Takes([done EXCEPT !.refs = Release(@, FilesOf(stage.shown)), !.mgr.status = "synchronized"])
  ELSE /\ Takes([done EXCEPT !.refs = Release(@, Files[j.rev])]) /\ UNCHANGED stage

Draws ==
  /\ UNCHANGED <<web, gate, troubles>>
  /\ \E j \in jobs : j.kind = "draw" /\ Swap(j, Settle(Now, j))

(* A failure counts while its generation lasts, of a stage while it is mounted. *)
ArtworkFails ==
  /\ Mishap /\ UNCHANGED <<web, gate>>
  /\ \E j \in jobs : j.kind \in {"draw", "init"} /\
       LET done == [Settle(Now, j) EXCEPT !.refs = Release(@, Files[j.rev])]
           init == j.kind = "init" IN
       /\ Takes(IF (init /\ Mounted(j)) \/ (~init /\ Current(j)) THEN ReportFailure(done) ELSE done)
       /\ stage' = IF init /\ Mounted(j) THEN [stage EXCEPT !.at = "dead"] ELSE stage

-----------------------------------------------------------------------------
(* Definitions, fetched by revision; an overtaken download changes nothing.   *)

Fetched ==
  /\ UNCHANGED <<web, gate, stage, troubles>>
  /\ \E j \in jobs : j.kind = "fetch" /\
       LET done == Settle(Now, j)
           tick == IF Before(server.kept[j.rev], mgr.tick) THEN mgr.tick ELSE server.kept[j.rev]
           s == Defined([done EXCEPT !.mgr.data = j.rev, !.mgr.tick = tick])
       IN IF ~Current(j) THEN Takes(done)
          ELSE IF s.jobs = done.jobs THEN Takes(s)
          ELSE Takes([s EXCEPT !.mgr.pending = mgr.pending])

FetchFails ==
  /\ Mishap /\ UNCHANGED <<web, gate, stage>>
  /\ \E j \in jobs : j.kind = "fetch" /\
       Takes(IF Current(j) THEN ReportFailure(Settle(Now, j)) ELSE Settle(Now, j))

-----------------------------------------------------------------------------
(* The stream and the bridge.                                                 *)

Opens ==
  /\ link.at = "connecting" /\ Len(asks) < MaxAsks
  /\ link' = [at |-> "open", run |-> server.run, told |-> None,
              queue |-> <<[kind |-> "snapshot", run |-> server.run]>>]
  /\ asks' = Append(asks, [gen |-> mgr.gen, answer |-> None])
  /\ UNCHANGED <<page, server, game, troubles>>

(* The stream announces a revision it has not announced, or the end of a run. *)
Announces ==
  /\ link.at = "open"
  /\ \/ /\ link.run = server.run /\ link.told # Active.rev
        /\ link' = [link EXCEPT !.told = Active.rev,
                                !.queue = Append(@, [kind |-> "content", what |-> Active])]
     \/ /\ link.run # server.run
        /\ link' = [link EXCEPT !.at = "ending",
                                !.queue = Append(@, [kind |-> "reset", run |-> server.run])]
  /\ UNCHANGED <<page, server, asks, game, troubles>>

(* The connection is lost and EventSource opens another.                      *)
Breaks ==
  /\ link.at \in {"open", "ending"} /\ Mishap
  /\ link' = [NoLink EXCEPT !.at = "connecting"] /\ UNCHANGED <<page, server, asks, game>>

Deliver ==
  /\ link.at \in {"open", "ending"} /\ link.queue # <<>>
  /\ UNCHANGED <<server, gate, stage, troubles>>
  /\ LET m == Head(link.queue)
         read == [link EXCEPT !.queue = Tail(@)] IN
     \/ /\ m.kind = "snapshot" /\ link' = read /\ game' = m.run /\ UNCHANGED asks
        /\ Takes(IF game \in {None, m.run} THEN Now ELSE BeginWorld(Now))
     \/ /\ m.kind = "content" /\ link' = read /\ UNCHANGED <<game, asks>>
        /\ Takes(ValidateAndSync(Now, m.what))
     \/ /\ m.kind = "reset" /\ UNCHANGED game
        /\ IF m.run = game THEN link' = read /\ UNCHANGED asks /\ Takes(Now)
           ELSE /\ link' = [NoLink EXCEPT !.at = "connecting"] /\ asks' = <<>>
                /\ Takes(BeginWorld(Now))

HandshakeRead ==
  /\ \E i \in DOMAIN asks : asks[i].answer = None /\ asks' = [asks EXCEPT ![i].answer = Active]
  /\ UNCHANGED <<page, server, link, game, troubles>>

HandshakeCounts(ask) == ask.gen = mgr.gen

(* A handshake that is older than the last advertisement tells nothing.       *)
HandshakeAnswered ==
  /\ \E i \in DOMAIN asks :
       /\ asks[i].answer # None
       /\ asks' = SubSeq(asks, 1, i - 1) \o SubSeq(asks, i + 1, Len(asks))
       /\ Takes(IF HandshakeCounts(asks[i])
                THEN ValidateAndSync(Now, [asks[i].answer EXCEPT !.tick = None]) ELSE Now)
  /\ UNCHANGED <<server, link, game, gate, stage, troubles>>

-----------------------------------------------------------------------------
Gate == GateAnswered \/ GateOpens \/ Retry
Loads == StageLoads \/ Draws \/ Fetched
Stream == Opens \/ Announces \/ Deliver
Handshake == HandshakeRead \/ HandshakeAnswered
Trouble == GateFails \/ ArtworkFails \/ FetchFails \/ Breaks \/ Switch

Next == Accept \/ Reset \/ Gate \/ Loads \/ Stream \/ Handshake \/ Trouble

(* Requests are answered and loads end, in any order; the stream's loop and   *)
(* the page's event loop go on.                                               *)
Fairness == WF_vars(Gate) /\ WF_vars(Loads) /\ WF_vars(Stream) /\ WF_vars(Handshake)

Spec == Init /\ [][Next]_vars /\ Fairness

-----------------------------------------------------------------------------
(* TypeOK: among others, every reference to artwork has its holder - the      *)
(* stage, or a load under way - and nothing else is kept                      *)
(* (acquireBundle, releaseBundleLease, the release of each texture cache).    *)
TypeOK ==
  /\ server.no \in DOMAIN History /\ server.run \in 1..MaxRuns
  /\ gate.at \in {"asking", "error", "ready"} /\ link.at \in {"off", "connecting", "open", "ending"}
  /\ stage.at \in {"off", "loading", "on", "dead"} /\ (stage.at = "on" => stage.shown # None)
  /\ mgr.status \in {"loading", "synchronized", "failed"} /\ mgr.adv \in Revisions \cup {None}
  /\ mgr.renderer \in {None, stage.mount}
  /\ \A k \in Bundles :
       refs[k] = Cardinality({j \in jobs : j.kind # "fetch" /\ k \in Files[j.rev]})
                 + Cardinality(FilesOf(stage.shown) \cap {k})

(* SynchronizedIsShown: when the manager says synchronized, the definitions   *)
(* and the picture are those of the advertised revision                       *)
(* (contentReloadStatus.ts, ContentReloadPanel.tsx).                          *)
SynchronizedIsShown ==
  mgr.status = "synchronized" =>
    /\ mgr.adv # None /\ mgr.def = mgr.adv /\ mgr.data = mgr.adv
    /\ stage.at = "on" /\ stage.shown = mgr.adv

(* Refused: content whose tick is below that of the last advertisement.       *)
Ahead == Before(Active.tick, mgr.tick)

Settled == mgr.status = "synchronized" /\ stage.shown = Active.rev

(* A load failed and is not tried again. A stage that registers after its     *)
(* definitions failed to load turns "failed" into "loading" for good.         *)
Failed ==
  \/ mgr.status = "failed" \/ stage.at = "dead"
  \/ /\ mgr.adv # None /\ mgr.data # mgr.adv
     /\ ~\E j \in jobs : j.kind = "fetch" /\ j.rev = mgr.adv /\ Current(j)

(* ShowsAccepted: what the engine has accepted is shown in the end, unless a  *)
(* load failed or the manager takes the revision for an older one             *)
(* (validateAndSync, publishAcceptedContent, the stage's renderer).           *)
ShowsAccepted == <>[](Settled \/ Failed \/ Ahead)

=============================================================================
