--------------------------- MODULE Browser_proofs ---------------------------
(* Three parts of a page, for any values of their constants. BuildProgress:   *)
(* what is shown of builds is never behind the stream, for any units, any     *)
(* number of batches, requests, resets and lost connections. CommandInput:    *)
(* what a target was chosen for is what the order is for, except in haste,    *)
(* and one input gives a unit one order, for any things, abilities and        *)
(* owners. Console: what a page was told last of its session, the world and   *)
(* the files is true, for any pages, players, files, calls and mishaps.       *)
EXTENDS BuildProgress, CommandInput, Console, SequenceTheorems, TLAPS

-----------------------------------------------------------------------------
(* BuildProgress.                                                             *)

Values   == [run : Nat, tick : Nat] \cup {None}
Progress == [Units -> Values]
Batches  == [kind : {"batch"}, run : Nat, tick : Nat, states : Progress]
Signs    == [kind : {"snapshot", "reset"}, run : Nat]

(* Progress of a run was made in one of its ticks.                            *)
OfRun(states, run, tick) ==
  \A u \in Units : states[u] # None => states[u].run = run /\ states[u].tick \in 1..tick

(* A batch is of the past of the engine e: this is at its run or a later one, *)
(* at its tick or a later one, and no unit has gone back since.               *)
OfThePast(b, e) ==
  /\ b.run <= e.run
  /\ b.run = e.run => b.tick <= e.tick
  /\ OfRun(b.states, b.run, b.tick)
  /\ NotBefore(e.built, b)

(* An answer that was asked for when the store was at the tick of the batch   *)
(* is not older than the batch: whatever of that tick is told later says no   *)
(* more.                                                                      *)
Answers(p, b) == p.at = "read" /\ b.run = p.run /\ b.tick = p.tick => NotBefore(p.states, b)

Good(b, e, p) ==
  b.run \in Nat /\ b.tick \in Nat /\ b.states \in Progress /\ OfThePast(b, e) /\ Answers(p, b)
GoodBatches(e, p)  == {b \in Batches : Good(b, e, p)}
GoodMessages(e, p) == GoodBatches(e, p) \cup Signs

EngineIs ==
  /\ engine = [run |-> engine.run, tick |-> engine.tick, built |-> engine.built,
               batches |-> engine.batches, kept |-> engine.kept, told |-> engine.told,
               changes |-> engine.changes, published |-> engine.published]
  /\ engine.run \in Nat /\ engine.tick \in Nat /\ engine.built \in Progress
  /\ OfRun(engine.built, engine.run, engine.tick)
  /\ engine.batches \in Seq(GoodBatches(engine, poll))
  /\ engine.kept # None => engine.kept \in GoodBatches(engine, poll)

LinkIs ==
  link \in [at : {"off", "open", "caught up", "live", "ended"}, run : Nat, pos : Nat,
            queue : Seq(GoodMessages(engine, poll))]

Stores == [sources : [Sources -> SUBSET Units], ids : SUBSET Units, rev : Nat, shown : Progress,
           states : Progress, run : Nat \cup {None}, tick : Int, heard : Nat, blind : BOOLEAN]

StoreIs ==
  /\ store \in Stores
  /\ store.tick >= -1
  /\ store.tick # -1 => Good(store, engine, poll)

Polls == [at : {"none", "asked", "read"}, ids : SUBSET Units, rev : Nat, tick : Int, heard : Nat,
          run : Nat \cup {None}, states : Progress]

(* A request was made in the past, and its answer is of a later moment.       *)
PollIs ==
  /\ poll \in Polls
  /\ poll.tick # -1 =>
       /\ poll.tick \in Nat /\ poll.run \in Nat /\ poll.run <= engine.run
       /\ poll.run = engine.run => poll.tick <= engine.tick
  /\ poll.at = "read" /\ poll.tick # -1 =>
       /\ \A u \in Units : poll.states[u] # None =>
                             poll.states[u].run >= poll.run /\ poll.states[u].tick >= 1
       /\ poll.run = engine.run /\ poll.tick = engine.tick =>
            poll.states = Only(engine.built, poll.ids)

IInv == EngineIs /\ LinkIs /\ StoreIs /\ PollIs /\ NotBehindStream

-----------------------------------------------------------------------------
(* The operators.                                                             *)

(* Nothing is progress, and so is what is left of progress when only some     *)
(* units are asked for; it is of the same run and ticks, and no older.        *)
LEMMA NothingIsProgress ==
  /\ Nothing \in Progress
  /\ \A run, tick : OfRun(Nothing, run, tick)
  /\ \A b : NotBefore(Nothing, b)
BY DEF Nothing, Progress, Values, OfRun, NotBefore

LEMMA OnlySome ==
  ASSUME NEW states \in Progress, NEW ids
  PROVE  /\ Only(states, ids) \in Progress
         /\ \A run, tick : OfRun(states, run, tick) => OfRun(Only(states, ids), run, tick)
         /\ \A b : NotBefore(states, b) => NotBefore(Only(states, ids), b)
BY DEF Only, Progress, Values, OfRun, NotBefore

(* What a batch says is not behind the batch.                                 *)
LEMMA OwnStates ==
  ASSUME NEW b, b.tick \in Nat, b.run \in Nat, b.states \in Progress, OfRun(b.states, b.run, b.tick)
  PROVE  NotBefore(b.states, b)
BY DEF OfRun, NotBefore, Progress, Values

(* A batch is good by its run, its tick and its progress.                     *)
LEMMA GoodByFields ==
  ASSUME NEW a, NEW b, NEW e, NEW p, Good(a, e, p),
         b.run = a.run, b.tick = a.tick, b.states = a.states
  PROVE  Good(b, e, p)
BY DEF Good, OfThePast, Answers, NotBefore, OfRun

(* What was good and stays good may stay where it is.                         *)
LEMMA GoodStays ==
  ASSUME NEW e, NEW p, NEW f, NEW q, \A b : Good(b, e, p) => Good(b, f, q)
  PROVE  /\ GoodBatches(e, p) \subseteq GoodBatches(f, q)
         /\ \A s \in Seq(GoodBatches(e, p)) : s \in Seq(GoodBatches(f, q))
         /\ \A s \in Seq(GoodMessages(e, p)) : s \in Seq(GoodMessages(f, q))
<1>1. GoodBatches(e, p) \subseteq GoodBatches(f, q)
  BY DEF GoodBatches
<1>2. GoodMessages(e, p) \subseteq GoodMessages(f, q)
  BY <1>1 DEF GoodMessages
<1> HIDE DEF GoodBatches, GoodMessages
<1>3. ASSUME NEW S, NEW T, S \subseteq T, NEW s \in Seq(S) PROVE s \in Seq(T)
  BY <1>3
<1> QED
  BY <1>1, <1>2, <1>3

(* Answers are of the poll's run, tick and progress; a request without an     *)
(* answer asks nothing of batches.                                            *)
LEMMA SamePoll ==
  ASSUME NEW e, NEW p, NEW q,
         \/ q.at # "read"
         \/ q.at = p.at /\ q.run = p.run /\ q.tick = p.tick /\ q.states = p.states
  PROVE  \A b : Good(b, e, p) => Good(b, e, q)
BY DEF Good, OfThePast, Answers, NotBefore

-----------------------------------------------------------------------------
(* The beginning.                                                             *)

LEMMA InitHolds == ASSUME InitProgress PROVE IInv
<1>1. EngineIs
  <2>1. engine.run = 1 /\ engine.tick = 0 /\ engine.built = Nothing /\ engine.batches = <<>>
        /\ engine.kept = None
    BY DEF InitProgress
  <2>2. <<>> \in Seq(GoodBatches(engine, poll))
    OBVIOUS
  <2>3. engine = [run |-> engine.run, tick |-> engine.tick, built |-> engine.built,
               batches |-> engine.batches, kept |-> engine.kept, told |-> engine.told,
               changes |-> engine.changes, published |-> engine.published]
    BY DEF InitProgress
  <2> QED BY <2>1, <2>2, <2>3, NothingIsProgress DEF EngineIs
<1>2. LinkIs
  <2>1. <<>> \in Seq(GoodMessages(engine, poll))
    OBVIOUS
  <2> QED BY <2>1 DEF InitProgress, LinkIs, NoLink
<1>3. StoreIs /\ store.tick = -1
  <2>1. PICK ids \in SUBSET Units :
          store = [sources |-> [s \in Sources |-> IF s = "stage" THEN ids ELSE {}], ids |-> ids,
                rev |-> 0, shown |-> Nothing, states |-> Nothing, run |-> None, tick |-> -1, heard |-> 0,
                blind |-> FALSE]
    BY DEF InitProgress
  <2>2. [s \in Sources |-> IF s = "stage" THEN ids ELSE {}] \in [Sources -> SUBSET Units]
    OBVIOUS
  <2>3. store \in Stores
    BY <2>1, <2>2, NothingIsProgress DEF Stores
  <2> QED BY <2>1, <2>3 DEF StoreIs
<1>4. PollIs
  BY NothingIsProgress DEF InitProgress, NoPoll, PollIs, Polls
<1> QED BY <1>1, <1>2, <1>3, <1>4 DEF IInv, NotBehindStream

-----------------------------------------------------------------------------
(* The engine.                                                                *)

(* Good batches stay good when the engine goes on.                            *)
LEMMA EngineGoesOn ==
  ASSUME IInv, UNCHANGED <<link, store, poll>>, EngineIs',
         \A b : Good(b, engine, poll) => Good(b, engine', poll),
         PollIs'
  PROVE  IInv'
<1>1. LinkIs'
  <2>1. link.queue \in Seq(GoodMessages(engine', poll))
    BY GoodStays DEF IInv, LinkIs
  <2> QED BY <2>1 DEF IInv, LinkIs
<1>2. StoreIs'
  BY DEF IInv, StoreIs
<1> QED BY <1>1, <1>2 DEF IInv, NotBehindStream, NotBefore

LEMMA AdvanceHolds == ASSUME IInv, Advance PROVE IInv'
<1>1. PICK u \in Units, done \in BOOLEAN :
        engine' = [engine EXCEPT !.tick = @ + 1, !.changes = @ + 1,
                       !.built[u] = IF done THEN None ELSE Value(engine.run, engine.tick + 1)]
  BY DEF Advance
<1>2. /\ engine'.run = engine.run /\ engine'.tick = engine.tick + 1
      /\ engine'.built = [engine.built EXCEPT ![u] = IF done THEN None ELSE Value(engine.run, engine.tick + 1)]
      /\ engine'.batches = engine.batches /\ engine'.kept = engine.kept
      /\ engine' = [run |-> engine'.run, tick |-> engine'.tick, built |-> engine'.built,
               batches |-> engine'.batches, kept |-> engine'.kept, told |-> engine'.told,
               changes |-> engine'.changes, published |-> engine'.published]
  BY <1>1 DEF IInv, EngineIs
<1>3. UNCHANGED <<link, store, poll>>
  BY DEF Advance, client
<1>4. engine.run \in Nat /\ engine.tick \in Nat /\ engine.built \in Progress
  BY DEF IInv, EngineIs
<1>5. engine'.built \in Progress /\ OfRun(engine'.built, engine'.run, engine'.tick)
  <2>1. OfRun(engine.built, engine.run, engine.tick)
    BY DEF IInv, EngineIs
  <2>2. engine'.built \in Progress
    BY <1>2, <1>4 DEF Progress, Values, Value
  <2>3. \A v \in Units : engine'.built[v] = IF v = u THEN (IF done THEN None ELSE Value(engine.run, engine.tick + 1))
                                                     ELSE engine.built[v]
    BY <1>2, <1>4 DEF Progress
  <2> QED BY <2>1, <2>2, <2>3, <1>2, <1>4 DEF OfRun, Value, Progress, Values
<1>6. ASSUME NEW b, Good(b, engine, poll) PROVE Good(b, engine', poll)
  <2>1. b.run \in Nat /\ b.tick \in Nat /\ b.states \in Progress /\ OfThePast(b, engine) /\ Answers(poll, b)
    BY <1>6 DEF Good
  <2>2. b.run <= engine'.run /\ (b.run = engine'.run => b.tick <= engine'.tick)
    BY <1>2, <1>4, <2>1 DEF OfThePast
  <2>3. NotBefore(engine'.built, b)
    <3> SUFFICES ASSUME NEW v \in Units, engine'.built[v] # None, engine'.built[v].run <= b.run
                 PROVE  /\ engine'.built[v].run = b.run
                        /\ engine'.built[v].tick >= (IF b.states[v] = None THEN b.tick + 1 ELSE b.states[v].tick)
      BY DEF NotBefore
    <3>1. CASE engine'.built[v] = engine.built[v]
      BY <3>1, <2>1 DEF OfThePast, NotBefore
    <3>2. CASE engine'.built[v] # engine.built[v]
      <4>1. engine'.built[v] = Value(engine.run, engine.tick + 1)
        BY <3>2, <1>2, <1>4 DEF Progress
      <4>2. b.run = engine.run /\ b.tick <= engine.tick
        BY <4>1, <2>1, <1>4 DEF OfThePast, Value
      <4>3. b.states[v] # None => b.states[v].tick \in 1..b.tick
        BY <2>1 DEF OfThePast, OfRun
      <4> QED BY <4>1, <4>2, <4>3, <2>1, <1>4 DEF Value
    <3> QED BY <3>1, <3>2
  <2> QED BY <2>1, <2>2, <2>3 DEF Good, OfThePast
<1>7. EngineIs'
  <2>1. engine.batches \in Seq(GoodBatches(engine', poll))
    BY <1>6, GoodStays DEF IInv, EngineIs
  <2>2. engine.kept # None => engine.kept \in GoodBatches(engine', poll)
    BY <1>6, GoodStays DEF IInv, EngineIs
  <2> QED BY <2>1, <2>2, <1>2, <1>3, <1>4, <1>5 DEF EngineIs
<1>8. PollIs'
  BY <1>2, <1>3, <1>4 DEF IInv, PollIs, Polls
<1> QED BY <1>3, <1>6, <1>7, <1>8, EngineGoesOn

LEMMA PublishHolds == ASSUME IInv, Publish PROVE IInv'
<1> DEFINE b == Batch(engine.run, engine.tick, engine.built)
<1>1. engine' = [engine EXCEPT !.batches = Append(@, b), !.published = @ + 1, !.kept = b,
                   !.told = engine.built # Nothing]
  BY DEF Publish
<1>2. /\ engine'.run = engine.run /\ engine'.tick = engine.tick /\ engine'.built = engine.built
      /\ engine'.batches = Append(engine.batches, b) /\ engine'.kept = b
      /\ engine' = [run |-> engine'.run, tick |-> engine'.tick, built |-> engine'.built,
               batches |-> engine'.batches, kept |-> engine'.kept, told |-> engine'.told,
               changes |-> engine'.changes, published |-> engine'.published]
  BY <1>1 DEF IInv, EngineIs
<1>3. UNCHANGED <<link, store, poll>>
  BY DEF Publish, client
<1>4. /\ engine.run \in Nat /\ engine.tick \in Nat /\ engine.built \in Progress
      /\ OfRun(engine.built, engine.run, engine.tick)
  BY DEF IInv, EngineIs
<1>5. ASSUME NEW c, Good(c, engine, poll) PROVE Good(c, engine', poll)
  BY <1>5, <1>2 DEF Good, OfThePast, NotBefore
<1>6. b \in GoodBatches(engine', poll)
  <2>1. b \in Batches /\ b.run = engine.run /\ b.tick = engine.tick /\ b.states = engine.built
    BY <1>4 DEF Batch, Batches
  <2> HIDE DEF b
  <2>2. NotBefore(engine.built, b)
    BY <2>1, <1>4, OwnStates
  <2>3. Answers(poll, b)
    <3> SUFFICES ASSUME poll.at = "read", b.run = poll.run, b.tick = poll.tick
                 PROVE  NotBefore(poll.states, b)
      BY DEF Answers
    <3>1. poll.tick # -1
      BY <2>1, <1>4
    <3>2. poll.states = Only(engine.built, poll.ids)
      BY <2>1, <3>1 DEF IInv, PollIs
    <3> QED BY <3>2, <2>2, <1>4, OnlySome
  <2>4. OfThePast(b, engine')
    BY <2>1, <2>2, <1>2, <1>4 DEF OfThePast
  <2> QED BY <2>1, <2>3, <2>4, <1>4 DEF GoodBatches, Good
<1> HIDE DEF b
<1>7. EngineIs'
  <2>1. engine.batches \in Seq(GoodBatches(engine', poll))
    BY <1>5, GoodStays DEF IInv, EngineIs
  <2>2. Append(engine.batches, b) \in Seq(GoodBatches(engine', poll))
    BY <2>1, <1>6, AppendProperties
  <2> QED BY <2>2, <1>2, <1>3, <1>4, <1>6 DEF EngineIs
<1>8. PollIs'
  BY <1>2, <1>3 DEF IInv, PollIs
<1> QED BY <1>3, <1>5, <1>7, <1>8, EngineGoesOn

LEMMA ResetHolds == ASSUME IInv, Reset PROVE IInv'
<1>1. engine' = [engine EXCEPT !.run = @ + 1, !.tick = 0, !.built = Nothing, !.batches = <<>>, !.told = FALSE]
  BY DEF Reset
<1>2. /\ engine'.run = engine.run + 1 /\ engine'.tick = 0 /\ engine'.built = Nothing
      /\ engine'.batches = <<>> /\ engine'.kept = engine.kept
      /\ engine' = [run |-> engine'.run, tick |-> engine'.tick, built |-> engine'.built,
               batches |-> engine'.batches, kept |-> engine'.kept, told |-> engine'.told,
               changes |-> engine'.changes, published |-> engine'.published]
  BY <1>1 DEF IInv, EngineIs
<1>3. UNCHANGED <<link, store, poll>>
  BY DEF Reset
<1>4. engine.run \in Nat /\ engine.tick \in Nat
  BY DEF IInv, EngineIs
<1>5. ASSUME NEW c, Good(c, engine, poll) PROVE Good(c, engine', poll)
  BY <1>5, <1>2, <1>4, NothingIsProgress DEF Good, OfThePast
<1>6. EngineIs'
  <2>1. <<>> \in Seq(GoodBatches(engine', poll))
    OBVIOUS
  <2>2. engine.kept # None => engine.kept \in GoodBatches(engine', poll)
    BY <1>5, GoodStays DEF IInv, EngineIs
  <2> QED BY <2>1, <2>2, <1>2, <1>3, <1>4, NothingIsProgress DEF EngineIs
<1>7. PollIs'
  BY <1>2, <1>3, <1>4 DEF IInv, PollIs
<1> QED BY <1>3, <1>5, <1>6, <1>7, EngineGoesOn

-----------------------------------------------------------------------------
(* The stream route.                                                          *)

(* Only the link changes, and what is added to its queue is good.             *)
LEMMA LinkGoesOn ==
  ASSUME IInv, UNCHANGED <<engine, store, poll>>,
         NEW more \in Seq(GoodMessages(engine, poll)), link'.queue = link.queue \o more,
         link' = [link EXCEPT !.queue = @ \o more, !.at = link'.at, !.run = link'.run, !.pos = link'.pos],
         link'.at \in {"caught up", "live", "ended"}, link'.run \in Nat, link'.pos \in Nat
  PROVE  IInv'
<1>1. link.queue \o more \in Seq(GoodMessages(engine, poll))
  BY ConcatProperties DEF IInv, LinkIs
<1>2. LinkIs'
  BY <1>1 DEF IInv, LinkIs
<1> QED BY <1>2 DEF IInv, EngineIs, StoreIs, PollIs, NotBehindStream, NotBefore

LEMMA BootstrapHolds == ASSUME IInv, Bootstrap PROVE IInv'
<1>1. PICK boundary \in 0..Len(engine.batches) :
       link' = [Send(<<[kind |-> "snapshot", run |-> engine.run]>>
                     \o SubSeq(engine.batches, boundary + 1, Len(engine.batches)))
                  EXCEPT !.at = "caught up", !.run = engine.run, !.pos = Len(engine.batches)]
  BY DEF Bootstrap
<1>2. engine.run \in Nat /\ engine.batches \in Seq(GoodBatches(engine, poll))
  BY DEF IInv, EngineIs
<1> DEFINE sign == [kind |-> "snapshot", run |-> engine.run]
           since == SubSeq(engine.batches, boundary + 1, Len(engine.batches))
<1>3. sign \in GoodMessages(engine, poll)
  BY <1>2 DEF GoodMessages, Signs
<1>4. since \in Seq(GoodMessages(engine, poll))
  <2>1. GoodBatches(engine, poll) \subseteq GoodMessages(engine, poll)
    BY DEF GoodMessages
  <2> HIDE DEF since
  <2>2. Len(engine.batches) \in Nat /\ boundary + 1 \in 1..(Len(engine.batches) + 1)
    BY <1>2, LenProperties
  <2>3. SubSeq(engine.batches, boundary + 1, Len(engine.batches)) \in Seq(GoodBatches(engine, poll))
    BY <1>2, <2>2, SubSeqProperties
  <2> QED BY <2>1, <2>3 DEF since
<1> HIDE DEF since, sign
<1>5. <<sign>> \o since \in Seq(GoodMessages(engine, poll))
  <2>1. <<sign>> \in Seq(GoodMessages(engine, poll))
    BY <1>3
  <2> QED BY <2>1, <1>4, ConcatProperties
<1>6. PICK more : more = <<sign>> \o since
  OBVIOUS
<1>7. link' = [link EXCEPT !.queue = @ \o more, !.at = "caught up", !.run = engine.run, !.pos = Len(engine.batches)]
  BY <1>1, <1>6 DEF Send, sign, since
<1>8. /\ link'.queue = link.queue \o more /\ link'.at = "caught up" /\ link'.run = engine.run
      /\ link'.pos = Len(engine.batches)
  BY <1>7 DEF IInv, LinkIs
<1>9. Len(engine.batches) \in Nat
  BY <1>2, LenProperties
<1>10. UNCHANGED <<engine, store, poll>>
  BY DEF Bootstrap
<1> QED BY <1>2, <1>5, <1>6, <1>7, <1>8, <1>9, <1>10, LinkGoesOn

LEMMA BeginHolds == ASSUME IInv, Begin PROVE IInv'
<1>1. PICK first : first = IF engine.kept # None /\ engine.kept.run = engine.run THEN engine.kept
                           ELSE Batch(engine.run, 0, Nothing)
  OBVIOUS
<1>2. link' = [Send(<<first>>) EXCEPT !.at = "live"]
  BY <1>1 DEF Begin
<1>3. engine.run \in Nat /\ engine.tick \in Nat /\ engine.built \in Progress
      /\ OfRun(engine.built, engine.run, engine.tick)
  BY DEF IInv, EngineIs
<1>4. first \in GoodBatches(engine, poll)
  <2>1. CASE first = engine.kept /\ engine.kept # None
    BY <2>1 DEF IInv, EngineIs
  <2>2. CASE first = Batch(engine.run, 0, Nothing)
    <3>1. first \in Batches /\ first.run = engine.run /\ first.tick = 0 /\ first.states = Nothing
      BY <2>2, <1>3, NothingIsProgress DEF Batch, Batches
    <3>2. NotBefore(engine.built, first)
      BY <3>1, <1>3 DEF NotBefore, OfRun, Nothing, Progress, Values
    <3>3. OfThePast(first, engine)
      BY <3>1, <3>2, <1>3, NothingIsProgress DEF OfThePast
    <3>4. Answers(poll, first)
      <4> SUFFICES ASSUME poll.at = "read", poll.tick = 0, poll.run = engine.run
                   PROVE  NotBefore(poll.states, first)
        BY <3>1 DEF Answers
      <4>1. \A u \in Units : poll.states[u] # None =>
                             poll.states[u].run >= poll.run /\ poll.states[u].tick >= 1
        BY DEF IInv, PollIs
      <4>2. poll.states \in Progress
        BY DEF IInv, PollIs, Polls
      <4> QED BY SMTT(30), <4>1, <4>2, <3>1, <1>3 DEF NotBefore, Nothing, Progress, Values
    <3> QED BY <3>1, <3>3, <3>4, <1>3, NothingIsProgress DEF GoodBatches, Good
  <2> QED BY <1>1, <2>1, <2>2
<1>5. <<first>> \in Seq(GoodMessages(engine, poll))
  BY <1>4 DEF GoodMessages
<1>6. PICK more : more = <<first>>
  OBVIOUS
<1>7. link' = [link EXCEPT !.queue = @ \o more, !.at = "live", !.run = link.run, !.pos = link.pos]
  BY <1>2, <1>6 DEF Send, IInv, LinkIs
<1>8. link'.queue = link.queue \o more /\ link'.at = "live" /\ link'.run = link.run /\ link'.pos = link.pos
      /\ link.run \in Nat /\ link.pos \in Nat
  BY <1>7 DEF IInv, LinkIs
<1>9. UNCHANGED <<engine, store, poll>>
  BY DEF Begin
<1> QED BY <1>5, <1>6, <1>7, <1>8, <1>9, LinkGoesOn

LEMMA LiveHolds == ASSUME IInv, Live PROVE IInv'
<1>0. UNCHANGED <<engine, store, poll>> /\ link.run \in Nat /\ link.pos \in Nat /\ engine.run \in Nat
      /\ engine.batches \in Seq(GoodBatches(engine, poll))
  BY DEF Live, IInv, LinkIs, EngineIs
<1>1. ASSUME NEW more \in Seq(GoodMessages(engine, poll)),
             link' = [link EXCEPT !.queue = @ \o more, !.at = link'.at, !.run = link'.run, !.pos = link'.pos],
             link'.at \in {"live", "ended"}, link'.run = link.run, link'.pos \in Nat
      PROVE  IInv'
  <2>1. link'.queue = link.queue \o more
    BY <1>1 DEF IInv, LinkIs
  <2> QED BY <2>1, <1>0, <1>1, LinkGoesOn
<1>2. CASE /\ link.run = engine.run /\ link.pos < Len(engine.batches)
           /\ link' = [Send(<<engine.batches[link.pos + 1]>>) EXCEPT !.pos = @ + 1]
  <2>1. PICK more : more = <<engine.batches[link.pos + 1]>>
    OBVIOUS
  <2>2. engine.batches[link.pos + 1] \in GoodBatches(engine, poll)
    <3>1. Len(engine.batches) \in Nat
      BY <1>0, LenProperties
    <3>2. link.pos + 1 \in 1..Len(engine.batches)
      BY <1>0, <1>2, <3>1
    <3> QED BY <1>0, <3>2, ElementOfSeq
  <2>3. more \in Seq(GoodMessages(engine, poll))
    BY <2>1, <2>2 DEF GoodMessages
  <2>4. /\ link' = [link EXCEPT !.queue = @ \o more, !.pos = @ + 1]
        /\ link'.at = "live" /\ link'.run = link.run /\ link'.pos = link.pos + 1
    BY <1>2, <2>1 DEF Send, Live, IInv, LinkIs
  <2>5. link' = [link EXCEPT !.queue = @ \o more, !.at = link'.at, !.run = link'.run, !.pos = link'.pos]
    BY <2>4 DEF Live, IInv, LinkIs
  <2>6. link'.pos \in Nat /\ link'.at \in {"live", "ended"}
    BY <2>4, <1>0
  <2> QED BY <1>1, <2>3, <2>4, <2>5, <2>6
<1>3. CASE link' = [Send(<<[kind |-> "reset", run |-> engine.run]>>) EXCEPT !.at = "ended"]
  <2>1. PICK more : more = <<[kind |-> "reset", run |-> engine.run]>>
    OBVIOUS
  <2>2. [kind |-> "reset", run |-> engine.run] \in GoodMessages(engine, poll)
    BY <1>0 DEF GoodMessages, Signs
  <2>3. more \in Seq(GoodMessages(engine, poll))
    BY <2>1, <2>2
  <2>4. /\ link' = [link EXCEPT !.queue = @ \o more, !.at = "ended"]
        /\ link'.at = "ended" /\ link'.run = link.run /\ link'.pos = link.pos
    BY <1>3, <2>1 DEF Send, IInv, LinkIs
  <2>5. link' = [link EXCEPT !.queue = @ \o more, !.at = link'.at, !.run = link'.run, !.pos = link'.pos]
    BY <2>4 DEF Live, IInv, LinkIs
  <2> QED BY <1>0, <1>1, <2>3, <2>4, <2>5
<1> QED BY <1>2, <1>3 DEF Live

-----------------------------------------------------------------------------
(* The store.                                                                 *)

(* Another union of units leaves what the stream said, and shows a part of it *)
(* or of what was shown.                                                      *)
LEMMA SyncIdsKeeps ==
  ASSUME NEW s \in Stores
  PROVE  /\ SyncIds(s) \in Stores
         /\ SyncIds(s).run = s.run /\ SyncIds(s).tick = s.tick /\ SyncIds(s).states = s.states
         /\ SyncIds(s).blind = s.blind
         /\ \/ SyncIds(s).shown = s.shown
            \/ \E ids : SyncIds(s).shown \in {Only(s.shown, ids), Only(s.states, ids)}
<1>1. PICK ids : ids = UNION {s.sources[x] : x \in Sources}
  OBVIOUS
<1>2. PICK known : known = IF s.heard # 0 THEN s.states ELSE s.shown
  OBVIOUS
<1>3. known \in Progress /\ s.shown \in Progress /\ s.states \in Progress
  BY <1>2 DEF Stores
<1>4. Only(known, ids) \in Progress
  BY <1>3, OnlySome
<1>5. SyncIds(s) = IF ids = s.ids THEN s
                   ELSE [s EXCEPT !.ids = ids, !.rev = @ + 1, !.shown = Only(known, ids)]
  BY <1>1, <1>2 DEF SyncIds
<1>6. ids \in SUBSET Units
  <2>1. s.sources \in [Sources -> SUBSET Units]
    BY DEF Stores
  <2> QED BY <1>1, <2>1
<1>7. CASE ids = s.ids
  BY <1>5, <1>7
<1>8. CASE ids # s.ids
  <2>1. SyncIds(s) = [s EXCEPT !.ids = ids, !.rev = @ + 1, !.shown = Only(known, ids)]
    BY <1>5, <1>8
  <2>2. SyncIds(s) \in Stores
    <3>1. s.rev + 1 \in Nat
      BY DEF Stores
    <3> QED BY <2>1, <3>1, <1>4, <1>6, Zenon DEF Stores
  <2>3. /\ SyncIds(s).run = s.run /\ SyncIds(s).tick = s.tick /\ SyncIds(s).states = s.states
        /\ SyncIds(s).blind = s.blind /\ SyncIds(s).shown = Only(known, ids)
    BY <2>1 DEF Stores
  <2> QED BY <2>2, <2>3, <1>2
<1> QED BY <1>7, <1>8

(* The page goes on: engine and what is on its way stay, the store is at a    *)
(* good batch and shows nothing older, and the poll asks no more of batches.  *)
LEMMA PageGoesOn ==
  ASSUME IInv, UNCHANGED engine,
         \A b : Good(b, engine, poll) => Good(b, engine, poll'),
         link' \in [at : {"off", "open", "caught up", "live", "ended"}, run : Nat, pos : Nat,
                    queue : Seq(GoodMessages(engine, poll))],
         StoreIs', PollIs', NotBehindStream'
  PROVE  IInv'
<1>1. EngineIs'
  BY GoodStays DEF IInv, EngineIs
<1>2. LinkIs'
  <2>1. link'.queue \in Seq(GoodMessages(engine, poll'))
    BY GoodStays
  <2> QED BY <2>1 DEF LinkIs
<1> QED BY <1>1, <1>2 DEF IInv

(* Where only what is shown, the units or the moment it was heard change.     *)
LEMMA StoreGoesOn ==
  ASSUME IInv, UNCHANGED engine, PollIs',
         \A b : Good(b, engine, poll) => Good(b, engine, poll'),
         link' \in [at : {"off", "open", "caught up", "live", "ended"}, run : Nat, pos : Nat,
                    queue : Seq(GoodMessages(engine, poll))],
         store' \in Stores, store'.run = store.run, store'.tick = store.tick,
         store'.states = store.states,
         store.tick # -1 /\ ~store'.blind => NotBefore(store'.shown, store)
  PROVE  IInv'
<1>1. StoreIs'
  <2>1. store.tick # -1 => Good(store', engine, poll')
    BY GoodByFields DEF IInv, StoreIs
  <2> QED BY <2>1 DEF IInv, StoreIs
<1>2. NotBehindStream'
  BY DEF NotBehindStream, NotBefore
<1> QED BY <1>1, <1>2, PageGoesOn

LEMMA SetIdsHolds ==
  ASSUME IInv, NEW source, NEW ids \in SUBSET Units, SetIds(source, ids) PROVE IInv'
<1>1. PICK s : s = [store EXCEPT !.sources[source] = ids]
  OBVIOUS
<1>2. s \in Stores /\ s.run = store.run /\ s.tick = store.tick /\ s.states = store.states
      /\ s.shown = store.shown /\ s.blind = store.blind
  BY <1>1 DEF IInv, StoreIs, Stores
<1>3. store' = SyncIds(s)
  BY <1>1 DEF SetIds
<1>4. UNCHANGED <<engine, link, poll>>
  BY DEF SetIds, server
<1>5. /\ store' \in Stores
      /\ store'.run = store.run /\ store'.tick = store.tick /\ store'.states = store.states
      /\ store'.blind = store.blind
      /\ \/ store'.shown = store.shown
         \/ \E x : store'.shown \in {Only(store.shown, x), Only(store.states, x)}
  BY <1>2, <1>3, SyncIdsKeeps
<1>6. ASSUME store.tick # -1, ~store'.blind PROVE NotBefore(store'.shown, store)
  <2>1. NotBefore(store.shown, store)
    BY <1>5, <1>6 DEF IInv, NotBehindStream
  <2>2. NotBefore(store.states, store)
    BY <1>6, OwnStates DEF IInv, StoreIs, Good, OfThePast
  <2>3. store.shown \in Progress /\ store.states \in Progress
    BY DEF IInv, StoreIs, Stores
  <2> QED BY <1>5, <2>1, <2>2, <2>3, OnlySome
<1>7. PollIs'
  BY <1>4 DEF IInv, PollIs
<1>8. link' \in [at : {"off", "open", "caught up", "live", "ended"}, run : Nat, pos : Nat,
                 queue : Seq(GoodMessages(engine, poll))]
  BY <1>4 DEF IInv, LinkIs
<1> QED BY <1>4, <1>5, <1>6, <1>7, <1>8, StoreGoesOn

-----------------------------------------------------------------------------
(* The stream at the page.                                                    *)

(* A connection that is gone takes what was on its way with it.               *)
LEMMA NoLinkIs ==
  NoLink \in [at : {"off", "open", "caught up", "live", "ended"}, run : Nat, pos : Nat,
              queue : Seq(GoodMessages(engine, poll))]
<1>1. <<>> \in Seq(GoodMessages(engine, poll))
  OBVIOUS
<1> QED BY <1>1 DEF NoLink

(* A moment the stream was heard makes no difference to what was asked.       *)
LEMMA OvertakenIs ==
  ASSUME IInv, UNCHANGED engine, poll' \in {poll, Overtaken(poll)}
  PROVE  PollIs' /\ \A b : Good(b, engine, poll) => Good(b, engine, poll')
<1>1. poll \in Polls
  BY DEF IInv, PollIs
<1>2. /\ poll' \in Polls
      /\ poll'.at = poll.at /\ poll'.run = poll.run /\ poll'.tick = poll.tick
      /\ poll'.states = poll.states /\ poll'.ids = poll.ids
  BY <1>1 DEF Overtaken, Past, Polls
<1>3. \A b : Good(b, engine, poll) => Good(b, engine, poll')
  BY <1>2, SamePoll
<1> QED BY <1>2, <1>3 DEF IInv, PollIs

LEMMA OpenHolds == ASSUME IInv, Open PROVE IInv'
<1>1. /\ store' = [store EXCEPT !.heard = 1] /\ poll' = Overtaken(poll) /\ UNCHANGED engine
      /\ link' = [NoLink EXCEPT !.at = "open"]
  BY DEF Open
<1>2. link' \in [at : {"off", "open", "caught up", "live", "ended"}, run : Nat, pos : Nat,
                 queue : Seq(GoodMessages(engine, poll))]
  BY <1>1, NoLinkIs
<1>3. /\ store' \in Stores /\ store'.run = store.run /\ store'.tick = store.tick
      /\ store'.states = store.states /\ store'.shown = store.shown /\ store'.blind = store.blind
  BY <1>1 DEF IInv, StoreIs, Stores
<1>4. store.tick # -1 /\ ~store'.blind => NotBefore(store'.shown, store)
  BY <1>3 DEF IInv, NotBehindStream
<1> QED BY <1>1, <1>2, <1>3, <1>4, OvertakenIs, StoreGoesOn

LEMMA DropHolds == ASSUME IInv, Drop PROVE IInv'
<1>1. store' = [store EXCEPT !.heard = 0] /\ UNCHANGED <<engine, poll>> /\ link' = NoLink
  BY DEF Drop
<1>3. /\ store' \in Stores /\ store'.run = store.run /\ store'.tick = store.tick
      /\ store'.states = store.states /\ store'.shown = store.shown /\ store'.blind = store.blind
  BY <1>1 DEF IInv, StoreIs, Stores
<1>4. store.tick # -1 /\ ~store'.blind => NotBefore(store'.shown, store)
  BY <1>3 DEF IInv, NotBehindStream
<1> QED BY <1>1, <1>3, <1>4, NoLinkIs, OvertakenIs, StoreGoesOn

LEMMA ResetStreamIs ==
  ASSUME NEW s \in Stores
  PROVE  ResetStream(s) \in Stores /\ ResetStream(s).tick = -1
<1>1. ResetStream(s) = [s EXCEPT !.states = Nothing, !.run = None, !.tick = -1, !.heard = 0,
                                 !.shown = Nothing, !.blind = FALSE]
  BY DEF ResetStream
<1>2. -1 \in Int /\ 0 \in Nat /\ FALSE \in BOOLEAN /\ None \in Nat \cup {None}
  OBVIOUS
<1>3. ResetStream(s) \in Stores
  BY <1>1, <1>2, NothingIsProgress, Zenon DEF Stores
<1> QED BY <1>1, <1>3 DEF Stores

LEMMA ApplyIs ==
  ASSUME NEW s \in Stores, NEW b \in Batches, ~Older(s, b)
  PROVE  /\ ApplyStreamBatch(s, b) \in Stores
         /\ ApplyStreamBatch(s, b).run = b.run /\ ApplyStreamBatch(s, b).tick = b.tick
         /\ ApplyStreamBatch(s, b).states = b.states
         /\ ApplyStreamBatch(s, b).shown = Only(b.states, s.ids)
<1>1. ApplyStreamBatch(s, b) =
        [s EXCEPT !.run = b.run, !.tick = b.tick, !.states = b.states, !.heard = 1,
                  !.shown = Only(b.states, s.ids), !.blind = FALSE]
  BY DEF ApplyStreamBatch
<1>2. b.run \in Nat /\ b.tick \in Nat /\ b.tick \in Int /\ b.states \in Progress
  BY DEF Batches
<1>3. Only(b.states, s.ids) \in Progress
  BY <1>2, OnlySome
<1>4. ApplyStreamBatch(s, b) \in Stores
  <2>1. 1 \in Nat /\ FALSE \in BOOLEAN
    OBVIOUS
  <2> QED BY <1>1, <1>2, <1>3, <2>1, Zenon DEF Stores
<1> QED BY <1>1, <1>4 DEF Stores

LEMMA DeliverHolds == ASSUME IInv, Deliver PROVE IInv'
<1>1. PICK m : m = Head(link.queue)
  OBVIOUS
<1>2. PICK read : read = [link EXCEPT !.queue = Tail(@)]
  OBVIOUS
<1> DEFINE Links == [at : {"off", "open", "caught up", "live", "ended"}, run : Nat, pos : Nat,
                     queue : Seq(GoodMessages(engine, poll))]
<1>3. link \in Links /\ store \in Stores /\ UNCHANGED engine
  BY DEF Deliver, IInv, LinkIs, StoreIs
<1>4. read \in Links /\ m \in GoodMessages(engine, poll)
  <2>1. link.queue \in Seq(GoodMessages(engine, poll)) /\ link.queue # <<>>
    BY DEF Deliver, IInv, LinkIs
  <2>2. Tail(link.queue) \in Seq(GoodMessages(engine, poll)) /\ m \in GoodMessages(engine, poll)
    BY <1>1, <2>1, HeadTailProperties
  <2> QED BY <1>2, <1>3, <2>2
<1> HIDE DEF Links
(* The store and the poll are left alone, or the store forgets the stream.    *)
<1>5. ASSUME link' \in Links, UNCHANGED poll, store' \in {store, ResetStream(store)}
      PROVE  IInv'
  <2>1. CASE store' = store
    BY <1>3, <1>5, <2>1, OvertakenIs, StoreGoesOn DEF Links, IInv, NotBehindStream
  <2>2. CASE store' = ResetStream(store)
    <3>1. store' \in Stores /\ store'.tick = -1
      BY <1>3, <2>2, ResetStreamIs
    <3>2. StoreIs' /\ NotBehindStream'
      BY <3>1 DEF StoreIs, NotBehindStream
    <3> QED BY <1>3, <1>5, <3>2, OvertakenIs, PageGoesOn DEF Links
  <2> QED BY <1>5, <2>1, <2>2
<1>6. CASE /\ m.kind = "snapshot" /\ link' = read
           /\ store' = IF m.run = shownRun THEN store ELSE ResetStream(store)
           /\ UNCHANGED poll
  BY <1>4, <1>5, <1>6
<1>7. CASE /\ m.kind = "batch" /\ link' = read
           /\ store' = IF m.run = shownRun THEN ApplyStreamBatch(store, m) ELSE store
           /\ poll' = IF m.run # shownRun \/ Older(store, m) THEN poll ELSE Overtaken(poll)
  <2>1. CASE m.run # shownRun \/ Older(store, m)
    <3>1. store' = store
      BY <1>7, <2>1 DEF ApplyStreamBatch
    <3> QED BY <1>4, <1>5, <1>7, <2>1, <3>1
  <2>2. CASE m.run = shownRun /\ ~Older(store, m)
    <3>1. m \in Batches /\ Good(m, engine, poll)
      BY <1>4, <1>7 DEF GoodMessages, GoodBatches, Signs
    <3>2. /\ store' \in Stores /\ store'.run = m.run /\ store'.tick = m.tick
          /\ store'.states = m.states /\ store'.shown = Only(m.states, store.ids)
      BY <1>3, <1>7, <2>2, <3>1, ApplyIs
    <3>3. poll' = Overtaken(poll)
      BY <1>7, <2>2
    <3>4. PollIs' /\ \A b : Good(b, engine, poll) => Good(b, engine, poll')
      BY <1>3, <3>3, OvertakenIs
    <3>5. Good(store', engine, poll')
      BY <3>1, <3>2, <3>4, GoodByFields
    <3>6. StoreIs'
      BY <1>3, <3>1, <3>2, <3>5 DEF StoreIs, Batches
    <3>7. NotBefore(m.states, m)
      BY <3>1, OwnStates DEF Good, OfThePast
    <3>8. NotBefore(store'.shown, store')
      <4>1. NotBefore(store'.shown, m)
        BY <3>1, <3>2, <3>7, OnlySome DEF Batches
      <4> QED BY <3>2, <4>1 DEF NotBefore
    <3>9. NotBehindStream'
      BY <3>8 DEF NotBehindStream, NotBefore
    <3> QED BY <1>3, <1>4, <1>7, <3>4, <3>6, <3>9, PageGoesOn DEF Links
  <2> QED BY <2>1, <2>2
<1>8. CASE /\ m.kind = "reset" /\ UNCHANGED poll
           /\ IF m.run = shownRun THEN link' = read /\ UNCHANGED store
              ELSE link' = NoLink /\ store' = ResetStream(store)
  BY <1>4, <1>5, <1>8, NoLinkIs DEF Links
<1> QED BY <1>1, <1>2, <1>6, <1>7, <1>8 DEF Deliver

-----------------------------------------------------------------------------
(* The request.                                                               *)

LEMMA WaitHolds == ASSUME IInv, Wait PROVE IInv'
<1>1. UNCHANGED <<engine, link, store, poll>>
  BY DEF Wait, server
<1> QED BY <1>1 DEF IInv, EngineIs, LinkIs, StoreIs, PollIs, NotBehindStream, NotBefore

(* A poll that is not answered yet, or is over.                               *)
LEMMA Unanswered ==
  ASSUME IInv, UNCHANGED <<engine, link>>, PollIs', poll'.at # "read",
         store' \in Stores, store'.run = store.run, store'.tick = store.tick,
         store'.states = store.states,
         store.tick # -1 /\ ~store'.blind => NotBefore(store'.shown, store)
  PROVE  IInv'
<1>1. \A b : Good(b, engine, poll) => Good(b, engine, poll')
  BY SamePoll
<1>2. link' \in [at : {"off", "open", "caught up", "live", "ended"}, run : Nat, pos : Nat,
                 queue : Seq(GoodMessages(engine, poll))]
  BY DEF IInv, LinkIs
<1> QED BY <1>1, <1>2, StoreGoesOn

LEMMA PollHolds == ASSUME IInv, Poll PROVE IInv'
<1>1. /\ poll' = [at |-> "asked", ids |-> store.ids, rev |-> store.rev, tick |-> store.tick,
                  heard |-> store.heard, run |-> store.run, states |-> Nothing]
      /\ UNCHANGED <<engine, link, store>>
  BY DEF Poll, server
<1>2. store \in Stores /\ (store.tick # -1 => Good(store, engine, poll))
  BY DEF IInv, StoreIs
<1>3. poll' \in Polls
  BY <1>1, <1>2, NothingIsProgress DEF Polls, Stores
<1>4. PollIs'
  BY <1>1, <1>2, <1>3 DEF PollIs, Good, OfThePast
<1>5. poll'.at # "read"
  BY <1>1
<1> QED BY <1>1, <1>2, <1>4, <1>5, Unanswered DEF IInv, NotBehindStream

LEMMA NoPollIs == ASSUME poll' = NoPoll PROVE PollIs' /\ poll'.at # "read"
BY NothingIsProgress DEF NoPoll, PollIs, Polls

LEMMA FailsHolds == ASSUME IInv, Fails PROVE IInv'
<1>1. poll' = NoPoll /\ UNCHANGED <<engine, link, store>>
  BY DEF Fails, Failed, server
<1> QED BY <1>1, NoPollIs, Unanswered DEF IInv, StoreIs, NotBehindStream

LEMMA ReadHolds == ASSUME IInv, Read PROVE IInv'
<1>1. /\ poll.at = "asked" /\ UNCHANGED <<engine, link, store>>
      /\ poll' = [poll EXCEPT !.at = "read", !.states = Only(engine.built, poll.ids)]
  BY DEF Read, server
<1>2. poll \in Polls /\ engine.built \in Progress /\ OfRun(engine.built, engine.run, engine.tick)
      /\ engine.run \in Nat /\ engine.tick \in Nat
  BY DEF IInv, PollIs, EngineIs
<1>3. Only(engine.built, poll.ids) \in Progress
      /\ OfRun(Only(engine.built, poll.ids), engine.run, engine.tick)
  BY <1>2, OnlySome
<1>4. poll'.at = "read" /\ poll'.states = Only(engine.built, poll.ids) /\ poll'.ids = poll.ids
      /\ poll'.run = poll.run /\ poll'.tick = poll.tick /\ poll' \in Polls
  BY <1>1, <1>2, <1>3 DEF Polls
<1>5. ASSUME NEW b, Good(b, engine, poll) PROVE Good(b, engine, poll')
  BY <1>2, <1>4, <1>5, OnlySome DEF Good, Answers, OfThePast
<1>6. PollIs'
  <2>1. ASSUME poll.tick # -1, NEW u \in Units, poll'.states[u] # None
        PROVE  poll'.states[u].run >= poll.run /\ poll'.states[u].tick >= 1
    <3>1. poll.run \in Nat /\ poll.run <= engine.run
      BY <2>1 DEF IInv, PollIs
    <3>2. poll'.states[u].run = engine.run /\ poll'.states[u].tick \in 1..engine.tick
      BY <1>3, <1>4, <2>1 DEF OfRun
    <3> QED BY <3>1, <3>2, <1>2
  <2> QED BY <1>1, <1>4, <2>1 DEF IInv, PollIs
<1>7. link' \in [at : {"off", "open", "caught up", "live", "ended"}, run : Nat, pos : Nat,
                 queue : Seq(GoodMessages(engine, poll))]
  BY <1>1 DEF IInv, LinkIs
<1> QED BY <1>1, <1>5, <1>6, <1>7, StoreGoesOn DEF IInv, StoreIs, NotBehindStream

LEMMA AnsweredHolds == ASSUME IInv, Answered PROVE IInv'
<1>1. /\ poll.at = "read" /\ poll' = NoPoll /\ UNCHANGED <<engine, link>>
      /\ store' = IF Counts THEN [store EXCEPT !.shown = poll.states, !.blind = poll.run # store.run]
                  ELSE store
  BY DEF Answered, server
<1>2. store \in Stores /\ poll \in Polls
  BY DEF IInv, StoreIs, PollIs
<1>3. CASE Counts
  <2>1. store' = [store EXCEPT !.shown = poll.states, !.blind = poll.run # store.run]
    BY <1>1, <1>3
  <2>2. /\ store' \in Stores /\ store'.run = store.run /\ store'.tick = store.tick
        /\ store'.states = store.states /\ store'.shown = poll.states
        /\ store'.blind = (poll.run # store.run)
    <3>1. poll.states \in Progress /\ (poll.run # store.run) \in BOOLEAN
      BY <1>2 DEF Polls
    <3>2. store' \in Stores
      BY <1>2, <2>1, <3>1, Zenon DEF Stores
    <3> QED BY <1>2, <2>1, <3>2 DEF Stores
  <2>3. ASSUME store.tick # -1, ~store'.blind PROVE NotBefore(store'.shown, store)
    <3>1. Answers(poll, store)
      BY <2>3 DEF IInv, StoreIs, Good
    <3> QED BY <1>1, <1>3, <2>2, <2>3, <3>1 DEF Answers, Counts
  <2> QED BY <1>1, <2>2, <2>3, NoPollIs, Unanswered
<1>4. CASE ~Counts
  BY <1>1, <1>2, <1>4, NoPollIs, Unanswered DEF IInv, NotBehindStream
<1> QED BY <1>3, <1>4

-----------------------------------------------------------------------------
LEMMA NextHolds == ASSUME IInv, [NextProgress]_progress PROVE IInv'
<1>1. CASE UNCHANGED progress
  BY <1>1 DEF progress, IInv, EngineIs, LinkIs, StoreIs, PollIs, NotBehindStream, NotBefore
<1>2. CASE Engine
  BY <1>2, AdvanceHolds, PublishHolds, ResetHolds DEF Engine
<1>3. CASE Stream
  BY <1>3, OpenHolds, BootstrapHolds, BeginHolds, LiveHolds, DeliverHolds DEF Stream
<1>4. CASE Scan
  BY <1>4, SetIdsHolds DEF Scan
<1>5. CASE Panel
  <2>1. PICK ids \in {{}} \cup {{u} : u \in Units} : SetIds("panel", ids)
    BY <1>5 DEF Panel
  <2>2. ids \in SUBSET Units
    OBVIOUS
  <2> QED BY <2>1, <2>2, SetIdsHolds
<1>6. CASE Polling
  BY <1>6, WaitHolds, PollHolds, ReadHolds, AnsweredHolds DEF Polling
<1> QED BY <1>1, <1>2, <1>3, <1>4, <1>5, <1>6, DropHolds, FailsHolds DEF NextProgress

(* NotBehindStream: what is shown of builds is never older than the last      *)
(* batch that was applied, however batches, requests, resets, lost            *)
(* connections and changes of the followed units are interleaved              *)
(* (applyStreamBatch, syncIds, resetStream and poll of buildProgressStore.ts).*)
THEOREM ShownIsNotBehind == Progressing => []NotBehindStream
<1>1. InitProgress => IInv
  BY InitHolds
<1>2. IInv /\ [NextProgress]_progress => IInv'
  BY NextHolds
<1>3. IInv => NotBehindStream
  BY DEF IInv
<1> QED BY <1>1, <1>2, <1>3, PTL DEF Progressing

-----------------------------------------------------------------------------
(* CommandInput.                                                              *)

(* A HUD whose delivery, if one is being chosen and without haste, is for the *)
(* selection that was shown last.                                             *)
IsHud(h)  == h = [f \in {"sel", "mode", "measuring", "menus"} |-> h[f]]
IsMode(m) ==
  /\ m = [kind |-> m.kind, picked |-> m.picked, donor |-> m.donor, for |-> m.for, hasty |-> m.hasty]
  /\ m.hasty \in BOOLEAN
ForSeen(m) == Delivery(m) /\ ~m.hasty => m.for = seen.sel
Fresh(h)  == IsHud(h) /\ IsMode(h.mode) /\ ForSeen(h.mode)

ForItsChoice(orders) == \A o \in orders : o.kind \in Deliveries /\ ~o.hasty => o.who = {Leader(o.for)}
Apart(orders) == \A o, p \in orders : o = p \/ o.who \cap p.who = {}

(* What an input may come to.                                                 *)
Fine(d) ==
  /\ Fresh(d.hud) /\ ForItsChoice(d.gave)
  /\ {"build", "upgrade"} \subseteq seen.menus \/ Apart(d.gave)

InputInv == Fresh(hud) /\ IsHud(seen) /\ IsMode(seen.mode) /\ ForItsChoice(gave)

-----------------------------------------------------------------------------
(* The reducer.                                                               *)

LEMMA Modes == IsMode(NoMode) /\ ~Delivery(NoMode) /\ \A kind : IsMode(Mode(kind)) /\ ForSeen(Mode(kind))
BY DEF IsMode, NoMode, Mode, Delivery, ForSeen, Deliveries

LEMMA ActionSet == ASSUME NEW h, Fresh(h), NEW m, IsMode(m), ForSeen(m) PROVE Fresh(SetAction(h, m))
<1>1. PICK x : x = (h.measuring /\ m.kind = "none")
  OBVIOUS
<1>2. SetAction(h, m) = [h EXCEPT !.mode = m, !.measuring = x]
  BY <1>1, Zenon DEF SetAction
<1> QED BY <1>2 DEF Fresh, IsHud

LEMMA ModeCleared == ASSUME NEW h, Fresh(h) PROVE Fresh(SetAction(h, NoMode))
BY ActionSet, Modes DEF ForSeen

LEMMA Measured == ASSUME NEW h, Fresh(h), NEW b PROVE Fresh(SetMeasuring(h, b))
<1>1. PICK m : m = IF b THEN NoMode ELSE h.mode
  OBVIOUS
<1>2. SetMeasuring(h, b) = [h EXCEPT !.measuring = b, !.mode = m]
  BY <1>1, Zenon DEF SetMeasuring
<1>3. IsMode(m) /\ ForSeen(m)
  BY <1>1, Modes DEF Fresh, ForSeen
<1> QED BY <1>2, <1>3 DEF Fresh, IsHud

LEMMA Idles == ASSUME NEW h, Fresh(h) PROVE Fresh(Idle(h))
BY ModeCleared, Measured DEF Idle

LEMMA MenusSet == ASSUME NEW h, Fresh(h), NEW x PROVE Fresh([h EXCEPT !.menus = x])
BY DEF Fresh, IsHud

LEMMA Selects == ASSUME NEW h, Fresh(h), NEW s PROVE Fresh(Select(h, s))
BY DEF Fresh, IsHud, Select

LEMMA SelectsMore ==
  ASSUME NEW h, Fresh(h), NEW S, NEW t
  PROVE  Fresh(AddToSelection(h, S)) /\ Fresh(RemoveFromSelection(h, t))
BY Selects DEF AddToSelection, RemoveFromSelection

-----------------------------------------------------------------------------
(* Orders.                                                                    *)

LEMMA NoOrders == ForItsChoice({}) /\ Apart({})
BY DEF ForItsChoice, Apart

LEMMA EachIs ==
  ASSUME NEW kind, kind \notin Deliveries, NEW target
  PROVE  /\ ForItsChoice(Each(kind, target)) /\ Apart(Each(kind, target))
         /\ \A S : S \subseteq Each(kind, target) => ForItsChoice(S) /\ Apart(S)
<1>1. ASSUME NEW S, S \subseteq Each(kind, target) PROVE ForItsChoice(S) /\ Apart(S)
  <2>1. \A o \in S : \E t \in Selected : o = Order(kind, {t}, target)
    BY <1>1 DEF Each
  <2>2. \A o \in S : o.kind = kind
    BY <2>1 DEF Order
  <2>3. ForItsChoice(S)
    BY <2>2 DEF ForItsChoice
  <2>4. ASSUME NEW o \in S, NEW p \in S, o # p PROVE o.who \cap p.who = {}
    <3>1. PICK t, u : o = Order(kind, {t}, target) /\ p = Order(kind, {u}, target)
      BY <2>1
    <3>2. t # u /\ o.who = {t} /\ p.who = {u}
      BY <2>4, <3>1 DEF Order
    <3> QED BY <3>2
  <2> QED BY <2>3, <2>4 DEF Apart
<1> QED BY <1>1

LEMMA OneOrder ==
  ASSUME NEW o, o.kind \in Deliveries /\ ~o.hasty => o.who = {Leader(o.for)}
  PROVE  ForItsChoice({o}) /\ Apart({o})
BY DEF ForItsChoice, Apart

LEMMA DoneIs ==
  ASSUME NEW h, Fresh(h), NEW orders, ForItsChoice(orders), Apart(orders)
  PROVE  Fine(Done(h, orders))
BY DEF Fine, Done

LEMMA NothingDone == ASSUME NEW h, Fresh(h) PROVE Fine(Done(h, {}))
BY DoneIs, NoOrders

LEMMA CollectionStarts ==
  ASSUME NEW h, Fresh(h) PROVE Fine(StartCollection(h))
<1>1. PICK d : d = SetAction(h, NoMode)
  OBVIOUS
<1>2. PICK x : x = d.menus \ {"collect"}
  OBVIOUS
<1>3. Fresh([d EXCEPT !.menus = x])
  BY <1>1, ModeCleared, MenusSet
<1>4. PICK orders : orders = Each("Collect", NoThing)
  OBVIOUS
<1>5. ForItsChoice(orders) /\ Apart(orders)
  BY <1>4, EachIs DEF Deliveries
<1>6. StartCollection(h) = Done([d EXCEPT !.menus = x], orders)
  BY <1>1, <1>2, <1>4 DEF StartCollection
<1> QED BY <1>3, <1>5, <1>6, DoneIs

LEMMA CollectPickerOpens == ASSUME NEW h, Fresh(h) PROVE Fine(OpenCollectPicker(h))
<1>1. PICK d : d = SetAction(h, NoMode)
  OBVIOUS
<1>2. PICK x : x = IF "collect" \in d.menus THEN {} ELSE {"collect"}
  OBVIOUS
<1>3. Fresh([d EXCEPT !.menus = x])
  BY <1>1, ModeCleared, MenusSet
<1>4. OpenCollectPicker(h) \in {Done(h, {}), StartCollection(h), Done([d EXCEPT !.menus = x], {})}
  BY <1>1, <1>2 DEF OpenCollectPicker
<1> QED BY <1>3, <1>4, CollectionStarts, NothingDone

LEMMA BuildStarts ==
  ASSUME NEW h, Fresh(h), NEW append PROVE Fine(StartBuild(h, append))
<1>1. PICK d : d = SetAction(h, NoMode)
  OBVIOUS
<1>2. PICK x : x = d.menus \ {"build"}
  OBVIOUS
<1>3. Fresh([d EXCEPT !.menus = x])
  BY <1>1, ModeCleared, MenusSet
<1>4. PICK orders : orders = Each("Build", NoThing)
  OBVIOUS
<1>5. ForItsChoice(orders) /\ Apart(orders)
  BY <1>4, EachIs DEF Deliveries
<1>6. StartBuild(h, append) \in {Done(h, {}), Done([d EXCEPT !.menus = x], orders)}
  BY <1>1, <1>2, <1>4 DEF StartBuild
<1> QED BY <1>3, <1>5, <1>6, DoneIs, NothingDone

LEMMA OneStarts ==
  ASSUME NEW h, Fresh(h), NEW menu, NEW kind, kind \in {"Upgrade", "Research"}
  PROVE  Fine(StartOne(h, menu, kind))
<1>1. PICK d : d = SetAction(h, NoMode)
  OBVIOUS
<1>2. PICK x : x = d.menus \ {menu}
  OBVIOUS
<1>3. Fresh([d EXCEPT !.menus = x])
  BY <1>1, ModeCleared, MenusSet
<1>4. PICK o : o = Order(kind, {First}, NoThing)
  OBVIOUS
<1>5. ForItsChoice({o}) /\ Apart({o})
  BY <1>4, OneOrder DEF Order, Deliveries
<1>6. StartOne(h, menu, kind) \in {Done(h, {}), Done([d EXCEPT !.menus = x], {o})}
  BY <1>1, <1>2, <1>4 DEF StartOne
<1> QED BY <1>3, <1>5, <1>6, DoneIs, NothingDone

-----------------------------------------------------------------------------
(* Buttons.                                                                   *)

LEMMA Toggles == ASSUME NEW h, Fresh(h), NEW kind PROVE Fresh(Toggle(h, kind))
<1>1. PICK m : m = IF seen.mode.kind = kind THEN NoMode ELSE Mode(kind)
  OBVIOUS
<1>2. IsMode(m) /\ ForSeen(m)
  BY <1>1, Modes DEF ForSeen
<1>3. Toggle(h, kind) = SetAction(h, m)
  BY <1>1 DEF Toggle
<1> QED BY <1>2, <1>3, ActionSet

(* What is picked while nothing is due, is picked for what is seen.           *)
LEMMA Picks == ASSUME InputInv PROVE Fine(PickAll) /\ \A r : Fine(Pick(r))
<1>1. ASSUME NEW x PROVE Fine(Picked(x))
  <2>1. PICK m0 : m0 = [seen.mode EXCEPT !.picked = x]
    OBVIOUS
  <2>2. PICK m : m = Hurried(m0)
    OBVIOUS
  <2>3. IsMode(m0) /\ m0.kind = seen.mode.kind /\ m0.for = seen.mode.for /\ m0.hasty = seen.mode.hasty
    BY <2>1 DEF InputInv, IsMode
  <2>4. IsMode(m) /\ ForSeen(m)
    <3>1. CASE RenderDue
      BY <3>1, <2>2, <2>3 DEF Hurried, IsMode, ForSeen
    <3>2. CASE ~RenderDue
      <4>1. m = m0 /\ hud = seen
        BY <3>2, <2>2 DEF Hurried, RenderDue
      <4> QED BY <4>1, <2>3 DEF InputInv, Fresh, ForSeen, Delivery
    <3> QED BY <3>1, <3>2
  <2>5. Fresh(SetAction(hud, m))
    BY <2>4, ActionSet DEF InputInv
  <2>6. Picked(x) = Done(SetAction(hud, m), {})
    BY <2>1, <2>2, Zenon DEF Picked
  <2> QED BY <2>5, <2>6, NothingDone
<1> QED BY <1>1 DEF PickAll, Pick

LEMMA ActionClicked == ASSUME Fresh(hud), NEW value PROVE Fine(ClickAction(value))
<1>1. PICK unmeasured : unmeasured = SetMeasuring(hud, FALSE)
  OBVIOUS
<1>2. PICK h : h = IF value \notin Deliveries /\ Delivery(seen.mode)
                     THEN SetAction(unmeasured, NoMode) ELSE unmeasured
  OBVIOUS
<1>3. Fresh(h)
  BY <1>1, <1>2, Measured, ModeCleared
<1>4. PICK d : d = SetAction(h, NoMode)
  OBVIOUS
<1>5. Fresh(d)
  BY <1>3, <1>4, ModeCleared
<1>6. ASSUME NEW menu, NEW others PROVE Fine(Done([d EXCEPT !.menus = Flip(d.menus, menu, others)], {}))
  <2>1. PICK x : x = Flip(d.menus, menu, others)
    OBVIOUS
  <2>2. Fine(Done([d EXCEPT !.menus = x], {}))
    BY <1>5, MenusSet, NothingDone
  <2> QED BY <2>1, <2>2
<1>7. Fine(Done([Toggle(h, value) EXCEPT !.menus = {}], {}))
  <2>1. PICK t : t = Toggle(h, value)
    OBVIOUS
  <2>2. Fine(Done([t EXCEPT !.menus = {}], {}))
    BY <2>1, <1>3, Toggles, MenusSet, NothingDone
  <2> QED BY <2>1, <2>2
<1>8. Fine(Done(Toggle(h, value), {})) /\ Fine(Done(d, {})) /\ Fine(OpenCollectPicker(h))
  BY <1>3, <1>5, Toggles, NothingDone, CollectPickerOpens
<1>9. Fine(Done(SetMeasuring(hud, ~seen.measuring), {}))
  <2>1. PICK b : b = ~seen.measuring
    OBVIOUS
  <2>2. Fine(Done(SetMeasuring(hud, b), {}))
    BY Measured, NothingDone
  <2> QED BY <2>1, <2>2
<1>10. value \in {"JettisonCargo", "SelfDestruct"} =>
         Fine(Done(hud, Each(value, NoThing))) /\ Fine(Done(Idle(hud), Each(value, NoThing)))
  BY EachIs, Idles, DoneIs DEF Deliveries
<1>11. \/ value = "JettisonCargo" /\ ClickAction(value) = Done(hud, Each(value, NoThing))
       \/ value = "SelfDestruct" /\ ClickAction(value) = Done(Idle(hud), Each(value, NoThing))
       \/ ClickAction(value) = Done(SetMeasuring(hud, ~seen.measuring), {})
       \/ \E menu, others : ClickAction(value) = Done([d EXCEPT !.menus = Flip(d.menus, menu, others)], {})
       \/ ClickAction(value) \in {OpenCollectPicker(h), Done(d, {}), Done(Toggle(h, value), {}),
                                  Done([Toggle(h, value) EXCEPT !.menus = {}], {})}
  BY <1>1, <1>2, <1>4 DEF ClickAction
<1> QED BY <1>6, <1>7, <1>8, <1>9, <1>10, <1>11

-----------------------------------------------------------------------------
(* Keys.                                                                      *)

LEMMA KeysCaptured == ASSUME InputInv, NEW k, NEW d \in Captured(k) PROVE Fine(d)
<1>1. Fine(Done(SetAction(hud, NoMode), {})) /\ Fine(NoEffect)
  BY ModeCleared, NothingDone DEF NoEffect, InputInv
<1> QED BY <1>1, ActionClicked, Picks DEF Captured, InputInv

(* On the map only C gives orders.                                            *)
LEMMA MapKeyed ==
  ASSUME Fresh(hud), NEW k, NEW d \in MapKey(k)
  PROVE  Fine(d) /\ (k # "c" => d.gave = {})
<1>1. ASSUME NEW h, Fresh(h), d = Done(h, {}) PROVE Fine(d) /\ d.gave = {}
  BY <1>1, NothingDone DEF Done
<1>2. ASSUME NEW kind, d = Done(SetAction(hud, Mode(kind)), {}) PROVE Fine(d) /\ d.gave = {}
  <2>1. Fresh(SetAction(hud, Mode(kind)))
    BY Modes, ActionSet
  <2> QED BY <2>1, <1>1, <1>2
<1>3. ASSUME NEW b, d = Done(SetMeasuring(hud, b), {}) PROVE Fine(d) /\ d.gave = {}
  BY <1>1, <1>3, Measured
<1>4. ASSUME NEW t, d = Done(Select(hud, <<t>>), {}) PROVE Fine(d) /\ d.gave = {}
  <2>1. Fresh(Select(hud, <<t>>))
    BY Selects
  <2> QED BY <2>1, <1>1, <1>4
<1>5. CASE d = OpenCollectPicker(hud) /\ k = "c"
  BY <1>5, CollectPickerOpens
<1>6. ASSUME d = Done(Idle(hud), {}) \/ d = NoEffect PROVE Fine(d) /\ d.gave = {}
  BY <1>6, <1>1, Idles DEF NoEffect
<1>7. \/ \E kind : d = Done(SetAction(hud, Mode(kind)), {})
      \/ \E b : d = Done(SetMeasuring(hud, b), {})
      \/ \E t : d = Done(Select(hud, <<t>>), {})
      \/ d = OpenCollectPicker(hud) /\ k = "c"
      \/ d = Done(Idle(hud), {}) \/ d = NoEffect
  BY DEF MapKey
<1>8. \/ Fine(d) /\ d.gave = {}
      \/ d = OpenCollectPicker(hud) /\ k = "c"
  BY <1>2, <1>3, <1>4, <1>6, <1>7
<1> QED BY <1>5, <1>8

(* The menus for building and upgrading give orders together only if both are *)
(* open.                                                                      *)
LEMMA BuildsAndUpgrades ==
  ASSUME NEW h, Fresh(h), NEW k, NEW append
  PROVE  Fine(BuildAndUpgrade(h, k, append)) /\ (~IsOption(k) => BuildAndUpgrade(h, k, append).gave = {})
<1>1. PICK built : built = IF "build" \in seen.menus /\ IsOption(k) THEN StartBuild(h, append) ELSE Done(h, {})
  OBVIOUS
<1>2. Fine(built)
  BY <1>1, BuildStarts, NothingDone
<1>3. Fresh(built.hud)
  BY <1>2 DEF Fine
<1>4. PICK up : up = IF "upgrade" \in seen.menus /\ IsOption(k) THEN StartOne(built.hud, "upgrade", "Upgrade")
                     ELSE Done(built.hud, {})
  OBVIOUS
<1>5. Fine(up)
  BY <1>3, <1>4, OneStarts, NothingDone
<1>6. PICK orders : orders = built.gave \cup up.gave
  OBVIOUS
<1>7. BuildAndUpgrade(h, k, append) = Done(up.hud, orders)
  BY <1>1, <1>4, <1>6 DEF BuildAndUpgrade
<1>8. ForItsChoice(orders)
  BY <1>2, <1>5, <1>6 DEF Fine, ForItsChoice
<1>9. built.gave = {} \/ ("build" \in seen.menus /\ IsOption(k))
  BY <1>1 DEF Done
<1>10. up.gave = {} \/ ("upgrade" \in seen.menus /\ IsOption(k))
  BY <1>4 DEF Done
<1>11. {"build", "upgrade"} \subseteq seen.menus \/ Apart(orders)
  <2>1. CASE built.gave = {}
    BY <2>1, <1>5, <1>6 DEF Fine
  <2>2. CASE up.gave = {}
    BY <2>2, <1>2, <1>6 DEF Fine
  <2> QED BY <2>1, <2>2, <1>9, <1>10
<1>12. Fine(Done(up.hud, orders))
  BY <1>5, <1>8, <1>11 DEF Fine, Done
<1>13. ~IsOption(k) => Done(up.hud, orders).gave = {}
  BY <1>6, <1>9, <1>10 DEF Done
<1> QED BY <1>7, <1>12, <1>13

(* In the panel C gives none.                                                 *)
LEMMA PanelKeyed ==
  ASSUME NEW h, Fresh(h), NEW k, NEW append
  PROVE  Fine(PanelKey(h, k, append)) /\ (k = "c" => PanelKey(h, k, append).gave = {})
<1>1. ASSUME NEW menu PROVE Fine(Done([h EXCEPT !.menus = h.menus \ {menu}], {}))
  <2>1. PICK x : x = h.menus \ {menu}
    OBVIOUS
  <2>2. Fine(Done([h EXCEPT !.menus = x], {}))
    BY MenusSet, NothingDone
  <2> QED BY <2>1, <2>2
<1>2. ASSUME NEW menu PROVE Fine(Done([Idle(h) EXCEPT !.menus = Idle(h).menus \cup {menu}], {}))
  <2>1. PICK d : d = Idle(h)
    OBVIOUS
  <2>2. PICK x : x = d.menus \cup {menu}
    OBVIOUS
  <2>3. Fine(Done([d EXCEPT !.menus = x], {}))
    BY <2>1, Idles, MenusSet, NothingDone
  <2> QED BY <2>1, <2>2, <2>3
<1>3. Fine(Chosen(h, k, append)) /\ (k = "c" => Chosen(h, k, append).gave = {})
  BY CollectionStarts, BuildsAndUpgrades DEF Chosen, Collects, IsOption, OptionKeys
<1>4. \/ k # "c" /\ \E menu : PanelKey(h, k, append) = Done([h EXCEPT !.menus = h.menus \ {menu}], {})
      \/ k # "c" /\ \E menu : PanelKey(h, k, append) = Done([Idle(h) EXCEPT !.menus = Idle(h).menus \cup {menu}], {})
      \/ PanelKey(h, k, append) = Chosen(h, k, append)
  BY DEF PanelKey
<1> QED BY <1>1, <1>2, <1>3, <1>4

LEMMA KeysTyped == ASSUME InputInv, NEW k, NEW append, NEW d \in Typed(k, append) PROVE Fine(d)
<1>1. CASE d \in Captured(k)
  BY <1>1, KeysCaptured
<1>2. CASE \E m \in MapKey(k) : d = Done(PanelKey(m.hud, k, append).hud, m.gave \cup PanelKey(m.hud, k, append).gave)
  <2>1. PICK m \in MapKey(k) : d = Done(PanelKey(m.hud, k, append).hud, m.gave \cup PanelKey(m.hud, k, append).gave)
    BY <1>2
  <2>2. Fine(m) /\ (k # "c" => m.gave = {})
    BY MapKeyed DEF InputInv
  <2>3. PICK p : p = PanelKey(m.hud, k, append)
    OBVIOUS
  <2>4. Fresh(m.hud)
    BY <2>2 DEF Fine
  <2>5. Fine(p) /\ (k = "c" => p.gave = {})
    BY <2>3, <2>4, PanelKeyed
  <2>6. d.hud = p.hud /\ d.gave = m.gave \cup p.gave
    BY <2>1, <2>3 DEF Done
  <2>7. d.gave = m.gave \/ d.gave = p.gave
    BY <2>2, <2>5, <2>6
  <2> QED BY <2>2, <2>5, <2>6, <2>7 DEF Fine
<1> QED BY <1>1, <1>2 DEF Typed

-----------------------------------------------------------------------------
(* The pointer.                                                               *)

LEMMA GivenIs ==
  ASSUME Fresh(hud), NEW orders, ForItsChoice(orders), Apart(orders) PROVE Fine(Given(orders))
BY ModeCleared, DoneIs DEF Given

LEMMA NothingGiven == ASSUME Fresh(hud) PROVE Fine(NoEffect) /\ Fine(Given({}))
BY NothingDone, NoOrders, GivenIs DEF NoEffect

LEMMA MoveDispatched == ASSUME Fresh(hud), NEW shift \in BOOLEAN PROVE Fine(DispatchMove(shift))
<1>1. PICK stays : stays = IF shift THEN hud ELSE SetAction(hud, NoMode)
  OBVIOUS
<1>2. Fresh(stays) /\ Fresh(SetAction(hud, NoMode))
  BY <1>1, ModeCleared
<1>3. ASSUME NEW kind \in {"Sentry", "Convoy"}, NEW h, Fresh(h)
      PROVE  Fine(Done(h, {Order(kind, Selected, NoThing)}))
  <2>1. PICK o : o = Order(kind, Selected, NoThing)
    OBVIOUS
  <2>2. ForItsChoice({o}) /\ Apart({o})
    BY <2>1, OneOrder DEF Order, Deliveries
  <2> QED BY <2>1, <2>2, <1>3, DoneIs
<1>4. Fine(Done(stays, Each("Move", NoThing)))
  BY <1>2, EachIs, DoneIs DEF Deliveries
<1>5. DispatchMove(shift) \in
        {NoEffect, Done(stays, {Order("Sentry", Selected, NoThing)}),
         Done(SetAction(hud, NoMode), {Order("Convoy", Selected, NoThing)}), Done(stays, Each("Move", NoThing))}
  BY <1>1 DEF DispatchMove
<1> QED BY <1>2, <1>3, <1>4, <1>5, NothingGiven

(* A delivery is for the selection its mode was chosen for.                   *)
LEMMA DeliveryDispatched == ASSUME InputInv, NEW t PROVE Fine(DispatchDeliver(t))
<1>1. Fine(Given(Each("Resupply", t)))
  BY EachIs, GivenIs DEF InputInv, Deliveries
<1>2. Fine(Done(SetAction(hud, [Mode("Transport") EXCEPT !.donor = t]), {}))
  <2>1. PICK m : m = [Mode("Transport") EXCEPT !.donor = t]
    OBVIOUS
  <2>2. IsMode(m) /\ ForSeen(m)
    BY <2>1 DEF IsMode, Mode, ForSeen, Deliveries
  <2> QED BY <2>1, <2>2, ActionSet, NothingDone DEF InputInv
<1>3. PICK q : q = [Order(seen.mode.kind, {First}, t) EXCEPT !.donor = seen.mode.donor, !.for = seen.mode.for,
                                                          !.hasty = seen.mode.hasty]
  OBVIOUS
<1>4. PICK o : o = Hurried(q)
  OBVIOUS
<1>5. Fine(Given({o}))
  <2>1. q.kind = seen.mode.kind /\ q.who = {First} /\ q.for = seen.mode.for /\ q.hasty = seen.mode.hasty
    BY <1>3 DEF Order
  <2>2. o.who = {First}
    BY <1>3, <1>4 DEF Order, Hurried
  <2>3. o.hasty \/ (o = q /\ hud = seen)
    BY <1>3, <1>4 DEF Order, Hurried, RenderDue
  <2>4. o.kind \in Deliveries /\ ~o.hasty => o.who = {Leader(o.for)}
    <3>1. SUFFICES ASSUME Delivery(seen.mode), ~seen.mode.hasty, hud = seen PROVE seen.mode.for = seen.sel
      BY <2>1, <2>2, <2>3 DEF Delivery, First
    <3> QED BY <3>1 DEF InputInv, Fresh, ForSeen
  <2>5. ForItsChoice({o}) /\ Apart({o})
    BY <2>4, OneOrder
  <2> QED BY <2>5, GivenIs DEF InputInv
<1>6. DispatchDeliver(t) \in {Given({}), Given(Each("Resupply", t)), NoEffect, Given({o}),
                              Done(SetAction(hud, [Mode("Transport") EXCEPT !.donor = t]), {})}
  BY <1>3, <1>4, Zenon DEF DispatchDeliver
<1> QED BY <1>1, <1>2, <1>5, <1>6, NothingGiven DEF InputInv

LEMMA TargetsDispatched ==
  ASSUME Fresh(hud), NEW t
  PROVE  Fine(DispatchAssign(t)) /\ Fine(DispatchEscort(t)) /\ Fine(DispatchRepair(t))
<1>1. Fine(Given(Each("Assign", t)))
  BY EachIs, GivenIs DEF Deliveries
<1>2. Fine(Given({Order("Escort", Selected, t)}))
  <2>1. PICK o : o = Order("Escort", Selected, t)
    OBVIOUS
  <2>2. ForItsChoice({o}) /\ Apart({o})
    BY <2>1, OneOrder DEF Order, Deliveries
  <2> QED BY <2>1, <2>2, GivenIs
<1>3. Fine(Given({o \in Each("Repair", t) : t \notin o.who /\ \A u \in o.who : There(u) /\ "repair" \in Can[u]}))
  <2>1. PICK S : S = {o \in Each("Repair", t) : t \notin o.who /\ \A u \in o.who : There(u) /\ "repair" \in Can[u]}
    OBVIOUS
  <2>2. S \subseteq Each("Repair", t)
    BY <2>1
  <2>3. ForItsChoice(S) /\ Apart(S)
    BY <2>2, EachIs DEF Deliveries
  <2> QED BY <2>1, <2>3, GivenIs
<1> QED BY <1>1, <1>2, <1>3, NothingGiven DEF DispatchAssign, DispatchEscort, DispatchRepair

LEMMA PressSelects == ASSUME Fresh(hud), NEW press, NEW double PROVE Fine(SelectPressed(press, double))
<1>1. PICK t : t = press.thing
  OBVIOUS
<1>2. PICK once : once = CASE press.shift /\ t \in Selected -> RemoveFromSelection(hud, t)
                           [] press.shift /\ t \notin Selected -> AddToSelection(hud, {t})
                           [] OTHER -> Select(hud, <<t>>)
  OBVIOUS
<1>3. Fresh(once)
  <2>1. once \in {RemoveFromSelection(hud, t), AddToSelection(hud, {t}), Select(hud, <<t>>)}
    BY <1>2
  <2>2. Fresh(RemoveFromSelection(hud, t)) /\ Fresh(AddToSelection(hud, {t})) /\ Fresh(Select(hud, <<t>>))
    BY Selects, SelectsMore
  <2> QED BY <2>1, <2>2
<1>4. Fresh(AddToSelection(once, OfTypeInView(t))) /\ Fresh(Select(once, SetToSeq(OfTypeInView(t))))
  BY <1>3, Selects, SelectsMore
<1>5. SelectPressed(press, double) \in
        {NoEffect, Done(once, {}), Done(AddToSelection(once, OfTypeInView(t)), {}),
         Done(Select(once, SetToSeq(OfTypeInView(t))), {})}
  BY <1>1, <1>2 DEF SelectPressed
<1> QED BY <1>3, <1>4, <1>5, NothingDone, NothingGiven

LEMMA Releases ==
  ASSUME InputInv, NEW moved, NEW double, NEW box PROVE Fine(Released(moved, double, box))
<1>1. Fine(Press(hand.press, double))
  BY TargetsDispatched, DeliveryDispatched, PressSelects DEF Press, InputInv
<1>2. Fine(EmptyClick)
  <2>1. Fine(Done(Select(hud, <<>>), {}))
    BY Selects, NothingDone DEF InputInv
  <2> QED BY <2>1, MoveDispatched, NothingGiven DEF EmptyClick, InputInv
<1>3. Fine(ShiftClick(hand.drag))
  BY MoveDispatched, NothingGiven DEF ShiftClick, InputInv
<1>4. Fine(Done(AddToSelection(hud, {t \in box : Mine(t)}), {}))
  <2>1. PICK S : S = {t \in box : Mine(t)}
    OBVIOUS
  <2>2. Fine(Done(AddToSelection(hud, S), {}))
    BY SelectsMore, NothingDone DEF InputInv
  <2> QED BY <2>1, <2>2
<1> QED BY <1>1, <1>2, <1>3, <1>4, NothingGiven DEF Released, InputInv

-----------------------------------------------------------------------------
(* Every step takes something fine, or shows or selects it.                   *)

LEMMA StepIsFine ==
  ASSUME InputInv, Next
  PROVE  \/ \E d : Fine(d) /\ Takes(d)
         \/ Shows(hud) /\ gave' = {}
         \/ \E h : Fresh(h) /\ hud' = h /\ seen' = seen /\ gave' = {}
<1>1. Fresh(hud)
  BY DEF InputInv
<1>2. ASSUME NEW k, NEW append, Key(k, append) PROVE \E d : Fine(d) /\ Takes(d)
  BY <1>2, KeysTyped DEF Key
<1>3. CASE ShiftUp
  BY <1>1, <1>3, NothingGiven DEF ShiftUp
<1>4. ASSUME NEW t, NEW shift, PointerDown(t, shift) PROVE \E d : Fine(d) /\ Takes(d)
  BY <1>1, <1>4, NothingGiven DEF PointerDown
<1>5. ASSUME NEW moved, NEW double, NEW box, PointerUp(moved, double, box) PROVE \E d : Fine(d) /\ Takes(d)
  BY <1>5, Releases DEF PointerUp
<1>6. CASE ClickButton
  BY <1>1, <1>6, ActionClicked DEF ClickButton
<1>7. ASSUME NEW append, ClickOption(append) PROVE \E d : Fine(d) /\ Takes(d)
  BY <1>1, <1>7, CollectionStarts, BuildStarts, OneStarts DEF ClickOption
<1>8. CASE ClickResource
  BY <1>8, Picks DEF ClickResource
<1>9. CASE ClickName
  <2>1. PICK t : Takes(Done(Select(hud, <<t>>), {}))
    BY <1>9 DEF ClickName
  <2>2. Fine(Done(Select(hud, <<t>>), {}))
    BY <1>1, Selects, NothingDone
  <2> QED BY <2>1, <2>2
<1>10. CASE ClickAutomatic
  BY <1>1, <1>10, EachIs, GivenIs DEF ClickAutomatic, Deliveries
<1>11. ASSUME NEW t, ThingChanges(t) PROVE \E d : Fine(d) /\ Takes(d)
  BY <1>1, <1>11, NothingGiven DEF ThingChanges
<1>12. ASSUME NEW p, SwitchPlayer(p) PROVE \E d : Fine(d) /\ Takes(d)
  BY <1>1, <1>12, NothingGiven DEF SwitchPlayer
<1>13. CASE Renders
  BY <1>13 DEF Renders
<1>14. ASSUME NEW t, Centers(t) PROVE \E h : Fresh(h) /\ hud' = h /\ seen' = seen /\ gave' = {}
  <2>1. Fresh(Select(hud, <<t>>))
    BY <1>1, Selects
  <2> QED BY <2>1, <1>14 DEF Centers, Notice
<1>15. CASE WorldReset
  <2>1. Fresh(SetAction(Select(hud, <<>>), NoMode))
    BY <1>1, Selects, ModeCleared
  <2> QED BY <1>15, <2>1 DEF WorldReset, Notice
<1> QED BY <1>2, <1>3, <1>4, <1>5, <1>6, <1>7, <1>8, <1>9, <1>10, <1>11, <1>12, <1>13, <1>14, <1>15 DEF Next

LEMMA InitIsFresh == ASSUME Init PROVE InputInv
<1>1. hud = [sel |-> <<>>, mode |-> NoMode, measuring |-> FALSE, menus |-> {}] /\ seen = hud /\ gave = {}
  BY DEF Init
<1> QED BY <1>1, Modes, NoOrders DEF InputInv, Fresh, IsHud, ForSeen

(* A choice for the selection shown before is cleared with it.                *)
LEMMA ShownIsFresh ==
  ASSUME NEW h, Fresh(h), Shows(h) PROVE Fresh(hud)' /\ IsHud(seen)' /\ IsMode(seen.mode)'
<1>1. seen' = h /\ IsHud(h) /\ IsMode(h.mode) /\ ForSeen(h.mode)
  BY DEF Shows, Fresh
<1>2. CASE h.sel = seen.sel
  <2>1. hud' = h
    BY <1>2 DEF Shows, Cleared
  <2> QED BY <1>1, <1>2, <2>1 DEF Fresh, ForSeen, IsHud, IsMode, Delivery
<1>3. CASE h.sel # seen.sel
  <2>1. PICK m : m = IF WithTarget(h.mode) THEN NoMode ELSE h.mode
    OBVIOUS
  <2>2. hud' = [h EXCEPT !.menus = {}, !.mode = m]
    BY <1>3, <2>1, Zenon DEF Shows, Cleared
  <2>3. IsMode(m) /\ ~Delivery(m)
    BY <1>1, <2>1, Modes DEF WithTarget
  <2>4. hud'.mode = m /\ IsHud(hud')
    BY <1>1, <2>2 DEF IsHud
  <2> QED BY <1>1, <2>3, <2>4 DEF Fresh, ForSeen, IsHud, IsMode, Delivery
<1> QED BY <1>2, <1>3

LEMMA StaysFresh == ASSUME InputInv, [Next]_vars PROVE InputInv'
<1>1. ASSUME UNCHANGED <<hud, seen>>, ForItsChoice(gave') PROVE InputInv'
  BY <1>1 DEF InputInv, Fresh, ForSeen, IsHud, IsMode, Delivery, ForItsChoice
<1>2. ASSUME NEW h, Fresh(h), Shows(h), ForItsChoice(gave') PROVE InputInv'
  BY <1>2, ShownIsFresh DEF InputInv, ForItsChoice
<1>3. CASE Next
  <2>1. ASSUME NEW d, Fine(d), Takes(d) PROVE InputInv'
    BY <1>1, <1>2, <2>1 DEF Fine, Takes
  <2>2. CASE Shows(hud) /\ gave' = {}
    BY <1>2, <2>2, NoOrders DEF InputInv
  <2>3. ASSUME NEW h, Fresh(h), hud' = h, seen' = seen, gave' = {} PROVE InputInv'
    BY <2>3, NoOrders DEF InputInv, Fresh, ForSeen, IsHud, IsMode, Delivery, ForItsChoice
  <2> QED BY <1>3, <2>1, <2>2, <2>3, StepIsFine
<1>4. CASE UNCHANGED vars
  BY <1>1, <1>4 DEF vars, InputInv, ForItsChoice
<1> QED BY <1>3, <1>4

(* Whatever notices, keys and taps do to the selection in between: resources  *)
(* and donor that were chosen for one selection are never sent for another,   *)
(* except in haste: by something picked or tapped while a render was due.     *)
THEOREM ChoiceStaysWithSelection == Spec => []ChoiceIsForSelection
<1>1. InputInv => ChoiceIsForSelection
  BY DEF InputInv, Fresh, ForSeen, ForItsChoice, ChoiceIsForSelection, RenderDue
<1> QED BY <1>1, InitIsFresh, StaysFresh, PTL DEF Spec

(* One input gives no unit two orders, unless both the menus for building and *)
(* for upgrading are open.                                                    *)
THEOREM UnitsGetOneOrder == Spec => OneOrderPerUnit
<1>1. InputInv /\ [Next]_vars =>
        [{"build", "upgrade"} \subseteq seen.menus \/ \A o, p \in gave' : o = p \/ o.who \cap p.who = {}]_vars
  <2> SUFFICES ASSUME InputInv, Next
               PROVE  {"build", "upgrade"} \subseteq seen.menus \/ \A o, p \in gave' : o = p \/ o.who \cap p.who = {}
    OBVIOUS
  <2>1. gave' = {} \/ \E d : Fine(d) /\ gave' = d.gave
    BY StepIsFine DEF Takes
  <2> QED BY <2>1 DEF Fine, Apart
<1> QED BY <1>1, InitIsFresh, StaysFresh, PTL DEF Spec, OneOrderPerUnit

-----------------------------------------------------------------------------
(* Console. The invariant is about the requests, the queue and the results in *)
(* Redis and the command at hand: a run that a command which replaces the     *)
(* world was meant for is used up step by step, from the engine, then the     *)
(* checkpoint, then the runtime, before anybody is told.                      *)

(* What the state is made of.                                                 *)
Files    == [id : Ids, holds : Texts]
Captures == [id : Ids, holds : Texts, of : Nat]
KeptResults == [ok : BOOLEAN, text : {Nobody} \cup Captures, saved : BOOLEAN]
Jobs     == [req : Nat, at : {"popped", "installed", "saved", "answer"}, ok : BOOLEAN,
             text : {Nobody} \cup Captures]
Requests == [do : Commands, id : {Nobody} \cup Ids, run : Nat, text : {Nobody} \cup Files, serving : BOOLEAN]
Hosts    == [up : BOOLEAN, run : Nat, world : Texts, scenario : {Nobody} \cup Ids, paused : BOOLEAN,
             steps : BOOLEAN, loaded : {Nobody} \cup Files, job : {Nobody} \cup Jobs]
Redis    == [checkpoint : [run : Nat, world : Texts], template : {Nobody} \cup Files, queue : Seq(Nat),
             results : Seq({Nobody} \cup KeptResults),
             runtime : [run : Nat, scenario : {Nobody} \cup Ids, paused : BOOLEAN]]
Shelves  == [Ids -> {Nobody} \cup [holds : Texts, by : Nat]]
Tallies   == [calls : Nat, mishaps : Nat, runs : Nat, ticks : Nat]

WorldTypes ==
  /\ asked \in Seq(Requests) /\ kept \in Redis /\ host \in Hosts /\ shelf \in Shelves /\ bounds \in Tallies
  /\ Len(kept.results) = Len(asked)

(* A command is about a file of its own id, which one that saves or loads     *)
(* brings along when it is accepted.                                          *)
Meant(r) ==
  /\ r.do \in {"save", "bookmark"} => r.id \in Ids
  /\ r.do \in {"save", "load"} /\ r.text # Nobody => r.text.id = r.id
Brings(r) == r.do \in {"save", "load"} => r.text \in Files /\ r.text # Nobody

RunsFit ==
  /\ host.run \in 1..bounds.runs /\ kept.runtime.run \in 1..bounds.runs
  /\ kept.checkpoint.run <= bounds.runs

AskedIs ==
  \A q \in DOMAIN asked : Meant(asked[q]) /\ Brings(asked[q]) /\ asked[q].run \in 1..bounds.runs

(* What waits was asked once and has no result yet.                           *)
QueueIs ==
  \A i \in DOMAIN kept.queue :
    /\ kept.queue[i] \in DOMAIN asked /\ kept.results[kept.queue[i]] = Nobody
    /\ \A j \in DOMAIN kept.queue : kept.queue[i] = kept.queue[j] => i = j

CapturedFor(text, r) == text # Nobody => r.do = "bookmark" /\ text.id = r.id /\ text.of = r.run

(* A command that replaces the world was meant for one that is gone: from     *)
(* the engine, then from the checkpoint, then from the runtime.               *)
Replacing(j, r) ==
  j.ok /\ r.do \in Replaces =>
    /\ j.at # "popped" => r.run # host.run
    /\ j.at \in {"saved", "answer"} => r.run # kept.checkpoint.run
    /\ j.at = "answer" => r.run # kept.runtime.run

JobIs ==
  host.job # Nobody =>
    /\ host.up
    /\ host.job.req \in DOMAIN asked /\ kept.results[host.job.req] = Nobody
    /\ \A i \in DOMAIN kept.queue : kept.queue[i] # host.job.req
    /\ CapturedFor(host.job.text, asked[host.job.req])
    /\ Replacing(host.job, asked[host.job.req])

Used(r, h, k) == r.run \notin {h.run, k.runtime.run, k.checkpoint.run}

Stored(q, a, k, s) ==
  LET file == s[a[q].id] IN
    /\ a[q].id \in Ids /\ file # Nobody
    /\ \/ file.by \in DOMAIN a /\ a[file.by].do = "save"
       \/ /\ a[q].do = "bookmark" /\ file.holds = k.results[q].text.holds
          /\ k.results[q].text.of = a[q].run

ResultIs(q, a, k, h, s) ==
  LET r == k.results[q] IN
    r # Nobody =>
      /\ CapturedFor(r.text, a[q])
      /\ r.ok /\ a[q].do \in Replaces => Used(a[q], h, k)
      /\ r.ok /\ r.saved => Stored(q, a, k, s)
ResultsAre == \A q \in DOMAIN asked : ResultIs(q, asked, kept, host, shelf)

(* A world is replaced by one command that was meant for it.                  *)
Wins(q, a, k, h) ==
  /\ a[q].do \in Replaces
  /\ \/ k.results[q] # Nobody /\ k.results[q].ok
     \/ h.job # Nobody /\ h.job.req = q /\ h.job.ok /\ h.job.at # "popped"
OneWins ==
  \A q1, q2 \in DOMAIN asked :
    Wins(q1, asked, kept, host) /\ Wins(q2, asked, kept, host) /\ asked[q1].run = asked[q2].run => q1 = q2

Settled(q, a, k) ==
  q \in DOMAIN a /\ k.results[q] # Nobody /\ k.results[q].ok /\ ~Due(k.results[q])

ToldIs(t, a, k, s) ==
  /\ t.kind \in {"done", "saved"} => Settled(t.req, a, k)
  /\ t.kind = "saved" => Stored(t.req, a, k, s)

Sents == [do : Commands, at : {"sent", "accepted"}, id : {Nobody} \cup Ids, run : Nat, text : {Nobody} \cup Files]
Waitings == [do : Commands, at : {"waiting", "polling"}, req : Nat]
SessionCalls ==
  [do : {"login"}, at : {"sent"}, who : Logins] \cup [do : {"logout"}, at : {"sent", "leaving"}]
    \cup [do : {"su"}, at : {"sent"}, who : Logins \cup Factions]

CallIs(c, a, runs) ==
  \/ c = Nobody
  \/ c \in SessionCalls
  \/ c \in Sents /\ Meant(c) /\ c.run <= runs /\ (c.at = "accepted" => Brings(c))
  \/ c \in Waitings /\ c.req \in DOMAIN a /\ (c.at = "polling" => a[c.req].do # "save")

Desks == desk = [p \in Pages |-> [call |-> desk[p].call, told |-> desk[p].told]]
DeskIs ==
  /\ Desks
  /\ \A p \in Pages : CallIs(desk[p].call, asked, bounds.runs) /\ ToldIs(desk[p].told, asked, kept, shelf)

WorldInv == WorldTypes /\ RunsFit /\ AskedIs /\ QueueIs /\ JobIs /\ ResultsAre /\ OneWins /\ DeskIs

SessionStates == [player : {Nobody} \cup Logins, acting : {Nobody} \cup Logins \cup Factions,
             status : {"logged-out", "logging-in", "active", "logging-out"}]

IsActive(s)  == s.status = "active" /\ s.player # Nobody
SuFits(c, s) == c # Nobody /\ c.do = "su" /\ c.at = "sent" => IsActive(s)
AsTold(t, s) ==
  /\ t.kind = "welcome" => s = Of(t.who)
  /\ t.kind = "bye"     => s = Of(Nobody)
  /\ t.kind = "acting"  => IsActive(s) /\ s.acting = t.who
SessionInv ==
  /\ cookie \in {Nobody} \cup Logins /\ session \in [Terminals -> SessionStates]
  /\ \A p \in Terminals : SuFits(desk[p].call, session[p]) /\ AsTold(desk[p].told, session[p])

ConsoleInv == WorldInv /\ SessionInv

LEMMA ConsoleStarts == ASSUME ConsoleInit PROVE ConsoleInv
<1> USE ConsoleAssumption
<1>1. WorldTypes
  <2>1. asked \in Seq(Requests) /\ bounds \in Tallies /\ Len(asked) = 0 /\ asked = <<>>
    BY DEF ConsoleInit, Tallies
  <2>2. PICK w \in Texts :
          /\ kept = [checkpoint |-> [run |-> 1, world |-> w], template |-> Nobody, queue |-> <<>>, results |-> <<>>,
                     runtime |-> [run |-> 1, scenario |-> Nobody, paused |-> FALSE]]
          /\ host = [up |-> TRUE, run |-> 1, world |-> w, scenario |-> Nobody, paused |-> FALSE,
                     steps |-> FALSE, loaded |-> Nobody, job |-> Nobody]
    BY DEF ConsoleInit
  <2>3. <<>> \in Seq(Nat) /\ <<>> \in Seq({Nobody} \cup KeptResults)  OBVIOUS
  <2>4. kept \in Redis  BY <2>2, <2>3 DEF Redis
  <2>5. host \in Hosts  BY <2>2 DEF Hosts
  <2>6. shelf \in Shelves  BY DEF ConsoleInit, Shelves
  <2> QED  BY <2>1, <2>2, <2>4, <2>5, <2>6 DEF WorldTypes
<1>2. RunsFit /\ AskedIs /\ QueueIs /\ JobIs /\ ResultsAre /\ OneWins
  BY DEF ConsoleInit, RunsFit, AskedIs, QueueIs, JobIs, ResultsAre, OneWins
<1>3. DeskIs /\ SessionInv
  <2>1. \A p \in Pages : desk[p] = [call |-> Nobody, told |-> [kind |-> "nothing"]]
    BY DEF ConsoleInit, Blank
  <2>2. DeskIs
    <3>1. Desks  BY <2>1 DEF ConsoleInit, Blank, Desks
    <3> QED  BY <2>1, <3>1 DEF DeskIs, CallIs, ToldIs
  <2>3. Of(cookie) \in SessionStates  BY DEF ConsoleInit, Of, SessionStates
  <2>4. session \in [Terminals -> SessionStates]  BY <2>3 DEF ConsoleInit
  <2>5. \A p \in Terminals : desk[p].call = Nobody /\ desk[p].told.kind = "nothing"
    BY <2>1 DEF Pages
  <2> QED  BY <2>2, <2>4, <2>5 DEF ConsoleInit, SessionInv, SuFits, AsTold
<1> QED  BY <1>1, <1>2, <1>3 DEF ConsoleInv, WorldInv

(* The page p has the call c and was told t, the others are as they were.     *)
Puts(p, c, t) ==
  /\ Desks'
  /\ \A o \in Pages : /\ desk'[o].call = IF o = p THEN c ELSE desk[o].call
                     /\ desk'[o].told = IF o = p THEN t ELSE desk[o].told

LEMMA OnePageIs ==
  ASSUME ConsoleInv, NEW p \in Pages, NEW c, NEW t,
         UNCHANGED <<asked, kept, host, shelf>>, bounds' \in Tallies, bounds'.runs = bounds.runs,
         Puts(p, c, t), CallIs(c, asked, bounds.runs), ToldIs(t, asked, kept, shelf),
         cookie' \in {Nobody} \cup Logins, session' \in [Terminals -> SessionStates],
         \A o \in Terminals \ {p} : session'[o] = session[o],
         p \in Terminals => SuFits(c, session'[p]) /\ AsTold(t, session'[p])
  PROVE  ConsoleInv'
<1>1. WorldTypes' /\ RunsFit' /\ AskedIs' /\ QueueIs' /\ JobIs' /\ ResultsAre' /\ OneWins'
  <2>1. WorldTypes' /\ RunsFit' /\ AskedIs'  BY DEF ConsoleInv, WorldInv, WorldTypes, RunsFit, AskedIs
  <2>2. QueueIs' /\ JobIs'  BY DEF ConsoleInv, WorldInv, QueueIs, JobIs, Replacing
  <2>3. ResultsAre'  BY DEF ConsoleInv, WorldInv, ResultsAre
  <2>4. OneWins'  BY DEF ConsoleInv, WorldInv, OneWins
  <2> QED  BY <2>1, <2>2, <2>3, <2>4
<1>2. DeskIs'
  <2> SUFFICES ASSUME NEW o \in Pages
               PROVE  CallIs(desk'[o].call, asked, bounds.runs) /\ ToldIs(desk'[o].told, asked, kept, shelf)
    BY DEF DeskIs, Puts
  <2> QED  BY DEF ConsoleInv, WorldInv, DeskIs, Puts
<1>3. SessionInv'
  <2> SUFFICES ASSUME NEW o \in Terminals
               PROVE  SuFits(desk'[o].call, session'[o]) /\ AsTold(desk'[o].told, session'[o])
    BY DEF SessionInv
  <2> QED  BY DEF ConsoleInv, SessionInv, Pages, Puts
<1> QED  BY <1>1, <1>2, <1>3 DEF ConsoleInv, WorldInv

LEMMA Placing ==
  ASSUME ConsoleInv, NEW p \in Pages, NEW c, NEW t, desk' = [desk EXCEPT ![p].call = c, ![p].told = t]
  PROVE  Puts(p, c, t)
<1>1. desk = [o \in Pages |-> [call |-> desk[o].call, told |-> desk[o].told]]
  BY DEF ConsoleInv, WorldInv, DeskIs, Desks
<1>2. \A o \in Pages : /\ desk'[o].call = IF o = p THEN c ELSE desk[o].call
                       /\ desk'[o].told = IF o = p THEN t ELSE desk[o].told
  BY <1>1
<1>3. Desks'
  <2> DEFINE d == [o \in Pages |-> IF o = p THEN [call |-> c, told |-> desk[p].told]
                                   ELSE [call |-> desk[o].call, told |-> desk[o].told]]
  <2>1. [desk EXCEPT ![p].call = c] = d  BY <1>1
  <2>2. desk' = [d EXCEPT ![p].told = t]  BY <2>1
  <2>3. desk' = [o \in Pages |-> IF o = p THEN [call |-> c, told |-> t]
                                 ELSE [call |-> desk[o].call, told |-> desk[o].told]]
    BY <2>2
  <2> QED  BY <2>3 DEF Desks
<1> QED  BY <1>2, <1>3 DEF Puts

LEMMA OnePage ==
  ASSUME ConsoleInv, NEW p \in Pages, NEW c, NEW t,
         UNCHANGED <<asked, kept, host, shelf>>, bounds' \in Tallies, bounds'.runs = bounds.runs,
         desk' = [desk EXCEPT ![p].call = c, ![p].told = t],
         CallIs(c, asked, bounds.runs), ToldIs(t, asked, kept, shelf),
         cookie' \in {Nobody} \cup Logins, session' \in [Terminals -> SessionStates],
         \A o \in Terminals \ {p} : session'[o] = session[o],
         p \in Terminals => SuFits(c, session'[p]) /\ AsTold(t, session'[p])
  PROVE  ConsoleInv'
<1>1. Puts(p, c, t)  BY Placing
<1> QED  BY <1>1, OnePageIs

LEMMA NoPage ==
  ASSUME ConsoleInv, cookie' \in {Nobody} \cup Logins, UNCHANGED <<session, desk, asked, kept, host, shelf>>, bounds' \in Tallies,
         bounds'.runs = bounds.runs
  PROVE  ConsoleInv'
<1>1. WorldTypes' /\ RunsFit' /\ AskedIs'  BY DEF ConsoleInv, WorldInv, WorldTypes, RunsFit, AskedIs
<1>2. QueueIs' /\ JobIs'  BY DEF ConsoleInv, WorldInv, QueueIs, JobIs, Replacing
<1>3. ResultsAre'  BY DEF ConsoleInv, WorldInv, ResultsAre
<1>4. OneWins'  BY DEF ConsoleInv, WorldInv, OneWins
<1>5. DeskIs' /\ SessionInv'  BY DEF ConsoleInv, WorldInv, DeskIs, Desks, SessionInv
<1> QED  BY <1>1, <1>2, <1>3, <1>4, <1>5 DEF ConsoleInv, WorldInv

(* Words that promise nothing.                                                *)
Plain(t) == t.kind \notin {"done", "saved", "welcome", "bye", "acting"}

LEMMA PlainWords ==
  /\ \A t, a, k, s : Plain(t) => ToldIs(t, a, k, s)
  /\ \A t, s : Plain(t) => AsTold(t, s)
  /\ \A a, r, s : CallIs(Nobody, a, r) /\ SuFits(Nobody, s)
  /\ Plain(Error)
BY DEF Plain, ToldIs, AsTold, CallIs, SuFits, Error

LEMMA Counted ==
  ASSUME ConsoleInv
  PROVE  /\ Mishap => bounds' \in Tallies /\ bounds'.runs = bounds.runs
         /\ bounds' = [bounds EXCEPT !.calls = @ + 1] => bounds' \in Tallies /\ bounds'.runs = bounds.runs
         /\ bounds' = bounds => bounds' \in Tallies /\ bounds'.runs = bounds.runs
BY DEF ConsoleInv, WorldInv, WorldTypes, Tallies, Mishap

-----------------------------------------------------------------------------
(* The session, and calls that are given up.                                  *)

LEMMA Told ==
  ASSUME ConsoleInv, NEW p \in Pages
  PROVE  /\ CallIs(desk[p].call, asked, bounds.runs) /\ ToldIs(desk[p].told, asked, kept, shelf)
         /\ p \in Terminals =>
              session[p] \in SessionStates /\ SuFits(desk[p].call, session[p]) /\ AsTold(desk[p].told, session[p])
BY DEF ConsoleInv, WorldInv, DeskIs, SessionInv

LEMMA CallsOfSessions ==
  ASSUME ConsoleInv, NEW p \in Pages, desk[p].call # Nobody
  PROVE  LET c == desk[p].call IN
         /\ c.do = "login" => c.who \in Logins
         /\ c.do = "logout" => c \in [do : {"logout"}, at : {"sent", "leaving"}]
         /\ c.do = "su" => c.who \in Logins \cup Factions
<1> DEFINE c == desk[p].call
<1>1. CallIs(c, asked, bounds.runs) /\ c # Nobody  BY Told
<1>2. CASE c.do \in Commands  BY <1>2, ConsoleAssumption
<1>3. CASE c \in SessionCalls  BY <1>3 DEF SessionCalls
<1>4. c \in SessionCalls \/ c.do \in Commands  BY <1>1 DEF CallIs, Sents, Waitings
<1> QED  BY <1>2, <1>3, <1>4 DEF c

(* The page's call ends, or begins, with nothing else than words.             *)
LEMMA OnlyTells ==
  ASSUME ConsoleInv, NEW p \in Pages, NEW t, Tells(p, t), Plain(t),
         UNCHANGED <<cookie, session, asked, kept, host, shelf>>, bounds' \in Tallies, bounds'.runs = bounds.runs
  PROVE  ConsoleInv'
<1>1. cookie' \in {Nobody} \cup Logins /\ session' \in [Terminals -> SessionStates]  BY DEF ConsoleInv, SessionInv
<1> QED  BY <1>1, OnePage, PlainWords DEF Tells

LEMMA LoginHolds == ASSUME ConsoleInv, NEW p \in Terminals, Login(p) PROVE ConsoleInv'
<1>1. PICK who \in Logins :
        Calls(p, [do |-> "login", at |-> "sent", who |-> who], [kind |-> "authenticating"])
  BY DEF Login
<1> DEFINE c == [do |-> "login", at |-> "sent", who |-> who]
           t == [kind |-> "authenticating"]
<1>2. desk' = [desk EXCEPT ![p].call = c, ![p].told = t] /\ bounds' \in Tallies /\ bounds'.runs = bounds.runs
  BY <1>1, Counted DEF Calls
<1>3. CallIs(c, asked, bounds.runs) /\ Plain(t) /\ \A s : SuFits(c, s)
  BY DEF CallIs, SessionCalls, Plain, SuFits
<1>4. /\ session' \in [Terminals -> SessionStates] /\ \A o \in Terminals \ {p} : session'[o] = session[o]
      /\ cookie' \in {Nobody} \cup Logins /\ UNCHANGED <<asked, kept, host, shelf>>
  BY DEF Login, ConsoleInv, SessionInv, SessionStates
<1> HIDE DEF c, t
<1> QED  BY <1>2, <1>3, <1>4, OnePage, PlainWords DEF Pages

LEMMA LoggedInHolds == ASSUME ConsoleInv, NEW p \in Terminals, LoggedIn(p) PROVE ConsoleInv'
<1> DEFINE who == desk[p].call.who
           t == [kind |-> "welcome", who |-> who]
<1>1. who \in Logins
  BY CallsOfSessions DEF LoggedIn, Called, Pages
<1>2. /\ cookie' = who /\ session' = [session EXCEPT ![p] = Of(who)] /\ Tells(p, t)
      /\ UNCHANGED <<asked, kept, host, shelf, bounds>>
  BY DEF LoggedIn
<1>3. Of(who) \in SessionStates  BY <1>1 DEF Of, SessionStates
<1>4. /\ session' \in [Terminals -> SessionStates] /\ \A o \in Terminals \ {p} : session'[o] = session[o]
      /\ session'[p] = Of(who)
  BY <1>2, <1>3 DEF ConsoleInv, SessionInv
<1>5. ToldIs(t, asked, kept, shelf) /\ AsTold(t, session'[p])  BY <1>4 DEF ToldIs, AsTold
<1>6. desk' = [desk EXCEPT ![p].call = Nobody, ![p].told = t]  BY <1>2 DEF Tells
<1> HIDE DEF who, t
<1> QED  BY <1>1, <1>2, <1>4, <1>5, <1>6, OnePage, PlainWords, Counted DEF Pages

LEMMA LogoutHolds == ASSUME ConsoleInv, NEW p \in Terminals, Logout(p) PROVE ConsoleInv'
<1> DEFINE c == [do |-> "logout", at |-> "sent"]
<1>1. desk' = [desk EXCEPT ![p].call = c, ![p].told = desk[p].told] /\ bounds' \in Tallies /\ bounds'.runs = bounds.runs
  BY Counted DEF Logout, Calls
<1>2. CallIs(c, asked, bounds.runs) /\ \A s : SuFits(c, s)
  BY DEF CallIs, SessionCalls, SuFits
<1>3. /\ session' = session /\ session \in [Terminals -> SessionStates] /\ cookie' \in {Nobody} \cup Logins
      /\ UNCHANGED <<asked, kept, host, shelf>>
  BY DEF Logout, ConsoleInv, SessionInv
<1> HIDE DEF c
<1> QED  BY <1>1, <1>2, <1>3, OnePage, Told DEF Pages

LEMMA StartedLogoutHolds == ASSUME ConsoleInv, NEW p \in Terminals, StartedLogout(p) PROVE ConsoleInv'
<1>1. CASE /\ session' = [session EXCEPT ![p].status = "logging-out"]
           /\ desk' = [desk EXCEPT ![p].call.at = "leaving", ![p].told = [kind |-> "leaving"]]
  <2> DEFINE c == [desk[p].call EXCEPT !.at = "leaving"]
             t == [kind |-> "leaving"]
  <2>1. c \in [do : {"logout"}, at : {"sent", "leaving"}]
    BY CallsOfSessions DEF StartedLogout, Called, Pages
  <2>2. CallIs(c, asked, bounds.runs) /\ (\A s : SuFits(c, s)) /\ Plain(t)
    BY <2>1 DEF CallIs, SessionCalls, SuFits, Plain
  <2>3. desk' = [desk EXCEPT ![p].call = c, ![p].told = t]
    BY <1>1 DEF ConsoleInv, WorldInv, DeskIs, Desks, Pages
  <2>4. /\ session' \in [Terminals -> SessionStates] /\ \A o \in Terminals \ {p} : session'[o] = session[o]
        /\ cookie' \in {Nobody} \cup Logins /\ UNCHANGED <<asked, kept, host, shelf, bounds>>
    BY <1>1 DEF StartedLogout, ConsoleInv, SessionInv, SessionStates
  <2> HIDE DEF c, t
  <2> QED  BY <2>2, <2>3, <2>4, OnePage, PlainWords, Counted DEF Pages
<1>2. CASE Tells(p, Error) /\ UNCHANGED session
  BY <1>2, OnlyTells, PlainWords, Counted DEF StartedLogout, Pages
<1> QED  BY <1>1, <1>2 DEF StartedLogout

LEMMA LoggedOutHolds == ASSUME ConsoleInv, NEW p \in Terminals, LoggedOut(p) PROVE ConsoleInv'
<1> DEFINE t == [kind |-> "bye"]
<1>1. /\ cookie' = Nobody /\ session' = [session EXCEPT ![p] = Of(Nobody)]
      /\ UNCHANGED <<asked, kept, host, shelf, bounds>>
      /\ desk' = [desk EXCEPT ![p].call = Nobody, ![p].told = t]
  BY DEF LoggedOut, Tells
<1>2. Of(Nobody) \in SessionStates  BY DEF Of, SessionStates
<1>3. /\ session' \in [Terminals -> SessionStates] /\ \A o \in Terminals \ {p} : session'[o] = session[o]
      /\ session'[p] = Of(Nobody)
  BY <1>1, <1>2 DEF ConsoleInv, SessionInv
<1>4. ToldIs(t, asked, kept, shelf) /\ AsTold(t, session'[p])  BY <1>3 DEF ToldIs, AsTold
<1> HIDE DEF t
<1> QED  BY <1>1, <1>3, <1>4, OnePage, PlainWords, Counted DEF Pages

LEMMA SuHolds == ASSUME ConsoleInv, NEW p \in Terminals, Su(p) PROVE ConsoleInv'
<1>1. PICK who \in Logins \cup Factions : Calls(p, [do |-> "su", at |-> "sent", who |-> who], desk[p].told)
  BY DEF Su
<1> DEFINE c == [do |-> "su", at |-> "sent", who |-> who]
<1>2. desk' = [desk EXCEPT ![p].call = c, ![p].told = desk[p].told] /\ bounds' \in Tallies /\ bounds'.runs = bounds.runs
  BY <1>1, Counted DEF Calls
<1>3. CallIs(c, asked, bounds.runs)  BY DEF CallIs, SessionCalls
<1>4. /\ session' = session /\ session \in [Terminals -> SessionStates] /\ cookie' \in {Nobody} \cup Logins
      /\ UNCHANGED <<asked, kept, host, shelf>> /\ IsActive(session[p])
  BY DEF Su, ConsoleInv, SessionInv, Active, IsActive
<1>5. SuFits(c, session'[p])  BY <1>4 DEF SuFits
<1> HIDE DEF c
<1> QED  BY <1>2, <1>3, <1>4, <1>5, OnePage, Told DEF Pages

LEMMA ResolvedHolds == ASSUME ConsoleInv, NEW p \in Terminals, Resolved(p) PROVE ConsoleInv'
<1> DEFINE who == desk[p].call.who
           t == [kind |-> "acting", who |-> who]
<1>1. CASE session' = [session EXCEPT ![p].acting = who] /\ Tells(p, t)
  <2>1. who \in Logins \cup Factions
    BY CallsOfSessions DEF Resolved, Called, Pages
  <2>2. IsActive(session[p]) /\ session[p] \in SessionStates  BY Told DEF Resolved, Called, SuFits, Pages
  <2>3. /\ session' \in [Terminals -> SessionStates] /\ \A o \in Terminals \ {p} : session'[o] = session[o]
        /\ session'[p] = [session[p] EXCEPT !.acting = who]
    BY <1>1, <2>1 DEF ConsoleInv, SessionInv, SessionStates
  <2>4. ToldIs(t, asked, kept, shelf) /\ AsTold(t, session'[p])
    BY <2>2, <2>3 DEF ToldIs, AsTold, IsActive, SessionStates
  <2>5. /\ desk' = [desk EXCEPT ![p].call = Nobody, ![p].told = t] /\ cookie' \in {Nobody} \cup Logins
        /\ UNCHANGED <<asked, kept, host, shelf, bounds>>
    BY <1>1 DEF Tells, Resolved, ConsoleInv, SessionInv
  <2> HIDE DEF who, t
  <2> QED  BY <2>3, <2>4, <2>5, OnePage, PlainWords, Counted DEF Pages
<1>2. CASE Tells(p, Error) /\ UNCHANGED session
  BY <1>2, OnlyTells, PlainWords, Counted DEF Resolved, Pages
<1> QED  BY <1>1, <1>2 DEF Resolved

LEMMA ExitSuHolds == ASSUME ConsoleInv, NEW p \in Terminals, ExitSu(p) PROVE ConsoleInv'
<1> DEFINE t == [kind |-> "returned"]
<1>1. /\ session' \in [Terminals -> SessionStates] /\ \A o \in Terminals \ {p} : session'[o] = session[o]
      /\ desk' = [desk EXCEPT ![p].call = Nobody, ![p].told = t] /\ cookie' \in {Nobody} \cup Logins
      /\ UNCHANGED <<asked, kept, host, shelf, bounds>>
  BY DEF Tells, ExitSu, ConsoleInv, SessionInv, SessionStates
<1>2. Plain(t)  BY DEF Plain
<1> HIDE DEF t
<1> QED  BY <1>1, <1>2, OnePage, PlainWords, Counted DEF Pages

LEMMA LogoutRefusedHolds == ASSUME ConsoleInv, NEW p \in Terminals, LogoutRefused(p) PROVE ConsoleInv'
<1>1. /\ session' \in [Terminals -> SessionStates] /\ \A o \in Terminals \ {p} : session'[o] = session[o]
      /\ desk' = [desk EXCEPT ![p].call = Nobody, ![p].told = Error] /\ cookie' \in {Nobody} \cup Logins
      /\ UNCHANGED <<asked, kept, host, shelf>> /\ Mishap
  BY DEF Tells, LogoutRefused, ConsoleInv, SessionInv, SessionStates
<1> QED  BY <1>1, OnePage, PlainWords, Counted DEF Pages

LEMMA InSessionHolds == ASSUME ConsoleInv, NEW p \in Terminals, InSession(p) PROVE ConsoleInv'
BY LoginHolds, LoggedInHolds, LogoutHolds, StartedLogoutHolds, LoggedOutHolds, SuHolds, ResolvedHolds,
   ExitSuHolds, LogoutRefusedHolds DEF InSession

LEMMA ExpiresHolds == ASSUME ConsoleInv, Expires PROVE ConsoleInv'
BY NoPage, Counted DEF Expires

LEMMA ReloadHolds == ASSUME ConsoleInv, NEW p \in Pages, Reload(p) PROVE ConsoleInv'
<1> DEFINE t == [kind |-> "nothing"]
<1>1. Puts(p, Nobody, t)
  <2>1. desk = [o \in Pages |-> [call |-> desk[o].call, told |-> desk[o].told]]
    BY DEF ConsoleInv, WorldInv, DeskIs, Desks
  <2>2. desk' = [desk EXCEPT ![p] = [call |-> Nobody, told |-> t]]  BY DEF Reload, Blank
  <2>3. desk' = [o \in Pages |-> IF o = p THEN [call |-> Nobody, told |-> t]
                                 ELSE [call |-> desk[o].call, told |-> desk[o].told]]
    BY <2>1, <2>2
  <2>4. \A o \in Pages : /\ desk'[o].call = IF o = p THEN Nobody ELSE desk[o].call
                         /\ desk'[o].told = IF o = p THEN t ELSE desk[o].told
    BY <2>3
  <2>5. Desks'  BY <2>3 DEF Desks
  <2> QED  BY <2>4, <2>5 DEF Puts
<1>2. Of(cookie) \in SessionStates  BY DEF ConsoleInv, SessionInv, Of, SessionStates
<1>3. /\ session' \in [Terminals -> SessionStates] /\ \A o \in Terminals \ {p} : session'[o] = session[o]
      /\ UNCHANGED <<asked, kept, host, shelf>> /\ Mishap /\ cookie' \in {Nobody} \cup Logins
  BY <1>2 DEF Reload, ConsoleInv, SessionInv
<1>4. Plain(t)  BY DEF Plain
<1> HIDE DEF t
<1> QED  BY <1>1, <1>3, <1>4, OnePageIs, PlainWords, Counted

LEMMA CallFailsHolds == ASSUME ConsoleInv, NEW p \in Pages, CallFails(p) PROVE ConsoleInv'
<1>1. session' = session \/ session' = [session EXCEPT ![p].status = "logged-out"]
  BY DEF CallFails
<1>2. /\ session' \in [Terminals -> SessionStates] /\ \A o \in Terminals \ {p} : session'[o] = session[o]
      /\ desk' = [desk EXCEPT ![p].call = Nobody, ![p].told = Error] /\ cookie' \in {Nobody} \cup Logins
      /\ UNCHANGED <<asked, kept, host, shelf>> /\ Mishap
  BY <1>1 DEF Tells, CallFails, ConsoleInv, SessionInv, SessionStates
<1> QED  BY <1>2, OnePage, PlainWords, Counted

Lasts ==
  /\ DOMAIN asked \subseteq DOMAIN asked' /\ bounds' \in Tallies /\ bounds.runs <= bounds'.runs
  /\ \A q \in DOMAIN asked :
       asked'[q].do = asked[q].do /\ asked'[q].id = asked[q].id /\ asked'[q].run = asked[q].run
         /\ asked'[q].text = asked[q].text
  /\ \A q \in DOMAIN asked : kept.results[q] # Nobody =>
       /\ kept'.results[q] # Nobody /\ kept'.results[q].text = kept.results[q].text
       /\ ~Due(kept.results[q]) => kept'.results[q] = kept.results[q]
  /\ \A id \in Ids : shelf[id] # Nobody =>
       \/ shelf'[id] = shelf[id]
       \/ shelf'[id] # Nobody /\ shelf'[id].by \in DOMAIN asked /\ asked[shelf'[id].by].do = "save"

RunsGo ==
  /\ host'.run \in {host.run, kept.runtime.run, bounds.runs + 1}
  /\ kept'.runtime.run \in {kept.runtime.run, host.run, bounds.runs + 1}
  /\ kept'.checkpoint.run \in {kept.checkpoint.run, host.run, 0}

LEMMA Lasting ==
  ASSUME ConsoleInv, Lasts
  PROVE  /\ \A q : Settled(q, asked, kept) => Settled(q, asked', kept')
         /\ \A q \in DOMAIN asked : kept.results[q] # Nobody /\ Stored(q, asked, kept, shelf)
                                      => Stored(q, asked', kept', shelf')
         /\ \A t : ToldIs(t, asked, kept, shelf) => ToldIs(t, asked', kept', shelf')
         /\ \A c : CallIs(c, asked, bounds.runs) => CallIs(c, asked', bounds'.runs)
<1>1. \A q : Settled(q, asked, kept) => Settled(q, asked', kept')
  BY DEF Lasts, Settled
<1>2. \A q \in DOMAIN asked : kept.results[q] # Nobody /\ Stored(q, asked, kept, shelf)
                                => Stored(q, asked', kept', shelf')
  BY DEF Lasts, Stored
<1>3. \A t : ToldIs(t, asked, kept, shelf) => ToldIs(t, asked', kept', shelf')
  BY <1>1, <1>2 DEF ToldIs, Settled
<1>4. \A c : CallIs(c, asked, bounds.runs) => CallIs(c, asked', bounds'.runs)
  <2> SUFFICES ASSUME NEW c, CallIs(c, asked, bounds.runs) PROVE CallIs(c, asked', bounds'.runs)
    OBVIOUS
  <2>1. CASE c \in Sents /\ Meant(c) /\ c.run <= bounds.runs /\ (c.at = "accepted" => Brings(c))
    <3>1. c.run \in Nat /\ bounds.runs \in Nat  BY <2>1 DEF Sents, ConsoleInv, WorldInv, WorldTypes, Tallies
    <3>2. bounds'.runs \in Nat /\ bounds.runs <= bounds'.runs  BY DEF Lasts, Tallies
    <3>3. c.run <= bounds'.runs  BY <2>1, <3>1, <3>2
    <3> QED  BY <2>1, <3>3 DEF CallIs
  <2>2. CASE c \in Waitings /\ c.req \in DOMAIN asked /\ (c.at = "polling" => asked[c.req].do # "save")
    BY <2>2 DEF Lasts, CallIs
  <2> QED  BY <2>1, <2>2 DEF CallIs
<1> QED  BY <1>1, <1>2, <1>3, <1>4

LEMMA ResultStays ==
  ASSUME ConsoleInv, Lasts, RunsGo, NEW q \in DOMAIN asked, kept'.results[q] = kept.results[q]
  PROVE  ResultIs(q, asked', kept', host', shelf')
<1>1. ResultIs(q, asked, kept, host, shelf) /\ asked[q].run \in 1..bounds.runs /\ bounds.runs \in Nat
  BY DEF ConsoleInv, WorldInv, ResultsAre, AskedIs, WorldTypes, Tallies
<1>2. Used(asked[q], host, kept) => Used(asked'[q], host', kept')
  BY <1>1 DEF Used, RunsGo, Lasts
<1>3. kept.results[q] # Nobody => (CapturedFor(kept.results[q].text, asked[q]) => CapturedFor(kept'.results[q].text, asked'[q]))
  BY DEF Lasts, CapturedFor
<1> QED  BY <1>1, <1>2, <1>3, Lasting DEF ResultIs, Lasts

(* Nobody wins who did not.                                                   *)
LEMMA NobodyWins ==
  ASSUME ConsoleInv, Lasts,
         \A q \in DOMAIN asked' : Wins(q, asked', kept', host') => q \in DOMAIN asked /\ Wins(q, asked, kept, host)
  PROVE  OneWins'
BY DEF ConsoleInv, WorldInv, OneWins, Lasts

-----------------------------------------------------------------------------
(* A command on its way into the queue.                                       *)

LEMMA FileIs ==
  ASSUME ConsoleInv, NEW id \in {Nobody} \cup Ids
  PROVE  File(id) \in {Nobody} \cup Files /\ (File(id) # Nobody => File(id).id = id)
BY DEF File, Files, ConsoleInv, WorldInv, WorldTypes, Shelves

LEMMA CallsOfCommands ==
  ASSUME ConsoleInv, NEW p \in Pages, NEW at, Waits(p, at)
  PROVE  LET c == desk[p].call IN
         /\ at \in {"sent", "accepted"} =>
              c \in Sents /\ Meant(c) /\ c.run <= bounds.runs /\ (at = "accepted" => Brings(c))
         /\ at \in {"waiting", "polling"} =>
              c \in Waitings /\ c.req \in DOMAIN asked /\ (at = "polling" => asked[c.req].do # "save")
<1> DEFINE c == desk[p].call
<1>1. CallIs(c, asked, bounds.runs) /\ c # Nobody /\ c.do \in Commands /\ c.at = at  BY Told DEF Waits
<1>2. c \notin SessionCalls  BY <1>1, ConsoleAssumption DEF SessionCalls
<1> QED  BY <1>1, <1>2 DEF CallIs, Sents, Waitings

LEMMA NotSu == \A c, s : c.do \in Commands => SuFits(c, s)
BY ConsoleAssumption DEF SuFits

LEMMA AskHolds == ASSUME ConsoleInv, NEW p \in Pages, Ask(p) PROVE ConsoleInv'
<1> DEFINE C(do, id, run, holds) ==
             [do |-> do, at |-> "sent", id |-> id, run |-> run,
              text |-> IF holds = Nobody THEN Nobody ELSE [id |-> id, holds |-> holds]]
           t == IF p \in Editors THEN Blank.told ELSE desk[p].told
<1>1. PICK do \in Commands \ (IF p \in Terminals THEN {"save"} ELSE {"world_respawn"}) :
        \E id \in (IF do \in {"save", "validate", "load", "bookmark"} THEN Ids ELSE {Nobody}),
           holds \in (IF p \in Editors /\ do \in {"save", "validate", "load"} THEN Texts ELSE {Nobody}),
           run \in KnownRuns : Calls(p, C(do, id, run, holds), t)
  BY DEF Ask
<1>2. PICK id \in (IF do \in {"save", "validate", "load", "bookmark"} THEN Ids ELSE {Nobody}),
           holds \in (IF p \in Editors /\ do \in {"save", "validate", "load"} THEN Texts ELSE {Nobody}),
           run \in KnownRuns : Calls(p, C(do, id, run, holds), t)
  BY <1>1
<1>3. run \in Nat /\ run <= bounds.runs
  BY DEF KnownRuns, ConsoleInv, WorldInv, RunsFit, WorldTypes, Tallies, Redis
<1> DEFINE c == C(do, id, run, holds)
<1>4. c \in Sents /\ Meant(c) /\ c.at = "sent" /\ c.do \in Commands /\ c.run = run
  <2>1. id \in {Nobody} \cup Ids /\ (do \in {"save", "validate", "load", "bookmark"} => id \in Ids)  OBVIOUS
  <2>2. holds # Nobody => id \in Ids /\ holds \in Texts  OBVIOUS
  <2>3. c.text \in {Nobody} \cup Files /\ (c.text # Nobody => c.text.id = id)  BY <2>2 DEF Files
  <2> QED  BY <1>3, <2>1, <2>3 DEF Sents, Meant
<1>5. CallIs(c, asked, bounds.runs)  BY <1>3, <1>4 DEF CallIs
<1>6. /\ ToldIs(t, asked, kept, shelf) /\ (p \in Terminals => AsTold(t, session[p]))
      /\ session' = session /\ session \in [Terminals -> SessionStates] /\ cookie' \in {Nobody} \cup Logins
      /\ UNCHANGED <<asked, kept, host, shelf>>
  <2>1. Plain(Blank.told)  BY DEF Plain, Blank
  <2>2. ToldIs(t, asked, kept, shelf) /\ (p \in Terminals => AsTold(t, session[p]))
    BY <2>1, Told, PlainWords
  <2> QED  BY <2>2 DEF Ask, ConsoleInv, SessionInv
<1>7. SuFits(c, session'[p])  BY <1>4, NotSu
<1>8. desk' = [desk EXCEPT ![p].call = c, ![p].told = t] /\ bounds' \in Tallies /\ bounds'.runs = bounds.runs
  BY <1>2, Counted DEF Calls
<1> HIDE DEF c, t
<1> QED  BY <1>5, <1>6, <1>7, <1>8, OnePage

LEMMA AcceptHolds == ASSUME ConsoleInv, NEW p \in Pages, Accept(p) PROVE ConsoleInv'
<1> DEFINE c == desk[p].call
           d == [do |-> c.do, at |-> "accepted", id |-> c.id, run |-> c.run, text |-> Yaml(c)]
<1>1. CASE ~Acceptable(c) /\ Tells(p, Error)
  BY <1>1, OnlyTells, PlainWords, Counted DEF Accept
<1>2. CASE Acceptable(c) /\ desk' = [desk EXCEPT ![p].call = d]
  <2>1. c \in Sents /\ Meant(c) /\ c.run <= bounds.runs  BY CallsOfCommands DEF Accept
  <2>2. Yaml(c) \in {Nobody} \cup Files /\ (c.do \in {"save", "load"} /\ Yaml(c) # Nobody => Yaml(c).id = c.id)
    <3>1. c.id \in {Nobody} \cup Ids /\ kept.runtime.scenario \in {Nobody} \cup Ids
          /\ c.text \in {Nobody} \cup Files
      BY <2>1 DEF Sents, ConsoleInv, WorldInv, WorldTypes, Redis
    <3>2. c.do \in {"save", "load"} /\ c.text # Nobody => c.text.id = c.id  BY <2>1 DEF Meant
    <3> HIDE DEF c
    <3> QED  BY <3>1, <3>2, FileIs DEF Yaml
  <2>3. c.do \in {"save", "load"} => Yaml(c) # Nobody  BY <1>2 DEF Acceptable
  <2>4. d \in Sents /\ Meant(d) /\ Brings(d) /\ d.run <= bounds.runs /\ d.do \in Commands
    <3> HIDE DEF c
    <3> QED  BY <2>1, <2>2, <2>3 DEF Sents, Meant, Brings
  <2>5. CallIs(d, asked, bounds.runs)  BY <2>4 DEF CallIs
  <2>6. SuFits(d, session[p])  BY <2>4, NotSu
  <2>7. /\ session' = session /\ session \in [Terminals -> SessionStates] /\ cookie' \in {Nobody} \cup Logins
        /\ UNCHANGED <<asked, kept, host, shelf, bounds>>
    BY DEF Accept, ConsoleInv, SessionInv
  <2>8. Puts(p, d, desk[p].told)
    <3> HIDE DEF d
    <3>1. desk = [o \in Pages |-> [call |-> desk[o].call, told |-> desk[o].told]]
      BY DEF ConsoleInv, WorldInv, DeskIs, Desks
    <3>2. desk' = [o \in Pages |-> IF o = p THEN [call |-> d, told |-> desk[p].told]
                                   ELSE [call |-> desk[o].call, told |-> desk[o].told]]
      BY <1>2, <3>1
    <3> QED  BY <3>2 DEF Puts, Desks
  <2> HIDE DEF c, d
  <2> QED  BY <2>5, <2>6, <2>7, <2>8, OnePageIs, Told, Counted
<1> QED  BY <1>1, <1>2 DEF Accept

LEMMA GivesUpHolds == ASSUME ConsoleInv, NEW p \in Pages, GivesUp(p) PROVE ConsoleInv'
<1> DEFINE t == [kind |-> "pending", req |-> desk[p].call.req]
<1>1. Plain(t) /\ Tells(p, t)  BY DEF Plain, GivesUp
<1> HIDE DEF t
<1> QED  BY <1>1, OnlyTells, Counted DEF GivesUp

(* What the steps of the web server and the engine do to the pages.           *)
LEMMA DesksStay ==
  ASSUME ConsoleInv, Lasts, UNCHANGED desk
  PROVE  DeskIs'
BY Lasting DEF ConsoleInv, WorldInv, DeskIs, Desks

LEMMA PushHolds == ASSUME ConsoleInv, NEW p \in Pages, Push(p) PROVE ConsoleInv'
<1> DEFINE c == desk[p].call
           n == Len(asked) + 1
           r == [do |-> c.do, id |-> c.id, run |-> IF c.run # 0 THEN c.run ELSE kept.runtime.run,
                 text |-> c.text, serving |-> TRUE]
           d == [do |-> c.do, at |-> "waiting", req |-> n]
<1>1. /\ asked' = Append(asked, r) /\ desk' = [desk EXCEPT ![p].call = d]
      /\ kept' = [kept EXCEPT !.queue = Append(@, n), !.results = Append(@, Nobody)]
      /\ UNCHANGED <<cookie, session, host, shelf, bounds>>
  BY DEF Push
<1>2. c \in Sents /\ Meant(c) /\ Brings(c) /\ c.run <= bounds.runs /\ c.do \in Commands
  BY CallsOfCommands DEF Push, Waits
<1>3. /\ asked \in Seq(Requests) /\ kept \in Redis /\ Len(kept.results) = Len(asked)
      /\ kept.queue \in Seq(Nat) /\ kept.results \in Seq({Nobody} \cup KeptResults)
      /\ kept.runtime.run \in 1..bounds.runs /\ bounds.runs \in Nat
      /\ bounds' = bounds /\ bounds \in Tallies /\ host \in Hosts /\ shelf \in Shelves
  BY <1>1 DEF ConsoleInv, WorldInv, WorldTypes, RunsFit, Redis, Tallies
<1>4. r \in Requests /\ Meant(r) /\ Brings(r) /\ r.run \in 1..bounds.runs
  <2> HIDE DEF c
  <2>1. r.run \in Nat /\ r.run \in 1..bounds.runs  BY <1>2, <1>3 DEF Sents
  <2> QED  BY <1>2, <2>1 DEF Sents, Requests, Meant, Brings
<1> HIDE DEF r, c
<1>5. /\ asked' \in Seq(Requests) /\ Len(asked') = n /\ DOMAIN asked' = 1..n /\ DOMAIN asked = 1..(n - 1)
      /\ asked'[n] = r /\ n \in Nat \ {0}
      /\ \A q \in 1..(n - 1) : asked'[q] = asked[q]
  BY <1>1, <1>3, <1>4
<1>6. /\ kept' \in Redis /\ Len(kept'.results) = n /\ DOMAIN kept'.results = 1..n /\ kept'.results[n] = Nobody
      /\ \A q \in 1..(n - 1) : kept'.results[q] = kept.results[q]
      /\ kept'.runtime = kept.runtime /\ kept'.checkpoint = kept.checkpoint
      /\ kept'.queue = Append(kept.queue, n)
  <2>1. Append(kept.queue, n) \in Seq(Nat) /\ Append(kept.results, Nobody) \in Seq({Nobody} \cup KeptResults)
    BY <1>3, <1>5
  <2>2. /\ kept'.queue = Append(kept.queue, n) /\ kept'.results = Append(kept.results, Nobody)
        /\ kept'.runtime = kept.runtime /\ kept'.checkpoint = kept.checkpoint
    BY <1>1, <1>3 DEF Redis
  <2>3. kept' \in Redis  BY <1>1, <1>3, <2>1 DEF Redis
  <2> QED  BY <1>3, <2>2, <2>3
<1>7. Lasts /\ RunsGo
  BY <1>1, <1>3, <1>5, <1>6 DEF Lasts, RunsGo
<1>8. WorldTypes' /\ RunsFit'
  BY <1>1, <1>3, <1>5, <1>6 DEF ConsoleInv, WorldInv, WorldTypes, RunsFit
<1>9. AskedIs'
  <2> SUFFICES ASSUME NEW q \in 1..n
               PROVE  Meant(asked'[q]) /\ Brings(asked'[q]) /\ asked'[q].run \in 1..bounds.runs
    BY <1>3, <1>5 DEF AskedIs
  <2>1. CASE q = n  BY <2>1, <1>4, <1>5
  <2>2. CASE q \in 1..(n - 1)  BY <2>2, <1>5 DEF ConsoleInv, WorldInv, AskedIs
  <2> QED  BY <2>1, <2>2, <1>5
<1>10. QueueIs'
  <2>1. DOMAIN kept'.queue = 1..(Len(kept.queue) + 1) /\ Len(kept.queue) \in Nat
        /\ kept'.queue[Len(kept.queue) + 1] = n /\ \A i \in 1..Len(kept.queue) : kept'.queue[i] = kept.queue[i]
    BY <1>3, <1>5, <1>6
  <2>2. \A i \in 1..Len(kept.queue) :
          /\ kept.queue[i] \in 1..(n - 1) /\ kept.results[kept.queue[i]] = Nobody
          /\ \A j \in 1..Len(kept.queue) : kept.queue[i] = kept.queue[j] => i = j
    BY <1>3, <1>5 DEF ConsoleInv, WorldInv, QueueIs
  <2> DEFINE L == Len(kept.queue)
  <2>0. \A i \in 1..(L + 1) : i \in 1..L \/ i = L + 1  BY <2>1
  <2>5. \A i \in 1..L : kept'.queue[i] \in 1..(n - 1) /\ kept'.queue[i] \in 1..n /\ kept'.queue[i] # n
    BY <2>1, <2>2, <1>5
  <2>6. n \in 1..n  BY <1>5
  <2> HIDE DEF n, L
  <2>3. \A i \in 1..(L + 1) : kept'.queue[i] \in 1..n /\ kept'.results[kept'.queue[i]] = Nobody
    <3> SUFFICES ASSUME NEW i \in 1..(L + 1)
                 PROVE  kept'.queue[i] \in 1..n /\ kept'.results[kept'.queue[i]] = Nobody
      OBVIOUS
    <3>1. CASE i = L + 1  BY <3>1, <2>1, <2>6, <1>6 DEF L
    <3>2. CASE i \in 1..L
      <4> DEFINE q == kept.queue[i]
      <4>1. kept'.queue[i] = q /\ q \in 1..(n - 1) /\ kept.results[q] = Nobody  BY <3>2, <2>1, <2>2 DEF L
      <4>2. kept'.results[q] = Nobody  BY <4>1, <1>6
      <4> QED  BY <3>2, <4>1, <4>2, <2>5
    <3> QED  BY <3>1, <3>2, <2>0
  <2>4. \A i, j \in 1..(L + 1) : kept'.queue[i] = kept'.queue[j] => i = j
    <3> SUFFICES ASSUME NEW i \in 1..(L + 1), NEW j \in 1..(L + 1), kept'.queue[i] = kept'.queue[j]
                 PROVE  i = j
      OBVIOUS
    <3>1. CASE i = L + 1 \/ j = L + 1  BY <3>1, <2>0, <2>1, <2>5 DEF L
    <3>2. CASE i \in 1..L /\ j \in 1..L  BY <3>2, <2>1, <2>2 DEF L
    <3> QED  BY <3>1, <3>2, <2>0
  <2> QED  BY <1>5, <2>1, <2>3, <2>4 DEF QueueIs, L
<1>11. JobIs'
  <2> SUFFICES ASSUME host.job # Nobody PROVE JobIs'
    BY <1>1 DEF JobIs
  <2> DEFINE j == host.job.req
  <2>1. /\ host.up /\ j \in 1..(n - 1) /\ kept.results[j] = Nobody
        /\ \A i \in 1..Len(kept.queue) : kept.queue[i] # j
        /\ CapturedFor(host.job.text, asked[j]) /\ Replacing(host.job, asked[j])
    BY <1>3, <1>5 DEF ConsoleInv, WorldInv, JobIs
  <2>2. \A i \in DOMAIN kept'.queue : kept'.queue[i] # j
    BY <2>1, <1>3, <1>5, <1>6
  <2>3. Replacing(host.job, asked[j])'
    BY <2>1, <1>1, <1>5, <1>6 DEF Replacing
  <2>4. j \in DOMAIN asked' /\ kept'.results[j] = Nobody /\ CapturedFor(host.job.text, asked'[j]) /\ host' = host
    BY <2>1, <1>1, <1>5, <1>6
  <2> QED  BY <2>1, <2>2, <2>3, <2>4 DEF JobIs
<1>12. ResultsAre'
  <2> SUFFICES ASSUME NEW q \in 1..n PROVE ResultIs(q, asked', kept', host', shelf')
    BY <1>5 DEF ResultsAre
  <2>1. CASE q = n  BY <2>1, <1>6 DEF ResultIs
  <2>2. CASE q \in 1..(n - 1)  BY <2>2, <1>5, <1>6, <1>7, ResultStays
  <2> QED  BY <2>1, <2>2, <1>5
<1>13. OneWins'
  <2>1. \A q \in 1..n : Wins(q, asked', kept', host') => q \in 1..(n - 1) /\ Wins(q, asked, kept, host)
    <3> SUFFICES ASSUME NEW q \in 1..n, Wins(q, asked', kept', host')
                 PROVE  q \in 1..(n - 1) /\ Wins(q, asked, kept, host)
      OBVIOUS
    <3>1. q # n
      <4>1. host.job # Nobody => host.job.req \in 1..(n - 1)
        BY <1>5 DEF ConsoleInv, WorldInv, JobIs
      <4> QED  BY <1>1, <1>5, <1>6, <4>1 DEF Wins
    <3>2. q \in 1..(n - 1)  BY <3>1, <1>5
    <3> QED  BY <3>2, <1>1, <1>5, <1>6 DEF Wins
  <2> QED  BY <2>1, <1>5, <1>7, NobodyWins
<1>14. Puts(p, d, desk[p].told)
  <2> HIDE DEF d
  <2>1. desk = [o \in Pages |-> [call |-> desk[o].call, told |-> desk[o].told]]
    BY DEF ConsoleInv, WorldInv, DeskIs, Desks
  <2>2. desk' = [o \in Pages |-> IF o = p THEN [call |-> d, told |-> desk[p].told]
                                 ELSE [call |-> desk[o].call, told |-> desk[o].told]]
    BY <1>1, <2>1
  <2> QED  BY <2>2 DEF Puts, Desks
<1>15. d \in Waitings /\ d.at = "waiting" /\ d.req \in DOMAIN asked' /\ d.do \in Commands
  BY <1>2, <1>5 DEF Waitings
<1>16. DeskIs' /\ SessionInv'
  <2>1. CallIs(d, asked', bounds'.runs)  BY <1>15 DEF CallIs
  <2>2. SuFits(d, session[p])  BY <1>15, NotSu
  <2> HIDE DEF d
  <2>3. DeskIs'
    <3>1. Desks'  BY <1>14 DEF Puts
    <3> SUFFICES ASSUME NEW o \in Pages
                 PROVE  CallIs(desk'[o].call, asked', bounds'.runs) /\ ToldIs(desk'[o].told, asked', kept', shelf')
      BY <3>1 DEF DeskIs
    <3>2. CallIs(desk[o].call, asked, bounds.runs) /\ ToldIs(desk[o].told, asked, kept, shelf)  BY Told
    <3> QED  BY <2>1, <3>2, <1>7, <1>14, Lasting DEF Puts
  <2>4. \A o \in Terminals : SuFits(desk'[o].call, session'[o]) /\ AsTold(desk'[o].told, session'[o])
    BY <1>1, <1>14, <2>2, Told DEF Puts, Pages
  <2> QED  BY <1>1, <2>3, <2>4 DEF SessionInv, ConsoleInv
<1> QED  BY <1>8, <1>9, <1>10, <1>11, <1>12, <1>13, <1>16 DEF ConsoleInv, WorldInv

-----------------------------------------------------------------------------
(* Its answer on the way back.                                                *)

(* Requests change in nothing but that somebody waits for them.               *)
SameRequests ==
  /\ asked' \in Seq(Requests) /\ Len(asked') = Len(asked)
  /\ \A q \in DOMAIN asked :
       asked'[q].do = asked[q].do /\ asked'[q].id = asked[q].id /\ asked'[q].run = asked[q].run
         /\ asked'[q].text = asked[q].text

LEMMA Unserved ==
  ASSUME ConsoleInv, NEW q \in DOMAIN asked, asked' = [asked EXCEPT ![q].serving = FALSE]
  PROVE  SameRequests
<1> DEFINE n == Len(asked)
           r == [asked[q] EXCEPT !.serving = FALSE]
<1>1. asked \in [1..n -> Requests] /\ n \in Nat /\ asked' = [asked EXCEPT ![q] = r] /\ q \in 1..n
  BY DEF ConsoleInv, WorldInv, WorldTypes
<1>2. asked[q] \in Requests  BY <1>1
<1>3. /\ r \in Requests /\ r.do = asked[q].do /\ r.id = asked[q].id /\ r.run = asked[q].run
      /\ r.text = asked[q].text
  BY <1>2 DEF Requests
<1> HIDE DEF r
<1>4. asked' \in [1..n -> Requests] /\ \A i \in 1..n : asked'[i] = IF i = q THEN r ELSE asked[i]
  BY <1>1, <1>3
<1>5. asked' \in Seq(Requests) /\ Len(asked') = n /\ DOMAIN asked = 1..n  BY <1>1, <1>4
<1> QED  BY <1>3, <1>4, <1>5 DEF SameRequests

LEMMA Asking ==
  ASSUME ConsoleInv
  PROVE  /\ asked \in Seq(Requests) /\ kept.results \in Seq({Nobody} \cup KeptResults)
         /\ DOMAIN asked = DOMAIN kept.results /\ DOMAIN asked = 1..Len(asked) /\ Len(asked) \in Nat
         /\ kept.queue \in Seq(Nat) /\ shelf \in Shelves /\ kept \in Redis /\ host \in Hosts
         /\ bounds \in Tallies /\ bounds.runs \in Nat
BY DEF ConsoleInv, WorldInv, WorldTypes, Redis, Tallies

SaveOver(q) == [shelf EXCEPT ![asked[q].text.id] = [holds |-> asked[q].text.holds, by |-> q]]

LEMMA Retrieving ==
  ASSUME ConsoleInv, NEW q \in DOMAIN asked, kept.results[q] # Nobody, NEW works \in BOOLEAN
  PROVE  LET x == kept.results[q]
             r == Retrieved(x, works)
             s == Shelved(q, x, works)
         IN /\ x \in KeptResults /\ r \in KeptResults /\ r # Nobody /\ r.text = x.text
            /\ ~Due(x) => r = x /\ s = shelf
            /\ r.ok => x.ok /\ ~Due(r)
            /\ s \in Shelves /\ \A id \in Ids : shelf[id] # Nobody => s[id] = shelf[id]
            /\ Due(x) /\ r.ok =>
                 /\ asked[q].do = "bookmark" /\ x.text.of = asked[q].run /\ asked[q].id \in Ids
                 /\ s[asked[q].id] # Nobody /\ s[asked[q].id].holds = x.text.holds
<1> DEFINE x == kept.results[q]
           r == Retrieved(x, works)
           s == Shelved(q, x, works)
<1>1. x \in KeptResults  BY Asking
<1>2. x.text # Nobody => asked[q].do = "bookmark" /\ x.text.id = asked[q].id /\ x.text.of = asked[q].run
  BY DEF ConsoleInv, WorldInv, ResultsAre, ResultIs, CapturedFor
<1>3. asked[q].do = "bookmark" => asked[q].id \in Ids
  BY DEF ConsoleInv, WorldInv, AskedIs, Meant
<1>4. shelf \in Shelves /\ q \in Nat  BY Asking
<1> HIDE DEF x
<1>5. CASE ~Due(x)
  <2>1. r = x /\ s = shelf  BY <1>5 DEF Retrieved, Shelved
  <2> QED  BY <1>1, <1>4, <1>5, <2>1 DEF x
<1>6. CASE Due(x)
  <2>1. x.ok = TRUE /\ x.text # Nobody /\ x.text \in Captures /\ x.saved = FALSE
    BY <1>1, <1>6 DEF Due, KeptResults
  <2> DEFINE id == x.text.id
  <2>2. id \in Ids /\ id = asked[q].id /\ x.text.holds \in Texts /\ asked[q].do = "bookmark" /\ x.text.of = asked[q].run
    BY <1>2, <2>1 DEF Captures
  <2>3. CASE works /\ Fits(x)
    <3>1. r = [x EXCEPT !.saved = TRUE]  BY <1>6, <2>3 DEF Retrieved
    <3>2. r \in KeptResults /\ r.text = x.text /\ r.ok /\ r.saved  BY <3>1, <1>1, <2>1 DEF KeptResults
    <3>3. r # Nobody  BY <3>2, ConsoleAssumption DEF KeptResults, Captures
    <3>4. CASE shelf[id] = Nobody
      <4> DEFINE f == [holds |-> x.text.holds, by |-> q]
      <4>1. f \in [holds : Texts, by : Nat] /\ f # Nobody  BY <2>2, <1>4, ConsoleAssumption
      <4>2. s = [shelf EXCEPT ![id] = f]  BY <1>6, <2>3, <3>4 DEF Shelved
      <4>3. s[id] = f /\ f.holds = x.text.holds  BY <4>2, <2>2, <1>4 DEF Shelves
      <4>4. s \in Shelves /\ \A i \in Ids : shelf[i] # Nobody => s[i] = shelf[i]
        <5> HIDE DEF f, id
        <5> QED  BY <4>1, <4>2, <2>2, <1>4, <3>4 DEF Shelves
      <4> HIDE DEF f
      <4> QED  BY <1>1, <1>6, <2>1, <2>2, <3>2, <3>3, <4>1, <4>3, <4>4 DEF x, Due
    <3>5. CASE shelf[id] # Nobody
      <4>1. s = shelf /\ shelf[id].holds = x.text.holds  BY <2>3, <3>5 DEF Shelved, Fits
      <4> QED  BY <1>1, <1>4, <1>6, <2>1, <2>2, <3>2, <3>3, <3>5, <4>1 DEF x, Due
    <3> QED  BY <3>4, <3>5
  <2>4. CASE ~(works /\ Fits(x))
    <3>1. r = [x EXCEPT !.ok = FALSE]  BY <1>6, <2>4 DEF Retrieved
    <3>2. r \in KeptResults /\ r.text = x.text /\ ~r.ok  BY <3>1, <1>1 DEF KeptResults
    <3>3. r # Nobody  BY <3>2, ConsoleAssumption DEF KeptResults, Captures
    <3>4. s = shelf
      <4>1. CASE ~works  BY <4>1 DEF Shelved
      <4>2. CASE works /\ ~Fits(x)  BY <4>2 DEF Shelved, Fits
      <4> QED  BY <4>1, <4>2, <2>4
    <3> QED  BY <1>1, <1>4, <1>6, <3>2, <3>3, <3>4 DEF x
  <2> QED  BY <2>3, <2>4
<1> QED  BY <1>5, <1>6

WorldGoesOn == WorldTypes /\ RunsFit /\ AskedIs /\ QueueIs /\ JobIs /\ ResultsAre /\ OneWins

(* What is saved on purpose replaces the file of its id.                      *)
LEMMA SavesOver ==
  ASSUME ConsoleInv, NEW q \in DOMAIN asked, asked[q].do = "save"
  PROVE  /\ SaveOver(q) \in Shelves /\ asked[q].id \in Ids
         /\ SaveOver(q)[asked[q].id] # Nobody /\ SaveOver(q)[asked[q].id].by = q
         /\ \A id \in Ids : \/ SaveOver(q)[id] = shelf[id]
                            \/ SaveOver(q)[id] # Nobody /\ SaveOver(q)[id].by = q
<1> DEFINE f == [holds |-> asked[q].text.holds, by |-> q]
           id == asked[q].id
<1>1. asked[q].text \in Files /\ asked[q].text # Nobody /\ asked[q].text.id = id /\ id \in Ids
  <2>1. Meant(asked[q]) /\ Brings(asked[q])  BY DEF ConsoleInv, WorldInv, AskedIs
  <2>2. asked[q].text \in Files /\ asked[q].id \in Ids  BY <2>1 DEF Brings, Meant
  <2>3. asked[q].text # Nobody  BY <2>1 DEF Brings
  <2>4. asked[q].text.id = id  BY <2>1, <2>3 DEF Meant
  <2> QED  BY <2>2, <2>3, <2>4
<1>2. f \in [holds : Texts, by : Nat] /\ f # Nobody /\ f.by = q
  BY <1>1, Asking, ConsoleAssumption DEF Files
<1>3. shelf \in Shelves  BY Asking
<1> HIDE DEF f
<1>4. SaveOver(q) = [shelf EXCEPT ![id] = f]  BY <1>1 DEF SaveOver, f
<1> HIDE DEF id
<1>5. SaveOver(q)[id] = f /\ \A i \in Ids : i # id => SaveOver(q)[i] = shelf[i]
  BY <1>1, <1>3, <1>4 DEF Shelves
<1>6. SaveOver(q) \in Shelves  BY <1>1, <1>2, <1>3, <1>4 DEF Shelves
<1> QED  BY <1>1, <1>2, <1>5, <1>6 DEF id

Saves(q, s) == asked[q].do = "save" /\ s = SaveOver(q)

(* An answer is fetched, and what it brings is put on the shelf.              *)
LEMMA AnswerGoesOn ==
  ASSUME ConsoleInv, NEW q \in DOMAIN asked, kept.results[q] # Nobody, NEW works \in BOOLEAN, SameRequests,
         kept' = [kept EXCEPT !.results[q] = Retrieved(kept.results[q], works)], host' = host,
         bounds' \in Tallies, bounds'.runs = bounds.runs,
         shelf' = Shelved(q, kept.results[q], works) \/ Saves(q, shelf')
  PROVE  /\ Lasts /\ WorldGoesOn'
         /\ LET r == Retrieved(kept.results[q], works) IN
              /\ r.ok => Settled(q, asked', kept')
              /\ r.ok /\ (r.saved \/ Saves(q, shelf')) => Stored(q, asked', kept', shelf')
<1> DEFINE x == kept.results[q]
           r == Retrieved(x, works)
           s == Shelved(q, x, works)
           n == Len(asked)
<1>1. /\ x \in KeptResults /\ r \in KeptResults /\ r # Nobody /\ r.text = x.text
      /\ ~Due(x) => r = x /\ s = shelf
      /\ r.ok => x.ok /\ ~Due(r)
      /\ s \in Shelves /\ \A id \in Ids : shelf[id] # Nobody => s[id] = shelf[id]
      /\ Due(x) /\ r.ok =>
           /\ asked[q].do = "bookmark" /\ x.text.of = asked[q].run /\ asked[q].id \in Ids
           /\ s[asked[q].id] # Nobody /\ s[asked[q].id].holds = x.text.holds
  BY Retrieving
<1>2. /\ asked' \in Seq(Requests) /\ DOMAIN asked' = 1..n /\ DOMAIN asked = 1..n /\ n \in Nat /\ Len(asked') = n
      /\ \A i \in 1..n : /\ asked'[i].do = asked[i].do /\ asked'[i].id = asked[i].id
                         /\ asked'[i].run = asked[i].run /\ asked'[i].text = asked[i].text
  BY Asking DEF SameRequests
<1>3. /\ kept' \in Redis /\ Len(kept'.results) = n /\ kept'.results[q] = r
      /\ \A i \in 1..n : i # q => kept'.results[i] = kept.results[i]
      /\ kept'.queue = kept.queue /\ kept'.runtime = kept.runtime /\ kept'.checkpoint = kept.checkpoint
  <2>1. kept \in Redis /\ kept.results \in [1..n -> {Nobody} \cup KeptResults] /\ q \in 1..n  BY <1>2, Asking
  <2> DEFINE w == [kept.results EXCEPT ![q] = r]
  <2>2. kept' = [kept EXCEPT !.results = w]  BY <2>1 DEF Redis
  <2> HIDE DEF r
  <2>3. w \in [1..n -> {Nobody} \cup KeptResults] /\ w[q] = r /\ \A i \in 1..n : i # q => w[i] = kept.results[i]
    BY <2>1, <1>1
  <2> HIDE DEF w, n
  <2>4. w \in Seq({Nobody} \cup KeptResults) /\ Len(w) = n  BY <2>3, <1>2
  <2>5. kept' \in Redis /\ kept'.results = w /\ kept'.queue = kept.queue /\ kept'.runtime = kept.runtime
        /\ kept'.checkpoint = kept.checkpoint
    BY <2>1, <2>2, <2>4 DEF Redis
  <2> QED  BY <2>3, <2>4, <2>5
<1>4. shelf' = s \/ (Saves(q, shelf') /\ ~Due(x))
  BY DEF Saves, Due, ConsoleInv, WorldInv, ResultsAre, ResultIs, CapturedFor
<1>5. shelf' \in Shelves
  BY <1>1, <1>4, SavesOver DEF Saves
<1>6. \A id \in Ids : shelf[id] # Nobody =>
        \/ shelf'[id] = shelf[id]
        \/ shelf'[id] # Nobody /\ shelf'[id].by \in DOMAIN asked /\ asked[shelf'[id].by].do = "save"
  BY <1>1, <1>4, SavesOver DEF Saves
<1> HIDE DEF x, r, s, n
<1>7. Lasts
  <2>1. DOMAIN asked \subseteq DOMAIN asked' /\ bounds.runs <= bounds'.runs  BY <1>2, Asking
  <2>2. \A i \in DOMAIN asked :
          asked'[i].do = asked[i].do /\ asked'[i].id = asked[i].id /\ asked'[i].run = asked[i].run
            /\ asked'[i].text = asked[i].text
    BY <1>2
  <2>3. \A i \in DOMAIN asked : kept.results[i] # Nobody =>
          /\ kept'.results[i] # Nobody /\ kept'.results[i].text = kept.results[i].text
          /\ ~Due(kept.results[i]) => kept'.results[i] = kept.results[i]
    BY <1>1, <1>2, <1>3 DEF x
  <2> QED  BY <2>1, <2>2, <2>3, <1>6 DEF Lasts
<1>8. RunsGo  BY <1>3 DEF RunsGo
<1>9. WorldTypes'  BY <1>2, <1>3, <1>5, Asking DEF WorldTypes
<1>10. RunsFit' /\ AskedIs'
  <2>1. RunsFit'  BY <1>3 DEF ConsoleInv, WorldInv, RunsFit
  <2>2. AskedIs'  BY <1>2 DEF ConsoleInv, WorldInv, AskedIs, Meant, Brings
  <2> QED  BY <2>1, <2>2
<1>11. QueueIs'
  <2>1. \A i \in DOMAIN kept.queue :
          /\ kept.queue[i] \in 1..n /\ kept.queue[i] # q /\ kept.results[kept.queue[i]] = Nobody
          /\ \A j \in DOMAIN kept.queue : kept.queue[i] = kept.queue[j] => i = j
    BY <1>2 DEF ConsoleInv, WorldInv, QueueIs
  <2> QED  BY <2>1, <1>2, <1>3 DEF QueueIs
<1>12. JobIs'
  <2> SUFFICES ASSUME host.job # Nobody PROVE JobIs'
    BY DEF JobIs
  <2> DEFINE j == host.job.req
  <2>1. /\ host.up /\ j \in 1..n /\ j # q /\ kept.results[j] = Nobody
        /\ \A i \in DOMAIN kept.queue : kept.queue[i] # j
        /\ CapturedFor(host.job.text, asked[j]) /\ Replacing(host.job, asked[j])
    BY <1>2 DEF ConsoleInv, WorldInv, JobIs
  <2>2. Replacing(host.job, asked[j])'  BY <2>1, <1>2, <1>3 DEF Replacing
  <2>3. CapturedFor(host.job.text, asked[j])'  BY <2>1, <1>2 DEF CapturedFor
  <2> QED  BY <2>1, <2>2, <2>3, <1>2, <1>3 DEF JobIs
<1>13. r.ok => Settled(q, asked', kept')
  BY <1>1, <1>2, <1>3 DEF Settled
<1>14. r.ok /\ (r.saved \/ Saves(q, shelf')) => Stored(q, asked', kept', shelf')
  <2> SUFFICES ASSUME r.ok, r.saved \/ Saves(q, shelf') PROVE Stored(q, asked', kept', shelf')
    OBVIOUS
  <2>1. CASE Saves(q, shelf')  BY <2>1, <1>2, SavesOver DEF Stored, Saves
  <2>2. CASE ~Saves(q, shelf') /\ Due(x)
    <3>1. shelf' = s  BY <2>2, <1>4
    <3>2. kept'.results[q].text = x.text  BY <1>1, <1>3
    <3> QED  BY <2>2, <3>1, <3>2, <1>1, <1>2 DEF Stored
  <2>3. CASE r.saved /\ ~Due(x)
    <3>1. x.ok /\ x.saved  BY <2>3, <1>1
    <3>2. Stored(q, asked, kept, shelf)  BY <3>1 DEF ConsoleInv, WorldInv, ResultsAre, ResultIs, x
    <3> QED  BY <3>2, <1>7, Lasting
  <2> QED  BY <2>1, <2>2, <2>3
<1>15. ResultsAre'
  <2> SUFFICES ASSUME NEW i \in 1..n PROVE ResultIs(i, asked', kept', host', shelf')
    BY <1>2 DEF ResultsAre
  <2>1. CASE i # q  BY <2>1, <1>2, <1>3, <1>7, <1>8, ResultStays
  <2>2. CASE i = q
    <3>1. ResultIs(q, asked, kept, host, shelf)  BY DEF ConsoleInv, WorldInv, ResultsAre
    <3>2. CapturedFor(r.text, asked'[q])  BY <3>1, <1>1, <1>2 DEF ResultIs, CapturedFor, x
    <3>3. r.ok /\ asked'[q].do \in Replaces => Used(asked'[q], host', kept')
      BY <3>1, <1>1, <1>2, <1>3 DEF ResultIs, Used, x
    <3> QED  BY <2>2, <3>2, <3>3, <1>3, <1>14 DEF ResultIs
  <2> QED  BY <2>1, <2>2
<1>16. OneWins'
  <2> SUFFICES ASSUME NEW i \in 1..n, Wins(i, asked', kept', host') PROVE Wins(i, asked, kept, host)
    BY <1>2, <1>7, NobodyWins
  <2>1. kept'.results[i] # Nobody /\ kept'.results[i].ok => kept.results[i] # Nobody /\ kept.results[i].ok
    BY <1>1, <1>3 DEF x
  <2> QED  BY <2>1, <1>2 DEF Wins
<1> QED  BY <1>7, <1>9, <1>10, <1>11, <1>12, <1>13, <1>14, <1>15, <1>16 DEF WorldGoesOn, r, x

(* The world goes on, and pages are told, or asked, what is so.               *)
LEMMA PagesGoOn ==
  ASSUME ConsoleInv, Lasts, WorldGoesOn', UNCHANGED <<cookie, session>>, Desks',
         \A o \in Pages :
           /\ \/ desk'[o].call = desk[o].call
              \/ CallIs(desk'[o].call, asked', bounds'.runs) /\ \A s : SuFits(desk'[o].call, s)
           /\ \/ desk'[o].told = desk[o].told
              \/ ToldIs(desk'[o].told, asked', kept', shelf') /\ \A s : AsTold(desk'[o].told, s)
  PROVE  ConsoleInv'
<1>1. DeskIs'
  <2> SUFFICES ASSUME NEW o \in Pages
               PROVE  CallIs(desk'[o].call, asked', bounds'.runs) /\ ToldIs(desk'[o].told, asked', kept', shelf')
    BY DEF DeskIs
  <2>1. CallIs(desk[o].call, asked, bounds.runs) /\ ToldIs(desk[o].told, asked, kept, shelf)  BY Told
  <2> QED  BY <2>1, Lasting
<1>2. SessionInv'
  <2> SUFFICES ASSUME NEW o \in Terminals
               PROVE  SuFits(desk'[o].call, session[o]) /\ AsTold(desk'[o].told, session[o])
    BY DEF SessionInv, ConsoleInv
  <2>1. SuFits(desk[o].call, session[o]) /\ AsTold(desk[o].told, session[o]) /\ o \in Pages  BY Told DEF Pages
  <2> QED  BY <2>1
<1> QED  BY <1>1, <1>2 DEF ConsoleInv, WorldInv, WorldGoesOn

LEMMA DesksAre == ASSUME ConsoleInv, NEW o \in Pages PROVE desk[o] = [call |-> desk[o].call, told |-> desk[o].told]
BY DEF ConsoleInv, WorldInv, DeskIs, Desks

(* Nobody waits any longer for a request.                                     *)
LEMMA RequestsGoOn ==
  ASSUME ConsoleInv, SameRequests, UNCHANGED <<kept, host, shelf, bounds>>
  PROVE  Lasts /\ WorldGoesOn'
<1>1. /\ DOMAIN asked' = DOMAIN asked /\ Len(asked') = Len(asked) /\ asked' \in Seq(Requests)
      /\ \A i \in DOMAIN asked : /\ asked'[i].do = asked[i].do /\ asked'[i].id = asked[i].id
                                 /\ asked'[i].run = asked[i].run /\ asked'[i].text = asked[i].text
  BY Asking DEF SameRequests
<1>2. Lasts /\ RunsGo  BY <1>1, Asking DEF Lasts, RunsGo
<1>3. WorldTypes' /\ RunsFit'  BY <1>1 DEF ConsoleInv, WorldInv, WorldTypes, RunsFit
<1>4. AskedIs'  BY <1>1 DEF ConsoleInv, WorldInv, AskedIs, Meant, Brings
<1>5. QueueIs'  BY <1>1 DEF ConsoleInv, WorldInv, QueueIs
<1>6. JobIs'  BY <1>1 DEF ConsoleInv, WorldInv, JobIs, CapturedFor, Replacing
<1>7. ResultsAre'  BY <1>1, <1>2, ResultStays DEF ResultsAre
<1>8. OneWins'
  <2>1. \A i \in DOMAIN asked' : Wins(i, asked', kept', host') => i \in DOMAIN asked /\ Wins(i, asked, kept, host)
    BY <1>1 DEF Wins
  <2> QED  BY <2>1, <1>2, NobodyWins
<1> QED  BY <1>2, <1>3, <1>4, <1>5, <1>6, <1>7, <1>8 DEF WorldGoesOn

(* A desk is its two parts.                                                   *)
LEMMA BothParts ==
  ASSUME NEW c, NEW t, NEW c2, NEW t2
  PROVE  [[call |-> c, told |-> t] EXCEPT !.call = c2, !.told = t2] = [call |-> c2, told |-> t2]
<1> DEFINE r == [call |-> c, told |-> t]
           v == [call |-> c2, told |-> t]
<1>1. [r EXCEPT !.call = c2] = v  OBVIOUS
<1>2. [v EXCEPT !.told = t2] = [call |-> c2, told |-> t2]  OBVIOUS
<1> QED  BY <1>1, <1>2

LEMMA CallPart ==
  ASSUME NEW c, NEW t
  PROVE  /\ [[call |-> c, told |-> t] EXCEPT !.call.at = "polling"]
              = [call |-> [c EXCEPT !.at = "polling"], told |-> t]
         /\ [call |-> c, told |-> t].call = c /\ [call |-> c, told |-> t].told = t
<1> DEFINE r == [call |-> c, told |-> t]
           e == [c EXCEPT !.at = "polling"]
<1>1. r.call = c /\ r.told = t  OBVIOUS
<1>2. [r EXCEPT !.call.at = "polling"] = [r EXCEPT !.call = e]  BY <1>1
<1> HIDE DEF e
<1>3. [r EXCEPT !.call = e] = [call |-> e, told |-> t]  OBVIOUS
<1> QED  BY <1>1, <1>2, <1>3 DEF e, r

LEMMA EveryoneIsTold ==
  ASSUME ConsoleInv, NEW q, NEW t, Replies(q, t)
  PROVE  /\ Desks'
         /\ \A o \in Pages : \/ desk'[o].call = desk[o].call /\ desk'[o].told = desk[o].told
                             \/ desk'[o].call = Nobody /\ desk'[o].told = t
<1> DEFINE d(o) == IF WaitsFor(o, q) THEN [call |-> Nobody, told |-> t]
                                      ELSE [call |-> desk[o].call, told |-> desk[o].told]
<1>1. \A o \in Pages :
        (IF WaitsFor(o, q) THEN [desk[o] EXCEPT !.call = Nobody, !.told = t] ELSE desk[o]) = d(o)
  <2> SUFFICES ASSUME NEW o \in Pages
               PROVE  (IF WaitsFor(o, q) THEN [desk[o] EXCEPT !.call = Nobody, !.told = t] ELSE desk[o]) = d(o)
    OBVIOUS
  <2>1. PICK c, u : desk[o] = [call |-> c, told |-> u]  BY DesksAre
  <2>2. [desk[o] EXCEPT !.call = Nobody, !.told = t] = [call |-> Nobody, told |-> t]  BY <2>1, BothParts
  <2> QED  BY <2>1, <2>2
<1>2. desk' = [o \in Pages |-> d(o)]  BY <1>1 DEF Replies
<1>3. \A o \in Pages : desk'[o] = d(o)  BY <1>2
<1>4. \A o \in Pages : \/ desk'[o].call = desk[o].call /\ desk'[o].told = desk[o].told
                       \/ desk'[o].call = Nobody /\ desk'[o].told = t
  <2> SUFFICES ASSUME NEW o \in Pages
               PROVE  \/ desk'[o].call = desk[o].call /\ desk'[o].told = desk[o].told
                      \/ desk'[o].call = Nobody /\ desk'[o].told = t
    OBVIOUS
  <2>1. CASE WaitsFor(o, q)
    <3>1. desk'[o] = [call |-> Nobody, told |-> t]  BY <1>3, <2>1
    <3> QED  BY <3>1
  <2>2. CASE ~WaitsFor(o, q)
    <3>1. desk'[o] = [call |-> desk[o].call, told |-> desk[o].told]  BY <1>3, <2>2
    <3> QED  BY <3>1
  <2> QED  BY <2>1, <2>2
<1>5. \A o \in Pages : d(o) = [call |-> desk'[o].call, told |-> desk'[o].told]  BY <1>3
<1>6. desk' = [o \in Pages |-> [call |-> desk'[o].call, told |-> desk'[o].told]]  BY <1>2, <1>5
<1> QED  BY <1>4, <1>6 DEF Desks

LEMMA ServeHolds == ASSUME ConsoleInv, NEW q \in DOMAIN asked, NEW works \in BOOLEAN, Serve(q, works) PROVE ConsoleInv'
<1> DEFINE x == kept.results[q]
           r == Retrieved(x, works)
           saves == asked[q].do = "save" /\ r.ok
           t == IF saves /\ ~works THEN Error ELSE Outcome(q, r)
<1>1. /\ x # Nobody /\ kept' = [kept EXCEPT !.results[q] = r] /\ Replies(q, t)
      /\ asked' = [asked EXCEPT ![q].serving = FALSE] /\ UNCHANGED <<cookie, session, host>>
      /\ shelf' = IF saves /\ works THEN SaveOver(q) ELSE Shelved(q, x, works)
      /\ Mishap \/ bounds' = bounds
  BY DEF Serve, SaveOver
<1>2. SameRequests  BY <1>1, Unserved
<1>3. bounds' \in Tallies /\ bounds'.runs = bounds.runs  BY <1>1, Counted
<1>4. shelf' = Shelved(q, x, works) \/ Saves(q, shelf')  BY <1>1 DEF Saves
<1>5. /\ Lasts /\ WorldGoesOn'
      /\ r.ok => Settled(q, asked', kept')
      /\ r.ok /\ (r.saved \/ Saves(q, shelf')) => Stored(q, asked', kept', shelf')
  BY <1>1, <1>2, <1>3, <1>4, AnswerGoesOn
<1>6. r \in KeptResults  BY <1>1, Retrieving
<1>7. t = Error \/ (r.ok /\ t = [kind |-> "done", req |-> q])
        \/ (r.ok /\ t = [kind |-> "saved", req |-> q] /\ (r.saved \/ Saves(q, shelf')))
  <2>1. r.ok \in BOOLEAN /\ r.saved \in BOOLEAN  BY <1>6 DEF KeptResults
  <2>2. saves /\ works => Saves(q, shelf')  BY <1>1 DEF Saves
  <2> QED  BY <2>1, <2>2 DEF Outcome
<1> HIDE DEF t, x, r
<1>8. ToldIs(t, asked', kept', shelf') /\ \A s : AsTold(t, s)
  BY <1>5, <1>7 DEF ToldIs, AsTold, Error
<1>9. Desks' /\ \A o \in Pages : \/ desk'[o].call = desk[o].call /\ desk'[o].told = desk[o].told
                                 \/ desk'[o].call = Nobody /\ desk'[o].told = t
  BY <1>1, EveryoneIsTold
<1> QED  BY <1>1, <1>5, <1>8, <1>9, PagesGoOn, PlainWords

LEMMA AsksAgainHolds ==
  ASSUME ConsoleInv, NEW p \in Pages, NEW works \in BOOLEAN, AsksAgain(p, works) PROVE ConsoleInv'
<1> DEFINE q == desk[p].call.req
           x == kept.results[q]
           r == Retrieved(x, works)
           t == Outcome(q, r)
<1>0. (Mishap \/ bounds' = bounds) /\ UNCHANGED <<cookie, session, asked, host>> BY DEF AsksAgain
<1>1. bounds' \in Tallies /\ bounds'.runs = bounds.runs  BY <1>0, Counted
<1>2. CASE Tells(p, Error) /\ UNCHANGED <<kept, shelf>>
  BY <1>0, <1>1, <1>2, OnlyTells, PlainWords
<1>3. CASE /\ x # Nobody /\ kept' = [kept EXCEPT !.results[q] = r] /\ shelf' = Shelved(q, x, works) /\ Tells(p, t)
  <2>1. q \in DOMAIN asked /\ asked[q].do # "save"  BY CallsOfCommands DEF AsksAgain
  <2>2. SameRequests  BY <1>0, Asking DEF SameRequests
  <2>3. /\ Lasts /\ WorldGoesOn'
        /\ r.ok => Settled(q, asked', kept')
        /\ r.ok /\ r.saved => Stored(q, asked', kept', shelf')
    BY <1>0, <1>1, <1>3, <2>1, <2>2, AnswerGoesOn
  <2>4. r \in KeptResults  BY <1>3, <2>1, Retrieving
  <2>5. t = Error \/ (r.ok /\ t = [kind |-> "done", req |-> q])
          \/ (r.ok /\ t = [kind |-> "saved", req |-> q] /\ r.saved)
    <3>1. r.ok \in BOOLEAN /\ r.saved \in BOOLEAN  BY <2>4 DEF KeptResults
    <3> QED  BY <3>1, <2>1 DEF Outcome
  <2> HIDE DEF t, x, r
  <2>6. ToldIs(t, asked', kept', shelf') /\ \A s : AsTold(t, s)
    BY <2>3, <2>5 DEF ToldIs, AsTold, Error
  <2>7. desk' = [desk EXCEPT ![p].call = Nobody, ![p].told = t]  BY <1>3 DEF Tells
  <2>8. Puts(p, Nobody, t)  BY <2>7, Placing
  <2> QED  BY <1>0, <2>3, <2>6, <2>8, PagesGoOn, PlainWords DEF Puts
<1> QED  BY <1>2, <1>3 DEF AsksAgain

LEMMA PendsHolds == ASSUME ConsoleInv, NEW q \in DOMAIN asked, Pends(q) PROVE ConsoleInv'
<1> DEFINE d(o) == CASE ~WaitsFor(o, q) -> [call |-> desk[o].call, told |-> desk[o].told]
                     [] WaitsFor(o, q) /\ asked[q].do = "save" -> [call |-> Nobody, told |-> Error]
                     [] OTHER -> [call |-> [desk[o].call EXCEPT !.at = "polling"], told |-> desk[o].told]
<1>1. desk' = [o \in Pages |-> d(o)]
  <2> DEFINE e(o) == CASE ~WaitsFor(o, q) -> desk[o]
                       [] WaitsFor(o, q) /\ asked[q].do = "save" -> [desk[o] EXCEPT !.call = Nobody, !.told = Error]
                       [] OTHER -> [desk[o] EXCEPT !.call.at = "polling"]
  <2>1. \A o \in Pages : e(o) = d(o)
    <3> SUFFICES ASSUME NEW o \in Pages PROVE e(o) = d(o)
      OBVIOUS
    <3>1. PICK c, u : desk[o] = [call |-> c, told |-> u]  BY DesksAre
    <3>2. [desk[o] EXCEPT !.call = Nobody, !.told = Error] = [call |-> Nobody, told |-> Error]
      BY <3>1, BothParts
    <3>3. desk[o].call = c /\ desk[o].told = u  BY <3>1, CallPart
    <3>4. [desk[o] EXCEPT !.call.at = "polling"] = [call |-> [c EXCEPT !.at = "polling"], told |-> u]
      BY <3>1, CallPart
    <3>5. [desk[o] EXCEPT !.call.at = "polling"]
            = [call |-> [desk[o].call EXCEPT !.at = "polling"], told |-> desk[o].told]
      BY <3>3, <3>4
    <3> QED  BY <3>1, <3>2, <3>3, <3>5
  <2>2. desk' = [o \in Pages |-> e(o)]  BY DEF Pends
  <2> HIDE DEF d, e
  <2> QED  BY <2>1, <2>2
<1>2. /\ asked' = [asked EXCEPT ![q].serving = FALSE] /\ UNCHANGED <<cookie, session, kept, host, shelf, bounds>>
  BY DEF Pends
<1>3. SameRequests  BY <1>2, Unserved
<1>4. Lasts /\ WorldGoesOn'  BY <1>2, <1>3, RequestsGoOn
<1>5. Desks' /\ \A o \in Pages : desk'[o] = d(o)
  <2>1. \A o \in Pages : desk'[o] = d(o)  BY <1>1
  <2>2. \A o \in Pages : d(o) = [call |-> d(o).call, told |-> d(o).told]  OBVIOUS
  <2> HIDE DEF d
  <2>3. \A o \in Pages : d(o) = [call |-> desk'[o].call, told |-> desk'[o].told]  BY <2>1, <2>2
  <2> QED  BY <1>1, <2>1, <2>3 DEF Desks
<1>6. ASSUME NEW o \in Pages
      PROVE  /\ \/ desk'[o].call = desk[o].call
                \/ CallIs(desk'[o].call, asked', bounds'.runs) /\ \A s : SuFits(desk'[o].call, s)
             /\ \/ desk'[o].told = desk[o].told
                \/ ToldIs(desk'[o].told, asked', kept', shelf') /\ \A s : AsTold(desk'[o].told, s)
  <2>1. CASE ~WaitsFor(o, q)
    <3>1. desk'[o] = [call |-> desk[o].call, told |-> desk[o].told]  BY <2>1, <1>5
    <3> QED  BY <3>1
  <2>2. CASE WaitsFor(o, q) /\ asked[q].do = "save"
    <3>0. desk'[o] = [call |-> Nobody, told |-> Error]  BY <2>2, <1>5
    <3>1. desk'[o].call = Nobody /\ desk'[o].told = Error  BY <3>0
    <3> QED  BY <3>1, PlainWords
  <2>3. CASE WaitsFor(o, q) /\ asked[q].do # "save"
    <3> DEFINE c == desk[o].call
               e == [c EXCEPT !.at = "polling"]
    <3>0. desk'[o] = [call |-> e, told |-> desk[o].told]  BY <2>3, <1>5
    <3> HIDE DEF e
    <3>1. desk'[o].call = e /\ desk'[o].told = desk[o].told  BY <3>0, CallPart
    <3> USE DEF e
    <3>2. c \in Waitings /\ c.req = q /\ c.do \in Commands
      <4>1. \E at \in {"waiting", "polling"} : Waits(o, at)  BY <2>3 DEF WaitsFor, Waits
      <4> QED  BY <2>3, <4>1, CallsOfCommands DEF WaitsFor
    <3>3. e \in Waitings /\ e.req = q /\ e.do \in Commands  BY <3>2 DEF Waitings
    <3> HIDE DEF e
    <3>4. CallIs(e, asked', bounds'.runs)  BY <3>3, <2>3, <1>4 DEF CallIs, Lasts
    <3> QED  BY <3>1, <3>3, <3>4, NotSu
  <2> QED  BY <2>1, <2>2, <2>3
<1> QED  BY <1>2, <1>4, <1>5, <1>6, PagesGoOn

-----------------------------------------------------------------------------
(* The engine.                                                                *)

LEMMA EngineLasts ==
  ASSUME ConsoleInv, UNCHANGED <<asked, shelf>>, kept'.results = kept.results,
         bounds' \in Tallies, bounds.runs <= bounds'.runs
  PROVE  Lasts
BY DEF Lasts

(* A step of the engine that leaves the results as they are.                  *)
LEMMA EngineCarriesOn ==
  ASSUME ConsoleInv, UNCHANGED <<cookie, session, desk, asked, shelf>>, kept' \in Redis, host' \in Hosts,
         kept'.results = kept.results, bounds' \in Tallies, bounds.runs <= bounds'.runs,
         RunsGo, RunsFit', QueueIs', JobIs',
         OneWins' \/ \A q \in DOMAIN asked : Wins(q, asked, kept', host') => Wins(q, asked, kept, host)
  PROVE  ConsoleInv'
<1>1. Lasts  BY EngineLasts
<1>2. WorldTypes'  BY DEF ConsoleInv, WorldInv, WorldTypes
<1>3. AskedIs'
  <2>1. \A q \in DOMAIN asked : Meant(asked[q]) /\ Brings(asked[q]) /\ asked[q].run \in 1..bounds.runs
    BY DEF ConsoleInv, WorldInv, AskedIs
  <2>2. bounds.runs \in Nat /\ bounds'.runs \in Nat  BY Asking DEF Tallies
  <2>3. \A q \in DOMAIN asked : asked[q].run \in 1..bounds'.runs  BY <2>1, <2>2
  <2> QED  BY <2>1, <2>3 DEF AskedIs
<1>4. ResultsAre'  BY <1>1, ResultStays DEF ResultsAre
<1>5. OneWins'  BY <1>1, NobodyWins
<1>6. DeskIs'  BY <1>1, DesksStay
<1>7. SessionInv'  BY DEF ConsoleInv, SessionInv
<1> QED  BY <1>2, <1>3, <1>4, <1>5, <1>6, <1>7 DEF ConsoleInv, WorldInv

LEMMA EngineStands ==
  ASSUME ConsoleInv
  PROVE  /\ kept \in Redis /\ host \in Hosts /\ bounds \in Tallies /\ bounds.runs \in Nat
         /\ host.run \in 1..bounds.runs /\ kept.runtime.run \in 1..bounds.runs
         /\ kept.checkpoint.run <= bounds.runs /\ kept.checkpoint.run \in Nat
         /\ QueueIs /\ JobIs /\ OneWins
BY Asking DEF ConsoleInv, WorldInv, RunsFit, Redis

(* The command at hand goes on to its next step.                              *)
LEMMA JobGoes ==
  ASSUME ConsoleInv, host.job # Nobody, UNCHANGED asked, kept'.results = kept.results, kept'.queue = kept.queue,
         host'.up, host'.job.req = host.job.req, CapturedFor(host.job.text, AtHand)', Replacing(host.job, AtHand)'
  PROVE  JobIs' /\ QueueIs'
<1>1. JobIs'  BY EngineStands DEF JobIs, AtHand
<1>2. QueueIs'  BY EngineStands DEF QueueIs
<1> QED  BY <1>1, <1>2

LEMMA GoesTo ==
  ASSUME NEW h \in Hosts, h.job \in Jobs, NEW at \in {"popped", "installed", "saved", "answer"}
  PROVE  LET g == Goes(h, at) IN
         /\ g \in Hosts /\ g.up = h.up /\ g.run = h.run /\ g.world = h.world /\ g.scenario = h.scenario
         /\ g.paused = h.paused /\ g.loaded = h.loaded
         /\ g.job.at = at /\ g.job.req = h.job.req /\ g.job.ok = h.job.ok /\ g.job.text = h.job.text
<1> DEFINE j == [h.job EXCEPT !.at = at]
<1>2. j \in Jobs /\ j.at = at /\ j.req = h.job.req /\ j.ok = h.job.ok /\ j.text = h.job.text
  BY DEF Jobs
<1>3. Goes(h, at) = [h EXCEPT !.job = j]  BY DEF Goes, Hosts
<1> HIDE DEF j
<1> QED  BY <1>2, <1>3 DEF Hosts

LEMMA Refused ==
  ASSUME NEW h \in Hosts, h.job # Nobody
  PROVE  LET g == [h EXCEPT !.job.ok = FALSE] IN
         /\ g \in Hosts /\ g.up = h.up /\ g.run = h.run /\ g.job \in Jobs
         /\ g.job.req = h.job.req /\ g.job.ok = FALSE /\ g.job.text = h.job.text
<1> DEFINE j == [h.job EXCEPT !.ok = FALSE]
<1>1. h.job \in Jobs  BY DEF Hosts
<1>2. j \in Jobs /\ j.ok = FALSE /\ j.req = h.job.req /\ j.text = h.job.text
  BY <1>1 DEF Jobs
<1>3. [h EXCEPT !.job.ok = FALSE] = [h EXCEPT !.job = j]  BY DEF Hosts
<1> HIDE DEF j
<1> QED  BY <1>2, <1>3 DEF Hosts

LEMMA PopHolds == ASSUME ConsoleInv, Pop PROVE ConsoleInv'
<1> DEFINE j == [req |-> Head(kept.queue), at |-> "popped", ok |-> TRUE, text |-> Nobody]
           n == Len(kept.queue)
<1>1. /\ host.up /\ host.job = Nobody /\ kept.queue # <<>>
      /\ host' = [host EXCEPT !.job = j] /\ kept' = [kept EXCEPT !.queue = Tail(kept.queue)]
      /\ UNCHANGED <<cookie, session, desk, asked, shelf, bounds>>
  BY DEF Pop
<1>2. /\ kept.queue \in Seq(Nat) /\ n \in Nat /\ n >= 1 /\ DOMAIN kept.queue = 1..n
      /\ Head(kept.queue) = kept.queue[1] /\ Tail(kept.queue) \in Seq(Nat)
      /\ DOMAIN Tail(kept.queue) = 1..(n - 1) /\ \A i \in 1..(n - 1) : Tail(kept.queue)[i] = kept.queue[i + 1]
  BY <1>1, Asking
<1>3. \A i \in 1..n : /\ kept.queue[i] \in DOMAIN asked /\ kept.results[kept.queue[i]] = Nobody
                      /\ \A k \in 1..n : kept.queue[i] = kept.queue[k] => i = k
  BY <1>2, EngineStands DEF QueueIs
<1>4. j \in Jobs /\ j.req = kept.queue[1]  BY <1>2 DEF Jobs
<1> HIDE DEF j
<1>5. /\ host' \in Hosts /\ host'.job = j /\ host'.up /\ host'.run = host.run
      /\ kept' \in Redis /\ kept'.queue = Tail(kept.queue) /\ kept'.results = kept.results
      /\ kept'.runtime = kept.runtime /\ kept'.checkpoint = kept.checkpoint
  BY <1>1, <1>2, <1>4, EngineStands DEF Hosts, Redis
<1> HIDE DEF n
<1>6. QueueIs'
  <2> SUFFICES ASSUME NEW i \in 1..(n - 1)
               PROVE  /\ kept'.queue[i] \in DOMAIN asked /\ kept.results[kept'.queue[i]] = Nobody
                      /\ \A k \in 1..(n - 1) : kept'.queue[i] = kept'.queue[k] => i = k
    BY <1>1, <1>2, <1>5 DEF QueueIs
  <2>1. i + 1 \in 1..n /\ \A k \in 1..(n - 1) : k + 1 \in 1..n /\ (i + 1 = k + 1 => i = k)  BY <1>2
  <2>2. kept'.queue[i] = kept.queue[i + 1] /\ \A k \in 1..(n - 1) : kept'.queue[k] = kept.queue[k + 1]
    BY <1>2, <1>5
  <2> QED  BY <1>3, <2>1, <2>2
<1>7. JobIs'
  <2>1. 1 \in 1..n  BY <1>2
  <2>2. j.req \in DOMAIN asked /\ kept.results[j.req] = Nobody  BY <1>3, <1>4, <2>1
  <2>3. \A i \in DOMAIN kept'.queue : kept'.queue[i] # j.req
    <3> SUFFICES ASSUME NEW i \in 1..(n - 1), kept'.queue[i] = j.req PROVE FALSE
      BY <1>2, <1>5
    <3>1. i + 1 \in 1..n /\ i + 1 # 1  BY <1>2
    <3>2. kept.queue[i + 1] = kept.queue[1]  BY <1>2, <1>4, <1>5
    <3> QED  BY <1>3, <2>1, <3>1, <3>2
  <2>4. CapturedFor(j.text, asked[j.req])  BY DEF CapturedFor, j
  <2>5. Replacing(host.job, asked[host.job.req])'  BY <1>5 DEF Replacing, j
  <2> QED  BY <1>1, <1>5, <2>2, <2>3, <2>4, <2>5 DEF JobIs
<1>8. RunsGo /\ RunsFit'  BY <1>1, <1>5, EngineStands DEF RunsGo, RunsFit
<1>9. \A q \in DOMAIN asked : Wins(q, asked, kept', host') => Wins(q, asked, kept, host)
  BY <1>5 DEF Wins, j
<1>10. bounds' \in Tallies /\ bounds.runs <= bounds'.runs  BY <1>1, EngineStands
<1> QED  BY <1>1, <1>5, <1>6, <1>7, <1>8, <1>9, <1>10, EngineCarriesOn

LEMMA RefuseHolds == ASSUME ConsoleInv, Refuse \/ WriteFails PROVE ConsoleInv'
<1> DEFINE h == [host EXCEPT !.job.ok = FALSE]
<1>1. /\ host.up /\ host.job # Nobody /\ host' = Goes(h, "answer")
      /\ UNCHANGED <<cookie, session, desk, asked, kept, shelf>> /\ (Mishap \/ bounds' = bounds)
  BY DEF Refuse, WriteFails, Job
<1>2. /\ h \in Hosts /\ h.up = host.up /\ h.run = host.run /\ h.job \in Jobs
      /\ h.job.req = host.job.req /\ h.job.ok = FALSE /\ h.job.text = host.job.text
  BY <1>1, EngineStands, Refused
<1> HIDE DEF h
<1>3. /\ host' \in Hosts /\ host'.up /\ host'.run = host.run
      /\ host'.job.req = host.job.req /\ host'.job.ok = FALSE /\ host'.job.text = host.job.text
  BY <1>1, <1>2, GoesTo
<1>4. bounds' \in Tallies /\ bounds'.runs = bounds.runs  BY <1>1, Counted
<1>5. CapturedFor(host.job.text, AtHand)' /\ Replacing(host.job, AtHand)'
  BY <1>1, <1>3, EngineStands DEF JobIs, AtHand, Replacing
<1>6. JobIs' /\ QueueIs'  BY <1>1, <1>3, <1>5, JobGoes
<1>7. RunsGo /\ RunsFit'  BY <1>1, <1>3, <1>4, EngineStands DEF RunsGo, RunsFit
<1>8. \A q \in DOMAIN asked : Wins(q, asked, kept', host') => Wins(q, asked, kept, host)
  BY <1>1, <1>3 DEF Wins
<1> QED  BY <1>1, <1>3, <1>4, <1>6, <1>7, <1>8, EngineCarriesOn, EngineStands

LEMMA AtHandIs ==
  ASSUME ConsoleInv, host.up, host.job # Nobody
  PROVE  /\ host.job \in Jobs /\ host.job.req \in DOMAIN asked /\ kept.results[host.job.req] = Nobody
         /\ CapturedFor(host.job.text, AtHand) /\ Replacing(host.job, AtHand)
         /\ AtHand \in Requests /\ Meant(AtHand) /\ Brings(AtHand) /\ AtHand.run \in 1..bounds.runs
         /\ \A i \in DOMAIN kept.queue : kept.queue[i] # host.job.req
<1>1. host.job \in Jobs  BY Asking DEF Hosts
<1>2. /\ host.job.req \in DOMAIN asked /\ kept.results[host.job.req] = Nobody
      /\ CapturedFor(host.job.text, AtHand) /\ Replacing(host.job, AtHand)
      /\ \A i \in DOMAIN kept.queue : kept.queue[i] # host.job.req
  BY EngineStands DEF JobIs, AtHand
<1>3. AtHand \in Requests  BY <1>2, Asking DEF AtHand
<1>4. Meant(AtHand) /\ Brings(AtHand) /\ AtHand.run \in 1..bounds.runs
  BY <1>2 DEF ConsoleInv, WorldInv, AskedIs, AtHand
<1> QED  BY <1>1, <1>2, <1>3, <1>4

(* A command that replaces the world begins a run of its own.                 *)
LEMMA ReplacedHolds ==
  ASSUME ConsoleInv, Job("popped"), ForThisWorld, AtHand.do \in Replaces, NEW text \in {Nobody} \cup Files, NEW w \in Texts,
         host' = Replaced(text, w), bounds' = [bounds EXCEPT !.runs = bounds.runs + 1],
         UNCHANGED <<cookie, session, desk, asked, kept, shelf>>
  PROVE  ConsoleInv'
<1> DEFINE n == bounds.runs + 1
           sc == IF text = Nobody THEN Nobody ELSE text.id
           h == [host EXCEPT !.run = n, !.world = w, !.loaded = text, !.paused = text # Nobody,
                             !.steps = FALSE, !.scenario = sc]
<1>1. host \in Hosts /\ host.up /\ host.job # Nobody /\ host.job.at = "popped" /\ n \in Nat
  BY EngineStands DEF Job
<1>2. sc \in {Nobody} \cup Ids /\ (text # Nobody) \in BOOLEAN  BY DEF Files
<1>3. host' = Goes(h, "installed")  BY DEF Replaced
<1> HIDE DEF sc, n
<1>4. h \in Hosts /\ h.up = host.up /\ h.run = n /\ h.job = host.job  BY <1>1, <1>2 DEF Hosts
<1> HIDE DEF h
<1>5. h.job \in Jobs  BY <1>1, <1>4, AtHandIs
<1>6. /\ host' \in Hosts /\ host'.up /\ host'.run = n /\ host'.job.at = "installed"
      /\ host'.job.req = host.job.req /\ host'.job.ok = host.job.ok /\ host'.job.text = host.job.text
  <2>1. /\ host' \in Hosts /\ host'.up = h.up /\ host'.run = h.run /\ host'.job.at = "installed"
        /\ host'.job.req = h.job.req /\ host'.job.ok = h.job.ok /\ host'.job.text = h.job.text
    BY <1>3, <1>4, <1>5, GoesTo
  <2> QED  BY <1>1, <1>4, <2>1
<1>7. bounds' \in Tallies /\ bounds'.runs = n /\ bounds.runs <= n /\ bounds.runs \in Nat
  BY EngineStands DEF Tallies, n
<1>8. AtHand' = AtHand  BY <1>6 DEF AtHand
<1>9. AtHand.run \in 1..bounds.runs /\ AtHand.run # n  BY <1>1, AtHandIs, EngineStands DEF n
<1>10. CapturedFor(host.job.text, AtHand)'  BY <1>1, <1>6, <1>8, AtHandIs DEF CapturedFor
<1>11. Replacing(host.job, AtHand)'  BY <1>6, <1>8, <1>9 DEF Replacing
<1>12. JobIs' /\ QueueIs'  BY <1>1, <1>6, <1>10, <1>11, JobGoes
<1>13. RunsGo  BY <1>6 DEF RunsGo, n
<1>14. RunsFit'  BY <1>6, <1>7, EngineStands DEF RunsFit, n
<1>15. OneWins'
  <2>1. \A q \in DOMAIN asked :
          Wins(q, asked', kept', host') => Wins(q, asked, kept, host) \/ q = host.job.req
    BY <1>6 DEF Wins
  <2>2. \A q \in DOMAIN asked : Wins(q, asked, kept, host) => asked[q].run # host.run
    <3> SUFFICES ASSUME NEW q \in DOMAIN asked, Wins(q, asked, kept, host) PROVE asked[q].run # host.run
      OBVIOUS
    <3>1. kept.results[q] # Nobody /\ kept.results[q].ok /\ asked[q].do \in Replaces  BY <1>1 DEF Wins
    <3>2. Used(asked[q], host, kept)  BY <3>1 DEF ConsoleInv, WorldInv, ResultsAre, ResultIs
    <3> QED  BY <3>2 DEF Used
  <2>3. asked[host.job.req].run = host.run  BY DEF ForThisWorld, AtHand
  <2>4. OneWins  BY EngineStands
  <2> SUFFICES ASSUME NEW q1 \in DOMAIN asked, NEW q2 \in DOMAIN asked, Wins(q1, asked', kept', host'),
                      Wins(q2, asked', kept', host'), asked[q1].run = asked[q2].run
               PROVE  q1 = q2
    BY DEF OneWins
  <2> QED  BY <2>1, <2>2, <2>3, <2>4 DEF OneWins
<1> QED  BY <1>6, <1>7, <1>12, <1>13, <1>14, <1>15, EngineCarriesOn, EngineStands

(* The others leave the run as it is.                                         *)
LEMMA CarriedOut ==
  ASSUME ConsoleInv, Job("popped"), AtHand.do \notin Replaces, NEW h \in Hosts, h.up = host.up, h.run = host.run,
         h.job \in Jobs, h.job.req = host.job.req, CapturedFor(h.job.text, AtHand),
         NEW at \in {"popped", "installed", "saved", "answer"}, host' = Goes(h, at),
         UNCHANGED <<cookie, session, desk, asked, kept, shelf, bounds>>
  PROVE  ConsoleInv'
<1>1. host.up /\ host.job # Nobody  BY DEF Job
<1>2. /\ host' \in Hosts /\ host'.up /\ host'.run = host.run /\ host'.job.req = host.job.req
      /\ host'.job.text = h.job.text
  BY <1>1, GoesTo
<1>3. AtHand' = AtHand  BY <1>2 DEF AtHand
<1>4. CapturedFor(host.job.text, AtHand)' /\ Replacing(host.job, AtHand)'  BY <1>2, <1>3 DEF CapturedFor, Replacing
<1>5. JobIs' /\ QueueIs'  BY <1>1, <1>2, <1>4, JobGoes
<1>6. RunsGo /\ RunsFit'  BY <1>2, EngineStands DEF RunsGo, RunsFit
<1>7. \A q \in DOMAIN asked : Wins(q, asked', kept', host') => Wins(q, asked, kept, host)
  BY <1>2 DEF Wins, AtHand
<1>8. bounds' \in Tallies /\ bounds.runs <= bounds'.runs  BY EngineStands
<1> QED  BY <1>2, <1>5, <1>6, <1>7, <1>8, EngineCarriesOn, EngineStands

LEMMA ExecuteHolds == ASSUME ConsoleInv, Execute PROVE ConsoleInv'
<1> DEFINE do == AtHand.do
           text == IF do = "reload" /\ AtHand.text = Nobody THEN host.loaded ELSE AtHand.text
<1>1. /\ Job("popped") /\ ForThisWorld /\ UNCHANGED <<cookie, session, desk, asked, kept, shelf>>
      /\ host.up /\ host.job # Nobody
  BY DEF Execute, Job
<1>2. /\ host \in Hosts /\ host.job \in Jobs /\ AtHand \in Requests /\ Brings(AtHand) /\ Meant(AtHand)
      /\ CapturedFor(host.job.text, AtHand)
  BY <1>1, EngineStands, AtHandIs
<1>3. CASE /\ do = "load" \/ (do = "reload" /\ host.loaded # Nobody)
           /\ host' = Replaced(text, text.holds) /\ bounds' = [bounds EXCEPT !.runs = @ + 1]
  <2>1. text \in Files
    <3>1. CASE do = "load"  BY <3>1, <1>2 DEF Brings
    <3>2. CASE do = "reload" /\ host.loaded # Nobody
      <4>1. host.loaded \in Files  BY <3>2, <1>2 DEF Hosts
      <4>2. AtHand.text \in {Nobody} \cup Files  BY <1>2 DEF Requests
      <4> QED  BY <3>2, <4>1, <4>2
    <3> QED  BY <1>3, <3>1, <3>2
  <2>2. text.holds \in Texts  BY <2>1 DEF Files
  <2>3. do \in Replaces  BY <1>3 DEF Replaces
  <2> HIDE DEF text
  <2> QED  BY <1>1, <1>3, <2>1, <2>2, <2>3, ReplacedHolds
<1>4. CASE /\ do = "world_respawn"
           /\ \E w \in Texts : host' = Replaced(Nobody, w)
           /\ bounds' = [bounds EXCEPT !.runs = @ + 1]
  BY <1>1, <1>4, ReplacedHolds DEF Replaces
<1>5. CASE do \in {"validate", "save"} /\ host' = Goes(host, "saved") /\ UNCHANGED bounds
  <2>1. do \notin Replaces  BY <1>5 DEF Replaces
  <2> QED  BY <1>1, <1>2, <1>5, <2>1, CarriedOut
<1>6. CASE do = "pause" /\ host' = Goes([host EXCEPT !.paused = TRUE, !.steps = FALSE], "installed") /\ UNCHANGED bounds
  <2> DEFINE h == [host EXCEPT !.paused = TRUE, !.steps = FALSE]
  <2>1. do \notin Replaces  BY <1>6 DEF Replaces
  <2>2. h \in Hosts /\ h.up = host.up /\ h.run = host.run /\ h.job = host.job  BY <1>2 DEF Hosts
  <2> HIDE DEF h
  <2> QED  BY <1>1, <1>2, <1>6, <2>1, <2>2, CarriedOut DEF h
<1>7. CASE do = "resume" /\ host' = Goes([host EXCEPT !.paused = FALSE, !.steps = FALSE], "saved") /\ UNCHANGED bounds
  <2> DEFINE h == [host EXCEPT !.paused = FALSE, !.steps = FALSE]
  <2>1. do \notin Replaces  BY <1>7 DEF Replaces
  <2>2. h \in Hosts /\ h.up = host.up /\ h.run = host.run /\ h.job = host.job  BY <1>2 DEF Hosts
  <2> HIDE DEF h
  <2> QED  BY <1>1, <1>2, <1>7, <2>1, <2>2, CarriedOut DEF h
<1>8. CASE do = "step" /\ host' = Goes([host EXCEPT !.steps = TRUE], "saved") /\ UNCHANGED bounds
  <2> DEFINE h == [host EXCEPT !.steps = TRUE]
  <2>1. do \notin Replaces  BY <1>8 DEF Replaces
  <2>2. h \in Hosts /\ h.up = host.up /\ h.run = host.run /\ h.job = host.job  BY <1>2 DEF Hosts
  <2> HIDE DEF h
  <2> QED  BY <1>1, <1>2, <1>8, <2>1, <2>2, CarriedOut DEF h
<1>9. CASE /\ do = "bookmark"
           /\ host' = Goes([host EXCEPT !.job.text = [id |-> AtHand.id, holds |-> host.world, of |-> host.run]], "answer")
           /\ UNCHANGED bounds
  <2> DEFINE c == [id |-> AtHand.id, holds |-> host.world, of |-> host.run]
             j == [host.job EXCEPT !.text = c]
             h == [host EXCEPT !.job.text = c]
  <2>1. do \notin Replaces  BY <1>9 DEF Replaces
  <2>2. c \in Captures /\ c.id = AtHand.id /\ c.of = host.run
    <3>1. AtHand.id \in Ids  BY <1>2, <1>9 DEF Meant
    <3> QED  BY <3>1, <1>2 DEF Captures, Hosts
  <2>3. CapturedFor(c, AtHand)  BY <1>1, <1>9, <2>2 DEF CapturedFor, ForThisWorld
  <2> HIDE DEF c
  <2>4. j \in Jobs /\ j.req = host.job.req /\ j.text = c  BY <1>2, <2>2 DEF Jobs
  <2>5. h = [host EXCEPT !.job = j]  BY <1>2 DEF Hosts
  <2> HIDE DEF j, h
  <2>6. h \in Hosts /\ h.up = host.up /\ h.run = host.run /\ h.job = j  BY <1>2, <2>4, <2>5 DEF Hosts
  <2>7. host' = Goes(h, "answer")  BY <1>9 DEF h, c
  <2> QED  BY <1>1, <1>9, <2>1, <2>3, <2>4, <2>6, <2>7, CarriedOut
<1> QED  BY <1>3, <1>4, <1>5, <1>6, <1>7, <1>8, <1>9 DEF Execute

LEMMA CheckpointHolds == ASSUME ConsoleInv, Checkpoint PROVE ConsoleInv'
<1> DEFINE tm == IF AtHand.do = "pause" THEN kept.template ELSE host.loaded
           cp == [run |-> host.run, world |-> host.world]
<1>1. /\ host.up /\ host.job # Nobody /\ host.job.at = "installed" /\ host' = Goes(host, "saved")
      /\ kept' = [kept EXCEPT !.template = tm, !.checkpoint = cp]
      /\ UNCHANGED <<cookie, session, desk, asked, shelf, bounds>>
  BY DEF Checkpoint, Job
<1>2. host \in Hosts /\ host.job \in Jobs /\ kept \in Redis  BY <1>1, EngineStands, AtHandIs
<1>3. /\ host' \in Hosts /\ host'.up = host.up /\ host'.run = host.run /\ host'.job.at = "saved"
      /\ host'.job.req = host.job.req /\ host'.job.ok = host.job.ok /\ host'.job.text = host.job.text
  BY <1>1, <1>2, GoesTo
<1>4. tm \in {Nobody} \cup Files  BY <1>2 DEF Redis, Hosts
<1>5. cp \in [run : Nat, world : Texts] /\ cp.run = host.run  BY <1>2 DEF Hosts
<1> HIDE DEF tm, cp
<1>6. /\ kept' \in Redis /\ kept'.results = kept.results /\ kept'.queue = kept.queue /\ kept'.runtime = kept.runtime
      /\ kept'.checkpoint = cp
  BY <1>1, <1>2, <1>4, <1>5 DEF Redis
<1>7. AtHand' = AtHand  BY <1>1, <1>3 DEF AtHand
<1>8. CapturedFor(host.job.text, AtHand)'  BY <1>1, <1>3, <1>7, AtHandIs DEF CapturedFor
<1>9. Replacing(host.job, AtHand)'  BY <1>1, <1>3, <1>5, <1>6, <1>7, AtHandIs DEF Replacing
<1>10. JobIs' /\ QueueIs'  BY <1>1, <1>3, <1>6, <1>8, <1>9, JobGoes
<1>11. RunsGo /\ RunsFit'  BY <1>1, <1>3, <1>5, <1>6, EngineStands DEF RunsGo, RunsFit
<1>12. \A q \in DOMAIN asked : Wins(q, asked, kept', host') => Wins(q, asked, kept, host)
  BY <1>1, <1>3, <1>6 DEF Wins
<1>13. bounds' \in Tallies /\ bounds.runs <= bounds'.runs  BY <1>1, EngineStands
<1> QED  BY <1>1, <1>3, <1>6, <1>10, <1>11, <1>12, <1>13, EngineCarriesOn

LEMMA RuntimeIs ==
  ASSUME ConsoleInv
  PROVE  Runtime \in [run : Nat, scenario : {Nobody} \cup Ids, paused : BOOLEAN] /\ Runtime.run = host.run
BY EngineStands DEF Runtime, Hosts

LEMMA PublishRuntimeHolds == ASSUME ConsoleInv, PublishRuntime PROVE ConsoleInv'
<1>1. /\ host.up /\ host.job # Nobody /\ host.job.at = "saved" /\ host' = Goes(host, "answer")
      /\ kept' = [kept EXCEPT !.runtime = Runtime]
      /\ UNCHANGED <<cookie, session, desk, asked, shelf, bounds>>
  BY DEF PublishRuntime, Job
<1>2. host \in Hosts /\ host.job \in Jobs /\ kept \in Redis  BY <1>1, EngineStands, AtHandIs
<1>3. /\ host' \in Hosts /\ host'.up = host.up /\ host'.run = host.run /\ host'.job.at = "answer"
      /\ host'.job.req = host.job.req /\ host'.job.ok = host.job.ok /\ host'.job.text = host.job.text
  BY <1>1, <1>2, GoesTo
<1>6. /\ kept' \in Redis /\ kept'.results = kept.results /\ kept'.queue = kept.queue
      /\ kept'.checkpoint = kept.checkpoint /\ kept'.runtime = Runtime /\ Runtime.run = host.run
  BY <1>1, <1>2, RuntimeIs DEF Redis
<1>7. AtHand' = AtHand  BY <1>1, <1>3 DEF AtHand
<1>8. CapturedFor(host.job.text, AtHand)'  BY <1>1, <1>3, <1>7, AtHandIs DEF CapturedFor
<1>9. Replacing(host.job, AtHand)'  BY <1>1, <1>3, <1>6, <1>7, AtHandIs DEF Replacing
<1>10. JobIs' /\ QueueIs'  BY <1>1, <1>3, <1>6, <1>8, <1>9, JobGoes
<1>11. RunsGo /\ RunsFit'  BY <1>1, <1>3, <1>6, EngineStands DEF RunsGo, RunsFit
<1>12. \A q \in DOMAIN asked : Wins(q, asked, kept', host') => Wins(q, asked, kept, host)
  BY <1>1, <1>3, <1>6 DEF Wins
<1>13. bounds' \in Tallies /\ bounds.runs <= bounds'.runs  BY <1>1, EngineStands
<1> QED  BY <1>1, <1>3, <1>6, <1>10, <1>11, <1>12, <1>13, EngineCarriesOn

LEMMA PublishResultHolds == ASSUME ConsoleInv, PublishResult PROVE ConsoleInv'
<1> DEFINE q == host.job.req
           a == [ok |-> host.job.ok, text |-> host.job.text, saved |-> FALSE]
           w == [kept.results EXCEPT ![q] = a]
<1>1. /\ host.up /\ host.job # Nobody /\ host.job.at = "answer" /\ host' = [host EXCEPT !.job = Nobody]
      /\ kept' = [kept EXCEPT !.results[q] = a]
      /\ UNCHANGED <<cookie, session, desk, asked, shelf, bounds>>
  BY DEF PublishResult, Job
<1>2. /\ host \in Hosts /\ host.job \in Jobs /\ kept \in Redis /\ q \in DOMAIN asked /\ kept.results[q] = Nobody
      /\ CapturedFor(host.job.text, asked[q]) /\ Replacing(host.job, asked[q])
      /\ \A i \in DOMAIN kept.queue : kept.queue[i] # q
  BY <1>1, EngineStands, AtHandIs DEF AtHand
<1>3. a \in KeptResults /\ a # Nobody /\ a.ok = host.job.ok /\ a.text = host.job.text /\ a.saved = FALSE
  <2>1. host.job.text \in {Nobody} \cup Captures /\ host.job.ok \in BOOLEAN  BY <1>2 DEF Jobs
  <2>2. a \in KeptResults /\ a.ok = host.job.ok /\ a.text = host.job.text /\ a.saved = FALSE
    BY <2>1 DEF KeptResults
  <2>3. Nobody \notin KeptResults  BY ConsoleAssumption DEF KeptResults, Captures
  <2> QED  BY <2>2, <2>3
<1>4. /\ host' \in Hosts /\ host'.run = host.run /\ host'.job = Nobody  BY <1>1, <1>2 DEF Hosts
<1>5. kept' = [kept EXCEPT !.results = w]  BY <1>1, <1>2 DEF Redis
<1> DEFINE n == Len(asked)
<1>6. n \in Nat /\ DOMAIN asked = 1..n /\ DOMAIN kept.results = 1..n /\ kept.results \in [1..n -> {Nobody} \cup KeptResults]
  BY Asking
<1> HIDE DEF a, n
<1>7. w \in [1..n -> {Nobody} \cup KeptResults] /\ w[q] = a /\ \A i \in 1..n : i # q => w[i] = kept.results[i]
  BY <1>2, <1>3, <1>6
<1> HIDE DEF w
<1>8. w \in Seq({Nobody} \cup KeptResults) /\ Len(w) = n  BY <1>6, <1>7
<1>9. /\ kept' \in Redis /\ kept'.results = w /\ kept'.queue = kept.queue /\ kept'.runtime = kept.runtime
      /\ kept'.checkpoint = kept.checkpoint
  BY <1>2, <1>5, <1>8 DEF Redis
<1>10. Lasts
  <2>1. bounds' \in Tallies /\ bounds.runs <= bounds'.runs  BY <1>1, EngineStands
  <2>2. \A i \in DOMAIN asked : kept.results[i] # Nobody => kept'.results[i] = kept.results[i]
    BY <1>2, <1>6, <1>7, <1>9
  <2> QED  BY <1>1, <2>1, <2>2 DEF Lasts
<1>11. RunsGo  BY <1>4, <1>9 DEF RunsGo
<1>12. WorldTypes' /\ RunsFit' /\ AskedIs'
  <2>1. WorldTypes'  BY <1>1, <1>4, <1>8, <1>9, Asking DEF WorldTypes, n
  <2>2. RunsFit'  BY <1>1, <1>4, <1>9 DEF ConsoleInv, WorldInv, RunsFit
  <2>3. AskedIs'  BY <1>1 DEF ConsoleInv, WorldInv, AskedIs
  <2> QED  BY <2>1, <2>2, <2>3
<1>13. QueueIs' /\ JobIs'
  <2>1. QueueIs'
    <3>1. \A i \in DOMAIN kept.queue :
            /\ kept.queue[i] \in 1..n /\ kept.queue[i] # q /\ kept.results[kept.queue[i]] = Nobody
            /\ \A k \in DOMAIN kept.queue : kept.queue[i] = kept.queue[k] => i = k
      BY <1>2, <1>6, EngineStands DEF QueueIs
    <3> QED  BY <3>1, <1>1, <1>6, <1>7, <1>9 DEF QueueIs
  <2> QED  BY <2>1, <1>4 DEF JobIs
<1>14. ResultsAre'
  <2> SUFFICES ASSUME NEW i \in 1..n PROVE ResultIs(i, asked', kept', host', shelf')
    BY <1>1, <1>6 DEF ResultsAre
  <2>1. CASE i # q  BY <2>1, <1>6, <1>7, <1>9, <1>10, <1>11, ResultStays
  <2>2. CASE i = q
    <3>1. a.ok /\ asked[q].do \in Replaces => Used(asked[q], host', kept')
      BY <1>1, <1>2, <1>3, <1>4, <1>9 DEF Replacing, Used
    <3> QED  BY <2>2, <3>1, <1>1, <1>2, <1>3, <1>7, <1>9 DEF ResultIs
  <2> QED  BY <2>1, <2>2
<1>15. OneWins'
  <2> SUFFICES ASSUME NEW i \in 1..n, Wins(i, asked', kept', host') PROVE Wins(i, asked, kept, host)
    BY <1>1, <1>6, <1>10, NobodyWins
  <2>1. CASE i # q  BY <2>1, <1>1, <1>4, <1>7, <1>9 DEF Wins
  <2>2. CASE i = q  BY <2>2, <1>1, <1>3, <1>4, <1>7, <1>9 DEF Wins
  <2> QED  BY <2>1, <2>2
<1>16. DeskIs'  BY <1>1, <1>10, DesksStay
<1>17. SessionInv'  BY <1>1 DEF ConsoleInv, SessionInv
<1> QED  BY <1>12, <1>13, <1>14, <1>15, <1>16, <1>17 DEF ConsoleInv, WorldInv

(* Without a command at hand.                                                 *)
LEMMA IdleGoesOn ==
  ASSUME ConsoleInv, UNCHANGED <<cookie, session, desk, asked, shelf>>, kept' \in Redis, host' \in Hosts,
         kept'.results = kept.results, kept'.queue \in {kept.queue, <<>>}, bounds' \in Tallies,
         bounds.runs <= bounds'.runs, RunsGo, RunsFit', host'.job = Nobody
  PROVE  ConsoleInv'
<1>1. QueueIs' /\ JobIs'
  <2>1. QueueIs'  BY EngineStands DEF QueueIs
  <2> QED  BY <2>1 DEF JobIs
<1>2. \A q \in DOMAIN asked : Wins(q, asked, kept', host') => Wins(q, asked, kept, host)
  BY DEF Wins
<1> QED  BY <1>1, <1>2, EngineCarriesOn

LEMMA TickHolds == ASSUME ConsoleInv, Tick PROVE ConsoleInv'
<1>1. PICK w \in Texts, steps \in BOOLEAN :
        /\ host' = [host EXCEPT !.world = w, !.steps = steps]
        /\ \E saved \in {kept.checkpoint, [run |-> host.run, world |-> w]},
              runtime \in {kept.runtime, Runtime} :
             kept' = [kept EXCEPT !.checkpoint = saved, !.runtime = runtime]
  BY DEF Tick
<1>2. PICK saved \in {kept.checkpoint, [run |-> host.run, world |-> w]}, runtime \in {kept.runtime, Runtime} :
        kept' = [kept EXCEPT !.checkpoint = saved, !.runtime = runtime]
  BY <1>1
<1>3. /\ host.job = Nobody /\ UNCHANGED <<cookie, session, desk, asked, shelf>>
      /\ bounds' = [bounds EXCEPT !.ticks = @ + 1]
  BY DEF Tick
<1>4. host' \in Hosts /\ host'.job = Nobody /\ host'.run = host.run  BY <1>1, <1>3, EngineStands DEF Hosts
<1>5. saved \in [run : Nat, world : Texts] /\ saved.run \in {kept.checkpoint.run, host.run}
  <2>1. host.run \in Nat /\ kept.checkpoint \in [run : Nat, world : Texts]  BY EngineStands DEF Hosts, Redis
  <2> QED  BY <2>1
<1>6. /\ runtime \in [run : Nat, scenario : {Nobody} \cup Ids, paused : BOOLEAN]
      /\ runtime.run \in {kept.runtime.run, host.run}
  <2>1. kept.runtime \in [run : Nat, scenario : {Nobody} \cup Ids, paused : BOOLEAN]  BY EngineStands DEF Redis
  <2> QED  BY <2>1, RuntimeIs
<1>7. /\ kept' \in Redis /\ kept'.results = kept.results /\ kept'.queue = kept.queue
      /\ kept'.checkpoint = saved /\ kept'.runtime = runtime
  BY <1>2, <1>5, <1>6, EngineStands DEF Redis
<1>8. bounds' \in Tallies /\ bounds'.runs = bounds.runs  BY <1>3, EngineStands DEF Tallies
<1>9. RunsGo  BY <1>4, <1>5, <1>6, <1>7 DEF RunsGo
<1>10. RunsFit'  BY <1>4, <1>5, <1>6, <1>7, <1>8, EngineStands DEF RunsFit
<1>11. bounds.runs <= bounds'.runs  BY <1>8, EngineStands
<1> QED  BY <1>3, <1>4, <1>7, <1>8, <1>9, <1>10, <1>11, IdleGoesOn

LEMMA DiesHolds == ASSUME ConsoleInv, Dies PROVE ConsoleInv'
<1>1. host' = [host EXCEPT !.up = FALSE, !.job = Nobody] /\ Mishap /\ UNCHANGED <<cookie, session, desk, asked, kept, shelf>>
  BY DEF Dies
<1>2. host' \in Hosts /\ host'.job = Nobody /\ host'.run = host.run  BY <1>1, EngineStands DEF Hosts
<1>3. bounds' \in Tallies /\ bounds'.runs = bounds.runs  BY <1>1, Counted
<1>4. RunsGo /\ RunsFit'  BY <1>1, <1>2, <1>3, EngineStands DEF RunsGo, RunsFit
<1> QED  BY <1>1, <1>2, <1>3, <1>4, EngineStands, IdleGoesOn

LEMMA RestoresHolds == ASSUME ConsoleInv, Restores PROVE ConsoleInv'
<1> DEFINE r == kept.runtime
           cp == [kept.checkpoint EXCEPT !.run = 0]
           l == IF r.scenario = Nobody THEN Nobody ELSE kept.template
<1>1. /\ host' = [up |-> TRUE, run |-> r.run, world |-> kept.checkpoint.world, scenario |-> r.scenario,
                  paused |-> r.paused, steps |-> FALSE, job |-> Nobody, loaded |-> l]
      /\ kept' = [kept EXCEPT !.checkpoint.run = 0] /\ UNCHANGED <<cookie, session, desk, asked, shelf, bounds>>
  BY DEF Restores
<1>2. /\ kept \in Redis /\ r \in [run : Nat, scenario : {Nobody} \cup Ids, paused : BOOLEAN]
      /\ kept.checkpoint \in [run : Nat, world : Texts] /\ l \in {Nobody} \cup Files
  BY EngineStands DEF Redis
<1>3. cp \in [run : Nat, world : Texts] /\ cp.run = 0  BY <1>2
<1>4. kept' = [kept EXCEPT !.checkpoint = cp]  BY <1>1, <1>2 DEF Redis
<1> HIDE DEF cp, l
<1>5. host' \in Hosts /\ host'.job = Nobody /\ host'.run = kept.runtime.run  BY <1>1, <1>2 DEF Hosts
<1>6. /\ kept' \in Redis /\ kept'.results = kept.results /\ kept'.queue = kept.queue
      /\ kept'.checkpoint = cp /\ kept'.runtime = kept.runtime
  BY <1>2, <1>3, <1>4 DEF Redis
<1>7. RunsGo /\ RunsFit'  BY <1>1, <1>3, <1>5, <1>6, EngineStands DEF RunsGo, RunsFit
<1>8. bounds' \in Tallies /\ bounds.runs <= bounds'.runs  BY <1>1, EngineStands
<1> QED  BY <1>1, <1>5, <1>6, <1>7, <1>8, IdleGoesOn

LEMMA StartsAfreshHolds == ASSUME ConsoleInv, StartsAfresh PROVE ConsoleInv'
<1> DEFINE n == bounds.runs + 1
           rt == [run |-> n, scenario |-> Nobody, paused |-> FALSE]
<1>1. PICK w \in Texts :
        /\ host' = [up |-> TRUE, run |-> n, world |-> w, scenario |-> Nobody, paused |-> FALSE,
                    steps |-> FALSE, loaded |-> Nobody, job |-> Nobody]
        /\ kept' = [kept EXCEPT !.queue = <<>>, !.template = Nobody,
                      !.checkpoint = [run |-> 0, world |-> w], !.runtime = rt]
  BY DEF StartsAfresh
<1> DEFINE cp == [run |-> 0, world |-> w]
<1>2. bounds' = [bounds EXCEPT !.runs = @ + 1] /\ UNCHANGED <<cookie, session, desk, asked, shelf>>
  BY DEF StartsAfresh
<1>3. n \in Nat /\ kept \in Redis /\ bounds.runs \in Nat /\ bounds \in Tallies  BY EngineStands
<1>4. bounds' \in Tallies /\ bounds'.runs = n /\ bounds.runs <= bounds'.runs  BY <1>2, <1>3 DEF Tallies
<1>5. /\ cp \in [run : Nat, world : Texts] /\ cp.run = 0
      /\ rt \in [run : Nat, scenario : {Nobody} \cup Ids, paused : BOOLEAN] /\ rt.run = n
  BY <1>3
<1>6. <<>> \in Seq(Nat)  OBVIOUS
<1>7. kept' = [kept EXCEPT !.queue = <<>>, !.template = Nobody, !.checkpoint = cp, !.runtime = rt]  BY <1>1
<1>8. host' \in Hosts /\ host'.job = Nobody /\ host'.run = n  BY <1>1, <1>3 DEF Hosts
<1> HIDE DEF cp, rt
<1>9. /\ kept' \in Redis /\ kept'.results = kept.results /\ kept'.queue = <<>>
      /\ kept'.checkpoint = cp /\ kept'.runtime = rt
  BY <1>3, <1>5, <1>6, <1>7 DEF Redis
<1>10. RunsGo /\ RunsFit'  BY <1>3, <1>4, <1>5, <1>8, <1>9 DEF RunsGo, RunsFit
<1> QED  BY <1>2, <1>4, <1>8, <1>9, <1>10, IdleGoesOn

-----------------------------------------------------------------------------
(* Together.                                                                  *)

LEMMA OfHostHolds == ASSUME ConsoleInv, OfHost PROVE ConsoleInv'
BY PopHolds, ExecuteHolds, RefuseHolds, CheckpointHolds, PublishRuntimeHolds, PublishResultHolds, TickHolds,
   DiesHolds, RestoresHolds, StartsAfreshHolds DEF OfHost

LEMMA OfPageHolds == ASSUME ConsoleInv, NEW p \in Pages, OfPage(p) PROVE ConsoleInv'
BY ReloadHolds, CallFailsHolds, AskHolds, AcceptHolds, PushHolds, AsksAgainHolds, GivesUpHolds DEF OfPage

LEMMA OfRequestHolds == ASSUME ConsoleInv, NEW q \in DOMAIN asked, OfRequest(q) PROVE ConsoleInv'
BY ServeHolds, PendsHolds DEF OfRequest

LEMMA WhatIsToldHolds == ASSUME ConsoleInv, [ConsoleNext]_console PROVE ConsoleInv'
<1>1. CASE UNCHANGED console
  <2>1. bounds' \in Tallies /\ bounds'.runs = bounds.runs  BY <1>1, EngineStands DEF console
  <2>2. cookie' \in {Nobody} \cup Logins  BY <1>1 DEF console, ConsoleInv, SessionInv
  <2> QED  BY <1>1, <2>1, <2>2, NoPage DEF console
<1>2. CASE Expires  BY <1>2, ExpiresHolds
<1>3. CASE OfHost  BY <1>3, OfHostHolds
<1>4. ASSUME NEW p \in Terminals, InSession(p) PROVE ConsoleInv'  BY <1>4, InSessionHolds
<1>5. ASSUME NEW p \in Pages, OfPage(p) PROVE ConsoleInv'  BY <1>5, OfPageHolds
<1>6. ASSUME NEW q \in DOMAIN asked, OfRequest(q) PROVE ConsoleInv'  BY <1>6, OfRequestHolds
<1> QED  BY <1>1, <1>2, <1>3, <1>4, <1>5, <1>6 DEF ConsoleNext

(* What is so is what was told.                                               *)
LEMMA ToldIsSo == ASSUME ConsoleInv PROVE ToldIsTrue
<1>1. SessionIsAsTold
  <2> SUFFICES ASSUME NEW p \in Terminals
               PROVE  LET t == desk[p].told IN
                        /\ t.kind = "welcome" => session[p] = Of(t.who)
                        /\ t.kind = "bye"     => session[p] = Of(Nobody)
                        /\ t.kind = "acting"  => Active(p) /\ session[p].acting = t.who
    BY DEF SessionIsAsTold
  <2>1. AsTold(desk[p].told, session[p])  BY Told DEF Pages
  <2> QED  BY <2>1 DEF AsTold, IsActive, Active
<1>2. ReplacedIsGone
  <2>1. \A p \in Pages : Gone(desk[p].told) =>
          LET q == desk[p].told.req IN
            q \in DOMAIN asked /\ Wins(q, asked, kept, host) /\ Used(asked[q], host, kept)
    <3> SUFFICES ASSUME NEW p \in Pages, Gone(desk[p].told)
                 PROVE  LET q == desk[p].told.req IN
                          q \in DOMAIN asked /\ Wins(q, asked, kept, host) /\ Used(asked[q], host, kept)
      OBVIOUS
    <3>1. Settled(desk[p].told.req, asked, kept)  BY Told DEF Gone, ToldIs
    <3>2. ResultIs(desk[p].told.req, asked, kept, host, shelf)
      BY <3>1 DEF Settled, ConsoleInv, WorldInv, ResultsAre
    <3> QED  BY <3>1, <3>2 DEF Settled, ResultIs, Gone, Wins
  <2>2. OneWins  BY EngineStands
  <2> QED  BY <2>1, <2>2 DEF ReplacedIsGone, OneWins, Used
<1>3. SavedIsThere
  <2> SUFFICES ASSUME NEW p \in Pages, Saved(desk[p].told)
               PROVE  LET q == desk[p].told.req
                          file == shelf[asked[q].id]
                          capture == kept.results[q].text
                      IN /\ file # Nobody
                         /\ \/ file.by # 0 /\ asked[file.by].do = "save"
                            \/ asked[q].do = "bookmark" /\ file.holds = capture.holds /\ capture.of = asked[q].run
    BY DEF SavedIsThere
  <2>1. Stored(desk[p].told.req, asked, kept, shelf)  BY Told DEF Saved, ToldIs
  <2>2. 0 \notin DOMAIN asked  BY Asking
  <2> QED  BY <2>1, <2>2 DEF Stored
<1> QED  BY <1>1, <1>2, <1>3 DEF ToldIsTrue

(* What a page was told last is true, for any pages, players, files, calls,    *)
(* mishaps and ticks: it is in the session it was told of; a world that it was *)
(* told is replaced is gone from the engine, the runtime and the checkpoint,   *)
(* by one command only; a file that it was told is saved is there              *)
(* (SessionContext.tsx, commands.ts, ScenarioEditor.tsx and the scenario route *)
(* against scenario.rs).                                                       *)
THEOREM WhatIsToldIsTrue == ConsoleSpec => []ToldIsTrue
<1>1. ConsoleInit => ConsoleInv  BY ConsoleStarts
<1>2. ConsoleInv /\ [ConsoleNext]_console => ConsoleInv'  BY WhatIsToldHolds
<1>3. ConsoleInv => ToldIsTrue  BY ToldIsSo
<1> QED  BY <1>1, <1>2, <1>3, PTL DEF ConsoleSpec
=============================================================================
