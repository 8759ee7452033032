------------------------ MODULE ContentClient_proofs ------------------------
(* Proofs about ContentClient for every value of its constants.             *)
EXTENDS ContentClient, Integers, FiniteSetTheorems, SequenceTheorems, TLAPS

-----------------------------------------------------------------------------
(* Types.                                                                   *)

Maybe(S) == S \cup {None}

Answers == [rev : Revisions, tick : Maybe(Nat), no : Nat]

Messages == [kind : {"snapshot", "reset"}, run : Nat] \cup [kind : {"content"}, what : Answers]

Managers ==
  [data : Maybe(Revisions), adv : Maybe(Revisions), def : Maybe(Revisions),
   status : {"loading", "synchronized", "failed"}, gen : Nat, no : Nat, tick : Maybe(Nat),
   pending : Maybe([rev : Revisions, gen : Nat]), renderer : Maybe(Nat)]

Work == [kind : {"fetch", "draw", "init"}, rev : Revisions, gen : Nat, mount : Maybe(Nat)]

States == [mgr : Managers, jobs : SUBSET Work, refs : [Bundles -> Int]]

Stages == [mount : Nat, at : {"off", "loading", "on", "dead"}, shown : Maybe(Revisions)]

WebTypes ==
  /\ server \in [run : 1..MaxRuns, now : Nat, no : DOMAIN History, kept : [Revisions -> Maybe(Nat)]]
  /\ gate \in [at : {"asking", "error", "ready"}, answer : Maybe(Answers)]
  /\ link \in [at : {"off", "connecting", "open", "ending"}, run : Maybe(Nat),
               told : Maybe(Revisions), queue : Seq(Messages)]
  /\ asks \in Seq([gen : Nat, answer : Maybe(Answers)])

-----------------------------------------------------------------------------
(* The invariant. It is stated of what the manager's operations work on, a  *)
(* state s, and the stage st.                                               *)

(* A download that was not overtaken is of the advertised revision, whose   *)
(* definitions are not there.                                               *)
FetchIsNeeded(s, j) ==
  /\ j.gen <= s.mgr.gen /\ j.mount = None
  /\ j.gen = s.mgr.gen => j.rev = s.mgr.adv /\ s.mgr.data # j.rev

(* A drawing that was not overtaken is of definitions that are there. It is *)
(* of a stage that was registered.                                          *)
DrawIsDefined(s, st, j) ==
  /\ j.gen <= s.mgr.gen /\ j.mount \in 1..st.mount
  /\ j.gen = s.mgr.gen /\ j.rev = s.mgr.adv => s.mgr.data = j.rev
  /\ j.mount = st.mount => st.at # "loading"

(* A stage loads once.                                                      *)
InitIsOnce(s, st, j) ==
  /\ j.mount \in 1..st.mount
  /\ j.mount = st.mount => st.at \in {"loading", "off"}
  /\ \A i \in s.jobs : i.kind = "init" /\ i.mount = j.mount => i = j

JobsFit(s, st) ==
  \A j \in s.jobs :
    /\ j.kind = "fetch" => FetchIsNeeded(s, j)
    /\ j.kind = "draw" => DrawIsDefined(s, st, j)
    /\ j.kind = "init" => InitIsOnce(s, st, j)

RendererIsOn(s, st) ==
  /\ s.mgr.renderer # None => st.at = "on" /\ s.mgr.renderer = st.mount
  /\ st.at # "off" => s.mgr.data # None /\ st.mount >= 1
  /\ st.at = "on" <=> st.shown # None

Synchronized(s, st) ==
  s.mgr.status = "synchronized" =>
    /\ s.mgr.adv # None /\ s.mgr.data = s.mgr.adv
    /\ st.at = "on" /\ st.shown = s.mgr.adv

Holding(js, k) == {j \in js : j.kind # "fetch" /\ k \in Files[j.rev]}
Leased(s, st) ==
  \A k \in Bundles :
    s.refs[k] = Cardinality(Holding(s.jobs, k)) + (IF k \in FilesOf(st.shown) THEN 1 ELSE 0)

Sound(s, st) ==
  /\ s \in States /\ st \in Stages /\ IsFiniteSet(s.jobs)
  /\ s.mgr.def = s.mgr.data
  /\ JobsFit(s, st) /\ RendererIsOn(s, st) /\ Synchronized(s, st) /\ Leased(s, st)

IInv == WebTypes /\ Sound(Now, stage) /\ (gate.at = "ready" <=> stage.at # "off")

-----------------------------------------------------------------------------
(* Leases and jobs.                                                         *)

Holds(j, k) == IF j.kind # "fetch" /\ k \in Files[j.rev] THEN 1 ELSE 0

LEMMA HoldingGrows ==
  ASSUME NEW js, IsFiniteSet(js), NEW j, j \notin js, NEW k
  PROVE  /\ IsFiniteSet(js \cup {j})
         /\ Cardinality(Holding(js, k)) \in Nat
         /\ Cardinality(Holding(js \cup {j}, k)) = Cardinality(Holding(js, k)) + Holds(j, k)
<1>1. IsFiniteSet(Holding(js, k)) /\ Cardinality(Holding(js, k)) \in Nat
  BY FS_Subset, FS_CardinalityType DEF Holding
<1>2. IsFiniteSet(js \cup {j})
  BY FS_AddElement
<1>3. CASE j.kind # "fetch" /\ k \in Files[j.rev]
  <2>1. Holding(js \cup {j}, k) = Holding(js, k) \cup {j} /\ j \notin Holding(js, k)
    BY <1>3 DEF Holding
  <2> QED
    BY <2>1, <1>1, <1>2, <1>3, FS_AddElement DEF Holds
<1>4. CASE ~(j.kind # "fetch" /\ k \in Files[j.rev])
  <2>1. Holding(js \cup {j}, k) = Holding(js, k)
    BY <1>4 DEF Holding
  <2> QED
    BY <2>1, <1>1, <1>2, <1>4 DEF Holds
<1> QED
  BY <1>3, <1>4

LEMMA HoldingShrinks ==
  ASSUME NEW js, IsFiniteSet(js), NEW j \in js, NEW k
  PROVE  /\ IsFiniteSet(js \ {j})
         /\ Cardinality(Holding(js, k)) \in Nat /\ Cardinality(Holding(js \ {j}, k)) \in Nat
         /\ Cardinality(Holding(js \ {j}, k)) = Cardinality(Holding(js, k)) - Holds(j, k)
<1>1. IsFiniteSet(js \ {j}) /\ j \notin js \ {j} /\ js = (js \ {j}) \cup {j}
  BY FS_Subset
<1>2. /\ Cardinality(Holding(js \ {j}, k)) \in Nat
      /\ Cardinality(Holding(js, k)) = Cardinality(Holding(js \ {j}, k)) + Holds(j, k)
  BY <1>1, HoldingGrows
<1>3. Holds(j, k) \in {0, 1}
  BY DEF Holds
<1> QED
  BY <1>1, <1>2, <1>3

(* A job is over: its artwork, if it kept any, is still counted.            *)
LEMMA Settling ==
  ASSUME NEW s, NEW st, Sound(s, st), NEW j \in s.jobs
  PROVE  LET t == Settle(s, j) IN
         /\ t \in States /\ IsFiniteSet(t.jobs) /\ t.jobs = s.jobs \ {j}
         /\ t.mgr.def = t.mgr.data /\ t.mgr.data = s.mgr.data /\ t.mgr.adv = s.mgr.adv
         /\ t.mgr.gen = s.mgr.gen /\ t.mgr.status = s.mgr.status /\ t.mgr.renderer = s.mgr.renderer
         /\ t.mgr.tick = s.mgr.tick
         /\ JobsFit(t, st) /\ RendererIsOn(t, st) /\ Synchronized(t, st)
         /\ \A k \in Bundles :
              /\ Cardinality(Holding(t.jobs, k)) \in Nat
              /\ t.refs[k] = Cardinality(Holding(t.jobs, k)) + Holds(j, k)
                             + (IF k \in FilesOf(st.shown) THEN 1 ELSE 0)
<1> DEFINE t == Settle(s, j)
<1>1. t \in States /\ t.jobs = s.jobs \ {j} /\ t.refs = s.refs
  BY DEF Sound, States, Managers, Maybe, Settle
<1>2. /\ t.mgr.def = t.mgr.data /\ t.mgr.data = s.mgr.data /\ t.mgr.adv = s.mgr.adv
      /\ t.mgr.gen = s.mgr.gen /\ t.mgr.status = s.mgr.status /\ t.mgr.renderer = s.mgr.renderer
      /\ t.mgr.tick = s.mgr.tick
  BY DEF Sound, States, Managers, Maybe, Settle
<1>3. JobsFit(t, st)
  BY <1>1, <1>2 DEF Sound, JobsFit, FetchIsNeeded, DrawIsDefined, InitIsOnce
<1>4. RendererIsOn(t, st) /\ Synchronized(t, st)
  BY <1>2 DEF Sound, RendererIsOn, Synchronized
<1>5. IsFiniteSet(t.jobs)
  BY <1>1, HoldingShrinks DEF Sound
<1>6. ASSUME NEW k \in Bundles
      PROVE /\ Cardinality(Holding(t.jobs, k)) \in Nat
            /\ t.refs[k] = Cardinality(Holding(t.jobs, k)) + Holds(j, k)
                           + (IF k \in FilesOf(st.shown) THEN 1 ELSE 0)
  <2>1. Holds(j, k) \in {0, 1}
    BY DEF Holds
  <2>2. s.refs[k] = Cardinality(Holding(s.jobs, k)) + (IF k \in FilesOf(st.shown) THEN 1 ELSE 0)
    BY DEF Sound, Leased
  <2>3. /\ Cardinality(Holding(s.jobs, k)) \in Nat /\ Cardinality(Holding(s.jobs \ {j}, k)) \in Nat
        /\ Cardinality(Holding(s.jobs \ {j}, k)) = Cardinality(Holding(s.jobs, k)) - Holds(j, k)
    BY HoldingShrinks DEF Sound
  <2> QED
    BY <1>1, <2>1, <2>2, <2>3
<1> HIDE DEF t
<1>7. QED
  BY <1>1, <1>2, <1>3, <1>4, <1>5, <1>6 DEF t

(* A job is added, with the leases of its artwork.                          *)
Added(s, j) ==
  [s EXCEPT !.jobs = @ \cup {j},
            !.refs = IF j.kind = "fetch" THEN @ ELSE Acquire(@, Files[j.rev])]

LEMMA Adding ==
  ASSUME NEW s, NEW st, Sound(s, st), NEW j \in Work, j \notin s.jobs,
         j.kind = "fetch" => FetchIsNeeded(s, j),
         j.kind = "draw" => DrawIsDefined(s, st, j),
         j.kind = "init" => InitIsOnce(Added(s, j), st, j)
  PROVE  LET t == Added(s, j) IN
         Sound(t, st) /\ t.mgr = s.mgr /\ t.jobs = s.jobs \cup {j}
<1> DEFINE t == Added(s, j)
<1>1. t \in States /\ t.mgr = s.mgr /\ t.jobs = s.jobs \cup {j}
  <2>1. ASSUME NEW r \in [Bundles -> Int], NEW ks PROVE Acquire(r, ks) \in [Bundles -> Int]
    BY DEF Acquire
  <2> QED
    BY <2>1 DEF Sound, States, Added
<1> HIDE DEF t
<1>2. IsFiniteSet(t.jobs)
  BY <1>1, HoldingGrows DEF Sound
<1>3. JobsFit(t, st)
  <2> SUFFICES ASSUME NEW i \in t.jobs
               PROVE /\ i.kind = "fetch" => FetchIsNeeded(t, i)
                     /\ i.kind = "draw" => DrawIsDefined(t, st, i)
                     /\ i.kind = "init" => InitIsOnce(t, st, i)
    BY DEF JobsFit
  <2>1. CASE i = j
    BY <2>1, <1>1 DEF t, FetchIsNeeded, DrawIsDefined
  <2>2. CASE i \in s.jobs
    <3>1. /\ i.kind = "fetch" => FetchIsNeeded(t, i)
          /\ i.kind = "draw" => DrawIsDefined(t, st, i)
      BY <2>2, <1>1 DEF Sound, JobsFit, FetchIsNeeded, DrawIsDefined
    <3>2. i.kind = "init" => InitIsOnce(t, st, i)
      BY <2>2, <1>1 DEF t, Sound, JobsFit, InitIsOnce
    <3> QED
      BY <3>1, <3>2
  <2> QED
    BY <2>1, <2>2, <1>1
<1>4. Leased(t, st)
  <2> SUFFICES ASSUME NEW k \in Bundles
               PROVE t.refs[k] = Cardinality(Holding(t.jobs, k)) + (IF k \in FilesOf(st.shown) THEN 1 ELSE 0)
    BY DEF Leased
  <2>1. t.refs[k] = s.refs[k] + Holds(j, k)
    BY DEF t, Added, Sound, States, Acquire, Holds
  <2>2. s.refs[k] = Cardinality(Holding(s.jobs, k)) + (IF k \in FilesOf(st.shown) THEN 1 ELSE 0)
    BY DEF Sound, Leased
  <2>3. Holds(j, k) \in {0, 1}
    BY DEF Holds
  <2>4. /\ Cardinality(Holding(s.jobs, k)) \in Nat
        /\ Cardinality(Holding(s.jobs \cup {j}, k)) = Cardinality(Holding(s.jobs, k)) + Holds(j, k)
    BY HoldingGrows DEF Sound
  <2> QED
    BY <1>1, <2>1, <2>2, <2>3, <2>4
<1>5. Sound(t, st)
  BY <1>1, <1>2, <1>3, <1>4 DEF Sound, RendererIsOn, Synchronized
<1> QED
  BY <1>1, <1>5 DEF t

(* A drawing begins, unless there is nobody to draw or something newer.     *)
LEMMA Drawing ==
  ASSUME NEW s, NEW st, Sound(s, st),
         s.mgr.renderer # None /\ s.mgr.data = s.mgr.adv =>
           /\ Job("draw", s.mgr.data, s.mgr.gen, s.mgr.renderer) \notin s.jobs
           /\ st.mount >= 1
  PROVE  Sound(ApplyRenderers(s), st) /\ ApplyRenderers(s).mgr = s.mgr
<1>1. CASE s.mgr.renderer = None \/ s.mgr.data # s.mgr.adv
  BY <1>1 DEF ApplyRenderers
<1>2. CASE ~(s.mgr.renderer = None \/ s.mgr.data # s.mgr.adv)
  <2> DEFINE j == Job("draw", s.mgr.data, s.mgr.gen, s.mgr.renderer)
  <2>1. j \in Work /\ j.kind = "draw" /\ j.rev = s.mgr.data /\ j.gen = s.mgr.gen
        /\ j.mount = s.mgr.renderer
    BY <1>2 DEF Sound, States, Managers, RendererIsOn, Work, Job, Maybe
  <2>2. DrawIsDefined(s, st, j)
    <3>1. st.mount \in Nat /\ s.mgr.gen \in Nat /\ st.at = "on" /\ s.mgr.renderer = st.mount
      BY <1>2 DEF Sound, States, Managers, Stages, RendererIsOn
    <3> QED
      BY <1>2, <2>1, <3>1 DEF DrawIsDefined
  <2>3. j \notin s.jobs
    BY <1>2
  <2>4. ApplyRenderers(s) = Added(s, j)
    BY <1>2, <2>1 DEF ApplyRenderers, Added
  <2> HIDE DEF j
  <2> QED
    BY <2>1, <2>2, <2>3, <2>4, Adding
<1> QED
  BY <1>1, <1>2

(* What was begun before does not count any more.                           *)
LEMMA Overtaking ==
  ASSUME NEW s, NEW st, Sound(s, st), NEW m \in Managers,
         m.gen = s.mgr.gen + 1, m.data \in {s.mgr.data} \cup Revisions, m.def = m.data,
         m.renderer = s.mgr.renderer, m.status = "loading"
  PROVE  /\ Sound([s EXCEPT !.mgr = m], st)
         /\ \A j \in s.jobs : j.gen <= s.mgr.gen \/ j.kind = "init"
<1> DEFINE t == [s EXCEPT !.mgr = m]
<1>1. t \in States /\ t.mgr = m /\ t.jobs = s.jobs /\ t.refs = s.refs
  BY DEF Sound, States
<1>2. s.mgr.gen \in Nat
  BY DEF Sound, States, Managers
<1> HIDE DEF t
<1>3. \A j \in s.jobs : j.gen <= s.mgr.gen \/ j.kind = "init"
  BY DEF Sound, States, Work, JobsFit, FetchIsNeeded, DrawIsDefined
<1>4. \A j \in s.jobs : j \in Work
  BY DEF Sound, States
<1>5. JobsFit(t, st)
  <2> SUFFICES ASSUME NEW j \in s.jobs
               PROVE /\ j.kind = "fetch" => FetchIsNeeded(t, j)
                     /\ j.kind = "draw" => DrawIsDefined(t, st, j)
                     /\ j.kind = "init" => InitIsOnce(t, st, j)
    BY <1>1 DEF JobsFit
  <2>1. j.gen \in Nat
    BY <1>4 DEF Work
  <2>2. j.kind = "fetch" => FetchIsNeeded(t, j)
    BY <1>1, <1>2, <2>1 DEF Sound, JobsFit, FetchIsNeeded
  <2>3. j.kind = "draw" => DrawIsDefined(t, st, j)
    BY <1>1, <1>2, <2>1 DEF Sound, JobsFit, DrawIsDefined
  <2>4. j.kind = "init" => InitIsOnce(t, st, j)
    BY <1>1 DEF Sound, JobsFit, InitIsOnce
  <2> QED
    BY <2>2, <2>3, <2>4
<1>6. Sound(t, st)
  BY <1>1, <1>5, ClientAssumption DEF Sound, RendererIsOn, Synchronized, Leased
<1> QED
  BY <1>3, <1>6 DEF t

LEMMA WorldBegins ==
  ASSUME NEW s, NEW st, Sound(s, st)
  PROVE  Sound(BeginWorld(s), st)
<1> DEFINE m == [s.mgr EXCEPT !.gen = @ + 1, !.tick = None, !.pending = None, !.adv = None,
                              !.no = 0, !.status = "loading"]
<1>1. s.mgr \in Managers /\ s.mgr.gen + 1 \in Nat /\ 0 \in Nat
  BY DEF Sound, States, Managers
<1>2. m \in Managers
  BY <1>1, Zenon DEF Managers, Maybe
<1>3. /\ m.gen = s.mgr.gen + 1 /\ m.data = s.mgr.data /\ m.def = s.mgr.def
      /\ m.renderer = s.mgr.renderer /\ m.status = "loading"
  BY <1>1 DEF Managers
<1>4. BeginWorld(s) = [s EXCEPT !.mgr = m]
  BY DEF BeginWorld
<1> HIDE DEF m
<1> QED
  BY <1>2, <1>3, <1>4, Overtaking DEF Sound

(* Nothing the manager goes by changes.                                     *)
LEMMA SameCourse ==
  ASSUME NEW s, NEW st, Sound(s, st), NEW m \in Managers,
         m.gen = s.mgr.gen, m.data = s.mgr.data, m.def = m.data, m.adv = s.mgr.adv,
         m.renderer = s.mgr.renderer, m.status = "synchronized" => s.mgr.status = "synchronized"
  PROVE  Sound([s EXCEPT !.mgr = m], st)
<1> DEFINE t == [s EXCEPT !.mgr = m]
<1>1. t \in States /\ t.mgr = m /\ t.jobs = s.jobs /\ t.refs = s.refs
  BY DEF Sound, States
<1> HIDE DEF t
<1>2. JobsFit(t, st)
  BY <1>1 DEF Sound, JobsFit, FetchIsNeeded, DrawIsDefined, InitIsOnce
<1>3. Sound(t, st)
  BY <1>1, <1>2 DEF Sound, RendererIsOn, Synchronized, Leased
<1> QED
  BY <1>3 DEF t

(* An advertisement, whatever it says and whenever it comes.                *)
LEMMA Advertising ==
  ASSUME NEW s, NEW st, Sound(s, st), NEW a \in Answers
  PROVE  Sound(ValidateAndSync(s, a), st)
<1> USE ClientAssumption
<1> DEFINE m == s.mgr
           told == [m EXCEPT !.tick = IF a.tick = None THEN @ ELSE a.tick,
                             !.no = IF m.adv = a.rev /\ a.no > @ THEN a.no ELSE @]
           next == [told EXCEPT !.gen = @ + 1, !.adv = a.rev, !.no = a.no, !.status = "loading",
                                !.pending = [rev |-> a.rev, gen |-> m.gen + 1]]
           begun == [s EXCEPT !.mgr = next]
           drawn == Defined(begun)
           asked == Job("fetch", a.rev, next.gen, None)
<1>1. /\ told \in Managers /\ told.gen = m.gen /\ told.data = m.data /\ told.def = told.data
      /\ told.adv = m.adv /\ told.renderer = m.renderer /\ told.status = m.status
  <2>1. /\ m \in Managers /\ m.def = m.data
        /\ (IF a.tick = None THEN m.tick ELSE a.tick) \in Maybe(Nat)
        /\ (IF m.adv = a.rev /\ a.no > m.no THEN a.no ELSE m.no) \in Nat
    BY DEF Sound, States, Managers, Maybe, Answers
  <2>2. told \in Managers
    BY <2>1, Zenon DEF Managers
  <2>3. /\ told.gen = m.gen /\ told.data = m.data /\ told.def = m.def
        /\ told.adv = m.adv /\ told.renderer = m.renderer /\ told.status = m.status
    BY <2>1 DEF Managers
  <2> QED
    BY <2>1, <2>2, <2>3
<1>2. /\ next \in Managers /\ next.gen = m.gen + 1 /\ next.data = m.data /\ next.def = next.data
      /\ next.renderer = m.renderer /\ next.status = "loading" /\ next.adv = a.rev
  <2> HIDE DEF told
  <2>1. /\ told.gen + 1 \in Nat /\ m.gen + 1 \in Nat
        /\ a.rev \in Revisions /\ a.rev \in Maybe(Revisions) /\ a.no \in Nat
    BY <1>1 DEF Managers, Maybe, Answers
  <2>2. [rev |-> a.rev, gen |-> m.gen + 1] \in Maybe([rev : Revisions, gen : Nat])
    BY <2>1 DEF Maybe
  <2>3. next \in Managers
    BY <1>1, <2>1, <2>2, Zenon DEF Managers
  <2>4. /\ next.gen = told.gen + 1 /\ next.data = told.data /\ next.def = told.def
        /\ next.renderer = told.renderer /\ next.status = "loading" /\ next.adv = a.rev
    BY <1>1 DEF Managers
  <2> QED
    BY <1>1, <2>3, <2>4
<1>3. Sound([s EXCEPT !.mgr = told], st)
  <2> HIDE DEF told
  <2> QED
    BY <1>1, SameCourse
<1>4. /\ Sound(begun, st) /\ \A j \in s.jobs : j.gen <= m.gen \/ j.kind = "init"
      /\ begun.mgr = next /\ begun.jobs = s.jobs
  <2>1. begun.mgr = next /\ begun.jobs = s.jobs
    BY DEF Sound, States
  <2> HIDE DEF next
  <2> QED
    BY <1>2, <2>1, Overtaking
<1>5. m.gen \in Nat /\ st.mount \in Nat
  BY DEF Sound, States, Managers, Stages
<1> HIDE DEF next
<1>6. ASSUME next.data # a.rev
      PROVE Sound([begun EXCEPT !.jobs = @ \cup {asked}], st)
  <2>1. /\ asked \in Work /\ asked.kind = "fetch" /\ asked.gen = m.gen + 1 /\ asked.rev = a.rev
        /\ asked.mount = None
    BY <1>2, <1>5 DEF Work, Job, Maybe, Answers
  <2>2. asked \notin begun.jobs
    BY <2>1, <1>4, <1>5
  <2>3. FetchIsNeeded(begun, asked)
    BY <1>6, <2>1, <1>2, <1>4, <1>5 DEF FetchIsNeeded
  <2>4. Added(begun, asked) = [begun EXCEPT !.jobs = @ \cup {asked}]
    BY <1>4, <2>1 DEF Added, Sound, States
  <2> HIDE DEF asked, begun
  <2>5. Sound(Added(begun, asked), st)
    BY <1>4, <2>1, <2>2, <2>3, Adding
  <2> QED
    BY <2>4, <2>5
<1>7. Sound(drawn, st) /\ drawn.mgr = next
  <2>1. [begun EXCEPT !.mgr.def = begun.mgr.data] = begun
    <3>1. begun \in States /\ begun.mgr = next /\ next \in Managers /\ next.def = next.data
      BY <1>2, <1>4 DEF Sound
    <3> HIDE DEF begun
    <3>2. [next EXCEPT !.def = next.data] = next
      BY <3>1 DEF Managers
    <3>3. [begun EXCEPT !.mgr = next] = begun
      BY <3>1 DEF States
    <3> QED
      BY <3>1, <3>2, <3>3
  <2>2. drawn = ApplyRenderers(begun)
    <3> HIDE DEF begun
    <3> QED
      BY <2>1 DEF Defined
  <2>3. begun.mgr.renderer # None => st.mount >= 1
    BY <1>4 DEF Sound, RendererIsOn
  <2>4. Job("draw", begun.mgr.data, begun.mgr.gen, begun.mgr.renderer) \notin begun.jobs
    BY <1>2, <1>4, <1>5 DEF Job
  <2> HIDE DEF begun, drawn
  <2> QED
    BY <2>2, <2>3, <2>4, <1>4, Drawing
<1>8. Sound([drawn EXCEPT !.mgr.pending = None], st)
  <2> DEFINE n == [next EXCEPT !.pending = None]
  <2>1. /\ n \in Managers /\ n.gen = next.gen /\ n.data = next.data /\ n.def = n.data
        /\ n.adv = next.adv /\ n.renderer = next.renderer /\ n.status = next.status
    BY <1>2 DEF Managers, Maybe
  <2>2. [drawn EXCEPT !.mgr.pending = None] = [drawn EXCEPT !.mgr = n]
    BY <1>7 DEF Sound, States
  <2> HIDE DEF n, drawn
  <2> QED
    BY <2>1, <2>2, <1>7, SameCourse
<1>9. ValidateAndSync(s, a) \in
        {s, [s EXCEPT !.mgr = told], [drawn EXCEPT !.mgr.pending = None], drawn}
        \cup (IF next.data # a.rev THEN {[begun EXCEPT !.jobs = @ \cup {asked}]} ELSE {})
  <2>1. next.data = m.data
    BY <1>2
  <2> QED
    BY <2>1 DEF ValidateAndSync, next
<1> HIDE DEF told, begun, drawn, asked
<1> QED
  BY <1>3, <1>6, <1>7, <1>8, <1>9

(* A download is over; a load that is given up returns its artwork.         *)
Returned(s, j) == [Settle(s, j) EXCEPT !.refs = Release(@, Files[j.rev])]

LEMMA GivingUp ==
  ASSUME NEW s, NEW st, Sound(s, st), NEW j \in s.jobs
  PROVE  /\ j.kind = "fetch" => Sound(Settle(s, j), st)
         /\ j.kind # "fetch" =>
              /\ Sound(Returned(s, j), st) /\ Returned(s, j).mgr = Settle(s, j).mgr
              /\ Returned(s, j).jobs = s.jobs \ {j}
<1> DEFINE t == Settle(s, j)
<1>1. /\ t \in States /\ IsFiniteSet(t.jobs) /\ t.mgr.def = t.mgr.data
      /\ JobsFit(t, st) /\ RendererIsOn(t, st) /\ Synchronized(t, st) /\ t.jobs = s.jobs \ {j}
      /\ \A k \in Bundles :
           /\ Cardinality(Holding(t.jobs, k)) \in Nat
           /\ t.refs[k] = Cardinality(Holding(t.jobs, k)) + Holds(j, k)
                          + (IF k \in FilesOf(st.shown) THEN 1 ELSE 0)
  BY Settling
<1> HIDE DEF t
<1>2. CASE j.kind = "fetch"
  <2>1. ASSUME NEW k \in Bundles
        PROVE  t.refs[k] = Cardinality(Holding(t.jobs, k)) + (IF k \in FilesOf(st.shown) THEN 1 ELSE 0)
    <3>1. Holds(j, k) = 0
      BY <1>2 DEF Holds
    <3>2. t.refs[k] = Cardinality(Holding(t.jobs, k)) + Holds(j, k)
                      + (IF k \in FilesOf(st.shown) THEN 1 ELSE 0)
      BY <1>1
    <3>3. Cardinality(Holding(t.jobs, k)) \in Nat
      BY <1>1
    <3> QED
      BY <3>1, <3>2, <3>3
  <2>2. Leased(t, st)
    BY <2>1 DEF Leased
  <2>3. Sound(t, st)
    BY <1>1, <2>2 DEF Sound
  <2> QED
    BY <1>2, <2>3 DEF t
<1>3. CASE j.kind # "fetch"
  <2> DEFINE u == [t EXCEPT !.refs = Release(@, Files[j.rev])]
  <2>1. /\ u \in States /\ u.mgr = t.mgr /\ u.jobs = t.jobs /\ u.refs = Release(t.refs, Files[j.rev])
    BY <1>1 DEF States, Release
  <2>2. ASSUME NEW k \in Bundles
        PROVE  u.refs[k] = Cardinality(Holding(t.jobs, k)) + (IF k \in FilesOf(st.shown) THEN 1 ELSE 0)
    <3>1. u.refs[k] = t.refs[k] - Holds(j, k) /\ Holds(j, k) \in {0, 1}
      BY <1>3, <2>1 DEF Release, Holds
    <3>2. t.refs[k] = Cardinality(Holding(t.jobs, k)) + Holds(j, k)
                      + (IF k \in FilesOf(st.shown) THEN 1 ELSE 0)
      BY <1>1
    <3>3. Cardinality(Holding(t.jobs, k)) \in Nat
      BY <1>1
    <3> HIDE DEF u
    <3> QED
      BY <3>1, <3>2, <3>3
  <2> HIDE DEF u
  <2>3. JobsFit(u, st) /\ RendererIsOn(u, st) /\ Synchronized(u, st)
    BY <1>1, <2>1 DEF JobsFit, FetchIsNeeded, DrawIsDefined, InitIsOnce, RendererIsOn, Synchronized
  <2>4. Sound(u, st)
    BY <1>1, <2>1, <2>2, <2>3 DEF Sound, Leased
  <2> QED
    BY <1>1, <1>3, <2>1, <2>4 DEF u, t, Returned
<1> QED
  BY <1>2, <1>3

LEMMA Failing ==
  ASSUME NEW s, NEW st, Sound(s, st)
  PROVE  Sound(ReportFailure(s), st)
<1> DEFINE m == [s.mgr EXCEPT !.status = "failed"]
<1>1. /\ m \in Managers /\ m.gen = s.mgr.gen /\ m.data = s.mgr.data /\ m.def = m.data
      /\ m.adv = s.mgr.adv /\ m.renderer = s.mgr.renderer /\ m.status = "failed"
  BY DEF Sound, States, Managers
<1>2. ReportFailure(s) = [s EXCEPT !.mgr = m]
  BY DEF ReportFailure
<1> HIDE DEF m
<1> QED
  BY <1>1, <1>2, SameCourse

(* The gate hands over what it was answered, and a stage is mounted.        *)
LEMMA Mounting ==
  ASSUME NEW s, NEW st, Sound(s, st), st.at = "off", NEW a \in Answers
  PROVE  LET t == LoadBundle(s, a)
             j == Job("init", t.mgr.data, 0, st.mount + 1) IN
         Sound([t EXCEPT !.jobs = @ \cup {j}, !.refs = Acquire(@, Files[t.mgr.data])],
               [mount |-> st.mount + 1, at |-> "loading", shown |-> None])
<1> USE ClientAssumption
<1> DEFINE m == [s.mgr EXCEPT !.gen = @ + 1, !.tick = a.tick, !.data = a.rev, !.adv = a.rev,
                              !.def = a.rev, !.no = a.no, !.status = "loading"]
           t == [s EXCEPT !.mgr = m]
           st1 == [mount |-> st.mount + 1, at |-> "loading", shown |-> None]
           j == Job("init", a.rev, 0, st.mount + 1)
<1>1. /\ m \in Managers /\ m.gen = s.mgr.gen + 1 /\ m.data = a.rev /\ m.def = a.rev
      /\ m.renderer = s.mgr.renderer /\ m.status = "loading" /\ a.rev \in Revisions
  <2>1. /\ s.mgr \in Managers /\ s.mgr.gen + 1 \in Nat /\ a.rev \in Revisions
        /\ a.rev \in Maybe(Revisions) /\ a.no \in Nat /\ a.tick \in Maybe(Nat)
    BY DEF Sound, States, Managers, Answers, Maybe
  <2>2. m \in Managers
    BY <2>1, Zenon DEF Managers
  <2> QED
    BY <2>1, <2>2 DEF Managers
<1>2. /\ t \in States /\ t.mgr = m /\ t.jobs = s.jobs /\ st.mount \in Nat
      /\ s.mgr.renderer = None /\ st.shown = None
  BY <1>1 DEF Sound, States, RendererIsOn, Stages
<1>3. Sound(t, st)
  <2> HIDE DEF m
  <2> QED
    BY <1>1, Overtaking
<1>4. LoadBundle(s, a) = t
  BY <1>1, <1>2 DEF LoadBundle, ApplyRenderers
<1> HIDE DEF m, t
<1>5. st1 \in Stages /\ st1.mount = st.mount + 1 /\ st1.at = "loading" /\ st1.shown = None
  BY <1>2 DEF Stages, Maybe
<1> HIDE DEF st1
<1>6. \A i \in t.jobs : i.kind \in {"draw", "init"} => i.mount \in 1..st.mount
  BY <1>3 DEF Sound, JobsFit, DrawIsDefined, InitIsOnce
<1>7. Sound(t, st1)
  <2>1. JobsFit(t, st1)
    BY <1>2, <1>3, <1>5, <1>6 DEF Sound, JobsFit, FetchIsNeeded, DrawIsDefined, InitIsOnce
  <2>2. RendererIsOn(t, st1) /\ Synchronized(t, st1)
    BY <1>1, <1>2, <1>5 DEF RendererIsOn, Synchronized
  <2>3. Leased(t, st1)
    BY <1>2, <1>3, <1>5 DEF Sound, Leased
  <2> QED
    BY <1>3, <1>5, <2>1, <2>2, <2>3 DEF Sound
<1>8. j \in Work /\ j.kind = "init" /\ j.mount = st.mount + 1 /\ j.rev = a.rev
  BY <1>1, <1>2 DEF Work, Job, Maybe
<1> HIDE DEF j
<1>9. j \notin t.jobs
  BY <1>2, <1>6, <1>8
<1>10. Added(t, j) = [t EXCEPT !.jobs = @ \cup {j}, !.refs = Acquire(@, Files[a.rev])]
  BY <1>8 DEF Added
<1>11. InitIsOnce(Added(t, j), st1, j)
  <2>1. Added(t, j).jobs = t.jobs \cup {j}
    BY <1>2 DEF Added, States
  <2> QED
    BY <1>2, <1>5, <1>6, <1>8, <2>1 DEF InitIsOnce
<1>12. Sound(Added(t, j), st1)
  BY <1>7, <1>8, <1>9, <1>11, Adding
<1> QED
  BY <1>1, <1>2, <1>4, <1>10, <1>12 DEF j, st1

(* The stage has loaded its artwork and registers.                          *)
LEMMA Registering ==
  ASSUME NEW s, NEW st, Sound(s, st), NEW j \in s.jobs, j.kind = "init",
         j.mount = st.mount, st.at # "off"
  PROVE  Sound(Register(Settle(s, j), j.mount), [st EXCEPT !.at = "on", !.shown = j.rev])
<1> USE ClientAssumption
<1> DEFINE t == Settle(s, j)
           m == [t.mgr EXCEPT !.renderer = j.mount, !.status = "loading"]
           u == [t EXCEPT !.mgr = m]
           st1 == [st EXCEPT !.at = "on", !.shown = j.rev]
<1>1. /\ t \in States /\ IsFiniteSet(t.jobs) /\ t.mgr.def = t.mgr.data
      /\ t.mgr.data = s.mgr.data /\ t.mgr.renderer = s.mgr.renderer /\ t.mgr.gen = s.mgr.gen
      /\ JobsFit(t, st) /\ t.jobs = s.jobs \ {j}
  BY Settling
<1>2. ASSUME NEW k \in Bundles
      PROVE  t.refs[k] = Cardinality(Holding(t.jobs, k)) + Holds(j, k)
                         + (IF k \in FilesOf(st.shown) THEN 1 ELSE 0)
             /\ Cardinality(Holding(t.jobs, k)) \in Nat
  BY Settling
<1> HIDE DEF t
<1>3. /\ st.at = "loading" /\ j.mount \in 1..st.mount
      /\ \A i \in t.jobs : i.kind = "init" => i.mount # j.mount
  BY <1>1 DEF Sound, JobsFit, InitIsOnce, Stages
<1>4. /\ st.shown = None /\ st.mount \in Nat /\ st.mount >= 1 /\ s.mgr.data # None
      /\ j.rev \in Revisions
  BY <1>3 DEF Sound, RendererIsOn, Stages, States, Work
<1>5. /\ st1 \in Stages /\ st1.mount = st.mount /\ st1.at = "on" /\ st1.shown = j.rev
  BY <1>4 DEF Stages, Maybe, Sound
<1>6. /\ m \in Managers /\ m.gen = t.mgr.gen /\ m.data = t.mgr.data /\ m.def = m.data
      /\ m.adv = t.mgr.adv /\ m.renderer = st.mount /\ m.status = "loading"
  BY <1>1, <1>4 DEF States, Managers, Maybe
<1>7. /\ u \in States /\ u.mgr = m /\ u.jobs = t.jobs /\ u.refs = t.refs
  BY <1>1, <1>6 DEF States
<1>8. Register(t, j.mount) = ApplyRenderers(u)
  BY DEF Register
<1> HIDE DEF st1, m, u
<1>9. Sound(u, st1)
  <2>1. JobsFit(u, st1)
    BY <1>1, <1>3, <1>5, <1>6, <1>7 DEF JobsFit, FetchIsNeeded, DrawIsDefined, InitIsOnce
  <2>2. RendererIsOn(u, st1) /\ Synchronized(u, st1)
    BY <1>1, <1>4, <1>5, <1>6, <1>7 DEF RendererIsOn, Synchronized
  <2>3. ASSUME NEW k \in Bundles
        PROVE  u.refs[k] = Cardinality(Holding(u.jobs, k)) + (IF k \in FilesOf(st1.shown) THEN 1 ELSE 0)
    <3>1. k \notin FilesOf(st.shown) /\ FilesOf(st1.shown) = Files[j.rev]
      BY <1>4, <1>5 DEF FilesOf
    <3>2. Holds(j, k) = IF k \in FilesOf(st1.shown) THEN 1 ELSE 0
      BY <3>1 DEF Holds
    <3>3. /\ t.refs[k] = Cardinality(Holding(t.jobs, k)) + Holds(j, k)
                         + (IF k \in FilesOf(st.shown) THEN 1 ELSE 0)
          /\ Cardinality(Holding(t.jobs, k)) \in Nat
      BY <1>2
    <3> QED
      BY <1>7, <3>1, <3>2, <3>3
  <2> QED
    BY <1>1, <1>5, <1>6, <1>7, <2>1, <2>2, <2>3 DEF Sound, Leased
<1>10. Job("draw", u.mgr.data, u.mgr.gen, u.mgr.renderer) \notin u.jobs
  BY <1>1, <1>3, <1>6, <1>7 DEF JobsFit, DrawIsDefined, Job
<1>11. Sound(ApplyRenderers(u), st1)
  BY <1>4, <1>5, <1>9, <1>10, Drawing
<1> QED
  BY <1>8, <1>11 DEF t, st1

(* The renderer's artwork is swapped for what a drawing made.               *)
LEMMA Swapping ==
  ASSUME NEW s, NEW st, Sound(s, st), NEW j \in s.jobs, j.kind = "draw",
         j.gen = s.mgr.gen, s.mgr.renderer = j.mount, s.mgr.adv = j.rev
  PROVE  Sound([Settle(s, j) EXCEPT !.refs = Release(@, FilesOf(st.shown)),
                                    !.mgr.status = "synchronized"],
               [st EXCEPT !.shown = j.rev])
<1> USE ClientAssumption
<1> DEFINE t == Settle(s, j)
           m == [t.mgr EXCEPT !.status = "synchronized"]
           u == [t EXCEPT !.refs = Release(@, FilesOf(st.shown)), !.mgr = m]
           st1 == [st EXCEPT !.shown = j.rev]
<1>1. /\ t \in States /\ IsFiniteSet(t.jobs) /\ t.mgr.def = t.mgr.data
      /\ t.mgr.data = s.mgr.data /\ t.mgr.renderer = s.mgr.renderer /\ t.mgr.adv = s.mgr.adv
      /\ t.mgr.gen = s.mgr.gen
      /\ JobsFit(t, st) /\ RendererIsOn(t, st)
  BY Settling
<1>2. ASSUME NEW k \in Bundles
      PROVE  t.refs[k] = Cardinality(Holding(t.jobs, k)) + Holds(j, k)
                         + (IF k \in FilesOf(st.shown) THEN 1 ELSE 0)
             /\ Cardinality(Holding(t.jobs, k)) \in Nat
  BY Settling
<1> HIDE DEF t
<1>3. /\ j.rev \in Revisions /\ j.mount \in 1..st.mount /\ s.mgr.data = j.rev
  BY DEF Sound, States, Work, JobsFit, DrawIsDefined
<1>4. st.at = "on" /\ st.mount \in Nat
  BY <1>3 DEF Sound, RendererIsOn, Stages
<1>5. /\ st1 \in Stages /\ st1.mount = st.mount /\ st1.at = "on" /\ st1.shown = j.rev
  BY <1>3, <1>4 DEF Stages, Maybe, Sound
<1>6. /\ m \in Managers /\ m.gen = t.mgr.gen /\ m.data = t.mgr.data /\ m.def = m.data
      /\ m.adv = t.mgr.adv /\ m.renderer = t.mgr.renderer
  BY <1>1 DEF States, Managers
<1>7. /\ u \in States /\ u.mgr = m /\ u.jobs = t.jobs /\ u.refs = Release(t.refs, FilesOf(st.shown))
  <2>1. Release(t.refs, FilesOf(st.shown)) \in [Bundles -> Int]
    BY <1>1 DEF States, Release
  <2> HIDE DEF m
  <2> QED
    BY <1>1, <1>6, <2>1 DEF States
<1>8. u = [t EXCEPT !.refs = Release(@, FilesOf(st.shown)), !.mgr.status = "synchronized"]
  BY <1>1 DEF States
<1> HIDE DEF st1, m, u
<1>9. Sound(u, st1)
  <2>1. JobsFit(u, st1)
    BY <1>1, <1>4, <1>5, <1>6, <1>7 DEF JobsFit, FetchIsNeeded, DrawIsDefined, InitIsOnce
  <2>2. RendererIsOn(u, st1) /\ Synchronized(u, st1)
    BY <1>1, <1>3, <1>4, <1>5, <1>6, <1>7 DEF RendererIsOn, Synchronized
  <2>3. ASSUME NEW k \in Bundles
        PROVE  u.refs[k] = Cardinality(Holding(u.jobs, k)) + (IF k \in FilesOf(st1.shown) THEN 1 ELSE 0)
    <3>1. FilesOf(st1.shown) = Files[j.rev]
      BY <1>3, <1>5 DEF FilesOf
    <3>2. Holds(j, k) = IF k \in FilesOf(st1.shown) THEN 1 ELSE 0
      BY <3>1 DEF Holds
    <3>3. /\ t.refs[k] = Cardinality(Holding(t.jobs, k)) + Holds(j, k)
                         + (IF k \in FilesOf(st.shown) THEN 1 ELSE 0)
          /\ Cardinality(Holding(t.jobs, k)) \in Nat
      BY <1>2
    <3>4. u.refs[k] = t.refs[k] - (IF k \in FilesOf(st.shown) THEN 1 ELSE 0)
      BY <1>7 DEF Release
    <3> QED
      BY <1>7, <3>2, <3>3, <3>4
  <2> QED
    BY <1>1, <1>5, <1>6, <1>7, <2>1, <2>2, <2>3 DEF Sound, Leased
<1>10. u = [Settle(s, j) EXCEPT !.refs = Release(@, FilesOf(st.shown)), !.mgr.status = "synchronized"]
  BY <1>8 DEF t
<1> QED
  BY <1>9, <1>10 DEF st1

(* Fetched definitions of the current generation.                           *)
LEMMA Fetching ==
  ASSUME NEW s, NEW st, Sound(s, st), NEW j \in s.jobs, j.kind = "fetch",
         j.gen = s.mgr.gen, NEW tick \in Maybe(Nat)
  PROVE  LET u == Defined([Settle(s, j) EXCEPT !.mgr.data = j.rev, !.mgr.tick = tick]) IN
         Sound(u, st) /\ \A p \in Maybe([rev : Revisions, gen : Nat]) :
                           Sound([u EXCEPT !.mgr.pending = p], st)
<1> USE ClientAssumption
<1> DEFINE t == Settle(s, j)
           m == [t.mgr EXCEPT !.data = j.rev, !.tick = tick, !.def = j.rev]
           u == [t EXCEPT !.mgr = m]
<1>1. /\ t \in States /\ IsFiniteSet(t.jobs)
      /\ t.mgr.data = s.mgr.data /\ t.mgr.renderer = s.mgr.renderer /\ t.mgr.adv = s.mgr.adv
      /\ t.mgr.gen = s.mgr.gen /\ t.mgr.status = s.mgr.status
      /\ JobsFit(t, st) /\ RendererIsOn(t, st) /\ t.jobs = s.jobs \ {j}
  BY Settling
<1>2. Sound(t, st)
  BY GivingUp
<1> HIDE DEF t
<1>3. /\ j \in Work /\ j.rev \in Revisions /\ s.mgr.adv = j.rev /\ s.mgr.data # j.rev /\ j.mount = None
  BY DEF Sound, States, Work, JobsFit, FetchIsNeeded
<1>4. s.mgr.status # "synchronized"
  BY <1>3 DEF Sound, Synchronized
<1>5. ASSUME NEW i \in t.jobs, i.kind \in {"fetch", "draw"}, i.gen = s.mgr.gen, i.rev = s.mgr.adv
      PROVE  FALSE
  <2>1. i \in Work
    BY <1>1 DEF States
  <2>2. CASE i.kind = "draw"
    BY <1>1, <1>3, <1>5, <2>2 DEF JobsFit, DrawIsDefined
  <2>3. CASE i.kind = "fetch"
    <3>1. i.mount = None
      BY <1>1, <2>3 DEF JobsFit, FetchIsNeeded
    <3>2. i = j
      BY <1>3, <1>5, <2>1, <2>3, <3>1 DEF Work
    <3> QED
      BY <1>1, <3>2
  <2> QED
    BY <1>5, <2>2, <2>3
<1>6. ASSUME NEW i \in t.jobs, i.kind = "fetch"
      PROVE  i.gen = s.mgr.gen => i.rev = s.mgr.adv
  BY <1>1, <1>6 DEF JobsFit, FetchIsNeeded
<1>7. /\ m \in Managers /\ m.gen = t.mgr.gen /\ m.data = j.rev /\ m.def = j.rev
      /\ m.adv = j.rev /\ m.renderer = t.mgr.renderer /\ m.status = t.mgr.status
  <2>1. t.mgr \in Managers /\ j.rev \in Maybe(Revisions)
    BY <1>1, <1>3 DEF States, Maybe
  <2>2. m \in Managers
    BY <2>1, Zenon DEF Managers
  <2> QED
    BY <1>1, <1>3, <2>1, <2>2 DEF Managers
<1>8. /\ u \in States /\ u.mgr = m /\ u.jobs = t.jobs /\ u.refs = t.refs
  BY <1>1, <1>7 DEF States
<1>9. Defined([t EXCEPT !.mgr.data = j.rev, !.mgr.tick = tick]) = ApplyRenderers(u)
  <2>1. [[t EXCEPT !.mgr.data = j.rev, !.mgr.tick = tick] EXCEPT !.mgr.def = j.rev] = u
    BY <1>1 DEF States, Managers
  <2>2. [t EXCEPT !.mgr.data = j.rev, !.mgr.tick = tick].mgr.data = j.rev
    BY <1>1 DEF States, Managers
  <2> QED
    BY <2>1, <2>2 DEF Defined
<1> HIDE DEF m, u
<1>10. Sound(u, st)
  <2>1. JobsFit(u, st)
    <3> SUFFICES ASSUME NEW i \in t.jobs
                 PROVE /\ i.kind = "fetch" => FetchIsNeeded(u, i)
                       /\ i.kind = "draw" => DrawIsDefined(u, st, i)
                       /\ i.kind = "init" => InitIsOnce(u, st, i)
      BY <1>8 DEF JobsFit
    <3>1. i.kind = "fetch" => FetchIsNeeded(u, i)
      BY <1>1, <1>3, <1>5, <1>6, <1>7, <1>8 DEF JobsFit, FetchIsNeeded
    <3>2. i.kind = "draw" => DrawIsDefined(u, st, i)
      BY <1>1, <1>3, <1>5, <1>7, <1>8 DEF JobsFit, DrawIsDefined
    <3>3. i.kind = "init" => InitIsOnce(u, st, i)
      BY <1>1, <1>8 DEF JobsFit, InitIsOnce
    <3> QED
      BY <3>1, <3>2, <3>3
  <2>2. RendererIsOn(u, st) /\ Synchronized(u, st)
    BY <1>1, <1>3, <1>4, <1>7, <1>8 DEF RendererIsOn, Synchronized
  <2>3. Leased(u, st)
    BY <1>2, <1>8 DEF Sound, Leased
  <2> QED
    BY <1>1, <1>2, <1>7, <1>8, <2>1, <2>2, <2>3 DEF Sound
<1>11. Job("draw", u.mgr.data, u.mgr.gen, u.mgr.renderer) \notin u.jobs
  BY <1>1, <1>3, <1>5, <1>7, <1>8 DEF Job
<1>12. u.mgr.renderer # None => st.mount >= 1
  BY <1>10 DEF Sound, RendererIsOn
<1> DEFINE d == ApplyRenderers(u)
<1>13. Sound(d, st) /\ d.mgr = u.mgr
  BY <1>10, <1>11, <1>12, Drawing
<1> HIDE DEF d
<1>14. ASSUME NEW p \in Maybe([rev : Revisions, gen : Nat])
       PROVE  Sound([d EXCEPT !.mgr.pending = p], st)
  <2> DEFINE n == [d.mgr EXCEPT !.pending = p]
  <2>1. /\ n \in Managers /\ n.gen = d.mgr.gen /\ n.data = d.mgr.data /\ n.def = n.data
        /\ n.adv = d.mgr.adv /\ n.renderer = d.mgr.renderer /\ n.status = d.mgr.status
    <3>1. d.mgr \in Managers /\ d.mgr.def = d.mgr.data
      BY <1>13 DEF Sound, States
    <3>2. n \in Managers
      BY <3>1, Zenon DEF Managers
    <3> QED
      BY <3>1, <3>2 DEF Managers
  <2>2. [d EXCEPT !.mgr.pending = p] = [d EXCEPT !.mgr = n]
    OBVIOUS
  <2> HIDE DEF n
  <2> QED
    BY <2>1, <2>2, <1>13, SameCourse
<1> QED
  BY <1>9, <1>13, <1>14 DEF t, d

(* A stage goes: taken down with its artwork, or its loading has failed.    *)
LEMMA Leaving ==
  ASSUME NEW s, NEW st, Sound(s, st)
  PROVE  LET u == IF st.at = "on" THEN Unregister(s) ELSE s IN
         Sound([u EXCEPT !.refs = Release(@, FilesOf(st.shown))],
               [st EXCEPT !.at = "off", !.shown = None])
<1> USE ClientAssumption
<1> DEFINE m == IF st.at = "on" THEN [s.mgr EXCEPT !.renderer = None, !.status = "loading"] ELSE s.mgr
           u == IF st.at = "on" THEN Unregister(s) ELSE s
           t == [s EXCEPT !.mgr = m, !.refs = Release(@, FilesOf(st.shown))]
           st1 == [st EXCEPT !.at = "off", !.shown = None]
<1>1. /\ m \in Managers /\ m.gen = s.mgr.gen /\ m.data = s.mgr.data /\ m.def = m.data
      /\ m.adv = s.mgr.adv /\ m.renderer = None /\ m.status # "synchronized"
  <2>1. s.mgr \in Managers /\ s.mgr.def = s.mgr.data
    BY DEF Sound, States
  <2>2. CASE st.at = "on"
    BY <2>1, <2>2 DEF Managers, Maybe
  <2>3. CASE st.at # "on"
    BY <2>1, <2>3 DEF Sound, RendererIsOn, Synchronized
  <2> QED
    BY <2>2, <2>3
<1>2. [u EXCEPT !.refs = Release(@, FilesOf(st.shown))] = t
  <2>1. s \in States
    BY DEF Sound
  <2>2. u = [s EXCEPT !.mgr = m]
    BY <2>1 DEF Unregister, States
  <2>3. u.refs = s.refs
    BY <2>1, <2>2 DEF States
  <2> HIDE DEF u, m
  <2> QED
    BY <2>2, <2>3
<1> HIDE DEF m
<1>3. /\ t \in States /\ t.mgr = m /\ t.jobs = s.jobs /\ t.refs = Release(s.refs, FilesOf(st.shown))
  <2>1. Release(s.refs, FilesOf(st.shown)) \in [Bundles -> Int]
    BY DEF Sound, States, Release
  <2> QED
    BY <1>1, <2>1 DEF Sound, States
<1>4. st1 \in Stages /\ st1.mount = st.mount /\ st1.at = "off" /\ st1.shown = None
  BY DEF Sound, Stages, Maybe
<1> HIDE DEF t, st1, u
<1>5. JobsFit(t, st1)
  BY <1>1, <1>3, <1>4 DEF Sound, JobsFit, FetchIsNeeded, DrawIsDefined, InitIsOnce
<1>6. RendererIsOn(t, st1) /\ Synchronized(t, st1)
  BY <1>1, <1>3, <1>4 DEF RendererIsOn, Synchronized
<1>7. ASSUME NEW k \in Bundles
      PROVE  t.refs[k] = Cardinality(Holding(t.jobs, k)) + (IF k \in FilesOf(st1.shown) THEN 1 ELSE 0)
  <2>1. k \notin FilesOf(st1.shown)
    BY <1>4 DEF FilesOf
  <2>2. s.refs[k] = Cardinality(Holding(s.jobs, k)) + (IF k \in FilesOf(st.shown) THEN 1 ELSE 0)
    BY DEF Sound, Leased
  <2>3. Cardinality(Holding(s.jobs, k)) \in Nat
    BY FS_Subset, FS_CardinalityType DEF Sound, Holding
  <2>4. t.refs[k] = s.refs[k] - (IF k \in FilesOf(st.shown) THEN 1 ELSE 0)
    BY <1>3 DEF Release
  <2> QED
    BY <1>3, <2>1, <2>2, <2>3, <2>4
<1>8. Sound(t, st1)
  BY <1>1, <1>3, <1>4, <1>5, <1>6, <1>7 DEF Sound, Leased
<1> QED
  BY <1>2, <1>8 DEF u, st1

LEMMA StageDies ==
  ASSUME NEW s, NEW st, Sound(s, st), NEW j \in s.jobs, j.kind = "init",
         j.mount = st.mount, st.at # "off"
  PROVE  Sound(ReportFailure(Returned(s, j)), [st EXCEPT !.at = "dead"])
<1> DEFINE t == Returned(s, j)
           u == ReportFailure(t)
           st1 == [st EXCEPT !.at = "dead"]
<1>1. Sound(t, st) /\ t.jobs = s.jobs \ {j}
  BY GivingUp
<1> HIDE DEF t
<1>2. Sound(u, st)
  BY <1>1, Failing
<1>3. /\ u.jobs = t.jobs /\ u.mgr.status = "failed"
  BY <1>1 DEF ReportFailure, Sound, States, Managers
<1> HIDE DEF u
<1>4. /\ st.at = "loading"
      /\ \A i \in u.jobs : i.kind = "init" => i.mount # st.mount
  BY <1>1, <1>3 DEF Sound, JobsFit, InitIsOnce, Stages
<1>5. /\ st1 \in Stages /\ st1.mount = st.mount /\ st1.at = "dead" /\ st1.shown = st.shown
  BY DEF Sound, Stages
<1> HIDE DEF st1
<1>6. JobsFit(u, st1)
  BY <1>2, <1>4, <1>5 DEF Sound, JobsFit, FetchIsNeeded, DrawIsDefined, InitIsOnce
<1>7. RendererIsOn(u, st1) /\ Synchronized(u, st1) /\ Leased(u, st1)
  BY <1>2, <1>3, <1>4, <1>5 DEF Sound, RendererIsOn, Synchronized, Leased
<1>8. Sound(u, st1)
  BY <1>2, <1>5, <1>6, <1>7 DEF Sound
<1> QED
  BY <1>8 DEF u, t, st1

-----------------------------------------------------------------------------
(* The invariant holds.                                                     *)

LEMMA AcceptedAnswer ==
  ASSUME WebTypes
  PROVE  Active \in Answers
<1>1. History[server.no] \in Revisions /\ server.no \in Nat
  BY ClientAssumption DEF WebTypes, Revisions
<1>2. server.kept[History[server.no]] \in Maybe(Nat)
  BY <1>1 DEF WebTypes
<1> QED
  BY <1>1, <1>2 DEF Active, Answers

LEMMA InitHolds == Init => IInv
<1> SUFFICES ASSUME Init PROVE IInv
  OBVIOUS
<1> USE ClientAssumption
<1>1. 1 \in DOMAIN History /\ History[1] \in Revisions /\ None \in Maybe(Nat) /\ 2 \in Maybe(Nat)
  BY DEF Revisions, Maybe
<1>2. WebTypes
  <2>1. server \in [run : 1..MaxRuns, now : Nat, no : DOMAIN History, kept : [Revisions -> Maybe(Nat)]]
    <3>1. [r \in Revisions |-> IF r = History[1] THEN 2 ELSE None] \in [Revisions -> Maybe(Nat)]
      BY <1>1
    <3>2. 1 \in 1..MaxRuns
      OBVIOUS
    <3> QED
      BY <1>1, <3>1, <3>2 DEF Init
  <2>2. gate \in [at : {"asking", "error", "ready"}, answer : Maybe(Answers)]
    BY DEF Init, Maybe
  <2>3. link \in [at : {"off", "connecting", "open", "ending"}, run : Maybe(Nat),
                  told : Maybe(Revisions), queue : Seq(Messages)]
    BY DEF Init, NoLink, Maybe
  <2>4. asks \in Seq([gen : Nat, answer : Maybe(Answers)])
    BY DEF Init
  <2> QED
    BY <2>1, <2>2, <2>3, <2>4 DEF WebTypes
<1>3. Now \in States /\ Now.mgr = Fresh /\ Now.jobs = {} /\ Now.refs = [k \in Bundles |-> 0]
  <2>1. Fresh \in Managers
    BY DEF Fresh, Managers, Maybe
  <2>2. [k \in Bundles |-> 0] \in [Bundles -> Int]
    OBVIOUS
  <2> QED
    BY <2>1, <2>2 DEF Init, Now, States
<1>4. stage = NoStage /\ stage \in Stages
  BY DEF Init, NoStage, Stages, Maybe
<1>5. IsFiniteSet({}) /\ \A k : Holding({}, k) = {} /\ Cardinality({}) = 0
  BY FS_EmptySet DEF Holding
<1>6. Sound(Now, stage)
  <2>1. JobsFit(Now, stage) /\ RendererIsOn(Now, stage) /\ Synchronized(Now, stage)
    BY <1>3, <1>4 DEF JobsFit, RendererIsOn, Synchronized, NoStage, Fresh
  <2>2. ASSUME NEW k \in Bundles
        PROVE  Now.refs[k] = Cardinality(Holding(Now.jobs, k)) + (IF k \in FilesOf(stage.shown) THEN 1 ELSE 0)
    <3>1. k \notin FilesOf(stage.shown)
      BY <1>4 DEF NoStage, FilesOf
    <3>2. Cardinality(Holding(Now.jobs, k)) = 0
      BY <1>3, <1>5
    <3> QED
      BY <1>3, <3>1, <3>2
  <2> QED
    BY <1>3, <1>4, <1>5, <2>1, <2>2 DEF Sound, Leased, Fresh
<1>7. gate.at = "ready" <=> stage.at # "off"
  BY DEF Init, NoStage
<1> QED
  BY <1>2, <1>6, <1>7 DEF IInv

LEMMA NextHolds == IInv /\ [Next]_vars => IInv'
<1> SUFFICES ASSUME IInv, [Next]_vars PROVE IInv'
  OBVIOUS
<1> USE ClientAssumption
<1> DEFINE Gated == gate.at = "ready" <=> stage.at # "off"
           Asks == [gen : Nat, answer : Maybe(Answers)]
<1>1. WebTypes /\ Sound(Now, stage) /\ Gated
  BY DEF IInv
<1>2. /\ Now \in States /\ stage \in Stages /\ mgr \in Managers /\ mgr.gen \in Nat
      /\ Now.jobs = jobs /\ Now.refs = refs /\ Now.mgr = mgr /\ jobs \in SUBSET Work
  BY <1>1 DEF Sound, States, Now, Managers
<1>3. Active \in Answers
  BY <1>1, AcceptedAnswer
<1>4. ASSUME NEW s, s \in States, Takes(s) PROVE Now' = s
  BY <1>4 DEF Takes, Now, States
<1>5. ASSUME mgr' = mgr, jobs' = jobs, refs' = refs PROVE Now' = Now
  BY <1>5 DEF Now
<1>6. ASSUME NEW s, NEW st PROVE Sound(s, st) => s \in States
  BY DEF Sound
<1>7. asks \in Seq(Asks) /\ link.queue \in Seq(Messages) /\ link.at \in {"off", "connecting", "open", "ending"}
  BY <1>1 DEF WebTypes
<1>8. NoLink \in [at : {"off"}, run : Maybe(Nat), told : Maybe(Revisions), queue : Seq(Messages)]
      /\ [NoLink EXCEPT !.at = "connecting"]
           \in [at : {"connecting"}, run : Maybe(Nat), told : Maybe(Revisions), queue : Seq(Messages)]
      /\ <<>> \in Seq(Asks)
  <2>1. <<>> \in Seq(Messages) /\ <<>> \in Seq(Asks) /\ None \in Maybe(Nat) /\ None \in Maybe(Revisions)
    BY DEF Maybe
  <2> QED
    BY <2>1 DEF NoLink
<1>9. /\ Len(asks) \in Nat /\ DOMAIN asks = 1..Len(asks) /\ \A k \in 1..Len(asks) : asks[k] \in Asks
  <2> HIDE DEF Asks
  <2> QED
    BY <1>7, LenProperties, ElementOfSeq
<1>10. CASE UNCHANGED vars
  BY <1>1, <1>10, <1>5 DEF IInv, WebTypes, vars
<1>11. CASE Accept
  <2>1. server' \in [run : 1..MaxRuns, now : Nat, no : DOMAIN History, kept : [Revisions -> Maybe(Nat)]]
    <3>1. server.no + 1 \in DOMAIN History /\ server.now + 1 \in Nat /\ server.now + 1 \in Maybe(Nat)
      BY <1>1, <1>11 DEF Accept, WebTypes, Maybe
    <3>2. [server.kept EXCEPT ![History[server.no + 1]] = server.now + 1] \in [Revisions -> Maybe(Nat)]
      BY <1>1, <3>1 DEF WebTypes
    <3> QED
      BY <1>1, <1>11, <3>1, <3>2 DEF Accept, WebTypes
  <2> QED
    BY <1>1, <1>11, <1>5, <2>1 DEF IInv, WebTypes, Accept, page
<1>12. CASE Reset
  <2>1. server' \in [run : 1..MaxRuns, now : Nat, no : DOMAIN History, kept : [Revisions -> Maybe(Nat)]]
    <3>1. server.run + 1 \in 1..MaxRuns /\ 0 \in Nat
      BY <1>1, <1>12 DEF Reset, WebTypes
    <3> QED
      BY <1>1, <1>12, <3>1 DEF Reset, WebTypes
  <2> QED
    BY <1>1, <1>12, <1>5, <2>1 DEF IInv, WebTypes, Reset, page
<1>13. CASE GateAnswered
  BY <1>1, <1>3, <1>13, <1>5 DEF IInv, WebTypes, GateAnswered, web, Maybe
<1>14. CASE GateOpens
  <2>1. gate.answer \in Answers /\ stage.at = "off"
    BY <1>1, <1>2, <1>14 DEF GateOpens, WebTypes, Maybe, Stages
  <2>2. Sound(Now', stage')
    <3> DEFINE s == LoadBundle(Now, gate.answer)
               u == [s EXCEPT !.jobs = @ \cup {Job("init", s.mgr.data, 0, stage.mount + 1)},
                              !.refs = Acquire(@, Files[s.mgr.data])]
    <3>1. Sound(u, [mount |-> stage.mount + 1, at |-> "loading", shown |-> None])
      BY <1>1, <2>1, Mounting
    <3>2. Takes(u) /\ stage' = [mount |-> stage.mount + 1, at |-> "loading", shown |-> None]
      BY <1>14 DEF GateOpens
    <3> HIDE DEF u
    <3> QED
      BY <3>1, <3>2, <1>4, <1>6
  <2>3. WebTypes'
    BY <1>1, <1>8, <1>14 DEF GateOpens, WebTypes, Maybe
  <2>4. Gated'
    BY <1>14 DEF GateOpens
  <2> QED
    BY <2>2, <2>3, <2>4 DEF IInv
<1>15. CASE GateFails
  BY <1>1, <1>15, <1>5 DEF IInv, WebTypes, GateFails, web, Maybe
<1>16. CASE Retry
  BY <1>1, <1>16, <1>5 DEF IInv, WebTypes, Retry, web, Maybe
<1>17. CASE Switch
  <2> DEFINE s == IF stage.at = "on" THEN Unregister(Now) ELSE Now
             u == [s EXCEPT !.refs = Release(@, FilesOf(stage.shown))]
  <2>1. Sound(u, [stage EXCEPT !.at = "off", !.shown = None])
    BY <1>1, Leaving
  <2>2. Takes(u) /\ stage' = [stage EXCEPT !.at = "off", !.shown = None]
    BY <1>17 DEF Switch
  <2> HIDE DEF u
  <2>3. Sound(Now', stage')
    BY <2>1, <2>2, <1>4, <1>6
  <2>4. WebTypes'
    BY <1>1, <1>8, <1>17 DEF Switch, WebTypes, Maybe
  <2>5. Gated'
    BY <1>2, <1>17 DEF Switch, Stages
  <2> QED
    BY <2>3, <2>4, <2>5 DEF IInv
<1>18. CASE StageLoads
  <2>1. PICK j \in jobs : /\ j.kind = "init"
                          /\ IF Mounted(j)
                             THEN /\ Takes(Register(Settle(Now, j), j.mount))
                                  /\ stage' = [stage EXCEPT !.at = "on", !.shown = j.rev]
                             ELSE /\ Takes(Returned(Now, j)) /\ UNCHANGED stage
    BY <1>18 DEF StageLoads, Returned
  <2>2. CASE Mounted(j)
    <3>1. Sound(Register(Settle(Now, j), j.mount), [stage EXCEPT !.at = "on", !.shown = j.rev])
      BY <1>1, <1>2, <2>1, <2>2, Registering DEF Mounted
    <3>2. Sound(Now', stage')
      BY <2>1, <2>2, <3>1, <1>4, <1>6
    <3>3. Gated'
      BY <1>1, <1>2, <1>18, <2>1, <2>2 DEF StageLoads, Stages, Mounted
    <3> QED
      BY <1>1, <1>18, <3>2, <3>3 DEF IInv, WebTypes, StageLoads, web
  <2>3. CASE ~Mounted(j)
    <3>1. Sound(Returned(Now, j), stage)
      BY <1>1, <1>2, <2>1, GivingUp
    <3>2. Sound(Now', stage')
      BY <2>1, <2>3, <3>1, <1>4, <1>6
    <3> QED
      BY <1>1, <1>18, <2>1, <2>3, <3>2 DEF IInv, WebTypes, StageLoads, web
  <2> QED
    BY <2>2, <2>3
<1>19. CASE Draws
  <2>1. PICK j \in jobs : j.kind = "draw" /\ Swap(j, Settle(Now, j))
    BY <1>19 DEF Draws
  <2> DEFINE swaps == Current(j) /\ mgr.renderer = j.mount /\ mgr.adv = j.rev
             u == [Settle(Now, j) EXCEPT !.refs = Release(@, FilesOf(stage.shown)),
                                         !.mgr.status = "synchronized"]
  <2>2. CASE swaps
    <3>1. Sound(u, [stage EXCEPT !.shown = j.rev])
      BY <1>1, <1>2, <2>1, <2>2, Swapping DEF Current
    <3>2. Takes(u) /\ stage' = [stage EXCEPT !.shown = j.rev]
      BY <2>1, <2>2 DEF Swap
    <3> HIDE DEF u
    <3>3. Sound(Now', stage')
      BY <3>1, <3>2, <1>4, <1>6
    <3>4. Gated'
      BY <1>1, <1>2, <1>19, <3>2 DEF Draws, Stages
    <3> QED
      BY <1>1, <1>19, <3>3, <3>4 DEF IInv, WebTypes, Draws, web
  <2>3. CASE ~swaps
    <3>1. Sound(Returned(Now, j), stage)
      BY <1>1, <1>2, <2>1, GivingUp
    <3>2. Takes(Returned(Now, j)) /\ stage' = stage
      BY <2>1, <2>3 DEF Swap, Returned
    <3>3. Sound(Now', stage')
      BY <3>1, <3>2, <1>4, <1>6
    <3> QED
      BY <1>1, <1>19, <3>2, <3>3 DEF IInv, WebTypes, Draws, web
  <2> QED
    BY <2>2, <2>3
<1>20. CASE ArtworkFails
  <2> DEFINE Dies(j) == j.kind = "init" /\ Mounted(j)
  <2>1. PICK j \in jobs :
          /\ j.kind \in {"draw", "init"}
          /\ Takes(IF Dies(j) \/ (j.kind # "init" /\ Current(j))
                   THEN ReportFailure(Returned(Now, j)) ELSE Returned(Now, j))
          /\ stage' = IF Dies(j) THEN [stage EXCEPT !.at = "dead"] ELSE stage
    BY <1>20 DEF ArtworkFails, Returned
  <2>2. Sound(Returned(Now, j), stage) /\ Sound(ReportFailure(Returned(Now, j)), stage)
    BY <1>1, <1>2, <2>1, GivingUp, Failing
  <2>3. CASE Dies(j)
    <3>1. Sound(ReportFailure(Returned(Now, j)), [stage EXCEPT !.at = "dead"])
      BY <1>1, <1>2, <2>3, StageDies DEF Mounted
    <3>2. Sound(Now', stage')
      BY <2>1, <2>3, <3>1, <1>4, <1>6
    <3>3. Gated'
      BY <1>1, <1>2, <1>20, <2>1, <2>3 DEF ArtworkFails, Stages, Mounted
    <3> QED
      BY <1>1, <1>20, <3>2, <3>3 DEF IInv, WebTypes, ArtworkFails, web
  <2>4. CASE ~Dies(j)
    <3>1. Sound(Now', stage')
      BY <2>1, <2>2, <2>4, <1>4, <1>6
    <3> QED
      BY <1>1, <1>20, <2>1, <2>4, <3>1 DEF IInv, WebTypes, ArtworkFails, web
  <2> QED
    BY <2>3, <2>4
<1>21. CASE Fetched
  <2> DEFINE Tick(j) == IF Before(server.kept[j.rev], mgr.tick) THEN mgr.tick ELSE server.kept[j.rev]
             Got(j) == Defined([Settle(Now, j) EXCEPT !.mgr.data = j.rev, !.mgr.tick = Tick(j)])
  <2>1. PICK j \in jobs :
          /\ j.kind = "fetch"
          /\ IF ~Current(j) THEN Takes(Settle(Now, j))
             ELSE Takes(Got(j)) \/ Takes([Got(j) EXCEPT !.mgr.pending = mgr.pending])
    BY <1>21 DEF Fetched
  <2>2. CASE ~Current(j)
    <3>1. Sound(Settle(Now, j), stage)
      BY <1>1, <1>2, <2>1, GivingUp
    <3>2. Sound(Now', stage')
      BY <1>21, <2>1, <2>2, <3>1, <1>4, <1>6 DEF Fetched
    <3> QED
      BY <1>1, <1>21, <3>2 DEF IInv, WebTypes, Fetched, web
  <2>3. CASE Current(j)
    <3>1. Tick(j) \in Maybe(Nat)
      BY <1>1, <1>2 DEF WebTypes, Managers, Work
    <3>2. mgr.pending \in Maybe([rev : Revisions, gen : Nat])
      BY <1>2 DEF Managers
    <3>3. Sound(Got(j), stage) /\ Sound([Got(j) EXCEPT !.mgr.pending = mgr.pending], stage)
      BY <1>1, <1>2, <2>1, <2>3, <3>1, <3>2, Fetching DEF Current
    <3>4. Sound(Now', stage')
      BY <1>21, <2>1, <2>3, <3>3, <1>4, <1>6 DEF Fetched
    <3> QED
      BY <1>1, <1>21, <3>4 DEF IInv, WebTypes, Fetched, web
  <2> QED
    BY <2>2, <2>3
<1>22. CASE FetchFails
  <2>1. PICK j \in jobs :
          /\ j.kind = "fetch"
          /\ Takes(IF Current(j) THEN ReportFailure(Settle(Now, j)) ELSE Settle(Now, j))
    BY <1>22 DEF FetchFails
  <2>2. Sound(Settle(Now, j), stage) /\ Sound(ReportFailure(Settle(Now, j)), stage)
    BY <1>1, <1>2, <2>1, GivingUp, Failing
  <2>3. Sound(Now', stage')
    BY <1>22, <2>1, <2>2, <1>4, <1>6 DEF FetchFails
  <2> QED
    BY <1>1, <1>22, <2>3 DEF IInv, WebTypes, FetchFails, web
<1>23. CASE Opens
  <2>1. asks' \in Seq(Asks)
    <3>1. [gen |-> mgr.gen, answer |-> None] \in Asks
      BY <1>2 DEF Maybe
    <3> QED
      BY <1>7, <1>23, <3>1, AppendProperties DEF Opens
  <2>2. link' \in [at : {"off", "connecting", "open", "ending"}, run : Maybe(Nat),
                   told : Maybe(Revisions), queue : Seq(Messages)]
    <3>1. [kind |-> "snapshot", run |-> server.run] \in Messages /\ server.run \in Maybe(Nat)
      BY <1>1 DEF WebTypes, Messages, Maybe
    <3>2. <<[kind |-> "snapshot", run |-> server.run]>> \in Seq(Messages)
      BY <3>1
    <3> QED
      BY <1>23, <3>1, <3>2 DEF Opens, Maybe
  <2> QED
    BY <1>1, <1>23, <1>5, <2>1, <2>2 DEF IInv, WebTypes, Opens, page
<1>24. CASE Announces
  <2>1. link' \in [at : {"off", "connecting", "open", "ending"}, run : Maybe(Nat),
                   told : Maybe(Revisions), queue : Seq(Messages)]
    <3>1. /\ [kind |-> "content", what |-> Active] \in Messages
          /\ [kind |-> "reset", run |-> server.run] \in Messages /\ Active.rev \in Maybe(Revisions)
      BY <1>1, <1>3 DEF WebTypes, Messages, Maybe, Answers
    <3>2. ASSUME NEW x \in Messages PROVE Append(link.queue, x) \in Seq(Messages)
      BY <1>7, AppendProperties
    <3>3. Append(link.queue, [kind |-> "content", what |-> Active]) \in Seq(Messages)
          /\ Append(link.queue, [kind |-> "reset", run |-> server.run]) \in Seq(Messages)
      BY <3>1, <3>2
    <3> QED
      BY <1>1, <1>24, <3>1, <3>3 DEF Announces, WebTypes
  <2> QED
    BY <1>1, <1>24, <1>5, <2>1 DEF IInv, WebTypes, Announces, page
<1>25. CASE Breaks
  BY <1>1, <1>8, <1>25, <1>5 DEF IInv, WebTypes, Breaks, page
<1>26. CASE Deliver
  <2>1. Head(link.queue) \in Messages /\ Tail(link.queue) \in Seq(Messages)
    BY <1>7, <1>26, HeadTailProperties DEF Deliver
  <2>2. Head(link.queue).kind = "content" => Head(link.queue).what \in Answers
    BY <2>1 DEF Messages
  <2>3. WebTypes'
    <3>1. [link EXCEPT !.queue = Tail(@)] \in
            [at : {"off", "connecting", "open", "ending"}, run : Maybe(Nat),
             told : Maybe(Revisions), queue : Seq(Messages)]
      BY <1>1, <2>1 DEF WebTypes
    <3>2. /\ link' \in {[link EXCEPT !.queue = Tail(@)], [NoLink EXCEPT !.at = "connecting"]}
          /\ asks' \in {asks, <<>>} /\ UNCHANGED <<server, gate>>
      BY <1>26 DEF Deliver
    <3> QED
      BY <1>1, <1>8, <3>1, <3>2 DEF WebTypes
  <2>4. Sound(Now', stage')
    <3>1. Sound(Now, stage) /\ Sound(BeginWorld(Now), stage)
      BY <1>1, WorldBegins
    <3>2. Head(link.queue).kind = "content" => Sound(ValidateAndSync(Now, Head(link.queue).what), stage)
      BY <1>1, <2>2, Advertising
    <3>3. PICK s \in {Now, BeginWorld(Now)}
                     \cup (IF Head(link.queue).kind = "content"
                           THEN {ValidateAndSync(Now, Head(link.queue).what)} ELSE {}) : Takes(s)
      BY <1>26 DEF Deliver
    <3>4. stage' = stage
      BY <1>26 DEF Deliver
    <3>5. Sound(s, stage)
      BY <3>1, <3>2, <3>3
    <3> QED
      BY <3>3, <3>4, <3>5, <1>4, <1>6
  <2> QED
    BY <1>1, <1>26, <2>3, <2>4 DEF IInv, Deliver
<1>27. CASE HandshakeRead
  <2>1. asks' \in Seq(Asks)
    <3>1. PICK i \in DOMAIN asks : asks' = [asks EXCEPT ![i].answer = Active]
      BY <1>27 DEF HandshakeRead
    <3>2. i \in 1..Len(asks) /\ asks[i] \in Asks
      BY <1>9
    <3>3. [asks[i] EXCEPT !.answer = Active] \in Asks
      BY <1>3, <3>2 DEF Maybe
    <3>4. asks' = [asks EXCEPT ![i] = [asks[i] EXCEPT !.answer = Active]]
      BY <3>1
    <3> HIDE DEF Asks
    <3> QED
      BY <1>7, <3>2, <3>3, <3>4, ExceptSeq
  <2> QED
    BY <1>1, <1>27, <1>5, <2>1 DEF IInv, WebTypes, HandshakeRead, page
<1>28. CASE HandshakeAnswered
  <2>1. PICK i \in DOMAIN asks :
          /\ asks[i].answer # None
          /\ asks' = SubSeq(asks, 1, i - 1) \o SubSeq(asks, i + 1, Len(asks))
          /\ Takes(IF HandshakeCounts(asks[i])
                   THEN ValidateAndSync(Now, [asks[i].answer EXCEPT !.tick = None]) ELSE Now)
    BY <1>28 DEF HandshakeAnswered
  <2>2. i \in 1..Len(asks) /\ asks[i] \in Asks /\ Len(asks) \in Nat
    BY <1>9
  <2>3. asks' \in Seq(Asks)
    <3>1. SubSeq(asks, 1, i - 1) \in Seq(Asks)
      <4>1. \A k \in 1..(i - 1) : asks[k] \in Asks
        BY <1>9, <2>2
      <4> HIDE DEF Asks
      <4> QED
        BY <2>2, <4>1, SubSeqProperties
    <3>2. SubSeq(asks, i + 1, Len(asks)) \in Seq(Asks)
      <4>1. \A k \in (i + 1)..Len(asks) : asks[k] \in Asks
        BY <1>9, <2>2
      <4> HIDE DEF Asks
      <4> QED
        BY <2>2, <4>1, SubSeqProperties
    <3> HIDE DEF Asks
    <3> QED
      BY <2>1, <3>1, <3>2, ConcatProperties
  <2>4. [asks[i].answer EXCEPT !.tick = None] \in Answers
    BY <2>1, <2>2 DEF Answers, Maybe
  <2>5. Sound(Now, stage) /\ Sound(ValidateAndSync(Now, [asks[i].answer EXCEPT !.tick = None]), stage)
    BY <1>1, <2>4, Advertising
  <2>6. Sound(Now', stage')
    BY <1>28, <2>1, <2>5, <1>4, <1>6 DEF HandshakeAnswered
  <2> QED
    BY <1>1, <1>28, <2>3, <2>6 DEF IInv, WebTypes, HandshakeAnswered
<1> QED
  BY <1>10, <1>11, <1>12, <1>13, <1>14, <1>15, <1>16, <1>17, <1>18, <1>19, <1>20, <1>21, <1>22, <1>23,
     <1>24, <1>25, <1>26, <1>27, <1>28
     DEF Next, Gate, Loads, Stream, Handshake, Trouble

LEMMA Invariance == Spec => []IInv
<1>1. Init => IInv
  BY InitHolds
<1>2. IInv /\ [Next]_vars => IInv'
  BY NextHolds
<1> QED
  BY <1>1, <1>2, PTL DEF Spec

-----------------------------------------------------------------------------
(* The theorems.                                                            *)

(* Of every bundle of artwork there are as many references as loads under   *)
(* way and a stage that shows it: none is freed while it is drawn, and none *)
(* is kept after the last drawing, or the last stage, has gone.             *)
THEOREM ClientTypeCorrect == Spec => []TypeOK
<1>1. IInv => TypeOK
  <2> SUFFICES ASSUME IInv PROVE TypeOK
    OBVIOUS
  <2>1. WebTypes /\ Sound(Now, stage) /\ Now.jobs = jobs /\ Now.refs = refs /\ Now.mgr = mgr
    BY DEF IInv, Now
  <2>2. mgr \in Managers /\ stage \in Stages
    BY <2>1 DEF Sound, States
  <2>3. ASSUME NEW k \in Bundles
        PROVE  refs[k] = Cardinality({j \in jobs : j.kind # "fetch" /\ k \in Files[j.rev]})
                         + Cardinality(FilesOf(stage.shown) \cap {k})
    <3>1. refs[k] = Cardinality(Holding(jobs, k)) + (IF k \in FilesOf(stage.shown) THEN 1 ELSE 0)
      BY <2>1 DEF Sound, Leased
    <3>2. Cardinality(FilesOf(stage.shown) \cap {k}) = IF k \in FilesOf(stage.shown) THEN 1 ELSE 0
      <4>1. FilesOf(stage.shown) \cap {k} = IF k \in FilesOf(stage.shown) THEN {k} ELSE {}
        OBVIOUS
      <4>2. Cardinality({k}) = 1 /\ Cardinality({}) = 0
        BY FS_Singleton, FS_EmptySet
      <4> QED
        BY <4>1, <4>2
    <3> QED
      BY <3>1, <3>2 DEF Holding
  <2>4. /\ stage.at = "on" => stage.shown # None
        /\ mgr.renderer \in {None, stage.mount}
    BY <2>1 DEF Sound, RendererIsOn
  <2> QED
    BY <2>1, <2>2, <2>3, <2>4 DEF TypeOK, WebTypes, Managers, Stages, Maybe
<1> QED
  BY <1>1, Invariance, PTL

(* When the manager says synchronized, the definitions and the picture are  *)
(* those of the advertised revision, however downloads, drawings and stages *)
(* overtook each other.                                                     *)
THEOREM SynchronizedHolds == Spec => []SynchronizedIsShown
<1>1. IInv => SynchronizedIsShown
  BY DEF IInv, Sound, Now, Synchronized, SynchronizedIsShown
<1> QED
  BY <1>1, Invariance, PTL

=============================================================================
