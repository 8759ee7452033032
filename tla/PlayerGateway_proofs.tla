----------------------- MODULE PlayerGateway_proofs -----------------------
(* Proofs about PlayerGateway, and about BotRunner, for every value of their *)
(* constants.                                                               *)
EXTENDS PlayerGateway, BotRunner, Integers, SequenceTheorems, FiniteSetTheorems, TLAPS

-----------------------------------------------------------------------------
(* Types.                                                                   *)

Maybe(S) == S \cup {None}

Rows == [kind : {"submitted", "lifecycle", "resync", "world_reset"}, cmd : Maybe(Cmds), done : BOOLEAN]

Sessions ==
  [up : BOOLEAN, run : Maybe(Runs), seq : Nat, open : BOOLEAN, snap : BOOLEAN, self : BOOLEAN,
   hand : BOOLEAN, world : Maybe(Runs), met : Maybe(Runs), again : BOOLEAN, marked : BOOLEAN,
   journal : Maybe(Runs), whole : BOOLEAN, cmds : [Cmds -> {"unknown", "live", "done"}],
   early : [Cmds -> Seq(BOOLEAN)], disk : [Runs -> Seq(Rows)], full : BOOLEAN]

Outcomes == [kind : {"lifecycle"}, cmd : Cmds, done : BOOLEAN]
Events == [kind : {"snapshot"}, run : Runs] \cup Outcomes \cup [kind : {"reset"}]

Calls == [fresh : BOOLEAN, opening : BOOLEAN, stage : {"asked", "run read", "answered"},
          run : Maybe(Runs), seq : Nat, active : Maybe(Cmds)]

Posts == [cmd : Maybe(Cmds), stage : {"none", "asked", "accepted", "refused"}]

ScriptKinds == {"none", "scripted", "builder", "agent"}
Stages == {"off", "join", "act", "sending", "changes", "look", "check"}

Players == [kind : ScriptKinds, pc : Stages, run : Maybe(Runs), cursor : Nat, of : Maybe(Runs),
            waits : Maybe(Cmds), ready : BOOLEAN]

(* Only commands that were sent can be met in the game.                     *)
Known == 1..Len(sent)
Heard(es) == \A i \in DOMAIN es : es[i].kind = "lifecycle" => es[i].cmd \in Known

GameTypes ==
  /\ run \in Runs /\ inbox \in Seq(Cmds) /\ seen \in Nat /\ slot \in Maybe(Cmds)
  /\ log \in Seq(Outcomes) /\ life \in Nat /\ troubles \in Nat
  /\ sent \in Seq([run : Runs, seq : Nat, life : Nat]) /\ Len(sent) <= MaxCmds
  /\ over \subseteq Known /\ slot \in Known \cup {None}
  /\ \A i \in DOMAIN inbox : inbox[i] \in Known

SessionTypes ==
  /\ g \in Sessions /\ wire \in Seq(Events) /\ link \in {"off", "on", "ended", "broken"}
  /\ calls \subseteq Calls /\ \A c \in calls : c.stage # "asked" => c.run \in Runs
  /\ post \in Posts /\ (post.stage # "none" => post.cmd \in Known)
  /\ script \in Players

-----------------------------------------------------------------------------
(* The invariant of the session: which run it is in, and what it confirmed. *)

(* A journal is open while a run is followed, the journal of that run. What *)
(* is confirmed is confirmed of that run.                                   *)
OneRun(s) ==
  /\ s.journal = s.run
  /\ s.snap => s.run # None /\ s.world = s.run
  /\ s.hand => s.run # None /\ s.met = s.run /\ s.self

(* A session without a connection either had one or follows no run yet.     *)
Reconnects ==
  /\ ~g.up => calls = {} /\ script = Idle /\ ~g.open /\ ~g.again /\ post.stage = "none"
  /\ ~g.open /\ ~g.again => calls = {} /\ g.run = None
  /\ g.open <=> link # "off"

-----------------------------------------------------------------------------
(* The invariant of the scripts that wait.                                  *)

(* What a reader of run r's journal past a cursor takes for a gap.          *)
Missed(s, cursor, r) ==
  \/ s.run # r
  \/ ~s.whole
  \/ \E i \in DOMAIN s.disk[r] : i > cursor /\ s.disk[r][i] = Resync

Ended(s, cursor, r, c) ==
  \E i \in DOMAIN s.disk[r] : i > cursor /\ s.disk[r][i] = Row("lifecycle", c, TRUE)

Early(s, c) == \E i \in DOMAIN s.early[c] : s.early[c][i] = TRUE

(* The connection does not bring it, but the next one starts with a resync. *)
Cut == ~g.open \/ link # "on" \/ (~g.snap /\ g.again /\ ~g.marked)

Sending(c) == script.pc = "sending" /\ post.cmd = c
Past == IF script.kind = "builder" \/ script.pc = "sending" THEN script.cursor ELSE 0

ScriptsFit ==
  /\ script.of # None => g.self /\ script.cursor <= Len(g.disk[script.of])
  /\ script.pc \in {"off", "join", "sending"} => script.waits = None
  /\ script.pc = "off" <=> script.kind = "none"
  /\ script.pc = "sending" => post.stage # "none" /\ post.cmd \in Known
  /\ script.waits # None => script.waits \in Known

WaitersHear ==
  \A c \in Known : (Sending(c) \/ script.waits = c) /\ script.of = sent[c].run =>
    LET r == script.of IN
    /\ script.waits = c => g.cmds[c] # "unknown" \/ Missed(g, script.cursor, r)
    /\ c \in over =>
         \/ Missed(g, script.cursor, r) \/ Cut \/ OnTheWire(c)
         \/ Ended(g, Past, r, c)
         \/ Sending(c) /\ Early(g, c)

IInv == GameTypes /\ SessionTypes /\ OneRun(g) /\ Reconnects /\ ScriptsFit /\ WaitersHear

-----------------------------------------------------------------------------
(* Journals only grow.                                                      *)

Extended(s, t) ==
  \A r \in Runs :
    /\ Len(s.disk[r]) \in Nat /\ Len(t.disk[r]) \in Nat /\ Len(s.disk[r]) <= Len(t.disk[r])
    /\ DOMAIN s.disk[r] = 1..Len(s.disk[r]) /\ DOMAIN t.disk[r] = 1..Len(t.disk[r])
    /\ \A i \in 1..Len(s.disk[r]) : t.disk[r][i] = s.disk[r][i]

(* Only the journal, and whether it is complete, differ.                    *)
OnlyJournal(s, t) ==
  /\ t.up = s.up /\ t.run = s.run /\ t.seq = s.seq /\ t.open = s.open /\ t.snap = s.snap
  /\ t.self = s.self /\ t.hand = s.hand /\ t.world = s.world /\ t.met = s.met
  /\ t.again = s.again /\ t.marked = s.marked /\ t.journal = s.journal
  /\ t.cmds = s.cmds /\ t.early = s.early /\ t.full = s.full

Written(s, r, rows) == [s EXCEPT !.disk[r] = @ \o rows]

LEMMA Journals ==
  ASSUME NEW s \in Sessions, NEW r \in Runs
  PROVE  /\ s.disk[r] \in Seq(Rows) /\ Len(s.disk[r]) \in Nat
         /\ DOMAIN s.disk[r] = 1..Len(s.disk[r])
<1>1. s.disk[r] \in Seq(Rows)
  BY DEF Sessions
<1> HIDE DEF Rows
<1> QED
  BY <1>1, LenProperties

LEMMA Unchanged ==
  ASSUME NEW s \in Sessions, NEW t \in Sessions, t.disk = s.disk
  PROVE  Extended(s, t)
BY Journals DEF Extended

LEMMA Extending ==
  ASSUME NEW s, NEW t, NEW u, Extended(s, t), Extended(t, u)
  PROVE  Extended(s, u)
<1> SUFFICES ASSUME NEW r \in Runs
             PROVE  /\ Len(s.disk[r]) \in Nat /\ Len(u.disk[r]) \in Nat /\ Len(s.disk[r]) <= Len(u.disk[r])
                    /\ DOMAIN s.disk[r] = 1..Len(s.disk[r]) /\ DOMAIN u.disk[r] = 1..Len(u.disk[r])
                    /\ \A i \in 1..Len(s.disk[r]) : u.disk[r][i] = s.disk[r][i]
  BY DEF Extended
<1>1. /\ Len(s.disk[r]) \in Nat /\ Len(t.disk[r]) \in Nat /\ Len(u.disk[r]) \in Nat
      /\ Len(s.disk[r]) <= Len(t.disk[r]) /\ Len(t.disk[r]) <= Len(u.disk[r])
      /\ DOMAIN s.disk[r] = 1..Len(s.disk[r]) /\ DOMAIN u.disk[r] = 1..Len(u.disk[r])
      /\ \A i \in 1..Len(s.disk[r]) : t.disk[r][i] = s.disk[r][i]
      /\ \A i \in 1..Len(t.disk[r]) : u.disk[r][i] = t.disk[r][i]
  BY DEF Extended
<1> QED
  BY <1>1, SMTT(30)

LEMMA Writing ==
  ASSUME NEW s \in Sessions, NEW r \in Runs, NEW rows \in Seq(Rows)
  PROVE  LET t == Written(s, r, rows) IN
         /\ t \in Sessions /\ OnlyJournal(s, t) /\ t.whole = s.whole /\ Extended(s, t)
         /\ \A k \in DOMAIN rows : \E i \in DOMAIN t.disk[r] :
              i > Len(s.disk[r]) /\ t.disk[r][i] = rows[k]
<1> DEFINE t == Written(s, r, rows)
           new == s.disk[r] \o rows
<1>1. s.disk[r] \in Seq(Rows) /\ s.disk \in [Runs -> Seq(Rows)]
  BY DEF Sessions
<1>2. /\ new \in Seq(Rows) /\ Len(new) = Len(s.disk[r]) + Len(rows)
      /\ Len(rows) \in Nat /\ DOMAIN rows = 1..Len(rows)
      /\ Len(new) \in Nat /\ DOMAIN new = 1..Len(new)
      /\ \A i \in 1..Len(s.disk[r]) + Len(rows) :
           new[i] = IF i <= Len(s.disk[r]) THEN s.disk[r][i] ELSE rows[i - Len(s.disk[r])]
  <2> HIDE DEF Rows
  <2>1. /\ new \in Seq(Rows) /\ Len(new) = Len(s.disk[r]) + Len(rows)
        /\ \A i \in 1..Len(s.disk[r]) + Len(rows) :
             new[i] = IF i <= Len(s.disk[r]) THEN s.disk[r][i] ELSE rows[i - Len(s.disk[r])]
    BY <1>1, ConcatProperties
  <2>2. Len(rows) \in Nat /\ DOMAIN rows = 1..Len(rows)
    BY LenProperties
  <2> HIDE DEF new
  <2>3. Len(new) \in Nat /\ DOMAIN new = 1..Len(new)
    BY <2>1, LenProperties
  <2> QED
    BY <2>1, <2>2, <2>3
<1> HIDE DEF new
<1>3. [s.disk EXCEPT ![r] = new] \in [Runs -> Seq(Rows)]
  BY <1>1, <1>2
<1>4. t = [s EXCEPT !.disk = [s.disk EXCEPT ![r] = new]]
  BY DEF Written, new
<1>5. t \in Sessions
  BY <1>3, <1>4, Zenon DEF Sessions
<1>6. OnlyJournal(s, t) /\ t.whole = s.whole /\ t.disk = [s.disk EXCEPT ![r] = new]
  BY <1>4 DEF Sessions, OnlyJournal
<1> HIDE DEF t
<1>7. t.disk[r] = new /\ \A q \in Runs : q # r => t.disk[q] = s.disk[q]
  BY <1>1, <1>6
<1>8. \A q \in Runs : Len(s.disk[q]) \in Nat /\ DOMAIN s.disk[q] = 1..Len(s.disk[q])
  BY Journals
<1>9. Extended(s, t)
  <2> SUFFICES ASSUME NEW q \in Runs
               PROVE  /\ Len(t.disk[q]) \in Nat /\ Len(s.disk[q]) <= Len(t.disk[q])
                      /\ DOMAIN t.disk[q] = 1..Len(t.disk[q])
                      /\ \A i \in 1..Len(s.disk[q]) : t.disk[q][i] = s.disk[q][i]
    BY <1>8 DEF Extended
  <2>1. CASE q = r
    <3>1. Len(s.disk[r]) \in Nat /\ t.disk[q] = new
      BY <1>7, <1>8, <2>1
    <3>2. Len(s.disk[q]) <= Len(new)
      BY <1>2, <2>1, <3>1
    <3>3. \A i \in 1..Len(s.disk[q]) : new[i] = s.disk[q][i]
      BY <1>2, <2>1, <3>1
    <3> QED
      BY <1>2, <3>1, <3>2, <3>3
  <2>2. CASE q # r
    <3>1. t.disk[q] = s.disk[q] /\ Len(s.disk[q]) \in Nat /\ DOMAIN s.disk[q] = 1..Len(s.disk[q])
      BY <1>7, <1>8, <2>2
    <3> QED
      BY <3>1
  <2> QED
    BY <2>1, <2>2
<1>10. ASSUME NEW k \in DOMAIN rows
       PROVE  \E i \in DOMAIN t.disk[r] : i > Len(s.disk[r]) /\ t.disk[r][i] = rows[k]
  <2>1. Len(s.disk[r]) \in Nat /\ k \in 1..Len(rows)
    BY <1>2, <1>8
  <2>2. /\ Len(s.disk[r]) + k \in 1..Len(new) /\ Len(s.disk[r]) + k > Len(s.disk[r])
        /\ new[Len(s.disk[r]) + k] = rows[k]
    <3> DEFINE n == Len(s.disk[r])
    <3>1. n \in Nat /\ Len(rows) \in Nat /\ k \in Nat /\ 1 <= k /\ k <= Len(rows) /\ Len(new) = n + Len(rows)
      BY <1>2, <2>1
    <3>2. \A i \in 1..(n + Len(rows)) : new[i] = IF i <= n THEN s.disk[r][i] ELSE rows[i - n]
      BY <1>2
    <3> HIDE DEF n
    <3>3. n + k \in 1..(n + Len(rows)) /\ n + k > n /\ (n + k) - n = k /\ ~(n + k <= n)
      BY <3>1
    <3>4. new[n + k] = rows[(n + k) - n]
      BY <3>2, <3>3
    <3>5. new[n + k] = rows[k] /\ n + k \in 1..Len(new) /\ n + k > n
      BY <3>1, <3>3, <3>4
    <3> QED
      BY <3>5 DEF n
  <2> QED
    BY <1>2, <1>7, <2>2
<1> QED
  BY <1>5, <1>6, <1>9, <1>10 DEF t

(* What was missed stays missed, what is recorded stays recorded.           *)
LEMMA Lasting ==
  ASSUME NEW s \in Sessions, NEW t \in Sessions, Extended(s, t), NEW r \in Runs, NEW n \in Nat
  PROVE  /\ \A c : Ended(s, n, r, c) => Ended(t, n, r, c)
         /\ t.run = s.run /\ (s.whole = FALSE => t.whole = FALSE) =>
              (Missed(s, n, r) => Missed(t, n, r))
<1>1. /\ Len(s.disk[r]) \in Nat /\ Len(t.disk[r]) \in Nat /\ Len(s.disk[r]) <= Len(t.disk[r])
      /\ DOMAIN s.disk[r] = 1..Len(s.disk[r]) /\ DOMAIN t.disk[r] = 1..Len(t.disk[r])
      /\ \A i \in 1..Len(s.disk[r]) : t.disk[r][i] = s.disk[r][i]
  BY DEF Extended
<1>2. \A i \in DOMAIN s.disk[r] : i \in DOMAIN t.disk[r] /\ t.disk[r][i] = s.disk[r][i]
  BY <1>1
<1>3. s.whole \in BOOLEAN /\ t.whole \in BOOLEAN
  BY DEF Sessions
<1> QED
  BY <1>2, <1>3 DEF Ended, Missed

(* Rows are appended to the journal of the run, or something is missed.     *)
LEMMA Appending ==
  ASSUME NEW s \in Sessions, s.journal = s.run, NEW rows \in Seq(Rows)
  PROVE  LET t == AppendChanges(s, rows) IN
         /\ t \in Sessions /\ OnlyJournal(s, t) /\ Extended(s, t)
         /\ \A r \in Runs, n \in Nat :
              /\ Missed(s, n, r) => Missed(t, n, r)
              /\ n <= Len(s.disk[r]) => \A k \in DOMAIN rows :
                   \/ Missed(t, n, r)
                   \/ \E i \in DOMAIN t.disk[r] : i > n /\ t.disk[r][i] = rows[k]
<1> DEFINE t == AppendChanges(s, rows)
<1>1. CASE s.run = None \/ rows = <<>>
  <2>1. t = s
    BY <1>1 DEF AppendChanges
  <2>2. \A r \in Runs : r # None
    BY GatewayAssumption DEF Runs
  <2>3. s.run = None => \A r \in Runs, n \in Nat : Missed(s, n, r)
    BY <2>2 DEF Missed
  <2>4. DOMAIN (<<>>) = {}
    OBVIOUS
  <2>5. Extended(s, s) /\ OnlyJournal(s, s)
    BY Unchanged DEF OnlyJournal
  <2> QED
    BY <1>1, <2>1, <2>3, <2>4, <2>5
<1>2. CASE ~(s.run = None \/ rows = <<>>) /\ s.full
  <2>1. t = [s EXCEPT !.whole = FALSE]
    BY <1>2 DEF AppendChanges
  <2>2. t \in Sessions /\ OnlyJournal(s, t) /\ t.whole = FALSE /\ t.disk = s.disk
    BY <2>1 DEF Sessions, OnlyJournal
  <2> HIDE DEF t
  <2>3. Extended(s, t) /\ \A r \in Runs, n \in Nat : Missed(t, n, r)
    BY <2>2, Unchanged DEF Missed
  <2> QED
    BY <2>2, <2>3 DEF t
<1>3. CASE ~(s.run = None \/ rows = <<>>) /\ ~s.full
  <2>1. s.run \in Runs
    BY <1>3 DEF Sessions, Maybe
  <2>2. t = Written(s, s.run, rows)
    BY <1>3 DEF AppendChanges, Written
  <2>3. /\ t \in Sessions /\ OnlyJournal(s, t) /\ t.whole = s.whole /\ Extended(s, t)
        /\ \A k \in DOMAIN rows : \E i \in DOMAIN t.disk[s.run] :
             i > Len(s.disk[s.run]) /\ t.disk[s.run][i] = rows[k]
    BY <2>1, <2>2, Writing
  <2>4. t.run = s.run
    BY <2>3 DEF OnlyJournal
  <2> HIDE DEF t
  <2>5. ASSUME NEW r \in Runs, NEW n \in Nat
        PROVE  /\ Missed(s, n, r) => Missed(t, n, r)
               /\ n <= Len(s.disk[r]) => \A k \in DOMAIN rows :
                    \/ Missed(t, n, r)
                    \/ \E i \in DOMAIN t.disk[r] : i > n /\ t.disk[r][i] = rows[k]
    <3>1. Missed(s, n, r) => Missed(t, n, r)
      BY <2>3, <2>4, Lasting
    <3>2. CASE r # s.run
      BY <2>4, <3>1, <3>2 DEF Missed
    <3>3. ASSUME r = s.run, n <= Len(s.disk[r]), NEW k \in DOMAIN rows
          PROVE  \E i \in DOMAIN t.disk[r] : i > n /\ t.disk[r][i] = rows[k]
      <4>1. PICK i \in DOMAIN t.disk[r] : i > Len(s.disk[r]) /\ t.disk[r][i] = rows[k]
        BY <2>3, <3>3
      <4>2. Len(s.disk[r]) \in Nat /\ DOMAIN t.disk[r] = 1..Len(t.disk[r])
        BY <2>3, Journals
      <4>3. i > n
        BY <3>3, <4>1, <4>2
      <4> QED
        BY <4>1, <4>3
    <3> QED
      BY <3>1, <3>2, <3>3
  <2> QED
    BY <2>3, <2>5 DEF t
<1> QED
  BY <1>1, <1>2, <1>3
-----------------------------------------------------------------------------
(* What each event, answer and call of a script does to the session.        *)

(* A step of the session: journals grow, and for a reader of any run's      *)
(* journal either something was missed, or what is known stays known.       *)
Follows(s, t) ==
  /\ t \in Sessions /\ OneRun(t) /\ Extended(s, t)
  /\ t.up = s.up /\ t.open = s.open /\ t.again = s.again /\ (s.self => t.self)
  /\ \A r \in Runs, n \in Nat : n <= Len(s.disk[r]) =>
       /\ Missed(s, n, r) => Missed(t, n, r)
       /\ Missed(t, n, r) \/ \A c \in Cmds : s.cmds[c] # "unknown" => t.cmds[c] # "unknown"

KeepsEarly(s, t) ==
  \A r \in Runs, n \in Nat : n <= Len(s.disk[r]) =>
    Missed(t, n, r) \/ \A c \in Cmds : Early(s, c) => Early(t, c)

(* Some run's journal is opened, if it was not.                             *)
LEMMA Opening ==
  ASSUME NEW s \in Sessions, s.journal = s.run, NEW r \in Runs
  PROVE  LET t == EnsureJournal(s, r) IN
         /\ t \in Sessions /\ t.journal = r /\ Extended(s, t)
         /\ t.up = s.up /\ t.run = s.run /\ t.seq = s.seq /\ t.open = s.open /\ t.snap = s.snap
         /\ t.self = s.self /\ t.hand = s.hand /\ t.world = s.world /\ t.met = s.met
         /\ t.again = s.again /\ t.marked = s.marked
         /\ s.run = r => t = s
         /\ s.run # r => \A n \in Nat : n <= Len(s.disk[r]) =>
              ~t.whole \/ \E i \in DOMAIN t.disk[r] : i > n /\ t.disk[r][i] = Resync
<1>1. CASE s.run = r
  <2>1. EnsureJournal(s, r) = s
    BY <1>1, GatewayAssumption DEF EnsureJournal, Runs
  <2> QED
    BY <1>1, <2>1, Unchanged
<1>2. CASE s.run # r
  <2> DEFINE a == [s EXCEPT !.cmds = NoSession.cmds, !.early = NoSession.early, !.journal = None,
                            !.whole = TRUE]
             said == [c \in Cmds |-> LET x == Recorded(a.disk[r], c) IN
                                     IF x = "unknown" THEN a.cmds[c] ELSE x]
             b == [a EXCEPT !.journal = r, !.cmds = said]
             t == EnsureJournal(s, r)
  <2>1. NoSession.cmds \in [Cmds -> {"unknown", "live", "done"}] /\ NoSession.early \in [Cmds -> Seq(BOOLEAN)]
    BY DEF NoSession
  <2>2. /\ a \in Sessions /\ a.cmds = NoSession.cmds /\ a.journal = None /\ a.disk = s.disk
        /\ a.up = s.up /\ a.run = s.run /\ a.seq = s.seq /\ a.open = s.open /\ a.snap = s.snap
        /\ a.self = s.self /\ a.hand = s.hand /\ a.world = s.world /\ a.met = s.met
        /\ a.again = s.again /\ a.marked = s.marked /\ a.full = s.full
    BY <2>1 DEF Sessions, Maybe
  <2> HIDE DEF a
  <2>3. said \in [Cmds -> {"unknown", "live", "done"}]
    <3>1. \A c \in Cmds : Recorded(a.disk[r], c) \in {"unknown", "live", "done"}
      BY DEF Recorded, Status
    <3> QED
      BY <2>1, <2>2, <3>1
  <2> HIDE DEF said
  <2>4. /\ b \in Sessions /\ b.journal = r /\ b.disk = s.disk
        /\ b.up = s.up /\ b.run = s.run /\ b.seq = s.seq /\ b.open = s.open /\ b.snap = s.snap
        /\ b.self = s.self /\ b.hand = s.hand /\ b.world = s.world /\ b.met = s.met
        /\ b.again = s.again /\ b.marked = s.marked
    BY <2>2, <2>3 DEF Sessions, Maybe
  <2>5. t = IF s.full THEN [b EXCEPT !.whole = FALSE] ELSE [b EXCEPT !.disk[r] = Append(@, Resync)]
    BY <1>2, <2>2 DEF EnsureJournal, a, said
  <2> HIDE DEF b, t
  <2>6. CASE s.full
    <3>1. /\ t \in Sessions /\ t.journal = r /\ t.disk = s.disk /\ t.whole = FALSE
          /\ t.up = s.up /\ t.run = s.run /\ t.seq = s.seq /\ t.open = s.open /\ t.snap = s.snap
          /\ t.self = s.self /\ t.hand = s.hand /\ t.world = s.world /\ t.met = s.met
          /\ t.again = s.again /\ t.marked = s.marked
      BY <2>4, <2>5, <2>6 DEF Sessions
    <3> QED
      BY <1>2, <3>1, Unchanged DEF t
  <2>7. CASE ~s.full
    <3> DEFINE one == <<Resync>>
    <3>1. one \in Seq(Rows) /\ Resync \in Rows
      BY DEF Rows, Resync, Row, Maybe
    <3>2. b.disk[r] \in Seq(Rows)
      BY <2>4 DEF Sessions
    <3>3. Append(b.disk[r], Resync) = b.disk[r] \o one
      <4> HIDE DEF Rows, Resync
      <4> QED
        BY <3>1, <3>2, AppendIsConcat
    <3>6. 1 \in DOMAIN one /\ one[1] = Resync
      OBVIOUS
    <3> HIDE DEF one
    <3>4. t = Written(b, r, one)
      BY <2>5, <2>7, <3>3 DEF Written
    <3>5. /\ t \in Sessions /\ OnlyJournal(b, t) /\ Extended(b, t)
          /\ \A k \in DOMAIN one : \E i \in DOMAIN t.disk[r] :
               i > Len(b.disk[r]) /\ t.disk[r][i] = one[k]
      BY <2>4, <3>1, <3>4, Writing
    <3>7. PICK i \in DOMAIN t.disk[r] : i > Len(s.disk[r]) /\ t.disk[r][i] = Resync
      BY <2>4, <3>5, <3>6
    <3>8. Len(s.disk[r]) \in Nat /\ i \in Nat
      BY <3>5, Journals
    <3>9. \A n \in Nat : n <= Len(s.disk[r]) => i > n
      BY <3>7, <3>8
    <3>10. Extended(s, t)
      BY <2>4, <3>5 DEF Extended
    <3> QED
      BY <1>2, <2>4, <3>5, <3>7, <3>9, <3>10 DEF t, OnlyJournal
  <2> QED
    BY <2>6, <2>7
<1> QED
  BY <1>1, <1>2

(* A session enters a run: another one's readers have missed something, and *)
(* so have this one's unless it was followed before.                        *)
LEMMA Entering ==
  ASSUME NEW s \in Sessions, s.journal = s.run, NEW r \in Runs,
         NEW u \in Sessions, u.run = r, u.disk = EnsureJournal(s, r).disk,
         u.whole = EnsureJournal(s, r).whole,
         NEW q \in Runs, NEW n \in Nat, n <= Len(s.disk[q])
  PROVE  /\ Missed(s, n, q) => Missed(u, n, q)
         /\ s.run = r \/ Missed(u, n, q)
<1> DEFINE t == EnsureJournal(s, r)
<1>1. /\ s.run = r => t = s
      /\ s.run # r => \A m \in Nat : m <= Len(s.disk[r]) =>
              ~t.whole \/ \E i \in DOMAIN t.disk[r] : i > m /\ t.disk[r][i] = Resync
  BY Opening
<1> HIDE DEF t
<1>2. u.disk = t.disk /\ u.whole = t.whole
  BY DEF t
<1>3. CASE s.run = r
  BY <1>1, <1>2, <1>3 DEF Missed
<1>4. CASE s.run # r /\ q = r
  BY <1>1, <1>2, <1>4 DEF Missed
<1>5. CASE q # r
  BY <1>5 DEF Missed
<1> QED
  BY <1>3, <1>4, <1>5

LEMMA Outcome ==
  ASSUME NEW s \in Sessions, OneRun(s), NEW c \in Cmds, NEW done \in BOOLEAN
  PROVE  LET t == ApplyLifecycle(s, c, done) IN
         /\ Follows(s, t) /\ KeepsEarly(s, t) /\ t.snap = s.snap /\ t.marked = s.marked
         /\ done => \A r \in Runs, n \in Nat : n <= Len(s.disk[r]) =>
              \/ Missed(t, n, r) \/ Ended(t, n, r, c)
              \/ s.cmds[c] = "unknown" /\ Early(t, c)
<1> DEFINE t == ApplyLifecycle(s, c, done)
<1>1. CASE s.cmds[c] = "unknown"
  <2> DEFINE e == Append(s.early[c], done)
  <2>1. s.early[c] \in Seq(BOOLEAN) /\ s.early \in [Cmds -> Seq(BOOLEAN)]
    BY DEF Sessions
  <2>2. /\ e \in Seq(BOOLEAN) /\ Len(e) = Len(s.early[c]) + 1 /\ e[Len(s.early[c]) + 1] = done
        /\ \A i \in 1..Len(s.early[c]) : e[i] = s.early[c][i]
        /\ Len(s.early[c]) \in Nat /\ DOMAIN s.early[c] = 1..Len(s.early[c]) /\ DOMAIN e = 1..Len(e)
    BY <2>1, AppendProperties, LenProperties
  <2> HIDE DEF e
  <2>3. [s.early EXCEPT ![c] = e] \in [Cmds -> Seq(BOOLEAN)]
    BY <2>1, <2>2
  <2>4. t = [s EXCEPT !.early = [s.early EXCEPT ![c] = e]]
    BY <1>1 DEF ApplyLifecycle, e
  <2>5. /\ t \in Sessions /\ t.early = [s.early EXCEPT ![c] = e]
        /\ t.up = s.up /\ t.run = s.run /\ t.seq = s.seq /\ t.open = s.open /\ t.snap = s.snap
        /\ t.self = s.self /\ t.hand = s.hand /\ t.world = s.world /\ t.met = s.met
        /\ t.again = s.again /\ t.marked = s.marked /\ t.journal = s.journal
        /\ t.cmds = s.cmds /\ t.full = s.full /\ t.whole = s.whole /\ t.disk = s.disk
    BY <2>3, <2>4 DEF Sessions
  <2> HIDE DEF t
  <2>6. Extended(s, t) /\ OneRun(t)
    BY <2>5, Unchanged DEF OneRun
  <2>7. \A r, n : Missed(s, n, r) => Missed(t, n, r)
    BY <2>5 DEF Missed
  <2>8. ASSUME NEW d \in Cmds, Early(s, d) PROVE Early(t, d)
    <3>1. CASE d # c
      <4>1. t.early[d] = s.early[d]
        BY <2>1, <2>5, <3>1
      <4> QED
        BY <2>8, <4>1 DEF Early
    <3>2. CASE d = c
      <4>1. t.early[c] = e
        BY <2>1, <2>5
      <4>2. PICK i \in DOMAIN s.early[c] : s.early[c][i] = TRUE
        BY <2>8, <3>2 DEF Early
      <4>3. i \in DOMAIN e /\ e[i] = TRUE
        BY <2>2, <4>2
      <4> QED
        BY <3>2, <4>1, <4>3 DEF Early
    <3> QED
      BY <3>1, <3>2
  <2>9. done => Early(t, c)
    <3>1. t.early[c] = e
      BY <2>1, <2>5
    <3>2. Len(s.early[c]) + 1 \in DOMAIN e
      BY <2>2
    <3>3. done => e[Len(s.early[c]) + 1] = TRUE
      BY <2>2
    <3> QED
      BY <3>1, <3>2, <3>3 DEF Early
  <2> QED
    BY <1>1, <2>5, <2>6, <2>7, <2>8, <2>9 DEF Follows, KeepsEarly, t
<1>2. CASE s.cmds[c] # "unknown"
  <2> DEFINE a == [s EXCEPT !.cmds[c] = Status(done)]
             row == Row("lifecycle", c, done)
             one == <<row>>
  <2>1. s.cmds \in [Cmds -> {"unknown", "live", "done"}] /\ Status(done) \in {"live", "done"}
    BY DEF Sessions, Status
  <2>2. /\ a \in Sessions /\ a.cmds = [s.cmds EXCEPT ![c] = Status(done)]
        /\ a.up = s.up /\ a.run = s.run /\ a.seq = s.seq /\ a.open = s.open /\ a.snap = s.snap
        /\ a.self = s.self /\ a.hand = s.hand /\ a.world = s.world /\ a.met = s.met
        /\ a.again = s.again /\ a.marked = s.marked /\ a.journal = s.journal
        /\ a.early = s.early /\ a.full = s.full /\ a.whole = s.whole /\ a.disk = s.disk
    BY <2>1 DEF Sessions
  <2>3. \A d \in Cmds : s.cmds[d] # "unknown" => a.cmds[d] # "unknown"
    BY <2>1, <2>2
  <2>4. one \in Seq(Rows) /\ 1 \in DOMAIN one /\ one[1] = row
    BY DEF Rows, Row, Maybe
  <2>5. t = AppendChanges(a, one)
    BY <1>2 DEF ApplyLifecycle, AppendChange
  <2> HIDE DEF a, row, one
  <2>6. /\ t \in Sessions /\ OnlyJournal(a, t) /\ Extended(a, t)
        /\ \A r \in Runs, n \in Nat :
              /\ Missed(a, n, r) => Missed(t, n, r)
              /\ n <= Len(a.disk[r]) => \A k \in DOMAIN one :
                   \/ Missed(t, n, r)
                   \/ \E i \in DOMAIN t.disk[r] : i > n /\ t.disk[r][i] = one[k]
    BY <2>2, <2>4, <2>5, Appending DEF OneRun
  <2> HIDE DEF t
  <2>7. Extended(s, t)
    BY <2>2, <2>6 DEF Extended
  <2>8. OneRun(t)
    BY <2>2, <2>6 DEF OneRun, OnlyJournal
  <2>9. \A r, n : Missed(s, n, r) => Missed(a, n, r)
    BY <2>2 DEF Missed
  <2>10. \A d \in Cmds : /\ s.cmds[d] # "unknown" => t.cmds[d] # "unknown"
                         /\ Early(s, d) => Early(t, d)
    BY <2>2, <2>3, <2>6 DEF OnlyJournal, Early
  <2>11. ASSUME NEW r \in Runs, NEW n \in Nat, n <= Len(s.disk[r]), done
         PROVE  Missed(t, n, r) \/ Ended(t, n, r, c)
    <3>1. row = Row("lifecycle", c, TRUE)
      BY <2>11 DEF row
    <3>2. n <= Len(a.disk[r])
      BY <2>2, <2>11
    <3>3. Missed(t, n, r) \/ \E i \in DOMAIN t.disk[r] : i > n /\ t.disk[r][i] = one[1]
      BY <2>4, <2>6, <3>2
    <3> QED
      BY <2>4, <3>1, <3>3 DEF Ended
  <2> QED
    BY <2>2, <2>6, <2>7, <2>8, <2>9, <2>10, <2>11 DEF Follows, KeepsEarly, t, OnlyJournal
<1> QED
  BY <1>1, <1>2
LEMMA RunsAreNotNone == \A r \in Runs : r # None
BY GatewayAssumption DEF Runs

(* A snapshot: of another run, or the first of a connection opened again,   *)
(* it leaves a gap.                                                         *)
LEMMA Snapshot ==
  ASSUME NEW s \in Sessions, OneRun(s), NEW r \in Runs
  PROVE  LET t == AcceptSnapshot(s, r) IN
         /\ Follows(s, t) /\ KeepsEarly(s, t)
         /\ s.again /\ ~s.marked => \A q \in Runs, n \in Nat : n <= Len(s.disk[q]) => Missed(t, n, q)
<1> DEFINE a == IF NewRun(s, r) THEN [s EXCEPT !.hand = FALSE, !.seq = 0] ELSE s
           b == EnsureJournal(a, r)
           u == [b EXCEPT !.run = r]
           one == <<Resync>>
           w == AppendChanges(u, one)
           v == IF u.again /\ ~u.marked THEN [w EXCEPT !.marked = TRUE] ELSE u
           t == [v EXCEPT !.snap = TRUE, !.world = r]
<1> USE RunsAreNotNone
<1>1. /\ a \in Sessions /\ a.hand \in BOOLEAN /\ (a.hand => s.hand /\ ~NewRun(s, r))
      /\ a.up = s.up /\ a.run = s.run /\ a.open = s.open /\ a.snap = s.snap
      /\ a.self = s.self /\ a.world = s.world /\ a.met = s.met
      /\ a.again = s.again /\ a.marked = s.marked /\ a.journal = s.journal /\ a.whole = s.whole
      /\ a.cmds = s.cmds /\ a.early = s.early /\ a.disk = s.disk
  <2>1. PICK x : x = [s EXCEPT !.hand = FALSE, !.seq = 0]
    OBVIOUS
  <2>2. x \in Sessions
    BY <2>1 DEF Sessions
  <2>3. /\ x.hand = FALSE /\ x.up = s.up /\ x.run = s.run /\ x.open = s.open /\ x.snap = s.snap
        /\ x.self = s.self /\ x.world = s.world /\ x.met = s.met
        /\ x.again = s.again /\ x.marked = s.marked /\ x.journal = s.journal /\ x.whole = s.whole
        /\ x.cmds = s.cmds /\ x.early = s.early /\ x.disk = s.disk
    BY <2>1 DEF Sessions
  <2>4. s.hand \in BOOLEAN
    BY DEF Sessions
  <2>5. CASE NewRun(s, r)
    BY <2>1, <2>2, <2>3, <2>5
  <2>6. CASE ~NewRun(s, r)
    BY <2>4, <2>6
  <2> QED BY <2>5, <2>6
<1> HIDE DEF a
<1>2. /\ b \in Sessions /\ b.journal = r /\ Extended(a, b)
      /\ b.up = a.up /\ b.run = a.run /\ b.open = a.open
      /\ b.self = a.self /\ b.hand = a.hand /\ b.met = a.met
      /\ b.again = a.again /\ b.marked = a.marked
      /\ a.run = r => b = a
  BY <1>1, Opening DEF OneRun
<1> HIDE DEF b
<1>3. /\ u \in Sessions /\ u.journal = r /\ u.run = r /\ u.disk = b.disk /\ u.whole = b.whole
      /\ u.up = s.up /\ u.open = s.open /\ u.self = s.self /\ u.hand = a.hand /\ u.met = s.met
      /\ u.again = s.again /\ u.marked = s.marked /\ u.cmds = b.cmds /\ u.early = b.early
  <2>1. r \in Maybe(Runs)
    BY DEF Maybe
  <2>2. u \in Sessions
    BY <1>2, <2>1, Zenon DEF Sessions
  <2>3. /\ u.journal = b.journal /\ u.run = r /\ u.disk = b.disk /\ u.whole = b.whole
        /\ u.up = b.up /\ u.open = b.open /\ u.self = b.self /\ u.hand = b.hand /\ u.met = b.met
        /\ u.again = b.again /\ u.marked = b.marked /\ u.cmds = b.cmds /\ u.early = b.early
    BY <1>2, <2>2 DEF Sessions
  <2> HIDE DEF u
  <2> QED
    BY <1>1, <1>2, <2>2, <2>3
<1> HIDE DEF u
<1>4. ASSUME NEW q \in Runs, NEW n \in Nat, n <= Len(s.disk[q])
      PROVE  /\ Missed(s, n, q) => Missed(u, n, q)
             /\ s.run = r \/ Missed(u, n, q)
  <2>1. Missed(a, n, q) = Missed(s, n, q)
    BY <1>1 DEF Missed
  <2>2. u.disk = EnsureJournal(a, r).disk /\ u.whole = EnsureJournal(a, r).whole
    BY <1>3 DEF b
  <2>3. a.journal = a.run /\ n <= Len(a.disk[q])
    BY <1>1, <1>4 DEF OneRun
  <2>4. /\ Missed(a, n, q) => Missed(u, n, q)
        /\ a.run = r \/ Missed(u, n, q)
    BY <1>1, <1>3, <2>2, <2>3, Entering
  <2> QED
    BY <1>1, <2>1, <2>4
<1>5. one \in Seq(Rows) /\ 1 \in DOMAIN one /\ one[1] = Resync
  BY DEF Rows, Resync, Row, Maybe
<1> HIDE DEF one
<1>6. /\ w \in Sessions /\ OnlyJournal(u, w) /\ Extended(u, w)
      /\ \A q \in Runs, n \in Nat :
           /\ Missed(u, n, q) => Missed(w, n, q)
           /\ n <= Len(u.disk[q]) => \A k \in DOMAIN one :
                \/ Missed(w, n, q)
                \/ \E i \in DOMAIN w.disk[q] : i > n /\ w.disk[q][i] = one[k]
  BY <1>3, <1>5, Appending
<1> HIDE DEF w
<1>7. /\ v \in Sessions /\ v.journal = r /\ v.run = r
      /\ v.up = s.up /\ v.open = s.open /\ v.self = s.self /\ v.hand = a.hand /\ v.met = s.met
      /\ v.again = s.again /\ v.cmds = b.cmds /\ v.early = b.early
      /\ v.disk = (IF u.again /\ ~u.marked THEN w ELSE u).disk
      /\ v.whole = (IF u.again /\ ~u.marked THEN w ELSE u).whole
  <2>1. CASE u.again /\ ~u.marked
    <3>1. v = [w EXCEPT !.marked = TRUE]
      BY <2>1
    <3>2. v \in Sessions
      BY <1>6, <3>1, Zenon DEF Sessions
    <3>3. /\ v.journal = w.journal /\ v.run = w.run /\ v.up = w.up /\ v.open = w.open
          /\ v.self = w.self /\ v.hand = w.hand /\ v.met = w.met /\ v.again = w.again
          /\ v.cmds = w.cmds /\ v.early = w.early /\ v.disk = w.disk /\ v.whole = w.whole
      BY <1>6, <3>1, <3>2 DEF Sessions
    <3> HIDE DEF v
    <3> QED
      BY <1>3, <1>6, <2>1, <3>2, <3>3 DEF OnlyJournal
  <2>2. CASE ~(u.again /\ ~u.marked)
    BY <1>3, <2>2
  <2> QED
    BY <2>1, <2>2
<1> HIDE DEF v
<1>8. /\ t \in Sessions /\ t.journal = r /\ t.run = r /\ t.snap = TRUE /\ t.world = r
      /\ t.up = s.up /\ t.open = s.open /\ t.self = s.self /\ t.hand = a.hand /\ t.met = s.met
      /\ t.again = s.again /\ t.cmds = b.cmds /\ t.early = b.early
      /\ t.disk = v.disk /\ t.whole = v.whole
  BY <1>7 DEF Sessions, Maybe
<1> HIDE DEF t
<1>9. OneRun(t)
  BY <1>1, <1>8 DEF OneRun, NewRun
<1>10. Extended(s, t)
  <2>1. Extended(s, u)
    BY <1>1, <1>2, <1>3 DEF Extended
  <2>2. Extended(u, t)
    <3>1. CASE u.again /\ ~u.marked
      BY <1>6, <1>7, <1>8, <3>1 DEF Extended
    <3>2. CASE ~(u.again /\ ~u.marked)
      BY <1>3, <1>7, <1>8, <3>2, Unchanged
    <3> QED
      BY <3>1, <3>2
  <2> QED
    BY <2>1, <2>2, Extending
<1>11. \A q \in Runs, n \in Nat : Missed(u, n, q) => Missed(t, n, q)
  <2>1. CASE u.again /\ ~u.marked
    BY <1>3, <1>6, <1>7, <1>8, <2>1 DEF Missed, OnlyJournal
  <2>2. CASE ~(u.again /\ ~u.marked)
    BY <1>3, <1>7, <1>8, <2>2 DEF Missed
  <2> QED
    BY <2>1, <2>2
<1>12. ASSUME NEW q \in Runs, NEW n \in Nat, n <= Len(s.disk[q])
       PROVE  /\ Missed(s, n, q) => Missed(t, n, q)
              /\ \/ Missed(t, n, q)
                 \/ t.cmds = s.cmds /\ t.early = s.early
  <2>1. s.run = r => t.cmds = s.cmds /\ t.early = s.early
    BY <1>1, <1>2, <1>8
  <2> QED
    BY <1>4, <1>11, <1>12, <2>1
<1>13. ASSUME s.again, ~s.marked, NEW q \in Runs, NEW n \in Nat, n <= Len(s.disk[q])
       PROVE  Missed(t, n, q)
  <2>1. CASE q # r
    BY <1>8, <2>1 DEF Missed
  <2>2. CASE q = r
    <3>1. u.again /\ ~u.marked
      BY <1>3, <1>13
    <3>2. n <= Len(u.disk[q])
      <4>1. Len(s.disk[q]) <= Len(u.disk[q]) /\ Len(s.disk[q]) \in Nat /\ Len(u.disk[q]) \in Nat
        BY <1>1, <1>2, <1>3 DEF Extended
      <4> QED
        BY <1>13, <4>1
    <3>3. Missed(w, n, q) \/ \E i \in DOMAIN w.disk[q] : i > n /\ w.disk[q][i] = one[1]
      BY <1>5, <1>6, <3>2
    <3>4. w.run = r /\ t.disk = w.disk /\ t.whole = w.whole
      BY <1>3, <1>6, <1>7, <1>8, <3>1 DEF OnlyJournal
    <3> QED
      BY <1>5, <1>8, <3>3, <3>4 DEF Missed
  <2> QED
    BY <2>1, <2>2
<1>14. AcceptSnapshot(s, r) = t
  BY DEF AcceptSnapshot, t, v, w, one, u, b, a, AppendChange
<1>15. Follows(s, t) /\ KeepsEarly(s, t)
  BY <1>8, <1>9, <1>10, <1>12 DEF Follows, KeepsEarly, Early
<1> QED
  BY <1>13, <1>14, <1>15

(* The world was reset: there is a gap for every reader.                    *)
LEMMA Resetting ==
  ASSUME NEW s \in Sessions, OneRun(s)
  PROVE  LET t == AcceptReset(s) IN
         Follows(s, t) /\ KeepsEarly(s, t) /\ (\A r \in Runs, n \in Nat : Missed(t, n, r))
<1> DEFINE one == <<Row("world_reset", None, FALSE)>>
           a == AppendChanges(s, one)
           t == [a EXCEPT !.snap = FALSE, !.hand = FALSE, !.cmds = NoSession.cmds,
                          !.early = NoSession.early, !.journal = None, !.run = None, !.seq = 0,
                          !.world = None]
<1>1. one \in Seq(Rows)
  BY DEF Rows, Row, Maybe
<1> HIDE DEF one
<1>2. a \in Sessions /\ OnlyJournal(s, a) /\ Extended(s, a)
  BY <1>1, Appending DEF OneRun
<1> HIDE DEF a
<1>3. NoSession.cmds \in [Cmds -> {"unknown", "live", "done"}] /\ NoSession.early \in [Cmds -> Seq(BOOLEAN)]
  BY DEF NoSession
<1>4. /\ t \in Sessions /\ t.journal = None /\ t.run = None /\ t.snap = FALSE /\ t.hand = FALSE
      /\ t.up = a.up /\ t.open = a.open /\ t.again = a.again /\ t.self = a.self /\ t.disk = a.disk
  <2>1. None \in Maybe(Runs) /\ 0 \in Nat /\ FALSE \in BOOLEAN
    BY DEF Maybe
  <2>2. t \in Sessions
    BY <1>2, <1>3, <2>1, Zenon DEF Sessions
  <2> QED
    BY <1>2, <2>2 DEF Sessions
<1> HIDE DEF t
<1>5. \A q \in Runs, n \in Nat : Missed(t, n, q)
  BY <1>4, RunsAreNotNone DEF Missed
<1>6. Extended(s, t) /\ OneRun(t)
  BY <1>2, <1>4 DEF Extended, OneRun
<1>7. AcceptReset(s) = t
  BY DEF AcceptReset, AppendChange, t, a, one
<1> QED
  BY <1>2, <1>4, <1>5, <1>6, <1>7 DEF Follows, KeepsEarly, OnlyJournal

(* A handshake of the run that is followed, or of the first one.            *)
LEMMA Confirming ==
  ASSUME NEW s \in Sessions, OneRun(s), NEW h \in Calls, h.run \in Runs, ~NewRun(s, h.run)
  PROVE  LET t == Handshake(s, h) IN
         Follows(s, t) /\ KeepsEarly(s, t) /\ (t.snap = s.snap /\ t.marked = s.marked)
<1> DEFINE r == h.run
           b == EnsureJournal(s, r)
           told == [c \in Cmds |-> IF c = h.active /\ b.cmds[c] # "unknown" THEN "live" ELSE b.cmds[c]]
           t == [b EXCEPT !.run = r, !.self = TRUE, !.seq = IF h.seq > @ THEN h.seq ELSE @,
                          !.hand = TRUE, !.met = r, !.cmds = told]
<1>1. /\ b \in Sessions /\ b.journal = r /\ Extended(s, b)
      /\ b.up = s.up /\ b.run = s.run /\ b.open = s.open /\ b.snap = s.snap /\ b.world = s.world
      /\ b.self = s.self /\ b.again = s.again /\ b.marked = s.marked
      /\ s.run = r => b = s
  BY Opening DEF OneRun
<1> HIDE DEF b
<1>2. told \in [Cmds -> {"unknown", "live", "done"}]
      /\ \A c \in Cmds : b.cmds[c] # "unknown" => told[c] # "unknown"
  BY <1>1 DEF Sessions
<1> HIDE DEF told
<1>3. (IF h.seq > b.seq THEN h.seq ELSE b.seq) \in Nat /\ r \in Maybe(Runs)
  BY <1>1 DEF Sessions, Calls, Maybe
<1>4. /\ t \in Sessions /\ t.journal = r /\ t.run = r /\ t.self = TRUE /\ t.hand = TRUE /\ t.met = r
      /\ t.up = s.up /\ t.open = s.open /\ t.again = s.again /\ t.snap = s.snap /\ t.marked = s.marked
      /\ t.world = s.world /\ t.cmds = told /\ t.early = b.early /\ t.disk = b.disk /\ t.whole = b.whole
  <2>1. t \in Sessions
    BY <1>1, <1>2, <1>3, Zenon DEF Sessions
  <2> QED
    BY <1>1, <2>1 DEF Sessions
<1>5. t = Handshake(s, h)
  BY DEF Handshake, b, told
<1> HIDE DEF t
<1>6. OneRun(t)
  BY <1>4, RunsAreNotNone DEF OneRun, NewRun
<1>7. Extended(s, t)
  BY <1>1, <1>4 DEF Extended
<1>8. ASSUME NEW q \in Runs, NEW n \in Nat, n <= Len(s.disk[q])
      PROVE  /\ Missed(s, n, q) => Missed(t, n, q)
             /\ s.run = r \/ Missed(t, n, q)
  <2>1. t.disk = EnsureJournal(s, r).disk /\ t.whole = EnsureJournal(s, r).whole
    BY <1>4 DEF b
  <2> QED
    BY <1>4, <1>8, <2>1, Entering DEF OneRun
<1>9. s.run = r => /\ \A c \in Cmds : s.cmds[c] # "unknown" => t.cmds[c] # "unknown"
                   /\ t.early = s.early
  BY <1>1, <1>2, <1>4
<1>10. Follows(s, t) /\ KeepsEarly(s, t)
  BY <1>4, <1>6, <1>7, <1>8, <1>9 DEF Follows, KeepsEarly, Early
<1> QED
  BY <1>4, <1>5, <1>10

(* The answer to a POST: the command is known, and an outcome that came      *)
(* before is in the journal.                                                *)
LEMMA Answering ==
  ASSUME NEW s \in Sessions, OneRun(s), NEW c \in Cmds, NEW ok \in BOOLEAN
  PROVE  LET t == Recording(s, c, ok) IN
         /\ Follows(s, t) /\ t.run = s.run /\ t.snap = s.snap /\ t.marked = s.marked
         /\ t.cmds[c] # "unknown"
         /\ Early(s, c) => \A r \in Runs, n \in Nat : n <= Len(s.disk[r]) =>
              Missed(t, n, r) \/ Ended(t, n, r, c)
<1> DEFINE one == <<Row("submitted", c, ~ok)>>
           held == s.early[c]
           two == [i \in DOMAIN held |-> Row("lifecycle", c, held[i])]
           rows == one \o two
           st == Status(Last(rows).done)
           a == [s EXCEPT !.cmds[c] = st, !.early[c] = <<>>]
           t == AppendChanges(a, rows)
<1>1. held \in Seq(BOOLEAN) /\ Len(held) \in Nat /\ DOMAIN held = 1..Len(held)
      /\ \A i \in DOMAIN held : held[i] \in BOOLEAN
  <2>1. held \in Seq(BOOLEAN)
    BY DEF Sessions
  <2> HIDE DEF held
  <2> QED
    BY <2>1, LenProperties, ElementOfSeq
<1>2. one \in Seq(Rows) /\ Len(one) = 1
  BY DEF Rows, Row, Maybe
<1>3. two \in Seq(Rows) /\ Len(two) = Len(held) /\ \A i \in DOMAIN held : two[i] = Row("lifecycle", c, held[i])
  <2>1. \A i \in DOMAIN held : Row("lifecycle", c, held[i]) \in Rows
    BY <1>1 DEF Rows, Row, Maybe
  <2> HIDE DEF held, Rows
  <2>2. two \in [1..Len(held) -> Rows]
    BY <1>1, <2>1
  <2> QED
    BY <1>1, <2>2, SeqDef
<1> HIDE DEF one, two
<1>4. rows \in Seq(Rows) /\ \A i \in DOMAIN held : 1 + i \in DOMAIN rows /\ rows[1 + i] = two[i]
  <2> HIDE DEF Rows
  <2>0. one \in Seq(Rows) /\ two \in Seq(Rows)
    BY <1>2, <1>3
  <2>1. /\ rows \in Seq(Rows) /\ Len(rows) = Len(one) + Len(two)
        /\ \A i \in 1..Len(one) + Len(two) : rows[i] = IF i <= Len(one) THEN one[i] ELSE two[i - Len(one)]
    BY <2>0, ConcatProperties
  <2> HIDE DEF rows
  <2>2. DOMAIN rows = 1..Len(rows)
    BY <2>1, LenProperties
  <2>3. ASSUME NEW i \in DOMAIN held
        PROVE  1 + i \in DOMAIN rows /\ rows[1 + i] = two[i]
    <3> HIDE DEF held
    <3>1. i \in Nat /\ 1 <= i /\ i <= Len(held) /\ Len(rows) = 1 + Len(held) /\ Len(held) \in Nat
      BY <1>1, <1>2, <1>3, <2>1
    <3>2. 1 + i \in 1..(1 + Len(held)) /\ ~(1 + i <= 1) /\ (1 + i) - 1 = i
      BY <3>1
    <3>3. rows[1 + i] = two[(1 + i) - 1]
      BY <1>2, <1>3, <2>1, <3>2
    <3> QED
      BY <2>2, <3>1, <3>2, <3>3
  <2> QED
    BY <2>1, <2>3
<1>5. st \in {"live", "done"}
  BY DEF Status
<1>6. t = Recording(s, c, ok)
  BY DEF Recording, one, two
<1> HIDE DEF rows, st
<1>7. /\ s.cmds \in [Cmds -> {"unknown", "live", "done"}] /\ s.early \in [Cmds -> Seq(BOOLEAN)]
      /\ <<>> \in Seq(BOOLEAN)
  BY DEF Sessions
<1>8. /\ [s.cmds EXCEPT ![c] = st] \in [Cmds -> {"unknown", "live", "done"}]
      /\ [s.early EXCEPT ![c] = <<>>] \in [Cmds -> Seq(BOOLEAN)]
  BY <1>5, <1>7
<1>9. a = [s EXCEPT !.cmds = [s.cmds EXCEPT ![c] = st], !.early = [s.early EXCEPT ![c] = <<>>]]
  BY DEF Sessions
<1>10. a \in Sessions
  BY <1>8, <1>9, Zenon DEF Sessions
<1>11. /\ a.cmds = [s.cmds EXCEPT ![c] = st]
       /\ a.up = s.up /\ a.run = s.run /\ a.seq = s.seq /\ a.open = s.open /\ a.snap = s.snap
       /\ a.self = s.self /\ a.hand = s.hand /\ a.world = s.world /\ a.met = s.met
       /\ a.again = s.again /\ a.marked = s.marked /\ a.journal = s.journal
       /\ a.whole = s.whole /\ a.disk = s.disk
  BY <1>9 DEF Sessions
<1> HIDE DEF a, held
<1>12. /\ t \in Sessions /\ OnlyJournal(a, t) /\ Extended(a, t)
       /\ \A r \in Runs, n \in Nat :
             /\ Missed(a, n, r) => Missed(t, n, r)
             /\ n <= Len(a.disk[r]) => \A k \in DOMAIN rows :
                  \/ Missed(t, n, r)
                  \/ \E i \in DOMAIN t.disk[r] : i > n /\ t.disk[r][i] = rows[k]
  BY <1>4, <1>10, <1>11, Appending DEF OneRun
<1> HIDE DEF t
<1>13. Extended(s, t) /\ OneRun(t)
  BY <1>11, <1>12 DEF Extended, OneRun, OnlyJournal
<1>14. \A r, n : Missed(s, n, r) => Missed(a, n, r)
  BY <1>11 DEF Missed
<1>15. \A d \in Cmds : s.cmds[d] # "unknown" => t.cmds[d] # "unknown"
  BY <1>5, <1>7, <1>11, <1>12 DEF OnlyJournal
<1>16. t.cmds[c] # "unknown"
  BY <1>5, <1>7, <1>11, <1>12 DEF OnlyJournal
<1>17. ASSUME Early(s, c), NEW r \in Runs, NEW n \in Nat, n <= Len(s.disk[r])
       PROVE  Missed(t, n, r) \/ Ended(t, n, r, c)
  <2>1. PICK i \in DOMAIN held : held[i] = TRUE
    BY <1>17 DEF Early, held
  <2>2. 1 + i \in DOMAIN rows /\ rows[1 + i] = Row("lifecycle", c, TRUE)
    BY <1>3, <1>4, <2>1
  <2>3. Missed(t, n, r) \/ \E j \in DOMAIN t.disk[r] : j > n /\ t.disk[r][j] = rows[1 + i]
    BY <1>11, <1>12, <1>17, <2>2
  <2> QED
    BY <2>2, <2>3 DEF Ended
<1>18. Follows(s, t) /\ t.run = s.run /\ t.snap = s.snap /\ t.marked = s.marked
  BY <1>11, <1>12, <1>13, <1>14, <1>15 DEF Follows, OnlyJournal
<1> QED
  BY <1>6, <1>16, <1>17, <1>18

-----------------------------------------------------------------------------
(* What a step keeps for the scripts that wait.                             *)

(* The script stays where it is; to a reader of any journal something was   *)
(* missed, or what it knows stays known and what is on its way stays there, *)
(* is written down, or is cut off together with the connection.             *)
Carries ==
  /\ script' = script /\ sent' = sent /\ post'.cmd = post.cmd
  /\ post.stage # "none" => post'.stage # "none"
  /\ Extended(g, g') /\ (g.self => g'.self)
  /\ \A c \in over' \ over : Cut' \/ OnTheWire(c)'
  /\ \A r \in Runs, n \in Nat : n <= Len(g.disk[r]) =>
       \/ Missed(g', n, r)
       \/ /\ ~Missed(g, n, r)
          /\ \A c \in Cmds : (g.cmds[c] # "unknown" => g'.cmds[c] # "unknown")
                             /\ (Early(g, c) => Early(g', c))
          /\ g.self => \/ Cut'
                       \/ /\ ~Cut
                          /\ \A c \in Cmds : OnTheWire(c) =>
                               \/ OnTheWire(c)' \/ Ended(g', n, r, c)
                               \/ g.cmds[c] = "unknown" /\ Early(g', c)

LEMMA RunOfSent ==
  ASSUME GameTypes, NEW c \in Known
  PROVE  sent[c].run \in Runs /\ c \in Cmds /\ c \in 1..Len(sent)
<1> DEFINE S == [run : Runs, seq : Nat, life : Nat]
<1>1. sent \in Seq(S) /\ Len(sent) <= MaxCmds
  BY DEF GameTypes
<1> SUFFICES sent[c] \in S /\ c \in Cmds
  BY DEF Known
<1> HIDE DEF S
<1>2. sent[c] \in S
  BY <1>1, ElementOfSeq, LenProperties DEF Known
<1> QED
  BY <1>1, <1>2, LenProperties, GatewayAssumption DEF Known, Cmds

LEMMA SeqOfSent ==
  ASSUME GameTypes, NEW c \in Known
  PROVE  sent[c].seq \in Nat
<1> DEFINE S == [run : Runs, seq : Nat, life : Nat]
<1>1. sent \in Seq(S)
  BY DEF GameTypes
<1> SUFFICES sent[c] \in S
  OBVIOUS
<1> HIDE DEF S
<1> QED
  BY <1>1, ElementOfSeq, LenProperties DEF Known

LEMMA Carrying ==
  ASSUME IInv, Carries, g' \in Sessions
  PROVE  ScriptsFit' /\ WaitersHear'
<1> USE RunsAreNotNone
<1>1. /\ script' = script /\ sent' = sent /\ post'.cmd = post.cmd
      /\ post.stage # "none" => post'.stage # "none"
      /\ Extended(g, g') /\ (g.self => g'.self)
  BY DEF Carries
<1>2. g \in Sessions /\ script \in Players /\ Len(sent) \in Nat /\ Len(sent) <= MaxCmds
      /\ sent \in Seq([run : Runs, seq : Nat, life : Nat])
  BY LenProperties DEF IInv, SessionTypes, GameTypes
<1>3. script.of \in Maybe(Runs) /\ script.cursor \in Nat
  BY <1>2 DEF Players
<1>4. \A r \in Runs : Len(g.disk[r]) \in Nat /\ Len(g'.disk[r]) \in Nat /\ Len(g.disk[r]) <= Len(g'.disk[r])
  BY <1>1 DEF Extended
<1>5. ScriptsFit'
  <2>1. script.of # None => g.self /\ script.of \in Runs /\ script.cursor <= Len(g.disk[script.of])
    BY <1>3 DEF IInv, ScriptsFit, Maybe
  <2>2. script.of # None => g'.self /\ script.cursor <= Len(g'.disk[script.of])
    BY <1>1, <1>3, <1>4, <2>1
  <2>3. script.pc = "sending" => post'.stage # "none" /\ post'.cmd \in Known'
    BY <1>1 DEF IInv, ScriptsFit, Known
  <2> QED
    BY <1>1, <2>2, <2>3 DEF IInv, ScriptsFit, Known
<1>6. WaitersHear'
  <2> DEFINE r == script.of
             n == script.cursor
  <2> SUFFICES ASSUME NEW c \in Known, Sending(c) \/ script.waits = c, r = sent[c].run
               PROVE  /\ script.waits = c => g'.cmds[c] # "unknown" \/ Missed(g', n, r)
                      /\ c \in over' =>
                           \/ Missed(g', n, r) \/ Cut' \/ OnTheWire(c)'
                           \/ Ended(g', Past, r, c)
                           \/ Sending(c) /\ Early(g', c)
    BY <1>1 DEF WaitersHear, Sending, Past, Known
  <2>1. c \in Cmds /\ c \in 1..Len(sent)
    BY RunOfSent DEF IInv
  <2>2. r \in Runs /\ n \in Nat /\ n <= Len(g.disk[r]) /\ g.self
    <3>1. sent[c].run \in Runs
      BY <2>1, RunOfSent DEF IInv
    <3>2. script.of # None /\ r \in Runs
      BY <3>1
    <3>3. g.self /\ script.cursor <= Len(g.disk[script.of])
      BY <3>2 DEF IInv, ScriptsFit
    <3> QED
      BY <1>3, <3>2, <3>3
  <2>3. /\ script.waits = c => g.cmds[c] # "unknown" \/ Missed(g, n, r)
        /\ c \in over =>
             \/ Missed(g, n, r) \/ Cut \/ OnTheWire(c)
             \/ Ended(g, Past, r, c)
             \/ Sending(c) /\ Early(g, c)
    BY DEF IInv, WaitersHear
  <2>4. Past \in Nat /\ (Past = n \/ Past = 0)
    BY <2>2 DEF Past
  <2>5. Ended(g, Past, r, c) => Ended(g', Past, r, c)
    BY <1>1, <1>2, <2>2, <2>4, Lasting
  <2>6. Ended(g', n, r, c) => Ended(g', Past, r, c)
    <3>1. \A i \in DOMAIN g'.disk[r] : i \in Nat
      BY <2>2, Journals
    <3>2. \A i \in Nat : i > n => i > Past
      BY <2>2, <2>4
    <3> QED
      BY <3>1, <3>2 DEF Ended
  <2>7. c \in over' /\ c \notin over => Cut' \/ OnTheWire(c)'
    BY DEF Carries
  <2>8. \/ Missed(g', n, r)
        \/ /\ ~Missed(g, n, r)
           /\ g.cmds[c] # "unknown" => g'.cmds[c] # "unknown"
           /\ Early(g, c) => Early(g', c)
           /\ \/ Cut'
              \/ /\ ~Cut
                 /\ OnTheWire(c) => \/ OnTheWire(c)' \/ Ended(g', n, r, c)
                                    \/ g.cmds[c] = "unknown" /\ Early(g', c)
    BY <2>1, <2>2 DEF Carries
  <2> HIDE DEF r, n
  <2>9. CASE Missed(g', n, r)
    BY <2>9
  <2>10. CASE ~Missed(g', n, r)
    <3>1. script.waits = c => g'.cmds[c] # "unknown" /\ g.cmds[c] # "unknown"
      BY <2>3, <2>8, <2>10
    <3>2. ASSUME c \in over'
          PROVE  Cut' \/ OnTheWire(c)' \/ Ended(g', Past, r, c) \/ (Sending(c) /\ Early(g', c))
      BY <2>3, <2>5, <2>6, <2>7, <2>8, <2>10, <3>1, <3>2
    <3> QED
      BY <3>1, <3>2
  <2> QED
    BY <2>9, <2>10
<1> QED
  BY <1>5, <1>6

(* A step of the game or of the connection: the books of the session stay.  *)
SameBooks(s, t) ==
  /\ t.run = s.run /\ t.self = s.self /\ t.whole = s.whole
  /\ t.cmds = s.cmds /\ t.early = s.early /\ t.disk = s.disk

LEMMA Aside ==
  ASSUME IInv, g' \in Sessions, SameBooks(g, g'), script' = script, sent' = sent,
         post'.cmd = post.cmd, post.stage # "none" => post'.stage # "none",
         g.run = None \/ Cut' \/ (~Cut /\ \A c \in Cmds : OnTheWire(c) => OnTheWire(c)'),
         \A c \in over' \ over : Cut' \/ OnTheWire(c)'
  PROVE  ScriptsFit' /\ WaitersHear'
<1>1. g \in Sessions
  BY DEF IInv, SessionTypes
<1>2. Extended(g, g') /\ (g.self => g'.self)
  BY <1>1, Unchanged DEF SameBooks
<1>3. ASSUME NEW r \in Runs, NEW n \in Nat
      PROVE  \/ Missed(g', n, r)
             \/ /\ ~Missed(g, n, r)
                /\ \A c \in Cmds : (g.cmds[c] # "unknown" => g'.cmds[c] # "unknown")
                                   /\ (Early(g, c) => Early(g', c))
                /\ \/ Cut'
                   \/ ~Cut /\ \A c \in Cmds : OnTheWire(c) => OnTheWire(c)'
  <2>1. Missed(g, n, r) => Missed(g', n, r)
    BY DEF Missed, SameBooks
  <2>2. \A c \in Cmds : (g.cmds[c] # "unknown" => g'.cmds[c] # "unknown")
                        /\ (Early(g, c) => Early(g', c))
    BY DEF SameBooks, Early
  <2>3. g.run = None => Missed(g', n, r)
    BY RunsAreNotNone DEF SameBooks, Missed
  <2> QED
    BY <2>1, <2>2, <2>3
<1>4. Carries
  BY <1>2, <1>3 DEF Carries
<1> QED
  BY <1>1, <1>4, Carrying

(* Published outcomes reach the connection there is.                        *)
LEMMA Publishing ==
  ASSUME IInv, NEW events \in Seq(Outcomes), \A i \in DOMAIN events : events[i].cmd \in Known,
         Publish(events), UNCHANGED <<g, post, link, script, sent>>
  PROVE  /\ log' \in Seq(Outcomes) /\ wire' \in Seq(Events) /\ over' \subseteq Known
         /\ OneRun(g)' /\ ScriptsFit' /\ WaitersHear'
<1>1. log \in Seq(Outcomes) /\ wire \in Seq(Events) /\ over \subseteq Known
  BY DEF IInv, GameTypes, SessionTypes
<1>2. DOMAIN events = 1..Len(events) /\ Len(events) \in Nat /\ \A i \in DOMAIN events : events[i] \in Outcomes
  <2> HIDE DEF Outcomes
  <2> QED
    BY LenProperties, ElementOfSeq
<1>3. events \in Seq(Events)
  <2>1. \A i \in 1..Len(events) : events[i] \in Events
    BY <1>2 DEF Events
  <2> HIDE DEF Outcomes, Events
  <2>2. events = [i \in 1..Len(events) |-> events[i]]
    BY <1>2, LenProperties
  <2>3. events \in [1..Len(events) -> Events]
    BY <2>1, <2>2
  <2> QED
    BY <1>2, <2>3, SeqDef
<1>4. log' \in Seq(Outcomes) /\ (link = "on" => wire' = wire \o events) /\ (link # "on" => wire' = wire)
  <2> HIDE DEF Outcomes
  <2> QED
    BY <1>1, ConcatProperties DEF Publish
<1>5. /\ wire \o events \in Seq(Events) /\ Len(wire) \in Nat /\ DOMAIN wire = 1..Len(wire)
      /\ DOMAIN (wire \o events) = 1..(Len(wire) + Len(events))
      /\ \A i \in 1..(Len(wire) + Len(events)) :
           (wire \o events)[i] = IF i <= Len(wire) THEN wire[i] ELSE events[i - Len(wire)]
  <2> HIDE DEF Outcomes, Events
  <2> QED
    BY <1>1, <1>3, ConcatProperties, LenProperties
<1>6. wire' \in Seq(Events)
  BY <1>1, <1>4, <1>5
<1>7. over' = over \cup {e.cmd : e \in {x \in Range(events) : x.done}}
  BY DEF Publish
<1>8. ASSUME NEW c \in over', c \notin over
      PROVE  \E i \in DOMAIN events : events[i].cmd = c /\ events[i].done /\ events[i].kind = "lifecycle"
  <2>1. PICK e \in {x \in Range(events) : x.done} : c = e.cmd
    BY <1>7, <1>8
  <2>2. PICK i \in DOMAIN events : e = events[i]
    BY <2>1 DEF Range
  <2>3. events[i].kind = "lifecycle"
    BY <1>2, <2>2 DEF Outcomes
  <2> QED
    BY <2>1, <2>2, <2>3
<1>9. over' \subseteq Known
  BY <1>1, <1>8
<1>10. Cut' = Cut
  BY DEF Cut
<1>11. link = "on" => \A c \in Cmds : OnTheWire(c) => OnTheWire(c)'
  <2> SUFFICES ASSUME link = "on", NEW c \in Cmds, OnTheWire(c)
               PROVE  OnTheWire(c)'
    OBVIOUS
  <2>1. PICK i \in DOMAIN wire : wire[i].kind = "lifecycle" /\ wire[i].cmd = c /\ wire[i].done
    BY DEF OnTheWire
  <2>2. i \in 1..(Len(wire) + Len(events)) /\ i <= Len(wire)
    BY <1>2, <1>5, <2>1
  <2>3. i \in DOMAIN (wire \o events) /\ (wire \o events)[i] = wire[i] /\ wire' = wire \o events
    BY <1>4, <1>5, <2>2
  <2> QED
    BY <2>1, <2>3 DEF OnTheWire
<1>12. ASSUME NEW c \in over' \ over
       PROVE  Cut' \/ OnTheWire(c)'
  <2>1. CASE link # "on"
    BY <2>1 DEF Cut
  <2>2. CASE link = "on"
    <3>1. PICK k \in DOMAIN events : events[k].cmd = c /\ events[k].done /\ events[k].kind = "lifecycle"
      BY <1>8
    <3>2. k \in Nat /\ 1 <= k /\ k <= Len(events)
      BY <1>2
    <3> DEFINE n == Len(wire)
    <3>3. n \in Nat
      BY <1>5
    <3>4. \A i \in 1..(n + Len(events)) :
            (wire \o events)[i] = IF i <= n THEN wire[i] ELSE events[i - n]
      BY <1>5
    <3>5. DOMAIN (wire \o events) = 1..(n + Len(events))
      BY <1>5
    <3> HIDE DEF n
    <3>6. n + k \in 1..(n + Len(events)) /\ ~(n + k <= n) /\ (n + k) - n = k
      BY <1>2, <3>2, <3>3
    <3>7. (wire \o events)[n + k] = events[(n + k) - n]
      BY <3>4, <3>6
    <3>8. wire' = wire \o events /\ n + k \in DOMAIN wire' /\ wire'[n + k] = events[k]
      BY <1>4, <2>2, <3>5, <3>6, <3>7
    <3> QED
      BY <3>1, <3>8 DEF OnTheWire
  <2> QED
    BY <2>1, <2>2
<1>13. Cut' \/ (~Cut /\ \A c \in Cmds : OnTheWire(c) => OnTheWire(c)')
  BY <1>10, <1>11 DEF Cut
<1>14. g' \in Sessions /\ SameBooks(g, g') /\ OneRun(g)'
  BY DEF IInv, SessionTypes, SameBooks
<1>15. ScriptsFit' /\ WaitersHear'
  BY <1>12, <1>13, <1>14, Aside
<1> QED
  BY <1>4, <1>6, <1>9, <1>14, <1>15

-----------------------------------------------------------------------------
(* The game's steps.                                                        *)

LEMMA Taking ==
  ASSUME GameTypes, inbox # <<>>
  PROVE  /\ Head(inbox) \in Known /\ Head(inbox) \in Cmds /\ Tail(inbox) \in Seq(Cmds)
         /\ \A i \in DOMAIN Tail(inbox) : Tail(inbox)[i] \in Known
<1> USE DEF GameTypes
<1>1. /\ Len(inbox) \in Nat \ {0} /\ DOMAIN inbox = 1..Len(inbox) /\ Head(inbox) = inbox[1]
      /\ Tail(inbox) \in Seq(Cmds) /\ Len(Tail(inbox)) = Len(inbox) - 1
      /\ \A i \in 1..Len(Tail(inbox)) : Tail(inbox)[i] = inbox[i + 1]
  BY HeadTailProperties, LenProperties, EmptySeq
<1>2. DOMAIN Tail(inbox) = 1..Len(Tail(inbox))
  BY <1>1, LenProperties
<1>3. 1 \in DOMAIN inbox
  BY <1>1
<1>4. \A i \in DOMAIN Tail(inbox) : Tail(inbox)[i] \in Known
  <2> SUFFICES ASSUME NEW i \in 1..Len(Tail(inbox)) PROVE inbox[i + 1] \in Known
    BY <1>1, <1>2
  <2>1. i + 1 \in DOMAIN inbox
    BY <1>1
  <2> QED
    BY <2>1
<1>5. inbox[1] \in Known
  BY <1>3
<1>6. Head(inbox) \in Cmds
  BY <1>1, <1>5, RunOfSent
<1> QED
  BY <1>1, <1>4, <1>5, <1>6

LEMMA Larger ==
  ASSUME NEW a \in Nat, NEW b \in Nat
  PROVE  Max({a, b}) \in Nat
<1>1. \E x \in {a, b} : \A y \in {a, b} : x >= y
  OBVIOUS
<1>2. Max({a, b}) \in {a, b}
  BY <1>1 DEF Max
<1> QED
  BY <1>2

LEMMA Rejecting == IInv /\ Reject => IInv'
<1> SUFFICES ASSUME IInv, Reject PROVE IInv'
  OBVIOUS
<1> DEFINE c == Head(inbox)
           events == <<Lifecycle(c, TRUE)>>
<1>1. /\ c \in Known /\ c \in Cmds /\ Tail(inbox) \in Seq(Cmds)
      /\ \A i \in DOMAIN Tail(inbox) : Tail(inbox)[i] \in Known
  BY Taking DEF IInv, Reject
<1>2. seen \in Nat /\ sent[c].seq \in Nat
  BY <1>1, SeqOfSent DEF IInv, GameTypes
<1>3. seen' \in Nat
  BY <1>2, Larger DEF Reject
<1> HIDE DEF c
<1>4. events \in Seq(Outcomes) /\ \A i \in DOMAIN events : events[i].cmd \in Known
  BY <1>1 DEF Outcomes, Lifecycle
<1>5. Publish(events)
  BY DEF Reject, c
<1> HIDE DEF events
<1>6. UNCHANGED <<g, calls, post, link, script, sent, run, slot, life, troubles>> /\ inbox' = Tail(inbox)
  BY DEF Reject
<1>7. /\ log' \in Seq(Outcomes) /\ wire' \in Seq(Events) /\ over' \subseteq Known
      /\ OneRun(g)' /\ ScriptsFit' /\ WaitersHear'
  BY <1>4, <1>5, <1>6, Publishing
<1>8. GameTypes'
  BY <1>1, <1>3, <1>6, <1>7 DEF IInv, GameTypes, Known
<1>9. SessionTypes'
  BY <1>6, <1>7 DEF IInv, SessionTypes, Known
<1>10. Reconnects'
  BY <1>6 DEF IInv, Reconnects
<1> QED
  BY <1>7, <1>8, <1>9, <1>10 DEF IInv

LEMMA Activating == IInv /\ Activate => IInv'
<1> SUFFICES ASSUME IInv, Activate PROVE IInv'
  OBVIOUS
<1> DEFINE c == Head(inbox)
           first == IF slot = None THEN <<>> ELSE <<Lifecycle(slot, TRUE)>>
           second == <<Lifecycle(c, FALSE)>>
           events == first \o second
<1>1. /\ c \in Known /\ c \in Cmds /\ Tail(inbox) \in Seq(Cmds)
      /\ \A i \in DOMAIN Tail(inbox) : Tail(inbox)[i] \in Known
  BY Taking DEF IInv, Activate
<1>2. seen' \in Nat /\ slot' = c
  BY <1>1, SeqOfSent DEF IInv, GameTypes, Activate
<1> HIDE DEF c
<1>3. slot # None => slot \in Known /\ slot \in Cmds
  BY RunOfSent DEF IInv, GameTypes, Maybe
<1>4. first \in Seq(Outcomes) /\ \A i \in 1..Len(first) : first[i].cmd \in Known
  <2>1. CASE slot = None
    BY <2>1
  <2>2. CASE slot # None
    BY <1>3, <2>2 DEF Outcomes, Lifecycle
  <2> QED
    BY <2>1, <2>2
<1>5. second \in Seq(Outcomes) /\ \A i \in 1..Len(second) : second[i].cmd \in Known
  BY <1>1 DEF Outcomes, Lifecycle
<1>6. Publish(events)
  BY DEF Activate, c
<1> HIDE DEF first, second
<1>7. events \in Seq(Outcomes) /\ \A i \in DOMAIN events : events[i].cmd \in Known
  <2> HIDE DEF Outcomes
  <2>1. /\ events \in Seq(Outcomes) /\ Len(events) = Len(first) + Len(second)
        /\ Len(first) \in Nat /\ Len(second) \in Nat
        /\ \A i \in 1..(Len(first) + Len(second)) :
             events[i] = IF i <= Len(first) THEN first[i] ELSE second[i - Len(first)]
    BY <1>4, <1>5, ConcatProperties, LenProperties
  <2> HIDE DEF events
  <2>2. DOMAIN events = 1..Len(events)
    BY <2>1, LenProperties
  <2>3. ASSUME NEW i \in DOMAIN events PROVE events[i].cmd \in Known
    <3>1. i \in 1..(Len(first) + Len(second))
      BY <2>1, <2>2
    <3>2. i <= Len(first) => i \in 1..Len(first)
      BY <2>1, <3>1
    <3>3. ~(i <= Len(first)) => i - Len(first) \in 1..Len(second)
      BY <2>1, <3>1
    <3> QED
      BY <1>4, <1>5, <2>1, <3>1, <3>2, <3>3
  <2> QED
    BY <2>1, <2>3
<1> HIDE DEF events
<1>8. UNCHANGED <<g, calls, post, link, script, sent, run, life, troubles>> /\ inbox' = Tail(inbox)
  BY DEF Activate
<1>9. /\ log' \in Seq(Outcomes) /\ wire' \in Seq(Events) /\ over' \subseteq Known
      /\ OneRun(g)' /\ ScriptsFit' /\ WaitersHear'
  BY <1>6, <1>7, <1>8, Publishing
<1>10. GameTypes'
  BY <1>1, <1>2, <1>8, <1>9 DEF IInv, GameTypes, Known, Maybe
<1>11. SessionTypes'
  BY <1>8, <1>9 DEF IInv, SessionTypes, Known
<1>12. Reconnects'
  BY <1>8 DEF IInv, Reconnects
<1> QED
  BY <1>9, <1>10, <1>11, <1>12 DEF IInv

LEMMA Ending == IInv /\ End => IInv'
<1> SUFFICES ASSUME IInv, End PROVE IInv'
  OBVIOUS
<1> DEFINE events == <<Lifecycle(slot, TRUE)>>
<1>1. slot \in Known /\ slot \in Cmds
  BY RunOfSent DEF IInv, GameTypes, Maybe, End
<1>2. events \in Seq(Outcomes) /\ \A i \in DOMAIN events : events[i].cmd \in Known
  BY <1>1 DEF Outcomes, Lifecycle
<1>3. Publish(events)
  BY DEF End
<1> HIDE DEF events
<1>4. UNCHANGED <<g, calls, post, link, script, sent, run, inbox, seen, life, troubles>> /\ slot' = None
  BY DEF End
<1>5. /\ log' \in Seq(Outcomes) /\ wire' \in Seq(Events) /\ over' \subseteq Known
      /\ OneRun(g)' /\ ScriptsFit' /\ WaitersHear'
  BY <1>2, <1>3, <1>4, Publishing
<1>6. GameTypes'
  BY <1>4, <1>5 DEF IInv, GameTypes, Known, Maybe
<1>7. SessionTypes'
  BY <1>4, <1>5 DEF IInv, SessionTypes, Known
<1>8. Reconnects'
  BY <1>4 DEF IInv, Reconnects
<1> QED
  BY <1>5, <1>6, <1>7, <1>8 DEF IInv

LEMMA Checkpointing == IInv /\ Checkpoint => IInv'
<1> SUFFICES ASSUME IInv, Checkpoint PROVE IInv'
  OBVIOUS
<1>1. UNCHANGED <<gateway, script, run, inbox, seen, slot, over, sent, life, troubles>> /\ log' = <<>>
  BY DEF Checkpoint
<1>2. UNCHANGED <<g, calls, post, link, wire>>
  BY <1>1 DEF gateway
<1>3. ScriptsFit' /\ WaitersHear' /\ OneRun(g)'
  <2>1. g' \in Sessions /\ SameBooks(g, g') /\ OneRun(g)'
    BY <1>2 DEF IInv, SessionTypes, SameBooks
  <2>2. Cut' = Cut /\ \A c \in Cmds : OnTheWire(c) => OnTheWire(c)'
    BY <1>2 DEF Cut, OnTheWire
  <2>3. \A c \in over' \ over : Cut' \/ OnTheWire(c)'
    BY <1>1
  <2> QED
    BY <1>1, <1>2, <2>1, <2>2, <2>3, Aside
<1>4. GameTypes' /\ SessionTypes' /\ Reconnects'
  BY <1>1, <1>2 DEF IInv, GameTypes, SessionTypes, Reconnects, Known
<1> QED
  BY <1>3, <1>4 DEF IInv

LEMMA ResettingTheWorld == IInv /\ WorldReset => IInv'
<1> SUFFICES ASSUME IInv, WorldReset PROVE IInv'
  OBVIOUS
<1>1. /\ UNCHANGED <<g, calls, post, script, sent, life, over>>
      /\ run' = run + 1 /\ run < MaxRuns /\ troubles' = troubles + 1
      /\ inbox' = <<>> /\ seen' = 0 /\ slot' = None /\ log' = <<>>
  BY DEF WorldReset, Trouble
<1>2. /\ link = "on" => link' = "ended" /\ wire' = Append(wire, [kind |-> "reset"])
      /\ link # "on" => link' = link /\ wire' = wire
  BY DEF WorldReset
<1>3. ScriptsFit' /\ WaitersHear' /\ OneRun(g)'
  <2>1. g' \in Sessions /\ SameBooks(g, g') /\ OneRun(g)'
    BY <1>1 DEF IInv, SessionTypes, SameBooks
  <2>2. Cut'
    BY <1>2 DEF Cut
  <2>3. \A c \in over' \ over : Cut' \/ OnTheWire(c)'
    BY <1>1
  <2> QED
    BY <1>1, <2>1, <2>2, <2>3, Aside
<1>4. GameTypes'
  <2>1. run' \in Runs /\ troubles' \in Nat
    BY <1>1, GatewayAssumption DEF IInv, GameTypes, Runs
  <2> QED
    BY <1>1, <2>1 DEF IInv, GameTypes, Known, Maybe
<1>5. wire' \in Seq(Events)
  <2>1. wire \in Seq(Events) /\ [kind |-> "reset"] \in Events
    BY DEF IInv, SessionTypes, Events
  <2> HIDE DEF Events
  <2> QED
    BY <1>2, <2>1, AppendProperties
<1>6. SessionTypes' /\ Reconnects'
  BY <1>1, <1>2, <1>5 DEF IInv, SessionTypes, Reconnects, Known
<1> QED
  BY <1>3, <1>4, <1>6 DEF IInv

-----------------------------------------------------------------------------
(* The session's steps.                                                     *)

LEMMA GameStays ==
  ASSUME GameTypes, UNCHANGED <<game, sent, life>>, troubles' \in Nat
  PROVE  GameTypes'
BY DEF GameTypes, Known, game

LEMMA TroubleCounts == GameTypes /\ Trouble => troubles' \in Nat
BY DEF GameTypes, Trouble

LEMMA Dropping == IInv /\ Drop => IInv'
<1> SUFFICES ASSUME IInv, Drop PROVE IInv'
  OBVIOUS
<1>1. UNCHANGED <<g, calls, post, script>> /\ UNCHANGED <<game, sent, life>>
  BY DEF Drop, rest
<1>2. link = "on" /\ link' = "broken" /\ (wire' = wire \/ wire' = <<>>)
  BY DEF Drop
<1>3. ScriptsFit' /\ WaitersHear' /\ OneRun(g)'
  <2>1. g' \in Sessions /\ SameBooks(g, g') /\ OneRun(g)'
    BY <1>1 DEF IInv, SessionTypes, SameBooks
  <2>2. Cut'
    BY <1>2 DEF Cut
  <2>3. \A c \in over' \ over : Cut' \/ OnTheWire(c)'
    BY <1>1 DEF game
  <2> QED
    BY <1>1, <2>1, <2>2, <2>3, Aside
<1>4. GameTypes'
  BY <1>1, GameStays, TroubleCounts DEF IInv, Drop
<1>5. SessionTypes' /\ Reconnects'
  <2>1. wire' \in Seq(Events)
    <3>1. wire \in Seq(Events) /\ <<>> \in Seq(Events)
      BY EmptySeq DEF IInv, SessionTypes
    <3> QED
      BY <1>2, <3>1
  <2> QED
    BY <1>1, <1>2, <2>1 DEF IInv, SessionTypes, Reconnects, Known
<1> QED
  BY <1>3, <1>4, <1>5 DEF IInv

LEMMA AnsweringHandshakes == IInv /\ AnswerHandshake => IInv'
<1> SUFFICES ASSUME IInv, AnswerHandshake PROVE IInv'
  OBVIOUS
<1>1. UNCHANGED <<g, post, link, wire, script>> /\ UNCHANGED <<game, sent, life>> /\ troubles' = troubles
  BY DEF AnswerHandshake, rest
<1>2. PICK c \in calls :
        /\ c.stage \in {"asked", "run read"}
        /\ calls' = (calls \ {c}) \cup
             {IF c.stage = "asked" THEN [c EXCEPT !.stage = "run read", !.run = run]
              ELSE [c EXCEPT !.stage = "answered", !.seq = seen, !.active = slot]}
  BY DEF AnswerHandshake
<1>3. ScriptsFit' /\ WaitersHear' /\ OneRun(g)'
  <2>1. g' \in Sessions /\ SameBooks(g, g') /\ OneRun(g)'
    BY <1>1 DEF IInv, SessionTypes, SameBooks
  <2>2. Cut' = Cut /\ \A d \in Cmds : OnTheWire(d) => OnTheWire(d)'
    BY <1>1 DEF Cut, OnTheWire
  <2>3. \A d \in over' \ over : Cut' \/ OnTheWire(d)'
    BY <1>1 DEF game
  <2> QED
    BY <1>1, <2>1, <2>2, <2>3, Aside
<1>4. GameTypes'
  BY <1>1, GameStays DEF IInv, GameTypes
<1>5. calls' \subseteq Calls /\ \A d \in calls' : d.stage # "asked" => d.run \in Runs
  <2>1. c \in Calls /\ calls \subseteq Calls /\ \A d \in calls : d.stage # "asked" => d.run \in Runs
    BY DEF IInv, SessionTypes
  <2>2. run \in Runs /\ seen \in Nat /\ slot \in Maybe(Cmds)
    BY DEF IInv, GameTypes
  <2>3. CASE c.stage = "asked"
    <3> DEFINE d == [c EXCEPT !.stage = "run read", !.run = run]
    <3>1. d \in Calls /\ d.run \in Runs
      BY <2>1, <2>2 DEF Calls, Maybe
    <3> HIDE DEF d
    <3>2. calls' = (calls \ {c}) \cup {d}
      BY <1>2, <2>3 DEF d
    <3> QED
      BY <2>1, <3>1, <3>2
  <2>4. CASE c.stage # "asked"
    <3> DEFINE d == [c EXCEPT !.stage = "answered", !.seq = seen, !.active = slot]
    <3>1. d \in Calls /\ d.run \in Runs
      BY <2>1, <2>2, <2>4 DEF Calls
    <3> HIDE DEF d
    <3>2. calls' = (calls \ {c}) \cup {d}
      BY <1>2, <2>4 DEF d
    <3> QED
      BY <2>1, <3>1, <3>2
  <2> QED
    BY <2>3, <2>4
<1>6. SessionTypes' /\ Reconnects'
  <2>1. calls # {}
    BY <1>2
  <2> QED
    BY <1>1, <1>5, <2>1 DEF IInv, SessionTypes, Reconnects, Known
<1> QED
  BY <1>3, <1>4, <1>6 DEF IInv

LEMMA Routing == IInv /\ RouteTakes => IInv'
<1> SUFFICES ASSUME IInv, RouteTakes PROVE IInv'
  OBVIOUS
<1>1. UNCHANGED <<g, calls, link, wire, script, run, seen, slot, log, over, sent, life, troubles>>
  BY DEF RouteTakes
<1>2. post \in Posts /\ post.cmd \in Known /\ post.cmd \in Cmds
  <2>1. post.cmd \in Known
    BY DEF IInv, SessionTypes, RouteTakes
  <2> QED
    BY <2>1, RunOfSent DEF IInv, SessionTypes
<1>3. post' \in Posts /\ post'.cmd = post.cmd /\ post'.stage # "none"
  BY <1>2 DEF RouteTakes, Posts
<1>4. inbox' = inbox \/ inbox' = Append(inbox, post.cmd)
  BY DEF RouteTakes
<1>5. inbox' \in Seq(Cmds) /\ \A i \in DOMAIN inbox' : inbox'[i] \in Known
  <2>1. inbox \in Seq(Cmds) /\ \A i \in DOMAIN inbox : inbox[i] \in Known
    BY DEF IInv, GameTypes
  <2>2. CASE inbox' = Append(inbox, post.cmd)
    <3> DEFINE new == Append(inbox, post.cmd)
    <3>1. /\ new \in Seq(Cmds) /\ Len(new) = Len(inbox) + 1 /\ Len(inbox) \in Nat
          /\ DOMAIN inbox = 1..Len(inbox) /\ new[Len(inbox) + 1] = post.cmd
          /\ \A i \in 1..Len(inbox) : new[i] = inbox[i]
      BY <1>2, <2>1, AppendProperties, LenProperties
    <3> HIDE DEF new
    <3>2. DOMAIN new = 1..Len(new)
      BY <3>1, LenProperties
    <3>3. ASSUME NEW i \in DOMAIN new PROVE new[i] \in Known
      <4>1. i \in 1..Len(inbox) \/ i = Len(inbox) + 1
        BY <3>1, <3>2
      <4> QED
        BY <1>2, <2>1, <3>1, <4>1
    <3> QED
      BY <2>2, <3>1, <3>3 DEF new
  <2> QED
    BY <1>4, <2>1, <2>2
<1>6. ScriptsFit' /\ WaitersHear' /\ OneRun(g)'
  <2>1. g' \in Sessions /\ SameBooks(g, g') /\ OneRun(g)'
    BY <1>1 DEF IInv, SessionTypes, SameBooks
  <2>2. Cut' = Cut /\ \A d \in Cmds : OnTheWire(d) => OnTheWire(d)'
    BY <1>1 DEF Cut, OnTheWire
  <2>3. \A d \in over' \ over : Cut' \/ OnTheWire(d)'
    BY <1>1
  <2> QED
    BY <1>1, <1>3, <2>1, <2>2, <2>3, Aside
<1>7. GameTypes'
  BY <1>1, <1>5 DEF IInv, GameTypes, Known
<1>8. SessionTypes'
  BY <1>1, <1>2, <1>3 DEF IInv, SessionTypes, Known
<1>9. Reconnects'
  <2>1. g.up
    BY DEF IInv, Reconnects, RouteTakes
  <2> QED
    BY <1>1, <2>1 DEF IInv, Reconnects
<1> QED
  BY <1>6, <1>7, <1>8, <1>9 DEF IInv

LEMMA Filling == IInv /\ JournalFills => IInv'
<1> SUFFICES ASSUME IInv, JournalFills PROVE IInv'
  OBVIOUS
<1>1. UNCHANGED <<calls, post, link, wire, script>> /\ UNCHANGED <<game, sent, life>>
  BY DEF JournalFills, rest
<1>2. g \in Sessions /\ OneRun(g)
  BY DEF IInv, SessionTypes
<1>3. g' = [g EXCEPT !.full = TRUE]
  BY DEF JournalFills
<1>4. g' \in Sessions
  BY <1>2, <1>3, Zenon DEF Sessions
<1>5. /\ SameBooks(g, g') /\ g'.up = g.up /\ g'.open = g.open /\ g'.snap = g.snap /\ g'.hand = g.hand
      /\ g'.world = g.world /\ g'.met = g.met /\ g'.again = g.again /\ g'.marked = g.marked
      /\ g'.journal = g.journal
  BY <1>2, <1>3 DEF Sessions, SameBooks
<1>6. ScriptsFit' /\ WaitersHear'
  <2>1. Cut' = Cut /\ \A d \in Cmds : OnTheWire(d) => OnTheWire(d)'
    BY <1>1, <1>5 DEF Cut, OnTheWire
  <2>2. \A d \in over' \ over : Cut' \/ OnTheWire(d)'
    BY <1>1 DEF game
  <2> QED
    BY <1>1, <1>4, <1>5, <2>1, <2>2, Aside
<1>7. OneRun(g)' /\ Reconnects'
  BY <1>1, <1>2, <1>5 DEF IInv, Reconnects, OneRun, SameBooks
<1>8. GameTypes'
  BY <1>1, GameStays, TroubleCounts DEF IInv, JournalFills
<1>9. SessionTypes'
  BY <1>1, <1>4 DEF IInv, SessionTypes, Known
<1> QED
  BY <1>6, <1>7, <1>8, <1>9 DEF IInv

(* The connection is given up, by the loop or because a handshake failed.   *)
LEMMA Shutting ==
  ASSUME IInv, g' = Shut(g), link' = "off", UNCHANGED <<post, script>>,
         UNCHANGED <<game, sent, life>>
  PROVE  /\ g' \in Sessions /\ OneRun(g)' /\ ScriptsFit' /\ WaitersHear'
         /\ g'.up = g.up /\ g'.run = g.run /\ g'.open = FALSE /\ g'.again = TRUE
<1>1. g \in Sessions /\ OneRun(g)
  BY DEF IInv, SessionTypes
<1>2. g' \in Sessions
  BY <1>1, Zenon DEF Sessions, Shut
<1>3. /\ SameBooks(g, g') /\ g'.snap = g.snap /\ g'.hand = g.hand /\ g'.world = g.world
      /\ g'.met = g.met /\ g'.journal = g.journal
      /\ g'.up = g.up /\ g'.run = g.run /\ g'.open = FALSE /\ g'.again = TRUE
  BY <1>1 DEF Sessions, SameBooks, Shut
<1>4. OneRun(g)'
  BY <1>1, <1>3 DEF OneRun, SameBooks
<1>5. Cut'
  BY <1>3 DEF Cut
<1>6. \A d \in over' \ over : Cut' \/ OnTheWire(d)'
  BY DEF game
<1> QED
  BY <1>2, <1>3, <1>4, <1>5, <1>6, Aside

LEMMA Ends == IInv /\ StreamEnds => IInv'
<1> SUFFICES ASSUME IInv, StreamEnds PROVE IInv'
  OBVIOUS
<1>1. /\ UNCHANGED <<calls, post, wire, script>> /\ UNCHANGED <<game, sent, life>> /\ troubles' = troubles
      /\ g' = Shut(g) /\ link' = "off" /\ g.open
  BY DEF StreamEnds, rest
<1>2. /\ g' \in Sessions /\ OneRun(g)' /\ ScriptsFit' /\ WaitersHear'
      /\ g'.up = g.up /\ g'.run = g.run /\ g'.open = FALSE /\ g'.again = TRUE
  BY <1>1, Shutting
<1>3. GameTypes'
  BY <1>1, GameStays DEF IInv, GameTypes
<1>4. SessionTypes'
  BY <1>1, <1>2 DEF IInv, SessionTypes, Known
<1>5. Reconnects'
  BY <1>1, <1>2 DEF IInv, Reconnects
<1> QED
  BY <1>2, <1>3, <1>4, <1>5 DEF IInv

LEMMA Opens == IInv /\ Open => IInv'
<1> SUFFICES ASSUME IInv, Open PROVE IInv'
  OBVIOUS
<1> DEFINE call == [fresh |-> TRUE, opening |-> TRUE, stage |-> "asked", run |-> None, seq |-> 0,
                    active |-> None]
<1>1. /\ UNCHANGED <<post, script>> /\ UNCHANGED <<game, sent, life>> /\ troubles' = troubles
      /\ g.up /\ ~g.open /\ link' = "on" /\ wire' = <<[kind |-> "snapshot", run |-> run]>> \o log
      /\ g' = [g EXCEPT !.open = TRUE, !.snap = FALSE, !.hand = FALSE, !.marked = FALSE]
  BY DEF Open, rest
<1>2. calls' = {[c EXCEPT !.fresh = FALSE] : c \in calls} \cup {call}
  BY DEF Open
<1>3. g \in Sessions /\ OneRun(g) /\ calls \subseteq Calls
      /\ \A c \in calls : c.stage # "asked" => c.run \in Runs
  BY DEF IInv, SessionTypes
<1>4. g' \in Sessions
  BY <1>1, <1>3, Zenon DEF Sessions
<1>5. /\ SameBooks(g, g') /\ g'.snap = FALSE /\ g'.hand = FALSE /\ g'.journal = g.journal
      /\ g'.up = g.up /\ g'.run = g.run /\ g'.open = TRUE /\ g'.again = g.again /\ g'.marked = FALSE
  BY <1>1, <1>3 DEF Sessions, SameBooks
<1>6. OneRun(g)'
  BY <1>3, <1>5 DEF OneRun
<1>7. g.run = None \/ Cut'
  BY <1>1, <1>5 DEF IInv, Reconnects, Cut
<1>8. \A d \in over' \ over : Cut' \/ OnTheWire(d)'
  BY <1>1 DEF game
<1>9. ScriptsFit' /\ WaitersHear'
  BY <1>1, <1>4, <1>5, <1>7, <1>8, Aside
<1>10. GameTypes'
  BY <1>1, GameStays DEF IInv, GameTypes
<1>11. wire' \in Seq(Events)
  <2> DEFINE first == <<[kind |-> "snapshot", run |-> run]>>
  <2>1. first \in Seq(Events)
    BY DEF IInv, GameTypes, Events
  <2>2. log \in Seq(Events)
    <3>1. log \in Seq(Outcomes) /\ \A e \in Outcomes : e \in Events
      BY DEF IInv, GameTypes, Events
    <3> HIDE DEF Outcomes, Events
    <3>2. \A i \in 1..Len(log) : log[i] \in Events
      BY <3>1, ElementOfSeq
    <3>3. log = [i \in 1..Len(log) |-> log[i]] /\ Len(log) \in Nat
      BY <3>1, LenProperties
    <3>4. log \in [1..Len(log) -> Events]
      BY <3>2, <3>3
    <3> QED
      BY <3>3, <3>4, SeqDef
  <2> HIDE DEF first, Events
  <2>3. first \o log \in Seq(Events)
    BY <2>1, <2>2, ConcatProperties
  <2> QED
    BY <1>1, <2>3 DEF first
<1>12. calls' \subseteq Calls /\ \A c \in calls' : c.stage # "asked" => c.run \in Runs
  <2>1. call \in Calls /\ call.stage = "asked"
    BY DEF Calls, Maybe
  <2> HIDE DEF call
  <2>2. ASSUME NEW c \in calls
        PROVE  /\ [c EXCEPT !.fresh = FALSE] \in Calls
               /\ [c EXCEPT !.fresh = FALSE].stage # "asked" => [c EXCEPT !.fresh = FALSE].run \in Runs
    <3>1. c \in Calls /\ (c.stage # "asked" => c.run \in Runs)
      BY <1>3
    <3> QED
      BY <3>1 DEF Calls
  <2> QED
    BY <1>2, <2>1, <2>2
<1>13. SessionTypes'
  BY <1>1, <1>4, <1>11, <1>12 DEF IInv, SessionTypes, Known
<1>14. Reconnects'
  BY <1>1, <1>5 DEF Reconnects
<1> QED
  BY <1>6, <1>9, <1>10, <1>13, <1>14 DEF IInv

LEMMA FailingHandshakes == IInv /\ HandshakeFails => IInv'
<1> SUFFICES ASSUME IInv, HandshakeFails PROVE IInv'
  OBVIOUS
<1>1. UNCHANGED <<post, script>> /\ UNCHANGED <<game, sent, life>>
  BY DEF HandshakeFails, rest
<1>2. GameTypes'
  BY <1>1, GameStays, TroubleCounts DEF IInv, HandshakeFails
<1>3. PICK c \in calls :
        /\ calls' = calls \ {c}
        /\ IF (c.fresh \/ ~c.opening) /\ g.open THEN Abort ELSE UNCHANGED <<g, link, wire>>
  BY DEF HandshakeFails
<1>4. g.up /\ calls' \subseteq Calls /\ \A d \in calls' : d.stage # "asked" => d.run \in Runs
  BY <1>3 DEF IInv, Reconnects, SessionTypes
<1>5. CASE Abort
  <2>1. g' = Shut(g) /\ link' = "off" /\ wire' = <<>>
    BY <1>5 DEF Abort
  <2>2. /\ g' \in Sessions /\ OneRun(g)' /\ ScriptsFit' /\ WaitersHear'
        /\ g'.up = g.up /\ g'.run = g.run /\ g'.open = FALSE /\ g'.again = TRUE
    BY <1>1, <2>1, Shutting
  <2>3. wire' \in Seq(Events)
    BY <2>1, EmptySeq
  <2>4. SessionTypes' /\ Reconnects'
    BY <1>1, <1>4, <2>1, <2>2, <2>3 DEF IInv, SessionTypes, Reconnects, Known
  <2> QED
    BY <1>2, <2>2, <2>4 DEF IInv
<1>6. CASE UNCHANGED <<g, link, wire>>
  <2>1. g' \in Sessions /\ SameBooks(g, g') /\ OneRun(g)'
    BY <1>6 DEF IInv, SessionTypes, SameBooks
  <2>2. Cut' = Cut /\ \A d \in Cmds : OnTheWire(d) => OnTheWire(d)'
    BY <1>6 DEF Cut, OnTheWire
  <2>3. \A d \in over' \ over : Cut' \/ OnTheWire(d)'
    BY <1>1 DEF game
  <2>4. ScriptsFit' /\ WaitersHear'
    BY <1>1, <2>1, <2>2, <2>3, Aside
  <2>5. SessionTypes' /\ Reconnects'
    <3>1. calls # {}
      BY <1>3
    <3> QED
      BY <1>1, <1>4, <1>6, <3>1 DEF IInv, SessionTypes, Reconnects, Known
  <2> QED
    BY <1>2, <2>1, <2>4, <2>5 DEF IInv
<1> QED
  BY <1>3, <1>5, <1>6

LEMMA TakingHandshakes == IInv /\ TakeHandshake => IInv'
<1> SUFFICES ASSUME IInv, TakeHandshake PROVE IInv'
  OBVIOUS
<1>1. UNCHANGED <<post, script>> /\ UNCHANGED <<game, sent, life>> /\ troubles' = troubles
  BY DEF TakeHandshake, rest
<1>2. GameTypes'
  BY <1>1, GameStays DEF IInv, GameTypes
<1>3. PICK c \in calls :
        /\ c.stage = "answered" /\ calls' = calls \ {c}
        /\ IF ~g.up \/ ~c.fresh THEN UNCHANGED <<g, link, wire>>
           ELSE IF NewRun(g, c.run) THEN IF g.open THEN Abort ELSE UNCHANGED <<g, link, wire>>
           ELSE g' = Handshake(g, c) /\ UNCHANGED <<link, wire>>
  BY DEF TakeHandshake
<1>4. /\ g.up /\ calls' \subseteq Calls /\ c \in Calls /\ c.run \in Runs /\ g \in Sessions /\ OneRun(g)
      /\ \A d \in calls' : d.stage # "asked" => d.run \in Runs
  BY <1>3 DEF IInv, Reconnects, SessionTypes
<1>5. g.open \/ g.again
  BY <1>3 DEF IInv, Reconnects, SessionTypes, Sessions
<1>6. CASE Abort
  <2>1. g' = Shut(g) /\ link' = "off" /\ wire' = <<>>
    BY <1>6 DEF Abort
  <2>2. /\ g' \in Sessions /\ OneRun(g)' /\ ScriptsFit' /\ WaitersHear'
        /\ g'.up = g.up /\ g'.run = g.run /\ g'.open = FALSE /\ g'.again = TRUE
    BY <1>1, <2>1, Shutting
  <2>3. wire' \in Seq(Events)
    BY <2>1, EmptySeq
  <2>4. SessionTypes' /\ Reconnects'
    BY <1>1, <1>4, <2>1, <2>2, <2>3 DEF IInv, SessionTypes, Reconnects, Known
  <2> QED
    BY <1>2, <2>2, <2>4 DEF IInv
<1>7. CASE UNCHANGED <<g, link, wire>>
  <2>1. g' \in Sessions /\ SameBooks(g, g') /\ OneRun(g)'
    BY <1>4, <1>7 DEF SameBooks
  <2>2. Cut' = Cut /\ \A d \in Cmds : OnTheWire(d) => OnTheWire(d)'
    BY <1>7 DEF Cut, OnTheWire
  <2>3. \A d \in over' \ over : Cut' \/ OnTheWire(d)'
    BY <1>1 DEF game
  <2>4. ScriptsFit' /\ WaitersHear'
    BY <1>1, <2>1, <2>2, <2>3, Aside
  <2>5. SessionTypes' /\ Reconnects'
    BY <1>1, <1>4, <1>5, <1>7 DEF IInv, SessionTypes, Reconnects, Known
  <2> QED
    BY <1>2, <2>1, <2>4, <2>5 DEF IInv
<1>8. CASE ~NewRun(g, c.run) /\ g' = Handshake(g, c) /\ UNCHANGED <<link, wire>>
  <2>1. Follows(g, g') /\ KeepsEarly(g, g') /\ g'.snap = g.snap /\ g'.marked = g.marked
    BY <1>4, <1>8, Confirming
  <2>2. Cut' = Cut /\ \A d \in Cmds : OnTheWire(d) => OnTheWire(d)'
    BY <1>8, <2>1 DEF Cut, OnTheWire, Follows
  <2>3. \A d \in over' \ over : Cut' \/ OnTheWire(d)'
    BY <1>1 DEF game
  <2>4. ASSUME NEW r \in Runs, NEW n \in Nat, n <= Len(g.disk[r])
        PROVE  \/ Missed(g', n, r)
               \/ /\ ~Missed(g, n, r)
                  /\ \A d \in Cmds : (g.cmds[d] # "unknown" => g'.cmds[d] # "unknown")
                                     /\ (Early(g, d) => Early(g', d))
                  /\ \/ Cut'
                     \/ ~Cut /\ \A d \in Cmds : OnTheWire(d) => OnTheWire(d)'
    <3>1. /\ Missed(g, n, r) => Missed(g', n, r)
          /\ Missed(g', n, r) \/ \A d \in Cmds : g.cmds[d] # "unknown" => g'.cmds[d] # "unknown"
          /\ Missed(g', n, r) \/ \A d \in Cmds : Early(g, d) => Early(g', d)
      BY <2>1, <2>4 DEF Follows, KeepsEarly
    <3> QED
      BY <2>2, <3>1
  <2>5. Carries
    BY <1>1, <2>1, <2>3, <2>4 DEF Carries, Follows
  <2>6. g' \in Sessions /\ OneRun(g)' /\ g'.up = g.up /\ g'.open = g.open /\ g'.again = g.again
    BY <2>1 DEF Follows
  <2>7. ScriptsFit' /\ WaitersHear'
    BY <2>5, <2>6, Carrying
  <2>8. SessionTypes'
    BY <1>1, <1>4, <1>8, <2>6 DEF IInv, SessionTypes, Known
  <2>9. Reconnects'
    BY <1>4, <1>5, <1>8, <2>6 DEF IInv, Reconnects
  <2> QED
    BY <1>2, <2>6, <2>7, <2>8, <2>9 DEF IInv
<1> QED
  BY <1>3, <1>6, <1>7, <1>8

LEMMA Delivering == IInv /\ Deliver => IInv'
<1> SUFFICES ASSUME IInv, Deliver PROVE IInv'
  OBVIOUS
<1> DEFINE e == Head(wire)
           call == [fresh |-> TRUE, opening |-> FALSE, stage |-> "asked", run |-> None, seq |-> 0,
                    active |-> None]
<1>1. /\ UNCHANGED <<post, link, script>> /\ UNCHANGED <<game, sent, life>> /\ troubles' = troubles
      /\ g.open /\ wire # <<>> /\ wire' = Tail(wire) /\ g' = Accept(g, e)
      /\ calls' = calls \/ calls' = calls \cup {call}
  BY DEF Deliver, rest
<1>2. GameTypes'
  BY <1>1, GameStays DEF IInv, GameTypes
<1>3. /\ g \in Sessions /\ OneRun(g) /\ wire \in Seq(Events) /\ calls \subseteq Calls
      /\ \A c \in calls : c.stage # "asked" => c.run \in Runs
  BY DEF IInv, SessionTypes
<1>4. /\ e \in Events /\ wire' \in Seq(Events) /\ e = wire[1]
      /\ DOMAIN wire = 1..Len(wire) /\ Len(wire) \in Nat \ {0}
      /\ DOMAIN wire' = 1..(Len(wire) - 1) /\ \A i \in 1..(Len(wire) - 1) : wire'[i] = wire[i + 1]
  <2> HIDE DEF Events, e
  <2>1. /\ Len(wire) \in Nat \ {0} /\ Tail(wire) \in Seq(Events) /\ Len(Tail(wire)) = Len(wire) - 1
        /\ \A i \in 1..Len(Tail(wire)) : Tail(wire)[i] = wire[i + 1]
        /\ Head(wire) \in Events /\ Head(wire) = wire[1]
    BY <1>1, <1>3, HeadTailProperties, EmptySeq, LenProperties
  <2>2. DOMAIN wire = 1..Len(wire) /\ DOMAIN Tail(wire) = 1..Len(Tail(wire))
    BY <1>3, <2>1, LenProperties
  <2> QED
    BY <1>1, <2>1, <2>2 DEF e
<1> HIDE DEF e
<1>5. /\ e.kind = "snapshot" => e.run \in Runs
      /\ e.kind = "lifecycle" => e.cmd \in Cmds /\ e.done \in BOOLEAN
      /\ e.kind \in {"snapshot", "lifecycle", "reset"}
  BY <1>4 DEF Events, Outcomes
<1>6. \A c : OnTheWire(c) => OnTheWire(c)' \/ (e.kind = "lifecycle" /\ e.cmd = c /\ e.done)
  <2> SUFFICES ASSUME NEW c, OnTheWire(c)
               PROVE  OnTheWire(c)' \/ (e.kind = "lifecycle" /\ e.cmd = c /\ e.done)
    OBVIOUS
  <2>1. PICK i \in DOMAIN wire : wire[i].kind = "lifecycle" /\ wire[i].cmd = c /\ wire[i].done
    BY DEF OnTheWire
  <2>2. CASE i = 1
    BY <1>4, <2>1, <2>2
  <2>3. CASE i # 1
    <3>1. i - 1 \in 1..(Len(wire) - 1) /\ (i - 1) + 1 = i
      BY <1>4, <2>3
    <3>2. i - 1 \in DOMAIN wire' /\ wire'[i - 1] = wire[i]
      BY <1>4, <3>1
    <3> QED
      BY <2>1, <3>2 DEF OnTheWire
  <2> QED
    BY <2>2, <2>3
<1>7. /\ Follows(g, g') /\ KeepsEarly(g, g')
      /\ \A r \in Runs, n \in Nat : n <= Len(g.disk[r]) /\ g.self =>
           \/ Missed(g', n, r)
           \/ Cut'
           \/ /\ ~Cut
              /\ \A c \in Cmds : OnTheWire(c) =>
                   \/ OnTheWire(c)' \/ Ended(g', n, r, c)
                   \/ g.cmds[c] = "unknown" /\ Early(g', c)
  <2>1. CASE e.kind = "snapshot"
    <3>1. g' = AcceptSnapshot(g, e.run)
      BY <1>1, <2>1 DEF Accept
    <3>2. /\ Follows(g, g') /\ KeepsEarly(g, g')
          /\ g.again /\ ~g.marked => \A q \in Runs, n \in Nat : n <= Len(g.disk[q]) => Missed(g', n, q)
      BY <1>3, <1>5, <2>1, <3>1, Snapshot
    <3>3. Cut => Cut' \/ (g.again /\ ~g.marked)
      BY <1>1 DEF Cut
    <3> QED
      BY <1>6, <2>1, <3>2, <3>3
  <2>2. CASE e.kind = "reset"
    <3>1. g' = AcceptReset(g)
      BY <1>1, <2>2 DEF Accept
    <3> QED
      BY <1>3, <3>1, Resetting
  <2>3. CASE e.kind = "lifecycle" /\ g.self
    <3>1. g' = ApplyLifecycle(g, e.cmd, e.done)
      BY <1>1, <2>3 DEF Accept
    <3>2. /\ Follows(g, g') /\ KeepsEarly(g, g') /\ g'.snap = g.snap /\ g'.marked = g.marked
          /\ e.done => \A r \in Runs, n \in Nat : n <= Len(g.disk[r]) =>
              \/ Missed(g', n, r) \/ Ended(g', n, r, e.cmd)
              \/ g.cmds[e.cmd] = "unknown" /\ Early(g', e.cmd)
      BY <1>3, <1>5, <2>3, <3>1, Outcome
    <3>3. Cut' = Cut
      BY <1>1, <3>2 DEF Cut, Follows
    <3> QED
      BY <1>6, <3>2, <3>3
  <2>4. CASE e.kind = "lifecycle" /\ ~g.self
    <3>1. g' = g
      BY <1>1, <2>4 DEF Accept
    <3>2. Follows(g, g') /\ KeepsEarly(g, g')
      BY <1>3, <3>1, Unchanged DEF Follows, KeepsEarly
    <3> QED
      BY <2>4, <3>2
  <2> QED
    BY <1>5, <2>1, <2>2, <2>3, <2>4
<1>8. g' \in Sessions /\ OneRun(g)' /\ g'.up = g.up /\ g'.open = g.open /\ g'.again = g.again
  BY <1>7 DEF Follows
<1>9. ASSUME NEW r \in Runs, NEW n \in Nat, n <= Len(g.disk[r])
      PROVE  \/ Missed(g', n, r)
             \/ /\ ~Missed(g, n, r)
                /\ \A c \in Cmds : (g.cmds[c] # "unknown" => g'.cmds[c] # "unknown")
                                   /\ (Early(g, c) => Early(g', c))
  <2>1. /\ Missed(g, n, r) => Missed(g', n, r)
        /\ Missed(g', n, r) \/ \A d \in Cmds : g.cmds[d] # "unknown" => g'.cmds[d] # "unknown"
        /\ Missed(g', n, r) \/ \A d \in Cmds : Early(g, d) => Early(g', d)
    BY <1>7, <1>9 DEF Follows, KeepsEarly
  <2> QED
    BY <2>1
<1>10. Carries
  <2>1. Extended(g, g') /\ (g.self => g'.self) /\ over' = over
    BY <1>1, <1>7 DEF Follows, game
  <2>2. \A r \in Runs, n \in Nat : n <= Len(g.disk[r]) =>
       \/ Missed(g', n, r)
       \/ /\ ~Missed(g, n, r)
          /\ \A c \in Cmds : (g.cmds[c] # "unknown" => g'.cmds[c] # "unknown")
                             /\ (Early(g, c) => Early(g', c))
          /\ g.self => \/ Cut'
                       \/ /\ ~Cut
                          /\ \A c \in Cmds : OnTheWire(c) =>
                               \/ OnTheWire(c)' \/ Ended(g', n, r, c)
                               \/ g.cmds[c] = "unknown" /\ Early(g', c)
    BY <1>7, <1>9
  <2> QED
    BY <1>1, <2>1, <2>2 DEF Carries
<1>11. ScriptsFit' /\ WaitersHear'
  BY <1>8, <1>10, Carrying
<1>12. SessionTypes'
  <2>1. call \in Calls /\ call.stage = "asked"
    BY DEF Calls, Maybe
  <2> HIDE DEF call
  <2>2. calls' \subseteq Calls /\ \A c \in calls' : c.stage # "asked" => c.run \in Runs
    BY <1>1, <1>3, <2>1
  <2> QED
    BY <1>1, <1>4, <1>8, <2>2 DEF IInv, SessionTypes, Known
<1>13. Reconnects'
  <2>1. g.up
    BY <1>1 DEF IInv, Reconnects
  <2> QED
    BY <1>1, <1>8, <2>1 DEF IInv, Reconnects
<1> QED
  BY <1>2, <1>8, <1>11, <1>12, <1>13 DEF IInv

-----------------------------------------------------------------------------
(* The scripts' steps.                                                      *)

LEMMA NoCommandIsNone == \A c \in Known : c # None
BY GatewayAssumption, LenProperties DEF Known

LEMMA NotWaiting ==
  ASSUME script'.pc # "sending", script'.waits = None
  PROVE  WaitersHear'
<1>1. \A c \in Known' : c # None
  BY GatewayAssumption DEF Known
<1> QED
  BY <1>1 DEF WaitersHear, Sending

LEMMA Closing ==
  ASSUME IInv, Close, UNCHANGED <<game, sent, life>>, troubles' \in Nat
  PROVE  IInv'
<1>1. g \in Sessions
  BY DEF IInv, SessionTypes
<1>2. /\ g' = [NoSession EXCEPT !.disk = g.disk, !.full = g.full]
      /\ calls' = {} /\ post' = [cmd |-> None, stage |-> "none"]
      /\ link' = "off" /\ wire' = <<>> /\ script' = Idle
  BY DEF Close
<1>3. g' \in Sessions
  <2>1. g.disk \in [Runs -> Seq(Rows)] /\ g.full \in BOOLEAN
    BY <1>1 DEF Sessions
  <2>2. None \in Maybe(Runs) /\ [c \in Cmds |-> "unknown"] \in [Cmds -> {"unknown", "live", "done"}]
        /\ [c \in Cmds |-> <<>>] \in [Cmds -> Seq(BOOLEAN)] /\ 0 \in Nat
    BY EmptySeq DEF Maybe
  <2>3. g' = [up |-> FALSE, run |-> None, seq |-> 0, open |-> FALSE, snap |-> FALSE,
              self |-> FALSE, hand |-> FALSE, world |-> None, met |-> None, again |-> FALSE,
              marked |-> FALSE, journal |-> None, whole |-> TRUE,
              cmds |-> [c \in Cmds |-> "unknown"], early |-> [c \in Cmds |-> <<>>],
              disk |-> g.disk, full |-> g.full]
    BY <1>2 DEF NoSession
  <2> QED
    BY <2>1, <2>2, <2>3, Zenon DEF Sessions
<1>4. /\ g'.up = FALSE /\ g'.open = FALSE /\ g'.again = FALSE /\ g'.run = None /\ g'.journal = None
      /\ g'.snap = FALSE /\ g'.hand = FALSE
  BY <1>2 DEF NoSession
<1>5. GameTypes'
  BY GameStays DEF IInv
<1>6. SessionTypes'
  <2>1. wire' \in Seq(Events)
    BY <1>2, EmptySeq
  <2>2. post' \in Posts /\ script' \in Players
    BY <1>2 DEF Posts, Players, Idle, Maybe, ScriptKinds, Stages
  <2> QED
    BY <1>2, <1>3, <2>1, <2>2 DEF SessionTypes
<1>7. OneRun(g)' /\ Reconnects'
  BY <1>2, <1>4 DEF OneRun, Reconnects
<1>8. ScriptsFit'
  BY <1>2 DEF ScriptsFit, Idle
<1>9. WaitersHear'
  BY <1>2, NotWaiting DEF Idle
<1> QED
  BY <1>5, <1>6, <1>7, <1>8, <1>9 DEF IInv

LEMMA Starting == IInv /\ Start => IInv'
<1> SUFFICES ASSUME IInv, Start PROVE IInv'
  OBVIOUS
<1>1. /\ ~g.up /\ life' = life + 1 /\ UNCHANGED <<calls, post, link, wire, game, sent>>
      /\ g' = [NoSession EXCEPT !.up = TRUE, !.disk = g.disk, !.full = g.full]
  BY DEF Start
<1>2. PICK k \in Scripts : script' = [Idle EXCEPT !.kind = k, !.pc = "join"]
  BY DEF Start
<1>3. g \in Sessions /\ calls = {} /\ post.stage = "none" /\ link = "off"
  BY <1>1 DEF IInv, SessionTypes, Reconnects
<1>4. g' \in Sessions
  <2>1. g.disk \in [Runs -> Seq(Rows)] /\ g.full \in BOOLEAN
    BY <1>3 DEF Sessions
  <2>2. None \in Maybe(Runs) /\ [c \in Cmds |-> "unknown"] \in [Cmds -> {"unknown", "live", "done"}]
        /\ [c \in Cmds |-> <<>>] \in [Cmds -> Seq(BOOLEAN)] /\ 0 \in Nat
    BY EmptySeq DEF Maybe
  <2>3. g' = [up |-> TRUE, run |-> None, seq |-> 0, open |-> FALSE, snap |-> FALSE,
              self |-> FALSE, hand |-> FALSE, world |-> None, met |-> None, again |-> FALSE,
              marked |-> FALSE, journal |-> None, whole |-> TRUE,
              cmds |-> [c \in Cmds |-> "unknown"], early |-> [c \in Cmds |-> <<>>],
              disk |-> g.disk, full |-> g.full]
    BY <1>1 DEF NoSession
  <2> QED
    BY <2>1, <2>2, <2>3, Zenon DEF Sessions
<1>5. /\ g'.up = TRUE /\ g'.open = FALSE /\ g'.run = None /\ g'.journal = None
      /\ g'.snap = FALSE /\ g'.hand = FALSE
  BY <1>1 DEF NoSession
<1>6. k \in {"scripted", "builder", "agent"}
  BY GatewayAssumption
<1>7. /\ script' \in Players /\ script'.kind = k /\ script'.pc = "join" /\ script'.waits = None
      /\ script'.of = None
  BY <1>2, <1>6 DEF Players, Idle, Maybe, ScriptKinds, Stages
<1>8. GameTypes'
  <2>1. troubles' \in Nat /\ life' \in Nat
    BY <1>1 DEF IInv, GameTypes, Start, Trouble
  <2> QED
    BY <1>1, <2>1 DEF IInv, GameTypes, game, Known
<1>9. SessionTypes'
  BY <1>1, <1>3, <1>4, <1>7 DEF IInv, SessionTypes, Known
<1>10. OneRun(g)' /\ Reconnects'
  BY <1>1, <1>3, <1>5 DEF OneRun, Reconnects
<1>11. ScriptsFit'
  BY <1>6, <1>7 DEF ScriptsFit
<1>12. WaitersHear'
  BY <1>7, NotWaiting
<1> QED
  BY <1>8, <1>9, <1>10, <1>11, <1>12 DEF IInv

LEMMA Stopping == IInv /\ (Stop \/ PostFails) => IInv'
<1> SUFFICES ASSUME IInv, Stop \/ PostFails PROVE IInv'
  OBVIOUS
<1>1. Close /\ UNCHANGED <<game, sent, life>> /\ Trouble
  BY DEF Stop, PostFails
<1>2. troubles' \in Nat
  BY <1>1, TroubleCounts DEF IInv
<1> QED
  BY <1>1, <1>2, Closing

(* A script that closes the session instead of going on.                    *)
LEMMA GivingUp == IInv /\ Close /\ UNCHANGED <<others, life>> => IInv'
BY Closing DEF others, game, IInv, GameTypes

LEMMA ScriptRuns ==
  ASSUME IInv, script.pc # "off"
  PROVE  g.up /\ script.kind # "none"
BY DEF IInv, Reconnects, ScriptsFit, Idle

(* A script goes on without reading or recording anything.                  *)
LEMMA GoingOn ==
  ASSUME IInv, UNCHANGED gateway, UNCHANGED <<others, life>>, script' \in Players,
         script.pc # "off", script'.pc \notin {"off", "join", "sending"}, script.pc # "sending",
         script'.kind = script.kind, script'.cursor = script.cursor, script'.of = script.of,
         script'.waits \in {script.waits, None}
  PROVE  IInv'
<1>1. UNCHANGED <<g, calls, post, link, wire, sent, life, troubles>> /\ UNCHANGED game
  BY DEF gateway, others
<1>2. GameTypes'
  BY <1>1, GameStays DEF IInv, GameTypes
<1>3. SessionTypes'
  BY <1>1 DEF IInv, SessionTypes, Known
<1>4. OneRun(g)' /\ Reconnects'
  BY <1>1, ScriptRuns DEF IInv, OneRun, Reconnects
<1>5. ScriptsFit'
  BY <1>1, ScriptRuns DEF IInv, ScriptsFit, Known
<1>6. WaitersHear'
  <2> DEFINE r == script.of
  <2> SUFFICES ASSUME NEW c \in Known, script'.waits = c, r = sent[c].run
               PROVE  /\ g.cmds[c] # "unknown" \/ Missed(g, script.cursor, r)
                      /\ c \in over => \/ Missed(g, script.cursor, r) \/ Cut \/ OnTheWire(c)
                                       \/ Ended(g, Past', r, c)
    BY <1>1 DEF WaitersHear, Sending, Known, Cut, OnTheWire, game
  <2>1. script.waits = c /\ ~Sending(c)
    BY NoCommandIsNone DEF Sending
  <2>2. Past' = Past
    BY DEF Past
  <2> QED
    BY <2>1, <2>2 DEF IInv, WaitersHear
<1> QED
  BY <1>2, <1>3, <1>4, <1>5, <1>6 DEF IInv

LEMMA Passing == IInv /\ Pass => IInv'
<1> SUFFICES ASSUME IInv, Pass PROVE IInv'
  OBVIOUS
<1> DEFINE next == IF script.ready THEN "changes" ELSE "look"
<1>1. /\ script.pc = "act" /\ script' = [script EXCEPT !.pc = next] /\ UNCHANGED gateway
      /\ UNCHANGED <<others, life>>
  BY DEF Pass
<1>2. script \in Players /\ next \in {"changes", "look"}
  BY DEF IInv, SessionTypes
<1> HIDE DEF next
<1>3. /\ script' \in Players /\ script'.pc = next /\ script'.kind = script.kind
      /\ script'.cursor = script.cursor /\ script'.of = script.of /\ script'.waits = script.waits
  BY <1>1, <1>2 DEF Players, Stages
<1> QED
  BY <1>1, <1>2, <1>3, GoingOn

LEMMA Looking == IInv /\ Look => IInv'
<1> SUFFICES ASSUME IInv, Look PROVE IInv'
  OBVIOUS
<1>1. script.pc = "look" /\ UNCHANGED <<others, life>>
  BY DEF Look
<1>2. script \in Players /\ g.run \in Maybe(Runs) /\ Ready(g) \in BOOLEAN
  BY DEF IInv, SessionTypes, Sessions, Ready
<1>3. CASE Close
  BY <1>1, <1>3, GivingUp
<1>4. CASE script' = [script EXCEPT !.pc = "act", !.run = g.run, !.ready = Ready(g)] /\ UNCHANGED gateway
  <2>1. /\ script' \in Players /\ script'.pc = "act" /\ script'.kind = script.kind
        /\ script'.cursor = script.cursor /\ script'.of = script.of /\ script'.waits = script.waits
    BY <1>2, <1>4 DEF Players, Stages
  <2> QED
    BY <1>1, <1>4, <2>1, GoingOn
<1>5. CASE /\ script' = [script EXCEPT !.pc = IF Cursor <= script.cursor THEN "check" ELSE "changes"]
           /\ UNCHANGED gateway
  <2> DEFINE next == IF Cursor <= script.cursor THEN "check" ELSE "changes"
  <2>1. next \in {"check", "changes"} /\ script' = [script EXCEPT !.pc = next]
    BY <1>5
  <2> HIDE DEF next
  <2>2. /\ script' \in Players /\ script'.pc = next /\ script'.kind = script.kind
        /\ script'.cursor = script.cursor /\ script'.of = script.of /\ script'.waits = script.waits
    BY <1>2, <2>1 DEF Players, Stages
  <2> QED
    BY <1>1, <1>5, <2>1, <2>2, GoingOn
<1> QED
  BY <1>3, <1>4, <1>5 DEF Look

LEMMA Checking == IInv /\ Check => IInv'
<1> SUFFICES ASSUME IInv, Check PROVE IInv'
  OBVIOUS
<1>1. script.pc = "check" /\ UNCHANGED <<others, life>>
  BY DEF Check
<1>2. script \in Players
  BY DEF IInv, SessionTypes
<1>3. CASE Close
  BY <1>1, <1>3, GivingUp
<1>4. CASE script' = [script EXCEPT !.pc = "act", !.waits = None] /\ UNCHANGED gateway
  <2>1. /\ script' \in Players /\ script'.pc = "act" /\ script'.kind = script.kind
        /\ script'.cursor = script.cursor /\ script'.of = script.of /\ script'.waits = None
    BY <1>2, <1>4 DEF Players, Stages, Maybe
  <2> QED
    BY <1>1, <1>4, <2>1, GoingOn
<1>5. CASE script' = [script EXCEPT !.pc = "changes"] /\ UNCHANGED gateway
  <2>1. /\ script' \in Players /\ script'.pc = "changes" /\ script'.kind = script.kind
        /\ script'.cursor = script.cursor /\ script'.of = script.of /\ script'.waits = script.waits
    BY <1>2, <1>5 DEF Players, Stages
  <2> QED
    BY <1>1, <1>5, <2>1, GoingOn
<1> QED
  BY <1>3, <1>4, <1>5 DEF Check

LEMMA ReaderOfRun ==
  ASSUME IInv, g.run # None
  PROVE  /\ g.journal = g.run /\ g.run \in Runs /\ g.disk[g.run] \in Seq(Rows)
         /\ Cursor = Len(g.disk[g.run]) /\ Cursor \in Nat
<1>1. g \in Sessions /\ g.journal = g.run
  BY DEF IInv, SessionTypes, OneRun
<1>2. g.run \in Runs
  BY <1>1 DEF Sessions, Maybe
<1>3. Cursor = Len(g.disk[g.run])
  BY <1>1 DEF Cursor
<1> QED
  BY <1>1, <1>2, <1>3, Journals

LEMMA Joining == IInv /\ Join => IInv'
<1> SUFFICES ASSUME IInv, Join PROVE IInv'
  OBVIOUS
<1>1. script.pc = "join" /\ Ready(g) /\ UNCHANGED <<others, life>>
  BY DEF Join
<1>2. CASE Close
  BY <1>1, <1>2, GivingUp
<1>3. CASE /\ script' = [script EXCEPT !.pc = "act", !.run = g.run, !.cursor = Cursor,
                                       !.of = g.run, !.ready = TRUE]
           /\ UNCHANGED gateway
  <2>1. g \in Sessions /\ script \in Players /\ g.run # None /\ g.self
    BY <1>1 DEF IInv, SessionTypes, OneRun, Ready
  <2>2. /\ g.run \in Runs /\ Cursor = Len(g.disk[g.run]) /\ Cursor \in Nat
    BY <2>1, ReaderOfRun
  <2>3. /\ script' \in Players /\ script'.pc = "act" /\ script'.kind = script.kind
        /\ script'.cursor = Cursor /\ script'.of = g.run /\ script'.waits = script.waits
    BY <1>3, <2>1, <2>2 DEF Players, Stages, Maybe
  <2>4. script.waits = None /\ script.kind # "none"
    BY <1>1 DEF IInv, ScriptsFit
  <2>5. UNCHANGED <<g, calls, post, link, wire, sent, life, troubles>> /\ UNCHANGED game
    BY <1>1, <1>3 DEF gateway, others
  <2>6. GameTypes'
    BY <2>5, GameStays DEF IInv, GameTypes
  <2>7. SessionTypes'
    BY <2>3, <2>5 DEF IInv, SessionTypes, Known
  <2>8. OneRun(g)' /\ Reconnects'
    BY <1>1, <2>5, ScriptRuns DEF IInv, OneRun, Reconnects
  <2>9. ScriptsFit'
    BY <2>1, <2>2, <2>3, <2>4, <2>5 DEF ScriptsFit
  <2>10. WaitersHear'
    BY <2>3, <2>4, NotWaiting
  <2> QED
    BY <2>6, <2>7, <2>8, <2>9, <2>10 DEF IInv
<1> QED
  BY <1>2, <1>3 DEF Join

LEMMA Sends == IInv /\ Send => IInv'
<1> SUFFICES ASSUME IInv, Send PROVE IInv'
  OBVIOUS
<1>1. /\ script.pc = "act" /\ script.waits = None /\ Len(sent) < MaxCmds
      /\ UNCHANGED <<game, life, troubles>>
  BY DEF Send
<1>2. CASE Close /\ UNCHANGED sent
  BY <1>1, <1>2, GivingUp DEF others
<1>3. CASE /\ Ready(g) /\ g.run # None
           /\ sent' = Append(sent, [run |-> g.run, seq |-> g.seq + 1, life |-> life])
           /\ post' = [cmd |-> Len(sent) + 1, stage |-> "asked"]
           /\ g' = [g EXCEPT !.seq = @ + 1]
           /\ script' = [script EXCEPT !.pc = "sending"]
           /\ UNCHANGED <<calls, link, wire>>
  <2> DEFINE S == [run : Runs, seq : Nat, life : Nat]
             order == [run |-> g.run, seq |-> g.seq + 1, life |-> life]
             new == Len(sent) + 1
  <2>1. /\ g \in Sessions /\ script \in Players /\ g.seq \in Nat /\ life \in Nat
        /\ g.run \in Runs /\ sent \in Seq(S) /\ OneRun(g)
    <3>1. /\ g \in Sessions /\ script \in Players /\ life \in Nat /\ sent \in Seq(S) /\ OneRun(g)
      BY DEF IInv, SessionTypes, GameTypes
    <3> QED
      BY <1>3, <3>1 DEF Sessions, Maybe
  <2>2. order \in S
    BY <2>1
  <2> HIDE DEF S, order
  <2>3. /\ sent' \in Seq(S) /\ Len(sent') = new /\ new \in Nat /\ Len(sent) \in Nat
        /\ \A i \in 1..Len(sent) : sent'[i] = sent[i]
    BY <1>3, <2>1, <2>2, AppendProperties, LenProperties DEF order
  <2>4. Known' = Known \cup {new} /\ new \in Cmds /\ new \notin Known /\ Known' \subseteq Cmds
    BY <1>1, <2>3, GatewayAssumption DEF Known, Cmds
  <2> HIDE DEF new
  <2>5. g.seq + 1 \in Nat /\ g' = [g EXCEPT !.seq = g.seq + 1]
    BY <1>3, <2>1
  <2>6. g' \in Sessions
    BY <2>1, <2>5, Zenon DEF Sessions
  <2>7. /\ SameBooks(g, g') /\ g'.up = g.up /\ g'.open = g.open /\ g'.snap = g.snap /\ g'.hand = g.hand
        /\ g'.world = g.world /\ g'.met = g.met /\ g'.again = g.again /\ g'.marked = g.marked
        /\ g'.journal = g.journal
    BY <2>1, <2>5 DEF Sessions, SameBooks
  <2>8. /\ script' \in Players /\ script'.pc = "sending" /\ script'.kind = script.kind
        /\ script'.cursor = script.cursor /\ script'.of = script.of /\ script'.waits = None
    BY <1>1, <1>3, <2>1 DEF Players, Stages
  <2>9. post' \in Posts /\ post'.stage = "asked" /\ post'.cmd = new
    BY <1>3, <2>4 DEF Posts, Maybe, new
  <2>10. GameTypes'
    <3>1. Len(sent') <= MaxCmds
      BY <1>1, <2>3, GatewayAssumption DEF new
    <3>2. \A i \in DOMAIN inbox : inbox[i] \in Known'
      BY <2>4 DEF IInv, GameTypes
    <3>3. over \subseteq Known' /\ slot \in Known' \cup {None}
      BY <2>4 DEF IInv, GameTypes
    <3>4. sent' \in Seq([run : Runs, seq : Nat, life : Nat])
      BY <2>3 DEF S
    <3> QED
      BY <1>1, <3>1, <3>2, <3>3, <3>4 DEF IInv, GameTypes, game
  <2>11. SessionTypes'
    BY <1>3, <2>4, <2>6, <2>8, <2>9 DEF IInv, SessionTypes
  <2>12. OneRun(g)'
    BY <2>1, <2>7 DEF OneRun, SameBooks
  <2>13. Reconnects'
    BY <1>1, <1>3, <2>7, ScriptRuns DEF IInv, Reconnects, SameBooks
  <2>14. ScriptsFit'
    BY <1>1, <2>4, <2>7, <2>8, <2>9, ScriptRuns DEF IInv, ScriptsFit, SameBooks
  <2>15. WaitersHear'
    <3>1. new \notin over'
      BY <1>1, <2>4 DEF IInv, GameTypes, game
    <3>2. \A c \in Known' : c # None
      BY <2>3, GatewayAssumption DEF Known
    <3>3. ASSUME NEW c \in Known', (Sending(c) \/ script.waits = c)'
          PROVE  c = new /\ script'.waits # c
      BY <2>8, <2>9, <3>2, <3>3 DEF Sending
    <3> QED
      BY <3>1, <3>3 DEF WaitersHear
  <2> QED
    BY <2>10, <2>11, <2>12, <2>13, <2>14, <2>15 DEF IInv
<1> QED
  BY <1>2, <1>3 DEF Send

LEMMA Records == IInv /\ Sent => IInv'
<1> SUFFICES ASSUME IInv, Sent PROVE IInv'
  OBVIOUS
<1> DEFINE ok == post.stage = "accepted"
<1>0. PICK c : c = post.cmd
  OBVIOUS
<1>1. script.pc = "sending" /\ UNCHANGED <<others, life>>
  BY DEF Sent
<1>2. CASE Close
  BY <1>1, <1>2, GivingUp
<1>3. CASE /\ g' = Recording(g, c, ok)
           /\ script' = IF script.kind = "agent" THEN [script EXCEPT !.pc = "act"]
                        ELSE [script EXCEPT !.pc = "changes", !.waits = IF ok THEN c ELSE None]
           /\ post' = [cmd |-> None, stage |-> "none"]
           /\ UNCHANGED <<calls, link, wire>>
  <2>1. g \in Sessions /\ OneRun(g) /\ script \in Players /\ c \in Known /\ script.waits = None
    BY <1>0, <1>1 DEF IInv, SessionTypes, ScriptsFit
  <2>2. c \in Cmds /\ sent[c].run \in Runs /\ ok \in BOOLEAN
    BY <2>1, RunOfSent DEF IInv
  <2> HIDE DEF ok
  <2>3. /\ Follows(g, g') /\ g'.run = g.run /\ g'.snap = g.snap /\ g'.marked = g.marked
        /\ g'.cmds[c] # "unknown"
        /\ Early(g, c) => \A r \in Runs, n \in Nat : n <= Len(g.disk[r]) =>
             Missed(g', n, r) \/ Ended(g', n, r, c)
    BY <1>3, <2>1, <2>2, Answering
  <2>4. g' \in Sessions /\ OneRun(g)' /\ g'.up = g.up /\ g'.open = g.open /\ g'.again = g.again
        /\ (g.self => g'.self) /\ Extended(g, g')
    BY <2>3 DEF Follows
  <2>5. /\ script' \in Players /\ script'.pc \in {"act", "changes"} /\ script'.kind = script.kind
        /\ script'.cursor = script.cursor /\ script'.of = script.of /\ script'.waits \in {c, None}
    <3>1. CASE script.kind = "agent"
      BY <1>3, <2>1, <3>1 DEF Players, Stages
    <3>2. CASE script.kind # "agent"
      <4> DEFINE w == IF ok THEN c ELSE None
      <4>1. w \in {c, None} /\ w \in Maybe(Cmds)
        BY <2>2 DEF Maybe
      <4>2. script' = [script EXCEPT !.pc = "changes", !.waits = w]
        BY <1>3, <3>2
      <4> HIDE DEF w
      <4> QED
        BY <2>1, <4>1, <4>2 DEF Players, Stages
    <3> QED
      BY <3>1, <3>2
  <2>6. UNCHANGED <<calls, link, wire, sent, life, troubles>> /\ UNCHANGED game
    BY <1>1, <1>3 DEF others
  <2>7. GameTypes'
    BY <2>6, GameStays DEF IInv, GameTypes
  <2>8. SessionTypes'
    <3>1. post' \in Posts /\ post'.stage = "none"
      BY <1>3 DEF Posts, Maybe
    <3> QED
      BY <2>4, <2>5, <2>6, <3>1 DEF IInv, SessionTypes
  <2>9. Reconnects'
    BY <1>1, <2>3, <2>4, <2>6, ScriptRuns DEF IInv, Reconnects
  <2>10. script.cursor \in Nat /\ script.of \in Maybe(Runs) /\ (script.cursor >= 0)
    BY <2>1 DEF Players
  <2>11. script.of # None => script.of \in Runs /\ g.self /\ script.cursor <= Len(g.disk[script.of])
    BY <2>10 DEF IInv, ScriptsFit, Maybe
  <2>12. ScriptsFit'
    <3>1. script.of # None => script.cursor <= Len(g'.disk[script.of])
      <4>1. \A r \in Runs : /\ Len(g.disk[r]) \in Nat /\ Len(g'.disk[r]) \in Nat
                            /\ Len(g.disk[r]) <= Len(g'.disk[r])
        BY <2>4 DEF Extended
      <4> QED
        BY <2>10, <2>11, <4>1
    <3>2. script.kind # "none"
      BY <1>1 DEF IInv, ScriptsFit
    <3> QED
      BY <2>1, <2>4, <2>5, <2>6, <2>11, <3>1, <3>2 DEF ScriptsFit, Known
  <2>13. WaitersHear'
    <3> DEFINE r == script.of
               n == script.cursor
    <3>1. ASSUME r = sent[c].run, c \in over
          PROVE  Missed(g', n, r) \/ Cut' \/ OnTheWire(c)' \/ Ended(g', Past', r, c)
      <4>1. Sending(c) /\ Past = n
        BY <1>0, <1>1 DEF Sending, Past
      <4>2. r \in Runs /\ n \in Nat /\ n <= Len(g.disk[r])
        BY <2>2, <2>10, <2>11, <3>1, RunsAreNotNone
      <4>3. Missed(g, n, r) \/ Cut \/ OnTheWire(c) \/ Ended(g, n, r, c) \/ Early(g, c)
        BY <2>1, <3>1, <4>1 DEF IInv, WaitersHear
      <4>4. Missed(g, n, r) => Missed(g', n, r)
        BY <2>3, <4>2 DEF Follows
      <4>5. (Cut => Cut') /\ (OnTheWire(c) => OnTheWire(c)')
        <5>1. Cut => Cut'
          BY <2>3, <2>4, <2>6 DEF Cut
        <5>2. OnTheWire(c) => OnTheWire(c)'
          BY <2>6 DEF OnTheWire
        <5> QED
          BY <5>1, <5>2
      <4>6. Ended(g, n, r, c) => Ended(g', n, r, c)
        BY <2>1, <2>4, <4>2, Lasting
      <4>7. Early(g, c) => Missed(g', n, r) \/ Ended(g', n, r, c)
        BY <2>3, <4>2
      <4>8. Ended(g', n, r, c) => Ended(g', Past', r, c)
        <5>1. \A i \in DOMAIN g'.disk[r] : i \in Nat
          BY <2>4, <4>2, Journals
        <5>2. Past' = n \/ Past' = 0
          BY <2>5 DEF Past
        <5>3. \A i \in Nat : i > n => i > Past'
          BY <4>2, <5>2
        <5> QED
          BY <5>1, <5>3 DEF Ended
      <4> QED
        BY <4>3, <4>4, <4>5, <4>6, <4>7, <4>8
    <3> SUFFICES ASSUME NEW d \in Known, script'.waits = d, r = sent[d].run
                 PROVE  /\ g'.cmds[d] # "unknown"
                        /\ d \in over => \/ Missed(g', n, r) \/ Cut' \/ OnTheWire(d)'
                                         \/ Ended(g', Past', r, d)
      BY <2>5, <2>6 DEF WaitersHear, Sending, Known, game
    <3>2. d = c
      BY <2>5, NoCommandIsNone
    <3> QED
      BY <2>3, <3>1, <3>2
  <2> QED
    BY <2>4, <2>7, <2>8, <2>9, <2>12, <2>13 DEF IInv
<1> QED
  BY <1>0, <1>2, <1>3 DEF Sent

LEMMA Reading == IInv /\ ReadChanges => IInv'
<1> SUFFICES ASSUME IInv, ReadChanges PROVE IInv'
  OBVIOUS
<1> DEFINE n == script.cursor
           new == SubSeq(g.disk[g.journal], n + 1, Cursor)
           ended == \E x \in Range(new) : x.kind = "lifecycle" /\ x.cmd = script.waits /\ x.done
           of == IF g.run = script.of THEN script.of ELSE None
           waits == IF script.kind = "builder" /\ ended THEN None ELSE script.waits
<1>1. script.pc = "changes" /\ UNCHANGED <<others, life>>
  BY DEF ReadChanges
<1>2. CASE Close
  BY <1>1, <1>2, GivingUp
<1>3. CASE /\ ~Gap(g, n, script.run) /\ UNCHANGED gateway
           /\ script' = [script EXCEPT !.pc = "look", !.cursor = Cursor, !.of = of, !.waits = waits]
  <2>1. g \in Sessions /\ script \in Players /\ n \in Nat /\ script.of \in Maybe(Runs) /\ OneRun(g)
        /\ script.waits \in Maybe(Cmds)
    BY DEF IInv, SessionTypes, Players
  <2>2. g.journal = g.run /\ g.run # None
    BY <1>3, <2>1 DEF Gap, OneRun
  <2>3. /\ g.run \in Runs /\ g.disk[g.run] \in Seq(Rows) /\ Cursor = Len(g.disk[g.run]) /\ Cursor \in Nat
        /\ DOMAIN g.disk[g.run] = 1..Len(g.disk[g.run])
    BY <2>1, <2>2, ReaderOfRun, Journals
  <2>4. ~Missed(g, n, g.run) /\ n <= Cursor
    BY <1>3, <2>1, <2>2, <2>3 DEF Gap, Missed
  <2>5. waits \in {script.waits, None} /\ of \in {script.of, None} /\ (of # None => of = g.run)
    OBVIOUS
  <2>6. script.kind = "builder" /\ script.waits # None /\ Ended(g, n, g.run, script.waits) => waits = None
    <3> SUFFICES ASSUME script.kind = "builder", script.waits # None, Ended(g, n, g.run, script.waits)
                 PROVE  ended
      OBVIOUS
    <3>1. PICK i \in DOMAIN g.disk[g.run] :
            i > n /\ g.disk[g.run][i] = Row("lifecycle", script.waits, TRUE)
      BY DEF Ended
    <3> DEFINE m == Cursor
               rows == g.disk[g.run]
    <3>2. rows \in Seq(Rows) /\ n + 1 \in 1..(m + 1) /\ m \in 0..Len(rows) /\ i \in Nat /\ i <= m /\ n \in Nat
      BY <2>1, <2>3, <2>4, <3>1
    <3> HIDE DEF m, rows, n
    <3>3. \A j \in 1..(m - n) : SubSeq(rows, n + 1, m)[j] = rows[n + j]
      <4> HIDE DEF Rows
      <4>1. \A j \in 1..(m - (n + 1) + 1) : SubSeq(rows, n + 1, m)[j] = rows[(n + 1) + j - 1]
        BY <3>2, SubSeqProperties
      <4>2. m \in Nat
        BY <2>3 DEF m
      <4>3. m - (n + 1) + 1 = m - n /\ \A j \in 1..(m - n) : (n + 1) + j - 1 = n + j
        BY <3>2, <4>2
      <4> QED
        BY <4>1, <4>3
    <3>4. DOMAIN SubSeq(rows, n + 1, m) = 1..(m - n)
      BY <2>3, <3>2 DEF m
    <3>5. i - n \in 1..(m - n) /\ n + (i - n) = i
      BY <2>3, <3>1, <3>2 DEF m
    <3>6. new = SubSeq(rows, n + 1, m)
      BY <2>2 DEF n, m, rows
    <3>7. i - n \in DOMAIN new /\ new[i - n] = rows[i]
      BY <3>3, <3>4, <3>5, <3>6
    <3>8. rows[i] \in Range(new)
      BY <3>7 DEF Range
    <3>9. rows[i].kind = "lifecycle" /\ rows[i].cmd = script.waits /\ rows[i].done
      BY <3>1 DEF rows, Row
    <3> QED
      BY <3>8, <3>9
  <2> HIDE DEF of, waits
  <2>7. /\ script' \in Players /\ script'.pc = "look" /\ script'.kind = script.kind
        /\ script'.cursor = Cursor /\ script'.of = of /\ script'.waits = waits
    <3>1. of \in Maybe(Runs) /\ waits \in Maybe(Cmds)
      BY <2>1, <2>5 DEF Maybe
    <3> QED
      BY <1>3, <2>1, <2>3, <3>1 DEF Players, Stages
  <2>8. UNCHANGED <<g, calls, post, link, wire, sent, life, troubles>> /\ UNCHANGED game
    BY <1>1, <1>3 DEF gateway, others
  <2>9. GameTypes'
    BY <2>8, GameStays DEF IInv, GameTypes
  <2>10. SessionTypes'
    BY <2>7, <2>8 DEF IInv, SessionTypes, Known
  <2>11. OneRun(g)' /\ Reconnects'
    BY <1>1, <2>8, ScriptRuns DEF IInv, OneRun, Reconnects
  <2>12. ScriptsFit'
    <3>1. of # None => g.self
      BY <2>5 DEF IInv, ScriptsFit
    <3>2. waits # None => waits \in Known
      BY <2>5 DEF IInv, ScriptsFit
    <3>3. of # None => Cursor <= Len(g.disk[of])
      BY <2>3, <2>5
    <3> QED
      BY <1>1, <2>7, <2>8, <3>1, <3>2, <3>3, ScriptRuns DEF ScriptsFit, Known
  <2>13. WaitersHear'
    <3> SUFFICES ASSUME NEW c \in Known, waits = c, of = sent[c].run
                 PROVE  /\ g.cmds[c] # "unknown" \/ Missed(g, Cursor, of)
                        /\ c \in over => \/ Missed(g, Cursor, of) \/ Cut \/ OnTheWire(c)
                                         \/ Ended(g, Past', of, c)
      BY <2>7, <2>8 DEF WaitersHear, Sending, Known, Cut, OnTheWire, game
    <3>1. c # None /\ script.waits = c
      BY <2>5, NoCommandIsNone
    <3>2. of = g.run /\ script.of = g.run
      BY <2>5, RunOfSent, RunsAreNotNone DEF IInv
    <3>3. /\ g.cmds[c] # "unknown"
          /\ c \in over => Cut \/ OnTheWire(c) \/ Ended(g, Past, of, c)
      BY <1>1, <2>4, <3>1, <3>2 DEF IInv, WaitersHear, Sending
    <3>4. CASE script.kind = "builder"
      BY <1>1, <2>6, <3>1, <3>2, <3>3, <3>4 DEF Past
    <3>5. CASE script.kind # "builder"
      BY <1>1, <2>7, <3>3, <3>5 DEF Past
    <3> QED
      BY <3>4, <3>5
  <2> QED
    BY <2>9, <2>10, <2>11, <2>12, <2>13 DEF IInv
<1> QED
  BY <1>2, <1>3 DEF ReadChanges

-----------------------------------------------------------------------------
(* The invariant holds, and with it the two properties.                     *)

LEMMA InitHolds == Init => IInv
<1> SUFFICES ASSUME Init PROVE IInv
  OBVIOUS
<1> USE DEF Init
<1>1. NoSession \in Sessions
  <2>1. None \in Maybe(Runs) /\ [c \in Cmds |-> "unknown"] \in [Cmds -> {"unknown", "live", "done"}]
        /\ [c \in Cmds |-> <<>>] \in [Cmds -> Seq(BOOLEAN)] /\ [r \in Runs |-> <<>>] \in [Runs -> Seq(Rows)]
        /\ 0 \in Nat
    BY EmptySeq DEF Maybe
  <2> QED
    BY <2>1, Zenon DEF Sessions, NoSession
<1>2. GameTypes
  BY GatewayAssumption DEF GameTypes, Runs, Maybe, Known
<1>3. SessionTypes
  <2>1. wire \in Seq(Events)
    BY EmptySeq
  <2>2. post \in Posts /\ script \in Players
    BY DEF Posts, Players, Idle, Maybe, ScriptKinds, Stages
  <2> QED
    BY <1>1, <2>1, <2>2 DEF SessionTypes
<1>4. OneRun(g) /\ Reconnects /\ ScriptsFit
  BY DEF OneRun, NoSession, Reconnects, ScriptsFit, Idle
<1>5. WaitersHear
  BY NoCommandIsNone DEF WaitersHear, Sending, Idle
<1> QED
  BY <1>2, <1>3, <1>4, <1>5 DEF IInv

LEMMA NextHolds == IInv /\ [Next]_vars => IInv'
<1> SUFFICES ASSUME IInv, [Next]_vars PROVE IInv'
  OBVIOUS
<1>1. CASE Scripting
  BY <1>1, Joining, Sends, Records, Passing, Reading, Looking, Checking DEF Scripting
<1>2. CASE Session
  BY <1>2, Opens, Delivering, Ends, AnsweringHandshakes, TakingHandshakes, Routing DEF Session
<1>3. CASE Game
  BY <1>3, Rejecting, Activating, Ending, Checkpointing, ResettingTheWorld DEF Game
<1>4. CASE Mishap
  BY <1>4, Dropping, FailingHandshakes, Filling, Stopping, Starting DEF Mishap
<1>5. CASE UNCHANGED vars
  BY <1>5 DEF vars, gateway, game, IInv, GameTypes, SessionTypes, OneRun, Reconnects, ScriptsFit,
              WaitersHear, Known, Sending, Past, Cut, OnTheWire
<1> QED
  BY <1>1, <1>2, <1>3, <1>4, <1>5 DEF Next

LEMMA SpecHolds == Spec => []IInv
BY InitHolds, NextHolds, PTL DEF Spec

(* The session of a gateway that calls itself ready is of one run: the      *)
(* entities it shows (stream), the run and the handshake.                   *)
THEOREM SessionsAreOfOneRun == Spec => []ReadyIsOneRun
<1>1. IInv => ReadyIsOneRun
  BY DEF IInv, ReadyIsOneRun, Ready, OneRun
<1> QED
  BY <1>1, SpecHolds, PTL

(* A script that awaits a command that has ended will hear of it or of a    *)
(* gap, whatever calls, events and troubles came in between.                *)
THEOREM WaitsAreHeard == Spec => []NoSilentWait
<1>1. IInv => NoSilentWait
  <2> SUFFICES ASSUME IInv, script.waits # None, script.waits \in over,
                      script.run = sent[script.waits].run, script.run = script.of
               PROVE  WillHear(script.waits)
    BY DEF NoSilentWait
  <2> DEFINE c == script.waits
             r == script.run
  <2>1. c \in Known /\ r \in Runs /\ r # None
    BY RunOfSent, RunsAreNotNone DEF IInv, ScriptsFit
  <2>2. script.pc # "sending" /\ script.of = r
    BY DEF IInv, ScriptsFit
  <2>3. \/ Missed(g, script.cursor, r) \/ Cut \/ OnTheWire(c)
        \/ Ended(g, Past, r, c)
    BY <2>1, <2>2 DEF IInv, WaitersHear, Sending
  <2>4. g.journal = g.run
    BY DEF IInv, OneRun
  <2>5. Missed(g, script.cursor, r) => Gap(g, script.cursor, r)
    BY <2>1, <2>4 DEF Missed, Gap
  <2>6. g.run = r \/ Gap(g, script.cursor, r)
    BY <2>1 DEF Gap
  <2>7. Ended(g, Past, r, c) /\ g.run = r => WillHear(c)
    BY <2>2, <2>4 DEF Ended, WillHear, Past
  <2>8. Cut => ~g.open \/ ~g.snap \/ link # "on"
    BY DEF Cut
  <2> QED
    BY <2>3, <2>5, <2>6, <2>7, <2>8 DEF WillHear
<1> QED
  BY <1>1, SpecHolds, PTL

-----------------------------------------------------------------------------
(* The runner of bots.                                                      *)

Bot ==
  [process : {"none", "alive", "told", "gone"}, said : {"nothing", "success", "failure"}, code : {0, 1},
   watched : BOOLEAN, killing : BOOLEAN, timedOut : BOOLEAN,
   status : {"not_started", "running", "succeeded", "failed"}]

RunnerTypes ==
  /\ runner \in [at : {"ramping", "waiting", "over"}, next : 1..(Count + 1), delayed : BOOLEAN,
                 signals : Nat, summary : {"none", "success", "failure"}]
  /\ bots \in [Bots -> Bot]

(* A bot is launched in its turn and watched until it has its result; one   *)
(* that is not watched has no process left; a success stays one.            *)
Watched(x, launched) ==
  /\ x.status = "not_started" <=> ~launched
  /\ x.watched <=> x.status = "running"
  /\ ~x.watched => x.process \in {"none", "gone"}
  /\ x.status = "succeeded" => x.code = 0 /\ x.said = "success" /\ ~x.timedOut

SummedUp ==
  /\ runner.at = "over" => \A b \in Bots : ~bots[b].watched
  /\ runner.summary = "success" =>
       runner.at = "over" /\ runner.signals = 0 /\ \A b \in Bots : bots[b].status = "succeeded"

RunnerInv == RunnerTypes /\ (\A b \in Bots : Watched(bots[b], b < runner.next)) /\ SummedUp

LEMMA RunnerStarts == ASSUME InitRunner PROVE RunnerInv
BY BotRunnerAssumption
   DEF InitRunner, RunnerInv, RunnerTypes, Watched, SummedUp, Bots, Bot, NoBot

(* A step about one bot that leaves the runner alone.                       *)
LEMMA OneBotGoesOn ==
  ASSUME RunnerInv, NEW b \in Bots, NEW x \in Bot, runner' = runner, bots' = [bots EXCEPT ![b] = x],
         Watched(x, b < runner.next), x.watched => bots[b].watched,
         bots[b].status = "succeeded" => x.status = "succeeded"
  PROVE  RunnerInv'
<1>1. \A c \in Bots : bots'[c] = IF c = b THEN x ELSE bots[c]
  BY DEF RunnerInv, RunnerTypes
<1>2. RunnerTypes'  BY <1>1 DEF RunnerInv, RunnerTypes, Bots
<1>3. \A c \in Bots : Watched(bots'[c], c < runner'.next)
  BY <1>1 DEF RunnerInv
<1>4. SummedUp'  BY <1>1 DEF RunnerInv, SummedUp, Bots
<1> QED  BY <1>2, <1>3, <1>4 DEF RunnerInv, Bots

LEMMA BotGoesOn == ASSUME RunnerInv, NEW b \in Bots, OfBot(b) PROVE RunnerInv'
<1>1. bots[b] \in Bot /\ Watched(bots[b], b < runner.next)
  BY DEF RunnerInv, RunnerTypes
<1> USE DEF Bot, Watched
<1>2. CASE Watchdog(b)
  <2> DEFINE x == [Termed(bots[b]) EXCEPT !.timedOut = TRUE, !.killing = TRUE]
  <2>1. x \in Bot /\ x.watched = bots[b].watched /\ x.status = bots[b].status /\ bots[b].watched
    BY <1>1, <1>2 DEF Watchdog, Termed, Live
  <2> QED  BY <1>1, <1>2, <2>1, OneBotGoesOn DEF Watchdog
<1>3. CASE KillTimer(b)
  <2> DEFINE x == Killed(bots[b])
  <2>1. x \in Bot /\ x = [bots[b] EXCEPT !.process = "gone"]
    BY <1>1, <1>3 DEF KillTimer, Killed
  <2> QED  BY <1>1, <1>3, <2>1, OneBotGoesOn DEF KillTimer
<1>4. CASE Says(b)
  <2>1. PICK said \in {"success", "failure"} : bots' = [bots EXCEPT ![b] = [bots[b] EXCEPT !.said = said]]
    BY <1>4 DEF Says, RunnerInv, RunnerTypes
  <2>2. bots[b].process \in {"alive", "told"} /\ runner' = runner  BY <1>4 DEF Says
  <2> DEFINE x == [bots[b] EXCEPT !.said = said]
  <2>3. x \in Bot /\ Watched(x, b < runner.next) /\ x.watched = bots[b].watched /\ x.status = bots[b].status
    BY <1>1, <2>2
  <2> HIDE DEF x
  <2> QED  BY <2>1, <2>2, <2>3, OneBotGoesOn DEF x
<1>5. CASE Exits(b)
  <2>1. PICK code \in {0, 1} : bots' = [bots EXCEPT ![b].process = "gone", ![b].code = code]
    BY <1>5 DEF Exits
  <2>2. bots[b].process \in {"alive", "told"} /\ runner' = runner  BY <1>5 DEF Exits
  <2> DEFINE x == [bots[b] EXCEPT !.process = "gone", !.code = code]
  <2>3. x \in Bot /\ Watched(x, b < runner.next) /\ x.watched = bots[b].watched /\ x.status = bots[b].status
    BY <1>1, <2>2
  <2>4. bots' = [bots EXCEPT ![b] = x]  BY <2>1 DEF RunnerInv, RunnerTypes
  <2> HIDE DEF x
  <2> QED  BY <2>4, <2>2, <2>3, OneBotGoesOn
<1>6. CASE Closed(b)
  <2>1. PICK status \in {"succeeded", "failed"} :
          /\ bots' = [bots EXCEPT ![b].watched = FALSE, ![b].killing = FALSE, ![b].status = status]
          /\ status = "succeeded" => bots[b].code = 0 /\ ~bots[b].timedOut /\ bots[b].said = "success"
    BY <1>6 DEF Closed
  <2>2. bots[b].watched /\ bots[b].process = "gone" /\ runner' = runner  BY <1>6 DEF Closed, Live
  <2> DEFINE x == [bots[b] EXCEPT !.watched = FALSE, !.killing = FALSE, !.status = status]
  <2>3. x \in Bot /\ Watched(x, b < runner.next) /\ ~x.watched /\ bots[b].status = "running"
    BY <1>1, <2>1, <2>2
  <2>4. bots' = [bots EXCEPT ![b] = x]  BY <2>1 DEF RunnerInv, RunnerTypes
  <2> HIDE DEF x
  <2> QED  BY <2>4, <2>2, <2>3, OneBotGoesOn
<1> QED  BY <1>2, <1>3, <1>4, <1>5, <1>6 DEF OfBot

LEMMA AllSucceeded ==
  ASSUME Number("succeeded") = Count
  PROVE  \A b \in Bots : bots[b].status = "succeeded"
<1> DEFINE S == {b \in Bots : bots[b].status = "succeeded"}
<1>1. IsFiniteSet(Bots) /\ Cardinality(Bots) = Count
  BY FS_Interval, BotRunnerAssumption DEF Bots
<1>2. S \subseteq Bots /\ Cardinality(S) = Count  BY DEF Number
<1>3. S = Bots  BY <1>1, <1>2, FS_Subset
<1> QED  BY <1>3

LEMMA RunnerGoesOn == ASSUME RunnerInv, OfRunner PROVE RunnerInv'
<1>1. CASE Launch
  <2> DEFINE b == runner.next
  <2>1. /\ b \in Bots /\ runner.at = "ramping"
        /\ runner' = [runner EXCEPT !.next = @ + 1, !.delayed = b < Count]
    BY <1>1 DEF Launch, RunnerInv, RunnerTypes, Bots
  <2>2. PICK x \in Bot : Watched(x, TRUE) /\ bots' = [bots EXCEPT ![b] = x]
    BY <1>1 DEF Launch, NoBot, Bot, Watched
  <2>3. \A c \in Bots : bots'[c] = IF c = b THEN x ELSE bots[c]
    BY <2>2 DEF RunnerInv, RunnerTypes
  <2>4. RunnerTypes'
    <3>1. b \in Nat /\ Count \in Nat /\ b + 1 \in 1..(Count + 1)
      BY <2>1, BotRunnerAssumption DEF Bots
    <3>2. runner' \in [at : {"ramping", "waiting", "over"}, next : 1..(Count + 1), delayed : BOOLEAN,
                       signals : Nat, summary : {"none", "success", "failure"}]
      <4> DEFINE n == b + 1
                 d == b < Count
                 N == 1..(Count + 1)
      <4>1. n \in N /\ d \in BOOLEAN /\ runner' = [runner EXCEPT !.next = n, !.delayed = d]
        BY <2>1, <3>1
      <4>2. runner \in [at : {"ramping", "waiting", "over"}, next : N, delayed : BOOLEAN,
                        signals : Nat, summary : {"none", "success", "failure"}]
        BY DEF RunnerInv, RunnerTypes
      <4> HIDE DEF n, d, N
      <4>3. runner' \in [at : {"ramping", "waiting", "over"}, next : N, delayed : BOOLEAN,
                         signals : Nat, summary : {"none", "success", "failure"}]
        BY <4>1, <4>2
      <4> QED  BY <4>3 DEF N
    <3>3. bots' \in [Bots -> Bot]  BY <2>2 DEF RunnerInv, RunnerTypes
    <3> QED  BY <3>2, <3>3 DEF RunnerTypes, Bots
  <2>5. \A c \in Bots : Watched(bots'[c], c < runner'.next)
    <3>1. \A c \in Bots : c < runner'.next <=> c < runner.next \/ c = b
      BY <2>1 DEF RunnerInv, RunnerTypes, Bots
    <3> QED  BY <2>2, <2>3, <3>1 DEF RunnerInv, Watched
  <2>6. SummedUp'  BY <2>1 DEF RunnerInv, RunnerTypes, SummedUp
  <2> QED  BY <2>4, <2>5, <2>6 DEF RunnerInv, Bots
<1>2. CASE Delayed \/ Ramped
  <2>1. /\ bots' = bots /\ runner'.next = runner.next /\ runner'.summary = runner.summary
        /\ runner'.signals = runner.signals
        /\ runner'.at = runner.at \/ (runner.at = "ramping" /\ runner'.at = "waiting")
    BY <1>2 DEF Delayed, Ramped, RunnerInv, RunnerTypes
  <2>2. RunnerTypes'
    BY <1>2 DEF Delayed, Ramped, RunnerInv, RunnerTypes, Bots
  <2> QED  BY <2>1, <2>2 DEF RunnerInv, SummedUp, Bots
<1>3. CASE SumUp
  <2>1. PICK written \in BOOLEAN :
          runner' = [runner EXCEPT !.at = "over", !.summary =
            CASE ~written -> "none"
              [] written /\ Number("succeeded") = Count /\ ~Interrupted -> "success"
              [] OTHER -> "failure"]
    BY <1>3 DEF SumUp
  <2>2. bots' = bots /\ \A b \in 1..(runner.next - 1) : bots[b].status # "running"
    BY <1>3 DEF SumUp
  <2>3. \A b \in Bots : ~bots[b].watched
    BY <2>2 DEF RunnerInv, RunnerTypes, Watched, Bots
  <2>4. PICK summary \in {"none", "success", "failure"} :
          /\ runner' = [runner EXCEPT !.at = "over", !.summary = summary]
          /\ summary = "success" => Number("succeeded") = Count /\ ~Interrupted
    BY <2>1
  <2>5. /\ runner'.at = "over" /\ runner'.next = runner.next /\ runner'.signals = runner.signals
        /\ runner'.summary = summary /\ (summary = "success" => runner.signals = 0)
        /\ RunnerTypes'
    <3>1. runner.signals > 0 \/ runner.signals = 0  BY DEF RunnerInv, RunnerTypes
    <3>2. RunnerTypes'
      BY <2>2, <2>4 DEF RunnerInv, RunnerTypes, Bots
    <3> QED  BY <2>4, <3>1, <3>2 DEF RunnerInv, RunnerTypes, Interrupted
  <2>6. SummedUp'  BY <2>2, <2>3, <2>4, <2>5, AllSucceeded DEF SummedUp, Bots
  <2> QED  BY <2>2, <2>5, <2>6 DEF RunnerInv, Bots
<1> QED  BY <1>1, <1>2, <1>3 DEF OfRunner

LEMMA InterruptKeeps == ASSUME RunnerInv, Interrupt PROVE RunnerInv'
<1>1. \A b \in Bots :
        /\ bots'[b] \in Bot /\ bots'[b].watched = bots[b].watched /\ bots'[b].status = bots[b].status
        /\ Watched(bots'[b], b < runner.next)
  <2> SUFFICES ASSUME NEW b \in Bots
               PROVE  /\ bots'[b] \in Bot /\ bots'[b].watched = bots[b].watched
                      /\ bots'[b].status = bots[b].status /\ Watched(bots'[b], b < runner.next)
    OBVIOUS
  <2>1. bots[b] \in Bot /\ Watched(bots[b], b < runner.next)  BY DEF RunnerInv, RunnerTypes
  <2>2. bots'[b] = IF b \notin Live THEN bots[b]
                   ELSE IF Interrupted THEN Killed(bots[b]) ELSE [Termed(bots[b]) EXCEPT !.killing = TRUE]
    BY DEF Interrupt
  <2> QED  BY <2>1, <2>2 DEF Live, Killed, Termed, Bot, Watched
<1>2. runner.at # "over" /\ runner' = [runner EXCEPT !.signals = @ + 1]  BY DEF Interrupt
<1>3. RunnerTypes'  BY <1>1, <1>2 DEF Interrupt, RunnerInv, RunnerTypes, Bots
<1>4. SummedUp'  BY <1>2 DEF RunnerInv, RunnerTypes, SummedUp
<1> QED  BY <1>1, <1>2, <1>3, <1>4 DEF RunnerInv, RunnerTypes, Bots

LEMMA RunnerStaysSound == ASSUME RunnerInv, [NextRunner]_botRunner PROVE RunnerInv'
<1>1. CASE UNCHANGED botRunner
  BY <1>1 DEF botRunner, RunnerInv, RunnerTypes, SummedUp, Bots
<1> QED  BY <1>1, BotGoesOn, RunnerGoesOn, InterruptKeeps DEF NextRunner

LEMMA RunnerAccounts == ASSUME RunnerInv PROVE Accounted
BY DEF RunnerInv, RunnerTypes, Watched, SummedUp, Accounted, Bots, Bot

(* When the runner is over no process of a bot is left, each has one result,  *)
(* and a summary that tells of success is of bots that all ended well in time *)
(* and of a runner nobody interrupted (runBot and runBotRunner of             *)
(* botRunner.ts), for any number of bots and signals.                         *)
THEOREM BotsAreSummedUp == RunnerSpec => []Accounted
<1>1. RunnerSpec => []RunnerInv  BY RunnerStarts, RunnerStaysSound, PTL DEF RunnerSpec
<1> QED  BY <1>1, RunnerAccounts, PTL
=============================================================================
