--------------------------- MODULE PlayerGateway ---------------------------
(* One player of the MCP gateway (packages/player-mcp): the session that      *)
(* follows the game's event stream, the handshake made on every open, the     *)
(* journal on disk, and who plays through the gateway's tools: the scripted   *)
(* player, which stops on any gap and on a new run, the deterministic player, *)
(* whose builder waits for its own command, or an agent, which may send an    *)
(* order whenever the gateway takes it.                                       *)
(*                                                                            *)
(* The game is modelled as the gateway can tell: posted commands are taken up *)
(* in order, outcomes are published, a connection hears what came after the   *)
(* last checkpoint, a reset starts a new run and ends the streams.            *)
EXTENDS Naturals, FiniteSets, SequencesExt

CONSTANTS
  None,       \* no run, no command
  Scripts,    \* who may use the gateway: scripted, builder, agent
  Orders,     \* how many commands each of them sends at most
  MaxCmds,    \* commands sent in a behaviour
  MaxRuns,    \* runs of the world
  MaxTroubles \* resets, lost connections, failing calls and writes, restarts

ASSUME GatewayAssumption ==
  /\ MaxCmds \in Nat \ {0} /\ MaxRuns \in Nat \ {0} /\ MaxTroubles \in Nat
  /\ Scripts # {} /\ Scripts \subseteq {"scripted", "builder", "agent"}
  /\ Orders \in [Scripts -> Nat]
  /\ None \notin Nat

VARIABLES
  g,          \* the Session of PlayerGateway, and the journals on disk
  calls,      \* handshakes under way
  post,       \* the POST under way: its command and how far it got
  link,       \* the stream's connection: off, on, ended by the server, broken
  wire,       \* events on their way to the gateway
  script,     \* the script
  run, inbox, seen, slot, log,  \* the game: run, posted commands, last sequence,
                                \* the unit's order, events since the checkpoint
  sent,       \* history: the commands sent, with run, number and life of the gateway
  over,       \* history: commands that ended
  life, troubles

gateway == <<g, calls, post, link, wire>>
game    == <<run, inbox, seen, slot, log, over>>
vars    == <<gateway, script, game, sent, life, troubles>>

Cmds == 1..MaxCmds
Runs == 1..MaxRuns

NoSession == [up |-> FALSE, run |-> None, seq |-> 0, open |-> FALSE, snap |-> FALSE,
              self |-> FALSE, hand |-> FALSE, world |-> None, met |-> None, again |-> FALSE,
              marked |-> FALSE, journal |-> None, whole |-> TRUE,
              cmds |-> [c \in Cmds |-> "unknown"], early |-> [c \in Cmds |-> <<>>],
              disk |-> [r \in Runs |-> <<>>], full |-> FALSE]

(* "of" is history: the run whose journal the cursor has always been in, None *)
(* once it was carried into the journal of another.                           *)
Idle == [kind |-> "none", pc |-> "off", run |-> None, cursor |-> 0, of |-> None,
         waits |-> None, ready |-> FALSE]

Init ==
  /\ g = NoSession
  /\ calls = {} /\ post = [cmd |-> None, stage |-> "none"]
  /\ link = "off" /\ wire = <<>> /\ script = Idle
  /\ run = 1 /\ inbox = <<>> /\ seen = 0 /\ slot = None /\ log = <<>>
  /\ sent = <<>> /\ over = {} /\ life = 0 /\ troubles = 0

-----------------------------------------------------------------------------
(* The journal: rows say what happened to which command; a resync row says    *)
(* that something may have been missed.                                       *)

Row(kind, c, done) == [kind |-> kind, cmd |-> c, done |-> done]
Resync == Row("resync", None, FALSE)

(* A row that cannot be written is lost and the history is known to be broken. *)
AppendChanges(s, rows) ==
  IF s.run = None \/ s.journal = None \/ rows = <<>> THEN s
  ELSE IF s.full THEN [s EXCEPT !.whole = FALSE]
  ELSE [s EXCEPT !.disk[s.journal] = @ \o rows]

AppendChange(s, row) == AppendChanges(s, <<row>>)

Status(done) == IF done THEN "done" ELSE "live"

(* The last row about a command holds its status. A row cut short by the      *)
(* death of the process is dropped: it is as if it had not been written.      *)
Recorded(rows, c) ==
  LET about == {i \in DOMAIN rows : rows[i].cmd = c} IN
  IF about = {} THEN "unknown" ELSE Status(rows[Max(about)].done)

(* Another run: nothing known so far is of use. The journal of the run is     *)
(* opened, what it says of commands is taken over, and a resync row added.    *)
EnsureJournal(s, r) ==
  LET t == IF s.run = r THEN s
           ELSE [s EXCEPT !.cmds = NoSession.cmds, !.early = NoSession.early,
                          !.journal = None, !.whole = TRUE]
      opened == [t EXCEPT !.journal = r, !.cmds = [c \in Cmds |->
                   LET said == Recorded(t.disk[r], c) IN IF said = "unknown" THEN t.cmds[c] ELSE said]]
  IN IF t.journal # None THEN t
     ELSE IF t.full THEN [opened EXCEPT !.whole = FALSE]
     ELSE [opened EXCEPT !.disk[r] = Append(@, Resync)]

-----------------------------------------------------------------------------
(* Events of the stream and answers, as functions on the session.             *)

\* Mutant: an outcome that arrives before the answer to the POST is forgotten.
ApplyLifecycleDropsEarly(s, c, done) ==
  IF s.cmds[c] = "unknown" THEN s
  ELSE AppendChange([s EXCEPT !.cmds[c] = Status(done)], Row("lifecycle", c, done))

ApplyLifecycle(s, c, done) ==
  IF s.cmds[c] = "unknown" THEN [s EXCEPT !.early[c] = Append(@, done)]
  ELSE AppendChange([s EXCEPT !.cmds[c] = Status(done)], Row("lifecycle", c, done))

NewRun(s, r) == s.run # None /\ s.run # r

\* Mutant: a snapshot of another run does not take the handshake back.
AcceptSnapshotKeepsHandshake(s, r) ==
  LET t == EnsureJournal(s, r)
      u == [t EXCEPT !.run = r]
      v == IF u.again /\ ~u.marked THEN [AppendChange(u, Resync) EXCEPT !.marked = TRUE] ELSE u
  IN [v EXCEPT !.snap = TRUE, !.world = r]

AcceptSnapshot(s, r) ==
  LET t == EnsureJournal(IF NewRun(s, r) THEN [s EXCEPT !.hand = FALSE, !.seq = 0] ELSE s, r)
      u == [t EXCEPT !.run = r]
      v == IF u.again /\ ~u.marked THEN [AppendChange(u, Resync) EXCEPT !.marked = TRUE] ELSE u
  IN [v EXCEPT !.snap = TRUE, !.world = r]

AcceptReset(s) ==
  [AppendChange(s, Row("world_reset", None, FALSE)) EXCEPT
     !.snap = FALSE, !.hand = FALSE, !.cmds = NoSession.cmds, !.early = NoSession.early,
     !.journal = None, !.run = None, !.seq = 0, !.world = None]

(* Before its first handshake the session does not know which player it is.   *)
(* Deltas and progress are left out: they change the entities shown and add   *)
(* rows that no script waits for.                                             *)
Accept(s, e) ==
  CASE e.kind = "snapshot"  -> AcceptSnapshot(s, e.run)
    [] e.kind = "lifecycle" -> IF s.self THEN ApplyLifecycle(s, e.cmd, e.done) ELSE s
    [] e.kind = "reset"     -> AcceptReset(s)

Handshake(s, h) ==
  LET t == EnsureJournal(s, h.run) IN
  [t EXCEPT !.run = h.run, !.self = TRUE, !.seq = IF h.seq > @ THEN h.seq ELSE @,
            !.hand = TRUE, !.met = h.run,
            !.cmds = [c \in Cmds |-> IF c = h.active /\ @[c] # "unknown" THEN "live" ELSE @[c]]]

Ready(s) == s.up /\ s.open /\ s.snap /\ s.hand

(* getChanges: is there anything past the cursor the caller must not trust?   *)
Gap(s, cursor, r) ==
  \/ r # None /\ r # s.run
  \/ s.journal = None
  \/ cursor > Len(s.disk[s.journal])
  \/ ~s.whole
  \/ \E i \in DOMAIN s.disk[s.journal] : i > cursor /\ s.disk[s.journal][i] = Resync
-----------------------------------------------------------------------------
(* The game, as far as a player can tell.                                     *)

Lifecycle(c, done) == [kind |-> "lifecycle", cmd |-> c, done |-> done]

Publish(events) ==
  /\ log' = log \o events
  /\ wire' = IF link = "on" THEN wire \o events ELSE wire
  /\ over' = over \cup {e.cmd : e \in {x \in Range(events) : x.done}}

Trouble == troubles < MaxTroubles /\ troubles' = troubles + 1

(* The next posted command: out of sequence or unfit it is rejected, else it  *)
(* takes the unit's slot and the order that was there ends.                   *)
Reject ==
  /\ inbox # <<>> /\ inbox' = Tail(inbox)
  /\ \E valid \in {TRUE, FALSE} :
       /\ valid => sent[Head(inbox)].seq <= seen
       /\ seen' = IF valid THEN seen ELSE Max({seen, sent[Head(inbox)].seq})
  /\ Publish(<<Lifecycle(Head(inbox), TRUE)>>)
  /\ UNCHANGED <<run, slot, g, calls, post, link, script, sent, life, troubles>>

Activate ==
  /\ inbox # <<>> /\ inbox' = Tail(inbox)
  /\ sent[Head(inbox)].seq > seen /\ seen' = sent[Head(inbox)].seq
  /\ slot' = Head(inbox)
  /\ Publish((IF slot = None THEN <<>> ELSE <<Lifecycle(slot, TRUE)>>)
             \o <<Lifecycle(Head(inbox), FALSE)>>)
  /\ UNCHANGED <<run, g, calls, post, link, script, sent, life, troubles>>

End ==
  /\ slot # None /\ slot' = None
  /\ Publish(<<Lifecycle(slot, TRUE)>>)
  /\ UNCHANGED <<run, inbox, seen, g, calls, post, link, script, sent, life, troubles>>

Checkpoint ==
  /\ log # <<>> /\ log' = <<>>
  /\ UNCHANGED <<gateway, script, run, inbox, seen, slot, over, sent, life, troubles>>

WorldReset ==
  /\ run < MaxRuns /\ run' = run + 1 /\ Trouble
  /\ inbox' = <<>> /\ seen' = 0 /\ slot' = None /\ log' = <<>> /\ UNCHANGED over
  /\ IF link = "on" THEN link' = "ended" /\ wire' = Append(wire, [kind |-> "reset"])
     ELSE UNCHANGED <<link, wire>>
  /\ UNCHANGED <<g, calls, post, script, sent, life>>

-----------------------------------------------------------------------------
(* The gateway's session: streamLoop, the handshake, the POST.                *)

rest == <<game, sent, life>>

(* A connection is opened: everything is to be confirmed again.               *)
Open ==
  /\ g.up /\ ~g.open /\ link = "off"
  /\ g' = [g EXCEPT !.open = TRUE, !.snap = FALSE, !.hand = FALSE, !.marked = FALSE]
  /\ calls' = {[c EXCEPT !.fresh = FALSE] : c \in calls}
                \cup {[fresh |-> TRUE, opening |-> TRUE, stage |-> "asked", run |-> None,
                       seq |-> 0, active |-> None]}
  /\ link' = "on" /\ wire' = <<[kind |-> "snapshot", run |-> run]>> \o log
  /\ UNCHANGED <<post, script, rest, troubles>>

Deliver ==
  /\ g.open /\ wire # <<>> /\ wire' = Tail(wire)
  /\ g' = Accept(g, Head(wire))
  /\ calls' = IF Head(wire).kind = "snapshot" /\ NewRun(g, Head(wire).run)
                THEN calls \cup {[fresh |-> TRUE, opening |-> FALSE, stage |-> "asked",
                                  run |-> None, seq |-> 0, active |-> None]}
                ELSE calls
  /\ UNCHANGED <<post, link, script, rest, troubles>>

(* The connection breaks; what was on its way may be lost with it.            *)
Drop ==
  /\ Trouble
  /\ link = "on" /\ link' = "broken"
  /\ wire' \in {wire, <<>>}
  /\ UNCHANGED <<g, calls, post, script, rest>>

Shut(s) == [s EXCEPT !.open = FALSE, !.again = TRUE]

(* The read of the stream ends. After a regular end the loop first waits for  *)
(* the handshake of this connection.                                          *)
StreamEnds ==
  /\ g.open /\ wire = <<>>
  /\ \/ link = "broken"
     \/ link = "ended" /\ ~\E c \in calls : c.fresh /\ c.opening
  /\ g' = Shut(g) /\ link' = "off"
  /\ UNCHANGED <<calls, post, wire, script, rest, troubles>>

(* The reconnect route reads the run first and everything else after it.      *)
AnswerHandshake ==
  /\ \E c \in calls :
       /\ c.stage \in {"asked", "run read"}
       /\ calls' = (calls \ {c}) \cup
            {IF c.stage = "asked" THEN [c EXCEPT !.stage = "run read", !.run = run]
             ELSE [c EXCEPT !.stage = "answered", !.seq = seen, !.active = slot]}
  /\ UNCHANGED <<g, post, link, wire, script, rest, troubles>>

Abort ==
  /\ g' = Shut(g) /\ link' = "off" /\ wire' = <<>>

TakeHandshake ==
  /\ \E c \in calls :
       /\ c.stage = "answered" /\ calls' = calls \ {c}
       /\ IF ~g.up \/ ~c.fresh THEN UNCHANGED <<g, link, wire>>
          ELSE IF NewRun(g, c.run) THEN IF g.open THEN Abort ELSE UNCHANGED <<g, link, wire>>
          ELSE g' = Handshake(g, c) /\ UNCHANGED <<link, wire>>
  /\ UNCHANGED <<post, script, rest, troubles>>

(* A handshake of an open ends that open's connection, which is gone if       *)
(* another was opened since; one that a snapshot asked for ends the current.  *)
HandshakeFails ==
  /\ Trouble
  /\ \E c \in calls :
       /\ calls' = calls \ {c}
       /\ IF (c.fresh \/ ~c.opening) /\ g.open THEN Abort ELSE UNCHANGED <<g, link, wire>>
  /\ UNCHANGED <<post, script, rest>>

(* The intent route refuses a command of another run.                         *)
RouteTakes ==
  /\ post.stage = "asked"
  /\ IF sent[post.cmd].run = run
       THEN inbox' = Append(inbox, post.cmd) /\ post' = [post EXCEPT !.stage = "accepted"]
       ELSE post' = [post EXCEPT !.stage = "refused"] /\ UNCHANGED inbox
  /\ UNCHANGED <<g, calls, link, wire, script, run, seen, slot, log, over, sent, life, troubles>>

(* The answer: the command is recorded, then outcomes that came before it.    *)
Recording(s, c, ok) ==
  LET rows == <<Row("submitted", c, ~ok)>>
                \o [i \in DOMAIN s.early[c] |-> Row("lifecycle", c, s.early[c][i])]
  IN AppendChanges([s EXCEPT !.cmds[c] = Status(Last(rows).done), !.early[c] = <<>>], rows)

JournalFills ==
  /\ Trouble
  /\ g.up /\ ~g.full /\ g' = [g EXCEPT !.full = TRUE]
  /\ UNCHANGED <<calls, post, link, wire, script, rest>>

-----------------------------------------------------------------------------
(* The scripts.                                                               *)

others == <<game, sent, troubles>>

Start ==
  /\ ~g.up /\ life' = life + 1
  /\ IF life = 0 THEN UNCHANGED troubles ELSE Trouble
  /\ g' = [NoSession EXCEPT !.up = TRUE, !.disk = g.disk, !.full = g.full]
  /\ \E k \in Scripts : script' = [Idle EXCEPT !.kind = k, !.pc = "join"]
  /\ UNCHANGED <<calls, post, link, wire, game, sent>>

(* disconnectPlayer, or the death of the process: what it held is gone.       *)
Close ==
  /\ g' = [NoSession EXCEPT !.disk = g.disk, !.full = g.full]
  /\ calls' = {} /\ post' = [cmd |-> None, stage |-> "none"]
  /\ link' = "off" /\ wire' = <<>> /\ script' = Idle

Stop == g.up /\ Trouble /\ Close /\ UNCHANGED <<game, sent, life>>

Cursor == IF g.journal = None THEN 0 ELSE Len(g.disk[g.journal])

Join ==
  /\ script.pc = "join" /\ Ready(g)
  /\ IF ~g.whole THEN Close
     ELSE /\ script' = [script EXCEPT !.pc = "act", !.run = g.run, !.cursor = Cursor,
                                       !.of = g.run, !.ready = TRUE]
          /\ UNCHANGED gateway
  /\ UNCHANGED <<others, life>>

(* sendIntent: numbered and posted with the run known now.                    *)
Send ==
  /\ script.pc = "act" /\ script.ready /\ script.waits = None
  /\ Len(sent) < MaxCmds /\ Len(sent) < Orders[script.kind]
  /\ script.kind = "agent" => Ready(g)
  /\ IF ~Ready(g) \/ g.run = None THEN Close /\ UNCHANGED sent
     ELSE /\ sent' = Append(sent, [run |-> g.run, seq |-> g.seq + 1, life |-> life])
          /\ post' = [cmd |-> Len(sent) + 1, stage |-> "asked"]
          /\ g' = [g EXCEPT !.seq = @ + 1]
          /\ script' = [script EXCEPT !.pc = "sending"]
          /\ UNCHANGED <<calls, link, wire>>
  /\ UNCHANGED <<game, life, troubles>>

Sent ==
  /\ script.pc = "sending" /\ post.stage \in {"accepted", "refused"}
  /\ LET ok == post.stage = "accepted" IN
     IF ~ok /\ script.kind = "scripted" THEN Close
     ELSE /\ g' = Recording(g, post.cmd, ok)
          /\ script' = IF script.kind = "agent" THEN [script EXCEPT !.pc = "act"]
                       ELSE [script EXCEPT !.pc = "changes", !.waits = IF ok THEN post.cmd ELSE None]
          /\ post' = [cmd |-> None, stage |-> "none"]
          /\ UNCHANGED <<calls, link, wire>>
  /\ UNCHANGED <<others, life>>

PostFails ==
  /\ Trouble
  /\ script.pc = "sending" /\ Close
  /\ UNCHANGED <<game, sent, life>>

(* The builder leaves its turn without an order, or because it is not ready.  *)
Pass ==
  /\ script.pc = "act" /\ script.kind = "builder"
  /\ script' = [script EXCEPT !.pc = IF script.ready THEN "changes" ELSE "look"]
  /\ UNCHANGED <<gateway, others, life>>

ReadChanges ==
  /\ script.pc = "changes"
  /\ IF Gap(g, script.cursor, script.run) THEN Close
     ELSE LET new == SubSeq(g.disk[g.journal], script.cursor + 1, Cursor)
              ended == \E r \in Range(new) : r.kind = "lifecycle" /\ r.cmd = script.waits /\ r.done
          IN /\ script' = [script EXCEPT !.pc = "look", !.cursor = Cursor,
                             !.of = IF g.run = @ THEN @ ELSE None,
                             !.waits = IF script.kind = "builder" /\ ended THEN None ELSE @]
             /\ UNCHANGED gateway
  /\ UNCHANGED <<others, life>>

(* get_observation. The scripted player wants the run it started in, ready,   *)
(* and nothing new in the journal; the builder takes what there is.           *)
Look ==
  /\ script.pc = "look"
  /\ IF script.kind = "builder"
       THEN /\ script' = [script EXCEPT !.pc = "act", !.run = g.run, !.ready = Ready(g)]
            /\ UNCHANGED gateway
     ELSE IF g.run # script.run \/ ~g.whole \/ ~Ready(g) THEN Close
     ELSE /\ script' = [script EXCEPT !.pc = IF Cursor <= script.cursor THEN "check" ELSE "changes"]
          /\ UNCHANGED gateway
  /\ UNCHANGED <<others, life>>

(* get_command, then the next order or wait_for_observation and another look. *)
Check ==
  /\ script.pc = "check"
  /\ IF g.run # script.run \/ g.cmds[script.waits] = "unknown" THEN Close
     ELSE /\ script' = IF g.cmds[script.waits] = "done"
                         THEN [script EXCEPT !.pc = "act", !.waits = None]
                         ELSE [script EXCEPT !.pc = "changes"]
          /\ UNCHANGED gateway
  /\ UNCHANGED <<others, life>>

Scripting == Join \/ Send \/ Sent \/ Pass \/ ReadChanges \/ Look \/ Check
Session   == Open \/ Deliver \/ StreamEnds \/ AnswerHandshake \/ TakeHandshake \/ RouteTakes
Game      == Reject \/ Activate \/ End \/ Checkpoint \/ WorldReset
Mishap    == Drop \/ HandshakeFails \/ JournalFills \/ PostFails \/ Start \/ Stop

Next == Scripting \/ Session \/ Game \/ Mishap

Spec == Init /\ [][Next]_vars

-----------------------------------------------------------------------------
(* Properties.                                                                *)

(* A session that calls itself ready shows the entities, the run and the      *)
(* handshake of one and the same run.                                         *)
ReadyIsOneRun == Ready(g) => g.run = g.world /\ g.run = g.met

OnTheWire(c) == \E i \in DOMAIN wire : wire[i].kind = "lifecycle" /\ wire[i].cmd = c /\ wire[i].done

(* What a script that awaits a command can still be told: that it ended, or   *)
(* that something may have been missed.                                       *)
WillHear(c) ==
  \/ Gap(g, script.cursor, script.run)
  \/ \E i \in DOMAIN g.disk[g.journal] :
       /\ g.disk[g.journal][i] = Row("lifecycle", c, TRUE)
       /\ script.kind = "builder" => i > script.cursor
  \/ ~g.snap \/ ~g.open \/ link # "on"
  \/ OnTheWire(c) \/ [kind |-> "reset"] \in Range(wire)

(* No script waits for good: once the command it awaits has ended in the run  *)
(* it follows, the ending or a gap is ahead of it. The scripted player may    *)
(* have read the ending already and looks at the command's status next. Left  *)
(* out: the builder that took its cursor into another run unawares.           *)
NoSilentWait ==
  LET c == script.waits IN
  c # None /\ c \in over /\ script.run = sent[c].run /\ script.run = script.of => WillHear(c)
=============================================================================
