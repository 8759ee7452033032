------------------------------ MODULE Console ------------------------------
(* The terminal of the game's page and the scenario editor, pages of one      *)
(* browser: who is logged in, and what becomes of a command about the world   *)
(* on its way through the web server, a queue in Redis, the engine and back.  *)
EXTENDS Naturals, Sequences

CONSTANTS
  Nobody,      \* no player, scenario, text, request, call or answer
  Terminals,   \* pages with a terminal
  Editors,     \* pages with the scenario editor
  Logins,      \* players that log in
  Factions,    \* SYSTEM_OWNERS, which no player is
  Ids,         \* of scenario files
  Texts,       \* what a world, or a file, may hold
  Commands,    \* actions of the scenario route that are asked for
  MaxCalls,    \* bound: calls of the pages
  MaxMishaps,  \* bound: lost calls, deaths, errors of Redis and the disk
  MaxTicks     \* bound: ticks that are told from others

ASSUME ConsoleAssumption ==
  /\ Commands \subseteq {"world_respawn", "load", "reload", "validate", "save", "bookmark",
                        "pause", "resume", "step"}
  /\ Nobody \notin Logins \cup Factions \cup Ids \cup Texts
  /\ Nobody \notin [holds : Texts, by : Nat]
  /\ Nobody \notin [ok : BOOLEAN, text : {Nobody} \cup [id : Ids, holds : Texts, of : Nat], saved : BOOLEAN]

VARIABLES
  cookie,    \* the player of player_token, which all pages send
  session,   \* of each terminal: player, acting as, status
  desk,      \* of each page: the call under way and what was told last
  asked,     \* the requests that were queued, and whether their POST still waits
  kept,      \* Redis: checkpoint, runtime, template, queue, results
  host,      \* the engine: world, run, scenario and the command at hand
  shelf,     \* the scenario files: what they hold and the request that wrote them
  bounds     \* calls, mishaps, runs and ticks so far

console == <<cookie, session, desk, asked, kept, host, shelf, bounds>>

Pages    == Terminals \cup Editors
Replaces == {"world_respawn", "load", "reload"}
Of(who)  == [player |-> who, acting |-> Nobody,
             status |-> IF who = Nobody THEN "logged-out" ELSE "active"]
Blank    == [call |-> Nobody, told |-> [kind |-> "nothing"]]

ConsoleInit ==
  /\ cookie \in Logins \cup {Nobody}
  /\ session = [p \in Terminals |-> Of(cookie)]
  /\ desk = [p \in Pages |-> Blank]
  /\ asked = <<>>
  /\ \E w \in Texts :
       /\ kept = [checkpoint |-> [run |-> 1, world |-> w], template |-> Nobody, queue |-> <<>>, results |-> <<>>,
                  runtime |-> [run |-> 1, scenario |-> Nobody, paused |-> FALSE]]
       /\ host = [up |-> TRUE, run |-> 1, world |-> w, scenario |-> Nobody, paused |-> FALSE,
                  steps |-> FALSE, loaded |-> Nobody, job |-> Nobody]
  /\ shelf \in [Ids -> {Nobody} \cup [holds : Texts, by : {0}]]
  /\ bounds = [calls |-> 0, mishaps |-> 0, runs |-> 1, ticks |-> 0]

Free(p)    == desk[p].call = Nobody      \* commandRunning, busy
Called(p, do, at) == desk[p].call # Nobody /\ desk[p].call.do = do /\ desk[p].call.at = at
Waits(p, at)      == desk[p].call # Nobody /\ desk[p].call.at = at /\ desk[p].call.do \in Commands
Calls(p, c, told) ==
  /\ Free(p) /\ bounds.calls < MaxCalls
  /\ desk' = [desk EXCEPT ![p].call = c, ![p].told = told]
  /\ bounds' = [bounds EXCEPT !.calls = @ + 1]
Tells(p, what) == desk' = [desk EXCEPT ![p].call = Nobody, ![p].told = what]
Error  == [kind |-> "error"]
Mishap == bounds.mishaps < MaxMishaps /\ bounds' = [bounds EXCEPT !.mishaps = @ + 1]

-----------------------------------------------------------------------------
(* The session.                                                               *)

Login(p) ==
  /\ session[p].status = "logged-out"
  /\ \E who \in Logins : Calls(p, [do |-> "login", at |-> "sent", who |-> who], [kind |-> "authenticating"])
  /\ session' = [session EXCEPT ![p].status = "logging-in"]
  /\ UNCHANGED <<cookie, asked, kept, host, shelf>>

(* The answer brings the cookie.                                              *)
LoggedIn(p) ==
  /\ Called(p, "login", "sent")
  /\ LET who == desk[p].call.who
     IN /\ cookie' = who
        /\ session' = [session EXCEPT ![p] = Of(who)]
        /\ Tells(p, [kind |-> "welcome", who |-> who])
  /\ UNCHANGED <<asked, kept, host, shelf, bounds>>

Active(p) == session[p].status = "active" /\ session[p].player # Nobody

Logout(p) ==
  /\ Active(p)
  /\ Calls(p, [do |-> "logout", at |-> "sent"], desk[p].told)
  /\ UNCHANGED <<cookie, session, asked, kept, host, shelf>>

StartedLogout(p) ==
  /\ Called(p, "logout", "sent")
  /\ \/ /\ cookie # Nobody
        /\ session' = [session EXCEPT ![p].status = "logging-out"]
        /\ desk' = [desk EXCEPT ![p].call.at = "leaving", ![p].told = [kind |-> "leaving"]]
     \/ cookie = Nobody /\ Tells(p, Error) /\ UNCHANGED session
  /\ UNCHANGED <<cookie, asked, kept, host, shelf, bounds>>

LoggedOut(p) ==
  /\ Called(p, "logout", "leaving")
  /\ cookie' = Nobody
  /\ session' = [session EXCEPT ![p] = Of(Nobody)]
  /\ Tells(p, [kind |-> "bye"])
  /\ UNCHANGED <<asked, kept, host, shelf, bounds>>

(* Who is meant is looked up before the page acts as them.                    *)
Su(p) ==
  /\ Active(p)
  /\ \E who \in Logins \cup Factions : Calls(p, [do |-> "su", at |-> "sent", who |-> who], desk[p].told)
  /\ UNCHANGED <<cookie, session, asked, kept, host, shelf>>

Resolved(p) ==
  /\ Called(p, "su", "sent")
  /\ LET who == desk[p].call.who
     IN \/ /\ session' = [session EXCEPT ![p].acting = who]
           /\ Tells(p, [kind |-> "acting", who |-> who])
        \/ who \notin Factions /\ Tells(p, Error) /\ UNCHANGED session
  /\ UNCHANGED <<cookie, asked, kept, host, shelf, bounds>>

ExitSu(p) ==
  /\ Active(p) /\ Free(p) /\ session[p].acting # Nobody
  /\ session' = [session EXCEPT ![p].acting = Nobody]
  /\ Tells(p, [kind |-> "returned"])
  /\ UNCHANGED <<cookie, asked, kept, host, shelf, bounds>>

(* The token is good for a day.                                               *)
Expires ==
  /\ cookie # Nobody /\ cookie' = Nobody /\ Mishap
  /\ UNCHANGED <<session, desk, asked, kept, host, shelf>>

(* The page is loaded anew, with the player the cookie tells of.              *)
Reload(p) ==
  /\ Mishap
  /\ desk' = [desk EXCEPT ![p] = Blank]
  /\ session' = IF p \in Terminals THEN [session EXCEPT ![p] = Of(cookie)] ELSE session
  /\ UNCHANGED <<cookie, asked, kept, host, shelf>>

(* A call that is answered with an error, or not at all: then a logout that   *)
(* had begun leaves the page logging out.                                     *)
CallFails(p) ==
  /\ ~Free(p) /\ Mishap
  /\ Tells(p, Error)
  /\ session' = CASE Called(p, "login", "sent") -> [session EXCEPT ![p].status = "logged-out"]
                  [] Called(p, "logout", "leaving") -> session
                  [] OTHER -> session
  /\ UNCHANGED <<cookie, asked, kept, host, shelf>>

LogoutRefused(p) ==
  /\ Called(p, "logout", "leaving") /\ Mishap
  /\ session' = [session EXCEPT ![p].status = "active"]
  /\ Tells(p, Error)
  /\ UNCHANGED <<cookie, asked, kept, host, shelf>>

-----------------------------------------------------------------------------
(* A command about the world, in the web server.                              *)

(* A page may be behind: it knows the run of a snapshot (the terminal) or of  *)
(* a runtime (the editor) that was current once, or none yet (0).             *)
KnownRuns == 0..(IF kept.checkpoint.run < kept.runtime.run THEN kept.runtime.run ELSE kept.checkpoint.run)

(* The terminal names a file, the editor sends a text (which tells its id).   *)
Ask(p) ==
  /\ p \in Terminals => Active(p)
  /\ \E do \in Commands \ (IF p \in Terminals THEN {"save"} ELSE {"world_respawn"}) :
       \E id \in IF do \in {"save", "validate", "load", "bookmark"} THEN Ids ELSE {Nobody},
          holds \in IF p \in Editors /\ do \in {"save", "validate", "load"} THEN Texts ELSE {Nobody},
          run \in KnownRuns :
         Calls(p, [do |-> do, at |-> "sent", id |-> id, run |-> run,
                   text |-> IF holds = Nobody THEN Nobody ELSE [id |-> id, holds |-> holds]],
               IF p \in Editors THEN Blank.told ELSE desk[p].told)
  /\ UNCHANGED <<cookie, session, asked, kept, host, shelf>>

File(id) == IF id = Nobody \/ shelf[id] = Nobody THEN Nobody ELSE [id |-> id, holds |-> shelf[id].holds]

(* What the engine is sent along with the command.                            *)
Yaml(c) ==
  CASE c.do \in {"save", "validate", "load"} -> IF c.text # Nobody THEN c.text ELSE File(c.id)
    [] c.do = "reload" -> File(kept.runtime.scenario)
    [] OTHER -> Nobody

Acceptable(c) ==
  /\ cookie # Nobody
  /\ c.do \in {"save", "validate", "load"} => Yaml(c) # Nobody
  /\ c.do = "bookmark" => File(c.id) = Nobody

Accept(p) ==
  /\ Waits(p, "sent")
  /\ LET c == desk[p].call
     IN \/ /\ Acceptable(c)
           /\ desk' = [desk EXCEPT ![p].call =
                [do |-> c.do, at |-> "accepted", id |-> c.id, run |-> c.run, text |-> Yaml(c)]]
        \/ ~Acceptable(c) /\ Tells(p, Error)
  /\ UNCHANGED <<cookie, session, asked, kept, host, shelf, bounds>>

(* scenarioCommand: the run is the one the page knows, or the one of now.     *)
Push(p) ==
  /\ Waits(p, "accepted")
  /\ LET c == desk[p].call
         r == [do |-> c.do, id |-> c.id, run |-> IF c.run # 0 THEN c.run ELSE kept.runtime.run,
               text |-> c.text, serving |-> TRUE]
     IN /\ asked' = Append(asked, r)
        /\ kept' = [kept EXCEPT !.queue = Append(@, Len(asked) + 1), !.results = Append(@, Nobody)]
        /\ desk' = [desk EXCEPT ![p].call = [do |-> c.do, at |-> "waiting", req |-> Len(asked) + 1]]
  /\ UNCHANGED <<cookie, session, host, shelf, bounds>>

(* scenarioResult: a capture is saved when it is first asked for, and never   *)
(* over another file. "works" is FALSE when the disk fails.                   *)
Due(r)  == r.ok /\ r.text # Nobody /\ ~r.saved
Fits(r) == shelf[r.text.id] = Nobody \/ shelf[r.text.id].holds = r.text.holds
Retrieved(r, works) ==
  IF ~Due(r) THEN r ELSE IF works /\ Fits(r) THEN [r EXCEPT !.saved = TRUE] ELSE [r EXCEPT !.ok = FALSE]
Shelved(q, r, works) ==
  IF Due(r) /\ works /\ shelf[r.text.id] = Nobody
  THEN [shelf EXCEPT ![r.text.id] = [holds |-> r.text.holds, by |-> q]] ELSE shelf

WaitsFor(p, q) ==
  /\ desk[p].call # Nobody /\ desk[p].call.do \in Commands
  /\ desk[p].call.at \in {"waiting", "polling"} /\ desk[p].call.req = q

Outcome(q, r) ==
  CASE ~r.ok -> Error
    [] r.ok /\ (r.saved \/ asked[q].do = "save") -> [kind |-> "saved", req |-> q]
    [] OTHER -> [kind |-> "done", req |-> q]

Replies(q, what) ==
  desk' = [p \in Pages |-> IF WaitsFor(p, q) THEN [desk[p] EXCEPT !.call = Nobody, !.told = what] ELSE desk[p]]

(* The POST waits for the result, whether or not somebody still listens. What *)
(* is to be saved, and found valid, replaces what the file held.              *)
Serve(q, works) ==
  /\ asked[q].serving /\ kept.results[q] # Nobody
  /\ IF works THEN UNCHANGED bounds ELSE Mishap
  /\ LET r == Retrieved(kept.results[q], works)
         saves == asked[q].do = "save" /\ r.ok
     IN /\ kept' = [kept EXCEPT !.results[q] = r]
        /\ shelf' = IF saves /\ works
                    THEN [shelf EXCEPT ![asked[q].text.id] = [holds |-> asked[q].text.holds, by |-> q]]
                    ELSE Shelved(q, kept.results[q], works)
        /\ Replies(q, IF saves /\ ~works THEN Error ELSE Outcome(q, r))
  /\ asked' = [asked EXCEPT ![q].serving = FALSE]
  /\ UNCHANGED <<cookie, session, host>>

(* Five seconds without a result: the page is to ask again, by the request's  *)
(* id; what was to be saved is not.                                           *)
Pends(q) ==
  /\ asked[q].serving /\ kept.results[q] = Nobody
  /\ asked' = [asked EXCEPT ![q].serving = FALSE]
  /\ desk' = [p \in Pages |->
       CASE ~WaitsFor(p, q) -> desk[p]
         [] WaitsFor(p, q) /\ asked[q].do = "save" -> [desk[p] EXCEPT !.call = Nobody, !.told = Error]
         [] OTHER -> [desk[p] EXCEPT !.call.at = "polling"]]
  /\ UNCHANGED <<cookie, session, kept, host, shelf, bounds>>

AsksAgain(p, works) ==
  /\ Waits(p, "polling")
  /\ IF works THEN UNCHANGED bounds ELSE Mishap
  /\ LET q == desk[p].call.req
         r == Retrieved(kept.results[q], works)
     IN \/ cookie = Nobody /\ Tells(p, Error) /\ UNCHANGED <<kept, shelf>>
        \/ /\ cookie # Nobody /\ kept.results[q] # Nobody
           /\ kept' = [kept EXCEPT !.results[q] = r]
           /\ shelf' = Shelved(q, kept.results[q], works)
           /\ Tells(p, Outcome(q, r))
  /\ UNCHANGED <<cookie, session, asked, host>>

GivesUp(p) ==
  /\ Waits(p, "polling")
  /\ Tells(p, [kind |-> "pending", req |-> desk[p].call.req])
  /\ UNCHANGED <<cookie, session, asked, kept, host, shelf, bounds>>

-----------------------------------------------------------------------------
(* The engine.                                                                *)

Job(at) == host.up /\ host.job # Nobody /\ host.job.at = at
AtHand  == asked[host.job.req]

Pop ==
  /\ host.up /\ host.job = Nobody /\ kept.queue # <<>>
  /\ host' = [host EXCEPT !.job = [req |-> Head(kept.queue), at |-> "popped", ok |-> TRUE, text |-> Nobody]]
  /\ kept' = [kept EXCEPT !.queue = Tail(@)]
  /\ UNCHANGED <<cookie, session, desk, asked, shelf, bounds>>

Goes(h, at) == [h EXCEPT !.job.at = at]

(* The world is replaced as a whole, in a run of its own: a scenario's stands *)
(* still.                                                                     *)
Replaced(text, w) ==
  Goes([host EXCEPT !.run = bounds.runs + 1, !.world = w, !.loaded = text, !.paused = text # Nobody,
                    !.steps = FALSE, !.scenario = IF text = Nobody THEN Nobody ELSE text.id], "installed")

\* Mutant: a command is carried out whatever world it was meant for.
ForAnyWorld == TRUE

(* The world has not been replaced since the command was given.               *)
ForThisWorld == AtHand.run = host.run

(* execute_scenario_command, up to its first write.                           *)
Execute ==
  /\ Job("popped") /\ ForThisWorld
  /\ LET do == AtHand.do
         text == IF do = "reload" /\ AtHand.text = Nobody THEN host.loaded ELSE AtHand.text
     IN \/ /\ do = "load" \/ (do = "reload" /\ host.loaded # Nobody)
           /\ host' = Replaced(text, text.holds) /\ bounds' = [bounds EXCEPT !.runs = @ + 1]
        \/ /\ do = "world_respawn"
           /\ \E w \in Texts : host' = Replaced(Nobody, w)
           /\ bounds' = [bounds EXCEPT !.runs = @ + 1]
        \/ do \in {"validate", "save"} /\ host' = Goes(host, "saved") /\ UNCHANGED bounds
        \/ do = "pause"  /\ host' = Goes([host EXCEPT !.paused = TRUE, !.steps = FALSE], "installed") /\ UNCHANGED bounds
        \/ do = "resume" /\ host' = Goes([host EXCEPT !.paused = FALSE, !.steps = FALSE], "saved") /\ UNCHANGED bounds
        \/ /\ do = "step" /\ host.paused /\ ~host.steps
           /\ host' = Goes([host EXCEPT !.steps = TRUE], "saved") /\ UNCHANGED bounds
        \/ /\ do = "bookmark"
           /\ host' = Goes([host EXCEPT !.job.text = [id |-> AtHand.id, holds |-> host.world, of |-> host.run]], "answer")
           /\ UNCHANGED bounds
  /\ UNCHANGED <<cookie, session, desk, asked, kept, shelf>>

(* It is of another run, or not possible: no word of why is kept.             *)
Refuse ==
  /\ Job("popped")
  /\ host' = Goes([host EXCEPT !.job.ok = FALSE], "answer")
  /\ UNCHANGED <<cookie, session, desk, asked, kept, shelf, bounds>>

(* What was loaded instead, the checkpoint, then the runtime.                 *)
Checkpoint ==
  /\ Job("installed")
  /\ kept' = [kept EXCEPT !.template = IF AtHand.do = "pause" THEN @ ELSE host.loaded,
                         !.checkpoint = [run |-> host.run, world |-> host.world]]
  /\ host' = Goes(host, "saved")
  /\ UNCHANGED <<cookie, session, desk, asked, shelf, bounds>>

Runtime == [run |-> host.run, scenario |-> host.scenario, paused |-> host.paused]

PublishRuntime ==
  /\ Job("saved")
  /\ kept' = [kept EXCEPT !.runtime = Runtime]
  /\ host' = Goes(host, "answer")
  /\ UNCHANGED <<cookie, session, desk, asked, shelf, bounds>>

(* Redis fails one of these writes: the world stays replaced.                 *)
WriteFails ==
  /\ Job("installed") \/ Job("saved")
  /\ host' = Goes([host EXCEPT !.job.ok = FALSE], "answer") /\ Mishap
  /\ UNCHANGED <<cookie, session, desk, asked, kept, shelf>>

PublishResult ==
  /\ Job("answer")
  /\ kept' = [kept EXCEPT !.results[host.job.req] = [ok |-> host.job.ok, text |-> host.job.text, saved |-> FALSE]]
  /\ host' = [host EXCEPT !.job = Nobody]
  /\ UNCHANGED <<cookie, session, desk, asked, shelf, bounds>>

(* A tick, after which a paused world is checkpointed and another one may be. *)
Tick ==
  /\ host.up /\ host.job = Nobody /\ (host.paused => host.steps)
  /\ bounds.ticks < MaxTicks /\ bounds' = [bounds EXCEPT !.ticks = @ + 1]
  /\ \E w \in Texts, steps \in BOOLEAN :
       /\ steps => host.steps
       /\ host' = [host EXCEPT !.world = w, !.steps = steps]
       /\ \E saved \in {kept.checkpoint, [run |-> host.run, world |-> w]},
             runtime \in {kept.runtime, Runtime} :
            /\ host.paused => saved = [run |-> host.run, world |-> w] /\ runtime = Runtime
            /\ kept' = [kept EXCEPT !.checkpoint = saved, !.runtime = runtime]
  /\ UNCHANGED <<cookie, session, desk, asked, shelf>>

Dies ==
  /\ host.up /\ host' = [host EXCEPT !.up = FALSE, !.job = Nobody] /\ Mishap
  /\ UNCHANGED <<cookie, session, desk, asked, kept, shelf>>

(* The engine is started with the world that was kept, or with a new one: it  *)
(* keeps that before it knows of which run it is.                             *)
Restores ==
  /\ ~host.up
  /\ LET r == kept.runtime
     IN host' = [up |-> TRUE, run |-> r.run, world |-> kept.checkpoint.world, scenario |-> r.scenario,
                 paused |-> r.paused, steps |-> FALSE, job |-> Nobody,
                 loaded |-> IF r.scenario = Nobody THEN Nobody ELSE kept.template]
  /\ kept' = [kept EXCEPT !.checkpoint.run = 0]
  /\ UNCHANGED <<cookie, session, desk, asked, shelf, bounds>>

StartsAfresh ==
  /\ ~host.up
  /\ \E w \in Texts :
       LET run == bounds.runs + 1
       IN /\ host' = [up |-> TRUE, run |-> run, world |-> w, scenario |-> Nobody, paused |-> FALSE,
                      steps |-> FALSE, loaded |-> Nobody, job |-> Nobody]
          /\ kept' = [kept EXCEPT !.queue = <<>>, !.template = Nobody,
                        !.checkpoint = [run |-> 0, world |-> w],
                        !.runtime = [run |-> run, scenario |-> Nobody, paused |-> FALSE]]
  /\ bounds' = [bounds EXCEPT !.runs = @ + 1]
  /\ UNCHANGED <<cookie, session, desk, asked, shelf>>

-----------------------------------------------------------------------------

InSession(p) ==
  \/ Login(p) \/ LoggedIn(p) \/ Logout(p) \/ StartedLogout(p) \/ LoggedOut(p)
  \/ Su(p) \/ Resolved(p) \/ ExitSu(p) \/ LogoutRefused(p)
OfPage(p) ==
  \/ Reload(p) \/ CallFails(p) \/ Ask(p) \/ Accept(p) \/ Push(p)
  \/ (\E works \in BOOLEAN : AsksAgain(p, works)) \/ GivesUp(p)
OfRequest(q) == (\E works \in BOOLEAN : Serve(q, works)) \/ Pends(q)
OfHost ==
  \/ Pop \/ Execute \/ Refuse \/ Checkpoint \/ PublishRuntime \/ WriteFails \/ PublishResult
  \/ Tick \/ Dies \/ Restores \/ StartsAfresh

ConsoleNext ==
  \/ Expires \/ OfHost
  \/ \E p \in Terminals : InSession(p)
  \/ \E p \in Pages : OfPage(p)
  \/ \E q \in DOMAIN asked : OfRequest(q)

ConsoleSpec == ConsoleInit /\ [][ConsoleNext]_console

Gone(t)  == t.kind = "done" /\ asked[t.req].do \in Replaces
Saved(t) == t.kind = "saved"

(* What a page was told last of its session is so.                            *)
SessionIsAsTold ==
  \A p \in Terminals :
    LET t == desk[p].told IN
      /\ t.kind = "welcome" => session[p] = Of(t.who)
      /\ t.kind = "bye"     => session[p] = Of(Nobody)
      /\ t.kind = "acting"  => Active(p) /\ session[p].acting = t.who

(* A world that a page was told has been replaced is gone, also for an engine *)
(* that was restarted; and it was replaced by one command only.               *)
ReplacedIsGone ==
  \A p \in Pages : Gone(desk[p].told) =>
    LET q == desk[p].told.req IN
      /\ asked[q].run \notin {host.run, kept.runtime.run, kept.checkpoint.run}
      /\ \A p2 \in Pages : Gone(desk[p2].told) /\ asked[desk[p2].told.req].run = asked[q].run
                               => desk[p2].told.req = q

(* A file that a page was told is saved holds what was captured for it, in    *)
(* the run it was asked for, or what was saved over it on purpose.            *)
SavedIsThere ==
  \A p \in Pages : Saved(desk[p].told) =>
    LET q == desk[p].told.req
        file == shelf[asked[q].id]
        capture == kept.results[q].text
    IN /\ file # Nobody
       /\ \/ file.by # 0 /\ asked[file.by].do = "save"
          \/ asked[q].do = "bookmark" /\ file.holds = capture.holds /\ capture.of = asked[q].run

(* What a page was told last is true, of the session, of the world that was   *)
(* replaced and of the file that was saved (SessionContext.tsx, commands.ts,  *)
(* ScenarioEditor.tsx and the route, against scenario.rs).                    *)
ToldIsTrue == SessionIsAsTold /\ ReplacedIsGone /\ SavedIsThere
=============================================================================
