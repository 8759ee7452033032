----------------------------- MODULE BotRunner -----------------------------
(* The runner of scripted bots: it launches one process after another, stops  *)
(* those that take too long, stops all of them when it is interrupted, and    *)
(* sums up what became of each.                                               *)
EXTENDS Naturals, FiniteSets

CONSTANTS
  Count,       \* bots asked for
  MaxSignals   \* bound: SIGINT and SIGTERM sent to the runner

ASSUME BotRunnerAssumption == Count \in Nat \ {0} /\ MaxSignals \in Nat

VARIABLES
  runner,   \* how far it is, the next bot, whether it waits before that one, signals, summary
  bots      \* of each bot: its process, the runner's timers for it and its result

botRunner == <<runner, bots>>

Bots == 1..Count

(* process: "none" before it is launched, "alive", "told" to end, "gone";     *)
(* said: what its output tells of the scenario.                               *)
NoBot == [process |-> "none", said |-> "nothing", code |-> 1, watched |-> FALSE, killing |-> FALSE,
          timedOut |-> FALSE, status |-> "not_started"]

InitRunner ==
  /\ runner = [at |-> "ramping", next |-> 1, delayed |-> FALSE, signals |-> 0, summary |-> "none"]
  /\ bots = [b \in Bots |-> NoBot]

Interrupted == runner.signals > 0
Live == {b \in Bots : bots[b].watched}       \* launched, and not closed yet

(* SIGTERM, which a process may take its time with, and SIGKILL.              *)
Termed(b) == [b EXCEPT !.process = IF @ = "alive" THEN "told" ELSE @]
Killed(b) == [b EXCEPT !.process = IF @ \in {"alive", "told"} THEN "gone" ELSE @]

(* The log of another run is never overwritten: the bot fails instead.        *)
Launch ==
  /\ runner.at = "ramping" /\ runner.next <= Count /\ ~Interrupted /\ ~runner.delayed
  /\ \E spawned \in BOOLEAN :
       bots' = [bots EXCEPT ![runner.next] =
         IF spawned THEN [NoBot EXCEPT !.process = "alive", !.watched = TRUE, !.status = "running"]
         ELSE [NoBot EXCEPT !.status = "failed"]]
  /\ runner' = [runner EXCEPT !.next = @ + 1, !.delayed = runner.next < Count]

(* The delay before the next launch ends by its timer, or by an interrupt.    *)
Delayed ==
  /\ runner.delayed
  /\ runner' = [runner EXCEPT !.delayed = FALSE]
  /\ UNCHANGED bots

Ramped ==
  /\ runner.at = "ramping" /\ ~runner.delayed /\ (runner.next > Count \/ Interrupted)
  /\ runner' = [runner EXCEPT !.at = "waiting"]
  /\ UNCHANGED bots

(* The first signal asks every process to end, and those that do not are      *)
(* killed later; the next ones kill at once.                                  *)
Interrupt ==
  /\ runner.at # "over" /\ runner.signals < MaxSignals
  /\ runner' = [runner EXCEPT !.signals = @ + 1]
  /\ bots' = [b \in Bots |->
       IF b \notin Live THEN bots[b]
       ELSE IF Interrupted THEN Killed(bots[b]) ELSE [Termed(bots[b]) EXCEPT !.killing = TRUE]]

\* Mutant: the watchdog asks a process to end, and trusts that it does.
WatchdogOnlyAsks(b) ==
  /\ b \in Live /\ ~bots[b].timedOut
  /\ bots' = [bots EXCEPT ![b] = [Termed(bots[b]) EXCEPT !.timedOut = TRUE]]
  /\ UNCHANGED runner

Watchdog(b) ==
  /\ b \in Live /\ ~bots[b].timedOut
  /\ bots' = [bots EXCEPT ![b] = [Termed(bots[b]) EXCEPT !.timedOut = TRUE, !.killing = TRUE]]
  /\ UNCHANGED runner

KillTimer(b) ==
  /\ bots[b].killing /\ bots[b].process \in {"alive", "told"}
  /\ bots' = [bots EXCEPT ![b] = Killed(bots[b])]
  /\ UNCHANGED runner

(* A bot tells the outcome of its scenario, and its process ends, by itself   *)
(* (with code 0 when all went well) or for a signal.                          *)
Says(b) ==
  /\ bots[b].process \in {"alive", "told"} /\ bots[b].said = "nothing"
  /\ \E said \in {"success", "failure"} : bots' = [bots EXCEPT ![b].said = said]
  /\ UNCHANGED runner

Exits(b) ==
  /\ bots[b].process \in {"alive", "told"}
  /\ \E code \in {0, 1} :
       bots' = [bots EXCEPT ![b].process = "gone", ![b].code = code]
  /\ UNCHANGED runner

(* Its output is read when it is closed, whatever ended it.                   *)
Closed(b) ==
  /\ b \in Live /\ bots[b].process = "gone"
  /\ \E readable \in BOOLEAN :
       LET fine == bots[b].code = 0 /\ ~bots[b].timedOut /\ readable /\ bots[b].said = "success"
       IN bots' = [bots EXCEPT ![b].watched = FALSE, ![b].killing = FALSE,
                               ![b].status = IF fine THEN "succeeded" ELSE "failed"]
  /\ UNCHANGED runner

Number(status) == Cardinality({b \in Bots : bots[b].status = status})

(* Promise.all: every bot launched has its result. The summary may find no    *)
(* room on the disk.                                                          *)
SumUp ==
  /\ runner.at = "waiting" /\ \A b \in 1..(runner.next - 1) : bots[b].status # "running"
  /\ \E written \in BOOLEAN :
       runner' = [runner EXCEPT !.at = "over", !.summary =
         CASE ~written -> "none"
           [] written /\ Number("succeeded") = Count /\ ~Interrupted -> "success"
           [] OTHER -> "failure"]
  /\ UNCHANGED bots

OfBot(b)   == Watchdog(b) \/ KillTimer(b) \/ Says(b) \/ Exits(b) \/ Closed(b)
OfRunner   == Launch \/ Delayed \/ Ramped \/ SumUp
NextRunner == OfRunner \/ Interrupt \/ \E b \in Bots : OfBot(b)

(* Timers fire and a process that is killed is closed; no bot is obliged to   *)
(* do anything.                                                               *)
RunnerSpec ==
  /\ InitRunner /\ [][NextRunner]_botRunner
  /\ WF_botRunner(OfRunner)
  /\ \A b \in Bots : WF_botRunner(Watchdog(b)) /\ WF_botRunner(KillTimer(b)) /\ WF_botRunner(Closed(b))

(* When the runner is over no bot is left behind, each has one result, and    *)
(* what is called a success was one: every bot asked for was launched, told   *)
(* of its success and ended well in time, with nobody interrupting.           *)
Accounted ==
  runner.at = "over" =>
    /\ \A b \in Bots :
         /\ bots[b].process \in {"none", "gone"}
         /\ bots[b].status \in {"succeeded", "failed"} <=> b < runner.next
         /\ bots[b].status = "not_started" <=> b >= runner.next
    /\ runner.summary = "success" =>
         \A b \in Bots : bots[b].code = 0 /\ bots[b].said = "success" /\ ~bots[b].timedOut
    /\ runner.summary = "success" => runner.signals = 0
=============================================================================
