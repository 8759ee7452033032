-------------------------- MODULE MCPlayerGateway --------------------------
(* A behaviour is of the gateway, with two commands in one run of the world   *)
(* or one command and a reset of the world, or of the runner that launches    *)
(* bots, each with a gateway of its own.                                      *)
EXTENDS PlayerGateway, BotRunner

Everyone == {"scripted", "builder", "agent"}
Few      == [scripted |-> 1, builder |-> 1, agent |-> 2]

VARIABLE setting

OneWorld == INSTANCE PlayerGateway WITH MaxRuns <- 1
Resets   == INSTANCE PlayerGateway WITH MaxCmds <- MaxCmds - 1

everything == <<setting, vars, botRunner>>
InRunner == setting = "bots" /\ UNCHANGED <<setting, vars>>

OneInit == setting \in {"world", "resets", "bots"} /\ Init /\ InitRunner

OneNext ==
  \/ setting = "world"  /\ OneWorld!Next /\ UNCHANGED <<setting, botRunner>>
  \/ setting = "resets" /\ Resets!Next   /\ UNCHANGED <<setting, botRunner>>
  \/ setting = "bots"   /\ NextRunner    /\ UNCHANGED <<setting, vars>>

(* The runner's timers fire and a process that is killed is closed; the       *)
(* gateway, the game and the bots are under no obligation.                    *)
OneSpec ==
  /\ OneInit /\ [][OneNext]_everything
  /\ WF_everything(InRunner /\ OfRunner)
  /\ \A b \in Bots :
       /\ WF_everything(InRunner /\ Watchdog(b))
       /\ WF_everything(InRunner /\ KillTimer(b))
       /\ WF_everything(InRunner /\ Closed(b))

(* The runner comes to an end, with every bot accounted for (runBot and       *)
(* runBotRunner of botRunner.ts).                                             *)
BotsAreAccountedFor == <>(setting = "bots" => runner.at = "over") /\ []Accounted
=============================================================================
