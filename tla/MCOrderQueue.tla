---------------------------- MODULE MCOrderQueue ----------------------------
(* Instances of OrderQueue, of which a behaviour is in one: few orders and a  *)
(* disconnect, a failing request or a reload; or more orders, queued behind   *)
(* each other, and no trouble. Commands are numbered: nothing is symmetric.   *)
EXTENDS OrderQueue

VARIABLE setting

Rough == INSTANCE OrderQueue WITH MaxCmds <- MaxCmds - 1, Policies <- {"replace", "append"}
Calm  == INSTANCE OrderQueue WITH Troubles <- {}, MaxTroubles <- 0, Policies <- {"append", "clear"}

OneInit == \/ setting = "rough" /\ Rough!Init
           \/ setting = "calm"  /\ Calm!Init

OneNext == \/ setting = "rough" /\ Rough!Next /\ UNCHANGED setting
           \/ setting = "calm"  /\ Calm!Next  /\ UNCHANGED setting

OneSpec == OneInit /\ [][OneNext]_<<setting, vars>>

(* Moves that queue behind other work, in a behaviour without trouble.        *)
MovesSpec == setting = "moves" /\ Init /\ [][Next /\ UNCHANGED setting]_<<setting, vars>>
=============================================================================
