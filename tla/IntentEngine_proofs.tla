------------------------ MODULE IntentEngine_proofs ------------------------
(* Proofs about IntentEngine for every value of its constants.              *)
EXTENDS IntentEngine, TLAPS

(* The tuples the actions leave UNCHANGED, and the control states.         *)
USE DEF ids, keys, book, locals, fields, ghosts, Handler, Closing, Between

(* A command names a player, an entity and a kind.                          *)
LEMMA Commands ==
  ASSUME NEW o \in Order
  PROVE  Player(o) \in Players /\ Target(o) \in Entities /\ Kind(o) \in Kinds
  BY EngineAssumption DEF Order, Player, Target, Kind

(* None is no order and no pending ending.                                  *)
LEMMA Nothing ==
  /\ None \notin Order
  /\ None \notin [entity : Entities, order : Order, state : Endings]
  BY NoneAssumption

-----------------------------------------------------------------------------
LEMMA InitTypes == Init => TypeOK
<1> SUFFICES ASSUME Init PROVE TypeOK
  OBVIOUS
<1>1. Idle \in Slots
  BY DEF Idle, Slots
<1>2. snapshot \in [alive : SUBSET Entities, moves : Slots, boundary : Nat]
  BY <1>1 DEF Init
<1>3. crashes \in 0..MaxCrashes /\ faults \in 0..MaxFaults
  BY EngineAssumption DEF Init
<1> QED
  BY <1>1, <1>2, <1>3 DEF Init, TypeOK

LEMMA HandleTypes == TypeOK /\ Handle => TypeOK'
<1> SUFFICES ASSUME TypeOK, Handle PROVE TypeOK'
  OBVIOUS
<1> USE Nothing
<1>h. pc \in Handler => /\ handling \in Order /\ handling.entry \in Nat
                       /\ handling.seq \in Seqs /\ handling.cmd \in Cmds
                       /\ Player(handling) \in Players /\ Target(handling) \in Entities
  BY Commands DEF TypeOK, Order
<1>1. CASE Receive
  BY <1>h, <1>1 DEF TypeOK, Receive, Publish, States
<1>2. CASE Check
  BY <1>h, <1>2 DEF TypeOK, Check, Refuse, Publish, EndEntry, States, Refusals
<1>3. CASE Admit
  BY <1>h, <1>3 DEF TypeOK, Admit
<1>4. CASE PersistSeq
  BY <1>h, <1>4 DEF TypeOK, PersistSeq
<1>5. CASE StoreCmd
  BY <1>h, <1>5 DEF TypeOK, StoreCmd
<1>6. CASE RefuseTarget
  BY <1>h, <1>6 DEF TypeOK, RefuseTarget, Refuse, Publish, EndEntry, States, Refusals
<1>7. CASE FailContent
  BY <1>h, <1>7 DEF TypeOK, FailContent, Refuse, Publish, EndEntry, States, Refusals
<1>8. CASE RefuseBusy
  BY <1>h, <1>8 DEF TypeOK, RefuseBusy, Refuse, Publish, EndEntry, States, Refusals
<1>9. CASE EditRoute
  BY <1>h, <1>9 DEF TypeOK, EditRoute
<1>10. CASE DoInstant
  BY <1>h, <1>10 DEF TypeOK, DoInstant
<1>11. CASE Start
  BY <1>h, <1>11 DEF TypeOK, Start, Slot, Slots
<1>12. CASE Preempt
  BY <1>h, <1>12 DEF TypeOK, Preempt, Slots
<1>13. CASE Interrupted
  BY <1>h, <1>13 DEF TypeOK, Interrupted, Publish, States, Endings
<1>14. CASE Track
  BY <1>h, <1>14 DEF TypeOK, Track, Slots
<1>15. CASE Accept
  BY <1>h, <1>15 DEF TypeOK, Accept, Publish, States
<1>16. CASE Progress
  BY <1>h, <1>16 DEF TypeOK, Progress, Publish, EndEntry, States
<1>17. CASE AcceptInstant
  BY <1>h, <1>17 DEF TypeOK, AcceptInstant, Publish, Finish, Slot, Slots, States, Endings
<1>18. CASE FinishInstant
  BY <1>h, <1>18 DEF TypeOK, FinishInstant, Publish, EndEntry, States, Endings
<1> QED
  BY <1>1, <1>2, <1>3, <1>4, <1>5, <1>6, <1>7, <1>8, <1>9, <1>10, <1>11, <1>12, <1>13, <1>14, <1>15, <1>16, <1>17, <1>18 DEF Handle

LEMMA NextTypes == TypeOK /\ [Next]_vars => TypeOK'
<1> SUFFICES ASSUME TypeOK, [Next]_vars PROVE TypeOK'
  OBVIOUS
<1> USE Nothing
<1>1. ASSUME NEW c \in Cmds, NEW s \in Seqs, Post(c, s) PROVE TypeOK'
  BY <1>1 DEF TypeOK, Post
<1>2. ASSUME NEW c \in Cmds, Expire(c) PROVE TypeOK'
  BY <1>2 DEF TypeOK, Expire
<1>3. CASE ReadIntents
  BY <1>3 DEF TypeOK, ReadIntents
<1>4. CASE TakeEntry
  BY <1>4 DEF TypeOK, TakeEntry, Order
<1>5. CASE LeaveIngest
  BY <1>5 DEF TypeOK, LeaveIngest
<1>6. CASE Handle
  BY <1>6, HandleTypes
<1>7. ASSUME NEW e \in Entities, Complete(e) PROVE TypeOK'
  BY <1>7 DEF TypeOK, Complete, Finish, Slots, Endings
<1>8. ASSUME NEW e \in Entities, Destroy(e) PROVE TypeOK'
  BY <1>8 DEF TypeOK, Destroy, Finish, Slots, Endings
<1>9. CASE Untrack
  BY <1>9 DEF TypeOK, Untrack, Slots
<1>10. CASE Announce
  BY <1>10 DEF TypeOK, Announce, AfterEnding, Publish, States
<1>11. CASE PublishTick
  BY <1>11 DEF TypeOK, PublishTick
<1>12. CASE EndTick
  BY <1>12 DEF TypeOK, EndTick, Checkpoint, Slots
<1>13. CASE Fault
  BY <1>13, EngineAssumption DEF TypeOK, Fault, FailHandler, FailEnding, EndEntry, AfterEnding, Order
<1>14. CASE Crash
  BY <1>14, EngineAssumption DEF TypeOK, Crash, Slots, Idle
<1>15. CASE Restore
  BY <1>15 DEF TypeOK, Restore, Restored, Checkpoint, Slots
<1>16. CASE UNCHANGED vars
  BY <1>16 DEF TypeOK, vars
<1> QED
  BY <1>1, <1>2, <1>3, <1>4, <1>5, <1>6, <1>7, <1>8, <1>9, <1>10, <1>11, <1>12, <1>13,
     <1>14, <1>15, <1>16 DEF Next, Tick

(* Whatever players post, whichever Redis call fails and whenever the       *)
(* engine dies, the engine's state and Redis keep their types, and the tick *)
(* task's locals fit the await it is at.                                    *)
THEOREM TypeCorrect == Spec => []TypeOK
<1>1. Init => TypeOK
  BY InitTypes
<1>2. TypeOK /\ [Next]_vars => TypeOK'
  BY NextTypes
<1> QED
  BY <1>1, <1>2, PTL DEF Spec

-----------------------------------------------------------------------------
(* Admission: what the sequence and dedupe checks rest on between the check *)
(* of an envelope and its ACCEPTED event, whatever fails in between.        *)
Accepted == Orders("accepted")

Admitted == {"seq", "store", "validate", "preempt", "interrupted", "track", "accept", "instant"}

(* The envelope under way is the latest taken up, and not yet accepted.     *)
HandlingIsNew ==
  /\ \A a \in Accepted : a.id <= minted
  /\ handling # None => handling.id = minted
  /\ pc \in Admitted \cup {"receive", "check"} => \A a \in Accepted : a.id < minted

(* Redis holds every accepted sequence, memory holds at least what Redis    *)
(* holds, and an admitted sequence is above all accepted ones.              *)
SequenceIsSaved ==
  /\ \A a \in Accepted : a.seq <= seqKey[Player(a)]
  /\ pc # "down" => \A p \in Players : seqKey[p] <= lastSeq[p]
  /\ pc = "seq" => handling.seq > 0
  /\ pc \in Admitted /\ handling.seq > 0 =>
       /\ lastSeq[Player(handling)] = handling.seq
       /\ pc # "seq" => seqKey[Player(handling)] = handling.seq
       /\ \A a \in Accepted : Player(a) = Player(handling) => a.seq < handling.seq

(* Redis holds the dedupe key of every accepted command until it expires.   *)
CommandIsKept ==
  /\ \A a \in Accepted : a.cmd \in cmdKey \cup expired
  /\ pc \in Admitted =>
       \A a \in Accepted : a.cmd = handling.cmd => a.cmd \in expired
  /\ pc \in Admitted \ {"seq", "store"} => handling.cmd \in cmdKey \cup expired

Admission == HandlingIsNew /\ SequenceIsSaved /\ CommandIsKept
             /\ AcceptedInSequence /\ AcceptedOnce

(* Only an ACCEPTED event changes the accepted orders.                      *)
LEMMA Published ==
  ASSUME NEW o, NEW s, Publish(o, s)
  PROVE  Accepted' = IF s = "accepted" THEN Accepted \cup {o} ELSE Accepted
<1>1. \A x : x \in Accepted <=> \E r \in events : r.state = "accepted" /\ x = r.order
  BY DEF Accepted, Orders
<1>2. \A x : x \in Accepted' <=> \E r \in events' : r.state = "accepted" /\ x = r.order
  BY DEF Accepted, Orders
<1> DEFINE new == [order |-> o, state |-> s]
<1>3. events' = events \cup {new} /\ new.order = o /\ new.state = s
  BY DEF Publish
<1> HIDE DEF new
<1> QED
  BY <1>1, <1>2, <1>3

LEMMA NothingPublished == events' = events => Accepted' = Accepted
  BY DEF Accepted, Orders

LEMMA AcceptedOrders == TypeOK => Accepted \subseteq Order
  BY DEF TypeOK, Accepted, Orders

(* Steps that neither accept nor admit.                                     *)
Quiet ==
  /\ Accepted' = Accepted
  /\ UNCHANGED <<seqKey, cmdKey, lastSeq, minted, expired>>
  /\ handling' \in {handling, None}
  /\ pc' = "down" <=> pc = "down"
  /\ pc' \in Admitted => /\ pc \in Admitted /\ handling' = handling
                         /\ pc \in {"seq", "store"} \/ pc' \in {"seq", "store"} => pc' = pc
  /\ pc' \in {"receive", "check"} => pc \in {"receive", "check"}

LEMMA QuietSteps == Admission /\ Quiet => Admission'
<1> SUFFICES ASSUME Admission, Quiet PROVE Admission'
  OBVIOUS
<1>1. HandlingIsNew'
  BY DEF Admission, HandlingIsNew, Quiet
<1>2. SequenceIsSaved'
  BY DEF Admission, SequenceIsSaved, Quiet, Player, Admitted
<1>3. CommandIsKept'
  BY DEF Admission, CommandIsKept, Quiet
<1>4. AcceptedInSequence' /\ AcceptedOnce'
  BY DEF Admission, AcceptedInSequence, AcceptedOnce, Quiet, Accepted, Player
<1> QED
  BY <1>1, <1>2, <1>3, <1>4 DEF Admission

LEMMA QuietHandler ==
  ASSUME TypeOK,
         \/ Receive \/ Check \/ RefuseTarget \/ FailContent \/ RefuseBusy \/ EditRoute
         \/ DoInstant \/ Start \/ Preempt \/ Interrupted \/ Track \/ Progress \/ FinishInstant
  PROVE  Quiet
<1> USE Published, NothingPublished DEF Quiet, Admitted
<1>1. CASE Receive
  BY <1>1 DEF Receive, Publish
<1>2. CASE Check
  BY <1>2 DEF Check, Refuse, EndEntry
<1>3. CASE RefuseTarget
  BY <1>3 DEF RefuseTarget, Refuse, EndEntry
<1>4. CASE FailContent
  BY <1>4 DEF FailContent, Refuse, EndEntry
<1>5. CASE RefuseBusy
  BY <1>5 DEF RefuseBusy, Refuse, EndEntry
<1>6. CASE EditRoute
  BY <1>6 DEF EditRoute
<1>7. CASE DoInstant
  BY <1>7 DEF DoInstant
<1>8. CASE Start
  BY <1>8 DEF Start
<1>9. CASE Preempt
  BY <1>9 DEF Preempt
<1>10. CASE Interrupted
  BY <1>10 DEF Interrupted
<1>11. CASE Track
  BY <1>11 DEF Track
<1>12. CASE Progress
  BY <1>12 DEF Progress, EndEntry
<1>13. CASE FinishInstant
  BY <1>13 DEF FinishInstant, EndEntry
<1> QED
  BY <1>1, <1>2, <1>3, <1>4, <1>5, <1>6, <1>7, <1>8, <1>9, <1>10, <1>11, <1>12, <1>13

LEMMA QuietTick ==
  ASSUME TypeOK,
         \/ \E c \in Cmds, n \in Seqs : Post(c, n)
         \/ ReadIntents \/ LeaveIngest \/ Untrack \/ Announce \/ PublishTick \/ EndTick \/ Fault
         \/ \E e \in Entities : Complete(e) \/ Destroy(e)
         \/ UNCHANGED vars
  PROVE  Quiet
<1> USE Published, NothingPublished DEF Quiet, Admitted
<1>1. ASSUME NEW c \in Cmds, NEW n \in Seqs, Post(c, n) PROVE Quiet
  BY <1>1 DEF Post
<1>2. CASE ReadIntents
  BY <1>2 DEF ReadIntents
<1>3. CASE LeaveIngest
  BY <1>3 DEF LeaveIngest
<1>4. CASE Untrack
  BY <1>4 DEF Untrack
<1>5. CASE Announce
  <2>1. ending.state # "accepted"
    BY <1>5 DEF Announce, TypeOK, Endings
  <2> QED
    BY <1>5, <2>1 DEF Announce, AfterEnding
<1>6. CASE PublishTick
  BY <1>6 DEF PublishTick
<1>7. CASE EndTick
  BY <1>7 DEF EndTick
<1>8. CASE Fault
  BY <1>8 DEF Fault, FailHandler, FailEnding, EndEntry, AfterEnding
<1>9. ASSUME NEW e \in Entities, Complete(e) PROVE Quiet
  BY <1>9 DEF Complete, Finish
<1>10. ASSUME NEW e \in Entities, Destroy(e) PROVE Quiet
  BY <1>10 DEF Destroy, Finish
<1>11. CASE UNCHANGED vars
  BY <1>11 DEF vars
<1> QED
  BY <1>1, <1>2, <1>3, <1>4, <1>5, <1>6, <1>7, <1>8, <1>9, <1>10, <1>11

-----------------------------------------------------------------------------
(* The steps that admit, accept, restart, or take up the next envelope.     *)

LEMMA AdmissionParts ==
  Admission => HandlingIsNew /\ SequenceIsSaved /\ CommandIsKept /\ AcceptedInSequence /\ AcceptedOnce
  BY DEF Admission

(* While the accepted orders stay, their mutual order stays; more commands  *)
(* may have expired.                                                        *)
LEMMA StillAccepted ==
  ASSUME Admission, Accepted' = Accepted, expired \subseteq expired'
  PROVE  AcceptedInSequence' /\ AcceptedOnce'
  BY DEF Admission, AcceptedInSequence, AcceptedOnce, Accepted, Player

LEMMA LoudSteps ==
  ASSUME TypeOK, Admission,
         \/ \E c \in Cmds : Expire(c)
         \/ TakeEntry \/ Admit \/ PersistSeq \/ StoreCmd \/ Crash \/ Restore
  PROVE  Admission'
<1> USE NothingPublished, AcceptedOrders, Nothing, StillAccepted, AdmissionParts DEF Admitted
<1>o. \A a \in Accepted : a \in Order /\ a.id \in Nat /\ a.seq \in Nat /\ a.seq \in Seqs /\ Player(a) \in Players
  BY Commands, EngineAssumption DEF Order
<1>h. handling # None => handling \in Order /\ handling.seq \in Seqs /\ handling.seq \in Nat
                         /\ Player(handling) \in Players
  BY Commands, EngineAssumption DEF Order, TypeOK
<1>k. \A p \in Players : seqKey[p] \in Nat /\ lastSeq[p] \in Nat
  <2>1. Seqs \cup {0} \subseteq Nat
    BY EngineAssumption
  <2>2. seqKey \in [Players -> Seqs \cup {0}] /\ lastSeq \in [Players -> Seqs \cup {0}]
    BY DEF TypeOK
  <2> QED
    BY <2>1, <2>2
<1>1. ASSUME NEW c \in Cmds, Expire(c) PROVE Admission'
  BY <1>1, <1>o, <1>h DEF Expire, Admission, HandlingIsNew, SequenceIsSaved, CommandIsKept, Player
<1>2. CASE TakeEntry
  BY <1>2, <1>o DEF TakeEntry, Admission, HandlingIsNew, SequenceIsSaved, CommandIsKept, Player, TypeOK
<1>3. CASE Admit
  <2>1. HandlingIsNew' /\ CommandIsKept'
    BY <1>3 DEF Admit, HandlingIsNew, CommandIsKept, Duplicate
  <2>2. SequenceIsSaved'
    BY <1>3, <1>o, <1>h, <1>k DEF Admit, SequenceIsSaved, OutOfOrder, Player, TypeOK
  <2> QED
    BY <1>3, <2>1, <2>2 DEF Admit, Admission
<1>4. CASE PersistSeq
  <2>1. HandlingIsNew' /\ CommandIsKept'
    BY <1>4 DEF PersistSeq, HandlingIsNew, CommandIsKept
  <2>2. SequenceIsSaved'
    BY <1>4, <1>o, <1>h, <1>k DEF PersistSeq, SequenceIsSaved, Player, TypeOK
  <2> QED
    BY <1>4, <2>1, <2>2 DEF PersistSeq, Admission
<1>5. CASE StoreCmd
  BY <1>5, <1>o DEF StoreCmd, Admission, HandlingIsNew, SequenceIsSaved, CommandIsKept, Player
<1>6. CASE Crash
  BY <1>6, <1>o DEF Crash, Admission, HandlingIsNew, SequenceIsSaved, CommandIsKept, Player
<1>7. CASE Restore
  BY <1>7, <1>o, <1>k DEF Restore, Admission, HandlingIsNew, SequenceIsSaved, CommandIsKept, Player, TypeOK
<1> QED
  BY <1>1, <1>2, <1>3, <1>4, <1>5, <1>6, <1>7

(* ACCEPTED adds the order under way: it is newer, its sequence higher and  *)
(* its command other than, or a late resend of, every one accepted before.  *)
LEMMA AcceptSteps == TypeOK /\ Admission /\ (Accept \/ AcceptInstant) => Admission'
<1> SUFFICES ASSUME TypeOK, Admission, Accept \/ AcceptInstant PROVE Admission'
  OBVIOUS
<1> USE DEF Admitted
<1>1. /\ Accepted' = Accepted \cup {handling}
      /\ pc \in {"accept", "instant"} /\ handling' = handling
      /\ UNCHANGED <<seqKey, cmdKey, lastSeq, minted, expired>>
      /\ pc' \notin Admitted \cup {"receive", "check", "down"}
  BY Published DEF Accept, AcceptInstant, Finish
<1>2. handling # None /\ handling \in Order /\ handling.id \in Nat /\ handling.seq \in Nat
      /\ Player(handling) \in Players /\ minted \in Nat
  BY <1>1, Nothing, Commands, EngineAssumption DEF Order, TypeOK
<1>3. \A a \in Accepted : a.id \in Nat /\ a.seq \in Nat
  BY AcceptedOrders, EngineAssumption DEF Order
<1>4. \A p \in Players : seqKey[p] \in Nat
  <2>1. Seqs \cup {0} \subseteq Nat
    BY EngineAssumption
  <2>2. seqKey \in [Players -> Seqs \cup {0}]
    BY DEF TypeOK
  <2> QED
    BY <2>1, <2>2
<1>5. /\ handling.id = minted
      /\ \A a \in Accepted : a.id < handling.id
      /\ handling.seq > 0 =>
           /\ seqKey[Player(handling)] = handling.seq
           /\ \A a \in Accepted : Player(a) = Player(handling) => a.seq < handling.seq
      /\ \A a \in Accepted : a.cmd = handling.cmd => a.cmd \in expired
      /\ handling.cmd \in cmdKey \cup expired
  BY <1>1, <1>2, AdmissionParts DEF HandlingIsNew, SequenceIsSaved, CommandIsKept
<1>6. HandlingIsNew'
  BY <1>1, <1>2, <1>3, <1>5, AdmissionParts DEF HandlingIsNew
<1>7. SequenceIsSaved'
  <2>1. handling.seq <= seqKey[Player(handling)]
    BY <1>2, <1>4, <1>5
  <2> QED
    BY <1>1, <2>1, AdmissionParts DEF SequenceIsSaved, Player
<1>8. CommandIsKept'
  BY <1>1, <1>5, AdmissionParts DEF CommandIsKept
<1>9. AcceptedInSequence'
  <2>1. AcceptedInSequence' <=>
          \A a, b \in Accepted \cup {handling} :
            Player(a) = Player(b) /\ a.seq > 0 /\ b.seq > 0 /\ a.id < b.id => a.seq < b.seq
    BY <1>1 DEF AcceptedInSequence, Accepted, Player
  <2>2. \A a, b \in Accepted :
          Player(a) = Player(b) /\ a.seq > 0 /\ b.seq > 0 /\ a.id < b.id => a.seq < b.seq
    BY AdmissionParts DEF AcceptedInSequence, Accepted
  <2> QED
    BY <1>2, <1>3, <1>5, <2>1, <2>2
<1>10. AcceptedOnce'
  <2>1. AcceptedOnce' <=>
          \A a, b \in Accepted \cup {handling} : a.cmd = b.cmd => a = b \/ a.cmd \in expired
    BY <1>1 DEF AcceptedOnce, Accepted
  <2>2. \A a, b \in Accepted : a.cmd = b.cmd => a = b \/ a.cmd \in expired
    BY AdmissionParts DEF AcceptedOnce, Accepted
  <2> QED
    BY <1>5, <2>1, <2>2
<1> QED
  BY <1>6, <1>7, <1>8, <1>9, <1>10 DEF Admission

LEMMA InitAdmission == Init => Admission
<1> SUFFICES ASSUME Init PROVE Admission
  OBVIOUS
<1>1. Accepted = {}
  BY DEF Init, Accepted, Orders
<1> QED
  BY <1>1 DEF Init, Admission, HandlingIsNew, SequenceIsSaved, CommandIsKept, Admitted,
              AcceptedInSequence, AcceptedOnce, Accepted

LEMMA NextAdmission == TypeOK /\ Admission /\ [Next]_vars => Admission'
  BY QuietSteps, QuietHandler, QuietTick, LoudSteps, AcceptSteps DEF Next, Tick, Handle

THEOREM AdmissionHolds == Spec => []Admission
<1>1. Init => Admission
  BY InitAdmission
<1>2. TypeOK /\ Admission /\ [Next]_vars => Admission'
  BY NextAdmission
<1> QED
  BY <1>1, <1>2, TypeCorrect, PTL DEF Spec

(* A player's commands are accepted in the order of their client sequence,  *)
(* through any resend, failed Redis call, crash and restart.                *)
THEOREM SequencesHold == Spec => []AcceptedInSequence
<1>1. Admission => AcceptedInSequence
  BY DEF Admission
<1> QED
  BY <1>1, AdmissionHolds, PTL

(* A command is accepted at most once while its dedupe key lives.           *)
THEOREM CommandsAreNotRepeated == Spec => []AcceptedOnce
<1>1. Admission => AcceptedOnce
  BY DEF Admission
<1> QED
  BY <1>1, AdmissionHolds, PTL

-----------------------------------------------------------------------------
(* What the engine promises about orders while no Redis call of it fails:   *)
(* slots, tracking and outcomes agree through every crash and restart.      *)

(* Tracking follows the action slots, one await behind.                     *)
SlotsAgree ==
  /\ pc \notin {"down", "preempt", "interrupted", "track", "untrack"} => tracking = current
  /\ pc = "preempt" => tracking = [current EXCEPT ![Target(handling)] = prior]
  /\ pc \in {"interrupted", "track"} => tracking = [current EXCEPT ![Target(handling)] = None]
  /\ pc = "untrack" => tracking = [current EXCEPT ![ending.entity] = ending.order]
  /\ pc \in {"preempt", "interrupted", "track", "accept", "progress"} =>
       current[Target(handling)] = handling
  /\ pc \in Closing => current[ending.entity] = None

(* An order only ever stands at its own target, and all orders that stand   *)
(* somewhere are older than the envelope that has not been placed.          *)
Placed == {"preempt", "interrupted", "track", "accept", "progress"}

Standing(o, e) ==
  o # None => Target(o) = e /\ o.id <= minted /\ (handling # None /\ pc \notin Placed => o.id < minted)

InPlace ==
  /\ \A e \in Entities : Standing(current[e], e) /\ Standing(tracking[e], e)
  /\ prior # None => Target(prior) = Target(handling) /\ prior.id < minted
  /\ ending # None => Standing(ending.order, ending.entity)

(* Nothing that stands, is under way, or is about to end has ended before.  *)
NotEnded ==
  /\ \A o \in Ended : o.id <= minted
  /\ \A e \in Entities : current[e] \notin Ended /\ tracking[e] \notin Ended
  /\ handling \notin Ended /\ prior \notin Ended
  /\ ending # None => ending.order \notin Ended

(* Only a self-destruct under way leaves a removed entity with an order.    *)
Living ==
  \A e \in Entities : current[e] # None =>
    \/ e \in alive
    \/ pc = "instant" /\ Kind(handling) = "destruct" /\ e = Target(handling)

(* No slot and no tracking entry is older than an order accepted for it.    *)
Replaces(o) == Kind(o) \in Lasting /\ Payload[o.cmd].policy = "replace"

Newest ==
  /\ \A o \in Accepted : Replaces(o) =>
       \A s \in {current[Target(o)], tracking[Target(o)]} : s # None => o.id <= s.id
  /\ pc = "instant" => ~Replaces(handling)

Orderly == SlotsAgree /\ InPlace /\ NotEnded /\ Living /\ Newest /\ OneOutcome

-----------------------------------------------------------------------------
(* With no budget for failed calls, a step is one of these.                 *)
LEMMA FaultFree ==
  ASSUME MaxFaults = 0, TypeOK, [Next]_vars
  PROVE  \/ \E c \in Cmds, n \in Seqs : Post(c, n)
         \/ \E c \in Cmds : Expire(c)
         \/ ReadIntents \/ TakeEntry \/ LeaveIngest \/ Handle
         \/ \E e \in Entities : Complete(e) \/ Destroy(e)
         \/ Untrack \/ Announce \/ PublishTick \/ EndTick
         \/ Crash \/ Restore \/ UNCHANGED vars
<1>1. ~Fault
  BY DEF Fault, TypeOK
<1> QED
  BY <1>1 DEF Next, Tick

LEMMA AgreeStep ==
  ASSUME MaxFaults = 0, TypeOK, SlotsAgree, InPlace, [Next]_vars
  PROVE  SlotsAgree'
<1> USE Nothing DEF SlotsAgree
<1>h. /\ pc \in Handler => handling \in Order /\ handling # None /\ Target(handling) \in Entities
      /\ ending # None => ending.entity \in Entities /\ ending.order \in Order
      /\ current \in [Entities -> Order \cup {None}] /\ tracking \in [Entities -> Order \cup {None}]
      /\ pc \in {"down"} \cup Between \cup Handler \cup Closing
      /\ pc \in Between \cup {"down"} => handling = None
      /\ ending # None <=> pc \in Closing
  BY Commands DEF TypeOK, Slots
<1>1. ASSUME NEW c \in Cmds, NEW n \in Seqs, Post(c, n) PROVE SlotsAgree'
  BY <1>1, <1>h DEF Post, Target
<1>2. ASSUME NEW c \in Cmds, Expire(c) PROVE SlotsAgree'
  BY <1>2, <1>h DEF Expire, Target
<1>3. CASE ReadIntents \/ TakeEntry \/ LeaveIngest \/ PublishTick \/ EndTick
  BY <1>3, <1>h DEF ReadIntents, TakeEntry, LeaveIngest, PublishTick, EndTick
<1>4. CASE Receive \/ Admit \/ PersistSeq \/ StoreCmd \/ EditRoute \/ DoInstant
  BY <1>4, <1>h DEF Receive, Admit, PersistSeq, StoreCmd, EditRoute, DoInstant
<1>5. CASE Check \/ RefuseTarget \/ FailContent \/ RefuseBusy \/ Progress \/ FinishInstant
  BY <1>5, <1>h DEF Check, RefuseTarget, FailContent, RefuseBusy, Progress, FinishInstant, Refuse, EndEntry
<1>6. CASE Start
  BY <1>6, <1>h DEF Start, Slot, Target
<1>7. CASE Preempt
  BY <1>7, <1>h DEF Preempt, Target
<1>8. CASE Interrupted
  BY <1>8, <1>h DEF Interrupted, Target
<1>9. CASE Track
  BY <1>9, <1>h DEF Track, Target
<1>10. CASE Accept
  BY <1>10, <1>h DEF Accept, Target
<1>11. CASE AcceptInstant
  BY <1>11, <1>h DEF AcceptInstant, Finish, Slot, Target
<1>12. ASSUME NEW e \in Entities, Complete(e) PROVE SlotsAgree'
  <2>1. /\ pc = "act" /\ pc' = "untrack" /\ tracking' = current
        /\ current' = [current EXCEPT ![e] = None]
        /\ ending'.entity = e /\ ending'.order = current[e]
    BY <1>12, <1>h DEF Complete, Finish
  <2>2. tracking' = [current' EXCEPT ![ending'.entity] = ending'.order]
    BY <2>1, <1>h
  <2> QED
    BY <2>1, <2>2, <1>h
<1>13. ASSUME NEW e \in Entities, Destroy(e) PROVE SlotsAgree'
  BY <1>13, <1>h DEF Destroy, Finish
<1>14. CASE Untrack
  BY <1>14, <1>h DEF Untrack
<1>15. CASE Announce
  BY <1>15, <1>h DEF Announce, AfterEnding
<1>16. CASE Crash \/ Restore
  BY <1>16, <1>h DEF Crash, Restore
<1>17. CASE UNCHANGED vars
  BY <1>17 DEF vars, Target
<1> QED
  BY <1>1, <1>2, <1>3, <1>4, <1>5, <1>6, <1>7, <1>8, <1>9, <1>10, <1>11, <1>12, <1>13, <1>14,
     <1>15, <1>16, <1>17, FaultFree DEF Handle

LEMMA InPlaceStep ==
  ASSUME MaxFaults = 0, TypeOK, HandlingIsNew, SlotsAgree, InPlace, [Next]_vars
  PROVE  InPlace'
<1> USE Nothing DEF InPlace, Standing, Placed
<1>h. /\ pc \in Handler => handling \in Order /\ handling # None /\ Target(handling) \in Entities
      /\ handling # None => handling.id = minted
      /\ ending # None => ending.entity \in Entities /\ ending.order \in Order
      /\ prior # None => prior \in Order
      /\ current \in [Entities -> Order \cup {None}] /\ tracking \in [Entities -> Order \cup {None}]
      /\ pc \in Between \cup {"down"} => handling = None
      /\ ending # None <=> pc \in Closing
      /\ prior # None <=> pc \in {"preempt", "interrupted"}
      /\ minted \in Nat
  BY Commands DEF TypeOK, Slots, HandlingIsNew
<1>o. \A o \in Order : o.id \in Nat
  BY DEF Order
<1>1. ASSUME NEW c \in Cmds, NEW n \in Seqs, Post(c, n) PROVE InPlace'
  BY <1>1, <1>h DEF Post, Target
<1>2. ASSUME NEW c \in Cmds, Expire(c) PROVE InPlace'
  BY <1>2, <1>h DEF Expire, Target
<1>3. CASE ReadIntents \/ TakeEntry \/ LeaveIngest \/ PublishTick \/ EndTick
  BY <1>3, <1>h, <1>o DEF ReadIntents, TakeEntry, LeaveIngest, PublishTick, EndTick, Target
<1>4. CASE Receive \/ Admit \/ PersistSeq \/ StoreCmd \/ EditRoute \/ DoInstant
  BY <1>4, <1>h DEF Receive, Admit, PersistSeq, StoreCmd, EditRoute, DoInstant, Target
<1>5. CASE Check \/ RefuseTarget \/ FailContent \/ RefuseBusy \/ Progress \/ FinishInstant
  BY <1>5, <1>h DEF Check, RefuseTarget, FailContent, RefuseBusy, Progress, FinishInstant,
                    Refuse, EndEntry, Target
<1>6. CASE Start
  BY <1>6, <1>h, <1>o DEF Start, Slot, Target
<1>7. CASE Preempt \/ Interrupted
  BY <1>7, <1>h DEF Preempt, Interrupted, Target
<1>8. CASE Track
  BY <1>8, <1>h, <1>o DEF Track, Target
<1>9. CASE Accept
  BY <1>9, <1>h DEF Accept, Target
<1>10. CASE AcceptInstant
  BY <1>10, <1>h DEF AcceptInstant, Finish, Slot, Target
<1>11. ASSUME NEW e \in Entities, Complete(e) PROVE InPlace'
  BY <1>11, <1>h DEF Complete, Finish, Target
<1>12. ASSUME NEW e \in Entities, Destroy(e) PROVE InPlace'
  BY <1>12, <1>h DEF Destroy, Finish, Target
<1>13. CASE Untrack \/ Announce
  BY <1>13, <1>h DEF Untrack, Announce, AfterEnding, Target
<1>14. CASE Crash
  BY <1>14, <1>h DEF Crash, Idle, Target
<1>15. CASE Restore
  BY <1>15, <1>h DEF Restore, Restored, Target
<1>16. CASE UNCHANGED vars
  BY <1>16 DEF vars, Target
<1> QED
  BY <1>1, <1>2, <1>3, <1>4, <1>5, <1>6, <1>7, <1>8, <1>9, <1>10, <1>11, <1>12, <1>13, <1>14,
     <1>15, <1>16, FaultFree DEF Handle

-----------------------------------------------------------------------------
(* Only an outcome changes the set of ended orders.                         *)
LEMMA OutcomePublished ==
  ASSUME NEW o, NEW s, Publish(o, s)
  PROVE  Ended' = IF s \in Endings \cup Refusals THEN Ended \cup {o} ELSE Ended
<1>1. \A x : x \in Ended <=> \E r \in events : r.state \in Endings \cup Refusals /\ x = r.order
  BY DEF Ended, Orders
<1>2. \A x : x \in Ended' <=> \E r \in events' : r.state \in Endings \cup Refusals /\ x = r.order
  BY DEF Ended, Orders
<1> DEFINE new == [order |-> o, state |-> s]
<1>3. events' = events \cup {new} /\ new.order = o /\ new.state = s
  BY DEF Publish
<1> HIDE DEF new
<1> QED
  BY <1>1, <1>2, <1>3

LEMMA NothingEnded == events' = events => Ended' = Ended
  BY DEF Ended, Orders

LEMMA EndedOrders == TypeOK => Ended \subseteq Order
<1> SUFFICES ASSUME TypeOK PROVE Ended \subseteq Order
  OBVIOUS
<1>1. \A x \in Ended : \E r \in events : x = r.order
  BY DEF Ended, Orders
<1> QED
  BY <1>1 DEF TypeOK

LEMMA NotEndedStep ==
  ASSUME MaxFaults = 0, TypeOK, HandlingIsNew, SlotsAgree, InPlace, NotEnded, [Next]_vars
  PROVE  NotEnded'
<1> USE Nothing, NothingEnded, OutcomePublished, EndedOrders DEF NotEnded
<1>h. /\ pc \in Handler => handling \in Order /\ handling # None /\ Target(handling) \in Entities
      /\ handling # None => handling \in Order /\ handling.id = minted
      /\ ending # None => ending.entity \in Entities /\ ending.order \in Order
      /\ prior # None => prior \in Order
      /\ current \in [Entities -> Order \cup {None}] /\ tracking \in [Entities -> Order \cup {None}]
      /\ pc \in Between \cup {"down"} => handling = None
      /\ ending # None <=> pc \in Closing
      /\ prior # None <=> pc \in {"preempt", "interrupted"}
      /\ minted \in Nat
  BY Commands DEF TypeOK, Slots, HandlingIsNew
<1>o. \A o \in Order : o.id \in Nat
  BY DEF Order
<1>p. \A e \in Entities : \A o \in {current[e], tracking[e]} :
        o # None => Target(o) = e /\ (handling # None /\ pc \notin Placed => o.id < minted)
  BY DEF InPlace, Standing
<1>1. ASSUME NEW c \in Cmds, NEW n \in Seqs, Post(c, n) PROVE NotEnded'
  BY <1>1 DEF Post
<1>2. ASSUME NEW c \in Cmds, Expire(c) PROVE NotEnded'
  BY <1>2 DEF Expire
<1>3. CASE ReadIntents \/ LeaveIngest \/ PublishTick \/ EndTick
  BY <1>3 DEF ReadIntents, LeaveIngest, PublishTick, EndTick
<1>4. CASE TakeEntry
  BY <1>4, <1>h, <1>o DEF TakeEntry
<1>5. CASE Receive \/ Accept \/ Progress
  BY <1>5, <1>h DEF Receive, Accept, Progress, EndEntry, Endings, Refusals
<1>6. CASE Admit \/ PersistSeq \/ StoreCmd \/ EditRoute \/ DoInstant
  BY <1>6 DEF Admit, PersistSeq, StoreCmd, EditRoute, DoInstant
<1>7. CASE Check \/ RefuseTarget \/ FailContent \/ RefuseBusy \/ FinishInstant
  <2>1. /\ Ended' \subseteq Ended \cup {handling} /\ handling' = None /\ prior' = None
        /\ UNCHANGED <<current, tracking, ending, minted>>
        /\ pc \in {"check", "validate", "done"}
    BY <1>7 DEF Check, RefuseTarget, FailContent, RefuseBusy, FinishInstant, Refuse, EndEntry
  <2>2. \A e \in Entities : current[e] # handling /\ tracking[e] # handling
    BY <1>h, <1>o, <1>p, <2>1 DEF Placed
  <2> QED
    BY <1>h, <2>1, <2>2
<1>8. CASE Start
  BY <1>8, <1>h DEF Start, Slot
<1>9. CASE Preempt
  BY <1>9, <1>h DEF Preempt
<1>10. CASE Interrupted
  <2>1. /\ Ended' = Ended \cup {prior} /\ prior' = None /\ pc = "interrupted"
        /\ UNCHANGED <<current, tracking, handling, ending, minted>>
    BY <1>10 DEF Interrupted, Endings
  <2>2. prior # None /\ prior \in Order /\ prior.id < minted /\ prior # handling
        /\ Target(prior) = Target(handling)
    BY <1>h, <1>o, <2>1 DEF InPlace
  <2>3. \A e \in Entities : current[e] # prior /\ tracking[e] # prior
    BY <1>h, <1>p, <2>1, <2>2 DEF SlotsAgree
  <2> QED
    BY <1>h, <1>o, <2>1, <2>2, <2>3
<1>11. CASE Track
  BY <1>11, <1>h DEF Track
<1>12. CASE AcceptInstant
  BY <1>12, <1>h DEF AcceptInstant, Finish, Slot, Endings, Refusals
<1>13. ASSUME NEW e \in Entities, Complete(e) PROVE NotEnded'
  BY <1>13, <1>h DEF Complete, Finish
<1>14. ASSUME NEW e \in Entities, Destroy(e) PROVE NotEnded'
  BY <1>14, <1>h DEF Destroy, Finish
<1>15. CASE Untrack
  BY <1>15, <1>h DEF Untrack
<1>16. CASE Announce
  <2>1. /\ Ended' \subseteq Ended \cup {ending.order} /\ ending' = None /\ pc = "announce"
        /\ UNCHANGED <<current, tracking, handling, prior, minted>>
    BY <1>16 DEF Announce
  <2>2. /\ ending.order \in Order /\ Target(ending.order) = ending.entity
        /\ ending.order.id <= minted /\ ending.order # handling
    BY <1>h, <1>o, <2>1 DEF InPlace, Standing, Placed
  <2>3. \A e \in Entities : current[e] # ending.order /\ tracking[e] # ending.order
    BY <1>h, <1>p, <2>1, <2>2 DEF SlotsAgree
  <2> QED
    BY <1>h, <1>o, <2>1, <2>2, <2>3
<1>17. CASE Crash
  BY <1>17, <1>h DEF Crash, Idle
<1>18. CASE Restore
  BY <1>18, <1>h DEF Restore, Restored
<1>19. CASE UNCHANGED vars
  BY <1>19 DEF vars
<1> QED
  BY <1>1, <1>2, <1>3, <1>4, <1>5, <1>6, <1>7, <1>8, <1>9, <1>10, <1>11, <1>12, <1>13, <1>14,
     <1>15, <1>16, <1>17, <1>18, <1>19, FaultFree DEF Handle

LEMMA OneOutcomeStep ==
  ASSUME MaxFaults = 0, TypeOK, NotEnded, OneOutcome, [Next]_vars
  PROVE  OneOutcome'
<1>1. ASSUME NEW o, NEW s, Publish(o, s), o \notin Ended PROVE OneOutcome'
  <2> DEFINE new == [order |-> o, state |-> s]
  <2>1. events' = events \cup {new} /\ new.order = o
    BY <1>1 DEF Publish
  <2>2. \A r \in events : r.state \in Endings \cup Refusals => r.order # o
    BY <1>1 DEF Ended, Orders
  <2> HIDE DEF new
  <2> QED
    BY <2>1, <2>2 DEF OneOutcome
<1>2. events' = events => OneOutcome'
  BY DEF OneOutcome
<1>3. handling \notin Ended /\ prior \notin Ended /\ (ending # None => ending.order \notin Ended)
  BY DEF NotEnded
<1>4. pc = "announce" => ending # None
  BY DEF TypeOK
<1>5. CASE Handle
  <2>1. CASE Receive \/ Check \/ RefuseTarget \/ FailContent \/ RefuseBusy
    BY <1>1, <1>2, <1>3, <2>1 DEF Receive, Check, RefuseTarget, FailContent, RefuseBusy, Refuse
  <2>2. CASE Interrupted \/ Accept \/ Progress \/ AcceptInstant \/ FinishInstant
    BY <1>1, <1>3, <2>2 DEF Interrupted, Accept, Progress, AcceptInstant, FinishInstant
  <2>3. CASE Admit \/ PersistSeq \/ StoreCmd \/ EditRoute \/ DoInstant \/ Start \/ Preempt \/ Track
    BY <1>2, <2>3 DEF Admit, PersistSeq, StoreCmd, EditRoute, DoInstant, Start, Preempt, Track
  <2> QED
    BY <1>5, <2>1, <2>2, <2>3 DEF Handle
<1>6. CASE Announce
  BY <1>1, <1>3, <1>4, <1>6 DEF Announce
<1>7. CASE ~Handle /\ ~Announce
  BY <1>2, <1>7, FaultFree DEF Post, Expire, ReadIntents, TakeEntry, LeaveIngest, Complete, Destroy,
     Untrack, PublishTick, EndTick, Crash, Restore, vars
<1> QED
  BY <1>5, <1>6, <1>7

LEMMA LivingStep ==
  ASSUME MaxFaults = 0, TypeOK, Living, [Next]_vars
  PROVE  Living'
<1> USE Nothing DEF Living
<1>h. /\ pc \in Handler => handling \in Order /\ Target(handling) \in Entities
      /\ current \in [Entities -> Order \cup {None}]
  BY Nothing, Commands DEF TypeOK, Slots
<1>1. CASE Handle
  <2>1. CASE Receive \/ Check \/ Admit \/ PersistSeq \/ StoreCmd \/ RefuseTarget \/ FailContent \/ RefuseBusy
    BY <2>1 DEF Receive, Check, Admit, PersistSeq, StoreCmd, RefuseTarget, FailContent, RefuseBusy,
                Refuse, EndEntry
  <2>2. CASE Preempt \/ Interrupted \/ Track \/ Accept \/ Progress \/ FinishInstant \/ EditRoute
    BY <2>2 DEF Preempt, Interrupted, Track, Accept, Progress, FinishInstant, EditRoute, EndEntry
  <2>3. CASE DoInstant
    BY <1>h, <2>3 DEF DoInstant, Kind, Target
  <2>4. CASE Start
    BY <1>h, <2>4 DEF Start, Controls
  <2>5. CASE AcceptInstant
    BY <1>h, <2>5 DEF AcceptInstant, Finish, Slot
  <2> QED
    BY <1>1, <2>1, <2>2, <2>3, <2>4, <2>5 DEF Handle
<1>2. ASSUME NEW e \in Entities, Complete(e) PROVE Living'
  BY <1>2, <1>h DEF Complete, Finish
<1>3. ASSUME NEW e \in Entities, Destroy(e) PROVE Living'
  BY <1>3, <1>h DEF Destroy, Finish
<1>4. CASE Crash \/ Restore
  BY <1>4 DEF Crash, Idle, Restore, Restored
<1>5. CASE ReadIntents \/ TakeEntry \/ LeaveIngest \/ Untrack \/ Announce \/ PublishTick \/ EndTick
  BY <1>5 DEF ReadIntents, TakeEntry, LeaveIngest, Untrack, Announce, PublishTick, EndTick
<1>6. ASSUME NEW c \in Cmds, NEW n \in Seqs, Post(c, n) PROVE Living'
  BY <1>6 DEF Post, Kind, Target
<1>7. ASSUME NEW c \in Cmds, Expire(c) PROVE Living'
  BY <1>7 DEF Expire, Kind, Target
<1>8. CASE UNCHANGED vars
  BY <1>8 DEF vars, Kind, Target
<1> QED
  BY <1>1, <1>2, <1>3, <1>4, <1>5, <1>6, <1>7, <1>8, FaultFree

LEMMA NewestStep ==
  ASSUME MaxFaults = 0, TypeOK, HandlingIsNew, SlotsAgree, InPlace, Newest, [Next]_vars
  PROVE  Newest'
<1> USE Nothing, Published, NothingPublished, AcceptedOrders DEF Newest
<1>h. /\ pc \in Handler => handling \in Order /\ Target(handling) \in Entities
      /\ handling # None => handling.id = minted
      /\ ending # None => ending.entity \in Entities
      /\ ending # None <=> pc \in Closing
      /\ ending # None => ending.state # "accepted"
      /\ current \in [Entities -> Order \cup {None}] /\ tracking \in [Entities -> Order \cup {None}]
      /\ minted \in Nat
  BY Commands DEF TypeOK, Slots, HandlingIsNew, Endings
<1>o. \A o \in Order : o.id \in Nat /\ Target(o) \in Entities
  BY Commands DEF Order
<1>a. \A a \in Accepted : a.id <= minted
  BY DEF HandlingIsNew
<1>1. CASE Receive \/ Check \/ Admit \/ PersistSeq \/ StoreCmd \/ RefuseTarget \/ FailContent \/ RefuseBusy
  BY <1>1 DEF Receive, Check, Admit, PersistSeq, StoreCmd, RefuseTarget, FailContent, RefuseBusy,
              Refuse, EndEntry, Target, Replaces, Kind, Refusals
<1>2. CASE Interrupted \/ Progress \/ FinishInstant
  BY <1>2 DEF Interrupted, Progress, FinishInstant, EndEntry, Target, Replaces, Kind
<1>3. CASE EditRoute \/ DoInstant
  BY <1>3 DEF EditRoute, DoInstant, Edits, Append, Target, Replaces, Kind, Lasting
<1>4. CASE Start
  BY <1>4, <1>h, <1>o, <1>a DEF Start, Slot, Target, Replaces, Kind
<1>5. CASE Preempt
  BY <1>5, <1>h, <1>o DEF Preempt, Target, Replaces, Kind
<1>6. CASE Track
  BY <1>6, <1>h, <1>o, <1>a DEF Track, Target, Replaces, Kind
<1>7. CASE Accept
  <2>1. Accepted' = Accepted \cup {handling} /\ UNCHANGED <<current, tracking>> /\ pc' = "progress"
    BY <1>7 DEF Accept
  <2>2. current[Target(handling)] = handling /\ tracking[Target(handling)] = handling
    BY <1>7 DEF Accept, SlotsAgree
  <2>3. handling \in Order /\ handling.id <= handling.id
    BY <1>7, <1>h, <1>o DEF Accept
  <2> QED
    BY <2>1, <2>2, <2>3 DEF Target, Replaces, Kind
<1>8. CASE AcceptInstant
  <2>1. /\ Accepted' = Accepted \cup {handling} /\ ~Replaces(handling) /\ pc' # "instant"
        /\ tracking' = tracking /\ \A e \in Entities : current'[e] \in {current[e], None}
    BY <1>8, <1>h DEF AcceptInstant, Finish, Slot
  <2> QED
    BY <1>o, <2>1 DEF Target, Replaces, Kind
<1>9. ASSUME NEW e \in Entities, Complete(e) PROVE Newest'
  BY <1>9, <1>h, <1>o DEF Complete, Finish, Target, Replaces, Kind
<1>10. ASSUME NEW e \in Entities, Destroy(e) PROVE Newest'
  BY <1>10, <1>h, <1>o DEF Destroy, Finish, Target, Replaces, Kind
<1>11. CASE Untrack
  BY <1>11, <1>h, <1>o DEF Untrack, Target, Replaces, Kind
<1>12. CASE Announce
  BY <1>12, <1>h DEF Announce, AfterEnding, Target, Replaces, Kind
<1>13. CASE Crash
  BY <1>13, <1>o DEF Crash, Idle, Target, Replaces, Kind
<1>14. CASE Restore
  BY <1>14, <1>o DEF Restore, Restored, Target, Replaces, Kind
<1>15. CASE ReadIntents \/ TakeEntry \/ LeaveIngest \/ PublishTick \/ EndTick
  BY <1>15 DEF ReadIntents, TakeEntry, LeaveIngest, PublishTick, EndTick, Target, Replaces, Kind
<1>16. ASSUME NEW c \in Cmds, NEW n \in Seqs, Post(c, n) PROVE Newest'
  BY <1>16 DEF Post, Target, Replaces, Kind
<1>17. ASSUME NEW c \in Cmds, Expire(c) PROVE Newest'
  BY <1>17 DEF Expire, Target, Replaces, Kind
<1>18. CASE UNCHANGED vars
  BY <1>18 DEF vars, Target, Replaces, Kind
<1> QED
  BY <1>1, <1>2, <1>3, <1>4, <1>5, <1>6, <1>7, <1>8, <1>9, <1>10, <1>11, <1>12, <1>13, <1>14,
     <1>15, <1>16, <1>17, <1>18, FaultFree DEF Handle

-----------------------------------------------------------------------------
LEMMA InitOrderly == Init => Orderly
<1> SUFFICES ASSUME Init PROVE Orderly
  OBVIOUS
<1>1. Accepted = {} /\ Ended = {} /\ \A e \in Entities : Idle[e] = None
  BY DEF Init, Accepted, Ended, Orders, Idle
<1> QED
  BY <1>1 DEF Init, Orderly, SlotsAgree, InPlace, Standing, NotEnded, Living, Newest, OneOutcome

(* Orderly is inductive together with the types and the ids of Admission.   *)
THEOREM OrderlyHolds == ASSUME MaxFaults = 0 PROVE Spec => []Orderly
<1>1. Init => Orderly
  BY InitOrderly
<1>2. TypeOK /\ Admission /\ Orderly /\ [Next]_vars => Orderly'
  BY MaxFaults = 0, AdmissionParts, AgreeStep, InPlaceStep, NotEndedStep, LivingStep, NewestStep,
     OneOutcomeStep DEF Orderly
<1> QED
  BY <1>1, <1>2, TypeCorrect, AdmissionHolds, PTL DEF Spec

(* While no Redis call fails, whatever the crashes and restarts:            *)
(* between handlers the tracking hash names exactly the running orders,     *)
THEOREM TrackingHolds == ASSUME MaxFaults = 0 PROVE Spec => []TrackingAgrees
<1>1. Orderly => TrackingAgrees
  BY DEF Orderly, SlotsAgree, TrackingAgrees
<1> QED
  BY <1>1, OrderlyHolds, PTL

(* a removed entity has no order left,                                      *)
THEOREM DeadStayIdle == ASSUME MaxFaults = 0 PROVE Spec => []DeadAreIdle
<1>1. Orderly => DeadAreIdle
  BY DEF Orderly, Living, DeadAreIdle
<1> QED
  BY <1>1, OrderlyHolds, PTL

(* an order that ended never runs again,                                    *)
THEOREM EndedStayEnded == ASSUME MaxFaults = 0 PROVE Spec => []NoResurrection
<1>1. Orderly => NoResurrection
  BY DEF Orderly, NotEnded, NoResurrection
<1> QED
  BY <1>1, OrderlyHolds, PTL

(* it ended in one way only,                                                *)
THEOREM OutcomesAgree == ASSUME MaxFaults = 0 PROVE Spec => []OneOutcome
<1>1. Orderly => OneOutcome
  BY DEF Orderly
<1> QED
  BY <1>1, OrderlyHolds, PTL

(* and no entity falls back to an order older than one accepted since.      *)
THEOREM NewestHolds == ASSUME MaxFaults = 0 PROVE Spec => []NewestOrderHolds
<1>1. TypeOK /\ Orderly => NewestOrderHolds
  <2> SUFFICES ASSUME TypeOK, Orderly PROVE NewestOrderHolds
    OBVIOUS
  <2>1. \A o \in Order : o.id \in Nat
    BY DEF Order
  <2>2. \A o \in Accepted : o \in Order
    BY AcceptedOrders
  <2>3. \A e \in Entities : current[e] # None => current[e] \in Order
    BY DEF TypeOK, Slots
  <2> QED
    BY <2>1, <2>2, <2>3 DEF Orderly, Newest, NewestOrderHolds, Replaces, Accepted
<1> QED
  BY <1>1, OrderlyHolds, TypeCorrect, PTL

-----------------------------------------------------------------------------
(* The tracking hash implements the abstract order book.                    *)
Latest == IF pc \in BeforeTrack THEN minted - 1 ELSE minted

LEMMA BookStep ==
  ASSUME MaxFaults = 0, TypeOK, HandlingIsNew, SlotsAgree, [Next]_vars
  PROVE  Book!Next \/ UNCHANGED <<tracking, Latest>>
<1> USE Nothing DEF BeforeTrack, Latest
<1>h. /\ pc \in Handler => handling \in Order /\ handling # None /\ Target(handling) \in Entities
      /\ handling # None => handling.id = minted
      /\ ending # None => ending.entity \in Entities
      /\ ending # None <=> pc \in Closing
      /\ current \in [Entities -> Order \cup {None}] /\ tracking \in [Entities -> Order \cup {None}]
      /\ minted \in Nat
  BY Commands DEF TypeOK, Slots, HandlingIsNew
<1>o. \A o \in Order : o.id \in Nat
  BY DEF Order
<1>1. CASE Track
  <2>1. tracking[Target(handling)] = None
    BY <1>1, <1>h DEF Track, SlotsAgree
  <2>2. Book!Open(Target(handling))
    BY <1>1, <1>h, <1>o, <2>1 DEF Track, Book!Open
  <2> QED
    BY <1>h, <1>1, <2>2 DEF Book!Next, Track
<1>2. CASE Preempt
  <2>1. Book!Close({Target(handling)})
    BY <1>2, <1>h DEF Preempt, Book!Close
  <2> QED
    BY <1>2, <1>h, <2>1 DEF Preempt, Book!Next
<1>3. CASE Untrack
  <2>1. Book!Close({ending.entity})
    BY <1>3, <1>h DEF Untrack, Book!Close
  <2> QED
    BY <1>3, <1>h, <2>1 DEF Untrack, Book!Next
<1>4. CASE Restore
  <2>1. \A e \in Entities : tracking'[e] \in {tracking[e], None}
    BY <1>4 DEF Restore, Restored
  <2>2. tracking' \in [Entities -> Order \cup {None}]
    BY <1>4, NextTypes DEF TypeOK, Slots
  <2>3. Book!Close({e \in Entities : tracking'[e] = None})
    BY <1>4, <1>h, <2>1, <2>2 DEF Restore, Book!Close
  <2> QED
    BY <2>3 DEF Book!Next
<1>5. ASSUME tracking' = tracking, minted' = minted, pc \in BeforeTrack \/ pc' \notin BeforeTrack
      PROVE  Book!Next \/ UNCHANGED <<tracking, Latest>>
  BY <1>5, <1>h DEF Book!Next, Book!Pass
<1>6. CASE TakeEntry
  BY <1>6, <1>h DEF TakeEntry
<1>7. CASE Handle /\ ~Track /\ ~Preempt
  BY <1>5, <1>7 DEF Handle, Receive, Check, Admit, PersistSeq, StoreCmd, RefuseTarget, FailContent,
     RefuseBusy, EditRoute, DoInstant, Start, Interrupted, Accept, Progress, AcceptInstant,
     FinishInstant, Refuse, EndEntry, Finish
<1>8. CASE ReadIntents \/ LeaveIngest \/ PublishTick \/ EndTick \/ Announce \/ Crash
  BY <1>5, <1>8 DEF ReadIntents, LeaveIngest, PublishTick, EndTick, Announce, AfterEnding, Crash
<1>9. CASE \E e \in Entities : Complete(e) \/ Destroy(e)
  BY <1>5, <1>9 DEF Complete, Destroy, Finish
<1>10. CASE \/ \E c \in Cmds, n \in Seqs : Post(c, n)
            \/ \E c \in Cmds : Expire(c)
            \/ UNCHANGED vars
  BY <1>10 DEF Post, Expire, vars
<1> HIDE DEF BeforeTrack, Latest
<1> QED
  BY <1>1, <1>2, <1>3, <1>4, <1>6, <1>7, <1>8, <1>9, <1>10, FaultFree

(* While no Redis call fails, every step of the engine is a step of the     *)
(* abstract order book or leaves it alone.                                  *)
THEOREM EngineKeepsOrderBook == ASSUME MaxFaults = 0 PROVE Spec => KeepsOrderBook
<1>1. Init => Book!Init
  BY DEF Init, Book!Init, Idle, BeforeTrack
<1>2. TypeOK /\ Admission /\ Orderly /\ [Next]_vars
        => [Book!Next]_<<tracking, IF pc \in BeforeTrack THEN minted - 1 ELSE minted>>
  BY MaxFaults = 0, BookStep, AdmissionParts DEF Orderly, Latest
<1> QED
  BY <1>1, <1>2, TypeCorrect, AdmissionHolds, OrderlyHolds, PTL DEF Spec, KeepsOrderBook, Book!Spec
=============================================================================
