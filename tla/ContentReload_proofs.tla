------------------------ MODULE ContentReload_proofs ------------------------
(* Proofs about ContentReload for every value of its constants.             *)
EXTENDS ContentReload, SequenceTheorems, TLAPS

(* The tuples the actions leave UNCHANGED, and the control states.          *)
USE DEF requests, published, memory, bounds, Working, Shared, Save, Drafted

(* What the engine relies on between two awaits of one reload.              *)
ReloadState == pc \in {"ready"} \cup Shared

(* A queued request has an operation record.                                *)
QueueIsRecorded == \A k \in 1..Len(queue) : ops[queue[k]] # None

(* The record of the operation under way says how far it came.              *)
RecordIsCurrent ==
  /\ pc = "boot" => job = Boot /\ ops[Boot] \in DOMAIN Following
  /\ pc = "validate" => ops[job] = "validating"
  /\ pc = "ready" => ops[job] = "ready"
  /\ pc \in {"commit", "abandon"} => ops[job] = "activating"
  /\ pc \in {"stream", "install"} => ops[job] = "active"
  /\ pc = "inquire" => ops[job] \in {"activating", "active"}

(* What was validated is what is committed, over the base it was based on.  *)
CandidateHolds ==
  /\ pc \in {"recover", "boot"} \/ ReloadState =>
       revision \in Revisions /\ uses \subseteq Supports[revision]
  /\ ReloadState /\ job # Boot => revision = asked[job].candidate
  /\ pc \in {"ready", "commit"} /\ job # Boot => asked[job].base = content

(* One revision in memory, advertised and stamped: the old one until the    *)
(* transaction is accepted, the new one after it was installed.             *)
BeforeCommit ==
  \/ pc \in {"tick", "ack", "validate", "ready", "abandon"}
  \/ pc = "commit" /\ job # Boot
  \/ pc = "inquire" /\ job # Boot /\ ops[job] # "active"
AfterCommit == pc \in {"stream", "install"} \/ (pc = "inquire" /\ ops[job] = "active")

RevisionsAgree ==
  /\ BeforeCommit => content = active /\ stamp = active
  /\ AfterCommit  => revision = active /\ stamp = active

IInv == /\ TypeOK /\ QueueIsRecorded /\ RecordIsCurrent /\ CandidateHolds
        /\ RevisionsAgree /\ CheckpointIsWhole /\ WorldIsDefined

-----------------------------------------------------------------------------
LEMMA InitHolds == Init => IInv
  BY ReloadAssumption DEF Init, IInv, TypeOK, QueueIsRecorded, RecordIsCurrent, CandidateHolds,
     ReloadState, RevisionsAgree, BeforeCommit, AfterCommit, CheckpointIsWhole, WorldIsDefined,
     Statuses, Recorded, Asked

(* What a request queued at the end, or the head leaving, does to the queue. *)
LEMMA QueueGrows ==
  ASSUME TypeOK, QueueIsRecorded, NEW r \in Requests, ops[r] = None, queue' = Append(queue, r)
  PROVE  /\ queue' \in Seq(Requests) /\ queue' # <<>>
         /\ Len(queue') = Len(queue) + 1 /\ queue'[Len(queue) + 1] = r
         /\ \A k \in 1..Len(queue) : queue'[k] = queue[k]
         /\ \A j, k \in 1..Len(queue') : queue'[j] = queue'[k] => j = k
         /\ queue # <<>> => Head(queue') = Head(queue)
<1>1. queue \in Seq(Requests) /\ \A k \in 1..Len(queue) : queue[k] # r
  BY DEF TypeOK, QueueIsRecorded
<1>2. /\ queue' \in Seq(Requests) /\ queue' # <<>> /\ Len(queue') = Len(queue) + 1
      /\ queue'[Len(queue) + 1] = r /\ \A k \in 1..Len(queue) : queue'[k] = queue[k]
  BY <1>1
<1>3. \A k \in 1..Len(queue') : k \in 1..Len(queue) \/ k = Len(queue) + 1
  BY <1>1, <1>2
<1>4. \A j, k \in 1..Len(queue') : queue'[j] = queue'[k] => j = k
  BY <1>1, <1>2, <1>3 DEF TypeOK
<1>5. queue # <<>> => Head(queue') = Head(queue)
  BY <1>1, <1>2
<1> QED
  BY <1>2, <1>4, <1>5

LEMMA QueueShrinks ==
  ASSUME TypeOK, queue # <<>>, queue' = Tail(queue)
  PROVE  /\ queue' \in Seq(Requests) /\ Len(queue') = Len(queue) - 1
         /\ \A k \in 1..Len(queue') : k + 1 \in 1..Len(queue) /\ queue'[k] = queue[k + 1]
         /\ \A j, k \in 1..Len(queue') : queue'[j] = queue'[k] => j = k
<1>1. queue \in Seq(Requests)
  BY DEF TypeOK
<1>2. /\ queue' \in Seq(Requests) /\ Len(queue') = Len(queue) - 1
      /\ \A k \in 1..Len(queue') : k + 1 \in 1..Len(queue) /\ queue'[k] = queue[k + 1]
  BY <1>1
<1> QED
  BY <1>1, <1>2 DEF TypeOK

LEMMA HeadIsRequested == TypeOK /\ queue # <<>> => Head(queue) \in Requests
  BY DEF TypeOK

(* The operation under way in a reload is that of the head of the queue, or *)
(* of the start.                                                            *)
LEMMA JobIsKnown ==
  ASSUME TypeOK, QueueIsRecorded
  PROVE  /\ pc \in Working => job \in Requests /\ job # Boot /\ asked[job] \in Asked /\ ops[job] # None
         /\ pc \in Shared /\ job # Boot => job \in Requests /\ asked[job] \in Asked /\ ops[job] # None
<1>1. queue # <<>> => /\ Head(queue) \in Requests /\ Head(queue) = queue[1] /\ 1 \in 1..Len(queue)
  BY DEF TypeOK
<1>2. queue # <<>> => ops[Head(queue)] # None /\ asked[Head(queue)] \in Asked
  BY <1>1 DEF QueueIsRecorded, TypeOK
<1> QED
  BY <1>1, <1>2, ReloadAssumption DEF TypeOK

(* Every step keeps the types. *)
LEMMA TypesHold == IInv /\ [Next]_vars => TypeOK'
<1> SUFFICES ASSUME IInv, [Next]_vars PROVE TypeOK'
  OBVIOUS
<1> USE JobIsKnown, ReloadAssumption, NoneAssumption DEF IInv, TypeOK,
  QueueIsRecorded, RecordIsCurrent, Statuses, Recorded, Unfinished,
  Terminal, CandidateHolds, RevisionsAgree, BeforeCommit, AfterCommit,
  ReloadState, Asked
<1>1. ASSUME NEW r \in Requests, NEW q \in Asked, Draft(r, q) PROVE TypeOK'
  BY <1>1 DEF Draft
<1>2. ASSUME NEW r \in Requests, Stage(r) PROVE TypeOK'
  BY <1>2, QueueGrows, SMTT(30) DEF Stage
<1>3. CASE StartRestored
  BY <1>3 DEF StartRestored, Load
<1>4. CASE StartClean
  BY <1>4 DEF StartClean, Load
<1>5. CASE FailInterrupted
  BY <1>5 DEF FailInterrupted, Interrupted
<1>6. CASE OpenBoot
  BY <1>6 DEF OpenBoot, Interrupted
<1>7. CASE AdvanceBoot
  <2>1. ops[Boot] \in {"staged", "validating", "ready"} /\ Following[ops[Boot]] \in Unfinished
    BY <1>7 DEF AdvanceBoot, Following
  <2>2. ops' = [ops EXCEPT ![Boot] = Following[ops[Boot]]] /\ pc' \in {"boot", "commit"} /\ job = Boot
    BY <1>7 DEF AdvanceBoot
  <2> QED BY <1>7, <2>1, <2>2 DEF AdvanceBoot
<1>8. CASE Peek
  BY <1>8, HeadIsRequested, SMTT(30) DEF Peek
<1>9. CASE Reject
  BY <1>9 DEF Reject, Verdict, BaseIsCurrent
<1>10. CASE Refuse
  BY <1>10 DEF Refuse, Verdict, BaseIsCurrent
<1>11. CASE NoChange
  BY <1>11 DEF NoChange, Verdict, BaseIsCurrent
<1>12. CASE Ready
  BY <1>12 DEF Ready, BaseIsCurrent, Candidate, Fits
<1>13. CASE Activating
  BY <1>13 DEF Activating
<1>14. CASE Commit
  BY <1>14 DEF Commit
<1>15. CASE StreamSnapshot
  BY <1>15 DEF StreamSnapshot
<1>16. CASE CommitFails
  BY <1>16 DEF CommitFails
<1>17. CASE GivesUp
  BY <1>17 DEF GivesUp, Dies
<1>18. CASE Proceeds
  BY <1>18 DEF Proceeds
<1>19. CASE Abandon
  BY <1>19 DEF Abandon
<1>20. CASE Install
  BY <1>20 DEF Install
<1>21. CASE Acknowledge
  BY <1>21, QueueShrinks DEF Acknowledge
<1>22. CASE Live
  BY <1>22 DEF Live
<1>23. CASE Checkpoint
  BY <1>23 DEF Checkpoint
<1>24. CASE Crash
  BY <1>24 DEF Crash, Dies
<1>25. CASE UNCHANGED vars
  BY <1>25 DEF vars
<1> QED BY <1>1, <1>2, <1>3, <1>4, <1>5, <1>6, <1>7, <1>8, <1>9, <1>10,
  <1>11, <1>12, <1>13, <1>14, <1>15, <1>16, <1>17, <1>18, <1>19, <1>20,
  <1>21, <1>22, <1>23, <1>24, <1>25 DEF Next, Start, Reload

(* Queued requests keep their record. *)
LEMMA QueueStaysRecorded == IInv /\ [Next]_vars => QueueIsRecorded'
<1> SUFFICES ASSUME IInv, [Next]_vars PROVE QueueIsRecorded'
  OBVIOUS
<1> USE ReloadAssumption, NoneAssumption DEF IInv, TypeOK, QueueIsRecorded,
  Recorded, Unfinished, Terminal
<1>1. ASSUME NEW r \in Requests, NEW q \in Asked, Draft(r, q) PROVE QueueIsRecorded'
  BY <1>1 DEF Draft
<1>2. ASSUME NEW r \in Requests, Stage(r) PROVE QueueIsRecorded'
  BY <1>2, QueueGrows, SMTT(30) DEF Stage
<1>3. CASE StartRestored
  BY <1>3 DEF StartRestored, Load
<1>4. CASE StartClean
  BY <1>4 DEF StartClean, Load
<1>5. CASE FailInterrupted
  BY <1>5 DEF FailInterrupted, Interrupted
<1>6. CASE OpenBoot
  BY <1>6 DEF OpenBoot, Interrupted
<1>7. CASE AdvanceBoot
  BY <1>7 DEF AdvanceBoot, Following
<1>8. CASE Peek
  BY <1>8 DEF Peek
<1>9. CASE Reject
  BY <1>9 DEF Reject, Verdict, BaseIsCurrent
<1>10. CASE Refuse
  BY <1>10 DEF Refuse, Verdict, BaseIsCurrent
<1>11. CASE NoChange
  BY <1>11 DEF NoChange, Verdict, BaseIsCurrent
<1>12. CASE Ready
  BY <1>12 DEF Ready, BaseIsCurrent, Candidate, Fits
<1>13. CASE Activating
  BY <1>13 DEF Activating
<1>14. CASE Commit
  BY <1>14 DEF Commit
<1>15. CASE StreamSnapshot
  BY <1>15 DEF StreamSnapshot
<1>16. CASE CommitFails
  BY <1>16 DEF CommitFails
<1>17. CASE GivesUp
  BY <1>17 DEF GivesUp, Dies
<1>18. CASE Proceeds
  BY <1>18 DEF Proceeds
<1>19. CASE Abandon
  BY <1>19 DEF Abandon
<1>20. CASE Install
  BY <1>20 DEF Install
<1>21. CASE Acknowledge
  BY <1>21, QueueShrinks DEF Acknowledge
<1>22. CASE Live
  BY <1>22 DEF Live
<1>23. CASE Checkpoint
  BY <1>23 DEF Checkpoint
<1>24. CASE Crash
  BY <1>24 DEF Crash, Dies
<1>25. CASE UNCHANGED vars
  BY <1>25 DEF vars
<1> QED BY <1>1, <1>2, <1>3, <1>4, <1>5, <1>6, <1>7, <1>8, <1>9, <1>10,
  <1>11, <1>12, <1>13, <1>14, <1>15, <1>16, <1>17, <1>18, <1>19, <1>20,
  <1>21, <1>22, <1>23, <1>24, <1>25 DEF Next, Start, Reload

(* The record under way follows the program counter. *)
LEMMA RecordStaysCurrent == IInv /\ [Next]_vars => RecordIsCurrent'
<1> SUFFICES ASSUME IInv, [Next]_vars PROVE RecordIsCurrent'
  OBVIOUS
<1> USE JobIsKnown, ReloadAssumption, NoneAssumption DEF IInv, TypeOK,
  RecordIsCurrent, Following, Recorded, Unfinished
<1>1. ASSUME NEW r \in Requests, NEW q \in Asked, Draft(r, q) PROVE RecordIsCurrent'
  BY <1>1 DEF Draft
<1>2. ASSUME NEW r \in Requests, Stage(r) PROVE RecordIsCurrent'
  BY <1>2, QueueGrows DEF Stage
<1>3. CASE StartRestored
  BY <1>3 DEF StartRestored, Load
<1>4. CASE StartClean
  BY <1>4 DEF StartClean, Load
<1>5. CASE FailInterrupted
  BY <1>5 DEF FailInterrupted, Interrupted
<1>6. CASE OpenBoot
  BY <1>6 DEF OpenBoot, Interrupted
<1>7. CASE AdvanceBoot
  BY <1>7 DEF AdvanceBoot
<1>8. CASE Peek
  BY <1>8 DEF Peek, Terminal
<1>9. CASE Reject
  BY <1>9 DEF Reject, Verdict, BaseIsCurrent
<1>10. CASE Refuse
  BY <1>10 DEF Refuse, Verdict, BaseIsCurrent
<1>11. CASE NoChange
  BY <1>11 DEF NoChange, Verdict, BaseIsCurrent
<1>12. CASE Ready
  BY <1>12 DEF Ready, BaseIsCurrent, Candidate, Fits
<1>13. CASE Activating
  BY <1>13 DEF Activating
<1>14. CASE Commit
  BY <1>14 DEF Commit
<1>15. CASE StreamSnapshot
  BY <1>15 DEF StreamSnapshot
<1>16. CASE CommitFails
  BY <1>16 DEF CommitFails
<1>17. CASE GivesUp
  BY <1>17 DEF GivesUp, Dies
<1>18. CASE Proceeds
  BY <1>18 DEF Proceeds
<1>19. CASE Abandon
  BY <1>19 DEF Abandon
<1>20. CASE Install
  BY <1>20 DEF Install
<1>21. CASE Acknowledge
  BY <1>21, QueueShrinks DEF Acknowledge
<1>22. CASE Live
  BY <1>22 DEF Live
<1>23. CASE Checkpoint
  BY <1>23 DEF Checkpoint
<1>24. CASE Crash
  BY <1>24 DEF Crash, Dies
<1>25. CASE UNCHANGED vars
  BY <1>25 DEF vars
<1> QED BY <1>1, <1>2, <1>3, <1>4, <1>5, <1>6, <1>7, <1>8, <1>9, <1>10,
  <1>11, <1>12, <1>13, <1>14, <1>15, <1>16, <1>17, <1>18, <1>19, <1>20,
  <1>21, <1>22, <1>23, <1>24, <1>25 DEF Next, Start, Reload

(* Nothing between validation and installation disturbs what was validated. *)
LEMMA CandidateStays == IInv /\ [Next]_vars => CandidateHolds'
<1> SUFFICES ASSUME IInv, [Next]_vars PROVE CandidateHolds'
  OBVIOUS
<1> USE JobIsKnown, ReloadAssumption, NoneAssumption DEF IInv, TypeOK,
  RecordIsCurrent, CandidateHolds, ReloadState, CheckpointIsWhole,
  WorldIsDefined, Asked
<1>1. ASSUME NEW r \in Requests, NEW q \in Asked, Draft(r, q) PROVE CandidateHolds'
  BY <1>1 DEF Draft
<1>2. ASSUME NEW r \in Requests, Stage(r) PROVE CandidateHolds'
  BY <1>2, QueueGrows DEF Stage
<1>3. CASE StartRestored
  BY <1>3 DEF StartRestored, Load
<1>4. CASE StartClean
  BY <1>4 DEF StartClean, Load
<1>5. CASE FailInterrupted
  BY <1>5 DEF FailInterrupted, Interrupted
<1>6. CASE OpenBoot
  BY <1>6 DEF OpenBoot, Interrupted
<1>7. CASE AdvanceBoot
  BY <1>7 DEF AdvanceBoot, Following
<1>8. CASE Peek
  BY <1>8 DEF Peek, Terminal
<1>9. CASE Reject
  BY <1>9 DEF Reject, Verdict, BaseIsCurrent
<1>10. CASE Refuse
  BY <1>10 DEF Refuse, Verdict, BaseIsCurrent
<1>11. CASE NoChange
  BY <1>11 DEF NoChange, Verdict, BaseIsCurrent
<1>12. CASE Ready
  BY <1>12 DEF Ready, BaseIsCurrent, Candidate, Fits
<1>13. CASE Activating
  BY <1>13 DEF Activating
<1>14. CASE Commit
  BY <1>14 DEF Commit
<1>15. CASE StreamSnapshot
  BY <1>15 DEF StreamSnapshot
<1>16. CASE CommitFails
  BY <1>16 DEF CommitFails
<1>17. CASE GivesUp
  BY <1>17 DEF GivesUp, Dies
<1>18. CASE Proceeds
  BY <1>18 DEF Proceeds
<1>19. CASE Abandon
  BY <1>19 DEF Abandon
<1>20. CASE Install
  BY <1>20 DEF Install
<1>21. CASE Acknowledge
  BY <1>21, QueueShrinks DEF Acknowledge
<1>22. CASE Live
  BY <1>22 DEF Live
<1>23. CASE Checkpoint
  BY <1>23 DEF Checkpoint
<1>24. CASE Crash
  BY <1>24 DEF Crash, Dies
<1>25. CASE UNCHANGED vars
  BY <1>25 DEF vars
<1> QED BY <1>1, <1>2, <1>3, <1>4, <1>5, <1>6, <1>7, <1>8, <1>9, <1>10,
  <1>11, <1>12, <1>13, <1>14, <1>15, <1>16, <1>17, <1>18, <1>19, <1>20,
  <1>21, <1>22, <1>23, <1>24, <1>25 DEF Next, Start, Reload

(* The three copies of the revision change together. *)
LEMMA RevisionsStayEqual == IInv /\ [Next]_vars => RevisionsAgree'
<1> SUFFICES ASSUME IInv, [Next]_vars PROVE RevisionsAgree'
  OBVIOUS
<1> USE JobIsKnown, ReloadAssumption, NoneAssumption DEF IInv, TypeOK,
  RecordIsCurrent, CandidateHolds, ReloadState, RevisionsAgree,
  BeforeCommit, AfterCommit
<1>1. ASSUME NEW r \in Requests, NEW q \in Asked, Draft(r, q) PROVE RevisionsAgree'
  BY <1>1 DEF Draft
<1>2. ASSUME NEW r \in Requests, Stage(r) PROVE RevisionsAgree'
  BY <1>2, QueueGrows DEF Stage
<1>3. CASE StartRestored
  BY <1>3 DEF StartRestored, Load
<1>4. CASE StartClean
  BY <1>4 DEF StartClean, Load
<1>5. CASE FailInterrupted
  BY <1>5 DEF FailInterrupted, Interrupted
<1>6. CASE OpenBoot
  BY <1>6 DEF OpenBoot, Interrupted
<1>7. CASE AdvanceBoot
  BY <1>7 DEF AdvanceBoot, Following
<1>8. CASE Peek
  BY <1>8 DEF Peek, Terminal
<1>9. CASE Reject
  BY <1>9 DEF Reject, Verdict, BaseIsCurrent
<1>10. CASE Refuse
  BY <1>10 DEF Refuse, Verdict, BaseIsCurrent
<1>11. CASE NoChange
  BY <1>11 DEF NoChange, Verdict, BaseIsCurrent
<1>12. CASE Ready
  BY <1>12 DEF Ready, BaseIsCurrent, Candidate, Fits
<1>13. CASE Activating
  BY <1>13 DEF Activating
<1>14. CASE Commit
  BY <1>14 DEF Commit
<1>15. CASE StreamSnapshot
  BY <1>15 DEF StreamSnapshot
<1>16. CASE CommitFails
  BY <1>16 DEF CommitFails
<1>17. CASE GivesUp
  BY <1>17 DEF GivesUp, Dies
<1>18. CASE Proceeds
  BY <1>18 DEF Proceeds
<1>19. CASE Abandon
  BY <1>19 DEF Abandon
<1>20. CASE Install
  BY <1>20 DEF Install
<1>21. CASE Acknowledge
  BY <1>21, QueueShrinks DEF Acknowledge
<1>22. CASE Live
  BY <1>22 DEF Live
<1>23. CASE Checkpoint
  BY <1>23 DEF Checkpoint
<1>24. CASE Crash
  BY <1>24 DEF Crash, Dies
<1>25. CASE UNCHANGED vars
  BY <1>25 DEF vars
<1> QED BY <1>1, <1>2, <1>3, <1>4, <1>5, <1>6, <1>7, <1>8, <1>9, <1>10,
  <1>11, <1>12, <1>13, <1>14, <1>15, <1>16, <1>17, <1>18, <1>19, <1>20,
  <1>21, <1>22, <1>23, <1>24, <1>25 DEF Next, Start, Reload

(* Every checkpoint carries the active revision. *)
LEMMA CheckpointStaysWhole == IInv /\ [Next]_vars => CheckpointIsWhole'
<1> SUFFICES ASSUME IInv, [Next]_vars PROVE CheckpointIsWhole'
  OBVIOUS
<1> USE JobIsKnown, ReloadAssumption, NoneAssumption DEF IInv, TypeOK,
  CheckpointIsWhole, CandidateHolds, ReloadState, RevisionsAgree,
  BeforeCommit, WorldIsDefined
<1>1. ASSUME NEW r \in Requests, NEW q \in Asked, Draft(r, q) PROVE CheckpointIsWhole'
  BY <1>1 DEF Draft
<1>2. ASSUME NEW r \in Requests, Stage(r) PROVE CheckpointIsWhole'
  BY <1>2, QueueGrows DEF Stage
<1>3. CASE StartRestored
  BY <1>3 DEF StartRestored, Load
<1>4. CASE StartClean
  BY <1>4 DEF StartClean, Load
<1>5. CASE FailInterrupted
  BY <1>5 DEF FailInterrupted, Interrupted
<1>6. CASE OpenBoot
  BY <1>6 DEF OpenBoot, Interrupted
<1>7. CASE AdvanceBoot
  BY <1>7 DEF AdvanceBoot, Following
<1>8. CASE Peek
  BY <1>8 DEF Peek, Terminal
<1>9. CASE Reject
  BY <1>9 DEF Reject, Verdict, BaseIsCurrent
<1>10. CASE Refuse
  BY <1>10 DEF Refuse, Verdict, BaseIsCurrent
<1>11. CASE NoChange
  BY <1>11 DEF NoChange, Verdict, BaseIsCurrent
<1>12. CASE Ready
  BY <1>12 DEF Ready, BaseIsCurrent, Candidate, Fits
<1>13. CASE Activating
  BY <1>13 DEF Activating
<1>14. CASE Commit
  BY <1>14 DEF Commit
<1>15. CASE StreamSnapshot
  BY <1>15 DEF StreamSnapshot
<1>16. CASE CommitFails
  BY <1>16 DEF CommitFails
<1>17. CASE GivesUp
  BY <1>17 DEF GivesUp, Dies
<1>18. CASE Proceeds
  BY <1>18 DEF Proceeds
<1>19. CASE Abandon
  BY <1>19 DEF Abandon
<1>20. CASE Install
  BY <1>20 DEF Install
<1>21. CASE Acknowledge
  BY <1>21, QueueShrinks DEF Acknowledge
<1>22. CASE Live
  BY <1>22 DEF Live
<1>23. CASE Checkpoint
  BY <1>23 DEF Checkpoint
<1>24. CASE Crash
  BY <1>24 DEF Crash, Dies
<1>25. CASE UNCHANGED vars
  BY <1>25 DEF vars
<1> QED BY <1>1, <1>2, <1>3, <1>4, <1>5, <1>6, <1>7, <1>8, <1>9, <1>10,
  <1>11, <1>12, <1>13, <1>14, <1>15, <1>16, <1>17, <1>18, <1>19, <1>20,
  <1>21, <1>22, <1>23, <1>24, <1>25 DEF Next, Start, Reload

(* The live world stays inside the installed definitions. *)
LEMMA WorldStaysDefined == IInv /\ [Next]_vars => WorldIsDefined'
<1> SUFFICES ASSUME IInv, [Next]_vars PROVE WorldIsDefined'
  OBVIOUS
<1> USE JobIsKnown, ReloadAssumption, NoneAssumption DEF IInv, TypeOK,
  CandidateHolds, ReloadState, CheckpointIsWhole, WorldIsDefined
<1>1. ASSUME NEW r \in Requests, NEW q \in Asked, Draft(r, q) PROVE WorldIsDefined'
  BY <1>1 DEF Draft
<1>2. ASSUME NEW r \in Requests, Stage(r) PROVE WorldIsDefined'
  BY <1>2, QueueGrows DEF Stage
<1>3. CASE StartRestored
  BY <1>3 DEF StartRestored, Load
<1>4. CASE StartClean
  BY <1>4 DEF StartClean, Load
<1>5. CASE FailInterrupted
  BY <1>5 DEF FailInterrupted, Interrupted
<1>6. CASE OpenBoot
  BY <1>6 DEF OpenBoot, Interrupted
<1>7. CASE AdvanceBoot
  BY <1>7 DEF AdvanceBoot, Following
<1>8. CASE Peek
  BY <1>8 DEF Peek, Terminal
<1>9. CASE Reject
  BY <1>9 DEF Reject, Verdict, BaseIsCurrent
<1>10. CASE Refuse
  BY <1>10 DEF Refuse, Verdict, BaseIsCurrent
<1>11. CASE NoChange
  BY <1>11 DEF NoChange, Verdict, BaseIsCurrent
<1>12. CASE Ready
  BY <1>12 DEF Ready, BaseIsCurrent, Candidate, Fits
<1>13. CASE Activating
  BY <1>13 DEF Activating
<1>14. CASE Commit
  BY <1>14 DEF Commit
<1>15. CASE StreamSnapshot
  BY <1>15 DEF StreamSnapshot
<1>16. CASE CommitFails
  BY <1>16 DEF CommitFails
<1>17. CASE GivesUp
  BY <1>17 DEF GivesUp, Dies
<1>18. CASE Proceeds
  BY <1>18 DEF Proceeds
<1>19. CASE Abandon
  BY <1>19 DEF Abandon
<1>20. CASE Install
  BY <1>20 DEF Install
<1>21. CASE Acknowledge
  BY <1>21, QueueShrinks DEF Acknowledge
<1>22. CASE Live
  BY <1>22 DEF Live
<1>23. CASE Checkpoint
  BY <1>23 DEF Checkpoint
<1>24. CASE Crash
  BY <1>24 DEF Crash, Dies
<1>25. CASE UNCHANGED vars
  BY <1>25 DEF vars
<1> QED BY <1>1, <1>2, <1>3, <1>4, <1>5, <1>6, <1>7, <1>8, <1>9, <1>10,
  <1>11, <1>12, <1>13, <1>14, <1>15, <1>16, <1>17, <1>18, <1>19, <1>20,
  <1>21, <1>22, <1>23, <1>24, <1>25 DEF Next, Start, Reload

-----------------------------------------------------------------------------
LEMMA InvariantHolds == Spec => []IInv
<1>1. Init => IInv
  BY InitHolds
<1>2. IInv /\ [Next]_vars => IInv'
  BY TypesHold, QueueStaysRecorded, RecordStaysCurrent, CandidateStays,
     RevisionsStayEqual, CheckpointStaysWhole, WorldStaysDefined DEF IInv
<1> QED
  BY <1>1, <1>2, PTL DEF Spec

(* Every reachable state of the web server, Redis and the engine is well    *)
(* typed; no request is queued twice.                                       *)
THEOREM ReloadTypeCorrect == Spec => []TypeOK
<1>1. IInv => TypeOK
  BY DEF IInv
<1> QED
  BY <1>1, InvariantHolds, PTL

(* install_content_revision, the stamp of later checkpoints and the         *)
(* advertised revision agree between ticks, whatever failed and died.       *)
THEOREM RevisionsAgreeBetweenTicks == Spec => []OneRevision
<1>1. IInv => OneRevision
  BY DEF IInv, RevisionsAgree, BeforeCommit, OneRevision
<1> QED
  BY <1>1, InvariantHolds, PTL

(* publish_snapshot_with_content: no checkpoint is behind the advertised    *)
(* revision or holds a world that does not fit it.                          *)
THEOREM CheckpointsAreWhole == Spec => []CheckpointIsWhole
<1>1. IInv => CheckpointIsWhole
  BY DEF IInv
<1> QED
  BY <1>1, InvariantHolds, PTL

(* validate_live protects the live world over every reload and restart.     *)
THEOREM WorldsStayDefined == Spec => []WorldIsDefined
<1>1. IInv => WorldIsDefined
  BY DEF IInv
<1> QED
  BY <1>1, InvariantHolds, PTL

(* The base check at the head of the queue, one await after another before  *)
(* the transaction, still holds when the transaction is accepted.           *)
THEOREM NoUpdateIsLost == Spec => NoLostUpdate
<1> DEFINE Kept(r) == ops[r] # "active" /\ ops'[r] = "active" =>
                        asked[r].base = active /\ active' = asked[r].candidate
<1>1. ASSUME IInv, [Next]_vars, NEW r \in Requests PROVE Kept(r)
  <2> USE <1>1, ReloadAssumption, JobIsKnown DEF IInv, TypeOK
  <2>1. CASE Commit
    BY <2>1 DEF Commit, CandidateHolds, RevisionsAgree, ReloadState, BeforeCommit
  <2>2. CASE ops'[r] = "active" /\ ops[r] # "active"
    <3>1. CASE \E s \in Requests : Stage(s) \/ \E q \in Asked : Draft(s, q)
      BY <2>2, <3>1 DEF Stage, Draft
    <3>2. CASE FailInterrupted \/ OpenBoot \/ AdvanceBoot
      BY <2>2, <3>2 DEF FailInterrupted, OpenBoot, AdvanceBoot, RecordIsCurrent, Following
    <3>3. CASE Peek \/ Reject \/ Refuse \/ NoChange \/ Ready \/ Activating \/ Abandon
      BY <2>2, <3>3 DEF Peek, Reject, Refuse, NoChange, Verdict, Ready, Activating, Abandon
    <3> QED
      BY <2>1, <2>2, <3>1, <3>2, <3>3 DEF Next, Start, StartRestored, StartClean, Load,
         Reload, StreamSnapshot, CommitFails, GivesUp, Dies, Proceeds, Install, Acknowledge,
         Live, Checkpoint, Crash, vars
  <2> QED
    BY <2>2
<1>2. IInv /\ [Next]_vars => [\A r \in Requests : Kept(r)]_vars
  BY <1>1
<1> QED
  BY <1>2, InvariantHolds, PTL DEF Spec, NoLostUpdate

(* A committed operation is neither failed by a start's recovery nor        *)
(* restarted by the loop that finds it still queued.                        *)
THEOREM AcceptedIsKept == Spec => AcceptedStays
<1> DEFINE Kept(r) == ops[r] = "active" => ops'[r] = "active"
<1>1. ASSUME IInv, [Next]_vars, NEW r \in Requests PROVE Kept(r)
  <2> USE <1>1, ReloadAssumption, NoneAssumption, JobIsKnown DEF IInv, TypeOK, Recorded, Terminal
  <2>1. CASE \E s \in Requests : Stage(s) \/ \E q \in Asked : Draft(s, q)
    BY <2>1 DEF Stage, Draft
  <2>2. CASE FailInterrupted \/ OpenBoot \/ AdvanceBoot
    BY <2>2 DEF FailInterrupted, Interrupted, Unfinished, OpenBoot, AdvanceBoot, RecordIsCurrent, Following
  <2>3. CASE Peek \/ Reject \/ Refuse \/ NoChange \/ Ready \/ Activating \/ Abandon
    BY <2>3 DEF Peek, Reject, Refuse, NoChange, Verdict, Ready, Activating, Abandon, RecordIsCurrent
  <2>4. CASE Commit
    BY <2>4 DEF Commit
  <2> QED
    BY <2>1, <2>2, <2>3, <2>4 DEF Next, Start, StartRestored, StartClean, Load,
       Reload, StreamSnapshot, CommitFails, GivesUp, Dies, Proceeds, Install, Acknowledge,
       Live, Checkpoint, Crash, vars
<1>2. IInv /\ [Next]_vars => [\A r \in Requests : Kept(r)]_vars
  BY <1>1
<1> QED
  BY <1>2, InvariantHolds, PTL DEF Spec, AcceptedStays
=============================================================================
