---------------------------- MODULE ContentReload ----------------------------
(***************************************************************************)
(* Live content reload: the web server stages an immutable revision and    *)
(* queues a request; between ticks the engine peeks at the queue, saves    *)
(* every status it takes the request through, validates the candidate      *)
(* against the live world, commits revision, operation and checkpoint in   *)
(* one Redis transaction, and only then installs it and drops the request. *)
(* The engine may die between any two Redis calls; a start marks what it   *)
(* finds unfinished as failed and republishes the content it loaded.       *)
(***************************************************************************)
EXTENDS Sequences, Naturals

CONSTANTS
  Requests,     \* reload ids given out by the web server
  Boot,         \* the reload id of the latest engine start
  Revisions,    \* content hashes
  Features,     \* what live entities and orders can need of a definition
  Supports,     \* what each revision defines
  QueueMax,     \* 100 in the route's script
  MaxCrashes, MaxFaults,
  None

ASSUME ReloadAssumption ==
  /\ Boot \notin Requests /\ None \notin Requests \cup {Boot} \cup Revisions
  /\ Supports \in [Revisions -> SUBSET Features]
  /\ {QueueMax, MaxCrashes, MaxFaults} \subseteq Nat

Unfinished == {"validating", "ready", "activating"}
(* stale and rejected are the two error codes of the status rejected.       *)
Terminal   == {"active", "stale", "rejected", "failed", "no_change"}
Recorded   == {"staged"} \cup Unfinished \cup Terminal
Statuses   == Recorded \cup {None}

ASSUME NoneAssumption ==
  None \notin Recorded /\ None \notin [rev : Revisions, uses : SUBSET Features]

Asked == [base : Revisions \cup {None}, candidate : Revisions, lock : BOOLEAN]

VARIABLES
  asked,      \* what each request asked for: never changed once queued
  queue,      \* content_reload:queue
  ops,        \* content_reload:operations, the status of each
  active,     \* content_reload:active and content_version, set together
  retained,   \* the content_reload:revision:* keys
  snapshot,   \* the checkpoint a restart reads, with the revision in it
  pc, job, revision,      \* the engine's next await; the operation, its content
  content, stamp, uses,   \* Engine.content; RedisClient.content_revision; the world
  crashes, faults

requests  == <<asked, queue>>
published == <<active, retained, snapshot>>
memory    == <<content, stamp, uses>>
bounds    == <<crashes, faults>>
vars      == <<requests, ops, published, pc, job, revision, memory, bounds>>

Init ==
  /\ asked = [r \in Requests |-> None] /\ queue = <<>>
  /\ ops = [i \in Requests \cup {Boot} |-> None]
  /\ active = None /\ retained = {} /\ snapshot = None
  /\ pc = "down" /\ job = None /\ revision = None
  /\ content = None /\ stamp = None /\ uses = {}
  /\ crashes = 0 /\ faults = 0

Drafted(i) == asked[i] # None
Queued(i) == \E k \in 1..Len(queue) : queue[k] = i
Save(i, s) == ops' = [ops EXCEPT ![i] = s]

-----------------------------------------------------------------------------
(* The web server, one request at a time.  The base of a request defaults   *)
(* to the revision active when it began; the candidate is captured from the *)
(* files, and only then is the request queued.                              *)

Draft(r, q) ==
  /\ asked[r] = None /\ \A other \in Requests : Drafted(other) => ops[other] # None
  /\ q.lock \/ q.base = active
  /\ asked' = [asked EXCEPT ![r] = q]
  /\ UNCHANGED <<queue, ops, published, pc, job, revision, memory, bounds>>

Stage(r) ==
  /\ Drafted(r) /\ ops[r] = None
  /\ \/ /\ Len(queue) < QueueMax
        /\ queue' = Append(queue, r) /\ Save(r, "staged")
     \/ /\ queue' = queue /\ Save(r, "failed")   \* staging failed, or the queue is full
  /\ UNCHANGED <<asked, published, pc, job, revision, memory, bounds>>

-----------------------------------------------------------------------------
(* What the engine holds in memory is lost with it.                         *)
Dies ==
  /\ pc' = "down"
  /\ job' = None /\ revision' = None
  /\ content' = None /\ stamp' = None /\ uses' = {}

-----------------------------------------------------------------------------
(* Engine start: Engine::new and bootstrap_content_revision.                *)

Load(v, world, s) ==
  /\ revision' = v /\ content' = v /\ uses' = world /\ stamp' = s
  /\ pc' = "recover" /\ job' = None
  /\ UNCHANGED <<requests, ops, active, retained, bounds>>

StartRestored ==
  /\ pc = "down" /\ snapshot # None /\ snapshot.rev \in retained
  /\ Load(snapshot.rev, snapshot.uses, snapshot.rev)
  /\ UNCHANGED snapshot

(* Without restoring, or with nothing to restore: the files on disk, a new  *)
(* world, and no checkpoint.                                                *)
StartClean ==
  /\ pc = "down"
  /\ \E v \in Revisions : \E world \in SUBSET Supports[v] : Load(v, world, None)
  /\ snapshot' = None

Interrupted(i) == ops[i] \in Unfinished \/ (ops[i] = "staged" /\ ~Queued(i))

FailInterrupted ==
  /\ pc = "recover"
  /\ \E i \in Requests \cup {Boot} : Interrupted(i) /\ Save(i, "failed")
  /\ UNCHANGED <<requests, published, pc, job, revision, memory, bounds>>

OpenBoot ==
  /\ pc = "recover" /\ ~ \E i \in Requests \cup {Boot} : Interrupted(i)
  /\ Save(Boot, "staged")
  /\ job' = Boot /\ pc' = "boot"
  /\ UNCHANGED <<requests, published, revision, memory, bounds>>

Following == [staged |-> "validating", validating |-> "ready", ready |-> "activating"]

AdvanceBoot ==
  /\ pc = "boot"
  /\ Save(Boot, Following[ops[Boot]])
  /\ pc' = IF ops[Boot] = "ready" THEN "commit" ELSE "boot"
  /\ UNCHANGED <<requests, published, job, revision, memory, bounds>>

-----------------------------------------------------------------------------
(* process_content_reload, once per turn of the loop.                       *)

Peek ==
  /\ pc = "tick" /\ queue # <<>>
  /\ job' = Head(queue)
  /\ IF ops[Head(queue)] \in Terminal THEN pc' = "ack" /\ ops' = ops
                                      ELSE pc' = "validate" /\ Save(Head(queue), "validating")
  /\ UNCHANGED <<requests, published, revision, memory, bounds>>

FitsAnyWorld(v) == TRUE
(* validate_live: everything the live world needs is still defined.         *)
Fits(v) == uses \subseteq Supports[v]

VerdictAcknowledges(s) ==
  /\ Save(job, s) /\ pc' = "ack" /\ queue' = Tail(queue)
  /\ UNCHANGED <<asked, published, job, revision, memory, bounds>>

Verdict(s) ==
  /\ Save(job, s) /\ pc' = "ack"
  /\ UNCHANGED <<requests, published, job, revision, memory, bounds>>

AnyBase       == TRUE
BaseIsCurrent == asked[job].base = content
Candidate     == asked[job].candidate

Reject   == pc = "validate" /\ ~BaseIsCurrent /\ Verdict("stale")
Refuse   == pc = "validate" /\ BaseIsCurrent /\ Verdict("rejected")   \* unloadable, or ~Fits
NoChange == pc = "validate" /\ BaseIsCurrent /\ Candidate = content /\ Verdict("no_change")

Ready ==
  /\ pc = "validate" /\ BaseIsCurrent /\ Candidate # content /\ Fits(Candidate)
  /\ Save(job, "ready")
  /\ revision' = Candidate /\ pc' = "ready"
  /\ UNCHANGED <<requests, published, job, memory, bounds>>

Activating ==
  /\ pc = "ready" /\ Save(job, "activating") /\ pc' = "commit"
  /\ UNCHANGED <<requests, published, job, revision, memory, bounds>>

-----------------------------------------------------------------------------
(* commit_content_checkpoint: one MULTI, then an XADD of the snapshot.      *)

CommitContentOnly ==
  /\ pc = "commit"
  /\ active' = revision /\ retained' = retained \cup {revision}
  /\ snapshot' = snapshot
  /\ Save(job, "active") /\ stamp' = revision
  /\ pc' = "stream"
  /\ UNCHANGED <<requests, job, revision, content, uses, bounds>>

Commit ==
  /\ pc = "commit"
  /\ active' = revision /\ retained' = retained \cup {revision}
  /\ snapshot' = [rev |-> revision, uses |-> uses]
  /\ Save(job, "active") /\ stamp' = revision
  /\ pc' = "stream"
  /\ UNCHANGED <<requests, job, revision, content, uses, bounds>>

StreamSnapshot ==
  /\ pc = "stream" /\ pc' = "install"
  /\ UNCHANGED <<requests, ops, published, job, revision, memory, bounds>>

(* Redis refuses the transaction, or only the XADD after it.                *)
CommitFails ==
  /\ pc \in {"commit", "stream"} /\ pc' = "inquire"
  /\ faults < MaxFaults /\ faults' = faults + 1
  /\ UNCHANGED <<requests, ops, published, job, revision, memory, crashes>>

(* The saved operation tells whether the transaction had been accepted; a   *)
(* start gives up when it had not.                                          *)
GivesUp ==
  /\ pc = "inquire" /\ ops[job] # "active"
  /\ IF job = Boot THEN Dies ELSE pc' = "abandon" /\ UNCHANGED <<job, revision, memory>>
  /\ UNCHANGED <<requests, ops, published, bounds>>

Proceeds ==
  /\ pc = "inquire" /\ ops[job] = "active"
  /\ stamp' = revision /\ pc' = "install"
  /\ UNCHANGED <<requests, ops, published, job, revision, content, uses, bounds>>

Abandon ==
  /\ pc = "abandon" /\ Save(job, "failed") /\ pc' = "ack"
  /\ UNCHANGED <<requests, published, job, revision, memory, bounds>>

InstallNothing ==
  /\ pc = "install"
  /\ pc' = IF job = Boot THEN "tick" ELSE "ack"
  /\ UNCHANGED <<requests, ops, published, job, revision, memory, bounds>>

Install ==
  /\ pc = "install" /\ content' = revision
  /\ pc' = IF job = Boot THEN "tick" ELSE "ack"
  /\ UNCHANGED <<requests, ops, published, job, revision, stamp, uses, bounds>>

AcknowledgeNothing ==
  /\ pc = "ack" /\ pc' = "tick"
  /\ UNCHANGED <<requests, ops, published, job, revision, memory, bounds>>

Acknowledge ==
  /\ pc = "ack" /\ queue' = Tail(queue) /\ pc' = "tick"
  /\ UNCHANGED <<asked, ops, published, job, revision, memory, bounds>>

-----------------------------------------------------------------------------
(* The rest of the loop, and the death of the process.                      *)

(* Entities and orders come, under the installed definitions, and go.       *)
Live ==
  /\ pc = "tick"
  /\ uses' \in SUBSET (uses \cup Supports[content])
  /\ UNCHANGED <<requests, ops, published, pc, job, revision, content, stamp, bounds>>

Checkpoint ==
  /\ pc = "tick"
  /\ snapshot' = [rev |-> stamp, uses |-> uses]
  /\ UNCHANGED <<requests, ops, active, retained, pc, job, revision, memory, bounds>>

Crash ==
  /\ pc # "down" /\ Dies
  /\ crashes < MaxCrashes /\ crashes' = crashes + 1
  /\ UNCHANGED <<requests, ops, published, faults>>

Start  == StartRestored \/ StartClean
Reload ==
  \/ FailInterrupted \/ OpenBoot \/ AdvanceBoot
  \/ Peek \/ Reject \/ Refuse \/ NoChange \/ Ready \/ Activating
  \/ Commit \/ StreamSnapshot \/ GivesUp \/ Proceeds \/ Abandon \/ Install \/ Acknowledge

Next ==
  \/ \E r \in Requests : Stage(r) \/ \E q \in Asked : Draft(r, q)
  \/ Start \/ Reload \/ CommitFails \/ Live \/ Checkpoint \/ Crash

(* The loop turns for ever, and someone starts the engine after it died.    *)
Spec == Init /\ [][Next]_vars
LiveSpec == Spec /\ WF_vars(Reload) /\ WF_vars(Start)

-----------------------------------------------------------------------------
Working == {"validate", "ready", "abandon", "ack"}
Shared  == {"commit", "stream", "inquire", "install"}   \* by starts and requests

TypeOK ==
  /\ asked \in [Requests -> Asked \cup {None}]
  /\ queue \in Seq(Requests)
  /\ \A j, k \in 1..Len(queue) : queue[j] = queue[k] => j = k
  /\ ops \in [Requests \cup {Boot} -> Statuses]
  /\ \A r \in Requests : asked[r] = None => ops[r] = None
  /\ active \in retained \cup {None} /\ retained \subseteq Revisions
  /\ snapshot \in [rev : retained, uses : SUBSET Features] \cup {None}
  /\ pc \in {"down", "recover", "boot", "tick"} \cup Working \cup Shared
  /\ pc \in Working => queue # <<>> /\ job = Head(queue)
  /\ pc \in Shared  => job = Boot \/ (queue # <<>> /\ job = Head(queue))
  /\ revision \in Revisions \cup {None} /\ (pc \in Shared => revision # None)
  /\ content \in Revisions \cup {None} /\ (content = None <=> pc = "down")
  /\ stamp \in retained \cup {None} /\ uses \subseteq Features
  /\ crashes \in 0..MaxCrashes /\ faults \in 0..MaxFaults

(* Between ticks the content the game runs on is the one advertised to      *)
(* clients and the one the next checkpoint will carry.                      *)
OneRevision == pc = "tick" => content = active /\ stamp = active

(* A restart never rolls an advertised revision back: whatever checkpoint   *)
(* it finds carries the active revision, with a world that fits it.         *)
CheckpointIsWhole ==
  snapshot # None => snapshot.rev = active /\ snapshot.uses \subseteq Supports[snapshot.rev]

(* No live entity or order ever needs a definition that is not installed:   *)
(* not after a reload, nor after a restart from any checkpoint.             *)
WorldIsDefined == pc # "down" => uses \subseteq Supports[content]

(* No lost update: a request becomes active only over the revision it was   *)
(* based on, and with its own candidate, however long it was queued.        *)
NoLostUpdate ==
  [][\A r \in Requests : ops[r] # "active" /\ ops'[r] = "active" =>
       asked[r].base = active /\ active' = asked[r].candidate]_vars

(* An accepted operation is never recorded as anything else afterwards, by  *)
(* a failed notification, a death before it left the queue, or a restart.   *)
AcceptedStays == [][\A r \in Requests : ops[r] = "active" => ops'[r] = "active"]_vars

(* Every queued request is answered, though the engine die in the middle.   *)
EveryRequestIsAnswered == \A r \in Requests : ops[r] = "staged" ~> ops[r] \in Terminal

=============================================================================
