----------------------------- MODULE OrderQueue -----------------------------
(* The browser's orders for one unit (features/intent-queue), the stream and  *)
(* the reconnect handshake that correct them, and the engine as the browser   *)
(* sees it: a posted command is taken up later, its outcome is published on   *)
(* the event stream, and the tracking hash answers the handshake.             *)
(*                                                                            *)
(* Commands are numbered by client_seq, which the browser stores; only Moves  *)
(* differ from other kinds. Group orders, collection plans and world resets   *)
(* are left out.                                                              *)
EXTENDS Naturals, FiniteSets, SequencesExt

CONSTANTS
  None,        \* no command
  MaxCmds,     \* commands the player's orders lead to
  MaxCalls,    \* handshakes under way at once
  Troubles,    \* which of these happen, each once: drop, fail, reload
  MaxTroubles, \* how many of them in one behaviour
  Policies,    \* how the player gives orders: replace, append, clear
  QueuedMoves  \* whether Moves too are queued behind other work, or only sent at once

ASSUME OrderQueueAssumption ==
  /\ MaxCmds \in Nat /\ MaxTroubles \in Nat
  /\ Troubles \subseteq {"drop", "fail", "reload"}
  /\ MaxCalls \in Nat \ {0}
  /\ QueuedMoves \in BOOLEAN /\ Policies \subseteq {"replace", "append", "clear"}
  /\ None \notin Nat

VARIABLES
  page,       \* IntentQueueManager's state, with the routing of Moves
  posted,     \* whether the POST under way has reached the intents stream
  link, synced,   \* the event source, and what became of the handshake made on open
  wire,       \* events on their way to the browser
  inbox,      \* commands the engine has not taken up
  slot, last, \* the unit's tracked order, the last command that shaped its route
  shown,      \* the route the last delta told of
  gap, stored,    \* events after the snapshot boundary, the route in the snapshot
  fate,       \* history: how each command ended
  had         \* history: the troubles there were

server == <<inbox, slot, last, shown, gap, stored, fate>>
vars   == <<page, posted, link, synced, wire, server, had>>

Cmds == 1..MaxCmds
User == [token |-> 0, behind |-> None]
NoRoute == [root |-> None, last |-> None]

Init ==
  /\ page = [active |-> None, moves |-> {}, queued |-> <<>>, after |-> None,
             pending |-> {}, orders |-> <<>>, tokens |-> 0, chain |-> <<>>,
             plans |-> <<>>, routed |-> FALSE, calls |-> {}]
  /\ posted = FALSE
  /\ link = "open" /\ synced = TRUE /\ wire = <<>>
  /\ inbox = <<>> /\ slot = None /\ last = None /\ shown = NoRoute
  /\ gap = <<>> /\ stored = NoRoute
  /\ fate = [n \in Cmds |-> "none"]
  /\ had = {}

-----------------------------------------------------------------------------
(* The manager's methods, as functions from one state of it to the next.     *)

IsMove(b, n) == n # None /\ b.orders[n].kind = "move"
NextSeq(b)     == Len(b.orders) + 1

(* stateRevision++: a handshake requested before is stale.                   *)
Revise(b) == [b EXCEPT !.calls = {[c EXCEPT !.fresh = FALSE] : c \in @}]

Reconcile(b, opening) ==
  [b EXCEPT !.calls = @ \cup {[opening |-> opening, fresh |-> TRUE, retry |-> TRUE,
                               answered |-> FALSE, root |-> None, last |-> None]}]

(* MoveRouter.cancel: the unit gets a version, older plans are not used.     *)
CancelPlans(b) == [b EXCEPT !.plans = <<>>, !.routed = TRUE]

(* Only Moves leave a route that is being planned alone.                     *)
Submit(b, k, p, from) ==
  Revise([(IF k = "move" THEN b ELSE CancelPlans(b)) EXCEPT
            !.orders = Append(@, [kind |-> k, policy |-> p, from |-> from]),
            !.pending = @ \cup {NextSeq(b)},
            !.chain = Append(@, NextSeq(b))])

Replace(b, from) ==
  Submit([b EXCEPT !.moves = {}, !.queued = <<>>, !.after = None, !.active = NextSeq(b)],
         "work", "replace", from)

Busy(b) == b.active # None \/ b.queued # <<>>

\* Mutant: the last order queued is the first one sent.
DeferOrderFirst(b, k, clear) ==
  [b EXCEPT !.queued = <<[kind |-> k, token |-> b.tokens + 1]>> \o (IF clear THEN <<>> ELSE @),
            !.tokens = @ + 1,
            !.after = IF @ = None THEN b.active ELSE @]

(* Follow-ups are numbered by token, in the order they were given.           *)
DeferOrder(b, k, clear) ==
  [b EXCEPT !.queued = Append(IF clear THEN <<>> ELSE @, [kind |-> k, token |-> b.tokens + 1]),
            !.tokens = @ + 1,
            !.after = IF @ = None THEN b.active ELSE @]

DefersMove(b, p) ==
  /\ p # "replace" /\ Busy(b)
  /\ ~IsMove(b, b.active) \/ b.queued # <<>>

(* The planner has answered: the order is sent as it now stands.             *)
PlannedMove(b, p, from) ==
  LET preview == [cmd |-> NextSeq(b), finished |-> FALSE] IN
  IF DefersMove(b, p) THEN DeferOrder(b, "move", p = "clear")
  ELSE Submit(IF p = "replace"
                THEN [b EXCEPT !.queued = <<>>, !.after = None, !.active = NextSeq(b),
                               !.moves = {preview}]
                ELSE [b EXCEPT !.moves = @ \cup {preview}],
              "move", p, from)

(* A plan for a replacing Move discards the plans before it.                 *)
MoveCommand(b, p, from) ==
  IF DefersMove(b, p) THEN DeferOrder(b, "move", p = "clear")
  ELSE [(IF p = "replace" THEN CancelPlans(b) ELSE b) EXCEPT
          !.plans = Append(@, [policy |-> p, from |-> from])]

\* Mutants: the queue forgets the order it sends with the rest, or keeps it.
StartNextLosesOrder(b) ==
  IF b.active # None THEN b
  ELSE IF b.queued = <<>> THEN [b EXCEPT !.after = None]
  ELSE Replace(b, [token |-> Head(b.queued).token, behind |-> b.after])

(* Sending the head empties the queue; the rest is put back behind it. A     *)
(* Move that is still being planned is behind nothing yet.                   *)
StartNext(b) ==
  IF b.active # None THEN b
  ELSE IF b.queued = <<>> THEN [b EXCEPT !.after = None]
  ELSE LET from    == [token |-> Head(b.queued).token, behind |-> b.after]
           left    == [b EXCEPT !.queued = Tail(@)]
           started == IF Head(b.queued).kind = "move" THEN MoveCommand(left, "replace", from)
                                                      ELSE Replace(left, from)
       IN [started EXCEPT !.queued = Tail(b.queued), !.after = started.active]

Forget(b, n) == [b EXCEPT !.queued = IF b.after = n THEN <<>> ELSE @,
                          !.after = IF @ = n THEN None ELSE @]

(* Previews that are neither finished nor command n remain.                  *)
Without(moves, n)   == {m \in moves : m.cmd # n}
Unsettled(moves, n) == {m \in moves : ~m.finished /\ m.cmd # n}
Clear(b) == [b EXCEPT !.active = None, !.moves = Unsettled(@, b.active)]

(* The preview of the last command that shaped the server's route is done,   *)
(* and so are those before it: they are listed by number.                    *)
Retire(b, n) ==
  IF ~\E m \in b.moves : m.cmd = n THEN b
  ELSE [b EXCEPT !.moves = {m \in @ : m.cmd > n},
                 !.pending = @ \ {m.cmd : m \in {x \in b.moves : x.cmd <= n}}]

-----------------------------------------------------------------------------
(* What the stream and the handshake do to that state.                       *)

Outcomes == {"finished", "canceled", "rejected"}

EditEvent(b, e) ==
  CASE e.state = "finished" ->
         [b EXCEPT !.moves = {[m EXCEPT !.finished = @ \/ m.cmd = e.cmd] : m \in @}]
    [] e.state = "rejected" -> [b EXCEPT !.moves = Without(@, e.cmd)]
    [] OTHER -> b

(* A Move accepted becomes the order, unless a newer command is under way.   *)
Adopts(b, e) ==
  /\ e.state = "accepted" /\ e.cmd \in b.pending /\ IsMove(b, e.cmd)
  /\ b.active \notin b.pending \/ b.active <= e.cmd

OrderEvent(b, e) ==
  LET adopted == IF Adopts(b, e) THEN [b EXCEPT !.active = e.cmd] ELSE b
      ended   == IF adopted.active = e.cmd /\ e.state \in Outcomes THEN Clear(adopted)
                                                                   ELSE adopted
  IN IF e.state = "rejected" THEN [ended EXCEPT !.moves = Without(@, e.cmd)] ELSE ended

\* Mutant: an order canceled or rejected leaves its follow-ups queued.
FollowOnFinishedOnly(b, e) ==
  IF e.edit \/ e.state # "finished" \/ b.after # e.cmd THEN b ELSE StartNext(b)

FollowOn(b, e) ==
  IF e.edit \/ e.state \notin Outcomes \/ b.after # e.cmd THEN b
  ELSE IF e.state = "finished" THEN StartNext(b) ELSE Forget(b, e.cmd)

Lifecycle(b, e) ==
  LET told  == IF e.edit THEN EditEvent(b, e) ELSE OrderEvent(b, e)
      known == [told EXCEPT !.pending = @ \ {e.cmd}]
      next  == FollowOn(known, e)
  IN IF e.state = "rejected" /\ ~e.edit THEN Reconcile(Revise(next), FALSE) ELSE Revise(next)

Removed(b, n) ==
  IF n = None \/ b.active # n THEN b ELSE [Clear(b) EXCEPT !.pending = @ \ {n}]

(* A route never displaces an order the browser still waits to hear of.      *)
Awaited(b) == b.active \in b.pending \cup {m.cmd : m \in b.moves}

Updated(b, r) ==
  IF r.root = None \/ (b.active \notin {None, r.root} /\ Awaited(b)) THEN b
  ELSE Retire([b EXCEPT !.active = r.root], r.last)

(* applyMoveOrders: a snapshot also drops the Move it does not mention.      *)
MoveDelta(b, r, gone)  == Revise(Updated(Removed(b, gone), r))
MoveSnapshot(b, r) ==
  Revise(Updated(IF r.root = None /\ IsMove(b, b.active) /\ b.active \notin b.pending
                   THEN Clear(b) ELSE b, r))

Heard(b, e) ==
  IF e.state = "route" THEN MoveDelta(b, e.route, e.gone) ELSE Lifecycle(b, e)

\* Mutant: an order the engine has not taken up is not awaited any longer.
HandshakeTrustsServer(b, r) ==
  IF r.root = None THEN Clear(b)
  ELSE LET kept == IF b.after \in {None, r.root} THEN b ELSE Forget(b, b.after)
       IN Retire([kept EXCEPT !.active = r.root], r.last)

Handshake(b, r) ==
  IF b.active # None /\ b.active \in b.pending THEN b
  ELSE IF r.root = None THEN Clear(b)
  ELSE LET kept == IF b.after \in {None, r.root} THEN b ELSE Forget(b, b.after)
       IN Retire([kept EXCEPT !.active = r.root], r.last)

Reconciled(b, r) ==
  LET told == Handshake(b, r) IN
  Revise(IF told.active = None /\ told.queued # <<>> THEN StartNext(told) ELSE told)

-----------------------------------------------------------------------------
(* The player.                                                               *)

Room ==
  /\ Len(page.orders) + Len(page.queued) + Len(page.plans) < MaxCmds
  /\ page.tokens < MaxCmds

OrderMove(p) ==
  /\ Room
  /\ QueuedMoves \/ ~DefersMove(page, p)
  /\ page' = MoveCommand(page, p, User)
  /\ UNCHANGED <<posted, link, synced, wire, server, had>>

OrderWork ==
  /\ Room
  /\ page' = Replace(page, User)
  /\ UNCHANGED <<posted, link, synced, wire, server, had>>

QueueWork(p) ==
  /\ Room /\ p # "replace"
  /\ QueuedMoves \/ page.plans = <<>>
  /\ page' = IF Busy(page) THEN DeferOrder(page, "work", p = "clear") ELSE Replace(page, User)
  /\ UNCHANGED <<posted, link, synced, wire, server, had>>

(* The planner found a way, or there is none; or the world is not live, or   *)
(* the unit has no version yet, which the request takes for an older one.    *)
Planned ==
  /\ page.plans # <<>>
  /\ LET p == Head(page.plans)  b == [page EXCEPT !.plans = Tail(@)] IN
       \/ page' = b
       \/ /\ page.routed /\ link = "open" /\ synced
          /\ QueuedMoves \/ ~DefersMove(b, p.policy)
          /\ page' = PlannedMove(b, p.policy, p.from)
  /\ UNCHANGED <<posted, link, synced, wire, server, had>>

Trouble(t) ==
  /\ t \in Troubles \ had /\ Cardinality(had) < MaxTroubles
  /\ had' = had \cup {t}

(* Storage keeps the order, what is queued, and client_seq.                  *)
Reload ==
  /\ Trouble("reload")
  /\ page' = [page EXCEPT !.moves = {}, !.pending = {}, !.chain = <<>>, !.plans = <<>>,
                          !.routed = FALSE, !.calls = {}]
  /\ posted' = FALSE
  /\ link' = "down" /\ synced' = FALSE /\ wire' = <<>>
  /\ UNCHANGED server

MayAsk == Cardinality(page.calls) < MaxCalls

-----------------------------------------------------------------------------
(* The chain of POSTs: one at a time, in client_seq order.                   *)

PostArrives ==
  /\ page.chain # <<>> /\ ~posted
  /\ posted' = TRUE
  /\ inbox' = Append(inbox, Head(page.chain))
  /\ UNCHANGED <<page, link, synced, wire, slot, last, shown, gap, stored, fate, had>>

PostAnswered ==
  /\ page.chain # <<>> /\ posted
  /\ posted' = FALSE
  /\ page' = [page EXCEPT !.chain = Tail(@)]
  /\ UNCHANGED <<link, synced, wire, server, had>>

(* Whether or not it arrived, the follow-ups of that command are dropped.    *)
PostFails ==
  /\ page.chain # <<>> /\ MayAsk
  /\ Trouble("fail")
  /\ posted' = FALSE
  /\ LET n == Head(page.chain) IN
       page' = Reconcile(Forget([page EXCEPT !.chain = Tail(@), !.pending = @ \ {n},
                                             !.moves = Without(@, n)], n), FALSE)
  /\ UNCHANGED <<link, synced, wire, server>>

-----------------------------------------------------------------------------
(* The event source and the handshakes.                                      *)

Drop ==
  /\ link # "down" /\ Trouble("drop")
  /\ link' = "down" /\ synced' = FALSE /\ wire' = <<>>
  /\ UNCHANGED <<page, posted, server>>

Open ==
  /\ link = "down" /\ MayAsk
  /\ link' = "opening" /\ page' = Reconcile(page, TRUE)
  /\ UNCHANGED <<posted, synced, wire, server, had>>

(* The stream starts with the stored snapshot and what followed it.          *)
Bootstrap ==
  /\ link = "opening"
  /\ link' = "open" /\ wire' = gap
  /\ page' = MoveSnapshot(page, stored)
  /\ UNCHANGED <<posted, synced, server, had>>

Deliver ==
  /\ wire # <<>> /\ (Head(wire).state = "rejected" => MayAsk)
  /\ page' = Heard(page, Head(wire))
  /\ wire' = Tail(wire)
  /\ UNCHANGED <<posted, link, synced, server, had>>

(* Events and routes of the player's other units.                            *)
OtherUnit ==
  /\ page' = Revise(page) /\ page' # page
  /\ UNCHANGED <<posted, link, synced, wire, server, had>>

Answer(c) ==
  /\ ~c.answered
  /\ page' = [page EXCEPT !.calls = (@ \ {c}) \cup
                {[c EXCEPT !.answered = TRUE, !.root = slot,
                           !.last = IF slot = None THEN None ELSE last]}]
  /\ UNCHANGED <<posted, link, synced, wire, server, had>>

(* A stale answer is asked for once more, and otherwise given up.            *)
TakeAnswer(c) ==
  /\ c.answered
  /\ LET b == [page EXCEPT !.calls = @ \ {c}] IN
       \/ /\ c.fresh
          /\ page' = Reconciled(b, c)
          /\ synced' = (synced \/ (c.opening /\ link # "down"))
          /\ link' = link /\ wire' = wire
       \/ /\ ~c.fresh /\ c.retry /\ page.pending = {}
          /\ page' = [b EXCEPT !.calls = @ \cup {[c EXCEPT !.fresh = TRUE, !.retry = FALSE,
                        !.answered = FALSE, !.root = None, !.last = None]}]
          /\ UNCHANGED <<link, synced, wire>>
       \/ /\ ~c.fresh /\ ~(c.retry /\ page.pending = {})
          /\ page' = b /\ synced' = synced
          /\ IF c.opening THEN link' = "down" /\ wire' = <<>> ELSE UNCHANGED <<link, wire>>
  /\ UNCHANGED <<posted, server, had>>

CallFails(c) ==
  /\ Trouble("fail")
  /\ page' = [page EXCEPT !.calls = @ \ {c}]
  /\ IF c.opening THEN link' = "down" /\ wire' = <<>> ELSE UNCHANGED <<link, wire>>
  /\ UNCHANGED <<posted, synced, server>>

-----------------------------------------------------------------------------
(* The engine, as seen from outside.                                         *)

Event(n, s, edit) == [cmd |-> n, state |-> s, edit |-> edit]
Route == IF IsMove(page, slot) THEN [root |-> slot, last |-> last] ELSE NoRoute

Publish(es) ==
  /\ gap' = gap \o es
  /\ wire' = IF link = "open" THEN wire \o es ELSE wire

TakeUp(n) == inbox # <<>> /\ n = Head(inbox) /\ inbox' = Tail(inbox)
Appends(n) == page.orders[n].policy # "replace"

Refuse(n) ==
  /\ TakeUp(n)
  /\ \E edit \in {FALSE, Appends(n) /\ slot # None} : Publish(<<Event(n, "rejected", edit)>>)
  /\ fate' = [fate EXCEPT ![n] = "rejected"]
  /\ UNCHANGED <<page, posted, link, synced, slot, last, shown, stored, had>>

EditRoute(n) ==
  /\ TakeUp(n) /\ Appends(n) /\ IsMove(page, slot)
  /\ last' = n
  /\ Publish(<<Event(n, "accepted", TRUE), Event(n, "finished", TRUE)>>)
  /\ fate' = [fate EXCEPT ![n] = "finished"]
  /\ UNCHANGED <<page, posted, link, synced, slot, shown, stored, had>>

Start(n) ==
  /\ TakeUp(n) /\ (Appends(n) => slot = None)
  /\ slot' = n /\ last' = n
  /\ Publish((IF slot = None THEN <<>> ELSE <<Event(slot, "canceled", FALSE)>>)
             \o <<Event(n, "accepted", FALSE)>>)
  /\ fate' = IF slot = None THEN fate ELSE [fate EXCEPT ![slot] = "canceled"]
  /\ UNCHANGED <<page, posted, link, synced, shown, stored, had>>

End(s) ==
  /\ slot # None
  /\ slot' = None /\ last' = None
  /\ Publish(<<Event(slot, s, FALSE)>>)
  /\ fate' = [fate EXCEPT ![slot] = s]
  /\ UNCHANGED <<page, posted, link, synced, inbox, shown, stored, had>>

(* append_move_order_changes: routes that changed, Moves that are gone.      *)
PublishDelta ==
  /\ Route # shown
  /\ shown' = Route
  /\ Publish(<<[state |-> "route", route |-> Route,
                gone |-> IF Route.root = shown.root THEN None ELSE shown.root]>>)
  /\ UNCHANGED <<page, posted, link, synced, inbox, slot, last, stored, fate, had>>

(* The boundary is the last delta, of any unit: later events are kept.       *)
Snapshot ==
  /\ Route = shown
  /\ stored' = Route
  /\ \/ gap' = <<>>
     \/ \E i \in DOMAIN gap : gap[i].state = "route" /\ gap' = SubSeq(gap, i + 1, Len(gap))
  /\ gap' # gap
  /\ UNCHANGED <<page, posted, link, synced, wire, inbox, slot, last, shown, fate, had>>

-----------------------------------------------------------------------------
Player == (\E p \in Policies : OrderMove(p) \/ QueueWork(p)) \/ OrderWork \/ Planned
Posting == PostArrives \/ PostAnswered \/ PostFails
Stream  == Open \/ Bootstrap \/ Deliver \/ OtherUnit
Calling == \E c \in page.calls : Answer(c) \/ TakeAnswer(c) \/ CallFails(c)
Engine  == (\E n \in Cmds : Refuse(n) \/ EditRoute(n) \/ Start(n))
           \/ (\E s \in {"finished", "canceled"} : End(s)) \/ PublishDelta \/ Snapshot

Next == Player \/ Posting \/ Stream \/ Calling \/ Engine \/ Drop \/ Reload
Spec == Init /\ [][Next]_vars

-----------------------------------------------------------------------------
(* Properties.                                                               *)

Sent(n) == page.orders[n].from.token

(* Follow-ups are submitted in the order the player queued them.             *)
FollowUpsInOrder ==
  \A m, n \in DOMAIN page.orders :
    m < n /\ User \notin {page.orders[m].from, page.orders[n].from} => Sent(m) < Sent(n)

Unsent == ToSet(IF posted THEN Tail(page.chain) ELSE page.chain)
Alive  == {slot} \cup ToSet(inbox) \cup Unsent
New    == DOMAIN page'.orders \ DOMAIN page.orders

(* The browser submits a follow-up only after the order it waits for has     *)
(* ended: not while that one is still to be posted, taken up or worked on.   *)
(* Disconnects do not change that (a reload or a failed POST does: the       *)
(* command that is on its way is no longer known to the page).               *)
FollowUpWaits ==
  [][\A n \in New : LET from == page'.orders[n].from IN
       from # User /\ had \subseteq {"drop"} => from.behind \notin Alive \ {None}]_vars

PlayerActs == (\E n \in New : page'.orders[n].from = User) \/ page'.tokens > page.tokens
Kept == {o.token : o \in ToSet(page.queued)} \cup {p.from.token : p \in ToSet(page.plans)}
        \cup {o.from.token : o \in ToSet(page.orders)}

(* A handshake finds the unit at another order than the queue waits for.     *)
TakenOver ==
  \E c \in page.calls \ page'.calls :
    c.fresh /\ c.answered /\ c.root \notin {None, page.after} /\ page'.active = c.root

(* The order the queue waits for is over: canceled or rejected, or finished  *)
(* and, before that is heard, another is found in its place.                 *)
GivenUp ==
  /\ page.after # None
  /\ \/ fate[page.after] \in {"canceled", "rejected"}
     \/ fate[page.after] = "finished" /\ TakenOver

(* With no trouble, a follow-up is dropped only by a new order of the        *)
(* player's, or because the order it waits for is over: never by the start   *)
(* of the follow-up before it.                                               *)
FollowUpsAreKept ==
  [][\A o \in ToSet(page.queued) :
       o.token \in Kept' \/ PlayerActs \/ had' # {} \/ GivenUp]_vars

Quiet ==
  /\ page.chain = <<>> /\ page.plans = <<>> /\ page.calls = {}
  /\ inbox = <<>> /\ wire = <<>> /\ link = "open" /\ synced /\ Route = shown

(* With no trouble, a queue is never left waiting for nothing: when all that *)
(* was sent has been heard, the unit works on the order the queue waits for. *)
QueueIsAwaited == had = {} /\ Quiet /\ page.queued # <<>> => slot # None /\ page.after = slot

=============================================================================
