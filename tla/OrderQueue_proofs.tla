-------------------------- MODULE OrderQueue_proofs --------------------------
(* OrderQueue for any number of commands, handshakes and troubles: follow-ups *)
(* are sent in the order in which they were queued (IInv), each only after    *)
(* the order it waits for has ended (WInv), and, when Moves are sent at once, *)
(* none is dropped while that order may still end well (FInv and PInv) and,   *)
(* with no trouble, none waits for nothing (AInv).                            *)
(*                                                                            *)
(* Every queued order has a token, larger than those before it; what is       *)
(* queued is behind what is being planned, and that is behind what was sent.  *)
EXTENDS OrderQueue, SequenceTheorems, TLAPS

IsSeq(s) == Len(s) \in Nat /\ s = [i \in 1..Len(s) |-> s[i]]

(* A page with all its fields, of which the orders are sequences.             *)
Fields == {"active", "moves", "queued", "after", "pending", "orders", "tokens", "chain", "plans",
           "routed", "calls"}

IsPage(b) ==
  /\ b = [f \in Fields |-> b[f]]
  /\ IsSeq(b.orders) /\ IsSeq(b.queued) /\ IsSeq(b.plans)

OrderToken(b, n)  == b.orders[n].from.token
PlanToken(b, i)   == b.plans[i].from.token
QueuedToken(b, k) == b.queued[k].token

(* Tokens are numbers, and what has none was ordered by the player at once.   *)
IsOrigin(f) == f.token \in Nat /\ (f.token = 0 <=> f = User)

Numbered(b) ==
  /\ b.tokens \in Nat
  /\ \A m \in DOMAIN b.orders : IsOrigin(b.orders[m].from) /\ OrderToken(b, m) <= b.tokens
  /\ \A i \in DOMAIN b.plans : /\ IsOrigin(b.plans[i].from) /\ PlanToken(b, i) <= b.tokens
                               /\ PlanToken(b, i) # 0 => b.plans[i].policy = "replace"
  /\ \A k \in DOMAIN b.queued : QueuedToken(b, k) \in 1..b.tokens

SentInOrder(b) ==
  \A m, n \in DOMAIN b.orders :
    m < n /\ OrderToken(b, m) # 0 /\ OrderToken(b, n) # 0 => OrderToken(b, m) < OrderToken(b, n)

PlannedInOrder(b) ==
  \A i \in DOMAIN b.plans : PlanToken(b, i) # 0 =>
    /\ \A m \in DOMAIN b.orders : OrderToken(b, m) < PlanToken(b, i)
    /\ \A j \in DOMAIN b.plans : i < j /\ PlanToken(b, j) # 0 => PlanToken(b, i) < PlanToken(b, j)

QueuedInOrder(b) ==
  \A k \in DOMAIN b.queued :
    /\ \A m \in DOMAIN b.orders : OrderToken(b, m) < QueuedToken(b, k)
    /\ \A i \in DOMAIN b.plans : PlanToken(b, i) < QueuedToken(b, k)
    /\ \A l \in DOMAIN b.queued : k < l => QueuedToken(b, k) < QueuedToken(b, l)

Ordered(b) ==
  IsPage(b) /\ Numbered(b) /\ SentInOrder(b) /\ PlannedInOrder(b) /\ QueuedInOrder(b)

IInv == Ordered(page)

-----------------------------------------------------------------------------
(* Sequences.                                                                 *)

LEMMA SeqIs == ASSUME NEW s, IsSeq(s)
               PROVE  \E S : s \in Seq(S)
<1>1. s \in Seq({s[i] : i \in 1..Len(s)})
  BY IsASeq DEF IsSeq
<1> QED BY <1>1

LEMMA IsSeqIs == ASSUME NEW S, NEW s \in Seq(S)
                 PROVE  IsSeq(s)
BY LenProperties DEF IsSeq

LEMMA EmptyIs == IsSeq(<<>>) /\ DOMAIN <<>> = {}
<1>1. <<>> \in Seq({})
  OBVIOUS
<1>2. Len(<<>>) = 0 /\ DOMAIN <<>> = {}
  BY EmptySeq
<1> QED BY <1>1, <1>2, IsSeqIs

LEMMA AppendIs ==
  ASSUME NEW s, IsSeq(s), NEW x
  PROVE  /\ IsSeq(Append(s, x)) /\ Len(s) \in Nat /\ DOMAIN s = 1..Len(s)
         /\ DOMAIN Append(s, x) = 1..(Len(s) + 1)
         /\ Append(s, x)[Len(s) + 1] = x
         /\ \A i \in DOMAIN s : Append(s, x)[i] = s[i]
<1>1. PICK S : s \in Seq(S)
  BY SeqIs
<1>2. s \in Seq(S \cup {x})
  BY <1>1
<1>3. Append(s, x) \in Seq(S \cup {x}) /\ Len(Append(s, x)) = Len(s) + 1
      /\ Append(s, x)[Len(s) + 1] = x /\ \A i \in 1..Len(s) : Append(s, x)[i] = s[i]
  BY <1>2, AppendProperties
<1>4. Len(s) \in Nat /\ DOMAIN s = 1..Len(s)
  BY <1>1, LenProperties
<1>5. DOMAIN Append(s, x) = 1..(Len(s) + 1)
  BY <1>3, LenProperties
<1> QED BY <1>3, <1>4, <1>5, IsSeqIs

LEMMA TailIs ==
  ASSUME NEW s, IsSeq(s), s # <<>>
  PROVE  /\ IsSeq(Tail(s)) /\ Head(s) = s[1] /\ 1 \in DOMAIN s /\ DOMAIN s \subseteq Nat
         /\ \A i \in DOMAIN Tail(s) : i + 1 \in DOMAIN s /\ i + 1 > 1 /\ Tail(s)[i] = s[i + 1]
<1>1. PICK S : s \in Seq(S)
  BY SeqIs
<1>2. /\ Tail(s) \in Seq(S) /\ Len(Tail(s)) = Len(s) - 1
      /\ \A i \in 1..Len(Tail(s)) : Tail(s)[i] = s[i + 1]
  BY <1>1, HeadTailProperties
<1>3. Len(s) \in Nat /\ Len(s) # 0 /\ DOMAIN s = 1..Len(s)
  BY <1>1, LenProperties, EmptySeq
<1>4. DOMAIN Tail(s) = 1..(Len(s) - 1)
  BY <1>2, LenProperties
<1>5. Head(s) = s[1]
  BY <1>1
<1>6. IsSeq(Tail(s))
  BY <1>2, IsSeqIs
<1>7. ASSUME NEW i \in DOMAIN Tail(s)
      PROVE  i + 1 \in DOMAIN s /\ i + 1 > 1 /\ Tail(s)[i] = s[i + 1]
  <2>1. i \in 1..(Len(s) - 1)
    BY <1>4, <1>7
  <2>2. i + 1 \in 1..Len(s) /\ i + 1 > 1
    BY <2>1, <1>3
  <2>3. Tail(s)[i] = s[i + 1]
    BY <2>1, <1>2
  <2> QED BY <2>2, <2>3, <1>3
<1> QED BY <1>3, <1>5, <1>6, <1>7

-----------------------------------------------------------------------------
(* What most of the manager's methods do to orders: they leave them as they   *)
(* are, or drop the plans or the queue altogether.                            *)
Keeps(b, c) ==
  /\ IsPage(c) /\ c.orders = b.orders /\ c.tokens = b.tokens
  /\ c.queued \in {b.queued, <<>>} /\ c.plans \in {b.plans, <<>>}

LEMMA KeptOrdered ==
  ASSUME NEW b, NEW c, Ordered(b), Keeps(b, c)
  PROVE  Ordered(c)
<1>1. DOMAIN c.queued = {} \/ c.queued = b.queued
  BY EmptyIs DEF Keeps
<1>2. DOMAIN c.plans = {} \/ c.plans = b.plans
  BY EmptyIs DEF Keeps
<1> USE DEF OrderToken, PlanToken, QueuedToken
<1>3. Numbered(c)
  BY <1>1, <1>2 DEF Ordered, Keeps, Numbered
<1>4. SentInOrder(c)
  BY DEF Ordered, Keeps, SentInOrder
<1>5. PlannedInOrder(c)
  BY <1>2 DEF Ordered, Keeps, PlannedInOrder
<1>6. QueuedInOrder(c)
  BY <1>1, <1>2 DEF Ordered, Keeps, QueuedInOrder
<1> QED BY <1>3, <1>4, <1>5, <1>6 DEF Ordered, Keeps

LEMMA KeepsOn == ASSUME NEW b, NEW c, NEW d, Keeps(b, c), Keeps(c, d) PROVE Keeps(b, d)
BY DEF Keeps

LEMMA KeepsAll == ASSUME NEW b, IsPage(b) PROVE Keeps(b, b)
BY DEF Keeps

(* Fields that hold no orders.                                                *)
LEMMA OtherFields ==
  ASSUME NEW b, IsPage(b), NEW active, NEW moves, NEW after, NEW pending, NEW chain, NEW routed, NEW calls
  PROVE  LET c == [b EXCEPT !.active = active, !.moves = moves, !.after = after, !.pending = pending,
                            !.chain = chain, !.routed = routed, !.calls = calls]
         IN Keeps(b, c)
BY DEF IsPage, Fields, Keeps

LEMMA NoPlans ==
  ASSUME NEW b, IsPage(b), NEW routed PROVE Keeps(b, [b EXCEPT !.plans = <<>>, !.routed = routed])
BY EmptyIs DEF IsPage, Fields, Keeps

LEMMA NoQueue ==
  ASSUME NEW b, IsPage(b), NEW after, NEW active, NEW moves
  PROVE  Keeps(b, [b EXCEPT !.queued = <<>>, !.after = after, !.active = active, !.moves = moves])
BY EmptyIs DEF IsPage, Fields, Keeps

LEMMA CallsKeep ==
  ASSUME NEW b, IsPage(b)
  PROVE  /\ Keeps(b, Revise(b))
         /\ \A opening : Keeps(b, Reconcile(b, opening))
<1>1. PICK calls : calls = {[c EXCEPT !.fresh = FALSE] : c \in b.calls}
  OBVIOUS
<1>2. Revise(b) = [b EXCEPT !.calls = calls]
  BY <1>1 DEF Revise, IsPage
<1>3. ASSUME NEW x PROVE Keeps(b, [b EXCEPT !.calls = x])
  BY DEF IsPage, Fields, Keeps
<1>4. ASSUME NEW opening PROVE Keeps(b, Reconcile(b, opening))
  <2>1. PICK x : x = b.calls \cup {[opening |-> opening, fresh |-> TRUE, retry |-> TRUE,
                               answered |-> FALSE, root |-> None, last |-> None]}
    OBVIOUS
  <2>2. Reconcile(b, opening) = [b EXCEPT !.calls = x]
    BY <2>1 DEF Reconcile
  <2> QED BY <2>2, <1>3
<1> QED BY <1>2, <1>3, <1>4

LEMMA CancelPlansKeeps == ASSUME NEW b, IsPage(b) PROVE Keeps(b, CancelPlans(b))
BY NoPlans DEF CancelPlans

LEMMA SmallStepsKeep ==
  ASSUME NEW b, IsPage(b)
  PROVE  /\ \A n : Keeps(b, Forget(b, n))
         /\ Keeps(b, Clear(b))
         /\ \A n : Keeps(b, Retire(b, n))
         /\ \A x : Keeps(b, [b EXCEPT !.active = x]) /\ Keeps(b, [b EXCEPT !.moves = x])
                   /\ Keeps(b, [b EXCEPT !.pending = x]) /\ Keeps(b, [b EXCEPT !.calls = x])
         /\ \A x, y : Keeps(b, [b EXCEPT !.moves = x, !.pending = y])
                      /\ Keeps(b, [b EXCEPT !.active = x, !.moves = y])
<1>1. ASSUME NEW x, NEW y
      PROVE  Keeps(b, [b EXCEPT !.moves = x, !.pending = y]) /\ Keeps(b, [b EXCEPT !.active = x, !.moves = y])
  BY DEF IsPage, Fields, Keeps
<1>2. ASSUME NEW x
      PROVE  Keeps(b, [b EXCEPT !.active = x]) /\ Keeps(b, [b EXCEPT !.moves = x])
             /\ Keeps(b, [b EXCEPT !.pending = x]) /\ Keeps(b, [b EXCEPT !.calls = x])
  BY DEF IsPage, Fields, Keeps
<1>3. ASSUME NEW n PROVE Keeps(b, Forget(b, n))
  <2>1. ASSUME NEW q \in {b.queued, <<>>}, NEW x PROVE Keeps(b, [b EXCEPT !.queued = q, !.after = x])
    BY EmptyIs DEF IsPage, Fields, Keeps
  <2>2. PICK q : q = IF b.after = n THEN <<>> ELSE b.queued
    OBVIOUS
  <2>3. PICK x : x = IF b.after = n THEN None ELSE b.after
    OBVIOUS
  <2>4. Forget(b, n) = [b EXCEPT !.queued = q, !.after = x]
    BY <2>2, <2>3 DEF Forget, IsPage, Fields
  <2> QED BY <2>1, <2>2, <2>4
<1>4. Keeps(b, Clear(b))
  <2>1. PICK x : x = Unsettled(b.moves, b.active)
    OBVIOUS
  <2>2. Clear(b) = [b EXCEPT !.active = None, !.moves = x]
    BY <2>1 DEF Clear, IsPage, Fields
  <2>3. Keeps(b, [b EXCEPT !.active = None, !.moves = x])
    BY DEF IsPage, Fields, Keeps
  <2> QED BY <2>2, <2>3
<1>5. ASSUME NEW n PROVE Keeps(b, Retire(b, n))
  <2>1. PICK x : x = {m \in b.moves : m.cmd > n}
    OBVIOUS
  <2>2. PICK y : y = b.pending \ {m.cmd : m \in {z \in b.moves : z.cmd <= n}}
    OBVIOUS
  <2>3. Retire(b, n) \in {b, [b EXCEPT !.moves = x, !.pending = y]}
    BY <2>1, <2>2 DEF Retire, IsPage, Fields
  <2>4. Keeps(b, [b EXCEPT !.moves = x, !.pending = y])
    BY DEF IsPage, Fields, Keeps
  <2> QED BY <2>3, <2>4, KeepsAll
<1> QED BY <1>1, <1>2, <1>3, <1>4, <1>5

LEMMA EventsKeep ==
  ASSUME NEW b, IsPage(b), NEW e
  PROVE  Keeps(b, EditEvent(b, e)) /\ Keeps(b, OrderEvent(b, e))
<1>1. Keeps(b, EditEvent(b, e))
  <2>1. CASE e.state = "finished"
    <3>1. PICK x : x = {[m EXCEPT !.finished = @ \/ m.cmd = e.cmd] : m \in b.moves}
      OBVIOUS
    <3>2. EditEvent(b, e) = [b EXCEPT !.moves = x]
      BY <2>1, <3>1 DEF EditEvent, IsPage, Fields
    <3>3. Keeps(b, [b EXCEPT !.moves = x])
      BY DEF IsPage, Fields, Keeps
    <3> QED BY <3>2, <3>3
  <2>2. CASE e.state = "rejected"
    <3>1. PICK x : x = Without(b.moves, e.cmd)
      OBVIOUS
    <3>2. EditEvent(b, e) = [b EXCEPT !.moves = x]
      BY <2>2, <3>1 DEF EditEvent, IsPage, Fields
    <3>3. Keeps(b, [b EXCEPT !.moves = x])
      BY DEF IsPage, Fields, Keeps
    <3> QED BY <3>2, <3>3
  <2>3. CASE e.state \notin {"finished", "rejected"}
    BY <2>3, KeepsAll DEF EditEvent
  <2> QED BY <2>1, <2>2, <2>3
<1>2. Keeps(b, OrderEvent(b, e))
  <2>1. PICK adopted : adopted = IF Adopts(b, e) THEN [b EXCEPT !.active = e.cmd] ELSE b
    OBVIOUS
  <2>2. Keeps(b, adopted) /\ IsPage(adopted)
    BY <2>1, KeepsAll, SmallStepsKeep DEF Keeps
  <2>3. PICK ended : ended = IF adopted.active = e.cmd /\ e.state \in Outcomes THEN Clear(adopted) ELSE adopted
    OBVIOUS
  <2>4. Keeps(adopted, ended) /\ IsPage(ended)
    BY <2>2, <2>3, KeepsAll, SmallStepsKeep DEF Keeps
  <2>5. PICK x : x = Without(ended.moves, e.cmd)
    OBVIOUS
  <2>6. OrderEvent(b, e) = IF e.state = "rejected" THEN [ended EXCEPT !.moves = x] ELSE ended
    BY <2>1, <2>3, <2>5 DEF OrderEvent
  <2>7. Keeps(ended, OrderEvent(b, e))
    <3>1. Keeps(ended, [ended EXCEPT !.moves = x])
      BY <2>4 DEF IsPage, Fields, Keeps
    <3> QED BY <2>4, <2>6, <3>1, KeepsAll
  <2> QED BY <2>2, <2>4, <2>7, KeepsOn
<1> QED BY <1>1, <1>2

LEMMA RoutesKeep ==
  ASSUME NEW b, IsPage(b), NEW r
  PROVE  /\ Keeps(b, Updated(b, r))
         /\ \A n : Keeps(b, Removed(b, n))
         /\ \A gone : Keeps(b, MoveDelta(b, r, gone))
         /\ Keeps(b, MoveSnapshot(b, r))
         /\ Keeps(b, Handshake(b, r))
<1>1. ASSUME NEW c, IsPage(c) PROVE Keeps(c, Updated(c, r))
  <2>1. PICK d : d = [c EXCEPT !.active = r.root]
    OBVIOUS
  <2>2. Keeps(c, d) /\ IsPage(d)
    BY <1>1, <2>1, SmallStepsKeep DEF Keeps
  <2>3. Keeps(d, Retire(d, r.last))
    BY <2>2, SmallStepsKeep
  <2>4. Updated(c, r) \in {c, Retire(d, r.last)}
    BY <2>1 DEF Updated
  <2> QED BY <1>1, <2>2, <2>3, <2>4, KeepsAll, KeepsOn
<1>2. ASSUME NEW n PROVE Keeps(b, Removed(b, n))
  <2>1. PICK d : d = Clear(b)
    OBVIOUS
  <2>2. Keeps(b, d) /\ IsPage(d)
    BY <2>1, SmallStepsKeep DEF Keeps
  <2>3. PICK x : x = d.pending \ {n}
    OBVIOUS
  <2>4. Removed(b, n) \in {b, [d EXCEPT !.pending = x]}
    BY <2>1, <2>3 DEF Removed
  <2>5. Keeps(d, [d EXCEPT !.pending = x])
    BY <2>2, SmallStepsKeep
  <2> QED BY <2>2, <2>4, <2>5, KeepsAll, KeepsOn
<1>3. ASSUME NEW gone PROVE Keeps(b, MoveDelta(b, r, gone))
  <2>1. PICK c : c = Removed(b, gone)
    OBVIOUS
  <2>2. Keeps(b, c) /\ IsPage(c)
    BY <2>1, <1>2 DEF Keeps
  <2>3. PICK d : d = Updated(c, r)
    OBVIOUS
  <2>4. Keeps(c, d) /\ IsPage(d)
    BY <2>2, <2>3, <1>1 DEF Keeps
  <2>5. MoveDelta(b, r, gone) = Revise(d)
    BY <2>1, <2>3 DEF MoveDelta
  <2>6. Keeps(d, Revise(d)) /\ Keeps(b, d)
    BY <2>2, <2>4, CallsKeep, KeepsOn
  <2> QED BY <2>5, <2>6, KeepsOn
<1>4. Keeps(b, MoveSnapshot(b, r))
  <2>1. PICK c : c = IF r.root = None /\ IsMove(b, b.active) /\ b.active \notin b.pending THEN Clear(b) ELSE b
    OBVIOUS
  <2>2. Keeps(b, c) /\ IsPage(c)
    BY <2>1, KeepsAll, SmallStepsKeep DEF Keeps
  <2>3. PICK d : d = Updated(c, r)
    OBVIOUS
  <2>4. Keeps(c, d) /\ IsPage(d)
    BY <2>2, <2>3, <1>1 DEF Keeps
  <2>5. MoveSnapshot(b, r) = Revise(d)
    BY <2>1, <2>3 DEF MoveSnapshot
  <2>6. Keeps(d, Revise(d)) /\ Keeps(b, d)
    BY <2>2, <2>4, CallsKeep, KeepsOn
  <2> QED BY <2>5, <2>6, KeepsOn
<1>5. Keeps(b, Handshake(b, r))
  <2>1. PICK kept : kept = IF b.after \in {None, r.root} THEN b ELSE Forget(b, b.after)
    OBVIOUS
  <2>2. Keeps(b, kept) /\ IsPage(kept)
    BY <2>1, KeepsAll, SmallStepsKeep DEF Keeps
  <2>3. PICK d : d = [kept EXCEPT !.active = r.root]
    OBVIOUS
  <2>4. Keeps(kept, d) /\ IsPage(d)
    BY <2>2, <2>3, SmallStepsKeep DEF Keeps
  <2>5. Handshake(b, r) \in {b, Clear(b), Retire(d, r.last)}
    BY <2>1, <2>3 DEF Handshake
  <2>6. Keeps(d, Retire(d, r.last)) /\ Keeps(b, Clear(b)) /\ Keeps(b, b)
    BY <2>4, SmallStepsKeep, KeepsAll
  <2>7. Keeps(b, Retire(d, r.last))
    <3>1. Keeps(b, d)
      BY <2>2, <2>4, KeepsOn
    <3> QED BY <3>1, <2>6, KeepsOn
  <2> QED BY <2>5, <2>6, <2>7
<1> QED BY <1>1, <1>2, <1>3, <1>4, <1>5

-----------------------------------------------------------------------------
(* Orders that are added.                                                     *)

(* An order sent has no token, or one above those of the orders before it and *)
(* below all that are still waiting.                                          *)
Fits(b, from, c) ==
  /\ IsOrigin(from) /\ from.token <= b.tokens
  /\ from.token # 0 =>
       /\ \A m \in DOMAIN b.orders : OrderToken(b, m) < from.token
       /\ \A i \in DOMAIN c.plans : PlanToken(c, i) # 0 => from.token < PlanToken(c, i)
       /\ \A k \in DOMAIN c.queued : from.token < QueuedToken(c, k)

LEMMA OrderSent ==
  ASSUME NEW b, NEW c, NEW o, Ordered(b), IsPage(c), Fits(b, o.from, c),
         c.orders = Append(b.orders, o), c.tokens = b.tokens,
         c.queued \in {b.queued, <<>>}, c.plans \in {b.plans, <<>>}
  PROVE  Ordered(c)
<1>1. DOMAIN c.queued = {} \/ c.queued = b.queued
  BY EmptyIs
<1>2. DOMAIN c.plans = {} \/ c.plans = b.plans
  BY EmptyIs
<1>3. PICK n \in Nat : n = Len(b.orders) + 1 /\ DOMAIN b.orders = 1..(n - 1) /\ DOMAIN c.orders = 1..n
                       /\ c.orders[n] = o /\ \A m \in DOMAIN b.orders : c.orders[m] = b.orders[m]
  <2>1. IsSeq(b.orders)
    BY DEF Ordered, IsPage
  <2>2. /\ Len(b.orders) \in Nat /\ DOMAIN b.orders = 1..Len(b.orders)
        /\ DOMAIN c.orders = 1..(Len(b.orders) + 1)
        /\ c.orders[Len(b.orders) + 1] = o
        /\ \A i \in DOMAIN b.orders : c.orders[i] = b.orders[i]
    BY <2>1, AppendIs
  <2> QED BY <2>2
<1>4. n \notin DOMAIN b.orders /\ DOMAIN c.orders = DOMAIN b.orders \cup {n}
      /\ \A m \in DOMAIN b.orders : m \in Nat /\ m < n
  BY <1>3
<1>5. /\ OrderToken(c, n) = o.from.token
      /\ \A m \in DOMAIN b.orders : OrderToken(c, m) = OrderToken(b, m) /\ OrderToken(b, m) \in Nat
  BY <1>3 DEF OrderToken, Ordered, Numbered, IsOrigin
<1>6. /\ \A i \in DOMAIN c.plans : i \in DOMAIN b.plans /\ PlanToken(c, i) = PlanToken(b, i)
      /\ \A k \in DOMAIN c.queued : k \in DOMAIN b.queued /\ QueuedToken(c, k) = QueuedToken(b, k)
  BY <1>1, <1>2 DEF PlanToken, QueuedToken
<1>7. Numbered(c)
  <2>1. \A m \in DOMAIN c.orders : IsOrigin(c.orders[m].from) /\ OrderToken(c, m) <= c.tokens
    BY <1>3, <1>4, <1>5 DEF Ordered, Numbered, Fits
  <2>2. \A i \in DOMAIN c.plans : /\ IsOrigin(c.plans[i].from) /\ PlanToken(c, i) <= c.tokens
                                  /\ PlanToken(c, i) # 0 => c.plans[i].policy = "replace"
    BY <1>2 DEF Ordered, Numbered, PlanToken
  <2>3. \A k \in DOMAIN c.queued : QueuedToken(c, k) \in 1..c.tokens
    BY <1>6 DEF Ordered, Numbered
  <2> QED BY <2>1, <2>2, <2>3 DEF Ordered, Numbered
<1>8. SentInOrder(c)
  <2> SUFFICES ASSUME NEW l \in DOMAIN c.orders, NEW m \in DOMAIN c.orders, l < m,
                      OrderToken(c, l) # 0, OrderToken(c, m) # 0
               PROVE  OrderToken(c, l) < OrderToken(c, m)
    BY DEF SentInOrder
  <2>1. l \in DOMAIN b.orders
    BY <1>3, <1>4
  <2>2. CASE m = n
    BY <2>1, <2>2, <1>5 DEF Fits
  <2>3. CASE m \in DOMAIN b.orders
    BY <2>1, <2>3, <1>5 DEF Ordered, SentInOrder
  <2> QED BY <2>2, <2>3, <1>4
<1>9. PlannedInOrder(c)
  <2> SUFFICES ASSUME NEW i \in DOMAIN c.plans, PlanToken(c, i) # 0
               PROVE  /\ \A m \in DOMAIN c.orders : OrderToken(c, m) < PlanToken(c, i)
                      /\ \A j \in DOMAIN c.plans : i < j /\ PlanToken(c, j) # 0 => PlanToken(c, i) < PlanToken(c, j)
    BY DEF PlannedInOrder
  <2>1. OrderToken(c, n) < PlanToken(c, i)
    <3>1. PlanToken(c, i) \in Nat /\ o.from.token \in Nat
      BY <1>6 DEF Ordered, Numbered, IsOrigin, PlanToken, Fits
    <3> QED BY <3>1, <1>5 DEF Fits
  <2>2. \A m \in DOMAIN b.orders : OrderToken(c, m) < PlanToken(c, i)
    BY <1>5, <1>6 DEF Ordered, PlannedInOrder
  <2>3. \A j \in DOMAIN c.plans : i < j /\ PlanToken(c, j) # 0 => PlanToken(c, i) < PlanToken(c, j)
    BY <1>6 DEF Ordered, PlannedInOrder
  <2> QED BY <2>1, <2>2, <2>3, <1>4
<1>10. QueuedInOrder(c)
  <2> SUFFICES ASSUME NEW k \in DOMAIN c.queued
               PROVE  /\ \A m \in DOMAIN c.orders : OrderToken(c, m) < QueuedToken(c, k)
                      /\ \A i \in DOMAIN c.plans : PlanToken(c, i) < QueuedToken(c, k)
                      /\ \A l \in DOMAIN c.queued : k < l => QueuedToken(c, k) < QueuedToken(c, l)
    BY DEF QueuedInOrder
  <2>1. OrderToken(c, n) < QueuedToken(c, k)
    <3>1. QueuedToken(c, k) \in Nat /\ QueuedToken(c, k) >= 1 /\ o.from.token \in Nat
      BY <1>6 DEF Ordered, Numbered, IsOrigin, Fits
    <3> QED BY <3>1, <1>5 DEF Fits
  <2>2. \A m \in DOMAIN b.orders : OrderToken(c, m) < QueuedToken(c, k)
    BY <1>5, <1>6 DEF Ordered, QueuedInOrder
  <2>3. /\ \A i \in DOMAIN c.plans : PlanToken(c, i) < QueuedToken(c, k)
        /\ \A l \in DOMAIN c.queued : k < l => QueuedToken(c, k) < QueuedToken(c, l)
    BY <1>6 DEF Ordered, QueuedInOrder
  <2> QED BY <2>1, <2>2, <2>3, <1>4
<1> QED BY <1>7, <1>8, <1>9, <1>10 DEF Ordered

LEMMA SubmitIs ==
  ASSUME NEW b, IsPage(b), NEW k, NEW p, NEW from
  PROVE  /\ IsPage(Submit(b, k, p, from))
         /\ Submit(b, k, p, from).orders = Append(b.orders, [kind |-> k, policy |-> p, from |-> from])
         /\ Submit(b, k, p, from).tokens = b.tokens /\ Submit(b, k, p, from).queued = b.queued
         /\ Submit(b, k, p, from).plans = IF k = "move" THEN b.plans ELSE <<>>
<1>1. PICK c : c = IF k = "move" THEN b ELSE CancelPlans(b)
  OBVIOUS
<1>2. /\ IsPage(c) /\ c.orders = b.orders /\ c.tokens = b.tokens /\ c.queued = b.queued
      /\ c.plans = IF k = "move" THEN b.plans ELSE <<>>
  BY <1>1, EmptyIs DEF CancelPlans, IsPage, Fields
<1>3. PICK o : o = Append(b.orders, [kind |-> k, policy |-> p, from |-> from])
  OBVIOUS
<1>4. PICK x : x = c.pending \cup {NextSeq(b)}
  OBVIOUS
<1>5. PICK y : y = Append(c.chain, NextSeq(b))
  OBVIOUS
<1>6. PICK d : d = [c EXCEPT !.orders = o, !.pending = x, !.chain = y]
  OBVIOUS
<1>7. Submit(b, k, p, from) = Revise(d)
  BY <1>1, <1>2, <1>3, <1>4, <1>5, <1>6 DEF Submit, IsPage, Fields
<1>8. IsSeq(o)
  BY <1>2, <1>3, AppendIs DEF IsPage
<1>9. /\ IsPage(d) /\ d.orders = o /\ d.tokens = c.tokens /\ d.queued = c.queued /\ d.plans = c.plans
  BY <1>2, <1>6, <1>8 DEF IsPage, Fields
<1>10. PICK calls : calls = {[z EXCEPT !.fresh = FALSE] : z \in d.calls}
  OBVIOUS
<1>11. Revise(d) = [d EXCEPT !.calls = calls]
  BY <1>10, <1>9 DEF Revise, IsPage, Fields
<1>12. /\ IsPage(Revise(d)) /\ Revise(d).orders = o /\ Revise(d).tokens = d.tokens
       /\ Revise(d).queued = d.queued /\ Revise(d).plans = d.plans
  BY <1>9, <1>11 DEF IsPage, Fields
<1> QED BY <1>2, <1>3, <1>7, <1>9, <1>12

LEMMA ReplaceIs ==
  ASSUME NEW b, IsPage(b), NEW from
  PROVE  /\ IsPage(Replace(b, from))
         /\ Replace(b, from).orders = Append(b.orders, [kind |-> "work", policy |-> "replace", from |-> from])
         /\ Replace(b, from).tokens = b.tokens
         /\ Replace(b, from).queued = <<>> /\ Replace(b, from).plans = <<>>
<1>1. PICK x : x = NextSeq(b)
  OBVIOUS
<1>2. PICK c : c = [b EXCEPT !.moves = {}, !.queued = <<>>, !.after = None, !.active = x]
  OBVIOUS
<1>3. IsPage(c) /\ c.orders = b.orders /\ c.tokens = b.tokens /\ c.queued = <<>>
  BY <1>2, EmptyIs DEF IsPage, Fields
<1>4. Replace(b, from) = Submit(c, "work", "replace", from)
  BY <1>1, <1>2 DEF Replace
<1> QED BY <1>3, <1>4, SubmitIs

LEMMA UserFits == ASSUME NEW b, Ordered(b), NEW c PROVE Fits(b, User, c)
BY DEF Fits, User, IsOrigin, Ordered, Numbered

(* An order of the player's drops everything that waits.                      *)
LEMMA ReplaceOrdered == ASSUME NEW b, Ordered(b) PROVE Ordered(Replace(b, User))
<1>1. PICK o : o = [kind |-> "work", policy |-> "replace", from |-> User]
  OBVIOUS
<1>2. PICK c : c = Replace(b, User)
  OBVIOUS
<1>3. /\ IsPage(c) /\ c.orders = Append(b.orders, o) /\ c.tokens = b.tokens
      /\ c.queued = <<>> /\ c.plans = <<>> /\ o.from = User
  BY <1>1, <1>2, ReplaceIs DEF Ordered
<1>4. Fits(b, o.from, c)
  BY <1>3, UserFits
<1> QED BY <1>2, <1>3, <1>4, OrderSent

(* What is queued has the largest token so far.                               *)
LEMMA DeferOrdered ==
  ASSUME NEW b, Ordered(b), NEW k, NEW clear \in BOOLEAN
  PROVE  Ordered(DeferOrder(b, k, clear))
<1>1. PICK q : q = IF clear THEN <<>> ELSE b.queued
  OBVIOUS
<1>2. PICK o : o = [kind |-> k, token |-> b.tokens + 1]
  OBVIOUS
<1>3. PICK after : after = IF b.after = None THEN b.active ELSE b.after
  OBVIOUS
<1>4. PICK c : c = [b EXCEPT !.queued = Append(q, o), !.tokens = b.tokens + 1, !.after = after]
  OBVIOUS
<1>5. DeferOrder(b, k, clear) = c
  BY <1>1, <1>2, <1>3, <1>4 DEF DeferOrder, Ordered, IsPage, Fields
<1>6. IsPage(b) /\ b.tokens \in Nat
  BY DEF Ordered, Numbered
<1>7. IsSeq(q) /\ \A i \in DOMAIN q : i \in DOMAIN b.queued /\ q[i] = b.queued[i]
  BY <1>1, <1>6, EmptyIs DEF IsPage
<1>8. PICK n \in Nat : /\ DOMAIN q = 1..(n - 1) /\ DOMAIN Append(q, o) = 1..n /\ IsSeq(Append(q, o))
                       /\ Append(q, o)[n] = o /\ \A i \in DOMAIN q : Append(q, o)[i] = q[i]
  <2>1. /\ IsSeq(Append(q, o)) /\ Len(q) \in Nat /\ DOMAIN q = 1..Len(q)
        /\ DOMAIN Append(q, o) = 1..(Len(q) + 1)
        /\ Append(q, o)[Len(q) + 1] = o
        /\ \A i \in DOMAIN q : Append(q, o)[i] = q[i]
    BY <1>7, AppendIs
  <2>2. Len(q) + 1 \in Nat /\ (Len(q) + 1) - 1 = Len(q)
    BY <2>1
  <2> QED BY <2>1, <2>2
<1>9. /\ IsPage(c) /\ c.orders = b.orders /\ c.plans = b.plans /\ c.tokens = b.tokens + 1
      /\ c.queued = Append(q, o)
  BY <1>4, <1>6, <1>8 DEF IsPage, Fields
<1>10. DOMAIN c.queued = DOMAIN q \cup {n} /\ n \notin DOMAIN q /\ \A i \in DOMAIN q : i < n
  BY <1>8, <1>9
<1>11. /\ QueuedToken(c, n) = b.tokens + 1
       /\ \A i \in DOMAIN q : i \in DOMAIN b.queued /\ QueuedToken(c, i) = QueuedToken(b, i)
  BY <1>2, <1>7, <1>8, <1>9 DEF QueuedToken
<1>12. /\ \A m \in DOMAIN c.orders : OrderToken(c, m) = OrderToken(b, m) /\ OrderToken(b, m) \in 0..b.tokens
       /\ \A i \in DOMAIN c.plans : PlanToken(c, i) = PlanToken(b, i) /\ PlanToken(b, i) \in 0..b.tokens
       /\ \A i \in DOMAIN q : QueuedToken(b, i) \in 1..b.tokens
  BY <1>7, <1>9 DEF Ordered, Numbered, IsOrigin, OrderToken, PlanToken
<1>13. Numbered(c)
  <2>1. \A k2 \in DOMAIN c.queued : QueuedToken(c, k2) \in 1..c.tokens
    BY <1>6, <1>9, <1>10, <1>11, <1>12
  <2>2. c.tokens \in Nat /\ b.tokens <= c.tokens
    BY <1>6, <1>9
  <2>3. \A m \in DOMAIN c.orders : IsOrigin(c.orders[m].from) /\ OrderToken(c, m) <= c.tokens
    <3>1. \A m \in DOMAIN c.orders : IsOrigin(c.orders[m].from)
      BY <1>9 DEF Ordered, Numbered
    <3> QED BY <3>1, <2>2, <1>6, <1>12
  <2>4. \A i \in DOMAIN c.plans : /\ IsOrigin(c.plans[i].from) /\ PlanToken(c, i) <= c.tokens
                                  /\ PlanToken(c, i) # 0 => c.plans[i].policy = "replace"
    <3>1. \A i \in DOMAIN c.plans : IsOrigin(c.plans[i].from)
                                    /\ (PlanToken(c, i) # 0 => c.plans[i].policy = "replace")
      BY <1>9 DEF Ordered, Numbered, PlanToken
    <3> QED BY <3>1, <2>2, <1>6, <1>12
  <2> QED BY <2>1, <2>2, <2>3, <2>4 DEF Numbered
<1>14. SentInOrder(c) /\ PlannedInOrder(c)
  BY <1>9 DEF Ordered, SentInOrder, PlannedInOrder, OrderToken, PlanToken
<1>15. QueuedInOrder(c)
  <2> SUFFICES ASSUME NEW j \in DOMAIN c.queued
               PROVE  /\ \A m \in DOMAIN c.orders : OrderToken(c, m) < QueuedToken(c, j)
                      /\ \A i \in DOMAIN c.plans : PlanToken(c, i) < QueuedToken(c, j)
                      /\ \A l \in DOMAIN c.queued : j < l => QueuedToken(c, j) < QueuedToken(c, l)
    BY DEF QueuedInOrder
  <2>1. CASE j = n
    <3>1. \A l \in DOMAIN c.queued : ~(n < l)
      BY <1>8, <1>9
    <3> QED BY <2>1, <3>1, <1>6, <1>11, <1>12
  <2>2. CASE j \in DOMAIN q
    <3>1. j \in DOMAIN b.queued /\ QueuedToken(c, j) = QueuedToken(b, j)
      BY <2>2, <1>11
    <3>2. \A m \in DOMAIN c.orders : OrderToken(c, m) < QueuedToken(c, j)
      BY <3>1, <1>9, <1>12 DEF Ordered, QueuedInOrder
    <3>3. \A i \in DOMAIN c.plans : PlanToken(c, i) < QueuedToken(c, j)
      BY <3>1, <1>9, <1>12 DEF Ordered, QueuedInOrder
    <3>4. \A l \in DOMAIN q : j < l => QueuedToken(c, j) < QueuedToken(c, l)
      BY <3>1, <1>11 DEF Ordered, QueuedInOrder
    <3>5. QueuedToken(c, j) < QueuedToken(c, n)
      BY <2>2, <3>1, <1>6, <1>11, <1>12
    <3> QED BY <3>2, <3>3, <3>4, <3>5, <1>10
  <2> QED BY <2>1, <2>2, <1>10
<1> QED BY <1>5, <1>9, <1>13, <1>14, <1>15 DEF Ordered

(* A plan is behind all plans that are told apart from it by a token.         *)
LEMMA PlanMade ==
  ASSUME NEW b, NEW c, NEW o, Ordered(b), IsPage(c), o.from = User,
         c.orders = b.orders, c.tokens = b.tokens, c.queued = b.queued,
         c.plans \in {Append(b.plans, o), Append(<<>>, o)}
  PROVE  Ordered(c)
<1>1. PICK s : s \in {b.plans, <<>>} /\ c.plans = Append(s, o)
  OBVIOUS
<1>2. IsSeq(s) /\ \A i \in DOMAIN s : i \in DOMAIN b.plans /\ s[i] = b.plans[i]
  BY <1>1, EmptyIs DEF Ordered, IsPage
<1>3. PICK n \in Nat : /\ DOMAIN c.plans = DOMAIN s \cup {n} /\ c.plans[n] = o
                       /\ \A i \in DOMAIN s : c.plans[i] = s[i]
  <2>1. /\ Len(s) \in Nat /\ DOMAIN s = 1..Len(s)
        /\ DOMAIN Append(s, o) = 1..(Len(s) + 1)
        /\ Append(s, o)[Len(s) + 1] = o
        /\ \A i \in DOMAIN s : Append(s, o)[i] = s[i]
    BY <1>2, AppendIs
  <2> QED BY <2>1, <1>1
<1>4. /\ PlanToken(c, n) = 0 /\ c.plans[n].from = User
      /\ \A i \in DOMAIN c.plans : i # n => i \in DOMAIN b.plans /\ c.plans[i] = b.plans[i]
  BY <1>2, <1>3 DEF PlanToken, User
<1>5. Numbered(c)
  <2>1. \A i \in DOMAIN c.plans : /\ IsOrigin(c.plans[i].from) /\ PlanToken(c, i) <= c.tokens
                                  /\ PlanToken(c, i) # 0 => c.plans[i].policy = "replace"
    BY <1>4 DEF Ordered, Numbered, PlanToken, User, IsOrigin
  <2> QED BY <2>1 DEF Ordered, Numbered, OrderToken, QueuedToken
<1>6. SentInOrder(c)
  BY DEF Ordered, SentInOrder, OrderToken
<1>7. PlannedInOrder(c)
  BY <1>4 DEF Ordered, PlannedInOrder, OrderToken, PlanToken
<1>8. QueuedInOrder(c)
  <2>1. \A k \in DOMAIN c.queued : QueuedToken(c, k) > 0
    BY DEF Ordered, Numbered, QueuedToken
  <2> QED BY <2>1, <1>4 DEF Ordered, QueuedInOrder, OrderToken, PlanToken, QueuedToken
<1> QED BY <1>5, <1>6, <1>7, <1>8 DEF Ordered

-----------------------------------------------------------------------------
(* Plans that are taken up, and follow-ups that are started.                  *)

(* The first plan is in front of all that waits.                              *)
LEMMA PlanTaken ==
  ASSUME NEW b, Ordered(b), b.plans # <<>>, NEW c, c = [b EXCEPT !.plans = Tail(b.plans)]
  PROVE  /\ Ordered(c) /\ Fits(c, Head(b.plans).from, c)
         /\ Head(b.plans).from.token # 0 => Head(b.plans).policy = "replace"
<1>1. /\ IsPage(c) /\ c.orders = b.orders /\ c.tokens = b.tokens /\ c.queued = b.queued
      /\ c.plans = Tail(b.plans)
  BY TailIs DEF Ordered, IsPage, Fields
<1>2. /\ Head(b.plans) = b.plans[1] /\ 1 \in DOMAIN b.plans /\ DOMAIN b.plans \subseteq Nat
      /\ \A i \in DOMAIN c.plans : i + 1 \in DOMAIN b.plans /\ i + 1 > 1 /\ c.plans[i] = b.plans[i + 1]
  BY <1>1, TailIs DEF Ordered, IsPage
<1>3. \A i \in DOMAIN c.plans : PlanToken(c, i) = PlanToken(b, i + 1)
  BY <1>2 DEF PlanToken
<1>4. Numbered(c)
  <2>1. \A i \in DOMAIN c.plans : /\ IsOrigin(c.plans[i].from) /\ PlanToken(c, i) <= c.tokens
                                  /\ PlanToken(c, i) # 0 => c.plans[i].policy = "replace"
    BY <1>1, <1>2, <1>3 DEF Ordered, Numbered
  <2> QED BY <2>1, <1>1 DEF Ordered, Numbered, OrderToken, QueuedToken
<1>5. SentInOrder(c)
  BY <1>1 DEF Ordered, SentInOrder, OrderToken
<1>6. PlannedInOrder(c)
  <2> SUFFICES ASSUME NEW i \in DOMAIN c.plans, PlanToken(c, i) # 0
               PROVE  /\ \A m \in DOMAIN c.orders : OrderToken(c, m) < PlanToken(c, i)
                      /\ \A j \in DOMAIN c.plans : i < j /\ PlanToken(c, j) # 0 => PlanToken(c, i) < PlanToken(c, j)
    BY DEF PlannedInOrder
  <2>1. \A m \in DOMAIN c.orders : OrderToken(c, m) < PlanToken(c, i)
    BY <1>1, <1>2, <1>3 DEF Ordered, PlannedInOrder, OrderToken
  <2>2. ASSUME NEW j \in DOMAIN c.plans, i < j, PlanToken(c, j) # 0
        PROVE  PlanToken(c, i) < PlanToken(c, j)
    <3>1. IsSeq(Tail(b.plans))
      BY <1>1 DEF IsPage
    <3>2. i \in Nat /\ j \in Nat
      BY <3>1, <1>1 DEF IsSeq
    <3>3. i + 1 < j + 1
      BY <3>2, <2>2
    <3> QED BY <3>3, <2>2, <1>2, <1>3 DEF Ordered, PlannedInOrder
  <2> QED BY <2>1, <2>2
<1>7. QueuedInOrder(c)
  BY <1>1, <1>2, <1>3 DEF Ordered, QueuedInOrder, OrderToken, QueuedToken
<1>8. Fits(c, Head(b.plans).from, c)
  <2>1. IsOrigin(Head(b.plans).from) /\ Head(b.plans).from.token <= c.tokens
    BY <1>1, <1>2 DEF Ordered, Numbered, PlanToken
  <2>2. ASSUME Head(b.plans).from.token # 0
        PROVE  /\ \A m \in DOMAIN c.orders : OrderToken(c, m) < Head(b.plans).from.token
               /\ \A i \in DOMAIN c.plans : PlanToken(c, i) # 0 => Head(b.plans).from.token < PlanToken(c, i)
               /\ \A k \in DOMAIN c.queued : Head(b.plans).from.token < QueuedToken(c, k)
    <3>1. Head(b.plans).from.token = PlanToken(b, 1)
      BY <1>2 DEF PlanToken
    <3>2. \A m \in DOMAIN c.orders : OrderToken(c, m) < PlanToken(b, 1)
      BY <3>1, <2>2, <1>1, <1>2 DEF Ordered, PlannedInOrder, OrderToken
    <3>3. \A i \in DOMAIN c.plans : PlanToken(c, i) # 0 => PlanToken(b, 1) < PlanToken(c, i)
      BY <3>1, <2>2, <1>2, <1>3 DEF Ordered, PlannedInOrder
    <3>4. \A k \in DOMAIN c.queued : PlanToken(b, 1) < QueuedToken(c, k)
      BY <1>1, <1>2 DEF Ordered, QueuedInOrder, QueuedToken
    <3> QED BY <3>1, <3>2, <3>3, <3>4
  <2> QED BY <2>1, <2>2 DEF Fits
<1>9. Head(b.plans).from.token # 0 => Head(b.plans).policy = "replace"
  BY <1>2 DEF Ordered, Numbered, PlanToken
<1> QED BY <1>1, <1>4, <1>5, <1>6, <1>7, <1>8, <1>9 DEF Ordered

LEMMA PlannedMoveOrdered ==
  ASSUME NEW b, Ordered(b), NEW p, NEW from, Fits(b, from, b), from.token # 0 => p = "replace"
  PROVE  Ordered(PlannedMove(b, p, from))
<1>1. IsPage(b)
  BY DEF Ordered
<1>2. CASE DefersMove(b, p)
  <2>1. (p = "clear") \in BOOLEAN
    OBVIOUS
  <2> QED BY <2>1, <1>2, DeferOrdered DEF PlannedMove
<1>3. CASE ~DefersMove(b, p)
  <2>1. PICK x : x = NextSeq(b)
    OBVIOUS
  <2>2. PICK moves : moves = {[cmd |-> x, finished |-> FALSE]}
    OBVIOUS
  <2>3. PICK longer : longer = b.moves \cup {[cmd |-> x, finished |-> FALSE]}
    OBVIOUS
  <2>4. PICK d : d = IF p = "replace"
                       THEN [b EXCEPT !.queued = <<>>, !.after = None, !.active = x, !.moves = moves]
                       ELSE [b EXCEPT !.moves = longer]
    OBVIOUS
  <2>5. PlannedMove(b, p, from) = Submit(d, "move", p, from)
    BY <1>1, <1>3, <2>1, <2>2, <2>3, <2>4 DEF PlannedMove, IsPage, Fields
  <2>6. Keeps(b, d)
    <3>1. Keeps(b, [b EXCEPT !.queued = <<>>, !.after = None, !.active = x, !.moves = moves])
      BY <1>1, EmptyIs DEF IsPage, Fields, Keeps
    <3>2. Keeps(b, [b EXCEPT !.moves = longer])
      BY <1>1 DEF IsPage, Fields, Keeps
    <3> QED BY <3>1, <3>2, <2>4
  <2>7. IsPage(d) /\ Ordered(d)
    BY <2>6, KeptOrdered DEF Ordered
  <2>8. d.plans = b.plans
    BY <1>1, <2>4 DEF IsPage, Fields
  <2>9. PICK o : o = [kind |-> "move", policy |-> p, from |-> from]
    OBVIOUS
  <2>10. PICK c : c = Submit(d, "move", p, from)
    OBVIOUS
  <2>11. /\ IsPage(c) /\ c.orders = Append(d.orders, o) /\ c.tokens = d.tokens
         /\ c.queued = d.queued /\ c.plans = d.plans /\ o.from = from
    BY <2>7, <2>9, <2>10, SubmitIs
  <2>12. Fits(d, o.from, c)
    <3>1. d.queued = b.queued \/ DOMAIN d.queued = {}
      BY <2>6, EmptyIs DEF Keeps
    <3>2. /\ d.orders = b.orders /\ d.tokens = b.tokens
      BY <2>6 DEF Keeps
    <3> QED BY <3>1, <3>2, <2>8, <2>11 DEF Fits, OrderToken, PlanToken, QueuedToken
  <2> QED BY <2>5, <2>7, <2>10, <2>11, <2>12, OrderSent
<1> QED BY <1>2, <1>3

LEMMA MoveCommandOrdered ==
  ASSUME NEW b, Ordered(b), NEW p
  PROVE  Ordered(MoveCommand(b, p, User))
<1>1. IsPage(b)
  BY DEF Ordered
<1>2. CASE DefersMove(b, p)
  <2>1. (p = "clear") \in BOOLEAN
    OBVIOUS
  <2> QED BY <2>1, <1>2, DeferOrdered DEF MoveCommand
<1>3. CASE ~DefersMove(b, p)
  <2>1. PICK d : d = IF p = "replace" THEN CancelPlans(b) ELSE b
    OBVIOUS
  <2>2. Keeps(b, d)
    BY <2>1, <1>1, CancelPlansKeeps, KeepsAll
  <2>3. Ordered(d) /\ IsPage(d)
    BY <2>2, KeptOrdered DEF Ordered
  <2>4. PICK o : o = [policy |-> p, from |-> User]
    OBVIOUS
  <2>5. PICK plans : plans = Append(d.plans, o)
    OBVIOUS
  <2>6. PICK c : c = [d EXCEPT !.plans = plans]
    OBVIOUS
  <2>7. MoveCommand(b, p, User) = c
    BY <1>3, <2>1, <2>3, <2>4, <2>5, <2>6 DEF MoveCommand, IsPage, Fields
  <2>8. IsSeq(plans)
    BY <2>3, <2>5, AppendIs DEF IsPage
  <2>9. /\ IsPage(c) /\ c.orders = d.orders /\ c.tokens = d.tokens /\ c.queued = d.queued
        /\ c.plans = Append(d.plans, o)
    BY <2>3, <2>5, <2>6, <2>8 DEF IsPage, Fields
  <2>10. o.from = User
    BY <2>4
  <2> QED BY <2>3, <2>7, <2>9, <2>10, PlanMade
<1> QED BY <1>2, <1>3

(* The first of the queue is in front of the rest and behind all that was     *)
(* sent or planned.                                                           *)
LEMMA HeadFits ==
  ASSUME NEW b, Ordered(b), b.queued # <<>>, NEW after, NEW from,
         from = [token |-> Head(b.queued).token, behind |-> after],
         NEW c, IsPage(c), c.orders = b.orders, c.tokens = b.tokens, c.queued = Tail(b.queued),
         c.plans = <<>>
  PROVE  Ordered(c) /\ Fits(c, from, c) /\ from.token # 0
<1>1. /\ Head(b.queued) = b.queued[1] /\ 1 \in DOMAIN b.queued /\ DOMAIN b.queued \subseteq Nat
      /\ \A k \in DOMAIN c.queued : k + 1 \in DOMAIN b.queued /\ k + 1 > 1 /\ c.queued[k] = b.queued[k + 1]
  <2>1. IsSeq(b.queued)
    BY DEF Ordered, IsPage
  <2> QED BY <2>1, TailIs
<1>2. \A k \in DOMAIN c.queued : QueuedToken(c, k) = QueuedToken(b, k + 1)
  BY <1>1 DEF QueuedToken
<1>3. DOMAIN c.plans = {}
  BY EmptyIs
<1>4. from.token = QueuedToken(b, 1)
  BY <1>1 DEF QueuedToken
<1>5. QueuedToken(b, 1) \in 1..b.tokens /\ b.tokens \in Nat
  BY <1>1 DEF Ordered, Numbered
<1>6. Ordered(c)
  <2>1. Numbered(c)
    <3>1. \A k \in DOMAIN c.queued : QueuedToken(c, k) \in 1..c.tokens
      BY <1>1, <1>2 DEF Ordered, Numbered
    <3> QED BY <3>1, <1>3 DEF Ordered, Numbered, OrderToken
  <2>2. SentInOrder(c)
    BY DEF Ordered, SentInOrder, OrderToken
  <2>3. PlannedInOrder(c)
    BY <1>3 DEF PlannedInOrder
  <2>4. QueuedInOrder(c)
    <3> SUFFICES ASSUME NEW k \in DOMAIN c.queued
                 PROVE  /\ \A m \in DOMAIN c.orders : OrderToken(c, m) < QueuedToken(c, k)
                        /\ \A l \in DOMAIN c.queued : k < l => QueuedToken(c, k) < QueuedToken(c, l)
      BY <1>3 DEF QueuedInOrder
    <3>1. \A m \in DOMAIN c.orders : OrderToken(c, m) < QueuedToken(c, k)
      BY <1>1, <1>2 DEF Ordered, QueuedInOrder, OrderToken
    <3>2. ASSUME NEW l \in DOMAIN c.queued, k < l
          PROVE  QueuedToken(c, k) < QueuedToken(c, l)
      <4>1. IsSeq(c.queued)
        BY DEF IsPage
      <4>2. k \in Nat /\ l \in Nat
        BY <4>1 DEF IsSeq
      <4>3. k + 1 < l + 1
        BY <4>2, <3>2
      <4> QED BY <4>3, <1>1, <1>2 DEF Ordered, QueuedInOrder
    <3> QED BY <3>1, <3>2
  <2> QED BY <2>1, <2>2, <2>3, <2>4 DEF Ordered
<1>7. Fits(c, from, c)
  <2>1. IsOrigin(from) /\ from.token <= c.tokens
    <3>1. from # User
      BY <1>4, <1>5 DEF User
    <3> QED BY <3>1, <1>4, <1>5 DEF IsOrigin
  <2>2. \A m \in DOMAIN c.orders : OrderToken(c, m) < from.token
    BY <1>1, <1>4 DEF Ordered, QueuedInOrder, OrderToken
  <2>3. \A k \in DOMAIN c.queued : from.token < QueuedToken(c, k)
    BY <1>1, <1>2, <1>4 DEF Ordered, QueuedInOrder
  <2> QED BY <2>1, <2>2, <2>3, <1>3 DEF Fits
<1> QED BY <1>4, <1>5, <1>6, <1>7

(* A plan for a follow-up, the only one.                                      *)
LEMMA FollowUpPlanned ==
  ASSUME NEW b, Ordered(b), b.plans = <<>>, NEW o, Fits(b, o.from, b), o.policy = "replace",
         NEW c, IsPage(c), c.orders = b.orders, c.tokens = b.tokens, c.queued = b.queued,
         c.plans = Append(<<>>, o)
  PROVE  Ordered(c)
<1>1. DOMAIN c.plans = {1} /\ c.plans[1] = o
  OBVIOUS
<1>2. PlanToken(c, 1) = o.from.token
  BY <1>1 DEF PlanToken
<1>3. Numbered(c)
  BY <1>1, <1>2 DEF Ordered, Numbered, Fits, OrderToken, QueuedToken
<1>4. SentInOrder(c)
  BY DEF Ordered, SentInOrder, OrderToken
<1>5. PlannedInOrder(c)
  BY <1>1, <1>2 DEF PlannedInOrder, Fits, OrderToken
<1>6. QueuedInOrder(c)
  <2>1. \A k \in DOMAIN c.queued : QueuedToken(c, k) > 0
    BY DEF Ordered, Numbered, QueuedToken
  <2>2. \A k \in DOMAIN c.queued : PlanToken(c, 1) < QueuedToken(c, k)
    BY <2>1, <1>2 DEF Fits, QueuedToken
  <2> QED BY <1>1, <2>2 DEF Ordered, QueuedInOrder, OrderToken, QueuedToken
<1> QED BY <1>3, <1>4, <1>5, <1>6 DEF Ordered

LEMMA StartNextOrdered == ASSUME NEW b, Ordered(b) PROVE Ordered(StartNext(b))
<1>1. IsPage(b)
  BY DEF Ordered
<1>2. CASE b.active # None
  BY <1>2 DEF StartNext
<1>3. CASE b.active = None /\ b.queued = <<>>
  <2>1. Keeps(b, [b EXCEPT !.after = None])
    BY <1>1 DEF IsPage, Fields, Keeps
  <2> QED BY <1>3, <2>1, KeptOrdered DEF StartNext
<1>4. CASE b.active = None /\ b.queued # <<>>
  <2>1. PICK from : from = [token |-> Head(b.queued).token, behind |-> b.after]
    OBVIOUS
  <2>2. PICK rest : rest = Tail(b.queued)
    OBVIOUS
  <2>3. PICK left : left = [b EXCEPT !.queued = rest]
    OBVIOUS
  <2>4. IsSeq(rest)
    BY <1>1, <1>4, <2>2, TailIs DEF IsPage
  <2>5. IsPage(left) /\ left.orders = b.orders /\ left.tokens = b.tokens
    BY <1>1, <2>3, <2>4 DEF IsPage, Fields
  <2>6. PICK started : started = IF Head(b.queued).kind = "move" THEN MoveCommand(left, "replace", from)
                                                              ELSE Replace(left, from)
    OBVIOUS
  <2>7. PICK c : c = [started EXCEPT !.queued = rest, !.after = started.active]
    OBVIOUS
  <2>8. StartNext(b) = c
    BY <1>4, <2>1, <2>2, <2>3, <2>6, <2>7 DEF StartNext, IsPage, Fields
  <2>9. PICK clean : clean = [left EXCEPT !.plans = <<>>]
    OBVIOUS
  <2>10. /\ IsPage(clean) /\ clean.orders = b.orders /\ clean.tokens = b.tokens
         /\ clean.queued = Tail(b.queued) /\ clean.plans = <<>>
    BY <1>1, <2>2, <2>3, <2>4, <2>5, <2>9, EmptyIs DEF IsPage, Fields
  <2>11. Ordered(clean) /\ Fits(clean, from, clean)
    BY <1>4, <2>1, <2>10, HeadFits
  <2>12. CASE Head(b.queued).kind = "move"
    <3>1. PICK o : o = [policy |-> "replace", from |-> from]
      OBVIOUS
    <3>2. ~DefersMove(left, "replace")
      BY DEF DefersMove
    <3>3. PICK d : d = CancelPlans(left)
      OBVIOUS
    <3>4. /\ IsPage(d) /\ d.orders = left.orders /\ d.tokens = left.tokens /\ d.plans = <<>>
      BY <2>5, <3>3, EmptyIs DEF CancelPlans, IsPage, Fields
    <3>5. PICK plans : plans = Append(d.plans, o)
      OBVIOUS
    <3>6. started = [d EXCEPT !.plans = plans]
      BY <2>6, <2>12, <3>1, <3>2, <3>3, <3>4, <3>5 DEF MoveCommand, IsPage, Fields
    <3>7. IsSeq(plans)
      BY <3>4, <3>5, AppendIs DEF IsPage
    <3>8. /\ IsPage(started) /\ started.orders = b.orders /\ started.tokens = b.tokens
          /\ started.plans = Append(<<>>, o)
      BY <2>5, <3>4, <3>5, <3>6, <3>7 DEF IsPage, Fields
    <3>9. /\ IsPage(c) /\ c.orders = clean.orders /\ c.tokens = clean.tokens /\ c.queued = clean.queued
          /\ c.plans = Append(<<>>, o)
      BY <2>2, <2>4, <2>7, <2>10, <3>8 DEF IsPage, Fields
    <3>10. o.from = from /\ o.policy = "replace"
      BY <3>1
    <3> QED BY <2>8, <2>10, <2>11, <3>9, <3>10, FollowUpPlanned
  <2>13. CASE Head(b.queued).kind # "move"
    <3>1. PICK o : o = [kind |-> "work", policy |-> "replace", from |-> from]
      OBVIOUS
    <3>2. started = Replace(left, from)
      BY <2>6, <2>13
    <3>3. /\ IsPage(started) /\ started.orders = Append(left.orders, o) /\ started.tokens = left.tokens
          /\ started.plans = <<>>
      BY <2>5, <3>1, <3>2, ReplaceIs
    <3>4. /\ IsPage(c) /\ c.orders = Append(clean.orders, o) /\ c.tokens = clean.tokens
          /\ c.queued = clean.queued /\ c.plans = clean.plans
      BY <2>2, <2>4, <2>5, <2>7, <2>10, <3>3 DEF IsPage, Fields
    <3>5. o.from = from
      BY <3>1
    <3>6. Fits(clean, o.from, c)
      BY <2>11, <3>4, <3>5 DEF Fits, PlanToken, QueuedToken
    <3> QED BY <2>8, <2>11, <3>4, <3>6, OrderSent
  <2> QED BY <2>12, <2>13
<1> QED BY <1>2, <1>3, <1>4

-----------------------------------------------------------------------------
(* What is heard.                                                             *)

LEMMA RevisedOrdered == ASSUME NEW b, Ordered(b) PROVE Ordered(Revise(b))
BY CallsKeep, KeptOrdered DEF Ordered

LEMMA LifecycleOrdered == ASSUME NEW b, Ordered(b), NEW e PROVE Ordered(Lifecycle(b, e))
<1>1. PICK told : told = IF e.edit THEN EditEvent(b, e) ELSE OrderEvent(b, e)
  OBVIOUS
<1>2. Ordered(told)
  BY <1>1, EventsKeep, KeptOrdered DEF Ordered
<1>3. PICK x : x = told.pending \ {e.cmd}
  OBVIOUS
<1>4. PICK known : known = [told EXCEPT !.pending = x]
  OBVIOUS
<1>5. Ordered(known)
  <2>1. Keeps(told, [told EXCEPT !.pending = x])
    BY <1>2, SmallStepsKeep DEF Ordered
  <2> QED BY <1>2, <1>4, <2>1, KeptOrdered
<1>6. PICK next : next = FollowOn(known, e)
  OBVIOUS
<1>7. Ordered(next)
  <2>1. Ordered(StartNext(known))
    BY <1>5, StartNextOrdered
  <2>2. Ordered(Forget(known, e.cmd))
    BY <1>5, SmallStepsKeep, KeptOrdered DEF Ordered
  <2> QED BY <1>5, <1>6, <2>1, <2>2 DEF FollowOn
<1>8. Lifecycle(b, e) \in {Revise(next), Reconcile(Revise(next), FALSE)}
  BY <1>1, <1>2, <1>3, <1>4, <1>6 DEF Lifecycle, Ordered, IsPage, Fields
<1>9. Ordered(Revise(next))
  BY <1>7, RevisedOrdered
<1>10. Ordered(Reconcile(Revise(next), FALSE))
  <2>1. IsPage(Revise(next))
    BY <1>9 DEF Ordered
  <2>2. Keeps(Revise(next), Reconcile(Revise(next), FALSE))
    BY <2>1, CallsKeep
  <2> QED BY <1>9, <2>2, KeptOrdered
<1> QED BY <1>8, <1>9, <1>10

LEMMA HeardOrdered == ASSUME NEW b, Ordered(b), NEW e PROVE Ordered(Heard(b, e))
<1>1. Ordered(MoveDelta(b, e.route, e.gone))
  BY RoutesKeep, KeptOrdered DEF Ordered
<1> QED BY <1>1, LifecycleOrdered DEF Heard

LEMMA ReconciledOrdered == ASSUME NEW b, Ordered(b), NEW r PROVE Ordered(Reconciled(b, r))
<1>1. Ordered(Handshake(b, r))
  BY RoutesKeep, KeptOrdered DEF Ordered
<1>2. Ordered(StartNext(Handshake(b, r)))
  BY <1>1, StartNextOrdered
<1>3. Reconciled(b, r) \in {Revise(Handshake(b, r)), Revise(StartNext(Handshake(b, r)))}
  BY DEF Reconciled
<1>4. Ordered(Revise(Handshake(b, r))) /\ Ordered(Revise(StartNext(Handshake(b, r))))
  BY <1>1, <1>2, RevisedOrdered
<1> QED BY <1>3, <1>4

-----------------------------------------------------------------------------
(* The actions that change the page.                                          *)

LEMMA InitOrdered == ASSUME Init PROVE IInv
<1>1. /\ page = [f \in Fields |-> page[f]]
      /\ page.orders = <<>> /\ page.queued = <<>> /\ page.plans = <<>> /\ page.tokens = 0
  BY DEF Init, Fields
<1>2. /\ DOMAIN page.orders = {} /\ DOMAIN page.queued = {} /\ DOMAIN page.plans = {}
  BY <1>1, EmptyIs
<1>3. IsPage(page)
  BY <1>1, EmptyIs DEF IsPage
<1> QED
  BY <1>1, <1>2, <1>3 DEF IInv, Ordered, Numbered, SentInOrder, PlannedInOrder, QueuedInOrder

LEMMA OrderMoveOrdered == ASSUME IInv, NEW p, OrderMove(p) PROVE IInv'
BY MoveCommandOrdered DEF IInv, OrderMove

LEMMA OrderWorkOrdered == ASSUME IInv, OrderWork PROVE IInv'
BY ReplaceOrdered DEF IInv, OrderWork

LEMMA QueueWorkOrdered == ASSUME IInv, NEW p, QueueWork(p) PROVE IInv'
<1>1. (p = "clear") \in BOOLEAN
  OBVIOUS
<1>2. Ordered(DeferOrder(page, "work", p = "clear")) /\ Ordered(Replace(page, User))
  BY <1>1, DeferOrdered, ReplaceOrdered DEF IInv
<1> QED BY <1>2 DEF IInv, QueueWork

LEMMA PlannedOrdered == ASSUME IInv, Planned PROVE IInv'
<1>1. PICK c : c = [page EXCEPT !.plans = Tail(page.plans)]
  OBVIOUS
<1>2. PICK p : p = Head(page.plans).policy
  OBVIOUS
<1>3. PICK from : from = Head(page.plans).from
  OBVIOUS
<1>4. page.plans # <<>> /\ page' \in {c, PlannedMove(c, p, from)}
  BY <1>1, <1>2, <1>3 DEF Planned, IInv, Ordered, IsPage, Fields
<1>5. Ordered(c) /\ Fits(c, from, c) /\ (from.token # 0 => p = "replace")
  BY <1>1, <1>2, <1>3, <1>4, PlanTaken DEF IInv
<1>6. Ordered(PlannedMove(c, p, from))
  BY <1>5, PlannedMoveOrdered
<1> QED BY <1>4, <1>5, <1>6 DEF IInv

(* The steps that neither give nor start an order.                            *)
LEMMA KeptHolds == ASSUME IInv, Keeps(page, page') PROVE IInv'
BY KeptOrdered DEF IInv

LEMMA ReloadOrdered == ASSUME IInv, Reload PROVE IInv'
<1>1. PICK c : c = [page EXCEPT !.moves = {}, !.pending = {}, !.chain = <<>>, !.plans = <<>>,
                                !.routed = FALSE, !.calls = {}]
  OBVIOUS
<1>2. page' = c
  BY <1>1 DEF Reload
<1>3. Keeps(page, c)
  BY <1>1, EmptyIs DEF IInv, Ordered, IsPage, Fields, Keeps
<1> QED BY <1>2, <1>3, KeptHolds

LEMMA PostingOrdered == ASSUME IInv, Posting PROVE IInv'
<1>1. IsPage(page)
  BY DEF IInv, Ordered
<1>2. CASE PostArrives
  BY <1>2 DEF PostArrives, IInv
<1>3. CASE PostAnswered
  <2>1. PICK x : x = Tail(page.chain)
    OBVIOUS
  <2>2. page' = [page EXCEPT !.chain = x]
    BY <1>1, <1>3, <2>1 DEF PostAnswered, IsPage, Fields
  <2>3. Keeps(page, [page EXCEPT !.chain = x])
    BY <1>1 DEF IsPage, Fields, Keeps
  <2> QED BY <2>2, <2>3, KeptHolds
<1>4. CASE PostFails
  <2>1. PICK n : n = Head(page.chain)
    OBVIOUS
  <2>2. PICK x : x = Tail(page.chain)
    OBVIOUS
  <2>3. PICK y : y = page.pending \ {n}
    OBVIOUS
  <2>4. PICK z : z = Without(page.moves, n)
    OBVIOUS
  <2>5. PICK c : c = [page EXCEPT !.chain = x, !.pending = y, !.moves = z]
    OBVIOUS
  <2>6. page' = Reconcile(Forget(c, n), FALSE)
    BY <1>1, <1>4, <2>1, <2>2, <2>3, <2>4, <2>5 DEF PostFails, IsPage, Fields
  <2>7. Keeps(page, c) /\ IsPage(c)
    BY <1>1, <2>5 DEF IsPage, Fields, Keeps
  <2>8. PICK d : d = Forget(c, n)
    OBVIOUS
  <2>9. Keeps(c, d) /\ IsPage(d)
    BY <2>7, <2>8, SmallStepsKeep DEF Keeps
  <2>10. Keeps(d, Reconcile(d, FALSE))
    BY <2>9, CallsKeep
  <2>11. Ordered(c) /\ Ordered(d) /\ Ordered(Reconcile(d, FALSE))
    BY <2>7, <2>9, <2>10, KeptOrdered DEF IInv
  <2> QED BY <2>6, <2>8, <2>11 DEF IInv
<1> QED BY <1>2, <1>3, <1>4 DEF Posting

LEMMA StreamOrdered == ASSUME IInv, Stream PROVE IInv'
<1>1. IsPage(page)
  BY DEF IInv, Ordered
<1>2. CASE Open
  <2>1. page' = Reconcile(page, TRUE)
    BY <1>2 DEF Open
  <2>2. Keeps(page, Reconcile(page, TRUE))
    BY <1>1, CallsKeep
  <2> QED BY <2>1, <2>2, KeptHolds
<1>3. CASE Bootstrap
  <2>1. page' = MoveSnapshot(page, stored)
    BY <1>3 DEF Bootstrap
  <2>2. Keeps(page, MoveSnapshot(page, stored))
    BY <1>1, RoutesKeep
  <2> QED BY <2>1, <2>2, KeptHolds
<1>4. CASE Deliver
  <2>1. PICK e : e = Head(wire)
    OBVIOUS
  <2>2. page' = Heard(page, e)
    BY <1>4, <2>1 DEF Deliver
  <2> QED BY <2>2, HeardOrdered DEF IInv
<1>5. CASE OtherUnit
  BY <1>5, RevisedOrdered DEF OtherUnit, IInv
<1> QED BY <1>2, <1>3, <1>4, <1>5 DEF Stream

LEMMA CallingOrdered == ASSUME IInv, Calling PROVE IInv'
<1>1. IsPage(page)
  BY DEF IInv, Ordered
<1>2. ASSUME NEW x PROVE Keeps(page, [page EXCEPT !.calls = x])
  BY <1>1 DEF IsPage, Fields, Keeps
<1>3. PICK c \in page.calls : Answer(c) \/ TakeAnswer(c) \/ CallFails(c)
  BY DEF Calling
<1>4. ASSUME NEW x, page' = [page EXCEPT !.calls = x] PROVE IInv'
  BY <1>2, <1>4, KeptHolds
<1>5. CASE Answer(c)
  <2>1. PICK x : x = (page.calls \ {c}) \cup
                       {[c EXCEPT !.answered = TRUE, !.root = slot,
                                  !.last = IF slot = None THEN None ELSE last]}
    OBVIOUS
  <2>2. page' = [page EXCEPT !.calls = x]
    BY <1>1, <1>5, <2>1 DEF Answer, IsPage, Fields
  <2> QED BY <1>4, <2>2
<1>6. CASE TakeAnswer(c)
  <2>1. PICK x : x = page.calls \ {c}
    OBVIOUS
  <2>2. PICK b : b = [page EXCEPT !.calls = x]
    OBVIOUS
  <2>3. PICK y : y = x \cup {[c EXCEPT !.fresh = TRUE, !.retry = FALSE,
                                       !.answered = FALSE, !.root = None, !.last = None]}
    OBVIOUS
  <2>4. page' \in {b, Reconciled(b, c), [page EXCEPT !.calls = y]}
    BY <1>1, <1>6, <2>1, <2>2, <2>3 DEF TakeAnswer, IsPage, Fields
  <2>5. Ordered(b)
    BY <1>2, <2>2, KeptOrdered DEF IInv
  <2>6. Ordered(Reconciled(b, c))
    BY <2>5, ReconciledOrdered
  <2>7. CASE page' = [page EXCEPT !.calls = y]
    BY <1>4, <2>7
  <2> QED BY <2>4, <2>5, <2>6, <2>7 DEF IInv
<1>7. CASE CallFails(c)
  <2>1. PICK x : x = page.calls \ {c}
    OBVIOUS
  <2>2. page' = [page EXCEPT !.calls = x]
    BY <1>1, <1>7, <2>1 DEF CallFails, IsPage, Fields
  <2> QED BY <1>4, <2>2
<1> QED BY <1>3, <1>5, <1>6, <1>7

(* The engine changes nothing of the page.                                    *)
LEMMA EngineLeavesPage == ASSUME Engine \/ Drop PROVE page' = page
BY DEF Engine, Drop, Refuse, EditRoute, Start, End, PublishDelta, Snapshot

THEOREM NextOrdered == ASSUME IInv, [Next]_vars PROVE IInv'
<1>1. CASE Player
  BY <1>1, OrderMoveOrdered, QueueWorkOrdered, OrderWorkOrdered, PlannedOrdered DEF Player
<1>2. CASE page' = page
  BY <1>2 DEF IInv
<1> QED BY <1>1, <1>2, PostingOrdered, StreamOrdered, CallingOrdered, EngineLeavesPage, ReloadOrdered
        DEF Next, vars

(* Follow-ups are submitted in the order in which the player queued them,     *)
(* whatever is heard, lost, reloaded or refused in between: the tokens that   *)
(* StartNext takes from the head of the queue only grow.                      *)
THEOREM FollowUpsKeepOrder == Spec => []FollowUpsInOrder
<1>1. IInv => FollowUpsInOrder
  <2> SUFFICES ASSUME IInv, NEW m \in DOMAIN page.orders, NEW n \in DOMAIN page.orders, m < n,
                      User \notin {page.orders[m].from, page.orders[n].from}
               PROVE  Sent(m) < Sent(n)
    BY DEF FollowUpsInOrder
  <2>1. OrderToken(page, m) # 0 /\ OrderToken(page, n) # 0
    BY DEF IInv, Ordered, Numbered, IsOrigin, OrderToken
  <2> QED BY <2>1 DEF IInv, Ordered, SentInOrder, OrderToken, Sent
<1> QED BY <1>1, InitOrdered, NextOrdered, PTL DEF Spec

-----------------------------------------------------------------------------
(* A follow-up waits. Every command the page has given is, in this order,     *)
(* done with or in the slot, in the inbox, posted, or still to be posted: the *)
(* numbers of each are consecutive. t is the last one taken up, s the one in  *)
(* the slot. While requests only get lost with the stream, the page still     *)
(* awaits all commands after t, and so never asks for one that may follow.    *)
Lead(b) == Len(b.orders) - Len(b.chain)
Posted  == Lead(page) + (IF posted THEN 1 ELSE 0)
Taken   == Posted - Len(inbox)

(* What was taken up and is not worked on any longer; what may be sent.       *)
Over(n, t, s) == n \in 1..t /\ n # s
Free(f, t, s) == f.behind = None \/ Over(f.behind, t, s)

(* A route the engine had or has.                                             *)
GoodRoute(r, t) == r.root # None => r.root \in 1..t /\ r.last \in 1..t

(* A call with all its fields; the route it was answered with.                *)
IsCall(c) == c = [f \in {"opening", "fresh", "retry", "answered", "root", "last"} |-> c[f]]

InChain(b) ==
  /\ IsSeq(b.chain) /\ Len(b.chain) <= Len(b.orders)
  /\ \A i \in 1..Len(b.chain) : b.chain[i] = Lead(b) + i

Ids(b) == {None} \cup DOMAIN b.orders

(* The order that is awaited is worked on as far as the page knows, or it has *)
(* heard of it, or its end is on its way.                                     *)
AfterKnown(b, t, s) ==
  b.after # None => b.active = b.after \/ b.after \notin b.pending \/ Over(b.after, t, s)

Fine(b, t, s) ==
  /\ IsPage(b) /\ InChain(b) /\ t \in 0..Len(b.orders)
  /\ b.active \in Ids(b) /\ b.after \in Ids(b)
  /\ \A n \in DOMAIN b.orders : n > t => n \in b.pending
  /\ AfterKnown(b, t, s)
  /\ \A i \in DOMAIN b.plans : Free(b.plans[i].from, t, s)
  /\ \A c \in b.calls : IsCall(c) /\ (c.answered => GoodRoute(c, t))

(* An answer that is still used names what is in the slot, unless the page    *)
(* has yet to hear of that.                                                   *)
Heeded(b, s) == \A c \in b.calls : c.fresh /\ c.answered => s \in {None, c.root} \cup b.pending

(* What a method may do to the page: it gives orders only that may be sent.   *)
Sends(b, c, t, s) ==
  /\ Fine(c, t, s) /\ Lead(c) = Lead(b)
  /\ \A n \in DOMAIN b.orders : n \in DOMAIN c.orders /\ c.orders[n] = b.orders[n]
  /\ \A n \in DOMAIN c.orders \ DOMAIN b.orders : Free(c.orders[n].from, t, s)

(* What is heard settles: it changes the order the page works on, and what it *)
(* has still to hear of.                                                      *)
Settles(b, c, t, s) ==
  /\ IsPage(c) /\ c.orders = b.orders /\ c.chain = b.chain /\ c.plans = b.plans
  /\ c.tokens = b.tokens /\ c.queued = b.queued /\ c.after = b.after /\ c.calls = b.calls
  /\ c.active \in Ids(b)
  /\ c.pending \subseteq b.pending
  /\ \A n \in b.pending \cap DOMAIN b.orders : n > t => n \in c.pending
  /\ b.active \notin {None, c.active} => b.active \notin c.pending \/ Over(b.active, t, s)

LEMMA SettlesFine ==
  ASSUME NEW t, NEW s, NEW b, NEW c, Fine(b, t, s), Settles(b, c, t, s)
  PROVE  Fine(c, t, s) /\ Sends(b, c, t, s)
<1>1. InChain(c)
  BY DEF Fine, Settles, InChain, Lead
<1>2. AfterKnown(c, t, s)
  BY DEF Fine, Settles, AfterKnown
<1>3. \A n \in DOMAIN c.orders : n > t => n \in c.pending
  BY DEF Fine, Settles
<1>4. Fine(c, t, s)
  BY <1>1, <1>2, <1>3 DEF Fine, Settles, Ids
<1> QED BY <1>4 DEF Settles, Sends, Lead

LEMMA SettlesOn ==
  ASSUME NEW t, NEW s, NEW b, NEW c, NEW d, Settles(b, c, t, s), Settles(c, d, t, s)
  PROVE  Settles(b, d, t, s)
BY DEF Settles, Ids

LEMMA SettlesAll == ASSUME NEW t, NEW s, NEW b, Fine(b, t, s) PROVE Settles(b, b, t, s)
BY DEF Fine, Settles

LEMMA SendsOn ==
  ASSUME NEW t, NEW s, NEW b, NEW c, NEW d, Sends(b, c, t, s), Sends(c, d, t, s)
  PROVE  Sends(b, d, t, s)
BY DEF Sends

(* The order worked on may be another when the end of the last was heard.     *)
Leaves(b, x, t, s) == b.active \in {None, x} \/ b.active \notin b.pending \/ Over(b.active, t, s)

LEMMA ActiveSettles ==
  ASSUME NEW t, NEW s, NEW b, Fine(b, t, s), NEW x \in Ids(b), Leaves(b, x, t, s), NEW y
  PROVE  /\ Settles(b, [b EXCEPT !.active = x], t, s)
         /\ Settles(b, [b EXCEPT !.active = x, !.moves = y], t, s)
BY DEF Fine, Settles, Leaves, IsPage, Fields

LEMMA PreviewsSettle ==
  ASSUME NEW t, NEW s, NEW b, Fine(b, t, s), NEW x PROVE Settles(b, [b EXCEPT !.moves = x], t, s)
BY DEF Fine, Settles, IsPage, Fields

LEMMA MovesSettle ==
  ASSUME NEW t, NEW s, NEW b, Fine(b, t, s), NEW x, NEW y, \A n \in y : n \notin Nat \/ n <= t
  PROVE  /\ Settles(b, [b EXCEPT !.pending = b.pending \ y], t, s)
         /\ Settles(b, [b EXCEPT !.moves = x, !.pending = b.pending \ y], t, s)
<1>1. DOMAIN b.orders \subseteq Nat /\ t \in Nat
  BY DEF Fine, IsPage, IsSeq
<1>2. \A n \in DOMAIN b.orders : n > t => n \notin y
  BY <1>1
<1>3. ASSUME NEW p, p = b.pending \ y
      PROVE  /\ Settles(b, [b EXCEPT !.pending = p], t, s)
             /\ Settles(b, [b EXCEPT !.moves = x, !.pending = p], t, s)
  <2>1. p \subseteq b.pending /\ \A n \in b.pending \cap DOMAIN b.orders : n > t => n \in p
    BY <1>2, <1>3
  <2>2. b.active \in Ids(b) /\ IsPage(b)
    BY DEF Fine
  <2> QED BY <2>1, <2>2 DEF Settles, IsPage, Fields
<1>4. PICK p : p = b.pending \ y
  OBVIOUS
<1> QED BY <1>3, <1>4

LEMMA ClearSettles ==
  ASSUME NEW t, NEW s, NEW b, Fine(b, t, s), Leaves(b, None, t, s)
  PROVE  Settles(b, Clear(b), t, s) /\ Clear(b).active = None
<1>1. PICK x : x = Unsettled(b.moves, b.active)
  OBVIOUS
<1>2. IsPage(b) /\ None \in Ids(b)
  BY DEF Fine, Ids
<1>3. Clear(b) = [b EXCEPT !.active = None, !.moves = x]
  BY <1>1, <1>2 DEF Clear, IsPage, Fields
<1>4. Clear(b).active = None
  BY <1>2, <1>3 DEF IsPage, Fields
<1>5. Settles(b, [b EXCEPT !.active = None, !.moves = x], t, s)
  BY <1>2, ActiveSettles
<1> QED BY <1>3, <1>4, <1>5

LEMMA RetireSettles ==
  ASSUME NEW t, NEW s, NEW b, Fine(b, t, s), NEW n \in 1..t
  PROVE  Settles(b, Retire(b, n), t, s) /\ Retire(b, n).active = b.active
<1>1. PICK x : x = {m \in b.moves : m.cmd > n}
  OBVIOUS
<1>2. PICK y : y = {m.cmd : m \in {z \in b.moves : z.cmd <= n}}
  OBVIOUS
<1>3. IsPage(b) /\ t \in Nat
  BY DEF Fine, IsPage, IsSeq
<1>4. \A k \in y : k <= n
  BY <1>2
<1>5. \A k \in y : k \notin Nat \/ k <= t
  BY <1>3, <1>4
<1>6. Retire(b, n) \in {b, [b EXCEPT !.moves = x, !.pending = b.pending \ y]}
  BY <1>1, <1>2, <1>3 DEF Retire, IsPage, Fields
<1>7. [b EXCEPT !.moves = x, !.pending = b.pending \ y].active = b.active
  BY <1>3 DEF IsPage, Fields
<1>8. Settles(b, [b EXCEPT !.moves = x, !.pending = b.pending \ y], t, s)
  BY <1>5, MovesSettle
<1>9. Settles(b, b, t, s)
  BY SettlesAll
<1> QED BY <1>6, <1>7, <1>8, <1>9

(* After a revision no answer is used that was asked for before.              *)
LEMMA RevisedSends ==
  ASSUME NEW t, NEW s, NEW b, Fine(b, t, s)
  PROVE  Sends(b, Revise(b), t, s) /\ Heeded(Revise(b), s)
<1>1. PICK calls : calls = {[c EXCEPT !.fresh = FALSE] : c \in b.calls}
  OBVIOUS
<1>2. PICK d : d = [b EXCEPT !.calls = calls]
  OBVIOUS
<1>3. Revise(b) = d
  BY <1>1, <1>2 DEF Revise, Fine, IsPage, Fields
<1>4. \A c \in calls : IsCall(c) /\ ~c.fresh /\ (c.answered => GoodRoute(c, t))
  <2> SUFFICES ASSUME NEW z \in b.calls, NEW c, c = [z EXCEPT !.fresh = FALSE]
               PROVE  IsCall(c) /\ ~c.fresh /\ (c.answered => GoodRoute(c, t))
    BY <1>1
  <2>1. IsCall(z) /\ (z.answered => GoodRoute(z, t))
    BY DEF Fine
  <2>2. IsCall(c) /\ c.fresh = FALSE /\ c.answered = z.answered /\ c.root = z.root /\ c.last = z.last
    BY <2>1 DEF IsCall
  <2> QED BY <2>1, <2>2 DEF GoodRoute
<1>5. /\ IsPage(d) /\ d.orders = b.orders /\ d.chain = b.chain /\ d.plans = b.plans
      /\ d.active = b.active /\ d.after = b.after /\ d.pending = b.pending /\ d.calls = calls
  BY <1>2 DEF Fine, IsPage, Fields
<1>6. Fine(d, t, s)
  BY <1>4, <1>5 DEF Fine, InChain, Lead, Ids, AfterKnown
<1>7. Sends(b, d, t, s)
  BY <1>5, <1>6 DEF Sends, Lead
<1> QED BY <1>3, <1>4, <1>5, <1>7 DEF Heeded

(* A call is answered later.                                                  *)
LEMMA AskedSends ==
  ASSUME NEW t, NEW s, NEW b, Fine(b, t, s), NEW opening
  PROVE  /\ Sends(b, Reconcile(b, opening), t, s)
         /\ Heeded(b, s) => Heeded(Reconcile(b, opening), s)
<1>1. PICK c : c = [opening |-> opening, fresh |-> TRUE, retry |-> TRUE,
                    answered |-> FALSE, root |-> None, last |-> None]
  OBVIOUS
<1>2. PICK calls : calls = b.calls \cup {c}
  OBVIOUS
<1>3. PICK d : d = [b EXCEPT !.calls = calls]
  OBVIOUS
<1>4. Reconcile(b, opening) = d
  BY <1>1, <1>2, <1>3 DEF Reconcile, Fine, IsPage, Fields
<1>5. IsCall(c) /\ c.answered = FALSE
  BY <1>1 DEF IsCall
<1>6. /\ IsPage(d) /\ d.orders = b.orders /\ d.chain = b.chain /\ d.plans = b.plans
      /\ d.active = b.active /\ d.after = b.after /\ d.pending = b.pending /\ d.calls = calls
  BY <1>3 DEF Fine, IsPage, Fields
<1>7. \A z \in calls : IsCall(z) /\ (z.answered => GoodRoute(z, t))
  BY <1>2, <1>5 DEF Fine
<1>8. Fine(d, t, s)
  BY <1>6, <1>7 DEF Fine, InChain, Lead, Ids, AfterKnown
<1>9. Sends(b, d, t, s)
  BY <1>6, <1>8 DEF Sends, Lead
<1>10. Heeded(b, s) => Heeded(d, s)
  BY <1>2, <1>5, <1>6 DEF Heeded
<1> QED BY <1>4, <1>9, <1>10

(* The queue waits for another order, that is worked on, or for none.         *)
LEMMA AfterSends ==
  ASSUME NEW t, NEW s, NEW b, Fine(b, t, s), NEW q, IsSeq(q), NEW x \in {None, b.after, b.active}, NEW y
  PROVE  /\ Sends(b, [b EXCEPT !.queued = q, !.after = x], t, s)
         /\ Sends(b, [b EXCEPT !.queued = q, !.after = x, !.tokens = y], t, s)
         /\ Sends(b, [b EXCEPT !.after = x], t, s)
         /\ Sends(b, [b EXCEPT !.queued = q], t, s)
<1> SUFFICES ASSUME NEW c,
               c \in {[b EXCEPT !.queued = q, !.after = x], [b EXCEPT !.queued = q, !.after = x, !.tokens = y],
                      [b EXCEPT !.after = x], [b EXCEPT !.queued = q]}
             PROVE  Sends(b, c, t, s)
  OBVIOUS
<1>1. /\ IsPage(c) /\ c.orders = b.orders /\ c.chain = b.chain /\ c.plans = b.plans
      /\ c.active = b.active /\ c.after \in {None, b.after, b.active}
      /\ c.pending = b.pending /\ c.calls = b.calls
  BY DEF Fine, IsPage, Fields
<1>2. Fine(c, t, s)
  <2>1. AfterKnown(c, t, s)
    BY <1>1 DEF Fine, AfterKnown
  <2>2. c.active \in Ids(c) /\ c.after \in Ids(c)
    BY <1>1 DEF Fine, Ids
  <2> QED BY <1>1, <2>1, <2>2 DEF Fine, InChain, Lead
<1> QED BY <1>1, <1>2 DEF Sends, Lead

LEMMA ForgetSends ==
  ASSUME NEW t, NEW s, NEW b, Fine(b, t, s), NEW n
  PROVE  /\ Sends(b, Forget(b, n), t, s)
         /\ Forget(b, n).active = b.active /\ Forget(b, n).pending = b.pending
<1>1. PICK q : q = IF b.after = n THEN <<>> ELSE b.queued
  OBVIOUS
<1>2. PICK x : x = IF b.after = n THEN None ELSE b.after
  OBVIOUS
<1>3. Forget(b, n) = [b EXCEPT !.queued = q, !.after = x]
  BY <1>1, <1>2 DEF Forget, Fine, IsPage, Fields
<1>4. IsSeq(q) /\ x \in {None, b.after, b.active}
  BY <1>1, <1>2, EmptyIs DEF Fine, IsPage
<1>5. Sends(b, [b EXCEPT !.queued = q, !.after = x], t, s)
  BY <1>4, AfterSends
<1>6. /\ [b EXCEPT !.queued = q, !.after = x].active = b.active
      /\ [b EXCEPT !.queued = q, !.after = x].pending = b.pending
  BY DEF Fine, IsPage, Fields
<1> QED BY <1>3, <1>5, <1>6

(* A plan is dropped, or made for an order that may be sent.                  *)
LEMMA PlansSend ==
  ASSUME NEW t, NEW s, NEW b, Fine(b, t, s), NEW q, IsSeq(q), \A i \in DOMAIN q : Free(q[i].from, t, s), NEW x
  PROVE  Sends(b, [b EXCEPT !.plans = q, !.routed = x], t, s) /\ Sends(b, [b EXCEPT !.plans = q], t, s)
<1> SUFFICES ASSUME NEW c, c \in {[b EXCEPT !.plans = q, !.routed = x], [b EXCEPT !.plans = q]}
             PROVE  Sends(b, c, t, s)
  OBVIOUS
<1>1. /\ IsPage(c) /\ c.orders = b.orders /\ c.chain = b.chain /\ c.plans = q
      /\ c.active = b.active /\ c.after = b.after /\ c.pending = b.pending /\ c.calls = b.calls
  BY DEF Fine, IsPage, Fields
<1>2. Fine(c, t, s)
  BY <1>1 DEF Fine, InChain, Lead, Ids, AfterKnown
<1> QED BY <1>1, <1>2 DEF Sends, Lead

-----------------------------------------------------------------------------
(* Orders that are given.                                                     *)

(* A command gets the next number, at the end of the chain, and is awaited.   *)
LEMMA SubmitSends ==
  ASSUME NEW t, NEW s, NEW b, Fine(b, t, s), NEW d, IsPage(d),
         d.orders = b.orders, d.chain = b.chain, d.plans = b.plans, d.calls = b.calls,
         d.pending = b.pending,
         \/ d.active = b.active /\ d.after = b.after
         \/ d.active \in {b.active, NextSeq(b)} /\ d.after = None,
         NEW k, NEW p, NEW from, Free(from, t, s)
  PROVE  LET c == Submit(d, k, p, from) IN
         Sends(b, c, t, s) /\ Heeded(c, s) /\ c.active = d.active /\ c.after = d.after
<1>1. PICK o : o = [kind |-> k, policy |-> p, from |-> from]
  OBVIOUS
<1>2. PICK n \in Nat : n = NextSeq(b) /\ n = Len(b.orders) + 1
  <2>1. Len(b.orders) \in Nat
    BY DEF Fine, IsPage, IsSeq
  <2>2. Len(b.orders) + 1 \in Nat
    BY <2>1
  <2> QED BY <2>2 DEF NextSeq
<1>3. PICK c0 : c0 = IF k = "move" THEN d ELSE CancelPlans(d)
  OBVIOUS
<1>4. PICK orders : orders = Append(b.orders, o)
  OBVIOUS
<1>5. PICK chain : chain = Append(b.chain, n)
  OBVIOUS
<1>6. PICK pending : pending = b.pending \cup {n}
  OBVIOUS
<1>7. PICK e : e = [c0 EXCEPT !.orders = orders, !.pending = pending, !.chain = chain]
  OBVIOUS
<1>8. /\ IsPage(c0) /\ c0.orders = b.orders /\ c0.chain = b.chain /\ c0.calls = b.calls
      /\ c0.pending = b.pending /\ c0.active = d.active /\ c0.after = d.after
      /\ c0.plans \in {b.plans, <<>>}
  BY <1>3, EmptyIs DEF CancelPlans, IsPage, Fields
<1>9. NextSeq(d) = n
  BY <1>2 DEF NextSeq
<1>10. Submit(d, k, p, from) = Revise(e)
  BY <1>1, <1>3, <1>4, <1>5, <1>6, <1>7, <1>8, <1>9 DEF Submit, IsPage, Fields
<1>11. /\ IsSeq(orders) /\ Len(b.orders) \in Nat /\ DOMAIN b.orders = 1..Len(b.orders)
       /\ DOMAIN orders = 1..n /\ Len(orders) = n /\ orders[n] = o
       /\ \A i \in DOMAIN b.orders : orders[i] = b.orders[i]
  <2>1. IsSeq(b.orders)
    BY DEF Fine, IsPage
  <2>2. Len(orders) \in Nat /\ DOMAIN orders = 1..Len(orders)
    BY <2>1, <1>4, AppendIs DEF IsSeq
  <2> QED BY <2>1, <2>2, <1>2, <1>4, AppendIs
<1>12. /\ IsSeq(chain) /\ Len(b.chain) \in Nat /\ Len(chain) = Len(b.chain) + 1
       /\ chain[Len(b.chain) + 1] = n
       /\ \A i \in 1..Len(b.chain) : chain[i] = b.chain[i]
  <2>1. IsSeq(b.chain)
    BY DEF Fine, InChain
  <2>2. Len(chain) \in Nat /\ DOMAIN chain = 1..Len(chain)
    BY <2>1, <1>5, AppendIs DEF IsSeq
  <2> QED BY <2>1, <2>2, <1>5, AppendIs
<1>13. /\ IsPage(e) /\ e.orders = orders /\ e.chain = chain /\ e.pending = pending /\ e.calls = b.calls
       /\ e.active = d.active /\ e.after = d.after /\ e.plans \in {b.plans, <<>>}
  BY <1>7, <1>8, <1>11 DEF IsPage, Fields
<1>14. InChain(e) /\ Lead(e) = Lead(b)
  <2>1. Len(b.chain) <= Len(b.orders) /\ \A i \in 1..Len(b.chain) : b.chain[i] = Lead(b) + i
    BY DEF Fine, InChain
  <2>2. Lead(e) = Lead(b) /\ Lead(b) + (Len(b.chain) + 1) = n
    <3>1. ASSUME NEW i \in Nat, NEW j \in Nat PROVE (i + 1) - (j + 1) = i - j /\ (i - j) + (j + 1) = i + 1
      OBVIOUS
    <3>2. Lead(e) = n - (Len(b.chain) + 1)
      BY <1>11, <1>12, <1>13 DEF Lead
    <3> QED BY <3>1, <3>2, <1>2, <1>11, <1>12 DEF Lead
  <2>3. ASSUME NEW i \in 1..Len(chain) PROVE chain[i] = Lead(b) + i
    <3>1. CASE i = Len(b.chain) + 1
      BY <3>1, <2>2, <1>12
    <3>2. CASE i # Len(b.chain) + 1
      <4>1. i \in 1..Len(b.chain)
        BY <3>2, <1>12
      <4> QED BY <4>1, <2>1, <1>12
    <3> QED BY <3>1, <3>2
  <2>4. Len(chain) <= Len(orders)
    BY <2>1, <1>2, <1>11, <1>12
  <2> QED BY <2>2, <2>3, <2>4, <1>12, <1>13 DEF InChain
<1>15. DOMAIN e.orders = DOMAIN b.orders \cup {n} /\ n \notin DOMAIN b.orders
  BY <1>2, <1>11, <1>13
<1>16. AfterKnown(e, t, s)
  <2>1. b.after # n /\ b.after \in Ids(b)
    BY <1>2, <1>15, OrderQueueAssumption DEF Fine, Ids
  <2> QED BY <2>1, <1>2, <1>6, <1>13 DEF AfterKnown, Fine
<1>17. e.active \in Ids(e) /\ e.after \in Ids(e)
  BY <1>2, <1>13, <1>15 DEF Ids, Fine
<1>18. t \in 0..Len(e.orders) /\ \A i \in DOMAIN e.orders : i > t => i \in e.pending
  BY <1>2, <1>6, <1>11, <1>13, <1>15 DEF Fine
<1>19. \A i \in DOMAIN e.plans : Free(e.plans[i].from, t, s)
  BY <1>13, EmptyIs DEF Fine
<1>20. Fine(e, t, s)
  BY <1>13, <1>14, <1>16, <1>17, <1>18, <1>19 DEF Fine
<1>21. Sends(b, e, t, s)
  <2>1. e.orders[n].from = from
    BY <1>1, <1>11, <1>13
  <2> QED BY <2>1, <1>11, <1>13, <1>14, <1>15, <1>20 DEF Sends
<1>22. Sends(e, Revise(e), t, s) /\ Heeded(Revise(e), s)
  BY <1>20, RevisedSends
<1>23. Revise(e).active = e.active /\ Revise(e).after = e.after
  BY <1>13 DEF Revise, IsPage, Fields
<1> QED BY <1>10, <1>13, <1>21, <1>22, <1>23, SendsOn

LEMMA ReplaceSends ==
  ASSUME NEW t, NEW s, NEW b, Fine(b, t, s), NEW from, Free(from, t, s)
  PROVE  Sends(b, Replace(b, from), t, s) /\ Heeded(Replace(b, from), s)
<1>1. PICK x : x = NextSeq(b)
  OBVIOUS
<1>2. PICK d : d = [b EXCEPT !.moves = {}, !.queued = <<>>, !.after = None, !.active = x]
  OBVIOUS
<1>3. Replace(b, from) = Submit(d, "work", "replace", from)
  BY <1>1, <1>2 DEF Replace
<1>4. /\ IsPage(d) /\ d.orders = b.orders /\ d.chain = b.chain /\ d.plans = b.plans /\ d.calls = b.calls
      /\ d.pending = b.pending /\ d.active = x /\ d.after = None
  BY <1>2, EmptyIs DEF Fine, IsPage, Fields
<1> QED BY <1>1, <1>3, <1>4, SubmitSends

LEMMA DeferSends ==
  ASSUME NEW t, NEW s, NEW b, Fine(b, t, s), NEW k, NEW clear \in BOOLEAN
  PROVE  /\ Sends(b, DeferOrder(b, k, clear), t, s)
         /\ Heeded(b, s) => Heeded(DeferOrder(b, k, clear), s)
<1>1. PICK q : q = Append(IF clear THEN <<>> ELSE b.queued, [kind |-> k, token |-> b.tokens + 1])
  OBVIOUS
<1>2. PICK y : y = b.tokens + 1
  OBVIOUS
<1>3. PICK x : x = IF b.after = None THEN b.active ELSE b.after
  OBVIOUS
<1>4. PICK c : c = [b EXCEPT !.queued = q, !.after = x, !.tokens = y]
  OBVIOUS
<1>5. DeferOrder(b, k, clear) = c
  BY <1>1, <1>2, <1>3, <1>4 DEF DeferOrder, Fine, IsPage, Fields
<1>6. IsSeq(q) /\ x \in {None, b.after, b.active}
  BY <1>1, <1>3, EmptyIs, AppendIs DEF Fine, IsPage
<1>7. Sends(b, c, t, s)
  BY <1>4, <1>6, AfterSends
<1>8. c.calls = b.calls /\ c.pending = b.pending
  BY <1>4 DEF Fine, IsPage, Fields
<1> QED BY <1>5, <1>7, <1>8 DEF Heeded

LEMMA PlannedMoveSends ==
  ASSUME NEW t, NEW s, NEW b, Fine(b, t, s), NEW p, NEW from, Free(from, t, s)
  PROVE  /\ Sends(b, PlannedMove(b, p, from), t, s)
         /\ Heeded(b, s) => Heeded(PlannedMove(b, p, from), s)
<1>1. CASE DefersMove(b, p)
  <2>1. (p = "clear") \in BOOLEAN
    OBVIOUS
  <2> QED BY <2>1, <1>1, DeferSends DEF PlannedMove
<1>2. CASE ~DefersMove(b, p)
  <2>1. PICK x : x = NextSeq(b)
    OBVIOUS
  <2>2. PICK moves : moves = {[cmd |-> x, finished |-> FALSE]}
    OBVIOUS
  <2>3. PICK longer : longer = b.moves \cup {[cmd |-> x, finished |-> FALSE]}
    OBVIOUS
  <2>4. PICK d : d = IF p = "replace"
                       THEN [b EXCEPT !.queued = <<>>, !.after = None, !.active = x, !.moves = moves]
                       ELSE [b EXCEPT !.moves = longer]
    OBVIOUS
  <2>5. PlannedMove(b, p, from) = Submit(d, "move", p, from)
    BY <1>2, <2>1, <2>2, <2>3, <2>4 DEF PlannedMove, Fine, IsPage, Fields
  <2>6. /\ IsPage(d) /\ d.orders = b.orders /\ d.chain = b.chain /\ d.plans = b.plans
        /\ d.calls = b.calls /\ d.pending = b.pending
        /\ \/ d.active = b.active /\ d.after = b.after
           \/ d.active = x /\ d.after = None
    BY <2>4, EmptyIs DEF Fine, IsPage, Fields
  <2> QED BY <2>1, <2>5, <2>6, SubmitSends
<1> QED BY <1>1, <1>2

LEMMA MoveCommandSends ==
  ASSUME NEW t, NEW s, NEW b, Fine(b, t, s), NEW p, NEW from, Free(from, t, s)
  PROVE  /\ Sends(b, MoveCommand(b, p, from), t, s)
         /\ Heeded(b, s) => Heeded(MoveCommand(b, p, from), s)
         /\ p = "replace" => MoveCommand(b, p, from).active = b.active
<1>1. CASE DefersMove(b, p)
  <2>1. (p = "clear") \in BOOLEAN /\ p # "replace"
    BY <1>1 DEF DefersMove
  <2> QED BY <2>1, <1>1, DeferSends DEF MoveCommand
<1>2. CASE ~DefersMove(b, p)
  <2>1. PICK o : o = [policy |-> p, from |-> from]
    OBVIOUS
  <2>2. PICK q : q = Append(IF p = "replace" THEN <<>> ELSE b.plans, o)
    OBVIOUS
  <2>3. PICK x : x = IF p = "replace" THEN TRUE ELSE b.routed
    OBVIOUS
  <2>4. PICK c : c = [b EXCEPT !.plans = q, !.routed = x]
    OBVIOUS
  <2>5. MoveCommand(b, p, from) = c
    <3>1. CASE p = "replace"
      BY <1>2, <2>1, <2>2, <2>3, <2>4, <3>1 DEF MoveCommand, CancelPlans, Fine, IsPage, Fields
    <3>2. CASE p # "replace"
      BY <1>2, <2>1, <2>2, <2>3, <2>4, <3>2 DEF MoveCommand, Fine, IsPage, Fields
    <3> QED BY <3>1, <3>2
  <2>6. IsSeq(q) /\ \A i \in DOMAIN q : Free(q[i].from, t, s)
    <3>1. PICK r : r = IF p = "replace" THEN <<>> ELSE b.plans
      OBVIOUS
    <3>2. IsSeq(r) /\ \A i \in DOMAIN r : Free(r[i].from, t, s)
      BY <3>1, EmptyIs DEF Fine, IsPage
    <3>3. /\ IsSeq(q) /\ Len(r) \in Nat /\ DOMAIN r = 1..Len(r) /\ DOMAIN q = 1..(Len(r) + 1)
          /\ q[Len(r) + 1] = o /\ \A i \in DOMAIN r : q[i] = r[i]
      BY <2>2, <3>1, <3>2, AppendIs
    <3>4. \A i \in DOMAIN q : i = Len(r) + 1 \/ i \in DOMAIN r
      BY <3>3
    <3> QED BY <2>1, <3>2, <3>3, <3>4
  <2>7. Sends(b, c, t, s)
    BY <2>4, <2>6, PlansSend
  <2>8. c.calls = b.calls /\ c.pending = b.pending /\ c.active = b.active
    BY <2>4 DEF Fine, IsPage, Fields
  <2> QED BY <2>5, <2>7, <2>8 DEF Heeded
<1> QED BY <1>1, <1>2

(* A follow-up is sent when the order before it is over.                      *)
LEMMA StartNextSends ==
  ASSUME NEW t, NEW s, NEW b, Fine(b, t, s), b.active = None => b.after = None \/ Over(b.after, t, s)
  PROVE  Sends(b, StartNext(b), t, s)
<1>1. Sends(b, b, t, s)
  BY SettlesAll, SettlesFine
<1>2. CASE b.active # None
  BY <1>1, <1>2 DEF StartNext
<1>3. CASE b.active = None /\ b.queued = <<>>
  <2>1. Sends(b, [b EXCEPT !.after = None], t, s)
    BY EmptyIs, AfterSends
  <2> QED BY <1>3, <2>1 DEF StartNext
<1>4. CASE b.active = None /\ b.queued # <<>>
  <2>1. PICK from : from = [token |-> Head(b.queued).token, behind |-> b.after]
    OBVIOUS
  <2>2. PICK rest : rest = Tail(b.queued)
    OBVIOUS
  <2>3. PICK left : left = [b EXCEPT !.queued = rest]
    OBVIOUS
  <2>4. IsSeq(rest) /\ Free(from, t, s)
    BY <1>4, <2>1, <2>2, TailIs DEF Fine, IsPage, Free
  <2>5. Sends(b, left, t, s) /\ Fine(left, t, s)
    <3>1. PICK x : x = b.after
      OBVIOUS
    <3>2. x \in {None, b.after, b.active}
      BY <3>1
    <3>3. Sends(b, left, t, s)
      BY <2>3, <2>4, <3>2, AfterSends
    <3> QED BY <3>3 DEF Sends
  <2>8. PICK started : started = IF Head(b.queued).kind = "move" THEN MoveCommand(left, "replace", from)
                                                              ELSE Replace(left, from)
    OBVIOUS
  <2>9. Sends(left, started, t, s) /\ Fine(started, t, s)
    <3>1. Sends(left, MoveCommand(left, "replace", from), t, s)
      BY <2>4, <2>5, MoveCommandSends
    <3>2. Sends(left, Replace(left, from), t, s)
      BY <2>4, <2>5, ReplaceSends
    <3> QED BY <2>8, <3>1, <3>2 DEF Sends
  <2>10. PICK x : x = started.active
    OBVIOUS
  <2>11. PICK c : c = [started EXCEPT !.queued = rest, !.after = x]
    OBVIOUS
  <2>12. StartNext(b) = c
    BY <1>4, <2>1, <2>2, <2>3, <2>8, <2>10, <2>11 DEF StartNext, Fine, IsPage, Fields
  <2>13. Sends(started, c, t, s)
    BY <2>4, <2>9, <2>10, <2>11, AfterSends
  <2> QED BY <2>5, <2>9, <2>12, <2>13, SendsOn
<1> QED BY <1>2, <1>3, <1>4

-----------------------------------------------------------------------------
(* What is heard.                                                             *)

(* An event tells of a command taken up: of its end when it is not in the     *)
(* slot any longer, and that it is accepted when none before it is.           *)
Tells(e, t, s) ==
  IF e.state = "route" THEN GoodRoute(e.route, t) /\ e.gone \in {None} \cup 1..t
  ELSE /\ e.cmd \in 1..t
       /\ ~e.edit /\ e.state \in Outcomes => e.cmd # s
       /\ ~e.edit /\ e.state = "accepted" => s = None \/ e.cmd <= s

LEMMA TakenIds ==
  ASSUME NEW t, NEW s, NEW b, Fine(b, t, s)
  PROVE  /\ t \in Nat /\ \A n \in 1..t : n \in Nat /\ n \in Ids(b) /\ n # None
         /\ \A n \in Ids(b) : n # None => n \in Nat /\ n >= 1 /\ (n \in DOMAIN b.orders)
         /\ \A n \in Ids(b) : n # None /\ n \notin b.pending => n \in 1..t
<1>1. t \in Nat /\ DOMAIN b.orders = 1..Len(b.orders) /\ Len(b.orders) \in Nat /\ t <= Len(b.orders)
  BY DEF Fine, IsPage, IsSeq
<1>2. \A n \in 1..t : n \in Nat /\ n \in Ids(b) /\ n # None
  BY <1>1, OrderQueueAssumption DEF Ids
<1>3. \A n \in Ids(b) : n # None => n \in Nat /\ n >= 1 /\ n \in DOMAIN b.orders
  BY <1>1 DEF Ids
<1>4. \A n \in Ids(b) : n # None /\ n \notin b.pending => n \in 1..t
  BY <1>1, <1>3 DEF Fine
<1> QED BY <1>1, <1>2, <1>3, <1>4

LEMMA EditEventSettles ==
  ASSUME NEW t, NEW s, NEW b, Fine(b, t, s), NEW e
  PROVE  Settles(b, EditEvent(b, e), t, s)
<1>1. ASSUME NEW x PROVE Settles(b, [b EXCEPT !.moves = x], t, s)
  BY PreviewsSettle
<1>2. PICK x : x = {[m EXCEPT !.finished = @ \/ m.cmd = e.cmd] : m \in b.moves}
  OBVIOUS
<1>3. PICK y : y = Without(b.moves, e.cmd)
  OBVIOUS
<1>4. EditEvent(b, e) \in {[b EXCEPT !.moves = x], [b EXCEPT !.moves = y], b}
  BY <1>2, <1>3 DEF EditEvent, Fine, IsPage, Fields
<1> QED BY <1>1, <1>4, SettlesAll

LEMMA OrderEventSettles ==
  ASSUME NEW t, NEW s, NEW b, Fine(b, t, s), NEW e, e.state # "route", ~e.edit, Tells(e, t, s)
  PROVE  Settles(b, OrderEvent(b, e), t, s)
<1>1. PICK adopted : adopted = IF Adopts(b, e) THEN [b EXCEPT !.active = e.cmd] ELSE b
  OBVIOUS
<1>2. Settles(b, adopted, t, s)
  <2>1. CASE Adopts(b, e)
    <3>1. Leaves(b, e.cmd, t, s)
      <4>1. CASE b.active # None /\ b.active < e.cmd
        <5>1. e.cmd \in 1..t /\ (s = None \/ e.cmd <= s)
          BY <2>1 DEF Adopts, Tells
        <5>2. b.active \in Nat /\ b.active >= 1 /\ t \in Nat
          BY <4>1, TakenIds DEF Fine
        <5>3. b.active \in 1..t /\ b.active # s
          BY <4>1, <5>1, <5>2, OrderQueueAssumption
        <5> QED BY <5>3 DEF Over, Leaves
      <4>2. CASE b.active = None \/ ~(b.active < e.cmd)
        <5>1. b.active \in {None, e.cmd} \/ b.active \notin b.pending
          <6>1. CASE b.active # None /\ b.active <= e.cmd
            BY <4>2, <6>1, TakenIds DEF Fine, Tells
          <6>2. CASE ~(b.active <= e.cmd)
            BY <6>2, <2>1 DEF Adopts
          <6> QED BY <6>1, <6>2
        <5> QED BY <5>1 DEF Leaves
      <4> QED BY <4>1, <4>2
    <3>2. e.cmd \in Ids(b)
      BY TakenIds DEF Tells
    <3>3. Settles(b, [b EXCEPT !.active = e.cmd], t, s)
      BY <3>1, <3>2, ActiveSettles
    <3> QED BY <1>1, <2>1, <3>3
  <2> QED BY <1>1, <2>1, SettlesAll
<1>3. Fine(adopted, t, s)
  BY <1>2, SettlesFine
<1>4. PICK ended : ended = IF adopted.active = e.cmd /\ e.state \in Outcomes THEN Clear(adopted) ELSE adopted
  OBVIOUS
<1>5. Settles(adopted, ended, t, s)
  <2>1. CASE adopted.active = e.cmd /\ e.state \in Outcomes
    <3>1. Leaves(adopted, None, t, s)
      BY <2>1 DEF Leaves, Over, Tells, Outcomes
    <3> QED BY <1>3, <1>4, <2>1, <3>1, ClearSettles
  <2> QED BY <1>3, <1>4, <2>1, SettlesAll
<1>6. Settles(b, ended, t, s) /\ Fine(ended, t, s)
  BY <1>2, <1>3, <1>5, SettlesOn, SettlesFine
<1>7. PICK x : x = Without(ended.moves, e.cmd)
  OBVIOUS
<1>8. OrderEvent(b, e) \in {ended, [ended EXCEPT !.moves = x]}
  BY <1>1, <1>4, <1>6, <1>7 DEF OrderEvent, Fine, IsPage, Fields
<1>9. Settles(ended, [ended EXCEPT !.moves = x], t, s)
  BY <1>6, PreviewsSettle
<1> QED BY <1>6, <1>8, <1>9, SettlesOn

LEMMA LifecycleSends ==
  ASSUME NEW t, NEW s, NEW b, Fine(b, t, s), NEW e, e.state # "route", Tells(e, t, s)
  PROVE  Sends(b, Lifecycle(b, e), t, s) /\ Heeded(Lifecycle(b, e), s)
<1>1. PICK told : told = IF e.edit THEN EditEvent(b, e) ELSE OrderEvent(b, e)
  OBVIOUS
<1>2. Settles(b, told, t, s) /\ Fine(told, t, s)
  BY <1>1, EditEventSettles, OrderEventSettles, SettlesFine
<1>3. PICK x : x = told.pending \ {e.cmd}
  OBVIOUS
<1>4. PICK known : known = [told EXCEPT !.pending = x]
  OBVIOUS
<1>5. Settles(told, known, t, s)
  <2>1. \A n \in {e.cmd} : n \notin Nat \/ n <= t
    BY <1>2, TakenIds DEF Tells
  <2>2. Settles(told, [told EXCEPT !.pending = told.pending \ {e.cmd}], t, s)
    BY <1>2, <2>1, MovesSettle
  <2> QED BY <1>3, <1>4, <2>2
<1>6. Sends(b, known, t, s) /\ Fine(known, t, s)
  BY <1>2, <1>5, SettlesFine, SettlesOn
<1>7. PICK next : next = FollowOn(known, e)
  OBVIOUS
<1>8. Sends(known, next, t, s) /\ Fine(next, t, s)
  <2>1. Sends(known, known, t, s)
    BY <1>6, SettlesAll, SettlesFine
  <2>2. Sends(known, Forget(known, e.cmd), t, s)
    BY <1>6, ForgetSends
  <2>3. CASE ~e.edit /\ e.state = "finished" /\ known.after = e.cmd
    <3>1. Over(known.after, t, s)
      BY <2>3 DEF Tells, Outcomes, Over
    <3>2. Sends(known, StartNext(known), t, s)
      BY <1>6, <3>1, StartNextSends
    <3> QED BY <1>7, <2>3, <3>2 DEF FollowOn, Sends, Outcomes
  <2>4. CASE ~(~e.edit /\ e.state = "finished" /\ known.after = e.cmd)
    BY <1>7, <2>1, <2>2, <2>4 DEF FollowOn, Sends
  <2> QED BY <2>3, <2>4
<1>9. Lifecycle(b, e) \in {Revise(next), Reconcile(Revise(next), FALSE)}
  BY <1>1, <1>2, <1>3, <1>4, <1>7 DEF Lifecycle, Fine, IsPage, Fields
<1>10. Sends(next, Revise(next), t, s) /\ Fine(Revise(next), t, s) /\ Heeded(Revise(next), s)
  BY <1>8, RevisedSends DEF Sends
<1>11. /\ Sends(Revise(next), Reconcile(Revise(next), FALSE), t, s)
       /\ Heeded(Reconcile(Revise(next), FALSE), s)
  BY <1>10, AskedSends
<1>12. Sends(b, next, t, s)
  BY <1>6, <1>8, SendsOn
<1>13. Sends(b, Revise(next), t, s)
  BY <1>10, <1>12, SendsOn
<1>14. Sends(b, Reconcile(Revise(next), FALSE), t, s)
  BY <1>11, <1>13, SendsOn
<1> QED BY <1>9, <1>10, <1>11, <1>13, <1>14

LEMMA UpdatedSettles ==
  ASSUME NEW t, NEW s, NEW b, Fine(b, t, s), NEW r, GoodRoute(r, t)
  PROVE  Settles(b, Updated(b, r), t, s)
<1>1. CASE r.root = None \/ (b.active \notin {None, r.root} /\ Awaited(b))
  BY <1>1, SettlesAll DEF Updated
<1>2. CASE r.root # None /\ ~(b.active \notin {None, r.root} /\ Awaited(b))
  <2>1. PICK d : d = [b EXCEPT !.active = r.root]
    OBVIOUS
  <2>2. r.root \in 1..t /\ r.last \in 1..t
    BY <1>2 DEF GoodRoute
  <2>3. r.root \in Ids(b) /\ Leaves(b, r.root, t, s)
    BY <1>2, <2>2, TakenIds DEF Leaves, Awaited
  <2>4. Settles(b, d, t, s) /\ Fine(d, t, s)
    BY <2>1, <2>3, ActiveSettles, SettlesFine
  <2>5. Settles(d, Retire(d, r.last), t, s)
    BY <2>2, <2>4, RetireSettles
  <2>6. Updated(b, r) = Retire(d, r.last)
    BY <1>2, <2>1 DEF Updated
  <2> QED BY <2>4, <2>5, <2>6, SettlesOn
<1> QED BY <1>1, <1>2

LEMMA RemovedSettles ==
  ASSUME NEW t, NEW s, NEW b, Fine(b, t, s), NEW n \in {None} \cup 1..t
  PROVE  Settles(b, Removed(b, n), t, s)
<1>1. CASE n = None \/ b.active # n
  BY <1>1, SettlesAll DEF Removed
<1>2. CASE n # None /\ b.active = n
  <2>1. PICK x : x = Unsettled(b.moves, b.active)
    OBVIOUS
  <2>2. PICK p : p = b.pending \ {n}
    OBVIOUS
  <2>3. Removed(b, n) = [b EXCEPT !.active = None, !.moves = x, !.pending = p]
    BY <1>2, <2>1, <2>2 DEF Removed, Clear, Fine, IsPage, Fields
  <2>4. \A k \in b.pending \cap DOMAIN b.orders : k > t => k \in p
    BY <1>2, <2>2, TakenIds
  <2>5. Settles(b, [b EXCEPT !.active = None, !.moves = x, !.pending = p], t, s)
    BY <1>2, <2>2, <2>4 DEF Settles, Fine, Ids, IsPage, Fields
  <2> QED BY <2>3, <2>5
<1> QED BY <1>1, <1>2

LEMMA RoutesSend ==
  ASSUME NEW t, NEW s, NEW b, Fine(b, t, s), NEW r, GoodRoute(r, t)
  PROVE  /\ \A n \in {None} \cup 1..t :
              Sends(b, MoveDelta(b, r, n), t, s) /\ Heeded(MoveDelta(b, r, n), s)
         /\ Sends(b, MoveSnapshot(b, r), t, s) /\ Heeded(MoveSnapshot(b, r), s)
<1>1. ASSUME NEW c, Settles(b, c, t, s)
      PROVE  Sends(b, Revise(Updated(c, r)), t, s) /\ Heeded(Revise(Updated(c, r)), s)
  <2>1. Fine(c, t, s) /\ Settles(c, Updated(c, r), t, s)
    BY <1>1, SettlesFine, UpdatedSettles
  <2>2. Sends(b, Updated(c, r), t, s) /\ Fine(Updated(c, r), t, s)
    BY <1>1, <2>1, SettlesOn, SettlesFine
  <2> QED BY <2>2, RevisedSends, SendsOn
<1>2. ASSUME NEW n \in {None} \cup 1..t
      PROVE  Sends(b, MoveDelta(b, r, n), t, s) /\ Heeded(MoveDelta(b, r, n), s)
  BY <1>1, RemovedSettles DEF MoveDelta
<1>3. PICK c : c = IF r.root = None /\ IsMove(b, b.active) /\ b.active \notin b.pending THEN Clear(b) ELSE b
  OBVIOUS
<1>4. Settles(b, c, t, s)
  BY <1>3, ClearSettles, SettlesAll DEF Leaves
<1>5. MoveSnapshot(b, r) = Revise(Updated(c, r))
  BY <1>3 DEF MoveSnapshot
<1> QED BY <1>1, <1>2, <1>4, <1>5

LEMMA HeardSends ==
  ASSUME NEW t, NEW s, NEW b, Fine(b, t, s), NEW e, Tells(e, t, s)
  PROVE  Sends(b, Heard(b, e), t, s) /\ Heeded(Heard(b, e), s)
BY RoutesSend, LifecycleSends DEF Heard, Tells

LEMMA HandshakeSends ==
  ASSUME NEW t, NEW s, NEW b, Fine(b, t, s), NEW r, GoodRoute(r, t)
  PROVE  /\ Sends(b, Handshake(b, r), t, s)
         /\ Handshake(b, r).active = None =>
              r.root = None /\ Handshake(b, r).after = b.after /\ b.active \notin b.pending \ {None}
<1>1. CASE b.active # None /\ b.active \in b.pending
  BY <1>1, SettlesAll, SettlesFine DEF Handshake
<1>2. CASE ~(b.active # None /\ b.active \in b.pending) /\ r.root = None
  <2>1. Settles(b, Clear(b), t, s)
    BY <1>2, ClearSettles DEF Leaves
  <2> QED BY <1>2, <2>1, SettlesFine DEF Handshake, Settles
<1>3. CASE ~(b.active # None /\ b.active \in b.pending) /\ r.root # None
  <2>1. PICK kept : kept = IF b.after \in {None, r.root} THEN b ELSE Forget(b, b.after)
    OBVIOUS
  <2>2. Sends(b, b, t, s) /\ Sends(b, Forget(b, b.after), t, s)
    BY SettlesAll, SettlesFine, ForgetSends
  <2>3. Sends(b, kept, t, s) /\ Fine(kept, t, s) /\ kept.active = b.active /\ kept.pending = b.pending
    BY <2>1, <2>2, ForgetSends DEF Sends
  <2>4. PICK d : d = [kept EXCEPT !.active = r.root]
    OBVIOUS
  <2>5. r.root \in 1..t /\ r.last \in 1..t
    BY <1>3 DEF GoodRoute
  <2>6. r.root \in Ids(kept) /\ Leaves(kept, r.root, t, s)
    BY <1>3, <2>3, <2>5, TakenIds DEF Leaves
  <2>7. Settles(kept, d, t, s) /\ Fine(d, t, s)
    BY <2>3, <2>4, <2>6, ActiveSettles, SettlesFine
  <2>8. d.active = r.root
    BY <2>3, <2>4 DEF Fine, IsPage, Fields
  <2>9. Settles(d, Retire(d, r.last), t, s) /\ Retire(d, r.last).active = r.root
    BY <2>5, <2>7, <2>8, RetireSettles
  <2>10. Handshake(b, r) = Retire(d, r.last)
    BY <1>3, <2>1, <2>4 DEF Handshake
  <2>11. Sends(kept, Retire(d, r.last), t, s)
    BY <2>3, <2>7, <2>9, SettlesOn, SettlesFine
  <2>12. Sends(b, Retire(d, r.last), t, s)
    BY <2>3, <2>11, SendsOn
  <2> QED BY <1>3, <2>9, <2>10, <2>12
<1> QED BY <1>1, <1>2, <1>3

(* The queue that a handshake sets going waits for a command that was taken   *)
(* up, as the page has heard of it, and that the answer does not name.        *)
LEMMA ReconciledSends ==
  ASSUME NEW t, NEW s, NEW b, Fine(b, t, s), NEW r, GoodRoute(r, t), s \in {None, r.root} \cup b.pending
  PROVE  Sends(b, Reconciled(b, r), t, s) /\ Heeded(Reconciled(b, r), s)
<1>1. PICK told : told = Handshake(b, r)
  OBVIOUS
<1>2. Sends(b, told, t, s) /\ Fine(told, t, s)
  BY <1>1, HandshakeSends DEF Sends
<1>3. told.active = None => told.after = None \/ Over(told.after, t, s)
  <2> SUFFICES ASSUME told.active = None, b.after # None, ~Over(b.after, t, s) PROVE FALSE
    BY <1>1, HandshakeSends
  <2>1. r.root = None /\ b.active \notin b.pending \ {None}
    BY <1>1, HandshakeSends
  <2>2. b.after \notin b.pending
    BY <2>1 DEF Fine, AfterKnown
  <2>3. b.after \in 1..t
    BY <2>2, TakenIds DEF Fine
  <2>4. b.after # s
    BY <2>1, <2>2
  <2> QED BY <2>3, <2>4 DEF Over
<1>4. Sends(told, StartNext(told), t, s)
  BY <1>2, <1>3, StartNextSends
<1>5. PICK next : next \in {told, StartNext(told)} /\ Reconciled(b, r) = Revise(next)
  BY <1>1 DEF Reconciled
<1>6. Sends(b, next, t, s) /\ Fine(next, t, s)
  BY <1>2, <1>4, <1>5, SendsOn DEF Sends
<1> QED BY <1>5, <1>6, RevisedSends, SendsOn

-----------------------------------------------------------------------------
(* The engine and what it has told.                                           *)
AllTell(es, t, s) == IsSeq(es) /\ \A e \in ToSet(es) : Tells(e, t, s)

Commands ==
  /\ posted \in BOOLEAN /\ (posted => page.chain # <<>>)
  /\ IsSeq(inbox) /\ \A i \in 1..Len(inbox) : inbox[i] = Taken + i

Told(t, s) ==
  /\ s \in {None} \cup 1..t /\ (s # None => last \in 1..t)
  /\ GoodRoute(shown, t) /\ GoodRoute(stored, t)
  /\ AllTell(wire, t, s) /\ AllTell(gap, t, s)

Current == Fine(page, Taken, slot) /\ Heeded(page, slot) /\ Commands /\ Told(Taken, slot)

WInv == had \subseteq {"drop"} => Current

LEMMA EmptyTells == ASSUME NEW t, NEW s PROVE AllTell(<<>>, t, s)
BY EmptyIs DEF AllTell, ToSet

LEMMA TailElements ==
  ASSUME NEW es, IsSeq(es), es # <<>>
  PROVE  ToSet(Tail(es)) \subseteq ToSet(es) /\ Head(es) \in ToSet(es)
BY TailIs DEF ToSet

LEMMA ConcatElements ==
  ASSUME NEW a, NEW b, IsSeq(a), IsSeq(b)
  PROVE  IsSeq(a \o b) /\ ToSet(a \o b) \subseteq ToSet(a) \cup ToSet(b)
<1>1. PICK S : a \in Seq(S)
  BY SeqIs
<1>2. PICK T : b \in Seq(T)
  BY SeqIs
<1>3. a \in Seq(S \cup T) /\ b \in Seq(S \cup T)
  BY <1>1, <1>2
<1>4. /\ a \o b \in Seq(S \cup T) /\ Len(a \o b) = Len(a) + Len(b)
      /\ \A i \in 1..(Len(a) + Len(b)) : (a \o b)[i] = IF i <= Len(a) THEN a[i] ELSE b[i - Len(a)]
  BY <1>3, ConcatProperties
<1>5. /\ Len(a) \in Nat /\ Len(b) \in Nat /\ DOMAIN a = 1..Len(a) /\ DOMAIN b = 1..Len(b)
      /\ DOMAIN (a \o b) = 1..(Len(a) + Len(b))
  BY <1>3, <1>4, LenProperties
<1>6. ASSUME NEW i \in DOMAIN (a \o b) PROVE (a \o b)[i] \in ToSet(a) \cup ToSet(b)
  <2>1. CASE i <= Len(a)
    BY <1>4, <1>5, <1>6, <2>1 DEF ToSet
  <2>2. CASE ~(i <= Len(a))
    <3>1. i - Len(a) \in 1..Len(b)
      BY <1>5, <1>6, <2>2
    <3> QED BY <1>4, <1>5, <1>6, <2>2, <3>1 DEF ToSet
  <2> QED BY <2>1, <2>2
<1>7. IsSeq(a \o b)
  BY <1>4, IsSeqIs
<1> QED BY <1>6, <1>7 DEF ToSet

LEMMA SuffixElements ==
  ASSUME NEW es, IsSeq(es), NEW i \in DOMAIN es
  PROVE  LET c == SubSeq(es, i + 1, Len(es)) IN IsSeq(c) /\ ToSet(c) \subseteq ToSet(es)
<1>1. PICK S : es \in Seq(S)
  BY SeqIs
<1>2. Len(es) \in Nat /\ DOMAIN es = 1..Len(es)
  BY <1>1, LenProperties
<1>3. PICK c : c = SubSeq(es, i + 1, Len(es))
  OBVIOUS
<1>4. /\ c \in Seq(S) /\ Len(c) = Len(es) - i
      /\ \A k \in 1..(Len(es) - i) : c[k] = es[i + k]
  <2>1. i + 1 \in 1..(Len(es) + 1) /\ i \in 1..Len(es)
    BY <1>2
  <2>2. \A k \in 1..Len(c) : k + (i + 1) - 1 = i + k
    BY <2>1
  <2>3. Len(es) - (i + 1) + 1 = Len(es) - i
    BY <2>1, <1>2
  <2> QED BY <1>1, <1>2, <1>3, <2>1, <2>2, <2>3, SubSeqProperties
<1>5. DOMAIN c = 1..(Len(es) - i) /\ IsSeq(c)
  BY <1>4, LenProperties, IsSeqIs
<1>6. ASSUME NEW k \in DOMAIN c PROVE c[k] \in ToSet(es)
  <2>1. i + k \in DOMAIN es
    BY <1>2, <1>5, <1>6
  <2> QED BY <2>1, <1>4, <1>5, <1>6 DEF ToSet
<1> QED BY <1>3, <1>5, <1>6 DEF ToSet

LEMMA ListsElements ==
  ASSUME NEW d, NEW e
  PROVE  IsSeq(<<e>>) /\ ToSet(<<e>>) = {e} /\ IsSeq(<<d, e>>) /\ ToSet(<<d, e>>) = {d, e}
<1>1. <<e>> \in Seq({e}) /\ DOMAIN <<e>> = {1} /\ <<e>>[1] = e
  OBVIOUS
<1>2. <<d, e>> \in Seq({d, e}) /\ DOMAIN <<d, e>> = {1, 2} /\ <<d, e>>[1] = d /\ <<d, e>>[2] = e
  OBVIOUS
<1> QED BY <1>1, <1>2, IsSeqIs DEF ToSet

(* What was true of the engine is told later too.                             *)
LEMMA LaterOver ==
  ASSUME NEW t \in Nat, NEW u \in {t, t + 1}, NEW s \in {None} \cup 1..t, NEW v \in {None, s} \cup ((t + 1)..u)
  PROVE  /\ v \in {None} \cup 1..u
         /\ \A n \in 1..t : n \in 1..u /\ (n # s => n # v)
         /\ \A n \in 1..t : s = None \/ n <= s => v = None \/ n <= v
         /\ v # s => v \in {None, t + 1}
BY OrderQueueAssumption

LEMMA LaterTells ==
  ASSUME NEW t \in Nat, NEW u \in {t, t + 1}, NEW s \in {None} \cup 1..t, NEW v \in {None, s} \cup ((t + 1)..u),
         NEW es, AllTell(es, t, s)
  PROVE  AllTell(es, u, v)
<1>1. \A n \in 1..t : n \in 1..u
  BY LaterOver
<1>2. ASSUME NEW e \in ToSet(es) PROVE Tells(e, u, v)
  <2>1. Tells(e, t, s)
    BY DEF AllTell
  <2>2. CASE e.state = "route"
    BY <1>1, <2>1, <2>2 DEF Tells, GoodRoute
  <2>3. CASE e.state # "route"
    BY <2>1, <2>3, LaterOver DEF Tells
  <2> QED BY <2>1, <2>2, <2>3
<1> QED BY <1>2 DEF AllTell

LEMMA LaterFine ==
  ASSUME NEW b, NEW t \in Nat, NEW u \in {t, t + 1}, NEW s \in {None} \cup 1..t, NEW v \in {None, s} \cup ((t + 1)..u),
         Fine(b, t, s), Heeded(b, s), u <= Len(b.orders)
  PROVE  Fine(b, u, v) /\ Heeded(b, v)
<1>1. \A n \in 1..t : n \in 1..u /\ (n # s => n # v)
  BY LaterOver
<1>2. \A n : Over(n, t, s) => Over(n, u, v)
  BY <1>1 DEF Over
<1>3. \A c \in b.calls : IsCall(c) /\ (c.answered => GoodRoute(c, u))
  BY <1>1 DEF Fine, GoodRoute
<1>4. AfterKnown(b, u, v) /\ \A i \in DOMAIN b.plans : Free(b.plans[i].from, u, v)
  BY <1>2 DEF Fine, AfterKnown, Free
<1>5. Len(b.orders) \in Nat /\ DOMAIN b.orders = 1..Len(b.orders)
  BY DEF Fine, IsPage, IsSeq
<1>6. u \in 0..Len(b.orders) /\ \A n \in DOMAIN b.orders : n > u => n \in b.pending
  BY <1>5 DEF Fine
<1>7. Fine(b, u, v)
  BY <1>3, <1>4, <1>6 DEF Fine
<1>8. Heeded(b, v)
  <2>1. v \in {None, s} \/ v \in b.pending
    <3>1. CASE v \notin {None, s}
      <4>1. v = t + 1 /\ v \in DOMAIN b.orders /\ v > t
        BY <3>1, <1>5
      <4> QED BY <4>1 DEF Fine
    <3> QED BY <3>1
  <2> QED BY <2>1 DEF Heeded
<1> QED BY <1>7, <1>8

-----------------------------------------------------------------------------
(* The actions.                                                               *)

LEMMA TakenIs ==
  ASSUME Current
  PROVE  /\ Taken \in Nat /\ Posted \in Nat /\ Len(inbox) \in Nat /\ Len(page.orders) \in Nat
         /\ Taken = Posted - Len(inbox) /\ Taken <= Posted /\ Posted <= Len(page.orders)
         /\ Len(page.chain) \in Nat /\ Lead(page) = Len(page.orders) - Len(page.chain) /\ Lead(page) \in Nat
         /\ slot \in {None} \cup 1..Taken
<1>1. /\ Len(inbox) \in Nat /\ Len(page.orders) \in Nat /\ Len(page.chain) \in Nat
      /\ Taken \in 0..Len(page.orders) /\ Len(page.chain) <= Len(page.orders)
      /\ (posted => page.chain # <<>>) /\ posted \in BOOLEAN /\ IsSeq(page.chain)
  BY DEF Current, Commands, Fine, InChain, IsPage, IsSeq
<1>2. posted => Len(page.chain) # 0
  <2>1. IsSeq(page.chain) /\ Len(page.chain) = 0 => page.chain = <<>>
    BY DEF IsSeq
  <2> QED BY <1>1, <2>1
<1>3. PICK k \in {0, 1} : k = (IF posted THEN 1 ELSE 0) /\ (k = 1 => Len(page.chain) # 0)
  BY <1>1, <1>2
<1>5. Lead(page) = Len(page.orders) - Len(page.chain) /\ Taken = Posted - Len(inbox)
      /\ Posted = Lead(page) + k
  BY <1>3 DEF Lead, Taken, Posted
<1>6. PICK o \in Nat, c \in Nat, i \in Nat, t \in Nat :
        o = Len(page.orders) /\ c = Len(page.chain) /\ i = Len(inbox) /\ t = Taken
  BY <1>1
<1>7. Lead(page) = o - c /\ c <= o /\ (k = 1 => c # 0) /\ Posted = (o - c) + k /\ t = Posted - i
  BY <1>1, <1>3, <1>5, <1>6
<1>8. Lead(page) \in Nat /\ Posted \in Nat /\ Posted <= o /\ t <= Posted
  BY <1>7
<1>4. slot \in {None} \cup 1..Taken
  BY DEF Current, Told
<1> QED BY <1>1, <1>4, <1>5, <1>6, <1>8

(* A method of the page leaves the engine alone.                              *)
LEMMA SendsCurrent ==
  ASSUME Current, Sends(page, page', Taken, slot), Heeded(page', slot),
         UNCHANGED <<posted, inbox, slot, last, shown, gap, stored>>, AllTell(wire', Taken, slot)
  PROVE  Current' /\ Taken' = Taken
<1>1. Lead(page') = Lead(page)
  BY DEF Sends
<1>2. Posted' = Posted /\ Taken' = Taken
  BY <1>1 DEF Posted, Taken
<1>3. Fine(page', Taken, slot)
  BY DEF Sends
<1>4. posted => page'.chain # <<>>
  <2> SUFFICES ASSUME posted, page'.chain = <<>> PROVE FALSE
    OBVIOUS
  <2>1. Len(page'.orders) \in Nat /\ DOMAIN page'.orders = 1..Len(page'.orders)
        /\ DOMAIN page.orders = 1..Len(page.orders)
    BY <1>3 DEF Fine, IsPage, IsSeq, Current
  <2>2. DOMAIN page.orders \subseteq DOMAIN page'.orders
    BY DEF Sends
  <2>3. Len(page.orders) <= Len(page'.orders)
    BY <2>1, <2>2, TakenIs
  <2>4. Lead(page) = Len(page'.orders)
    <3>1. Len(page'.chain) = 0
      OBVIOUS
    <3>2. Lead(page') = Len(page'.orders) - Len(page'.chain)
      BY DEF Lead
    <3> QED BY <1>1, <2>1, <3>1, <3>2
  <2>5. Posted = Lead(page) + 1
    BY DEF Posted
  <2> QED BY <2>3, <2>4, <2>5, <2>1, TakenIs
<1>5. Commands'
  BY <1>2, <1>4 DEF Current, Commands
<1>6. Told(Taken, slot)'
  BY <1>2 DEF Current, Told
<1>7. Fine(page, Taken, slot)' /\ Heeded(page, slot)'
  BY <1>2, <1>3
<1> QED BY <1>2, <1>5, <1>6, <1>7 DEF Current

NewFree == \A n \in New : Free(page'.orders[n].from, Taken, slot)

LEMMA SendsStep ==
  ASSUME Current, Sends(page, page', Taken, slot), Heeded(page', slot),
         UNCHANGED <<posted, server>>, AllTell(wire', Taken, slot)
  PROVE  Current' /\ NewFree /\ Taken' = Taken
<1>1. Current' /\ Taken' = Taken
  BY SendsCurrent DEF server
<1> QED BY <1>1 DEF Sends, NewFree, New

LEMMA PlayerCurrent == ASSUME Current, Player PROVE Current' /\ NewFree /\ Taken' = Taken
<1>1. Fine(page, Taken, slot) /\ Heeded(page, slot)
  BY DEF Current
<1>2. UNCHANGED <<posted, server, wire>>
  BY DEF Player, OrderMove, QueueWork, OrderWork, Planned
<1>3. Free(User, Taken, slot)
  BY DEF Free, User
<1>4. Sends(page, page', Taken, slot) /\ Heeded(page', slot)
  <2>1. CASE \E p \in Policies : OrderMove(p)
    BY <1>1, <1>3, <2>1, MoveCommandSends DEF OrderMove
  <2>2. Sends(page, Replace(page, User), Taken, slot) /\ Heeded(Replace(page, User), slot)
    BY <1>1, <1>3, ReplaceSends
  <2>3. CASE \E p \in Policies : QueueWork(p)
    <3>1. PICK p \in Policies : QueueWork(p)
      BY <2>3
    <3>2. (p = "clear") \in BOOLEAN
      OBVIOUS
    <3>3. /\ Sends(page, DeferOrder(page, "work", p = "clear"), Taken, slot)
          /\ Heeded(DeferOrder(page, "work", p = "clear"), slot)
      BY <1>1, <3>2, DeferSends
    <3> QED BY <2>2, <3>1, <3>3 DEF QueueWork
  <2>4. CASE OrderWork
    BY <2>2, <2>4 DEF OrderWork
  <2>5. CASE Planned
    <3>1. PICK q : q = Tail(page.plans)
      OBVIOUS
    <3>2. PICK b : b = [page EXCEPT !.plans = q]
      OBVIOUS
    <3>3. PICK p : p = Head(page.plans)
      OBVIOUS
    <3>4. page.plans # <<>> /\ page' \in {b, PlannedMove(b, p.policy, p.from)}
      BY <1>1, <2>5, <3>1, <3>2, <3>3 DEF Planned, Fine, IsPage, Fields
    <3>5. /\ IsSeq(q) /\ \A i \in DOMAIN q : Free(q[i].from, Taken, slot)
          /\ Free(p.from, Taken, slot)
      BY <1>1, <3>1, <3>3, <3>4, TailIs DEF Fine, IsPage
    <3>6. Sends(page, b, Taken, slot) /\ Fine(b, Taken, slot)
      <4>1. ASSUME NEW x PROVE Sends(page, [page EXCEPT !.plans = q], Taken, slot)
        BY <1>1, <3>5, PlansSend
      <4>2. Sends(page, [page EXCEPT !.plans = q], Taken, slot)
        BY <4>1
      <4> QED BY <3>2, <4>2 DEF Sends
    <3>7. Heeded(b, slot)
      <4>1. b.calls = page.calls /\ b.pending = page.pending
        BY <1>1, <3>2 DEF Fine, IsPage, Fields
      <4> QED BY <1>1, <4>1 DEF Heeded
    <3>8. /\ Sends(b, PlannedMove(b, p.policy, p.from), Taken, slot)
          /\ Heeded(PlannedMove(b, p.policy, p.from), slot)
      BY <3>5, <3>6, <3>7, PlannedMoveSends
    <3> QED BY <3>4, <3>6, <3>7, <3>8, SendsOn
  <2> QED BY <2>1, <2>3, <2>4, <2>5 DEF Player
<1>5. AllTell(wire', Taken, slot)
  BY <1>2 DEF Current, Told
<1> QED BY <1>2, <1>4, <1>5, SendsStep

LEMMA StreamCurrent == ASSUME Current, Stream PROVE Current' /\ NewFree /\ Taken' = Taken
<1>1. Fine(page, Taken, slot) /\ Heeded(page, slot) /\ Told(Taken, slot)
  BY DEF Current
<1>2. UNCHANGED <<posted, server>>
  BY DEF Stream, Open, Bootstrap, Deliver, OtherUnit
<1>3. CASE Open
  <2>1. Sends(page, page', Taken, slot) /\ Heeded(page', slot)
    BY <1>1, <1>3, AskedSends DEF Open
  <2>2. AllTell(wire', Taken, slot)
    BY <1>1, <1>3 DEF Open, Told
  <2> QED BY <1>2, <2>1, <2>2, SendsStep
<1>4. CASE Bootstrap
  <2>1. Sends(page, page', Taken, slot) /\ Heeded(page', slot)
    BY <1>1, <1>4, RoutesSend DEF Bootstrap, Told
  <2>2. AllTell(wire', Taken, slot)
    BY <1>1, <1>4 DEF Bootstrap, Told
  <2> QED BY <1>2, <2>1, <2>2, SendsStep
<1>5. CASE Deliver
  <2>1. wire # <<>> /\ wire' = Tail(wire) /\ page' = Heard(page, Head(wire))
    BY <1>5 DEF Deliver
  <2>2. AllTell(wire', Taken, slot) /\ Tells(Head(wire), Taken, slot)
    BY <1>1, <2>1, TailIs, TailElements DEF Told, AllTell
  <2>3. Sends(page, page', Taken, slot) /\ Heeded(page', slot)
    BY <1>1, <2>1, <2>2, HeardSends
  <2> QED BY <1>2, <2>2, <2>3, SendsStep
<1>6. CASE OtherUnit
  <2>1. Sends(page, page', Taken, slot) /\ Heeded(page', slot)
    BY <1>1, <1>6, RevisedSends DEF OtherUnit
  <2>2. AllTell(wire', Taken, slot)
    BY <1>1, <1>6 DEF OtherUnit, Told
  <2> QED BY <1>2, <2>1, <2>2, SendsStep
<1> QED BY <1>3, <1>4, <1>5, <1>6 DEF Stream

LEMMA CallsSend ==
  ASSUME NEW t, NEW s, NEW b, Fine(b, t, s),
         NEW x, \A c \in x : IsCall(c) /\ (c.answered => GoodRoute(c, t))
  PROVE  /\ Sends(b, [b EXCEPT !.calls = x], t, s)
         /\ (\A c \in x : c.fresh /\ c.answered => s \in {None, c.root} \cup b.pending)
              => Heeded([b EXCEPT !.calls = x], s)
<1>1. PICK d : d = [b EXCEPT !.calls = x]
  OBVIOUS
<1>2. /\ IsPage(d) /\ d.orders = b.orders /\ d.chain = b.chain /\ d.plans = b.plans
      /\ d.active = b.active /\ d.after = b.after /\ d.pending = b.pending /\ d.calls = x
  BY <1>1 DEF Fine, IsPage, Fields
<1>3. Fine(d, t, s)
  BY <1>2 DEF Fine, InChain, Lead, Ids, AfterKnown
<1> QED BY <1>1, <1>2, <1>3 DEF Sends, Lead, Heeded

LEMMA AnswerCurrent ==
  ASSUME Current, NEW c \in page.calls, Answer(c) \/ TakeAnswer(c) PROVE Current' /\ NewFree /\ Taken' = Taken
<1>1. Fine(page, Taken, slot) /\ Heeded(page, slot) /\ Told(Taken, slot)
  BY DEF Current
<1>2. UNCHANGED <<posted, server>>
  BY DEF Answer, TakeAnswer
<1>3. AllTell(wire', Taken, slot)
  BY <1>1, EmptyTells DEF Answer, TakeAnswer, Told
<1>4. IsCall(c) /\ (c.answered => GoodRoute(c, Taken))
  BY <1>1 DEF Fine
<1>5. CASE Answer(c)
  <2>1. PICK d : d = [c EXCEPT !.answered = TRUE, !.root = slot, !.last = IF slot = None THEN None ELSE last]
    OBVIOUS
  <2>2. PICK x : x = (page.calls \ {c}) \cup {d}
    OBVIOUS
  <2>3. page' = [page EXCEPT !.calls = x]
    BY <1>1, <1>5, <2>1, <2>2 DEF Answer, Fine, IsPage, Fields
  <2>4. IsCall(d) /\ d.root = slot /\ (slot # None => d.last = last)
    BY <1>4, <2>1 DEF IsCall
  <2>5. GoodRoute(d, Taken)
    BY <1>1, <2>4 DEF Told, GoodRoute
  <2>6. \A z \in x : IsCall(z) /\ (z.answered => GoodRoute(z, Taken))
    BY <1>1, <2>2, <2>4, <2>5 DEF Fine
  <2>7. \A z \in x : z.fresh /\ z.answered => slot \in {None, z.root} \cup page.pending
    BY <1>1, <2>2, <2>4 DEF Heeded
  <2>8. Sends(page, page', Taken, slot) /\ Heeded(page', slot)
    BY <1>1, <2>3, <2>6, <2>7, CallsSend
  <2> QED BY <1>2, <1>3, <2>8, SendsStep
<1>6. CASE TakeAnswer(c)
  <2>1. PICK x : x = page.calls \ {c}
    OBVIOUS
  <2>2. PICK b : b = [page EXCEPT !.calls = x]
    OBVIOUS
  <2>3. PICK d : d = [c EXCEPT !.fresh = TRUE, !.retry = FALSE, !.answered = FALSE, !.root = None, !.last = None]
    OBVIOUS
  <2>4. PICK y : y = x \cup {d}
    OBVIOUS
  <2>5. \/ c.answered /\ c.fresh /\ page' = Reconciled(b, c)
        \/ page' = [page EXCEPT !.calls = y]
        \/ page' = b
    BY <1>1, <1>6, <2>1, <2>2, <2>3, <2>4 DEF TakeAnswer, Fine, IsPage, Fields
  <2>6. \A z \in x : IsCall(z) /\ (z.answered => GoodRoute(z, Taken))
                     /\ (z.fresh /\ z.answered => slot \in {None, z.root} \cup page.pending)
    BY <1>1, <2>1 DEF Fine, Heeded
  <2>7. Sends(page, b, Taken, slot) /\ Heeded(b, slot) /\ Fine(b, Taken, slot)
    BY <1>1, <2>2, <2>6, CallsSend DEF Sends
  <2>8. CASE c.answered /\ c.fresh /\ page' = Reconciled(b, c)
    <3>1. b.pending = page.pending
      BY <1>1, <2>2 DEF Fine, IsPage, Fields
    <3>2. slot \in {None, c.root} \cup b.pending
      BY <1>1, <2>8, <3>1 DEF Heeded
    <3>3. Sends(b, page', Taken, slot) /\ Heeded(page', slot)
      BY <1>4, <2>7, <2>8, <3>2, ReconciledSends
    <3>4. Sends(page, page', Taken, slot)
      BY <2>7, <3>3, SendsOn
    <3> QED BY <1>2, <1>3, <3>3, <3>4, SendsStep
  <2>9. CASE page' = [page EXCEPT !.calls = y]
    <3>1. IsCall(d) /\ d.answered = FALSE
      BY <1>4, <2>3 DEF IsCall
    <3>2. \A z \in y : IsCall(z) /\ (z.answered => GoodRoute(z, Taken))
                       /\ (z.fresh /\ z.answered => slot \in {None, z.root} \cup page.pending)
      BY <2>4, <2>6, <3>1
    <3>3. Sends(page, page', Taken, slot) /\ Heeded(page', slot)
      BY <1>1, <2>9, <3>2, CallsSend
    <3> QED BY <1>2, <1>3, <3>3, SendsStep
  <2>10. CASE page' = b
    BY <1>2, <1>3, <2>7, <2>10, SendsStep
  <2> QED BY <2>5, <2>8, <2>9, <2>10
<1> QED BY <1>5, <1>6

LEMMA AllCurrent == ASSUME Current PROVE Sends(page, page, Taken, slot) /\ Heeded(page, slot)
BY SettlesAll, SettlesFine DEF Current

LEMMA PostCurrent == ASSUME Current, PostArrives \/ PostAnswered PROVE Current' /\ NewFree /\ Taken' = Taken
<1>1. /\ Fine(page, Taken, slot) /\ Heeded(page, slot) /\ Commands /\ Told(Taken, slot)
      /\ IsPage(page) /\ InChain(page)
  BY DEF Current, Fine
<1>2. page.chain # <<>> /\ IsSeq(page.chain)
  BY <1>1 DEF PostArrives, PostAnswered, InChain
<1>3. PICK m \in Nat : /\ Len(page.chain) = m + 1 /\ IsSeq(Tail(page.chain)) /\ Len(Tail(page.chain)) = m
                       /\ Head(page.chain) = page.chain[1]
                       /\ \A i \in 1..m : Tail(page.chain)[i] = page.chain[i + 1]
  <2>1. PICK S : page.chain \in Seq(S)
    BY <1>2, SeqIs
  <2>2. /\ Len(page.chain) \in Nat /\ Len(page.chain) # 0
    BY <1>2, <2>1, LenProperties, EmptySeq
  <2>3. /\ Tail(page.chain) \in Seq(S) /\ Len(Tail(page.chain)) = Len(page.chain) - 1
        /\ \A i \in 1..Len(Tail(page.chain)) : Tail(page.chain)[i] = page.chain[i + 1]
    BY <1>2, <2>1, HeadTailProperties
  <2>4. Head(page.chain) = page.chain[1] /\ IsSeq(Tail(page.chain))
    BY <1>2, <2>3, TailIs
  <2>5. Len(page.chain) - 1 \in Nat /\ (Len(page.chain) - 1) + 1 = Len(page.chain)
    BY <2>2
  <2> QED BY <2>3, <2>4, <2>5
<1>4. CASE PostArrives
  <2>1. ~posted /\ posted' = TRUE /\ inbox' = Append(inbox, Head(page.chain))
    BY <1>4 DEF PostArrives
  <2>2. PICK n \in Nat : n = Len(inbox) /\ IsSeq(inbox')
                         /\ Len(inbox') = n + 1 /\ inbox'[n + 1] = Head(page.chain)
                         /\ \A i \in 1..n : inbox'[i] = inbox[i]
    <3>1. IsSeq(inbox)
      BY <1>1 DEF Commands
    <3>2. /\ IsSeq(inbox') /\ Len(inbox) \in Nat /\ DOMAIN inbox = 1..Len(inbox)
          /\ DOMAIN inbox' = 1..(Len(inbox) + 1) /\ inbox'[Len(inbox) + 1] = Head(page.chain)
          /\ \A i \in DOMAIN inbox : inbox'[i] = inbox[i]
      BY <2>1, <3>1, AppendIs
    <3>3. Len(inbox') \in Nat /\ DOMAIN inbox' = 1..Len(inbox')
      BY <3>2 DEF IsSeq
    <3>4. Len(inbox') = Len(inbox) + 1
      BY <3>2, <3>3
    <3> QED BY <3>2, <3>4
  <2>3. UNCHANGED <<page, wire, slot, last, shown, gap, stored>>
    BY <1>4 DEF PostArrives
  <2>4. PICK l \in Nat : l = Lead(page)
    BY TakenIs
  <2>5. Posted = l + 0 /\ Posted' = l + 1
    BY <2>1, <2>3, <2>4 DEF Posted, Lead
  <2>6. Taken = l - n /\ Taken' = (l + 1) - (n + 1)
    BY <2>2, <2>4, <2>5 DEF Taken
  <2>7. Taken' = Taken
    BY <2>4, <2>2, <2>6
  <2>8. Head(page.chain) = l + 1
    BY <1>1, <1>3, <2>4 DEF InChain
  <2>9. \A i \in 1..n : inbox[i] = Taken + i
    BY <1>1, <2>2 DEF Commands
  <2>10. \A i \in 1..(n + 1) : inbox'[i] = Taken + i
    <3>1. ASSUME NEW i \in 1..(n + 1) PROVE inbox'[i] = Taken + i
      <4>1. CASE i = n + 1
        BY <4>1, <2>2, <2>6, <2>8
      <4>2. CASE i # n + 1
        BY <4>2, <2>2, <2>9
      <4> QED BY <4>1, <4>2
    <3> QED BY <3>1
  <2>11. Commands'
    BY <1>2, <2>1, <2>2, <2>3, <2>7, <2>10 DEF Commands
  <2>12. Told(Taken, slot)'
    BY <1>1, <2>3, <2>7 DEF Told
  <2>13. (Fine(page, Taken, slot) /\ Heeded(page, slot))'
    BY <1>1, <2>3, <2>7
  <2> QED BY <2>3, <2>7, <2>11, <2>12, <2>13 DEF Current, NewFree, New
<1>5. CASE PostAnswered
  <2>1. PICK q : q = Tail(page.chain)
    OBVIOUS
  <2>2. posted /\ posted' = FALSE /\ page' = [page EXCEPT !.chain = q]
    BY <1>1, <1>5, <2>1 DEF PostAnswered, IsPage, Fields
  <2>3. /\ IsPage(page') /\ page'.orders = page.orders /\ page'.chain = q /\ page'.plans = page.plans
        /\ page'.active = page.active /\ page'.after = page.after /\ page'.pending = page.pending
        /\ page'.calls = page.calls
    BY <1>1, <2>2 DEF IsPage, Fields
  <2>4. UNCHANGED <<wire, inbox, slot, last, shown, gap, stored>>
    BY <1>5 DEF PostAnswered, server
  <2>5. PICK o \in Nat : o = Len(page.orders) /\ m + 1 <= o
    BY <1>1, <1>3, TakenIs DEF InChain
  <2>6. Lead(page) = o - (m + 1) /\ Lead(page') = o - m
    BY <1>3, <2>1, <2>3, <2>5 DEF Lead
  <2>7. Posted = Lead(page) + 1 /\ Posted' = Lead(page') + 0
    BY <2>2 DEF Posted
  <2>8. Posted' = Posted
    BY <2>5, <2>6, <2>7
  <2>9. Taken' = Taken
    BY <2>4, <2>8 DEF Taken
  <2>10. InChain(page')
    <3>1. ASSUME NEW i \in 1..m PROVE q[i] = Lead(page') + i
      <4>1. q[i] = page.chain[i + 1] /\ i + 1 \in 1..(m + 1)
        BY <1>3, <2>1
      <4>2. page.chain[i + 1] = Lead(page) + (i + 1)
        BY <1>1, <1>3, <4>1 DEF InChain
      <4>3. q[i] = (o - (m + 1)) + (i + 1)
        BY <2>6, <4>1, <4>2
      <4>4. i \in Nat /\ m \in Nat /\ o \in Nat
        BY <1>3, <2>5, <3>1
      <4>5. (o - (m + 1)) + (i + 1) = (o - m) + i
        BY <4>4
      <4> QED BY <2>6, <4>3, <4>5
    <3>2. Len(q) = m /\ m <= o /\ IsSeq(q)
      BY <1>3, <2>1, <2>5
    <3> QED BY <2>3, <2>5, <3>1, <3>2 DEF InChain
  <2>11. Fine(page', Taken, slot) /\ Heeded(page', slot)
    BY <1>1, <2>3, <2>10 DEF Fine, Ids, AfterKnown, Heeded
  <2>12. Commands'
    BY <1>1, <2>2, <2>4, <2>9 DEF Commands
  <2>13. Told(Taken, slot)'
    BY <1>1, <2>4, <2>9 DEF Told
  <2>14. (Fine(page, Taken, slot) /\ Heeded(page, slot))'
    BY <2>4, <2>9, <2>11
  <2> QED BY <2>3, <2>9, <2>12, <2>13, <2>14 DEF Current, NewFree, New
<1> QED BY <1>4, <1>5

LEMMA DropCurrent == ASSUME Current, Drop PROVE Current' /\ NewFree /\ Taken' = Taken
<1>1. UNCHANGED <<page, posted, server>> /\ AllTell(wire', Taken, slot)
  BY EmptyTells DEF Drop
<1> QED BY <1>1, AllCurrent, SendsStep

-----------------------------------------------------------------------------
(* The engine takes a command up, ends the one in the slot, or tells of its   *)
(* route.                                                                     *)

LEMMA ListsTold ==
  ASSUME NEW t, NEW s, NEW d, NEW e, Tells(e, t, s)
  PROVE  AllTell(<<e>>, t, s) /\ (Tells(d, t, s) => AllTell(<<d, e>>, t, s))
BY ListsElements DEF AllTell

LEMMA EventTells ==
  ASSUME NEW t \in Nat, NEW s, NEW n \in 1..t, NEW x \in Outcomes \cup {"accepted"}, NEW edit \in BOOLEAN,
         ~edit /\ x \in Outcomes => n # s, ~edit /\ x = "accepted" => s = None \/ n <= s
  PROVE  Tells(Event(n, x, edit), t, s)
BY DEF Tells, Event, Outcomes

LEMMA EngineStep ==
  ASSUME Current, NEW u \in {Taken, Taken + 1}, Taken' = u, u <= Len(page.orders),
         slot' \in {None, slot} \cup ((Taken + 1)..u), slot' # None => last' \in 1..u,
         UNCHANGED <<page, posted>>,
         NEW es, AllTell(es, u, slot'), Publish(es),
         GoodRoute(shown', u), GoodRoute(stored', u),
         IsSeq(inbox'), \A i \in 1..Len(inbox') : inbox'[i] = u + i
  PROVE  Current' /\ NewFree
<1>1. Fine(page, Taken, slot) /\ Heeded(page, slot) /\ Commands /\ Told(Taken, slot)
  BY DEF Current
<1>2. Taken \in Nat /\ slot \in {None} \cup 1..Taken
  BY TakenIs
<1>3. Fine(page, u, slot') /\ Heeded(page, slot')
  BY <1>1, <1>2, LaterFine
<1>4. AllTell(wire, u, slot') /\ AllTell(gap, u, slot')
  BY <1>1, <1>2, LaterTells DEF Told
<1>5. AllTell(wire \o es, u, slot') /\ AllTell(gap \o es, u, slot')
  BY <1>4, ConcatElements DEF AllTell
<1>6. AllTell(wire', u, slot') /\ AllTell(gap', u, slot')
  BY <1>4, <1>5 DEF Publish
<1>7. slot' \in {None} \cup 1..u
  BY <1>2, LaterOver
<1>8. Told(Taken, slot)'
  BY <1>6, <1>7 DEF Told
<1>9. Commands'
  BY <1>1 DEF Commands
<1>10. (Fine(page, Taken, slot) /\ Heeded(page, slot))'
  BY <1>3
<1> QED BY <1>8, <1>9, <1>10 DEF Current, NewFree, New

LEMMA TakeUpIs ==
  ASSUME Current, NEW n, TakeUp(n), UNCHANGED <<page, posted>>
  PROVE  /\ n = Taken + 1 /\ n \in Nat /\ Taken' = n /\ n <= Len(page.orders)
         /\ IsSeq(inbox') /\ \A i \in 1..Len(inbox') : inbox'[i] = n + i
<1>1. IsSeq(inbox) /\ inbox # <<>> /\ n = Head(inbox) /\ inbox' = Tail(inbox)
      /\ \A i \in 1..Len(inbox) : inbox[i] = Taken + i
  BY DEF Current, Commands, TakeUp
<1>2. PICK m \in Nat : /\ Len(inbox) = m + 1 /\ IsSeq(inbox') /\ Len(inbox') = m
                       /\ n = inbox[1] /\ \A i \in 1..m : inbox'[i] = inbox[i + 1]
  <2>1. PICK S : inbox \in Seq(S)
    BY <1>1, SeqIs
  <2>2. /\ Len(inbox) \in Nat /\ Len(inbox) # 0
    BY <1>1, <2>1, LenProperties, EmptySeq
  <2>3. /\ Tail(inbox) \in Seq(S) /\ Len(Tail(inbox)) = Len(inbox) - 1
        /\ \A i \in 1..Len(Tail(inbox)) : Tail(inbox)[i] = inbox[i + 1]
    BY <1>1, <2>1, HeadTailProperties
  <2>4. Head(inbox) = inbox[1] /\ IsSeq(Tail(inbox))
    BY <1>1, <2>3, TailIs
  <2>5. Len(inbox) - 1 \in Nat /\ (Len(inbox) - 1) + 1 = Len(inbox)
    BY <2>2
  <2> QED BY <1>1, <2>3, <2>4, <2>5
<1>3. /\ Taken \in Nat /\ Posted \in Nat /\ Len(page.orders) \in Nat
      /\ Taken = Posted - (m + 1) /\ Posted <= Len(page.orders)
  BY <1>2, TakenIs
<1>4. Posted' = Posted
  BY DEF Posted, Lead
<1>5. Taken' = Posted - m
  BY <1>2, <1>4 DEF Taken
<1>6. n = Taken + 1 /\ Taken' = n /\ n <= Len(page.orders)
  BY <1>1, <1>2, <1>3, <1>5
<1>7. \A i \in 1..m : inbox'[i] = n + i
  BY <1>1, <1>2, <1>3, <1>6
<1> QED BY <1>2, <1>3, <1>6, <1>7

LEMMA EngineCurrent == ASSUME Current, Engine PROVE Current' /\ NewFree
<1>1. Commands /\ Told(Taken, slot) /\ Taken \in Nat /\ Taken <= Len(page.orders)
      /\ slot \in {None} \cup 1..Taken /\ Len(page.orders) \in Nat
  BY TakenIs DEF Current
<1>2. UNCHANGED <<page, posted>>
  BY DEF Engine, Refuse, EditRoute, Start, End, PublishDelta, Snapshot
<1>3. ASSUME NEW n, Refuse(n) PROVE Current' /\ NewFree
  <2>1. TakeUp(n) /\ UNCHANGED <<slot, last, shown, stored>>
    BY <1>3 DEF Refuse
  <2>2. /\ n = Taken + 1 /\ n \in Nat /\ Taken' = n /\ n <= Len(page.orders)
        /\ IsSeq(inbox') /\ \A i \in 1..Len(inbox') : inbox'[i] = n + i
    BY <1>2, <2>1, TakeUpIs
  <2>3. PICK edit \in BOOLEAN : Publish(<<Event(n, "rejected", edit)>>)
    BY <1>3 DEF Refuse
  <2>4. n \in 1..n /\ n # slot
    BY <1>1, <2>2, OrderQueueAssumption
  <2>5. Tells(Event(n, "rejected", edit), n, slot')
    BY <2>1, <2>2, <2>4, EventTells DEF Outcomes
  <2>6. AllTell(<<Event(n, "rejected", edit)>>, n, slot')
    BY <2>5, ListsTold
  <2>7. \A i \in 1..Taken : i \in 1..n
    BY <1>1, <2>2
  <2>8. GoodRoute(shown', n) /\ GoodRoute(stored', n) /\ (slot' # None => last' \in 1..n)
    BY <1>1, <2>1, <2>7 DEF Told, GoodRoute
  <2>9. n \in {Taken, Taken + 1} /\ slot' \in {None, slot} \cup ((Taken + 1)..n)
    BY <2>1, <2>2
  <2> QED BY <1>2, <2>2, <2>3, <2>6, <2>8, <2>9, EngineStep
<1>4. ASSUME NEW n, EditRoute(n) PROVE Current' /\ NewFree
  <2>1. TakeUp(n) /\ last' = n /\ UNCHANGED <<slot, shown, stored>>
        /\ Publish(<<Event(n, "accepted", TRUE), Event(n, "finished", TRUE)>>)
    BY <1>4 DEF EditRoute
  <2>2. /\ n = Taken + 1 /\ n \in Nat /\ Taken' = n /\ n <= Len(page.orders)
        /\ IsSeq(inbox') /\ \A i \in 1..Len(inbox') : inbox'[i] = n + i
    BY <1>2, <2>1, TakeUpIs
  <2>3. n \in 1..n
    BY <1>1, <2>2
  <2>4. Tells(Event(n, "accepted", TRUE), n, slot') /\ Tells(Event(n, "finished", TRUE), n, slot')
    BY <2>2, <2>3, EventTells DEF Outcomes
  <2>5. AllTell(<<Event(n, "accepted", TRUE), Event(n, "finished", TRUE)>>, n, slot')
    BY <2>4, ListsTold
  <2>6. \A i \in 1..Taken : i \in 1..n
    BY <1>1, <2>2
  <2>7. GoodRoute(shown', n) /\ GoodRoute(stored', n) /\ (slot' # None => last' \in 1..n)
    BY <1>1, <2>1, <2>3, <2>6 DEF Told, GoodRoute
  <2>8. n \in {Taken, Taken + 1} /\ slot' \in {None, slot} \cup ((Taken + 1)..n)
    BY <2>1, <2>2
  <2> QED BY <1>2, <2>1, <2>2, <2>5, <2>7, <2>8, EngineStep
<1>5. ASSUME NEW n, Start(n) PROVE Current' /\ NewFree
  <2>1. TakeUp(n) /\ slot' = n /\ last' = n /\ UNCHANGED <<shown, stored>>
    BY <1>5 DEF Start
  <2>2. /\ n = Taken + 1 /\ n \in Nat /\ Taken' = n /\ n <= Len(page.orders)
        /\ IsSeq(inbox') /\ \A i \in 1..Len(inbox') : inbox'[i] = n + i
    BY <1>2, <2>1, TakeUpIs
  <2>3. n \in 1..n /\ \A i \in 1..Taken : i \in 1..n /\ i # n
    BY <1>1, <2>2
  <2>4. PICK es : es = IF slot = None THEN <<>> ELSE <<Event(slot, "canceled", FALSE)>>
    OBVIOUS
  <2>5. AllTell(es, n, n)
    <3>1. CASE slot = None
      BY <2>4, <3>1, EmptyTells
    <3>2. CASE slot # None
      <4>1. slot \in 1..n /\ slot # n
        BY <1>1, <2>3, <3>2
      <4>2. Tells(Event(slot, "canceled", FALSE), n, n)
        BY <2>2, <4>1, EventTells DEF Outcomes
      <4> QED BY <2>4, <3>2, <4>2, ListsTold
    <3> QED BY <3>1, <3>2
  <2>6. Tells(Event(n, "accepted", FALSE), n, n)
    BY <2>2, <2>3 DEF Tells, Event, Outcomes
  <2>7. AllTell(<<Event(n, "accepted", FALSE)>>, n, n)
    BY <2>6, ListsTold
  <2>8. PICK all : all = es \o <<Event(n, "accepted", FALSE)>>
    OBVIOUS
  <2>9. AllTell(all, n, slot') /\ Publish(all)
    BY <1>5, <2>1, <2>4, <2>5, <2>7, <2>8, ConcatElements DEF Start, AllTell
  <2>10. GoodRoute(shown', n) /\ GoodRoute(stored', n) /\ (slot' # None => last' \in 1..n)
    BY <1>1, <2>1, <2>3 DEF Told, GoodRoute
  <2>11. n \in {Taken, Taken + 1} /\ slot' \in {None, slot} \cup ((Taken + 1)..n)
    BY <2>1, <2>2
  <2> QED BY <1>2, <2>2, <2>9, <2>10, <2>11, EngineStep
<1>6. Taken' = Taken \/ inbox' # inbox
  BY <1>2 DEF Taken, Posted, Lead
<1>7. ASSUME NEW x \in {"finished", "canceled"}, End(x) PROVE Current' /\ NewFree
  <2>1. slot # None /\ slot' = None /\ Publish(<<Event(slot, x, FALSE)>>)
        /\ UNCHANGED <<inbox, shown, stored>>
    BY <1>7 DEF End
  <2>2. Taken' = Taken
    BY <1>6, <2>1
  <2>3. slot \in 1..Taken /\ slot # None
    BY <1>1, <2>1
  <2>4. Tells(Event(slot, x, FALSE), Taken, None)
    BY <1>1, <2>3, EventTells DEF Outcomes
  <2>5. AllTell(<<Event(slot, x, FALSE)>>, Taken, slot')
    BY <2>1, <2>4, ListsTold
  <2>6. GoodRoute(shown', Taken) /\ GoodRoute(stored', Taken)
    BY <1>1, <2>1 DEF Told
  <2>7. IsSeq(inbox') /\ \A i \in 1..Len(inbox') : inbox'[i] = Taken + i
    BY <1>1, <2>1 DEF Commands
  <2> QED BY <1>1, <1>2, <2>1, <2>2, <2>5, <2>6, <2>7, EngineStep
<1>8. GoodRoute(Route, Taken) /\ Route.root \in {None} \cup 1..Taken
  <2>1. CASE IsMove(page, slot)
    BY <1>1, <2>1 DEF Route, Told, GoodRoute
  <2>2. CASE ~IsMove(page, slot)
    BY <2>2 DEF Route, NoRoute, GoodRoute
  <2> QED BY <2>1, <2>2
<1>9. CASE PublishDelta
  <2>1. PICK e : e = [state |-> "route", route |-> Route,
                      gone |-> IF Route.root = shown.root THEN None ELSE shown.root]
    OBVIOUS
  <2>2. Publish(<<e>>) /\ shown' = Route /\ UNCHANGED <<inbox, slot, last, stored>>
    BY <1>9, <2>1 DEF PublishDelta
  <2>3. Taken' = Taken
    BY <1>6, <2>2
  <2>4. Tells(e, Taken, slot)
    BY <1>1, <1>8, <2>1 DEF Tells, Told, GoodRoute
  <2>5. AllTell(<<e>>, Taken, slot')
    BY <2>2, <2>4, ListsTold
  <2>6. /\ GoodRoute(shown', Taken) /\ GoodRoute(stored', Taken)
        /\ (slot' # None => last' \in 1..Taken)
    BY <1>1, <1>8, <2>2 DEF Told
  <2>7. IsSeq(inbox') /\ \A i \in 1..Len(inbox') : inbox'[i] = Taken + i
    BY <1>1, <2>2 DEF Commands
  <2> QED BY <1>1, <1>2, <2>2, <2>3, <2>5, <2>6, <2>7, EngineStep
<1>10. CASE Snapshot
  <2>1. stored' = Route /\ UNCHANGED <<page, posted, wire, inbox, slot, last, shown>>
        /\ (gap' = <<>> \/ \E i \in DOMAIN gap : gap' = SubSeq(gap, i + 1, Len(gap)))
    BY <1>10 DEF Snapshot
  <2>2. Taken' = Taken
    BY <1>6, <2>1
  <2>3. AllTell(gap', Taken, slot)
    BY <1>1, <2>1, EmptyTells, SuffixElements DEF Told, AllTell
  <2>4. Told(Taken, slot)'
    BY <1>1, <1>8, <2>1, <2>2, <2>3 DEF Told
  <2>5. (Fine(page, Taken, slot) /\ Heeded(page, slot) /\ Commands)'
    BY <2>1, <2>2 DEF Current, Commands
  <2> QED BY <2>1, <2>4, <2>5 DEF Current, NewFree, New
<1> QED BY <1>3, <1>4, <1>5, <1>7, <1>9, <1>10 DEF Engine

-----------------------------------------------------------------------------
LEMMA InitCurrent == ASSUME Init PROVE WInv
<1>1. /\ page = [f \in Fields |-> page[f]] /\ page.active = None /\ page.after = None
      /\ page.orders = <<>> /\ page.queued = <<>> /\ page.plans = <<>> /\ page.chain = <<>>
      /\ page.calls = {}
      /\ posted = FALSE /\ wire = <<>> /\ gap = <<>> /\ inbox = <<>> /\ slot = None
      /\ shown.root = None /\ stored.root = None
  BY DEF Init, Fields, NoRoute
<1>2. /\ IsSeq(<<>>) /\ DOMAIN <<>> = {} /\ Len(<<>>) = 0
  BY EmptyIs
<1>3. Lead(page) = 0 /\ Taken = 0
  BY <1>1, <1>2 DEF Lead, Taken, Posted
<1>4. 1..0 = {}
  OBVIOUS
<1>5. IsPage(page) /\ InChain(page)
  BY <1>1, <1>2, <1>4 DEF IsPage, InChain
<1>6. Fine(page, 0, None) /\ Heeded(page, None)
  BY <1>1, <1>2, <1>5 DEF Fine, Ids, AfterKnown, Heeded
<1>7. Commands /\ Told(0, None)
  BY <1>1, <1>2, <1>4 DEF Commands, Told, GoodRoute, AllTell, ToSet
<1> QED BY <1>1, <1>3, <1>6, <1>7 DEF WInv, Current

(* The troubles other than a drop leave the orders as they are.               *)
LEMMA OtherTroubles ==
  ASSUME IInv, Reload \/ PostFails \/ \E c \in page.calls : CallFails(c)
  PROVE  page'.orders = page.orders /\ ~(had' \subseteq {"drop"})
<1>1. IsPage(page)
  BY DEF IInv, Ordered
<1>2. CASE Reload
  <2>1. page'.orders = page.orders
    BY <1>1, <1>2 DEF Reload, IsPage, Fields
  <2>2. "reload" \in had'
    BY <1>2 DEF Reload, Trouble
  <2> QED BY <2>1, <2>2
<1>3. CASE PostFails
  <2>1. page'.orders = page.orders
    BY <1>1, <1>3 DEF PostFails, Reconcile, Forget, IsPage, Fields
  <2>2. "fail" \in had'
    BY <1>3 DEF PostFails, Trouble
  <2> QED BY <2>1, <2>2
<1>4. CASE \E c \in page.calls : CallFails(c)
  <2>1. page'.orders = page.orders
    BY <1>1, <1>4 DEF CallFails, IsPage, Fields
  <2>2. "fail" \in had'
    BY <1>4 DEF CallFails, Trouble
  <2> QED BY <2>1, <2>2
<1> QED BY <1>2, <1>3, <1>4

LEMMA NextCurrent ==
  ASSUME IInv, WInv, [Next]_vars
  PROVE  WInv' /\ (had \subseteq {"drop"} => NewFree)
<1>1. had \subseteq had'
  BY DEF Next, vars, Trouble, Player, OrderMove, QueueWork, OrderWork, Planned, Posting, PostArrives, PostAnswered,
     PostFails, Stream, Open, Bootstrap, Deliver, OtherUnit, Calling, Answer, TakeAnswer, CallFails,
     Engine, Refuse, EditRoute, Start, End, PublishDelta, Snapshot, Drop, Reload
<1>2. CASE Reload \/ PostFails \/ \E c \in page.calls : CallFails(c)
  BY <1>2, OtherTroubles DEF WInv, NewFree, New
<1>3. CASE UNCHANGED vars
  BY <1>3, AllCurrent, SendsStep DEF vars, WInv, NewFree, New, Current, Told
<1>4. CASE Player \/ PostArrives \/ PostAnswered \/ Stream \/ Engine \/ Drop
           \/ \E c \in page.calls : Answer(c) \/ TakeAnswer(c)
  BY <1>1, <1>4, PlayerCurrent, PostCurrent, StreamCurrent, EngineCurrent, DropCurrent, AnswerCurrent DEF WInv
<1> QED BY <1>2, <1>3, <1>4 DEF Next, Posting, Calling

(* What is over is neither in the slot nor on its way there.                  *)
LEMMA OverIsNotAlive ==
  ASSUME Current, NEW n, Over(n, Taken, slot)
  PROVE  n \notin Alive
<1>1. n \in 1..Taken /\ n # slot /\ Taken \in Nat /\ Posted \in Nat /\ Taken <= Posted
  BY TakenIs DEF Over
<1>2. n \notin ToSet(inbox)
  <2>1. \A i \in DOMAIN inbox : inbox[i] = Taken + i /\ i \in Nat /\ i >= 1
    BY DEF Current, Commands, IsSeq
  <2> QED BY <1>1, <2>1 DEF ToSet
<1>3. n \notin Unsent
  <2>1. IsSeq(page.chain) /\ \A i \in DOMAIN page.chain : page.chain[i] = Lead(page) + i
    BY DEF Current, Fine, InChain, IsSeq
  <2>2. Lead(page) \in Nat
    BY TakenIs
  <2>3. CASE posted
    <3>1. page.chain # <<>>
      BY <2>3 DEF Current, Commands
    <3>2. /\ \A i \in DOMAIN Tail(page.chain) : /\ i + 1 \in DOMAIN page.chain /\ i + 1 > 1
                                                /\ Tail(page.chain)[i] = page.chain[i + 1]
          /\ DOMAIN page.chain \subseteq Nat
      BY <2>1, <3>1, TailIs
    <3>3. Posted = Lead(page) + 1
      BY <2>3 DEF Posted
    <3>4. ASSUME NEW i \in DOMAIN Tail(page.chain) PROVE Tail(page.chain)[i] # n
      <4>1. PICK k \in Nat : k = i + 1 /\ k > 1 /\ Tail(page.chain)[i] = Lead(page) + k
        BY <2>1, <3>2
      <4> QED BY <1>1, <2>2, <3>3, <4>1
    <3> QED BY <2>3, <3>4 DEF Unsent, ToSet
  <2>4. CASE ~posted
    <3>1. Posted = Lead(page)
      BY <2>2, <2>4 DEF Posted
    <3>2. \A i \in DOMAIN page.chain : i \in Nat /\ i >= 1
      BY <2>1 DEF IsSeq
    <3>3. \A i \in DOMAIN page.chain : page.chain[i] # n
      BY <1>1, <2>1, <2>2, <3>1, <3>2
    <3> QED BY <2>4, <3>3 DEF Unsent, ToSet
  <2> QED BY <2>3, <2>4
<1> QED BY <1>1, <1>2, <1>3 DEF Alive

(* A follow-up is not submitted while the order it waits for is still to be   *)
(* posted, taken up or worked on, for any number of orders, handshakes and    *)
(* disconnects, and however the answers and events are delayed.               *)
THEOREM FollowUpsWait == Spec => FollowUpWaits
<1>1. ASSUME IInv, WInv, [Next]_vars
      PROVE  [\A n \in New : LET from == page'.orders[n].from IN
                from # User /\ had \subseteq {"drop"} => from.behind \notin Alive \ {None}]_vars
  BY <1>1, NextCurrent, OverIsNotAlive DEF NewFree, Free, WInv
<1> QED BY <1>1, InitOrdered, InitCurrent, NextOrdered, NextCurrent, PTL DEF Spec, FollowUpWaits

-----------------------------------------------------------------------------
(* A follow-up is kept. While no Move is queued, what is planned is what the  *)
(* player asked for, and a follow-up is an order from the moment it leaves    *)
(* the queue. What drops the queue has the end of the order it waits for.     *)
Plain(b) ==
  /\ \A k \in DOMAIN b.queued : b.queued[k].kind # "move"
  /\ \A i \in DOMAIN b.plans : b.plans[i].from = User

Held(b) == {o.token : o \in ToSet(b.queued)} \cup {p.from.token : p \in ToSet(b.plans)}
           \cup {o.from.token : o \in ToSet(b.orders)}

Stays(b, c) == \A o \in ToSet(b.queued) : o.token \in Held(c)

LEMMA SameStays == ASSUME NEW b, NEW c, c.queued = b.queued PROVE Stays(b, c)
BY DEF Stays, Held

LEMMA KeepsPlain == ASSUME NEW b, NEW c, Plain(b), Keeps(b, c) PROVE Plain(c)
BY EmptyIs DEF Plain, Keeps

LEMMA RevisedIs ==
  ASSUME NEW b, IsPage(b)
  PROVE  /\ IsPage(Revise(b)) /\ Revise(b).queued = b.queued /\ Revise(b).orders = b.orders
         /\ Revise(b).plans = b.plans /\ Revise(b).active = b.active
         /\ \A opening : LET c == Reconcile(b, opening) IN
              IsPage(c) /\ c.queued = b.queued /\ c.orders = b.orders /\ c.plans = b.plans
BY DEF Revise, Reconcile, IsPage, Fields

LEMMA DeferPlain ==
  ASSUME NEW b, IsPage(b), Plain(b), NEW k, k # "move", NEW clear \in BOOLEAN
  PROVE  Plain(DeferOrder(b, k, clear)) /\ DeferOrder(b, k, clear).tokens = b.tokens + 1
<1>1. PICK o : o = [kind |-> k, token |-> b.tokens + 1]
  OBVIOUS
<1>2. PICK q : q = IF clear THEN <<>> ELSE b.queued
  OBVIOUS
<1>3. PICK r : r = Append(q, o)
  OBVIOUS
<1>4. IsSeq(q) /\ \A i \in DOMAIN q : q[i].kind # "move"
  BY <1>2, EmptyIs DEF IsPage, Plain
<1>5. \A i \in DOMAIN r : r[i].kind # "move"
  <2>1. /\ Len(q) \in Nat /\ DOMAIN q = 1..Len(q) /\ DOMAIN r = 1..(Len(q) + 1)
        /\ r[Len(q) + 1] = o /\ \A i \in DOMAIN q : r[i] = q[i]
    BY <1>3, <1>4, AppendIs
  <2>2. \A i \in DOMAIN r : i \in DOMAIN q \/ i = Len(q) + 1
    BY <2>1
  <2> QED BY <1>1, <1>4, <2>1, <2>2
<1>6. /\ DeferOrder(b, k, clear).queued = r /\ DeferOrder(b, k, clear).plans = b.plans
      /\ DeferOrder(b, k, clear).tokens = b.tokens + 1
  BY <1>1, <1>2, <1>3 DEF DeferOrder, IsPage, Fields
<1> QED BY <1>5, <1>6 DEF Plain

LEMMA ReplacePlain ==
  ASSUME NEW b, IsPage(b), NEW from
  PROVE  Plain(Replace(b, from)) /\ from.token \in Held(Replace(b, from))
         /\ \E n \in DOMAIN Replace(b, from).orders \ DOMAIN b.orders : Replace(b, from).orders[n].from = from
<1>1. PICK c : c = Replace(b, from)
  OBVIOUS
<1>2. PICK o : o = [kind |-> "work", policy |-> "replace", from |-> from]
  OBVIOUS
<1>3. c.orders = Append(b.orders, o) /\ c.queued = <<>> /\ c.plans = <<>>
  BY <1>1, <1>2, ReplaceIs
<1>4. PICK n : n \in DOMAIN c.orders /\ c.orders[n] = o /\ n \notin DOMAIN b.orders
  <2>1. /\ Len(b.orders) \in Nat /\ DOMAIN b.orders = 1..Len(b.orders)
        /\ DOMAIN c.orders = 1..(Len(b.orders) + 1) /\ c.orders[Len(b.orders) + 1] = o
    BY <1>3, AppendIs DEF IsPage
  <2>2. Len(b.orders) + 1 \in DOMAIN c.orders /\ Len(b.orders) + 1 \notin DOMAIN b.orders
    BY <2>1
  <2> QED BY <2>1, <2>2
<1>5. o.from = from /\ o \in ToSet(c.orders)
  BY <1>2, <1>4 DEF ToSet
<1>6. Plain(c)
  BY <1>3, EmptyIs DEF Plain
<1>7. from.token \in Held(c)
  BY <1>5 DEF Held
<1> QED BY <1>1, <1>4, <1>5, <1>6, <1>7

(* The head of the queue becomes an order, and the rest stays queued.         *)
LEMMA StartNextKeeps ==
  ASSUME NEW b, IsPage(b), Plain(b)
  PROVE  Stays(b, StartNext(b)) /\ Plain(StartNext(b)) /\ IsPage(StartNext(b))
<1>1. CASE b.active # None
  BY <1>1, SameStays DEF StartNext
<1>2. CASE b.active = None /\ b.queued = <<>>
  <2>1. PICK c : c = [b EXCEPT !.after = None]
    OBVIOUS
  <2>2. IsPage(c) /\ c.queued = b.queued /\ c.plans = b.plans
    BY <2>1 DEF IsPage, Fields
  <2> QED BY <1>2, <2>1, <2>2, SameStays DEF StartNext, Plain
<1>3. CASE b.active = None /\ b.queued # <<>>
  <2>1. PICK from : from = [token |-> Head(b.queued).token, behind |-> b.after]
    OBVIOUS
  <2>2. PICK rest : rest = Tail(b.queued)
    OBVIOUS
  <2>3. PICK left : left = [b EXCEPT !.queued = rest]
    OBVIOUS
  <2>4. /\ IsSeq(rest) /\ Head(b.queued) = b.queued[1] /\ 1 \in DOMAIN b.queued
        /\ \A i \in DOMAIN rest : i + 1 \in DOMAIN b.queued /\ rest[i] = b.queued[i + 1]
    BY <1>3, <2>2, TailIs DEF IsPage
  <2>5. IsPage(left)
    BY <2>3, <2>4 DEF IsPage, Fields
  <2>6. PICK started : started = Replace(left, from)
    OBVIOUS
  <2>7. IsPage(started) /\ started.plans = <<>> /\ from.token \in Held(started)
        /\ started.queued = <<>>
    <3>1. from.token \in Held(started)
      BY <2>5, <2>6, ReplacePlain
    <3>2. IsPage(started) /\ started.plans = <<>> /\ started.queued = <<>>
      BY <2>5, <2>6, ReplaceIs
    <3> QED BY <3>1, <3>2
  <2>8. PICK x : x = started.active
    OBVIOUS
  <2>9. PICK c : c = [started EXCEPT !.queued = rest, !.after = x]
    OBVIOUS
  <2>10. Head(b.queued).kind # "move"
    BY <2>4 DEF Plain
  <2>11. StartNext(b) = c
    BY <1>3, <2>1, <2>2, <2>3, <2>6, <2>8, <2>9, <2>10 DEF StartNext, IsPage, Fields
  <2>12. IsPage(c) /\ c.queued = rest /\ c.plans = <<>> /\ c.orders = started.orders
    BY <2>4, <2>7, <2>9 DEF IsPage, Fields
  <2>13. Plain(c)
    BY <2>4, <2>12, EmptyIs DEF Plain
  <2>14. Head(b.queued).token \in Held(c)
    <3>1. Head(b.queued).token = from.token
      BY <2>1
    <3>2. Held(started) \subseteq Held(c)
      BY <2>7, <2>12, EmptyIs DEF Held, ToSet
    <3> QED BY <2>7, <3>1, <3>2
  <2>15. ToSet(b.queued) \subseteq {Head(b.queued)} \cup ToSet(rest)
    <3>1. PICK S : b.queued \in Seq(S)
      BY SeqIs DEF IsPage
    <3>2. /\ Len(b.queued) \in Nat /\ Len(b.queued) # 0 /\ DOMAIN b.queued = 1..Len(b.queued)
      BY <1>3, <3>1, LenProperties, EmptySeq
    <3>3. /\ rest \in Seq(S) /\ Len(rest) = Len(b.queued) - 1
          /\ \A i \in 1..Len(rest) : rest[i] = b.queued[i + 1]
      BY <1>3, <2>2, <3>1, HeadTailProperties
    <3>4. DOMAIN rest = 1..(Len(b.queued) - 1)
      BY <3>3, LenProperties
    <3>5. ASSUME NEW i \in DOMAIN b.queued PROVE b.queued[i] \in {Head(b.queued)} \cup ToSet(rest)
      <4>1. CASE i = 1
        BY <2>4, <4>1
      <4>2. CASE i # 1
        <5>1. i - 1 \in 1..(Len(b.queued) - 1) /\ (i - 1) + 1 = i
          BY <3>2, <3>5, <4>2
        <5> QED BY <3>3, <3>4, <5>1 DEF ToSet
      <4> QED BY <4>1, <4>2
    <3> QED BY <3>5 DEF ToSet
  <2>16. Stays(b, c)
    BY <2>12, <2>14, <2>15 DEF Stays, Held
  <2> QED BY <2>11, <2>12, <2>13, <2>16
<1> QED BY <1>1, <1>2, <1>3

-----------------------------------------------------------------------------
(* How the commands taken up have ended, and what events tell of it.          *)
TellsFate(E, f) == \A e \in E : e.state \in Outcomes /\ ~e.edit => f[e.cmd] = e.state

Ended ==
  /\ fate = [n \in Cmds |-> fate[n]] /\ slot \in {None} \cup Cmds
  /\ \A n \in 1..Taken : n # slot => n \in Cmds /\ fate[n] \in Outcomes
  /\ TellsFate(ToSet(wire) \cup ToSet(gap), fate)

FInv == had \subseteq {"drop"} => Ended

(* The end of the order the queue waits for, when an event drops the queue.   *)
LEMMA LifecycleKeeps ==
  ASSUME NEW t, NEW s, NEW b, Fine(b, t, s), Plain(b), NEW e, e.state # "route", Tells(e, t, s)
  PROVE  /\ Plain(Lifecycle(b, e))
         /\ \/ Stays(b, Lifecycle(b, e))
            \/ b.after # None /\ b.after = e.cmd /\ ~e.edit /\ e.state \in {"canceled", "rejected"}
<1>1. PICK told : told = IF e.edit THEN EditEvent(b, e) ELSE OrderEvent(b, e)
  OBVIOUS
<1>2. Settles(b, told, t, s) /\ Fine(told, t, s)
  BY <1>1, EditEventSettles, OrderEventSettles, SettlesFine
<1>3. PICK x : x = told.pending \ {e.cmd}
  OBVIOUS
<1>4. PICK known : known = [told EXCEPT !.pending = x]
  OBVIOUS
<1>5. /\ IsPage(known) /\ known.queued = b.queued /\ known.plans = b.plans /\ known.after = b.after
      /\ known.orders = b.orders
  BY <1>2, <1>4 DEF Settles, IsPage, Fields
<1>6. Plain(known)
  BY <1>5 DEF Plain
<1>7. PICK next : next = FollowOn(known, e)
  OBVIOUS
<1>8. /\ IsPage(next) /\ Plain(next)
      /\ \/ Stays(known, next)
         \/ known.after = e.cmd /\ ~e.edit /\ e.state \in {"canceled", "rejected"}
  <2>1. Keeps(known, Forget(known, e.cmd))
    BY <1>5, SmallStepsKeep
  <2>2. IsPage(Forget(known, e.cmd)) /\ Plain(Forget(known, e.cmd))
    BY <1>6, <2>1, KeepsPlain DEF Keeps
  <2>3. Stays(known, StartNext(known)) /\ Plain(StartNext(known)) /\ IsPage(StartNext(known))
    BY <1>5, <1>6, StartNextKeeps
  <2> QED BY <1>5, <1>6, <1>7, <2>2, <2>3, SameStays DEF FollowOn, Outcomes
<1>9. Lifecycle(b, e) \in {Revise(next), Reconcile(Revise(next), FALSE)}
  BY <1>1, <1>2, <1>3, <1>4, <1>7 DEF Lifecycle, Fine, IsPage, Fields
<1>10. /\ Lifecycle(b, e).queued = next.queued /\ Lifecycle(b, e).orders = next.orders
       /\ Lifecycle(b, e).plans = next.plans
  <2>1. PICK c : c = Revise(next)
    OBVIOUS
  <2>2. /\ IsPage(c) /\ c.queued = next.queued /\ c.orders = next.orders /\ c.plans = next.plans
    BY <1>8, <2>1, RevisedIs
  <2>3. PICK d : d = Reconcile(c, FALSE)
    OBVIOUS
  <2>4. d.queued = c.queued /\ d.orders = c.orders /\ d.plans = c.plans
    BY <2>2, <2>3, RevisedIs
  <2> QED BY <1>9, <2>1, <2>2, <2>3, <2>4
<1>11. e.cmd # None
  BY TakenIds DEF Tells
<1> QED BY <1>5, <1>8, <1>10, <1>11 DEF Plain, Stays, Held

(* A handshake drops the queue when the unit is at another order than the one *)
(* that is waited for, which is over, then.                                   *)
LEMMA ReconciledKeeps ==
  ASSUME NEW t, NEW s, NEW b, Fine(b, t, s), Plain(b), NEW r, GoodRoute(r, t),
         s \in {None, r.root} \cup b.pending
  PROVE  /\ Plain(Reconciled(b, r))
         /\ \/ Stays(b, Reconciled(b, r))
            \/ /\ b.after # None /\ Over(b.after, t, s) /\ r.root \notin {None, b.after}
               /\ Reconciled(b, r).active = r.root
<1>1. PICK told : told = Handshake(b, r)
  OBVIOUS
<1>2. Keeps(b, told) /\ IsPage(b) /\ IsPage(told) /\ Plain(told)
  BY <1>1, RoutesKeep, KeepsPlain DEF Fine, Keeps
<1>3. Stays(told, StartNext(told)) /\ Plain(StartNext(told)) /\ IsPage(StartNext(told))
  BY <1>2, StartNextKeeps
<1>4. PICK next : /\ Reconciled(b, r) = Revise(next)
                  /\ next = IF told.active = None /\ told.queued # <<>> THEN StartNext(told) ELSE told
  BY <1>1 DEF Reconciled
<1>5. IsPage(next) /\ Plain(next) /\ Stays(told, next)
  BY <1>2, <1>3, <1>4, SameStays
<1>6. /\ Reconciled(b, r).queued = next.queued /\ Reconciled(b, r).orders = next.orders
      /\ Reconciled(b, r).plans = next.plans /\ Reconciled(b, r).active = next.active
  BY <1>4, <1>5, RevisedIs
<1>7. Plain(Reconciled(b, r)) /\ Stays(told, Reconciled(b, r))
  BY <1>5, <1>6 DEF Plain, Stays, Held
<1>8. CASE told.queued = b.queued
  BY <1>7, <1>8 DEF Stays
<1>9. CASE told.queued # b.queued
  <2>1. ~(b.active # None /\ b.active \in b.pending)
    BY <1>1, <1>9 DEF Handshake
  <2>2. r.root # None
    <3>1. r.root = None => told = Clear(b)
      BY <1>1, <2>1 DEF Handshake
    <3>2. Clear(b).queued = b.queued
      BY <1>2 DEF Clear, IsPage, Fields
    <3> QED BY <1>9, <3>1, <3>2
  <2>3. ASSUME NEW c, IsPage(c) PROVE LET d == Retire([c EXCEPT !.active = r.root], r.last) IN
                                      d.queued = c.queued /\ d.active = r.root
    BY <2>3 DEF Retire, IsPage, Fields
  <2>4. b.after \notin {None, r.root}
    BY <1>1, <1>2, <1>9, <2>1, <2>2, <2>3 DEF Handshake
  <2>5. told.active = r.root
    <3>1. IsPage(Forget(b, b.after))
      BY <1>2, SmallStepsKeep DEF Keeps
    <3>2. told = Retire([Forget(b, b.after) EXCEPT !.active = r.root], r.last)
      BY <1>1, <2>1, <2>2, <2>4 DEF Handshake
    <3> QED BY <2>3, <3>1, <3>2
  <2>6. b.after \notin b.pending \/ Over(b.after, t, s)
    BY <2>1, <2>4 DEF Fine, AfterKnown
  <2>7. Over(b.after, t, s)
    <3>1. CASE b.after \notin b.pending
      <4>1. b.after \in 1..t
        BY <2>4, <3>1, TakenIds DEF Fine
      <4>2. b.after # s
        BY <2>4, <3>1
      <4> QED BY <4>1, <4>2 DEF Over
    <3> QED BY <2>6, <3>1
  <2> QED BY <1>4, <1>6, <1>7, <2>2, <2>4, <2>5, <2>7
<1> QED BY <1>8, <1>9

LEMMA RoutesKeepQueue ==
  ASSUME NEW t, NEW s, NEW b, Fine(b, t, s), NEW r, GoodRoute(r, t)
  PROVE  /\ \A n \in {None} \cup 1..t : MoveDelta(b, r, n).queued = b.queued
         /\ MoveSnapshot(b, r).queued = b.queued
<1>1. ASSUME NEW c, Settles(b, c, t, s) PROVE Revise(Updated(c, r)).queued = b.queued
  <2>1. Fine(c, t, s) /\ Settles(c, Updated(c, r), t, s)
    BY <1>1, SettlesFine, UpdatedSettles
  <2>2. IsPage(Updated(c, r)) /\ Updated(c, r).queued = b.queued
    BY <1>1, <2>1 DEF Settles
  <2> QED BY <2>2, RevisedIs
<1>2. \A n \in {None} \cup 1..t : MoveDelta(b, r, n).queued = b.queued
  BY <1>1, RemovedSettles DEF MoveDelta
<1>3. PICK c : c = IF r.root = None /\ IsMove(b, b.active) /\ b.active \notin b.pending THEN Clear(b) ELSE b
  OBVIOUS
<1>4. Settles(b, c, t, s)
  BY <1>3, ClearSettles, SettlesAll DEF Leaves
<1>5. MoveSnapshot(b, r) = Revise(Updated(c, r))
  BY <1>3 DEF MoveSnapshot
<1> QED BY <1>1, <1>2, <1>4, <1>5

-----------------------------------------------------------------------------
(* The fate of commands, step by step.                                        *)

LEMMA EndedStep ==
  ASSUME Ended, Taken' = Taken, UNCHANGED <<slot, gap, fate>>,
         ToSet(wire') \subseteq ToSet(wire) \cup ToSet(gap)
  PROVE  Ended'
BY DEF Ended, TellsFate

LEMMA EndedEngine ==
  ASSUME Current, Ended, NEW es, Publish(es), IsSeq(es),
         fate' = [n \in Cmds |-> fate'[n]], slot' \in {None} \cup Cmds,
         \A n \in 1..Taken : n # slot => fate'[n] = fate[n],
         \A n \in 1..Taken' : n # slot' => (n \in 1..Taken /\ n # slot) \/ (n \in Cmds /\ fate'[n] \in Outcomes),
         TellsFate(ToSet(es), fate')
  PROVE  Ended'
<1>1. IsSeq(wire) /\ IsSeq(gap)
  BY DEF Current, Told, AllTell
<1>2. /\ ToSet(wire') \subseteq ToSet(wire) \cup ToSet(es)
      /\ ToSet(gap') \subseteq ToSet(gap) \cup ToSet(es)
  BY <1>1, ConcatElements DEF Publish
<1>3. \A e \in ToSet(wire) \cup ToSet(gap) : e.state \in Outcomes /\ ~e.edit => e.cmd \in 1..Taken /\ e.cmd # slot
  BY DEF Current, Told, AllTell, Tells, Outcomes
<1>4. TellsFate(ToSet(wire) \cup ToSet(gap), fate')
  BY <1>3 DEF Ended, TellsFate
<1>5. TellsFate(ToSet(wire') \cup ToSet(gap'), fate')
  BY <1>2, <1>4 DEF TellsFate
<1>6. \A n \in 1..Taken' : n # slot' => n \in Cmds /\ fate'[n] \in Outcomes
  BY DEF Ended
<1> QED BY <1>5, <1>6 DEF Ended

(* Events that tell of no end, or of the one there was.                       *)
LEMMA TellsIt ==
  ASSUME NEW f, NEW n, NEW x, NEW edit, edit \/ f[n] = x \/ x = "accepted"
  PROVE  TellsFate({Event(n, x, edit)}, f)
BY DEF TellsFate, Event, Outcomes

LEMMA ListTells ==
  ASSUME NEW f, NEW d, NEW e, TellsFate({d}, f), TellsFate({e}, f)
  PROVE  /\ IsSeq(<<e>>) /\ TellsFate(ToSet(<<e>>), f)
         /\ IsSeq(<<d, e>>) /\ TellsFate(ToSet(<<d, e>>), f)
BY ListsElements DEF TellsFate

LEMMA EngineEnded == ASSUME Current, Ended, Engine PROVE Ended'
<1>1. Taken \in Nat /\ slot \in {None} \cup 1..Taken
  BY TakenIs
<1>2. UNCHANGED <<page, posted>>
  BY DEF Engine, Refuse, EditRoute, Start, End, PublishDelta, Snapshot
<1>3. inbox' = inbox => Taken' = Taken
  BY <1>2 DEF Taken, Posted, Lead
<1>4. fate = [m \in Cmds |-> fate[m]] /\ slot \in {None} \cup Cmds
  BY DEF Ended
<1>5. ASSUME NEW n, TakeUp(n)
      PROVE  /\ Taken' = n /\ n \notin 1..Taken /\ \A m \in 1..n : m = n \/ m \in 1..Taken
  <2>1. n = Taken + 1 /\ Taken' = n
    BY <1>2, <1>5, TakeUpIs
  <2> QED BY <1>1, <2>1
<1>6. ASSUME NEW n \in Cmds, NEW x PROVE LET f == [fate EXCEPT ![n] = x] IN
             f = [m \in Cmds |-> f[m]] /\ f[n] = x /\ \A m \in Cmds : m # n => f[m] = fate[m]
  BY <1>4
<1>7. \A m \in 1..Taken : m # slot => m \in Cmds
  BY DEF Ended
<1>8. ASSUME NEW n \in Cmds, Refuse(n) PROVE Ended'
  <2>1. PICK edit \in BOOLEAN : Publish(<<Event(n, "rejected", edit)>>)
    BY <1>8 DEF Refuse
  <2>2. TakeUp(n) /\ fate' = [fate EXCEPT ![n] = "rejected"] /\ slot' = slot
    BY <1>8 DEF Refuse
  <2>3. /\ fate' = [m \in Cmds |-> fate'[m]] /\ fate'[n] = "rejected"
        /\ \A m \in Cmds : m # n => fate'[m] = fate[m]
    BY <1>6, <2>2
  <2>4. IsSeq(<<Event(n, "rejected", edit)>>) /\ TellsFate(ToSet(<<Event(n, "rejected", edit)>>), fate')
    <3>1. TellsFate({Event(n, "rejected", edit)}, fate')
      BY <2>3, TellsIt
    <3> QED BY <3>1, ListTells
  <2>5. \A m \in 1..Taken : m # slot => fate'[m] = fate[m]
    BY <1>5, <1>7, <2>2, <2>3
  <2>6. \A m \in 1..Taken' : m # slot' => (m \in 1..Taken /\ m # slot) \/ (m \in Cmds /\ fate'[m] \in Outcomes)
    BY <1>5, <2>2, <2>3 DEF Outcomes
  <2> QED BY <1>4, <2>1, <2>2, <2>3, <2>4, <2>5, <2>6, EndedEngine
<1>9. ASSUME NEW n \in Cmds, EditRoute(n) PROVE Ended'
  <2>1. PICK es : es = <<Event(n, "accepted", TRUE), Event(n, "finished", TRUE)>>
    OBVIOUS
  <2>2. TakeUp(n) /\ fate' = [fate EXCEPT ![n] = "finished"] /\ slot' = slot /\ Publish(es)
    BY <1>9, <2>1 DEF EditRoute
  <2>3. /\ fate' = [m \in Cmds |-> fate'[m]] /\ fate'[n] = "finished"
        /\ \A m \in Cmds : m # n => fate'[m] = fate[m]
    BY <1>6, <2>2
  <2>4. IsSeq(es) /\ TellsFate(ToSet(es), fate')
    <3>1. TellsFate({Event(n, "accepted", TRUE)}, fate') /\ TellsFate({Event(n, "finished", TRUE)}, fate')
      BY TellsIt
    <3> QED BY <2>1, <3>1, ListTells
  <2>5. \A m \in 1..Taken : m # slot => fate'[m] = fate[m]
    BY <1>5, <1>7, <2>2, <2>3
  <2>6. \A m \in 1..Taken' : m # slot' => (m \in 1..Taken /\ m # slot) \/ (m \in Cmds /\ fate'[m] \in Outcomes)
    BY <1>5, <2>2, <2>3 DEF Outcomes
  <2> QED BY <1>4, <2>2, <2>3, <2>4, <2>5, <2>6, EndedEngine
<1>10. ASSUME NEW n \in Cmds, Start(n) PROVE Ended'
  <2>1. PICK es : es = IF slot = None THEN <<>> ELSE <<Event(slot, "canceled", FALSE)>>
    OBVIOUS
  <2>2. PICK all : all = es \o <<Event(n, "accepted", FALSE)>>
    OBVIOUS
  <2>3. TakeUp(n) /\ slot' = n /\ Publish(all)
        /\ fate' = IF slot = None THEN fate ELSE [fate EXCEPT ![slot] = "canceled"]
    BY <1>10, <2>1, <2>2 DEF Start
  <2>4. /\ fate' = [m \in Cmds |-> fate'[m]] /\ (slot # None => fate'[slot] = "canceled")
        /\ \A m \in Cmds : m # slot => fate'[m] = fate[m]
    BY <1>4, <1>6, <2>3
  <2>5. IsSeq(es) /\ TellsFate(ToSet(es), fate')
    <3>1. CASE slot = None
      BY <2>1, <3>1, EmptyIs DEF TellsFate, ToSet
    <3>2. CASE slot # None
      <4>1. TellsFate({Event(slot, "canceled", FALSE)}, fate')
        BY <2>4, <3>2, TellsIt
      <4> QED BY <2>1, <3>2, <4>1, ListTells
    <3> QED BY <3>1, <3>2
  <2>6. PICK one : one = <<Event(n, "accepted", FALSE)>>
    OBVIOUS
  <2>7. IsSeq(one) /\ TellsFate(ToSet(one), fate')
    <3>1. TellsFate({Event(n, "accepted", FALSE)}, fate')
      BY TellsIt
    <3> QED BY <2>6, <3>1, ListTells
  <2>8. IsSeq(all) /\ TellsFate(ToSet(all), fate')
    BY <2>2, <2>5, <2>6, <2>7, ConcatElements DEF TellsFate
  <2>9. \A m \in 1..Taken : m # slot => fate'[m] = fate[m]
    BY <1>7, <2>4
  <2>10. \A m \in 1..Taken' : m # slot' => (m \in 1..Taken /\ m # slot) \/ (m \in Cmds /\ fate'[m] \in Outcomes)
    <3>1. \A m \in 1..n : m # n => m \in 1..Taken /\ m # None
      BY <1>5, <2>3, OrderQueueAssumption
    <3>2. Taken' = n
      BY <1>5, <2>3
    <3>3. slot # None => slot \in Cmds /\ fate'[slot] \in Outcomes
      BY <1>4, <2>4 DEF Outcomes
    <3> QED BY <2>3, <3>1, <3>2, <3>3
  <2> QED BY <2>3, <2>4, <2>8, <2>9, <2>10, EndedEngine
<1>11. ASSUME NEW x \in {"finished", "canceled"}, End(x) PROVE Ended'
  <2>1. PICK es : es = <<Event(slot, x, FALSE)>>
    OBVIOUS
  <2>2. slot # None /\ slot' = None /\ Publish(es) /\ fate' = [fate EXCEPT ![slot] = x] /\ inbox' = inbox
    BY <1>11, <2>1 DEF End
  <2>3. /\ fate' = [m \in Cmds |-> fate'[m]] /\ fate'[slot] = x /\ slot \in Cmds
        /\ \A m \in Cmds : m # slot => fate'[m] = fate[m]
    BY <1>4, <1>6, <2>2
  <2>4. IsSeq(es) /\ TellsFate(ToSet(es), fate')
    <3>1. TellsFate({Event(slot, x, FALSE)}, fate')
      BY <2>3, TellsIt
    <3> QED BY <2>1, <3>1, ListTells
  <2>5. \A m \in 1..Taken : m # slot => fate'[m] = fate[m]
    BY <1>7, <2>3
  <2>6. \A m \in 1..Taken' : m # slot' => (m \in 1..Taken /\ m # slot) \/ (m \in Cmds /\ fate'[m] \in Outcomes)
    BY <1>3, <1>11, <2>2, <2>3 DEF Outcomes
  <2> QED BY <2>2, <2>3, <2>4, <2>5, <2>6, EndedEngine
<1>12. CASE PublishDelta
  <2>1. PICK e : e.state = "route" /\ Publish(<<e>>)
    <3>1. PICK e : e = [state |-> "route", route |-> Route,
                        gone |-> IF Route.root = shown.root THEN None ELSE shown.root]
      OBVIOUS
    <3>2. e.state = "route" /\ Publish(<<e>>)
      BY <1>12, <3>1 DEF PublishDelta
    <3> QED BY <3>2
  <2>2. UNCHANGED <<inbox, slot, fate>>
    BY <1>12 DEF PublishDelta
  <2>3. IsSeq(<<e>>) /\ TellsFate(ToSet(<<e>>), fate')
    <3>1. TellsFate({e}, fate')
      BY <2>1 DEF TellsFate, Outcomes
    <3> QED BY <3>1, ListTells
  <2> QED BY <1>3, <1>4, <2>1, <2>2, <2>3, EndedEngine
<1>13. CASE Snapshot
  <2>1. UNCHANGED <<wire, inbox, slot, fate>>
        /\ (gap' = <<>> \/ \E i \in DOMAIN gap : gap' = SubSeq(gap, i + 1, Len(gap)))
    BY <1>13 DEF Snapshot
  <2>2. ToSet(gap') \subseteq ToSet(gap)
    <3>1. IsSeq(gap)
      BY DEF Current, Told, AllTell
    <3>2. ToSet(<<>>) = {}
      BY EmptyIs DEF ToSet
    <3>3. ASSUME NEW i \in DOMAIN gap, gap' = SubSeq(gap, i + 1, Len(gap)) PROVE ToSet(gap') \subseteq ToSet(gap)
      BY <3>1, <3>3, SuffixElements
    <3> QED BY <2>1, <3>2, <3>3
  <2> QED BY <1>3, <2>1, <2>2 DEF Ended, TellsFate
<1> QED BY <1>8, <1>9, <1>10, <1>11, <1>12, <1>13 DEF Engine

LEMMA NextEnded == ASSUME IInv, WInv, FInv, [Next]_vars PROVE FInv'
<1>1. had \subseteq had'
  BY DEF Next, vars, Trouble, Player, OrderMove, QueueWork, OrderWork, Planned, Posting, PostArrives, PostAnswered,
     PostFails, Stream, Open, Bootstrap, Deliver, OtherUnit, Calling, Answer, TakeAnswer, CallFails,
     Engine, Refuse, EditRoute, Start, End, PublishDelta, Snapshot, Drop, Reload
<1>2. CASE Reload \/ PostFails \/ \E c \in page.calls : CallFails(c)
  BY <1>2, OtherTroubles DEF FInv
<1>3. CASE UNCHANGED vars
  BY <1>3 DEF vars, server, FInv, Ended, Taken, Posted, Lead
<1>4. CASE Engine
  BY <1>1, <1>4, EngineEnded DEF WInv, FInv
<1>5. CASE Player \/ PostArrives \/ PostAnswered \/ Stream \/ Drop
           \/ \E c \in page.calls : Answer(c) \/ TakeAnswer(c)
  <2>1. SUFFICES ASSUME Current, Ended PROVE Ended'
    BY <1>1 DEF WInv, FInv
  <2>2. Taken' = Taken
    BY <1>5, <2>1, PlayerCurrent, PostCurrent, StreamCurrent, DropCurrent, AnswerCurrent
  <2>3. UNCHANGED <<slot, gap, fate>>
    BY <1>5 DEF server, Player, OrderMove, QueueWork, OrderWork, Planned, PostArrives, PostAnswered,
       Stream, Open, Bootstrap, Deliver, OtherUnit, Answer, TakeAnswer, Drop
  <2>4. wire' \in {wire, gap, <<>>} \/ (wire # <<>> /\ wire' = Tail(wire))
    BY <1>5 DEF server, Player, OrderMove, QueueWork, OrderWork, Planned, PostArrives, PostAnswered,
       Stream, Open, Bootstrap, Deliver, OtherUnit, Answer, TakeAnswer, Drop
  <2>5. ToSet(wire') \subseteq ToSet(wire) \cup ToSet(gap)
    <3>1. IsSeq(wire)
      BY <2>1 DEF Current, Told, AllTell
    <3>2. ToSet(<<>>) = {}
      BY EmptyIs DEF ToSet
    <3>3. wire # <<>> => ToSet(Tail(wire)) \subseteq ToSet(wire)
      BY <3>1, TailElements
    <3> QED BY <2>4, <3>2, <3>3
  <2> QED BY <2>1, <2>2, <2>3, <2>5, EndedStep
<1> QED BY <1>2, <1>3, <1>4, <1>5 DEF Next, Posting, Calling

LEMMA InitEnded == ASSUME Init PROVE FInv
<1>1. /\ page.orders = <<>> /\ page.chain = <<>> /\ posted = FALSE /\ wire = <<>> /\ gap = <<>>
      /\ inbox = <<>> /\ slot = None /\ fate = [n \in Cmds |-> "none"]
  BY DEF Init
<1>2. Len(<<>>) = 0 /\ ToSet(<<>>) = {}
  BY EmptyIs DEF ToSet
<1>3. Taken = 0 /\ 1..0 = {}
  BY <1>1, <1>2 DEF Taken, Posted, Lead
<1> QED BY <1>1, <1>2, <1>3 DEF FInv, Ended, TellsFate

-----------------------------------------------------------------------------
(* What the player's orders and the planner do to the queue.                  *)

LEMMA OrderGiven ==
  ASSUME NEW b, IsPage(b), NEW o, NEW c, c.orders = Append(b.orders, o)
  PROVE  \E n \in DOMAIN c.orders \ DOMAIN b.orders : c.orders[n] = o
<1>1. /\ Len(b.orders) \in Nat /\ DOMAIN b.orders = 1..Len(b.orders)
      /\ DOMAIN c.orders = 1..(Len(b.orders) + 1) /\ c.orders[Len(b.orders) + 1] = o
  BY AppendIs DEF IsPage
<1>2. Len(b.orders) + 1 \in DOMAIN c.orders /\ Len(b.orders) + 1 \notin DOMAIN b.orders
  BY <1>1
<1> QED BY <1>1, <1>2

LEMMA MovePlain ==
  ASSUME NEW b, IsPage(b), Plain(b), NEW p, ~DefersMove(b, p)
  PROVE  LET c == MoveCommand(b, p, User) IN Plain(c) /\ c.queued = b.queued
<1>1. PICK o : o = [policy |-> p, from |-> User]
  OBVIOUS
<1>2. PICK q : q = IF p = "replace" THEN <<>> ELSE b.plans
  OBVIOUS
<1>3. PICK r : r = Append(q, o)
  OBVIOUS
<1>4. PICK c : c = MoveCommand(b, p, User)
  OBVIOUS
<1>5. c.plans = r /\ c.queued = b.queued
  BY <1>1, <1>2, <1>3, <1>4 DEF MoveCommand, CancelPlans, IsPage, Fields
<1>6. IsSeq(q) /\ \A i \in DOMAIN q : q[i].from = User
  BY <1>2, EmptyIs DEF IsPage, Plain
<1>7. \A i \in DOMAIN r : r[i].from = User
  <2>1. /\ Len(q) \in Nat /\ DOMAIN q = 1..Len(q) /\ DOMAIN r = 1..(Len(q) + 1)
        /\ r[Len(q) + 1] = o /\ \A i \in DOMAIN q : r[i] = q[i]
    BY <1>3, <1>6, AppendIs
  <2>2. \A i \in DOMAIN r : i \in DOMAIN q \/ i = Len(q) + 1
    BY <2>1
  <2> QED BY <1>1, <1>6, <2>1, <2>2
<1> QED BY <1>4, <1>5, <1>7 DEF Plain

LEMMA PlannedPlain ==
  ASSUME NEW b, IsPage(b), Plain(b), NEW p, ~DefersMove(b, p)
  PROVE  LET c == PlannedMove(b, p, User) IN
           Plain(c) /\ \E n \in DOMAIN c.orders \ DOMAIN b.orders : c.orders[n].from = User
<1>1. PICK m : m = [cmd |-> NextSeq(b), finished |-> FALSE]
  OBVIOUS
<1>2. PICK x : x = NextSeq(b)
  OBVIOUS
<1>3. PICK y : y = b.moves \cup {m}
  OBVIOUS
<1>4. PICK d : d = IF p = "replace" THEN [b EXCEPT !.queued = <<>>, !.after = None, !.active = x, !.moves = {m}]
                                    ELSE [b EXCEPT !.moves = y]
  OBVIOUS
<1>5. PICK c : c = Submit(d, "move", p, User)
  OBVIOUS
<1>6. PlannedMove(b, p, User) = c
  BY <1>1, <1>2, <1>3, <1>4, <1>5 DEF PlannedMove, IsPage, Fields
<1>7. Keeps(b, d) /\ IsPage(d) /\ d.orders = b.orders /\ Plain(d)
  <2>1. Keeps(b, [b EXCEPT !.queued = <<>>, !.after = None, !.active = x, !.moves = {m}])
    BY NoQueue
  <2>2. Keeps(b, [b EXCEPT !.moves = y])
    BY SmallStepsKeep
  <2>3. Keeps(b, d)
    BY <1>4, <2>1, <2>2
  <2> QED BY <2>3, KeepsPlain DEF Keeps
<1>8. PICK o : o = [kind |-> "move", policy |-> p, from |-> User]
  OBVIOUS
<1>9. c.orders = Append(b.orders, o) /\ c.queued = d.queued /\ c.plans = d.plans
  BY <1>5, <1>7, <1>8, SubmitIs
<1>10. Plain(c)
  BY <1>7, <1>9 DEF Plain
<1>11. \E n \in DOMAIN c.orders \ DOMAIN b.orders : c.orders[n] = o
  BY <1>9, OrderGiven
<1> QED BY <1>6, <1>8, <1>10, <1>11

LEMMA PlayerKeeps ==
  ASSUME QueuedMoves = FALSE, IInv, Plain(page), Player
  PROVE  Plain(page') /\ (Stays(page, page') \/ PlayerActs)
<1>1. IsPage(page) /\ page.tokens \in Nat
  BY DEF IInv, Ordered, Numbered
<1>2. Plain(Replace(page, User)) /\ (page' = Replace(page, User) => PlayerActs)
  BY <1>1, ReplacePlain DEF PlayerActs, New
<1>3. ASSUME NEW p \in Policies, OrderMove(p) PROVE Plain(page') /\ Stays(page, page')
  <2>1. ~DefersMove(page, p) /\ page' = MoveCommand(page, p, User)
    BY <1>3 DEF OrderMove
  <2>2. Plain(page') /\ page'.queued = page.queued
    BY <1>1, <2>1, MovePlain
  <2> QED BY <2>2, SameStays
<1>4. ASSUME NEW p \in Policies, QueueWork(p) PROVE Plain(page') /\ PlayerActs
  <2>1. page' \in {DeferOrder(page, "work", p = "clear"), Replace(page, User)}
    BY <1>4 DEF QueueWork
  <2>2. CASE page' = DeferOrder(page, "work", p = "clear")
    <3>1. (p = "clear") \in BOOLEAN /\ "work" # "move"
      OBVIOUS
    <3>2. Plain(page') /\ page'.tokens = page.tokens + 1
      BY <1>1, <2>2, <3>1, DeferPlain
    <3> QED BY <1>1, <3>2 DEF PlayerActs
  <2> QED BY <1>2, <2>1, <2>2
<1>5. CASE Planned
  <2>1. PICK q : q = Tail(page.plans)
    OBVIOUS
  <2>2. PICK b : b = [page EXCEPT !.plans = q]
    OBVIOUS
  <2>3. PICK p : p = Head(page.plans)
    OBVIOUS
  <2>4. /\ page.plans # <<>>
        /\ page' = b \/ (~DefersMove(b, p.policy) /\ page' = PlannedMove(b, p.policy, p.from))
    BY <1>1, <1>5, <2>1, <2>2, <2>3 DEF Planned, IsPage, Fields
  <2>5. IsSeq(q) /\ p.from = User /\ \A i \in DOMAIN q : q[i].from = User
    <3>1. IsSeq(page.plans) /\ page.plans # <<>>
      BY <1>1, <2>4 DEF IsPage
    <3>2. /\ IsSeq(q) /\ p = page.plans[1] /\ 1 \in DOMAIN page.plans
          /\ \A i \in DOMAIN q : i + 1 \in DOMAIN page.plans /\ q[i] = page.plans[i + 1]
      BY <2>1, <2>3, <3>1, TailIs
    <3> QED BY <3>2 DEF Plain
  <2>6. b.queued = page.queued /\ b.plans = q /\ b.orders = page.orders /\ IsPage(b)
    BY <1>1, <2>2, <2>5 DEF IsPage, Fields
  <2>7. Plain(b)
    BY <2>5, <2>6 DEF Plain
  <2>8. CASE page' = b
    BY <2>6, <2>7, <2>8, SameStays
  <2>9. CASE ~DefersMove(b, p.policy) /\ page' = PlannedMove(b, p.policy, p.from)
    <3>1. Plain(page') /\ \E n \in DOMAIN page'.orders \ DOMAIN b.orders : page'.orders[n].from = User
      BY <2>5, <2>6, <2>7, <2>9, PlannedPlain
    <3> QED BY <2>6, <3>1 DEF PlayerActs, New
  <2> QED BY <2>4, <2>8, <2>9
<1> QED BY <1>2, <1>3, <1>4, <1>5 DEF Player, OrderWork

-----------------------------------------------------------------------------
(* What is heard, asked and answered.                                         *)

LEMMA HeardKeeps ==
  ASSUME Current, Ended, Plain(page), wire # <<>>, page' = Heard(page, Head(wire))
  PROVE  Plain(page') /\ (Stays(page, page') \/ GivenUp)
<1>1. PICK e : e = Head(wire)
  OBVIOUS
<1>2. IsSeq(wire) /\ Fine(page, Taken, slot) /\ IsPage(page)
  BY DEF Current, Told, AllTell, Fine
<1>3. e \in ToSet(wire)
  BY <1>1, <1>2, TailElements
<1>4. Tells(e, Taken, slot) /\ (e.state \in Outcomes /\ ~e.edit => fate[e.cmd] = e.state)
  BY <1>3 DEF Current, Told, AllTell, Ended, TellsFate
<1>5. CASE e.state = "route"
  <2>1. page' = MoveDelta(page, e.route, e.gone)
    BY <1>1, <1>5 DEF Heard
  <2>2. GoodRoute(e.route, Taken) /\ e.gone \in {None} \cup 1..Taken
    BY <1>4, <1>5 DEF Tells
  <2>3. page'.queued = page.queued
    BY <1>2, <2>1, <2>2, RoutesKeepQueue
  <2>4. Keeps(page, page')
    BY <1>2, <2>1, RoutesKeep
  <2> QED BY <2>3, <2>4, KeepsPlain, SameStays
<1>6. CASE e.state # "route"
  <2>1. page' = Lifecycle(page, e)
    BY <1>1, <1>6 DEF Heard
  <2>2. /\ Plain(page')
        /\ \/ Stays(page, page')
           \/ page.after # None /\ page.after = e.cmd /\ ~e.edit /\ e.state \in {"canceled", "rejected"}
    BY <1>2, <1>4, <1>6, <2>1, LifecycleKeeps
  <2> QED BY <1>4, <2>2 DEF GivenUp, Outcomes
<1> QED BY <1>5, <1>6

LEMMA RevisedCalls ==
  ASSUME NEW b, IsPage(b), \A c \in Revise(b).calls : IsCall(c)
  PROVE  \A c \in Revise(b).calls : ~c.fresh
<1>1. Revise(b).calls = {[c EXCEPT !.fresh = FALSE] : c \in b.calls}
  BY DEF Revise, IsPage, Fields
<1>2. ASSUME NEW c \in b.calls, IsCall([c EXCEPT !.fresh = FALSE]) PROVE ~[c EXCEPT !.fresh = FALSE].fresh
  BY <1>2 DEF IsCall
<1> QED BY <1>1, <1>2

LEMMA AnswerKeeps ==
  ASSUME Current, Ended, Plain(page), NEW c \in page.calls, Answer(c) \/ TakeAnswer(c)
  PROVE  Plain(page') /\ (Stays(page, page') \/ GivenUp)
<1>1. Fine(page, Taken, slot) /\ IsPage(page) /\ Heeded(page, slot) /\ IsCall(c) /\ (c.answered => GoodRoute(c, Taken))
  BY DEF Current, Fine
<1>2. ASSUME NEW x PROVE LET b == [page EXCEPT !.calls = x] IN
        b.queued = page.queued /\ b.plans = page.plans /\ b.pending = page.pending /\ b.after = page.after
  BY <1>1 DEF IsPage, Fields
<1>3. PICK x : x = page.calls \ {c}
  OBVIOUS
<1>4. PICK b : b = [page EXCEPT !.calls = x]
  OBVIOUS
<1>5. \/ \E y : page' = [page EXCEPT !.calls = y]
      \/ c.answered /\ c.fresh /\ page' = Reconciled(b, c)
  <2>1. CASE Answer(c)
    BY <1>1, <2>1 DEF Answer, IsPage, Fields
  <2>2. CASE TakeAnswer(c)
    <3>1. PICK y : y = x \cup {[c EXCEPT !.fresh = TRUE, !.retry = FALSE, !.answered = FALSE,
                                         !.root = None, !.last = None]}
      OBVIOUS
    <3>2. \/ c.answered /\ c.fresh /\ page' = Reconciled(b, c)
          \/ page' = [page EXCEPT !.calls = y]
          \/ page' = b
      BY <1>1, <1>3, <1>4, <2>2, <3>1 DEF TakeAnswer, IsPage, Fields
    <3> QED BY <1>4, <3>2
  <2> QED BY <2>1, <2>2
<1>6. ASSUME NEW y, page' = [page EXCEPT !.calls = y] PROVE Plain(page') /\ Stays(page, page')
  BY <1>2, <1>6, SameStays DEF Plain
<1>7. CASE c.answered /\ c.fresh /\ page' = Reconciled(b, c)
  <2>1. \A z \in x : IsCall(z) /\ (z.answered => GoodRoute(z, Taken))
    BY <1>1, <1>3 DEF Fine
  <2>2. Fine(b, Taken, slot)
    BY <1>1, <1>4, <2>1, CallsSend DEF Sends
  <2>3. /\ b.queued = page.queued /\ b.plans = page.plans /\ b.pending = page.pending /\ b.after = page.after
        /\ Plain(b)
    BY <1>2, <1>4 DEF Plain
  <2>4. slot \in {None, c.root} \cup b.pending
    BY <1>1, <1>7, <2>3 DEF Heeded
  <2>5. /\ Plain(page')
        /\ \/ Stays(b, page')
           \/ /\ b.after # None /\ Over(b.after, Taken, slot) /\ c.root \notin {None, b.after}
              /\ page'.active = c.root
    BY <1>1, <1>7, <2>2, <2>3, <2>4, ReconciledKeeps
  <2>6. CASE Stays(b, page')
    BY <2>3, <2>5, <2>6 DEF Stays
  <2>7. CASE /\ b.after # None /\ Over(b.after, Taken, slot) /\ c.root \notin {None, b.after}
             /\ page'.active = c.root
    <3>1. fate[page.after] \in Outcomes
      BY <2>3, <2>7 DEF Ended, Over
    <3>2. c \notin page'.calls
      <4>1. \A z \in page'.calls : IsCall(z)
        BY AnswerCurrent DEF Current, Fine
      <4>2. PICK d : page' = Revise(d) /\ IsPage(d)
        <5>1. PICK told : told = Handshake(b, c)
          OBVIOUS
        <5>2. IsPage(b) /\ IsPage(told)
          BY <2>2, <5>1, RoutesKeep DEF Fine, Keeps
        <5>3. IsPage(StartNext(told))
          BY <2>3, <5>1, <5>2, RoutesKeep, KeepsPlain, StartNextKeeps
        <5>4. PICK d : d = IF told.active = None /\ told.queued # <<>> THEN StartNext(told) ELSE told
          OBVIOUS
        <5>5. page' = Revise(d) /\ IsPage(d)
          BY <1>7, <5>1, <5>2, <5>3, <5>4 DEF Reconciled
        <5> QED BY <5>5
      <4> QED BY <1>7, <4>1, <4>2, RevisedCalls
    <3>3. TakenOver
      BY <1>7, <2>3, <2>7, <3>2 DEF TakenOver
    <3> QED BY <2>3, <2>5, <2>7, <3>1, <3>3 DEF GivenUp, Outcomes
  <2> QED BY <2>5, <2>6, <2>7
<1> QED BY <1>5, <1>6, <1>7

LEMMA StreamKeeps ==
  ASSUME Current, Ended, Plain(page), Stream PROVE Plain(page') /\ (Stays(page, page') \/ GivenUp)
<1>1. Fine(page, Taken, slot) /\ IsPage(page) /\ GoodRoute(stored, Taken)
  BY DEF Current, Fine, Told
<1>2. CASE Open
  <2>1. page'.queued = page.queued /\ page'.plans = page.plans
    BY <1>1, <1>2, RevisedIs DEF Open
  <2> QED BY <2>1, SameStays DEF Plain
<1>3. CASE Bootstrap
  <2>1. page' = MoveSnapshot(page, stored)
    BY <1>3 DEF Bootstrap
  <2>2. page'.queued = page.queued
    BY <1>1, <2>1, RoutesKeepQueue
  <2>3. Keeps(page, page')
    BY <1>1, <2>1, RoutesKeep
  <2> QED BY <2>2, <2>3, KeepsPlain, SameStays
<1>4. CASE Deliver
  BY <1>4, HeardKeeps DEF Deliver
<1>5. CASE OtherUnit
  <2>1. page'.queued = page.queued /\ page'.plans = page.plans
    BY <1>1, <1>5, RevisedIs DEF OtherUnit
  <2> QED BY <2>1, SameStays DEF Plain
<1> QED BY <1>2, <1>3, <1>4, <1>5 DEF Stream

PInv == had = {} => Plain(page)

LEMMA NextKeeps ==
  ASSUME QueuedMoves = FALSE, IInv, WInv, FInv, PInv, [Next]_vars, had' = {}
  PROVE  Plain(page') /\ (Stays(page, page') \/ PlayerActs \/ GivenUp)
<1>1. had = {}
  BY DEF Next, vars, Trouble, Player, OrderMove, QueueWork, OrderWork, Planned, Posting, PostArrives, PostAnswered,
     PostFails, Stream, Open, Bootstrap, Deliver, OtherUnit, Calling, Answer, TakeAnswer, CallFails,
     Engine, Refuse, EditRoute, Start, End, PublishDelta, Snapshot, Drop, Reload
<1>2. Current /\ Ended /\ Plain(page) /\ IsPage(page)
  BY <1>1 DEF WInv, FInv, PInv, Current, Fine
<1>3. CASE Player
  BY <1>2, <1>3, PlayerKeeps
<1>4. CASE Posting
  <2>1. ~PostFails
    BY DEF PostFails, Trouble
  <2>2. CASE PostArrives
    BY <1>2, <2>2, SameStays DEF PostArrives
  <2>3. CASE PostAnswered
    <3>1. page'.queued = page.queued /\ page'.plans = page.plans
      BY <1>2, <2>3 DEF PostAnswered, IsPage, Fields
    <3> QED BY <1>2, <3>1, SameStays DEF Plain
  <2> QED BY <1>4, <2>1, <2>2, <2>3 DEF Posting
<1>5. CASE Stream
  BY <1>2, <1>5, StreamKeeps
<1>6. CASE Calling
  <2>1. \A c \in page.calls : ~CallFails(c)
    BY DEF CallFails, Trouble
  <2> QED BY <1>2, <1>6, <2>1, AnswerKeeps DEF Calling
<1>7. CASE Engine \/ Drop
  BY <1>2, <1>7, EngineLeavesPage, SameStays
<1>8. ~Reload
  BY DEF Reload, Trouble
<1>9. CASE UNCHANGED vars
  BY <1>2, <1>9, SameStays DEF vars
<1> QED BY <1>3, <1>4, <1>5, <1>6, <1>7, <1>8, <1>9 DEF Next

LEMMA InitPlain == ASSUME Init PROVE PInv
BY EmptyIs DEF Init, PInv, Plain

(* With no trouble, and Moves sent at once, a queued follow-up stays queued   *)
(* or becomes an order, until the player orders anew or the order it waits    *)
(* for is over: what is dropped had no order left to follow, whatever the     *)
(* interleaving of handlers, events and handshakes                            *)
(* (intentQueueManager.ts: startNext, forgetQueue, applyReconciliation).      *)
THEOREM FollowUpsKept == ASSUME QueuedMoves = FALSE PROVE Spec => FollowUpsAreKept
<1>1. ASSUME IInv, WInv, FInv, PInv, [Next]_vars
      PROVE  PInv' /\ [\A o \in ToSet(page.queued) :
                         o.token \in Kept' \/ PlayerActs \/ had' # {} \/ GivenUp]_vars
  <2>1. Kept' = Held(page')
    BY DEF Kept, Held
  <2> QED BY <1>1, <2>1, NextKeeps DEF PInv, Stays
<1> QED BY <1>1, InitOrdered, InitCurrent, InitEnded, InitPlain, NextOrdered, NextCurrent, NextEnded, PTL
        DEF Spec, FollowUpsAreKept

-----------------------------------------------------------------------------
(* A queue is not left waiting. While there is no trouble, what the page      *)
(* works on and what its queue waits for is to be taken up and then replaces  *)
(* what the unit does, or is in the slot, or its end is on the wire. Events   *)
(* keep that true because they tell of commands in the order in which these   *)
(* leave the slot: whatever an event names as the unit's order is the oldest  *)
(* the page has still to hear the end of, and whatever ended is older yet.    *)
Ending(e) == e.state \in Outcomes /\ ~e.edit
Named(e)  == IF e.state = "route" THEN {e.route.root} \ {None}
             ELSE IF e.state = "accepted" /\ ~e.edit THEN {e.cmd} ELSE {}

(* What is in the slot, or ends after the i-th event.                         *)
Later(W, i, s) == ({s} \ {None}) \cup {W[j].cmd : j \in {k \in DOMAIN W : k > i /\ Ending(W[k])}}

(* What is still to be taken up and leaves nothing else in the slot.          *)
Coming(b, t) == {n \in (t + 1)..Len(b.orders) : b.orders[n].policy = "replace"}

Live(b, W, t, s) == Later(W, 0, s) \cup Coming(b, t)

Oldest(e, L) ==
  /\ \A m \in Named(e) : m \in L /\ \A n \in L : m <= n
  /\ Ending(e) /\ e.state # "rejected" => \A n \in L : e.cmd < n

InOrder(W, s) == \A i \in DOMAIN W : Oldest(W[i], Later(W, i, s))

Waits(b, L) ==
  /\ b.queued # <<>> => b.after # None
  /\ b.active \in {None} \cup L /\ b.after \in {None} \cup L
  /\ None \notin {b.active, b.after} => b.active <= b.after

(* No handshake belongs to an event source, which never broke; an answer that *)
(* is still used names an order the page has still to hear the end of.        *)
Asked(b, L) ==
  \A c \in b.calls : IsCall(c) /\ c.opening = FALSE
                     /\ (c.fresh /\ c.answered => c.root \in {None} \cup L)

Awaiting ==
  /\ link = "open" /\ synced = TRUE
  /\ InOrder(wire, slot)
  /\ Waits(page, Live(page, wire, Taken, slot))
  /\ Asked(page, Later(wire, 0, slot))

AInv == had = {} => Awaiting

(* Lists of events.                                                           *)
With(L, e) == IF Ending(e) THEN L \cup {e.cmd} ELSE L

LEMMA TailLater ==
  ASSUME NEW W, IsSeq(W), W # <<>>, NEW s
  PROVE  /\ \A i \in Nat : Later(Tail(W), i, s) = Later(W, i + 1, s)
         /\ Later(W, 0, s) = With(Later(W, 1, s), Head(W))
         /\ \A i \in DOMAIN Tail(W) : i \in Nat /\ i + 1 \in DOMAIN W /\ Tail(W)[i] = W[i + 1]
         /\ 1 \in DOMAIN W /\ Head(W) = W[1]
<1>1. PICK S : W \in Seq(S)
  BY SeqIs
<1>2. /\ Tail(W) \in Seq(S) /\ Len(Tail(W)) = Len(W) - 1
      /\ \A i \in 1..Len(Tail(W)) : Tail(W)[i] = W[i + 1]
  BY <1>1, HeadTailProperties
<1>3. Len(W) \in Nat /\ Len(W) # 0 /\ DOMAIN W = 1..Len(W)
  BY <1>1, LenProperties, EmptySeq
<1>4. DOMAIN Tail(W) = 1..(Len(W) - 1)
  BY <1>2, LenProperties
<1>5. Head(W) = W[1]
  BY <1>1
<1>6. \A i \in DOMAIN Tail(W) : i \in Nat /\ i + 1 \in DOMAIN W /\ Tail(W)[i] = W[i + 1]
  BY <1>2, <1>3, <1>4
<1>7. \A k \in DOMAIN W : k > 1 => k - 1 \in DOMAIN Tail(W) /\ (k - 1) + 1 = k /\ Tail(W)[k - 1] = W[k]
  <2> SUFFICES ASSUME NEW k \in DOMAIN W, k > 1
               PROVE  k - 1 \in DOMAIN Tail(W) /\ (k - 1) + 1 = k /\ Tail(W)[k - 1] = W[k]
    OBVIOUS
  <2>1. k - 1 \in DOMAIN Tail(W) /\ (k - 1) + 1 = k
    BY <1>3, <1>4
  <2> QED BY <1>6, <2>1
<1>8. ASSUME NEW i \in Nat PROVE Later(Tail(W), i, s) = Later(W, i + 1, s)
  <2>1. ASSUME NEW j \in DOMAIN Tail(W), j > i, Ending(Tail(W)[j])
        PROVE  Tail(W)[j].cmd \in Later(W, i + 1, s)
    <3>1. j + 1 \in DOMAIN W /\ j + 1 > i + 1 /\ Tail(W)[j] = W[j + 1]
      BY <1>6, <2>1
    <3> QED BY <2>1, <3>1 DEF Later
  <2>2. ASSUME NEW j \in DOMAIN W, j > i + 1, Ending(W[j])
        PROVE  W[j].cmd \in Later(Tail(W), i, s)
    <3>1. j - 1 \in DOMAIN Tail(W) /\ j - 1 > i /\ Tail(W)[j - 1] = W[j]
      BY <1>3, <1>7, <2>2
    <3> QED BY <2>2, <3>1 DEF Later
  <2> QED BY <2>1, <2>2 DEF Later
<1>9. Later(W, 0, s) = With(Later(W, 1, s), W[1])
  <2>1. 1 \in DOMAIN W /\ \A k \in DOMAIN W : k > 0 /\ (k = 1 \/ k > 1)
    BY <1>3
  <2> QED BY <2>1 DEF Later, With
<1> QED BY <1>3, <1>5, <1>6, <1>8, <1>9

LEMMA AppendLater ==
  ASSUME NEW W, IsSeq(W), NEW e, NEW s
  PROVE  /\ \A i \in 0..Len(W) :
              Later(Append(W, e), i, s) = With(Later(W, i, s), e)
         /\ Later(Append(W, e), Len(W) + 1, s) = {s} \ {None}
<1>1. /\ Len(W) \in Nat /\ DOMAIN W = 1..Len(W) /\ DOMAIN Append(W, e) = 1..(Len(W) + 1)
      /\ Append(W, e)[Len(W) + 1] = e /\ \A i \in DOMAIN W : Append(W, e)[i] = W[i]
  BY AppendIs
<1>2. PICK V : V = Append(W, e)
  OBVIOUS
<1>3. PICK n \in Nat : n = Len(W)
  BY <1>1
<1>4. /\ DOMAIN W = 1..n /\ DOMAIN V = 1..(n + 1) /\ V[n + 1] = e /\ \A i \in 1..n : V[i] = W[i]
  BY <1>1, <1>2, <1>3
<1>5. ASSUME NEW i \in 0..n
      PROVE  Later(V, i, s) = With(Later(W, i, s), e)
  <2>1. \A k \in DOMAIN V : (k \in DOMAIN W /\ V[k] = W[k]) \/ (k = n + 1 /\ V[k] = e)
    <3>1. \A k \in DOMAIN V : k \in 1..n \/ k = n + 1
      BY <1>4
    <3> QED BY <1>4, <3>1
  <2>2. \A k \in DOMAIN W : k \in DOMAIN V /\ V[k] = W[k]
    BY <1>4
  <2>3. n + 1 \in DOMAIN V /\ n + 1 > i /\ V[n + 1] = e
    BY <1>4
  <2> QED BY <2>1, <2>2, <2>3 DEF Later, With
<1>6. Later(V, n + 1, s) = {s} \ {None}
  <2>1. \A k \in DOMAIN V : ~(k > n + 1)
    BY <1>4
  <2> QED BY <2>1 DEF Later
<1> QED BY <1>2, <1>3, <1>5, <1>6

LEMMA ConcatIsAppend ==
  ASSUME NEW W, IsSeq(W), NEW d, NEW e
  PROVE  /\ W \o <<e>> = Append(W, e) /\ IsSeq(Append(W, d))
         /\ W \o <<d, e>> = Append(Append(W, d), e)
<1>1. PICK S : W \in Seq(S)
  BY SeqIs
<1>2. W \in Seq(S \cup {d, e}) /\ <<e>> \in Seq(S \cup {d, e}) /\ <<d, e>> \in Seq(S \cup {d, e})
  BY <1>1
<1>3. W \o <<e>> = Append(W, e)
  BY <1>2
<1>4. W \o <<d, e>> = Append(Append(W, d), e)
  BY <1>2
<1> QED BY <1>3, <1>4, AppendIs

LEMMA ConcatTwo ==
  ASSUME NEW W, IsSeq(W), NEW d, NEW e PROVE W \o (<<d>> \o <<e>>) = Append(Append(W, d), e)
<1>1. PICK S : W \in Seq(S)
  BY SeqIs
<1>2. W \in Seq(S \cup {d, e}) /\ <<e>> \in Seq(S \cup {d, e}) /\ <<d>> \in Seq(S \cup {d, e})
  BY <1>1
<1>3. Append(W, d) \in Seq(S \cup {d, e}) /\ W \o <<d>> = Append(W, d)
  BY <1>2
<1>4. (W \o <<d>>) \o <<e>> = W \o (<<d>> \o <<e>>)
  BY <1>2, <1>3, ConcatAssociative
<1>5. Append(W, d) \o <<e>> = Append(Append(W, d), e)
  BY <1>2, <1>3
<1> QED BY <1>3, <1>4, <1>5

(* The engine publishes in order: the end of what is in the slot, when it     *)
(* leaves it, and what it takes into the slot; a command refused is the last  *)
(* that was taken up. v is in the slot after it.                              *)
Follows(e, t, s, v) ==
  \/ Ending(e) /\ Named(e) = {} /\ e.cmd = s /\ s # None /\ v = None
  \/ Ending(e) /\ Named(e) = {} /\ e.state = "rejected" /\ e.cmd = t + 1 /\ v = s
  \/ ~Ending(e) /\ v = s /\ Named(e) \subseteq {s} \ {None}
  \/ ~Ending(e) /\ s = None /\ v = t + 1 /\ Named(e) = {v}

LEMMA PublishedInOrder ==
  ASSUME NEW t \in Nat, NEW s \in {None} \cup 1..t, NEW W, AllTell(W, t, s), InOrder(W, s),
         NEW e, NEW v, Follows(e, t, s, v)
  PROVE  InOrder(Append(W, e), v)
<1>1. IsSeq(W) /\ \A i \in DOMAIN W : Tells(W[i], t, s)
  BY DEF AllTell, ToSet
<1>2. PICK n \in Nat : n = Len(W) /\ DOMAIN W = 1..n
  BY <1>1 DEF IsSeq
<1>3. PICK V : V = Append(W, e)
  OBVIOUS
<1>4. /\ DOMAIN V = 1..(n + 1) /\ V[n + 1] = e /\ \A i \in 1..n : V[i] = W[i]
  BY <1>1, <1>2, <1>3, AppendIs
<1>5. PICK more : more = IF Ending(e) THEN {e.cmd} ELSE {}
  OBVIOUS
<1>6. /\ \A i \in 0..n : Later(V, i, v) = With(Later(W, i, v), e)
      /\ Later(V, n + 1, v) = {v} \ {None}
  BY <1>1, <1>2, <1>3, AppendLater
<1>7. \A i : Later(W, i, v) \subseteq Later(W, i, s) \cup ({v} \ {None})
  BY DEF Later
<1>8. \A i : Later(W, i, s) \subseteq Later(W, i, v) \cup ({s} \ {None})
  BY DEF Later
<1>9. t + 1 \in Nat /\ \A m \in 1..t : m \in Nat /\ m < t + 1 /\ m <= t + 1
  OBVIOUS
<1>10. ASSUME NEW i \in 1..n PROVE Oldest(V[i], Later(V, i, v))
  <2>1. PICK L : L = Later(W, i, s)
    OBVIOUS
  <2>2. PICK M : M = Later(V, i, v)
    OBVIOUS
  <2>3. Oldest(W[i], L) /\ Tells(W[i], t, s) /\ V[i] = W[i]
    BY <1>1, <1>2, <1>4, <2>1 DEF InOrder
  <2>4. L \subseteq M
    <3>1. M = Later(W, i, v) \cup more
      BY <1>5, <1>6, <2>2 DEF With
    <3>2. s # None => s = v \/ s \in more
      BY <1>5, OrderQueueAssumption DEF Follows
    <3>3. s # None /\ s = v => s \in Later(W, i, v)
      BY DEF Later
    <3> QED BY <1>8, <2>1, <3>1, <3>2, <3>3
  <2>5. M \subseteq L \cup {t + 1}
    <3>1. M = Later(W, i, v) \cup more
      BY <1>5, <1>6, <2>2 DEF With
    <3>2. v \in {None, s, t + 1} /\ more \subseteq ({s} \ {None}) \cup {t + 1}
      BY <1>5 DEF Follows
    <3>3. {s} \ {None} \subseteq L
      BY <2>1 DEF Later
    <3> QED BY <1>7, <2>1, <3>1, <3>2, <3>3
  <2>6. \A m \in Named(W[i]) : m \in 1..t
    BY <2>3 DEF Tells, GoodRoute, Named, Outcomes
  <2>7. Ending(W[i]) => W[i].cmd \in 1..t
    BY <2>3 DEF Tells, Ending, Outcomes
  <2>8. ASSUME NEW m \in Named(W[i]) PROVE m \in M /\ \A k \in M : m <= k
    BY <1>9, <2>3, <2>4, <2>5, <2>6 DEF Oldest
  <2>9. Ending(W[i]) /\ W[i].state # "rejected" => \A k \in M : W[i].cmd < k
    BY <1>9, <2>3, <2>5, <2>7 DEF Oldest
  <2> QED BY <2>2, <2>3, <2>8, <2>9 DEF Oldest
<1>11. Oldest(V[n + 1], Later(V, n + 1, v))
  <2>1. Later(V, n + 1, v) = {v} \ {None} /\ V[n + 1] = e
    BY <1>4, <1>6
  <2>2. v = None \/ v \in Nat
    BY <1>9 DEF Follows
  <2>3. Ending(e) => e.state = "rejected" \/ v = None
    BY DEF Follows
  <2>4. Named(e) \subseteq {v} \ {None}
    BY <1>9, OrderQueueAssumption DEF Follows
  <2> QED BY <2>1, <2>2, <2>3, <2>4 DEF Oldest
<1>12. \A i \in DOMAIN V : i \in 1..n \/ i = n + 1
  BY <1>4
<1> QED BY <1>3, <1>10, <1>11, <1>12 DEF InOrder

(* The manager's methods.                                                     *)
LEMMA SameWaits ==
  ASSUME NEW b, NEW c, NEW L, NEW M, L \subseteq M, Waits(b, L),
         c.queued = b.queued, c.after = b.after, c.active = b.active
  PROVE  Waits(c, M)
BY DEF Waits

LEMMA RevisedAwaits ==
  ASSUME NEW b, IsPage(b), NEW M, Asked(b, M), NEW N
  PROVE  /\ Revise(b).active = b.active /\ Revise(b).after = b.after /\ Revise(b).queued = b.queued
         /\ Revise(b).orders = b.orders /\ Asked(Revise(b), N)
         /\ LET c == Reconcile(Revise(b), FALSE) IN
              /\ c.active = b.active /\ c.after = b.after /\ c.queued = b.queued
              /\ c.orders = b.orders /\ Asked(c, N)
<1>1. PICK x : x = {[c EXCEPT !.fresh = FALSE] : c \in b.calls}
  OBVIOUS
<1>2. PICK d : d = [opening |-> FALSE, fresh |-> TRUE, retry |-> TRUE, answered |-> FALSE, root |-> None, last |-> None]
  OBVIOUS
<1>3. PICK y : y = x \cup {d}
  OBVIOUS
<1>4. \A c \in x : IsCall(c) /\ c.opening = FALSE /\ c.fresh = FALSE
  <2> SUFFICES ASSUME NEW c \in b.calls PROVE LET z == [c EXCEPT !.fresh = FALSE] IN
                                               IsCall(z) /\ z.opening = FALSE /\ z.fresh = FALSE
    BY <1>1
  <2>1. IsCall(c) /\ c.opening = FALSE
    BY DEF Asked
  <2> QED BY <2>1 DEF IsCall
<1>5. IsCall(d) /\ d.opening = FALSE /\ d.answered = FALSE
  BY <1>2 DEF IsCall
<1>6. Revise(b) = [b EXCEPT !.calls = x] /\ Reconcile(Revise(b), FALSE) = [b EXCEPT !.calls = y]
  BY <1>1, <1>2, <1>3 DEF Revise, Reconcile, IsPage, Fields
<1>7. ASSUME NEW z, \A c \in z : IsCall(c) /\ c.opening = FALSE /\ (c.fresh = FALSE \/ c.answered = FALSE),
             NEW c, c = [b EXCEPT !.calls = z]
      PROVE  /\ c.active = b.active /\ c.after = b.after /\ c.queued = b.queued
             /\ c.orders = b.orders /\ Asked(c, N)
  <2>1. c.calls = z
    BY <1>7 DEF IsPage, Fields
  <2>2. Asked(c, N)
    BY <1>7, <2>1 DEF Asked
  <2> QED BY <1>7, <2>2 DEF IsPage, Fields
<1>8. \A c \in y : IsCall(c) /\ c.opening = FALSE /\ (c.fresh = FALSE \/ c.answered = FALSE)
  BY <1>3, <1>4, <1>5
<1>9. PICK c : c = [b EXCEPT !.calls = x]
  OBVIOUS
<1>10. PICK z : z = [b EXCEPT !.calls = y]
  OBVIOUS
<1>11. /\ c.active = b.active /\ c.after = b.after /\ c.queued = b.queued
       /\ c.orders = b.orders /\ Asked(c, N)
  BY <1>4, <1>7, <1>9
<1>12. /\ z.active = b.active /\ z.after = b.after /\ z.queued = b.queued
       /\ z.orders = b.orders /\ Asked(z, N)
  BY <1>7, <1>8, <1>10
<1> QED BY <1>6, <1>9, <1>10, <1>11, <1>12

LEMMA SubmitAwaits ==
  ASSUME NEW b, IsPage(b), NEW k, NEW p, NEW from, NEW M, Asked(b, M), NEW N
  PROVE  LET c == Submit(b, k, p, from) IN c.active = b.active /\ c.after = b.after /\ Asked(c, N)
<1>1. PICK c : c = IF k = "move" THEN b ELSE CancelPlans(b)
  OBVIOUS
<1>2. /\ IsPage(c) /\ c.orders = b.orders /\ c.active = b.active /\ c.after = b.after
      /\ c.calls = b.calls
  BY <1>1, EmptyIs DEF CancelPlans, IsPage, Fields
<1>3. PICK o : o = Append(b.orders, [kind |-> k, policy |-> p, from |-> from])
  OBVIOUS
<1>4. PICK x : x = c.pending \cup {NextSeq(b)}
  OBVIOUS
<1>5. PICK y : y = Append(c.chain, NextSeq(b))
  OBVIOUS
<1>6. PICK d : d = [c EXCEPT !.orders = o, !.pending = x, !.chain = y]
  OBVIOUS
<1>7. Submit(b, k, p, from) = Revise(d)
  BY <1>1, <1>2, <1>3, <1>4, <1>5, <1>6 DEF Submit, IsPage, Fields
<1>8. IsSeq(o)
  BY <1>2, <1>3, AppendIs DEF IsPage
<1>9. IsPage(d) /\ d.active = b.active /\ d.after = b.after /\ d.calls = b.calls
  BY <1>2, <1>6, <1>8 DEF IsPage, Fields
<1>10. Asked(d, M)
  BY <1>9 DEF Asked
<1> QED BY <1>7, <1>9, <1>10, RevisedAwaits

(* An order of the player's is still to be taken up.                          *)
LEMMA OrderComes ==
  ASSUME NEW b, IsPage(b), NEW t \in 0..Len(b.orders), NEW o, NEW c, c.orders = Append(b.orders, o)
  PROVE  /\ Coming(b, t) \subseteq Coming(c, t)
         /\ o.policy = "replace" => Len(b.orders) + 1 \in Coming(c, t)
         /\ Len(b.orders) + 1 # None
<1>1. /\ Len(b.orders) \in Nat /\ DOMAIN b.orders = 1..Len(b.orders) /\ IsSeq(c.orders)
      /\ DOMAIN c.orders = 1..(Len(b.orders) + 1) /\ c.orders[Len(b.orders) + 1] = o
      /\ \A i \in 1..Len(b.orders) : c.orders[i] = b.orders[i]
  BY AppendIs DEF IsPage
<1>2. Len(c.orders) \in Nat /\ DOMAIN c.orders = 1..Len(c.orders)
  BY <1>1 DEF IsSeq
<1>3. Len(c.orders) = Len(b.orders) + 1
  BY <1>1, <1>2
<1> QED BY <1>1, <1>3, OrderQueueAssumption DEF Coming

LEMMA ReplaceAwaits ==
  ASSUME NEW b, IsPage(b), NEW from, NEW t \in 0..Len(b.orders), NEW M, Asked(b, M), NEW N
  PROVE  LET c == Replace(b, from) IN
           /\ c.active \in Coming(c, t) /\ c.active # None /\ c.after = None /\ Asked(c, N)
           /\ Waits(c, Coming(c, t))
<1>1. PICK x : x = NextSeq(b)
  OBVIOUS
<1>2. PICK d : d = [b EXCEPT !.moves = {}, !.queued = <<>>, !.after = None, !.active = x]
  OBVIOUS
<1>3. IsPage(d) /\ d.orders = b.orders /\ d.calls = b.calls /\ d.active = x /\ d.after = None
  BY <1>2, EmptyIs DEF IsPage, Fields
<1>4. PICK c : c = Submit(d, "work", "replace", from)
  OBVIOUS
<1>5. Replace(b, from) = c
  BY <1>1, <1>2, <1>4 DEF Replace
<1>6. Asked(d, M)
  BY <1>3 DEF Asked
<1>7. c.active = x /\ c.after = None /\ Asked(c, N)
  BY <1>3, <1>4, <1>6, SubmitAwaits
<1>8. PICK o : o = [kind |-> "work", policy |-> "replace", from |-> from]
  OBVIOUS
<1>9. c.orders = Append(b.orders, o) /\ c.queued = <<>>
  BY <1>5, <1>8, ReplaceIs
<1>10. x \in Coming(c, t) /\ x # None
  <2>1. o.policy = "replace" /\ x = Len(b.orders) + 1
    BY <1>1, <1>8 DEF NextSeq
  <2> QED BY <1>9, <2>1, OrderComes
<1> QED BY <1>5, <1>7, <1>9, <1>10 DEF Waits

(* The head of the queue becomes the order the rest of it waits for.          *)
LEMMA StartNextAwaits ==
  ASSUME NEW b, IsPage(b), Plain(b), b.active = None, NEW t \in 0..Len(b.orders), NEW M, Asked(b, M)
  PROVE  LET c == StartNext(b) IN Waits(c, Coming(c, t)) /\ Asked(c, M)
<1>1. CASE b.queued = <<>>
  <2>1. PICK c : c = [b EXCEPT !.after = None]
    OBVIOUS
  <2>2. c.queued = <<>> /\ c.active = None /\ c.after = None /\ c.calls = b.calls
    BY <1>1, <2>1 DEF IsPage, Fields
  <2>3. StartNext(b) = c
    BY <1>1, <2>1 DEF StartNext
  <2> QED BY <2>2, <2>3 DEF Waits, Asked
<1>2. CASE b.queued # <<>>
  <2>1. PICK from : from = [token |-> Head(b.queued).token, behind |-> b.after]
    OBVIOUS
  <2>2. PICK rest : rest = Tail(b.queued)
    OBVIOUS
  <2>3. PICK left : left = [b EXCEPT !.queued = rest]
    OBVIOUS
  <2>4. IsSeq(rest) /\ Head(b.queued) = b.queued[1] /\ 1 \in DOMAIN b.queued
    BY <1>2, <2>2, TailIs DEF IsPage
  <2>5. IsPage(left) /\ left.orders = b.orders /\ left.calls = b.calls
    BY <2>3, <2>4 DEF IsPage, Fields
  <2>6. Asked(left, M)
    BY <2>5 DEF Asked
  <2>7. PICK started : started = Replace(left, from)
    OBVIOUS
  <2>8. /\ IsPage(started) /\ started.active \in Coming(started, t) /\ started.active # None
        /\ Asked(started, M)
    <3>1. IsPage(started)
      BY <2>5, <2>7, ReplaceIs
    <3> QED BY <2>5, <2>6, <2>7, <3>1, ReplaceAwaits
  <2>9. PICK x : x = started.active
    OBVIOUS
  <2>10. PICK c : c = [started EXCEPT !.queued = rest, !.after = x]
    OBVIOUS
  <2>11. Head(b.queued).kind # "move"
    BY <2>4 DEF Plain
  <2>12. StartNext(b) = c
    BY <1>2, <2>1, <2>2, <2>3, <2>7, <2>9, <2>10, <2>11 DEF StartNext, IsPage, Fields
  <2>13. c.active = x /\ c.after = x /\ c.orders = started.orders /\ c.calls = started.calls
    BY <2>8, <2>9, <2>10 DEF IsPage, Fields
  <2>14. x \in Coming(c, t) /\ x # None /\ x <= x
    <3>1. \A n \in Coming(started, t) : n <= n
      BY DEF Coming
    <3> QED BY <2>8, <2>9, <2>13, <3>1 DEF Coming
  <2> QED BY <2>8, <2>12, <2>13, <2>14 DEF Waits, Asked
<1> QED BY <1>1, <1>2

(* What is heard.                                                             *)
LEMMA ToldActive ==
  ASSUME NEW b, IsPage(b), NEW e
  PROVE  /\ EditEvent(b, e).active = b.active
         /\ LET n == IF Adopts(b, e) THEN e.cmd ELSE b.active IN
              OrderEvent(b, e).active = IF n = e.cmd /\ e.state \in Outcomes THEN None ELSE n
<1>1. PICK x : x = {[m EXCEPT !.finished = @ \/ m.cmd = e.cmd] : m \in b.moves}
  OBVIOUS
<1>2. PICK y : y = Without(b.moves, e.cmd)
  OBVIOUS
<1>3. EditEvent(b, e) \in {[b EXCEPT !.moves = x], [b EXCEPT !.moves = y], b}
  BY <1>1, <1>2 DEF EditEvent, IsPage, Fields
<1>4. EditEvent(b, e).active = b.active
  BY <1>3 DEF IsPage, Fields
<1>5. PICK adopted : adopted = IF Adopts(b, e) THEN [b EXCEPT !.active = e.cmd] ELSE b
  OBVIOUS
<1>6. IsPage(adopted) /\ adopted.active = IF Adopts(b, e) THEN e.cmd ELSE b.active
  BY <1>5 DEF IsPage, Fields
<1>7. PICK ended : ended = IF adopted.active = e.cmd /\ e.state \in Outcomes THEN Clear(adopted) ELSE adopted
  OBVIOUS
<1>8. /\ IsPage(ended)
      /\ ended.active = IF adopted.active = e.cmd /\ e.state \in Outcomes THEN None ELSE adopted.active
  <2>1. PICK z : z = Unsettled(adopted.moves, adopted.active)
    OBVIOUS
  <2>2. Clear(adopted) = [adopted EXCEPT !.active = None, !.moves = z]
    BY <1>6, <2>1 DEF Clear, IsPage, Fields
  <2> QED BY <1>6, <1>7, <2>2 DEF IsPage, Fields
<1>9. PICK z : z = Without(ended.moves, e.cmd)
  OBVIOUS
<1>10. OrderEvent(b, e) = IF e.state = "rejected" THEN [ended EXCEPT !.moves = z] ELSE ended
  BY <1>5, <1>7, <1>8, <1>9 DEF OrderEvent, IsPage, Fields
<1>11. OrderEvent(b, e).active = ended.active
  BY <1>8, <1>10 DEF IsPage, Fields
<1> QED BY <1>4, <1>6, <1>8, <1>11

(* The order the page works on, after an event of a command.                  *)
LEMMA ToldWaits ==
  ASSUME NEW b, IsPage(b), NEW e, e.state # "route", NEW L, L \subseteq Nat, Oldest(e, L), Waits(b, With(L, e)),
         NEW told, told = (IF e.edit THEN EditEvent(b, e) ELSE OrderEvent(b, e)),
         told.queued = b.queued, told.after = b.after
  PROVE  /\ ~Ending(e) => Waits(told, L)
         /\ Ending(e) => /\ told.active \in {None} \cup L
                         /\ told.active # None => told.active = b.active
                         /\ told.queued # <<>> => told.after # None
                         /\ told.after \in {None, e.cmd} \cup L
<1>1. CASE e.edit
  <2>1. ~Ending(e) /\ told.active = b.active
    BY <1>1, ToldActive DEF Ending
  <2> QED BY <2>1, SameWaits DEF With
<1>2. CASE ~e.edit /\ Adopts(b, e)
  <2>1. e.state = "accepted" /\ ~Ending(e) /\ Named(e) = {e.cmd}
    BY <1>2 DEF Adopts, Ending, Named, Outcomes
  <2>2. told.active = e.cmd
    BY <1>2, <2>1, ToldActive DEF Outcomes
  <2>3. e.cmd \in L /\ \A n \in L : e.cmd <= n
    BY <2>1 DEF Oldest
  <2> QED BY <2>1, <2>2, <2>3 DEF Waits, With
<1>3. CASE ~e.edit /\ ~Adopts(b, e) /\ ~Ending(e)
  <2>1. e.state \notin Outcomes
    BY <1>3 DEF Ending
  <2>2. told.active = b.active
    BY <1>3, <2>1, ToldActive
  <2> QED BY <1>3, <2>2, SameWaits DEF With
<1>4. CASE ~e.edit /\ ~Adopts(b, e) /\ Ending(e)
  <2>1. told.active = IF b.active = e.cmd THEN None ELSE b.active
    BY <1>4, ToldActive DEF Ending
  <2>2. /\ b.active \in {None, e.cmd} \cup L /\ b.after \in {None, e.cmd} \cup L
        /\ b.queued # <<>> => b.after # None
    BY <1>4 DEF Waits, With
  <2> QED BY <1>4, <2>1, <2>2
<1> QED BY <1>1, <1>2, <1>3, <1>4

LEMMA LifecycleAwaits ==
  ASSUME NEW t, NEW s, NEW b, Fine(b, t, s), Plain(b), NEW e, e.state # "route", Tells(e, t, s),
         NEW L, L \subseteq Nat, Oldest(e, L), Waits(b, With(L, e)), NEW M, Asked(b, M), NEW N
  PROVE  LET c == Lifecycle(b, e) IN Waits(c, L \cup Coming(c, t)) /\ Asked(c, N)
<1>1. PICK told : told = IF e.edit THEN EditEvent(b, e) ELSE OrderEvent(b, e)
  OBVIOUS
<1>2. Settles(b, told, t, s) /\ Fine(told, t, s)
  BY <1>1, EditEventSettles, OrderEventSettles, SettlesFine
<1>3. PICK x : x = told.pending \ {e.cmd}
  OBVIOUS
<1>4. PICK known : known = [told EXCEPT !.pending = x]
  OBVIOUS
<1>5. /\ IsPage(known) /\ known.queued = b.queued /\ known.plans = b.plans /\ known.after = b.after
      /\ known.orders = b.orders /\ known.calls = b.calls /\ known.active = told.active
      /\ told.queued = b.queued /\ told.after = b.after
  BY <1>2, <1>4 DEF Settles, IsPage, Fields
<1>6. Plain(known) /\ Asked(known, M) /\ IsPage(b) /\ t \in 0..Len(known.orders)
  BY <1>5 DEF Plain, Asked, Fine
<1>7. /\ ~Ending(e) => Waits(known, L)
      /\ Ending(e) => /\ known.active \in {None} \cup L
                      /\ known.active # None => known.active = b.active
                      /\ known.queued # <<>> => known.after # None
                      /\ known.after \in {None, e.cmd} \cup L
  <2>1. /\ ~Ending(e) => Waits(told, L)
        /\ Ending(e) => /\ told.active \in {None} \cup L
                        /\ told.active # None => told.active = b.active
                        /\ told.queued # <<>> => told.after # None
                        /\ told.after \in {None, e.cmd} \cup L
    <3>1. /\ IsPage(b) /\ told.queued = b.queued /\ told.after = b.after
          /\ told = (IF e.edit THEN EditEvent(b, e) ELSE OrderEvent(b, e))
      BY <1>1, <1>5, <1>6
    <3> QED BY <3>1, ToldWaits, Zenon
  <2> QED BY <1>5, <2>1, SameWaits
<1>8. PICK next : next = FollowOn(known, e)
  OBVIOUS
<1>9. e.cmd # None /\ None \notin Nat
  BY TakenIds, OrderQueueAssumption DEF Tells
<1>10. IsPage(next) /\ Waits(next, L \cup Coming(next, t)) /\ Asked(next, M)
  <2>1. CASE ~Ending(e) \/ known.after # e.cmd
    <3>1. next = known
      BY <1>8, <2>1 DEF FollowOn, Ending
    <3>2. Waits(known, L)
      BY <1>5, <1>7, <2>1 DEF Waits, With
    <3> QED BY <1>5, <1>6, <3>1, <3>2, SameWaits
  <2>2. CASE Ending(e) /\ known.after = e.cmd /\ e.state # "finished"
    <3>1. next = Forget(known, e.cmd)
      BY <1>8, <2>2 DEF FollowOn, Ending
    <3>2. next = [known EXCEPT !.queued = <<>>, !.after = None]
      BY <1>5, <2>2, <3>1 DEF Forget, IsPage, Fields
    <3>3. /\ IsPage(next) /\ next.queued = <<>> /\ next.after = None /\ next.active = known.active
          /\ next.calls = known.calls
      BY <1>5, <3>2, EmptyIs DEF IsPage, Fields
    <3> QED BY <1>6, <1>7, <2>2, <3>3 DEF Waits, Asked
  <2>3. CASE Ending(e) /\ known.after = e.cmd /\ e.state = "finished"
    <3>1. next = StartNext(known)
      BY <1>8, <2>3 DEF FollowOn, Ending
    <3>2. known.active = None
      <4> SUFFICES ASSUME known.active # None PROVE FALSE
        OBVIOUS
      <4>1. known.active \in L /\ known.active = b.active /\ b.after = e.cmd
        BY <1>5, <1>7, <2>3
      <4>2. b.active <= e.cmd
        BY <1>9, <4>1 DEF Waits
      <4>3. e.cmd < b.active /\ b.active \in Nat /\ e.cmd \in Nat
        BY <2>3, <4>1, TakenIds DEF Oldest, Tells
      <4> QED BY <4>2, <4>3
    <3>3. Waits(next, Coming(next, t)) /\ Asked(next, M)
      BY <1>5, <1>6, <3>1, <3>2, StartNextAwaits
    <3>4. IsPage(next)
      BY <1>5, <1>6, <3>1, StartNextKeeps
    <3> QED BY <3>3, <3>4, SameWaits
  <2> QED BY <2>1, <2>2, <2>3
<1>11. Lifecycle(b, e) \in {Revise(next), Reconcile(Revise(next), FALSE)}
  BY <1>1, <1>2, <1>3, <1>4, <1>8 DEF Lifecycle, Fine, IsPage, Fields
<1>12. PICK c : c = Lifecycle(b, e)
  OBVIOUS
<1>13. /\ c.active = next.active /\ c.after = next.after /\ c.queued = next.queued
       /\ c.orders = next.orders /\ Asked(c, N)
  BY <1>10, <1>11, <1>12, RevisedAwaits
<1>14. Coming(c, t) = Coming(next, t)
  BY <1>13 DEF Coming
<1> QED BY <1>10, <1>12, <1>13, <1>14, SameWaits

LEMMA RouteAwaits ==
  ASSUME NEW t, NEW s, NEW b, Fine(b, t, s), NEW e, e.state = "route", Tells(e, t, s),
         NEW L, Oldest(e, L), Waits(b, L), NEW M, Asked(b, M), NEW N
  PROVE  LET c == MoveDelta(b, e.route, e.gone) IN Waits(c, L) /\ Asked(c, N) /\ c.orders = b.orders
<1>1. GoodRoute(e.route, t) /\ e.gone \in {None} \cup 1..t /\ Named(e) = {e.route.root} \ {None}
  BY DEF Tells, Named
<1>2. PICK d : d = Removed(b, e.gone)
  OBVIOUS
<1>3. Settles(b, d, t, s) /\ Fine(d, t, s)
  BY <1>1, <1>2, RemovedSettles, SettlesFine
<1>4. d.active \in {None, b.active}
  <2>1. PICK x : x = Unsettled(b.moves, b.active)
    OBVIOUS
  <2>2. PICK p : p = b.pending \ {e.gone}
    OBVIOUS
  <2>3. d \in {b, [b EXCEPT !.active = None, !.moves = x, !.pending = p]}
    BY <1>2, <2>1, <2>2 DEF Removed, Clear, Fine, IsPage, Fields
  <2> QED BY <2>3 DEF Fine, IsPage, Fields
<1>5. PICK c : c = Updated(d, e.route)
  OBVIOUS
<1>6. Settles(d, c, t, s)
  BY <1>1, <1>3, <1>5, UpdatedSettles
<1>7. c.active = d.active \/ (e.route.root # None /\ c.active = e.route.root)
  <2>1. CASE c = d
    BY <2>1
  <2>2. CASE c # d
    <3>1. PICK u : u = [d EXCEPT !.active = e.route.root]
      OBVIOUS
    <3>2. e.route.root # None /\ c = Retire(u, e.route.last)
      BY <1>5, <2>2, <3>1 DEF Updated
    <3>3. IsPage(u) /\ u.active = e.route.root
      BY <1>3, <3>1 DEF Fine, IsPage, Fields
    <3>4. Retire(u, e.route.last).active = u.active
      BY <3>3 DEF Retire, IsPage, Fields
    <3> QED BY <3>2, <3>3, <3>4
  <2> QED BY <2>1, <2>2
<1>8. /\ IsPage(c) /\ c.orders = b.orders /\ c.queued = b.queued /\ c.after = b.after /\ c.calls = b.calls
  BY <1>3, <1>6 DEF Settles
<1>9. e.route.root # None => e.route.root \in L /\ \A n \in L : e.route.root <= n
  BY <1>1 DEF Oldest
<1>10. Waits(c, L)
  BY <1>4, <1>7, <1>8, <1>9 DEF Waits
<1>11. Asked(c, M)
  BY <1>8 DEF Asked
<1>12. MoveDelta(b, e.route, e.gone) = Revise(c)
  BY <1>2, <1>5 DEF MoveDelta
<1>13. /\ Revise(c).active = c.active /\ Revise(c).after = c.after /\ Revise(c).queued = c.queued
       /\ Revise(c).orders = c.orders /\ Asked(Revise(c), N)
  BY <1>8, <1>11, RevisedAwaits
<1> QED BY <1>8, <1>10, <1>12, <1>13, SameWaits

(* What the handshake answers.                                                *)
LEMMA HandshakeAwaits ==
  ASSUME NEW b, IsPage(b), NEW r, NEW L, Waits(b, L), r.root \in {None} \cup L, NEW M, Asked(b, M),
         \A n \in L : n \in Nat
  PROVE  LET c == Handshake(b, r) IN Waits(c, L) /\ Asked(c, M) /\ c.orders = b.orders
<1>1. CASE b.active # None /\ b.active \in b.pending
  BY <1>1 DEF Handshake
<1>2. CASE ~(b.active # None /\ b.active \in b.pending) /\ r.root = None
  <2>1. PICK x : x = Unsettled(b.moves, b.active)
    OBVIOUS
  <2>2. PICK c : c = [b EXCEPT !.active = None, !.moves = x]
    OBVIOUS
  <2>3. Handshake(b, r) = c
    BY <1>2, <2>1, <2>2 DEF Handshake, Clear, IsPage, Fields
  <2>4. /\ c.active = None /\ c.after = b.after /\ c.queued = b.queued /\ c.calls = b.calls
        /\ c.orders = b.orders
    BY <2>2 DEF IsPage, Fields
  <2> QED BY <2>3, <2>4 DEF Waits, Asked
<1>3. CASE ~(b.active # None /\ b.active \in b.pending) /\ r.root # None
  <2>1. PICK kept : kept = IF b.after \in {None, r.root} THEN b ELSE Forget(b, b.after)
    OBVIOUS
  <2>2. Forget(b, b.after) = [b EXCEPT !.queued = <<>>, !.after = None]
    BY DEF Forget, IsPage, Fields
  <2>3. /\ IsPage(kept) /\ kept.calls = b.calls /\ kept.orders = b.orders
        /\ kept.queued # <<>> => kept.after # None
        /\ kept.after \in {None, r.root}
    BY <2>1, <2>2, EmptyIs DEF Waits, IsPage, Fields
  <2>4. PICK d : d = [kept EXCEPT !.active = r.root]
    OBVIOUS
  <2>5. /\ IsPage(d) /\ d.active = r.root /\ d.after = kept.after /\ d.queued = kept.queued
        /\ d.calls = b.calls /\ d.orders = b.orders
    BY <2>3, <2>4 DEF IsPage, Fields
  <2>6. PICK c : c = Retire(d, r.last)
    OBVIOUS
  <2>7. /\ c.active = d.active /\ c.after = d.after /\ c.queued = d.queued
        /\ c.calls = d.calls /\ c.orders = d.orders
    BY <2>5, <2>6 DEF Retire, IsPage, Fields
  <2>8. Handshake(b, r) = c
    BY <1>3, <2>1, <2>4, <2>6 DEF Handshake
  <2>9. r.root \in L /\ r.root <= r.root
    BY <1>3
  <2>10. Waits(c, L)
    BY <2>3, <2>5, <2>7, <2>9 DEF Waits
  <2> QED BY <2>5, <2>7, <2>8, <2>10 DEF Asked
<1> QED BY <1>1, <1>2, <1>3

LEMMA ReconciledAwaits ==
  ASSUME NEW b, IsPage(b), Plain(b), NEW t \in 0..Len(b.orders), NEW r, NEW L, Waits(b, L), r.root \in {None} \cup L,
         NEW M, Asked(b, M), \A n \in L : n \in Nat
  PROVE  LET c == Reconciled(b, r) IN Waits(c, L \cup Coming(c, t)) /\ Asked(c, M)
<1>1. PICK told : told = Handshake(b, r)
  OBVIOUS
<1>2. Waits(told, L) /\ Asked(told, M) /\ told.orders = b.orders
  BY <1>1, HandshakeAwaits
<1>3. IsPage(told) /\ Plain(told)
  BY <1>1, RoutesKeep, KeepsPlain DEF Keeps
<1>4. PICK next : next = IF told.active = None /\ told.queued # <<>> THEN StartNext(told) ELSE told
  OBVIOUS
<1>5. IsPage(next) /\ Waits(next, L \cup Coming(next, t)) /\ Asked(next, M)
  <2>1. CASE told.active = None
    <3>1. IsPage(StartNext(told))
      BY <1>3, StartNextKeeps
    <3>2. PICK c : c = StartNext(told)
      OBVIOUS
    <3>3. Waits(c, Coming(c, t)) /\ Asked(c, M)
      BY <1>2, <1>3, <2>1, <3>2, StartNextAwaits
    <3> QED BY <1>2, <1>3, <1>4, <3>1, <3>2, <3>3, SameWaits
  <2>2. CASE told.active # None
    BY <1>2, <1>3, <1>4, <2>2, SameWaits
  <2> QED BY <2>1, <2>2
<1>6. PICK c : c = Reconciled(b, r)
  OBVIOUS
<1>7. c = Revise(next)
  BY <1>1, <1>4, <1>6 DEF Reconciled
<1>8. /\ c.active = next.active /\ c.after = next.after /\ c.queued = next.queued
      /\ c.orders = next.orders /\ Asked(c, M)
  BY <1>5, <1>7, RevisedAwaits
<1>9. Coming(c, t) = Coming(next, t)
  BY <1>8 DEF Coming
<1> QED BY <1>5, <1>6, <1>8, <1>9, SameWaits

-----------------------------------------------------------------------------
(* The actions.                                                               *)
LEMMA LaterNat ==
  ASSUME Current
  PROVE  /\ Taken \in Nat /\ Taken \in 0..Len(page.orders) /\ slot \in {None} \cup 1..Taken
         /\ Fine(page, Taken, slot) /\ IsPage(page) /\ AllTell(wire, Taken, slot) /\ IsSeq(wire)
         /\ \A i : Later(wire, i, slot) \subseteq 1..Taken
         /\ \A c : Live(c, wire, Taken, slot) = Later(wire, 0, slot) \cup Coming(c, Taken)
<1>1. /\ Taken \in Nat /\ Taken \in 0..Len(page.orders) /\ slot \in {None} \cup 1..Taken
      /\ Fine(page, Taken, slot) /\ IsPage(page) /\ AllTell(wire, Taken, slot)
  BY TakenIs DEF Current, Fine, Told
<1>2. \A k \in DOMAIN wire : Tells(wire[k], Taken, slot)
  BY <1>1 DEF AllTell, ToSet
<1>3. \A k \in DOMAIN wire : Ending(wire[k]) => wire[k].cmd \in 1..Taken
  BY <1>2 DEF Tells, Ending, Outcomes
<1>4. \A i : Later(wire, i, slot) \subseteq 1..Taken
  BY <1>1, <1>3 DEF Later
<1> QED BY <1>1, <1>4 DEF Live, AllTell

LEMMA PageAwaits ==
  ASSUME Awaiting, Taken' = Taken, UNCHANGED <<slot, link, synced, wire>>,
         Waits(page', Later(wire, 0, slot) \cup Coming(page', Taken)), Asked(page', Later(wire, 0, slot))
  PROVE  Awaiting'
BY DEF Awaiting, Live

(* What the player does: the plans change, or the calls that were asked for   *)
(* before are stale.                                                          *)
LEMMA MoveCommandAwaits ==
  ASSUME NEW b, IsPage(b), NEW p, ~DefersMove(b, p), NEW from
  PROVE  LET c == MoveCommand(b, p, from) IN
           /\ c.active = b.active /\ c.after = b.after /\ c.queued = b.queued
           /\ c.orders = b.orders /\ c.calls = b.calls
<1>1. PICK d : d = IF p = "replace" THEN CancelPlans(b) ELSE b
  OBVIOUS
<1>2. /\ IsPage(d) /\ d.active = b.active /\ d.after = b.after /\ d.queued = b.queued
      /\ d.orders = b.orders /\ d.calls = b.calls
  BY <1>1, EmptyIs DEF CancelPlans, IsPage, Fields
<1>3. PICK q : q = Append(d.plans, [policy |-> p, from |-> from])
  OBVIOUS
<1>4. MoveCommand(b, p, from) = [d EXCEPT !.plans = q]
  BY <1>1, <1>2, <1>3 DEF MoveCommand, IsPage, Fields
<1> QED BY <1>2, <1>4 DEF IsPage, Fields

LEMMA DeferAwaits ==
  ASSUME NEW b, IsPage(b), NEW k, NEW clear, Busy(b), NEW L, \A n \in L : n \in Nat, Waits(b, L)
  PROVE  LET c == DeferOrder(b, k, clear) IN
           Waits(c, L) /\ c.orders = b.orders /\ c.calls = b.calls
<1>1. PICK q : q = Append(IF clear THEN <<>> ELSE b.queued, [kind |-> k, token |-> b.tokens + 1])
  OBVIOUS
<1>2. PICK x : x = IF b.after = None THEN b.active ELSE b.after
  OBVIOUS
<1>3. PICK c : c = DeferOrder(b, k, clear)
  OBVIOUS
<1>4. c = [b EXCEPT !.queued = q, !.tokens = b.tokens + 1, !.after = x]
  BY <1>1, <1>2, <1>3 DEF DeferOrder, IsPage, Fields
<1>5. c.active = b.active /\ c.after = x /\ c.orders = b.orders /\ c.calls = b.calls
  BY <1>4 DEF IsPage, Fields
<1>6. x # None /\ x \in L
  BY <1>2 DEF Busy, Waits
<1>7. b.active # None => b.active <= x
  BY <1>2, <1>6 DEF Waits
<1>8. Waits(c, L)
  BY <1>5, <1>6, <1>7 DEF Waits
<1> QED BY <1>3, <1>5, <1>8

LEMMA PlannedMoveAwaits ==
  ASSUME NEW b, IsPage(b), NEW p, ~DefersMove(b, p), NEW from, NEW t \in 0..Len(b.orders),
         NEW L, Waits(b, L \cup Coming(b, t)), NEW M, Asked(b, M)
  PROVE  LET c == PlannedMove(b, p, from) IN Waits(c, L \cup Coming(c, t)) /\ Asked(c, M)
<1>1. PICK m : m = [cmd |-> NextSeq(b), finished |-> FALSE]
  OBVIOUS
<1>2. PICK x : x = NextSeq(b)
  OBVIOUS
<1>3. PICK y : y = b.moves \cup {m}
  OBVIOUS
<1>4. PICK d : d = IF p = "replace" THEN [b EXCEPT !.queued = <<>>, !.after = None, !.active = x, !.moves = {m}]
                                    ELSE [b EXCEPT !.moves = y]
  OBVIOUS
<1>5. PICK c : c = Submit(d, "move", p, from)
  OBVIOUS
<1>6. PlannedMove(b, p, from) = c
  BY <1>1, <1>2, <1>3, <1>4, <1>5 DEF PlannedMove, IsPage, Fields
<1>7. /\ IsPage(d) /\ d.orders = b.orders /\ d.calls = b.calls
      /\ p = "replace" => d.queued = <<>> /\ d.after = None /\ d.active = x
      /\ p # "replace" => d.queued = b.queued /\ d.after = b.after /\ d.active = b.active
  BY <1>4, EmptyIs DEF IsPage, Fields
<1>8. Asked(d, M)
  BY <1>7 DEF Asked
<1>9. PICK o : o = [kind |-> "move", policy |-> p, from |-> from]
  OBVIOUS
<1>10. c.active = d.active /\ c.after = d.after /\ Asked(c, M)
  BY <1>5, <1>7, <1>8, SubmitAwaits
<1>11. c.orders = Append(b.orders, o) /\ c.queued = d.queued
  BY <1>5, <1>7, <1>9, SubmitIs
<1>12. o.policy = p /\ x = Len(b.orders) + 1
  BY <1>2, <1>9 DEF NextSeq
<1>13. Coming(b, t) \subseteq Coming(c, t) /\ (p = "replace" => x \in Coming(c, t))
  BY <1>11, <1>12, OrderComes
<1>14. Waits(c, L \cup Coming(c, t))
  BY <1>7, <1>10, <1>11, <1>13 DEF Waits
<1> QED BY <1>6, <1>10, <1>14

LEMMA PlayerAwaits ==
  ASSUME QueuedMoves = FALSE, Current, Plain(page), Awaiting, Player PROVE Awaiting'
<1>1. /\ Taken \in 0..Len(page.orders) /\ IsPage(page)
      /\ \A n \in Later(wire, 0, slot) \cup Coming(page, Taken) : n \in Nat
      /\ Waits(page, Later(wire, 0, slot) \cup Coming(page, Taken)) /\ Asked(page, Later(wire, 0, slot))
  <2>1. /\ Taken \in Nat /\ Taken \in 0..Len(page.orders) /\ IsPage(page) /\ Later(wire, 0, slot) \subseteq 1..Taken
        /\ Live(page, wire, Taken, slot) = Later(wire, 0, slot) \cup Coming(page, Taken)
    BY LaterNat
  <2>2. \A n \in Coming(page, Taken) : n \in Nat
    BY <2>1 DEF Coming
  <2>3. \A n \in Later(wire, 0, slot) : n \in Nat
    BY <2>1
  <2> QED BY <2>1, <2>2, <2>3 DEF Awaiting
<1>2. UNCHANGED <<slot, link, synced, wire>>
  BY DEF Player, OrderMove, QueueWork, OrderWork, Planned, server
<1>3. PICK L : L = Later(wire, 0, slot)
  OBVIOUS
<1>4. SUFFICES Waits(page', L \cup Coming(page', Taken)) /\ Asked(page', L)
  BY <1>2, <1>3, PlayerCurrent, PageAwaits
<1>5. Waits(page, L \cup Coming(page, Taken)) /\ Asked(page, L)
  BY <1>1, <1>3
<1>6. CASE page' = Replace(page, User)
  <2>1. Waits(page', Coming(page', Taken)) /\ Asked(page', L)
    BY <1>1, <1>5, <1>6, ReplaceAwaits
  <2> QED BY <2>1, SameWaits
<1>7. ASSUME NEW p \in Policies, OrderMove(p)
      PROVE  Waits(page', L \cup Coming(page', Taken)) /\ Asked(page', L)
  <2>1. ~DefersMove(page, p) /\ page' = MoveCommand(page, p, User)
    BY <1>7 DEF OrderMove
  <2>2. /\ page'.active = page.active /\ page'.after = page.after /\ page'.queued = page.queued
        /\ page'.orders = page.orders /\ page'.calls = page.calls
    BY <1>1, <2>1, MoveCommandAwaits
  <2>3. Coming(page', Taken) = Coming(page, Taken)
    BY <2>2 DEF Coming
  <2> QED BY <1>5, <2>2, <2>3, SameWaits DEF Asked
<1>8. ASSUME NEW p \in Policies, QueueWork(p), page' # Replace(page, User)
      PROVE  Waits(page', L \cup Coming(page', Taken)) /\ Asked(page', L)
  <2>1. Busy(page) /\ page' = DeferOrder(page, "work", p = "clear")
    BY <1>8 DEF QueueWork
  <2>2. PICK M : M = L \cup Coming(page, Taken)
    OBVIOUS
  <2>3. Waits(page', M) /\ page'.orders = page.orders /\ page'.calls = page.calls
    BY <1>1, <1>3, <1>5, <2>1, <2>2, DeferAwaits
  <2>4. Coming(page', Taken) = Coming(page, Taken)
    BY <2>3 DEF Coming
  <2> QED BY <1>5, <2>2, <2>3, <2>4 DEF Asked
<1>9. CASE Planned
  <2>1. PICK q : q = Tail(page.plans)
    OBVIOUS
  <2>2. PICK b : b = [page EXCEPT !.plans = q]
    OBVIOUS
  <2>3. PICK p : p = Head(page.plans)
    OBVIOUS
  <2>4. /\ page.plans # <<>>
        /\ page' = b \/ (~DefersMove(b, p.policy) /\ page' = PlannedMove(b, p.policy, p.from))
    BY <1>1, <1>9, <2>1, <2>2, <2>3 DEF Planned, IsPage, Fields
  <2>5. IsSeq(q)
    BY <1>1, <2>1, <2>4, TailIs DEF IsPage
  <2>6. /\ IsPage(b) /\ b.active = page.active /\ b.after = page.after /\ b.queued = page.queued
        /\ b.orders = page.orders /\ b.calls = page.calls
    BY <1>1, <2>2, <2>5 DEF IsPage, Fields
  <2>7. Coming(b, Taken) = Coming(page, Taken)
    BY <2>6 DEF Coming
  <2>8. Waits(b, L \cup Coming(b, Taken)) /\ Asked(b, L)
    BY <1>5, <2>6, <2>7, SameWaits DEF Asked
  <2>9. Taken \in 0..Len(b.orders)
    BY <1>1, <2>6
  <2> QED BY <2>4, <2>6, <2>8, <2>9, PlannedMoveAwaits
<1> QED BY <1>6, <1>7, <1>8, <1>9 DEF Player, OrderWork

LEMMA SendsComing ==
  ASSUME NEW t \in Nat, NEW s, NEW b, IsPage(b), NEW c, Sends(b, c, t, s)
  PROVE  Coming(b, t) \subseteq Coming(c, t)
<1>1. /\ Len(b.orders) \in Nat /\ DOMAIN b.orders = 1..Len(b.orders)
      /\ Len(c.orders) \in Nat /\ DOMAIN c.orders = 1..Len(c.orders)
  BY DEF Sends, Fine, IsPage, IsSeq
<1>2. \A n \in DOMAIN b.orders : n \in DOMAIN c.orders /\ c.orders[n] = b.orders[n]
  BY DEF Sends
<1>3. \A n \in (t + 1)..Len(b.orders) : n \in DOMAIN b.orders
  BY <1>1
<1>4. \A n \in (t + 1)..Len(b.orders) : n \in (t + 1)..Len(c.orders)
  BY <1>1, <1>2, <1>3
<1> QED BY <1>2, <1>3, <1>4 DEF Coming

LEMMA HeardAwaits ==
  ASSUME Current, Plain(page), Awaiting, Deliver PROVE Awaiting'
<1>1. PICK e : e = Head(wire)
  OBVIOUS
<1>2. PICK W : W = Tail(wire)
  OBVIOUS
<1>3. wire # <<>> /\ wire' = W /\ page' = Heard(page, e) /\ UNCHANGED <<posted, link, synced, server, had>>
  BY <1>1, <1>2 DEF Deliver
<1>4. /\ Taken \in Nat /\ Taken \in 0..Len(page.orders) /\ slot \in {None} \cup 1..Taken
      /\ Fine(page, Taken, slot) /\ IsPage(page) /\ IsSeq(wire) /\ Tells(e, Taken, slot)
      /\ \A i : Later(wire, i, slot) \subseteq 1..Taken
  <2>1. Tells(e, Taken, slot)
    BY <1>1, <1>3, LaterNat, TailElements DEF AllTell
  <2> QED BY <2>1, LaterNat
<1>5. slot' = slot /\ Taken' = Taken
  <2>1. Stream
    BY DEF Stream
  <2> QED BY <1>3, <2>1, StreamCurrent DEF server
<1>6. /\ \A i \in Nat : Later(W, i, slot) = Later(wire, i + 1, slot)
      /\ Later(wire, 0, slot) = With(Later(wire, 1, slot), e)
      /\ \A i \in DOMAIN W : i \in Nat /\ i + 1 \in DOMAIN wire /\ W[i] = wire[i + 1]
      /\ 1 \in DOMAIN wire /\ e = wire[1]
  BY <1>1, <1>2, <1>3, <1>4, TailLater
<1>7. InOrder(W, slot)
  <2> SUFFICES ASSUME NEW i \in DOMAIN W PROVE Oldest(W[i], Later(W, i, slot))
    BY DEF InOrder
  <2>1. i + 1 \in DOMAIN wire /\ W[i] = wire[i + 1] /\ Later(W, i, slot) = Later(wire, i + 1, slot)
    BY <1>6
  <2> QED BY <2>1 DEF Awaiting, InOrder
<1>8. PICK R : R = Later(wire, 1, slot)
  OBVIOUS
<1>9. Later(W, 0, slot) = R /\ R \subseteq 1..Taken /\ Oldest(e, R)
  <2>1. 0 \in Nat /\ 0 + 1 = 1
    OBVIOUS
  <2>2. Later(W, 0, slot) = R
    BY <1>6, <1>8, <2>1
  <2>3. Oldest(wire[1], Later(wire, 1, slot))
    BY <1>6 DEF Awaiting, InOrder
  <2> QED BY <1>4, <1>6, <1>8, <2>2, <2>3
<1>10. PICK L : L = R \cup Coming(page, Taken)
  OBVIOUS
<1>11. \A n \in Coming(page, Taken) : n \in Nat /\ \A m \in 1..Taken : m < n /\ m <= n
  BY <1>4 DEF Coming
<1>12. L \subseteq Nat
  <2>1. R \subseteq Nat
    BY <1>9
  <2> QED BY <1>10, <1>11, <2>1
<1>13. Oldest(e, L)
  <2>1. \A m \in Named(e) : m \in 1..Taken
    BY <1>9 DEF Oldest
  <2>2. Ending(e) => e.cmd \in 1..Taken
    BY <1>4 DEF Tells, Ending, Outcomes
  <2> QED BY <1>9, <1>10, <1>11, <2>1, <2>2 DEF Oldest
<1>14. Waits(page, With(L, e))
  <2>1. With(R, e) \cup Coming(page, Taken) = With(L, e)
    BY <1>10 DEF With
  <2>2. Live(page, wire, Taken, slot) = With(R, e) \cup Coming(page, Taken)
    BY <1>6, <1>8 DEF Live
  <2> QED BY <2>1, <2>2 DEF Awaiting
<1>15. Asked(page, Later(wire, 0, slot))
  BY DEF Awaiting
<1>16. Waits(page', R \cup Coming(page', Taken)) /\ Asked(page', R)
  <2>1. CASE e.state = "route"
    <3>1. page' = MoveDelta(page, e.route, e.gone) /\ Waits(page, L)
      BY <1>3, <1>14, <2>1 DEF Heard, With, Ending, Outcomes
    <3>2. Waits(page', L) /\ Asked(page', R) /\ page'.orders = page.orders
      <4>1. PICK c : c = MoveDelta(page, e.route, e.gone)
        OBVIOUS
      <4>2. PICK M : M = Later(wire, 0, slot)
        OBVIOUS
      <4>3. Fine(page, Taken, slot) /\ Tells(e, Taken, slot) /\ Oldest(e, L) /\ Waits(page, L) /\ Asked(page, M)
        BY <1>4, <1>13, <1>15, <3>1, <4>2
      <4>4. Waits(c, L) /\ Asked(c, R) /\ c.orders = page.orders
        BY <2>1, <4>1, <4>3, RouteAwaits
      <4> QED BY <3>1, <4>1, <4>4
    <3>3. Coming(page', Taken) = Coming(page, Taken)
      BY <3>2 DEF Coming
    <3> QED BY <1>10, <3>2, <3>3
  <2>2. CASE e.state # "route"
    <3>1. page' = Lifecycle(page, e)
      BY <1>3, <2>2 DEF Heard
    <3>2. Waits(page', L \cup Coming(page', Taken)) /\ Asked(page', R)
      BY <1>4, <1>12, <1>13, <1>14, <1>15, <2>2, <3>1, LifecycleAwaits
    <3>3. Coming(page, Taken) \subseteq Coming(page', Taken)
      <4>1. Sends(page, page', Taken, slot)
        BY <1>4, <1>3, HeardSends
      <4> QED BY <1>4, <4>1, SendsComing
    <3>4. L \cup Coming(page', Taken) = R \cup Coming(page', Taken)
      BY <1>10, <3>3
    <3> QED BY <3>2, <3>4
  <2> QED BY <2>1, <2>2
<1> QED BY <1>3, <1>5, <1>7, <1>9, <1>16 DEF Awaiting, Live

LEMMA AnswerAwaits ==
  ASSUME Current, Plain(page), Awaiting, NEW c \in page.calls, Answer(c) \/ TakeAnswer(c) PROVE Awaiting'
<1>1. /\ Taken \in 0..Len(page.orders) /\ IsPage(page)
      /\ Live(page, wire, Taken, slot) = Later(wire, 0, slot) \cup Coming(page, Taken)
      /\ \A n \in Live(page, wire, Taken, slot) : n \in Nat
  <2>1. /\ Taken \in Nat /\ Taken \in 0..Len(page.orders) /\ IsPage(page) /\ Later(wire, 0, slot) \subseteq 1..Taken
        /\ Live(page, wire, Taken, slot) = Later(wire, 0, slot) \cup Coming(page, Taken)
    BY LaterNat
  <2>2. \A n \in Coming(page, Taken) : n \in Nat
    BY <2>1 DEF Coming
  <2>3. \A n \in Later(wire, 0, slot) : n \in Nat
    BY <2>1
  <2> QED BY <2>1, <2>2, <2>3
<1>2. PICK R : R = Later(wire, 0, slot)
  OBVIOUS
<1>3. /\ Waits(page, R \cup Coming(page, Taken)) /\ link = "open" /\ synced = TRUE
      /\ \A n \in R \cup Coming(page, Taken) : n \in Nat
      /\ \A z \in page.calls : IsCall(z) /\ z.opening = FALSE /\ (z.fresh /\ z.answered => z.root \in {None} \cup R)
  BY <1>1, <1>2 DEF Awaiting, Asked
<1>4. slot \in {None} \cup R
  BY <1>2 DEF Later
<1>5. PICK x : x = page.calls \ {c}
  OBVIOUS
<1>6. PICK b : b = [page EXCEPT !.calls = x]
  OBVIOUS
<1>7. PICK d : d = [c EXCEPT !.answered = TRUE, !.root = slot, !.last = IF slot = None THEN None ELSE last]
  OBVIOUS
<1>8. PICK f : f = [c EXCEPT !.fresh = TRUE, !.retry = FALSE, !.answered = FALSE, !.root = None, !.last = None]
  OBVIOUS
<1>9. /\ IsCall(d) /\ d.opening = FALSE /\ d.root = slot
      /\ IsCall(f) /\ f.opening = FALSE /\ f.answered = FALSE
  BY <1>3, <1>7, <1>8 DEF IsCall
<1>10. PICK y : y = x \cup {d}
  OBVIOUS
<1>11. PICK z : z = x \cup {f}
  OBVIOUS
<1>12. /\ UNCHANGED <<posted, server, wire, link, synced>>
       /\ \/ \E w \in {x, y, z} : page' = [page EXCEPT !.calls = w]
          \/ c.answered /\ c.fresh /\ page' = Reconciled(b, c)
  <2>1. CASE Answer(c)
    BY <1>1, <1>5, <1>7, <1>10, <2>1 DEF Answer, IsPage, Fields
  <2>2. CASE TakeAnswer(c)
    BY <1>1, <1>3, <1>5, <1>6, <1>8, <1>11, <2>2 DEF TakeAnswer, IsPage, Fields
  <2> QED BY <2>1, <2>2
<1>13. SUFFICES Waits(page', R \cup Coming(page', Taken)) /\ Asked(page', R)
  BY <1>2, <1>12, AnswerCurrent, PageAwaits DEF server
<1>14. ASSUME NEW w \in {x, y, z}, NEW p, p = [page EXCEPT !.calls = w]
       PROVE  /\ IsPage(p) /\ p.orders = page.orders /\ p.queued = page.queued /\ p.plans = page.plans
              /\ Waits(p, R \cup Coming(page, Taken)) /\ Asked(p, R)
  <2>1. /\ IsPage(p) /\ p.orders = page.orders /\ p.queued = page.queued /\ p.plans = page.plans
        /\ p.active = page.active /\ p.after = page.after /\ p.calls = w
    BY <1>1, <1>14 DEF IsPage, Fields
  <2>2. Waits(p, R \cup Coming(page, Taken))
    BY <1>3, <2>1, SameWaits
  <2>3. Asked(p, R)
    BY <1>3, <1>4, <1>5, <1>9, <1>10, <1>11, <2>1 DEF Asked
  <2> QED BY <2>1, <2>2, <2>3
<1>15. ASSUME NEW w \in {x, y, z}, page' = [page EXCEPT !.calls = w]
       PROVE  Waits(page', R \cup Coming(page', Taken)) /\ Asked(page', R)
  BY <1>14, <1>15 DEF Coming
<1>16. CASE c.answered /\ c.fresh /\ page' = Reconciled(b, c)
  <2>1. PICK L : L = R \cup Coming(page, Taken)
    OBVIOUS
  <2>2. /\ IsPage(b) /\ b.orders = page.orders /\ b.queued = page.queued /\ b.plans = page.plans
        /\ Waits(b, L) /\ Asked(b, R)
    BY <1>6, <1>14, <2>1
  <2>3. Plain(b) /\ Taken \in 0..Len(b.orders) /\ c.root \in {None} \cup L /\ \A n \in L : n \in Nat
    BY <1>1, <1>3, <1>16, <2>1, <2>2 DEF Plain
  <2>4. Waits(page', L \cup Coming(page', Taken)) /\ Asked(page', R)
    BY <1>16, <2>2, <2>3, ReconciledAwaits
  <2>5. Coming(page, Taken) \subseteq Coming(page', Taken)
    <3>1. /\ Taken \in Nat /\ Fine(page, Taken, slot) /\ Heeded(page, slot) /\ GoodRoute(c, Taken)
      BY <1>16, LaterNat DEF Current, Fine
    <3>2. \A u \in x : IsCall(u) /\ (u.answered => GoodRoute(u, Taken))
      BY <1>5, <3>1 DEF Fine
    <3>3. Fine(b, Taken, slot)
      BY <1>6, <3>1, <3>2, CallsSend DEF Sends
    <3>4. slot \in {None, c.root} \cup b.pending
      <4>1. b.pending = page.pending
        BY <1>1, <1>6 DEF IsPage, Fields
      <4> QED BY <1>16, <3>1, <4>1 DEF Heeded
    <3>5. Sends(b, page', Taken, slot)
      BY <1>16, <3>1, <3>3, <3>4, ReconciledSends
    <3>6. Coming(b, Taken) \subseteq Coming(page', Taken)
      BY <2>2, <3>1, <3>5, SendsComing
    <3> QED BY <2>2, <3>6 DEF Coming
  <2>6. L \cup Coming(page', Taken) = R \cup Coming(page', Taken)
    BY <2>1, <2>5
  <2> QED BY <2>4, <2>6
<1> QED BY <1>12, <1>15, <1>16

(* The engine: what is live for the page is live after it.                    *)
LEMMA EngineKeepsLive ==
  ASSUME Awaiting, UNCHANGED <<page, link, synced>>, InOrder(wire', slot'),
         Later(wire, 0, slot) \subseteq Later(wire', 0, slot'),
         Coming(page, Taken) \subseteq Later(wire', 0, slot') \cup Coming(page, Taken')
  PROVE  Awaiting'
<1>1. Live(page, wire, Taken, slot) \subseteq Live(page, wire', Taken', slot')
  BY DEF Live
<1>2. Waits(page, Live(page, wire', Taken', slot'))
  BY <1>1, SameWaits DEF Awaiting
<1>3. Asked(page, Later(wire', 0, slot'))
  BY DEF Awaiting, Asked
<1> QED BY <1>2, <1>3 DEF Awaiting

LEMMA OneMoreTold ==
  ASSUME NEW t \in Nat, NEW s \in {None} \cup 1..t, NEW W, AllTell(W, t, s), InOrder(W, s),
         NEW e, NEW v, Follows(e, t, s, v)
  PROVE  /\ InOrder(Append(W, e), v) /\ Later(W, 0, s) \subseteq Later(Append(W, e), 0, v)
         /\ Ending(e) => e.cmd \in Later(Append(W, e), 0, v)
         /\ v # None => v \in Later(Append(W, e), 0, v)
<1>1. InOrder(Append(W, e), v)
  BY PublishedInOrder
<1>2. IsSeq(W) /\ Len(W) \in Nat
  BY DEF AllTell, IsSeq
<1>3. Later(Append(W, e), 0, v) = With(Later(W, 0, v), e)
  <2>1. \A i \in 0..Len(W) : Later(Append(W, e), i, v) = With(Later(W, i, v), e)
    BY <1>2, AppendLater
  <2>2. 0 \in 0..Len(W)
    BY <1>2
  <2> QED BY <2>1, <2>2
<1>4. {v} \ {None} \subseteq Later(W, 0, v) /\ Later(W, 0, s) \subseteq Later(W, 0, v) \cup ({s} \ {None})
  BY DEF Later
<1>5. s = None \/ s = v \/ (Ending(e) /\ e.cmd = s)
  BY DEF Follows
<1>6. With(Later(W, 0, v), e) = Later(W, 0, v) \cup (IF Ending(e) THEN {e.cmd} ELSE {})
  BY DEF With
<1> QED BY <1>1, <1>3, <1>4, <1>5, <1>6

LEMMA EngineAwaits ==
  ASSUME Current, Awaiting, Engine PROVE Awaiting'
<1>1. /\ Taken \in Nat /\ Taken \in 0..Len(page.orders) /\ slot \in {None} \cup 1..Taken
      /\ AllTell(wire, Taken, slot) /\ IsSeq(wire) /\ InOrder(wire, slot) /\ link = "open"
  BY LaterNat DEF Awaiting
<1>2. UNCHANGED <<page, posted, link, synced>>
  BY DEF Engine, Refuse, EditRoute, Start, End, PublishDelta, Snapshot
<1>3. Taken' = Taken \/ inbox' # inbox
  BY <1>2 DEF Taken, Posted, Lead
<1>4. \A d, e : /\ Publish(<<e>>) => wire' = Append(wire, e)
                /\ Publish(<<d, e>>) => wire' = Append(Append(wire, d), e)
  BY <1>1, ConcatIsAppend DEF Publish
<1>5. ASSUME NEW n, TakeUp(n)
      PROVE  /\ n = Taken + 1 /\ n \in Nat /\ Taken' = n /\ slot \in {None} \cup 1..n
             /\ n \in 1..n /\ n # slot /\ n # None
             /\ Coming(page, Taken) \subseteq (IF Appends(n) THEN {} ELSE {n}) \cup Coming(page, n)
  <2>1. n = Taken + 1 /\ n \in Nat /\ Taken' = n /\ n <= Len(page.orders)
    BY <1>2, <1>5, TakeUpIs
  <2>2. slot \in {None} \cup 1..n /\ n \in 1..n /\ n # slot /\ n # None
    BY <1>1, <2>1, OrderQueueAssumption
  <2>3. \A k \in (Taken + 1)..Len(page.orders) : k = n \/ k \in (n + 1)..Len(page.orders)
    BY <1>1, <2>1
  <2>4. Coming(page, Taken) \subseteq (IF Appends(n) THEN {} ELSE {n}) \cup Coming(page, n)
    BY <2>3 DEF Coming, Appends
  <2> QED BY <2>1, <2>2, <2>4
<1>6. ASSUME NEW n, Refuse(n) PROVE Awaiting'
  <2>1. TakeUp(n) /\ slot' = slot
    BY <1>6 DEF Refuse
  <2>2. PICK edit \in {FALSE, Appends(n) /\ slot # None} : Publish(<<Event(n, "rejected", edit)>>)
    BY <1>6 DEF Refuse
  <2>3. PICK e : e = Event(n, "rejected", edit)
    OBVIOUS
  <2>4. /\ wire' = Append(wire, e) /\ e.cmd = n /\ Named(e) = {} /\ e.state = "rejected"
        /\ Ending(e) \/ Appends(n)
    BY <1>4, <2>2, <2>3 DEF Event, Named, Ending, Outcomes
  <2>5. Follows(e, Taken, slot, slot)
    BY <1>5, <2>1, <2>4 DEF Follows
  <2>6. /\ InOrder(wire', slot') /\ Later(wire, 0, slot) \subseteq Later(wire', 0, slot')
        /\ Ending(e) => n \in Later(wire', 0, slot')
    BY <1>1, <2>1, <2>4, <2>5, OneMoreTold
  <2>7. Coming(page, Taken) \subseteq Later(wire', 0, slot') \cup Coming(page, Taken')
    BY <1>5, <2>1, <2>4, <2>6
  <2> QED BY <1>2, <2>6, <2>7, EngineKeepsLive
<1>7. ASSUME NEW n, EditRoute(n) PROVE Awaiting'
  <2>1. TakeUp(n) /\ slot' = slot /\ Appends(n)
        /\ Publish(<<Event(n, "accepted", TRUE), Event(n, "finished", TRUE)>>)
    BY <1>7 DEF EditRoute
  <2>2. PICK d : d = Event(n, "accepted", TRUE)
    OBVIOUS
  <2>3. PICK e : e = Event(n, "finished", TRUE)
    OBVIOUS
  <2>4. /\ wire' = Append(Append(wire, d), e)
        /\ Named(d) = {} /\ ~Ending(d) /\ Named(e) = {} /\ ~Ending(e)
    BY <1>4, <2>1, <2>2, <2>3 DEF Event, Named, Ending
  <2>5. /\ n \in Nat /\ n \in {Taken, Taken + 1} /\ slot \in {None} \cup 1..n /\ n \in 1..n
        /\ slot \in {None, slot} \cup ((Taken + 1)..n)
    BY <1>5, <2>1
  <2>6. AllTell(wire, n, slot)
    BY <1>1, <2>5, LaterTells
  <2>7. Tells(d, n, slot)
    BY <2>2, <2>5, EventTells DEF Outcomes
  <2>8. AllTell(Append(wire, d), n, slot)
    <3>1. AllTell(<<d>>, n, slot)
      BY <2>7, ListsTold
    <3>2. Append(wire, d) = wire \o <<d>>
      BY <1>1, ConcatIsAppend
    <3> QED BY <2>6, <3>1, <3>2, ConcatElements DEF AllTell
  <2>9. Follows(d, n, slot, slot) /\ Follows(e, n, slot, slot)
    BY <2>4 DEF Follows
  <2>10. InOrder(Append(wire, d), slot) /\ Later(wire, 0, slot) \subseteq Later(Append(wire, d), 0, slot)
    BY <1>1, <2>5, <2>6, <2>9, OneMoreTold
  <2>11. InOrder(wire', slot) /\ Later(Append(wire, d), 0, slot) \subseteq Later(wire', 0, slot)
    BY <2>4, <2>5, <2>8, <2>9, <2>10, OneMoreTold
  <2>12. Coming(page, Taken) \subseteq Coming(page, Taken')
    BY <1>5, <2>1
  <2> QED BY <1>2, <2>1, <2>10, <2>11, <2>12, EngineKeepsLive
<1>8. ASSUME NEW n, Start(n) PROVE Awaiting'
  <2>1. TakeUp(n) /\ slot' = n
    BY <1>8 DEF Start
  <2>2. PICK e : e = Event(n, "accepted", FALSE)
    OBVIOUS
  <2>3. e.cmd = n /\ Named(e) = {n} /\ ~Ending(e)
    BY <2>2 DEF Event, Named, Ending, Outcomes
  <2>4. PICK V : /\ wire' = Append(V, e) /\ AllTell(V, Taken, None) /\ InOrder(V, None)
                 /\ Later(wire, 0, slot) \subseteq Later(V, 0, None)
    <3>1. CASE slot = None
      <4>1. <<>> \o <<e>> = <<e>>
        OBVIOUS
      <4>2. wire' = Append(wire, e)
        BY <1>4, <1>8, <2>2, <3>1, <4>1 DEF Start
      <4> QED BY <1>1, <3>1, <4>2
    <3>2. CASE slot # None
      <4>1. PICK d : d = Event(slot, "canceled", FALSE)
        OBVIOUS
      <4>2. wire' = wire \o (<<d>> \o <<e>>)
        <5>1. link = "open"
          BY <1>1
        <5> QED BY <1>8, <2>2, <3>2, <4>1, <5>1 DEF Start, Publish
      <4>3. wire' = Append(Append(wire, d), e)
        BY <1>1, <4>2, ConcatTwo
      <4>4. d.cmd = slot /\ Named(d) = {} /\ Ending(d)
        BY <4>1 DEF Event, Named, Ending, Outcomes
      <4>5. Follows(d, Taken, slot, None)
        BY <3>2, <4>4 DEF Follows
      <4>6. InOrder(Append(wire, d), None) /\ Later(wire, 0, slot) \subseteq Later(Append(wire, d), 0, None)
        BY <1>1, <4>5, OneMoreTold
      <4>7. AllTell(Append(wire, d), Taken, None)
        <5>1. None \in {None, slot} \cup ((Taken + 1)..Taken) /\ Taken \in {Taken, Taken + 1}
          OBVIOUS
        <5>2. AllTell(wire, Taken, None)
          BY <1>1, <5>1, LaterTells
        <5>3. Tells(d, Taken, None)
          BY <1>1, <3>2, <4>1, EventTells DEF Outcomes
        <5>4. AllTell(<<d>>, Taken, None)
          BY <5>3, ListsTold
        <5>5. Append(wire, d) = wire \o <<d>>
          BY <1>1, ConcatIsAppend
        <5> QED BY <5>2, <5>4, <5>5, ConcatElements DEF AllTell
      <4> QED BY <4>3, <4>6, <4>7
    <3> QED BY <3>1, <3>2
  <2>5. n = Taken + 1 /\ n # None /\ Taken' = n
        /\ Coming(page, Taken) \subseteq {n} \cup Coming(page, n)
    BY <1>5, <2>1
  <2>6. Follows(e, Taken, None, n)
    BY <2>3, <2>5 DEF Follows
  <2>7. /\ InOrder(wire', n) /\ Later(V, 0, None) \subseteq Later(wire', 0, n)
        /\ n \in Later(wire', 0, n)
    BY <1>1, <2>4, <2>5, <2>6, OneMoreTold
  <2> QED BY <1>2, <2>1, <2>4, <2>5, <2>7, EngineKeepsLive
<1>9. ASSUME NEW x \in {"finished", "canceled"}, End(x) PROVE Awaiting'
  <2>1. PICK e : e = Event(slot, x, FALSE)
    OBVIOUS
  <2>2. slot # None /\ slot' = None /\ wire' = Append(wire, e) /\ Taken' = Taken
    BY <1>3, <1>4, <1>9, <2>1 DEF End
  <2>3. e.cmd = slot /\ Named(e) = {} /\ Ending(e)
    BY <2>1 DEF Event, Named, Ending, Outcomes
  <2>4. Follows(e, Taken, slot, None)
    BY <2>2, <2>3 DEF Follows
  <2>5. InOrder(wire', None) /\ Later(wire, 0, slot) \subseteq Later(wire', 0, None)
    BY <1>1, <2>2, <2>4, OneMoreTold
  <2> QED BY <1>2, <2>2, <2>5, EngineKeepsLive
<1>10. CASE PublishDelta
  <2>1. PICK e : e = [state |-> "route", route |-> Route,
                      gone |-> IF Route.root = shown.root THEN None ELSE shown.root]
    OBVIOUS
  <2>2. slot' = slot /\ wire' = Append(wire, e) /\ Taken' = Taken
    BY <1>3, <1>4, <1>10, <2>1 DEF PublishDelta
  <2>3. ~Ending(e) /\ Named(e) \subseteq {slot} \ {None}
    BY <2>1 DEF Ending, Named, Outcomes, Route, NoRoute
  <2>4. Follows(e, Taken, slot, slot)
    BY <2>3 DEF Follows
  <2>5. InOrder(wire', slot) /\ Later(wire, 0, slot) \subseteq Later(wire', 0, slot)
    BY <1>1, <2>2, <2>4, OneMoreTold
  <2> QED BY <1>2, <2>2, <2>5, EngineKeepsLive
<1>11. CASE Snapshot
  <2>1. UNCHANGED <<wire, slot>> /\ Taken' = Taken
    BY <1>3, <1>11 DEF Snapshot
  <2> QED BY <1>1, <1>2, <2>1, EngineKeepsLive
<1> QED BY <1>6, <1>7, <1>8, <1>9, <1>10, <1>11 DEF Engine
LEMMA HadOnlyGrows == ASSUME [Next]_vars, had' = {} PROVE had = {}
BY DEF Next, vars, Trouble, Player, OrderMove, QueueWork, OrderWork, Planned, Posting, PostArrives, PostAnswered,
   PostFails, Stream, Open, Bootstrap, Deliver, OtherUnit, Calling, Answer, TakeAnswer, CallFails,
   Engine, Refuse, EditRoute, Start, End, PublishDelta, Snapshot, Drop, Reload


LEMMA NextAwaits ==
  ASSUME QueuedMoves = FALSE, IInv, WInv, FInv, PInv, AInv, [Next]_vars PROVE AInv'
<1>1. SUFFICES ASSUME had' = {} PROVE Awaiting'
  BY DEF AInv
<1>2. had = {}
  BY <1>1, HadOnlyGrows
<1>3. Current /\ Ended /\ Plain(page) /\ Awaiting
  BY <1>2 DEF WInv, FInv, PInv, AInv
<1>4. CASE Player
  BY <1>3, <1>4, PlayerAwaits
<1>5. CASE Posting
  <2>1. ~PostFails
    BY <1>1 DEF PostFails, Trouble
  <2>2. Taken' = Taken /\ UNCHANGED <<slot, link, synced, wire>>
    BY <1>3, <1>5, <2>1, PostCurrent DEF Posting, PostArrives, PostAnswered, server
  <2>3. page'.active = page.active /\ page'.after = page.after /\ page'.queued = page.queued
        /\ page'.orders = page.orders /\ page'.calls = page.calls
    <3>1. IsPage(page)
      BY <1>3, LaterNat
    <3> QED BY <1>5, <2>1, <3>1 DEF Posting, PostArrives, PostAnswered, IsPage, Fields
  <2>4. Waits(page', Later(wire, 0, slot) \cup Coming(page', Taken))
    <3>1. Coming(page', Taken) = Coming(page, Taken)
      BY <2>3 DEF Coming
    <3> QED BY <1>3, <2>3, <3>1, SameWaits DEF Awaiting, Live
  <2>5. Asked(page', Later(wire, 0, slot))
    BY <1>3, <2>3 DEF Awaiting, Asked
  <2> QED BY <1>3, <2>2, <2>4, <2>5, PageAwaits
<1>6. CASE Stream
  <2>1. CASE Deliver
    BY <1>3, <2>1, HeardAwaits
  <2>2. ~Open /\ ~Bootstrap
    BY <1>3 DEF Awaiting, Open, Bootstrap
  <2>3. CASE OtherUnit
    <3>1. IsPage(page) /\ page' = Revise(page) /\ UNCHANGED <<posted, slot, link, synced, wire>>
      BY <1>3, <2>3, LaterNat DEF OtherUnit, server
    <3>2. Taken' = Taken
      BY <1>3, <1>6, StreamCurrent
    <3>3. /\ page'.active = page.active /\ page'.after = page.after /\ page'.queued = page.queued
          /\ page'.orders = page.orders /\ Asked(page', Later(wire, 0, slot))
      BY <1>3, <3>1, RevisedAwaits DEF Awaiting
    <3>4. Waits(page', Later(wire, 0, slot) \cup Coming(page', Taken))
      <4>1. Coming(page', Taken) = Coming(page, Taken)
        BY <3>3 DEF Coming
      <4> QED BY <1>3, <3>3, <4>1, SameWaits DEF Awaiting, Live
    <3> QED BY <1>3, <3>1, <3>2, <3>3, <3>4, PageAwaits
  <2> QED BY <1>6, <2>1, <2>2, <2>3 DEF Stream
<1>7. CASE Calling
  <2>1. \A c \in page.calls : ~CallFails(c)
    BY <1>1 DEF CallFails, Trouble
  <2> QED BY <1>3, <1>7, <2>1, AnswerAwaits DEF Calling
<1>8. CASE Engine
  BY <1>3, <1>8, EngineAwaits
<1>9. ~Drop /\ ~Reload
  BY <1>1 DEF Drop, Reload, Trouble
<1>10. CASE UNCHANGED vars
  <2>1. Taken' = Taken /\ UNCHANGED <<page, slot, link, synced, wire>>
    BY <1>10 DEF vars, server, Taken, Posted, Lead
  <2> QED BY <1>3, <2>1 DEF Awaiting
<1> QED BY <1>4, <1>5, <1>6, <1>7, <1>8, <1>9, <1>10 DEF Next

LEMMA InitAwaits == ASSUME Init PROVE AInv
<1>1. /\ page.active = None /\ page.after = None /\ page.queued = <<>> /\ page.calls = {}
      /\ wire = <<>> /\ link = "open" /\ synced = TRUE
  BY DEF Init
<1>2. InOrder(wire, slot)
  BY <1>1, EmptyIs DEF InOrder
<1>3. Waits(page, Live(page, wire, Taken, slot)) /\ Asked(page, Later(wire, 0, slot))
  BY <1>1 DEF Waits, Asked
<1> QED BY <1>1, <1>2, <1>3 DEF AInv, Awaiting

LEMMA QuietAwaits == ASSUME WInv, AInv PROVE QueueIsAwaited
<1>1. SUFFICES ASSUME had = {}, Quiet, page.queued # <<>> PROVE slot # None /\ page.after = slot
  BY DEF QueueIsAwaited
<1>2. Current /\ Awaiting
  BY <1>1 DEF WInv, AInv
<1>3. page.chain = <<>> /\ inbox = <<>> /\ wire = <<>>
  BY <1>1 DEF Quiet
<1>4. Taken = Len(page.orders) /\ Len(page.orders) \in Nat
  <2>1. ~posted /\ Len(page.orders) \in Nat
    BY <1>2, <1>3, TakenIs DEF Current, Commands
  <2>2. Len(<<>>) = 0
    OBVIOUS
  <2> QED BY <1>3, <2>1, <2>2 DEF Taken, Posted, Lead
<1>5. Coming(page, Taken) = {}
  <2>1. (Taken + 1)..Len(page.orders) = {}
    BY <1>4
  <2> QED BY <2>1 DEF Coming
<1>6. Later(wire, 0, slot) = {slot} \ {None}
  <2>1. DOMAIN wire = {}
    BY <1>3, EmptyIs
  <2> QED BY <2>1 DEF Later
<1>7. page.after # None /\ page.after \in {None} \cup Live(page, wire, Taken, slot)
  BY <1>1, <1>2 DEF Awaiting, Waits
<1> QED BY <1>5, <1>6, <1>7 DEF Live

(* With no trouble, and Moves sent at once, a queue is never left waiting for *)
(* nothing, for any number of orders and handshakes: when all that was sent   *)
(* has been heard, the unit works on the order the queue waits for, and will  *)
(* tell of its end (intentQueueManager.ts: handleLifecycleEvent, startNext,   *)
(* applyReconciliation; moveRouter.ts: applyMoveOrders).                      *)
THEOREM QueuesAreAwaited == ASSUME QueuedMoves = FALSE PROVE Spec => []QueueIsAwaited
<1>1. ASSUME IInv, WInv, FInv, PInv, AInv, [Next]_vars PROVE PInv' /\ AInv'
  BY <1>1, NextKeeps, NextAwaits DEF PInv
<1> QED BY <1>1, InitOrdered, InitCurrent, InitEnded, InitPlain, InitAwaits, NextOrdered, NextCurrent, NextEnded,
           QuietAwaits, PTL DEF Spec

=============================================================================
