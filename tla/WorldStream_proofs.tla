------------------------- MODULE WorldStream_proofs -------------------------
(* WorldStream for any units, ranges, runs and troubles: the browser never    *)
(* shows units of two runs of the world.                                      *)
(*                                                                            *)
(* A stream of events continues what is known to be of the runs R when each   *)
(* of its deltas is of one of them, or of a run whose reset came before it    *)
(* in the stream. The events the engine publishes continue its checkpoint,    *)
(* whichever this is, and the filter keeps it so: hence what comes after the  *)
(* snapshot on the wire continues it, and the bridge leaves at a reset of     *)
(* another run than its own.                                                  *)
EXTENDS WorldStream, SequenceTheorems, WellFoundedInduction, TLAPS

IsSeq(s) == Len(s) \in Nat /\ s = [i \in 1..Len(s) |-> s[i]]

WorldFields == {"run", "tech", "joined", "memory", "sees", "units"}
RedisFields == {"events", "saved", "run", "content", "alive", "asked", "pushing", "pending"}
SrvFields   == {"pc", "content", "told", "prev", "read", "cursor", "batch", "units", "visible", "near",
                "dirty", "looked"}
UiFields    == {"es", "run", "view", "memory", "calls", "retry", "snap", "rec", "health"}

Has(c, F) == c = [f \in F |-> c[f]]

(* A run is only told of what is shown.                                       *)
Unnamed(units) == \A u \in DOMAIN units : "of" \notin DOMAIN units[u]

-----------------------------------------------------------------------------
(* Streams of events.                                                         *)

ResetsBefore(L, j) == {L[i].run : i \in {k \in DOMAIN L : k < j /\ L[k].kind = "reset"}}

Continues(L, R) == \A j \in DOMAIN L : L[j].kind = "delta" => L[j].run \in R \cup ResetsBefore(L, j)

(* The runs that are known after it.                                          *)
Known(L, R) == R \cup ResetsBefore(L, Len(L) + 1)

KnownWith(e, R) == IF e.kind = "reset" THEN R \cup {e.run} ELSE R

-----------------------------------------------------------------------------
(* The invariant.                                                             *)

Event(e)   == e.kind = "reset" \/ (e.kind = "delta" /\ Unnamed(e.updates))
Message(m) == m.kind \in {"reset", "health"} \/ (m.kind = "delta" /\ Unnamed(m.units))

Kept(saved) == saved.at \in 0..Len(redis.events) /\ Unnamed(saved.units)

(* Ticks happen in a run that all who continue have been told of.             *)
Ticking == phase \in {"idle", "down", "again"}

Heard(R, c) ==
  /\ c \in 0..Len(redis.events)
  /\ Continues(After(c), R)
  /\ Ticking => world.run \in Known(After(c), R)

Shapes ==
  /\ Has(world, WorldFields) /\ Has(redis, RedisFields) /\ Has(srv, SrvFields) /\ Has(ui, UiFields)
  /\ IsSeq(wire) /\ IsSeq(redis.events)
  /\ \A i \in DOMAIN redis.events : Event(redis.events[i])
  /\ Unnamed(world.units) /\ Unnamed(srv.units)

Filtering == srv.pc \in {"gap", "join", "live", "check"}

(* What is still to come after what is known to be of the runs R.             *)
Rides(W, R) ==
  /\ \A i \in DOMAIN W : Message(W[i])
  /\ Continues(W, R)
  /\ Filtering => Heard(Known(W, R), srv.cursor)

Checkpointed ==
  /\ Kept(redis.saved) /\ Heard({redis.saved.run}, redis.saved.at)
  /\ srv.pc = "label" => Kept(srv.read) /\ Heard({srv.read.run}, srv.read.at)
  /\ srv.pc = "check" =>
       /\ srv.batch = SubSeq(redis.events, srv.cursor + 1, srv.cursor + Len(srv.batch))
       /\ Len(srv.batch) \in Nat /\ srv.cursor + Len(srv.batch) <= Len(redis.events)

Connected ==
  \/ ui.es \in {"connecting", "failed"} /\ ~ui.snap /\ srv.pc = "off" /\ wire = <<>>
  \/ ui.es = "open" /\ ~ui.snap /\ srv.pc \in {"start", "label", "boot"} /\ wire = <<>>
  \/ /\ ui.es = "open" /\ (Filtering \/ srv.pc = "ended")
     /\ \/ ui.snap /\ Rides(wire, {ui.run})
        \/ /\ ~ui.snap /\ wire # <<>> /\ Head(wire).kind = "snapshot" /\ Unnamed(Head(wire).units)
           /\ Rides(Tail(wire), {Head(wire).run})

IInv == Shapes /\ Checkpointed /\ Connected /\ OneRunShown

-----------------------------------------------------------------------------
(* Sequences and induction.                                                   *)

LEMMA SeqIs == ASSUME NEW s, IsSeq(s) PROVE \E S : s \in Seq(S)
<1>1. s \in Seq({s[i] : i \in 1..Len(s)})
  BY IsASeq DEF IsSeq
<1> QED BY <1>1

LEMMA IsSeqIs == ASSUME NEW S, NEW s \in Seq(S) PROVE IsSeq(s)
BY LenProperties DEF IsSeq

LEMMA EmptyIs == IsSeq(<<>>) /\ DOMAIN <<>> = {} /\ Len(<<>>) = 0
<1>1. <<>> \in Seq({})
  OBVIOUS
<1>2. Len(<<>>) = 0 /\ DOMAIN <<>> = {}
  BY EmptySeq
<1> QED BY <1>1, <1>2, IsSeqIs

LEMMA SeqDomain == ASSUME NEW s, IsSeq(s) PROVE Len(s) \in Nat /\ DOMAIN s = 1..Len(s)
<1>1. PICK S : s \in Seq(S)
  BY SeqIs
<1> QED BY <1>1, LenProperties

LEMMA AppendIs ==
  ASSUME NEW s, IsSeq(s), NEW x
  PROVE  /\ IsSeq(Append(s, x)) /\ DOMAIN Append(s, x) = 1..(Len(s) + 1)
         /\ Len(Append(s, x)) = Len(s) + 1 /\ Append(s, x)[Len(s) + 1] = x
         /\ \A i \in DOMAIN s : Append(s, x)[i] = s[i]
<1>1. PICK S : s \in Seq(S)
  BY SeqIs
<1>2. s \in Seq(S \cup {x})
  BY <1>1
<1>3. Append(s, x) \in Seq(S \cup {x}) /\ Len(Append(s, x)) = Len(s) + 1
      /\ Append(s, x)[Len(s) + 1] = x /\ \A i \in 1..Len(s) : Append(s, x)[i] = s[i]
  BY <1>2, AppendProperties
<1>4. DOMAIN s = 1..Len(s) /\ DOMAIN Append(s, x) = 1..(Len(s) + 1)
  BY <1>1, <1>3, LenProperties
<1> QED BY <1>3, <1>4, IsSeqIs

LEMMA TailIs ==
  ASSUME NEW s, IsSeq(s), s # <<>>
  PROVE  /\ IsSeq(Tail(s)) /\ Head(s) = s[1] /\ 1 \in DOMAIN s /\ DOMAIN s = 1..Len(s) /\ Len(s) \in Nat
         /\ DOMAIN Tail(s) = 1..(Len(s) - 1) /\ Len(Tail(s)) = Len(s) - 1
         /\ \A i \in DOMAIN Tail(s) : Tail(s)[i] = s[i + 1]
<1>1. PICK S : s \in Seq(S)
  BY SeqIs
<1>2. /\ Tail(s) \in Seq(S) /\ Len(Tail(s)) = Len(s) - 1
      /\ \A i \in 1..Len(Tail(s)) : Tail(s)[i] = s[i + 1]
  BY <1>1, HeadTailProperties
<1>3. Len(s) \in Nat /\ Len(s) # 0 /\ DOMAIN s = 1..Len(s)
  BY <1>1, LenProperties, EmptySeq
<1>4. DOMAIN Tail(s) = 1..(Len(s) - 1)
  BY <1>2, LenProperties
<1>5. Head(s) = s[1]
  BY <1>1
<1>6. IsSeq(Tail(s))
  BY <1>2, IsSeqIs
<1> QED BY <1>2, <1>3, <1>4, <1>5, <1>6

LEMMA ConcatIs ==
  ASSUME NEW a, NEW b, IsSeq(a), IsSeq(b)
  PROVE  /\ IsSeq(a \o b) /\ Len(a) \in Nat /\ Len(b) \in Nat /\ DOMAIN a = 1..Len(a) /\ DOMAIN b = 1..Len(b)
         /\ DOMAIN (a \o b) = 1..(Len(a) + Len(b)) /\ Len(a \o b) = Len(a) + Len(b)
         /\ \A i \in 1..Len(a) : (a \o b)[i] = a[i]
         /\ \A i \in 1..Len(b) : (a \o b)[Len(a) + i] = b[i]
<1>1. PICK S : a \in Seq(S)
  BY SeqIs
<1>2. PICK T : b \in Seq(T)
  BY SeqIs
<1>3. a \in Seq(S \cup T) /\ b \in Seq(S \cup T)
  BY <1>1, <1>2
<1>4. /\ a \o b \in Seq(S \cup T) /\ Len(a \o b) = Len(a) + Len(b)
      /\ \A i \in 1..(Len(a) + Len(b)) : (a \o b)[i] = IF i <= Len(a) THEN a[i] ELSE b[i - Len(a)]
  BY <1>3, ConcatProperties
<1>5. /\ Len(a) \in Nat /\ Len(b) \in Nat /\ DOMAIN a = 1..Len(a) /\ DOMAIN b = 1..Len(b)
      /\ DOMAIN (a \o b) = 1..(Len(a) + Len(b))
  BY <1>3, <1>4, LenProperties
<1>6. IsSeq(a \o b)
  BY <1>4, IsSeqIs
<1>7. \A i \in 1..Len(a) : (a \o b)[i] = a[i]
  BY <1>4, <1>5
<1>8. ASSUME NEW i \in 1..Len(b) PROVE (a \o b)[Len(a) + i] = b[i]
  <2>1. Len(a) + i \in 1..(Len(a) + Len(b)) /\ ~(Len(a) + i <= Len(a)) /\ (Len(a) + i) - Len(a) = i
    BY <1>5
  <2> QED BY <1>4, <2>1
<1> QED BY <1>4, <1>5, <1>6, <1>7, <1>8

(* A set of numbers has a least one.                                          *)
LEMMA Least ==
  ASSUME NEW T, T \subseteq Nat, T # {} PROVE \E n \in T : \A m \in T : n <= m
<1>1. PICK n \in T : \A m \in T : ~(<<m, n>> \in OpToRel(<, Nat))
  BY NatLessThanWellFounded, WFMin
<1>2. \A m \in T : ~(m < n)
  BY <1>1 DEF OpToRel
<1> QED BY <1>2

-----------------------------------------------------------------------------
(* Streams of events.                                                         *)

LEMMA EmptyContinues == ASSUME NEW R PROVE Continues(<<>>, R) /\ Known(<<>>, R) = R
BY EmptyIs DEF Continues, Known, ResetsBefore

LEMMA AppendContinues ==
  ASSUME NEW L, IsSeq(L), NEW e, NEW R
  PROVE  /\ Known(Append(L, e), R) = KnownWith(e, Known(L, R))
         /\ Continues(L, R) /\ (e.kind = "delta" => e.run \in Known(L, R)) => Continues(Append(L, e), R)
<1>1. /\ DOMAIN L = 1..Len(L) /\ Len(L) \in Nat /\ Len(Append(L, e)) = Len(L) + 1
      /\ DOMAIN Append(L, e) = 1..(Len(L) + 1) /\ Append(L, e)[Len(L) + 1] = e
      /\ \A i \in DOMAIN L : Append(L, e)[i] = L[i]
  BY AppendIs, SeqDomain
<1>2. \A j \in 1..(Len(L) + 1) : ResetsBefore(Append(L, e), j) = ResetsBefore(L, j)
  BY <1>1 DEF ResetsBefore
<1>3. ResetsBefore(Append(L, e), Len(L) + 2)
        = ResetsBefore(L, Len(L) + 1) \cup (IF e.kind = "reset" THEN {e.run} ELSE {})
  BY <1>1 DEF ResetsBefore
<1>4. Known(Append(L, e), R) = KnownWith(e, Known(L, R))
  BY <1>1, <1>3 DEF Known, KnownWith
<1>5. ASSUME Continues(L, R), e.kind = "delta" => e.run \in Known(L, R) PROVE Continues(Append(L, e), R)
  <2> SUFFICES ASSUME NEW j \in DOMAIN Append(L, e), Append(L, e)[j].kind = "delta"
               PROVE  Append(L, e)[j].run \in R \cup ResetsBefore(Append(L, e), j)
    BY DEF Continues
  <2>1. CASE j = Len(L) + 1
    BY <1>1, <1>2, <1>5, <2>1 DEF Known
  <2>2. CASE j \in DOMAIN L
    BY <1>1, <1>2, <1>5, <2>2 DEF Continues
  <2> QED BY <1>1, <2>1, <2>2
<1> QED BY <1>4, <1>5

LEMMA TailContinues ==
  ASSUME NEW L, IsSeq(L), L # <<>>, NEW R, Continues(L, R)
  PROVE  /\ Known(L, R) = Known(Tail(L), KnownWith(Head(L), R))
         /\ Continues(Tail(L), KnownWith(Head(L), R))
         /\ Head(L).kind = "delta" => Head(L).run \in R
<1>1. /\ IsSeq(Tail(L)) /\ Head(L) = L[1] /\ DOMAIN L = 1..Len(L) /\ Len(L) \in Nat /\ 1 \in DOMAIN L
      /\ DOMAIN Tail(L) = 1..(Len(L) - 1) /\ Len(Tail(L)) = Len(L) - 1
      /\ \A i \in DOMAIN Tail(L) : Tail(L)[i] = L[i + 1]
  BY TailIs
<1>2. ASSUME NEW j \in 1..Len(L)
      PROVE  R \cup ResetsBefore(L, j + 1) = KnownWith(Head(L), R) \cup ResetsBefore(Tail(L), j)
  <2>1. ASSUME NEW r \in ResetsBefore(L, j + 1)
        PROVE  r \in KnownWith(Head(L), R) \cup ResetsBefore(Tail(L), j)
    <3>1. PICK i \in DOMAIN L : i < j + 1 /\ L[i].kind = "reset" /\ r = L[i].run
      BY <2>1 DEF ResetsBefore
    <3>2. CASE i = 1
      BY <1>1, <3>1, <3>2 DEF KnownWith
    <3>3. CASE i # 1
      <4>1. i - 1 \in DOMAIN Tail(L) /\ i - 1 < j /\ Tail(L)[i - 1] = L[i]
        <5>1. i - 1 \in DOMAIN Tail(L) /\ i - 1 < j /\ (i - 1) + 1 = i
          BY <1>1, <3>1, <3>3
        <5> QED BY <1>1, <5>1
      <4> QED BY <3>1, <4>1 DEF ResetsBefore
    <3> QED BY <3>2, <3>3
  <2>2. ASSUME NEW r \in ResetsBefore(Tail(L), j) PROVE r \in ResetsBefore(L, j + 1)
    <3>1. PICK i \in DOMAIN Tail(L) : i < j /\ Tail(L)[i].kind = "reset" /\ r = Tail(L)[i].run
      BY <2>2 DEF ResetsBefore
    <3>2. i + 1 \in DOMAIN L /\ i + 1 < j + 1 /\ Tail(L)[i] = L[i + 1]
      BY <1>1, <3>1
    <3> QED BY <3>1, <3>2 DEF ResetsBefore
  <2>3. Head(L).kind = "reset" => Head(L).run \in ResetsBefore(L, j + 1)
    BY <1>1 DEF ResetsBefore
  <2> QED BY <2>1, <2>2, <2>3 DEF KnownWith
<1>3. Known(L, R) = Known(Tail(L), KnownWith(Head(L), R))
  <2>1. Len(L) \in 1..Len(L) /\ Len(Tail(L)) + 1 = Len(L)
    BY <1>1
  <2> QED BY <1>2, <2>1 DEF Known
<1>4. ASSUME NEW j \in DOMAIN Tail(L), Tail(L)[j].kind = "delta"
      PROVE  Tail(L)[j].run \in KnownWith(Head(L), R) \cup ResetsBefore(Tail(L), j)
  <2>1. j \in 1..Len(L) /\ j + 1 \in DOMAIN L /\ Tail(L)[j] = L[j + 1]
    BY <1>1
  <2>2. L[j + 1].run \in R \cup ResetsBefore(L, j + 1)
    BY <1>4, <2>1 DEF Continues
  <2> QED BY <1>2, <2>1, <2>2
<1>5. Head(L).kind = "delta" => Head(L).run \in R
  <2>1. ResetsBefore(L, 1) = {}
    BY <1>1 DEF ResetsBefore
  <2> QED BY <1>1, <2>1 DEF Continues
<1> QED BY <1>3, <1>4, <1>5 DEF Continues

LEMMA ConcatContinues ==
  ASSUME NEW L, NEW M, IsSeq(L), IsSeq(M), NEW R
  PROVE  /\ Known(L \o M, R) = Known(M, Known(L, R))
         /\ Continues(L \o M, R) <=> Continues(L, R) /\ Continues(M, Known(L, R))
<1>1. /\ Len(L) \in Nat /\ Len(M) \in Nat /\ DOMAIN L = 1..Len(L) /\ DOMAIN M = 1..Len(M)
      /\ DOMAIN (L \o M) = 1..(Len(L) + Len(M)) /\ Len(L \o M) = Len(L) + Len(M)
      /\ \A i \in 1..Len(L) : (L \o M)[i] = L[i]
      /\ \A i \in 1..Len(M) : (L \o M)[Len(L) + i] = M[i]
  BY ConcatIs
<1>2. \A j \in 1..(Len(L) + 1) : ResetsBefore(L \o M, j) = ResetsBefore(L, j)
  BY <1>1 DEF ResetsBefore
<1>3. ASSUME NEW j \in 1..(Len(M) + 1)
      PROVE  R \cup ResetsBefore(L \o M, Len(L) + j) = Known(L, R) \cup ResetsBefore(M, j)
  <2>1. ASSUME NEW r \in ResetsBefore(L \o M, Len(L) + j)
        PROVE  r \in ResetsBefore(L, Len(L) + 1) \cup ResetsBefore(M, j)
    <3>1. PICK i \in DOMAIN (L \o M) : i < Len(L) + j /\ (L \o M)[i].kind = "reset" /\ r = (L \o M)[i].run
      BY <2>1 DEF ResetsBefore
    <3>2. CASE i <= Len(L)
      <4>1. i \in DOMAIN L /\ i < Len(L) + 1 /\ (L \o M)[i] = L[i]
        BY <1>1, <3>1, <3>2
      <4> QED BY <3>1, <4>1 DEF ResetsBefore
    <3>3. CASE i > Len(L)
      <4>1. i - Len(L) \in DOMAIN M /\ i - Len(L) < j /\ (L \o M)[i] = M[i - Len(L)]
        <5>1. i - Len(L) \in 1..Len(M) /\ i - Len(L) < j /\ Len(L) + (i - Len(L)) = i
          BY <1>1, <3>1, <3>3
        <5> QED BY <1>1, <5>1
      <4> QED BY <3>1, <4>1 DEF ResetsBefore
    <3> QED BY <1>1, <3>2, <3>3
  <2>2. ASSUME NEW r \in ResetsBefore(L, Len(L) + 1) PROVE r \in ResetsBefore(L \o M, Len(L) + j)
    BY <1>1, <2>2 DEF ResetsBefore
  <2>3. ASSUME NEW r \in ResetsBefore(M, j) PROVE r \in ResetsBefore(L \o M, Len(L) + j)
    <3>1. PICK i \in DOMAIN M : i < j /\ M[i].kind = "reset" /\ r = M[i].run
      BY <2>3 DEF ResetsBefore
    <3>2. Len(L) + i \in DOMAIN (L \o M) /\ Len(L) + i < Len(L) + j /\ (L \o M)[Len(L) + i] = M[i]
      BY <1>1, <3>1
    <3> QED BY <3>1, <3>2 DEF ResetsBefore
  <2> QED BY <2>1, <2>2, <2>3 DEF Known
<1>4. Known(L \o M, R) = Known(M, Known(L, R))
  <2>1. Len(M) + 1 \in 1..(Len(M) + 1) /\ Len(L \o M) + 1 = Len(L) + (Len(M) + 1)
    BY <1>1
  <2> QED BY <1>3, <2>1 DEF Known
<1>5. ASSUME Continues(L \o M, R) PROVE Continues(L, R) /\ Continues(M, Known(L, R))
  <2>1. ASSUME NEW j \in DOMAIN L, L[j].kind = "delta" PROVE L[j].run \in R \cup ResetsBefore(L, j)
    BY <1>1, <1>2, <1>5, <2>1 DEF Continues
  <2>2. ASSUME NEW j \in DOMAIN M, M[j].kind = "delta" PROVE M[j].run \in Known(L, R) \cup ResetsBefore(M, j)
    <3>1. Len(L) + j \in DOMAIN (L \o M) /\ (L \o M)[Len(L) + j] = M[j] /\ j \in 1..(Len(M) + 1)
      BY <1>1
    <3> QED BY <1>3, <1>5, <2>2, <3>1 DEF Continues
  <2> QED BY <2>1, <2>2 DEF Continues
<1>6. ASSUME Continues(L, R), Continues(M, Known(L, R)) PROVE Continues(L \o M, R)
  <2> SUFFICES ASSUME NEW i \in DOMAIN (L \o M), (L \o M)[i].kind = "delta"
               PROVE  (L \o M)[i].run \in R \cup ResetsBefore(L \o M, i)
    BY DEF Continues
  <2>1. CASE i <= Len(L)
    <3>1. i \in DOMAIN L /\ i \in 1..(Len(L) + 1) /\ (L \o M)[i] = L[i]
      BY <1>1, <2>1
    <3> QED BY <1>2, <1>6, <3>1 DEF Continues
  <2>2. CASE i > Len(L)
    <3>1. PICK j \in 1..Len(M) : i = Len(L) + j
      <4>1. i - Len(L) \in 1..Len(M) /\ i = Len(L) + (i - Len(L))
        BY <1>1, <2>2
      <4> QED BY <4>1
    <3>2. (L \o M)[i] = M[j] /\ j \in DOMAIN M /\ j \in 1..(Len(M) + 1)
      BY <1>1, <3>1
    <3> QED BY <1>3, <1>6, <3>1, <3>2 DEF Continues
  <2> QED BY <1>1, <2>1, <2>2
<1> QED BY <1>4, <1>5, <1>6

(* The part of the events after a position.                                   *)
From(E, c) == SubSeq(E, c + 1, Len(E))

LEMMA FromIs ==
  ASSUME NEW E, IsSeq(E), NEW c \in 0..Len(E)
  PROVE  /\ IsSeq(From(E, c)) /\ Len(E) \in Nat /\ (c = Len(E) => From(E, c) = <<>>)
         /\ \A k \in 0..(Len(E) - c) :
              IsSeq(SubSeq(E, c + 1, c + k)) /\ From(E, c) = SubSeq(E, c + 1, c + k) \o From(E, c + k)
         /\ \A i \in DOMAIN From(E, c) : \E j \in DOMAIN E : From(E, c)[i] = E[j]
         /\ \A e : From(Append(E, e), c) = Append(From(E, c), e)
         /\ Len(From(E, c)) = Len(E) - c
<1>1. PICK S : E \in Seq(S)
  BY SeqIs
<1>2. Len(E) \in Nat /\ DOMAIN E = 1..Len(E) /\ \A i \in 1..Len(E) : E[i] \in S
  BY <1>1, LenProperties, ElementOfSeq
<1>3. ASSUME NEW k \in 0..(Len(E) - c)
      PROVE  SubSeq(E, c + 1, c + k) \in Seq(S) /\ From(E, c) = SubSeq(E, c + 1, c + k) \o From(E, c + k)
  <2>1. /\ c + 1 \in 1..Len(E) + 1 /\ c + k \in (c + 1) - 1..Len(E) /\ Len(E) \in (c + k)..Len(E)
        /\ c + 1 \in Int /\ c + k \in Int /\ \A i \in (c + 1)..(c + k) : i \in 1..Len(E)
    BY <1>2
  <2>2. SubSeq(E, c + 1, c + k) \o SubSeq(E, (c + k) + 1, Len(E)) = SubSeq(E, c + 1, Len(E))
    BY <1>1, <2>1, ConcatAdjacentSubSeq
  <2>3. SubSeq(E, c + 1, c + k) \in Seq(S)
    BY <1>2, <2>1, SubSeqProperties
  <2> QED BY <2>2, <2>3 DEF From
<1>4. From(E, c) \in Seq(S) /\ (c = Len(E) => From(E, c) = <<>>)
  <2>1. Len(E) - c \in 0..(Len(E) - c) /\ c + (Len(E) - c) = Len(E)
    BY <1>2
  <2>2. From(E, c) \in Seq(S)
    BY <1>3, <2>1 DEF From
  <2>3. c = Len(E) => From(E, c) = <<>>
    BY <1>2, SubSeqEmpty DEF From
  <2> QED BY <2>2, <2>3
<1>5. /\ Len(From(E, c)) = Len(E) - c /\ \A i \in 1..(Len(E) - c) : From(E, c)[i] = E[c + i]
      /\ DOMAIN From(E, c) = 1..(Len(E) - c)
  <2>1. c + 1 \in Int /\ Len(E) \in Int /\ \A i \in (c + 1)..Len(E) : E[i] \in S
    BY <1>2
  <2>2. /\ Len(SubSeq(E, c + 1, Len(E))) = IF c + 1 <= Len(E) THEN Len(E) - (c + 1) + 1 ELSE 0
        /\ \A i \in 1..(Len(E) - (c + 1) + 1) : SubSeq(E, c + 1, Len(E))[i] = E[(c + 1) + i - 1]
    BY <2>1, SubSeqProperties
  <2>3. Len(From(E, c)) = Len(E) - c
    <3>1. Len(E) - c = IF c + 1 <= Len(E) THEN Len(E) - (c + 1) + 1 ELSE 0
      <4>1. \A n \in Nat : \A d \in 0..n : n - d = IF d + 1 <= n THEN n - (d + 1) + 1 ELSE 0
        OBVIOUS
      <4> QED BY <1>2, <4>1
    <3> QED BY <2>2, <3>1 DEF From
  <2>4. ASSUME NEW i \in 1..(Len(E) - c) PROVE From(E, c)[i] = E[c + i]
    <3>1. i \in 1..(Len(E) - (c + 1) + 1) /\ (c + 1) + i - 1 = c + i
      BY <1>2
    <3> QED BY <2>2, <3>1 DEF From
  <2> QED BY <1>4, <2>3, <2>4, LenProperties
<1>6. ASSUME NEW e PROVE From(Append(E, e), c) = Append(From(E, c), e)
  <2>1. /\ Append(E, e) \in Seq(S \cup {e}) /\ Len(Append(E, e)) = Len(E) + 1
        /\ Append(E, e)[Len(E) + 1] = e /\ \A i \in 1..Len(E) : Append(E, e)[i] = E[i]
    BY <1>1, AppendProperties
  <2>2. c + 1 \in 1..Len(Append(E, e)) /\ Len(Append(E, e)) \in (c + 1)..Len(Append(E, e))
    BY <1>2, <2>1
  <2>3. From(Append(E, e), c)
          = SubSeq(Append(E, e), c + 1, Len(Append(E, e)) - 1) \o <<Append(E, e)[Len(Append(E, e))]>>
    BY <2>1, <2>2, SubSeqRecursiveSecond DEF From
  <2>4. SubSeq(Append(E, e), c + 1, Len(E)) = From(E, c)
    <3>1. c + 1 \in Int /\ Len(E) \in Int /\ \A i \in (c + 1)..Len(E) : i \in 1..Len(E) /\ Append(E, e)[i] \in S
      BY <1>2, <2>1
    <3>2. PICK T : T = SubSeq(Append(E, e), c + 1, Len(E))
      OBVIOUS
    <3>3. /\ T \in Seq(S) /\ Len(T) = IF c + 1 <= Len(E) THEN Len(E) - (c + 1) + 1 ELSE 0
          /\ \A i \in 1..(Len(E) - (c + 1) + 1) : T[i] = Append(E, e)[(c + 1) + i - 1]
      BY <3>1, <3>2, SubSeqProperties
    <3>4. Len(T) = Len(E) - c
      BY <1>2, <3>3
    <3>5. ASSUME NEW i \in 1..(Len(E) - c) PROVE T[i] = E[c + i]
      <4>1. i \in 1..(Len(E) - (c + 1) + 1) /\ (c + 1) + i - 1 = c + i /\ c + i \in 1..Len(E)
        BY <1>2
      <4> QED BY <2>1, <3>3, <4>1
    <3> QED BY <1>4, <1>5, <3>2, <3>3, <3>4, <3>5, SeqEqual
  <2>5. Len(Append(E, e)) - 1 = Len(E)
    BY <1>2, <2>1
  <2>6. From(E, c) \in Seq(S \cup {e})
    BY <1>4
  <2>7. From(E, c) \o <<e>> = Append(From(E, c), e)
    BY <2>6
  <2> QED BY <2>1, <2>3, <2>4, <2>5, <2>7
<1>7. \A i \in DOMAIN From(E, c) : \E j \in DOMAIN E : From(E, c)[i] = E[j]
  <2>1. \A i \in 1..(Len(E) - c) : c + i \in DOMAIN E
    BY <1>2
  <2> QED BY <1>5, <2>1
<1> QED BY <1>2, <1>3, <1>4, <1>5, <1>6, <1>7, IsSeqIs

-----------------------------------------------------------------------------
(* The filter.                                                                *)

LEMMA OverIs ==
  ASSUME NEW f, NEW g
  PROVE  /\ DOMAIN Over(f, g) = DOMAIN f \cup DOMAIN g
         /\ \A x \in DOMAIN f : Over(f, g)[x] = f[x]
         /\ \A x \in DOMAIN g : x \notin DOMAIN f => Over(f, g)[x] = g[x]
BY DEF Over

LEMMA WithoutIs ==
  ASSUME NEW f, NEW S
  PROVE  DOMAIN Without(f, S) = DOMAIN f \ S /\ \A x \in DOMAIN f \ S : Without(f, S)[x] = f[x]
BY DEF Without, Restrict

LEMMA OverUnnamed ==
  ASSUME NEW f, NEW g, Unnamed(f), Unnamed(g) PROVE Unnamed(Over(f, g))
BY DEF Over, Unnamed

LEMMA ForClientUnnamed ==
  ASSUME NEW unit, "of" \notin DOMAIN unit, NEW within PROVE "of" \notin DOMAIN ForClient(unit, within)
BY DEF ForClient

LEMMA VisibleKnown == ASSUME NEW units, NEW r PROVE Visible(units, r) \subseteq DOMAIN units
BY DEF Visible

LEMMA SnapshotIs ==
  ASSUME NEW s, Has(s, SrvFields), NEW snap, Unnamed(snap.units)
  PROVE  LET f == FilterSnapshot(s, snap) IN
         /\ Has(f.state, SrvFields) /\ f.state.pc = s.pc /\ Unnamed(f.state.units)
         /\ f.sends.kind = "snapshot" /\ f.sends.run = snap.run /\ Unnamed(f.sends.units)
<1>1. PICK vis : vis = Visible(snap.units, FilterRange(s.content))
  OBVIOUS
<1>2. PICK near : near = WithinSensors(snap.units, FilterRange(s.content))
  OBVIOUS
<1>3. Unnamed([u \in vis |-> ForClient(snap.units[u], u \in near)])
  BY <1>1, VisibleKnown, ForClientUnnamed DEF Unnamed
<1>4. FilterSnapshot(s, snap).state = [s EXCEPT !.units = snap.units, !.visible = vis, !.near = near,
                                                !.dirty = FALSE, !.looked = s.content]
  BY <1>1, <1>2 DEF FilterSnapshot
<1>5. FilterSnapshot(s, snap).sends = [kind |-> "snapshot", run |-> snap.run, memory |-> snap.memory,
                                       units |-> [u \in vis |-> ForClient(snap.units[u], u \in near)]]
  BY <1>1, <1>2 DEF FilterSnapshot
<1>6. Has(FilterSnapshot(s, snap).state, SrvFields)
  BY <1>4 DEF Has, SrvFields
<1>7. FilterSnapshot(s, snap).state.pc = s.pc /\ FilterSnapshot(s, snap).state.units = snap.units
  BY <1>4 DEF Has, SrvFields
<1> QED BY <1>3, <1>5, <1>6, <1>7

LEMMA DeltaIs ==
  ASSUME NEW s, Has(s, SrvFields), Unnamed(s.units), NEW d, Unnamed(d.updates)
  PROVE  LET f == FilterDelta(s, d) IN
         /\ Has(f.state, SrvFields) /\ Unnamed(f.state.units)
         /\ f.sends.kind = "delta" /\ f.sends.run = d.run /\ Unnamed(f.sends.units)
<1> DEFINE update(u) == IF u \in DOMAIN d.updates THEN d.updates[u] ELSE Empty
           merged(u) == IF u \in DOMAIN s.units THEN Over(update(u), s.units[u]) ELSE update(u)
           units == Over([u \in DOMAIN d.updates |-> merged(u)], Without(s.units, d.gone))
           vis   == IF LooksAgain(s, d) THEN Visible(units, FilterRange(s.content)) ELSE s.visible
           near  == IF LooksAgain(s, d) THEN WithinSensors(units, FilterRange(s.content)) ELSE s.near
           stay  == vis \cap s.visible
           turns == {u \in stay : "stock" \in DOMAIN units[u] /\ (u \in near) # (u \in s.near)}
           sent(u) == IF u \in turns /\ u \in near THEN Over([stock |-> units[u].stock], update(u))
                      ELSE IF u \in turns THEN Over([stock |-> None], update(u))
                      ELSE ForClient(update(u), u \in near)
           fresh == [u \in vis \ s.visible |-> ForClient(units[u], u \in near)]
           other == [u \in stay \cap (DOMAIN d.updates \cup turns) |-> sent(u)]
<1>1. \A u : "of" \notin DOMAIN update(u)
  BY EmptyIs DEF Unnamed, Empty
<1>2. \A u : "of" \notin DOMAIN merged(u)
  <2>1. ASSUME NEW u PROVE "of" \notin DOMAIN merged(u)
    <3>1. CASE u \in DOMAIN s.units
      <4>1. "of" \notin DOMAIN update(u) /\ "of" \notin DOMAIN s.units[u]
        BY <1>1, <3>1 DEF Unnamed
      <4> QED BY <3>1, <4>1 DEF Over
    <3>2. CASE u \notin DOMAIN s.units
      BY <1>1, <3>2
    <3> QED BY <3>1, <3>2
  <2> QED BY <2>1
<1>3. Unnamed(units)
  <2>1. Unnamed([u \in DOMAIN d.updates |-> merged(u)])
    BY <1>2 DEF Unnamed
  <2>2. Unnamed(Without(s.units, d.gone))
    BY DEF Without, Restrict, Unnamed
  <2> QED BY <2>1, <2>2, OverUnnamed
<1>4. vis \ s.visible \subseteq DOMAIN units
  BY VisibleKnown
<1>5. Unnamed(fresh)
  BY <1>3, <1>4, ForClientUnnamed DEF Unnamed
<1>6. ASSUME NEW u PROVE "of" \notin DOMAIN sent(u)
  <2>1. \A x : "of" \notin DOMAIN [stock |-> x]
    OBVIOUS
  <2>2. \A x : "of" \notin DOMAIN Over([stock |-> x], update(u))
    BY <1>1, <2>1 DEF Over
  <2>3. "of" \notin DOMAIN ForClient(update(u), u \in near)
    BY <1>1, ForClientUnnamed
  <2> QED BY <2>2, <2>3
<1>7. Unnamed(other)
  BY <1>6 DEF Unnamed
<1>8. Unnamed(Over(fresh, other))
  BY <1>5, <1>7, OverUnnamed
<1>9. FilterDelta(s, d) =
        [state |-> [s EXCEPT !.units = units, !.visible = vis, !.near = near, !.dirty = FALSE, !.looked = s.content],
         sends |-> [kind |-> "delta", run |-> d.run, memory |-> d.memory, lost |-> d.lost,
                    gone |-> d.gone \cap s.visible, hidden |-> (s.visible \ vis) \cap DOMAIN units,
                    units |-> Over(fresh, other)]]
  BY DEF FilterDelta
<1> HIDE DEF units, vis, near, fresh, other
<1>10. Has(FilterDelta(s, d).state, SrvFields) /\ FilterDelta(s, d).state.units = units
  <2>1. PICK x : x = units
    OBVIOUS
  <2>2. PICK y : y = vis
    OBVIOUS
  <2>3. PICK z : z = near
    OBVIOUS
  <2>4. PICK r : r = FilterDelta(s, d)
    OBVIOUS
  <2>5. r.state = [s EXCEPT !.units = x, !.visible = y, !.near = z, !.dirty = FALSE, !.looked = s.content]
    BY <1>9, <2>1, <2>2, <2>3, <2>4
  <2>6. Has(r.state, SrvFields) /\ r.state.units = x
    BY <2>5 DEF Has, SrvFields
  <2> QED BY <2>1, <2>4, <2>6
<1>11. /\ FilterDelta(s, d).sends.kind = "delta" /\ FilterDelta(s, d).sends.run = d.run
       /\ FilterDelta(s, d).sends.units = Over(fresh, other)
  BY <1>9
<1> QED BY <1>3, <1>8, <1>10, <1>11

(* What comes out of the filter.                                              *)
Filtered(acc, R) ==
  /\ acc = [state |-> acc.state, out |-> acc.out]
  /\ Has(acc.state, SrvFields) /\ Unnamed(acc.state.units)
  /\ IsSeq(acc.out) /\ \A i \in DOMAIN acc.out : Message(acc.out[i])
  /\ Continues(acc.out, R)

Passed(acc, batch, n, R) == Filtered(acc, R) /\ Known(acc.out, R) = Known(SubSeq(batch, 1, n), R)

LEMMA PassIs ==
  ASSUME NEW acc, NEW R, Filtered(acc, R), NEW e, Event(e), e.kind = "delta" => e.run \in Known(acc.out, R)
  PROVE  Filtered(Pass(acc, e), R) /\ Known(Pass(acc, e).out, R) = KnownWith(e, Known(acc.out, R))
<1> DEFINE K == Known(acc.out, R)
<1>0. /\ acc = [state |-> acc.state, out |-> acc.out] /\ Has(acc.state, SrvFields) /\ Unnamed(acc.state.units)
      /\ IsSeq(acc.out) /\ (\A i \in DOMAIN acc.out : Message(acc.out[i])) /\ Continues(acc.out, R)
      /\ Known(acc.out, R) = K /\ (e.kind = "delta" => e.run \in K)
  BY DEF Filtered
<1> HIDE DEF K
<1>1. ASSUME NEW m, Message(m), m.kind = "delta" => m.run \in K
      PROVE  /\ IsSeq(Append(acc.out, m)) /\ \A i \in DOMAIN Append(acc.out, m) : Message(Append(acc.out, m)[i])
             /\ Continues(Append(acc.out, m), R) /\ Known(Append(acc.out, m), R) = KnownWith(m, K)
  <2>1. \A i \in DOMAIN Append(acc.out, m) : Message(Append(acc.out, m)[i])
    BY <1>0, <1>1, AppendIs, SeqDomain
  <2> QED BY <1>0, <1>1, <2>1, AppendIs, AppendContinues
<1>2. CASE e.kind = "reset"
  <2>1. Pass(acc, e) = [state |-> acc.state, out |-> Append(acc.out, e)]
    BY <1>0, <1>2 DEF Pass
  <2>2. PICK out : out = Append(acc.out, e)
    OBVIOUS
  <2>3. /\ IsSeq(out) /\ (\A i \in DOMAIN out : Message(out[i]))
        /\ Continues(out, R) /\ Known(out, R) = KnownWith(e, K)
    BY <1>1, <1>2, <2>2 DEF Message
  <2> QED BY <1>0, <2>1, <2>2, <2>3 DEF Filtered
<1>3. CASE e.kind # "reset"
  <2>1. e.kind = "delta" /\ Unnamed(e.updates) /\ e.run \in K /\ KnownWith(e, K) = K
    BY <1>0, <1>3 DEF Event, KnownWith
  <2>2. PICK f : f = FilterDelta(acc.state, e)
    OBVIOUS
  <2>3. /\ Has(f.state, SrvFields) /\ Unnamed(f.state.units)
        /\ f.sends.kind = "delta" /\ f.sends.run = e.run /\ Unnamed(f.sends.units)
    BY <1>0, <2>1, <2>2, DeltaIs
  <2>4. Pass(acc, e) = [state |-> f.state, out |-> IF Silent(f.sends) THEN acc.out ELSE Append(acc.out, f.sends)]
    BY <1>3, <2>2 DEF Pass
  <2>5. KnownWith(f.sends, K) = K /\ Message(f.sends) /\ f.sends.run \in K
    BY <2>1, <2>3 DEF KnownWith, Message
  <2>6. PICK out : out = IF Silent(f.sends) THEN acc.out ELSE Append(acc.out, f.sends)
    OBVIOUS
  <2>7. /\ IsSeq(out) /\ (\A i \in DOMAIN out : Message(out[i])) /\ Continues(out, R) /\ Known(out, R) = K
    <3>1. CASE Silent(f.sends)
      BY <1>0, <2>6, <3>1
    <3>2. CASE ~Silent(f.sends)
      <4>1. out = Append(acc.out, f.sends)
        BY <2>6, <3>2
      <4> QED BY <1>1, <2>5, <4>1
    <3> QED BY <3>1, <3>2
  <2>8. Pass(acc, e) = [state |-> f.state, out |-> out]
    BY <2>4, <2>6
  <2> QED BY <1>0, <2>1, <2>3, <2>7, <2>8 DEF Filtered
<1> QED BY <1>2, <1>3

LEMMA Steps ==
  ASSUME NEW s, NEW batch, IsSeq(batch)
  PROVE  \E f : /\ f[0] = [state |-> s, out |-> <<>>]
                /\ \A n \in 1..Len(batch) : f[n] = Pass(f[n - 1], batch[n])
                /\ Emit(s, batch) = f[Len(batch)]
<1> DEFINE base == [state |-> s, out |-> <<>>]
           Upto(m) == \E g : g[0] = base /\ \A n \in 1..m : g[n] = Pass(g[n - 1], batch[n])
           Whole(f) == f = [n \in 0..Len(batch) |-> IF n = 0 THEN base ELSE Pass(f[n - 1], batch[n])]
<1>1. Len(batch) \in Nat
  BY SeqDomain
<1>2. Upto(Len(batch))
  <2> DEFINE T == {m \in Nat : ~Upto(m)}
  <2>1. SUFFICES ASSUME T # {} PROVE FALSE
    BY <1>1
  <2>2. PICK m \in T : \A k \in T : m <= k
    BY <2>1, Least
  <2>3. m # 0
    <3>1. Upto(0)
      <4>1. [n \in {0} |-> base][0] = base /\ 1..0 = {}
        OBVIOUS
      <4> QED BY <4>1
    <3> QED BY <2>2, <3>1
  <2>4. m - 1 \in Nat /\ m - 1 \notin T
    <3>1. m \in Nat
      OBVIOUS
    <3>2. m - 1 \in Nat /\ ~(m <= m - 1)
      BY <2>3, <3>1
    <3> QED BY <2>2, <3>2
  <2>5. PICK g : g[0] = base /\ \A n \in 1..(m - 1) : g[n] = Pass(g[n - 1], batch[n])
    BY <2>4
  <2>6. PICK last : last = Pass(g[m - 1], batch[m])
    OBVIOUS
  <2>7. PICK h : h = [n \in 0..m |-> IF n = m THEN last ELSE g[n]]
    OBVIOUS
  <2>8. h[0] = base /\ h[m] = last /\ \A n \in 0..(m - 1) : h[n] = g[n]
    BY <2>3, <2>4, <2>5, <2>7
  <2>9. ASSUME NEW n \in 1..m PROVE h[n] = Pass(h[n - 1], batch[n])
    <3>1. n - 1 \in 0..(m - 1) /\ (n = m \/ n \in 1..(m - 1))
      BY <2>4
    <3>2. CASE n = m
      BY <2>6, <2>8, <3>1, <3>2
    <3>3. CASE n \in 1..(m - 1)
      BY <2>4, <2>5, <2>8, <3>1, <3>3
    <3> QED BY <3>1, <3>2, <3>3
  <2>10. Upto(m)
    BY <2>8, <2>9
  <2> QED BY <2>2, <2>10
<1>3. PICK g : g[0] = base /\ \A n \in 1..Len(batch) : g[n] = Pass(g[n - 1], batch[n])
  BY <1>2
<1>4. PICK h : h = [n \in 0..Len(batch) |-> g[n]]
  OBVIOUS
<1>5. Whole(h)
  <2>1. h[0] = base /\ \A n \in 1..Len(batch) : n - 1 \in 0..Len(batch) /\ h[n] = Pass(h[n - 1], batch[n])
    BY <1>1, <1>3, <1>4
  <2>2. \A n \in 0..Len(batch) : n = 0 \/ n \in 1..Len(batch)
    BY <1>1
  <2> HIDE DEF base
  <2>3. \A n \in 0..Len(batch) : h[n] = IF n = 0 THEN base ELSE Pass(h[n - 1], batch[n])
    BY <2>1, <2>2
  <2>4. h = [n \in 0..Len(batch) |-> h[n]]
    BY <1>4
  <2> QED BY <2>3, <2>4
<1>6. PICK f : f = CHOOSE x : Whole(x)
  OBVIOUS
<1>7. Whole(f)
  BY <1>5, <1>6
<1>8. Emit(s, batch) = f[Len(batch)]
  BY <1>6 DEF Emit
<1>9. f[0] = base /\ \A n \in 1..Len(batch) : f[n] = Pass(f[n - 1], batch[n])
  <2>1. 0 \in 0..Len(batch) /\ \A n \in 1..Len(batch) : n \in 0..Len(batch) /\ n # 0
    BY <1>1
  <2> HIDE DEF base
  <2> QED BY <1>7, <2>1
<1> QED BY <1>8, <1>9

LEMMA EmitIs ==
  ASSUME NEW s, Has(s, SrvFields), Unnamed(s.units), NEW batch, IsSeq(batch),
         \A i \in DOMAIN batch : Event(batch[i]), NEW R, Continues(batch, R)
  PROVE  LET e == Emit(s, batch) IN
         /\ Has(e.state, SrvFields) /\ Unnamed(e.state.units)
         /\ IsSeq(e.out) /\ \A i \in DOMAIN e.out : Message(e.out[i])
         /\ Continues(e.out, R) /\ Known(e.out, R) = Known(batch, R)
<1>1. PICK f : /\ f[0] = [state |-> s, out |-> <<>>]
               /\ \A n \in 1..Len(batch) : f[n] = Pass(f[n - 1], batch[n])
               /\ Emit(s, batch) = f[Len(batch)]
  BY Steps
<1>2. PICK S : batch \in Seq(S)
  BY SeqIs
<1>3. Len(batch) \in Nat /\ DOMAIN batch = 1..Len(batch)
  BY SeqDomain
<1>4. SubSeq(batch, 1, 0) = <<>> /\ SubSeq(batch, 1, Len(batch)) = batch
  BY <1>2, SubSeqEmpty, SubSeqFull
<1>5. Passed(f[0], batch, 0, R)
  <2>1. PICK acc : acc = f[0]
    OBVIOUS
  <2>2. acc.state = s /\ acc.out = <<>> /\ acc = [state |-> acc.state, out |-> acc.out]
    BY <1>1, <2>1
  <2>3. Continues(<<>>, R) /\ Known(<<>>, R) = Known(SubSeq(batch, 1, 0), R)
    BY <1>4, EmptyContinues
  <2> QED BY <2>1, <2>2, <2>3, EmptyIs DEF Passed, Filtered
<1>6. ASSUME NEW n \in 1..Len(batch), Passed(f[n - 1], batch, n - 1, R) PROVE Passed(f[n], batch, n, R)
  <2>1. SubSeq(batch, 1, n) = SubSeq(batch, 1, n - 1) \o <<batch[n]>> /\ SubSeq(batch, 1, n - 1) \in Seq(S)
    <3>1. /\ 1 \in 1..Len(batch) /\ n \in 1..Len(batch) /\ n - 1 \in Int
          /\ \A i \in 1..(n - 1) : batch[i] \in S
      BY <1>2, <1>3, ElementOfSeq
    <3> QED BY <1>2, <3>1, SubSeqRecursiveSecond, SubSeqProperties
  <2>2. PICK before : before = SubSeq(batch, 1, n - 1)
    OBVIOUS
  <2>3. SubSeq(batch, 1, n) = Append(before, batch[n]) /\ IsSeq(before)
    <3>1. before \in Seq(S \cup {batch[n]})
      BY <2>1, <2>2
    <3>2. before \o <<batch[n]>> = Append(before, batch[n])
      BY <3>1
    <3> QED BY <2>1, <2>2, <3>1, <3>2, IsSeqIs
  <2>4. batch[n].kind = "delta" => batch[n].run \in Known(before, R)
    <3>1. SubSeq(batch, 1, Len(batch)) = SubSeq(batch, 1, n) \o SubSeq(batch, n + 1, Len(batch))
      <4>1. 1 \in 1..Len(batch) + 1 /\ n \in (1 - 1)..Len(batch) /\ Len(batch) \in n..Len(batch)
        BY <1>3
      <4> QED BY <1>2, <4>1, ConcatAdjacentSubSeq
    <3>2. IsSeq(SubSeq(batch, 1, n)) /\ IsSeq(SubSeq(batch, n + 1, Len(batch)))
      <4>1. /\ 1 \in Int /\ n \in Int /\ n + 1 \in Int /\ Len(batch) \in Int
            /\ \A i \in 1..n : batch[i] \in S
            /\ \A i \in (n + 1)..Len(batch) : batch[i] \in S
        BY <1>2, <1>3, ElementOfSeq
      <4>2. SubSeq(batch, 1, n) \in Seq(S)
        BY <4>1, SubSeqProperties
      <4>3. SubSeq(batch, n + 1, Len(batch)) \in Seq(S)
        BY <4>1, SubSeqProperties
      <4> QED BY <4>2, <4>3, IsSeqIs
    <3>3. Continues(SubSeq(batch, 1, n), R)
      <4>1. PICK a : a = SubSeq(batch, 1, n)
        OBVIOUS
      <4>2. PICK z : z = SubSeq(batch, n + 1, Len(batch))
        OBVIOUS
      <4>3. IsSeq(a) /\ IsSeq(z) /\ Continues(a \o z, R)
        BY <1>4, <3>1, <3>2, <4>1, <4>2
      <4> QED BY <4>1, <4>3, ConcatContinues
    <3>4. Continues(before \o <<batch[n]>>, R) /\ IsSeq(<<batch[n]>>)
      <4>1. <<batch[n]>> \in Seq({batch[n]})
        OBVIOUS
      <4> QED BY <2>1, <2>2, <3>3, <4>1, IsSeqIs
    <3>5. Continues(<<batch[n]>>, Known(before, R))
      BY <2>3, <3>4, ConcatContinues
    <3>6. <<batch[n]>> # <<>> /\ Head(<<batch[n]>>) = batch[n]
      OBVIOUS
    <3> QED BY <3>4, <3>5, <3>6, TailContinues
  <2>5. Event(batch[n]) /\ f[n] = Pass(f[n - 1], batch[n])
    BY <1>1, <1>3
  <2>6. Known(SubSeq(batch, 1, n), R) = KnownWith(batch[n], Known(before, R))
    BY <2>3, AppendContinues
  <2>7. PICK acc : acc = f[n - 1]
    OBVIOUS
  <2>8. PICK e : e = batch[n]
    OBVIOUS
  <2>9. Filtered(acc, R) /\ Known(acc.out, R) = Known(before, R)
    BY <1>6, <2>2, <2>7 DEF Passed
  <2>10. Event(e) /\ (e.kind = "delta" => e.run \in Known(acc.out, R))
    BY <2>4, <2>5, <2>8, <2>9
  <2>11. Filtered(Pass(acc, e), R) /\ Known(Pass(acc, e).out, R) = KnownWith(e, Known(before, R))
    BY <2>9, <2>10, PassIs
  <2>12. f[n] = Pass(acc, e)
    BY <2>5, <2>7, <2>8
  <2> QED BY <2>6, <2>8, <2>11, <2>12 DEF Passed
<1>7. Passed(f[Len(batch)], batch, Len(batch), R)
  <2> DEFINE T == {m \in 0..Len(batch) : ~Passed(f[m], batch, m, R)}
  <2>1. SUFFICES ASSUME T # {} PROVE FALSE
    BY <1>3
  <2>2. T \subseteq Nat
    BY <1>3
  <2>3. PICK m \in T : \A k \in T : m <= k
    BY <2>1, <2>2, Least
  <2>4. m # 0
    BY <1>5, <2>3
  <2>5. m \in 1..Len(batch) /\ m - 1 \in 0..Len(batch) /\ ~(m <= m - 1)
    BY <1>3, <2>3, <2>4
  <2>6. Passed(f[m - 1], batch, m - 1, R)
    BY <2>3, <2>5
  <2> QED BY <1>6, <2>3, <2>5, <2>6
<1> QED BY <1>1, <1>4, <1>7 DEF Passed, Filtered

-----------------------------------------------------------------------------
(* The engine.                                                                *)

(* Whoever has heard of all that was published goes on doing so.              *)
LEMMA HeardAfter ==
  ASSUME NEW R, NEW c, Heard(R, c), IsSeq(redis.events), NEW e,
         redis'.events = Append(redis.events, e),
         \/ e.kind = "delta" /\ Ticking /\ e.run = world.run /\ world'.run = world.run
         \/ e.kind = "reset" /\ e.run = world'.run
  PROVE  Heard(R, c)'
<1> DEFINE E == redis.events
<1>1. c \in 0..Len(E) /\ After(c) = From(E, c)
  BY DEF Heard, After, From
<1>2. After(c)' = From(redis'.events, c) /\ Len(redis'.events) = Len(E) + 1 /\ Len(E) \in Nat
  BY AppendIs, SeqDomain DEF After, From
<1>3. From(redis'.events, c) = Append(From(E, c), e) /\ IsSeq(From(E, c))
  BY <1>1, FromIs
<1>4. /\ Known(After(c)', R) = KnownWith(e, Known(After(c), R))
      /\ Continues(After(c), R) /\ (e.kind = "delta" => e.run \in Known(After(c), R)) => Continues(After(c)', R)
  BY <1>1, <1>2, <1>3, AppendContinues
<1>5. Continues(After(c), R) /\ (Ticking => world.run \in Known(After(c), R))
  BY DEF Heard
<1>6. c \in 0..Len(redis'.events)
  BY <1>1, <1>2
<1>7. world'.run \in KnownWith(e, Known(After(c), R)) /\ (e.kind = "delta" => e.run \in Known(After(c), R))
  BY <1>5 DEF KnownWith
<1> QED BY <1>4, <1>5, <1>6, <1>7 DEF Heard

LEMMA HeardStill ==
  ASSUME NEW R, NEW c, Heard(R, c), redis'.events = redis.events,
         Ticking' => Ticking /\ world'.run = world.run
  PROVE  Heard(R, c)'
BY DEF Heard, After

(* What the engine, the join request and the heartbeat do to the others:      *)
(* nothing that has been heard is contradicted.                               *)
HeardStays == \A R, c : Heard(R, c) => Heard(R, c)'

Grows == \/ redis'.events = redis.events
         \/ \E e : Event(e) /\ redis'.events = Append(redis.events, e)

LEMMA GrowsIs ==
  ASSUME Shapes, Grows
  PROVE  /\ IsSeq(redis'.events) /\ \A i \in DOMAIN redis'.events : Event(redis'.events[i])
         /\ Len(redis.events) \in Nat /\ Len(redis'.events) \in Nat /\ Len(redis.events) <= Len(redis'.events)
         /\ \A a, b \in Nat : b <= Len(redis.events) /\ a >= 1 => SubSeq(redis'.events, a, b) = SubSeq(redis.events, a, b)
<1> DEFINE E == redis.events
<1>1. IsSeq(E) /\ Len(E) \in Nat /\ DOMAIN E = 1..Len(E) /\ \A i \in DOMAIN E : Event(E[i])
  BY SeqDomain DEF Shapes
<1>2. CASE redis'.events = E
  BY <1>1, <1>2
<1>3. CASE \E e : Event(e) /\ redis'.events = Append(E, e)
  <2>1. PICK e : Event(e) /\ redis'.events = Append(E, e)
    BY <1>3
  <2>2. PICK F : F = Append(E, e)
    OBVIOUS
  <2>3. /\ IsSeq(F) /\ DOMAIN F = 1..(Len(E) + 1) /\ Len(F) = Len(E) + 1 /\ F[Len(E) + 1] = e
        /\ \A i \in DOMAIN E : F[i] = E[i]
    BY <1>1, <2>2, AppendIs
  <2>4. \A i \in DOMAIN F : Event(F[i])
    BY <1>1, <2>1, <2>3
  <2>5. ASSUME NEW a \in Nat, NEW b \in Nat, b <= Len(E), a >= 1 PROVE SubSeq(F, a, b) = SubSeq(E, a, b)
    <3>1. PICK S : E \in Seq(S)
      BY <1>1, SeqIs
    <3>2. \A i \in a..b : E[i] \in S /\ F[i] \in S /\ F[i] = E[i]
      BY <1>1, <2>3, <2>5, <3>1, ElementOfSeq
    <3>3. PICK s : s = SubSeq(E, a, b)
      OBVIOUS
    <3>4. PICK t : t = SubSeq(F, a, b)
      OBVIOUS
    <3>5. /\ s \in Seq(S) /\ Len(s) = (IF a <= b THEN b - a + 1 ELSE 0)
          /\ \A i \in 1..(b - a + 1) : s[i] = E[a + i - 1]
      BY <3>2, <3>3, SubSeqProperties
    <3>6. /\ t \in Seq(S) /\ Len(t) = (IF a <= b THEN b - a + 1 ELSE 0)
          /\ \A i \in 1..(b - a + 1) : t[i] = F[a + i - 1]
      BY <3>2, <3>4, SubSeqProperties
    <3>7. \A i \in 1..(b - a + 1) : a + i - 1 \in a..b
      OBVIOUS
    <3>8. Len(s) = Len(t) /\ \A i \in 1..Len(s) : s[i] = t[i]
      BY <3>2, <3>5, <3>6, <3>7
    <3> QED BY <3>3, <3>4, <3>5, <3>6, <3>8, SeqEqual
  <2> QED BY <1>1, <2>1, <2>2, <2>3, <2>4, <2>5
<1> QED BY <1>2, <1>3 DEF Grows

(* A step of the engine, or of the requests to join.                          *)
LEMMA OthersKeep ==
  ASSUME IInv, Grows, HeardStays, UNCHANGED <<wire, ui>>,
         Has(world', WorldFields), Unnamed(world'.units), Has(redis', RedisFields),
         \/ UNCHANGED srv
         \/ srv' = [NoStream EXCEPT !.pc = "ended"] /\ Filtering,
         Kept(redis.saved)' /\ Heard({redis.saved.run}, redis.saved.at)'
  PROVE  IInv'
<1>1. Shapes /\ Checkpointed /\ Connected /\ OneRunShown
  BY DEF IInv
<1>2. /\ IsSeq(redis'.events) /\ (\A i \in DOMAIN redis'.events : Event(redis'.events[i]))
      /\ Len(redis.events) \in Nat /\ Len(redis'.events) \in Nat /\ Len(redis.events) <= Len(redis'.events)
      /\ \A a, b \in Nat : b <= Len(redis.events) /\ a >= 1 => SubSeq(redis'.events, a, b) = SubSeq(redis.events, a, b)
  BY <1>1, GrowsIs
<1>3. Has(srv', SrvFields) /\ Unnamed(srv'.units) /\ (srv' = srv \/ srv'.pc = "ended")
  BY <1>1, EmptyIs DEF Shapes, Has, SrvFields, NoStream, Unnamed, Empty
<1>4. Shapes'
  BY <1>1, <1>2, <1>3 DEF Shapes
<1>5. \A s : Kept(s) => Kept(s)'
  BY <1>2 DEF Kept
<1>6. Checkpointed'
  <2>1. srv'.pc = "label" => Kept(srv.read)' /\ Heard({srv.read.run}, srv.read.at)'
    BY <1>1, <1>3, <1>5 DEF Checkpointed, HeardStays
  <2>2. ASSUME srv' = srv, srv.pc = "check"
        PROVE  /\ srv.batch = SubSeq(redis'.events, srv.cursor + 1, srv.cursor + Len(srv.batch))
               /\ Len(srv.batch) \in Nat /\ srv.cursor + Len(srv.batch) <= Len(redis'.events)
    <3>1. /\ srv.batch = SubSeq(redis.events, srv.cursor + 1, srv.cursor + Len(srv.batch))
          /\ Len(srv.batch) \in Nat /\ srv.cursor + Len(srv.batch) <= Len(redis.events)
      BY <1>1, <2>2 DEF Checkpointed
    <3>2. srv.cursor \in Nat
      <4>1. \E R : Heard(R, srv.cursor)
        BY <1>1, <2>2 DEF Connected, Filtering, Rides
      <4> QED BY <1>2, <4>1 DEF Heard
    <3>3. srv.cursor + 1 \in Nat /\ srv.cursor + 1 >= 1 /\ srv.cursor + Len(srv.batch) \in Nat
      BY <3>1, <3>2
    <3>4. ASSUME NEW a, NEW b, a = srv.cursor + 1, b = srv.cursor + Len(srv.batch)
          PROVE  SubSeq(redis'.events, a, b) = SubSeq(redis.events, a, b)
      BY <1>2, <3>1, <3>3, <3>4
    <3>5. srv.cursor + Len(srv.batch) <= Len(redis'.events)
      BY <1>2, <3>1, <3>2
    <3> QED BY <3>1, <3>4, <3>5
  <2>3. srv'.pc = "check" => srv' = srv
    BY <1>3
  <2> QED BY <1>3, <2>1, <2>2, <2>3 DEF Checkpointed
<1>7. \A W, R : Rides(W, R) => Rides(W, R)'
  <2> SUFFICES ASSUME NEW W, NEW R, Rides(W, R) PROVE Rides(W, R)'
    OBVIOUS
  <2>1. srv'.pc \in {"gap", "join", "live", "check"} => srv' = srv
    BY <1>3
  <2> QED BY <2>1 DEF Rides, Filtering, HeardStays
<1>8. Connected'
  <2>1. CASE srv' = srv
    BY <1>1, <1>7, <2>1 DEF Connected, Filtering
  <2>2. CASE srv' # srv
    BY <1>1, <1>3, <1>7, <2>2 DEF Connected, Filtering
  <2> QED BY <2>1, <2>2
<1> QED BY <1>1, <1>4, <1>6, <1>8 DEF IInv, OneRunShown

LEMMA ChangesUnnamed ==
  ASSUME NEW old, NEW new, Unnamed(new) PROVE Unnamed(Changes(old, new))
BY DEF Unnamed, Changes, Patch, Restrict

(* A tick publishes a delta of its run, or nothing.                           *)
LEMMA PublishIs ==
  ASSUME IInv, phase = "idle", NEW next, NEW dead, Publish(next, dead), UNCHANGED <<phase, srv, wire, ui>>,
         Has(next, WorldFields), next.run = world.run, Unnamed(next.units)
  PROVE  IInv'
<1>1. Shapes /\ Checkpointed /\ Ticking
  BY DEF IInv, Ticking
<1>2. PICK delta, empty : /\ delta.kind = "delta" /\ delta.run = world.run /\ Unnamed(delta.updates)
                          /\ redis' = [redis EXCEPT !.events = IF empty THEN @ ELSE Append(@, delta),
                                                    !.pending = @ /\ ~world.joined /\ Own \notin DOMAIN next.units]
  <2> DEFINE r == EngineRange(next, redis.content)
             witnessed == {u \in dead : Witnessed(world, r, u)}
             know == Observe([next EXCEPT !.sees = @ \ witnessed], r, witnessed)
             changes == Changes(world.units, next.units)
             delta == [kind |-> "delta", run |-> world.run, updates |-> changes,
                       gone |-> DOMAIN world.units \ DOMAIN next.units, lost |-> know.lost,
                       memory |-> Restrict(know.memory, know.dirty)]
             empty == /\ delta.gone = {} /\ delta.lost = {} /\ DOMAIN changes = {} /\ know.dirty = {}
                      /\ next.tech = world.tech
  <2>1. redis' = [redis EXCEPT !.events = IF empty THEN @ ELSE Append(@, delta),
                               !.pending = @ /\ ~world.joined /\ Own \notin DOMAIN next.units]
    BY DEF Publish
  <2>2. Unnamed(changes)
    BY ChangesUnnamed
  <2> HIDE DEF empty, changes, know
  <2>3. delta.kind = "delta" /\ delta.run = world.run /\ Unnamed(delta.updates)
    BY <2>2
  <2> HIDE DEF delta
  <2> QED BY <2>1, <2>3
<1>3. /\ redis'.events = IF empty THEN redis.events ELSE Append(redis.events, delta)
      /\ redis'.saved = redis.saved /\ Has(redis', RedisFields)
  BY <1>1, <1>2 DEF Shapes, Has, RedisFields
<1>4. Has(world', WorldFields) /\ world'.run = world.run /\ world'.units = next.units
  <2>1. PICK m, s, j : world' = [next EXCEPT !.memory = m, !.sees = s, !.joined = j]
    BY DEF Publish
  <2>2. Has(world', WorldFields)
    BY <2>1 DEF Has, WorldFields
  <2>3. world'.run = next.run /\ world'.units = next.units
    BY <2>1 DEF Has, WorldFields
  <2> QED BY <2>2, <2>3
<1>5. Event(delta)
  BY <1>2 DEF Event
<1>6. Grows
  BY <1>3, <1>5 DEF Grows
<1>7. HeardStays
  <2> SUFFICES ASSUME NEW R, NEW c, Heard(R, c) PROVE Heard(R, c)'
    BY DEF HeardStays
  <2>1. CASE empty
    BY <1>1, <1>3, <1>4, <2>1, HeardStill
  <2>2. CASE ~empty
    <3>1. redis'.events = Append(redis.events, delta) /\ IsSeq(redis.events)
      BY <1>1, <1>3, <2>2 DEF Shapes
    <3> QED BY <1>1, <1>2, <1>4, <3>1, HeardAfter
  <2> QED BY <2>1, <2>2
<1>8. Kept(redis.saved)' /\ Heard({redis.saved.run}, redis.saved.at)'
  <2>1. Len(redis.events) \in Nat /\ Len(redis'.events) \in Nat /\ Len(redis.events) <= Len(redis'.events)
    BY <1>1, <1>6, GrowsIs
  <2>2. Kept(redis.saved) /\ Heard({redis.saved.run}, redis.saved.at)
    BY <1>1 DEF Checkpointed
  <2> QED BY <1>3, <1>7, <2>1, <2>2 DEF Kept, HeardStays
<1> QED BY <1>3, <1>4, <1>6, <1>7, <1>8, OthersKeep

LEMMA TicksKeep ==
  ASSUME IInv, Quiet \/ Move \/ Mine \/ Die \/ Spawn \/ Researched PROVE IInv'
<1>1. /\ phase = "idle" /\ UNCHANGED <<phase, srv, wire, ui>>
      /\ \E next, dead : Publish(next, dead) /\ Has(next, WorldFields) /\ next.run = world.run /\ Unnamed(next.units)
  <2>1. Has(world, WorldFields) /\ Unnamed(world.units)
    BY DEF IInv, Shapes
  <2>2. phase = "idle" /\ UNCHANGED <<phase, srv, wire, ui>>
    BY DEF Quiet, Move, Mine, Die, Spawn, Researched, Ticks
  <2>3. ASSUME NEW f, Unnamed(f) PROVE LET w == [world EXCEPT !.units = f] IN
                                      Has(w, WorldFields) /\ w.run = world.run /\ Unnamed(w.units)
    BY <2>1, <2>3 DEF Has, WorldFields
  <2>4. CASE Quiet
    BY <2>1, <2>2, <2>4 DEF Quiet
  <2>5. CASE Move
    <3>1. PICK u \in DOMAIN world.units : \E c \in Places[u] : Publish([world EXCEPT !.units[u].pos = c], {})
      BY <2>5 DEF Move
    <3>2. PICK c \in Places[u] : Publish([world EXCEPT !.units[u].pos = c], {})
      BY <3>1
    <3>3. PICK f : f = [world.units EXCEPT ![u].pos = c]
      OBVIOUS
    <3>4. Unnamed(f) /\ [world EXCEPT !.units[u].pos = c] = [world EXCEPT !.units = f]
      BY <2>1, <3>3 DEF Unnamed, Has, WorldFields
    <3> QED BY <2>2, <2>3, <3>2, <3>4
  <2>6. CASE Mine
    <3>1. PICK u \in Others \cap DOMAIN world.units : Publish([world EXCEPT !.units[u].stock = 0], {})
      BY <2>6 DEF Mine
    <3>2. PICK f : f = [world.units EXCEPT ![u].stock = 0]
      OBVIOUS
    <3>3. Unnamed(f) /\ [world EXCEPT !.units[u].stock = 0] = [world EXCEPT !.units = f]
      BY <2>1, <3>2 DEF Unnamed, Has, WorldFields
    <3> QED BY <2>2, <2>3, <3>1, <3>3
  <2>7. CASE Die
    <3>1. PICK u \in DOMAIN world.units : Publish([world EXCEPT !.units = Without(@, {u})], {u})
      BY <2>7 DEF Die
    <3>2. PICK f : f = Without(world.units, {u})
      OBVIOUS
    <3>3. Unnamed(f)
      BY <2>1, <3>2 DEF Unnamed, Without, Restrict
    <3>4. [world EXCEPT !.units = Without(@, {u})] = [world EXCEPT !.units = f]
      BY <2>1, <3>2 DEF Has, WorldFields
    <3> QED BY <2>2, <2>3, <3>1, <3>3, <3>4
  <2>8. CASE Spawn
    <3>1. PICK g : g = [u \in {Own} |-> [pos |-> Start[u], stock |-> 0]]
      OBVIOUS
    <3>2. Publish([world EXCEPT !.units = Over(g, @)], {})
      BY <2>8, <3>1 DEF Spawn
    <3>3. PICK f : f = Over(g, world.units)
      OBVIOUS
    <3>4. Unnamed(g)
      BY <3>1 DEF Unnamed
    <3>5. Unnamed(f)
      BY <2>1, <3>3, <3>4, OverUnnamed
    <3>6. [world EXCEPT !.units = Over(g, @)] = [world EXCEPT !.units = f]
      BY <2>1, <3>3 DEF Has, WorldFields
    <3> QED BY <2>2, <2>3, <3>2, <3>5, <3>6
  <2>9. CASE Researched
    <3>1. Publish([world EXCEPT !.tech = TRUE], {})
      BY <2>9 DEF Researched
    <3>2. PICK w : w = [world EXCEPT !.tech = TRUE]
      OBVIOUS
    <3>3. Has(w, WorldFields) /\ w.run = world.run /\ w.units = world.units
      BY <2>1, <3>2 DEF Has, WorldFields
    <3> QED BY <2>1, <2>2, <3>1, <3>2, <3>3
  <2> QED BY <2>4, <2>5, <2>6, <2>7, <2>8, <2>9
<1>2. PICK next, dead : Publish(next, dead) /\ Has(next, WorldFields) /\ next.run = world.run /\ Unnamed(next.units)
  BY <1>1
<1> QED BY <1>1, <1>2, PublishIs

(* The checkpoint that is written last goes on with what comes after it.      *)
LEMMA NewestHeard ==
  ASSUME IsSeq(redis.events), NEW r, Ticking => r = world.run PROVE Heard({r}, Len(redis.events))
<1>1. Len(redis.events) \in Nat /\ Len(redis.events) \in 0..Len(redis.events)
  BY SeqDomain
<1>2. After(Len(redis.events)) = <<>>
  BY <1>1, FromIs DEF After, From
<1> QED BY <1>1, <1>2, EmptyContinues DEF Heard

LEMMA WritesKeep ==
  ASSUME IInv, Checkpoint \/ AcceptContent \/ Heartbeat \/ Stall \/ Recover \/ QueueJoin \/ QueueJoinFails
  PROVE  IInv'
<1>1. Shapes /\ Checkpointed /\ Connected
  BY DEF IInv
<1>2. /\ UNCHANGED <<world, wire, ui>> /\ (Ticking' => Ticking)
      /\ (UNCHANGED srv \/ (srv' = [NoStream EXCEPT !.pc = "ended"] /\ Filtering))
  BY DEF Checkpoint, AcceptContent, Heartbeat, Stall, Recover, QueueJoin, QueueJoinFails, Ticking, Filtering
<1>3. Has(redis', RedisFields)
  BY <1>1 DEF Checkpoint, AcceptContent, Heartbeat, Stall, Recover, QueueJoin, QueueJoinFails, Shapes, Has, RedisFields
<1>4. redis'.events = redis.events
  BY <1>1 DEF Checkpoint, AcceptContent, Heartbeat, Stall, Recover, QueueJoin, QueueJoinFails, Shapes, Has, RedisFields
<1>5. HeardStays /\ Grows
  BY <1>2, <1>4, HeardStill DEF HeardStays, Grows
<1>6. Kept(redis.saved)' /\ Heard({redis.saved.run}, redis.saved.at)'
  <2>1. CASE Checkpoint
    <3>1. redis'.saved = Saved(world, Len(redis.events)) /\ phase = "idle"
      BY <1>1, <2>1 DEF Checkpoint, Shapes, Has, RedisFields
    <3>2. redis'.saved.run = world.run /\ redis'.saved.at = Len(redis.events) /\ redis'.saved.units = world.units
      BY <3>1 DEF Saved
    <3>3. Heard({world.run}, Len(redis.events)) /\ Len(redis.events) \in Nat /\ Unnamed(world.units)
      BY <1>1, NewestHeard, SeqDomain DEF Shapes
    <3> QED BY <1>4, <1>5, <3>2, <3>3 DEF Kept, HeardStays
  <2>2. CASE ~Checkpoint
    <3>1. redis'.saved = redis.saved
      BY <1>1, <2>2 DEF AcceptContent, Heartbeat, Stall, Recover, QueueJoin, QueueJoinFails, Shapes, Has, RedisFields
    <3> QED BY <1>1, <1>4, <1>5, <3>1 DEF Checkpointed, Kept, HeardStays
  <2> QED BY <2>1, <2>2
<1>7. Has(world', WorldFields) /\ Unnamed(world'.units)
  BY <1>1, <1>2 DEF Shapes
<1> QED BY <1>2, <1>3, <1>5, <1>6, <1>7, OthersKeep

LEMMA ResetKeeps ==
  ASSUME IInv, Reset PROVE IInv'
<1>1. Shapes /\ Checkpointed
  BY DEF IInv
<1>2. /\ UNCHANGED <<srv, wire, ui>> /\ world' = Fresh(world.run + 1) /\ ~Ticking'
      /\ redis' = [redis EXCEPT !.asked = FALSE, !.pending = FALSE,
                                !.saved = Saved(Fresh(world.run + 1), Len(redis.events))]
  BY DEF Reset, Ticking
<1>3. Has(redis', RedisFields) /\ redis'.events = redis.events
  BY <1>1, <1>2 DEF Shapes, Has, RedisFields
<1>4. PICK w : w = Fresh(world.run + 1)
  OBVIOUS
<1>5. Has(w, WorldFields) /\ Unnamed(w.units)
  BY <1>4 DEF Fresh, Has, WorldFields, Unnamed
<1>6. HeardStays /\ Grows
  BY <1>2, <1>3, HeardStill DEF HeardStays, Grows
<1>7. redis'.saved = Saved(w, Len(redis.events))
  BY <1>1, <1>2, <1>4 DEF Shapes, Has, RedisFields
<1>8. redis'.saved.run = w.run /\ redis'.saved.at = Len(redis.events) /\ redis'.saved.units = w.units
  BY <1>7 DEF Saved
<1>9. IsSeq(redis'.events) /\ Len(redis.events) \in Nat
  BY <1>1, <1>3, SeqDomain DEF Shapes
<1>10. Heard({w.run}, Len(redis.events))'
  <2>1. After(Len(redis.events))' = <<>> /\ Len(redis.events) \in 0..Len(redis'.events)
    BY <1>3, <1>9, FromIs DEF After, From
  <2> QED BY <1>2, <1>3, <2>1, EmptyContinues DEF Heard
<1>11. Kept(redis.saved)' /\ Heard({redis.saved.run}, redis.saved.at)'
  BY <1>3, <1>5, <1>8, <1>9, <1>10 DEF Kept
<1> QED BY <1>2, <1>3, <1>4, <1>5, <1>6, <1>11, OthersKeep

LEMMA ResetGoesOnKeeps ==
  ASSUME IInv, ResetGoesOn PROVE IInv'
<1>1. Shapes /\ Checkpointed
  BY DEF IInv
<1>2. UNCHANGED <<world, srv, wire, ui>> /\ Has(redis', RedisFields)
  BY <1>1 DEF ResetGoesOn, Shapes, Has, RedisFields
<1>3. Has(world', WorldFields) /\ Unnamed(world'.units) /\ IsSeq(redis.events) /\ Len(redis.events) \in Nat
  BY <1>1, <1>2, SeqDomain DEF Shapes
<1>4. CASE phase = "runtime" /\ phase' = "marker" /\ redis' = [redis EXCEPT !.run = world.run]
  <2>1. redis'.events = redis.events /\ redis'.saved = redis.saved /\ ~Ticking'
    BY <1>1, <1>4 DEF Shapes, Has, RedisFields, Ticking
  <2>2. HeardStays /\ Grows
    BY <1>2, <2>1, HeardStill DEF HeardStays, Grows
  <2>3. Kept(redis.saved)' /\ Heard({redis.saved.run}, redis.saved.at)'
    BY <1>1, <2>1, <2>2 DEF Checkpointed, Kept, HeardStays
  <2> QED BY <1>2, <1>3, <2>2, <2>3, OthersKeep
<1>5. CASE /\ phase = "marker" /\ phase' = "again"
           /\ redis' = [redis EXCEPT !.events = Append(@, [kind |-> "reset", run |-> world.run])]
  <2>1. PICK e : e = [kind |-> "reset", run |-> world.run]
    OBVIOUS
  <2>2. redis'.events = Append(redis.events, e) /\ redis'.saved = redis.saved
    BY <1>1, <1>5, <2>1 DEF Shapes, Has, RedisFields
  <2>3. e.kind = "reset" /\ e.run = world'.run
    BY <1>2, <2>1
  <2>4. HeardStays /\ Grows
    BY <1>3, <2>2, <2>3, HeardAfter DEF HeardStays, Grows, Event
  <2>5. Len(redis'.events) = Len(redis.events) + 1
    BY <1>3, <2>2, AppendIs
  <2>6. Kept(redis.saved) /\ Heard({redis.saved.run}, redis.saved.at)
    BY <1>1 DEF Checkpointed
  <2>7. Kept(redis.saved)'
    BY <1>3, <2>2, <2>5, <2>6 DEF Kept
  <2>8. Heard({redis.saved.run}, redis.saved.at)'
    BY <2>2, <2>4, <2>6 DEF HeardStays
  <2> QED BY <1>2, <1>3, <2>4, <2>7, <2>8, OthersKeep
<1>6. CASE /\ phase = "again" /\ phase' = "idle"
           /\ redis' = [redis EXCEPT !.saved = Saved(world, Len(redis.events))]
  <2>1. redis'.events = redis.events /\ redis'.saved = Saved(world, Len(redis.events)) /\ Ticking
    BY <1>1, <1>6 DEF Shapes, Has, RedisFields, Ticking
  <2>2. HeardStays /\ Grows
    BY <1>2, <2>1, HeardStill DEF HeardStays, Grows
  <2>3. redis'.saved.run = world.run /\ redis'.saved.at = Len(redis.events) /\ redis'.saved.units = world.units
    BY <2>1 DEF Saved
  <2>4. Heard({world.run}, Len(redis.events))
    BY <1>3, NewestHeard
  <2>5. Kept(redis.saved)' /\ Heard({redis.saved.run}, redis.saved.at)'
    BY <1>2, <1>3, <2>1, <2>2, <2>3, <2>4 DEF Kept, HeardStays
  <2> QED BY <1>2, <1>3, <2>2, <2>5, OthersKeep
<1> QED BY <1>4, <1>5, <1>6 DEF ResetGoesOn

-----------------------------------------------------------------------------
(* The stream route.                                                          *)

LEMMA SameSeq ==
  ASSUME NEW s, IsSeq(s), NEW t, IsSeq(t), Len(s) = Len(t), \A i \in 1..Len(s) : s[i] = t[i] PROVE s = t
<1>1. PICK n : n = Len(s)
  OBVIOUS
<1>2. s = [i \in 1..n |-> s[i]] /\ t = [i \in 1..n |-> t[i]]
  BY <1>1 DEF IsSeq
<1> QED BY <1>1, <1>2

LEMMA ConcatHead ==
  ASSUME NEW a, IsSeq(a), a # <<>>, NEW b, IsSeq(b)
  PROVE  a \o b # <<>> /\ Head(a \o b) = Head(a) /\ Tail(a \o b) = Tail(a) \o b
<1>1. PICK t : t = a \o b
  OBVIOUS
<1>2. PICK v : v = Tail(a)
  OBVIOUS
<1>3. PICK x : x = v \o b
  OBVIOUS
<1>4. /\ Head(a) = a[1] /\ 1 \in 1..Len(a) /\ Len(a) \in Nat /\ IsSeq(v) /\ Len(v) = Len(a) - 1
      /\ \A i \in 1..(Len(a) - 1) : v[i] = a[i + 1]
  BY <1>2, TailIs
<1>5. /\ IsSeq(t) /\ Len(t) = Len(a) + Len(b) /\ Len(b) \in Nat
      /\ (\A i \in 1..Len(a) : t[i] = a[i]) /\ (\A i \in 1..Len(b) : t[Len(a) + i] = b[i])
  BY <1>1, ConcatIs
<1>6. t # <<>>
  BY <1>4, <1>5, EmptyIs
<1>7. /\ Head(t) = t[1] /\ IsSeq(Tail(t)) /\ Len(Tail(t)) = Len(t) - 1 /\ DOMAIN Tail(t) = 1..(Len(t) - 1)
      /\ \A i \in DOMAIN Tail(t) : Tail(t)[i] = t[i + 1]
  BY <1>5, <1>6, TailIs
<1>8. PICK y : y = Tail(t)
  OBVIOUS
<1>9. /\ IsSeq(x) /\ Len(x) = Len(v) + Len(b)
      /\ (\A i \in 1..Len(v) : x[i] = v[i]) /\ (\A i \in 1..Len(b) : x[Len(v) + i] = b[i])
  <2>1. IsSeq(v) /\ IsSeq(b)
    BY <1>4
  <2> QED BY <1>3, <2>1, ConcatIs
<1>10. Len(x) = Len(y) /\ Len(y) = Len(a) + Len(b) - 1
  BY <1>4, <1>5, <1>7, <1>8, <1>9
<1>11. ASSUME NEW i \in 1..Len(y) PROVE y[i] = x[i]
  <2>1. y[i] = t[i + 1] /\ i \in Int
    BY <1>5, <1>7, <1>8, <1>10
  <2>2. CASE i <= Len(a) - 1
    <3>1. i \in 1..Len(v) /\ i \in 1..(Len(a) - 1) /\ i + 1 \in 1..Len(a)
      BY <1>4, <2>1, <2>2
    <3> QED BY <1>4, <1>5, <1>9, <2>1, <3>1
  <2>3. CASE i >= Len(a)
    <3>1. PICK j : j = i + 1 - Len(a)
      OBVIOUS
    <3>2. j \in 1..Len(b) /\ Len(a) + j = i + 1 /\ Len(v) + j = i
      BY <1>4, <1>5, <1>10, <2>1, <2>3, <3>1
    <3> QED BY <1>5, <1>9, <2>1, <3>2
  <2> QED BY <1>4, <2>1, <2>2, <2>3
<1>12. y = x
  BY <1>7, <1>8, <1>9, <1>10, <1>11, SameSeq
<1> QED BY <1>1, <1>2, <1>3, <1>4, <1>5, <1>6, <1>7, <1>8, <1>12

(* A message and those after it.                                              *)
LEMMA AppendThen ==
  ASSUME NEW w, IsSeq(w), NEW h, NEW out, IsSeq(out), NEW one, one = Append(<<>>, h)
  PROVE  Append(w, h) \o out = w \o (one \o out) /\ Append(w, h) = w \o one
<1>1. PICK S : w \in Seq(S)
  BY SeqIs
<1>2. PICK T : out \in Seq(T)
  BY SeqIs
<1>3. PICK U : U = S \cup T \cup {h}
  OBVIOUS
<1>4. w \in Seq(U) /\ out \in Seq(U) /\ h \in U /\ <<>> \in Seq(U) /\ <<h>> \in Seq(U)
  BY <1>1, <1>2, <1>3
<1>5. Append(w, h) = w \o <<h>> /\ Append(<<>>, h) = <<>> \o <<h>> /\ <<>> \o <<h>> = <<h>>
  BY <1>4, AppendIsConcat, ConcatEmptySeq
<1> QED BY <1>4, <1>5, ConcatAssociative

(* A step of the route: nothing else moves, the join mark aside.              *)
LEMMA RouteKeeps ==
  ASSUME IInv, UNCHANGED <<world, phase, ui>>, Has(redis', RedisFields), redis'.events = redis.events,
         redis'.saved = redis.saved, redis'.run = redis.run,
         Has(srv', SrvFields), Unnamed(srv'.units), IsSeq(wire'), srv.pc # "off",
         srv'.pc = "label" => Kept(srv'.read) /\ Heard({srv'.read.run}, srv'.read.at),
         srv'.pc = "check" =>
           /\ srv'.batch = SubSeq(redis.events, srv'.cursor + 1, srv'.cursor + Len(srv'.batch))
           /\ Len(srv'.batch) \in Nat /\ srv'.cursor + Len(srv'.batch) <= Len(redis.events),
         \/ srv'.pc \in {"start", "label", "boot"} /\ ~ui.snap /\ wire' = <<>>
         \/ /\ srv'.pc \in {"gap", "join", "live", "check", "ended"}
            /\ \/ ui.snap /\ Rides(wire, {ui.run})'
               \/ /\ ~ui.snap /\ wire' # <<>> /\ Head(wire').kind = "snapshot" /\ Unnamed(Head(wire').units)
                  /\ Rides(Tail(wire), {Head(wire).run})'
  PROVE  IInv'
<1>1. Shapes /\ Checkpointed /\ Connected /\ OneRunShown
  BY DEF IInv
<1>2. \A R, c : Heard(R, c) <=> Heard(R, c)'
  BY DEF Heard, After, Ticking
<1>3. \A s : Kept(s) <=> Kept(s)'
  BY DEF Kept
<1>4. ui.es = "open"
  BY <1>1 DEF Connected
<1>5. Shapes'
  BY <1>1 DEF Shapes
<1>6. Checkpointed'
  BY <1>1, <1>2, <1>3 DEF Checkpointed
<1>7. Connected'
  BY <1>4 DEF Connected, Filtering
<1> QED BY <1>1, <1>5, <1>6, <1>7 DEF IInv, OneRunShown

(* What is sent after what is on the wire.                                    *)
LEMMA Sent ==
  ASSUME NEW W, IsSeq(W), NEW R, Rides(W, R), NEW out, IsSeq(out), \A i \in DOMAIN out : Message(out[i]),
         Continues(out, Known(W, R)), NEW X, X = W \o out,
         Filtering' => Heard(Known(out, Known(W, R)), srv.cursor)'
  PROVE  Rides(X, R)'
<1>1. /\ Known(X, R) = Known(out, Known(W, R)) /\ (Continues(X, R) <=> Continues(W, R) /\ Continues(out, Known(W, R)))
  BY ConcatContinues
<1>2. \A i \in DOMAIN X : Message(X[i])
  <2>1. /\ Len(W) \in Nat /\ Len(out) \in Nat /\ DOMAIN W = 1..Len(W) /\ DOMAIN out = 1..Len(out)
        /\ DOMAIN X = 1..(Len(W) + Len(out))
        /\ (\A i \in 1..Len(W) : X[i] = W[i]) /\ (\A i \in 1..Len(out) : X[Len(W) + i] = out[i])
    BY ConcatIs
  <2>2. \A i \in DOMAIN W : Message(W[i])
    BY DEF Rides
  <2>3. ASSUME NEW i \in DOMAIN X, ~(i <= Len(W)) PROVE Message(X[i])
    <3>1. i - Len(W) \in 1..Len(out) /\ Len(W) + (i - Len(W)) = i
      BY <2>1, <2>3
    <3>2. X[i] = out[i - Len(W)]
      BY <2>1, <3>1
    <3> QED BY <2>1, <3>1, <3>2
  <2>4. ASSUME NEW i \in DOMAIN X, i <= Len(W) PROVE Message(X[i])
    BY <2>1, <2>2, <2>4
  <2> QED BY <2>3, <2>4
<1> QED BY <1>1, <1>2 DEF Rides

(* The wire with more on it, whether the snapshot is still there or not.      *)
LEMMA WireGrows ==
  ASSUME Shapes, Connected, Filtering, UNCHANGED ui, NEW out, IsSeq(out), \A i \in DOMAIN out : Message(out[i]),
         wire' = wire \o out, srv'.pc \in {"gap", "join", "live", "check", "ended"},
         \A K : Heard(K, srv.cursor) => /\ Continues(out, K)
                                        /\ Filtering' => Heard(Known(out, K), srv.cursor)'
  PROVE  /\ IsSeq(wire')
         /\ \/ ui.snap /\ Rides(wire, {ui.run})'
            \/ /\ ~ui.snap /\ wire' # <<>> /\ Head(wire').kind = "snapshot" /\ Unnamed(Head(wire').units)
               /\ Rides(Tail(wire), {Head(wire).run})'
<1>1. IsSeq(wire) /\ IsSeq(wire') /\ srv.pc \in {"gap", "join", "live", "check"}
  BY ConcatIs DEF Shapes, Filtering
<1>2. ASSUME NEW W, IsSeq(W), NEW R, Rides(W, R), NEW X, X = W \o out PROVE Rides(X, R)'
  <2>1. Heard(Known(W, R), srv.cursor)
    BY <1>2 DEF Rides
  <2>2. Continues(out, Known(W, R)) /\ (Filtering' => Heard(Known(out, Known(W, R)), srv.cursor)')
    BY <2>1
  <2> QED BY <1>2, <2>2, Sent
<1>3. CASE ui.snap /\ Rides(wire, {ui.run})
  <2>1. \A r : Rides(wire, {r}) => Rides(wire, {r})'
    BY <1>1, <1>2 DEF Rides
  <2> QED BY <1>1, <1>3, <2>1
<1>4. CASE /\ ~ui.snap /\ wire # <<>> /\ Head(wire).kind = "snapshot" /\ Unnamed(Head(wire).units)
           /\ Rides(Tail(wire), {Head(wire).run})
  <2>1. wire' # <<>> /\ Head(wire') = Head(wire) /\ Tail(wire') = Tail(wire) \o out /\ IsSeq(Tail(wire))
    BY <1>1, <1>4, ConcatHead, TailIs
  <2>2. Rides(Tail(wire), {Head(wire).run})'
    <3>1. \A r, X : X = Tail(wire) \o out /\ Rides(Tail(wire), {r}) => Rides(X, {r})'
      BY <1>2, <2>1
    <3> QED BY <1>4, <2>1, <3>1 DEF Rides
  <2> QED BY <1>1, <1>4, <2>1, <2>2
<1>5. ui.snap \/ ~ui.snap
  OBVIOUS
<1> QED BY <1>1, <1>3, <1>4 DEF Connected, Filtering

(* A message of one of the other kinds alone.                                 *)
LEMMA OneIs ==
  ASSUME NEW m, m.kind \in {"reset", "health"}, NEW one, one = Append(<<>>, m)
  PROVE  /\ IsSeq(one) /\ (\A i \in DOMAIN one : Message(one[i]))
         /\ \A K : Continues(one, K) /\ Known(one, K) = KnownWith(m, K)
<1>1. IsSeq(<<>>) /\ DOMAIN <<>> = {} /\ Len(<<>>) = 0
  BY EmptyIs
<1>2. IsSeq(one) /\ DOMAIN one = 1..1 /\ one[1] = m
  <2>1. IsSeq(one) /\ DOMAIN one = 1..(Len(<<>>) + 1) /\ one[Len(<<>>) + 1] = m
    BY <1>1, AppendIs
  <2> QED BY <1>1, <2>1
<1>3. ASSUME NEW K PROVE Continues(one, K) /\ Known(one, K) = KnownWith(m, K)
  <2>1. Continues(<<>>, K) /\ Known(<<>>, K) = K
    BY EmptyContinues
  <2> QED BY <1>1, <2>1, AppendContinues
<1> QED BY <1>2, <1>3 DEF Message

(* Nothing new on the wire.                                                   *)
LEMMA WireStays ==
  ASSUME Shapes, Connected, Filtering, UNCHANGED <<world, phase, ui, wire>>, redis'.events = redis.events,
         srv'.pc \in {"gap", "join", "live", "check"}, srv'.cursor = srv.cursor
  PROVE  /\ IsSeq(wire')
         /\ \/ ui.snap /\ Rides(wire, {ui.run})'
            \/ /\ ~ui.snap /\ wire' # <<>> /\ Head(wire').kind = "snapshot" /\ Unnamed(Head(wire').units)
               /\ Rides(Tail(wire), {Head(wire).run})'
<1>1. \A R, c : Heard(R, c) => Heard(R, c)'
  BY DEF Heard, After, Ticking
<1>2. \A W, R : Rides(W, R) => Rides(W, R)'
  BY <1>1 DEF Rides
<1> QED BY <1>2 DEF Shapes, Connected, Filtering

LEMMA ReadCheckpointKeeps == ASSUME IInv, ReadCheckpoint PROVE IInv'
<1>1. Shapes /\ Checkpointed /\ Connected
  BY DEF IInv
<1>2. srv.pc \in {"start", "boot"} /\ UNCHANGED <<world, phase, ui, redis, wire>>
  BY DEF ReadCheckpoint, At
<1>3. ~ui.snap /\ wire = <<>>
  BY <1>1, <1>2 DEF Connected, Filtering
<1>4. Has(srv', SrvFields) /\ srv'.pc = "label" /\ srv'.read = redis.saved /\ srv'.units = srv.units
  BY <1>1 DEF ReadCheckpoint, At, Shapes, Has, SrvFields
<1>5. Has(redis', RedisFields) /\ IsSeq(wire') /\ Unnamed(srv'.units)
  BY <1>1, <1>2, <1>4 DEF Shapes
<1>6. Kept(srv'.read) /\ Heard({srv'.read.run}, srv'.read.at)
  BY <1>1, <1>4 DEF Checkpointed
<1> QED BY <1>2, <1>3, <1>4, <1>5, <1>6, RouteKeeps

LEMMA SendSnapshotKeeps == ASSUME IInv, SendSnapshot PROVE IInv'
<1>1. Shapes /\ Checkpointed /\ Connected
  BY DEF IInv
<1>2. srv.pc = "label" /\ UNCHANGED <<world, phase, ui, redis>>
  BY DEF SendSnapshot, At
<1>3. ~ui.snap /\ wire = <<>>
  BY <1>1, <1>2 DEF Connected, Filtering
<1>4. Kept(srv.read) /\ Heard({srv.read.run}, srv.read.at) /\ Has(srv, SrvFields) /\ Unnamed(srv.units)
      /\ Has(redis', RedisFields)
  BY <1>1, <1>2 DEF Checkpointed, Shapes
<1>5. CASE srv.read.run # redis.run
  <2>1. srv' = [srv EXCEPT !.pc = "boot", !.read = None] /\ wire' = wire
    BY <1>5 DEF SendSnapshot
  <2>2. Has(srv', SrvFields) /\ srv'.pc = "boot" /\ srv'.units = srv.units
    BY <1>4, <2>1 DEF Has, SrvFields
  <2>3. IsSeq(wire')
    BY <1>1, <2>1 DEF Shapes
  <2> QED BY <1>2, <1>3, <1>4, <2>1, <2>2, <2>3, RouteKeeps
<1>6. CASE srv.read.run = redis.run
  <2>1. PICK f : f = FilterSnapshot(srv, srv.read)
    OBVIOUS
  <2>2. srv' = [f.state EXCEPT !.pc = "gap", !.cursor = srv.read.at, !.read = None] /\ wire' = Append(wire, f.sends)
    BY <1>6, <2>1 DEF SendSnapshot
  <2>3. /\ Has(f.state, SrvFields) /\ Unnamed(f.state.units)
        /\ f.sends.kind = "snapshot" /\ f.sends.run = srv.read.run /\ Unnamed(f.sends.units)
    BY <1>4, <2>1, SnapshotIs DEF Kept
  <2>4. Has(srv', SrvFields) /\ srv'.pc = "gap" /\ srv'.units = f.state.units /\ srv'.cursor = srv.read.at
    BY <2>2, <2>3 DEF Has, SrvFields
  <2>5. IsSeq(wire') /\ wire' # <<>> /\ Head(wire') = f.sends /\ Tail(wire') = <<>>
    <3>1. wire' = Append(<<>>, f.sends) /\ <<>> \in Seq({})
      BY <1>3, <2>2
    <3>2. Head(wire') = f.sends /\ Tail(wire') = <<>>
      BY <3>1, HeadTailAppend
    <3>3. IsSeq(wire') /\ Len(wire') = Len(<<>>) + 1
      BY <3>1, EmptyIs, AppendIs
    <3> QED BY <3>2, <3>3, EmptyIs
  <2>6. PICK R : R = {srv.read.run}
    OBVIOUS
  <2>7. Rides(<<>>, R)'
    <3>1. Heard(R, srv.read.at) /\ Known(<<>>, R) = R /\ Continues(<<>>, R) /\ DOMAIN <<>> = {}
      BY <1>4, <2>6, EmptyContinues, EmptyIs
    <3>2. PICK c : c = srv.read.at
      OBVIOUS
    <3>3. Heard(R, c)'
      BY <1>2, <3>1, <3>2 DEF Heard, After, Ticking
    <3>4. srv'.cursor = c
      BY <2>4, <3>2
    <3>5. Heard(R, srv.cursor)'
      BY <3>3, <3>4
    <3> QED BY <3>1, <3>5 DEF Rides
  <2>8. Rides(Tail(wire), {Head(wire).run})'
    BY <2>3, <2>5, <2>6, <2>7
  <2> QED BY <1>2, <1>3, <1>4, <2>3, <2>4, <2>5, <2>8, RouteKeeps
<1> QED BY <1>5, <1>6

LEMMA CatchUpKeeps == ASSUME IInv, CatchUp PROVE IInv'
<1>1. Shapes /\ Checkpointed /\ Connected
  BY DEF IInv
<1>2. srv.pc = "gap" /\ Filtering /\ UNCHANGED <<world, phase, ui, redis>>
  BY DEF CatchUp, At, Filtering
<1>3. PICK e : e = Emit(srv, After(srv.cursor))
  OBVIOUS
<1>4. srv' = [e.state EXCEPT !.pc = "join", !.cursor = Len(redis.events)] /\ wire' = wire \o e.out
  BY <1>3 DEF CatchUp
<1>5. PICK R : Heard(R, srv.cursor)
  BY <1>1, <1>2 DEF Connected, Filtering, Rides
<1>6. IsSeq(After(srv.cursor)) /\ \A i \in DOMAIN After(srv.cursor) : Event(After(srv.cursor)[i])
  BY <1>1, <1>5, FromIs DEF Heard, After, From, Shapes
<1>7. \A K : Heard(K, srv.cursor) =>
         /\ Has(e.state, SrvFields) /\ Unnamed(e.state.units)
         /\ IsSeq(e.out) /\ (\A i \in DOMAIN e.out : Message(e.out[i]))
         /\ Continues(e.out, K) /\ Known(e.out, K) = Known(After(srv.cursor), K)
  BY <1>1, <1>3, <1>6, EmitIs DEF Shapes, Heard
<1>8. Has(srv', SrvFields) /\ srv'.pc = "join" /\ srv'.cursor = Len(redis.events) /\ srv'.units = e.state.units
  BY <1>4, <1>5, <1>7 DEF Has, SrvFields
<1>9. ASSUME NEW K, Heard(K, srv.cursor) PROVE Heard(Known(e.out, K), srv.cursor)'
  <2>1. PICK L : L = Known(e.out, K)
    OBVIOUS
  <2>2. Ticking => world.run \in L
    BY <1>7, <1>9, <2>1 DEF Heard
  <2>3. After(Len(redis.events)) = <<>> /\ Len(redis.events) \in 0..Len(redis.events)
    BY <1>1, SeqDomain, FromIs DEF Shapes, After, From
  <2>4. Known(<<>>, L) = L /\ Continues(<<>>, L)
    BY EmptyContinues
  <2>5. PICK c : c = Len(redis.events)
    OBVIOUS
  <2>6. After(c)' = <<>> /\ c \in 0..Len(redis'.events) /\ (Ticking' => world'.run \in L)
    BY <1>2, <2>2, <2>3, <2>5 DEF After, Ticking
  <2>7. Heard(L, c)'
    BY <2>4, <2>6 DEF Heard
  <2>8. srv'.cursor = c
    BY <1>8, <2>5
  <2> QED BY <2>1, <2>7, <2>8
<1>10. /\ IsSeq(wire')
       /\ \/ ui.snap /\ Rides(wire, {ui.run})'
          \/ /\ ~ui.snap /\ wire' # <<>> /\ Head(wire').kind = "snapshot" /\ Unnamed(Head(wire').units)
             /\ Rides(Tail(wire), {Head(wire).run})'
  BY <1>1, <1>2, <1>4, <1>5, <1>7, <1>8, <1>9, WireGrows
<1>11. Unnamed(srv'.units) /\ Has(redis', RedisFields)
  BY <1>1, <1>2, <1>5, <1>7, <1>8 DEF Shapes
<1> QED BY <1>2, <1>8, <1>10, <1>11, RouteKeeps

LEMMA AnnounceIs ==
  ASSUME Shapes, NEW s, s = Announce(srv)
  PROVE  Has(s, SrvFields) /\ s.pc = srv.pc /\ s.units = srv.units /\ s.cursor = srv.cursor
BY DEF Shapes, Announce, Has, SrvFields

LEMMA AskToJoinKeeps == ASSUME IInv, AskToJoin PROVE IInv'
<1>1. Shapes /\ Checkpointed /\ Connected
  BY DEF IInv
<1>2. srv.pc = "join" /\ Filtering /\ UNCHANGED <<world, phase, ui, wire>>
  BY DEF AskToJoin, At, Filtering
<1>3. Has(redis', RedisFields) /\ redis'.events = redis.events /\ redis'.saved = redis.saved /\ redis'.run = redis.run
  BY <1>1 DEF AskToJoin, Shapes, Has, RedisFields
<1>4. PICK s : s = Announce(srv)
  OBVIOUS
<1>5. Has(s, SrvFields) /\ s.units = srv.units /\ s.cursor = srv.cursor /\ srv' = [s EXCEPT !.pc = "live"]
  BY <1>1, <1>4, AnnounceIs DEF AskToJoin
<1>6. Has(srv', SrvFields) /\ srv'.pc = "live" /\ srv'.units = srv.units /\ srv'.cursor = srv.cursor
  BY <1>5 DEF Has, SrvFields
<1>7. /\ IsSeq(wire')
      /\ \/ ui.snap /\ Rides(wire, {ui.run})'
         \/ /\ ~ui.snap /\ wire' # <<>> /\ Head(wire').kind = "snapshot" /\ Unnamed(Head(wire').units)
            /\ Rides(Tail(wire), {Head(wire).run})'
  BY <1>1, <1>2, <1>3, <1>6, WireStays
<1>8. Unnamed(srv'.units)
  BY <1>1, <1>6 DEF Shapes
<1> QED BY <1>2, <1>3, <1>6, <1>7, <1>8, RouteKeeps

LEMMA ReadEventsKeeps == ASSUME IInv, ReadEvents PROVE IInv'
<1>1. Shapes /\ Checkpointed /\ Connected
  BY DEF IInv
<1>2. srv.pc = "live" /\ Filtering /\ UNCHANGED <<world, phase, ui, wire, redis>>
  BY DEF ReadEvents, At, Filtering
<1>3. Has(srv', SrvFields) /\ srv'.pc = "check" /\ srv'.units = srv.units /\ srv'.cursor = srv.cursor
      /\ srv'.batch = After(srv.cursor)
  BY <1>1 DEF ReadEvents, Shapes, Has, SrvFields
<1>4. /\ IsSeq(wire')
      /\ \/ ui.snap /\ Rides(wire, {ui.run})'
         \/ /\ ~ui.snap /\ wire' # <<>> /\ Head(wire').kind = "snapshot" /\ Unnamed(Head(wire').units)
            /\ Rides(Tail(wire), {Head(wire).run})'
  BY <1>1, <1>2, <1>3, WireStays
<1>5. PICK R : Heard(R, srv.cursor)
  BY <1>1, <1>2 DEF Connected, Filtering, Rides
<1>6. /\ srv'.batch = SubSeq(redis.events, srv'.cursor + 1, srv'.cursor + Len(srv'.batch))
      /\ Len(srv'.batch) \in Nat /\ srv'.cursor + Len(srv'.batch) <= Len(redis.events)
  <2>1. PICK c : c = srv.cursor
    OBVIOUS
  <2>2. PICK b : b = From(redis.events, c)
    OBVIOUS
  <2>3. c \in 0..Len(redis.events) /\ Len(redis.events) \in Nat /\ Len(b) = Len(redis.events) - c
    BY <1>1, <1>5, <2>1, <2>2, FromIs DEF Heard, Shapes
  <2>4. c + Len(b) = Len(redis.events) /\ Len(b) \in Nat /\ c + Len(b) <= Len(redis.events)
    BY <2>3
  <2>5. srv'.batch = b /\ srv'.cursor = c
    BY <1>3, <2>1, <2>2 DEF After, From
  <2>6. b = SubSeq(redis.events, c + 1, c + Len(b))
    BY <2>2, <2>4 DEF From
  <2> QED BY <2>4, <2>5, <2>6
<1>7. Unnamed(srv'.units) /\ Has(redis', RedisFields)
  BY <1>1, <1>2, <1>3 DEF Shapes
<1> QED BY <1>2, <1>3, <1>4, <1>6, <1>7, RouteKeeps

(* Messages before others.                                                    *)
Tells(out) == IsSeq(out) /\ \A i \in DOMAIN out : Message(out[i])

LEMMA ConcatTells == ASSUME NEW a, Tells(a), NEW b, Tells(b) PROVE Tells(a \o b)
<1>1. IsSeq(a) /\ (\A i \in DOMAIN a : Message(a[i])) /\ IsSeq(b) /\ (\A i \in DOMAIN b : Message(b[i]))
  BY DEF Tells
<1>2. PICK out : out = a \o b
  OBVIOUS
<1>3. /\ IsSeq(out) /\ Len(a) \in Nat /\ Len(b) \in Nat /\ DOMAIN a = 1..Len(a)
      /\ DOMAIN b = 1..Len(b) /\ DOMAIN out = 1..(Len(a) + Len(b))
      /\ (\A i \in 1..Len(a) : out[i] = a[i]) /\ (\A i \in 1..Len(b) : out[Len(a) + i] = b[i])
  BY <1>1, <1>2, ConcatIs
<1>4. ASSUME NEW i \in DOMAIN out PROVE Message(out[i])
  <2>1. CASE i <= Len(a)
    <3>1. i \in 1..Len(a)
      BY <1>3, <2>1
    <3> QED BY <1>1, <1>3, <3>1
  <2>2. CASE ~(i <= Len(a))
    <3>1. i - Len(a) \in 1..Len(b) /\ Len(a) + (i - Len(a)) = i
      BY <1>3, <2>2
    <3>2. out[i] = b[i - Len(a)]
      BY <1>3, <3>1
    <3> QED BY <1>1, <1>3, <3>1, <3>2
  <2> QED BY <2>1, <2>2
<1> QED BY <1>2, <1>3, <1>4 DEF Tells

(* The stream that ends with a message of one of the other kinds.             *)
LEMMA EndsKeep ==
  ASSUME IInv, Filtering, UNCHANGED <<world, phase, ui, redis>>, NEW m, m.kind \in {"reset", "health"},
         srv' = [NoStream EXCEPT !.pc = "ended"], wire' = Append(wire, m)
  PROVE  IInv'
<1>1. Shapes /\ Checkpointed /\ Connected
  BY DEF IInv
<1>2. PICK one : one = Append(<<>>, m)
  OBVIOUS
<1>3. IsSeq(one) /\ (\A i \in DOMAIN one : Message(one[i])) /\ \A K : Continues(one, K)
  BY <1>2, OneIs
<1>4. wire' = wire \o one
  BY <1>1, <1>2, EmptyIs, AppendThen DEF Shapes
<1>5. Has(srv', SrvFields) /\ srv'.pc = "ended" /\ Unnamed(srv'.units)
  <2>1. Has(NoStream, SrvFields) /\ NoStream.units = <<>>
    BY DEF Has, SrvFields, NoStream, Empty
  <2>2. Has(srv', SrvFields) /\ srv'.pc = "ended" /\ srv'.units = <<>>
    BY <2>1 DEF Has, SrvFields
  <2> QED BY <2>2, EmptyIs DEF Unnamed
<1>6. ~Filtering'
  BY <1>5 DEF Filtering
<1>7. /\ IsSeq(wire')
      /\ \/ ui.snap /\ Rides(wire, {ui.run})'
         \/ /\ ~ui.snap /\ wire' # <<>> /\ Head(wire').kind = "snapshot" /\ Unnamed(Head(wire').units)
            /\ Rides(Tail(wire), {Head(wire).run})'
  BY <1>1, <1>3, <1>4, <1>5, <1>6, WireGrows
<1>8. Has(redis', RedisFields) /\ srv.pc # "off"
  BY <1>1 DEF Shapes, Filtering
<1> QED BY <1>5, <1>7, <1>8, RouteKeeps

LEMMA CheckAndSendKeeps == ASSUME IInv, CheckAndSend PROVE IInv'
<1>1. Shapes /\ Checkpointed /\ Connected
  BY DEF IInv
<1>2. srv.pc = "check" /\ Filtering /\ UNCHANGED <<world, phase, ui, redis>>
  BY DEF CheckAndSend, At, Filtering
<1>3. PICK health : health = [kind |-> "health", ok |-> (redis.alive = redis.run), run |-> redis.run]
  OBVIOUS
<1>4. PICK m : m = [kind |-> "reset", run |-> redis.run]
  OBVIOUS
<1>5. health.kind = "health" /\ m.kind = "reset"
  BY <1>3, <1>4
<1>6. PICK s : s = Announce(srv)
  OBVIOUS
<1>7. PICK e : e = Emit(s, srv.batch)
  OBVIOUS
<1>8. \/ srv' = [NoStream EXCEPT !.pc = "ended"] /\ wire' = Append(wire, m)
      \/ srv' = [NoStream EXCEPT !.pc = "ended"] /\ wire' = Append(wire, health)
      \/ /\ srv' = [e.state EXCEPT !.pc = "live", !.batch = <<>>, !.cursor = srv.cursor + Len(srv.batch)]
         /\ wire' = Append(wire, health) \o e.out
  BY <1>3, <1>4, <1>6, <1>7 DEF CheckAndSend
<1>9. CASE srv' = [NoStream EXCEPT !.pc = "ended"] /\ wire' = Append(wire, m)
  BY <1>2, <1>5, <1>9, EndsKeep
<1>10. CASE srv' = [NoStream EXCEPT !.pc = "ended"] /\ wire' = Append(wire, health)
  BY <1>2, <1>5, <1>10, EndsKeep
<1>11. CASE /\ srv' = [e.state EXCEPT !.pc = "live", !.batch = <<>>, !.cursor = srv.cursor + Len(srv.batch)]
            /\ wire' = Append(wire, health) \o e.out
  <2>1. PICK E : E = redis.events
    OBVIOUS
  <2>2. PICK c : c = srv.cursor
    OBVIOUS
  <2>3. PICK b : b = srv.batch
    OBVIOUS
  <2>4. PICK d : d = c + Len(b)
    OBVIOUS
  <2>5. PICK R : Heard(R, c)
    BY <1>1, <1>2, <2>2 DEF Connected, Filtering, Rides
  <2>6. c \in 0..Len(E) /\ IsSeq(E) /\ Len(E) \in Nat /\ (\A i \in DOMAIN E : Event(E[i]))
    BY <1>1, <2>1, <2>5, SeqDomain DEF Heard, Shapes
  <2>7. b = SubSeq(E, c + 1, d) /\ Len(b) \in Nat /\ d <= Len(E)
    BY <1>1, <1>2, <2>1, <2>2, <2>3, <2>4 DEF Checkpointed
  <2>8. Len(b) \in 0..(Len(E) - c) /\ d \in 0..Len(E)
    BY <2>4, <2>6, <2>7
  <2>9. /\ IsSeq(b) /\ From(E, c) = b \o From(E, d) /\ IsSeq(From(E, d)) /\ IsSeq(From(E, c))
        /\ \A i \in DOMAIN From(E, c) : \E j \in DOMAIN E : From(E, c)[i] = E[j]
    <3>1. /\ IsSeq(SubSeq(E, c + 1, c + Len(b))) /\ From(E, c) = SubSeq(E, c + 1, c + Len(b)) \o From(E, c + Len(b))
          /\ IsSeq(From(E, c)) /\ \A i \in DOMAIN From(E, c) : \E j \in DOMAIN E : From(E, c)[i] = E[j]
      BY <2>6, <2>8, FromIs
    <3>2. IsSeq(From(E, d))
      BY <2>6, <2>8, FromIs
    <3> QED BY <2>4, <2>7, <3>1, <3>2
  <2>10. \A i \in DOMAIN b : Event(b[i])
    <3>1. PICK t : t = b \o From(E, d)
      OBVIOUS
    <3>2. /\ Len(b) \in Nat /\ Len(From(E, d)) \in Nat /\ DOMAIN b = 1..Len(b)
          /\ DOMAIN t = 1..(Len(b) + Len(From(E, d))) /\ \A i \in 1..Len(b) : t[i] = b[i]
      BY <2>9, <3>1, ConcatIs
    <3>3. \A i \in DOMAIN b : i \in DOMAIN t /\ t[i] = b[i]
      BY <3>2
    <3>4. \A i \in DOMAIN t : Event(t[i])
      BY <2>6, <2>9, <3>1
    <3> QED BY <3>3, <3>4
  <2>11. Has(s, SrvFields) /\ Unnamed(s.units)
    BY <1>1, <1>6, AnnounceIs DEF Shapes
  <2>12. \A K : Continues(b, K) =>
            /\ Has(e.state, SrvFields) /\ Unnamed(e.state.units)
            /\ IsSeq(e.out) /\ (\A i \in DOMAIN e.out : Message(e.out[i]))
            /\ Continues(e.out, K) /\ Known(e.out, K) = Known(b, K)
    BY <1>7, <2>3, <2>9, <2>10, <2>11, EmitIs
  <2>13. \A K : Heard(K, c) => /\ Continues(b, K) /\ Continues(From(E, d), Known(b, K))
                               /\ Ticking => world.run \in Known(From(E, d), Known(b, K))
    <3>1. \A K : /\ Known(b \o From(E, d), K) = Known(From(E, d), Known(b, K))
                 /\ Continues(b \o From(E, d), K) <=> Continues(b, K) /\ Continues(From(E, d), Known(b, K))
      BY <2>9, ConcatContinues
    <3>2. After(c) = b \o From(E, d)
      BY <2>1, <2>9 DEF After, From
    <3> QED BY <3>1, <3>2 DEF Heard
  <2>14. /\ Has(e.state, SrvFields) /\ Unnamed(e.state.units)
         /\ IsSeq(e.out) /\ (\A i \in DOMAIN e.out : Message(e.out[i]))
    BY <2>5, <2>12, <2>13
  <2>15. Has(srv', SrvFields) /\ srv'.pc = "live" /\ srv'.cursor = d /\ srv'.units = e.state.units
    BY <1>11, <2>2, <2>3, <2>4, <2>14 DEF Has, SrvFields
  <2>22. PICK one : one = Append(<<>>, health)
    OBVIOUS
  <2>16. PICK out : out = one \o e.out
    OBVIOUS
  <2>17. /\ IsSeq(out) /\ (\A i \in DOMAIN out : Message(out[i]))
         /\ \A K : (Continues(out, K) <=> Continues(e.out, K)) /\ Known(out, K) = Known(e.out, K)
    <3>1. health.kind \in {"reset", "health"} /\ \A K : KnownWith(health, K) = K
      BY <1>5 DEF KnownWith
    <3>2. Tells(one) /\ \A K : Continues(one, K) /\ Known(one, K) = K
      BY <2>22, <3>1, OneIs DEF Tells
    <3>3. PICK rest : rest = e.out
      OBVIOUS
    <3>4. Tells(rest) /\ IsSeq(rest) /\ IsSeq(one)
      BY <2>14, <3>2, <3>3 DEF Tells
    <3>5. Tells(one \o rest)
      BY <3>2, <3>4, ConcatTells
    <3>6. \A K : /\ Known(one \o rest, K) = Known(rest, Known(one, K))
                 /\ Continues(one \o rest, K) <=> Continues(one, K) /\ Continues(rest, Known(one, K))
      BY <3>4, ConcatContinues
    <3> QED BY <2>16, <3>2, <3>3, <3>5, <3>6 DEF Tells
  <2>18. wire' = wire \o out
    <3>1. IsSeq(wire) /\ IsSeq(e.out)
      BY <1>1, <2>14 DEF Shapes
    <3>2. \A w, o : IsSeq(w) /\ IsSeq(o) => Append(w, health) \o o = w \o (one \o o)
      BY <2>22, AppendThen
    <3> QED BY <1>11, <2>16, <3>1, <3>2
  <2>19. ASSUME NEW K, Heard(K, c) PROVE Continues(out, K) /\ Heard(Known(out, K), srv.cursor)'
    <3>1. PICK L : L = Known(b, K)
      OBVIOUS
    <3>2. Continues(out, K) /\ Known(out, K) = L
      BY <2>12, <2>13, <2>17, <2>19, <3>1
    <3>3. Continues(From(E, d), L) /\ (Ticking => world.run \in Known(From(E, d), L))
      BY <2>13, <2>19, <3>1
    <3>4. From(E, d) = After(d)' /\ d \in 0..Len(redis'.events)
      BY <1>2, <2>1, <2>8 DEF From, After
    <3>5. Heard(L, d)'
      BY <1>2, <3>3, <3>4 DEF Heard, Ticking
    <3> QED BY <2>15, <3>2, <3>5
  <2>20. /\ IsSeq(wire')
         /\ \/ ui.snap /\ Rides(wire, {ui.run})'
            \/ /\ ~ui.snap /\ wire' # <<>> /\ Head(wire').kind = "snapshot" /\ Unnamed(Head(wire').units)
               /\ Rides(Tail(wire), {Head(wire).run})'
    BY <1>1, <1>2, <2>2, <2>15, <2>17, <2>18, <2>19, WireGrows
  <2>21. Unnamed(srv'.units) /\ Has(redis', RedisFields)
    BY <1>1, <1>2, <2>14, <2>15 DEF Shapes
  <2> QED BY <1>2, <2>15, <2>20, <2>21, RouteKeeps
<1> QED BY <1>8, <1>9, <1>10, <1>11

-----------------------------------------------------------------------------
(* The bridge.                                                                *)

LEMMA BridgeKeeps ==
  ASSUME IInv, Bridge, Has(srv', SrvFields), Unnamed(srv'.units), IsSeq(wire'), Has(ui', UiFields),
         srv' = srv \/ srv'.pc \notin {"label", "check"}, Connected', OneRunShown'
  PROVE  IInv'
<1>1. Shapes /\ Checkpointed /\ UNCHANGED <<world, redis, phase>>
  BY DEF IInv, Bridge
<1>2. \A R, c : Heard(R, c) => Heard(R, c)'
  BY <1>1 DEF Heard, After, Ticking
<1>3. \A s : Kept(s) => Kept(s)'
  BY <1>1 DEF Kept
<1>4. Shapes'
  BY <1>1 DEF Shapes
<1>5. Checkpointed'
  BY <1>1, <1>2, <1>3 DEF Checkpointed
<1> QED BY <1>4, <1>5 DEF IInv

LEMMA NoStreamIs ==
  Has(NoStream, SrvFields) /\ Unnamed(NoStream.units) /\ NoStream.pc = "off"
<1>1. Has(NoStream, SrvFields) /\ NoStream.units = <<>> /\ NoStream.pc = "off"
  BY DEF Has, SrvFields, NoStream, Empty
<1> QED BY <1>1, EmptyIs DEF Unnamed

(* No connection, or one that has just been opened.                           *)
LEMMA ApartKeeps ==
  ASSUME IInv, Bridge, Has(ui', UiFields), ~ui'.snap, wire' = <<>>,
         \/ ui'.es \in {"connecting", "failed"} /\ srv' = NoStream
         \/ ui'.es \in {"connecting", "failed"} /\ srv' = srv /\ srv.pc = "off"
         \/ ui'.es = "open" /\ srv' = [NoStream EXCEPT !.pc = "start"],
         (ui'.view = ui.view /\ ui'.run = ui.run) \/ ui'.view = Empty
  PROVE  IInv'
<1>1. /\ Has(srv', SrvFields) /\ Unnamed(srv'.units)
      /\ \/ ui'.es \in {"connecting", "failed"} /\ srv'.pc = "off"
         \/ ui'.es = "open" /\ srv'.pc = "start"
  <2>1. Has(srv, SrvFields) /\ Unnamed(srv.units)
    BY DEF IInv, Shapes
  <2> QED BY <2>1, NoStreamIs DEF Has, SrvFields
<1>2. OneRunShown'
  <2>1. OneRunShown
    BY DEF IInv
  <2> QED BY <2>1, EmptyIs DEF OneRunShown, Empty
<1>3. Connected'
  BY <1>1 DEF Connected
<1>4. IsSeq(wire')
  BY EmptyIs
<1> QED BY <1>1, <1>2, <1>3, <1>4, BridgeKeeps

(* The handshakes and the signs of life: what is shown stays.                 *)
LEMMA AnswersKeep ==
  ASSUME IInv, Bridge, Has(ui', UiFields), UNCHANGED <<srv, wire>>,
         ui'.es = ui.es, ui'.snap = ui.snap, ui'.run = ui.run, ui'.view = ui.view
  PROVE  IInv'
<1>1. Shapes /\ Connected /\ OneRunShown /\ UNCHANGED <<world, redis, phase>>
  BY DEF IInv, Bridge
<1>2. \A R, c : Heard(R, c) => Heard(R, c)'
  BY <1>1 DEF Heard, After, Ticking
<1>3. \A W, R : Rides(W, R) => Rides(W, R)'
  BY <1>2 DEF Rides, Filtering
<1>4. Connected'
  BY <1>1, <1>3 DEF Connected, Filtering
<1>5. OneRunShown' /\ Has(srv', SrvFields) /\ Unnamed(srv'.units) /\ IsSeq(wire')
  BY <1>1 DEF OneRunShown, Shapes
<1> QED BY <1>4, <1>5, BridgeKeeps

LEMMA DisconnectIs ==
  ASSUME NEW c, Has(c, UiFields), NEW d, d = Disconnect(c)
  PROVE  Has(d, UiFields) /\ ~d.snap /\ d.es = c.es /\ d.view = c.view /\ d.run = c.run
BY DEF Disconnect, Has, UiFields

LEMMA RemountIs ==
  ASSUME NEW c, Has(c, UiFields), NEW d, d = Remount(c)
  PROVE  Has(d, UiFields) /\ ~d.snap /\ d.es = "connecting" /\ d.view = Empty
<1>1. PICK b : b = Disconnect(c)
  OBVIOUS
<1>2. Has(b, UiFields) /\ ~b.snap
  BY <1>1, DisconnectIs
<1>3. d = [b EXCEPT !.es = "connecting", !.view = Empty, !.memory = Empty, !.calls = <<>>, !.retry = FALSE]
  BY <1>1 DEF Remount
<1> QED BY <1>2, <1>3 DEF Has, UiFields

LEMMA TakeDownKeeps ==
  ASSUME IInv, Bridge, NEW c, Has(c, UiFields), TakeDown(c) PROVE IInv'
<1>1. ui' = Remount(c) /\ srv' = NoStream /\ wire' = <<>>
  BY DEF TakeDown
<1>2. Has(ui', UiFields) /\ ~ui'.snap /\ ui'.es = "connecting" /\ ui'.view = Empty
  BY <1>1, RemountIs
<1> QED BY <1>1, <1>2, ApartKeeps

LEMMA OpeningsKeep ==
  ASSUME IInv, Opens \/ Breaks \/ StreamEnds \/ Refused PROVE IInv'
<1>1. Has(ui, UiFields) /\ Connected
  BY DEF IInv, Shapes
<1>2. PICK d : d = Disconnect(ui)
  OBVIOUS
<1>3. Has(d, UiFields) /\ ~d.snap /\ d.es = ui.es /\ d.view = ui.view /\ d.run = ui.run
  BY <1>1, <1>2, DisconnectIs
<1>4. CASE Opens
  <2>1. \E x : ui' = [d EXCEPT !.es = "open", !.calls = x]
    BY <1>2, <1>3, <1>4 DEF Opens, Has, UiFields
  <2>2. PICK x : ui' = [d EXCEPT !.es = "open", !.calls = x]
    BY <2>1
  <2>3. Has(ui', UiFields) /\ ui'.es = "open" /\ ~ui'.snap /\ ui'.view = ui.view /\ ui'.run = ui.run
    BY <1>3, <2>2 DEF Has, UiFields
  <2> QED BY <1>4, <2>3, ApartKeeps DEF Opens
<1>5. CASE Breaks \/ StreamEnds
  <2>1. ui' = [d EXCEPT !.es = "connecting"] /\ srv' = NoStream /\ wire' = <<>> /\ Bridge
    BY <1>2, <1>5 DEF Breaks, StreamEnds
  <2>2. Has(ui', UiFields) /\ ui'.es = "connecting" /\ ~ui'.snap /\ ui'.view = ui.view /\ ui'.run = ui.run
    BY <1>3, <2>1 DEF Has, UiFields
  <2> QED BY <2>1, <2>2, ApartKeeps
<1>6. CASE Refused
  <2>1. ui' = [d EXCEPT !.es = "failed"] /\ UNCHANGED <<srv, wire>> /\ Bridge /\ ui.es = "connecting"
    BY <1>2, <1>6 DEF Refused
  <2>2. Has(ui', UiFields) /\ ui'.es = "failed" /\ ~ui'.snap /\ ui'.view = ui.view /\ ui'.run = ui.run
    BY <1>3, <2>1 DEF Has, UiFields
  <2>3. srv.pc = "off" /\ wire = <<>>
    BY <1>1, <2>1 DEF Connected
  <2> QED BY <2>1, <2>2, <2>3, ApartKeeps
<1> QED BY <1>4, <1>5, <1>6

LEMMA AnsweringKeeps ==
  ASSUME IInv, Lapses \/ HandshakeAnswered \/ HandshakeFails PROVE IInv'
<1>1. Has(ui, UiFields)
  BY DEF IInv, Shapes
<1>2. ui.es \in {"open", "connecting", "failed"}
  BY DEF IInv, Connected
<1> DEFINE Same(c) == /\ Has(c, UiFields) /\ c.es = ui.es /\ c.snap = ui.snap
                      /\ c.run = ui.run /\ c.view = ui.view
<1>4. \A i : Same(Answered(i))
  BY <1>1 DEF Answered, Has, UiFields
<1>5. ASSUME NEW c, Same(c) PROVE Same(TryAgain(c)) /\ \A x : Same([c EXCEPT !.rec = x])
  BY <1>5 DEF TryAgain, Has, UiFields
<1> HIDE DEF Same
<1>6. Same(ui') /\ Bridge /\ UNCHANGED <<srv, wire>>
  <2>1. CASE Lapses
    <3>1. Same([ui EXCEPT !.health = "old"])
      BY <1>1 DEF Same, Has, UiFields
    <3> QED BY <2>1, <3>1 DEF Lapses
  <2>2. CASE HandshakeFails
    BY <1>4, <1>5, <2>2 DEF HandshakeFails
  <2>3. CASE HandshakeAnswered
    <3>1. PICK i \in DOMAIN ui.calls :
            \/ ui' = [ui EXCEPT !.calls[i].fresh = TRUE, !.calls[i].again = FALSE]
            \/ ui' = TryAgain(Answered(i))
            \/ ui' = CASE ui.es = "open" -> [Answered(i) EXCEPT !.rec = IF ui.calls[i].own THEN "own" ELSE "late"]
                       [] ui.es = "connecting" -> Answered(i)
                       [] ui.es = "failed" -> TryAgain(Answered(i))
      BY <2>3 DEF HandshakeAnswered
    <3>2. CASE ui' = [ui EXCEPT !.calls[i].fresh = TRUE, !.calls[i].again = FALSE]
      BY <1>1, <2>3, <3>2 DEF HandshakeAnswered, Same, Has, UiFields
    <3>3. CASE ui' = TryAgain(Answered(i))
      BY <1>4, <1>5, <2>3, <3>3 DEF HandshakeAnswered
    <3>4. CASE ui' = CASE ui.es = "open" -> [Answered(i) EXCEPT !.rec = IF ui.calls[i].own THEN "own" ELSE "late"]
                       [] ui.es = "connecting" -> Answered(i)
                       [] ui.es = "failed" -> TryAgain(Answered(i))
      <4>1. \/ ui' = Answered(i) \/ ui' = TryAgain(Answered(i))
            \/ ui' = [Answered(i) EXCEPT !.rec = IF ui.calls[i].own THEN "own" ELSE "late"]
        BY <1>2, <3>4
      <4>2. Same(ui')
        BY <1>4, <1>5, <4>1
      <4> QED BY <2>3, <4>2 DEF HandshakeAnswered
    <3> QED BY <3>1, <3>2, <3>3, <3>4
  <2> QED BY <2>1, <2>2, <2>3
<1> QED BY <1>6, AnswersKeep DEF Same

LEMMA RetryFiresKeeps == ASSUME IInv, RetryFires PROVE IInv'
<1>1. Has(ui, UiFields)
  BY DEF IInv, Shapes
<1>2. PICK c : c = [ui EXCEPT !.retry = FALSE]
  OBVIOUS
<1>3. Has(c, UiFields) /\ c.es = ui.es /\ c.snap = ui.snap /\ c.run = ui.run /\ c.view = ui.view
  BY <1>1, <1>2 DEF Has, UiFields
<1>4. CASE ui.es = "open"
  <2>1. TakeDown(c) /\ Bridge
    BY <1>2, <1>4 DEF RetryFires
  <2> QED BY <1>3, <2>1, TakeDownKeeps
<1>5. CASE ui.es # "open"
  <2>1. ui' = c /\ UNCHANGED <<srv, wire>> /\ Bridge
    BY <1>2, <1>5 DEF RetryFires
  <2> QED BY <1>3, <2>1, AnswersKeep
<1> QED BY <1>4, <1>5

(* What is shown of one run: with what is remembered, and with what arrives.  *)
Shows(view, r) == \A u \in DOMAIN view : view[u].of = r

LEMMA OverShowsOne ==
  ASSUME NEW f, NEW g, NEW r, Shows(f, r), Shows(g, r) PROVE Shows(Over(f, g), r)
BY DEF Shows, Over

LEMMA WithoutShowsOne == ASSUME NEW f, NEW S, NEW r, Shows(f, r) PROVE Shows(Without(f, S), r)
BY DEF Shows, Without, Restrict

LEMMA SyncShowsOne ==
  ASSUME NEW view, NEW r, Shows(view, r), NEW memory, NEW units, NEW hidden
  PROVE  Shows(SyncMemory(view, memory, units, hidden, r), r)
<1> DEFINE stays == {u \in units \cap DOMAIN view : view[u].live /\ ~hidden}
           shown == {u \in units \ stays : u \in DOMAIN memory /\ u \in Retained}
           past  == [u \in shown |-> [live |-> FALSE, of |-> r, pos |-> memory[u]]]
<1>1. SyncMemory(view, memory, units, hidden, r) = Over(past, Without(view, units \ stays))
  BY DEF SyncMemory
<1>2. Shows(past, r)
  BY DEF Shows
<1>3. Shows(Without(view, units \ stays), r)
  BY WithoutShowsOne
<1> HIDE DEF past, stays
<1> QED BY <1>1, <1>2, <1>3, OverShowsOne

LEMMA SeenIs ==
  ASSUME NEW unit, "of" \notin DOMAIN unit, NEW r, NEW x, x = Seen(unit, r)
  PROVE  x.of = r /\ "of" \in DOMAIN x
BY DEF Seen, Over

LEMMA SnapshotShowsOne ==
  ASSUME Has(ui, UiFields), NEW m, Unnamed(m.units), NEW c, c = ApplySnapshot(ui, m)
  PROVE  /\ Has(c, UiFields) /\ c.es = ui.es /\ c.snap /\ c.run = m.run
         /\ Shows(c.view, m.run)
<1> DEFINE memory == Sightings(m.memory)
<1>1. PICK view : view = [u \in DOMAIN m.units |-> Seen(m.units[u], m.run)]
  OBVIOUS
<1>2. PICK w : w = SyncMemory(view, memory, DOMAIN memory, FALSE, m.run)
  OBVIOUS
<1>3. c = [ui EXCEPT !.run = m.run, !.memory = memory, !.snap = TRUE, !.view = w,
                     !.calls = [i \in DOMAIN @ |-> [@[i] EXCEPT !.fresh = FALSE]]]
  BY <1>1, <1>2 DEF ApplySnapshot
<1> HIDE DEF memory
<1>4. Has(c, UiFields) /\ c.es = ui.es /\ c.snap /\ c.run = m.run /\ c.view = w
  BY <1>3 DEF Has, UiFields
<1>5. Shows(view, m.run)
  BY <1>1, SeenIs DEF Unnamed, Shows
<1>6. Shows(w, m.run)
  BY <1>2, <1>5, SyncShowsOne
<1> QED BY <1>4, <1>6

LEMMA DeltaShowsOne ==
  ASSUME Has(ui, UiFields), OneRunShown, NEW m, Unnamed(m.units), m.run = ui.run,
         NEW c, c = ApplyDelta(ui, m)
  PROVE  /\ Has(c, UiFields) /\ c.es = ui.es /\ c.snap = ui.snap /\ c.run = ui.run
         /\ Shows(c.view, ui.run)
<1> DEFINE known  == Without(Over(Sightings(m.memory), ui.memory), m.lost)
           memory == Without(known, m.gone)
           fresh(u, v) == LET seen == Seen(m.units[u], m.run) IN IF u \in DOMAIN v THEN Over(seen, v[u]) ELSE seen
<1>1. PICK v1 : v1 = SyncMemory(ui.view, known, m.lost, FALSE, ui.run)
  OBVIOUS
<1>2. PICK w2 : w2 = SyncMemory(v1, memory, m.hidden, TRUE, ui.run)
  OBVIOUS
<1>3. PICK v2 : v2 = Without(w2, m.gone)
  OBVIOUS
<1>4. PICK f : f = [u \in DOMAIN m.units |-> fresh(u, v2)]
  OBVIOUS
<1>5. PICK v3 : v3 = Over(f, v2)
  OBVIOUS
<1>6. PICK v4 : v4 = SyncMemory(v3, memory, DOMAIN m.memory, FALSE, ui.run)
  OBVIOUS
<1>7. c = [ui EXCEPT !.memory = memory, !.view = v4]
  BY <1>1, <1>2, <1>3, <1>4, <1>5, <1>6 DEF ApplyDelta
<1>8. \A u \in DOMAIN m.units : f[u].of = ui.run
  <2>1. ASSUME NEW u \in DOMAIN m.units PROVE fresh(u, v2).of = ui.run
    <3>1. PICK seen : seen = Seen(m.units[u], m.run)
      OBVIOUS
    <3>2. seen.of = ui.run /\ "of" \in DOMAIN seen
      BY <3>1, SeenIs DEF Unnamed
    <3>3. \A g : Over(seen, g).of = ui.run
      BY <3>2 DEF Over
    <3> QED BY <3>1, <3>2, <3>3
  <2> QED BY <1>4, <2>1
<1> HIDE DEF known, memory
<1>9. Has(c, UiFields) /\ c.es = ui.es /\ c.snap = ui.snap /\ c.run = ui.run /\ c.view = v4
  BY <1>7 DEF Has, UiFields
<1>10. Shows(v1, ui.run)
  <2>1. Shows(ui.view, ui.run)
    BY DEF OneRunShown, Shows
  <2> QED BY <1>1, <2>1, SyncShowsOne
<1>11. Shows(w2, ui.run)
  BY <1>2, <1>10, SyncShowsOne
<1>12. Shows(v2, ui.run)
  BY <1>3, <1>11, WithoutShowsOne
<1>13. Shows(v3, ui.run)
  <2>1. DOMAIN f = DOMAIN m.units
    BY <1>4
  <2>2. Shows(f, ui.run)
    BY <1>8, <2>1 DEF Shows
  <2> QED BY <1>5, <1>12, <2>2, OverShowsOne
<1>14. Shows(v4, ui.run)
  BY <1>6, <1>13, SyncShowsOne
<1> QED BY <1>9, <1>14

(* The next message of the run that is shown.                                 *)
LEMMA RidesOn ==
  ASSUME IsSeq(wire), wire # <<>>, NEW r, Rides(wire, {r})
  PROVE  /\ Message(Head(wire)) /\ IsSeq(Tail(wire))
         /\ Head(wire).kind = "delta" => Head(wire).run = r
         /\ Head(wire).kind # "reset" \/ Head(wire).run = r => Rides(Tail(wire), {r})
<1>1. PICK T : T = Tail(wire)
  OBVIOUS
<1>2. PICK R : R = {r}
  OBVIOUS
<1>3. /\ IsSeq(T) /\ Head(wire) = wire[1] /\ 1 \in DOMAIN wire /\ DOMAIN wire = 1..Len(wire) /\ Len(wire) \in Nat
      /\ DOMAIN T = 1..(Len(wire) - 1) /\ \A i \in DOMAIN T : T[i] = wire[i + 1]
  BY <1>1, TailIs
<1>4. /\ (\A i \in DOMAIN wire : Message(wire[i])) /\ Continues(wire, R)
      /\ Filtering => Heard(Known(wire, R), srv.cursor)
  BY <1>2 DEF Rides
<1>5. \A i \in DOMAIN T : Message(T[i])
  <2>1. \A i \in DOMAIN T : i + 1 \in DOMAIN wire
    BY <1>3
  <2> QED BY <1>3, <1>4, <2>1
<1>6. /\ Known(wire, R) = Known(T, KnownWith(Head(wire), R))
      /\ Continues(T, KnownWith(Head(wire), R))
      /\ Head(wire).kind = "delta" => Head(wire).run \in R
  BY <1>1, <1>4, TailContinues
<1>7. Head(wire).kind # "reset" \/ Head(wire).run = r => KnownWith(Head(wire), R) = R
  BY <1>2 DEF KnownWith
<1>8. Head(wire).kind # "reset" \/ Head(wire).run = r => Rides(T, R)
  BY <1>4, <1>5, <1>6, <1>7 DEF Rides
<1> QED BY <1>1, <1>2, <1>3, <1>4, <1>6, <1>8

(* A message that leaves the connection as it is.                             *)
LEMMA DeliveryKeeps ==
  ASSUME IInv, Bridge, wire # <<>>, ui.es = "open", Has(ui', UiFields), UNCHANGED srv, wire' = Tail(wire),
         Filtering \/ srv.pc = "ended", ui'.es = "open", ui'.snap,
         NEW r, ui'.run = r, Rides(Tail(wire), {r}), Shows(ui'.view, r)
  PROVE  IInv'
<1>1. Shapes /\ UNCHANGED <<world, redis, phase>>
  BY DEF IInv, Bridge
<1>2. \A R, c : Heard(R, c) => Heard(R, c)'
  BY <1>1 DEF Heard, After, Ticking
<1>3. \A W, R : Rides(W, R) => Rides(W, R)'
  BY <1>2 DEF Rides, Filtering
<1>4. PICK W : W = Tail(wire)
  OBVIOUS
<1>5. Rides(W, {r})'
  BY <1>3, <1>4
<1>6. Rides(wire, {ui.run})'
  BY <1>4, <1>5
<1>7. Connected'
  BY <1>6 DEF Connected, Filtering
<1>8. Has(srv', SrvFields) /\ Unnamed(srv'.units) /\ IsSeq(wire')
  BY <1>1, TailIs DEF Shapes
<1>9. OneRunShown'
  BY DEF OneRunShown, Shows
<1> QED BY <1>7, <1>8, <1>9, BridgeKeeps

LEMMA DeliverKeeps == ASSUME IInv, Deliver PROVE IInv'
<1>1. Shapes /\ Connected /\ OneRunShown /\ Has(ui, UiFields) /\ IsSeq(wire)
  BY DEF IInv, Shapes
<1>2. Bridge /\ ui.es = "open" /\ wire # <<>>
  BY DEF Deliver
<1>3. PICK m : m = Head(wire)
  OBVIOUS
<1>4. /\ Filtering \/ srv.pc = "ended"
      /\ \/ ui.snap /\ Rides(wire, {ui.run})
         \/ ~ui.snap /\ m.kind = "snapshot" /\ Unnamed(m.units) /\ Rides(Tail(wire), {m.run})
  BY <1>1, <1>2, <1>3 DEF Connected
<1>5. ui.snap /\ Rides(wire, {ui.run}) =>
        /\ Message(m) /\ (m.kind = "delta" => m.run = ui.run)
        /\ m.kind # "reset" \/ m.run = ui.run => Rides(Tail(wire), {ui.run})
  BY <1>1, <1>2, <1>3, RidesOn
<1>6. CASE m.kind = "snapshot" /\ ui' = ApplySnapshot(ui, m) /\ wire' = Tail(wire) /\ UNCHANGED srv
  <2>1. ~ui.snap /\ Unnamed(m.units) /\ Rides(Tail(wire), {m.run})
    BY <1>4, <1>5, <1>6 DEF Message
  <2>2. Has(ui', UiFields) /\ ui'.es = ui.es /\ ui'.snap /\ ui'.run = m.run /\ Shows(ui'.view, m.run)
    BY <1>1, <1>6, <2>1, SnapshotShowsOne
  <2> QED BY <1>2, <1>4, <1>6, <2>1, <2>2, DeliveryKeeps
<1>7. CASE m.kind = "delta" /\ ui' = ApplyDelta(ui, m) /\ wire' = Tail(wire) /\ UNCHANGED srv
  <2>1. ui.snap /\ Unnamed(m.units) /\ m.run = ui.run /\ Rides(Tail(wire), {ui.run})
    BY <1>4, <1>5, <1>7 DEF Message
  <2>2. Has(ui', UiFields) /\ ui'.es = ui.es /\ ui'.snap = ui.snap /\ ui'.run = ui.run /\ Shows(ui'.view, ui.run)
    BY <1>1, <1>7, <2>1, DeltaShowsOne
  <2> QED BY <1>2, <1>4, <1>7, <2>1, <2>2, DeliveryKeeps
<1>8. CASE m.kind = "reset" /\ OnReset(m)
  <2>1. ui.snap /\ (m.run = ui.run => Rides(Tail(wire), {ui.run}))
    BY <1>4, <1>5, <1>8
  <2>2. CASE m.run = ui.run
    <3>1. wire' = Tail(wire) /\ UNCHANGED <<ui, srv>>
      BY <1>8, <2>2 DEF OnReset
    <3>2. Shows(ui'.view, ui.run) /\ Has(ui', UiFields)
      BY <1>1, <3>1 DEF OneRunShown, Shows
    <3> QED BY <1>2, <1>4, <2>1, <2>2, <3>1, <3>2, DeliveryKeeps
  <2>3. CASE m.run # ui.run
    BY <1>1, <1>2, <1>8, <2>3, TakeDownKeeps DEF OnReset
  <2> QED BY <2>2, <2>3
<1>9. CASE m.kind = "health" /\ OnHealth(m)
  <2>1. ui.snap /\ Rides(Tail(wire), {ui.run})
    BY <1>4, <1>5, <1>9
  <2>2. \/ TakeDown(ui)
        \/ (\E x : ui' = [ui EXCEPT !.health = x]) /\ wire' = Tail(wire) /\ UNCHANGED srv
    BY <1>9 DEF OnHealth
  <2>3. CASE TakeDown(ui)
    BY <1>1, <1>2, <2>3, TakeDownKeeps
  <2>4. CASE (\E x : ui' = [ui EXCEPT !.health = x]) /\ wire' = Tail(wire) /\ UNCHANGED srv
    <3>1. Has(ui', UiFields) /\ ui'.es = ui.es /\ ui'.snap = ui.snap /\ ui'.run = ui.run /\ ui'.view = ui.view
      BY <1>1, <2>4 DEF Has, UiFields
    <3>2. Shows(ui'.view, ui.run)
      BY <1>1, <3>1 DEF OneRunShown, Shows
    <3> QED BY <1>2, <1>4, <2>1, <2>4, <3>1, <3>2, DeliveryKeeps
  <2> QED BY <2>2, <2>3, <2>4
<1>10. \/ m.kind = "snapshot" /\ ui' = ApplySnapshot(ui, m) /\ wire' = Tail(wire) /\ UNCHANGED srv
       \/ m.kind = "delta" /\ ui' = ApplyDelta(ui, m) /\ wire' = Tail(wire) /\ UNCHANGED srv
       \/ m.kind = "reset" /\ OnReset(m)
       \/ m.kind = "health" /\ OnHealth(m)
  BY <1>3 DEF Deliver
<1> QED BY <1>6, <1>7, <1>8, <1>9, <1>10

-----------------------------------------------------------------------------
LEMMA InitHolds == ASSUME Init PROVE IInv
<1>1. /\ world = Fresh(1) /\ phase = "idle" /\ srv = NoStream /\ wire = <<>> /\ redis.events = <<>>
      /\ redis.saved = Saved(world, 0)
      /\ ui.es = "connecting" /\ ~ui.snap /\ ui.view = <<>> /\ Has(ui, UiFields) /\ Has(redis, RedisFields)
  BY DEF Init, Has, UiFields, RedisFields, Empty
<1>2. Has(world, WorldFields) /\ Unnamed(world.units) /\ world.run = 1
  BY <1>1 DEF Fresh, Has, WorldFields, Unnamed
<1>3. IsSeq(<<>>) /\ DOMAIN <<>> = {} /\ Len(<<>>) = 0
  BY EmptyIs
<1>4. Shapes
  BY <1>1, <1>2, <1>3, NoStreamIs DEF Shapes
<1>5. redis.saved.run = 1 /\ redis.saved.at = 0 /\ redis.saved.units = world.units
  BY <1>1, <1>2 DEF Saved
<1>6. Heard({1}, Len(redis.events))
  BY <1>1, <1>2, <1>3, NewestHeard
<1>7. Kept(redis.saved) /\ Heard({redis.saved.run}, redis.saved.at)
  <2>1. Len(redis.events) = 0
    BY <1>1, <1>3
  <2>2. Heard({1}, 0)
    BY <1>6, <2>1
  <2>3. Kept(redis.saved)
    BY <1>2, <1>5, <2>1 DEF Kept
  <2> QED BY <1>5, <2>2, <2>3
<1>8. Checkpointed
  BY <1>1, <1>7, NoStreamIs DEF Checkpointed
<1>9. Connected /\ OneRunShown
  BY <1>1, <1>3, NoStreamIs DEF Connected, OneRunShown
<1> QED BY <1>4, <1>8, <1>9 DEF IInv

LEMMA StepKeeps == ASSUME IInv, [Next]_vars PROVE IInv'
<1>1. ASSUME Engine PROVE IInv'
  BY <1>1, TicksKeep, WritesKeep DEF Engine
<1>2. ASSUME Running PROVE IInv'
  BY <1>2, WritesKeep, ResetKeeps, ResetGoesOnKeeps DEF Running
<1>3. ASSUME Route PROVE IInv'
  BY <1>3, ReadCheckpointKeeps, SendSnapshotKeeps, CatchUpKeeps, AskToJoinKeeps, WritesKeep,
     ReadEventsKeeps, CheckAndSendKeeps DEF Route
<1>4. ASSUME Follow PROVE IInv'
  BY <1>4, OpeningsKeep, DeliverKeeps, AnsweringKeeps, RetryFiresKeeps DEF Follow
<1>5. ASSUME Trouble PROVE IInv'
  BY <1>5, OpeningsKeep, AnsweringKeeps, WritesKeep DEF Trouble
<1>6. ASSUME UNCHANGED vars PROVE IInv'
  BY <1>6 DEF vars, IInv, Shapes, Checkpointed, Connected, OneRunShown, Kept, Heard, Rides, Filtering,
     After, Ticking
<1> QED BY <1>1, <1>2, <1>3, <1>4, <1>5, <1>6 DEF Next

(* OneRunShown: the browser never mixes units of two runs of the world.       *)
THEOREM OnlyOneRunIsShown == Spec => []OneRunShown
<1>1. Init => IInv
  BY InitHolds
<1>2. IInv /\ [Next]_vars => IInv'
  BY StepKeeps
<1>3. IInv => OneRunShown
  BY DEF IInv
<1> QED BY <1>1, <1>2, <1>3, PTL DEF Spec

=============================================================================
