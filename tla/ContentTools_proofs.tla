------------------------- MODULE ContentTools_proofs -------------------------
(* The content tools for any entities, requests and troubles. Artwork: who    *)
(* waits for what, what a save holds, and what is saved. Definitions: that    *)
(* the edits add up, and that what an editor takes for saved was written.     *)
(* Visualizations: that nothing is replaced unasked.                          *)
EXTENDS MCContentTools, SequenceTheorems, FiniteSetTheorems, TLAPS

CallFields == {"n", "kind", "for", "from", "arg", "at", "set", "todo", "had"}
IsCall(c)  == c = [f \in CallFields |-> c[f]]

(* The requests of a page, of which it has one while it is busy.              *)
From(S, p)     == {c \in S : c.from = p}
Waits(S, p, b) == IF b THEN \E c : From(S, p) = {c} ELSE From(S, p) = {}

(* Pages with all their fields, about entities and candidates there are.      *)
IsCatalog(x) ==
  \/ x = Shut
  \/ /\ x = [f \in {"open", "sprite", "large", "tool", "chosen", "busy"} |-> x[f]]
     /\ x.open = TRUE /\ x.busy \in BOOLEAN /\ x.sprite \in Entities

IsDialog(x) ==
  \/ x = Closed
  \/ /\ x = [f \in {"for", "phase", "include", "req", "inv", "primary", "upscaling", "making", "saving"} |-> x[f]]
     /\ x.phase # "closed" /\ x.for \in Entities

IsReview(x, N) == x = [f \in {"req", "i", "size", "front"} |-> x[f]] /\ x.req \in N
IsGen(x, N)    == x = [f \in {"of", "got"} |-> x[f]] /\ x.of \in N

IsMaker(x, N) ==
  \/ x = Shut
  \/ /\ x = [f \in {"open", "entity", "gen", "history", "review", "busy", "asks"} |-> x[f]]
     /\ x.open = TRUE /\ x.busy \in BOOLEAN /\ x.entity \in Entities /\ x.history \subseteq N
     /\ x.gen # None => IsGen(x.gen, N)
     /\ x.review # None => IsReview(x.review, N)

IsArt(a) ==
  /\ a = [n \in DOMAIN a |-> a[n]]
  /\ \A n \in DOMAIN a : a[n] = [f \in {"for", "listed", "stored"} |-> a[n][f]] /\ a[n].for \in Entities

(* Which requests come to which places.                                       *)
InPlace(c) ==
  /\ c.at = "storing" => c.kind = "generate" /\ c.todo \subseteq {"listed", "stored"}
  /\ c.at = "lane" => c.kind \in {"upload", "publish", "transform", "masks"}

AreCalls(S, m) ==
  /\ \A c \in S : IsCall(c) /\ c.for \in Entities /\ c.n \in 1..m /\ InPlace(c)
  /\ \A c, d \in S : c.n = d.n => c = d

Shaped ==
  /\ made \in Nat /\ AreCalls(calls, made) /\ IsArt(art)
  /\ IsCatalog(catalog) /\ IsDialog(dialog) /\ IsMaker(maker, DOMAIN art)

Awaited == {"upscaling", "generating", "generatingInvariants", "saving"}

(* Each page waits for the one request it has sent; of the dialog's requests  *)
(* only a save keeps it from being closed.                                    *)
Waiting(S) ==
  /\ Waits(S, "catalog", catalog.busy) /\ Waits(S, "maker", maker.busy)
  /\ Waits(S, "dialog", dialog.phase \in Awaited)
  /\ \A c \in From(S, "catalog") : c.kind = "transform"
  /\ \A c \in From(S, "maker") : c.kind \in {"generate", "publish"}
  /\ \A c \in From(S, "dialog") :
       c.kind \in {"upscale", "invariants", "primary", "masks"} /\ (c.kind = "masks" => dialog.saving = TRUE)

(* The dialog and a tool are not open at once, and only a tool is busy.       *)
Covered ==
  /\ Open => catalog.open = TRUE /\ catalog.tool = None
  /\ catalog.busy = TRUE => catalog.tool # None

PageInv == Shaped /\ Waiting(calls) /\ Covered

-----------------------------------------------------------------------------
(* Requests.                                                                  *)

Pages == {"catalog", "dialog", "maker"}

LEMMA Swapped ==
  ASSUME NEW S, NEW c \in S, NEW d, d.from = c.from, NEW p, NEW b
  PROVE  Waits(S, p, b) => Waits((S \ {c}) \cup {d}, p, b)
<1>1. CASE c.from = p
  <2>1. c \in From(S, p)
    BY <1>1 DEF From
  <2>2. ASSUME NEW e, From(S, p) = {e} PROVE From((S \ {c}) \cup {d}, p) = {d}
    BY <1>1, <2>1, <2>2 DEF From
  <2> QED BY <2>1, <2>2 DEF Waits
<1>2. CASE c.from # p
  <2>1. From((S \ {c}) \cup {d}, p) = From(S, p)
    BY <1>2 DEF From
  <2> QED BY <2>1 DEF Waits
<1> QED BY <1>1, <1>2

LEMMA Dropped ==
  ASSUME NEW S, NEW c \in S, NEW p, NEW T, From(T, p) = From(S, p) \ {c}
  PROVE  /\ c.from # p => From(T, p) = From(S, p)
         /\ \A b : c.from = p /\ Waits(S, p, b) => b /\ From(T, p) = {}
BY DEF From, Waits

LEMMA Asked ==
  ASSUME NEW S, NEW d, NEW p
  PROVE  /\ d.from # p => From(S \cup {d}, p) = From(S, p)
         /\ d.from = p /\ From(S, p) = {} => From(S \cup {d}, p) = {d}
BY DEF From

LEMMA CallIs ==
  ASSUME NEW kind, NEW e, NEW from, NEW arg
  PROVE  LET c == Call(kind, e, from, arg) IN
         /\ IsCall(c) /\ c.n = made + 1 /\ c.kind = kind /\ c.for = e /\ c.from = from /\ c.arg = arg
         /\ c.at = "asked" /\ c.set = <<>>
BY DEF Call, IsCall, CallFields

LEMMA CallsSwapped ==
  ASSUME NEW S, NEW m \in Nat, AreCalls(S, m), NEW c \in S, NEW d, IsCall(d), d.n = c.n, d.for = c.for,
         InPlace(d)
  PROVE  AreCalls((S \ {c}) \cup {d}, m)
BY DEF AreCalls

LEMMA CallsAsked ==
  ASSUME Shaped, NEW S, AreCalls(S, made), NEW kind, NEW e \in Entities, NEW from, NEW arg
  PROVE  AreCalls(S \cup {Call(kind, e, from, arg)}, made + 1)
<1>1. PICK c : c = Call(kind, e, from, arg)
  OBVIOUS
<1>2. IsCall(c) /\ c.for \in Entities /\ c.n = made + 1 /\ InPlace(c)
  BY <1>1, CallIs DEF InPlace
<1>3. made \in Nat
  BY DEF Shaped
<1>4. \A d \in S : d.n \in 1..made /\ d.n \in 1..(made + 1) /\ d.n # c.n
  BY <1>2, <1>3 DEF AreCalls
<1>5. c.n \in 1..(made + 1)
  BY <1>2, <1>3
<1>6. AreCalls(S \cup {c}, made + 1)
  BY <1>2, <1>4, <1>5 DEF AreCalls
<1> QED BY <1>1, <1>6

LEMMA FewerCalls ==
  ASSUME NEW S, NEW m, AreCalls(S, m), NEW T, T \subseteq S PROVE AreCalls(T, m)
BY DEF AreCalls

(* Calls whose page has been left.                                            *)
LEMMA WithoutIs ==
  ASSUME NEW m \in Nat, AreCalls(calls, m), NEW left, left \subseteq calls
  PROVE  /\ AreCalls(Without(left), m)
         /\ \A p \in Pages : From(Without(left), p) = From(calls, p) \ left
         /\ \A d \in Without(left) : d \in calls \/ (d.from = "nobody" /\ \E c \in left : d.kind = c.kind)
<1> DEFINE Nobodys(c) == [c EXCEPT !.from = "nobody"]
<1>1. \A c \in left : LET d == Nobodys(c) IN
        /\ IsCall(d) /\ d.n = c.n /\ d.for = c.for /\ d.from = "nobody" /\ d.at = c.at /\ d.todo = c.todo /\ d.kind = c.kind
  BY DEF AreCalls, IsCall, CallFields
<1>2. PICK gone : gone = {Nobodys(c) : c \in {d \in left : d.at \notin {"done", "failed"}}}
  OBVIOUS
<1>3. Without(left) = (calls \ left) \cup gone
  BY <1>2 DEF Without
<1> HIDE DEF Nobodys
<1>4. \A d \in gone : \E c \in left : d = Nobodys(c) /\ IsCall(d) /\ d.n = c.n /\ d.for = c.for
                                      /\ d.from = "nobody" /\ d.at = c.at /\ d.todo = c.todo /\ d.kind = c.kind
  BY <1>1, <1>2
<1>5. AreCalls((calls \ left) \cup gone, m)
  <2>1. \A d \in gone : IsCall(d) /\ d.for \in Entities /\ d.n \in 1..m /\ InPlace(d)
    BY <1>4 DEF AreCalls, InPlace
  <2>2. \A d, e \in gone : d.n = e.n => d = e
    BY <1>4 DEF AreCalls
  <2>3. \A d \in gone, e \in calls \ left : d.n # e.n
    BY <1>4 DEF AreCalls
  <2> QED BY <2>1, <2>2, <2>3 DEF AreCalls
<1>6. \A p \in Pages : From((calls \ left) \cup gone, p) = From(calls, p) \ left
  BY <1>4 DEF From, Pages
<1> QED BY <1>3, <1>4, <1>5, <1>6

(* What hearing of a request does to the requests.                            *)
LEMMA HearsIs ==
  ASSUME Shaped, NEW c \in calls, NEW ok, Hears(c, ok)
  PROVE  /\ AreCalls(calls', made)
         /\ \A p \in Pages : From(calls', p) = From(calls, p) \ {c}
         /\ \A d \in calls' : d \in calls \/ d.from = "nobody"
         /\ trouble \subseteq trouble'
<1>1. CASE calls' = calls \ {c} /\ UNCHANGED trouble
  <2>1. AreCalls(calls', made)
    BY <1>1, FewerCalls DEF Shaped
  <2> QED BY <1>1, <2>1 DEF From
<1>2. CASE calls' = Without({c}) /\ trouble \subseteq trouble'
  <2>1. {c} \subseteq calls
    OBVIOUS
  <2>2. made \in Nat /\ AreCalls(calls, made)
    BY DEF Shaped
  <2>3. /\ AreCalls(Without({c}), made)
        /\ \A p \in Pages : From(Without({c}), p) = From(calls, p) \ {c}
        /\ \A d \in Without({c}) : d \in calls \/ d.from = "nobody"
    BY <2>1, <2>2, WithoutIs
  <2> QED BY <1>2, <2>3
<1> QED BY <1>1, <1>2 DEF Hears, Trouble

-----------------------------------------------------------------------------
(* What the server does with a request: it stays whose it was, and takes its  *)
(* turn in the lane or not.                                                   *)

Turns(c, d) ==
  /\ IsCall(d) /\ InPlace(d)
  /\ d.n = c.n /\ d.for = c.for /\ d.from = c.from /\ d.kind = c.kind /\ d.arg = c.arg

Turned(c, d) == calls' = (calls \ {c}) \cup {d} \/ (c.from = "nobody" /\ calls' = calls \ {c})

LaneStep(c, d) ==
  \/ c.at # "lane" /\ d.at # "lane" /\ UNCHANGED <<files, lane, stray>>
  \/ /\ c.at # "lane" /\ d.at = "lane" /\ lane' = Append(lane, c.n) /\ UNCHANGED <<files, stray>>
     /\ d.todo = DOMAIN d.set /\ DOMAIN d.set \subseteq Parts
  \/ /\ c.at = "lane" /\ MyTurn(c) /\ UNCHANGED <<lane, stray>>
     /\ d.at = "lane" /\ d.set = c.set
     /\ \E p \in c.todo : d.todo = c.todo \ {p} /\ files' = [files EXCEPT ![c.for][p] = c.set[p]]
  \/ /\ c.at = "lane" /\ MyTurn(c) /\ d.at # "lane" /\ lane' = Tail(lane) /\ UNCHANGED files
     /\ UNCHANGED stray \/ "write" \in trouble'

Saved(c, set) ==
  LET m == masks[c.arg.req] IN
    m.primary # None /\ set["primary"].of = <<m.primary.n, 0>> /\ set["invariants"].of = <<m.invariants.n, 0>>

MasksStep(c, d) ==
  \/ /\ masks' = masks /\ c.kind \notin {"upscale", "invariants", "primary"}
     /\ c.kind = "masks" => d.set \in {c.set, <<>>} \/ Saved(c, d.set)
  \/ masks' = masks /\ d.at = "failed" /\ d.set = <<>>
  \/ c.kind = "upscale" /\ d.at = "model" /\ \E p : masks' = Put(masks, c.n, Candidate(p))
  \/ c.kind = "upscale" /\ c.at = "model" /\ d.at = "done" /\ masks' = [masks EXCEPT ![c.n].gray = TRUE]
  \/ /\ c.kind \in {"invariants", "primary"} /\ masks' = masks /\ d.at = "model"
     /\ d.had = masks[c.arg.req].invariants
  \/ /\ c.kind = "invariants" /\ c.at = "model" /\ d.at = "done"
     /\ masks' = [masks EXCEPT ![c.arg.req].invariants = [n |-> c.n, empty |-> c.arg.skip]]
  \/ /\ c.kind = "primary" /\ c.at = "model" /\ d.at = "done"
     /\ masks' = [masks EXCEPT ![c.arg.req].primary = [n |-> c.n, cut |-> c.had.n]]

ServerStep(c, d) ==
  Turns(c, d) /\ Turned(c, d) /\ LaneStep(c, d) /\ MasksStep(c, d)

LEMMA EndsIs ==
  ASSUME NEW c, IsCall(c), NEW at \in {"done", "failed"}, Ends(c, at)
  PROVE  \E d : Turns(c, d) /\ Turned(c, d) /\ d.at = at /\ d.set = <<>>
<1>1. PICK d : d = [c EXCEPT !.at = at, !.set = <<>>, !.todo = {}, !.had = None]
  OBVIOUS
<1>2. Turns(c, d) /\ d.at = at /\ d.set = <<>>
  BY <1>1 DEF IsCall, CallFields, Turns, InPlace
<1>3. calls' = (calls \ {c}) \cup (IF c.from = "nobody" THEN {} ELSE {d})
  BY <1>1 DEF Ends
<1>4. Turned(c, d)
  BY <1>3 DEF Turned
<1> QED BY <1>2, <1>4

LEMMA EnqueueIs ==
  ASSUME NEW c, IsCall(c), c.at # "lane", c.kind \in {"upload", "publish", "transform", "masks"}, NEW set,
         DOMAIN set \subseteq Parts, Enqueue(c, set), UNCHANGED <<files, stray>>
  PROVE  \E d : Turns(c, d) /\ Turned(c, d) /\ LaneStep(c, d) /\ d.set = set
<1>1. PICK t : t = DOMAIN set
  OBVIOUS
<1>2. PICK d : d = [c EXCEPT !.at = "lane", !.set = set, !.todo = t]
  OBVIOUS
<1>3. Turns(c, d) /\ d.at = "lane" /\ d.set = set /\ d.todo = DOMAIN d.set
  BY <1>1, <1>2 DEF IsCall, CallFields, Turns, InPlace
<1>4. calls' = (calls \ {c}) \cup {d} /\ lane' = Append(lane, c.n)
  BY <1>1, <1>2 DEF Enqueue, Becomes
<1>5. Turned(c, d) /\ LaneStep(c, d)
  BY <1>3, <1>4 DEF Turned, LaneStep
<1> QED BY <1>3, <1>5

(* A request that fails outside the lane.                                     *)
LEMMA FailsIs ==
  ASSUME NEW c, IsCall(c), c.at # "lane", Fails(c), UNCHANGED <<files, masks, lane, stray>>
  PROVE  \E d : ServerStep(c, d)
<1>1. PICK d : Turns(c, d) /\ Turned(c, d) /\ d.at = "failed" /\ d.set = <<>>
  BY EndsIs DEF Fails
<1>2. LaneStep(c, d) /\ MasksStep(c, d)
  BY <1>1 DEF LaneStep, MasksStep
<1> QED BY <1>1, <1>2 DEF ServerStep

LEMMA WritesSteps ==
  ASSUME NEW c, IsCall(c), InPlace(c), NEW p
  PROVE  Write(c, p) \/ WriteFails(c, p) \/ Stage(c) => \E d : ServerStep(c, d)
<1>1. CASE Write(c, p)
  <2>1. PICK t : t = c.todo \ {p}
    OBVIOUS
  <2>2. PICK d : d = [c EXCEPT !.todo = t]
    OBVIOUS
  <2>3. c.at = "lane" /\ Turns(c, d) /\ d.at = "lane" /\ d.set = c.set /\ d.todo = c.todo \ {p}
    BY <1>1, <2>1, <2>2 DEF IsCall, CallFields, Turns, InPlace, Write
  <2>4. calls' = (calls \ {c}) \cup {d}
    BY <1>1, <2>1, <2>2 DEF Write, Becomes
  <2>5. LaneStep(c, d)
    BY <1>1, <2>3 DEF Write, LaneStep
  <2>6. MasksStep(c, d) /\ Turned(c, d)
    BY <1>1, <2>3, <2>4 DEF Write, MasksStep, InPlace, Turned
  <2> QED BY <2>3, <2>5, <2>6 DEF ServerStep
<1>2. CASE WriteFails(c, p)
  <2>1. PICK d : Turns(c, d) /\ Turned(c, d) /\ d.at = "failed" /\ d.set = <<>>
    BY <1>2, EndsIs DEF WriteFails, Fails
  <2>2. LaneStep(c, d) /\ MasksStep(c, d)
    BY <1>2, <2>1 DEF WriteFails, Trouble, LaneStep, MasksStep
  <2> QED BY <2>1, <2>2 DEF ServerStep
<1>3. CASE Stage(c)
  <2>1. PICK d : Turns(c, d) /\ Turned(c, d) /\ d.at = "done" /\ d.set = <<>>
    BY <1>3, EndsIs DEF Stage
  <2>2. LaneStep(c, d) /\ MasksStep(c, d)
    BY <1>3, <2>1 DEF Stage, LaneStep, MasksStep, InPlace
  <2> QED BY <2>1, <2>2 DEF ServerStep
<1> QED BY <1>1, <1>2, <1>3

LEMMA ReadsSteps ==
  ASSUME NEW c, IsCall(c),
         UploadReads(c) \/ PublishReads(c) \/ TransformReads(c) \/ TransformReadsCompanions(c) \/ MasksRead(c)
  PROVE  \E d : ServerStep(c, d)
<1>1. CASE UploadReads(c)
  <2>1. PICK set : Enqueue(c, set) /\ DOMAIN set = {"idle"}
    BY <1>1 DEF UploadReads
  <2>2. PICK d : Turns(c, d) /\ Turned(c, d) /\ LaneStep(c, d)
    BY <1>1, <2>1, EnqueueIs DEF UploadReads, Parts
  <2>3. MasksStep(c, d)
    BY <1>1 DEF UploadReads, MasksStep
  <2> QED BY <2>2, <2>3 DEF ServerStep
<1>2. CASE PublishReads(c)
  <2>1. CASE Fails(c) /\ UNCHANGED lane
    BY <1>2, <2>1, FailsIs DEF PublishReads
  <2>2. CASE \E set : Enqueue(c, set) /\ DOMAIN set = {"idle"}
    <3>1. PICK set : Enqueue(c, set) /\ DOMAIN set = {"idle"}
      BY <2>2
    <3>2. PICK d : Turns(c, d) /\ Turned(c, d) /\ LaneStep(c, d)
      BY <1>2, <3>1, EnqueueIs DEF PublishReads, Parts
    <3>3. MasksStep(c, d)
      BY <1>2 DEF PublishReads, MasksStep
    <3> QED BY <3>2, <3>3 DEF ServerStep
  <2>3. (Fails(c) /\ UNCHANGED lane) \/ \E set : Enqueue(c, set) /\ DOMAIN set = {"idle"}
    <3> DEFINE whole == Picture(c.arg.req, c.arg.i)
               sized == IF c.arg.size = "small" THEN Resized(whole) ELSE whole
               set == [p \in {"idle"} |-> IF c.arg.front = "right" THEN sized ELSE Oriented(sized)]
    <3>1. (Fails(c) /\ UNCHANGED lane) \/ Enqueue(c, set)
      BY <1>2 DEF PublishReads
    <3>2. DOMAIN set = {"idle"}
      OBVIOUS
    <3> HIDE DEF set
    <3> QED BY <3>1, <3>2
  <2> QED BY <2>1, <2>2, <2>3
<1>3. CASE TransformReads(c)
  <2>1. CASE Fails(c)
    BY <1>3, <2>1, FailsIs DEF TransformReads, server
  <2>2. CASE \E p : Becomes(c, [c EXCEPT !.at = "reads", !.had = p])
    <3>1. PICK p : Becomes(c, [c EXCEPT !.at = "reads", !.had = p])
      BY <2>2
    <3>2. PICK d : d = [c EXCEPT !.at = "reads", !.had = p]
      OBVIOUS
    <3>3. Turns(c, d) /\ d.at = "reads"
      BY <3>2 DEF IsCall, CallFields, Turns, InPlace
    <3>4. LaneStep(c, d) /\ MasksStep(c, d) /\ Turned(c, d)
      BY <1>3, <3>1, <3>2, <3>3 DEF TransformReads, server, Becomes, LaneStep, MasksStep, Turned
    <3> QED BY <3>3, <3>4 DEF ServerStep
  <2> QED BY <1>3, <2>1, <2>2 DEF TransformReads
<1>4. CASE TransformReadsCompanions(c)
  <2>1. CASE Fails(c) /\ UNCHANGED lane
    BY <1>4, <2>1, FailsIs DEF TransformReadsCompanions
  <2>2. CASE \E set : Enqueue(c, set) /\ DOMAIN set \subseteq Parts
    <3>1. PICK set : Enqueue(c, set) /\ DOMAIN set \subseteq Parts
      BY <2>2
    <3>2. PICK d : Turns(c, d) /\ Turned(c, d) /\ LaneStep(c, d)
      BY <1>4, <3>1, EnqueueIs DEF TransformReadsCompanions
    <3>3. MasksStep(c, d)
      BY <1>4 DEF TransformReadsCompanions, MasksStep
    <3> QED BY <3>2, <3>3 DEF ServerStep
  <2>3. (Fails(c) /\ UNCHANGED lane) \/ \E set : Enqueue(c, set) /\ DOMAIN set \subseteq Parts
    <3> DEFINE set == [p \in Present(c.for) \cup {"idle"} |->
                         Transformed(IF p = "idle" THEN c.had ELSE files[c.for][p], c.arg)]
    <3>1. (Fails(c) /\ UNCHANGED lane) \/ Enqueue(c, set)
      BY <1>4 DEF TransformReadsCompanions
    <3>2. DOMAIN set \subseteq Parts
      BY DEF Present, Parts
    <3> HIDE DEF set
    <3> QED BY <3>1, <3>2
  <2> QED BY <2>1, <2>2, <2>3
<1>5. CASE MasksRead(c)
  <2>1. CASE Fails(c) /\ UNCHANGED lane
    BY <1>5, <2>1, FailsIs DEF MasksRead
  <2>2. CASE \E set : Enqueue(c, set) /\ DOMAIN set = Companions /\ Saved(c, set)
    <3>1. PICK set : Enqueue(c, set) /\ DOMAIN set = Companions /\ Saved(c, set)
      BY <2>2
    <3>2. PICK d : Turns(c, d) /\ Turned(c, d) /\ LaneStep(c, d) /\ d.set = set
      BY <1>5, <3>1, EnqueueIs DEF MasksRead, Parts
    <3>3. MasksStep(c, d)
      BY <1>5, <3>1, <3>2 DEF MasksRead, MasksStep
    <3> QED BY <3>2, <3>3 DEF ServerStep
  <2>3. (Fails(c) /\ UNCHANGED lane) \/ \E set : Enqueue(c, set) /\ DOMAIN set = Companions /\ Saved(c, set)
    <3> DEFINE m == masks[c.arg.req]
               On(n) == [of |-> <<n, 0>>, size |-> m.src.size, turn |-> m.src.turn]
               set == [p \in Companions |-> IF p = "primary" THEN On(m.primary.n) ELSE On(m.invariants.n)]
    <3>1. (Fails(c) /\ UNCHANGED lane) \/ (m.primary # None /\ Enqueue(c, set))
      BY <1>5 DEF MasksRead
    <3>2. DOMAIN set = Companions /\ set["primary"].of = <<m.primary.n, 0>> /\ set["invariants"].of = <<m.invariants.n, 0>>
      BY DEF Companions
    <3>3. m.primary # None => Saved(c, set)
      BY <3>2 DEF Saved
    <3> HIDE DEF set
    <3> QED BY <3>1, <3>2, <3>3
  <2> QED BY <2>1, <2>2, <2>3
<1> QED BY <1>1, <1>2, <1>3, <1>4, <1>5

LEMMA ModelSteps ==
  ASSUME NEW c, IsCall(c),
         UpscaleReads(c) \/ Upscaled(c) \/ GenerateReads(c) \/ Generated(c) \/ ModelFails(c)
  PROVE  \E d : ServerStep(c, d)
<1>1. CASE UpscaleReads(c)
  <2>1. CASE Fails(c) /\ UNCHANGED masks
    BY <1>1, <2>1, FailsIs DEF UpscaleReads
  <2>2. CASE /\ Becomes(c, [c EXCEPT !.at = "model"])
             /\ \E p : masks' = Put(masks, c.n, Candidate(p))
    <3>1. PICK d : d = [c EXCEPT !.at = "model"]
      OBVIOUS
    <3>2. Turns(c, d) /\ d.at = "model"
      BY <3>1 DEF IsCall, CallFields, Turns, InPlace
    <3>3. LaneStep(c, d) /\ MasksStep(c, d) /\ Turned(c, d)
      BY <1>1, <2>2, <3>1, <3>2 DEF UpscaleReads, Becomes, LaneStep, MasksStep, Turned
    <3> QED BY <3>2, <3>3 DEF ServerStep
  <2> QED BY <1>1, <2>1, <2>2 DEF UpscaleReads
<1>2. CASE Upscaled(c)
  <2>1. PICK d : Turns(c, d) /\ Turned(c, d) /\ d.at = "done"
    BY <1>2, EndsIs DEF Upscaled
  <2>2. LaneStep(c, d) /\ MasksStep(c, d)
    BY <1>2, <2>1 DEF Upscaled, LaneStep, MasksStep
  <2> QED BY <2>1, <2>2 DEF ServerStep
<1>3. CASE GenerateReads(c)
  <2>1. CASE Fails(c)
    BY <1>3, <2>1, FailsIs DEF GenerateReads, server
  <2>2. CASE Becomes(c, [c EXCEPT !.at = "model", !.had = masks[c.arg.req].invariants])
    <3>1. PICK h : h = masks[c.arg.req].invariants
      OBVIOUS
    <3>2. PICK d : d = [c EXCEPT !.at = "model", !.had = h]
      OBVIOUS
    <3>3. Turns(c, d) /\ d.at = "model" /\ d.had = h
      BY <3>2 DEF IsCall, CallFields, Turns, InPlace
    <3>4. LaneStep(c, d) /\ MasksStep(c, d) /\ Turned(c, d)
      BY <1>3, <2>2, <3>1, <3>2, <3>3 DEF GenerateReads, server, Becomes, LaneStep, MasksStep, Turned
    <3> QED BY <3>3, <3>4 DEF ServerStep
  <2> QED BY <1>3, <2>1, <2>2 DEF GenerateReads
<1>4. CASE Generated(c)
  <2>1. PICK d : Turns(c, d) /\ Turned(c, d) /\ d.at = "done"
    BY <1>4, EndsIs DEF Generated
  <2>2. LaneStep(c, d) /\ MasksStep(c, d)
    BY <1>4, <2>1 DEF Generated, LaneStep, MasksStep
  <2> QED BY <2>1, <2>2 DEF ServerStep
<1>5. CASE ModelFails(c)
  BY <1>5, FailsIs DEF ModelFails, server
<1> QED BY <1>1, <1>2, <1>3, <1>4, <1>5

LEMMA DrawSteps ==
  ASSUME NEW c, IsCall(c), InPlace(c), NEW p, DrawBegins(c) \/ Drawn(c) \/ Store(c, p) \/ StoreFails(c, p)
  PROVE  \E d : ServerStep(c, d)
<1> USE DEF ServerStep, LaneStep, MasksStep, Turned
<1>1. CASE DrawBegins(c)
  <2>1. PICK d : d = [c EXCEPT !.at = "model"]
    OBVIOUS
  <2>2. Turns(c, d) /\ d.at = "model"
    BY <2>1 DEF IsCall, CallFields, Turns, InPlace
  <2> QED BY <1>1, <2>1, <2>2 DEF DrawBegins, Becomes
<1>2. CASE Drawn(c)
  <2>1. PICK d : d = [c EXCEPT !.at = "storing", !.todo = {"listed", "stored"}]
    OBVIOUS
  <2>2. Turns(c, d) /\ d.at = "storing"
    BY <1>2, <2>1 DEF IsCall, CallFields, Turns, InPlace, Drawn
  <2> QED BY <1>2, <2>1, <2>2 DEF Drawn, Becomes, server
<1>3. CASE Store(c, p)
  <2>1. PICK t : t = c.todo \ {p}
    OBVIOUS
  <2>2. c.kind = "generate" /\ t \subseteq {"listed", "stored"}
    BY <1>3, <2>1 DEF Store, InPlace
  <2>3. CASE Becomes(c, [c EXCEPT !.todo = t])
    <3>1. PICK d : d = [c EXCEPT !.todo = t]
      OBVIOUS
    <3>2. Turns(c, d) /\ d.at = "storing"
      BY <1>3, <2>2, <3>1 DEF IsCall, CallFields, Turns, InPlace, Store
    <3> QED BY <1>3, <2>2, <2>3, <3>1, <3>2 DEF Store, Becomes
  <2>4. CASE Becomes(c, [c EXCEPT !.todo = {}, !.at = "model"])
    <3>1. PICK d : d = [c EXCEPT !.todo = {}, !.at = "model"]
      OBVIOUS
    <3>2. Turns(c, d) /\ d.at = "model"
      BY <3>1 DEF IsCall, CallFields, Turns, InPlace
    <3> QED BY <1>3, <2>2, <2>4, <3>1, <3>2 DEF Store, Becomes
  <2>5. CASE Ends(c, "done")
    <3>1. PICK d : Turns(c, d) /\ Turned(c, d) /\ d.at = "done"
      BY <2>5, EndsIs
    <3> QED BY <1>3, <2>2, <3>1 DEF Store
  <2> QED BY <1>3, <2>1, <2>3, <2>4, <2>5 DEF Store
<1>4. CASE StoreFails(c, p)
  <2>1. c.at # "lane" /\ UNCHANGED <<files, masks, lane, stray>> /\ Fails(c)
    BY <1>4 DEF StoreFails
  <2> QED BY <2>1, FailsIs
<1> QED BY <1>1, <1>2, <1>3, <1>4

LEMMA ServerSteps ==
  ASSUME Shaped, NEW c \in calls, Server(c)
  PROVE  (\E d : ServerStep(c, d)) /\ UNCHANGED <<pages, made>> /\ trouble \subseteq trouble'
<1>1. IsCall(c) /\ InPlace(c)
  BY DEF Shaped, AreCalls
<1>2. \E d : ServerStep(c, d)
  BY <1>1, WritesSteps, ReadsSteps, ModelSteps, DrawSteps DEF Server
<1>3. UNCHANGED <<pages, made>> /\ trouble \subseteq trouble'
  BY DEF Server, Write, WriteFails, Stage, UploadReads, PublishReads, TransformReads, TransformReadsCompanions,
         MasksRead, UpscaleReads, Upscaled, GenerateReads, Generated, ModelFails, DrawBegins, Drawn, Store,
         StoreFails, Trouble
<1> QED BY <1>2, <1>3

(* Candidates that were begun stay, and whose they are.                       *)
LEMMA ArtStays ==
  ASSUME Shaped, NEW c \in calls, Server(c)
  PROVE  IsArt(art') /\ DOMAIN art \subseteq DOMAIN art'
<1>1. IsArt(art) /\ c.for \in Entities /\ InPlace(c)
  BY DEF Shaped, AreCalls
<1>2. CASE DrawBegins(c)
  <2>1. PICK x : x = [for |-> c.for, listed |-> 0, stored |-> 0]
    OBVIOUS
  <2>2. art' = Put(art, c.n, x)
    BY <1>2, <2>1 DEF DrawBegins
  <2>3. x = [f \in {"for", "listed", "stored"} |-> x[f]] /\ x.for \in Entities
    BY <1>1, <2>1
  <2> QED BY <1>1, <2>2, <2>3 DEF Put, IsArt
<1>3. ASSUME NEW p \in {"listed", "stored"}, Store(c, p)
      PROVE  IsArt(art') /\ DOMAIN art \subseteq DOMAIN art'
  <2>1. PICK v : v = art[c.n][p] + 1
    OBVIOUS
  <2>2. PICK r : r = [art[c.n] EXCEPT ![p] = v]
    OBVIOUS
  <2>3. art' = [art EXCEPT ![c.n] = r]
    BY <1>3, <2>1, <2>2 DEF Store
  <2>4. c.n \in DOMAIN art => r = [f \in {"for", "listed", "stored"} |-> r[f]] /\ r.for \in Entities
    BY <1>1, <2>2 DEF IsArt
  <2> QED BY <1>1, <2>3, <2>4 DEF IsArt
<1>4. ASSUME NEW p, StoreFails(c, p)
      PROVE  IsArt(art') /\ DOMAIN art \subseteq DOMAIN art'
  <2>1. PICK rest \in SUBSET (c.todo \ {p}) :
          art' = [art EXCEPT ![c.n] = [q \in DOMAIN art[c.n] |-> IF q \in rest THEN art[c.n][q] + 1 ELSE art[c.n][q]]]
    BY <1>4 DEF StoreFails
  <2>2. "for" \notin rest
    BY <1>1, <1>4 DEF StoreFails, InPlace
  <2>3. PICK r : r = [q \in DOMAIN art[c.n] |-> IF q \in rest THEN art[c.n][q] + 1 ELSE art[c.n][q]]
    OBVIOUS
  <2>4. art' = [art EXCEPT ![c.n] = r]
    BY <2>1, <2>3
  <2>5. c.n \in DOMAIN art => r = [f \in {"for", "listed", "stored"} |-> r[f]] /\ r.for \in Entities
    BY <1>1, <2>2, <2>3 DEF IsArt
  <2> QED BY <1>1, <2>4, <2>5 DEF IsArt
<1>5. CASE UNCHANGED art
  BY <1>1, <1>5
<1> QED
  BY <1>2, <1>3, <1>4, <1>5
  DEF Server, Write, WriteFails, Stage, UploadReads, PublishReads, TransformReads, TransformReadsCompanions,
      MasksRead, UpscaleReads, Upscaled, GenerateReads, Generated, ModelFails, Drawn, server

-----------------------------------------------------------------------------
(* Each page waits for what it sent: step by step.                            *)

LEMMA MoreArt ==
  ASSUME NEW x, NEW N, NEW M, N \subseteq M PROVE IsMaker(x, N) => IsMaker(x, M)
BY DEF IsMaker, IsGen, IsReview

LEMMA ListedIs ==
  ASSUME NEW e \in Entities
  PROVE  IsCatalog(Listed(e)) /\ Listed(e).busy = FALSE /\ Listed(e).open = TRUE /\ Listed(e).tool = None
<1>1. PICK large : large = {d \in Entities : files[d]["idle"].size = "large"}
  OBVIOUS
<1>2. PICK x : x = [open |-> TRUE, sprite |-> e, large |-> large, tool |-> None, chosen |-> FALSE, busy |-> FALSE]
  OBVIOUS
<1>3. Listed(e) = x
  BY <1>1, <1>2 DEF Listed
<1>4. x = [f \in {"open", "sprite", "large", "tool", "chosen", "busy"} |-> x[f]]
  BY <1>2
<1>5. x.busy = FALSE /\ x.open = TRUE /\ x.tool = None /\ x.sprite = e
  BY <1>2
<1>6. IsCatalog(x)
  BY <1>4, <1>5 DEF IsCatalog
<1> QED BY <1>3, <1>5, <1>6

LEMMA NewPageIs ==
  ASSUME NEW e \in Entities, NEW N PROVE IsMaker(NewPage(e), N) /\ NewPage(e).busy = FALSE
<1>1. PICK x : x = NewPage(e)
  OBVIOUS
<1>2. /\ x = [f \in {"open", "entity", "gen", "history", "review", "busy", "asks"} |-> x[f]]
      /\ x.busy = FALSE /\ x.open = TRUE /\ x.entity = e /\ x.history = {} /\ x.gen = None /\ x.review = None
  BY <1>1 DEF NewPage
<1>3. IsMaker(x, N)
  BY <1>2 DEF IsMaker
<1> QED BY <1>1, <1>2, <1>3

LEMMA PageInit == Init => PageInv
<1> SUFFICES ASSUME Init PROVE PageInv
  OBVIOUS
<1>1. AreCalls(calls, made) /\ made \in Nat /\ IsArt(art) /\ \A p : From(calls, p) = {}
  BY DEF Init, AreCalls, IsArt, From
<1>2. PICK e \in Entities : (catalog = Listed(e) /\ maker = Shut) \/ (catalog = Shut /\ maker = NewPage(e))
  BY DEF Init
<1>s. IsCatalog(Shut) /\ IsMaker(Shut, DOMAIN art) /\ Shut.busy = FALSE
  BY DEF IsCatalog, IsMaker, Shut
<1>3. IsCatalog(catalog) /\ catalog.busy = FALSE
  <2>1. IsCatalog(Listed(e)) /\ Listed(e).busy = FALSE
    BY ListedIs
  <2> QED BY <1>2, <1>s, <2>1
<1>4. IsMaker(maker, DOMAIN art) /\ maker.busy = FALSE
  <2>1. IsMaker(NewPage(e), DOMAIN art) /\ NewPage(e).busy = FALSE
    BY NewPageIs
  <2> QED BY <1>2, <1>s, <2>1
<1>5. dialog = Closed /\ dialog.phase = "closed"
  BY DEF Init, Closed
<1> QED BY <1>1, <1>3, <1>4, <1>5 DEF PageInv, Shaped, IsDialog, Waiting, Waits, Awaited, Covered, Open

LEMMA PageServer == ASSUME PageInv, NEW c \in calls, Server(c) PROVE PageInv'
<1>1. Shaped /\ Waiting(calls) /\ Covered
  BY DEF PageInv
<1>2. PICK d : ServerStep(c, d)
  BY <1>1, ServerSteps
<1>3. UNCHANGED <<catalog, dialog, maker, made>>
  BY <1>1, ServerSteps DEF pages
<1>4. Turns(c, d) /\ Turned(c, d)
  BY <1>2 DEF ServerStep
<1>5. d.n = c.n /\ d.for = c.for /\ d.from = c.from /\ d.kind = c.kind /\ IsCall(d) /\ InPlace(d)
  BY <1>4 DEF Turns
<1>6. AreCalls(calls', made) /\ made \in Nat
  <2>1. made \in Nat /\ AreCalls(calls, made)
    BY <1>1 DEF Shaped
  <2>2. AreCalls((calls \ {c}) \cup {d}, made)
    BY <2>1, <1>5, CallsSwapped
  <2>3. AreCalls(calls \ {c}, made)
    BY <2>1, FewerCalls
  <2> QED BY <1>4, <2>1, <2>2, <2>3 DEF Turned
<1>7. Shaped'
  <2>1. IsArt(art') /\ DOMAIN art \subseteq DOMAIN art'
    BY <1>1, ArtStays
  <2>2. IsMaker(maker, DOMAIN art')
    BY <1>1, <2>1, MoreArt DEF Shaped
  <2>3. IsCatalog(catalog) /\ IsDialog(dialog)
    BY <1>1 DEF Shaped
  <2> QED BY <1>3, <1>6, <2>1, <2>2, <2>3 DEF Shaped
<1>8. \A p \in Pages : \A b : Waits(calls, p, b) => Waits(calls', p, b)
  <2>1. CASE calls' = (calls \ {c}) \cup {d}
    BY <1>5, <2>1, Swapped
  <2>2. CASE c.from = "nobody" /\ calls' = calls \ {c}
    <3>1. \A p \in Pages : From(calls', p) = From(calls, p)
      BY <2>2 DEF From, Pages
    <3> QED BY <3>1 DEF Waits
  <2> QED BY <1>4, <2>1, <2>2 DEF Turned
<1>9. \A e \in calls' : e \in calls \/ (c \in calls /\ e.from = c.from /\ e.kind = c.kind)
  BY <1>4, <1>5 DEF Turned
<1>10. Waiting(calls)'
  <2>1. Waits(calls', "catalog", catalog.busy) /\ Waits(calls', "maker", maker.busy) /\ Waits(calls', "dialog", dialog.phase \in Awaited)
    BY <1>1, <1>8 DEF Waiting, Pages
  <2>2. \A e \in From(calls', "catalog") : e.kind = "transform"
    BY <1>1, <1>9 DEF Waiting, From
  <2>3. \A e \in From(calls', "maker") : e.kind \in {"generate", "publish"}
    BY <1>1, <1>9 DEF Waiting, From
  <2>4. \A e \in From(calls', "dialog") :
          e.kind \in {"upscale", "invariants", "primary", "masks"} /\ (e.kind = "masks" => dialog.saving = TRUE)
    BY <1>1, <1>9 DEF Waiting, From
  <2> QED BY <1>3, <2>1, <2>2, <2>3, <2>4 DEF Waiting
<1> QED BY <1>1, <1>3, <1>7, <1>10 DEF PageInv, Covered, Open

(* A request is sent after those that are left.                               *)
LEMMA Sends ==
  ASSUME Shaped, NEW rest, AreCalls(rest, made), NEW kind, NEW e \in Entities, NEW from, NEW arg,
         AskAfter(rest, kind, e, from, arg)
  PROVE  /\ made' \in Nat /\ AreCalls(calls', made')
         /\ \A p : p # from => From(calls', p) = From(rest, p)
         /\ From(rest, from) = {} => \E d : From(calls', from) = {d} /\ d.kind = kind
<1>1. PICK c : c = Call(kind, e, from, arg)
  OBVIOUS
<1>2. c.kind = kind /\ c.from = from
  BY <1>1, CallIs
<1>3. calls' = rest \cup {c} /\ made' = made + 1
  BY <1>1 DEF AskAfter
<1>4. AreCalls(rest \cup {c}, made + 1)
  BY <1>1, CallsAsked
<1>5. made' \in Nat
  BY <1>3 DEF Shaped
<1>6. \A p : p # from => From(calls', p) = From(rest, p)
  BY <1>2, <1>3, Asked
<1>7. From(rest, from) = {} => From(calls', from) = {c}
  BY <1>2, <1>3 DEF From
<1>8. From(rest, from) = {} => \E d : From(calls', from) = {d} /\ d.kind = kind
  BY <1>2, <1>7
<1> QED BY <1>3, <1>4, <1>5, <1>6, <1>8

(* What is sent is Elsewhere's, or is waited for by its page.                 *)
LEMMA PageElsewhere ==
  ASSUME PageInv, NEW kind, NEW e \in Entities, Elsewhere(kind, e) PROVE PageInv'
<1>1. Shaped /\ Waiting(calls) /\ Covered
  BY DEF PageInv
<1>2. AreCalls(calls, made) /\ AskAfter(calls, kind, e, "nobody", "rotate")
  BY <1>1 DEF Shaped, Elsewhere, Ask
<1>3. made' \in Nat /\ AreCalls(calls', made') /\ \A p : p # "nobody" => From(calls', p) = From(calls, p)
  BY <1>1, <1>2, Sends
<1>4. UNCHANGED <<art, catalog, dialog, maker>>
  BY DEF Elsewhere, server, pages
<1>5. Shaped'
  BY <1>1, <1>3, <1>4 DEF Shaped
<1>6. Waiting(calls)'
  BY <1>1, <1>3, <1>4 DEF Waiting, Waits
<1> QED BY <1>1, <1>4, <1>5, <1>6 DEF PageInv, Covered, Open

LEMMA PageStray == ASSUME PageInv, NEW w, StrayLands(w) PROVE PageInv'
BY DEF PageInv, Shaped, Waiting, Covered, Open, StrayLands, pages

(* The catalog page.                                                          *)
LEMMA PageAtCatalog == ASSUME PageInv, AtCatalog PROVE PageInv'
<1>1. Shaped /\ Waiting(calls) /\ Covered /\ catalog.open
  BY DEF PageInv, AtCatalog
<1>2. catalog # Shut /\ catalog = [f \in {"open", "sprite", "large", "tool", "chosen", "busy"} |-> catalog[f]]
      /\ catalog.busy \in BOOLEAN /\ catalog.sprite \in Entities /\ catalog.open = TRUE
  BY <1>1 DEF Shaped, IsCatalog, Shut
<1>3. ASSUME UNCHANGED <<art, calls, made, dialog, maker>>, IsCatalog(catalog'), catalog'.open = TRUE,
             catalog'.busy = catalog.busy, catalog'.busy = TRUE => catalog'.tool # None,
             ~Open \/ catalog'.tool = catalog.tool
      PROVE  PageInv'
  <2>1. Shaped' /\ Waiting(calls)'
    BY <1>1, <1>3 DEF Shaped, Waiting
  <2>2. Covered'
    BY <1>1, <1>3 DEF Covered, Open
  <2> QED BY <2>1, <2>2 DEF PageInv
<1>4. ASSUME NEW e \in Entities, SelectSprite(e) PROVE PageInv'
  <2>1. catalog' = [catalog EXCEPT !.sprite = e]
    BY <1>4 DEF SelectSprite
  <2>2. /\ IsCatalog(catalog') /\ catalog'.open = TRUE /\ catalog'.busy = catalog.busy
        /\ catalog'.tool = catalog.tool
    BY <1>2, <2>1 DEF IsCatalog
  <2>3. UNCHANGED <<art, calls, made, dialog, maker>>
    BY <1>4 DEF SelectSprite, server
  <2> QED BY <1>1, <1>3, <2>2, <2>3 DEF Covered
<1>5. ASSUME NEW tool \in {"downsample", "rotate"}, OpenTool(tool) PROVE PageInv'
  <2>1. catalog' = [catalog EXCEPT !.tool = tool, !.chosen = FALSE]
    BY <1>5 DEF OpenTool
  <2>2. /\ IsCatalog(catalog') /\ catalog'.open = TRUE /\ catalog'.busy = catalog.busy
    BY <1>2, <2>1 DEF IsCatalog
  <2>3. UNCHANGED <<art, calls, made, dialog, maker>> /\ ~Open /\ catalog.busy # TRUE
    BY <1>1, <1>5 DEF OpenTool, server, Covered
  <2> QED BY <1>3, <2>2, <2>3
<1>6. CASE Choose
  <2>1. catalog' = [catalog EXCEPT !.chosen = TRUE]
    BY <1>6 DEF Choose
  <2>2. /\ IsCatalog(catalog') /\ catalog'.open = TRUE /\ catalog'.busy = catalog.busy
        /\ catalog'.tool = catalog.tool
    BY <1>2, <2>1 DEF IsCatalog
  <2>3. UNCHANGED <<art, calls, made, dialog, maker>>
    BY <1>6 DEF Choose, server
  <2> QED BY <1>1, <1>3, <2>2, <2>3 DEF Covered
<1>7. CASE CloseTool
  <2>1. catalog' = [catalog EXCEPT !.tool = None]
    BY <1>7 DEF CloseTool
  <2>2. /\ IsCatalog(catalog') /\ catalog'.open = TRUE /\ catalog'.busy = catalog.busy
    BY <1>2, <2>1 DEF IsCatalog
  <2>3. UNCHANGED <<art, calls, made, dialog, maker>> /\ ~Open /\ catalog.busy # TRUE
    BY <1>1, <1>7 DEF CloseTool, server, Covered
  <2> QED BY <1>3, <2>2, <2>3
<1>8. CASE SaveTransform
  <2>1. catalog' = [catalog EXCEPT !.busy = TRUE] /\ ~Open /\ catalog.tool # None /\ catalog.busy = FALSE
    BY <1>1, <1>2, <1>8 DEF SaveTransform, Covered
  <2>2. UNCHANGED <<art, dialog, maker>>
    BY <1>8 DEF SaveTransform, server
  <2>3. IsCatalog(catalog') /\ catalog'.busy = TRUE /\ catalog'.tool = catalog.tool
    BY <1>2, <2>1 DEF IsCatalog
  <2>4. PICK e, tool : e \in Entities /\ AskAfter(calls, "transform", e, "catalog", tool)
    BY <1>2, <1>8 DEF SaveTransform, Ask
  <2>5. From(calls, "catalog") = {}
    BY <1>1, <2>1 DEF Waiting, Waits
  <2>6. AreCalls(calls, made)
    BY <1>1 DEF Shaped
  <2>7. /\ made' \in Nat /\ AreCalls(calls', made')
        /\ \A p : p # "catalog" => From(calls', p) = From(calls, p)
        /\ \E d : From(calls', "catalog") = {d} /\ d.kind = "transform"
    BY <1>1, <2>4, <2>5, <2>6, Sends
  <2>8. Shaped'
    BY <1>1, <2>2, <2>3, <2>7 DEF Shaped
  <2>9. Waiting(calls)'
    BY <1>1, <2>2, <2>3, <2>7 DEF Waiting, Waits
  <2>10. Covered'
    BY <2>1, <2>2, <2>3 DEF Covered, Open
  <2> QED BY <2>8, <2>9, <2>10 DEF PageInv
<1>9. CASE OpenDialog
  <2>1. dialog' = Opened(catalog.sprite) /\ UNCHANGED <<art, calls, made, catalog, maker>>
        /\ catalog.tool = None /\ dialog = Closed
    BY <1>9 DEF OpenDialog, Shows, Dialog, server, Open
  <2>2. IsDialog(dialog') /\ dialog'.phase = "idle"
    BY <1>2, <2>1 DEF IsDialog, Opened
  <2>3. From(calls, "dialog") = {}
    BY <1>1, <2>1 DEF Waiting, Waits, Awaited, Closed
  <2>4. Shaped'
    BY <1>1, <2>1, <2>2 DEF Shaped
  <2>5. Waiting(calls)'
    BY <1>1, <2>1, <2>2, <2>3 DEF Waiting, Waits, Awaited
  <2>6. Covered'
    BY <1>1, <1>2, <2>1 DEF Covered
  <2> QED BY <2>4, <2>5, <2>6 DEF PageInv
<1> QED BY <1>4, <1>5, <1>6, <1>7, <1>8, <1>9 DEF AtCatalog

(* The mask dialog.                                                           *)
DialogFields == {"for", "phase", "include", "req", "inv", "primary", "upscaling", "making", "saving"}

LEMMA DialogIs == ASSUME Shaped, Open PROVE dialog = [f \in DialogFields |-> dialog[f]]
                                           /\ dialog.for \in Entities /\ dialog.phase # "closed"
BY DEF Shaped, IsDialog, Open, DialogFields

(* Making new masks, from the dialog as it is or once its sprite is enlarged. *)
LEMMA MakingIs ==
  ASSUME NEW x, x = [f \in DialogFields |-> x[f]]
  PROVE  LET d == Making(x) IN
         /\ d = [f \in DialogFields |-> d[f]] /\ d.for = x.for /\ d.req = x.req /\ d.include = x.include
         /\ d.inv = None /\ d.primary = None /\ d.saving = x.saving
         /\ d.phase \in {"generatingInvariants", "generating"}
<1>1. PICK ph : ph = IF x.include THEN "generatingInvariants" ELSE "generating"
  OBVIOUS
<1>2. PICK d : d = [x EXCEPT !.making = TRUE, !.inv = None, !.primary = None, !.upscaling = FALSE, !.phase = ph]
  OBVIOUS
<1>3. Making(x) = d
  BY <1>1, <1>2 DEF Making
<1>4. ph \in {"generatingInvariants", "generating"}
  BY <1>1
<1>5. /\ d = [f \in DialogFields |-> d[f]] /\ d.for = x.for /\ d.req = x.req /\ d.include = x.include
      /\ d.inv = None /\ d.primary = None /\ d.saving = x.saving /\ d.phase = ph
  BY <1>2 DEF DialogFields
<1> QED BY <1>3, <1>4, <1>5

(* A step that leaves the other pages alone, and what the dialog waits for.   *)
LEMMA PageDialog ==
  ASSUME PageInv, Open, UNCHANGED <<art, catalog, maker>>, made' \in Nat, AreCalls(calls', made'),
         dialog' = [f \in DialogFields |-> dialog'[f]], dialog'.for = dialog.for, dialog'.phase # "closed",
         \A p \in {"catalog", "maker"} : From(calls', p) = From(calls, p),
         Waits(calls', "dialog", dialog'.phase \in Awaited),
         \A c \in From(calls', "dialog") :
           c.kind \in {"upscale", "invariants", "primary", "masks"} /\ (c.kind = "masks" => dialog'.saving = TRUE)
  PROVE  PageInv'
<1>1. Shaped /\ Waiting(calls) /\ Covered /\ dialog.for \in Entities
  BY DialogIs DEF PageInv
<1>2. IsDialog(dialog')
  BY <1>1 DEF IsDialog, DialogFields
<1>3. Shaped'
  BY <1>1, <1>2 DEF Shaped
<1>4. Waiting(calls)'
  BY <1>1 DEF Waiting, Waits
<1>5. Covered'
  BY <1>1 DEF Covered
<1> QED BY <1>3, <1>4, <1>5 DEF PageInv

(* A page that is not busy waits for nothing.                                 *)
LEMMA NotAwaited ==
  ASSUME PageInv, dialog.phase \notin Awaited PROVE From(calls, "dialog") = {}
BY DEF PageInv, Waiting, Waits

LEMMA DialogSends ==
  ASSUME PageInv, Open, NEW rest, AreCalls(rest, made), From(rest, "dialog") = {},
         \A p \in {"catalog", "maker"} : From(rest, p) = From(calls, p),
         NEW kind \in {"upscale", "invariants", "primary", "masks"}, NEW arg,
         AskAfter(rest, kind, dialog.for, "dialog", arg),
         dialog' = [f \in DialogFields |-> dialog'[f]], dialog'.for = dialog.for, dialog'.phase \in Awaited,
         kind = "masks" => dialog'.saving = TRUE, UNCHANGED <<server, catalog, maker>>
  PROVE  PageInv'
<1>1. dialog.for \in Entities /\ Shaped
  BY DialogIs DEF PageInv
<1>2. PICK e \in Entities : e = dialog.for
  BY <1>1
<1>3. AskAfter(rest, kind, e, "dialog", arg)
  BY <1>2
<1>4. /\ made' \in Nat /\ AreCalls(calls', made')
      /\ \A p : p # "dialog" => From(calls', p) = From(rest, p)
      /\ \E d : From(calls', "dialog") = {d} /\ d.kind = kind
  BY <1>1, <1>3, Sends
<1>5. Waits(calls', "dialog", dialog'.phase \in Awaited) /\ dialog'.phase # "closed"
  BY <1>4 DEF Waits, Awaited
<1>6. \A c \in From(calls', "dialog") :
        c.kind \in {"upscale", "invariants", "primary", "masks"} /\ (c.kind = "masks" => dialog'.saving = TRUE)
  BY <1>4
<1> QED BY <1>4, <1>5, <1>6, PageDialog DEF server

LEMMA ForgottenIs ==
  ASSUME PageInv, Open, Forgets, \A c \in From(calls, "dialog") : c.kind # "masks"
  PROVE  /\ AreCalls(calls', made) /\ dialog' = Closed /\ UNCHANGED <<art, maker, made>>
         /\ \A p \in {"catalog", "maker"} : From(calls', p) = From(calls, p)
         /\ From(calls', "dialog") = {}
<1>1. Shaped /\ Waiting(calls)
  BY DEF PageInv
<1>2. /\ calls' = {c \in calls : c.kind \notin {"upscale", "invariants", "primary"}}
      /\ dialog' = Closed /\ UNCHANGED <<art, maker, made>>
  BY DEF Forgets
<1>3. AreCalls(calls', made)
  BY <1>1, <1>2, FewerCalls DEF Shaped
<1>4. From(calls', "dialog") = {}
  BY <1>1, <1>2 DEF Waiting, From
<1>5. \A p \in {"catalog", "maker"} : From(calls', p) = From(calls, p)
  BY <1>1, <1>2 DEF Waiting, From
<1> QED BY <1>2, <1>3, <1>4, <1>5

LEMMA PageAtDialog == ASSUME PageInv, AtDialog PROVE PageInv'
<1>1. Shaped /\ Waiting(calls) /\ Covered /\ AreCalls(calls, made)
  BY DEF PageInv, Shaped
<1>2. CASE StartGeneration
  <2>1. Open /\ dialog.phase \notin Awaited
    BY <1>2 DEF StartGeneration, Busy, Awaited
  <2>2. dialog' = [dialog EXCEPT !.upscaling = TRUE, !.phase = "upscaling", !.req = None, !.inv = None, !.primary = None]
        /\ UNCHANGED <<server, catalog, maker>>
        /\ AskAfter(calls, "upscale", dialog.for, "dialog", None)
    BY <1>2 DEF StartGeneration, Dialog, Ask
  <2>3. dialog' = [f \in DialogFields |-> dialog'[f]] /\ dialog'.for = dialog.for /\ dialog'.phase = "upscaling"
    BY <2>1, <2>2, <1>1, DialogIs DEF DialogFields
  <2> QED BY <1>1, <2>1, <2>2, <2>3, NotAwaited, DialogSends DEF Awaited
<1>3. CASE Regenerate
  <2>1. Open /\ dialog.phase \notin Awaited
    BY <1>3 DEF Regenerate, Busy, Awaited
  <2>2. /\ dialog' = Making(dialog) /\ UNCHANGED <<server, catalog, maker>>
        /\ \E a : AskAfter(calls, "invariants", dialog.for, "dialog", a)
    BY <1>3 DEF Regenerate, Dialog, Ask
  <2>3. dialog' = [f \in DialogFields |-> dialog'[f]] /\ dialog'.for = dialog.for /\ dialog'.phase \in Awaited
    BY <2>1, <2>2, <1>1, DialogIs, MakingIs DEF Awaited
  <2> QED BY <1>1, <2>1, <2>2, <2>3, NotAwaited, DialogSends
<1>4. CASE ToggleInvariants
  <2>1. Open /\ dialog.phase \notin Awaited /\ UNCHANGED <<art, catalog, maker, calls, made>>
    BY <1>4 DEF ToggleInvariants, Busy, Awaited, Shows, Dialog, server
  <2>2. PICK i : i = ~dialog.include
    OBVIOUS
  <2>3. \/ dialog' = [dialog EXCEPT !.include = i]
        \/ dialog' = [dialog EXCEPT !.include = i, !.inv = None, !.primary = None, !.phase = "upscaled"]
    BY <1>4, <2>2 DEF ToggleInvariants, Shows, Dialog
  <2>4. dialog' = [f \in DialogFields |-> dialog'[f]] /\ dialog'.for = dialog.for
        /\ dialog'.phase \in {dialog.phase, "upscaled"}
    BY <2>1, <2>3, <1>1, DialogIs DEF DialogFields
  <2>5. From(calls', "dialog") = {} /\ dialog'.phase \notin Awaited /\ dialog'.phase # "closed"
    BY <2>1, <2>4, NotAwaited, <1>1, DialogIs DEF Awaited
  <2>6. Waits(calls', "dialog", dialog'.phase \in Awaited)
    BY <2>5 DEF Waits
  <2> QED BY <1>1, <2>1, <2>4, <2>5, <2>6, PageDialog DEF Shaped
<1>5. CASE SaveMasks
  <2>1. Open /\ dialog.phase \notin Awaited
    BY <1>5 DEF SaveMasks, Busy, Awaited
  <2>2. /\ dialog' = [dialog EXCEPT !.saving = TRUE, !.phase = "saving"] /\ UNCHANGED <<server, catalog, maker>>
        /\ \E a : AskAfter(calls, "masks", dialog.for, "dialog", a)
    BY <1>5 DEF SaveMasks, Dialog, Ask
  <2>3. dialog' = [f \in DialogFields |-> dialog'[f]] /\ dialog'.for = dialog.for /\ dialog'.phase \in Awaited
        /\ dialog'.saving = TRUE
    BY <2>1, <2>2, <1>1, DialogIs DEF DialogFields, Awaited
  <2> QED BY <1>1, <2>1, <2>2, <2>3, NotAwaited, DialogSends
<1>6. CASE SavedTimer
  <2>1. Open /\ Forgets /\ catalog' = Listed(dialog.for) /\ dialog.phase = "saved"
    BY <1>6 DEF SavedTimer
  <2>2. From(calls, "dialog") = {}
    BY <2>1, NotAwaited DEF Awaited
  <2>3. AreCalls(calls', made) /\ dialog' = Closed /\ UNCHANGED <<art, maker, made>>
        /\ (\A p \in {"catalog", "maker"} : From(calls', p) = From(calls, p)) /\ From(calls', "dialog") = {}
    BY <2>1, <2>2, ForgottenIs
  <2>4. IsCatalog(catalog') /\ catalog'.busy = FALSE
    BY <1>1, <2>1, DialogIs, ListedIs
  <2>5. catalog.busy = FALSE
    BY <1>1, <2>1 DEF Covered, Shaped, IsCatalog, Shut
  <2>6. Shaped'
    BY <1>1, <2>3, <2>4 DEF Shaped, IsDialog
  <2>7. Waiting(calls)'
    BY <1>1, <2>3, <2>4, <2>5 DEF Waiting, Waits, Closed, Awaited
  <2> QED BY <2>3, <2>4, <2>6, <2>7 DEF PageInv, Covered, Open
<1>7. CASE CloseDialog
  <2>1. Open /\ Forgets /\ catalog' = catalog /\ ~dialog.saving
    BY <1>7 DEF CloseDialog
  <2>2. \A c \in From(calls, "dialog") : c.kind # "masks"
    BY <1>1, <2>1 DEF Waiting
  <2>3. AreCalls(calls', made) /\ dialog' = Closed /\ UNCHANGED <<art, maker, made>>
        /\ (\A p \in {"catalog", "maker"} : From(calls', p) = From(calls, p)) /\ From(calls', "dialog") = {}
    BY <2>1, <2>2, ForgottenIs
  <2>6. Shaped'
    BY <1>1, <2>1, <2>3 DEF Shaped, IsDialog
  <2>7. Waiting(calls)'
    BY <1>1, <2>1, <2>3 DEF Waiting, Waits, Closed, Awaited
  <2> QED BY <1>1, <2>1, <2>3, <2>6, <2>7 DEF PageInv, Covered, Open
<1> QED BY <1>2, <1>3, <1>4, <1>5, <1>6, <1>7 DEF AtDialog

(* The generation page.                                                       *)
MakerFields == {"open", "entity", "gen", "history", "review", "busy", "asks"}

LEMMA MakerIs ==
  ASSUME Shaped, maker # Shut
  PROVE  /\ maker = [f \in MakerFields |-> maker[f]]
         /\ maker.open = TRUE /\ maker.busy \in BOOLEAN /\ maker.entity \in Entities /\ maker.history \subseteq DOMAIN art
         /\ maker.gen # None => IsGen(maker.gen, DOMAIN art)
         /\ maker.review # None => IsReview(maker.review, DOMAIN art)
BY DEF Shaped, IsMaker, MakerFields

LEMMA PageMaker ==
  ASSUME PageInv, UNCHANGED <<art, catalog, dialog>>, made' \in Nat, AreCalls(calls', made'),
         IsMaker(maker', DOMAIN art), \A p \in {"catalog", "dialog"} : From(calls', p) = From(calls, p),
         Waits(calls', "maker", maker'.busy),
         \A c \in From(calls', "maker") : c.kind \in {"generate", "publish"}
  PROVE  PageInv'
<1>1. Shaped /\ Waiting(calls) /\ Covered
  BY DEF PageInv
<1>2. Shaped'
  BY <1>1 DEF Shaped
<1>3. Waiting(calls)'
  BY <1>1 DEF Waiting, Waits
<1> QED BY <1>1, <1>2, <1>3 DEF PageInv, Covered, Open

(* What only changes what is shown.                                           *)
LEMMA PageDisplays ==
  ASSUME PageInv, IsMaker(maker', DOMAIN art), maker'.busy = maker.busy,
         UNCHANGED <<art, calls, made, catalog, dialog>>
  PROVE  PageInv'
BY PageMaker DEF PageInv, Shaped, Waiting

LEMMA MakerSends ==
  ASSUME PageInv, NEW kind \in {"generate", "publish"}, NEW e \in Entities, NEW arg,
         Ask(kind, e, "maker", arg), maker.busy = FALSE, maker'.busy = TRUE, IsMaker(maker', DOMAIN art),
         UNCHANGED <<art, catalog, dialog>>
  PROVE  PageInv'
<1>1. Shaped /\ AreCalls(calls, made) /\ From(calls, "maker") = {}
  BY DEF PageInv, Shaped, Waiting, Waits
<1>2. AskAfter(calls, kind, e, "maker", arg)
  BY DEF Ask
<1>3. /\ made' \in Nat /\ AreCalls(calls', made')
      /\ \A p : p # "maker" => From(calls', p) = From(calls, p)
      /\ \E d : From(calls', "maker") = {d} /\ d.kind = kind
  BY <1>1, <1>2, Sends
<1>4. Waits(calls', "maker", maker'.busy) /\ \A c \in From(calls', "maker") : c.kind \in {"generate", "publish"}
  BY <1>3 DEF Waits
<1> QED BY <1>3, <1>4, PageMaker

LEMMA PageAtMaker == ASSUME PageInv, AtMaker PROVE PageInv'
<1> USE DEF MakerFields, Displays, Maker, server
<1>1. Shaped /\ Waiting(calls) /\ Covered /\ maker.open /\ maker # Shut
  BY DEF PageInv, AtMaker, Shut
<1>2. /\ maker = [f \in MakerFields |-> maker[f]]
      /\ maker.open = TRUE /\ maker.busy \in BOOLEAN /\ maker.entity \in Entities /\ maker.history \subseteq DOMAIN art
      /\ maker.gen # None => IsGen(maker.gen, DOMAIN art)
      /\ maker.review # None => IsReview(maker.review, DOMAIN art)
  BY <1>1, MakerIs
<1>3. ASSUME NEW e \in Entities, SelectEntity(e) PROVE PageInv'
  <2>1. PICK a : a = maker.asks \cup {e}
    OBVIOUS
  <2>2. maker' = [maker EXCEPT !.entity = e, !.history = {}, !.asks = a]
    BY <1>3, <2>1 DEF SelectEntity
  <2>3. IsMaker(maker', DOMAIN art) /\ maker'.busy = maker.busy
    BY <1>2, <2>2 DEF IsMaker
  <2> QED BY <1>3, <2>3, PageDisplays DEF SelectEntity
<1>4. ASSUME NEW e \in Entities, LeavePage(e) PROVE PageInv'
  <2>1. maker' = NewPage(e) /\ calls' = Without({c \in calls : c.from = "maker"}) /\ UNCHANGED <<art, catalog, dialog, made>>
    BY <1>4 DEF LeavePage, LeftBy
  <2>2. made \in Nat /\ AreCalls(calls, made)
    BY <1>1 DEF Shaped
  <2>3. AreCalls(calls', made) /\ \A p \in Pages : From(calls', p) = From(calls, p) \ {c \in calls : c.from = "maker"}
    BY <2>1, <2>2, WithoutIs
  <2>4. IsMaker(maker', DOMAIN art) /\ maker'.busy = FALSE
    BY <2>1, NewPageIs
  <2>5. /\ \A p \in {"catalog", "dialog"} : From(calls', p) = From(calls, p)
        /\ From(calls', "maker") = {}
    BY <2>3 DEF Pages, From
  <2>6. Waits(calls', "maker", maker'.busy)
    BY <2>4, <2>5 DEF Waits
  <2> QED BY <2>1, <2>2, <2>3, <2>4, <2>5, <2>6, PageMaker
<1>5. ASSUME NEW e \in Entities, NEW ok \in BOOLEAN, HistoryArrives(e, ok) PROVE PageInv'
  <2>1. PICK h, a : h \subseteq DOMAIN art /\ maker' = [maker EXCEPT !.asks = a, !.history = h]
    <3>1. PICK h : h = IF ok THEN {n \in DOMAIN art : art[n].for = e /\ art[n].listed > 0} ELSE {}
      OBVIOUS
    <3>2. h \subseteq DOMAIN art
      BY <3>1
    <3>3. PICK a : a = maker.asks \ {e}
      OBVIOUS
    <3>4. maker' = [maker EXCEPT !.asks = a, !.history = h]
      BY <1>5, <3>1, <3>3 DEF HistoryArrives
    <3> QED BY <3>2, <3>4
  <2>2. IsMaker(maker', DOMAIN art) /\ maker'.busy = maker.busy
    BY <1>2, <2>1 DEF IsMaker
  <2> QED BY <1>5, <2>2, PageDisplays DEF HistoryArrives
<1>6. ASSUME NEW n \in DOMAIN art, NEW i, StartReview(n, i) PROVE PageInv'
  <2>1. PICK r : r = [req |-> n, i |-> i, size |-> None, front |-> None]
    OBVIOUS
  <2>2. maker' = [maker EXCEPT !.review = r]
    BY <1>6, <2>1 DEF StartReview
  <2>3. IsReview(r, DOMAIN art)
    BY <2>1 DEF IsReview
  <2>4. IsMaker(maker', DOMAIN art) /\ maker'.busy = maker.busy
    BY <1>2, <2>2, <2>3 DEF IsMaker
  <2> QED BY <1>6, <2>4, PageDisplays DEF StartReview
<1>7. ASSUME NEW r, maker' = [maker EXCEPT !.review = r], r # None => IsReview(r, DOMAIN art),
             UNCHANGED <<calls, made, server, catalog, dialog>>
      PROVE  PageInv'
  <2>1. IsMaker(maker', DOMAIN art) /\ maker'.busy = maker.busy
    BY <1>2, <1>7 DEF IsMaker
  <2> QED BY <1>7, <2>1, PageDisplays
<1>8. ASSUME NEW size, ChooseSize(size) PROVE PageInv'
  <2>1. PICK r : r = [maker.review EXCEPT !.size = size, !.front = None]
    OBVIOUS
  <2>2. maker' = [maker EXCEPT !.review = r]
    BY <1>2, <1>8, <2>1 DEF ChooseSize
  <2>3. IsReview(r, DOMAIN art)
    BY <1>2, <1>8, <2>1 DEF ChooseSize, IsReview
  <2> QED BY <1>7, <1>8, <2>2, <2>3 DEF ChooseSize
<1>9. ASSUME NEW front, ChooseFront(front) PROVE PageInv'
  <2>1. PICK r : r = [maker.review EXCEPT !.front = front]
    OBVIOUS
  <2>2. maker' = [maker EXCEPT !.review = r]
    BY <1>2, <1>9, <2>1 DEF ChooseFront
  <2>3. IsReview(r, DOMAIN art)
    BY <1>2, <1>9, <2>1 DEF ChooseFront, IsReview
  <2> QED BY <1>7, <1>9, <2>2, <2>3 DEF ChooseFront
<1>10. CASE Back
  <2>1. PICK r : r = [maker.review EXCEPT !.size = None, !.front = None]
    OBVIOUS
  <2>2. maker' = [maker EXCEPT !.review = r]
    BY <1>2, <1>10, <2>1 DEF Back
  <2>3. IsReview(r, DOMAIN art)
    BY <1>2, <1>10, <2>1 DEF Back, IsReview
  <2> QED BY <1>7, <1>10, <2>2, <2>3 DEF Back
<1>11. CASE CloseReview
  BY <1>7, <1>11 DEF CloseReview
<1>12. CASE Generate
  <2>1. maker' = [maker EXCEPT !.busy = TRUE, !.gen = None] /\ maker.busy = FALSE
    BY <1>2, <1>12 DEF Generate
  <2>2. IsMaker(maker', DOMAIN art) /\ maker'.busy = TRUE
    BY <1>2, <2>1 DEF IsMaker
  <2>3. PICK e \in Entities : e = maker.entity
    BY <1>2
  <2>4. Ask("generate", e, "maker", None)
    BY <1>12, <2>3 DEF Generate
  <2> QED BY <1>12, <2>1, <2>2, <2>4, MakerSends DEF Generate
<1>13. CASE PublishSprite
  <2>1. maker' = [maker EXCEPT !.busy = TRUE] /\ maker.busy = FALSE
    BY <1>2, <1>13 DEF PublishSprite
  <2>2. IsMaker(maker', DOMAIN art) /\ maker'.busy = TRUE
    BY <1>2, <2>1 DEF IsMaker
  <2>3. art[maker.review.req].for \in Entities
    BY <1>1, <1>2, <1>13 DEF PublishSprite, IsReview, Shaped, IsArt
  <2>4. PICK e, a : e \in Entities /\ Ask("publish", e, "maker", a)
    BY <1>13, <2>3 DEF PublishSprite
  <2> QED BY <1>13, <2>1, <2>2, <2>4, MakerSends DEF PublishSprite
<1> QED BY <1>3, <1>4, <1>5, <1>6, <1>8, <1>9, <1>10, <1>11, <1>12, <1>13 DEF AtMaker

-----------------------------------------------------------------------------
(* Answers.                                                                   *)

(* Who hears of a request waited for it, and has then nothing to wait for.    *)
LEMMA Answered ==
  ASSUME PageInv, NEW c \in calls, NEW ok, Hears(c, ok), c.from \in Pages
  PROVE  /\ AreCalls(calls', made) /\ trouble \subseteq trouble'
         /\ \A p \in Pages \ {c.from} : From(calls', p) = From(calls, p)
         /\ From(calls', c.from) = {}
<1>1. Shaped /\ Waiting(calls)
  BY DEF PageInv
<1>2. AreCalls(calls', made) /\ trouble \subseteq trouble' /\ \A p \in Pages : From(calls', p) = From(calls, p) \ {c}
  BY <1>1, HearsIs
<1>3. \A p \in Pages \ {c.from} : From(calls', p) = From(calls, p)
  BY <1>2 DEF From
<1>4. \A p \in Pages : \E b : Waits(calls, p, b)
  BY <1>1 DEF Waiting, Pages
<1>5. c \in From(calls, c.from)
  BY DEF From
<1>6. From(calls', c.from) = {}
  BY <1>2, <1>4, <1>5 DEF Waits
<1> QED BY <1>2, <1>3, <1>6

LEMMA AwaitedBy ==
  ASSUME PageInv, NEW c \in calls
  PROVE  /\ c.from = "catalog" => catalog.busy = TRUE /\ catalog # Shut /\ c.kind = "transform"
         /\ c.from = "maker" => maker.busy = TRUE /\ maker # Shut /\ c.kind \in {"generate", "publish"}
         /\ c.from = "dialog" =>
              /\ dialog.phase \in Awaited /\ Open /\ From(calls, "dialog") = {c}
              /\ c.kind \in {"upscale", "invariants", "primary", "masks"}
              /\ c.kind = "masks" => dialog.saving = TRUE
<1>1. Waiting(calls) /\ Shaped
  BY DEF PageInv
<1>2. c \in From(calls, c.from)
  BY DEF From
<1>3. c.from = "catalog" => catalog.busy = TRUE /\ catalog # Shut /\ c.kind = "transform"
  BY <1>1, <1>2 DEF Waiting, Waits, Shut, Shaped, IsCatalog
<1>4. c.from = "maker" => maker.busy = TRUE /\ maker # Shut /\ c.kind \in {"generate", "publish"}
  BY <1>1, <1>2 DEF Waiting, Waits, Shut, Shaped, IsMaker
<1>5. c.from = "dialog" => dialog.phase \in Awaited /\ From(calls, "dialog") = {c}
  BY <1>1, <1>2 DEF Waiting, Waits
<1>6. dialog.phase \in Awaited => Open
  BY DEF Awaited, Open, Closed
<1>7. c.from = "dialog" => /\ c.kind \in {"upscale", "invariants", "primary", "masks"}
                           /\ c.kind = "masks" => dialog.saving = TRUE
  BY <1>1, <1>2 DEF Waiting
<1> QED BY <1>3, <1>4, <1>5, <1>6, <1>7

LEMMA PageHeardTransform == ASSUME PageInv, NEW c \in calls, NEW ok, HearTransform(c, ok) PROVE PageInv'
<1>1. Shaped /\ Waiting(calls) /\ Covered /\ c.from = "catalog" /\ Hears(c, ok) /\ UNCHANGED <<art, dialog, maker, made>>
  BY DEF PageInv, HearTransform, server
<1>2. catalog.busy = TRUE /\ catalog # Shut
  BY <1>1, AwaitedBy
<1>3. AreCalls(calls', made) /\ From(calls', "catalog") = {}
      /\ \A p \in {"maker", "dialog"} : From(calls', p) = From(calls, p)
  BY <1>1, Answered DEF Pages
<1>4. catalog = [f \in {"open", "sprite", "large", "tool", "chosen", "busy"} |-> catalog[f]]
      /\ catalog.busy \in BOOLEAN /\ catalog.sprite \in Entities /\ catalog.open = TRUE
  BY <1>1, <1>2 DEF Shaped, IsCatalog
<1>5. ~Open
  BY <1>1, <1>2 DEF Covered
<1>6. catalog' = Listed(catalog.sprite) \/ catalog' = [catalog EXCEPT !.busy = FALSE]
  BY DEF HearTransform
<1>7. IsCatalog(catalog') /\ catalog'.busy = FALSE
  <2>1. CASE catalog' = Listed(catalog.sprite)
    BY <1>4, <2>1, ListedIs
  <2>2. CASE catalog' = [catalog EXCEPT !.busy = FALSE]
    BY <1>4, <2>2 DEF IsCatalog
  <2> QED BY <1>6, <2>1, <2>2
<1>8. Shaped'
  BY <1>1, <1>3, <1>7 DEF Shaped
<1>9. Waiting(calls)'
  BY <1>1, <1>3, <1>7 DEF Waiting, Waits
<1> QED BY <1>1, <1>5, <1>7, <1>8, <1>9 DEF PageInv, Covered, Open

(* The dialog hears that its request failed, or that it needs no other.       *)
LEMMA DialogHears ==
  ASSUME PageInv, NEW c \in calls, NEW ok, c.from = "dialog", Hears(c, ok), UNCHANGED <<server, catalog, maker, made>>,
         dialog' = [f \in DialogFields |-> dialog'[f]], dialog'.for = dialog.for,
         dialog'.phase # "closed", dialog'.phase \notin Awaited
  PROVE  PageInv'
<1>1. Shaped /\ Open
  BY AwaitedBy DEF PageInv
<1>2. AreCalls(calls', made) /\ From(calls', "dialog") = {} /\ \A p \in {"catalog", "maker"} : From(calls', p) = From(calls, p)
  BY Answered DEF Pages
<1>3. Waits(calls', "dialog", dialog'.phase \in Awaited)
  BY <1>2 DEF Waits
<1> QED BY <1>1, <1>2, <1>3, PageDialog DEF Shaped, server

(* Or it goes on with the next request.                                       *)
LEMMA DialogGoesOn ==
  ASSUME PageInv, NEW c \in calls, c.from = "dialog", NEW kind \in {"invariants", "primary"}, NEW arg,
         AskAfter(calls \ {c}, kind, dialog.for, "dialog", arg), UNCHANGED <<server, catalog, maker>>,
         dialog' = [f \in DialogFields |-> dialog'[f]], dialog'.for = dialog.for, dialog'.phase \in Awaited
  PROVE  PageInv'
<1>1. Shaped /\ Open /\ From(calls, "dialog") = {c}
  BY AwaitedBy DEF PageInv
<1>2. AreCalls(calls \ {c}, made)
  BY <1>1, FewerCalls DEF Shaped
<1>3. From(calls \ {c}, "dialog") = {} /\ \A p \in {"catalog", "maker"} : From(calls \ {c}, p) = From(calls, p)
  BY <1>1 DEF From
<1> QED BY <1>1, <1>2, <1>3, DialogSends

LEMMA PageHeardDialog ==
  ASSUME PageInv, NEW c \in calls, NEW ok,
         HearUpscale(c, ok) \/ HearInvariants(c, ok) \/ HearPrimary(c, ok) \/ HearMasks(c, ok)
  PROVE  PageInv'
<1>1. Shaped /\ c.from = "dialog" /\ Open /\ UNCHANGED <<server, catalog, maker>>
  <2>1. c.from = "dialog" /\ UNCHANGED <<server, catalog, maker>>
    BY DEF HearUpscale, HearInvariants, HearPrimary, HearMasks, Dialog
  <2> QED BY <2>1, AwaitedBy DEF PageInv
<1>2. dialog = [f \in DialogFields |-> dialog[f]] /\ dialog.phase # "closed"
  BY <1>1, DialogIs
<1>3. CASE HearUpscale(c, ok)
  <2>1. CASE ok
    <3>1. PICK x : x = [dialog EXCEPT !.req = c.n]
      OBVIOUS
    <3>2. dialog' = Making(x) /\ \E a : AskAfter(calls \ {c}, "invariants", dialog.for, "dialog", a)
      BY <1>3, <2>1, <3>1 DEF HearUpscale, Dialog
    <3>3. x = [f \in DialogFields |-> x[f]] /\ x.for = dialog.for
      BY <1>2, <3>1 DEF DialogFields
    <3>4. dialog' = [f \in DialogFields |-> dialog'[f]] /\ dialog'.for = dialog.for /\ dialog'.phase \in Awaited
      BY <3>2, <3>3, MakingIs DEF Awaited
    <3> QED BY <1>1, <3>2, <3>4, DialogGoesOn
  <2>2. CASE ~ok
    <3>1. Hears(c, ok) /\ dialog' = [dialog EXCEPT !.upscaling = FALSE, !.phase = "error"] /\ UNCHANGED made
      BY <1>3, <2>2 DEF HearUpscale, Dialog
    <3>2. dialog' = [f \in DialogFields |-> dialog'[f]] /\ dialog'.for = dialog.for /\ dialog'.phase = "error"
      BY <1>2, <3>1 DEF DialogFields
    <3> QED BY <1>1, <3>1, <3>2, DialogHears DEF Awaited
  <2> QED BY <2>1, <2>2
<1>4. CASE HearInvariants(c, ok)
  <2>1. CASE ok
    <3>2. dialog' = [dialog EXCEPT !.inv = c.n, !.phase = "generating"] /\ \E a : AskAfter(calls \ {c}, "primary", dialog.for, "dialog", a)
      BY <1>4, <2>1 DEF HearInvariants, Dialog
    <3>4. dialog' = [f \in DialogFields |-> dialog'[f]] /\ dialog'.for = dialog.for /\ dialog'.phase \in Awaited
      BY <1>2, <3>2 DEF Awaited, DialogFields
    <3> QED BY <1>1, <3>2, <3>4, DialogGoesOn
  <2>2. CASE ~ok
    <3>1. Hears(c, ok) /\ dialog' = [dialog EXCEPT !.making = FALSE, !.phase = "upscaled"] /\ UNCHANGED made
      BY <1>4, <2>2 DEF HearInvariants, Dialog
    <3>2. dialog' = [f \in DialogFields |-> dialog'[f]] /\ dialog'.for = dialog.for /\ dialog'.phase = "upscaled"
      BY <1>2, <3>1 DEF DialogFields
    <3> QED BY <1>1, <3>1, <3>2, DialogHears DEF Awaited
  <2> QED BY <2>1, <2>2
<1>5. CASE HearPrimary(c, ok)
  <2>1. PICK x : x = IF ok THEN c.n ELSE None
    OBVIOUS
  <2>2. Hears(c, ok) /\ dialog' = [dialog EXCEPT !.making = FALSE, !.phase = "ready", !.primary = x] /\ UNCHANGED made
    BY <1>5, <2>1 DEF HearPrimary, Dialog
  <2>3. dialog' = [f \in DialogFields |-> dialog'[f]] /\ dialog'.for = dialog.for /\ dialog'.phase = "ready"
    BY <1>2, <2>2 DEF DialogFields
  <2> QED BY <1>1, <2>2, <2>3, DialogHears DEF Awaited
<1>6. CASE HearMasks(c, ok)
  <2>2. Hears(c, ok) /\ UNCHANGED made
        /\ (dialog' = [dialog EXCEPT !.phase = "saved"] \/ dialog' = [dialog EXCEPT !.saving = FALSE, !.phase = "ready"])
    BY <1>6 DEF HearMasks, Dialog
  <2>3. dialog' = [f \in DialogFields |-> dialog'[f]] /\ dialog'.for = dialog.for /\ dialog'.phase \in {"saved", "ready"}
    BY <1>2, <2>2 DEF DialogFields
  <2> QED BY <1>1, <2>2, <2>3, DialogHears DEF Awaited
<1> QED BY <1>3, <1>4, <1>5, <1>6

LEMMA PageHeardMaker ==
  ASSUME PageInv, NEW c \in calls, NEW ok,
         HearStart(c) \/ HearCandidate(c) \/ HearEnd(c, ok) \/ HearPublish(c, ok)
  PROVE  PageInv'
<1> USE DEF Displays, Maker, server, MakerFields
<1>1. Shaped /\ c.from = "maker" /\ maker # Shut /\ c.for \in Entities
  <2>1. c.from = "maker"
    BY DEF HearStart, HearCandidate, HearEnd, HearPublish
  <2> QED BY <2>1, AwaitedBy DEF PageInv, Shaped, AreCalls
<1>2. /\ maker = [f \in MakerFields |-> maker[f]]
      /\ maker.open = TRUE /\ maker.busy \in BOOLEAN /\ maker.entity \in Entities /\ maker.history \subseteq DOMAIN art
      /\ maker.gen # None => IsGen(maker.gen, DOMAIN art)
      /\ maker.review # None => IsReview(maker.review, DOMAIN art)
  BY <1>1, MakerIs
<1>3. ASSUME NEW g, IsGen(g, DOMAIN art), maker' = [maker EXCEPT !.gen = g],
             UNCHANGED <<calls, made, server, catalog, dialog>>
      PROVE  PageInv'
  <2>1. IsMaker(maker', DOMAIN art) /\ maker'.busy = maker.busy
    BY <1>2, <1>3 DEF IsMaker
  <2> QED BY <1>3, <2>1, PageDisplays
<1>4. CASE HearStart(c)
  <2>1. PICK g : g = [of |-> c.n, got |-> 0]
    OBVIOUS
  <2>2. IsGen(g, DOMAIN art)
    BY <1>4, <2>1 DEF HearStart, IsGen
  <2> QED BY <1>3, <1>4, <2>1, <2>2 DEF HearStart
<1>5. CASE HearCandidate(c)
  <2>1. PICK v : v = maker.gen.got + 1
    OBVIOUS
  <2>2. PICK g : g = [maker.gen EXCEPT !.got = v]
    OBVIOUS
  <2>3. maker' = [maker EXCEPT !.gen = g]
    BY <1>2, <1>5, <2>1, <2>2 DEF HearCandidate
  <2>4. IsGen(g, DOMAIN art)
    BY <1>2, <1>5, <2>2 DEF HearCandidate, IsGen
  <2> QED BY <1>3, <1>5, <2>3, <2>4 DEF HearCandidate
<1>6. ASSUME Hears(c, ok), IsMaker(maker', DOMAIN art), maker'.busy = FALSE, UNCHANGED <<made, server, catalog, dialog>>
      PROVE  PageInv'
  <2>1. AreCalls(calls', made) /\ From(calls', "maker") = {} /\ \A p \in {"catalog", "dialog"} : From(calls', p) = From(calls, p)
    BY <1>1, <1>6, Answered DEF Pages
  <2>2. Waits(calls', "maker", maker'.busy)
    BY <1>6, <2>1 DEF Waits
  <2> QED BY <1>1, <1>6, <2>1, <2>2, PageMaker DEF Shaped
<1>7. CASE HearEnd(c, ok)
  <2>1. PICK a : a = maker.asks \cup {maker.entity}
    OBVIOUS
  <2>2. maker' = [maker EXCEPT !.busy = FALSE, !.history = {}, !.asks = a]
    BY <1>7, <2>1 DEF HearEnd
  <2>3. IsMaker(maker', DOMAIN art) /\ maker'.busy = FALSE
    BY <1>2, <2>2 DEF IsMaker
  <2> QED BY <1>6, <1>7, <2>3 DEF HearEnd
<1>8. CASE HearPublish(c, ok)
  <2>1. maker' = NewPage(c.for) \/ maker' = [maker EXCEPT !.busy = FALSE]
    BY <1>8 DEF HearPublish
  <2>2. IsMaker(maker', DOMAIN art) /\ maker'.busy = FALSE
    <3>1. CASE maker' = NewPage(c.for)
      BY <1>1, <3>1, NewPageIs
    <3>2. CASE maker' = [maker EXCEPT !.busy = FALSE]
      BY <1>2, <3>2 DEF IsMaker
    <3> QED BY <2>1, <3>1, <3>2
  <2> QED BY <1>6, <1>8, <2>2 DEF HearPublish
<1> QED BY <1>4, <1>5, <1>7, <1>8

LEMMA PageNext == ASSUME PageInv, [Next]_vars PROVE PageInv'
<1>1. ASSUME NEW c \in calls, Heard(c) PROVE PageInv'
  BY <1>1, PageHeardTransform, PageHeardDialog, PageHeardMaker DEF Heard
<1>2. CASE UNCHANGED vars
  BY <1>2 DEF vars, server, pages, PageInv, Shaped, Waiting, Covered, Open
<1> QED BY <1>1, <1>2, PageAtCatalog, PageAtDialog, PageAtMaker, PageElsewhere, PageServer, PageStray DEF Next

(* Every page that says it works waits for one request, which is under way or *)
(* answered, and one that does not waits for none: the routes, the tools, the *)
(* dialog and the generation page never lose a request or send a second one.  *)
THEOREM PagesAwaitOneRequest == Spec => []BusyIsAwaited
<1>1. PageInv => BusyIsAwaited
  <2> SUFFICES ASSUME PageInv PROVE BusyIsAwaited
    OBVIOUS
  <2>1. ASSUME NEW p, NEW b \in BOOLEAN, Waits(calls, p, b)
        PROVE  Cardinality(From(calls, p)) = (IF b THEN 1 ELSE 0)
    <3>1. CASE b = TRUE
      BY <2>1, <3>1, FS_Singleton DEF Waits
    <3>2. CASE b = FALSE
      BY <2>1, <3>2, FS_EmptySet DEF Waits
    <3> QED BY <3>1, <3>2
  <2>2. catalog.busy \in BOOLEAN /\ maker.busy \in BOOLEAN
    <3>1. IsCatalog(catalog) /\ IsMaker(maker, DOMAIN art)
      BY DEF PageInv, Shaped
    <3>2. Shut.busy \in BOOLEAN
      BY DEF Shut
    <3> QED BY <3>1, <3>2, Zenon DEF IsCatalog, IsMaker
  <2>3. (dialog.phase \in Awaited) <=> (Open /\ Busy /\ dialog.phase # "saved")
    BY DEF Awaited, Open, Closed, Busy
  <2>4. /\ Waits(calls, "catalog", catalog.busy) /\ Waits(calls, "maker", maker.busy)
        /\ Waits(calls, "dialog", dialog.phase \in Awaited)
    BY DEF PageInv, Waiting
  <2>5. (dialog.phase \in Awaited) \in BOOLEAN
    OBVIOUS
  <2>6. /\ Cardinality(From(calls, "catalog")) = (IF catalog.busy THEN 1 ELSE 0)
        /\ Cardinality(From(calls, "maker")) = (IF maker.busy THEN 1 ELSE 0)
        /\ Cardinality(From(calls, "dialog")) = (IF dialog.phase \in Awaited THEN 1 ELSE 0)
    BY <2>1, <2>2, <2>4, <2>5
  <2> QED BY <2>3, <2>6 DEF BusyIsAwaited, From
<1> QED BY <1>1, PageInit, PageNext, PTL DEF Spec

-----------------------------------------------------------------------------
(* The lane: whose turn it is has written what is no longer to do, and nobody *)
(* else has begun to write.                                                   *)

FilesAre == files = [e \in Entities |-> [p \in Parts |-> files[e][p]]]

Written(c) ==
  /\ DOMAIN c.set \subseteq Parts /\ c.todo \subseteq DOMAIN c.set
  /\ MyTurn(c) => \A p \in DOMAIN c.set \ c.todo : files[c.for][p] = c.set[p]
  /\ ~MyTurn(c) => c.todo = DOMAIN c.set

LaneInv ==
  /\ FilesAre /\ lane \in Seq(Nat)
  /\ "write" \notin trouble => stray = {} /\ \A c \in calls : c.at = "lane" => Written(c)

(* The requests in the lane are those that were.                              *)
Same(c, d) == d.at = c.at /\ d.n = c.n /\ d.for = c.for /\ d.set = c.set /\ d.todo = c.todo
Kept(T)    == \A d \in T : d.at = "lane" => \E c \in calls : Same(c, d)

LEMMA LaneUntouched ==
  ASSUME LaneInv, UNCHANGED <<files, lane, stray>>, trouble \subseteq trouble', Kept(calls')
  PROVE  LaneInv'
<1>1. FilesAre' /\ lane' \in Seq(Nat)
  BY DEF LaneInv, FilesAre
<1>2. ASSUME "write" \notin trouble' PROVE stray' = {} /\ \A d \in calls' : d.at = "lane" => Written(d)'
  <2>1. stray = {} /\ \A c \in calls : c.at = "lane" => Written(c)
    BY <1>2 DEF LaneInv
  <2>2. ASSUME NEW d \in calls', d.at = "lane" PROVE Written(d)'
    <3>1. PICK c \in calls : Same(c, d) /\ Written(c)
      BY <2>1, <2>2 DEF Kept, Same
    <3> QED BY <3>1 DEF Same, Written, MyTurn
  <2> QED BY <2>1, <2>2
<1> QED BY <1>1, <1>2 DEF LaneInv

LEMMA KeptFewer == ASSUME NEW T, T \subseteq calls PROVE Kept(T)
BY DEF Kept, Same

LEMMA KeptAsked ==
  ASSUME NEW rest, Kept(rest), NEW kind, NEW e, NEW from, NEW arg, AskAfter(rest, kind, e, from, arg)
  PROVE  Kept(calls')
<1>1. PICK c : c = Call(kind, e, from, arg)
  OBVIOUS
<1>2. c.at = "asked" /\ calls' = rest \cup {c}
  BY <1>1, CallIs DEF AskAfter
<1> QED BY <1>2 DEF Kept

LEMMA KeptWithout ==
  ASSUME Shaped, NEW left, left \subseteq calls PROVE Kept(Without(left))
<1> DEFINE Nobodys(c) == [c EXCEPT !.from = "nobody"]
<1>1. \A c \in left : Same(c, Nobodys(c))
  BY DEF Shaped, AreCalls, IsCall, CallFields, Same
<1>2. \A c \in calls : Same(c, c)
  BY DEF Same
<1> HIDE DEF Nobodys
<1>3. PICK gone : gone = {Nobodys(c) : c \in {d \in left : d.at \notin {"done", "failed"}}}
  OBVIOUS
<1>4. Without(left) = (calls \ left) \cup gone
  BY <1>3 DEF Without, Nobodys
<1> QED BY <1>1, <1>2, <1>3, <1>4 DEF Kept

LEMMA KeptHeard == ASSUME Shaped, NEW c \in calls, NEW ok, Hears(c, ok) PROVE Kept(calls') /\ trouble \subseteq trouble'
<1>1. calls' = calls \ {c} \/ calls' = Without({c})
  BY DEF Hears
<1>2. Kept(calls \ {c}) /\ Kept(Without({c}))
  BY KeptFewer, KeptWithout
<1>3. trouble \subseteq trouble'
  BY HearsIs
<1> QED BY <1>1, <1>2, <1>3

(* Nothing a user does, and nothing a page hears, touches what is written.    *)
PageStep ==
  \/ AtCatalog \/ AtDialog \/ AtMaker
  \/ \E kind \in {"upload", "transform"}, e \in Entities : Elsewhere(kind, e)
  \/ \E c \in calls : Heard(c)

LEMMA PagesDoNotWrite ==
  ASSUME Shaped, PageStep PROVE UNCHANGED <<files, lane, stray>> /\ trouble \subseteq trouble' /\ Kept(calls')
<1> USE DEF server
<1>1. Kept(calls) /\ \A c \in calls : Kept(calls \ {c})
  BY KeptFewer
<1>2. CASE AtCatalog
  <2>1. CASE SaveTransform
    BY <1>1, <2>1, KeptAsked DEF SaveTransform, Ask
  <2> QED BY <1>1, <1>2, <2>1 DEF AtCatalog, SelectSprite, OpenTool, Choose, CloseTool, OpenDialog, Shows, Dialog
<1>3. CASE AtDialog
  <2>1. CASE StartGeneration \/ Regenerate \/ SaveMasks
    BY <1>1, <2>1, KeptAsked DEF StartGeneration, Regenerate, SaveMasks, Dialog, Ask
  <2>2. CASE SavedTimer \/ CloseDialog
    <3>1. Forgets
      BY <2>2 DEF SavedTimer, CloseDialog
    <3>2. UNCHANGED <<files, lane, stray, trouble>> /\ calls' \subseteq calls
      BY <3>1 DEF Forgets
    <3> QED BY <3>2, KeptFewer
  <2>3. CASE ToggleInvariants
    BY <1>1, <2>3 DEF ToggleInvariants, Shows, Dialog
  <2> QED BY <1>3, <2>1, <2>2, <2>3 DEF AtDialog
<1>4. CASE AtMaker
  <2>1. CASE Generate \/ PublishSprite
    BY <1>1, <2>1, KeptAsked DEF Generate, PublishSprite, Maker, Ask
  <2>2. ASSUME NEW e \in Entities, LeavePage(e)
        PROVE  UNCHANGED <<files, lane, stray>> /\ trouble \subseteq trouble' /\ Kept(calls')
    <3>1. calls' = Without({c \in calls : c.from = "maker"}) /\ UNCHANGED <<files, lane, stray>> /\ trouble \subseteq trouble'
      BY <2>2 DEF LeavePage, LeftBy, Maker, Trouble
    <3>2. {c \in calls : c.from = "maker"} \subseteq calls
      OBVIOUS
    <3> QED BY <3>1, <3>2, KeptWithout
  <2>3. ASSUME NEW e \in Entities, NEW ok \in BOOLEAN, HistoryArrives(e, ok)
        PROVE  UNCHANGED <<files, lane, stray>> /\ trouble \subseteq trouble' /\ Kept(calls')
    BY <1>1, <2>3 DEF HistoryArrives, Maker, Trouble
  <2>4. ASSUME UNCHANGED <<calls, server, trouble>>
        PROVE  UNCHANGED <<files, lane, stray>> /\ trouble \subseteq trouble' /\ Kept(calls')
    BY <1>1, <2>4
  <2> QED
    BY <1>4, <2>1, <2>2, <2>3, <2>4
    DEF AtMaker, SelectEntity, StartReview, ChooseSize, ChooseFront, Back, CloseReview, Displays, Maker
<1>5. ASSUME NEW kind, NEW e, Elsewhere(kind, e)
      PROVE  UNCHANGED <<files, lane, stray>> /\ trouble \subseteq trouble' /\ Kept(calls')
  BY <1>1, <1>5, KeptAsked DEF Elsewhere, Ask, Trouble
<1>6. ASSUME NEW c \in calls, Heard(c)
      PROVE  UNCHANGED <<files, lane, stray>> /\ trouble \subseteq trouble' /\ Kept(calls')
  <2>1. CASE HearStart(c) \/ HearCandidate(c)
    BY <1>1, <2>1 DEF HearStart, HearCandidate, Displays, Maker
  <2>2. ASSUME NEW ok, HearTransform(c, ok) \/ HearPrimary(c, ok) \/ HearMasks(c, ok) \/ HearEnd(c, ok) \/ HearPublish(c, ok)
        PROVE  UNCHANGED <<files, lane, stray>> /\ trouble \subseteq trouble' /\ Kept(calls')
    BY <2>2, KeptHeard DEF HearTransform, HearPrimary, HearMasks, HearEnd, HearPublish, Dialog, Maker
  <2>3. ASSUME NEW ok, HearUpscale(c, ok) \/ HearInvariants(c, ok)
        PROVE  UNCHANGED <<files, lane, stray>> /\ trouble \subseteq trouble' /\ Kept(calls')
    <3>1. CASE ok
      BY <1>1, <2>3, <3>1, KeptAsked DEF HearUpscale, HearInvariants, Dialog
    <3>2. CASE ~ok
      BY <2>3, <3>2, KeptHeard DEF HearUpscale, HearInvariants, Dialog
    <3> QED BY <3>1, <3>2
  <2> QED BY <1>6, <2>1, <2>2, <2>3 DEF Heard
<1> QED BY <1>2, <1>3, <1>4, <1>5, <1>6 DEF PageStep

LEMMA LaneServer == ASSUME Shaped, LaneInv, NEW c \in calls, Server(c) PROVE LaneInv'
<1>1. PICK d : ServerStep(c, d)
  BY ServerSteps
<1>2. d.n = c.n /\ d.for = c.for /\ Turned(c, d) /\ LaneStep(c, d)
  BY <1>1 DEF ServerStep, Turns
<1>3. trouble \subseteq trouble' /\ c.n \in Nat /\ made \in Nat
  BY ServerSteps DEF Shaped, AreCalls
<1>4. FilesAre /\ lane \in Seq(Nat)
  BY DEF LaneInv
<1>5. \A e \in calls' : e = d \/ (e \in calls /\ e # c /\ e.n # c.n)
  BY <1>2 DEF Turned, Shaped, AreCalls
<1>6. "write" \notin trouble' => stray = {} /\ \A e \in calls : e.at = "lane" => Written(e)
  BY <1>3 DEF LaneInv
<1>7. CASE c.at # "lane" /\ d.at # "lane" /\ UNCHANGED <<files, lane, stray>>
  <2>1. \A e \in calls' : e.at = "lane" => e \in calls
    BY <1>5, <1>7
  <2>2. Kept(calls')
    BY <2>1 DEF Kept, Same
  <2> QED BY <1>3, <1>7, <2>2, LaneUntouched
<1>8. CASE /\ c.at # "lane" /\ d.at = "lane" /\ lane' = Append(lane, c.n) /\ UNCHANGED <<files, stray>>
           /\ d.todo = DOMAIN d.set /\ DOMAIN d.set \subseteq Parts
  <2>1. FilesAre' /\ lane' \in Seq(Nat)
    BY <1>3, <1>4, <1>8 DEF FilesAre
  <2>2. Written(d)'
    BY <1>8 DEF Written
  <2>3. ASSUME NEW e \in calls, e.n # c.n, Written(e) PROVE Written(e)'
    <3>1. MyTurn(e)' <=> MyTurn(e)
      BY <1>3, <1>4, <1>8, <2>3 DEF MyTurn
    <3> QED BY <1>8, <2>3, <3>1 DEF Written
  <2> QED BY <1>5, <1>6, <1>8, <2>1, <2>2, <2>3 DEF LaneInv
<1>9. CASE /\ c.at = "lane" /\ MyTurn(c) /\ UNCHANGED <<lane, stray>>
           /\ d.at = "lane" /\ d.set = c.set
           /\ \E p \in c.todo : d.todo = c.todo \ {p} /\ files' = [files EXCEPT ![c.for][p] = c.set[p]]
  <2>1. PICK p \in c.todo : d.todo = c.todo \ {p} /\ files' = [files EXCEPT ![c.for][p] = c.set[p]]
    BY <1>9
  <2>2. FilesAre' /\ lane' \in Seq(Nat)
    <3>1. PICK v : v = c.set[p]
      OBVIOUS
    <3>2. files' = [files EXCEPT ![c.for][p] = v]
      BY <2>1, <3>1
    <3>3. lane' \in Seq(Nat)
      BY <1>4, <1>9
    <3> QED BY <1>4, <3>2, <3>3 DEF FilesAre
  <2>3. c.for \in Entities
    BY DEF Shaped, AreCalls
  <2>4. ASSUME Written(c) PROVE Written(d)'
    <3>1. MyTurn(d)' /\ p \in Parts
      BY <1>2, <1>9, <2>4 DEF MyTurn, Written
    <3>2. ASSUME NEW q \in DOMAIN c.set \ (c.todo \ {p}) PROVE files'[c.for][q] = c.set[q]
      <4>1. q \in Parts /\ (q = p \/ files[c.for][q] = c.set[q])
        BY <1>9, <2>4, <3>2 DEF Written
      <4>2. files'[c.for][q] = IF q = p THEN c.set[p] ELSE files[c.for][q]
        BY <1>4, <2>1, <2>3, <3>1, <4>1 DEF FilesAre
      <4> QED BY <4>1, <4>2
    <3> QED BY <1>2, <1>9, <2>1, <2>4, <3>1, <3>2 DEF Written
  <2>5. ASSUME NEW e \in calls, e.n # c.n, Written(e) PROVE Written(e)'
    <3>1. ~MyTurn(e) /\ ~MyTurn(e)'
      BY <1>9, <2>5 DEF MyTurn
    <3> QED BY <2>5, <3>1 DEF Written
  <2> QED BY <1>5, <1>6, <1>9, <2>2, <2>4, <2>5 DEF LaneInv
<1>10. CASE /\ c.at = "lane" /\ MyTurn(c) /\ d.at # "lane" /\ lane' = Tail(lane) /\ UNCHANGED files
            /\ UNCHANGED stray \/ "write" \in trouble'
  <2>1. FilesAre' /\ lane' \in Seq(Nat)
    BY <1>4, <1>10 DEF FilesAre, MyTurn
  <2>2. ASSUME NEW e \in calls, e.n # c.n, Written(e) PROVE Written(e)'
    <3>1. ~MyTurn(e)
      BY <1>10, <2>2 DEF MyTurn
    <3> QED BY <2>2, <3>1 DEF Written
  <2> QED BY <1>5, <1>6, <1>10, <2>1, <2>2 DEF LaneInv
<1> QED BY <1>2, <1>7, <1>8, <1>9, <1>10 DEF LaneStep

LEMMA LaneNext == ASSUME Shaped, LaneInv, [Next]_vars PROVE LaneInv'
<1>1. CASE PageStep
  BY <1>1, PagesDoNotWrite, LaneUntouched
<1>2. ASSUME NEW w \in stray, StrayLands(w) PROVE LaneInv'
  <2>1. FilesAre' /\ lane' \in Seq(Nat) /\ "write" \in trouble'
    BY <1>2 DEF LaneInv, FilesAre, StrayLands
  <2> QED BY <2>1 DEF LaneInv
<1>3. CASE UNCHANGED vars
  BY <1>3, KeptFewer, LaneUntouched DEF vars, server
<1> QED BY <1>1, <1>2, <1>3, LaneServer DEF Next, PageStep

LEMMA LaneInit == Init => LaneInv
<1> SUFFICES ASSUME Init PROVE LaneInv
  OBVIOUS
<1>1. FilesAre
  BY DEF Init, FilesAre
<1>2. lane = <<>> /\ stray = {} /\ calls = {}
  BY DEF Init
<1> QED BY <1>1, <1>2 DEF LaneInv

(* What a save answers with holds what was saved: its writes are not mixed    *)
(* with those of another, however many wait and however long each write takes, *)
(* until a write fails and those begun with it go on outside the lane.        *)
THEOREM AnswersHoldTheirRevision == Spec => []AnswerHoldsItsRevision
<1>1. LaneInv => AnswerHoldsItsRevision
  <2> SUFFICES ASSUME LaneInv, "write" \notin trouble, NEW c \in calls, c.at = "lane", c.todo = {}, NEW p \in DOMAIN c.set
               PROVE  files[c.for][p] = c.set[p]
    BY DEF AnswerHoldsItsRevision
  <2>1. Written(c)
    BY DEF LaneInv
  <2> QED BY <2>1 DEF Written
<1>2. Init => PageInv /\ LaneInv
  BY PageInit, LaneInit
<1>3. PageInv /\ LaneInv /\ [Next]_vars => (PageInv /\ LaneInv)'
  BY PageNext, LaneNext DEF PageInv
<1> QED BY <1>1, <1>2, <1>3, PTL DEF Spec

-----------------------------------------------------------------------------
(* What the dialog shows is what its candidate holds, as long as no line has  *)
(* broken: only then may a request go on of which nobody hears.               *)

DialogKinds == {"upscale", "invariants", "primary", "masks"}

IsMasks(m) ==
  /\ m = [n \in DOMAIN m |-> m[n]]
  /\ \A n \in DOMAIN m : m[n] = [f \in {"src", "gray", "invariants", "primary"} |-> m[n][f]]

(* The masks of the make the dialog names, made with the setting it shows.    *)
HasInvariants(n) == masks[dialog.req].invariants.n = n /\ (masks[dialog.req].invariants.empty <=> ~dialog.include)
HasPrimary(n)    == masks[dialog.req].primary.n = n /\ masks[dialog.req].primary.cut = dialog.inv

Shown ==
  /\ dialog.req = None => dialog.inv = None /\ dialog.primary = None
  /\ dialog.req # None => dialog.req \in DOMAIN masks
  /\ dialog.inv # None => HasInvariants(dialog.inv)
  /\ dialog.primary # None => dialog.inv # None /\ HasPrimary(dialog.primary)

(* What the request the dialog waits for will let it show.                    *)
Enlarging(c) == dialog.req = None /\ (c.at \in {"model", "done"} => c.n \in DOMAIN masks)

MakingInvariants(c) ==
  /\ dialog.req # None /\ c.arg.req = dialog.req /\ dialog.inv = None /\ dialog.primary = None
  /\ c.arg.skip <=> ~dialog.include
  /\ c.at = "done" => HasInvariants(c.n)

MakingPrimary(c) ==
  /\ dialog.req # None /\ c.arg.req = dialog.req /\ dialog.inv # None /\ dialog.primary = None
  /\ c.at = "model" => c.had.n = dialog.inv
  /\ c.at = "done" => HasPrimary(c.n)

Saving(c) ==
  /\ dialog.inv # None /\ dialog.primary # None
  /\ c.arg.req = dialog.req /\ c.arg.inv = dialog.inv /\ c.arg.primary = dialog.primary
  /\ c.arg.include <=> dialog.include
  /\ c.set # <<>> => c.set["primary"].of = <<dialog.primary, 0>> /\ c.set["invariants"].of = <<dialog.inv, 0>>

Due(c) ==
  /\ c.kind = "upscale" => Enlarging(c)
  /\ c.kind = "invariants" => MakingInvariants(c)
  /\ c.kind = "primary" => MakingPrimary(c)
  /\ c.kind = "masks" => Saving(c)

MaskInv ==
  "lost" \notin trouble =>
    /\ IsMasks(masks)
    /\ \A c \in calls : c.kind \in DialogKinds => c.from = "dialog"
    /\ Open => Shown
    /\ \A c \in From(calls, "dialog") : Due(c)

LEMMA MaskInit == Init => MaskInv
BY DEF Init, MaskInv, IsMasks, From, Open, Closed

(* Nobody but the dialog asks for these, so none is under way without it.     *)
LEMMA OnlyOne ==
  ASSUME PageInv, MaskInv, "lost" \notin trouble, NEW c \in calls, c.kind \in DialogKinds
  PROVE  c.from = "dialog" /\ Open /\ From(calls, "dialog") = {c} /\ Shown /\ Due(c)
<1>1. c.from = "dialog"
  BY DEF MaskInv
<1>2. Open /\ From(calls, "dialog") = {c}
  BY <1>1, AwaitedBy
<1> QED BY <1>1, <1>2 DEF MaskInv

(* A step that touches neither the dialog nor the candidates, and asks for    *)
(* nothing of theirs.                                                         *)
LEMMA MaskKept ==
  ASSUME MaskInv, UNCHANGED <<masks, dialog>>, trouble \subseteq trouble',
         \A d \in calls' : d \in calls \/ (d.kind \notin DialogKinds /\ d.from # "dialog")
  PROVE  MaskInv'
<1> SUFFICES ASSUME "lost" \notin trouble' PROVE MaskInv'
  BY DEF MaskInv
<1>1. "lost" \notin trouble
  OBVIOUS
<1>2. /\ IsMasks(masks)
      /\ \A c \in calls : c.kind \in DialogKinds => c.from = "dialog"
      /\ Open => Shown
      /\ \A c \in From(calls, "dialog") : Due(c)
  BY <1>1 DEF MaskInv
<1>3. \A d \in calls' : d.kind \in DialogKinds => d.from = "dialog"
  BY <1>2
<1>4. IsMasks(masks')
  BY <1>2
<1>5. Open' => Shown'
  BY <1>2 DEF Open, Shown, HasInvariants, HasPrimary
<1>6. \A d \in From(calls', "dialog") : Due(d)'
  <2>1. \A d \in From(calls', "dialog") : Due(d)
    BY <1>2 DEF From
  <2> QED BY <2>1 DEF Due, Enlarging, MakingInvariants, MakingPrimary, Saving, HasInvariants, HasPrimary
<1> QED BY <1>3, <1>4, <1>5, <1>6 DEF MaskInv

(* How the candidates keep their shape.                                       *)
LEMMA PutIs ==
  ASSUME IsMasks(masks), NEW n, NEW p
  PROVE  IsMasks(Put(masks, n, Candidate(p))) /\ n \in DOMAIN Put(masks, n, Candidate(p))
<1>1. PICK x : x = Candidate(p)
  OBVIOUS
<1>2. x = [f \in {"src", "gray", "invariants", "primary"} |-> x[f]]
  BY <1>1 DEF Candidate
<1>3. IsMasks(Put(masks, n, x)) /\ n \in DOMAIN Put(masks, n, x)
  BY <1>2 DEF Put, IsMasks
<1> QED BY <1>1, <1>3

LEMMA FieldIs ==
  ASSUME IsMasks(masks), NEW n \in DOMAIN masks, NEW f \in {"src", "gray", "invariants", "primary"}, NEW v,
         masks' = [masks EXCEPT ![n][f] = v]
  PROVE  /\ IsMasks(masks') /\ DOMAIN masks' = DOMAIN masks /\ masks'[n][f] = v
         /\ \A g \in {"src", "gray", "invariants", "primary"} : g # f => masks'[n][g] = masks[n][g]
BY DEF IsMasks

(* What the server does with the dialog's request.                            *)
LEMMA MaskServer == ASSUME PageInv, MaskInv, NEW c \in calls, Server(c) PROVE MaskInv'
<1>1. Shaped /\ Waiting(calls)
  BY DEF PageInv
<1>2. PICK d : ServerStep(c, d)
  BY <1>1, ServerSteps
<1>3. UNCHANGED dialog /\ trouble \subseteq trouble'
  BY <1>1, ServerSteps DEF pages
<1>4. Turned(c, d) /\ MasksStep(c, d) /\ d.n = c.n /\ d.from = c.from /\ d.kind = c.kind /\ d.arg = c.arg
  BY <1>2 DEF ServerStep, Turns
<1> SUFFICES ASSUME "lost" \notin trouble' PROVE MaskInv'
  BY DEF MaskInv
<1>5. "lost" \notin trouble
  BY <1>3
<1>6. CASE c.kind \notin DialogKinds
  <2>1. c.from # "dialog"
    BY <1>6, AwaitedBy DEF DialogKinds
  <2>2. masks' = masks
    BY <1>4, <1>6 DEF MasksStep, DialogKinds
  <2>3. \A e \in calls' : e \in calls \/ (e.kind \notin DialogKinds /\ e.from # "dialog")
    BY <1>4, <1>6, <2>1 DEF Turned
  <2> QED BY <1>3, <2>2, <2>3, MaskKept
<1>7. CASE c.kind \in DialogKinds
  <2>1. c.from = "dialog" /\ Open /\ From(calls, "dialog") = {c} /\ Shown /\ Due(c)
    BY <1>5, <1>7, OnlyOne
  <2>2. calls' = (calls \ {c}) \cup {d}
    BY <1>4, <2>1 DEF Turned
  <2>3. From(calls', "dialog") = {d}
    BY <1>4, <2>1, <2>2 DEF From
  <2>4. \A e \in calls' : e.kind \in DialogKinds => e.from = "dialog"
    BY <1>4, <1>5, <2>1, <2>2 DEF MaskInv
  <2>5. IsMasks(masks)
    BY <1>5 DEF MaskInv
  <2>6. ASSUME IsMasks(masks'), Shown', Due(d)' PROVE MaskInv'
    BY <2>3, <2>4, <2>6 DEF MaskInv
  <2>7. CASE c.kind = "upscale"
    <3>1. Enlarging(c) /\ dialog.inv = None /\ dialog.primary = None
      BY <2>1, <2>7 DEF Due, Shown, Enlarging
    <3>2. Shown'
      BY <1>3, <3>1 DEF Shown, Enlarging
    <3>3. IsMasks(masks') /\ (d.at \in {"model", "done"} => d.n \in DOMAIN masks')
      <4>1. CASE masks' = masks /\ d.at = "failed"
        BY <2>5, <4>1
      <4>2. CASE \E p : masks' = Put(masks, c.n, Candidate(p))
        BY <1>4, <2>5, <4>2, PutIs
      <4>3. CASE c.at = "model" /\ masks' = [masks EXCEPT ![c.n].gray = TRUE]
        <5>1. c.n \in DOMAIN masks
          BY <3>1, <4>3 DEF Enlarging
        <5>2. masks' = [masks EXCEPT ![c.n]["gray"] = TRUE]
          BY <4>3
        <5>3. IsMasks(masks') /\ DOMAIN masks' = DOMAIN masks
          BY <2>5, <5>1, <5>2, FieldIs
        <5> QED BY <1>4, <5>1, <5>3
      <4> QED BY <1>4, <2>7, <4>1, <4>2, <4>3 DEF MasksStep
    <3>4. Due(d)'
      BY <1>3, <1>4, <2>7, <3>1, <3>3 DEF Due, Enlarging
    <3> QED BY <2>6, <3>2, <3>3, <3>4
  <2>8. CASE c.kind = "invariants"
    <3>1. MakingInvariants(c)
      BY <2>1, <2>8 DEF Due
    <3>2. dialog.req \in DOMAIN masks /\ dialog.inv = None /\ dialog.primary = None /\ c.arg.req = dialog.req
      BY <2>1, <3>1 DEF Shown, MakingInvariants
    <3>3. CASE masks' = masks /\ d.at # "done"
      <4>1. Shown'
        BY <1>3, <3>1, <3>2, <3>3 DEF Shown, MakingInvariants
      <4>2. Due(d)'
        BY <1>3, <1>4, <2>8, <3>1, <3>3 DEF Due, MakingInvariants
      <4> QED BY <2>5, <2>6, <3>3, <4>1, <4>2
    <3>4. CASE masks' = [masks EXCEPT ![c.arg.req].invariants = [n |-> c.n, empty |-> c.arg.skip]]
      <4>1. PICK v : v = [n |-> c.n, empty |-> c.arg.skip]
        OBVIOUS
      <4>2. masks' = [masks EXCEPT ![dialog.req]["invariants"] = v]
        BY <3>2, <3>4, <4>1
      <4>3. IsMasks(masks') /\ DOMAIN masks' = DOMAIN masks /\ masks'[dialog.req].invariants = v
        BY <2>5, <3>2, <4>2, FieldIs
      <4>4. Shown'
        BY <1>3, <3>1, <3>2, <4>3 DEF Shown, MakingInvariants
      <4>5. HasInvariants(d.n)'
        BY <1>3, <1>4, <3>1, <4>1, <4>3 DEF HasInvariants, MakingInvariants
      <4>6. Due(d)'
        BY <1>3, <1>4, <2>8, <3>1, <4>5 DEF Due, MakingInvariants
      <4> QED BY <2>6, <4>3, <4>4, <4>6
    <3> QED BY <1>4, <2>8, <3>3, <3>4 DEF MasksStep
  <2>9. CASE c.kind = "primary"
    <3>1. MakingPrimary(c)
      BY <2>1, <2>9 DEF Due
    <3>2. /\ dialog.req # None /\ dialog.req \in DOMAIN masks /\ dialog.inv # None /\ dialog.primary = None
          /\ c.arg.req = dialog.req /\ HasInvariants(dialog.inv)
      BY <2>1, <3>1 DEF Shown, MakingPrimary
    <3>3. CASE masks' = masks /\ d.at # "done" /\ (d.at = "model" => d.had = masks[c.arg.req].invariants)
      <4>1. Shown'
        BY <1>3, <3>2, <3>3 DEF Shown, HasInvariants
      <4>2. d.at = "model" => d.had.n = dialog.inv
        BY <3>2, <3>3 DEF HasInvariants
      <4>3. Due(d)'
        BY <1>3, <1>4, <2>9, <3>1, <3>3, <4>2 DEF Due, MakingPrimary
      <4> QED BY <2>5, <2>6, <3>3, <4>1, <4>3
    <3>4. CASE c.at = "model" /\ d.at = "done"
               /\ masks' = [masks EXCEPT ![c.arg.req].primary = [n |-> c.n, cut |-> c.had.n]]
      <4>1. PICK v : v = [n |-> c.n, cut |-> c.had.n]
        OBVIOUS
      <4>2. masks' = [masks EXCEPT ![dialog.req]["primary"] = v]
        BY <3>2, <3>4, <4>1
      <4>3. IsMasks(masks') /\ DOMAIN masks' = DOMAIN masks /\ masks'[dialog.req].primary = v
            /\ masks'[dialog.req].invariants = masks[dialog.req].invariants
        BY <2>5, <3>2, <4>2, FieldIs
      <4>4. Shown'
        BY <1>3, <3>2, <4>3 DEF Shown, HasInvariants
      <4>5. HasPrimary(d.n)'
        BY <1>3, <1>4, <3>1, <3>4, <4>1, <4>3 DEF HasPrimary, MakingPrimary
      <4>6. Due(d)'
        BY <1>3, <1>4, <2>9, <3>1, <3>4, <4>5 DEF Due, MakingPrimary
      <4> QED BY <2>6, <4>3, <4>4, <4>6
    <3> QED BY <1>4, <2>9, <3>3, <3>4 DEF MasksStep
  <2>10. CASE c.kind = "masks"
    <3>1. Saving(c)
      BY <2>1, <2>10 DEF Due
    <3>2. masks' = masks /\ (d.set \in {c.set, <<>>} \/ Saved(c, d.set))
      BY <1>4, <2>10 DEF MasksStep
    <3>3. HasPrimary(dialog.primary) /\ HasInvariants(dialog.inv)
      BY <2>1, <3>1 DEF Shown, Saving
    <3>4. d.set # <<>> => d.set["primary"].of = <<dialog.primary, 0>> /\ d.set["invariants"].of = <<dialog.inv, 0>>
      BY <3>1, <3>2, <3>3 DEF Saving, Saved, HasPrimary, HasInvariants
    <3>5. Due(d)'
      BY <1>3, <1>4, <2>10, <3>1, <3>4 DEF Due, Saving
    <3>6. Shown'
      BY <1>3, <2>1, <3>2 DEF Shown, HasInvariants, HasPrimary
    <3> QED BY <2>5, <2>6, <3>2, <3>5, <3>6
  <2> QED BY <1>7, <2>7, <2>8, <2>9, <2>10 DEF DialogKinds
<1> QED BY <1>6, <1>7

(* What is asked, and of which kind.                                          *)
LEMMA AskIs ==
  ASSUME NEW rest, NEW kind, NEW e, NEW from, NEW arg, AskAfter(rest, kind, e, from, arg)
  PROVE  \E d : /\ calls' = rest \cup {d} /\ d.n = made + 1 /\ d.kind = kind /\ d.from = from /\ d.arg = arg
                /\ d.at = "asked" /\ d.set = <<>>
<1>1. PICK d : d = Call(kind, e, from, arg)
  OBVIOUS
<1> QED BY <1>1, CallIs DEF AskAfter

LEMMA MaskAsked ==
  ASSUME MaskInv, NEW kind, kind \notin DialogKinds, NEW e, NEW from, from # "dialog", NEW arg,
         Ask(kind, e, from, arg), UNCHANGED <<masks, dialog>>, trouble \subseteq trouble'
  PROVE  MaskInv'
<1>1. PICK d : calls' = calls \cup {d} /\ d.kind = kind /\ d.from = from
  BY AskIs DEF Ask
<1>2. \A c \in calls' : c \in calls \/ (c.kind \notin DialogKinds /\ c.from # "dialog")
  BY <1>1
<1> QED BY <1>2, MaskKept

(* A request of another page is heard of, or left.                            *)
LEMMA MaskHeard ==
  ASSUME PageInv, MaskInv, NEW c \in calls, c.from \in {"catalog", "maker"}, NEW ok, Hears(c, ok), UNCHANGED <<masks, dialog>>
  PROVE  MaskInv'
<1>1. CASE calls' = calls \ {c} /\ UNCHANGED trouble
  BY <1>1, MaskKept
<1>2. CASE "lost" \in trouble'
  BY <1>2 DEF MaskInv
<1> QED BY <1>1, <1>2 DEF Hears, Trouble

LEMMA MaskLeft ==
  ASSUME PageInv, MaskInv, NEW e, LeavePage(e) PROVE MaskInv'
<1>1. /\ calls' = Without({c \in calls : c.from = "maker"}) /\ UNCHANGED <<masks, dialog>> /\ trouble \subseteq trouble'
  BY DEF LeavePage, LeftBy, Maker, server, Trouble
<1>2. AreCalls(calls, made) /\ made \in Nat
  BY DEF PageInv, Shaped
<1>3. \A d \in calls' : d \in calls \/ (d.from = "nobody" /\ \E c \in {x \in calls : x.from = "maker"} : d.kind = c.kind)
  BY <1>1, <1>2, WithoutIs
<1>4. \A c \in calls : c.from = "maker" => c.kind \in {"generate", "publish"}
  BY AwaitedBy
<1>5. \A d \in calls' : d \in calls \/ (d.kind \notin DialogKinds /\ d.from # "dialog")
  BY <1>3, <1>4 DEF DialogKinds
<1> QED BY <1>1, <1>5, MaskKept

LEMMA MaskAtCatalog == ASSUME PageInv, MaskInv, AtCatalog PROVE MaskInv'
<1>1. CASE SaveTransform
  BY <1>1, MaskAsked DEF SaveTransform, server, DialogKinds
<1>2. CASE OpenDialog
  <2>1. dialog' = Opened(catalog.sprite) /\ UNCHANGED <<masks, calls, trouble>> /\ ~Open
    BY <1>2 DEF OpenDialog, Shows, Dialog, server
  <2>2. From(calls, "dialog") = {}
    BY <2>1, NotAwaited DEF Open, Closed, Awaited
  <2>3. dialog'.inv = None /\ dialog'.primary = None /\ dialog'.req = None
    BY <2>1 DEF Opened
  <2>4. Shown'
    BY <2>3 DEF Shown
  <2> QED BY <2>1, <2>2, <2>4 DEF MaskInv, From
<1>3. ASSUME UNCHANGED <<masks, dialog, calls, trouble>> PROVE MaskInv'
  BY <1>3, MaskKept
<1> QED BY <1>1, <1>2, <1>3 DEF AtCatalog, SelectSprite, OpenTool, Choose, CloseTool, server

LEMMA MaskAtMaker == ASSUME PageInv, MaskInv, AtMaker PROVE MaskInv'
<1>1. CASE Generate \/ PublishSprite
  BY <1>1, MaskAsked DEF Generate, PublishSprite, Maker, server, DialogKinds
<1>2. ASSUME UNCHANGED <<masks, dialog, calls>>, trouble \subseteq trouble' PROVE MaskInv'
  BY <1>2, MaskKept
<1>3. ASSUME NEW e, NEW ok \in BOOLEAN, HistoryArrives(e, ok) PROVE MaskInv'
  BY <1>2, <1>3 DEF HistoryArrives, Maker, server, Trouble
<1> QED
  BY <1>1, <1>2, <1>3, MaskLeft
  DEF AtMaker, SelectEntity, StartReview, ChooseSize, ChooseFront, Back, CloseReview, Displays, Maker, server

(* The dialog asks for something, or changes what it shows.                   *)
LEMMA MaskSends ==
  ASSUME MaskInv, "lost" \notin trouble, NEW rest \in SUBSET calls, From(rest, "dialog") = {},
         NEW kind, NEW e, NEW arg,
         AskAfter(rest, kind, e, "dialog", arg), UNCHANGED masks, Shown',
         \A d : d.n = made + 1 /\ d.kind = kind /\ d.arg = arg /\ d.at = "asked" /\ d.set = <<>> => Due(d)'
  PROVE  MaskInv'
<1>1. PICK d : /\ calls' = rest \cup {d} /\ d.n = made + 1 /\ d.kind = kind /\ d.from = "dialog" /\ d.arg = arg
               /\ d.at = "asked" /\ d.set = <<>>
  BY AskIs
<1>2. From(calls', "dialog") = {d} /\ Due(d)'
  BY <1>1 DEF From
<1>3. \A c \in calls' : c.kind \in DialogKinds => c.from = "dialog"
  BY <1>1 DEF MaskInv
<1>4. IsMasks(masks')
  BY DEF MaskInv
<1> QED BY <1>2, <1>3, <1>4 DEF MaskInv

LEMMA MaskShows ==
  ASSUME MaskInv, "lost" \notin trouble, calls' \subseteq calls, From(calls', "dialog") = {}, UNCHANGED masks, Shown'
  PROVE  MaskInv'
<1>1. (\A c \in calls' : c.kind \in DialogKinds => c.from = "dialog") /\ IsMasks(masks')
  BY DEF MaskInv
<1> QED BY <1>1 DEF MaskInv

LEMMA MaskForgets ==
  ASSUME PageInv, MaskInv, Open, Forgets, \A c \in From(calls, "dialog") : c.kind # "masks" PROVE MaskInv'
<1> SUFFICES ASSUME "lost" \notin trouble' PROVE MaskInv'
  BY DEF MaskInv
<1>1. /\ dialog' = Closed /\ calls' \subseteq calls /\ UNCHANGED trouble
      /\ masks' = Restrict(masks, {c.arg.req : c \in {d \in calls : d.kind = "masks"}})
  BY DEF Forgets
<1>2. From(calls', "dialog") = {}
  BY ForgottenIs
<1>3. \A c \in calls : c.kind \in DialogKinds => c.from = "dialog"
  BY <1>1 DEF MaskInv
<1>4. IsMasks(masks')
  <2>1. {d \in calls : d.kind = "masks"} = {}
    BY <1>3 DEF DialogKinds, From
  <2>2. PICK K : K = {c.arg.req : c \in {d \in calls : d.kind = "masks"}}
    OBVIOUS
  <2>3. K = {} /\ masks' = [n \in K |-> masks[n]]
    BY <1>1, <2>1, <2>2 DEF Restrict
  <2> QED BY <2>3 DEF IsMasks
<1>5. ~Open'
  BY <1>1 DEF Open
<1>6. \A c \in calls' : c.kind \in DialogKinds => c.from = "dialog"
  BY <1>1, <1>3
<1> QED BY <1>2, <1>4, <1>5, <1>6 DEF MaskInv

LEMMA MaskAtDialog == ASSUME PageInv, MaskInv, AtDialog PROVE MaskInv'
<1> SUFFICES ASSUME "lost" \notin trouble' PROVE MaskInv'
  BY DEF MaskInv
<1>1. "lost" \notin trouble
  BY DEF AtDialog, StartGeneration, Regenerate, ToggleInvariants, SaveMasks, SavedTimer, CloseDialog, Shows, Forgets
<1>2. Shaped /\ Open /\ Shown
  <2>1. Open
    BY DEF AtDialog, StartGeneration, Regenerate, ToggleInvariants, SaveMasks, SavedTimer, CloseDialog
  <2> QED BY <1>1, <2>1 DEF PageInv, MaskInv
<1>3. dialog = [f \in DialogFields |-> dialog[f]]
  BY <1>2, DialogIs
<1>4. CASE StartGeneration
  <2>1. From(calls, "dialog") = {}
    BY <1>4, NotAwaited DEF StartGeneration, Busy, Awaited
  <2>2. dialog' = [dialog EXCEPT !.upscaling = TRUE, !.phase = "upscaling", !.req = None, !.inv = None, !.primary = None]
        /\ UNCHANGED masks /\ AskAfter(calls, "upscale", dialog.for, "dialog", None)
    BY <1>4 DEF StartGeneration, Dialog, server, Ask
  <2>3. dialog'.req = None /\ dialog'.inv = None /\ dialog'.primary = None
    BY <1>3, <2>2 DEF DialogFields
  <2>4. Shown'
    BY <2>3 DEF Shown
  <2>5. \A d : d.kind = "upscale" /\ d.at = "asked" => Due(d)'
    BY <2>3 DEF Due, Enlarging
  <2> QED BY <1>1, <2>1, <2>2, <2>4, <2>5, MaskSends
<1>5. CASE Regenerate
  <2>1. From(calls, "dialog") = {} /\ dialog.req # None
    BY <1>5, NotAwaited DEF Regenerate, Busy, Awaited
  <2>2. PICK a : a = [req |-> dialog.req, skip |-> ~dialog.include]
    OBVIOUS
  <2>3. dialog' = Making(dialog) /\ UNCHANGED masks /\ AskAfter(calls, "invariants", dialog.for, "dialog", a)
    BY <1>5, <2>2 DEF Regenerate, Dialog, server, Ask
  <2>4. dialog'.req = dialog.req /\ dialog'.include = dialog.include /\ dialog'.inv = None /\ dialog'.primary = None
    BY <1>3, <2>3, MakingIs
  <2>5. Shown'
    BY <1>2, <2>1, <2>3, <2>4 DEF Shown
  <2>6. a.req = dialog.req /\ (a.skip <=> ~dialog.include)
    BY <2>2
  <2>7. \A d : d.kind = "invariants" /\ d.arg = a /\ d.at = "asked" => Due(d)'
    BY <2>1, <2>4, <2>6 DEF Due, MakingInvariants
  <2> QED BY <1>1, <2>1, <2>3, <2>5, <2>7, MaskSends
<1>6. CASE ToggleInvariants
  <2>1. From(calls, "dialog") = {} /\ UNCHANGED <<calls, masks>>
    BY <1>6, NotAwaited DEF ToggleInvariants, Busy, Awaited, Shows, Dialog, server
  <2>2. PICK i : i = ~dialog.include
    OBVIOUS
  <2>3. \/ dialog.req = None /\ dialog' = [dialog EXCEPT !.include = i]
        \/ dialog.req # None /\ dialog' = [dialog EXCEPT !.include = i, !.inv = None, !.primary = None, !.phase = "upscaled"]
    BY <1>6, <2>2 DEF ToggleInvariants, Shows, Dialog
  <2>4. dialog'.req = dialog.req /\ dialog'.inv = None /\ dialog'.primary = None
    BY <1>2, <1>3, <2>3 DEF DialogFields, Shown
  <2>5. Shown'
    BY <1>2, <2>1, <2>4 DEF Shown
  <2> QED BY <1>1, <2>1, <2>5, MaskShows
<1>7. CASE SaveMasks
  <2>1. From(calls, "dialog") = {} /\ dialog.inv # None /\ dialog.primary # None
    BY <1>7, NotAwaited DEF SaveMasks, Busy, Awaited
  <2>2. PICK a : a = [req |-> dialog.req, inv |-> dialog.inv, primary |-> dialog.primary, include |-> dialog.include]
    OBVIOUS
  <2>3. dialog' = [dialog EXCEPT !.saving = TRUE, !.phase = "saving"] /\ UNCHANGED masks
        /\ AskAfter(calls, "masks", dialog.for, "dialog", a)
    BY <1>7, <2>2 DEF SaveMasks, Dialog, server, Ask
  <2>4. /\ dialog'.req = dialog.req /\ dialog'.include = dialog.include
        /\ dialog'.inv = dialog.inv /\ dialog'.primary = dialog.primary
    BY <1>3, <2>3 DEF DialogFields
  <2>5. Shown'
    BY <1>2, <2>3, <2>4 DEF Shown, HasInvariants, HasPrimary
  <2>6. a.req = dialog.req /\ a.inv = dialog.inv /\ a.primary = dialog.primary /\ a.include = dialog.include
    BY <2>2
  <2>7. \A d : d.kind = "masks" /\ d.arg = a /\ d.set = <<>> => Due(d)'
    BY <2>1, <2>4, <2>6 DEF Due, Saving
  <2> QED BY <1>1, <2>1, <2>3, <2>5, <2>7, MaskSends
<1>8. CASE SavedTimer
  <2>1. From(calls, "dialog") = {}
    BY <1>8, NotAwaited DEF SavedTimer, Awaited
  <2> QED BY <1>2, <1>8, <2>1, MaskForgets DEF SavedTimer
<1>9. CASE CloseDialog
  <2>1. \A c \in From(calls, "dialog") : c.kind # "masks"
    BY <1>9 DEF CloseDialog, PageInv, Waiting
  <2> QED BY <1>2, <1>9, <2>1, MaskForgets DEF CloseDialog
<1> QED BY <1>4, <1>5, <1>6, <1>7, <1>8, <1>9 DEF AtDialog

LEMMA MaskHeardDialog ==
  ASSUME PageInv, MaskInv, NEW c \in calls, NEW ok,
         HearUpscale(c, ok) \/ HearInvariants(c, ok) \/ HearPrimary(c, ok) \/ HearMasks(c, ok)
  PROVE  MaskInv'
<1> SUFFICES ASSUME "lost" \notin trouble' PROVE MaskInv'
  BY DEF MaskInv
<1>1. c.from = "dialog" /\ UNCHANGED masks /\ (Hears(c, ok) \/ UNCHANGED trouble)
  BY DEF HearUpscale, HearInvariants, HearPrimary, HearMasks, Dialog, server
<1>2. Shaped /\ Open /\ "lost" \notin trouble
  <2>1. Shaped /\ Open
    BY <1>1, AwaitedBy DEF PageInv
  <2> QED BY <1>1, <2>1, HearsIs
<1>3. From(calls, "dialog") = {c} /\ Shown /\ Due(c) /\ c.n \in Nat
  <2>1. From(calls, "dialog") = {c}
    BY <1>1, AwaitedBy
  <2> QED BY <1>2, <2>1 DEF MaskInv, Shaped, AreCalls
<1>4. dialog = [f \in DialogFields |-> dialog[f]]
  BY <1>2, DialogIs
<1>5. Hears(c, ok) => calls' = calls \ {c} /\ c.at = (IF ok THEN "done" ELSE "failed")
  BY DEF Hears, Trouble
<1>6. calls \ {c} \in SUBSET calls /\ From(calls \ {c}, "dialog") = {}
  BY <1>3 DEF From
<1>7. c.n # None
  BY <1>3, StudioAssumption
<1>8. CASE HearUpscale(c, ok)
  <2>1. Enlarging(c)
    BY <1>3, <1>8 DEF HearUpscale, Due
  <2>2. CASE ok
    <3>1. PICK x : x = [dialog EXCEPT !.req = c.n]
      OBVIOUS
    <3>2. PICK a : a = [req |-> c.n, skip |-> ~dialog.include]
      OBVIOUS
    <3>3. dialog' = Making(x) /\ AskAfter(calls \ {c}, "invariants", dialog.for, "dialog", a) /\ c.at = "done"
      BY <1>8, <2>2, <3>1, <3>2 DEF HearUpscale, Dialog
    <3>4. x = [f \in DialogFields |-> x[f]] /\ x.req = c.n /\ x.include = dialog.include
      BY <1>4, <3>1 DEF DialogFields
    <3>5. dialog'.req = c.n /\ dialog'.include = dialog.include /\ dialog'.inv = None /\ dialog'.primary = None
      BY <3>3, <3>4, MakingIs
    <3>6. Shown'
      BY <1>1, <1>7, <2>1, <3>3, <3>5 DEF Shown, Enlarging
    <3>7. a.req = c.n /\ (a.skip <=> ~dialog.include)
      BY <3>2
    <3>8. \A d : d.kind = "invariants" /\ d.arg = a /\ d.at = "asked" => Due(d)'
      BY <1>7, <3>5, <3>7 DEF Due, MakingInvariants
    <3> QED BY <1>1, <1>2, <1>6, <3>3, <3>6, <3>8, MaskSends
  <2>3. CASE ~ok
    <3>1. Hears(c, ok) /\ dialog' = [dialog EXCEPT !.upscaling = FALSE, !.phase = "error"]
      BY <1>8, <2>3 DEF HearUpscale, Dialog
    <3>2. dialog'.req = dialog.req /\ dialog'.inv = dialog.inv /\ dialog'.primary = dialog.primary
          /\ dialog'.include = dialog.include
      BY <1>4, <3>1 DEF DialogFields
    <3>3. Shown'
      BY <1>1, <1>3, <3>2 DEF Shown, HasInvariants, HasPrimary
    <3> QED BY <1>1, <1>2, <1>5, <1>6, <3>1, <3>3, MaskShows
  <2> QED BY <2>2, <2>3
<1>9. CASE HearInvariants(c, ok)
  <2>1. MakingInvariants(c)
    BY <1>3, <1>9 DEF HearInvariants, Due
  <2>2. CASE ok
    <3>1. PICK a : a = [req |-> dialog.req]
      OBVIOUS
    <3>2. dialog' = [dialog EXCEPT !.inv = c.n, !.phase = "generating"] /\ c.at = "done"
          /\ AskAfter(calls \ {c}, "primary", dialog.for, "dialog", a)
      BY <1>9, <2>2, <3>1 DEF HearInvariants, Dialog
    <3>3. dialog'.req = dialog.req /\ dialog'.inv = c.n /\ dialog'.primary = None /\ dialog'.include = dialog.include
      BY <1>4, <2>1, <3>2 DEF DialogFields, MakingInvariants
    <3>4. Shown'
      BY <1>1, <1>3, <2>1, <3>2, <3>3 DEF Shown, MakingInvariants, HasInvariants
    <3>5. a.req = dialog.req
      BY <3>1
    <3>6. \A d : d.kind = "primary" /\ d.arg = a /\ d.at = "asked" => Due(d)'
      BY <1>7, <2>1, <3>3, <3>5 DEF Due, MakingPrimary, MakingInvariants
    <3> QED BY <1>1, <1>2, <1>6, <3>2, <3>4, <3>6, MaskSends
  <2>3. CASE ~ok
    <3>1. Hears(c, ok) /\ dialog' = [dialog EXCEPT !.making = FALSE, !.phase = "upscaled"]
      BY <1>9, <2>3 DEF HearInvariants, Dialog
    <3>2. dialog'.req = dialog.req /\ dialog'.inv = dialog.inv /\ dialog'.primary = dialog.primary
          /\ dialog'.include = dialog.include
      BY <1>4, <3>1 DEF DialogFields
    <3>3. Shown'
      BY <1>1, <1>3, <3>2 DEF Shown, HasInvariants, HasPrimary
    <3> QED BY <1>1, <1>2, <1>5, <1>6, <3>1, <3>3, MaskShows
  <2> QED BY <2>2, <2>3
<1>10. CASE HearPrimary(c, ok)
  <2>1. MakingPrimary(c)
    BY <1>3, <1>10 DEF HearPrimary, Due
  <2>2. PICK x : x = IF ok THEN c.n ELSE None
    OBVIOUS
  <2>3. Hears(c, ok) /\ dialog' = [dialog EXCEPT !.making = FALSE, !.phase = "ready", !.primary = x]
    BY <1>10, <2>2 DEF HearPrimary, Dialog
  <2>4. dialog'.req = dialog.req /\ dialog'.inv = dialog.inv /\ dialog'.primary = x /\ dialog'.include = dialog.include
    BY <1>4, <2>3 DEF DialogFields
  <2>5. x # None => HasPrimary(x)
    BY <1>5, <2>1, <2>2, <2>3 DEF MakingPrimary
  <2>6. Shown'
    BY <1>1, <1>3, <2>1, <2>4, <2>5 DEF Shown, HasInvariants, HasPrimary, MakingPrimary
  <2> QED BY <1>1, <1>2, <1>5, <1>6, <2>3, <2>6, MaskShows
<1>11. CASE HearMasks(c, ok)
  <2>1. Hears(c, ok)
        /\ (dialog' = [dialog EXCEPT !.phase = "saved"] \/ dialog' = [dialog EXCEPT !.saving = FALSE, !.phase = "ready"])
    BY <1>11 DEF HearMasks, Dialog
  <2>2. dialog'.req = dialog.req /\ dialog'.inv = dialog.inv /\ dialog'.primary = dialog.primary
        /\ dialog'.include = dialog.include
    BY <1>4, <2>1 DEF DialogFields
  <2>3. Shown'
    BY <1>1, <1>3, <2>2 DEF Shown, HasInvariants, HasPrimary
  <2> QED BY <1>1, <1>2, <1>5, <1>6, <2>1, <2>3, MaskShows
<1> QED BY <1>8, <1>9, <1>10, <1>11

LEMMA MaskNext == ASSUME PageInv, MaskInv, [Next]_vars PROVE MaskInv'
<1>1. ASSUME NEW c \in calls, Heard(c) PROVE MaskInv'
  <2>1. CASE HearStart(c) \/ HearCandidate(c)
    BY <2>1, MaskKept DEF HearStart, HearCandidate, Displays, Maker, server
  <2>2. ASSUME NEW ok, HearTransform(c, ok) \/ HearEnd(c, ok) \/ HearPublish(c, ok) PROVE MaskInv'
    BY <2>2, MaskHeard DEF HearTransform, HearEnd, HearPublish, Maker, server
  <2> QED BY <1>1, <2>1, <2>2, MaskHeardDialog DEF Heard
<1>2. ASSUME NEW kind \in {"upload", "transform"}, NEW e \in Entities, Elsewhere(kind, e) PROVE MaskInv'
  BY <1>2, MaskAsked DEF Elsewhere, server, pages, Trouble, DialogKinds
<1>3. ASSUME NEW w \in stray, StrayLands(w) PROVE MaskInv'
  BY <1>3, MaskKept DEF StrayLands, pages
<1>4. CASE UNCHANGED vars
  BY <1>4, MaskKept DEF vars, server, pages
<1> QED BY <1>1, <1>2, <1>3, <1>4, MaskAtCatalog, MaskAtDialog, MaskAtMaker, MaskServer DEF Next

(* The masks that are published are those the dialog has shown: of one make,  *)
(* the primary one cut with the invariant mask beside it, made with the       *)
(* switch as it stands, until a line breaks while the dialog waits.           *)
THEOREM SavesAreWhatWasShown == Spec => []SaveIsWhatWasShown
<1>1. PageInv /\ MaskInv => SaveIsWhatWasShown
  <2> SUFFICES ASSUME PageInv, MaskInv, "lost" \notin trouble, NEW c \in calls, c.kind = "masks", c.set # <<>>
               PROVE  /\ c.set["primary"].of = <<c.arg.primary, 0>>
                      /\ c.set["invariants"].of = <<c.arg.inv, 0>>
                      /\ masks[c.arg.req].primary.cut = c.arg.inv
                      /\ masks[c.arg.req].invariants.empty <=> ~c.arg.include
    BY DEF SaveIsWhatWasShown
  <2>1. Shown /\ Saving(c)
    BY OnlyOne DEF DialogKinds, Due
  <2> QED BY <2>1 DEF Shown, Saving, HasInvariants, HasPrimary
<1>2. Init => PageInv /\ MaskInv
  BY PageInit, MaskInit
<1>3. PageInv /\ MaskInv /\ [Next]_vars => (PageInv /\ MaskInv)'
  BY PageNext, MaskNext
<1> QED BY <1>1, <1>2, <1>3, PTL DEF Spec

-----------------------------------------------------------------------------
(* Definitions.                                                               *)

Definitions == [Editing!Ids -> Int \cup {None}]
SpawnTexts == [text : Int, names : SUBSET Types]

(* Neither section is ever empty: an edit gives the definition it takes away  *)
(* another id of the same section.                                            *)
Stocked(defs) ==
  /\ \E i \in Types : defs[i] # None
  /\ \E i \in Technologies : defs[i] # None

EditCalls ==
  [kind : {"put", "post", "spawn"}, id : Editing!Keys, newId : Editing!Keys, text : Int \cup SpawnTexts,
   at : {"waiting", "read", "ok", "refused", "failed"}, left : SUBSET {"content", "spawn"},
   content : Definitions \cup {None}, spawn : SpawnTexts \cup {None}]

(* What a request asks for, and what it has in hand while it has something    *)
(* to write.                                                                  *)
Asks(c) ==
  /\ c.kind = "spawn" => c.text \in SpawnTexts /\ c.id = "spawn"
  /\ c.kind # "spawn" =>
       /\ c.text \in Int
       /\ \/ c.id \in Types /\ c.newId \in Types
          \/ c.id \in Technologies /\ c.newId \in Technologies

Holds(c) ==
  /\ c.left # {} => c.at \in {"read", "failed"}
  /\ c.kind = "spawn" => c.left \subseteq {"spawn"}
  /\ c.kind # "spawn" /\ c.left # {} =>
       /\ c.content \in Definitions /\ Stocked(c.content) /\ c.spawn \in SpawnTexts
       /\ "spawn" \in c.left => c.kind = "put" /\ c.id \in Types

Draft0 == [yaml : Int \cup SpawnTexts, base : Int \cup SpawnTexts]

TabsOf ==
  [kind : Editing!Kinds, known : Definitions, spawn : SpawnTexts \cup {None}, sel : Editing!Ids,
   draft : Int \cup {None}, name : Editing!Ids \cup {None}, drafts : [Editing!Keys -> Draft0 \cup {None}], asks : SUBSET Nat]

Sound(tab) ==
  /\ tab.kind = "spawn" => tab.spawn \in SpawnTexts
  /\ tab.sel \in Editing!SectionOf(tab.kind)
  /\ tab.name # None => tab.name \in Editing!SectionOf(tab.kind)
  /\ tab.kind \in {"entities", "techtree"} => tab.known[tab.sel] # None
  /\ \A i \in Editing!Ids : tab.drafts[i] # None => tab.drafts[i].yaml \in Int
  /\ tab.drafts["spawn"] # None => tab.drafts["spawn"].yaml \in SpawnTexts

(* What a tab waits for is of its kind.                                       *)
Fits(tab, c) ==
  /\ tab.kind = "spawn" <=> c.kind = "spawn"
  /\ tab.kind = "balance" => c.kind = "put" /\ c.newId = c.id
  /\ tab.kind \in {"entities", "techtree"} => c.id \in Editing!SectionOf(tab.kind) /\ c.newId \in Editing!SectionOf(tab.kind)

AllFit(tab, asked) == \A n \in tab.asks : n \in 1..Len(asked) /\ Fits(tab, asked[n])

TypedFiles ==
  /\ content \in [content : Definitions, spawn : SpawnTexts, art : SUBSET Types]
  /\ Stocked(content.content)
TypedCalls ==
  /\ edits \in Seq(EditCalls)
  /\ \A n \in 1..Len(edits) : Asks(edits[n]) /\ Holds(edits[n])
TypedTabs ==
  /\ tabs \in [Tabs -> TabsOf]
  /\ \A t \in Tabs : Sound(tabs[t]) /\ AllFit(tabs[t], edits)
TypedRest ==
  /\ texts \in Nat /\ upsets \in Nat
  /\ past \in [content : [Editing!Ids -> SUBSET (Int \cup {None})], spawn : SUBSET SpawnTexts,
               sum : Definitions, spoiled : BOOLEAN]

TypedEditing == TypedFiles /\ TypedCalls /\ TypedTabs /\ TypedRest

-----------------------------------------------------------------------------
LEMMA TabIsSound ==
  ASSUME TypedFiles, NEW kind \in Editing!Kinds
  PROVE  /\ Editing!Tab(kind) \in TabsOf /\ Sound(Editing!Tab(kind))
         /\ Editing!Tab(kind).asks = {} /\ Editing!Tab(kind).kind = kind
         /\ Editing!Tab(kind).drafts = Editing!NoDrafts
<1>1. PICK i \in Editing!SectionOf(kind) : content.content[i] # None
  BY DEF TypedFiles, Stocked, Editing!SectionOf
<1> DEFINE sel == CHOOSE j \in Editing!SectionOf(kind) : content.content[j] # None
<1>2. sel \in Editing!SectionOf(kind) /\ content.content[sel] # None
  BY <1>1
<1>3. Editing!Tab(kind).sel = sel
  BY DEF Editing!Tab
<1> HIDE DEF sel
<1>4. Editing!SectionOf(kind) \subseteq Editing!Ids
  BY DEF Editing!SectionOf, Editing!Ids
<1>5. Editing!Unread \in Definitions /\ content.content \in Definitions /\ content.spawn \in SpawnTexts
  BY DEF Editing!Unread, Definitions, TypedFiles
<1>6. Editing!NoDrafts \in [Editing!Keys -> Draft0 \cup {None}] /\ \A k \in Editing!Keys : Editing!NoDrafts[k] = None
  BY DEF Editing!NoDrafts
<1>7. Editing!Ids \subseteq Editing!Keys /\ "spawn" \in Editing!Keys
  BY DEF Editing!Keys
<1>8. Editing!Tab(kind) = [kind |-> kind, known |-> IF kind = "spawn" THEN Editing!Unread ELSE content.content,
   spawn |-> IF kind = "spawn" THEN content.spawn ELSE None, sel |-> sel,
   draft |-> None, name |-> None, drafts |-> Editing!NoDrafts, asks |-> {}]
  BY DEF Editing!Tab, sel
<1> QED
  BY <1>2, <1>4, <1>5, <1>6, <1>7, <1>8 DEF TabsOf, Sound, Editing!Kinds

LEMMA TypedEditingInit == Editing!InitEditing => TypedEditing
<1> SUFFICES ASSUME Editing!InitEditing PROVE TypedEditing
  OBVIOUS
<1> USE EditingAssumption
<1>1. TypedFiles
  BY DEF Editing!InitEditing, TypedFiles, Definitions, SpawnTexts, Stocked, Editing!Ids
<1>2. TypedCalls
  BY DEF Editing!InitEditing, TypedCalls
<1>3. TypedTabs
  <2>1. tabs \in [Tabs -> {Editing!Tab(k) : k \in Editing!Kinds}]
    BY DEF Editing!InitEditing
  <2>2. \A t \in Tabs : \E k \in Editing!Kinds : tabs[t] = Editing!Tab(k)
    BY <2>1
  <2> QED
    BY <1>1, <2>1, <2>2, TabIsSound DEF TypedTabs, AllFit
<1>4. TypedRest
  BY <1>1 DEF Editing!InitEditing, TypedRest, TypedFiles, Definitions
<1> QED
  BY <1>1, <1>2, <1>3, <1>4 DEF TypedEditing

-----------------------------------------------------------------------------
(* The server.                                                                *)

(* A step of the server is about one request and leaves what it asks for.     *)
SameAsk(c, d) == d.kind = c.kind /\ d.id = c.id /\ d.newId = c.newId /\ d.text = c.text

Serves(n) ==
  /\ n \in 1..Len(edits) /\ Len(edits') = Len(edits)
  /\ \A m \in 1..Len(edits) : m # n => edits'[m] = edits[m]
  /\ SameAsk(edits[n], edits'[n])

LEMMA CallReplaced ==
  ASSUME TypedCalls, NEW n \in 1..Len(edits), NEW d \in EditCalls, edits' = [edits EXCEPT ![n] = d],
         SameAsk(edits[n], d), Holds(d)
  PROVE  Serves(n) /\ TypedCalls' /\ edits'[n] = d
<1>1. edits \in Seq(EditCalls)
  BY DEF TypedCalls
<1>2. edits' \in Seq(EditCalls) /\ Len(edits') = Len(edits)
  BY <1>1
<1>3. \A m \in 1..Len(edits) : edits'[m] = IF m = n THEN d ELSE edits[m]
  BY <1>1
<1>4. \A m \in 1..Len(edits') : Asks(edits'[m]) /\ Holds(edits'[m])
  BY <1>2, <1>3 DEF TypedCalls, Asks, SameAsk
<1> QED
  BY <1>2, <1>3, <1>4 DEF TypedCalls, Serves

LEMMA CallsAre ==
  ASSUME TypedCalls, NEW n \in 1..Len(edits)
  PROVE  edits[n] \in EditCalls /\ Asks(edits[n]) /\ Holds(edits[n])
  BY DEF TypedCalls

LEMMA TabsStay ==
  ASSUME TypedTabs, NEW n, Serves(n), UNCHANGED tabs
  PROVE  TypedTabs'
<1>1. \A t \in Tabs : AllFit(tabs[t], edits')
  <2> SUFFICES ASSUME NEW t \in Tabs, NEW m \in tabs[t].asks PROVE m \in 1..Len(edits') /\ Fits(tabs[t], edits'[m])
    BY DEF AllFit
  <2>1. m \in 1..Len(edits) /\ Fits(tabs[t], edits[m])
    BY DEF TypedTabs, AllFit
  <2>2. SameAsk(edits[m], edits'[m])
    BY <2>1 DEF Serves, SameAsk
  <2> QED
    BY <2>1, <2>2 DEF Fits, SameAsk, Serves
<1> QED
  BY <1>1 DEF TypedTabs, AllFit

LEMMA EditIsStocked ==
  ASSUME NEW defs \in Definitions, Stocked(defs), NEW c, Asks(c), c.kind # "spawn"
  PROVE  Editing!Edit(defs, c) \in Definitions /\ Stocked(Editing!Edit(defs, c))
<1> USE EditingAssumption
<1>1. c.id \in Editing!Ids /\ c.newId \in Editing!Ids /\ c.text \in Int
  BY DEF Asks, Editing!Ids
<1>2. Editing!Edit(defs, c) \in Definitions
  BY <1>1 DEF Editing!Edit, Definitions
<1>3. \A i \in Editing!Ids : Editing!Edit(defs, c)[i] = IF i = c.newId THEN c.text
                      ELSE IF i = c.id /\ c.kind = "put" /\ c.newId # c.id THEN None ELSE defs[i]
  BY <1>1 DEF Editing!Edit, Definitions
<1>4. c.text # None
  BY <1>1
<1>5. Types \subseteq Editing!Ids /\ Technologies \subseteq Editing!Ids
  BY DEF Editing!Ids
<1> DEFINE after == Editing!Edit(defs, c)
<1>a. \A i \in Editing!Ids : i \notin {c.id, c.newId} => after[i] = defs[i]
  BY <1>3
<1>b. after[c.newId] # None
  BY <1>1, <1>3, <1>4
<1> HIDE DEF after
<1>6. ASSUME c.id \in Types /\ c.newId \in Types PROVE Stocked(after)
  <2>1. PICK i \in Technologies : defs[i] # None
    BY DEF Stocked
  <2>2. after[i] # None
    BY <1>a, <1>5, <1>6, <2>1
  <2> QED
    BY <1>b, <1>6, <2>2 DEF Stocked
<1>7. ASSUME c.id \in Technologies /\ c.newId \in Technologies PROVE Stocked(after)
  <2>1. PICK i \in Types : defs[i] # None
    BY DEF Stocked
  <2>2. after[i] # None
    BY <1>a, <1>5, <1>7, <2>1
  <2> QED
    BY <1>b, <1>7, <2>2 DEF Stocked
<1>8. Stocked(after)
  BY <1>6, <1>7 DEF Asks
<1> QED
  BY <1>2, <1>8 DEF after

LEMMA TypedReads ==
  ASSUME TypedEditing, NEW n \in 1..Len(edits), Editing!Reads(n)
  PROVE  TypedEditing' /\ Serves(n)
<1> DEFINE c == edits[n]
           ok == Editing!MayEdit(content.content, c) /\ ~Editing!ArtInTheWay(c)
<1>0. c \in EditCalls /\ Asks(c) /\ Holds(c) /\ c.kind # "spawn" /\ c.at = "waiting"
  BY CallsAre DEF TypedEditing, Editing!Reads, Editing!MyTurn, Editing!InLane
<1>1. content.content \in Definitions /\ content.spawn \in SpawnTexts /\ Stocked(content.content)
  BY DEF TypedEditing, TypedFiles
<1>2. c.left = {}
  BY <1>0 DEF Holds
<1>3. TypedCalls' /\ Serves(n)
  <2>1. CASE ok
    <3> DEFINE d == [c EXCEPT !.at = "read", !.left = Editing!Parts(n), !.content = content.content, !.spawn = content.spawn]
    <3>1. edits' = [edits EXCEPT ![n] = d]
      BY <2>1 DEF Editing!Reads, TypedEditing, TypedCalls
    <3>2. Editing!Parts(n) \subseteq {"content", "spawn"} /\ ("spawn" \in Editing!Parts(n) => c.kind = "put" /\ c.id \in Types)
      BY DEF Editing!Parts, Editing!WritesSpawn
    <3>3. d \in EditCalls /\ SameAsk(c, d) /\ Holds(d)
      BY <1>0, <1>1, <3>2 DEF EditCalls, SameAsk, Holds
    <3> QED
      BY <3>1, <3>3, CallReplaced DEF TypedEditing
  <2>2. CASE ~ok
    <3> DEFINE d == [c EXCEPT !.at = "refused"]
    <3>1. edits' = [edits EXCEPT ![n] = d]
      BY <2>2 DEF Editing!Reads, TypedEditing, TypedCalls
    <3>3. d \in EditCalls /\ SameAsk(c, d) /\ Holds(d)
      BY <1>0, <1>2 DEF EditCalls, SameAsk, Holds
    <3> QED
      BY <3>1, <3>3, CallReplaced DEF TypedEditing
  <2> QED
    BY <2>1, <2>2
<1>4. TypedFiles'
  <2>1. CASE ok /\ Editing!Renames(n)
    <3>1. c.id \in Types /\ c.newId \in Types
      BY <1>0, <2>1, EditingAssumption DEF Editing!Renames, Asks
    <3>2. Editing!Renamed(content.art, c) \subseteq Types
      BY <3>1 DEF Editing!Renamed, TypedEditing, TypedFiles
    <3> QED
      BY <2>1, <3>2 DEF Editing!Reads, TypedEditing, TypedFiles
  <2>2. CASE ~(ok /\ Editing!Renames(n))
    BY <2>2 DEF Editing!Reads, TypedEditing, TypedFiles
  <2> QED
    BY <2>1, <2>2
<1>5. TypedRest'
  BY DEF Editing!Reads, TypedEditing, TypedRest
<1> QED
  BY <1>3, <1>4, <1>5, TabsStay DEF TypedEditing, Editing!Reads

(* What is left to write becomes less, and nothing is forgotten before all of *)
(* it is written.                                                             *)
LEMMA WroteServes ==
  ASSUME TypedCalls, NEW n \in 1..Len(edits), NEW piece \in edits[n].left, Editing!Wrote(n, piece)
  PROVE  /\ Serves(n) /\ TypedCalls'
         /\ edits'[n].left = edits[n].left \ {piece}
         /\ edits[n].left = {piece} => edits'[n].at = IF edits[n].at = "read" THEN "ok" ELSE edits[n].at
         /\ edits[n].left # {piece} =>
              /\ edits'[n].at = edits[n].at /\ edits'[n].content = edits[n].content
              /\ edits'[n].spawn = edits[n].spawn
<1> DEFINE c == edits[n]
<1>0. c \in EditCalls /\ Asks(c) /\ Holds(c)
  BY CallsAre
<1>1. CASE c.left = {piece}
  <2> DEFINE d == [c EXCEPT !.left = {}, !.content = None, !.spawn = None, !.at = IF @ = "read" THEN "ok" ELSE @]
  <2>1. edits' = [edits EXCEPT ![n] = d]
    BY <1>1 DEF Editing!Wrote, TypedCalls
  <2>2. d \in EditCalls /\ SameAsk(c, d) /\ Holds(d)
    BY <1>0 DEF EditCalls, SameAsk, Holds
  <2>3. d.left = {} /\ d.at = IF c.at = "read" THEN "ok" ELSE c.at
    BY <1>0 DEF EditCalls
  <2> QED
    BY <1>1, <2>1, <2>2, <2>3, CallReplaced
<1>2. CASE c.left # {piece}
  <2> DEFINE d == [c EXCEPT !.left = @ \ {piece}]
  <2>1. edits' = [edits EXCEPT ![n] = d]
    BY <1>2 DEF Editing!Wrote, TypedCalls
  <2>2. d \in EditCalls /\ SameAsk(c, d) /\ Holds(d)
    BY <1>0 DEF EditCalls, SameAsk, Holds
  <2>3. d.left = c.left \ {piece} /\ d.at = c.at /\ d.content = c.content /\ d.spawn = c.spawn
    BY <1>0 DEF EditCalls
  <2> QED
    BY <1>2, <2>1, <2>2, <2>3, CallReplaced
<1> QED
  BY <1>1, <1>2

LEMMA TypedWrites ==
  ASSUME TypedEditing, NEW n \in 1..Len(edits), Editing!WritesContent(n) \/ Editing!WritesRenamed(n) \/ Editing!SpawnWrites(n)
  PROVE  TypedEditing' /\ Serves(n)
<1> DEFINE c == edits[n]
<1>0. c \in EditCalls /\ Asks(c) /\ Holds(c)
  BY CallsAre DEF TypedEditing
<1>1. CASE Editing!WritesContent(n)
  <2>1. "content" \in c.left /\ c.kind # "spawn" /\ Editing!Wrote(n, "content")
    BY <1>1 DEF Editing!WritesContent, Editing!InLane
  <2>2. Serves(n) /\ TypedCalls'
    BY <2>1, WroteServes DEF TypedEditing
  <2>3. Editing!Edit(c.content, c) \in Definitions /\ Stocked(Editing!Edit(c.content, c))
    BY <1>0, <2>1, EditIsStocked DEF Holds
  <2>4. TypedFiles'
    BY <1>1, <2>3 DEF Editing!WritesContent, TypedEditing, TypedFiles
  <2>5. Editing!Edit(past.sum, c) \in Definitions
    BY <1>0, <2>1 DEF Editing!Edit, Definitions, Asks, Editing!Ids, TypedEditing, TypedRest
  <2>6. TypedRest'
    BY <1>0, <1>1, <2>1, <2>5 DEF Editing!WritesContent, TypedEditing, TypedRest, Asks, Editing!Ids
  <2> QED
    BY <1>1, <2>2, <2>4, <2>6, TabsStay DEF TypedEditing, Editing!WritesContent
<1>2. CASE Editing!WritesRenamed(n)
  <2>1. "spawn" \in c.left /\ c.kind # "spawn" /\ Editing!Wrote(n, "spawn")
    BY <1>2 DEF Editing!WritesRenamed, Editing!InLane
  <2>2. Serves(n) /\ TypedCalls'
    BY <2>1, WroteServes DEF TypedEditing
  <2> DEFINE after == [c.spawn EXCEPT !.names = Editing!Renamed(@, c)]
  <2>3. c.spawn \in SpawnTexts /\ c.id \in Types /\ c.newId \in Types
    BY <1>0, <2>1, EditingAssumption DEF Holds, Asks
  <2>4. after \in SpawnTexts
    BY <2>3 DEF SpawnTexts, Editing!Renamed
  <2> HIDE DEF after
  <2>5. content' = [content EXCEPT !.spawn = after] /\ past' = [past EXCEPT !.spawn = @ \cup {after}]
        /\ UNCHANGED <<tabs, texts, upsets>>
    BY <1>2 DEF Editing!WritesRenamed, after
  <2>6. TypedFiles' /\ TypedRest'
    BY <2>4, <2>5 DEF TypedEditing, TypedFiles, TypedRest
  <2> QED
    BY <2>2, <2>5, <2>6, TabsStay DEF TypedEditing
<1>3. CASE Editing!SpawnWrites(n)
  <2>1. c.kind = "spawn" /\ c.left # {} /\ Editing!Wrote(n, "spawn")
    BY <1>3 DEF Editing!SpawnWrites
  <2>2. "spawn" \in c.left
    BY <1>0, <2>1 DEF Holds
  <2>3. Serves(n) /\ TypedCalls'
    BY <2>1, <2>2, WroteServes DEF TypedEditing
  <2>4. c.text \in SpawnTexts
    BY <1>0, <2>1 DEF Asks
  <2>5. TypedFiles' /\ TypedRest'
    BY <1>3, <2>4 DEF Editing!SpawnWrites, TypedEditing, TypedFiles, TypedRest
  <2> QED
    BY <1>3, <2>3, <2>5, TabsStay DEF TypedEditing, Editing!SpawnWrites
<1> QED
  BY <1>1, <1>2, <1>3

LEMMA TypedSpawnReads ==
  ASSUME TypedEditing, NEW n \in 1..Len(edits), Editing!SpawnReads(n)
  PROVE  TypedEditing' /\ Serves(n)
<1> DEFINE c == edits[n]
           ok == c.text.names \subseteq Editing!Defined(content.content)
           d == [c EXCEPT !.at = IF ok THEN "read" ELSE "refused", !.left = IF ok THEN {"spawn"} ELSE {}]
<1>0. c \in EditCalls /\ Asks(c) /\ Holds(c) /\ c.kind = "spawn"
  BY CallsAre DEF TypedEditing, Editing!SpawnReads
<1>1. edits' = [edits EXCEPT ![n] = d]
  BY DEF Editing!SpawnReads, TypedEditing, TypedCalls
<1>2. d \in EditCalls /\ SameAsk(c, d) /\ Holds(d)
  BY <1>0 DEF EditCalls, SameAsk, Holds
<1>3. TypedCalls' /\ Serves(n)
  BY <1>1, <1>2, CallReplaced DEF TypedEditing
<1>4. TypedFiles'
  BY DEF Editing!SpawnReads, TypedEditing, TypedFiles
<1>5. TypedRest'
  BY DEF Editing!SpawnReads, TypedEditing, TypedRest
<1> QED
  BY <1>3, <1>4, <1>5, TabsStay DEF TypedEditing, Editing!SpawnReads

LEMMA TypedWriteFails ==
  ASSUME TypedEditing, NEW n \in 1..Len(edits), Editing!WriteFails(n)
  PROVE  TypedEditing' /\ Serves(n)
<1> DEFINE c == edits[n]
<1>0. c \in EditCalls /\ Asks(c) /\ Holds(c)
  BY CallsAre DEF TypedEditing
<1>1. PICK piece \in c.left : edits' = [edits EXCEPT ![n].left = @ \ {piece}, ![n].at = "failed"]
  BY DEF Editing!WriteFails
<1> DEFINE d == [c EXCEPT !.left = @ \ {piece}, !.at = "failed"]
<1>2. edits' = [edits EXCEPT ![n] = d]
  BY <1>1 DEF TypedEditing, TypedCalls
<1>3. d \in EditCalls /\ SameAsk(c, d) /\ Holds(d)
  BY <1>0 DEF EditCalls, SameAsk, Holds
<1>4. TypedCalls' /\ Serves(n)
  BY <1>2, <1>3, CallReplaced DEF TypedEditing
<1>5. TypedFiles'
  BY DEF Editing!WriteFails, TypedEditing, TypedFiles
<1>6. TypedRest'
  <2>1. upsets' = upsets + 1 /\ past' = [past EXCEPT !.spoiled = TRUE] /\ UNCHANGED texts
    BY DEF Editing!WriteFails, Editing!Upset
  <2>2. upsets' \in Nat
    BY <2>1 DEF TypedEditing, TypedRest
  <2>3. past' \in [content : [Editing!Ids -> SUBSET (Int \cup {None})], spawn : SUBSET SpawnTexts,
                   sum : Definitions, spoiled : BOOLEAN]
    BY <2>1 DEF TypedEditing, TypedRest
  <2> QED
    BY <2>1, <2>2, <2>3 DEF TypedEditing, TypedRest
<1>7. UNCHANGED tabs
  BY DEF Editing!WriteFails
<1>8. TypedTabs'
  BY <1>4, <1>7, TabsStay DEF TypedEditing
<1> QED
  BY <1>4, <1>5, <1>6, <1>8 DEF TypedEditing

-----------------------------------------------------------------------------
(* The tabs. What an editor takes for saved has been on disk.                 *)

TabKnown(tab) ==
  /\ tab.spawn # None => tab.spawn \in past.spawn
  /\ tab.drafts["spawn"] # None => tab.drafts["spawn"].base \in past.spawn
  /\ \A i \in Editing!Ids : tab.drafts[i] # None => tab.drafts[i].base \in past.content[i]
  /\ \A i \in Editing!Ids : tab.known[i] # None => tab.known[i] \in past.content[i]

FilesWritten ==
  /\ content.spawn \in past.spawn
  /\ \A i \in Editing!Ids : content.content[i] # None => content.content[i] \in past.content[i]

(* A request holds what was on disk when it was read, and when it is answered *)
(* with success its text has been written.                                    *)
Had(p, c) ==
  /\ c.kind # "spawn" /\ c.left # {} =>
       /\ c.spawn \in p.spawn
       /\ \A i \in Editing!Ids : c.content[i] # None => c.content[i] \in p.content[i]
  /\ c.kind # "spawn" /\ c.at \in {"read", "ok"} /\ "content" \notin c.left => c.text \in p.content[c.newId]
  /\ c.kind = "spawn" /\ c.at \in {"read", "ok"} /\ "spawn" \notin c.left => c.text \in p.spawn

CallsWritten == \A n \in 1..Len(edits) : Had(past, edits[n])
TabsKnown == \A t \in Tabs : TabKnown(tabs[t])

AllWritten == FilesWritten /\ CallsWritten /\ TabsKnown

LEMMA KeysAre ==
  /\ Editing!Ids \subseteq Editing!Keys /\ "spawn" \in Editing!Keys /\ Types \subseteq Editing!Ids /\ Technologies \subseteq Editing!Ids
  /\ "spawn" \notin Editing!Ids /\ None \notin Int
  /\ \A kind : Editing!SectionOf(kind) \subseteq Editing!Ids
  BY EditingAssumption DEF Editing!Keys, Editing!Ids, Editing!SectionOf

LEMMA TabIs ==
  ASSUME TypedEditing, NEW t \in Tabs
  PROVE  tabs[t] \in TabsOf /\ Sound(tabs[t]) /\ AllFit(tabs[t], edits)
  BY DEF TypedEditing, TypedTabs

(* What is asked fits a tab of the same kind that has asked no more.           *)
LEMMA FitsAsWell ==
  ASSUME NEW tab, NEW to, to.kind = tab.kind, to.asks \subseteq tab.asks, AllFit(tab, edits)
  PROVE  AllFit(to, edits)
  BY DEF AllFit, Fits

LEMMA TabChanges ==
  ASSUME TypedEditing, TabsKnown, NEW t \in Tabs, NEW to \in TabsOf, Sound(to), TabKnown(to), Editing!Change(t, to),
         past' = past, Len(edits) <= Len(edits'), \A m \in 1..Len(edits) : edits'[m] = edits[m], Len(edits') \in Nat,
         AllFit(to, edits')
  PROVE  TypedTabs' /\ TabsKnown'
<1>1. tabs' \in [Tabs -> TabsOf] /\ \A s \in Tabs : tabs'[s] = IF s = t THEN to ELSE tabs[s]
  BY DEF Editing!Change, TypedEditing, TypedTabs
<1>2. Len(edits) \in Nat
  BY DEF TypedEditing, TypedCalls
<1>3. \A s \in Tabs : Sound(tabs'[s]) /\ AllFit(tabs'[s], edits')
  <2> SUFFICES ASSUME NEW s \in Tabs, s # t PROVE Sound(tabs[s]) /\ AllFit(tabs[s], edits')
    BY <1>1
  <2>1. Sound(tabs[s]) /\ AllFit(tabs[s], edits)
    BY TabIs
  <2> QED
    BY <1>2, <2>1 DEF AllFit
<1>4. \A s \in Tabs : TabKnown(tabs'[s])
  BY <1>1 DEF TabsKnown
<1>5. \A s \in Tabs : TabKnown(tabs[s])'
  BY <1>4 DEF TabKnown
<1> QED
  BY <1>1, <1>3, <1>5 DEF TypedTabs, TabsKnown

LEMMA TabTouched ==
  ASSUME TypedEditing, TabsKnown, NEW t \in Tabs, NEW to \in TabsOf, Sound(to), TabKnown(to), Editing!Touched(t, to),
         AllFit(to, edits)
  PROVE  TypedEditing' /\ TabsKnown'
<1>1. UNCHANGED <<content, edits, texts, upsets, past>> /\ Editing!Change(t, to)
  BY DEF Editing!Touched
<1>2. Len(edits) \in Nat
  BY DEF TypedEditing, TypedCalls
<1>3. TypedTabs' /\ TabsKnown'
  BY <1>1, <1>2, TabChanges
<1>4. TypedFiles' /\ TypedCalls' /\ TypedRest'
  BY <1>1 DEF TypedEditing, TypedFiles, TypedCalls, TypedRest
<1> QED
  BY <1>3, <1>4 DEF TypedEditing

LEMMA TabSends ==
  ASSUME TypedEditing, TabsKnown, NEW t \in Tabs, NEW kind \in {"put", "post", "spawn"}, NEW id \in Editing!Keys, NEW newId \in Editing!Keys,
         NEW text \in Int \cup SpawnTexts, Editing!Send(t, kind, id, newId, text),
         kind = "spawn" => text \in SpawnTexts /\ id = "spawn",
         kind # "spawn" => /\ text \in Int
                           /\ \/ id \in Types /\ newId \in Types
                              \/ id \in Technologies /\ newId \in Technologies,
         tabs[t].kind = "spawn" <=> kind = "spawn",
         tabs[t].kind = "balance" => kind = "put" /\ newId = id,
         tabs[t].kind \in {"entities", "techtree"} =>
           id \in Editing!SectionOf(tabs[t].kind) /\ newId \in Editing!SectionOf(tabs[t].kind)
  PROVE  /\ TypedEditing' /\ TabsKnown' /\ UNCHANGED <<content, past>>
         /\ \E c \in EditCalls : edits' = Append(edits, c) /\ c.at = "waiting" /\ c.left = {} /\ Asks(c)
<1> DEFINE c == [kind |-> kind, id |-> id, newId |-> newId, text |-> text, at |-> "waiting",
                 left |-> {}, content |-> None, spawn |-> None]
           to == [tabs[t] EXCEPT !.asks = @ \cup {Len(edits) + 1}]
<1>1. edits' = Append(edits, c) /\ Editing!Change(t, to) /\ UNCHANGED <<content, texts, upsets, past>>
  BY DEF Editing!Send
<1>2. c \in EditCalls /\ Asks(c) /\ Holds(c) /\ c.at = "waiting" /\ c.left = {} /\ Fits(to, c)
  <2>1. c \in EditCalls /\ c.at = "waiting" /\ c.left = {}
    BY DEF EditCalls
  <2>2. Asks(c) /\ Holds(c)
    BY DEF Asks, Holds
  <2>3. to.kind = tabs[t].kind
    BY TabIs DEF TabsOf
  <2>4. Fits(to, c)
    BY <2>3 DEF Fits
  <2> QED
    BY <2>1, <2>2, <2>4
<1> HIDE DEF c
<1>3. edits \in Seq(EditCalls) /\ Len(edits) \in Nat
  BY DEF TypedEditing, TypedCalls
<1>4. /\ edits' \in Seq(EditCalls) /\ Len(edits') = Len(edits) + 1
      /\ \A m \in 1..Len(edits) : edits'[m] = edits[m]
      /\ edits'[Len(edits) + 1] = c
  BY <1>1, <1>2, <1>3
<1>5. TypedCalls'
  BY <1>2, <1>3, <1>4 DEF TypedEditing, TypedCalls
<1>6. to \in TabsOf /\ Sound(to) /\ AllFit(to, edits')
  <2>1. tabs[t] \in TabsOf /\ Sound(tabs[t]) /\ AllFit(tabs[t], edits)
    BY TabIs
  <2>2. to \in TabsOf /\ Sound(to) /\ to.kind = tabs[t].kind /\ to.asks = tabs[t].asks \cup {Len(edits) + 1}
    BY <2>1, <1>3 DEF TabsOf, Sound
  <2> HIDE DEF to
  <2>3. ASSUME NEW n \in to.asks PROVE n \in 1..Len(edits') /\ Fits(to, edits'[n])
    <3>1. CASE n = Len(edits) + 1
      BY <1>2, <1>3, <1>4, <3>1
    <3>2. CASE n \in tabs[t].asks
      BY <1>3, <1>4, <2>1, <2>2, <3>2 DEF AllFit, Fits
    <3> QED
      BY <2>2, <3>1, <3>2
  <2> QED
    BY <2>2, <2>3 DEF AllFit
<1>7. TabKnown(to)
  <2>1. tabs[t] \in TabsOf /\ TabKnown(tabs[t])
    BY TabIs DEF TabsKnown
  <2> QED
    BY <2>1 DEF TabKnown, TabsOf
<1> HIDE DEF to
<1>8. TypedTabs' /\ TabsKnown'
  BY <1>1, <1>2, <1>3, <1>4, <1>6, <1>7, TabChanges
<1>9. TypedFiles' /\ TypedRest'
  BY <1>1 DEF TypedEditing, TypedFiles, TypedRest
<1> QED
  BY <1>1, <1>2, <1>5, <1>8, <1>9 DEF TypedEditing

-----------------------------------------------------------------------------
LEMMA UserSelects ==
  ASSUME TypedEditing, TabsKnown, NEW t \in Tabs, Editing!SelectEntity(t) \/ Editing!Cancel(t) \/ Editing!TypeName(t)
  PROVE  TypedEditing' /\ TabsKnown'
<1> DEFINE tab == tabs[t]
<1>0. tab \in TabsOf /\ Sound(tab) /\ TabKnown(tab) /\ AllFit(tab, edits)
  BY TabIs DEF TabsKnown
<1>1. CASE Editing!SelectEntity(t)
  <2>1. PICK i \in Editing!Listed(t) : Editing!Touched(t, [tab EXCEPT !.sel = i, !.draft = None, !.name = None])
    BY <1>1 DEF Editing!SelectEntity
  <2> DEFINE to == [tab EXCEPT !.sel = i, !.draft = None, !.name = None]
  <2>2. i \in Editing!SectionOf(tab.kind) /\ tab.known[i] # None /\ i \in Editing!Ids
    BY KeysAre DEF Editing!Listed, Editing!Section
  <2>3. to \in TabsOf /\ Sound(to) /\ TabKnown(to) /\ to.asks = tab.asks /\ to.kind = tab.kind
    BY <1>0, <2>2 DEF TabsOf, Sound, TabKnown
  <2> HIDE DEF to
  <2> QED
    BY <1>0, <2>1, <2>3, FitsAsWell, TabTouched DEF to
<1>2. CASE Editing!Cancel(t)
  <2>1. CASE Editing!Graph(t)
    <3> DEFINE to == [tab EXCEPT !.draft = None, !.name = None]
    <3>1. to \in TabsOf /\ Sound(to) /\ TabKnown(to) /\ to.asks = tab.asks /\ to.kind = tab.kind
      BY <1>0 DEF TabsOf, Sound, TabKnown
    <3>2. Editing!Touched(t, to)
      BY <1>2, <2>1 DEF Editing!Cancel
    <3> HIDE DEF to
    <3> QED
      BY <1>0, <3>1, <3>2, FitsAsWell, TabTouched
  <2>2. CASE ~Editing!Graph(t)
    <3> DEFINE to == [tab EXCEPT !.drafts[tab.sel] = None]
    <3>1. to \in TabsOf /\ Sound(to) /\ TabKnown(to) /\ to.asks = tab.asks /\ to.kind = tab.kind
      BY <1>0, KeysAre DEF TabsOf, Sound, TabKnown
    <3>2. Editing!Touched(t, to)
      BY <1>2, <2>2 DEF Editing!Cancel
    <3> HIDE DEF to
    <3> QED
      BY <1>0, <3>1, <3>2, FitsAsWell, TabTouched
  <2> QED
    BY <2>1, <2>2
<1>3. CASE Editing!TypeName(t)
  <2>1. PICK i \in Editing!Section(t) : Editing!Touched(t, [tab EXCEPT !.name = IF i = tab.sel THEN None ELSE i])
    BY <1>3 DEF Editing!TypeName
  <2> DEFINE name == IF i = tab.sel THEN None ELSE i
             to == [tab EXCEPT !.name = name]
  <2>2. i \in Editing!SectionOf(tab.kind) /\ i \in Editing!Ids
    BY KeysAre DEF Editing!Section
  <2>3. name \in Editing!Ids \cup {None} /\ (name # None => name \in Editing!SectionOf(tab.kind))
    BY <2>2
  <2> HIDE DEF name
  <2>4. to \in TabsOf /\ Sound(to) /\ TabKnown(to) /\ to.asks = tab.asks /\ to.kind = tab.kind
    BY <1>0, <2>3 DEF TabsOf, Sound, TabKnown
  <2> HIDE DEF to
  <2> QED
    BY <1>0, <2>1, <2>4, FitsAsWell, TabTouched DEF to, name
<1> QED
  BY <1>1, <1>2, <1>3

LEMMA UserTypes ==
  ASSUME TypedEditing, TabsKnown, NEW t \in Tabs, Editing!Type(t)
  PROVE  TypedEditing' /\ TabsKnown' /\ UNCHANGED <<content, edits, past>>
<1> DEFINE tab == tabs[t]
<1>0. tab \in TabsOf /\ Sound(tab) /\ TabKnown(tab) /\ AllFit(tab, edits)
  BY TabIs DEF TabsKnown
<1>1. UNCHANGED <<content, edits, upsets, past>> /\ texts' \in Nat /\ texts' \in Int
  BY DEF Editing!Type, TypedEditing, TypedRest
<1>2. PICK to : /\ Editing!Change(t, to) /\ to \in TabsOf /\ Sound(to) /\ TabKnown(to)
                /\ to.asks = tab.asks /\ to.kind = tab.kind
  <2>1. CASE Editing!Graph(t) /\ Editing!Change(t, [tab EXCEPT !.draft = texts'])
    <3> DEFINE to == [tab EXCEPT !.draft = texts']
    <3>1. to \in TabsOf /\ Sound(to) /\ TabKnown(to) /\ to.asks = tab.asks /\ to.kind = tab.kind
      BY <1>0, <1>1 DEF TabsOf, Sound, TabKnown
    <3> QED
      BY <2>1, <3>1
  <2>2. CASE /\ tab.kind = "balance" /\ tab.known[tab.sel] # None
             /\ Editing!Change(t, [tab EXCEPT !.drafts[tab.sel] =
                  [yaml |-> texts', base |-> IF tab.drafts[tab.sel] = None THEN tab.known[tab.sel] ELSE tab.drafts[tab.sel].base]])
    <3> DEFINE base == IF tab.drafts[tab.sel] = None THEN tab.known[tab.sel] ELSE tab.drafts[tab.sel].base
               to == [tab EXCEPT !.drafts[tab.sel] = [yaml |-> texts', base |-> base]]
    <3>1. tab.sel \in Editing!Ids /\ tab.sel \in Editing!Keys /\ tab.sel # "spawn"
      BY <1>0, KeysAre DEF TabsOf
    <3>2. base \in Int \cup SpawnTexts /\ base \in past.content[tab.sel]
      <4>1. CASE tab.drafts[tab.sel] = None
        BY <1>0, <2>2, <3>1, <4>1 DEF TabsOf, TabKnown, Definitions
      <4>2. CASE tab.drafts[tab.sel] # None
        BY <1>0, <3>1, <4>2 DEF TabsOf, TabKnown, Draft0
      <4> QED
        BY <4>1, <4>2
    <3> HIDE DEF base
    <3>3. [yaml |-> texts', base |-> base] \in Draft0
      BY <1>1, <3>2 DEF Draft0
    <3>4. to \in TabsOf /\ to.asks = tab.asks /\ to.kind = tab.kind
      BY <1>0, <3>1, <3>3 DEF TabsOf
    <3>5. Sound(to) /\ TabKnown(to)
      BY <1>0, <1>1, <3>1, <3>2 DEF Sound, TabKnown, TabsOf
    <3> QED
      BY <2>2, <3>4, <3>5 DEF base
  <2>3. CASE /\ tab.kind = "spawn"
             /\ \E names \in SUBSET Types :
                  Editing!Change(t, [tab EXCEPT !.drafts["spawn"] =
                    [yaml |-> [text |-> texts', names |-> names],
                     base |-> IF tab.drafts["spawn"] = None THEN tab.spawn ELSE tab.drafts["spawn"].base]])
    <3> DEFINE base == IF tab.drafts["spawn"] = None THEN tab.spawn ELSE tab.drafts["spawn"].base
    <3>1. PICK names \in SUBSET Types :
            Editing!Change(t, [tab EXCEPT !.drafts["spawn"] = [yaml |-> [text |-> texts', names |-> names], base |-> base]])
      BY <2>3
    <3> DEFINE yaml == [text |-> texts', names |-> names]
               to == [tab EXCEPT !.drafts["spawn"] = [yaml |-> yaml, base |-> base]]
    <3>2. yaml \in SpawnTexts
      BY <1>1 DEF SpawnTexts
    <3>3. base \in Int \cup SpawnTexts /\ base \in past.spawn
      <4>1. past.spawn \subseteq SpawnTexts
        BY DEF TypedEditing, TypedRest
      <4>2. CASE tab.drafts["spawn"] = None
        <5>1. tab.spawn \in SpawnTexts
          BY <1>0, <2>3 DEF Sound
        <5>2. None \notin SpawnTexts
          BY EditingAssumption DEF SpawnTexts
        <5> QED
          BY <1>0, <4>2, <5>1, <5>2 DEF TabKnown
      <4>3. CASE tab.drafts["spawn"] # None
        BY <1>0, <4>1, <4>3 DEF TabKnown
      <4> QED
        BY <4>2, <4>3
    <3> HIDE DEF base, yaml
    <3>4. [yaml |-> yaml, base |-> base] \in Draft0
      BY <3>2, <3>3 DEF Draft0
    <3>5. to \in TabsOf /\ to.asks = tab.asks /\ to.kind = tab.kind
      BY <1>0, <3>4, KeysAre DEF TabsOf
    <3>6. Sound(to) /\ TabKnown(to)
      BY <1>0, <3>2, <3>3, KeysAre DEF Sound, TabKnown, TabsOf
    <3> QED
      BY <3>1, <3>5, <3>6 DEF yaml, base
  <2> QED
    BY <2>1, <2>2, <2>3 DEF Editing!Type
<1>3. Len(edits) \in Nat
  BY DEF TypedEditing, TypedCalls
<1>4. TypedTabs' /\ TabsKnown'
  <2>1. AllFit(to, edits')
    BY <1>0, <1>1, <1>2, FitsAsWell
  <2> QED
    BY <1>1, <1>2, <1>3, <2>1, TabChanges
<1>5. TypedFiles' /\ TypedCalls' /\ TypedRest'
  BY <1>1 DEF TypedEditing, TypedFiles, TypedCalls, TypedRest
<1> QED
  BY <1>1, <1>4, <1>5 DEF TypedEditing

LEMMA UserSends ==
  ASSUME TypedEditing, TabsKnown, NEW t \in Tabs, Editing!SaveDraft(t) \/ Editing!Save(t) \/ Editing!CreateChild(t)
  PROVE  /\ TypedEditing' /\ TabsKnown' /\ UNCHANGED <<content, past>>
         /\ \E c \in EditCalls : edits' = Append(edits, c) /\ c.at = "waiting" /\ c.left = {} /\ Asks(c)
<1> DEFINE tab == tabs[t]
<1>0. tab \in TabsOf /\ Sound(tab)
  BY TabIs
<1>s. \A i \in Editing!Ids : i \in Editing!SectionOf(tab.kind) => Editing!SectionOf(tab.kind) \in {Types, Technologies}
  BY DEF Editing!SectionOf
<1>1. CASE Editing!SaveDraft(t)
  <2>1. Editing!Graph(t) /\ Editing!Send(t, "put", tab.sel, Editing!Name(tab), Editing!Draft(tab))
    BY <1>1 DEF Editing!SaveDraft
  <2>2. tab.kind \in {"entities", "techtree"}
    BY <2>1 DEF Editing!Graph
  <2>3. tab.sel \in Editing!SectionOf(tab.kind) /\ Editing!Name(tab) \in Editing!SectionOf(tab.kind)
    BY <1>0, <2>2 DEF Sound, Editing!Name
  <2>4. Editing!Draft(tab) \in Int
    BY <1>0, <2>2, KeysAre DEF Sound, Editing!Draft, TabsOf, Definitions
  <2>5. \/ tab.sel \in Types /\ Editing!Name(tab) \in Types
        \/ tab.sel \in Technologies /\ Editing!Name(tab) \in Technologies
    BY <2>3 DEF Editing!SectionOf
  <2> QED
    BY <2>1, <2>2, <2>3, <2>4, <2>5, KeysAre, TabSends
<1>2. CASE Editing!Save(t)
  <2> DEFINE key == IF tab.kind = "spawn" THEN "spawn" ELSE tab.sel
  <2>1. /\ ~Editing!Graph(t) /\ Editing!Dirty(tab, key) /\ (key # "spawn" => tab.known[key] # None)
        /\ Editing!Send(t, IF key = "spawn" THEN "spawn" ELSE "put", key, key, Editing!Text(tab, key))
    BY <1>2 DEF Editing!Save
  <2>2. tab.drafts[key] # None /\ Editing!Text(tab, key) = tab.drafts[key].yaml
    BY <2>1 DEF Editing!Dirty, Editing!Text
  <2>3. CASE tab.kind = "spawn"
    <3>1. Editing!Text(tab, "spawn") \in SpawnTexts
      BY <1>0, <2>2, <2>3 DEF Sound
    <3>2. Editing!Send(t, "spawn", "spawn", "spawn", Editing!Text(tab, "spawn"))
      BY <2>1, <2>3
    <3> QED
      BY <2>3, <3>1, <3>2, KeysAre, TabSends
  <2>4. CASE tab.kind # "spawn"
    <3>1. key = tab.sel /\ tab.sel \in Editing!Ids /\ tab.sel # "spawn" /\ tab.sel \in Editing!Keys
      BY <1>0, <2>4, KeysAre DEF TabsOf
    <3>2. Editing!Text(tab, key) \in Int
      BY <1>0, <2>2, <3>1 DEF Sound
    <3>3. Editing!Send(t, "put", tab.sel, tab.sel, Editing!Text(tab, key))
      BY <2>1, <3>1
    <3>4. tab.sel \in Editing!SectionOf(tab.kind)
      BY <1>0 DEF Sound
    <3>5. tab.sel \in Types \/ tab.sel \in Technologies
      BY <3>4 DEF Editing!SectionOf
    <3>6. tab.kind \notin {"entities", "techtree"}
      BY <2>1 DEF Editing!Graph
    <3> HIDE DEF key
    <3> QED
      BY <2>4, <3>1, <3>2, <3>3, <3>4, <3>5, <3>6, TabSends
  <2> QED
    BY <2>3, <2>4
<1>3. CASE Editing!CreateChild(t)
  <2>1. PICK parent \in Editing!Listed(t), child \in Editing!Section(t) \ Editing!Listed(t) :
          /\ Editing!Graph(t)
          /\ Editing!Send(t, "post", parent, child, IF tab.kind = "techtree" THEN Editing!Blank ELSE tab.known[parent])
    BY <1>3 DEF Editing!CreateChild
  <2> DEFINE text == IF tab.kind = "techtree" THEN Editing!Blank ELSE tab.known[parent]
  <2>2. parent \in Editing!SectionOf(tab.kind) /\ child \in Editing!SectionOf(tab.kind) /\ tab.known[parent] # None
    BY DEF Editing!Listed, Editing!Section
  <2>3. tab.kind \in {"entities", "techtree"}
    BY <2>1 DEF Editing!Graph
  <2>4. parent \in Editing!Ids /\ child \in Editing!Ids
    BY <2>2, KeysAre
  <2>5. text \in Int
    BY <1>0, <2>2, <2>4 DEF TabsOf, Definitions, Editing!Blank
  <2>6. \/ parent \in Types /\ child \in Types
        \/ parent \in Technologies /\ child \in Technologies
    BY <2>2 DEF Editing!SectionOf
  <2>7. Editing!Send(t, "post", parent, child, text)
    BY <2>1
  <2> HIDE DEF text
  <2> QED
    BY <2>2, <2>3, <2>4, <2>5, <2>6, <2>7, KeysAre, TabSends
<1> QED
  BY <1>1, <1>2, <1>3

(* A graph that has followed an edit still lists something.                    *)
LEMMA FollowedIsSound ==
  ASSUME NEW tab \in TabsOf, Sound(tab), TabKnown(tab), tab.kind \in {"entities", "techtree"}, NEW c,
         c.id \in Editing!SectionOf(tab.kind), c.newId \in Editing!SectionOf(tab.kind),
         c.text \in Int, c.text \in past.content[c.newId]
  PROVE  LET to == Editing!Followed(tab, c) IN
         to \in TabsOf /\ Sound(to) /\ TabKnown(to) /\ to.asks = tab.asks /\ to.kind = tab.kind
<1> DEFINE section == Editing!SectionOf(tab.kind)
           listed == tab.known[c.id] # None \/ (c.kind = "post" /\ tab.kind = "techtree")
           known == IF listed THEN Editing!Edit(tab.known, c) ELSE tab.known
           first == CHOOSE i \in section : known[i] # None
           sel == IF known[c.newId] # None THEN c.newId ELSE first
           to == Editing!Followed(tab, c)
<1>1. c.id \in Editing!Ids /\ c.newId \in Editing!Ids /\ tab.sel \in section /\ tab.sel \in Editing!Ids /\ section \subseteq Editing!Ids
  BY KeysAre DEF Sound
<1>2. /\ known \in Definitions
      /\ \A i \in Editing!Ids : known[i] # None => known[i] = tab.known[i] \/ (i = c.newId /\ known[i] = c.text)
  BY <1>1 DEF TabsOf, Definitions, Editing!Edit
<1>3. \E i \in section : known[i] # None
  <2>1. CASE listed
    <3>1. known[c.newId] = c.text
      BY <1>1, <2>1 DEF TabsOf, Definitions, Editing!Edit
    <3> QED
      BY <3>1, KeysAre
  <2>2. CASE ~listed
    BY <1>1, <2>2 DEF Sound
  <2> QED
    BY <2>1, <2>2
<1>4. first \in section /\ known[first] # None
  BY <1>3
<1>5. to = IF c.kind = "put" THEN [tab EXCEPT !.known = known, !.sel = sel, !.draft = None, !.name = None]
           ELSE [tab EXCEPT !.known = known, !.sel = sel]
  BY DEF Editing!Followed
<1> HIDE DEF known, first, listed, section
<1>6. sel \in Editing!SectionOf(tab.kind) /\ sel \in Editing!Ids /\ known[sel] # None
  BY <1>1, <1>4 DEF section
<1> HIDE DEF sel, to
<1>7. to \in TabsOf /\ to.known = known /\ to.sel = sel /\ to.kind = tab.kind /\ to.asks = tab.asks
      /\ to.spawn = tab.spawn /\ to.drafts = tab.drafts /\ to.name \in {None, tab.name}
  BY <1>2, <1>5, <1>6 DEF TabsOf
<1>8. Sound(to)
  BY <1>6, <1>7 DEF Sound
<1>9. TabKnown(to)
  BY <1>2, <1>7 DEF TabKnown
<1> QED
  BY <1>7, <1>8, <1>9 DEF to

LEMMA UserIsAnswered ==
  ASSUME TypedEditing, AllWritten, NEW t \in Tabs, Editing!Answered(t)
  PROVE  TypedEditing' /\ TabsKnown'
<1>0. PICK n \in tabs[t].asks :
        LET tab == [tabs[t] EXCEPT !.asks = @ \ {n}] c == edits[n] IN
        /\ Editing!Done(n)
        /\ \/ c.at # "ok" /\ Editing!Touched(t, tab)
           \/ c.at = "ok" /\ Editing!Graph(t) /\ Editing!Touched(t, Editing!Followed(tab, c))
           \/ c.at = "ok" /\ tab.kind = "spawn" /\ Editing!Touched(t, Editing!Settled(tab, c))
           \/ c.at = "ok" /\ tab.kind = "balance"
              /\ \E fresh \in {tab.known, content.content} :
                   Editing!Touched(t, [Editing!Settled(tab, c) EXCEPT !.known = fresh])
  BY DEF Editing!Answered
<1> DEFINE tab == [tabs[t] EXCEPT !.asks = @ \ {n}]
           c == edits[n]
<1>a. tabs[t] \in TabsOf /\ Sound(tabs[t]) /\ TabKnown(tabs[t]) /\ AllFit(tabs[t], edits) /\ TabsKnown
  BY TabIs DEF TabsKnown, AllWritten
<1>b. tab \in TabsOf /\ Sound(tab) /\ TabKnown(tab) /\ tab.kind = tabs[t].kind /\ tab.asks \subseteq tabs[t].asks
  BY <1>a DEF TabsOf, Sound, TabKnown
<1>c. AllFit(tab, edits)
  BY <1>a, <1>b, FitsAsWell
<1>1. n \in 1..Len(edits) /\ Fits(tab, c)
  BY <1>a, <1>b DEF AllFit, Fits
<1>2. c \in EditCalls /\ Asks(c) /\ Holds(c) /\ Had(past, c)
  BY <1>1, CallsAre DEF TypedEditing, AllWritten, CallsWritten
<1>g. Editing!Graph(t) <=> tab.kind \in {"entities", "techtree"}
  BY <1>b DEF Editing!Graph
<1> HIDE DEF c, tab
<1>3. CASE c.at # "ok" /\ Editing!Touched(t, tab)
  BY <1>a, <1>b, <1>c, <1>3, TabTouched
<1>4. CASE c.at = "ok" /\ Editing!Graph(t) /\ Editing!Touched(t, Editing!Followed(tab, c))
  <2> DEFINE to == Editing!Followed(tab, c)
  <2>1. tab.kind \in {"entities", "techtree"} /\ c.kind # "spawn"
    BY <1>1, <1>4, <1>g DEF Fits
  <2>2. /\ c.text \in Int /\ c.text \in past.content[c.newId]
        /\ c.id \in Editing!SectionOf(tab.kind) /\ c.newId \in Editing!SectionOf(tab.kind)
    BY <1>1, <1>2, <1>4, <2>1 DEF Asks, Holds, Had, Fits
  <2>3. to \in TabsOf /\ Sound(to) /\ TabKnown(to) /\ to.asks = tab.asks /\ to.kind = tab.kind
    BY <1>b, <2>1, <2>2, FollowedIsSound
  <2> HIDE DEF to
  <2> QED
    BY <1>a, <1>c, <1>4, <2>3, FitsAsWell, TabTouched DEF to
<1> DEFINE settled == Editing!Settled(tab, c)
<1>5. ASSUME c.at = "ok", ~Editing!Graph(t)
      PROVE  settled \in TabsOf /\ Sound(settled) /\ TabKnown(settled) /\ settled.asks = tab.asks /\ settled.kind = tab.kind
  <2>0. tab.kind \in {"balance", "spawn"}
    BY <1>b, <1>g, <1>5 DEF TabsOf, Editing!Kinds
  <2> DEFINE old == tab.drafts[c.id]
             draft == [yaml |-> IF old = None THEN c.text ELSE old.yaml, base |-> c.text]
  <2>1. settled = [tab EXCEPT !.drafts[c.id] = draft]
    BY <1>b, <1>2 DEF Editing!Settled, TabsOf, EditCalls
  <2>2. c.left = {} /\ c.id \in Editing!Keys /\ c.text \in Int \cup SpawnTexts
    BY <1>2, <1>5 DEF Holds, EditCalls
  <2>3. old # None => old.yaml \in Int \cup SpawnTexts
    BY <1>b, <2>2 DEF TabsOf, Draft0
  <2>4. draft \in Draft0
    BY <2>2, <2>3 DEF Draft0
  <2>5. CASE tab.kind = "spawn"
    <3>1. c.kind = "spawn" /\ c.id = "spawn" /\ c.text \in SpawnTexts /\ c.text \in past.spawn
      BY <1>1, <1>2, <1>5, <2>2, <2>5 DEF Fits, Asks, Had
    <3>2. draft.yaml \in SpawnTexts /\ draft.base = c.text
      BY <1>b, <3>1 DEF Sound
    <3> HIDE DEF draft, settled
    <3> QED
      BY <1>b, <2>1, <2>4, <3>1, <3>2, KeysAre DEF TabsOf, Sound, TabKnown
  <2>6. CASE tab.kind = "balance"
    <3>1. c.kind = "put" /\ c.newId = c.id /\ c.id \in Editing!Ids /\ c.text \in Int /\ c.text \in past.content[c.id]
      BY <1>1, <1>2, <1>5, <2>2, <2>6, KeysAre DEF Fits, Asks, Had
    <3>2. draft.yaml \in Int /\ draft.base = c.text
      BY <1>b, <3>1 DEF Sound
    <3> HIDE DEF draft, settled
    <3> QED
      BY <1>b, <2>1, <2>4, <2>6, <3>1, <3>2, KeysAre DEF TabsOf, Sound, TabKnown
  <2> QED
    BY <2>0, <2>5, <2>6
<1>6. CASE c.at = "ok" /\ tab.kind = "spawn" /\ Editing!Touched(t, Editing!Settled(tab, c))
  <2>1. ~Editing!Graph(t)
    BY <1>6, <1>g
  <2> QED
    BY <1>a, <1>c, <1>5, <1>6, <2>1, FitsAsWell, TabTouched
<1>7. CASE c.at = "ok" /\ tab.kind = "balance"
           /\ \E fresh \in {tab.known, content.content} : Editing!Touched(t, [Editing!Settled(tab, c) EXCEPT !.known = fresh])
  <2>1. PICK fresh \in {tab.known, content.content} : Editing!Touched(t, [settled EXCEPT !.known = fresh])
    BY <1>7
  <2>2. settled \in TabsOf /\ Sound(settled) /\ TabKnown(settled) /\ settled.asks = tab.asks /\ settled.kind = "balance"
    BY <1>5, <1>7, <1>g
  <2>3. fresh \in Definitions /\ \A i \in Editing!Ids : fresh[i] # None => fresh[i] \in past.content[i]
    BY <1>b DEF TabsOf, TabKnown, AllWritten, FilesWritten, TypedEditing, TypedFiles
  <2> HIDE DEF settled
  <2> DEFINE to == [settled EXCEPT !.known = fresh]
  <2>4. to \in TabsOf /\ Sound(to) /\ TabKnown(to) /\ to.asks = tab.asks /\ to.kind = tab.kind
    BY <1>7, <2>2, <2>3 DEF TabsOf, Sound, TabKnown
  <2> HIDE DEF to
  <2> QED
    BY <1>a, <1>c, <2>1, <2>4, FitsAsWell, TabTouched DEF to
<1> QED
  BY <1>0, <1>3, <1>4, <1>6, <1>7 DEF c, tab

LEMMA UserReloads ==
  ASSUME TypedEditing, AllWritten, NEW t \in Tabs, Editing!LineDrops(t) \/ Editing!Reload(t) \/ Editing!ReadAgain(t)
  PROVE  TypedEditing' /\ TabsKnown'
<1> DEFINE tab == tabs[t]
<1>0. tab \in TabsOf /\ Sound(tab) /\ TabKnown(tab) /\ TabsKnown /\ AllFit(tab, edits)
  BY TabIs DEF TabsKnown, AllWritten
<1>1. CASE Editing!LineDrops(t)
  <2>0. PICK n \in tab.asks : Editing!Change(t, [tab EXCEPT !.asks = @ \ {n}])
    BY <1>1 DEF Editing!LineDrops
  <2> DEFINE to == [tab EXCEPT !.asks = @ \ {n}]
  <2>1. to \in TabsOf /\ Sound(to) /\ TabKnown(to) /\ to.asks \subseteq tab.asks /\ to.kind = tab.kind
    BY <1>0 DEF TabsOf, Sound, TabKnown
  <2>2. Editing!Change(t, to) /\ UNCHANGED <<content, edits, texts, past>> /\ upsets' = upsets + 1
    BY <1>1, <2>0 DEF Editing!LineDrops, Editing!Upset
  <2> HIDE DEF to
  <2>3. Len(edits) \in Nat
    BY DEF TypedEditing, TypedCalls
  <2>4. TypedTabs' /\ TabsKnown'
    BY <1>0, <2>1, <2>2, <2>3, FitsAsWell, TabChanges
  <2>5. TypedFiles' /\ TypedCalls' /\ TypedRest'
    BY <2>2 DEF TypedEditing, TypedFiles, TypedCalls, TypedRest
  <2> QED
    BY <2>4, <2>5 DEF TypedEditing
<1>2. CASE Editing!Reload(t)
  <2> DEFINE to == Editing!Tab(tab.kind)
  <2>1. Editing!Touched(t, to) /\ tab.kind \in Editing!Kinds
    BY <1>0, <1>2 DEF Editing!Reload, TabsOf
  <2>2. to \in TabsOf /\ Sound(to) /\ to.asks = {} /\ to.drafts = Editing!NoDrafts
    BY <2>1, TabIsSound DEF TypedEditing
  <2>3. TabKnown(to)
    <3>1. to.known \in {Editing!Unread, content.content} /\ to.spawn \in {None, content.spawn}
      BY DEF Editing!Tab
    <3>2. \A i \in Editing!Ids : to.known[i] # None => to.known[i] \in past.content[i]
      BY <3>1 DEF Editing!Unread, AllWritten, FilesWritten
    <3> HIDE DEF to
    <3> QED
      BY <2>2, <3>1, <3>2, KeysAre DEF TabKnown, Editing!NoDrafts, AllWritten, FilesWritten
  <2>4. AllFit(to, edits)
    BY <2>2 DEF AllFit
  <2> HIDE DEF to
  <2> QED
    BY <1>0, <2>1, <2>2, <2>3, <2>4, TabTouched
<1>3. CASE Editing!ReadAgain(t)
  <2> DEFINE to == [tab EXCEPT !.known = content.content]
  <2>1. Editing!Touched(t, to) /\ tab.kind = "balance"
    BY <1>3 DEF Editing!ReadAgain
  <2>2. content.content \in Definitions /\ \A i \in Editing!Ids : content.content[i] # None => content.content[i] \in past.content[i]
    BY DEF AllWritten, FilesWritten, TypedEditing, TypedFiles
  <2>3. to \in TabsOf /\ Sound(to) /\ TabKnown(to) /\ to.asks = tab.asks /\ to.kind = tab.kind
    BY <1>0, <2>1, <2>2 DEF TabsOf, Sound, TabKnown
  <2> HIDE DEF to
  <2> QED
    BY <1>0, <2>1, <2>3, FitsAsWell, TabTouched
<1> QED
  BY <1>1, <1>2, <1>3

-----------------------------------------------------------------------------
(* Every step keeps what was ever written.                                    *)

Grows ==
  /\ past.spawn \subseteq past'.spawn
  /\ \A i \in Editing!Ids : past.content[i] \subseteq past'.content[i]

LEMMA KnownStays ==
  ASSUME TypedEditing, TabsKnown, Grows, UNCHANGED tabs
  PROVE  TabsKnown'
  BY DEF TabsKnown, TabKnown, Grows

LEMMA HadStays ==
  ASSUME Grows, NEW c, Asks(c), Had(past, c)
  PROVE  Had(past', c)
<1>1. c.kind # "spawn" => c.newId \in Editing!Ids
  BY KeysAre DEF Asks
<1> QED
  BY <1>1 DEF Grows, Had

LEMMA CallsStayWritten ==
  ASSUME TypedEditing, CallsWritten, Grows, NEW n, Serves(n), Had(past', edits'[n])
  PROVE  CallsWritten'
<1> SUFFICES ASSUME NEW m \in 1..Len(edits) PROVE Had(past', edits'[m])
  BY DEF CallsWritten, Serves
<1>1. CASE m = n
  BY <1>1
<1>2. CASE m # n
  <2>1. Asks(edits[m]) /\ Had(past, edits[m]) /\ edits'[m] = edits[m]
    BY <1>2, CallsAre DEF TypedEditing, CallsWritten, Serves
  <2> QED
    BY <2>1, HadStays
<1> QED
  BY <1>1, <1>2

LEMMA ReadsWrite ==
  ASSUME TypedEditing, AllWritten, NEW n \in 1..Len(edits), Editing!Reads(n) \/ Editing!SpawnReads(n) \/ Editing!WriteFails(n), Serves(n), TypedEditing'
  PROVE  AllWritten'
<1> DEFINE c == edits[n]
           d == edits'[n]
<1>0. c \in EditCalls /\ Asks(c) /\ Holds(c) /\ Had(past, c)
  BY CallsAre DEF TypedEditing, AllWritten, CallsWritten
<1>1. past'.content = past.content /\ past'.spawn = past.spawn /\ UNCHANGED tabs
      /\ content'.content = content.content /\ content'.spawn = content.spawn
  BY DEF Editing!Reads, Editing!SpawnReads, Editing!WriteFails, TypedEditing, TypedFiles, TypedRest
<1>2. Grows
  BY <1>1 DEF Grows
<1>3. FilesWritten'
  BY <1>1 DEF AllWritten, FilesWritten
<1>4. TabsKnown'
  BY <1>1, <1>2, KnownStays DEF AllWritten
<1>5. Had(past', d)
  <2>1. CASE Editing!Reads(n)
    <3>1. c.kind # "spawn"
      BY <2>1 DEF Editing!Reads, Editing!MyTurn, Editing!InLane
    <3>2. CASE Editing!MayEdit(content.content, c) /\ ~Editing!ArtInTheWay(c)
      <4>1. d.content = content.content /\ d.spawn = content.spawn /\ d.left = Editing!Parts(n) /\ d.kind = c.kind
        BY <1>0, <2>1, <3>2 DEF Editing!Reads, TypedEditing, TypedCalls, EditCalls
      <4>2. "content" \in d.left
        BY <4>1 DEF Editing!Parts
      <4> QED
        BY <1>1, <3>1, <4>1, <4>2 DEF Had, AllWritten, FilesWritten
    <3>3. CASE ~(Editing!MayEdit(content.content, c) /\ ~Editing!ArtInTheWay(c))
      <4>1. d.at = "refused" /\ d.left = c.left /\ d.kind = c.kind /\ c.at = "waiting"
        BY <1>0, <2>1, <3>3 DEF Editing!Reads, Editing!MyTurn, TypedEditing, TypedCalls, EditCalls
      <4> QED
        BY <1>0, <3>1, <4>1 DEF Had, Holds
    <3> QED
      BY <3>2, <3>3
  <2>2. CASE Editing!SpawnReads(n)
    <3>1. d.kind = "spawn" /\ (d.at = "refused" \/ d.left = {"spawn"})
      BY <1>0, <2>2 DEF Editing!SpawnReads, TypedEditing, TypedCalls, EditCalls
    <3> QED
      BY <3>1 DEF Had
  <2>3. CASE Editing!WriteFails(n)
    <3>1. PICK piece \in c.left : edits' = [edits EXCEPT ![n].left = @ \ {piece}, ![n].at = "failed"]
      BY <2>3 DEF Editing!WriteFails
    <3>2. d.at = "failed" /\ d.kind = c.kind /\ d.content = c.content /\ d.spawn = c.spawn /\ d.left \subseteq c.left
      BY <1>0, <3>1 DEF TypedEditing, TypedCalls, EditCalls
    <3> QED
      BY <1>0, <1>1, <3>2 DEF Had
  <2> QED
    BY <2>1, <2>2, <2>3
<1> QED
  BY <1>2, <1>3, <1>4, <1>5, CallsStayWritten DEF AllWritten

LEMMA WritesWrite ==
  ASSUME TypedEditing, AllWritten, NEW n \in 1..Len(edits), Editing!WritesContent(n) \/ Editing!WritesRenamed(n) \/ Editing!SpawnWrites(n), Serves(n), TypedEditing'
  PROVE  AllWritten'
<1> DEFINE c == edits[n]
           d == edits'[n]
<1>0. c \in EditCalls /\ Asks(c) /\ Holds(c) /\ Had(past, c) /\ SameAsk(c, d) /\ UNCHANGED tabs /\ Holds(d)
  BY CallsAre DEF TypedEditing, AllWritten, CallsWritten, Serves, Editing!WritesContent, Editing!WritesRenamed, Editing!SpawnWrites, TypedCalls
<1>a. ASSUME NEW piece \in c.left, Editing!Wrote(n, piece), Grows,
             c.kind # "spawn" => (piece = "content" => c.text \in past'.content[c.newId]),
             c.kind = "spawn" => (piece = "spawn" => c.text \in past'.spawn)
      PROVE  Had(past', d)
  <2>0. Had(past', c)
    BY <1>0, <1>a, HadStays
  <2>1. d.left = c.left \ {piece}
    BY <1>a, WroteServes DEF TypedEditing
  <2>2. CASE c.left = {piece}
    <3>1. d.left = {} /\ d.at = (IF c.at = "read" THEN "ok" ELSE c.at)
      BY <1>a, <2>1, <2>2, WroteServes DEF TypedEditing
    <3>2. c.at \in {"read", "failed"}
      BY <1>0, <2>2 DEF Holds
    <3>3. d.at = "ok" => c.at = "read"
      BY <3>1, <3>2
    <3>4. d.at \notin {"read"}
      BY <3>1, <3>2
    <3> QED
      BY <1>0, <1>a, <2>0, <2>2, <3>1, <3>3, <3>4 DEF Had, SameAsk
  <2>3. CASE c.left # {piece}
    <3>1. d.at = c.at /\ d.content = c.content /\ d.spawn = c.spawn
      BY <1>a, <2>3, WroteServes DEF TypedEditing
    <3> QED
      BY <1>0, <1>a, <2>0, <2>1, <3>1 DEF Had, SameAsk
  <2> QED
    BY <2>2, <2>3
<1>1. CASE Editing!WritesContent(n)
  <2> DEFINE after == Editing!Edit(c.content, c)
  <2>1. c.kind # "spawn" /\ "content" \in c.left /\ Editing!Wrote(n, "content")
    BY <1>1 DEF Editing!WritesContent, Editing!InLane
  <2>2. c.content \in Definitions /\ c.text \in Int /\ c.id \in Editing!Ids /\ c.newId \in Editing!Ids
    BY <1>0, <2>1, KeysAre DEF Holds, Asks
  <2>3. \A i \in Editing!Ids : after[i] # None => after[i] = c.content[i] \/ (i = c.newId /\ after[i] = c.text)
    BY <2>2 DEF Editing!Edit, Definitions
  <2>4. content'.content = after /\ content'.spawn = content.spawn
    BY <1>1 DEF Editing!WritesContent, TypedEditing, TypedFiles
  <2>5. /\ past'.spawn = past.spawn /\ c.text \in past'.content[c.newId]
        /\ \A i \in Editing!Ids : past.content[i] \subseteq past'.content[i]
    BY <1>1, <2>2 DEF Editing!WritesContent, TypedEditing, TypedRest
  <2>6. Grows
    BY <2>5 DEF Grows
  <2>7. \A i \in Editing!Ids : c.content[i] # None => c.content[i] \in past'.content[i]
    BY <1>0, <2>1, <2>5 DEF Had
  <2> HIDE DEF after
  <2>8. FilesWritten'
    BY <2>3, <2>4, <2>5, <2>7 DEF AllWritten, FilesWritten
  <2>9. Had(past', d)
    BY <1>a, <2>1, <2>5, <2>6
  <2> QED
    BY <1>0, <2>6, <2>8, <2>9, KnownStays, CallsStayWritten DEF AllWritten
<1>2. CASE Editing!WritesRenamed(n)
  <2> DEFINE after == [c.spawn EXCEPT !.names = Editing!Renamed(@, c)]
  <2>1. c.kind # "spawn" /\ "spawn" \in c.left /\ Editing!Wrote(n, "spawn")
    BY <1>2 DEF Editing!WritesRenamed, Editing!InLane
  <2>2. content' = [content EXCEPT !.spawn = after] /\ past' = [past EXCEPT !.spawn = @ \cup {after}]
    BY <1>2 DEF Editing!WritesRenamed
  <2> HIDE DEF after
  <2>3. content'.spawn = after /\ content'.content = content.content /\ past'.content = past.content
        /\ past'.spawn = past.spawn \cup {after}
    BY <2>2 DEF TypedEditing, TypedFiles, TypedRest
  <2>4. Grows /\ FilesWritten'
    BY <2>3 DEF Grows, AllWritten, FilesWritten
  <2>5. Had(past', d)
    BY <1>a, <2>1, <2>4
  <2> QED
    BY <1>0, <2>4, <2>5, KnownStays, CallsStayWritten DEF AllWritten
<1>3. CASE Editing!SpawnWrites(n)
  <2>1. c.kind = "spawn" /\ "spawn" \in c.left /\ Editing!Wrote(n, "spawn")
    BY <1>0, <1>3 DEF Editing!SpawnWrites, Holds
  <2>2. content'.spawn = c.text /\ content'.content = content.content /\ past'.content = past.content
        /\ past'.spawn = past.spawn \cup {c.text}
    BY <1>3 DEF Editing!SpawnWrites, TypedEditing, TypedFiles, TypedRest
  <2>3. Grows /\ FilesWritten'
    BY <2>2 DEF Grows, AllWritten, FilesWritten
  <2>4. Had(past', d)
    BY <1>a, <2>1, <2>2, <2>3
  <2> QED
    BY <1>0, <2>3, <2>4, KnownStays, CallsStayWritten DEF AllWritten
<1> QED
  BY <1>1, <1>2, <1>3

LEMMA AllWrittenInit == Editing!InitEditing => AllWritten
<1> SUFFICES ASSUME Editing!InitEditing PROVE AllWritten
  OBVIOUS
<1>0. TypedEditing
  BY TypedEditingInit
<1>1. FilesWritten /\ past.spawn = {content.spawn} /\ past.content = [i \in Editing!Ids |-> {content.content[i]}]
  BY DEF Editing!InitEditing, FilesWritten
<1>2. CallsWritten
  BY DEF Editing!InitEditing, CallsWritten
<1>3. TabsKnown
  <2> SUFFICES ASSUME NEW t \in Tabs PROVE TabKnown(tabs[t])
    BY DEF TabsKnown
  <2>1. PICK kind \in Editing!Kinds : tabs[t] = Editing!Tab(kind)
    BY DEF Editing!InitEditing
  <2>2. tabs[t].drafts = Editing!NoDrafts
    BY <1>0, <2>1, TabIsSound DEF TypedEditing
  <2>3. tabs[t].known \in {Editing!Unread, content.content} /\ tabs[t].spawn \in {None, content.spawn}
    BY <2>1 DEF Editing!Tab
  <2>4. \A i \in Editing!Ids : tabs[t].known[i] # None => tabs[t].known[i] \in past.content[i]
    BY <1>1, <2>3 DEF Editing!Unread
  <2> QED
    BY <1>1, <2>2, <2>3, <2>4, KeysAre DEF TabKnown, Editing!NoDrafts
<1> QED
  BY <1>1, <1>2, <1>3 DEF AllWritten

(* The server answers for what it has read and written.                       *)
LEMMA EditingServed ==
  ASSUME TypedEditing, AllWritten, NEW n \in 1..Len(edits),
         Editing!Reads(n) \/ Editing!WritesContent(n) \/ Editing!WritesRenamed(n) \/ Editing!SpawnReads(n) \/ Editing!SpawnWrites(n) \/ Editing!WriteFails(n)
  PROVE  TypedEditing' /\ AllWritten' /\ Serves(n)
<1>1. CASE Editing!Reads(n)
  BY <1>1, TypedReads, ReadsWrite
<1>2. CASE Editing!WritesContent(n) \/ Editing!WritesRenamed(n) \/ Editing!SpawnWrites(n)
  BY <1>2, TypedWrites, WritesWrite
<1>3. CASE Editing!SpawnReads(n)
  BY <1>3, TypedSpawnReads, ReadsWrite
<1>4. CASE Editing!WriteFails(n)
  BY <1>4, TypedWriteFails, ReadsWrite
<1> QED
  BY <1>1, <1>2, <1>3, <1>4

(* A user asks, and changes nothing on disk.                                  *)
AskedFor == edits' = edits \/ \E c \in EditCalls : edits' = Append(edits, c) /\ c.at = "waiting" /\ c.left = {} /\ Asks(c)

LEMMA EditingUsed ==
  ASSUME TypedEditing, AllWritten, Editing!User
  PROVE  TypedEditing' /\ AllWritten' /\ UNCHANGED <<content, past>> /\ AskedFor
<1>0. TabsKnown
  BY DEF AllWritten
<1>1. PICK t \in Tabs :
        \/ Editing!SelectEntity(t) \/ Editing!Cancel(t) \/ Editing!Type(t) \/ Editing!TypeName(t) \/ Editing!SaveDraft(t) \/ Editing!Save(t) \/ Editing!CreateChild(t)
        \/ Editing!Answered(t) \/ Editing!LineDrops(t) \/ Editing!Reload(t) \/ Editing!ReadAgain(t)
  BY DEF Editing!User
<1>2. TypedEditing' /\ TabsKnown' /\ UNCHANGED <<content, past>> /\ AskedFor
  <2>1. CASE Editing!SelectEntity(t) \/ Editing!Cancel(t) \/ Editing!TypeName(t)
    <3>1. UNCHANGED <<content, edits, past>>
      BY <2>1 DEF Editing!SelectEntity, Editing!Cancel, Editing!TypeName, Editing!Touched
    <3> QED
      BY <1>0, <2>1, <3>1, UserSelects DEF AskedFor
  <2>2. CASE Editing!Type(t)
    BY <1>0, <2>2, UserTypes DEF AskedFor
  <2>3. CASE Editing!SaveDraft(t) \/ Editing!Save(t) \/ Editing!CreateChild(t)
    BY <1>0, <2>3, UserSends DEF AskedFor
  <2>4. CASE Editing!Answered(t)
    <3>1. UNCHANGED <<content, edits, past>>
      BY <2>4 DEF Editing!Answered, Editing!Touched
    <3> QED
      BY <2>4, <3>1, UserIsAnswered DEF AskedFor
  <2>5. CASE Editing!LineDrops(t) \/ Editing!Reload(t) \/ Editing!ReadAgain(t)
    <3>1. UNCHANGED <<content, edits, past>>
      BY <2>5 DEF Editing!LineDrops, Editing!Reload, Editing!ReadAgain, Editing!Touched
    <3> QED
      BY <2>5, <3>1, UserReloads DEF AskedFor
  <2> QED
    BY <1>1, <2>1, <2>2, <2>3, <2>4, <2>5
<1>3. FilesWritten'
  BY <1>2 DEF AllWritten, FilesWritten
<1>4. CallsWritten'
  <2>1. CASE edits' = edits
    BY <1>2, <2>1 DEF AllWritten, CallsWritten, Had
  <2>2. CASE \E c \in EditCalls : edits' = Append(edits, c) /\ c.at = "waiting" /\ c.left = {} /\ Asks(c)
    <3>1. PICK c \in EditCalls : edits' = Append(edits, c) /\ c.at = "waiting" /\ c.left = {}
      BY <2>2
    <3>2. edits \in Seq(EditCalls)
      BY DEF TypedEditing, TypedCalls
    <3>3. Len(edits') = Len(edits) + 1 /\ Len(edits) \in Nat /\ edits'[Len(edits) + 1] = c
          /\ \A m \in 1..Len(edits) : edits'[m] = edits[m]
      BY <3>1, <3>2
    <3>4. Had(past', c)
      BY <3>1 DEF Had
    <3>5. \A m \in 1..Len(edits) : Had(past', edits'[m])
      BY <1>2, <3>3 DEF AllWritten, CallsWritten
    <3>6. \A m \in 1..Len(edits') : Had(past', edits'[m])
      BY <3>3, <3>4, <3>5
    <3> QED
      BY <3>6 DEF CallsWritten
  <2> QED
    BY <1>2, <2>1, <2>2 DEF AskedFor
<1> QED
  BY <1>2, <1>3, <1>4 DEF AllWritten

LEMMA EditingStutters ==
  ASSUME TypedEditing, AllWritten, UNCHANGED Editing!editing
  PROVE  TypedEditing' /\ AllWritten'
<1>1. UNCHANGED <<content, edits, tabs, texts, upsets, past>>
  BY DEF Editing!editing
<1>2. TypedEditing'
  BY <1>1 DEF TypedEditing, TypedFiles, TypedCalls, TypedTabs, TypedRest
<1>3. FilesWritten'
  BY <1>1 DEF AllWritten, FilesWritten
<1>4. CallsWritten'
  BY <1>1 DEF AllWritten, CallsWritten
<1>5. TabsKnown'
  BY <1>1 DEF AllWritten, TabsKnown, TabKnown
<1> QED
  BY <1>2, <1>3, <1>4, <1>5 DEF AllWritten

LEMMA AllWrittenStep == TypedEditing /\ AllWritten /\ [Editing!NextEditing]_(Editing!editing) => TypedEditing' /\ AllWritten'
<1> SUFFICES ASSUME TypedEditing, AllWritten, [Editing!NextEditing]_(Editing!editing) PROVE TypedEditing' /\ AllWritten'
  OBVIOUS
<1>1. CASE Editing!Server
  BY <1>1, EditingServed DEF Editing!Server
<1>2. CASE Editing!User
  BY <1>2, EditingUsed
<1>3. CASE UNCHANGED Editing!editing
  BY <1>3, EditingStutters
<1> QED
  BY <1>1, <1>2, <1>3 DEF Editing!NextEditing

LEMMA WrittenIsSaved == AllWritten => Editing!SavedWasWritten
  BY DEF AllWritten, TabsKnown, TabKnown, Editing!SavedWasWritten

(* The lane holds one edit at a time.                                         *)
Lane == \A n \in 1..Len(edits) : Editing!UnderWay(n) /\ Editing!InLane(n) => \A m \in 1..(n - 1) : Editing!InLane(m) => Editing!Done(m)

Moves(c) == c.kind = "put" /\ c.id \in Types /\ c.newId # c.id

(* An edit under way was checked against the definitions it is about to       *)
(* replace, or has just replaced.                                             *)
Based(f, c) ==
  /\ c.left # {}
  /\ Editing!MayEdit(c.content, c)
  /\ IF "content" \in c.left THEN c.content = f.content ELSE f.content = Editing!Edit(c.content, c)

NamesFit(f, c) ==
  /\ c.kind = "spawn" => c.text.names \subseteq Editing!Defined(f.content)
  /\ c.kind # "spawn" /\ "spawn" \in c.left => c.spawn.names \subseteq Editing!Defined(f.content)

(* While an entity is renamed, its directory already has the new name, and    *)
(* spawn.yaml has it as soon as it is written.                                *)
NamesFollow(f, c) ==
  /\ c.spawn.names \subseteq Editing!Defined(c.content)
  /\ f.art \subseteq Editing!Defined(Editing!Edit(c.content, c))
  /\ f.spawn.names \subseteq IF "spawn" \in c.left THEN Editing!Defined(c.content) ELSE Editing!Defined(Editing!Edit(c.content, c))

Orderly ==
  /\ content.content = past.sum
  /\ \A n \in 1..Len(edits) : edits[n].at # "failed"
  /\ \A n \in Editing!Open : edits[n].kind # "spawn" => Based(content, edits[n])
  /\ (\A n \in Editing!Open : ~Moves(edits[n])) =>
       /\ content.spawn.names \cup content.art \subseteq Editing!Defined(content.content)
       /\ \A n \in Editing!Open : NamesFit(content, edits[n])
  /\ \A n \in Editing!Open : Moves(edits[n]) =>
       NamesFollow(content, edits[n]) /\ \A m \in Editing!Open : edits[m].kind # "spawn"

Summed == Lane /\ (~past.spoiled => Orderly)

LEMMA OpenServed ==
  ASSUME NEW n, Serves(n)
  PROVE  /\ Editing!Open \subseteq 1..Len(edits) /\ Editing!Open' \subseteq 1..Len(edits)
         /\ \A m \in 1..Len(edits) : m # n => (m \in Editing!Open' <=> m \in Editing!Open) /\ edits'[m] = edits[m]
         /\ n \in Editing!Open' <=> edits'[n].at = "read"
         /\ n \in Editing!Open <=> edits[n].at = "read"
  BY DEF Serves, Editing!Open, Editing!UnderWay

LEMMA EditDefines ==
  ASSUME NEW defs \in Definitions, NEW c, Asks(c), c.kind # "spawn"
  PROVE  Editing!Defined(Editing!Edit(defs, c)) =
           (Editing!Defined(defs) \ (IF c.kind = "put" /\ c.newId # c.id THEN {c.id} ELSE {})) \cup {c.newId}
<1>1. c.id \in Editing!Ids /\ c.newId \in Editing!Ids /\ c.text # None
  BY KeysAre DEF Asks
<1>2. \A i \in Editing!Ids : Editing!Edit(defs, c)[i] = IF i = c.newId THEN c.text
                      ELSE IF i = c.id /\ c.kind = "put" /\ c.newId # c.id THEN None ELSE defs[i]
  BY <1>1 DEF Editing!Edit, Definitions
<1> DEFINE after == Editing!Edit(defs, c)
<1> HIDE DEF after
<1>3. \A i \in Editing!Ids : after[i] = IF i = c.newId THEN c.text
                      ELSE IF i = c.id /\ c.kind = "put" /\ c.newId # c.id THEN None ELSE defs[i]
  BY <1>2 DEF after
<1>4. Editing!Defined(after) = (Editing!Defined(defs) \ (IF c.kind = "put" /\ c.newId # c.id THEN {c.id} ELSE {})) \cup {c.newId}
  BY <1>1, <1>3 DEF Editing!Defined
<1> QED
  BY <1>4 DEF after

LEMMA LaneStays ==
  ASSUME TypedEditing, AllWritten, Lane, [Editing!NextEditing]_(Editing!editing)
  PROVE  Lane'
<1>0. Len(edits) \in Nat
  BY DEF TypedEditing, TypedCalls
<1>1. ASSUME NEW n \in 1..Len(edits),
             Editing!Reads(n) \/ Editing!WritesContent(n) \/ Editing!WritesRenamed(n) \/ Editing!SpawnReads(n) \/ Editing!SpawnWrites(n) \/ Editing!WriteFails(n)
      PROVE  Lane'
  <2> DEFINE c == edits[n]
             d == edits'[n]
  <2>0. Serves(n) /\ c \in EditCalls /\ Holds(c)
    BY <1>1, EditingServed, CallsAre DEF TypedEditing
  <2>1. (Editing!Done(n) => Editing!Done(n)') /\ (d.at = "read" /\ Editing!InLane(n) => c.at = "read" \/ Editing!MyTurn(n))
    <3>1. CASE Editing!Reads(n)
      BY <3>1 DEF Editing!Reads, Editing!MyTurn, Editing!Done
    <3>2. ASSUME NEW piece \in c.left, Editing!Wrote(n, piece)
          PROVE  (Editing!Done(n) => Editing!Done(n)') /\ (d.at = "read" => c.at = "read")
      <4>1. CASE c.left = {piece}
        <5>1. d.at = IF c.at = "read" THEN "ok" ELSE c.at
          BY <3>2, <4>1, WroteServes DEF TypedEditing
        <5> QED
          BY <5>1 DEF Editing!Done
      <4>2. CASE c.left # {piece}
        <5>1. d.at = c.at
          BY <3>2, <4>2, WroteServes DEF TypedEditing
        <5> QED
          BY <5>1 DEF Editing!Done
      <4> QED
        BY <4>1, <4>2
    <3>3. CASE Editing!WritesContent(n) \/ Editing!WritesRenamed(n)
      BY <3>2, <3>3 DEF Editing!WritesContent, Editing!WritesRenamed
    <3>4. CASE Editing!SpawnReads(n)
      BY <3>4 DEF Editing!SpawnReads, Editing!Done, Editing!InLane
    <3>5. CASE Editing!SpawnWrites(n)
      BY <2>0, <3>2, <3>5 DEF Editing!SpawnWrites, Holds
    <3>6. CASE Editing!WriteFails(n)
      <4>1. d.at = "failed"
        BY <2>0, <3>6 DEF Editing!WriteFails, TypedEditing, TypedCalls, EditCalls
      <4> QED
        BY <4>1 DEF Editing!Done
    <3> QED
      BY <1>1, <3>1, <3>3, <3>4, <3>5, <3>6
  <2> SUFFICES ASSUME NEW k \in 1..Len(edits), edits'[k].at = "read", edits'[k].kind # "spawn",
                      NEW m \in 1..(k - 1), edits'[m].kind # "spawn"
               PROVE  Editing!Done(m)'
    BY <2>0 DEF Lane, Serves, Editing!UnderWay, Editing!InLane
  <2>2. m \in 1..Len(edits) /\ m # k
    BY <1>0
  <2>3. edits[k].kind # "spawn" /\ edits[m].kind # "spawn"
    BY <2>0, <2>2 DEF Serves, SameAsk
  <2>4. Editing!Done(m)
    <3>1. CASE k = n
      BY <2>1, <2>3, <3>1 DEF Lane, Editing!UnderWay, Editing!InLane, Editing!MyTurn
    <3>2. CASE k # n
      BY <2>0, <2>3, <3>2 DEF Lane, Editing!UnderWay, Editing!InLane, Serves
    <3> QED
      BY <3>1, <3>2
  <2>5. CASE m = n
    BY <2>1, <2>4, <2>5
  <2>6. CASE m # n
    BY <2>0, <2>2, <2>4, <2>6 DEF Serves, Editing!Done
  <2> QED
    BY <2>5, <2>6
<1>2. CASE Editing!User
  <2>1. AskedFor
    BY <1>2, EditingUsed
  <2>2. CASE edits' = edits
    BY <2>2 DEF Lane, Editing!UnderWay, Editing!InLane, Editing!Done
  <2>3. CASE \E c \in EditCalls : edits' = Append(edits, c) /\ c.at = "waiting" /\ c.left = {} /\ Asks(c)
    <3>1. PICK c \in EditCalls : edits' = Append(edits, c) /\ c.at = "waiting"
      BY <2>3
    <3>2. Len(edits') = Len(edits) + 1 /\ edits'[Len(edits) + 1] = c
          /\ \A m \in 1..Len(edits) : edits'[m] = edits[m]
      BY <3>1 DEF TypedEditing, TypedCalls
    <3> SUFFICES ASSUME NEW k \in 1..Len(edits'), edits'[k].at = "read", edits'[k].kind # "spawn",
                        NEW m \in 1..(k - 1), edits'[m].kind # "spawn"
                 PROVE  Editing!Done(m)'
      BY DEF Lane, Editing!UnderWay, Editing!InLane
    <3>3. k \in 1..Len(edits) /\ m \in 1..Len(edits)
      BY <1>0, <3>1, <3>2
    <3> QED
      BY <3>2, <3>3 DEF Lane, Editing!UnderWay, Editing!InLane, Editing!Done
  <2> QED
    BY <2>1, <2>2, <2>3 DEF AskedFor
<1>3. CASE UNCHANGED Editing!editing
  BY <1>3 DEF Lane, Editing!UnderWay, Editing!InLane, Editing!Done, Editing!editing
<1> QED
  BY <1>1, <1>2, <1>3 DEF Editing!NextEditing, Editing!Server

(* Nothing that the names or the sum depend on changes.                       *)
LEMMA OrderlyKept ==
  ASSUME Orderly, UNCHANGED content, past'.sum = past.sum,
         Editing!Open' = Editing!Open, \A m \in Editing!Open : edits'[m] = edits[m],
         \A m \in 1..Len(edits') : edits'[m].at # "failed"
  PROVE  Orderly'
  BY DEF Orderly, Based, NamesFit, NamesFollow

LEMMA AloneInLane ==
  ASSUME TypedEditing, Lane, NEW n \in 1..Len(edits), Editing!InLane(n), Editing!MyTurn(n) \/ Editing!UnderWay(n), NEW m \in Editing!Open, m # n
  PROVE  edits[m].kind = "spawn"
<1>0. m \in 1..Len(edits) /\ Editing!UnderWay(m) /\ Len(edits) \in Nat
  BY DEF Editing!Open, TypedEditing, TypedCalls
<1>1. SUFFICES ASSUME Editing!InLane(m) PROVE FALSE
  BY DEF Editing!InLane
<1>2. CASE m < n
  <2>1. Editing!Done(m)
    BY <1>0, <1>1, <1>2 DEF Lane, Editing!MyTurn
  <2> QED
    BY <1>0, <2>1 DEF Editing!Done, Editing!UnderWay
<1>3. CASE n < m
  <2>1. Editing!Done(n)
    BY <1>0, <1>1, <1>3 DEF Lane
  <2> QED
    BY <2>1 DEF Editing!Done, Editing!UnderWay, Editing!MyTurn
<1> QED
  BY <1>0, <1>2, <1>3

LEMMA OrderlyReads ==
  ASSUME TypedEditing, AllWritten, Lane, ~past.spoiled, Orderly, NEW n \in 1..Len(edits), Editing!Reads(n), ~past'.spoiled
  PROVE  Orderly'
<1> DEFINE c == edits[n]
           d == edits'[n]
           ok == Editing!MayEdit(content.content, c) /\ ~Editing!ArtInTheWay(c)
<1>0. /\ c \in EditCalls /\ Asks(c) /\ Holds(c) /\ Serves(n) /\ Editing!MyTurn(n) /\ Editing!InLane(n)
      /\ c.at = "waiting" /\ c.kind # "spawn" /\ d.kind = c.kind
      /\ c.id \in Editing!Ids /\ c.newId \in Editing!Ids
  BY EditingServed, CallsAre, KeysAre DEF TypedEditing, Editing!Reads, Editing!MyTurn, Editing!InLane, Serves, SameAsk, Asks
<1>1. past'.sum = past.sum
  BY DEF Editing!Reads, TypedEditing, TypedRest
<1>2. n \notin Editing!Open /\ \A m \in Editing!Open : edits'[m] = edits[m] /\ edits[m].kind = "spawn" /\ m \in 1..Len(edits)
  BY <1>0, OpenServed, AloneInLane
<1>3. d.at # "failed" => \A m \in 1..Len(edits') : edits'[m].at # "failed"
  BY <1>0 DEF Orderly, Serves
<1>4. CASE ~ok
  <2>1. d.at = "refused" /\ content' = content
    BY <1>0, <1>4 DEF Editing!Reads, TypedEditing, TypedCalls, EditCalls
  <2>2. Editing!Open' = Editing!Open
    BY <1>0, <1>2, <2>1, OpenServed
  <2> QED
    BY <1>1, <1>2, <1>3, <2>1, <2>2, OrderlyKept
<1>5. CASE ok
  <2>1. /\ d.at = "read" /\ d.left = Editing!Parts(n) /\ d.content = content.content /\ d.spawn = content.spawn
        /\ content'.content = content.content /\ content'.spawn = content.spawn
        /\ content'.art = IF Editing!Renames(n) THEN Editing!Renamed(content.art, c) ELSE content.art
    BY <1>0, <1>5 DEF Editing!Reads, TypedEditing, TypedCalls, EditCalls, TypedFiles
  <2>2. Editing!Open' = Editing!Open \cup {n}
    BY <1>0, <2>1, OpenServed
  <2>3. Based(content', d)
    <3>1. Editing!MayEdit(content.content, d) /\ "content" \in d.left
      BY <1>0, <1>5, <2>1 DEF Editing!MayEdit, Serves, SameAsk, Editing!Parts
    <3> QED
      BY <2>1, <3>1 DEF Based
  <2>4. /\ content.spawn.names \cup content.art \subseteq Editing!Defined(content.content)
        /\ \A m \in Editing!Open : NamesFit(content, edits[m])
    BY <1>2 DEF Orderly, Moves
  <2>5. Moves(d) <=> Editing!Renames(n)
    BY <1>0 DEF Moves, Editing!Renames, Serves, SameAsk
  <2>6. CASE ~Editing!Renames(n)
    <3>1. NamesFit(content', d)
      BY <1>0, <2>1, <2>4 DEF NamesFit
    <3>2. \A m \in Editing!Open : NamesFit(content', edits'[m]) /\ ~Moves(edits'[m])
      BY <1>2, <2>1, <2>4 DEF NamesFit, Moves
    <3> QED
      BY <1>0, <1>1, <1>2, <1>3, <2>1, <2>2, <2>3, <2>4, <2>5, <2>6, <3>1, <3>2 DEF Orderly
  <2>7. CASE Editing!Renames(n)
    <3>1. Editing!Open = {}
      <4>1. ~\E m \in Editing!Open : ~Editing!InLane(m)
        BY <2>7 DEF Editing!Reads, TypedEditing, TypedRest
      <4> QED
        BY <1>2, <4>1 DEF Editing!InLane
    <3>2. Editing!Defined(Editing!Edit(d.content, d)) = (Editing!Defined(content.content) \ {c.id}) \cup {c.newId}
      <4>1. Asks(d) /\ d.content \in Definitions /\ d.id = c.id /\ d.newId = c.newId /\ d.kind = "put" /\ c.newId # c.id
        BY <1>0, <2>1, <2>7 DEF Asks, Serves, SameAsk, Editing!Renames, TypedEditing, TypedFiles
      <4> QED
        BY <2>1, <4>1, EditDefines
    <3>3. Editing!Renamed(content.art, c) \subseteq (Editing!Defined(content.content) \ {c.id}) \cup {c.newId}
      BY <2>4 DEF Editing!Renamed
    <3>4. "spawn" \in d.left
      BY <2>1, <2>7 DEF Editing!Parts, Editing!WritesSpawn, Editing!Renames
    <3>5. NamesFollow(content', d)
      BY <2>1, <2>4, <2>7, <3>2, <3>3, <3>4 DEF NamesFollow
    <3> QED
      BY <1>0, <1>1, <1>3, <2>1, <2>2, <2>3, <2>5, <2>7, <3>1, <3>5 DEF Orderly
  <2> QED
    BY <2>6, <2>7
<1> QED
  BY <1>4, <1>5

LEMMA OrderlySpawnReads ==
  ASSUME TypedEditing, AllWritten, Lane, ~past.spoiled, Orderly, NEW n \in 1..Len(edits), Editing!SpawnReads(n), ~past'.spoiled
  PROVE  Orderly'
<1> DEFINE c == edits[n]
           d == edits'[n]
           ok == c.text.names \subseteq Editing!Defined(content.content)
<1>0. /\ c \in EditCalls /\ Serves(n) /\ c.at = "waiting" /\ c.kind = "spawn" /\ d.kind = "spawn" /\ d.text = c.text
  BY EditingServed, CallsAre DEF TypedEditing, Editing!SpawnReads, Serves, SameAsk
<1>1. past'.sum = past.sum /\ content' = content /\ d.at = IF ok THEN "read" ELSE "refused"
  BY <1>0 DEF Editing!SpawnReads, TypedEditing, TypedRest, TypedCalls, EditCalls
<1>2. n \notin Editing!Open /\ \A m \in Editing!Open : edits'[m] = edits[m] /\ m \in 1..Len(edits)
  BY <1>0, OpenServed
<1>3. \A m \in 1..Len(edits') : edits'[m].at # "failed"
  BY <1>0, <1>1 DEF Orderly, Serves
<1>4. CASE ~ok
  <2>1. d.at # "read"
    BY <1>1, <1>4
  <2>2. Editing!Open' = Editing!Open
    BY <1>0, <1>2, <2>1, OpenServed
  <2> QED
    BY <1>1, <1>2, <1>3, <2>2, OrderlyKept
<1>5. CASE ok
  <2>1. Editing!Open' = Editing!Open \cup {n}
    BY <1>0, <1>1, <1>5, OpenServed
  <2>2. \A m \in Editing!Open : ~Moves(edits[m])
    BY DEF Editing!SpawnReads, Editing!Renames, Moves, TypedEditing, TypedRest
  <2>3. NamesFit(content', d) /\ ~Moves(d)
    BY <1>0, <1>1, <1>5 DEF NamesFit, Moves
  <2>4. \A m \in Editing!Open : NamesFit(content', edits'[m]) /\ ~Moves(edits'[m])
    BY <1>1, <1>2, <2>2 DEF Orderly
  <2>5. /\ content'.content = past'.sum
        /\ content'.spawn.names \cup content'.art \subseteq Editing!Defined(content'.content)
        /\ \A m \in Editing!Open : edits'[m].kind # "spawn" => Based(content', edits'[m])
    BY <1>1, <1>2, <2>2 DEF Orderly
  <2>6. \A m \in Editing!Open' : /\ edits'[m].kind # "spawn" => Based(content', edits'[m])
                                 /\ NamesFit(content', edits'[m]) /\ ~Moves(edits'[m])
    BY <1>0, <2>1, <2>3, <2>4, <2>5
  <2> QED
    BY <1>3, <2>5, <2>6 DEF Orderly
<1> QED
  BY <1>4, <1>5

LEMMA OrderlyWritesContent ==
  ASSUME TypedEditing, AllWritten, Lane, ~past.spoiled, Orderly, NEW n \in 1..Len(edits), Editing!WritesContent(n)
  PROVE  Orderly'
<1> DEFINE c == edits[n]
           d == edits'[n]
<1>0. /\ c \in EditCalls /\ Asks(c) /\ Holds(c) /\ Serves(n) /\ Editing!InLane(n) /\ c.kind # "spawn" /\ SameAsk(c, d)
      /\ "content" \in c.left /\ Editing!Wrote(n, "content")
      /\ c.id \in Editing!Ids /\ c.newId \in Editing!Ids
  BY EditingServed, CallsAre, KeysAre DEF TypedEditing, Editing!WritesContent, Editing!InLane, Serves, Asks
<1>1. c.at = "read" /\ n \in Editing!Open /\ Editing!UnderWay(n) /\ c.content = content.content /\ Based(content, c)
  BY <1>0, OpenServed DEF Holds, Orderly, Based, Editing!UnderWay
<1>2. d.left = c.left \ {"content"} /\ d.at = (IF d.left = {} THEN "ok" ELSE "read")
      /\ (d.left # {} => d.content = c.content /\ d.spawn = c.spawn)
  BY <1>0, <1>1, WroteServes DEF TypedEditing
<1>3. \A m \in Editing!Open : m # n => edits'[m] = edits[m] /\ edits[m].kind = "spawn" /\ m \in 1..Len(edits)
  BY <1>0, <1>1, OpenServed, AloneInLane
<1>4. /\ content'.content = Editing!Edit(c.content, c) /\ content'.spawn = content.spawn /\ content'.art = content.art
      /\ content'.content = past'.sum
  BY <1>0, <1>1 DEF Editing!WritesContent, TypedEditing, TypedFiles, TypedRest, Orderly
<1>5. \A m \in 1..Len(edits') : edits'[m].at # "failed"
  BY <1>0, <1>2 DEF Orderly, Serves
<1>6. Editing!Open' = IF d.left = {} THEN Editing!Open \ {n} ELSE Editing!Open
  <2>1. d.at = "read" <=> d.left # {}
    BY <1>2
  <2>2. \A m \in 1..Len(edits) : m \in Editing!Open' <=> IF m = n THEN d.left # {} ELSE m \in Editing!Open
    BY <1>0, <2>1, OpenServed
  <2>3. Editing!Open \subseteq 1..Len(edits) /\ Editing!Open' \subseteq 1..Len(edits)
    BY <1>0, OpenServed
  <2> HIDE DEF d
  <2> QED
    BY <1>1, <2>2, <2>3
<1>7. d.left # {} => Based(content', d) /\ d.left = {"spawn"} /\ c.left = {"content", "spawn"}
  <2> SUFFICES ASSUME d.left # {} PROVE Based(content', d) /\ d.left = {"spawn"} /\ c.left = {"content", "spawn"}
    OBVIOUS
  <2>1. d.left = {"spawn"} /\ c.left = {"content", "spawn"}
    BY <1>0, <1>2 DEF EditCalls
  <2>2. Editing!MayEdit(d.content, d) /\ Editing!Edit(d.content, d) = Editing!Edit(c.content, c)
    BY <1>0, <1>1, <1>2 DEF Editing!MayEdit, Editing!Edit, SameAsk, Based
  <2> QED
    BY <1>4, <2>1, <2>2 DEF Based
<1>8. Editing!Defined(content'.content) =
        (Editing!Defined(content.content) \ (IF c.kind = "put" /\ c.newId # c.id THEN {c.id} ELSE {})) \cup {c.newId}
  <2>1. content.content \in Definitions
    BY DEF TypedEditing, TypedFiles
  <2>2. Editing!Defined(Editing!Edit(content.content, c)) =
        (Editing!Defined(content.content) \ (IF c.kind = "put" /\ c.newId # c.id THEN {c.id} ELSE {})) \cup {c.newId}
    BY <1>0, <2>1, EditDefines
  <2>3. content'.content = Editing!Edit(content.content, c)
    BY <1>1, <1>4
  <2> QED
    BY <2>2, <2>3 DEF Editing!Defined
<1>9. Moves(d) = Moves(c) /\ d.kind # "spawn"
  BY <1>0 DEF Moves, SameAsk
<1>10. CASE ~Moves(c)
  <2>1. \A m \in Editing!Open : ~Moves(edits[m])
    BY <1>3, <1>10 DEF Moves
  <2>2. /\ content.spawn.names \cup content.art \subseteq Editing!Defined(content.content)
        /\ \A m \in Editing!Open : NamesFit(content, edits[m])
    BY <2>1 DEF Orderly
  <2>3. content.spawn.names \subseteq Types /\ content.art \subseteq Types
    BY DEF TypedEditing, TypedFiles, SpawnTexts
  <2>4. Types \cap Editing!Defined(content.content) \subseteq Editing!Defined(content'.content)
    <3>1. c.kind = "put" /\ c.newId # c.id => c.id \notin Types
      BY <1>10 DEF Moves
    <3> QED
      BY <1>8, <3>1
  <2>5. d.left # {} => NamesFit(content', d)
    <3> SUFFICES ASSUME d.left # {} PROVE d.spawn.names \subseteq Editing!Defined(content'.content)
      BY <1>9 DEF NamesFit
    <3>1. d.spawn = c.spawn /\ "spawn" \in c.left
      BY <1>2, <1>7
    <3>2. c.spawn.names \subseteq Editing!Defined(content.content) /\ c.spawn.names \subseteq Types
      BY <1>0, <1>1, <2>2, <3>1 DEF NamesFit, Holds, SpawnTexts
    <3> QED
      BY <2>4, <3>1, <3>2
  <2>6. \A m \in Editing!Open : m # n => NamesFit(content', edits'[m]) /\ ~Moves(edits'[m])
    <3> SUFFICES ASSUME NEW m \in Editing!Open, m # n PROVE NamesFit(content', edits'[m]) /\ ~Moves(edits'[m])
      OBVIOUS
    <3>1. edits'[m] = edits[m] /\ edits[m].kind = "spawn" /\ Asks(edits[m])
      BY <1>3, CallsAre DEF TypedEditing
    <3>2. edits[m].text.names \subseteq Types /\ edits[m].text.names \subseteq Editing!Defined(content.content)
      BY <2>2, <3>1 DEF Asks, SpawnTexts, NamesFit
    <3> QED
      BY <2>1, <2>4, <3>1, <3>2 DEF NamesFit
  <2>7. content'.spawn.names \cup content'.art \subseteq Editing!Defined(content'.content)
    BY <1>4, <2>2, <2>3, <2>4
  <2>8. \A m \in Editing!Open' : /\ edits'[m].kind # "spawn" => Based(content', edits'[m])
                                 /\ NamesFit(content', edits'[m]) /\ ~Moves(edits'[m])
    BY <1>3, <1>6, <1>7, <1>9, <1>10, <2>5, <2>6
  <2> QED
    BY <1>4, <1>5, <2>7, <2>8 DEF Orderly
<1>11. CASE Moves(c)
  <2>1. Editing!Open = {n} /\ NamesFollow(content, c)
    BY <1>1, <1>3, <1>11 DEF Orderly
  <2>2. CASE d.left = {}
    <3>1. "spawn" \notin c.left /\ Editing!Open' = {}
      BY <1>2, <1>6, <2>1, <2>2
    <3>2. content'.spawn.names \cup content'.art \subseteq Editing!Defined(content'.content)
      BY <1>4, <2>1, <3>1 DEF NamesFollow
    <3> QED
      BY <1>4, <1>5, <3>1, <3>2 DEF Orderly
  <2>3. CASE d.left # {}
    <3>1. Editing!Open' = {n} /\ Based(content', d)
      BY <1>6, <1>7, <2>1, <2>3
    <3>2. Editing!Edit(d.content, d) = Editing!Edit(c.content, c)
      BY <1>0, <1>2, <2>3 DEF Editing!Edit, SameAsk
    <3>3. NamesFollow(content', d)
      BY <1>2, <1>4, <1>7, <2>1, <2>3, <3>2 DEF NamesFollow
    <3> QED
      BY <1>4, <1>5, <1>9, <1>11, <3>1, <3>3 DEF Orderly
  <2> QED
    BY <2>2, <2>3
<1> QED
  BY <1>10, <1>11

LEMMA OrderlyWritesNames ==
  ASSUME TypedEditing, AllWritten, Lane, ~past.spoiled, Orderly, NEW n \in 1..Len(edits), Editing!WritesRenamed(n)
  PROVE  Orderly'
<1> DEFINE c == edits[n]
           d == edits'[n]
           after == [c.spawn EXCEPT !.names = Editing!Renamed(@, c)]
<1>0. /\ c \in EditCalls /\ Asks(c) /\ Holds(c) /\ Serves(n) /\ Editing!InLane(n) /\ c.kind # "spawn" /\ SameAsk(c, d)
      /\ "spawn" \in c.left /\ Editing!Wrote(n, "spawn")
  BY EditingServed, CallsAre DEF TypedEditing, Editing!WritesRenamed, Editing!InLane, Serves
<1>1. c.at = "read" /\ n \in Editing!Open /\ Editing!UnderWay(n) /\ Based(content, c) /\ c.spawn \in SpawnTexts
      /\ c.content \in Definitions /\ c.kind = "put" /\ c.id \in Types
  BY <1>0, OpenServed DEF Holds, Orderly, Editing!UnderWay
<1>2. d.left = c.left \ {"spawn"} /\ d.at = (IF d.left = {} THEN "ok" ELSE "read")
      /\ (d.left # {} => d.content = c.content /\ d.spawn = c.spawn)
  BY <1>0, <1>1, WroteServes DEF TypedEditing
<1>3. \A m \in Editing!Open : m # n => edits'[m] = edits[m] /\ edits[m].kind = "spawn" /\ m \in 1..Len(edits)
  BY <1>0, <1>1, OpenServed, AloneInLane
<1>4. /\ content'.content = content.content /\ content'.spawn = after /\ content'.art = content.art
      /\ content'.content = past'.sum
  BY <1>0, <1>1 DEF Editing!WritesRenamed, TypedEditing, TypedFiles, TypedRest, Orderly
<1>4a. after.names = Editing!Renamed(c.spawn.names, c)
  BY <1>1 DEF SpawnTexts
<1> HIDE DEF after
<1>5. \A m \in 1..Len(edits') : edits'[m].at # "failed"
  BY <1>0, <1>2 DEF Orderly, Serves
<1>6. Editing!Open' = IF d.left = {} THEN Editing!Open \ {n} ELSE Editing!Open
  <2>1. d.at = "read" <=> d.left # {}
    BY <1>2
  <2>2. \A m \in 1..Len(edits) : m \in Editing!Open' <=> IF m = n THEN d.left # {} ELSE m \in Editing!Open
    BY <1>0, <2>1, OpenServed
  <2>3. Editing!Open \subseteq 1..Len(edits) /\ Editing!Open' \subseteq 1..Len(edits)
    BY <1>0, OpenServed
  <2> HIDE DEF d
  <2> QED
    BY <1>1, <2>2, <2>3
<1>7. d.left # {} => Based(content', d) /\ Editing!Edit(d.content, d) = Editing!Edit(c.content, c)
  <2> SUFFICES ASSUME d.left # {} PROVE Based(content', d) /\ Editing!Edit(d.content, d) = Editing!Edit(c.content, c)
    OBVIOUS
  <2>1. "content" \in d.left <=> "content" \in c.left
    BY <1>2
  <2>2. Editing!MayEdit(d.content, d) /\ Editing!Edit(d.content, d) = Editing!Edit(c.content, c) /\ d.content = c.content
    BY <1>0, <1>1, <1>2 DEF Editing!MayEdit, Editing!Edit, SameAsk, Based
  <2> QED
    BY <1>1, <1>4, <2>1, <2>2 DEF Based
<1>8. Moves(d) = Moves(c) /\ d.kind # "spawn" /\ "spawn" \notin d.left
  BY <1>0, <1>2 DEF Moves, SameAsk
<1>10. CASE ~Moves(c)
  <2>1. \A m \in Editing!Open : ~Moves(edits[m])
    BY <1>3, <1>10 DEF Moves
  <2>2. /\ content.spawn.names \cup content.art \subseteq Editing!Defined(content.content)
        /\ \A m \in Editing!Open : NamesFit(content, edits[m])
    BY <2>1 DEF Orderly
  <2>3. Editing!Renamed(c.spawn.names, c) = c.spawn.names
    BY <1>1, <1>10 DEF Moves, Editing!Renamed
  <2>4. c.spawn.names \subseteq Editing!Defined(content.content)
    BY <1>0, <1>1, <2>2 DEF NamesFit
  <2>5. content'.spawn.names \cup content'.art \subseteq Editing!Defined(content'.content)
    BY <1>4, <1>4a, <2>2, <2>3, <2>4
  <2>6. NamesFit(content', d) /\ ~Moves(d)
    BY <1>8, <1>10 DEF NamesFit
  <2>7. \A m \in Editing!Open : m # n => NamesFit(content', edits'[m]) /\ ~Moves(edits'[m])
    BY <1>3, <1>4, <2>1, <2>2 DEF NamesFit
  <2>8. \A m \in Editing!Open' : /\ edits'[m].kind # "spawn" => Based(content', edits'[m])
                                 /\ NamesFit(content', edits'[m]) /\ ~Moves(edits'[m])
    BY <1>3, <1>6, <1>7, <2>6, <2>7
  <2> QED
    BY <1>4, <1>5, <2>5, <2>8 DEF Orderly
<1>11. CASE Moves(c)
  <2>1. Editing!Open = {n} /\ NamesFollow(content, c)
    BY <1>1, <1>3, <1>11 DEF Orderly
  <2>2. Editing!Defined(Editing!Edit(c.content, c)) = (Editing!Defined(c.content) \ {c.id}) \cup {c.newId}
    <3>1. c.newId # c.id
      BY <1>11 DEF Moves
    <3> QED
      BY <1>0, <1>1, <3>1, EditDefines
  <2>3. after.names \subseteq Editing!Defined(Editing!Edit(c.content, c))
    BY <1>4a, <2>1, <2>2 DEF NamesFollow, Editing!Renamed
  <2>4. CASE d.left = {}
    <3>1. "content" \notin c.left /\ Editing!Open' = {}
      BY <1>2, <1>6, <2>1, <2>4
    <3>2. content.content = Editing!Edit(c.content, c)
      BY <1>1, <3>1 DEF Based
    <3>3. content'.spawn.names \cup content'.art \subseteq Editing!Defined(content'.content)
      BY <1>4, <2>1, <2>3, <3>2 DEF NamesFollow
    <3> QED
      BY <1>4, <1>5, <3>1, <3>3 DEF Orderly
  <2>5. CASE d.left # {}
    <3>1. Editing!Open' = {n} /\ Based(content', d)
      BY <1>6, <1>7, <2>1, <2>5
    <3>2. NamesFollow(content', d)
      BY <1>2, <1>4, <1>7, <1>8, <2>1, <2>3, <2>5 DEF NamesFollow
    <3> QED
      BY <1>4, <1>5, <1>8, <1>11, <3>1, <3>2 DEF Orderly
  <2> QED
    BY <2>4, <2>5
<1> QED
  BY <1>10, <1>11

LEMMA OrderlySpawnWrites ==
  ASSUME TypedEditing, AllWritten, Lane, ~past.spoiled, Orderly, NEW n \in 1..Len(edits), Editing!SpawnWrites(n)
  PROVE  Orderly'
<1> DEFINE c == edits[n]
           d == edits'[n]
<1>0. /\ c \in EditCalls /\ Asks(c) /\ Holds(c) /\ Serves(n) /\ c.kind = "spawn" /\ SameAsk(c, d)
      /\ c.left = {"spawn"} /\ Editing!Wrote(n, "spawn")
  BY EditingServed, CallsAre DEF TypedEditing, Editing!SpawnWrites, Serves, Holds
<1>1. c.at = "read" /\ n \in Editing!Open
  BY <1>0, OpenServed DEF Holds, Orderly
<1>2. d.at = "ok"
  BY <1>0, <1>1, WroteServes DEF TypedEditing
<1>3. Editing!Open' = Editing!Open \ {n} /\ \A m \in Editing!Open' : edits'[m] = edits[m]
  BY <1>0, <1>2, OpenServed
<1>4. /\ content'.content = content.content /\ content'.spawn = c.text /\ content'.art = content.art
      /\ content'.content = past'.sum
  BY DEF Editing!SpawnWrites, TypedEditing, TypedFiles, TypedRest, Orderly
<1>5. \A m \in 1..Len(edits') : edits'[m].at # "failed"
  BY <1>0, <1>2 DEF Orderly, Serves
<1>6. \A m \in Editing!Open : ~Moves(edits[m])
  BY <1>0, <1>1 DEF Orderly
<1>7. /\ content.spawn.names \cup content.art \subseteq Editing!Defined(content.content)
      /\ \A m \in Editing!Open : NamesFit(content, edits[m])
  BY <1>6 DEF Orderly
<1>8. content'.spawn.names \cup content'.art \subseteq Editing!Defined(content'.content)
  BY <1>0, <1>1, <1>4, <1>7 DEF NamesFit
<1>9. \A m \in Editing!Open' : /\ edits'[m].kind # "spawn" => Based(content', edits'[m])
                               /\ NamesFit(content', edits'[m]) /\ ~Moves(edits'[m])
  BY <1>3, <1>4, <1>6, <1>7 DEF Orderly, Based, NamesFit
<1> QED
  BY <1>4, <1>5, <1>8, <1>9 DEF Orderly

LEMMA OrderlyServes ==
  ASSUME TypedEditing, AllWritten, Summed, ~past'.spoiled, Editing!Server
  PROVE  Orderly'
<1>1. PICK n \in 1..Len(edits) :
        Editing!Reads(n) \/ Editing!WritesContent(n) \/ Editing!WritesRenamed(n) \/ Editing!SpawnReads(n) \/ Editing!SpawnWrites(n) \/ Editing!WriteFails(n)
  BY DEF Editing!Server
<1>2. past'.spoiled # TRUE /\ ~Editing!WriteFails(n)
  BY DEF Editing!WriteFails, TypedEditing, TypedRest
<1>3. ~past.spoiled
  BY <1>1, <1>2 DEF Editing!Reads, Editing!WritesContent, Editing!WritesRenamed, Editing!SpawnReads, Editing!SpawnWrites, TypedEditing, TypedRest
<1> QED
  BY <1>1, <1>2, <1>3, OrderlyReads, OrderlySpawnReads, OrderlyWritesContent, OrderlyWritesNames, OrderlySpawnWrites
  DEF Summed

LEMMA OrderlyAsked ==
  ASSUME TypedEditing, Orderly, AskedFor, UNCHANGED <<content, past>>
  PROVE  Orderly'
<1>1. CASE edits' = edits
  BY <1>1, OrderlyKept DEF Orderly, Editing!Open, Editing!UnderWay
<1>2. CASE \E c \in EditCalls : edits' = Append(edits, c) /\ c.at = "waiting" /\ c.left = {} /\ Asks(c)
  <2>1. PICK c \in EditCalls : edits' = Append(edits, c) /\ c.at = "waiting"
    BY <1>2
  <2>2. /\ Len(edits') = Len(edits) + 1 /\ edits'[Len(edits) + 1] = c /\ Len(edits) \in Nat
        /\ \A m \in 1..Len(edits) : edits'[m] = edits[m]
    BY <2>1 DEF TypedEditing, TypedCalls
  <2>3. Editing!Open' = Editing!Open /\ \A m \in Editing!Open : edits'[m] = edits[m]
    BY <2>1, <2>2 DEF Editing!Open, Editing!UnderWay
  <2>4. \A m \in 1..Len(edits') : edits'[m].at # "failed"
    BY <2>1, <2>2 DEF Orderly
  <2> QED
    BY <2>3, <2>4, OrderlyKept
<1> QED
  BY <1>1, <1>2 DEF AskedFor

LEMMA SummedInit == Editing!InitEditing => Summed
<1> SUFFICES ASSUME Editing!InitEditing PROVE Summed
  OBVIOUS
<1>1. PICK named \in SUBSET (There \cap Types) :
        content = [content |-> [i \in Editing!Ids |-> IF i \in There THEN 0 ELSE None],
                 spawn |-> [text |-> 0, names |-> named], art |-> There \cap Types]
  BY DEF Editing!InitEditing
<1>2. There \subseteq Editing!Defined(content.content)
  BY <1>1, EditingAssumption DEF Editing!Defined, Editing!Ids
<1>3. content.spawn.names \cup content.art \subseteq Editing!Defined(content.content)
  BY <1>1, <1>2
<1>4. edits = <<>> /\ content.content = past.sum /\ Editing!Open = {}
  BY DEF Editing!InitEditing, Editing!Open
<1> QED
  BY <1>3, <1>4 DEF Summed, Lane, Orderly

LEMMA SummedStep == TypedEditing /\ AllWritten /\ Summed /\ [Editing!NextEditing]_(Editing!editing) => Summed'
<1> SUFFICES ASSUME TypedEditing, AllWritten, Summed, [Editing!NextEditing]_(Editing!editing) PROVE Summed'
  OBVIOUS
<1>1. Lane'
  BY LaneStays DEF Summed
<1>2. ASSUME ~past'.spoiled PROVE Orderly'
  <2>1. CASE Editing!Server
    BY <1>2, <2>1, OrderlyServes
  <2>2. CASE Editing!User
    BY <1>2, <2>2, EditingUsed, OrderlyAsked DEF Summed
  <2>3. CASE UNCHANGED Editing!editing
    BY <1>2, <2>3, OrderlyAsked DEF Summed, AskedFor, Editing!editing
  <2> QED
    BY <2>1, <2>2, <2>3 DEF Editing!NextEditing
<1> QED
  BY <1>1, <1>2 DEF Summed

LEMMA SummedAddsUp == Summed => Editing!EditsAddUp
  BY DEF Summed, Orderly, Editing!EditsAddUp, Editing!Open

-----------------------------------------------------------------------------
(* Visualizations.                                                            *)

Lines == [n : Nat, id : Boards \cup {None}]
PutsOf == {put \in [text : Lines, overwrite : BOOLEAN] : put.text.id \in Boards}

WaitsOf ==
  {Charts!Idle} \cup [at : {"loading"}, id : Boards, start : Lines, answer : Lines \cup {None}]
         \cup [at : {"saving"}, put : PutsOf, answer : {"exists", "saved", None}]

BoardPages ==
  [text : Lines, base : Lines, loaded : Boards \cup {None}, list : SUBSET Boards, asked : BOOLEAN,
   heard : (SUBSET Boards) \cup {None}, call : WaitsOf, dropped : Lines \cup {None}, mine : SUBSET Boards]

TypedVisual ==
  /\ boards \in [Boards -> Lines \cup {None}] /\ page \in BoardPages /\ puts \subseteq PutsOf /\ lines \in Nat

(* What the user was asked about is what a file that is read replaces, unless *)
(* more was typed; and what may overwrite a file is known to the page.        *)
AskedOf(p) == p.call.at = "loading" /\ p.text = p.call.start /\ Charts!Dirty(p) => p.dropped = p.text
Numbered ==
  /\ \A i \in Boards : boards[i] # None => boards[i].n <= lines
  /\ \A put \in puts : put.text.n <= lines
  /\ page.text.n <= lines
  /\ page.call.at = "loading" => page.call.start.n <= lines
                                 /\ (page.call.answer # None => page.call.answer.n <= lines)
  /\ page.call.at = "saving" => page.call.put.text.n <= lines
FilesKnown(p, ps) == \A put \in ps : put.overwrite => put.text.id \in p.mine

Consent == TypedVisual /\ AskedOf(page) /\ Numbered /\ FilesKnown(page, puts)

LEMMA ConsentInit == Charts!InitVisual => Consent
<1> SUFFICES ASSUME Charts!InitVisual PROVE Consent
  OBVIOUS
<1>1. PICK i \in Boards : page = Charts!Page(i)
  BY DEF Charts!InitVisual
<1>2. page \in BoardPages /\ page.call.at = "idle" /\ page.text.n = 0
  <2>1. Charts!Example(i) \in Lines /\ Charts!Example(i).n = 0 /\ Charts!Idle \in WaitsOf /\ Charts!Idle.at = "idle"
    BY DEF Charts!Example, Lines, WaitsOf, Charts!Idle
  <2>2. page.text = Charts!Example(i) /\ page.call = Charts!Idle
    BY <1>1 DEF Charts!Page
  <2>3. page \in BoardPages
    BY <1>1, <2>1, SMT DEF Charts!Page, BoardPages
  <2> QED
    BY <2>1, <2>2, <2>3
<1>3. boards \in [Boards -> Lines \cup {None}] /\ puts = {} /\ lines = 0
  BY DEF Charts!InitVisual, Charts!Example, Lines
<1>4. \A j \in Boards : boards[j] # None => boards[j].n = 0
  BY DEF Charts!InitVisual, Charts!Example
<1> QED
  BY <1>2, <1>3, <1>4 DEF Consent, TypedVisual, AskedOf, Numbered, FilesKnown

(* What the page's request is.                                                *)
LEMMA RequestIs ==
  ASSUME Consent
  PROVE  /\ page \in BoardPages
         /\ Charts!Free => page.call.at = "idle"
         /\ page.call.at = "loading" => page.call.id \in Boards /\ page.call.start \in Lines
                                        /\ page.call.answer \in Lines \cup {None}
         /\ page.call.at = "saving" => page.call.put \in PutsOf /\ page.call.answer \in {"exists", "saved", None}
         /\ page.call.at \in {"idle", "loading", "saving"}
         /\ page.call.at = "idle" => page.call = Charts!Idle
<1>1. page \in BoardPages /\ page.call \in WaitsOf
  BY DEF Consent, TypedVisual, BoardPages
<1> QED
  BY <1>1 DEF WaitsOf, Charts!Idle, Charts!Free

LEMMA ConsentSaves ==
  ASSUME Consent, NEW put \in puts, Charts!Saves(put)
  PROVE  Consent'
<1>0. put \in PutsOf /\ puts' \subseteq puts /\ lines' = lines
  BY DEF Consent, TypedVisual, Charts!Saves
<1>1. /\ boards' \in [Boards -> Lines \cup {None}]
      /\ \A i \in Boards : boards'[i] # None => boards'[i].n <= lines
  <2>1. put.text \in Lines /\ put.text.id \in Boards /\ put.text.n <= lines
    BY <1>0 DEF Consent, Numbered, PutsOf
  <2> QED
    BY <2>1 DEF Consent, TypedVisual, Charts!Saves, Numbered
<1>2. page' \in BoardPages /\ page'.text = page.text /\ page'.base = page.base /\ page'.dropped = page.dropped
      /\ page'.mine = page.mine /\ page'.call.at = page.call.at
      /\ (page.call.at = "loading" => page'.call = page.call)
      /\ (page.call.at = "saving" => page'.call.put = page.call.put)
  <2>1. CASE Charts!Waits(put)
    <3>1. PICK a \in {"exists", "saved"} : page' = Charts!Answer(a)
      BY <2>1 DEF Charts!Saves
    <3>2. page.call.at = "saving" /\ page.call = [at |-> "saving", put |-> put, answer |-> None]
      BY <2>1 DEF Charts!Waits
    <3>3. page' = [page EXCEPT !.call = [at |-> "saving", put |-> put, answer |-> a]]
      BY <3>1, <3>2, RequestIs DEF Charts!Answer, BoardPages
    <3> QED
      BY <1>0, <3>2, <3>3, RequestIs DEF BoardPages, WaitsOf
  <2>2. CASE ~Charts!Waits(put)
    BY <2>2, RequestIs DEF Charts!Saves
  <2> QED
    BY <2>1, <2>2
<1> QED
  BY <1>0, <1>1, <1>2 DEF Consent, TypedVisual, AskedOf, Numbered, FilesKnown, Charts!Dirty

(* A new number leaves the old ones in bounds.                                *)
LEMMA NumbersStay ==
  ASSUME Consent, lines' = lines + 1, UNCHANGED puts,
         NEW i \in Boards \cup {None}, NEW new \in Lines, new.n = lines + 1,
         \/ UNCHANGED page /\ i \in Boards /\ boards' = [boards EXCEPT ![i] = new]
         \/ UNCHANGED boards /\ page' = [page EXCEPT !.text = new]
  PROVE  Numbered'
<1>0. lines \in Nat
  BY DEF Consent, TypedVisual
<1>a. \A m \in Nat : m <= lines => m <= lines'
  BY <1>0
<1>1. \A put \in puts : put.text.n \in Nat /\ put.text.n <= lines
  BY DEF Consent, TypedVisual, Numbered, PutsOf, Lines
<1>2. \A j \in Boards : boards[j] # None => boards[j].n \in Nat /\ boards[j].n <= lines
  BY DEF Consent, TypedVisual, Numbered, Lines
<1>3. page.text.n \in Nat /\ page.text.n <= lines
  BY DEF Consent, TypedVisual, Numbered, Lines, BoardPages
<1>4. page.call.at = "loading" => /\ page.call.start.n \in Nat /\ page.call.start.n <= lines
                                  /\ page.call.answer # None => page.call.answer.n \in Nat /\ page.call.answer.n <= lines
  BY RequestIs DEF Consent, Numbered, Lines
<1>5. page.call.at = "saving" => page.call.put.text.n \in Nat /\ page.call.put.text.n <= lines
  BY RequestIs DEF Consent, Numbered, PutsOf, Lines
<1>6. /\ (\A j \in Boards : boards'[j] # None => boards'[j].n <= lines')
      /\ page'.text.n <= lines' /\ page'.call = page.call
  <2>1. page \in BoardPages /\ boards \in [Boards -> Lines \cup {None}]
    BY DEF Consent, TypedVisual
  <2> QED
    BY <1>0, <1>2, <1>3, <2>1 DEF BoardPages
<1>7. \A put \in puts' : put.text.n <= lines'
  BY <1>a, <1>1
<1>8. page'.call.at = "loading" => page'.call.start.n <= lines'
                                   /\ (page'.call.answer # None => page'.call.answer.n <= lines')
  BY <1>a, <1>4, <1>6
<1>9. page'.call.at = "saving" => page'.call.put.text.n <= lines'
  BY <1>a, <1>5, <1>6
<1> QED
  BY <1>6, <1>7, <1>8, <1>9 DEF Numbered

LEMMA ConsentServes ==
  ASSUME Consent, Charts!Reads \/ Charts!Lists \/ \E i \in Boards : Charts!Elsewhere(i)
  PROVE  Consent'
<1>1. CASE Charts!Reads
  <2> DEFINE a == boards[page.call.id]
  <2>1. page.call.at = "loading" /\ page.call.id \in Boards /\ page.call.start \in Lines /\ a \in Lines \cup {None}
    BY <1>1, RequestIs DEF Charts!Reads, Consent, TypedVisual
  <2>2. page' = [page EXCEPT !.call = [at |-> "loading", id |-> page.call.id, start |-> page.call.start, answer |-> a]]
    <3>1. page.call \in [at : {"loading"}, id : Boards, start : Lines, answer : Lines \cup {None}]
      BY <2>1 DEF Consent, TypedVisual, BoardPages, WaitsOf, Charts!Idle
    <3> QED
      BY <1>1, <3>1, RequestIs DEF Charts!Reads, Charts!Answer, BoardPages
  <2>3. UNCHANGED <<boards, puts, lines>>
    BY <1>1 DEF Charts!Reads
  <2> HIDE DEF a
  <2>a. a # None => a.n <= lines
    BY <2>1 DEF a, Consent, Numbered
  <2>4. page' \in BoardPages /\ page'.call.at = "loading" /\ page'.call.start = page.call.start /\ page'.call.answer = a
        /\ page'.text = page.text /\ page'.base = page.base /\ page'.dropped = page.dropped /\ page'.mine = page.mine
    BY <2>1, <2>2, RequestIs DEF BoardPages, WaitsOf
  <2> QED
    BY <2>1, <2>a, <2>3, <2>4 DEF Consent, TypedVisual, AskedOf, Numbered, FilesKnown, Charts!Dirty
<1>2. CASE Charts!Lists
  <2>1. page' \in BoardPages /\ page'.call = page.call /\ page'.text = page.text /\ page'.base = page.base
        /\ page'.dropped = page.dropped /\ page'.mine = page.mine /\ UNCHANGED <<boards, puts, lines>>
    BY <1>2, RequestIs DEF Charts!Lists, BoardPages, Charts!Saved
  <2> QED
    BY <2>1 DEF Consent, TypedVisual, AskedOf, Numbered, FilesKnown, Charts!Dirty
<1>3. CASE \E i \in Boards : Charts!Elsewhere(i)
  <2>1. PICK i \in Boards : Charts!Elsewhere(i)
    BY <1>3
  <2>2. lines \in Nat /\ lines' = lines + 1 /\ UNCHANGED <<page, puts>> /\ page \in BoardPages
    BY <2>1 DEF Charts!Elsewhere, Consent, TypedVisual
  <2>3. boards' \in [Boards -> Lines \cup {None}]
    BY <2>1, <2>2 DEF Charts!Elsewhere, Consent, TypedVisual, Lines
  <2>4. Numbered'
    <3>1. boards' = [boards EXCEPT ![i] = [n |-> lines + 1, id |-> i]]
      BY <2>1 DEF Charts!Elsewhere
    <3>2. [n |-> lines + 1, id |-> i] \in Lines
      BY <2>2 DEF Lines
    <3> QED
      BY <2>2, <3>1, <3>2, NumbersStay
  <2> QED
    BY <2>2, <2>3, <2>4 DEF Consent, TypedVisual, AskedOf, FilesKnown, Charts!Dirty
<1> QED
  BY <1>1, <1>2, <1>3

(* The page turns to another text, and waits for nothing.                     *)
LEMMA ConsentRests ==
  ASSUME Consent, NEW p \in BoardPages, p.call = Charts!Idle, page' = p, p.text.n <= lines,
         page.mine \subseteq p.mine, puts' \subseteq puts, UNCHANGED <<boards, lines>>
  PROVE  Consent'
<1>1. p.call.at = "idle"
  BY DEF Charts!Idle
<1> QED
  BY <1>1 DEF Consent, TypedVisual, AskedOf, Numbered, FilesKnown

LEMMA ConsentSends ==
  ASSUME Consent, NEW put \in PutsOf, Charts!Sends(put), put.text.n <= lines
  PROVE  Consent'
<1> DEFINE p == [page EXCEPT !.call = [at |-> "saving", put |-> put, answer |-> None],
                             !.mine = IF put.overwrite THEN @ \cup {put.text.id} ELSE @]
<1>1. puts' = puts \cup {put} /\ page' = p /\ UNCHANGED <<boards, lines>>
  BY DEF Charts!Sends, Charts!Shows
<1>2. put.text.id \in Boards
  BY DEF PutsOf
<1>3. p \in BoardPages /\ p.call.at = "saving" /\ p.text = page.text /\ page.mine \subseteq p.mine
      /\ (put.overwrite => put.text.id \in p.mine) /\ p.call.put = put
  BY <1>2, RequestIs DEF BoardPages, WaitsOf
<1> HIDE DEF p
<1> QED
  BY <1>1, <1>3 DEF Consent, TypedVisual, AskedOf, Numbered, FilesKnown

LEMMA ConsentUses ==
  ASSUME Consent, Charts!Using
  PROVE  Consent'
<1>0. page \in BoardPages /\ page.text.n \in Nat /\ lines \in Nat /\ page.text.n <= lines
      /\ \A i \in Boards : Charts!Example(i) \in Lines /\ Charts!Example(i).n = 0
  BY RequestIs DEF BoardPages, Lines, Consent, TypedVisual, Numbered, Charts!Example
<1>1. CASE \E i \in Boards \cup {None} : Charts!Type(i)
  <2>1. PICK i \in Boards \cup {None} : Charts!Type(i)
    BY <1>1
  <2> DEFINE new == [n |-> lines + 1, id |-> i]
  <2>2. page' = [page EXCEPT !.text = new] /\ lines' = lines + 1 /\ UNCHANGED <<boards, puts>> /\ new \in Lines
    BY <1>0, <2>1 DEF Charts!Type, Lines
  <2>3. page' \in BoardPages /\ page'.text = new /\ page'.call = page.call /\ page'.mine = page.mine
    BY <1>0, <2>2 DEF BoardPages
  <2>4. page.call.at = "loading" => page.call.start.n \in Nat /\ page.call.start.n <= lines
    BY RequestIs DEF Consent, Numbered, Lines
  <2>5. Numbered'
    BY <2>2, NumbersStay
  <2>6. AskedOf(page)'
    BY <1>0, <2>2, <2>3, <2>4 DEF AskedOf
  <2> QED
    BY <1>0, <2>2, <2>3, <2>5, <2>6 DEF Consent, TypedVisual, FilesKnown
<1>2. CASE \E i \in Boards : Charts!SelectExample(i)
  <2>1. PICK i \in Boards : Charts!SelectExample(i)
    BY <1>2
  <2> DEFINE p == [Charts!Replaced(page, Charts!Example(i), None) EXCEPT !.dropped = Charts!Dropping(page)]
  <2>2. page' = p /\ UNCHANGED <<boards, lines, puts>>
    BY <2>1 DEF Charts!SelectExample, Charts!Shows
  <2>3. p \in BoardPages /\ p.call = Charts!Idle /\ p.text = Charts!Example(i) /\ p.mine = page.mine
    BY <1>0 DEF BoardPages, Charts!Replaced, Charts!Dropping, WaitsOf
  <2> HIDE DEF p
  <2> QED
    BY <1>0, <2>2, <2>3, ConsentRests
<1>3. CASE \E i \in Boards : Charts!SelectSaved(i)
  <2>1. PICK i \in Boards : Charts!SelectSaved(i)
    BY <1>3
  <2> DEFINE p == [page EXCEPT !.dropped = Charts!Dropping(page),
                     !.call = [at |-> "loading", id |-> i, start |-> page.text, answer |-> None]]
  <2>2. page' = p /\ UNCHANGED <<boards, lines, puts>>
    BY <2>1 DEF Charts!SelectSaved, Charts!Shows
  <2>3. p \in BoardPages /\ p.text = page.text /\ p.base = page.base /\ p.call.start = page.text /\ p.mine = page.mine
        /\ p.call.at = "loading" /\ p.call.answer = None
        /\ p.dropped = Charts!Dropping(page)
    BY <1>0 DEF BoardPages, Charts!Dropping, WaitsOf
  <2> HIDE DEF p
  <2> QED
    BY <1>0, <2>2, <2>3 DEF Consent, TypedVisual, AskedOf, Numbered, FilesKnown, Charts!Dropping, Charts!Dirty
<1>4. CASE Charts!Listed
  <2>0. page.heard \in SUBSET Boards /\ page' = [page EXCEPT !.list = page.heard, !.heard = None]
    BY <1>0, <1>4 DEF Charts!Listed, Charts!Shows, BoardPages
  <2>1. page' \in BoardPages /\ page'.call = page.call /\ page'.text = page.text /\ page'.base = page.base
        /\ page'.dropped = page.dropped /\ page'.mine = page.mine /\ UNCHANGED <<boards, puts, lines>>
    BY <1>0, <1>4, <2>0 DEF Charts!Listed, Charts!Shows, BoardPages
  <2> QED
    BY <2>1 DEF Consent, TypedVisual, AskedOf, Numbered, FilesKnown, Charts!Dirty
<1>5. CASE Charts!Save
  <2>1. PICK put : put = Charts!Put(page.text, page.loaded = page.text.id \/ page.text.id \in page.list)
    OBVIOUS
  <2>2. Charts!Sends(put) /\ page.text.id # None
    BY <1>5, <2>1 DEF Charts!Save
  <2>3. put \in PutsOf /\ put.text.n <= lines
    BY <1>0, <2>1, <2>2 DEF Charts!Put, PutsOf, BoardPages, Lines
  <2> QED
    BY <2>2, <2>3, ConsentSends
<1>6. CASE Charts!SaveAnswered
  <2> DEFINE put == page.call.put
             p == [page EXCEPT !.base = put.text, !.loaded = put.text.id, !.call = Charts!Idle,
                               !.list = @ \cup {put.text.id}, !.mine = @ \cup {put.text.id}]
             again == [put EXCEPT !.overwrite = TRUE]
  <2>0. put \in PutsOf /\ put.text \in Lines /\ put.text.id \in Boards /\ put.text.n <= lines
    BY <1>6, RequestIs DEF Charts!SaveAnswered, PutsOf, Consent, Numbered
  <2>1. \/ Charts!Shows(p) /\ UNCHANGED puts
        \/ Charts!Sends(again)
        \/ Charts!Shows([page EXCEPT !.call = Charts!Idle]) /\ UNCHANGED puts
    BY <1>6 DEF Charts!SaveAnswered
  <2>2. CASE Charts!Shows(p) /\ UNCHANGED puts
    <3>1. p \in BoardPages /\ p.call = Charts!Idle /\ p.text = page.text /\ page.mine \subseteq p.mine
      BY <1>0, <2>0 DEF BoardPages, WaitsOf
    <3> HIDE DEF p
    <3> QED
      BY <1>0, <2>2, <3>1, ConsentRests DEF Charts!Shows
  <2>3. CASE Charts!Sends(again)
    <3>1. again \in PutsOf /\ again.text.n <= lines
      BY <2>0 DEF PutsOf
    <3> HIDE DEF again
    <3> QED
      BY <2>3, <3>1, ConsentSends
  <2>4. CASE Charts!Shows([page EXCEPT !.call = Charts!Idle]) /\ UNCHANGED puts
    <3> DEFINE q == [page EXCEPT !.call = Charts!Idle]
    <3>1. q \in BoardPages /\ q.call = Charts!Idle /\ q.text = page.text /\ q.mine = page.mine
      BY <1>0 DEF BoardPages, WaitsOf
    <3> HIDE DEF q
    <3> QED
      BY <1>0, <2>4, <3>1, ConsentRests DEF Charts!Shows, q
  <2> QED
    BY <2>1, <2>2, <2>3, <2>4
<1>7. CASE Charts!Breaks
  <2> DEFINE q == [page EXCEPT !.call = Charts!Idle]
  <2>1. q \in BoardPages /\ q.call = Charts!Idle /\ q.text = page.text /\ q.mine = page.mine
    BY <1>0 DEF BoardPages, WaitsOf
  <2>2. page' = q /\ puts' \subseteq puts /\ UNCHANGED <<boards, lines>>
    BY <1>7 DEF Charts!Breaks
  <2> HIDE DEF q
  <2> QED
    BY <1>0, <2>1, <2>2, ConsentRests
<1>8. CASE Charts!Loaded
  <2> DEFINE a == page.call.answer
  <2>1. page.call.at = "loading" /\ page.call.id \in Boards /\ a \in Lines /\ a.n <= lines
    BY <1>8, RequestIs DEF Charts!Loaded, Consent, Numbered
  <2>2. PICK yes \in BOOLEAN :
          Charts!Shows(IF Charts!Loads(page, yes)
                THEN [Charts!Replaced(page, a, page.call.id) EXCEPT !.dropped = IF yes THEN Charts!Dropping(page) ELSE @]
                ELSE [page EXCEPT !.call = Charts!Idle])
    BY <1>8 DEF Charts!Loaded
  <2> DEFINE p == [Charts!Replaced(page, a, page.call.id) EXCEPT !.dropped = IF yes THEN Charts!Dropping(page) ELSE @]
             q == [page EXCEPT !.call = Charts!Idle]
  <2>3. p \in BoardPages /\ p.call = Charts!Idle /\ p.text = a /\ page.mine \subseteq p.mine
    BY <1>0, <2>1 DEF BoardPages, Charts!Replaced, Charts!Dropping, WaitsOf
  <2>4. q \in BoardPages /\ q.call = Charts!Idle /\ q.text = page.text /\ q.mine = page.mine
    BY <1>0 DEF BoardPages, WaitsOf
  <2>5. page' \in {p, q} /\ puts' = puts /\ UNCHANGED <<boards, lines>>
    BY <1>8, <2>2 DEF Charts!Loaded, Charts!Shows
  <2> HIDE DEF p, q
  <2> QED
    BY <1>0, <2>1, <2>3, <2>4, <2>5, ConsentRests
<1> QED
  BY <1>1, <1>2, <1>3, <1>4, <1>5, <1>6, <1>7, <1>8 DEF Charts!Using

LEMMA ConsentStep == Consent /\ [Charts!NextVisual]_(Charts!visual) => Consent'
<1> SUFFICES ASSUME Consent, [Charts!NextVisual]_(Charts!visual) PROVE Consent'
  OBVIOUS
<1>1. CASE UNCHANGED Charts!visual
  BY <1>1 DEF Charts!visual, Consent, TypedVisual, AskedOf, Numbered, FilesKnown, Charts!Dirty
<1> QED
  BY <1>1, ConsentUses, ConsentServes, ConsentSaves DEF Charts!NextVisual

(* Text is replaced by an example or a file that was asked for, and nowhere   *)
(* else.                                                                      *)
LEMMA TextIsAskedAbout ==
  ASSUME Consent, Charts!NextVisual, Charts!Dirty(page), page'.text # page.text
  PROVE  lines' # lines \/ page'.dropped = page.text
<1>0. page \in BoardPages /\ lines \in Nat
  BY DEF Consent, TypedVisual
<1>1. CASE \E i \in Boards \cup {None} : Charts!Type(i)
  BY <1>0, <1>1 DEF Charts!Type
<1>2. CASE \E i \in Boards : Charts!SelectExample(i)
  BY <1>0, <1>2 DEF Charts!SelectExample, Charts!Shows, Charts!Replaced, Charts!Dropping, BoardPages
<1>3. CASE Charts!Loaded
  <2>1. PICK yes \in BOOLEAN :
          page' = IF Charts!Loads(page, yes)
                  THEN [Charts!Replaced(page, page.call.answer, page.call.id) EXCEPT
                          !.dropped = IF yes THEN Charts!Dropping(page) ELSE @]
                  ELSE [page EXCEPT !.call = Charts!Idle]
    BY <1>3 DEF Charts!Loaded, Charts!Shows
  <2>2. Charts!Loads(page, yes)
    BY <1>0, <2>1 DEF BoardPages
  <2>3. page'.dropped = IF yes THEN page.text ELSE page.dropped
    BY <1>0, <2>1, <2>2 DEF Charts!Replaced, Charts!Dropping, BoardPages
  <2>4. page.text = page.call.start => page.dropped = page.text
    BY <1>3 DEF Charts!Loaded, Consent, AskedOf
  <2> QED
    BY <2>2, <2>3, <2>4 DEF Charts!Loads, Charts!MayReplace
<1>4. CASE \E i \in Boards : Charts!SelectSaved(i)
  BY <1>0, <1>4 DEF Charts!SelectSaved, Charts!Shows, BoardPages
<1>5. CASE Charts!Listed \/ Charts!Save \/ Charts!SaveAnswered \/ Charts!Breaks
  BY <1>0, <1>5 DEF Charts!Listed, Charts!Save, Charts!SaveAnswered, Charts!Sends, Charts!Breaks, Charts!Shows, BoardPages
<1>6. CASE \E i \in Boards : Charts!Elsewhere(i)
  BY <1>6 DEF Charts!Elsewhere
<1>7. CASE Charts!Reads \/ Charts!Lists \/ \E put \in puts : Charts!Saves(put)
  BY <1>0, <1>7 DEF Charts!Reads, Charts!Lists, Charts!Saves, Charts!Answer, BoardPages
<1>8. CASE Charts!Using
  BY <1>1, <1>2, <1>3, <1>4, <1>5, <1>8 DEF Charts!Using
<1> QED
  BY <1>6, <1>7, <1>8 DEF Charts!NextVisual

LEMMA FileIsKnown ==
  ASSUME Consent, Charts!NextVisual, NEW i \in Boards, boards[i] # None, boards'[i] # boards[i], puts' # puts
  PROVE  i \in page.mine
<1>1. PICK put \in puts : Charts!Saves(put)
  BY DEF Charts!NextVisual, Charts!Using, Charts!Type, Charts!SelectExample, Charts!SelectSaved, Charts!Listed, Charts!Loaded, Charts!Save, Charts!SaveAnswered, Charts!Sends, Charts!Shows, Charts!Breaks,
    Charts!Elsewhere, Charts!Reads, Charts!Lists
<1>2. ~Charts!Refuses(put) /\ i = put.text.id
  BY <1>1 DEF Charts!Saves, Consent, TypedVisual
<1> QED
  BY <1>2 DEF Charts!Refuses, Consent, FilesKnown

LEMMA ConsentMeans == Consent /\ [Charts!NextVisual]_(Charts!visual) =>
  [/\ Charts!Dirty(page) /\ page'.text # page.text => lines' # lines \/ page'.dropped = page.text
   /\ \A i \in Boards :
        boards[i] # None /\ boards'[i] # boards[i] /\ puts' # puts => i \in page.mine]_(Charts!visual)
  BY TextIsAskedAbout, FileIsKnown

-----------------------------------------------------------------------------
(* The run is of one part or another.                                         *)

LEMMA OneStep ==
  ASSUME [OneNext]_<<part, vars, definitions, charts>>
  PROVE  [Editing!NextEditing]_(Editing!editing) /\ [Charts!NextVisual]_(Charts!visual)
  BY DEF OneNext, definitions, charts, Editing!editing, Charts!visual

(* No edit of the one file of definitions is lost or undone by another of any *)
(* number of tabs, and with no save of spawn.yaml in between no name in it    *)
(* and no directory is left behind (mutateContentResponse, contentRevisions). *)
THEOREM EditsAddUpAlways == OneSpec => []EditsAddUp
<1> DEFINE I == TypedEditing /\ AllWritten /\ Summed
<1>1. OneInit => I
  BY TypedEditingInit, AllWrittenInit, SummedInit DEF OneInit
<1>2. I /\ [OneNext]_<<part, vars, definitions, charts>> => I'
  BY OneStep, AllWrittenStep, SummedStep
<1>3. I => EditsAddUp
  BY SummedAddsUp DEF EditsAddUp
<1> HIDE DEF I
<1> QED
  BY <1>1, <1>2, <1>3, PTL DEF OneSpec

(* What the graphs, the balance page and the spawn page take for saved was on *)
(* disk under that id, whatever is typed, answered or lost meanwhile.         *)
THEOREM SavedWasWrittenAlways == OneSpec => []SavedWasWritten
<1> DEFINE I == TypedEditing /\ AllWritten
<1>1. OneInit => I
  BY TypedEditingInit, AllWrittenInit DEF OneInit
<1>2. I /\ [OneNext]_<<part, vars, definitions, charts>> => I'
  BY OneStep, AllWrittenStep
<1>3. I => SavedWasWritten
  BY WrittenIsSaved DEF SavedWasWritten
<1> HIDE DEF I
<1> QED
  BY <1>1, <1>2, <1>3, PTL DEF OneSpec

(* Unsaved text is replaced only when the user says so, and a saved file only *)
(* by a page that once loaded or wrote it or was told to, for any number of   *)
(* visualizations and texts (BalanceEditor, balanceFiles).                    *)
THEOREM NothingIsReplacedUnasked == OneSpec => NothingReplacedUnasked
<1>1. OneInit => Consent
  BY ConsentInit DEF OneInit
<1>2. Consent /\ [OneNext]_<<part, vars, definitions, charts>> => Consent'
  BY OneStep, ConsentStep
<1>3. Consent /\ [OneNext]_<<part, vars, definitions, charts>> =>
  [/\ Charts!Dirty(page) /\ page'.text # page.text => lines' # lines \/ page'.dropped = page.text
   /\ \A i \in Boards :
        boards[i] # None /\ boards'[i] # boards[i] /\ puts' # puts => i \in page.mine]_(Charts!visual)
  BY OneStep, ConsentMeans
<1> QED
  BY <1>1, <1>2, <1>3, PTL DEF OneSpec, NothingReplacedUnasked, Charts!NothingReplacedUnasked
=============================================================================
