---------------------------- MODULE SpriteStudio ----------------------------
(* The artwork of an entity, from a brief or a mask dialog to the revision it *)
(* is published in: the sprite catalog with its tools (SpriteCatalog.tsx), the *)
(* mask dialog (MaskGenerationDialog.tsx), the generation page                 *)
(* (content/sprites/page.tsx) and the routes behind them. A request is a       *)
(* record with its stage; whatever changes artwork waits for the one lane of   *)
(* mutations (contentRevisions.ts). A picture is what it shows, how large it   *)
(* is and how it is turned. The two asset directories are one: both are        *)
(* written by the same call. The gray sprite goes with the primary mask, the   *)
(* colors with the invariant mask, the opacities with both.                    *)
EXTENDS Naturals, Sequences, FiniteSets, SequencesExt, TLC

CONSTANTS
  None,       \* no value
  Entities,   \* whose artwork is worked on
  Wanted,     \* candidates asked for at a time
  MaxCalls,   \* requests in one behaviour with the catalog page
  MaxDrafts,  \* and with the generation page
  MaxTroubles \* what fails, is lost or comes in between

ASSUME StudioAssumption ==
  /\ Wanted \in Nat \ {0} /\ MaxCalls \in Nat /\ MaxDrafts \in Nat /\ MaxTroubles \in Nat
  /\ Entities # {} /\ None \notin Nat

VARIABLES
  files,    \* the published artwork
  masks,    \* mask candidates by the request that began them
  art,      \* sprite candidates by the request that began them
  calls,    \* requests under way or answered
  lane,     \* the requests that wait for the lane; the first one has it
  stray,    \* writes that go on after their request has failed
  catalog,  \* the catalog page and its tool, Shut if the other page is open
  dialog,   \* the mask dialog over it
  maker,    \* the generation page, Shut if the other page is open
  made,     \* requests so far
  trouble   \* what has gone wrong or come in between

server == <<files, masks, art, lane, stray>>
pages == <<catalog, dialog, maker>>
vars == <<server, calls, pages, made, trouble>>

-----------------------------------------------------------------------------
Companions == {"primary", "invariants"}
Parts == Companions \cup {"idle"}
Picture(n, i) == [of |-> <<n, i>>, size |-> "large", turn |-> 0]
Resized(p) == [p EXCEPT !.size = "small"]
Oriented(p) == [p EXCEPT !.turn = 1 - @]
Transformed(p, tool) == IF tool = "downsample" THEN Resized(p) ELSE Oriented(p)

(* What is stored under the number of the request that began it.               *)
Put(f, n, x) == [m \in DOMAIN f \cup {n} |-> IF m = n THEN x ELSE f[m]]

Candidate(src) == [src |-> src, gray |-> FALSE, invariants |-> None, primary |-> None]

Call(kind, e, from, arg) ==
  [n |-> made + 1, kind |-> kind, for |-> e, from |-> from, arg |-> arg, at |-> "asked",
   set |-> <<>>, todo |-> {}, had |-> None]

AskAfter(rest, kind, e, from, arg) ==
  /\ made < (IF maker.open THEN MaxDrafts ELSE MaxCalls) /\ made' = made + 1
  /\ calls' = rest \cup {Call(kind, e, from, arg)}

Ask(kind, e, from, arg) == AskAfter(calls, kind, e, from, arg)

Becomes(c, d) == calls' = (calls \ {c}) \cup {d}

(* Of an answered request only the answer is left, if somebody waits for it.   *)
Ends(c, at) ==
  calls' = (calls \ {c}) \cup
    (IF c.from = "nobody" THEN {}
     ELSE {[c EXCEPT !.at = at, !.set = <<>>, !.todo = {}, !.had = None]})
Fails(c) == Ends(c, "failed")
Trouble(t) == Cardinality(trouble) < MaxTroubles /\ t \notin trouble /\ trouble' = trouble \cup {t}

-----------------------------------------------------------------------------
(* The lane: one mutation writes and is staged before the next one begins.     *)

Enqueue(c, set) ==
  /\ Becomes(c, [c EXCEPT !.at = "lane", !.set = set, !.todo = DOMAIN set])
  /\ lane' = Append(lane, c.n)

\* Mutant: a mutation does not wait for the one before it.
MyTurnAlways(c) == c.n \in ToSet(lane)

MyTurn(c) == lane # <<>> /\ c.n = Head(lane)

Write(c, p) ==
  /\ c.at = "lane" /\ MyTurn(c) /\ p \in c.todo
  /\ files' = [files EXCEPT ![c.for][p] = c.set[p]]
  /\ Becomes(c, [c EXCEPT !.todo = @ \ {p}])
  /\ UNCHANGED <<masks, art, lane, stray, pages, made, trouble>>

(* One write fails: the request does, and the lane goes on, but not the writes *)
(* that were begun with it.                                                    *)
WriteFails(c, p) ==
  /\ c.at = "lane" /\ MyTurn(c) /\ p \in c.todo
  /\ Trouble("write")
  /\ stray' = stray \cup {[for |-> c.for, part |-> q, picture |-> c.set[q]] : q \in c.todo \ {p}}
  /\ lane' = Tail(lane)
  /\ Fails(c)
  /\ UNCHANGED <<files, masks, art, pages, made>>

StrayLands(w) ==
  /\ stray' = stray \ {w}
  /\ files' = [files EXCEPT ![w.for][w.part] = w.picture]
  /\ UNCHANGED <<masks, art, lane, calls, pages, made, trouble>>

Stage(c) ==
  /\ c.at = "lane" /\ MyTurn(c) /\ c.todo = {}
  /\ Ends(c, "done")
  /\ lane' = Tail(lane)
  /\ UNCHANGED <<files, masks, art, stray, pages, made, trouble>>

-----------------------------------------------------------------------------
(* What the routes read before they wait for the lane.                         *)

(* Somebody else, or the same user in another tab.                             *)
Elsewhere(kind, e) ==
  /\ Trouble("others")
  /\ Ask(kind, e, "nobody", "rotate")
  /\ UNCHANGED <<server, pages>>

UploadReads(c) ==
  /\ c.kind = "upload" /\ c.at = "asked"
  /\ Enqueue(c, [p \in {"idle"} |-> Picture(c.n, 0)])
  /\ UNCHANGED <<files, masks, art, stray, pages, made, trouble>>

PublishReads(c) ==
  /\ c.kind = "publish" /\ c.at = "asked"
  /\ LET r == c.arg
         whole == Picture(r.req, r.i)
         sized == IF r.size = "small" THEN Resized(whole) ELSE whole IN
       IF art[r.req].stored < r.i THEN Fails(c) /\ UNCHANGED lane
       ELSE Enqueue(c, [p \in {"idle"} |-> IF r.front = "right" THEN sized ELSE Oriented(sized)])
  /\ UNCHANGED <<files, masks, art, stray, pages, made, trouble>>

TransformReads(c) ==
  /\ c.kind = "transform" /\ c.at = "asked"
  /\ LET p == files[c.for]["idle"] IN
       IF p = None \/ (c.arg = "downsample" /\ p.size = "small") THEN Fails(c)
       ELSE Becomes(c, [c EXCEPT !.at = "reads", !.had = p])
  /\ UNCHANGED <<server, pages, made, trouble>>

Present(e) == {p \in Companions : files[e][p] # None}

TransformReadsCompanions(c) ==
  /\ c.kind = "transform" /\ c.at = "reads"
  /\ IF \E p \in Present(c.for) : files[c.for][p].size # c.had.size THEN Fails(c) /\ UNCHANGED lane
     ELSE Enqueue(c, [p \in Present(c.for) \cup {"idle"} |->
                        Transformed(IF p = "idle" THEN c.had ELSE files[c.for][p], c.arg)])
  /\ UNCHANGED <<files, masks, art, stray, pages, made, trouble>>

(* A candidate is of use only while the sprite is the one it was made from.    *)
Usable(c) == masks[c.arg.req].src = files[c.for]["idle"]

MasksRead(c) ==
  /\ c.kind = "masks" /\ c.at = "asked"
  /\ LET m == masks[c.arg.req]
         On(n) == [of |-> <<n, 0>>, size |-> m.src.size, turn |-> m.src.turn] IN
       IF ~Usable(c) \/ m.primary = None THEN Fails(c) /\ UNCHANGED lane
       ELSE Enqueue(c, [p \in Companions |-> IF p = "primary" THEN On(m.primary.n) ELSE On(m.invariants.n)])
  /\ UNCHANGED <<files, masks, art, stray, pages, made, trouble>>

-----------------------------------------------------------------------------
(* Mask candidates: enlarging the sprite, then two masks, the second cut with  *)
(* the first.                                                                  *)

UpscaleReads(c) ==
  /\ c.kind = "upscale" /\ c.at = "asked"
  /\ LET p == files[c.for]["idle"] IN
       IF p = None THEN Fails(c) /\ UNCHANGED masks
       ELSE /\ masks' = Put(masks, c.n, Candidate(p))
            /\ Becomes(c, [c EXCEPT !.at = "model"])
  /\ UNCHANGED <<files, art, lane, stray, pages, made, trouble>>

Upscaled(c) ==
  /\ c.kind = "upscale" /\ c.at = "model"
  /\ masks' = [masks EXCEPT ![c.n].gray = TRUE]
  /\ Ends(c, "done")
  /\ UNCHANGED <<files, art, lane, stray, pages, made, trouble>>

GenerateReads(c) ==
  /\ c.kind \in {"invariants", "primary"} /\ c.at = "asked"
  /\ LET m == masks[c.arg.req] IN
       IF ~Usable(c) \/ ~m.gray \/ (c.kind = "primary" /\ m.invariants = None) THEN Fails(c)
       ELSE Becomes(c, [c EXCEPT !.at = "model", !.had = m.invariants])
  /\ UNCHANGED <<server, pages, made, trouble>>

Generated(c) ==
  /\ c.kind \in {"invariants", "primary"} /\ c.at = "model"
  /\ masks' = IF c.kind = "invariants"
              THEN [masks EXCEPT ![c.arg.req].invariants = [n |-> c.n, empty |-> c.arg.skip]]
              ELSE [masks EXCEPT ![c.arg.req].primary = [n |-> c.n, cut |-> c.had.n]]
  /\ Ends(c, "done")
  /\ UNCHANGED <<files, art, lane, stray, pages, made, trouble>>

(* The image service fails, or what it gives is not a mask.                    *)
ModelFails(c) ==
  /\ c.at = "model" /\ ~(c.kind = "invariants" /\ c.arg.skip)
  /\ Trouble("model")
  /\ Fails(c)
  /\ UNCHANGED <<server, pages, made>>

-----------------------------------------------------------------------------
(* Sprite candidates: one model call after the other; the list of candidates   *)
(* and the picture are written side by side.                                   *)

DrawBegins(c) ==
  /\ c.kind = "generate" /\ c.at = "asked"
  /\ art' = Put(art, c.n, [for |-> c.for, listed |-> 0, stored |-> 0])
  /\ Becomes(c, [c EXCEPT !.at = "model"])
  /\ UNCHANGED <<files, masks, lane, stray, pages, made, trouble>>

Drawn(c) ==
  /\ c.kind = "generate" /\ c.at = "model"
  /\ Becomes(c, [c EXCEPT !.at = "storing", !.todo = {"listed", "stored"}])
  /\ UNCHANGED <<server, pages, made, trouble>>

Store(c, p) ==
  /\ c.at = "storing" /\ p \in c.todo
  /\ art' = [art EXCEPT ![c.n][p] = @ + 1]
  /\ IF c.todo # {p} THEN Becomes(c, [c EXCEPT !.todo = @ \ {p}])
     ELSE IF art'[c.n].listed = Wanted THEN Ends(c, "done")
     ELSE Becomes(c, [c EXCEPT !.todo = {}, !.at = "model"])
  /\ UNCHANGED <<files, masks, lane, stray, pages, made, trouble>>

StoreFails(c, p) ==
  /\ c.at = "storing" /\ p \in c.todo
  /\ Trouble("write")
  /\ \E rest \in SUBSET (c.todo \ {p}) :
       art' = [art EXCEPT ![c.n] = [q \in DOMAIN @ |-> IF q \in rest THEN @[q] + 1 ELSE @[q]]]
  /\ Fails(c)
  /\ UNCHANGED <<files, masks, lane, stray, pages, made>>

-----------------------------------------------------------------------------
Without(left) == (calls \ left) \cup
  {[c EXCEPT !.from = "nobody"] : c \in {d \in left : d.at \notin {"done", "failed"}}}

(* How a page hears of its request: the answer, or that the line broke, after  *)
(* which the server goes on for nobody.                                        *)

Hears(c, ok) ==
  \/ c.at = (IF ok THEN "done" ELSE "failed") /\ calls' = calls \ {c} /\ UNCHANGED trouble
  \/ ~ok /\ c.at # "failed" /\ Trouble("lost") /\ calls' = Without({c})

LeftBy(page) == Without({c \in calls : c.from = page})

-----------------------------------------------------------------------------
(* The catalog page. What lies over it covers it: tool and dialog are taken    *)
(* for the modal windows they say they are (aria-modal). Nothing keeps the     *)
(* focus in them (SpriteCatalog.tsx:181, MaskGenerationDialog.tsx:180), so     *)
(* that the keyboard could reach the page beneath; that is left out.           *)

Closed == [phase |-> "closed"]
Open == dialog # Closed

Shut == [open |-> FALSE, busy |-> FALSE]
Listed(e) == [open |-> TRUE, sprite |-> e, large |-> {d \in Entities : files[d]["idle"].size = "large"},
              tool |-> None, chosen |-> FALSE, busy |-> FALSE]

SelectSprite(e) ==
  /\ catalog.tool = None /\ ~Open /\ e # catalog.sprite
  /\ catalog' = [catalog EXCEPT !.sprite = e]
  /\ UNCHANGED <<server, calls, dialog, maker, made, trouble>>

OpenTool(tool) ==
  /\ catalog.tool = None /\ ~Open
  /\ tool = "rotate" \/ catalog.sprite \in catalog.large
  /\ catalog' = [catalog EXCEPT !.tool = tool, !.chosen = FALSE]
  /\ UNCHANGED <<server, calls, dialog, maker, made, trouble>>

Choose ==
  /\ catalog.tool # None /\ ~catalog.chosen
  /\ catalog' = [catalog EXCEPT !.chosen = TRUE]
  /\ UNCHANGED <<server, calls, dialog, maker, made, trouble>>

CloseTool ==
  /\ catalog.tool # None /\ ~catalog.busy
  /\ catalog' = [catalog EXCEPT !.tool = None]
  /\ UNCHANGED <<server, calls, dialog, maker, made, trouble>>

SaveTransform ==
  /\ catalog.tool # None /\ catalog.chosen /\ ~catalog.busy
  /\ catalog' = [catalog EXCEPT !.busy = TRUE]
  /\ Ask("transform", catalog.sprite, "catalog", catalog.tool)
  /\ UNCHANGED <<server, dialog, maker, trouble>>

\* Mutant: a failed save leaves the tool busy.
HearTransformStaysBusy(c, ok) ==
  /\ c.from = "catalog" /\ Hears(c, ok)
  /\ catalog' = IF ok THEN Listed(catalog.sprite) ELSE catalog
  /\ UNCHANGED <<server, dialog, maker, made>>

HearTransform(c, ok) ==
  /\ c.from = "catalog" /\ Hears(c, ok)
  /\ catalog' = IF ok THEN Listed(catalog.sprite) ELSE [catalog EXCEPT !.busy = FALSE]
  /\ UNCHANGED <<server, dialog, maker, made>>

-----------------------------------------------------------------------------
(* The mask dialog. inv and primary name the makes whose masks it shows; the   *)
(* three flags are its references that outlive a rendering.                    *)

Opened(e) == [for |-> e, phase |-> "idle", include |-> TRUE, req |-> None, inv |-> None,
              primary |-> None, upscaling |-> FALSE, making |-> FALSE, saving |-> FALSE]

Busy == dialog.phase \in {"upscaling", "generating", "generatingInvariants", "saving", "saved"}

Dialog(d) == dialog' = d /\ UNCHANGED <<server, catalog, maker>>
Shows(d) == Dialog(d) /\ UNCHANGED <<calls, made, trouble>>

OpenDialog ==
  /\ catalog.tool = None /\ ~Open
  /\ Shows(Opened(catalog.sprite))

StartGeneration ==
  /\ Open /\ ~Busy /\ ~dialog.upscaling /\ ~dialog.making /\ ~dialog.saving
  /\ Dialog([dialog EXCEPT !.upscaling = TRUE, !.phase = "upscaling",
                           !.req = None, !.inv = None, !.primary = None])
  /\ Ask("upscale", dialog.for, "dialog", None) /\ UNCHANGED trouble

(* Both masks are made anew, whatever was shown.                               *)
Making(d) ==
  [d EXCEPT !.making = TRUE, !.inv = None, !.primary = None, !.upscaling = FALSE,
            !.phase = IF d.include THEN "generatingInvariants" ELSE "generating"]

HearUpscale(c, ok) ==
  /\ c.from = "dialog" /\ c.kind = "upscale"
  /\ IF ok
     THEN /\ c.at = "done" /\ Dialog(Making([dialog EXCEPT !.req = c.n]))
          /\ AskAfter(calls \ {c}, "invariants", dialog.for, "dialog", [req |-> c.n, skip |-> ~dialog.include])
          /\ UNCHANGED trouble
     ELSE Hears(c, ok) /\ Dialog([dialog EXCEPT !.upscaling = FALSE, !.phase = "error"]) /\ UNCHANGED made

Regenerate ==
  /\ Open /\ dialog.req # None /\ ~Busy /\ ~dialog.making
  /\ Dialog(Making(dialog))
  /\ Ask("invariants", dialog.for, "dialog", [req |-> dialog.req, skip |-> ~dialog.include])
  /\ UNCHANGED trouble

HearInvariants(c, ok) ==
  /\ c.from = "dialog" /\ c.kind = "invariants"
  /\ IF ok
     THEN /\ c.at = "done" /\ Dialog([dialog EXCEPT !.inv = c.n, !.phase = "generating"])
          /\ AskAfter(calls \ {c}, "primary", dialog.for, "dialog", [req |-> dialog.req])
          /\ UNCHANGED trouble
     ELSE Hears(c, ok) /\ Dialog([dialog EXCEPT !.making = FALSE, !.phase = "upscaled"]) /\ UNCHANGED made

HearPrimary(c, ok) ==
  /\ c.from = "dialog" /\ c.kind = "primary" /\ Hears(c, ok)
  /\ Dialog([dialog EXCEPT !.making = FALSE, !.phase = "ready", !.primary = IF ok THEN c.n ELSE None])
  /\ UNCHANGED made

\* Mutant: masks made with the other setting stay.
ToggleInvariantsKeepsMasks ==
  /\ Open /\ ~Busy
  /\ Shows([dialog EXCEPT !.include = ~@])

ToggleInvariants ==
  /\ Open /\ ~Busy
  /\ Shows(IF dialog.req = None THEN [dialog EXCEPT !.include = ~@]
           ELSE [dialog EXCEPT !.include = ~@, !.inv = None, !.primary = None, !.phase = "upscaled"])

SaveMasks ==
  /\ Open /\ dialog.inv # None /\ dialog.primary # None /\ ~Busy /\ ~dialog.saving
  /\ Dialog([dialog EXCEPT !.saving = TRUE, !.phase = "saving"])
  /\ Ask("masks", dialog.for, "dialog",
         [req |-> dialog.req, inv |-> dialog.inv, primary |-> dialog.primary, include |-> dialog.include])
  /\ UNCHANGED trouble

HearMasks(c, ok) ==
  /\ c.from = "dialog" /\ c.kind = "masks" /\ Hears(c, ok)
  /\ Dialog(IF ok THEN [dialog EXCEPT !.phase = "saved"]
            ELSE [dialog EXCEPT !.saving = FALSE, !.phase = "ready"])
  /\ UNCHANGED made

(* With the dialog its candidate is forgotten, and what is still made for it   *)
(* reaches nobody; a save under way goes on.                                   *)
Forgets ==
  LET saves == {c \in calls : c.kind = "masks"} IN
    /\ dialog' = Closed
    /\ calls' = {c \in calls : c.kind \notin {"upscale", "invariants", "primary"}}
    /\ masks' = Restrict(masks, {c.arg.req : c \in saves})
    /\ UNCHANGED <<files, art, lane, stray, maker, made, trouble>>

SavedTimer ==
  /\ Open /\ dialog.phase = "saved"
  /\ Forgets /\ catalog' = Listed(dialog.for)

CloseDialog ==
  /\ Open /\ ~dialog.saving
  /\ Forgets /\ UNCHANGED catalog

-----------------------------------------------------------------------------
(* The generation page. history is what the last answer listed, whichever      *)
(* entity it was asked for; asks are the answers still to come.                *)

NewPage(e) == [open |-> TRUE, entity |-> e, gen |-> None, history |-> {}, review |-> None, busy |-> FALSE, asks |-> {e}]

Maker(m) == maker' = m /\ UNCHANGED <<server, catalog, dialog>>
Displays(m) == Maker(m) /\ UNCHANGED <<calls, made, trouble>>

SelectEntity(e) ==
  /\ maker.review = None /\ e # maker.entity
  /\ Displays([maker EXCEPT !.entity = e, !.history = {}, !.asks = @ \cup {e}])

HistoryArrives(e, ok) ==
  /\ e \in maker.asks
  /\ IF ok THEN UNCHANGED trouble ELSE Trouble("lost")
  /\ Maker([maker EXCEPT !.asks = @ \ {e},
             !.history = IF ok THEN {n \in DOMAIN art : art[n].for = e /\ art[n].listed > 0} ELSE {}])
  /\ UNCHANGED <<calls, made>>

Generate ==
  /\ maker.review = None /\ ~maker.busy
  /\ Maker([maker EXCEPT !.busy = TRUE, !.gen = None])
  /\ Ask("generate", maker.entity, "maker", None) /\ UNCHANGED trouble

(* A candidate is told once it is listed and stored.                           *)
Told(c) == IF c.n \notin DOMAIN art THEN 0 ELSE Min({art[c.n].listed, art[c.n].stored})

HearStart(c) ==
  /\ c.from = "maker" /\ c.kind = "generate" /\ c.n \in DOMAIN art
  /\ maker.gen = None
  /\ Displays([maker EXCEPT !.gen = [of |-> c.n, got |-> 0]])

HearCandidate(c) ==
  /\ c.from = "maker" /\ c.kind = "generate" /\ maker.gen # None
  /\ maker.gen.got < Told(c)
  /\ Displays([maker EXCEPT !.gen.got = @ + 1])

HearEnd(c, ok) ==
  /\ c.from = "maker" /\ c.kind = "generate" /\ Hears(c, ok)
  /\ ok => maker.gen # None /\ maker.gen.got = Told(c)
  /\ Maker([maker EXCEPT !.busy = FALSE, !.history = {}, !.asks = @ \cup {maker.entity}])
  /\ UNCHANGED made

StartReview(n, i) ==
  /\ maker.review = None /\ ~maker.busy
  /\ \/ maker.gen # None /\ n = maker.gen.of /\ i \in 1 .. maker.gen.got
     \/ n \in maker.history /\ i \in 1 .. art[n].listed
  /\ Displays([maker EXCEPT !.review = [req |-> n, i |-> i, size |-> None, front |-> None]])

ChooseSize(size) ==
  /\ maker.review # None /\ maker.review.size = None
  /\ Displays([maker EXCEPT !.review.size = size, !.review.front = None])

ChooseFront(front) ==
  /\ maker.review # None /\ maker.review.size # None /\ maker.review.front # front
  /\ Displays([maker EXCEPT !.review.front = front])

Back ==
  /\ maker.review # None /\ maker.review.size # None /\ ~maker.busy
  /\ Displays([maker EXCEPT !.review.size = None, !.review.front = None])

CloseReview ==
  /\ maker.review # None /\ ~maker.busy
  /\ Displays([maker EXCEPT !.review = None])

PublishSprite ==
  /\ maker.review # None /\ maker.review.front # None /\ ~maker.busy
  /\ Maker([maker EXCEPT !.busy = TRUE])
  /\ Ask("publish", art[maker.review.req].for, "maker", maker.review) /\ UNCHANGED trouble

HearPublish(c, ok) ==
  /\ c.from = "maker" /\ c.kind = "publish" /\ Hears(c, ok)
  /\ Maker(IF ok THEN NewPage(c.for) ELSE [maker EXCEPT !.busy = FALSE])
  /\ UNCHANGED made

(* The page is left while its request is under way.                            *)
LeavePage(e) ==
  /\ maker.busy /\ Trouble("left")
  /\ Maker(NewPage(e)) /\ calls' = LeftBy("maker")
  /\ UNCHANGED made

-----------------------------------------------------------------------------
Init ==
  /\ files = [e \in Entities |-> [p \in Parts |-> IF p = "idle" THEN Picture(0, 0) ELSE None]]
  /\ masks = <<>> /\ art = <<>> /\ calls = {} /\ lane = <<>> /\ stray = {}
  /\ made = 0 /\ trouble = {} /\ dialog = Closed
  /\ \E e \in Entities :
       (catalog = Listed(e) /\ maker = Shut) \/ (catalog = Shut /\ maker = NewPage(e))

Server(c) ==
  \/ \E p \in Parts : Write(c, p) \/ WriteFails(c, p)
  \/ Stage(c) \/ UploadReads(c) \/ PublishReads(c) \/ TransformReads(c) \/ TransformReadsCompanions(c) \/ MasksRead(c)
  \/ UpscaleReads(c) \/ Upscaled(c) \/ GenerateReads(c) \/ Generated(c) \/ ModelFails(c)
  \/ DrawBegins(c) \/ Drawn(c)
  \/ \E p \in {"listed", "stored"} : Store(c, p) \/ StoreFails(c, p)

Heard(c) ==
  \/ HearStart(c) \/ HearCandidate(c)
  \/ \E ok \in BOOLEAN : \/ HearTransform(c, ok) \/ HearUpscale(c, ok) \/ HearInvariants(c, ok)
                         \/ HearPrimary(c, ok) \/ HearMasks(c, ok)
                         \/ HearEnd(c, ok) \/ HearPublish(c, ok)

AtCatalog ==
  /\ catalog.open
  /\ \/ \E e \in Entities : SelectSprite(e)
     \/ \E tool \in {"downsample", "rotate"} : OpenTool(tool)
     \/ Choose \/ CloseTool \/ SaveTransform \/ OpenDialog

AtDialog == StartGeneration \/ Regenerate \/ ToggleInvariants \/ SaveMasks \/ SavedTimer \/ CloseDialog

AtMaker ==
  /\ maker.open
  /\ \/ \E e \in Entities : SelectEntity(e) \/ LeavePage(e) \/ \E ok \in BOOLEAN : HistoryArrives(e, ok)
     \/ \E n \in DOMAIN art, i \in 1 .. Wanted : StartReview(n, i)
     \/ \E size \in {"small", "large"} : ChooseSize(size)
     \/ \E front \in {"right", "left"} : ChooseFront(front)
     \/ Generate \/ Back \/ CloseReview \/ PublishSprite

Next ==
  \/ AtCatalog \/ AtDialog \/ AtMaker
  \/ \E kind \in {"upload", "transform"}, e \in Entities : Elsewhere(kind, e)
  \/ \E c \in calls : Server(c) \/ Heard(c)
  \/ \E w \in stray : StrayLands(w)

Spec == Init /\ [][Next]_vars

-----------------------------------------------------------------------------
(* The answer to a save names a revision that holds what was saved, whole and  *)
(* with nothing of another save in between (contentRevisions.ts, "writes and   *)
(* snapshot publication must not interleave"), as long as no write has failed. *)
AnswerHoldsItsRevision ==
  "write" \notin trouble =>
    \A c \in calls : c.at = "lane" /\ c.todo = {} => \A p \in DOMAIN c.set : files[c.for][p] = c.set[p]

(* What the dialog saves is what it has shown: the masks that are published    *)
(* are those the spot check drew, the primary one cut with that very invariant *)
(* mask, and an empty one exactly if the switch is off; unless a line broke.   *)
SaveIsWhatWasShown ==
  "lost" \notin trouble =>
    \A c \in calls : c.kind = "masks" /\ c.set # <<>> =>
      /\ c.set["primary"].of = <<c.arg.primary, 0>>
      /\ c.set["invariants"].of = <<c.arg.inv, 0>>
      /\ masks[c.arg.req].primary.cut = c.arg.inv
      /\ masks[c.arg.req].invariants.empty <=> ~c.arg.include

(* A page that says it works has one request under way and no more: it is      *)
(* never busy with nothing to wait for, and never sends a second save.         *)
BusyIsAwaited ==
  LET Awaited(page) == Cardinality({c \in calls : c.from = page}) IN
    /\ Awaited("catalog") = (IF catalog.busy THEN 1 ELSE 0)
    /\ Awaited("maker") = (IF maker.busy THEN 1 ELSE 0)
    /\ Awaited("dialog") = (IF Open /\ Busy /\ dialog.phase # "saved" THEN 1 ELSE 0)

=============================================================================
