---------------------------- MODULE CommandInput ----------------------------
(* How the browser's input becomes orders: selection and modes of the HUD      *)
(* (HUDContext.tsx), pointer and keys on the map (GameStage.tsx), the panel    *)
(* with its menus and shortcuts (EntityDetailPanel.tsx), and the notices that  *)
(* select a thing by themselves. A key goes to the panel's capturing listener  *)
(* first, then to the map's and the panel's. Handlers look at what the last    *)
(* render has left them: React renders what an input sets before the next      *)
(* input, but what a notice selects and what the effects of a render clear     *)
(* only some time later, and inputs may come in between. Positions are left    *)
(* out: the pointer is on a thing or on the sky, and what starts on the        *)
(* minimap does as a pan of the camera does. OrderQueue models what becomes of *)
(* an order, CollectionRouting the routes.                                     *)
EXTENDS Naturals, Sequences, FiniteSets, SequencesExt

CONSTANTS
  NoThing,      \* no thing, and no target
  Things,       \* what may be seen on the map
  Can,          \* what the type of each thing is able to do
  Resources,    \* what may be carried
  Players,
  Owners,       \* who may own what at first
  Fickle,       \* the things that change
  MaxNews       \* changes of the world, notices, changes of the player

Abilities == {"mobile", "collect", "carry", "depot", "build", "upgrade", "research", "repair"}

ASSUME InputAssumption ==
  /\ Can \in [Things -> SUBSET Abilities] /\ Resources # {} /\ Owners \subseteq [Things -> Players]
  /\ Fickle \subseteq Things
  /\ MaxNews \in Nat

VARIABLES
  world,    \* the things, who plays and whether costs can be paid
  hud,      \* selection, mode and open menus
  seen,     \* the same as of the last render: what handlers look at
  hand,     \* the thing pressed and the drag under way
  gave,     \* the orders the last input gave
  changes   \* changes so far

vars == <<world, hud, seen, hand, gave, changes>>

-----------------------------------------------------------------------------
(* The HUD's reducer.                                                         *)

(* Something is set that the last render does not show yet.                   *)
RenderDue == hud # seen

(* A delivery is of resources and perhaps a donor: "for" is the selection it   *)
(* was chosen for, "hasty" says that something was picked while a render was   *)
(* due, and then it is for none.                                               *)
Deliveries == {"Deliver", "Transport"}
Mode(kind) ==
  [kind |-> kind, picked |-> {}, donor |-> NoThing, for |-> IF kind \in Deliveries THEN seen.sel ELSE <<>>,
   hasty |-> FALSE]
NoMode == [kind |-> "none", picked |-> {}, donor |-> NoThing, for |-> <<>>, hasty |-> FALSE]
Hurried(m) == IF RenderDue THEN [m EXCEPT !.hasty = TRUE, !.for = <<>>] ELSE m
OnTheMap == {"Move", "Convoy", "Sentry"}
Delivery(m) == m.kind \in Deliveries
WithTarget(m) == Delivery(m) \/ m.kind = "Resupply"

SetAction(h, m) == [h EXCEPT !.mode = m, !.measuring = @ /\ m.kind = "none"]

SetMeasuring(h, b) == [h EXCEPT !.measuring = b, !.mode = IF b THEN NoMode ELSE @]

Idle(h) == SetMeasuring(SetAction(h, NoMode), FALSE)

Select(h, s) == [h EXCEPT !.sel = s]
AddToSelection(h, S) == Select(h, h.sel \o SetToSeq(S \ Range(h.sel)))
RemoveFromSelection(h, t) == Select(h, Remove(h.sel, t))

\* Mutant: what was chosen for one selection stays for the next.
ClearedOnlyMenus(h, s) == IF s = h.sel THEN h ELSE [h EXCEPT !.menus = {}]

(* The effect of a render with another selection than s, the one before:       *)
(* closes the menus and forgets a target or a delivery that was to be chosen.  *)
Cleared(h, s) ==
  IF s = h.sel THEN h ELSE [h EXCEPT !.menus = {}, !.mode = IF WithTarget(@) THEN NoMode ELSE @]

-----------------------------------------------------------------------------
(* What the selection is able to do.                                          *)

Selected == Range(seen.sel)
One == Len(seen.sel) = 1
Leader(s) == IF s = <<>> THEN NoThing ELSE s[1]
First == Leader(seen.sel)
There(t) == world.thing[t].there
Mine(t) == There(t) /\ world.thing[t].owner = world.me
Sound(t) == Mine(t) /\ world.thing[t].health # "dead"
All(ability) == seen.sel # <<>> /\ \A t \in Selected : There(t) /\ ability \in Can[t]
Holds(t) == There(t) /\ world.thing[t].cargo
Carries(t) == t # NoThing /\ There(t) /\ "carry" \in Can[t]

CanSelfDestruct == seen.sel # <<>> /\ \A t \in Selected : Sound(t)
CanJettisonCargo ==
  /\ CanSelfDestruct /\ All("mobile") /\ All("carry")
  /\ \A t \in Selected : "depot" \notin Can[t] /\ Holds(t)
CanTransport == One /\ All("mobile") /\ All("collect")
CanDeliver == One /\ All("mobile") /\ Holds(First)

(* The buttons of the panel that are shown and enabled.                       *)
Enabled(value) ==
  CASE value = "Move" -> seen.sel # <<>>
    [] value = "Convoy" -> Len(seen.sel) >= 2 /\ All("mobile")
    [] value \in {"Escort", "Sentry"} -> All("mobile")
    [] value = "Measure" -> One
    [] value \in {"Assign", "Collect"} -> All("collect")
    [] value = "Resupply" -> All("carry")
    [] value = "Deliver" -> CanDeliver
    [] value = "Transport" -> CanTransport
    [] value = "Build" -> All("build")
    [] value = "Upgrade" -> One /\ All("upgrade") /\ world.thing[First].health = "full"
    [] value = "Research" -> One /\ All("research")
    [] value = "Repair" -> All("repair")
    [] value = "JettisonCargo" -> CanJettisonCargo
    [] value = "SelfDestruct" -> CanSelfDestruct
Buttons == {"Move", "Convoy", "Escort", "Sentry", "Measure", "Assign", "Collect", "Resupply", "Deliver",
            "Transport", "Build", "Upgrade", "Research", "Repair", "JettisonCargo", "SelfDestruct"}

-----------------------------------------------------------------------------
(* Orders. An input yields the HUD after it and the orders it gives.           *)

Done(h, orders) == [hud |-> h, gave |-> orders]
NoEffect == Done(hud, {})
Order(kind, who, target) == [kind |-> kind, who |-> who, target |-> target, donor |-> NoThing, for |-> <<>>,
                              hasty |-> FALSE]
Each(kind, target) == {Order(kind, {t}, target) : t \in Selected}

StartCollection(h) == Done([SetAction(h, NoMode) EXCEPT !.menus = @ \ {"collect"}], Each("Collect", NoThing))

OpenCollectPicker(h) ==
  IF ~All("collect") THEN Done(h, {})
  ELSE IF Cardinality(Resources) = 1 THEN StartCollection(h)
  ELSE Done([SetAction(h, NoMode) EXCEPT !.menus = IF "collect" \in @ THEN {} ELSE {"collect"}], {})

StartBuild(h, append) ==
  IF ~All("build") \/ ~(append \/ world.rich) THEN Done(h, {})
  ELSE Done([SetAction(h, NoMode) EXCEPT !.menus = @ \ {"build"}], Each("Build", NoThing))

StartOne(h, menu, kind) ==
  IF ~(One /\ All(menu) /\ world.rich) THEN Done(h, {})
  ELSE Done([SetAction(h, NoMode) EXCEPT !.menus = @ \ {menu}], {Order(kind, {First}, NoThing)})

(* What may be picked for a delivery: what carrier or donor has in stock.      *)
DeliveryOptions ==
  IF seen.mode.kind = "Transport"
  THEN IF seen.mode.donor # NoThing /\ Holds(seen.mode.donor) THEN Resources ELSE seen.mode.picked
  ELSE IF seen.sel # <<>> /\ Holds(First) THEN Resources ELSE {}

Toggled(m, r) ==
  IF r \in m.picked THEN m.picked \ {r} ELSE IF m.kind = "Transport" THEN {r} ELSE m.picked \cup {r}
Picked(S) == Done(SetAction(hud, Hurried([seen.mode EXCEPT !.picked = S])), {})
Pick(r) == Picked(Toggled(seen.mode, r))
PickAll == Picked(DeliveryOptions)

Toggle(h, kind) == SetAction(h, IF seen.mode.kind = kind THEN NoMode ELSE Mode(kind))
Flip(menus, menu, others) == IF menu \in menus THEN menus \ ({menu} \cup others) ELSE (menus \ others) \cup {menu}

(* A button of the panel, or its shortcut.                                    *)
ClickAction(value) ==
  LET unmeasured == SetMeasuring(hud, FALSE)
      h == IF value \notin Deliveries /\ Delivery(seen.mode) THEN SetAction(unmeasured, NoMode)
           ELSE unmeasured
      Menu(menu, others) == Done([SetAction(h, NoMode) EXCEPT !.menus = Flip(@, menu, others)], {})
  IN CASE value = "JettisonCargo" -> Done(hud, Each(value, NoThing))
       [] value = "SelfDestruct" -> Done(Idle(hud), Each(value, NoThing))
       [] value = "Measure" -> Done(SetMeasuring(hud, ~seen.measuring), {})
       [] value = "Build" -> Menu("build", {"upgrade"})
       [] value = "Upgrade" -> Menu("upgrade", {"build"})
       [] value = "Research" -> Menu("research", {"build", "upgrade"})
       [] value = "Collect" -> OpenCollectPicker(h)
       [] value = "Resupply" /\ seen.mode.kind = value -> Done(SetAction(h, NoMode), {})
       [] value \in {"Assign", "Deliver", "Transport"} \/ (value = "Resupply" /\ seen.mode.kind # value) ->
            Done([Toggle(h, value) EXCEPT !.menus = {}], {})
       [] OTHER -> Done(Toggle(h, value), {})

-----------------------------------------------------------------------------
(* Keys. The options of a menu have the letters of OptionKeys, digits pick     *)
(* resources, and "n" is the nearest compatible collection.                    *)

OptionKeys == {"q", "e", "a", "s", "d"}
Keys == OptionKeys \cup {"m", "p", "v", "c", "r", "esc", "space", "x", "j", "h", "l", "o", "digit", "b", "u", "n"}

(* What the panel's capturing listener does with a key; {} if it passes it on. *)
Captured(k) ==
  LET quiet == seen.menus = {}
      resupply == seen.mode.kind = "Resupply"
      Press(value) == {ClickAction(value)}
  IN CASE k = "j" /\ CanJettisonCargo /\ quiet /\ ~WithTarget(seen.mode) -> Press("JettisonCargo")
       [] k = "s" /\ CanSelfDestruct /\ quiet /\ ~WithTarget(seen.mode) -> Press("SelfDestruct")
       [] k = "h" /\ All("carry") /\ quiet -> Press("Resupply")
       [] k = "esc" /\ WithTarget(seen.mode) -> {Done(SetAction(hud, NoMode), {})}
       [] k = "a" /\ ~WithTarget(seen.mode) /\ quiet /\ All("collect") -> Press("Assign")
       [] k = "l" /\ CanDeliver /\ quiet /\ ~resupply -> Press("Deliver")
       [] k = "o" /\ CanTransport /\ quiet /\ ~resupply -> Press("Transport")
       [] k = "a" /\ Delivery(seen.mode) -> {IF seen.mode.kind = "Deliver" THEN PickAll ELSE NoEffect}
       [] k = "digit" /\ Delivery(seen.mode) -> {NoEffect} \cup {Pick(r) : r \in DeliveryOptions}
       [] OTHER -> {}

(* The map's listener. Space goes round the own things; X shows the last       *)
(* notice and selects its thing if it is the player's own.                     *)
MapKey(k) ==
  LET Sets(kind) == {Done(SetAction(hud, Mode(kind)), {})}
      own == {t \in Things : Mine(t)}
  IN CASE k = "d" /\ One -> {Done(SetMeasuring(hud, ~seen.measuring), {})}
       [] k = "m" /\ seen.sel # <<>> -> Sets("Move")
       [] k = "e" /\ All("mobile") -> Sets("Escort")
       [] k = "p" /\ All("mobile") -> Sets("Sentry")
       [] k = "v" /\ All("mobile") /\ Len(seen.sel) >= 2 -> Sets("Convoy")
       [] k = "c" /\ seen.sel # <<>> -> {OpenCollectPicker(hud)}
       [] k = "r" /\ All("repair") -> Sets("Repair")
       [] k = "esc" -> {Done(Idle(hud), {})}
       [] k \in {"space", "x"} /\ own # {} -> {Done(Select(hud, <<t>>), {}) : t \in own}
       [] OTHER -> {NoEffect}

(* The panel's listener after it: Escape closes one menu, B and U open theirs  *)
(* beside the others, an option is chosen in the collection menu or else in    *)
(* each of the others. It sees the menus as they were before the key.          *)
IsOption(k) == k \in OptionKeys
BuildAndUpgrade(h, k, append) ==
  LET built == IF "build" \in seen.menus /\ IsOption(k) THEN StartBuild(h, append) ELSE Done(h, {})
      upgraded == IF "upgrade" \in seen.menus /\ IsOption(k) THEN StartOne(built.hud, "upgrade", "Upgrade")
                  ELSE Done(built.hud, {})
  IN Done(upgraded.hud, built.gave \cup upgraded.gave)

Collects(k) == "collect" \in seen.menus /\ (k = "n" \/ (IsOption(k) /\ All("collect")))

\* Mutant: a key that chooses what to collect goes on to the other menus.
ChosenGoesOn(h, k, append) ==
  LET collected == IF Collects(k) THEN StartCollection(h) ELSE Done(h, {})
      others == BuildAndUpgrade(collected.hud, k, append)
  IN Done(others.hud, collected.gave \cup others.gave)

Chosen(h, k, append) == IF Collects(k) THEN StartCollection(h) ELSE BuildAndUpgrade(h, k, append)

PanelKey(h, k, append) ==
  LET Close(menu) == Done([h EXCEPT !.menus = @ \ {menu}], {})
      Open(menu) == Done([Idle(h) EXCEPT !.menus = @ \cup {menu}], {})
  IN CASE k = "esc" /\ "collect" \in seen.menus -> Close("collect")
       [] k = "esc" /\ "collect" \notin seen.menus /\ "build" \in seen.menus -> Close("build")
       [] k = "esc" /\ seen.menus \cap {"collect", "build"} = {} -> Close("upgrade")
       [] k = "b" /\ "build" \notin seen.menus /\ All("build") -> Open("build")
       [] k = "u" /\ "upgrade" \notin seen.menus /\ One /\ All("upgrade") -> Open("upgrade")
       [] OTHER -> Chosen(h, k, append)

Typed(k, append) ==
  IF Captured(k) # {} THEN Captured(k)
  ELSE {LET p == PanelKey(m.hud, k, append) IN Done(p.hud, m.gave \cup p.gave) : m \in MapKey(k)}

-----------------------------------------------------------------------------
(* The pointer. What was pressed is acted on at the release.                   *)

DispatchMove(shift) ==
  LET kept == IF shift THEN hud ELSE SetAction(hud, NoMode)
  IN IF seen.sel = <<>> THEN NoEffect
     ELSE CASE seen.mode.kind = "Sentry" -> Done(kept, {Order("Sentry", Selected, NoThing)})
            [] seen.mode.kind = "Convoy" -> Done(SetAction(hud, NoMode), {Order("Convoy", Selected, NoThing)})
            [] OTHER -> Done(kept, Each("Move", NoThing))

FriendlyDepot(t) == Sound(t) /\ "depot" \in Can[t]
Given(orders) == Done(SetAction(hud, NoMode), orders)

DispatchAssign(t) ==
  IF FriendlyDepot(t) /\ \A u \in Selected : Mine(u) /\ "collect" \in Can[u]
  THEN Given(Each("Assign", t)) ELSE NoEffect

DispatchEscort(t) ==
  IF Sound(t) /\ "mobile" \in Can[t] /\ t \notin Selected THEN Given({Order("Escort", Selected, t)}) ELSE NoEffect

DispatchRepair(t) ==
  IF Mine(t) /\ world.thing[t].health = "hurt"
  THEN Given({o \in Each("Repair", t) : t \notin o.who /\ \A u \in o.who : There(u) /\ "repair" \in Can[u]})
  ELSE Given({})

(* A delivery by the choice that is seen. Without a selection it is ordered    *)
(* for the thing with the id 0, which is none.                                 *)
DispatchDeliver(t) ==
  LET m == seen.mode
      order == Hurried([Order(m.kind, {First}, t) EXCEPT !.donor = m.donor, !.for = m.for, !.hasty = m.hasty])
  IN CASE t = First -> Given({})
       [] t # First /\ m.kind = "Resupply" ->
            IF FriendlyDepot(t) /\ \A u \in Selected : Sound(u) /\ "carry" \in Can[u]
            THEN Given(Each("Resupply", t)) ELSE NoEffect
       [] t # First /\ m.kind = "Transport" /\ m.donor = NoThing ->
            IF FriendlyDepot(t) /\ Carries(t) /\ Carries(First)
            THEN Done(SetAction(hud, [Mode("Transport") EXCEPT !.donor = t]), {}) ELSE NoEffect
       [] OTHER -> IF FriendlyDepot(t) /\ m.picked # {} /\ m.donor # t THEN Given({order}) ELSE NoEffect

OfTypeInView(t) == {u \in Things : Mine(u) /\ Can[u] = Can[t]}

(* A tap on an own thing selects it, with Shift adds or removes it; a second   *)
(* tap selects all of its type.                                                *)
SelectPressed(press, double) ==
  LET t == press.thing
      once == CASE press.shift /\ t \in Selected -> RemoveFromSelection(hud, t)
                [] press.shift /\ t \notin Selected -> AddToSelection(hud, {t})
                [] OTHER -> Select(hud, <<t>>)
  IN CASE ~Mine(t) -> NoEffect
       [] Mine(t) /\ ~double -> Done(once, {})
       [] OTHER -> Done(IF press.shift THEN AddToSelection(once, OfTypeInView(t))
                        ELSE Select(once, SetToSeq(OfTypeInView(t))), {})

Press(press, double) ==
  CASE seen.mode.kind = "Assign" -> DispatchAssign(press.thing)
    [] seen.mode.kind = "Escort" -> DispatchEscort(press.thing)
    [] WithTarget(seen.mode) -> DispatchDeliver(press.thing)
    [] seen.mode.kind = "Repair" -> DispatchRepair(press.thing)
    [] OTHER -> SelectPressed(press, double)

(* A click on the sky.                                                        *)
EmptyClick ==
  CASE seen.mode.kind \in OnTheMap -> DispatchMove(FALSE)
    [] seen.mode.kind = "Repair" \/ WithTarget(seen.mode) -> Given({})
    [] seen.mode.kind \in {"Escort", "Assign"} -> NoEffect
    [] OTHER -> Done(Select(hud, <<>>), {})

ShiftClick(drag) ==
  CASE WithTarget(seen.mode) -> Given({})
    [] seen.mode.kind \in {"Escort", "Assign"} -> NoEffect
    [] OTHER -> IF drag.move THEN DispatchMove(TRUE) ELSE NoEffect

NoPress == [thing |-> NoThing, shift |-> FALSE]
NoDrag == [kind |-> "none", move |-> FALSE]
Empty == [press |-> NoPress, drag |-> NoDrag]

(* The end of a gesture. A pan of the camera or on the minimap returns before  *)
(* the press is looked at, and leaves it for the next release.                 *)
Released(moved, double, box) ==
  LET pressed == hand.press.thing # NoThing
  IN CASE hand.drag.kind = "camera" /\ moved -> NoEffect
       [] hand.drag.kind = "camera" /\ ~moved -> IF pressed THEN Press(hand.press, double) ELSE EmptyClick
       [] hand.drag.kind = "select" /\ ~moved -> IF pressed THEN Press(hand.press, double) ELSE ShiftClick(hand.drag)
       [] OTHER -> Done(AddToSelection(hud, {t \in box : Mine(t)}), {})
Keeps(moved) == hand.drag.kind = "camera" /\ moved

-----------------------------------------------------------------------------
(* The actions.                                                               *)

(* What is set at once is rendered at once: handlers see it, the effects run,  *)
(* and what they clear is due.                                                 *)
Shows(h) == seen' = h /\ hud' = Cleared(h, seen.sel)
Takes(done) ==
  /\ gave' = done.gave
  /\ IF done.hud = hud THEN UNCHANGED <<hud, seen>> ELSE Shows(done.hud)
Input == UNCHANGED <<world, changes>>
Change == changes < MaxNews /\ changes' = changes + 1

Key(k, append) ==
  Input /\ (append => "build" \in seen.menus) /\ (\E d \in Typed(k, append) : Takes(d)) /\ UNCHANGED hand

(* Letting go of Shift ends a Move or Sentry mode.                             *)
ShiftUp ==
  /\ Input /\ seen.mode.kind \in {"Move", "Sentry"}
  /\ Takes(Given({})) /\ UNCHANGED hand

PointerDown(t, shift) ==
  /\ Input /\ hand.drag = NoDrag /\ (t # NoThing => There(t))
  /\ hand' = [press |-> IF t = NoThing \/ seen.mode.kind \in OnTheMap THEN hand.press
                         ELSE [thing |-> t, shift |-> shift],
               drag |-> IF shift THEN [kind |-> "select", move |-> seen.mode.kind \in OnTheMap]
                        ELSE [NoDrag EXCEPT !.kind = "camera"]]
  /\ Takes(NoEffect)

PointerUp(moved, double, box) ==
  /\ Input /\ hand.drag # NoDrag
  /\ (moved => ~double) /\ (box # {} => moved /\ hand.drag.kind = "select")
  /\ Takes(Released(moved, double, box))
  /\ hand' = IF Keeps(moved) THEN [hand EXCEPT !.drag = NoDrag] ELSE Empty

(* A later render, of what notices and effects have left.                      *)
Renders == Input /\ RenderDue /\ Shows(hud) /\ gave' = {} /\ UNCHANGED hand

(* Clicks in the panel, which is there while something is selected: a button,  *)
(* an option of a menu, a resource, a name of the list, the automatic          *)
(* destination of collections.                                                 *)
InPanel == Input /\ seen.sel # <<>>
ClickButton ==
  InPanel /\ (\E value \in Buttons : Enabled(value) /\ Takes(ClickAction(value))) /\ UNCHANGED hand
ClickOption(append) ==
  /\ InPanel
  /\ \/ "collect" \in seen.menus /\ Takes(StartCollection(hud))
     \/ "build" \in seen.menus /\ Takes(StartBuild(hud, append))
     \/ "upgrade" \in seen.menus /\ Takes(StartOne(hud, "upgrade", "Upgrade"))
     \/ "research" \in seen.menus /\ Takes(StartOne(hud, "research", "Research"))
  /\ UNCHANGED hand
ClickResource ==
  /\ InPanel /\ Delivery(seen.mode)
  /\ \/ seen.mode.kind = "Deliver" /\ Takes(PickAll)
     \/ \E r \in DeliveryOptions : Takes(Pick(r))
  /\ UNCHANGED hand
ClickName ==
  /\ InPanel /\ Len(seen.sel) > 1
  /\ \E t \in Selected : Takes(Done(Select(hud, <<t>>), {}))
  /\ UNCHANGED hand
ClickAutomatic ==
  /\ InPanel /\ seen.mode.kind = "Assign" /\ Takes(Given(Each("Assign", NoThing)))
  /\ UNCHANGED hand

(* A notice centres on a thing and selects it: the first own thing of a        *)
(* snapshot and a starving unit at once, others when the player clicks them.   *)
Notice(h) == Change /\ hud' = h /\ gave' = {} /\ UNCHANGED <<world, seen, hand>>
Centers(t) == There(t) /\ Notice(Select(hud, <<t>>))

ThingChanges(t) ==
  /\ Change
  /\ \/ \E f \in {"there", "cargo"} : world' = [world EXCEPT !.thing[t][f] = ~@]
     \/ \E h \in {"full", "hurt", "dead"} \ {world.thing[t].health} : world' = [world EXCEPT !.thing[t].health = h]
     \/ world' = [world EXCEPT !.rich = ~@]
  /\ Takes(NoEffect) /\ UNCHANGED hand

(* The player acts as another one, or the world is reset.                      *)
SwitchPlayer(p) ==
  Change /\ p # world.me /\ world' = [world EXCEPT !.me = p] /\ Takes(NoEffect) /\ UNCHANGED hand
WorldReset == Notice(SetAction(Select(hud, <<>>), NoMode))

Init ==
  /\ \E owner \in Owners, me \in Players :
       world = [thing |-> [t \in Things |-> [there |-> TRUE, owner |-> owner[t], health |-> "full", cargo |-> TRUE]],
                me |-> me, rich |-> TRUE]
  /\ hud = [sel |-> <<>>, mode |-> NoMode, measuring |-> FALSE, menus |-> {}] /\ seen = hud
  /\ hand = Empty /\ gave = {} /\ changes = 0

Next ==
  \/ \E k \in Keys, append \in BOOLEAN : Key(k, append)
  \/ ShiftUp
  \/ \E t \in Things \cup {NoThing}, shift \in BOOLEAN : PointerDown(t, shift)
  \/ \E moved, double \in BOOLEAN, box \in SUBSET Things : PointerUp(moved, double, box)
  \/ Renders
  \/ ClickButton \/ (\E append \in BOOLEAN : ClickOption(append)) \/ ClickResource \/ ClickName \/ ClickAutomatic
  \/ (\E t \in Things : Centers(t)) \/ (\E t \in Fickle : ThingChanges(t))
  \/ \E p \in Players : SwitchPlayer(p)
  \/ WorldReset

Spec == Init /\ [][Next]_vars

-----------------------------------------------------------------------------
(* Properties.                                                                *)

(* Resources and donor are chosen step by step while notices, space and taps   *)
(* may change the selection. Once it is shown and the effects have run, what   *)
(* stands chosen is for what is selected, and a choice that was made for one   *)
(* selection is never sent for another one. It is when something is picked or  *)
(* tapped before, in the moment while a render is due: such a choice is hasty. *)
ChoiceIsForSelection ==
  /\ ~RenderDue /\ Delivery(hud.mode) /\ ~hud.mode.hasty => hud.mode.for = hud.sel
  /\ \A o \in gave : o.kind \in Deliveries /\ ~o.hasty => o.who = {Leader(o.for)}

(* One key reaches three listeners and every open menu: no unit is given two   *)
(* orders by one input, unless both the menus for building and for upgrading   *)
(* are open, which their keys allow.                                           *)
OneOrderPerUnit ==
  [][{"build", "upgrade"} \subseteq seen.menus
       \/ \A o, p \in gave' : o = p \/ o.who \cap p.who = {}]_vars

=============================================================================
