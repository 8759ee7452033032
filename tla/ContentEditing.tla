--------------------------- MODULE ContentEditing ---------------------------
(* Definitions edited in several tabs: the graphs of entities and             *)
(* technologies, the entity editor of the balance page and the spawn          *)
(* configuration. Entities and technologies are parts of one file, which the  *)
(* routes read and write as a whole, one after the other in the lane of       *)
(* contentRevisions.ts; spawn.yaml is also written outside the lane. A text   *)
(* is told apart by when it was typed; the references between definitions,    *)
(* which the routes keep up, are not part of it.                              *)
EXTENDS Integers, Sequences, FiniteSets

CONSTANTS
  None,         \* no value
  Entities,     \* ids of entity types
  Technologies, \* ids of technologies
  There,        \* the ids that are defined at first
  Tabs,
  MaxTexts,     \* texts typed
  MaxCalls,     \* requests that change something
  MaxUpsets     \* lost connections and failed writes

VARIABLES
  files,   \* content: the definitions; spawn: text and names used; art: directories
  calls,   \* the requests in the order in which they reached the server
  tabs,
  texts,   \* the number of texts typed
  upsets,
  past     \* history: what was ever on disk, what the edits add up to, who spoiled the names

editing == <<files, calls, tabs, texts, upsets, past>>

Ids == Entities \cup Technologies
Keys == Ids \cup {"spawn"}

Defined(content) == {i \in Ids : content[i] # None}
SectionOf(kind) == IF kind = "techtree" THEN Technologies ELSE Entities

Blank == -1  \* the definition of a new technology

NoDrafts == [k \in Keys |-> None]
Unread   == [i \in Ids |-> None]

(* A tab with what it has read. The graphs keep one draft, whatever is        *)
(* selected, and a draft of the name; the others one draft and baseline for   *)
(* each text.                                                                 *)
Tab(kind) ==
  [kind |-> kind, known |-> IF kind = "spawn" THEN Unread ELSE files.content,
   spawn |-> IF kind = "spawn" THEN files.spawn ELSE None,
   sel |-> CHOOSE i \in SectionOf(kind) : files.content[i] # None,
   draft |-> None, name |-> None, drafts |-> NoDrafts, asks |-> {}]

Kinds == {"entities", "techtree", "balance", "spawn"}

InitEditing ==
  /\ \E named \in SUBSET (There \cap Entities) :
       files = [content |-> [i \in Ids |-> IF i \in There THEN 0 ELSE None],
                spawn |-> [text |-> 0, names |-> named], art |-> There \cap Entities]
  /\ tabs \in [Tabs -> {Tab(k) : k \in Kinds}]
  /\ calls = <<>> /\ texts = 0 /\ upsets = 0
  /\ past = [content |-> [i \in Ids |-> {files.content[i]}], spawn |-> {files.spawn},
             sum |-> files.content, spoiled |-> FALSE]

Upset == upsets < MaxUpsets /\ upsets' = upsets + 1

-----------------------------------------------------------------------------
(* The lane: a request is served when all before it are done.                 *)

InLane(n) == calls[n].kind # "spawn"
Done(n) == calls[n].at \in {"ok", "refused", "failed"}

\* Mutant: no lane.
MyTurnAlways(n) == calls[n].at = "waiting" /\ InLane(n)

MyTurn(n) ==
  /\ calls[n].at = "waiting" /\ InLane(n)
  /\ \A m \in 1..(n - 1) : InLane(m) => Done(m)

UnderWay(n) == calls[n].at = "read"

(* An edit: a definition put under its id or another, or added as a child.    *)
Edit(content, c) ==
  [content EXCEPT ![c.id] = IF c.kind = "put" /\ c.newId # c.id THEN None ELSE @, ![c.newId] = c.text]

MayEdit(content, c) ==
  /\ content[c.id] # None
  /\ c.newId # c.id => content[c.newId] = None
  /\ c.kind = "post" => c.newId # c.id

ArtInTheWay(c) == c.kind = "put" /\ c.newId # c.id /\ {c.id, c.newId} \subseteq files.art

Renamed(set, c) == IF c.id \in set THEN (set \ {c.id}) \cup {c.newId} ELSE set

(* Reading, checking and the renaming of directories. Only what concerns an   *)
(* entity touches those and spawn.yaml. Overlapping with a save of spawn.yaml *)
(* is what the lane does not prevent.                                         *)
Renames(n) == calls[n].kind = "put" /\ calls[n].id \in Entities /\ calls[n].newId # calls[n].id
WritesSpawn(n) == calls[n].kind = "put" /\ calls[n].id \in Entities

Parts(n) == IF WritesSpawn(n) THEN {"content", "spawn"} ELSE {"content"}

Open == {m \in 1..Len(calls) : UnderWay(m)}

Reads(n) ==
  LET c == calls[n]
      ok == MayEdit(files.content, c) /\ ~ArtInTheWay(c) IN
  /\ MyTurn(n)
  /\ calls' = IF ok THEN [calls EXCEPT ![n].at = "read", ![n].left = Parts(n),
                                       ![n].content = files.content, ![n].spawn = files.spawn]
                    ELSE [calls EXCEPT ![n].at = "refused"]
  /\ files' = IF ok /\ Renames(n) THEN [files EXCEPT !.art = Renamed(@, c)] ELSE files
  /\ past' = [past EXCEPT !.spoiled = @ \/ (Renames(n) /\ \E m \in Open : ~InLane(m))]
  /\ UNCHANGED <<tabs, texts, upsets>>

(* Both files are written at once, in either order. The answer waits for both *)
(* unless one fails; the other is written all the same.                       *)
Wrote(n, part) ==
  IF calls[n].left = {part}
  THEN calls' = [calls EXCEPT ![n].left = {}, ![n].content = None, ![n].spawn = None,
                              ![n].at = IF @ = "read" THEN "ok" ELSE @]
  ELSE calls' = [calls EXCEPT ![n].left = @ \ {part}]

WritesContent(n) ==
  LET c == calls[n] after == Edit(c.content, c) IN
  /\ InLane(n) /\ "content" \in c.left /\ Wrote(n, "content")
  /\ files' = [files EXCEPT !.content = after]
  /\ past' = [past EXCEPT !.content[c.newId] = @ \cup {c.text}, !.sum = Edit(@, c)]
  /\ UNCHANGED <<tabs, texts, upsets>>

WritesRenamed(n) ==
  LET after == [calls[n].spawn EXCEPT !.names = Renamed(@, calls[n])] IN
  /\ InLane(n) /\ "spawn" \in calls[n].left /\ Wrote(n, "spawn")
  /\ files' = [files EXCEPT !.spawn = after]
  /\ past' = [past EXCEPT !.spawn = @ \cup {after}]
  /\ UNCHANGED <<tabs, texts, upsets>>

WriteFails(n) ==
  /\ Upset
  /\ \E part \in calls[n].left :
       calls' = [calls EXCEPT ![n].left = @ \ {part}, ![n].at = "failed"]
  /\ past' = [past EXCEPT !.spoiled = TRUE]
  /\ UNCHANGED <<files, tabs, texts>>

(* spawn.yaml is checked against the definitions, then written.               *)
SpawnReads(n) ==
  LET c == calls[n]
      ok == c.text.names \subseteq Defined(files.content) IN
  /\ c.kind = "spawn" /\ c.at = "waiting"
  /\ calls' = [calls EXCEPT ![n].at = IF ok THEN "read" ELSE "refused", ![n].left = IF ok THEN {"spawn"} ELSE {}]
  /\ past' = [past EXCEPT !.spoiled = @ \/ \E m \in Open : Renames(m)]
  /\ UNCHANGED <<files, tabs, texts, upsets>>

SpawnWrites(n) ==
  /\ calls[n].kind = "spawn" /\ calls[n].left # {} /\ Wrote(n, "spawn")
  /\ files' = [files EXCEPT !.spawn = calls[n].text]
  /\ past' = [past EXCEPT !.spawn = @ \cup {calls[n].text}]
  /\ UNCHANGED <<tabs, texts, upsets>>

-----------------------------------------------------------------------------
(* The tabs.                                                                  *)

Change(t, to) == tabs' = [tabs EXCEPT ![t] = to]
Touched(t, to) == Change(t, to) /\ UNCHANGED <<files, calls, texts, upsets, past>>

Graph(t) == tabs[t].kind \in {"entities", "techtree"}
Section(t) == SectionOf(tabs[t].kind)
Listed(t) == {i \in Section(t) : tabs[t].known[i] # None}

(* What an editor holds: its draft, or else what was read.                    *)
Text(tab, key) ==
  IF tab.drafts[key] # None THEN tab.drafts[key].yaml
  ELSE IF key = "spawn" THEN tab.spawn ELSE tab.known[key]
Dirty(tab, key) == tab.drafts[key] # None /\ tab.drafts[key].yaml # tab.drafts[key].base

Draft(tab) == IF tab.draft # None THEN tab.draft ELSE tab.known[tab.sel]
Name(tab)  == IF tab.name # None THEN tab.name ELSE tab.sel
Edited(tab) == tab.draft # None \/ Name(tab) # tab.sel

(* Ask the server. The other editors do not while they save; what covers the  *)
(* graphs then keeps the pointer out, but not the keyboard.                   *)
Saving(t) == tabs[t].asks # {}

Send(t, kind, id, newId, text) ==
  /\ Len(calls) < MaxCalls /\ (~Graph(t) => ~Saving(t))
  /\ calls' = Append(calls, [kind |-> kind, id |-> id, newId |-> newId, text |-> text, at |-> "waiting",
                             left |-> {}, content |-> None, spawn |-> None])
  /\ Change(t, [tabs[t] EXCEPT !.asks = @ \cup {Len(calls) + 1}])
  /\ UNCHANGED <<files, texts, upsets, past>>

(* Choosing another node drops the drafts of a graph.                         *)
SelectEntity(t) == \E i \in Listed(t) :
  /\ tabs[t].kind # "spawn" /\ i # tabs[t].sel
  /\ Touched(t, [tabs[t] EXCEPT !.sel = i, !.draft = None, !.name = None])

Cancel(t) ==
  LET tab == tabs[t] IN
  /\ tab.kind # "spawn"
  /\ IF Graph(t) THEN Edited(tab) ELSE ~Saving(t) /\ Dirty(tab, tab.sel)
  /\ Touched(t, IF Graph(t) THEN [tab EXCEPT !.draft = None, !.name = None]
                ELSE [tab EXCEPT !.drafts[tab.sel] = None])

Type(t) ==
  /\ texts < MaxTexts /\ texts' = texts + 1
  /\ LET tab == tabs[t] IN
     \/ Graph(t) /\ Change(t, [tab EXCEPT !.draft = texts'])
     \/ /\ tab.kind = "balance" /\ tab.known[tab.sel] # None
        /\ Change(t, [tab EXCEPT !.drafts[tab.sel] =
             [yaml |-> texts', base |-> IF tab.drafts[tab.sel] = None THEN tab.known[tab.sel] ELSE tab.drafts[tab.sel].base]])
     \/ /\ tab.kind = "spawn"
        /\ \E names \in SUBSET Entities :
             Change(t, [tab EXCEPT !.drafts["spawn"] =
               [yaml |-> [text |-> texts', names |-> names],
                base |-> IF tab.drafts["spawn"] = None THEN tab.spawn ELSE tab.drafts["spawn"].base]])
  /\ UNCHANGED <<files, calls, upsets, past>>

TypeName(t) == \E i \in Section(t) :
  /\ Graph(t) /\ i # Name(tabs[t])
  /\ Touched(t, [tabs[t] EXCEPT !.name = IF i = tabs[t].sel THEN None ELSE i])

SaveDraft(t) ==
  LET tab == tabs[t] IN
  /\ Graph(t) /\ Edited(tab)
  /\ Send(t, "put", tab.sel, Name(tab), Draft(tab))

Save(t) ==
  LET tab == tabs[t]
      key == IF tab.kind = "spawn" THEN "spawn" ELSE tab.sel IN
  /\ ~Graph(t) /\ Dirty(tab, key)
  /\ key # "spawn" => tab.known[key] # None
  /\ Send(t, IF key = "spawn" THEN "spawn" ELSE "put", key, key, Text(tab, key))

(* A child begins with the definition of its parent, a technology with none.  *)
CreateChild(t) == \E parent \in Listed(t), child \in Section(t) \ Listed(t) :
  /\ Graph(t)
  /\ Send(t, "post", parent, child, IF tabs[t].kind = "techtree" THEN Blank ELSE tabs[t].known[parent])

-----------------------------------------------------------------------------
(* Answers.                                                                   *)

(* A graph follows the edit itself, that of entities if it still lists what was *)
(* edited. A child is selected with the drafts kept; the first of the list is   *)
(* selected if what was asked for is not in it.                                *)
Followed(tab, c) ==
  LET listed == tab.known[c.id] # None \/ (c.kind = "post" /\ tab.kind = "techtree")
      known == IF listed THEN Edit(tab.known, c) ELSE tab.known
      sel == IF known[c.newId] # None THEN c.newId ELSE CHOOSE i \in SectionOf(tab.kind) : known[i] # None
  IN IF c.kind = "put" THEN [tab EXCEPT !.known = known, !.sel = sel, !.draft = None, !.name = None]
     ELSE [tab EXCEPT !.known = known, !.sel = sel]

\* Mutant: what is in the editor when the answer arrives is taken for what was saved.
SettledByNow(tab, c) == [tab EXCEPT !.drafts[c.id].base = tab.drafts[c.id].yaml]

(* What was typed since stays a draft.                                        *)
Settled(tab, c) ==
  [tab EXCEPT !.drafts[c.id] = [yaml |-> IF @ = None THEN c.text ELSE @.yaml, base |-> c.text]]

(* The balance page then reads all definitions again.                         *)
Answered(t) == \E n \in tabs[t].asks :
  LET tab == [tabs[t] EXCEPT !.asks = @ \ {n}] c == calls[n] IN
  /\ Done(n)
  /\ \/ c.at # "ok" /\ Touched(t, tab)
     \/ c.at = "ok" /\ Graph(t) /\ Touched(t, Followed(tab, c))
     \/ c.at = "ok" /\ tab.kind = "spawn" /\ Touched(t, Settled(tab, c))
     \/ c.at = "ok" /\ tab.kind = "balance"
        /\ \E fresh \in {tab.known, files.content} :
             Touched(t, [Settled(tab, c) EXCEPT !.known = fresh])

LineDrops(t) == \E n \in tabs[t].asks :
  /\ Upset
  /\ Change(t, [tabs[t] EXCEPT !.asks = @ \ {n}])
  /\ UNCHANGED <<files, calls, texts, past>>

(* A page is loaded again, or a visualization with fresh definitions.         *)
Reload(t) ==
  /\ ~Saving(t) /\ Touched(t, Tab(tabs[t].kind))

ReadAgain(t) ==
  /\ tabs[t].kind = "balance" /\ tabs[t].known # files.content
  /\ Touched(t, [tabs[t] EXCEPT !.known = files.content])

-----------------------------------------------------------------------------
Server == \E n \in 1..Len(calls) :
  Reads(n) \/ WritesContent(n) \/ WritesRenamed(n) \/ SpawnReads(n) \/ SpawnWrites(n) \/ WriteFails(n)

User == \E t \in Tabs :
  \/ SelectEntity(t) \/ Cancel(t) \/ Type(t) \/ TypeName(t) \/ SaveDraft(t) \/ Save(t) \/ CreateChild(t)
  \/ Answered(t) \/ LineDrops(t) \/ Reload(t) \/ ReadAgain(t)

NextEditing == Server \/ User

-----------------------------------------------------------------------------
(* No edit of the one file is lost or partly undone by another of another tab *)
(* or section: the definitions are the sum of the edits written, in order     *)
(* (mutateContentResponse), and with no save of spawn.yaml in between, every  *)
(* name in it and every directory is that of a definition.                    *)
EditsAddUp ==
  ~past.spoiled =>
    /\ files.content = past.sum
    /\ (\A n \in 1..Len(calls) : ~UnderWay(n)) => files.spawn.names \cup files.art \subseteq Defined(files.content)

(* What an editor takes for saved has been on disk under that id, whatever is *)
(* typed, answered or lost meanwhile.                                         *)
SavedWasWritten == \A t \in Tabs :
  LET tab == tabs[t] IN
  /\ tab.spawn # None => tab.spawn \in past.spawn
  /\ tab.drafts["spawn"] # None => tab.drafts["spawn"].base \in past.spawn
  /\ \A i \in Ids : tab.drafts[i] # None => tab.drafts[i].base \in past.content[i]
  /\ \A i \in Ids : tab.known[i] # None => tab.known[i] \in past.content[i]
=============================================================================
