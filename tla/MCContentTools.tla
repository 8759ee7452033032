--------------------------- MODULE MCContentTools ---------------------------
(* The content tools, in one run: artwork (SpriteStudio) and definitions      *)
(* (ContentEditing), which meet nowhere but in the lane of contentRevisions,  *)
(* and visualizations (Visualizations), which have files of their own. "part" *)
(* tells which a behaviour is of.                                             *)
EXTENDS SpriteStudio

CONSTANTS Types, Technologies, There, Tabs, MaxTexts, MaxEdits, MaxUpsets, Boards, MaxLines, MaxBreaks

(* Entities and technologies are sections of their own, neither of them       *)
(* empty, and spawn.yaml is neither.                                          *)
ASSUME EditingAssumption ==
  /\ Types \cap Technologies = {} /\ "spawn" \notin Types \cup Technologies
  /\ There \subseteq Types \cup Technologies
  /\ There \cap Types # {} /\ There \cap Technologies # {}
  /\ None \notin Int /\ None \notin [text : Int, names : SUBSET Types]

VARIABLES part, content, edits, tabs, texts, upsets, past, boards, page, puts, lines, breaks

definitions == <<content, edits, tabs, texts, upsets, past>>
charts == <<boards, page, puts, lines, breaks>>

Editing == INSTANCE ContentEditing
             WITH Entities <- Types, MaxCalls <- MaxEdits, files <- content, calls <- edits

Charts == INSTANCE Visualizations

(* The parts a behaviour is not of are in one of their initial states.        *)
OneInit ==
  /\ part \in {"sprites", "editing", "charts"}
  /\ Init /\ Editing!InitEditing /\ Charts!InitVisual
  /\ part # "editing" =>
       /\ \A t \in Tabs : tabs[t].kind = "spawn"
       /\ content.spawn.names = {}
  /\ part = "editing" => content.spawn.names = There \cap Types
  /\ part # "sprites" => catalog.open
  /\ part # "charts" => \A i \in Boards : boards[i] = None /\ page.text.id = CHOOSE j \in Boards : TRUE

OneNext ==
  \/ part = "sprites" /\ Next                /\ UNCHANGED <<part, definitions, charts>>
  \/ part = "editing" /\ Editing!NextEditing /\ UNCHANGED <<part, vars, charts>>
  \/ part = "charts"  /\ Charts!NextVisual   /\ UNCHANGED <<part, vars, definitions>>

OneSpec == OneInit /\ [][OneNext]_<<part, vars, definitions, charts>>

Alike == Permutations(Entities) \cup Permutations(Tabs)

(* No edit of a definition is lost or undone by another (mutateContent).      *)
EditsAddUp == Editing!EditsAddUp

(* What an editor takes for saved was written (the answers of the routes).    *)
SavedWasWritten == Editing!SavedWasWritten

(* Unsaved text is replaced only when the user says so, and a saved file only *)
(* by a page that once loaded or wrote it or was told to, whatever others     *)
(* saved since (BalanceEditor.tsx, balanceFiles.ts).                          *)
NothingReplacedUnasked == Charts!NothingReplacedUnasked
=============================================================================
