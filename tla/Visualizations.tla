--------------------------- MODULE Visualizations ---------------------------
(* The visualizations of the balance page: a text in an editor that stays     *)
(* open while it is saved or another is loaded, and files saved under the id    *)
(* the text names. One page is followed; what others save comes from          *)
(* Elsewhere. A text is told apart by when it was typed and by its id; None   *)
(* for the id is a text that does not parse.                                  *)
EXTENDS Naturals

CONSTANTS
  None,      \* no value
  Boards,    \* ids of visualizations
  MaxLines,  \* texts typed
  MaxBreaks  \* requests that fail

VARIABLES
  boards,  \* the files of packages/content/balance
  page,
  puts,    \* saves on their way to the server
  lines,   \* the number of texts typed
  breaks

visual == <<boards, page, puts, lines, breaks>>

Example(i) == [n |-> 0, id |-> i]  \* the text of a built-in example

Idle == [at |-> "idle"]

(* The page with the editor's text, the text it was loaded or saved with, whose *)
(* file it is, the list of saved files, and what it waits for. History: the   *)
(* text it was last told to discard, the files it read, wrote or may          *)
(* overwrite.                                                                 *)
Page(i) ==
  [text |-> Example(i), base |-> Example(i), loaded |-> None, list |-> {}, asked |-> TRUE, heard |-> None,
   call |-> Idle, dropped |-> None, mine |-> {}]

InitVisual ==
  /\ boards \in [Boards -> {None} \cup {Example(i) : i \in Boards}]
  /\ \A i \in Boards : boards[i] # None => boards[i].id = i
  /\ \E i \in Boards : page = Page(i)
  /\ puts = {} /\ lines = 0 /\ breaks = 0

Saved == {i \in Boards : boards[i] # None}
Dirty(p) == p.text # p.base

-----------------------------------------------------------------------------
(* The server: a new file is linked, which fails when there is one; an old    *)
(* one is replaced by renaming.                                               *)

Refuses(put) == ~put.overwrite /\ boards[put.text.id] # None

Answer(a) == [page EXCEPT !.call.answer = a]

Waits(put) == page.call = [at |-> "saving", put |-> put, answer |-> None]

Saves(put) ==
  /\ put \in puts /\ puts' = puts \ {put}
  /\ boards' = IF Refuses(put) THEN boards ELSE [boards EXCEPT ![put.text.id] = put.text]
  /\ page' = IF Waits(put) THEN Answer(IF Refuses(put) THEN "exists" ELSE "saved") ELSE page
  /\ UNCHANGED <<lines, breaks>>

Reads ==
  /\ page.call.at = "loading" /\ page.call.answer = None /\ boards[page.call.id] # None
  /\ page' = Answer(boards[page.call.id])
  /\ UNCHANGED <<boards, puts, lines, breaks>>

Lists ==
  /\ page.asked
  /\ page' = [page EXCEPT !.asked = FALSE, !.heard = Saved]
  /\ UNCHANGED <<boards, puts, lines, breaks>>

-----------------------------------------------------------------------------
(* The page                                                                   *)

Shows(p) == page' = p /\ UNCHANGED <<boards, lines, breaks>>
Free == page.call = Idle

Listed ==
  /\ page.heard # None
  /\ Shows([page EXCEPT !.list = page.heard, !.heard = None]) /\ UNCHANGED puts

(* Another page saves.                                                        *)
Elsewhere(i) ==
  /\ lines < MaxLines /\ lines' = lines + 1
  /\ boards' = [boards EXCEPT ![i] = [n |-> lines + 1, id |-> i]]
  /\ UNCHANGED <<page, puts, breaks>>

\* The editor takes input at any time.
Type(i) ==
  /\ lines < MaxLines /\ lines' = lines + 1
  /\ page' = [page EXCEPT !.text = [n |-> lines + 1, id |-> i]]
  /\ UNCHANGED <<boards, puts, breaks>>

(* canReplace: unsaved text goes only when the user says so.                  *)
MayReplace(p, yes) == Dirty(p) => yes
Dropping(p) == IF Dirty(p) THEN p.text ELSE p.dropped

Replaced(p, text, id) ==
  [p EXCEPT !.text = text, !.base = text, !.loaded = id, !.call = Idle,
            !.mine = IF id = None THEN @ ELSE @ \cup {id}]

SelectExample(i) ==
  /\ Free
  /\ Shows([Replaced(page, Example(i), None) EXCEPT !.dropped = Dropping(page)])
  /\ UNCHANGED puts

SelectSaved(i) ==
  /\ Free /\ i \in page.list
  /\ Shows([page EXCEPT !.dropped = Dropping(page),
              !.call = [at |-> "loading", id |-> i, start |-> page.text, answer |-> None]])
  /\ UNCHANGED puts

\* Mutant: what was typed while the file was read is not asked about again.
LoadsAlways(p, yes) == TRUE

Loads(p, yes) == p.text # p.call.start => MayReplace(p, yes)

Loaded ==
  LET p == page IN
  /\ p.call.at = "loading" /\ p.call.answer # None
  /\ \E yes \in BOOLEAN :
       Shows(IF Loads(p, yes)
             THEN [Replaced(p, p.call.answer, p.call.id) EXCEPT
                     !.dropped = IF yes THEN Dropping(p) ELSE @]
             ELSE [p EXCEPT !.call = Idle])
  /\ UNCHANGED puts

Put(text, over) == [text |-> text, overwrite |-> over]

Sends(put) ==
  /\ puts' = puts \cup {put}
  /\ Shows([page EXCEPT !.call = [at |-> "saving", put |-> put, answer |-> None],
                        !.mine = IF put.overwrite THEN @ \cup {put.text.id} ELSE @])

(* A text goes to the file it was loaded from, to a new file or, when the     *)
(* user says so, to a file the page knows of.                                 *)
Save ==
  LET p == page
      own == p.loaded = p.text.id IN
  /\ Free /\ p.text.id # None
  /\ Sends(Put(p.text, own \/ p.text.id \in p.list))

(* An answer. The file another page made meanwhile is replaced when the user  *)
(* says so. What was saved is the text sent, not the text there is now.       *)
SaveAnswered ==
  LET p == page
      put == p.call.put IN
  /\ p.call.at = "saving" /\ p.call.answer # None
  /\ \/ /\ p.call.answer = "saved"
        /\ Shows([p EXCEPT !.base = put.text, !.loaded = put.text.id, !.call = Idle,
                           !.list = @ \cup {put.text.id}, !.mine = @ \cup {put.text.id}])
        /\ UNCHANGED puts
     \/ p.call.answer = "exists" /\ Sends([put EXCEPT !.overwrite = TRUE])
     \/ p.call.answer = "exists" /\ Shows([p EXCEPT !.call = Idle]) /\ UNCHANGED puts

(* A request fails: before it reached the server, while it is under way, or   *)
(* its answer is lost.                                                        *)
Breaks ==
  /\ breaks < MaxBreaks /\ breaks' = breaks + 1
  /\ ~Free /\ page' = [page EXCEPT !.call = Idle]
  /\ puts' \in {puts, {}}
  /\ UNCHANGED <<boards, lines>>

Using ==
  \/ \E i \in Boards \cup {None} : Type(i)
  \/ \E i \in Boards : SelectExample(i) \/ SelectSaved(i)
  \/ Listed \/ Loaded \/ Save \/ SaveAnswered \/ Breaks

NextVisual == Using \/ (\E i \in Boards : Elsewhere(i)) \/ Reads \/ Lists \/ \E put \in puts : Saves(put)

-----------------------------------------------------------------------------
(* Unsaved text leaves the editor only by the user's hand or with consent,    *)
(* also when it was typed while a file was being read, and a save replaces    *)
(* only a file that the page once loaded or wrote or was told to replace,     *)
(* though another page may have saved it since, of which nobody is asked      *)
(* (canReplace, selectSaved and save of BalanceEditor; balanceFiles).         *)
NothingReplacedUnasked ==
  [][/\ Dirty(page) /\ page'.text # page.text => lines' # lines \/ page'.dropped = page.text
     /\ \A i \in Boards :
          boards[i] # None /\ boards'[i] # boards[i] /\ puts' # puts => i \in page.mine]_visual
=============================================================================
