---------------------------- MODULE ResearchView ----------------------------
(***************************************************************************)
(* The research view of the desktop: a list of notes with an editor in it,   *)
(* and a panel of saved searches with one opened to be replaced.  Both show  *)
(* lists read some time ago, over rows that other commands change meanwhile; *)
(* the version a change is made from travels with it (ResearchWorkspace.tsx, *)
(* ResearchSearchControlsPanel.tsx, research_search_controls.py,            *)
(* workspace_metadata.py).                                                  *)
(***************************************************************************)
EXTENDS Naturals, FiniteSets

CONSTANTS
  Notes, Searches, \* identities, made once
  MaxVersion,      \* bound: versions of a row
  Nothing

ASSUME ViewAssumption ==
  MaxVersion \in Nat \ {0} /\ Notes \cap Searches = {} /\ Nothing \notin Nat

Items == Notes \cup Searches

VARIABLES
  row,     \* SQLite: version of each row; 0 before it is made, Nothing once deleted
  listed,  \* the version each list shows
  editor,  \* by list: the row open in its editor, the version its draft is from, the one it names
  waiting,    \* lists whose buttons are disabled
  asked    \* calls of the page in flight

viewVars == <<row, listed, editor, waiting, asked>>

Lists == {Notes, Searches}
ListOf(i) == IF i \in Notes THEN Notes ELSE Searches
Exists(i) == row[i] \notin {0, Nothing}

ViewInit ==
  /\ row \in [Items -> {0, 1}]
  /\ listed = [i \in Items |-> 0]
  /\ editor = [l \in Lists |-> Nothing]
  /\ waiting = {} /\ asked = {}

Request(op, item, from, names) ==
  [op |-> op, item |-> item, list |-> ListOf(item), from |-> from, names |-> names, here |-> TRUE]

Reading(list, last) == [op |-> "list", list |-> list, last |-> last, found |-> Nothing, here |-> TRUE]

-----------------------------------------------------------------------------
(* The page.                                                                *)

\* The view opens, a filter changes, or something was saved elsewhere on it.
Reload(list) ==
  /\ \A c \in asked : c.op # "list" \/ c.list # list
  /\ asked' = asked \cup {Reading(list, FALSE)}
  /\ UNCHANGED <<row, listed, editor, waiting>>

\* Reading the list of one kind at one moment; shown when the answer arrives.
Listing(c) ==
  /\ c.op = "list" /\ c.found = Nothing
  /\ asked' = (asked \ {c}) \cup {[c EXCEPT !.found = [i \in c.list |-> row[i]]]}
  /\ UNCHANGED <<row, listed, editor, waiting>>

Show(c) ==
  /\ c.op = "list" /\ c.found # Nothing
  /\ listed' = [i \in Items |-> IF i \in c.list THEN c.found[i] ELSE listed[i]]
  /\ waiting' = IF c.last THEN waiting \ {c.list} ELSE waiting
  /\ asked' = asked \ {c}
  /\ UNCHANGED <<row, editor>>

Shown(i) == listed[i] \notin {0, Nothing}

Press(i, request) ==
  /\ ListOf(i) \notin waiting
  /\ asked' = asked \cup {request} /\ waiting' = waiting \cup {ListOf(i)}
  /\ UNCHANGED <<row, listed, editor>>

\* The editor of a note is opened from the list, without a call.
BeginEdit(i) ==
  /\ i \in Notes /\ Shown(i) /\ Notes \notin waiting
  /\ editor' = [editor EXCEPT ![Notes] = [item |-> i, from |-> listed[i], names |-> listed[i]]]
  /\ UNCHANGED <<row, listed, waiting, asked>>

CancelEdit(list) ==
  /\ editor[list] # Nothing /\ list \notin waiting
  /\ editor' = [editor EXCEPT ![list] = Nothing]
  /\ UNCHANGED <<row, listed, waiting, asked>>

\* A saved search is read again before it is edited; or run, and then its text
\* is that of the run while its version is the list's.
Inspect(i) == i \in Searches /\ Shown(i) /\ Press(i, Request("inspect", i, 0, listed[i]))
Run(i) == i \in Searches /\ Shown(i) /\ Press(i, Request("run", i, 0, listed[i]))

\* Mutant: the row of the list is what is replaced, as for a note.
NamesListed(list) == listed[editor[list].item]

\* The version a change names: of a search, the one its editor loaded; of a
\* note, whatever the list shows by now.
Names(list) == IF list = Notes THEN listed[editor[list].item] ELSE editor[list].names

\* A note is edited in its row of the list, a search in a form of its own.
SaveEdit(list) ==
  /\ editor[list] # Nothing /\ (list = Notes => Shown(editor[list].item))
  /\ Press(editor[list].item,
           Request("replace", editor[list].item, editor[list].from, Names(list)))

\* Deleting asks once more beside the row it is about.
DeleteRow(i) == Shown(i) /\ Press(i, Request("delete", i, listed[i], listed[i]))

Create(i) ==
  /\ row[i] = 0 /\ ListOf(i) \notin waiting
  /\ \A c \in asked : c.op # "create"
  /\ asked' = asked \cup {Request("create", i, 0, 0)} /\ waiting' = waiting \cup {ListOf(i)}
  /\ UNCHANGED <<row, listed, editor>>

-----------------------------------------------------------------------------
(* The calls, each one transaction.  After a change the list is read again.  *)

\* It is not if the part of the page that asked is gone, and no answer is shown.
Refresh(c) ==
  /\ asked' = (asked \ {c}) \cup (IF c.here THEN {Reading(c.list, TRUE)} ELSE {})
  /\ UNCHANGED <<listed, waiting>>

Settled(c) ==
  /\ asked' = asked \ {c}
  /\ waiting' = IF c.here THEN waiting \ {c.list} ELSE waiting
  /\ UNCHANGED <<row, listed>>

Edits(c, draft) == editor' = IF c.here THEN [editor EXCEPT ![c.list] = draft] ELSE editor

Draft(c, from, names) == [item |-> c.item, from |-> from, names |-> names]

\* Mutant: any version will do.
NoVersionCheck(c) == Exists(c.item)

CurrentVersion(c) == Exists(c.item) /\ row[c.item] = c.names

ReplaceSavedSearch(c) ==
  /\ c.op = "replace" /\ CurrentVersion(c) /\ row[c.item] < MaxVersion
  /\ row' = [row EXCEPT ![c.item] = @ + 1]
  /\ Edits(c, IF c.list = Notes THEN Nothing ELSE Draft(c, row'[c.item], row'[c.item]))
  /\ Refresh(c)

DeleteSavedSearch(c) ==
  /\ c.op = "delete" /\ CurrentVersion(c)
  /\ row' = [row EXCEPT ![c.item] = Nothing]
  /\ Edits(c, IF editor[c.list] # Nothing /\ editor[c.list].item = c.item
                THEN Nothing ELSE editor[c.list])
  /\ Refresh(c)

CreateSavedSearch(c) ==
  /\ c.op = "create"
  /\ row' = [row EXCEPT ![c.item] = 1]
  /\ Edits(c, IF c.list = Notes THEN editor[Notes] ELSE Draft(c, 1, 1))
  /\ Refresh(c)

InspectSavedSearch(c) ==
  /\ c.op = "inspect" /\ Exists(c.item)
  /\ Edits(c, Draft(c, row[c.item], row[c.item])) /\ Settled(c)

RunSavedSearch(c) ==
  /\ c.op = "run" /\ Exists(c.item)
  /\ Edits(c, Draft(c, row[c.item], c.names)) /\ Settled(c)

Refuse(c) ==
  /\ \/ c.op \in {"inspect", "run"} /\ ~Exists(c.item)
     \/ c.op \in {"replace", "delete"} /\ ~CurrentVersion(c)
     \/ c.op \in {"create", "replace", "run"} \* a name is taken, a model is missing
  /\ Settled(c) /\ UNCHANGED editor

\* Another command changes or deletes a row.
ChangeRow(i) ==
  /\ Exists(i)
  /\ \/ row[i] < MaxVersion /\ row' = [row EXCEPT ![i] = @ + 1]
     \/ row' = [row EXCEPT ![i] = Nothing]
  /\ UNCHANGED <<listed, editor, waiting, asked>>

\* The view is left; or the notes are mounted anew, for the panel beside them
\* saved something.  What was shown and drafted is gone, the changes asked for are not.
LeaveView(list) ==
  /\ \A c \in asked : c.list = list => c.here
  /\ listed' = [i \in Items |-> IF i \in list THEN 0 ELSE listed[i]]
  /\ editor' = [editor EXCEPT ![list] = Nothing]
  /\ waiting' = waiting \ {list}
  /\ asked' = {c \in asked : c.list # list}
            \cup {[c EXCEPT !.here = FALSE] : c \in {d \in asked : d.list = list /\ d.op # "list"}}
  /\ UNCHANGED row

ViewNext ==
  \/ \E l \in Lists : Reload(l) \/ CancelEdit(l) \/ SaveEdit(l) \/ LeaveView(l)
  \/ \E i \in Items : BeginEdit(i) \/ Inspect(i) \/ Run(i) \/ DeleteRow(i) \/ Create(i) \/ ChangeRow(i)
  \/ \E c \in asked : \/ Listing(c) \/ Show(c) \/ ReplaceSavedSearch(c) \/ DeleteSavedSearch(c)
                      \/ CreateSavedSearch(c) \/ InspectSavedSearch(c) \/ RunSavedSearch(c) \/ Refuse(c)

ViewSpec == ViewInit /\ [][ViewNext]_viewVars

-----------------------------------------------------------------------------
(* Properties.                                                              *)

Overwrites(c) == c.op \in {"replace", "delete"} /\ c \notin asked' /\ row'[c.item] # row[c.item]

\* Replacing or deleting a saved search undoes no change the owner has not
\* seen: the version it takes the place of is the one the editor or the confirmed
\* row came from, whether it was inspected, run or listed, and whatever was
\* reloaded since.
ReplacesWhatItLoaded ==
  [][\A c \in asked : Overwrites(c) /\ c.item \in Searches => c.from = row[c.item]]_viewVars

\* The same of notes (research-state.md: two editors do not overwrite each other
\* silently).  The code breaks it: the list is read again under an open editor,
\* and lends its version to the older draft.
DraftsReplaceWhatTheyCameFrom ==
  [][\A c \in asked : Overwrites(c) => c.from = row[c.item]]_viewVars
=============================================================================
