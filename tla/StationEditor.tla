---------------------------- MODULE StationEditor ----------------------------
(***************************************************************************)
(* The configuration tab of the edge pages (frontend/src/pages/Edge.tsx)   *)
(* in front of Stations: every page edits a copy of the list it read when  *)
(* it was opened, sends the whole copy, and asks for a reload.  Save is    *)
(* never disabled, so a save and a reload overtake each other, and so do   *)
(* those of two pages.                                                     *)
(***************************************************************************)
EXTENDS Stations, FiniteSets

CONSTANT MaxClicks   \* bound: what is done on the pages, restarts included

ASSUME EditorAssumption == MaxClicks \in Nat

VARIABLES
  editing,    \* editing[t]: the copy of page t
  opening,    \* opening[t]: the list on its way to page t
  posting,    \* posting[t]: the list page t has sent
  reloading,  \* reloading[t]: the reload of page t is "no", "sent" or "served"
  clicks      \* for the bound

editorVars == <<editing, opening, posting, reloading, clicks>>

Pages == Reloads

EditorInit ==
  /\ StationInit
  /\ editing = [t \in Pages |-> {}] /\ opening = [t \in Pages |-> None]
  /\ posting = [t \in Pages |-> None] /\ reloading = [t \in Pages |-> "no"] /\ clicks = 0

Clicked == clicks < MaxClicks /\ clicks' = clicks + 1

\* The page is opened, its GET is answered or not.  Bound: it is not left while
\* it awaits an answer.
PageOpens(t) ==
  /\ opening[t] = None /\ posting[t] = None /\ reloading[t] = "no"
  /\ Clicked /\ ReadsConfig
  /\ opening' = [opening EXCEPT ![t] = Loaded] /\ editing' = [editing EXCEPT ![t] = {}]
  /\ UNCHANGED <<posting, reloading>>

\* The answer replaces what was edited meanwhile; without one the copy stays.
FetchEnds(t) ==
  /\ opening[t] # None /\ opening' = [opening EXCEPT ![t] = None]
  /\ editing' \in {editing, [editing EXCEPT ![t] = opening[t]]}
  /\ UNCHANGED <<stationVars, posting, reloading, clicks>>

-----------------------------------------------------------------------------
(* The editor: addConnection, removeConnection, updateConnectionField. *)

Edit(t, list) ==
  /\ Clicked
  /\ editing' = [editing EXCEPT ![t] = list]
  /\ UNCHANGED <<stationVars, opening, posting, reloading>>

\* A bug: the id is one more than the number of connections.
IsNewId_Counts(n, list) == n = Cardinality(list) + 1
\* The id of a new connection is one more than the largest of the copy.
IsNewId(n, list) == (\A c \in list : c.id < n) /\ (n = 1 \/ \E c \in list : n = c.id + 1)

AddConnection(t) == \E n \in StationIds :
  IsNewId(n, editing[t]) /\ Edit(t, editing[t] \cup {[id |-> n, prefixed |-> FALSE]})
RemoveConnection(t) == \E i \in StationIds : Edit(t, {c \in editing[t] : c.id # i})
ToggleNodePrefix(t) == \E i \in StationIds :
  Edit(t, {IF c.id = i THEN [c EXCEPT !.prefixed = ~@] ELSE c : c \in editing[t]})

-----------------------------------------------------------------------------
(* Speichern and Neuladen. *)

\* Bound: one save of a page at a time.
SaveClicked(t) ==
  /\ Clicked /\ posting[t] = None /\ posting' = [posting EXCEPT ![t] = editing[t]]
  /\ UNCHANGED <<stationVars, editing, opening, reloading>>
SaveArrives(t) ==
  /\ posting[t] # None /\ posting' = [posting EXCEPT ![t] = None]
  /\ SavesConfig(posting[t])
  /\ UNCHANGED <<editing, opening, reloading, clicks>>
SaveLost(t) ==
  /\ posting[t] # None /\ posting' = [posting EXCEPT ![t] = None]
  /\ UNCHANGED <<stationVars, editing, opening, reloading, clicks>>

\* The button is disabled until the answer.
ReloadMoves(t, from, to) ==
  /\ reloading[t] = from /\ reloading' = [reloading EXCEPT ![t] = to]
  /\ UNCHANGED <<editing, opening, posting>>
ReloadClicked(t) == Clicked /\ ReloadMoves(t, "no", "sent") /\ UNCHANGED stationVars
ReloadArrives(t) == ReloadMoves(t, "sent", "served") /\ ReloadBegins(t) /\ UNCHANGED clicks
ReloadLost(t) == ReloadMoves(t, "sent", "no") /\ UNCHANGED <<stationVars, clicks>>
ReloadAnswered(t) ==
  ReloadMoves(t, "served", "no") /\ ~Running(t) /\ UNCHANGED <<stationVars, clicks>>

EditorRestart ==
  /\ Clicked /\ StationsRestart
  /\ reloading' = [t \in Pages |-> IF reloading[t] = "served" THEN "no" ELSE reloading[t]]
  /\ UNCHANGED <<editing, opening, posting>>

EditorNext ==
  \/ EditorRestart
  \/ \E r \in Runs : ConnectStep(r) /\ UNCHANGED editorVars
  \/ \E t \in Pages :
       \/ PageOpens(t) \/ FetchEnds(t)
       \/ AddConnection(t) \/ RemoveConnection(t) \/ ToggleNodePrefix(t)
       \/ SaveClicked(t) \/ SaveArrives(t) \/ SaveLost(t)
       \/ ReloadClicked(t) \/ ReloadArrives(t) \/ ReloadLost(t) \/ ReloadAnswered(t)

EditorSpec == EditorInit /\ [][EditorNext]_<<stationVars, editorVars>>

-----------------------------------------------------------------------------
EditorTypeOK ==
  /\ StationsTypeOK
  /\ editing \in [Pages -> UniqueLists] /\ opening \in [Pages -> UniqueLists \cup {None}]
  /\ posting \in [Pages -> UniqueLists \cup {None}]
  /\ reloading \in [Pages -> {"no", "sent", "served"}] /\ clicks \in 0..MaxClicks
=============================================================================
