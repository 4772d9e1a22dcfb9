------------------------------ MODULE ListPage ------------------------------
(***************************************************************************)
(* A page of the frontend that lists a table (pages/Machines.tsx,          *)
(* pages/Carriers.tsx): it reads the list when it is opened and after      *)
(* every create or edit that was answered ok, and takes a row off its list *)
(* when a delete was answered ok.  Nothing puts the answers in order.      *)
(* Of the page's requests only its deletes are told apart from those of    *)
(* other clients: their buttons are those of listed rows, while the edit   *)
(* form keeps a row the list may have lost.                                *)
(***************************************************************************)
CONSTANTS Ids, Absent

VARIABLES
  rows,      \* the table
  listed,    \* the rows the page shows
  fetching,  \* the GET of the list, and what it has read (bound: one at a time)
  told,      \* history: rows the page was told are deleted, and that are not back
  overtaken  \* history: rows of the shown list whose deletion was heard before it landed

Present == {i \in Ids : rows[i] # Absent}
\* late: rows of the list on its way whose deletion was heard since it was read.
NoFetch == [at |-> "no", list |-> {}, late |-> {}]
Fetches == [at : {"no", "sent", "read"}, list : SUBSET Ids, late : SUBSET Ids]

ListInit == listed = {} /\ fetching = NoFetch /\ told = {} /\ overtaken = {}

\* The page is opened, or a create or edit of its own, which is one of the requests
\* to the table at any time, was answered ok.  Bound: it is not left while it awaits
\* a list.
Asks ==
  /\ fetching = NoFetch /\ fetching' = [NoFetch EXCEPT !.at = "sent"]
  /\ \/ listed' = {} /\ told' = {} /\ overtaken' = {}
     \/ UNCHANGED <<listed, told, overtaken>>

ListRead ==
  /\ fetching.at = "sent" /\ fetching' = [NoFetch EXCEPT !.at = "read", !.list = Present]
  /\ UNCHANGED <<listed, told, overtaken>>

\* A list replaces the one shown, whatever was heard meanwhile; a failed GET leaves
\* it, or empties it on opening.
ListLands ==
  /\ fetching.at = "read" /\ fetching' = NoFetch
  /\ \/ listed' = fetching.list /\ overtaken' = fetching.late
     \/ listed' \in {listed, {}} /\ UNCHANGED overtaken
  /\ UNCHANGED told

Known(i, ok) == IF ok /\ rows[i] = Absent THEN {i} ELSE {}
Remembers(i, ok) ==
  /\ told' = told \cup Known(i, ok) /\ overtaken' = overtaken \ Known(i, ok)
  /\ fetching' = [fetching EXCEPT !.late = @ \cup (Known(i, ok) \cap fetching.list)]

\* A bug: the row is put back when its delete is answered with an error.
HearsDeleted_Restores(i, ok) ==
  listed' = (IF ok THEN listed \ {i} ELSE listed \cup {i}) /\ Remembers(i, ok)
\* handleDelete after its await.
HearsDeleted(i, ok) ==
  listed' = (IF ok THEN listed \ {i} ELSE listed) /\ Remembers(i, ok)

\* The table changed: a row that is back is no longer known to be deleted.
Elsewhere ==
  /\ told' = {i \in told : rows'[i] = Absent}
  /\ UNCHANGED <<listed, fetching, overtaken>>

-----------------------------------------------------------------------------
ListTypeOK ==
  /\ listed \subseteq Ids /\ fetching \in Fetches /\ told \subseteq Ids /\ overtaken \subseteq Ids

\* A row the page was told is deleted comes back on its list only with a list that
\* was read before the deletion and landed after the answer: no other answer, no
\* second click on the row and no list asked for since show it again, and the next
\* list that lands takes it off.
OnlyOvertakenReturn == listed \cap told \subseteq overtaken
=============================================================================
