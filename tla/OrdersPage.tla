----------------------------- MODULE OrdersPage -----------------------------
(***************************************************************************)
(* The orders page (frontend/src/pages/Orders.tsx) against the routes of   *)
(* OrdersController, for one order: the menu is drawn from the status the  *)
(* page last heard, the clicks become requests, and every answer, as well  *)
(* as a timer, reads the list again.  Answers overtake each other.  What   *)
(* the service does inside a request is Orders' subject; here a request    *)
(* takes effect at once.                                                   *)
(***************************************************************************)
CONSTANTS
  Polls,      \* bound: reads of the list under way
  Clicks,     \* bound: requests of the page under way
  Nothing     \* no read, no click

VARIABLES
  db,         \* the order's status, or "absent"
  shown,      \* what the page lists
  reading,    \* reading[p]: what read p saw on the server, on its way back
  clicked     \* clicked[k]: the path of request k

pageVars == <<db, shown, reading, clicked>>

Statuses == {"pending", "released", "in_progress", "on_hold", "completed", "cancelled"}
Values == Statuses \cup {"absent"}

\* TRANSITION_MAP: what the menu offers.
Menu == [v \in Values |->
  CASE v = "pending" -> {"released", "cancelled"}
    [] v = "released" -> {"in_progress", "cancelled", "on_hold"}
    [] v = "in_progress" -> {"completed", "on_hold", "cancelled"}
    [] v = "on_hold" -> {"in_progress"}
    [] OTHER -> {}]

\* handleStatusChange: the path it posts to.
Path(to) == IF to = "released" THEN "release" ELSE to

\* A bug: a route sets a status that is none.
Routes_Misspelt == [complete |-> "completed", cancel |-> "cancelled", pause |-> "on_hold",
                    resume |-> "in_progress", release |-> "release"]
\* The POST routes of OrdersController that set a status; of the menu's paths
\* only release is among them.
Routes == [complete |-> "completed", cancel |-> "cancelled", pause |-> "on_hold",
           resume |-> "in_progress", release |-> "released"]
Routed == DOMAIN Routes \cup {"edit", "delete"}

\* What is drawn for an order: the menu, Edit (and Carrier, which changes no
\* order), and Delete unless its status forbids.
Buttons(v) ==
  {Path(to) : to \in Menu[v]} \cup {"edit"}
  \cup {b \in {"delete"} : v \notin {"completed", "in_progress"}}

PageInit ==
  /\ db \in {"absent", "pending"} /\ shown = "absent"
  /\ reading = [p \in Polls |-> Nothing] /\ clicked = [k \in Clicks |-> Nothing]

\* Web-shop orders arrive; the API and other pages set statuses by any route.
OthersWrite == db' \in Values /\ db' # db /\ UNCHANGED <<shown, reading, clicked>>

\* A bug: the list is read on mounting alone.
ReadsList_OnMount ==
  /\ shown = "absent"
  /\ \E p \in Polls : reading[p] = Nothing /\ reading' = [reading EXCEPT ![p] = db]
  /\ UNCHANGED <<db, shown, clicked>>
\* The mount, the interval of 5 s or refreshOrders: GET /orders reaches the server.
ReadsList ==
  /\ \E p \in Polls : reading[p] = Nothing /\ reading' = [reading EXCEPT ![p] = db]
  /\ UNCHANGED <<db, shown, clicked>>
\* The database fails to answer it: findAll catches the error and returns the
\* empty list with 200.
ReadsEmpty ==
  /\ \E p \in Polls : reading[p] = Nothing /\ reading' = [reading EXCEPT ![p] = "absent"]
  /\ UNCHANGED <<db, shown, clicked>>

\* The answer comes back, in any order, or is lost and changes nothing.
ListAnswered(p) ==
  /\ reading[p] # Nothing /\ shown' = reading[p]
  /\ reading' = [reading EXCEPT ![p] = Nothing]
  /\ UNCHANGED <<db, clicked>>
ListLost(p) ==
  /\ reading[p] # Nothing
  /\ reading' = [reading EXCEPT ![p] = Nothing]
  /\ UNCHANGED <<db, shown, clicked>>

Click(k) ==
  /\ clicked[k] = Nothing /\ shown # "absent"
  /\ \E b \in Buttons(shown) : clicked' = [clicked EXCEPT ![k] = b]
  /\ UNCHANGED <<db, shown, reading>>

\* The server takes the request: DELETE and the routes act on the order if it
\* is there, PATCH leaves its status, any other path is answered 404.
Served(k) ==
  /\ clicked[k] # Nothing
  /\ LET c == clicked[k] IN
     db' = IF db = "absent" \/ c = "edit" \/ c \notin Routed THEN db
           ELSE IF c = "delete" THEN "absent" ELSE Routes[c]
  /\ clicked' = [clicked EXCEPT ![k] = Nothing]
  /\ UNCHANGED <<shown, reading>>

PageNext ==
  \/ OthersWrite \/ ReadsList \/ ReadsEmpty
  \/ \E p \in Polls : ListAnswered(p) \/ ListLost(p)
  \/ \E k \in Clicks : Click(k) \/ Served(k)

\* An answer that has the order as it is.
OrderListed == \E p \in Polls : ListAnswered(p) /\ shown' = db

\* Every read ends; the interval always fires again, and of its reads not all
\* fail in the database; of the answers that have the order not all are lost.
PageSpec ==
  /\ PageInit /\ [][PageNext]_pageVars
  /\ \A p \in Polls : WF_pageVars(ListAnswered(p) \/ ListLost(p))
  /\ SF_pageVars(ReadsList) /\ SF_pageVars(OrderListed)

-----------------------------------------------------------------------------
PageTypeOK ==
  /\ db \in Values /\ shown \in Values
  /\ reading \in [Polls -> Values \cup {Nothing}]
  /\ clicked \in [Clicks -> Routed \cup Statuses \cup {Nothing}]

\* Once nothing changes the order any more, a page left open ends listing
\* anything older, however the answers overtake each other, and lists the order
\* as it is again and again; in between it may be empty, as a database that
\* fails is answered with the empty list.
PageCatchesUp ==
  <>[][UNCHANGED db]_pageVars => <>[](shown \in {db, "absent"}) /\ []<>(shown = db)
=============================================================================
