------------------------------- MODULE Alarms -------------------------------
(***************************************************************************)
(* AlarmsService with its two pages (frontend/src/pages/Alarms.tsx and the *)
(* alarms of Dashboard.tsx) and the listener that sends a dispatched alarm *)
(* out.  The requests are those of RowRequests; dispatch is the one that   *)
(* saves twice, and tells the event bus in between.  A job says where it   *)
(* is from: the page that a browser has open, or another client.           *)
(***************************************************************************)
EXTENDS Naturals, FiniteSets

CONSTANTS
  AlarmIds, Slots,
  MqttAlarms,  \* alarms whose channel is mqtt; the other channels only log
  PostBodies, PatchBodies, \* bound: what clients say in a POST and in a PATCH
  Absent

VARIABLES
  rows, used, pc, job, mem, loaded, saved, outcome,
  notifying,   \* alarms whose MQTT notification is being saved
  page,        \* the page that is open: "alarms" or "dashboard"
  shown,       \* shown[a]: how it lists alarm a
  coming,      \* the list on its way to it
  selected,    \* the ticks of the page "alarms"
  emitted,     \* history: alarms handed to the event bus
  claimed,     \* history: alarms that a client's own body called sent
  settled,     \* history: alarms that were acknowledged while nobody held them
  gone         \* history: alarms that were acknowledged or deleted at some time

requestVars == <<pc, job, mem, loaded, saved, outcome>>
alarmPageVars == <<page, shown, coming, selected>>
historyVars == <<emitted, claimed, settled, gone>>
alarmVars == <<rows, used, requestVars, notifying, alarmPageVars, historyVars>>

\* The columns the handlers change: acknowledged and delivery_status.  That of
\* acknowledged_at is with the page that goes by it.
Deliveries == {"pending", "sending", "sent", "failed"}
AlarmRows == [acked : BOOLEAN, delivery : Deliveries]

\* What a body says of these columns: nothing stops a client from naming any status,
\* and a PATCH may acknowledge or take the acknowledgement back.  A POST that names
\* no status means "pending".
Posts == [delivery : Deliveries]
Patches == [delivery : Deliveries \cup {"keep"}, ack : {"keep", "set", "clear"}]

\* handler says which of the service's methods runs.
AlarmPages == {"alarms", "dashboard"}
Clients == {"page", "api"}
AlarmJobs ==
  [op : {"edit"}, handler : {"acknowledge"}, id : AlarmIds, from : Clients]
  \cup [op : {"edit"}, handler : {"update"}, id : AlarmIds, from : {"api"}, body : PatchBodies]
  \cup [op : {"edit"}, handler : {"dispatch"}, id : AlarmIds, from : {"api"}]
  \cup [op : {"new"}, handler : {"create"}, id : {Absent}, from : {"api"}, body : PostBodies]
  \cup [op : {"delete"}, handler : {"remove"}, id : AlarmIds, from : Clients]
BulkJobs == [op : {"bulk"}, handler : {"bulkAcknowledge"}, id : SUBSET AlarmIds, from : Clients]

\* How a page lists an alarm.
Listings == [AlarmIds -> {"no", "active", "acked"}]
NothingListed == [a \in AlarmIds |-> "no"]

ASSUME AlarmsAssumption ==
  /\ MqttAlarms \subseteq AlarmIds /\ PostBodies \subseteq Posts /\ PatchBodies \subseteq Patches
  /\ Absent \notin AlarmRows \cup AlarmJobs \cup BulkJobs \cup Listings

NewAlarm(j) == [acked |-> FALSE, delivery |-> j.body.delivery]

\* create has nothing to look for.
NothingBlocks(j, table) == FALSE

SavesOf(j) == IF j.handler = "dispatch" THEN 2 ELSE 1

RefusesAlarm(j, e) == j.handler = "dispatch" /\ e.acked

\* Object.assign, then the acknowledgement.
Patched(b, e) ==
  [acked |-> b.ack = "set" \/ (b.ack = "keep" /\ e.acked),
   delivery |-> IF b.delivery = "keep" THEN e.delivery ELSE b.delivery]

\* A bug a PATCH could have: acknowledged follows the body, present or not.
EditAlarm_FromBody(j, n, e) ==
  CASE j.handler = "dispatch" -> [e EXCEPT !.delivery = IF n = 1 THEN "sending" ELSE "sent"]
    [] j.handler = "update" -> [Patched(j.body, e) EXCEPT !.acked = j.body.ack = "set"]
    [] OTHER -> [e EXCEPT !.acked = TRUE]
\* A bug: dispatch marks the alarm as sent before it is handed over.
EditAlarm_SentFirst(j, n, e) ==
  CASE j.handler = "dispatch" -> [e EXCEPT !.delivery = "sent"]
    [] j.handler = "update" -> Patched(j.body, e)
    [] OTHER -> [e EXCEPT !.acked = TRUE]
EditAlarm(j, n, e) ==
  CASE j.handler = "dispatch" -> [e EXCEPT !.delivery = IF n = 1 THEN "sending" ELSE "sent"]
    [] j.handler = "update" -> Patched(j.body, e)
    [] OTHER -> [e EXCEPT !.acked = TRUE]

FromPage(j) == j.from = "page"

Table == INSTANCE RowRequests WITH
  Ids <- AlarmIds, Jobs <- AlarmJobs \cup BulkJobs,
  Rows <- AlarmRows, Entities <- AlarmRows, Saves <- SavesOf, Edited <- EditAlarm, Refuses <- RefusesAlarm,
  Fresh <- NewAlarm, Blocks <- NothingBlocks,
  Heard <- FromPage, LaxDelete <- FALSE

AlarmInit ==
  /\ Table!Init
  /\ notifying = {} /\ page \in AlarmPages /\ shown = NothingListed
  /\ coming = Absent /\ selected = {}
  /\ emitted = {} /\ claimed = {} /\ settled = {} /\ gone = {}

Acked(table) == {a \in AlarmIds : table[a] # Absent /\ table[a].acked}

\* A PATCH that takes an acknowledgement back, and one that says "sent".
TakesBack(j) == j.handler = "update" /\ j.body.ack = "clear"
SaysSent(j) == j.handler = "update" /\ j.body.delivery = "sent"

\* The histories follow the table and the handlers that work on it.  An
\* acknowledgement that somebody takes back on purpose is no longer settled.
Recorded ==
  /\ settled' = {a \in settled \cup Acked(rows') : \A s \in Slots :
                   Table!Holds(s, a)' => a \in settled /\ ~TakesBack(job'[s])}
  /\ claimed' = claimed \cup {a \in used' \ used : rows'[a].delivery = "sent"}
                        \cup {a \in AlarmIds : \E s \in Slots : Table!Holds(s, a)' /\ SaysSent(job'[s])}
  /\ gone' = gone \cup Acked(rows') \cup {a \in used : rows'[a] = Absent}

Unrelated == UNCHANGED <<notifying, alarmPageVars, emitted>>

-----------------------------------------------------------------------------
(* The pages. *)

\* The lists that GET /alarms, and GET /alarms/active for the dashboard, may give.
\* The page "alarms" goes by acknowledged_at, which bodies set and clear apart from
\* acknowledged, but which no row has that was never acknowledged.
ListsFor(p) ==
  {l \in Listings : \A a \in AlarmIds :
     IF rows[a] = Absent \/ (p = "dashboard" /\ rows[a].acked) THEN l[a] = "no"
     ELSE l[a] = "active" \/ (l[a] = "acked" /\ p = "alarms" /\ a \in gone)}
AsksList(p) == coming = Absent /\ coming' \in ListsFor(p)
TableUntouched == UNCHANGED <<rows, used, requestVars, notifying, historyVars>>

\* On mounting a page reads its list; nothing tells it of later changes, as no code
\* broadcasts on its topic.  Bound: it is not left while it awaits an answer.
OpenPage(p) ==
  /\ \A s \in Slots : job[s] # Absent => ~FromPage(job[s])
  /\ page' = p /\ AsksList(p) /\ shown' = NothingListed /\ selected' = {}
  /\ TableUntouched

\* The dashboard's refresh button.  Bound: one list on its way.
Refresh ==
  /\ page = "dashboard" /\ AsksList(page)
  /\ UNCHANGED <<page, shown, selected>> /\ TableUntouched

\* The list replaces what is shown; of a GET that failed the dashboard makes an
\* empty list, the page "alarms" nothing.
AlarmListLands ==
  /\ coming # Absent /\ coming' = Absent
  /\ shown' \in {coming, IF page = "dashboard" THEN NothingListed ELSE shown}
  /\ UNCHANGED <<page, selected>> /\ TableUntouched

\* toggleSelect; selectAll clears the ticks when there are as many as alarms listed.
Ticks ==
  /\ page = "alarms"
  /\ LET listed == {a \in AlarmIds : shown[a] # "no"} IN
     \/ \E a \in listed : selected' = (selected \ {a}) \cup ({a} \ selected)
     \/ selected' = IF Cardinality(selected) = Cardinality(listed) THEN {} ELSE listed
  /\ UNCHANGED <<page, shown, coming>> /\ TableUntouched

\* What a page can ask for: Ack of an alarm it lists as active, which is all the
\* dashboard has; on the page "alarms" the deletion of one it lists and the ticked
\* ones in bulk.
AckClickable(j) == j.handler = "acknowledge" /\ shown[j.id] = "active"
AlarmClickable(j) ==
  \/ AckClickable(j)
  \/ j.handler = "remove" /\ page = "alarms" /\ shown[j.id] # "no"
  \/ j.handler = "bulkAcknowledge" /\ j.id = selected /\ selected # {}

MarkedAcked(j) == IF j.op = "bulk" THEN j.id ELSE IF j.handler = "acknowledge" THEN {j.id} ELSE {}

\* handleAcknowledge, handleBulkAcknowledge, handleDelete and the dashboard's ackAlarm
\* after their await: an error changes nothing, a success the list as it is by then.
PageHears(j, ok) ==
  shown' = [a \in AlarmIds |->
    IF ~ok THEN shown[a]
    ELSE IF shown[a] = "no" \/ (j.handler = "remove" /\ a = j.id) THEN "no"
    ELSE IF a \in MarkedAcked(j) THEN "acked" ELSE shown[a]]

AlarmAnswered(s) ==
  LET j == job[s] ok == outcome[s] = "ok" IN
  /\ Table!Delivered(s)
  /\ PageHears(j, ok) /\ selected' = IF j.op = "bulk" /\ ok THEN {} ELSE selected
  /\ UNCHANGED <<page, coming>>
  /\ UNCHANGED <<notifying, historyVars>>

-----------------------------------------------------------------------------
(* The service. *)

AlarmRequest(s) ==
  /\ \E j \in AlarmJobs :
       /\ FromPage(j) => AlarmClickable(j)
       /\ Table!Finds(s, j) \/ Table!Looks(s, j) \/ Table!Deletes(s, j)
  /\ Recorded /\ Unrelated

\* bulkAcknowledge: one UPDATE of the alarms that are not acknowledged yet, or none.
BulkAcknowledge(s) ==
  /\ \E j \in BulkJobs :
       /\ Table!Begins(s, j, "bulk") /\ (FromPage(j) => AlarmClickable(j))
       /\ \/ /\ rows' = [a \in AlarmIds |-> IF a \in j.id /\ rows[a] # Absent
                                            THEN [rows[a] EXCEPT !.acked = TRUE] ELSE rows[a]]
             /\ Table!Confirmed(s, j)
          \/ UNCHANGED rows /\ Table!Answer(s, j, "error")
  /\ UNCHANGED used /\ Recorded /\ Unrelated

\* Between the two saves of dispatch its listener is called: the channel mqtt
\* starts to save a notification, email and push only log, in_app does nothing.
AlarmSaveStep(s) ==
  /\ \/ Table!Inserts(s) \/ Table!SaveLoads(s) \/ Table!SaveWrites(s) \/ Table!Fails(s)
  /\ IF saved'[s] > saved[s]
     THEN /\ emitted' = emitted \cup {job[s].id}
          /\ notifying' = notifying \cup ({job[s].id} \cap MqttAlarms)
     ELSE UNCHANGED <<emitted, notifying>>
  /\ Recorded /\ UNCHANGED alarmPageVars

\* The notification is saved and published, if the gateway is connected.
NotificationSaved ==
  /\ \E a \in notifying : notifying' = notifying \ {a}
  /\ UNCHANGED <<rows, used, requestVars, alarmPageVars, historyVars>>

\* Its save fails: nobody awaits the listener, so the rejection ends the process,
\* and with it every request.  A restart for any other reason does the same.
AlarmRestart ==
  /\ notifying # {} \/ \E s \in Slots : pc[s] \in Table!Waiting
  /\ Table!LosesHandlers /\ notifying' = {}
  /\ UNCHANGED <<rows, used, alarmPageVars, emitted>> /\ Recorded

AlarmNext ==
  \/ Refresh \/ AlarmListLands \/ Ticks \/ \E p \in AlarmPages : OpenPage(p)
  \/ NotificationSaved \/ AlarmRestart
  \/ \E s \in Slots : \/ AlarmRequest(s) \/ BulkAcknowledge(s) \/ AlarmSaveStep(s)
                      \/ AlarmAnswered(s)

AlarmSpec == AlarmInit /\ [][AlarmNext]_alarmVars

-----------------------------------------------------------------------------
AlarmTypeOK ==
  /\ Table!TypeOK
  /\ notifying \subseteq MqttAlarms \cap used
  /\ page \in AlarmPages /\ shown \in Listings /\ coming \in Listings \cup {Absent}
  /\ selected \subseteq AlarmIds
  /\ emitted \subseteq used /\ claimed \subseteq used /\ settled \subseteq used /\ gone \subseteq used

\* An acknowledgement that stood while no request held the alarm is lost only to a
\* PATCH that takes it back, never to a stale save: only a handler that read the row
\* before it can write the old flag back.
AckHolds == \A a \in settled : rows[a] = Absent \/ rows[a].acked

\* An alarm that no client calls sent itself is marked as sent only after the event
\* bus was told of it, whatever crashes, stale saves and re-insertions happen around
\* the two saves of dispatch.
SentWasEmitted ==
  \A a \in AlarmIds :
    rows[a] # Absent /\ rows[a].delivery = "sent" => a \in emitted \cup claimed

\* What a page lists as acknowledged was acknowledged, or deleted, by then: no
\* failed, overtaken or partial answer of a click, and no list that was read
\* before and lands later, shows more.
ShownAckHappened ==
  \A a \in AlarmIds : shown[a] = "acked" => a \in gone
=============================================================================
