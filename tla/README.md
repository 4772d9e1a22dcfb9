# Verification of mes-app

TLA+ models, TLC runs and TLAPS proofs for the manufacturing execution system in
`src/` (a NestJS backend, a React frontend, a PLC simulator). Definitions are
translated from the TypeScript source; `PROJECT.json` maps each one to its lines.

## The system

| Component | State it keeps | Operations | Talks to |
|---|---|---|---|
| SPS dispatcher (`orders/sps-dispatcher.service.ts`) | `isProcessing`, `dispatchQueue`, one listener and one timer per handshake | `dispatch`, xStart listener | OPC UA service, carriers table; called by orders, the trigger route |
| OPC UA service (`opcua/opcua.service.ts`) | `stations` (client, session, nodes), `eventListeners` | connect, discovery, reload, data changes, `writeField` | PLCs, dispatcher, edge controller |
| Orders (`orders/orders.service.ts`) | orders table | create, PATCH, status routes, delete, advance-step | dispatcher, carriers |
| Carriers (`orders/carrier.service.ts`) | carriers table | create, update, advance, remove; handshakes save flags | database |
| Machines (`machines/machines.service.ts`) | machines table | create, update, heartbeat, remove, CSV import | database |
| Shifts (`notifications/shift.service.ts`) | shifts table | open, close, remove | database |
| Alarms (`alarms/`), notification listener and senders | alarms, notifications | create, update, acknowledge (one or many), dispatch, remove | event bus, MQTT |
| Authentication (`auth/`) | users table | register, bootstrap, login | login screen |
| MQTT gateway, edge controller (`opcua/`) | client, two timers, stored configuration | configure, connect, reconnect, import orders, stations' configuration and reload | broker, orders table, pages |
| Event bus, edge WebSocket gateway (`events/`) | clients, heartbeats | subscribe, emit, broadcast | browsers |
| Frontend pages (`frontend/src/pages/`) | what each page lists, edits and has under way | clicks, polling, WebSocket | HTTP API |
| Simulator (`simulator/src/index.ts`) | a state machine and its timers per station | tick, command | OPC UA |
| Materials and machine errors, alert rules, data collection, traces, dashboard | their tables | CRUD, aggregate queries | database |

Everything in the backend is one Node process: a callback runs alone, and other
work runs at every `await`. The hard behaviours are therefore

* a decision taken on a row, an awaited call, and a save of the row read before;
* a handshake with a PLC that may answer early, late, for another carrier, or
  never, against a timer that nobody clears;
* events of all stations delivered to all listeners;
* overlapping reloads of the stations, and a restart in the middle of anything;
* pages that act on a list they read some time ago, and whose answers overtake
  each other.

What makes the components correct:

* dispatcher: one handshake at a time for the plant, its writes not mixed with
  another's, every path gives the flag, the listener and the result back, the
  answer belongs to the station that was asked;
* stations: what says connected has an open session of its own, a reload applies
  what was saved, sessions leak only where the code lets reloads overlap;
* orders: the status moves along the table, the step counter counts no
  advance-step that the database did not execute, a deleted order stays deleted,
  every request ends;
* carriers, shifts, machines: the checks before an insert hold except in the races
  they leave open, a fault mark is not lost, an import accounts for its rows;
* alarms: an acknowledgement is lost to nobody who did not take it back, "sent" was
  handed over or said by a client;
* accounts: an ok answer stays true;
* gateway and pages: one live client, no reconnection against the operator's wish,
  one switch for automatic creation, no importer takes a message twice, a page shows
  what happened and comes to show what is;
* line and sockets: a dead client is dropped, a station becomes ready again.

## Modules

| Module | What it is |
|---|---|
| `HandshakeLock` | abstract: what `dispatch` promises its callers (admit, refuse, settle, lose) |
| `SpsDispatcher` | the dispatcher with the OPC UA events, writes and reloads around it; refines `HandshakeLock` |
| `OrderWorkflow` | abstract: an order moves along a table of transitions |
| `Orders` | `OrdersService` under concurrent requests; EXTENDS `HandshakeLock` for its calls of `dispatch`, so what it assumes of the dispatcher is what `SpsDispatcher` is shown to implement |
| `MqttGateway` | the MQTT client of the edge gateway, its configuration file and its two reconnect timers |
| `WebshopOrders` | order messages and the auto-create switch in the gateway and in the browser pages; EXTENDS `MqttGateway`, whose steps are steps of it |
| `Stations` | the OPC UA sessions: `initStations`, `connectStation`, `reloadStations`, the stored list; the specification its editors implement |
| `StationEditor` | the configuration tab of `Edge.tsx` in several pages; EXTENDS and implements `Stations` |
| `RowRequests` | what every CRUD service does with one table under concurrent requests; INSTANCEd by the next four |
| `Alarms`, `Carriers`, `Shifts`, `Machines` | the services, each with its pages |
| `ListPage` | a page that lists a table; INSTANCEd by `Carriers` and `Machines` |
| `Users` | register, bootstrap and login, with the login screen |
| `OrdersPage` | the polled orders page with its menu |
| `LiveFeed` | the browser sockets and their heartbeat |
| `Simulator` | one simulated station |
| `Services` | the services that share no state, side by side: stations with editors, accounts, alarms, carriers, shifts, machines |
| `Timers` | orders, and what an interval keeps going: orders page, heartbeat, simulator |
| `SpsDispatcherProofs`, `OrdersProofs` (with `Timers`), `WebshopProofs` (with `MqttGateway`), `AlarmsProofs`, `UsersProofs`, `StationsProofs`, `RowRequestsProofs` (lemmas), `ServicesProofs` | inductive invariants and theorems |
| `MCSpsDispatcher`, `MCOrders`, `MCMqttGateway`, `MCWebshop`, `MCServices`, `MCTimers` | instances for TLC of one module each |

`Services` and `Timers` hold several specifications. A variable `part`, chosen
at the start, says which one a behaviour is of, and the variables of the others
stay as they began: one run per question, not a product of unrelated states.

### SpsDispatcher and the code

`pc[c]` names the `await` of `dispatch` at which call `c` is: `resolve` (the
carrier lookup), `query` and `queried` (the xQryBusy write sent, executed),
`await` (the promise of `waitForStMesAck`), `write` (the writes of step 4, the
ones still to be made in `plan[c]`), `save` and `saved` (the database has executed the
save, its confirmation is under way: it may still fail). `isProcessing`, `dispatchQueue` and
`listeners` are the fields of the services; `timers` are the armed `setTimeout`s,
which the code never clears, so a timer outlives its handshake (`LateTimer`).
`up` is the state of an entry of the `stations` map, `notes` the data changes
that are on their way to `handleDataChange`. `plc` holds what something here
reads of a station's block. `Reboot` is a restart of the process: memory is lost,
`rows` and `plc` stay.

The lookup by identifier is three functions of the identifier (`ById`, `ByName`,
`ByDigits`): an order id that is not a carrier may resolve, by its digits, to any
carrier. A station id of 0 is `FalsyStation`: `stationId &&` turns the filter of
the listener off. `AsyncReads` chooses whether `session.readValue` returns a
value or a promise (the code treats it both ways: `nodeExists` awaits it,
`aggregateStMesData` does not); with a promise every field is truthy.
Whether a write succeeds depends on the session and, with `WritesMayFail`, on
the PLC; the PLC may have executed a write whose confirmation fails.

External, modelled from how the code uses it: the PLC (arrivals, xDone set and
cleared, at any time), the OPC UA library, the database, the process itself.

### Orders and the code

A request is at `dispatch` (the order is read and validated, the carrier looked
up), `dispatching` (awaiting the dispatcher), `save` and `write` (TypeORM's
`save` reads the row again, then writes the columns that differ, or inserts the
entity if the row is gone), and `written` (the database has executed that, its
confirmation is under way). `DatabaseFails` ends a request in any of them, so a save
may be in the table although its request failed; a restart may lose the answer
likewise. `mem[r]` is the entity the handler holds. The three
families of requests are one operation record `[kind, to, qty]`: `patch`
(`update`), `route` (`changeStatus`), `advance` (`advanceStep`). `advances`
is a history variable: the advance-steps the database has executed, whether or not they
were answered. The columns are those a rule depends on: status,
`start_time` and `end_time` as set or not, `completed_quantity`, the flags that
are true, `next_step_no`.

### MqttGateway, WebshopOrders and the code

`client` is `this.client`; `link[c]` is what the mqtt library does for a client
object: `connecting` (it tries and, after a loss, tries again), `open`, `ending`
(after `end(false)`, until its close event) and `free`. The handlers of an object
stay registered after `end`, so `Closes` of a former client writes the status of
its successor: the status may say "not connected" while a connection is there,
never the reverse (`ConnectedIsReal`). `setMqttConfig` and `connectToBroker`
`await` only settled promises before the new client is in place, so each is one
action; the 10 s wait afterwards only delays the answer. Name and password are
one value of `Users`; fields are left out (`None`) or not empty. Three behaviours
of the code that the model shows and no property forbids: a disconnect in the
first 8 s is undone when the boot timer fires (`wish` therefore records it only
later); a change of credentials without a URL forgets the stored URL; a stored
URL that cannot be parsed keeps the backend from starting.

In `WebshopOrders` a page has two switches, `ref[t]` (`autoCreateRef`, which
decides) and `box[t]` (`autoCreateOrder`, which is shown); both start as TRUE.
`wire[t]` is the WebSocket towards the page, in order; HTTP requests
(`toggles`, `imports`) overtake each other and the WebSocket, and an answer may be lost
after the request had its effect (`ToggleAnswered`, `ImportAnswered`). The page never
reopens its socket (`deaf`). `trust` is a history variable: the gateway has
confirmed `ref[t]`, by news or by a POST of that value that arrived while the page
was connected. A page that is closed is a page nobody uses any more.

### Stations, StationEditor and the code

`env` and `file` are the two places of the list of connections:
`process.env.OPC_UA_STATIONS` and `opcuastations.json`. A save writes both, a read
takes the environment first, and a restart brings back the environment of the
deployment (`deployed`) and does not look at the file. `run[r]` is a run of
`initStations`, at start (`Boot`) or by a reload: `todo` are the connections
still to do, `at` the one being connected, `client` its `OPCUAClient`. Between the
steps `Dials`, `OpensSession`, `Discovers`, `Registers` other runs go on.
`link[k]` is what the PLC has of a client object; `ReloadBegins` closes what the map
has at that moment and nothing else, so an attempt that fails after the dialling
(`leftover`) and a run that is overtaken keep their clients. `OPCUAClient.create` is
called outside the `try`, so an exception there breaks the run off (`RunBreaksOff`) without
a failed entry for its connection or any for those after it (`unreached`). `buildNodeIds` takes the
first of its candidates, so the result of the discovery decides nothing (`NodeIds`).
The routes open only when `onModuleInit` has returned (`Serving`).

`editing[t]` is the copy of page `t`; a save sends the whole copy. A new connection
gets one more than the largest id of the copy (`IsNewId`). Save stays enabled, so
a save and a reload of one page, and those of two, may cross.

### RowRequests, the four services and the code

`pc[s]` is the `await` at which request `s` is: `insert`, `save` (the SELECT of
TypeORM's `save`) or `write` (its UPDATE of the columns in which the entity in
memory, `mem[s]`, differs from the row just read, `loaded[s]`; or its INSERT when
there was none). Every statement may fail, before or after the database executed
it; `answered` is an answer on its way to a page that will act on it, the answers
nobody acts on are dropped. `Written` and `Insertable` are what TypeORM does with
partial entities and with a row that went or came back in between.

`Alarms`: `dispatch` is the job with two saves; between them the listener is called
(`emitted`) and, for the channel mqtt, saves a notification (`notifying`). Nobody
awaits the listener: its rejection ends the process (`AlarmRestart`). A bulk
acknowledgement is one UPDATE. Bodies are not validated (the DTOs are types only), so a
POST may name any `delivery_status` and a PATCH any, and set or clear the
acknowledgement (`Posts`, `Patches`). Pages are the alarms page, with ticks and deletion,
and the dashboard, which makes an empty list of a GET that fails. The alarms page goes by
`acknowledged_at`, which a body may set or clear apart from `acknowledged`: `ListsFor` lets
it list as acknowledged any alarm that ever was, and any as active. `Carriers`: a handshake
is the request that holds a row longest and saves `handshake_flags` alone. That is one
jsonb column, which a save writes whole or not at all: `Flags` is the fault mark with the
rest of the object. `Machines`: `updateHeartbeat` is one UPDATE; an import
inserts row by row and counts; a row may be in the table and counted as an
error. `Shifts`: one day. `ListPage`: the list on its way (`fetching`) may land
after the answer to a deletion it does not know of, and then shows the deleted row
again (`Machines.tsx:50-55, 74-78`): such rows are `late`, and `overtaken` once the list
is shown. `told` are the rows a page was told are deleted.

History variables: `settled` (acknowledgements that stood while nobody held the
alarm, and that nobody took back since), `claimed` (alarms a client's own body called
sent), `gone`, `emitted`, `excused` and `raced` (races that the checks of `create`
leave open), `marked`, `inserted`, `told`, `overtaken`, `unreached`, `accepted`, `bootstrapped`, `lastSaved`,
`applied`, `overlapped`.

### Users and the code

`register` and `bootstrap` look for a name (`find`) and insert it later (`insert`); the
column is unique in the database, so the second insert of a race is an error.
`bootstrap` does the two default accounts one after the other. The screen sends one
request at a time but its mode buttons stay enabled, so an answer may find another
screen than the one it was sent from. Passwords are values: hashing is bcrypt's.

### OrdersPage, LiveFeed, Simulator and the code

`OrdersPage`: the menu of `TRANSITION_MAP` posts paths of which `OrdersController` has
only `release`; the other clicks are answered 404 and change nothing. `reading[p]` is
an answer on its way; the interval starts another read whether or not the last one
has come back. `findAll` catches the error of the database and answers 200 with an empty
list, which the page shows (`ReadsEmpty`, `orders.service.ts:51-54`, `Orders.tsx:26`); an
answer that does not come back leaves what it shows (`ListLost`). `LiveFeed`: `pinged` and `ponged` are the frames under way; a socket
may vanish without a close event. `Simulator`: a tick is half a cycle;
`cycleTimers` are the ages of the timers that Processing starts at every tick and
nothing cancels; a tick starts at most one, so that no two have the same age.

## Runs

Sizes are those of the configurations in this directory.

| Run | Instance | Shows |
|---|---|---|
| `dispatch_two_stations` | 2 calls, 2 stations, 2 carriers, 1 disturbance, 2 PLC moves, writes may fail | answers come from the own station; writes of two calls never mix; `LockSafety`: the dispatcher implements `HandshakeLock` |
| `dispatch_one_station` | 2 calls, 1 station with a falsy id, promises as values, fairness | the flag and the listeners are exact on every path; no late timer, event, reload or other caller cuts a handshake short; results are final; every handshake ends; `LockFairness`: the fair lock |
| `orders_concurrent` | 3 requests at a time on 1 order, every kind of operation (the statuses below), the database failing before or after it executes a save, fairness | no advance-step is counted that was not executed, handshake before save, no late resurrection, every request ends |
| `orders_serial` (`MCTimers`) | 3 requests, one at a time, PATCH and advance; a page with 2 reads and 1 click under way; 2 sockets; 1 simulated station; fairness | refinement of `OrderWorkflow` with the table plus release from anywhere; a page left open ends showing anything older than the order, and shows it as it is again and again, empty in between when the database fails; every dead socket leaves the map; the station becomes ready again and again |
| `backend_services` (`MCServices`) | stations: 2 ids, 3 clients, 2 pages, 4 clicks; accounts: 2 names, 2 passwords, 2 requests; 1 alarm, 2 requests, POSTs that say pending or sent, PATCHes that say sent or take an acknowledgement back; carriers: 2 rows, 2 names, 2 requests; shifts: 2 rows, 1 type, 2 requests; machines: 2 rows, 1 request and 1 import of up to 2 rows | the invariants of the services, below |
| `mqtt_gateway` | 4 client objects, 4 URLs (start, default, another, one that cannot be parsed), credentials or none, 3 requests or restarts | one live client; an honest status; timers respect the operator; file and status agree |
| `edge_intake` | 2 pages, 1 message, 2 switches or clicks, 1 restart or broker request, 1 client object | settled pages have the gateway's switch; no importer (the gateway, a page, a click) makes two orders of a message; that gateway and page together do is `broadcast_creates_orders` |
| `ack_of_other_carrier` | 1 station, no disturbance | violation: the xDone of another carrier answers a handshake, which then goes through step 4 and ends in success (`sps-dispatcher.service.ts:155`) |
| `xstart_ignored` | the same | violation: no xStart starts a handshake (`docs/mvp-konzept.md:180`) |
| `parameters_as_booleans` | the same | violation: parameters arrive as booleans (`docs/mvp-konzept.md:201`) |
| `broadcast_creates_orders` | 2 pages, 1 message, 1 switch | violation: an order the gateway keeps for manual creation is created without a click (`mqtt-gateway.service.ts:229`) |
| `stale_validation` | 2 PATCHes at a time | violation: a forbidden transition (`orders.service.ts:69`) |

What `backend_services` checks: `AckHolds` (a settled acknowledgement is not lost to
a stale save; only a PATCH that takes it back clears it), `SentWasEmitted` (whatever
crashes between the two saves, "sent" means handed over, unless a client's own body said
it: the service writes what a POST or PATCH names), `PagesShowWhatHappened` (an alarms page
lists as acknowledged only what was; a row a page was told is deleted comes back on it only
with a list that its deletion overtook, and leaves it with the next), `OnlyRacesDuplicate` (two carriers of one name, or two open shifts of one type,
come only from the races of `create`, renames and re-insertions), `MarkSurvives` (a
fault mark survives the handshakes and PATCHes that start later), `ImportAccounts`,
`OnlyOverlapLeaks`, `ReloadTakesEffect` and `EntriesAreOpen` (sessions and reloads), and
`AnswersStayTrue` (accounts).

Bounds. `MaxDisturbances` counts restarts, reloads and foreign edits of the
carriers table; one is enough to hit any stage of the running handshake, and the
second call then meets what it leaves behind. `MaxMoves` counts what the PLCs do
of their own accord: two let one set and clear xDone, or bring a carrier and
acknowledge. Two calls suffice for exclusion, since a third is turned away like
the second; the theorems hold for any number. `MaxInFlight` is the number of
requests under way: three let a stale save meet a deletion and a re-insertion.
`AllOps` leaves out PATCHes to pending, on_hold and cancelled and the routes to released and
cancelled, which validate, dispatch and save as others do that it has; the theorems have
every operation. In `MCTimers` three requests, one at a time, suffice to
create, change and delete an order.
The exit of the process on a data change without a
session (`CrashOnNull`) is not counted: the code does that to itself. `MaxOps`
counts requests of operators and restarts of the gateway: three let a connect, a
disconnect and a change of configuration overlap the closing of the clients they
end, and `Clients` is one more than the clients they can leave behind. `MaxUses`
counts switches and clicks on pages: two let two pages switch at once,
and the theorem about the switches holds for any number.
A call is made at most once, so behaviours end: `CHECK_DEADLOCK FALSE`.

In `backend_services`, two `Slots` let one request read, another write, and the first
save what it read; the second carrier name lets one be renamed while another takes
the name it had. `MCBound` looks at one thing of the carriers at a time (`OneInUse`): the
second name, their page, or their flags, these with one carrier; and of an alarm that a
client called sent neither at its page nor at a PATCH that takes an acknowledgement back
(`MoreThanSent`). The theorems have no such bounds. Each slot is free
again after its request, so the number of requests in a behaviour is not bounded, while
`Ids` bounds the rows ever created: two let a row be there beside one that is deleted, or
two of one name. `MaxClicks` of four let
two pages change the list, save and reload, or save, reload and restart; three
`Sessions` let two runs dial while a failed attempt keeps its client. The theorems
about all of these services hold for any number of each.
`FileRows` is 2: one row goes in, the other fails. In `MCTimers` two reads under way
overtake each other, and two sockets let one be dropped while the other answers.
The parts may stop when nobody asks for anything more, or when their ids are used up:
`CHECK_DEADLOCK FALSE`.

Fairness. `SpsDispatcher`: weak fairness of each call's own awaits (`Progress`):
the database and the OPC UA library answer or fail, and timers fire. Nothing is
assumed of the PLC, of data changes or of callers. `Orders`: weak fairness of the
awaits of each request, the handshake's end among them; that is what
`DispatchReturns` and `LockFairness` show of the dispatcher. `OrdersPage`: each read ends,
answered or lost (weak); the interval fires again and again and of its reads not all fail
in the database (strong fairness of `ReadsList`), and of the answers that have the order as
it is not all are lost (strong fairness of `OrderListed`; without the two a page whose every
GET fails shows an empty or its first list for ever). `LiveFeed`: only the heartbeat's interval (weak), no close events, no pongs.
`Simulator`: intervals and timers fire; clients that watch the station raise a signal
that is down, again if somebody takes it down, and a tick meets the signal (strong
fairness of `Starts`, `Acknowledged`, `ErrorReset`); the error, drawn with a
probability below one, is not drawn for ever. `TimersSpec` asks the same of the parts
that are at work.

## Proofs

All theorems hold for every value of the constants that meets the assumptions
`NoneIsNoCall`, `DispatcherAssumption`, `OrdersAssumption`, `GatewayAssumption`,
`WebshopAssumption`, `AlarmsAssumption`, `UsersAssumption`, `StationsAssumption` and
`EditorAssumption`, which say only that `None`, `Absent` and `Nobody` are no id and no
record of the module, that the constants have their types, that the two default brokers
have a URL that can be parsed, that the default accounts are among the names, and that
finitely many pages are open. A theorem that asks for more says so in its statement
(`Serial`, `Lidded = {}`, below).

`SpsDispatcherProofs`. The inductive invariant `Inv` is types (with `Loaded`: a
call past the lookup has a carrier in memory, a call in step 4 has something to
write), `ListenerOwned` and `HandshakeExclusive`. Types alone are not inductive
(`Head(plan[c])` and the carrier in memory are needed by the actions), and
exclusion needs the listeners: an event wakes every call that has one, and only
because a listener implies `pc = "await"` does it wake no call that has ended.
From `Inv` follow the action properties `NeverCutShort` and `ResultsAreFinal`,
`AckFromOwnStation` (with `Target` unchanged between listening and saving),
`WritesContiguous` (with `WireOrder`: calls that have written and are still
running wrote last) and the refinement `LockSafety`, one lemma per action.

`OrdersProofs`. `Inv` adds to the checked invariants `Carried` (a request that is
under way holds an entity whose step is covered by the executed advance-steps, one
more if it is an advance-step still to be executed) and `Born` (rows and held
entities belong to ids that were created). `NoInventedSteps` needs `Carried`
because any stale entity may be inserted again; `NoLateResurrection` needs the
locals of ended requests to be cleared.

With `Serial` (a request arrives only when none is under way, and none is a status
route, which the table does not govern) the same module proves
the refinement of `OrderWorkflow` (`SerialRequestsFollowTheTable`) and that every change of a
status is one of the table or the unvalidated release (`SerialPatchesAreValidated`). The
invariant is `Alone`: at most one request is under way, the table allows it for the row as
it is now, and the entity it holds is that row with the operation applied. The run
`stale_validation` shows that the second statement is false without `Serial`: the overlap
of two requests is the whole cause. `TimersTypeCorrect` is the types of what
runs beside the orders: the timers of the simulator are ages between two bounds, and no
path of the page's menu that has a route leads outside the statuses.

`WebshopProofs`, the gateway. `Inv` adds `NoTimerLeft` to
the properties: a disconnect that holds has left no timer, without which
`DisconnectHolds` is not inductive. `OneLiveClient` carries the rest: an event can
only come from `this.client` or from a client that is ending.

`WebshopProofs`, the pages. `SwitchInv` says, of each page, that
the last news of the switch on its wire is the gateway's value (`LastNews`) and
that a page without news on its wire either has that value or has a POST of its
own value under way (`Confirmed`); `SyncedTabsAgree` alone is not inductive,
since a POST of another page may arrive at any time. `WebshopTypeCorrect` has to know
what the recursive function in `Without`, the filter of the list, returns: the proof
takes the shortest prefix for which it would not be a list of messages (`LeastNumber`, from
the well-foundedness of the naturals).

`MessagesAreNotReplayed` counts. `Budget(m)` says: orders made of `m`, and whatever can
still make one (the gateway's handler, its event on a wire, an import under way), are at
most one for the gateway, one for each page that can still import it by itself, and one
for each click. Every step moves a unit from one place to another: an event delivered is
a page that can import no longer and perhaps an import more, a handler that ends is an
order more or nothing. `OneHandler`, `OneEvent` and `OneImport` say that no unit is there
twice; a restart only loses units. That bounds replays by one importer and no more: the
gateway and a page may still make an order each of one message, as the bound says, and
`broadcast_creates_orders` shows that they do. `WithoutOwnImportsItWaits` is the same count for a message
the gateway leaves: where pages import nothing by themselves (`Lidded` is empty: no message
has the field `bDeckelfarbe` that `Edge.tsx:204` asks for), its orders and the clicks still
under way are at most the clicks made. The run `broadcast_creates_orders` shows it to be false
otherwise, so the import that a page starts itself is the whole cause.

`AlarmsProofs`. `AckHolds` is not inductive: any handler may hold an alarm as it was
before its acknowledgement. `SlotInv` says that nobody remembers a settled alarm
unacknowledged, neither in `mem` nor in `loaded` (an UPDATE writes only the columns in
which they differ), and that "sent" is held only of alarms that were emitted or `claimed`.
A PATCH that takes the acknowledgement back ends `settled` when it reads the alarm, not when
it saves: from then on it is no promise of the service.
`PagesKnow` says the same of the pages: a list under way, the ticks and an answer
under way show only what has happened; with it follows `ShownIsTrue`.

`UsersProofs`. `AnswersStayTrue` needs `AdminFirst`: a bootstrap that has come to its
second account has found or made the first, so that an ok answer means both.

`StationsProofs`. Every step of the editors is a step of `Stations` or a stutter
(`EditorImplementsStations`), and the other theorems are proved of both at once. `Inv` adds
`RunsAreSound` (a run that dials has a client of its own that no reload closes:
`EntriesAreOpen` holds even when reloads overlap), `SavedIsRead` (what was saved last
in this process is what the next reload reads) and, as long as nothing overlaps,
`OneByOne` (one run works through the list that is to be applied, and what it has done
is in the map). `ReloadTakesEffect` is `OneByOne` with nothing left to do.

`ServicesProofs`. Each step of `Services` is a step of the part at work
(`ServicesImplementEach`), so the invariants of `AlarmsProofs`, `UsersProofs` and `StationsProofs`
hold of it; the three tables left have their own, over the lemmas of `RowRequestsProofs` about
what one request may do to a row. `CarrierInv`: `ListInv` (a row the page was told is deleted
is on its list only if `overtaken`, and on the list on its way only if `late`), `NamesRepeatOnlyByRace` with `CreatesAreFirst` (two
rows, or a row and a `create` past its check, share a name only if it is `excused`), and `MarksAreKnown` (whoever holds a
marked carrier has the mark in `mem` and `loaded`). `ShiftInv` is the same of open shifts. `ImportInv`: rows imported, failed and left
are the rows of the file, and the imported are among the inserted.

Attempting `ChecksOfCreateHold` corrected the model. With one name, as the run had it,
`OnlyRacesDuplicate` held; the proof failed at a status PATCH that read a carrier before it was
renamed and, since the row then differs from what it holds, writes the old name back, while a
`create` takes the free name. TLC showed the behaviour with two names. The code does
that (`carrier.service.ts:67-76`), so `Recorded` excuses a name that a save gives a row, and the
run has two names.

Every safety invariant and every action property of the runs that pass is a theorem, and so
are two of the properties that a run refutes, under the hypothesis that rules out the cause.
Only model-checked: the liveness properties `DispatchReturns`, `LockFairness`, `RequestsAreAnswered`,
`PageCatchesUp`, `GoneAreDropped` and `StationComesBack`, since the prover reasons about
neither fairness nor ENABLED.

## Not modelled

* Materials and machine errors: CRUD of the kind `RowRequests` models, without a rule
  between rows; `updateMaterialUsed` and `recoverError` have no caller. Nor have
  `CarrierService.advance` and `syncHandshake`, and `OrdersService.updateProgress`.
* Alert rules: `getStatsByMachine` always throws (below), so no rule ever fires.
* Data collection, traces, dashboard, migrations: inserts, and aggregation whose
  content is SQL.
* Bootstrap and configuration, the legacy `dispatcher.service.ts` (which nothing
  provides), the mock PLC and the simulator's user interface, the layout of pages and
  `ProductionControl.tsx`, which polls a query that always answers an empty list.
* Roles and guards: a decision about one request, without state.

Logging, wording of errors and the columns no rule reads are abstracted everywhere.

## Seen while reading, without a run

Where the code and a document, or the code and its evident purpose, part, and a state
machine has nothing to add:

* `data-collection.service.ts:58-68`: `getStatsByMachine` always throws, so the alert
  rules of `CHANGELOG.md:37` never fire; its test mocks keys the code does not read.
* `timescale-migration.service.ts:33` compares the string of a COUNT with `=== 0`: the
  hypertable is never created.
* `opcua.service.ts:303, 388`: comments say that the discovered structure is used; the
  first candidate is taken whatever was found.
* `Orders.tsx:59-65` posts paths `OrdersController` (35-48) does not have; of the menu only
  Release works, while `docs/roadmap.md:133` calls it done.
* `carrier.service.ts:177-195` selects columns that do not exist and catches the error.
* `sps-dispatcher.service.ts:181-190`: "Update entity with new iStepNo" saves only the id
  and the flags.
* `client.tsx:66-69`: the headers of a CSV import replace those with the token, so the
  import from the page is refused.
* `Machines.tsx:124` opens the form of the machine edited last when it was closed by a
  click beside it; `Edge.tsx` sends the id of an OPC UA station to a route of machines
  and ignores the failure, its stored URL hides the typed one, and its
  "Broker trennen" connects.
* `Dashboard.tsx`: the indicator never returns to "disconnected", no socket is opened again,
  nothing is broadcast to the topics it listens to, and its count of alarms reads a field
  of a number.
* After a restart the saved list of stations is not read until a page asks for it, and a
  deployed `OPC_UA_STATIONS` hides it; failed stations are kept "for reconnect logic"
  that does not exist.
* `mqtt-alert.service.ts:25` notes a notification as sent before it is published, and
  `publish` does nothing while the broker is away; the dispatch route
  (`alarms.controller.ts:32`) is a GET where `CHANGELOG.md:39` says POST.
* `carriers.controller.ts:35-39` drops the order and the station of a new carrier; removing
  a carrier that is not there is answered ok, other services answer 404.
* The DTOs are imported as types, so `ValidationPipe` validates nothing in these controllers.
