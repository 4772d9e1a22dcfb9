--------------------------- MODULE SpsDispatcher ---------------------------
(***************************************************************************)
(* The PLC handshake of SpsDispatcherService (orders/sps-dispatcher.       *)
(* service.ts) together with the parts of OpcUaService it talks to:        *)
(* writeField, the data-change events, the event listeners and             *)
(* reloadStations.  Node runs one callback at a time, so an action is one  *)
(* stretch of code between two awaits; PLC, database rows and process      *)
(* restarts move in between.                                               *)
(***************************************************************************)
EXTENDS Naturals, Sequences

CONSTANTS
  Calls,          \* invocations of dispatch; each happens at most once
  Carriers,       \* rows of the carriers table
  Stations,       \* ids configured in OPC_UA_STATIONS
  Idents,         \* identifiers a caller may name a carrier by
  Requests,       \* [ident, station]: the arguments callers pass to dispatch
  None,           \* null / undefined
  FalsyStation,   \* a station id that JavaScript treats as false (0)
  ById, ByName, ByDigits, \* the carrier an identifier names, per kind of lookup
  Resource,       \* Resource[k]: carriers.iResourceID
  Par,            \* Par[k]: carriers.iPar1 (stands for iPar1..iPar4)
  AsyncReads,     \* session.readValue returns a promise (as nodeExists treats it)
  WritesMayFail,  \* session.writeValue may throw although the station is up
  Arrivals,       \* carriers the line may bring to a station
  Fields,         \* monitored fields whose changes are emitted
  MaxDisturbances,\* bound: boundVars, reloads and foreign edits of carrier rows
  MaxMoves        \* bound: moves of the PLCs

ASSUME DispatcherAssumption ==
  /\ None \notin Calls \cup Carriers \cup Stations \cup Idents
  /\ Requests \subseteq [ident : Idents, station : Stations \cup {None}]
  /\ Requests # {}
  /\ ById \in [Idents -> Carriers \cup {None}]
  /\ ByName \in [Idents -> Carriers \cup {None}]
  /\ ByDigits \in [Idents -> Carriers \cup {None}]
  /\ Resource \in [Carriers -> Stations \cup {None}]
  /\ Par \in [Carriers -> Nat]
  /\ AsyncReads \in BOOLEAN
  /\ WritesMayFail \in BOOLEAN
  /\ Arrivals \subseteq Carriers
  /\ Fields \subseteq {"xStart", "xDone", "iCarrierID"}
  /\ MaxDisturbances \in Nat
  /\ MaxMoves \in Nat

VARIABLES
  \* SpsDispatcherService
  isProcessing,   \* the plant-wide flag
  dispatchQueue,  \* calls turned away while the flag was set
  pc,             \* pc[c]: the await call c is at
  arg,            \* arg[c]: [ident, station] passed to dispatch
  hs,             \* hs[c]: the carrier row dispatch has in memory
  heard,          \* heard[c]: station and carrier of the event c accepted
  plan,           \* plan[c]: fields still to be written in step 4
  outcome,        \* outcome[c]: what dispatch returned
  timers,         \* armed 5 s timers of waitForStMesAck
  \* OpcUaService
  listeners,      \* acknowledgement listeners in eventListeners
  up,             \* up[s]: state of the entry in the stations map
  notes,          \* <<s, field>>: data changes on their way to handleDataChange
  \* outside the process
  rows,           \* the carriers table
  plc,            \* the stMES / dbProcessData block of every station
  disturbances, moves,
  \* history
  wrote,          \* the calls that have written to a PLC
  lastWriter,     \* the one that wrote last
  pulse           \* flips with every write

dispatcherVars == <<isProcessing, dispatchQueue, pc, arg, hs, heard, plan, outcome, timers>>
opcuaVars == <<listeners, up, notes>>
localVars == <<arg, hs, heard, plan>>
historyVars == <<wrote, lastWriter, pulse>>
boundVars == <<disturbances, moves>>
vars == <<dispatcherVars, opcuaVars, rows, plc, boundVars, historyVars>>

----------------------------------------------------------------------------
\* Data

Row == [ack : BOOLEAN, err : BOOLEAN, step : Nat]
Absent == [step |-> "absent"]

\* Of the PLC block, what something here reads: xDone, the parameters and the
\* carrier the PLC has identified.
Block == [done : BOOLEAN, par : Nat, carrier : Carriers \cup {None}]

MonitoredNotes == Stations \X Fields

\* The call is between taking isProcessing and the finally block.
Stages == {"resolve", "query", "queried", "await", "write", "save", "saved"}
PcValues == {"idle", "returned", "lost"} \cup Stages
Outcomes == {"none", "busy", "not_found", "write_failed", "timeout", "success", "thrown"}
PlanFields == {"xAck", "iStepNo", "iPar", "xDone"}

NoArg == [ident |-> None, station |-> None]
NoHs == [carrier |-> None, err |-> FALSE]
NoEvent == [station |-> None, carrier |-> None]

InHandshake == {c \in Calls : pc[c] \in Stages}

\* stationId ?? carrierEntity.iResourceID
TargetOf(s, k) == IF s # None THEN s ELSE Resource[k]
Target(c) == TargetOf(arg[c].station, hs[c].carrier)

Reachable(s) == s \in Stations /\ up[s] = "up"

\* resolveCarrierByIdentifier: uuid, then name, then the first run of digits.
Exists(k) == k # None /\ rows[k] # Absent
Resolved(i) ==
  IF Exists(ById[i]) THEN ById[i]
  ELSE IF Exists(ByName[i]) THEN ByName[i]
  ELSE IF Exists(ByDigits[i]) THEN ByDigits[i]
  ELSE None

\* The fields of the object an event carries: aggregateStMesData for stMES
\* fields, aggregateDbProcessData for dbProcessData fields.
Payload(f) ==
  IF f = "iCarrierID"
  THEN {"stationId", "iCarrierID", "iStepNo", "iResourceID", "iPar"}
  ELSE {"stationId", "xStart", "xQryBusy", "xAck", "xDone", "uiCarrierId"}

\* handleOpcUaEvent: dispatch only for an xStart event that has an iCarrierID.
AutoDispatches(f) == "iCarrierID" \in Payload(f) /\ f = "xStart"

Hears_AnyStation(c, s) == TRUE

\* The listener of waitForStMesAck: it filters by station unless its station
\* id is falsy, and takes xDone or a carrier match for the answer.
Hears(c, s) == Target(c) = FalsyStation \/ Target(c) = s
Matches(c, s, f) ==
  \/ "xDone" \in Payload(f) /\ (AsyncReads \/ plc[s].done)
  \/ "uiCarrierId" \in Payload(f) /\ ~AsyncReads /\ plc[s].carrier = hs[c].carrier

\* What a station reports of changed fields.  A station that could not be
\* connected has no subscription; one that is being reloaded still has the old.
Report(s, fields) ==
  IF up[s] = "down" THEN {} ELSE ({s} \X fields) \cap MonitoredNotes

\* The data changes a station reports when xDone takes the value b.
DoneNote(s, b) == IF plc[s].done = b THEN {} ELSE Report(s, {"xDone"})

\* A fresh subscription reports every monitored value once (xStart only
\* counts when it is set).
FirstNotes(S) ==
  {n \in S \X Fields : n[2] = "xStart" => plc[n[1]].carrier # None}

----------------------------------------------------------------------------
Init ==
  /\ isProcessing = FALSE
  /\ dispatchQueue = <<>>
  /\ pc = [c \in Calls |-> "idle"]
  /\ arg = [c \in Calls |-> NoArg]
  /\ hs = [c \in Calls |-> NoHs]
  /\ heard = [c \in Calls |-> NoEvent]
  /\ plan = [c \in Calls |-> <<>>]
  /\ outcome = [c \in Calls |-> "none"]
  /\ timers = {}
  /\ listeners = {}
  /\ up \in [Stations -> {"up", "down"}]
  /\ rows = [k \in Carriers |-> [ack |-> FALSE, err |-> FALSE, step |-> 0]]
  /\ plc = [s \in Stations |->
              [done |-> FALSE, par |-> 0, carrier |-> None]]
  /\ notes = FirstNotes({s \in Stations : up[s] = "up"})
  /\ disturbances = 0
  /\ moves = 0
  /\ wrote = {}
  /\ lastWriter = None
  /\ pulse = FALSE

----------------------------------------------------------------------------
\* dispatch()

\* No finally block: the flag stays.
Return_KeepsFlag(c, result) ==
  /\ arg' = [arg EXCEPT ![c] = NoArg]
  /\ hs' = [hs EXCEPT ![c] = NoHs]
  /\ heard' = [heard EXCEPT ![c] = NoEvent]
  /\ plan' = [plan EXCEPT ![c] = <<>>]
  /\ pc' = [pc EXCEPT ![c] = "returned"]
  /\ outcome' = [outcome EXCEPT ![c] = result]
  /\ UNCHANGED isProcessing

\* The finally block and the result the caller gets; the locals are gone.
Return(c, result) ==
  /\ arg' = [arg EXCEPT ![c] = NoArg]
  /\ hs' = [hs EXCEPT ![c] = NoHs]
  /\ heard' = [heard EXCEPT ![c] = NoEvent]
  /\ plan' = [plan EXCEPT ![c] = <<>>]
  /\ pc' = [pc EXCEPT ![c] = "returned"]
  /\ outcome' = [outcome EXCEPT ![c] = result]
  /\ isProcessing' = FALSE

\* A write reaches the PLC block of station s.
Wrote(c) ==
  /\ wrote' = wrote \cup {c}
  /\ lastWriter' = c
  /\ pulse' = ~pulse

\* The test of isProcessing is dropped, or taken the wrong way round.
DispatchBusy_Unasked(c) ==
  /\ pc[c] = "idle"
  /\ dispatchQueue' = Append(dispatchQueue, c)
  /\ pc' = [pc EXCEPT ![c] = "returned"]
  /\ outcome' = [outcome EXCEPT ![c] = "busy"]
  /\ UNCHANGED <<isProcessing, localVars, timers, opcuaVars, rows, plc, boundVars, historyVars>>

DispatchEnter_NoTest(c, r) ==
  /\ pc[c] = "idle"
  /\ isProcessing' = TRUE
  /\ arg' = [arg EXCEPT ![c] = r]
  /\ pc' = [pc EXCEPT ![c] = "resolve"]
  /\ UNCHANGED <<dispatchQueue, hs, heard, plan, outcome, timers, opcuaVars, rows, plc, boundVars, historyVars>>

DispatchBusy(c) ==
  /\ pc[c] = "idle"
  /\ isProcessing
  /\ dispatchQueue' = Append(dispatchQueue, c)
  /\ pc' = [pc EXCEPT ![c] = "returned"]
  /\ outcome' = [outcome EXCEPT ![c] = "busy"]
  /\ UNCHANGED <<isProcessing, localVars, timers, opcuaVars, rows, plc, boundVars, historyVars>>

DispatchEnter(c, r) ==
  /\ pc[c] = "idle"
  /\ ~isProcessing
  /\ isProcessing' = TRUE
  /\ arg' = [arg EXCEPT ![c] = r]
  /\ pc' = [pc EXCEPT ![c] = "resolve"]
  /\ UNCHANGED <<dispatchQueue, hs, heard, plan, outcome, timers, opcuaVars, rows, plc, boundVars, historyVars>>

\* The row is found and its station has a session: the xQryBusy write is sent.
Resolve(c) ==
  LET k == Resolved(arg[c].ident) IN
  /\ pc[c] = "resolve"
  /\ k # None
  /\ hs' = [hs EXCEPT ![c] = [carrier |-> k, err |-> rows[k].err]]
  /\ Reachable(TargetOf(arg[c].station, k))
  /\ pc' = [pc EXCEPT ![c] = "query"]
  /\ UNCHANGED <<isProcessing, dispatchQueue, arg, heard, plan, outcome, timers, opcuaVars, rows, plc, boundVars, historyVars>>

\* No row, or writeField finds no session for the station.
ResolveFails(c) ==
  LET k == Resolved(arg[c].ident) IN
  /\ pc[c] = "resolve"
  /\ \/ k = None /\ Return(c, "not_found")
     \/ k # None /\ ~Reachable(TargetOf(arg[c].station, k)) /\ Return(c, "write_failed")
  /\ UNCHANGED <<dispatchQueue, timers, opcuaVars, rows, plc, boundVars, historyVars>>

\* The PLC executes the xQryBusy write; its confirmation is on the way.
QueryWritten(c) ==
  /\ pc[c] = "query"
  /\ pc' = [pc EXCEPT ![c] = "queried"]
  /\ Wrote(c)
  /\ UNCHANGED <<isProcessing, dispatchQueue, localVars, outcome, timers, opcuaVars, rows, plc, boundVars>>

\* writeValue throws (possibly after the PLC has executed the write).
QueryFailed(c) ==
  /\ pc[c] \in {"query", "queried"}
  /\ WritesMayFail \/ ~Reachable(Target(c))
  /\ Return(c, "write_failed")
  /\ UNCHANGED <<dispatchQueue, timers, opcuaVars, rows, plc, boundVars, historyVars>>

\* No time-out is armed.
QueryReturns_NoTimer(c) ==
  /\ pc[c] = "queried"
  /\ pc' = [pc EXCEPT ![c] = "await"]
  /\ listeners' = listeners \cup {c}
  /\ UNCHANGED <<isProcessing, dispatchQueue, localVars, outcome, timers, up, notes, rows, plc, boundVars, historyVars>>

\* The confirmation arrives: waitForStMesAck registers its listener, which Timeout,
\* LateTimer or an event that Hears and Matches takes away again, and its timer.
QueryReturns(c) ==
  /\ pc[c] = "queried"
  /\ pc' = [pc EXCEPT ![c] = "await"]
  /\ listeners' = listeners \cup {c}
  /\ timers' = timers \cup {c}
  /\ UNCHANGED <<isProcessing, dispatchQueue, localVars, outcome, up, notes, rows, plc, boundVars, historyVars>>

Plan_Sloppy(k) == <<"xAck", "iStepNo", "iPar", "xStart", "xDone">>

\* Step 4: xAck, iStepNo, the parameters that are not 0, xDone.
Plan(k) ==
  IF Par[k] = 0 THEN <<"xAck", "iStepNo", "xDone">> ELSE <<"xAck", "iStepNo", "iPar", "xDone">>

\* writeField sends Boolean(value).
Coerced(v) == IF v = 0 THEN 0 ELSE 1

\* The block after field f has been written for carrier k.
Written(b, f, k) ==
  [b EXCEPT !.done = @ \/ f = "xDone",
            !.par  = IF f = "iPar" THEN Coerced(Par[k]) ELSE @]

\* One write of step 4 and its await; a failed write is ignored.
StepWrite(c) ==
  LET s == Target(c)
      f == Head(plan[c]) IN
  /\ pc[c] = "write"
  /\ \/ /\ Reachable(s)
        /\ plc' = [plc EXCEPT ![s] = Written(@, f, hs[c].carrier)]
        /\ notes' = notes \cup (IF f = "xDone" THEN DoneNote(s, TRUE) ELSE {})
        /\ Wrote(c)
     \/ /\ WritesMayFail \/ ~Reachable(s)
        /\ UNCHANGED <<plc, notes, historyVars>>
  /\ plan' = [plan EXCEPT ![c] = Tail(@)]
  /\ pc' = [pc EXCEPT ![c] = IF Tail(plan[c]) = <<>> THEN "save" ELSE "write"]
  /\ UNCHANGED <<isProcessing, dispatchQueue, arg, hs, heard, outcome, timers, listeners, up, rows, boundVars>>

\* carriersRepo.save({id, handshake_flags: {...snapshot, xAck: true}}): the
\* database executes it, with the flags of the row read before the handshake;
\* its confirmation is on the way.
Save(c) ==
  LET k == hs[c].carrier IN
  /\ pc[c] = "save"
  /\ rows[k] # Absent
  /\ rows' = [rows EXCEPT ![k].ack = TRUE, ![k].err = hs[c].err]
  /\ pc' = [pc EXCEPT ![c] = "saved"]
  /\ UNCHANGED <<isProcessing, dispatchQueue, localVars, outcome, timers, opcuaVars, plc, boundVars, historyVars>>

\* The confirmation arrives: dispatch returns.
SaveReturns(c) ==
  /\ pc[c] = "saved"
  /\ Return(c, "success")
  /\ UNCHANGED <<dispatchQueue, timers, opcuaVars, rows, plc, boundVars, historyVars>>

\* The row is gone (an insert without a name) or the database fails, possibly
\* after it has executed the save.
Throw(c) ==
  /\ pc[c] \in {"resolve", "save", "saved"}
  /\ Return(c, "thrown")
  /\ UNCHANGED <<dispatchQueue, timers, opcuaVars, rows, plc, boundVars, historyVars>>

\* The timer does not unsubscribe, or does not resolve.
Timeout_Leaks(c) ==
  /\ pc[c] = "await"
  /\ c \in timers
  /\ timers' = timers \ {c}
  /\ Return(c, "timeout")
  /\ UNCHANGED <<dispatchQueue, opcuaVars, rows, plc, boundVars, historyVars>>

Timeout_OnlyUnsubscribes(c) ==
  /\ pc[c] = "await"
  /\ c \in timers
  /\ listeners' = listeners \ {c}
  /\ timers' = timers \ {c}
  /\ UNCHANGED <<isProcessing, dispatchQueue, pc, localVars, outcome, up, notes, rows, plc, boundVars, historyVars>>

\* The timer fires first: the handshake fails.
Timeout(c) ==
  /\ pc[c] = "await"
  /\ c \in timers
  /\ listeners' = listeners \ {c}
  /\ timers' = timers \ {c}
  /\ Return(c, "timeout")
  /\ UNCHANGED <<dispatchQueue, up, notes, rows, plc, boundVars, historyVars>>

\* The late timer reports a failure.
LateTimer_Reports(c) ==
  /\ pc[c] # "await"
  /\ c \in timers
  /\ listeners' = listeners \ {c}
  /\ timers' = timers \ {c}
  /\ outcome' = [outcome EXCEPT ![c] = "timeout"]
  /\ UNCHANGED <<isProcessing, dispatchQueue, pc, localVars, up, notes, rows, plc, boundVars, historyVars>>

\* All waits share one timer: a late one gives up whoever waits now.
LateTimer_CutsShort(c) ==
  /\ pc[c] # "await"
  /\ c \in timers
  /\ timers' = timers \ {c}
  /\ IF listeners = {}
     THEN UNCHANGED <<isProcessing, pc, localVars, outcome, listeners>>
     ELSE \E d \in listeners : Return(d, "timeout") /\ listeners' = listeners \ {d}
  /\ UNCHANGED <<dispatchQueue, up, notes, rows, plc, boundVars, historyVars>>

\* The timer of an answered handshake is never cleared: it fires later, and
\* its unsubscribe and resolve find nothing to do.
LateTimer(c) ==
  /\ pc[c] # "await"
  /\ c \in timers
  /\ listeners' = listeners \ {c}
  /\ timers' = timers \ {c}
  /\ UNCHANGED <<isProcessing, dispatchQueue, pc, localVars, outcome, up, notes, rows, plc, boundVars, historyVars>>

----------------------------------------------------------------------------
\* handleDataChange, emitEvent and the listeners

\* The event goes to every listener, whatever event name it subscribed to.
DeliverEvent(s, f) ==
  LET acked == {c \in listeners : Hears(c, s) /\ Matches(c, s, f)}
      idle == {c \in Calls : pc[c] = "idle"}
      auto == IF AutoDispatches(f) /\ ~isProcessing /\ idle # {}
              THEN {CHOOSE c \in idle : TRUE} ELSE {} IN
  /\ <<s, f>> \in notes
  /\ up[s] = "up"
  /\ notes' = notes \ {<<s, f>>}
  /\ listeners' = listeners \ acked
  /\ pc' = [c \in Calls |-> IF c \in acked THEN "write"
                            ELSE IF c \in auto THEN "resolve" ELSE pc[c]]
  /\ plan' = [c \in Calls |-> IF c \in acked THEN Plan(hs[c].carrier) ELSE plan[c]]
  /\ heard' = [c \in Calls |-> IF c \in acked
                               THEN [station |-> s, carrier |-> plc[s].carrier] ELSE heard[c]]
  /\ isProcessing' = (isProcessing \/ auto # {})
  /\ arg' = [c \in Calls |-> IF c \in auto THEN CHOOSE r \in Requests : TRUE ELSE arg[c]]
  /\ UNCHANGED <<dispatchQueue, hs, outcome, timers, up, rows, plc, boundVars, historyVars>>

\* No session: the payload is null.  Listeners of other stations return
\* before they look at it.
DeliverNull(s, f) ==
  /\ <<s, f>> \in notes
  /\ up[s] # "up"
  /\ ~ \E c \in listeners : Hears(c, s)
  /\ notes' = notes \ {<<s, f>>}
  /\ UNCHANGED <<dispatcherVars, listeners, up, rows, plc, boundVars, historyVars>>

Disturb ==
  /\ disturbances < MaxDisturbances
  /\ disturbances' = disturbances + 1

\* The process starts again: everything in memory is gone.
Reboot(u) ==
  /\ isProcessing' = FALSE
  /\ dispatchQueue' = <<>>
  /\ pc' = [c \in Calls |-> IF pc[c] \in Stages THEN "lost" ELSE pc[c]]
  /\ arg' = [c \in Calls |-> NoArg]
  /\ hs' = [c \in Calls |-> NoHs]
  /\ heard' = [c \in Calls |-> NoEvent]
  /\ plan' = [c \in Calls |-> <<>>]
  /\ timers' = {}
  /\ listeners' = {}
  /\ up' = u
  /\ notes' = FirstNotes({s \in Stations : u[s] = "up"})
  /\ UNCHANGED <<outcome, rows, plc, moves, historyVars>>

\* A waiting listener reads a field of null: the error escapes the async
\* handler as an unhandled rejection and ends the process.
CrashOnNull(s, f, u) ==
  /\ <<s, f>> \in notes
  /\ up[s] # "up"
  /\ \E c \in listeners : Hears(c, s)
  /\ Reboot(u)
  /\ UNCHANGED disturbances

\* The process is stopped and started for any other reason.
Restart(u) ==
  /\ Reboot(u)
  /\ Disturb

\* reloadStations: sessions are closed and the map is cleared ...
Reload ==
  /\ Disturb
  /\ up' = [s \in Stations |-> "connecting"]
  /\ UNCHANGED <<dispatcherVars, listeners, notes, rows, plc, moves, historyVars>>

\* ... and connectStation stores a session or a failed entry.
ConnectStation(s) ==
  /\ up[s] = "connecting"
  /\ \/ /\ up' = [up EXCEPT ![s] = "up"]
        /\ notes' = notes \cup FirstNotes({s})
     \/ /\ up' = [up EXCEPT ![s] = "down"]
        /\ UNCHANGED notes
  /\ UNCHANGED <<dispatcherVars, listeners, rows, plc, boundVars, historyVars>>

----------------------------------------------------------------------------
\* The plant (external) and the other writers of the carriers table

PlcMove ==
  /\ moves < MaxMoves
  /\ moves' = moves + 1
  /\ UNCHANGED <<dispatcherVars, listeners, up, rows, disturbances, historyVars>>

\* A carrier arrives: the PLC identifies it and raises xStart.
PlcArrive(s, k) ==
  /\ plc[s].carrier # k
  /\ plc' = [plc EXCEPT ![s].carrier = k]
  /\ notes' = notes \cup Report(s, {"xStart", "iCarrierID"})
  /\ PlcMove

\* The PLC sets xDone, or ends its cycle and clears it.
PlcDone(s) ==
  /\ ~plc[s].done
  /\ plc' = [plc EXCEPT ![s].done = TRUE]
  /\ notes' = notes \cup DoneNote(s, TRUE)
  /\ PlcMove

PlcClear(s) ==
  /\ plc[s].done
  /\ plc' = [plc EXCEPT ![s].done = FALSE]
  /\ notes' = notes \cup DoneNote(s, FALSE)
  /\ PlcMove

RowEdit ==
  /\ Disturb
  /\ UNCHANGED <<dispatcherVars, opcuaVars, plc, moves, historyVars>>

\* CarrierService.remove, or the carriers of a deleted order.
RemoveCarrier(k) ==
  /\ rows[k] # Absent
  /\ rows' = [rows EXCEPT ![k] = Absent]
  /\ RowEdit

\* CarrierService.update with status "error" marks the flags.
MarkError(k) ==
  /\ rows[k] # Absent
  /\ ~rows[k].err
  /\ rows' = [rows EXCEPT ![k].err = TRUE]
  /\ RowEdit

\* CarrierService.advanceManual replaces the flags and counts the step.
AdvanceManual(k) ==
  /\ rows[k] # Absent
  /\ rows' = [rows EXCEPT ![k] = [ack |-> FALSE, err |-> FALSE, step |-> @.step + 1]]
  /\ RowEdit

----------------------------------------------------------------------------
\* The awaits of one call.
Progress(c) ==
  \/ Resolve(c) \/ ResolveFails(c)
  \/ QueryWritten(c) \/ QueryFailed(c) \/ QueryReturns(c)
  \/ StepWrite(c) \/ Save(c) \/ SaveReturns(c) \/ Throw(c) \/ Timeout(c)

Environment ==
  \/ \E s \in Stations : PlcDone(s) \/ PlcClear(s) \/ \E k \in Arrivals : PlcArrive(s, k)
  \/ \E k \in Carriers : RemoveCarrier(k) \/ MarkError(k) \/ AdvanceManual(k)

Opcua ==
  \/ \E s \in Stations, f \in Fields : DeliverEvent(s, f) \/ DeliverNull(s, f)
  \/ \E u \in [Stations -> {"up", "down"}] :
       Restart(u) \/ \E s \in Stations, f \in Fields : CrashOnNull(s, f, u)
  \/ Reload
  \/ \E s \in Stations : ConnectStation(s)

Next ==
  \/ \E c \in Calls :
       \/ DispatchBusy(c)
       \/ \E r \in Requests : DispatchEnter(c, r)
       \/ Progress(c)
       \/ LateTimer(c)
  \/ Opcua
  \/ Environment

Spec == Init /\ [][Next]_vars

\* Database answers, OPC UA answers and timers come; nobody has to press a
\* button, and the PLC need not answer.
FairSpec == Spec /\ \A c \in Calls : WF_vars(Progress(c))

----------------------------------------------------------------------------
\* Every variable stays in its type; the PLC parameter is a number and a
\* note names a station and a monitored field.
TypeOK ==
  /\ isProcessing \in BOOLEAN
  /\ dispatchQueue \in Seq(Calls)
  /\ pc \in [Calls -> PcValues]
  /\ arg \in [Calls -> [ident : Idents \cup {None}, station : Stations \cup {None}]]
  /\ hs \in [Calls -> [carrier : Carriers \cup {None}, err : BOOLEAN]]
  /\ heard \in [Calls -> [station : Stations \cup {None}, carrier : Carriers \cup {None}]]
  /\ plan \in [Calls -> Seq(PlanFields)]
  /\ outcome \in [Calls -> Outcomes]
  /\ timers \subseteq Calls
  /\ listeners \subseteq Calls
  /\ up \in [Stations -> {"up", "down", "connecting"}]
  /\ notes \subseteq MonitoredNotes
  /\ rows \in [Carriers -> Row \cup {Absent}]
  /\ plc \in [Stations -> Block]
  /\ disturbances \in 0..MaxDisturbances
  /\ moves \in 0..MaxMoves
  /\ wrote \subseteq Calls
  /\ lastWriter \in Calls \cup {None}
  /\ pulse \in BOOLEAN

\* A running call has its arguments, past the lookup a carrier in memory, in
\* step 4 something left to write, and nothing after it.
Loaded ==
  \A c \in Calls :
    /\ pc[c] \in Stages => arg[c] \in [ident : Idents, station : Stations \cup {None}]
    /\ pc[c] \in Stages \ {"resolve"} => hs[c].carrier \in Carriers
    /\ pc[c] = "write" => plan[c] # <<>>
    /\ pc[c] \in {"save", "saved"} => plan[c] = <<>>

\* The flag isProcessing is set exactly while one handshake runs, on every
\* path out of dispatch (early returns, exceptions, time-outs, restarts):
\* no path frees it under a running handshake and no path keeps it.
HandshakeExclusive ==
  /\ isProcessing <=> InHandshake # {}
  /\ \A c, d \in InHandshake : c = d

\* Acknowledgement listeners do not leak, and a waiting handshake always has
\* its listener and its timer: it can be answered and it can time out.
ListenerOwned ==
  /\ listeners = {c \in Calls : pc[c] = "await"}
  /\ listeners \subseteq timers

\* The handshake has its answer: step 4 and the save are what is left of it.
Answered == {c \in Calls : pc[c] \in {"write", "save", "saved"}}

\* The event a handshake took for its answer came from the station it was
\* sent to, unless the station id is falsy and the filter is off.
AckFromOwnStation ==
  \A c \in Answered : Target(c) \in {FalsyStation, heard[c].station}

\* The writes of two handshakes never mix on the wire: once another call has
\* written, a call that wrote before it writes no more.
WritesContiguous ==
  [][pulse' # pulse => lastWriter' = lastWriter \/ lastWriter' \notin wrote]_vars

\* Nobody cuts a handshake short: while it waits only its own 5 s timer gives
\* it up, never one left over from an earlier handshake, and once it was
\* answered it goes through step 4 and the save with that one answer.  Late
\* timers, further events, a reload of the stations and other callers do not
\* end it; a restart of the process does.
NeverCutShort ==
  [][\A c \in Calls :
       /\ pc[c] = "await" /\ pc'[c] = "returned" => timers \ timers' = {c}
       /\ c \in Answered =>
            \/ c \in Answered' /\ heard'[c] = heard[c]
            \/ plan[c] = <<>> /\ outcome'[c] \in {"success", "thrown"}
            \/ pc'[c] = "lost"]_vars

\* What dispatch told its caller stays what it told, busy and timeout
\* included: neither a late timer nor a late answer nor the queue revives a
\* call that has returned.
ResultsAreFinal ==
  [][\A c \in Calls : pc[c] = "returned" => pc'[c] = "returned" /\ outcome'[c] = outcome[c]]_vars

\* Whatever the PLC does, a handshake ends: dispatch returns or the process
\* has been restarted.
DispatchReturns ==
  \A c \in Calls : pc[c] \in Stages ~> pc[c] \in {"returned", "lost"}

\* dispatch implements the abstract lock.
LockPhase ==
  [c \in Calls |-> CASE pc[c] = "idle" -> "new"
                     [] pc[c] \in Stages -> "running"
                     [] pc[c] = "lost" -> "lost"
                     [] OTHER -> IF outcome[c] = "busy" THEN "refused" ELSE "settled"]
LockHolder == IF InHandshake = {} THEN None ELSE CHOOSE c \in InHandshake : TRUE

Lock == INSTANCE HandshakeLock WITH holder <- LockHolder, phase <- LockPhase

LockSafety == Lock!LockSpec
LockFairness == Lock!FairLockSpec

----------------------------------------------------------------------------
\* What the comments and the concept document say, and the code does not do.

\* sps-dispatcher.service.ts:155, "Wait for SPS response (xDone) with
\* matching carrierId".
AckMatchesCarrier ==
  [][\A c \in Calls : outcome'[c] = "success" /\ outcome[c] # "success"
       => heard[c].carrier \in {None, hs[c].carrier}]_vars

\* docs/mvp-konzept.md:180, an xStart seen by the MES starts a handshake.
XStartIsAnswered ==
  [][\A s \in Stations :
       /\ <<s, "xStart">> \in notes /\ <<s, "xStart">> \notin notes'
       /\ up[s] = "up" /\ UNCHANGED disturbances
       /\ \E c \in Calls : pc[c] = "idle"
       => isProcessing']_vars

\* docs/mvp-konzept.md:201, the parameters of the carrier reach the PLC.
ParametersDelivered ==
  [][\A c \in Calls : outcome'[c] = "success" /\ outcome[c] # "success"
       => plc[Target(c)].par = Par[hs[c].carrier]]_vars
=============================================================================
