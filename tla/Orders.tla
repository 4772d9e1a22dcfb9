------------------------------- MODULE Orders -------------------------------
(***************************************************************************)
(* OrdersService (orders/orders.service.ts) under concurrent HTTP          *)
(* requests.  A handler reads the order, may wait for a PLC handshake, and *)
(* saves; TypeORM's save reads the row again and writes the columns that   *)
(* differ from it (all of them when the row is gone).  Every await lets    *)
(* other requests run.  Dispatching is the lock of HandshakeLock, which    *)
(* SpsDispatcher implements; the call of request r is r itself.            *)
(***************************************************************************)
EXTENDS HandshakeLock, Naturals, FiniteSets

CONSTANTS
  OrderIds,     \* ids the database may generate
  Ops,          \* [kind, to, qty]: what PATCH, the status routes and advance-step ask for
  Quantity,     \* orders.quantity
  MaxInFlight   \* bound: requests being handled at a time

\* A request makes one call of dispatch at most.
Requests == Calls

Statuses == {"pending", "released", "in_progress", "completed", "cancelled", "on_hold"}
Kinds == {"patch", "route", "advance"}

ASSUME OrdersAssumption ==
  /\ None \notin Statuses \cup Nat \cup OrderIds
  /\ Ops \subseteq [kind : Kinds, to : Statuses \cup {None}, qty : Nat \cup {None}]
  /\ \A p \in Ops : p.kind = "route" => p.to \in Statuses
  /\ Quantity \in Nat \ {0}
  /\ MaxInFlight \in Nat

VARIABLES
  rows,      \* the orders table
  created,   \* ids that have been generated
  pc,        \* pc[r]: the await request r is at
  op, order, \* what r asks for, of which order
  mem,       \* mem[r]: the entity the handler holds
  loaded,    \* loaded[r]: the row save() found
  advances   \* history: advance-steps the database has executed, per order

requestVars == <<pc, op, order, mem, loaded>>
vars == <<lockVars, rows, created, requestVars, advances>>

Absent == [status |-> "absent"]

\* The columns the handlers write.  started stands for start_time and
\* sps_flag_udi_on, ended for end_time, flags for the sps_flags that are true.
Row == [status : Statuses, started : BOOLEAN, ended : BOOLEAN, done : Nat,
        flags : SUBSET {"uiOPos", "udiONo"}, step : Nat]

NewRow == [status |-> "pending", started |-> FALSE, ended |-> FALSE, done |-> 0,
           flags |-> {}, step |-> 0]

NoOp == [kind |-> "none", to |-> None, qty |-> None]

Waiting == {"dispatch", "dispatching", "triggered", "save", "write", "written"}
PcValues == {"idle", "done", "failed", "lost"} \cup Waiting

InFlight == {r \in Requests : pc[r] \in Waiting}

\* VALID_TRANSITIONS
Allowed(s) ==
  CASE s = "pending"     -> {"released", "cancelled"}
    [] s = "released"    -> {"in_progress", "on_hold", "cancelled"}
    [] s = "in_progress" -> {"completed", "on_hold", "cancelled"}
    [] s = "on_hold"     -> {"in_progress"}
    [] OTHER             -> {}

\* The first condition of update(): releasing is never validated.
Changes(p, row) == p.to # None /\ p.to # "released" /\ p.to # row.status

Rejects_OnlyAdvance(p, row) == p.kind = "advance" /\ row.status # "in_progress"

\* validateTransition and the check of advanceStep.
Rejects(p, row) ==
  \/ p.kind = "patch" /\ Changes(p, row) /\ p.to \notin Allowed(row.status)
  \/ p.kind = "advance" /\ row.status # "in_progress"

\* The request goes through SpsDispatcherService.dispatch.
Dispatches(p, row) ==
  /\ p.to = "in_progress"
  /\ p.kind = "route" \/ (p.kind = "patch" /\ row.status # "in_progress")

FlagsFor_NotTyped(s, flags) ==
  CASE s = "completed" -> {"uiOPos", "uiOpNo"}
    [] s = "cancelled" -> {"udiONo"}
    [] OTHER           -> flags

\* sps_flags after a change to status s.
FlagsFor(s, flags) ==
  CASE s = "completed" -> {"uiOPos"}
    [] s = "cancelled" -> {"udiONo"}
    [] OTHER           -> flags

\* changeStatus
Routed(p, row) ==
  [row EXCEPT !.status  = p.to,
              !.started = @ \/ p.to = "in_progress",
              !.ended   = @ \/ p.to \in {"completed", "cancelled"},
              !.done    = IF p.to = "completed" THEN Quantity ELSE @,
              !.flags   = IF p.to = "on_hold" THEN @ \ {"uiOPos"} ELSE FlagsFor(p.to, @)]

\* update(): the first branch tests the status the order had, so a PATCH that
\* completes or cancels a running order stamps its start and not its end.
Patched(p, row) ==
  LET restamps == Changes(p, row) /\ row.status = "in_progress"
      closes   == Changes(p, row) /\ row.status # "in_progress" IN
  [row EXCEPT !.status  = IF p.to = None THEN @ ELSE p.to,
              !.started = @ \/ restamps,
              !.ended   = @ \/ (closes /\ p.to \in {"completed", "cancelled"}),
              !.done    = IF p.qty # None THEN p.qty
                          ELSE IF closes /\ p.to = "completed" THEN Quantity ELSE @,
              !.flags   = IF closes THEN FlagsFor(p.to, @) ELSE @]

\* A status route advances the step as well.
Applied_Advances(p, row) ==
  CASE p.kind = "patch" -> Patched(p, row)
    [] p.kind = "route" -> [Routed(p, row) EXCEPT !.step = @ + 1]
    [] OTHER            -> [row EXCEPT !.step = @ + 1]

\* What the handler makes of the row it has read.
Applied(p, row) ==
  CASE p.kind = "patch" -> Patched(p, row)
    [] p.kind = "route" -> Routed(p, row)
    [] OTHER            -> [row EXCEPT !.step = @ + 1]

\* UPDATE with the columns that differ from the row save() has loaded.
Merged(row, m, l) ==
  LET Column(mine, found, now) == IF mine = found THEN now ELSE mine IN
  [status  |-> Column(m.status, l.status, row.status),
   started |-> Column(m.started, l.started, row.started),
   ended   |-> Column(m.ended, l.ended, row.ended),
   done    |-> Column(m.done, l.done, row.done),
   flags   |-> Column(m.flags, l.flags, row.flags),
   step    |-> Column(m.step, l.step, row.step)]

Init ==
  /\ LockInit
  /\ rows \in [OrderIds -> {Absent, NewRow}]
  /\ created = {o \in OrderIds : rows[o] # Absent}
  /\ pc = [r \in Requests |-> "idle"]
  /\ op = [r \in Requests |-> NoOp]
  /\ order = [r \in Requests |-> None]
  /\ mem = [r \in Requests |-> Absent]
  /\ loaded = [r \in Requests |-> Absent]
  /\ advances = [o \in OrderIds |-> 0]

Arrives(r) == pc[r] = "idle" /\ Cardinality(InFlight) < MaxInFlight

\* The response is sent; the locals are gone.
Finish(r, result) ==
  /\ pc' = [pc EXCEPT ![r] = result]
  /\ op' = [op EXCEPT ![r] = NoOp]
  /\ order' = [order EXCEPT ![r] = None]
  /\ mem' = [mem EXCEPT ![r] = Absent]
  /\ loaded' = [loaded EXCEPT ![r] = Absent]

\* create(): one INSERT, whose answer may fail after it.
CreateOrder(r, o) ==
  /\ Arrives(r)
  /\ o \notin created
  /\ created' = created \cup {o}
  /\ rows' = [rows EXCEPT ![o] = NewRow]
  /\ \E result \in {"done", "failed"} : Finish(r, result)
  /\ UNCHANGED <<lockVars, advances>>

\* A missing order is made anew instead of refused.
FindOne_OrNew(r, p, o) ==
  LET row == IF rows[o] = Absent THEN NewRow ELSE rows[o] IN
  /\ Arrives(r)
  /\ ~Rejects(p, row)
  /\ pc' = [pc EXCEPT ![r] = IF Dispatches(p, row) THEN "dispatch" ELSE "save"]
  /\ op' = [op EXCEPT ![r] = p]
  /\ order' = [order EXCEPT ![r] = o]
  /\ mem' = [mem EXCEPT ![r] = Applied(p, row)]
  /\ UNCHANGED <<lockVars, rows, created, loaded, advances>>

\* findOne() and the code up to the next await.
FindOne(r, p, o) ==
  /\ Arrives(r)
  /\ rows[o] # Absent
  /\ ~Rejects(p, rows[o])
  /\ pc' = [pc EXCEPT ![r] = IF Dispatches(p, rows[o]) THEN "dispatch" ELSE "save"]
  /\ op' = [op EXCEPT ![r] = p]
  /\ order' = [order EXCEPT ![r] = o]
  /\ mem' = [mem EXCEPT ![r] = Applied(p, rows[o])]
  /\ UNCHANGED <<lockVars, rows, created, loaded, advances>>

\* The order does not exist or does not allow what is asked for.
FindOneThrows(r, p, o) ==
  /\ Arrives(r)
  /\ rows[o] = Absent \/ Rejects(p, rows[o])
  /\ Finish(r, "failed")
  /\ UNCHANGED <<lockVars, rows, created, advances>>

\* The handshake is not awaited; a request turned away waits for its turn.
Dispatch_NotAwaited(r) ==
  /\ pc[r] = "dispatch"
  /\ Admit(r) \/ Refuse(r)
  /\ pc' = [pc EXCEPT ![r] = "save"]
  /\ UNCHANGED <<rows, created, op, order, mem, loaded, advances>>

Dispatch_WaitsInQueue(r) ==
  /\ pc[r] = "dispatch"
  /\ Admit(r) \/ Refuse(r)
  /\ pc' = [pc EXCEPT ![r] = "dispatching"]
  /\ UNCHANGED <<rows, created, op, order, mem, loaded, advances>>

\* After the lookup of the carrier (which a release makes too, for a carrier it
\* never saves): dispatch() takes the lock or turns the request away at once; the
\* order is started either way.
Dispatch(r) ==
  /\ pc[r] = "dispatch"
  /\ \/ Admit(r) /\ pc' = [pc EXCEPT ![r] = "dispatching"]
     \/ Refuse(r) /\ pc' = [pc EXCEPT ![r] = "save"]
  /\ UNCHANGED <<rows, created, op, order, mem, loaded, advances>>

\* Up to five seconds later dispatch() returns or throws.
HandshakeEnds(r) ==
  /\ pc[r] = "dispatching"
  /\ Settle(r)
  /\ pc' = [pc EXCEPT ![r] = "save"]
  /\ UNCHANGED <<rows, created, op, order, mem, loaded, advances>>

\* POST dispatcher/trigger/:carrierId
Trigger(r) ==
  /\ Arrives(r)
  /\ \/ Admit(r) /\ pc' = [pc EXCEPT ![r] = "triggered"]
     \/ Refuse(r) /\ pc' = [pc EXCEPT ![r] = "done"]
  /\ UNCHANGED <<rows, created, op, order, mem, loaded, advances>>

TriggerEnds(r) ==
  /\ pc[r] = "triggered"
  /\ Settle(r)
  /\ pc' = [pc EXCEPT ![r] = "done"]
  /\ UNCHANGED <<rows, created, op, order, mem, loaded, advances>>

\* ordersRepo.save: first the row is loaded again ...
SaveLoads(r) ==
  /\ pc[r] = "save"
  /\ loaded' = [loaded EXCEPT ![r] = rows[order[r]]]
  /\ pc' = [pc EXCEPT ![r] = "write"]
  /\ UNCHANGED <<lockVars, rows, created, op, order, mem, advances>>

Counted(r) ==
  advances' = IF op[r].kind = "advance" THEN [advances EXCEPT ![order[r]] = @ + 1] ELSE advances

\* ... then the database executes the difference; an UPDATE of a row that has
\* gone in between changes nothing and is confirmed like any other.
SaveUpdates(r) ==
  LET o == order[r] IN
  /\ pc[r] = "write"
  /\ loaded[r] # Absent
  /\ rows' = IF rows[o] = Absent THEN rows
             ELSE [rows EXCEPT ![o] = Merged(@, mem[r], loaded[r])]
  /\ Counted(r)
  /\ pc' = [pc EXCEPT ![r] = "written"]
  /\ UNCHANGED <<lockVars, created, op, order, mem, loaded>>

\* The row was gone: save() inserts the whole entity.
SaveInserts(r) ==
  LET o == order[r] IN
  /\ pc[r] = "write"
  /\ loaded[r] = Absent
  /\ rows[o] = Absent
  /\ rows' = [rows EXCEPT ![o] = mem[r]]
  /\ Counted(r)
  /\ pc' = [pc EXCEPT ![r] = "written"]
  /\ UNCHANGED <<lockVars, created, op, order, mem, loaded>>

\* The database confirms the save and the request is answered.
SaveConfirmed(r) ==
  /\ pc[r] = "written"
  /\ Finish(r, "done")
  /\ UNCHANGED <<lockVars, rows, created, advances>>

\* The database fails, before it has executed the save or after it, or the
\* INSERT meets a row another request has put back.
DatabaseFails(r) ==
  /\ pc[r] \in {"dispatch", "save", "write", "written"}
  /\ Finish(r, "failed")
  /\ UNCHANGED <<lockVars, rows, created, advances>>

\* remove(): one transaction, whose answer may fail after it.
Remove(r, o) ==
  /\ Arrives(r)
  /\ o \in created
  /\ rows' = [rows EXCEPT ![o] = Absent]
  /\ \E result \in IF rows[o] = Absent THEN {"failed"} ELSE {"done", "failed"} : Finish(r, result)
  /\ UNCHANGED <<lockVars, created, advances>>

\* The backend stops and starts; requests under way get no answer.
Restart ==
  /\ LoseAll
  /\ pc' = [r \in Requests |-> IF r \in InFlight THEN "lost" ELSE pc[r]]
  /\ op' = [r \in Requests |-> NoOp]
  /\ order' = [r \in Requests |-> None]
  /\ mem' = [r \in Requests |-> Absent]
  /\ loaded' = [r \in Requests |-> Absent]
  /\ UNCHANGED <<rows, created, advances>>

\* The awaits of one request.
Answering(r) ==
  \/ Dispatch(r) \/ HandshakeEnds(r) \/ TriggerEnds(r)
  \/ SaveLoads(r) \/ SaveUpdates(r) \/ SaveInserts(r) \/ SaveConfirmed(r) \/ DatabaseFails(r)

Next ==
  \/ \E r \in Requests :
       \/ \E o \in OrderIds : CreateOrder(r, o) \/ Remove(r, o)
       \/ \E o \in created, p \in Ops : FindOne(r, p, o) \/ FindOneThrows(r, p, o)
       \/ Trigger(r)
       \/ Answering(r)
  \/ Restart

Spec == Init /\ [][Next]_vars

\* The database and the PLC or its time-out answer.
FairSpec == Spec /\ \A r \in Requests : WF_vars(Answering(r))

----------------------------------------------------------------------------
\* Types of the variables.
TypeOK ==
  /\ LockTypeOK
  /\ rows \in [OrderIds -> Row \cup {Absent}]
  /\ created \subseteq OrderIds
  /\ pc \in [Requests -> PcValues]
  /\ op \in [Requests -> Ops \cup {NoOp}]
  /\ order \in [Requests -> OrderIds \cup {None}]
  /\ mem \in [Requests -> Row \cup {Absent}]
  /\ loaded \in [Requests -> Row \cup {Absent}]
  /\ advances \in [OrderIds -> Nat]

\* Racing saves may lose an advance-step, but none is counted twice: an order
\* is never further than the advance-step requests whose save the database has
\* executed (answered, or failed or lost after it), whatever the interleaving
\* of stale saves, deletions, re-insertions and restarts.
StepNeverAhead ==
  \A o \in OrderIds : rows[o] # Absent => rows[o].step <= advances[o]

\* A deleted order that no request will still save.
GoneAtRest(o) ==
  /\ o \in created
  /\ rows[o] = Absent
  /\ \A r \in Requests : order[r] = o => pc[r] = "written"

\* A save may put a deleted order back, but only one that had read the order
\* before: once those requests have ended the order stays deleted.
DeletedAtRestStaysDeleted ==
  [][\A o \in OrderIds : GoneAtRest(o) => GoneAtRest(o)']_vars

\* The handshake of a start request is over before the order is saved, and
\* the plant is held by no request but one that is waiting for it.
HandshakeBeforeSave ==
  \A r \in Requests :
    /\ phase[r] = "running" <=> pc[r] \in {"dispatching", "triggered"}
    /\ holder = r <=> phase[r] = "running"

\* A request is answered or lost in a restart; a silent PLC does not hold the
\* request for ever, nor do the others that wait for the plant.
RequestsAreAnswered ==
  \A r \in Requests : pc[r] \in Waiting ~> pc[r] \in {"done", "failed", "lost"}

\* One PATCH at a time: an order moves along VALID_TRANSITIONS, or to
\* "released" from anywhere.
WorkflowState ==
  [o \in OrderIds |-> IF rows[o] # Absent THEN rows[o].status
                      ELSE IF o \in created THEN "deleted" ELSE "unborn"]
TableMoves == {m \in Statuses \X Statuses : m[2] \in Allowed(m[1])}
PatchMoves == TableMoves \cup (Statuses \X {"released"})

Workflow == INSTANCE OrderWorkflow
  WITH Orders <- OrderIds, Moves <- PatchMoves, state <- WorkflowState

FollowsWorkflow == Workflow!WorkflowSpec

----------------------------------------------------------------------------
\* What tests and documents say of the status, and the code does not do.

\* orders.service.ts:69, "Cannot transition from ...": apart from a release,
\* a PATCH outside the table is refused.
PatchesAreValidated ==
  [][\A o \in OrderIds :
       rows[o] # Absent /\ rows'[o] # Absent /\ rows'[o].status # rows[o].status
       => rows'[o].status \in Allowed(rows[o].status) \cup {"released"}]_vars
=============================================================================
