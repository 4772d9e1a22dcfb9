---------------------------- MODULE OrdersProofs ----------------------------
(***************************************************************************)
(* Proofs about Orders for any number of requests and orders, any set of   *)
(* operations and any number of requests in flight.                        *)
(***************************************************************************)
EXTENDS Timers, FiniteSetTheorems, TLAPS

USE DEF Requests, Waiting, PcValues, Statuses, Kinds, Phases, lockVars, requestVars

\* What a request under way carries: an operation, an order that exists or
\* existed, and an entity that is ahead of the advances executed by its own
\* advance at most.
Carried ==
  \A r \in Requests : pc[r] \in Waiting \ {"triggered"} =>
    /\ op[r] \in Ops
    /\ order[r] \in created
    /\ mem[r] \in Row
    /\ mem[r].step <= advances[order[r]] + (IF op[r].kind = "advance" THEN 1 ELSE 0)

Born == \A o \in OrderIds : rows[o] # Absent => o \in created

Inv == TypeOK /\ HandshakeBeforeSave /\ StepNeverAhead /\ Carried /\ Born

----------------------------------------------------------------------------
\* What the handlers make of a row is a row again.

LEMMA NewRowIsRow == NewRow \in Row /\ NewRow.step = 0 /\ NewRow # Absent
  BY DEF NewRow, Row, Absent

LEMMA AbsentIsNoRow == Absent \notin Row
  BY DEF Absent, Row

LEMMA FlagsType ==
  ASSUME NEW s, NEW f \in SUBSET {"uiOPos", "udiONo"}
  PROVE  FlagsFor(s, f) \in SUBSET {"uiOPos", "udiONo"}
  BY DEF FlagsFor

LEMMA AppliedType ==
  ASSUME NEW p \in Ops, NEW row \in Row
  PROVE  /\ Applied(p, row) \in Row
         /\ Applied(p, row).step = row.step + (IF p.kind = "advance" THEN 1 ELSE 0)
<1>1. /\ p.kind \in Kinds /\ p.to \in Statuses \cup {None} /\ p.qty \in Nat \cup {None}
      /\ Quantity \in Nat
  BY OrdersAssumption
<1>2. /\ row.status \in Statuses /\ row.started \in BOOLEAN /\ row.ended \in BOOLEAN
      /\ row.done \in Nat /\ row.flags \in SUBSET {"uiOPos", "udiONo"} /\ row.step \in Nat
  BY DEF Row
<1>3. CASE p.kind = "route"
  <2>1. p.to \in Statuses
    BY <1>3, OrdersAssumption
  <2>2. Routed(p, row) \in Row /\ Routed(p, row).step = row.step
    BY <1>1, <1>2, <2>1, FlagsType DEF Routed, Row
  <2>3. QED
    BY <1>3, <2>2, <1>2 DEF Applied
<1>4. CASE p.kind = "patch"
  <2>1. Patched(p, row) \in Row /\ Patched(p, row).step = row.step
    BY <1>1, <1>2, FlagsType DEF Patched, Row, Changes
  <2>2. QED
    BY <1>4, <2>1, <1>2 DEF Applied
<1>5. CASE p.kind = "advance"
  BY <1>2, <1>5 DEF Applied, Row
<1>6. QED
  BY <1>1, <1>3, <1>4, <1>5

LEMMA MergedType ==
  ASSUME NEW row \in Row, NEW m \in Row, NEW l \in Row
  PROVE  Merged(row, m, l) \in Row /\ Merged(row, m, l).step \in {row.step, m.step}
  BY DEF Merged, Row

----------------------------------------------------------------------------
LEMMA InitInv == Init => Inv
<1> SUFFICES ASSUME Init PROVE Inv
  OBVIOUS
<1> USE DEF Init, LockInit
<1>1. TypeOK
  BY NewRowIsRow DEF TypeOK, LockTypeOK
<1>2. HandshakeBeforeSave
  BY NoneIsNoCall DEF HandshakeBeforeSave
<1>3. StepNeverAhead /\ Carried /\ Born
  BY NewRowIsRow DEF StepNeverAhead, Carried, Born
<1>4. QED
  BY <1>1, <1>2, <1>3 DEF Inv

\* A request that ends leaves nothing behind and disturbs nobody.
LEMMA FinishInv ==
  ASSUME Inv, NEW r \in Requests, NEW res \in {"done", "failed"}, Finish(r, res),
         phase[r] # "running", UNCHANGED lockVars
  PROVE  /\ pc' \in [Requests -> PcValues]
         /\ op' \in [Requests -> Ops \cup {NoOp}]
         /\ order' \in [Requests -> OrderIds \cup {None}]
         /\ mem' \in [Requests -> Row \cup {Absent}]
         /\ loaded' \in [Requests -> Row \cup {Absent}]
         /\ LockTypeOK'
         /\ HandshakeBeforeSave'
<1> USE DEF Inv, TypeOK, Finish
<1>1. LockTypeOK'
  BY DEF LockTypeOK
<1>2. HandshakeBeforeSave'
  BY DEF HandshakeBeforeSave
<1>3. QED
  BY <1>1, <1>2

\* Requests that are answered by the code up to their first await.
LEMMA ShortInv ==
  ASSUME Inv, NEW r \in Requests,
         NEW o \in OrderIds,
         \/ CreateOrder(r, o) \/ Remove(r, o)
         \/ \E p \in Ops : FindOneThrows(r, p, o)
  PROVE  Inv'
<1> USE DEF Inv
<1>1. phase[r] # "running"
  BY DEF CreateOrder, Remove, FindOneThrows, Arrives, HandshakeBeforeSave
<1>2. CASE CreateOrder(r, o)
  <2> USE <1>2 DEF CreateOrder
  <2>1. TypeOK' /\ HandshakeBeforeSave'
    BY <1>1, FinishInv, NewRowIsRow DEF TypeOK
  <2>2. StepNeverAhead'
    BY NewRowIsRow DEF StepNeverAhead, TypeOK
  <2>3. Carried'
    BY DEF Carried, Finish, TypeOK
  <2>4. Born'
    BY DEF Born, TypeOK
  <2>5. QED
    BY <2>1, <2>2, <2>3, <2>4
<1>3. CASE Remove(r, o)
  <2> USE <1>3 DEF Remove
  <2>1. TypeOK' /\ HandshakeBeforeSave'
    BY <1>1, FinishInv DEF TypeOK
  <2>2. StepNeverAhead' /\ Born'
    BY DEF StepNeverAhead, Born, TypeOK
  <2>3. Carried'
    BY DEF Carried, Finish, TypeOK
  <2>4. QED
    BY <2>1, <2>2, <2>3
<1>4. CASE \E p \in Ops : FindOneThrows(r, p, o)
  <2> USE <1>4 DEF FindOneThrows
  <2>1. TypeOK' /\ HandshakeBeforeSave'
    BY <1>1, FinishInv DEF TypeOK
  <2>2. StepNeverAhead' /\ Born'
    BY DEF StepNeverAhead, Born
  <2>3. Carried'
    BY DEF Carried, Finish, TypeOK
  <2>4. QED
    BY <2>1, <2>2, <2>3
<1>5. QED
  BY <1>2, <1>3, <1>4

LEMMA FindOneInv ==
  ASSUME Inv, NEW r \in Requests, NEW o \in created, NEW p \in Ops, FindOne(r, p, o)
  PROVE  Inv'
<1> USE DEF Inv, FindOne
<1>1. rows[o] \in Row /\ o \in OrderIds /\ rows[o].step \in Nat /\ rows[o].step <= advances[o]
      /\ advances[o] \in Nat
  BY DEF TypeOK, StepNeverAhead, Row
<1>2. /\ Applied(p, rows[o]) \in Row
      /\ Applied(p, rows[o]).step = rows[o].step + (IF p.kind = "advance" THEN 1 ELSE 0)
  BY <1>1, AppliedType
<1>3. TypeOK'
  BY <1>1, <1>2 DEF TypeOK, LockTypeOK
<1>4. HandshakeBeforeSave'
  BY DEF HandshakeBeforeSave, Arrives, TypeOK
<1>5. StepNeverAhead' /\ Born'
  BY DEF StepNeverAhead, Born
<1>6. Carried'
  <2>1. op'[r] = p /\ order'[r] = o /\ mem'[r] = Applied(p, rows[o])
    BY DEF TypeOK
  <2>2. Applied(p, rows[o]).step <= advances[o] + (IF p.kind = "advance" THEN 1 ELSE 0)
    BY <1>1, <1>2
  <2>3. \A q \in Requests \ {r} : pc'[q] = pc[q] /\ op'[q] = op[q] /\ order'[q] = order[q]
                                 /\ mem'[q] = mem[q]
    BY DEF TypeOK
  <2>4. QED
    BY <1>2, <2>1, <2>2, <2>3 DEF Carried
<1>7. QED
  BY <1>3, <1>4, <1>5, <1>6

\* Steps that take, wait for or give back the plant.
LEMMA LockInv ==
  ASSUME Inv, NEW r \in Requests,
         Dispatch(r) \/ HandshakeEnds(r) \/ Trigger(r) \/ TriggerEnds(r)
  PROVE  Inv'
<1> USE DEF Inv, Dispatch, HandshakeEnds, Trigger, TriggerEnds
<1>1. TypeOK'
  BY DEF TypeOK, LockTypeOK, Admit, Refuse, Settle
<1>2. HandshakeBeforeSave'
  BY NoneIsNoCall DEF HandshakeBeforeSave, TypeOK, LockTypeOK, Admit, Refuse, Settle, Arrives
<1>3. StepNeverAhead' /\ Born'
  BY DEF StepNeverAhead, Born
<1>4. Carried'
  BY DEF Carried, TypeOK, Arrives
<1>5. QED
  BY <1>1, <1>2, <1>3, <1>4

\* The steps of save(), and a database that fails.
LEMMA SaveInv ==
  ASSUME Inv, NEW r \in Requests,
         SaveLoads(r) \/ SaveUpdates(r) \/ SaveInserts(r) \/ SaveConfirmed(r) \/ DatabaseFails(r)
  PROVE  Inv'
<1> USE DEF Inv
<1>1. CASE SaveLoads(r)
  <2> USE <1>1 DEF SaveLoads
  <2>1. order[r] \in OrderIds
    BY DEF Carried, TypeOK
  <2>2. TypeOK'
    BY <2>1 DEF TypeOK, LockTypeOK
  <2>3. HandshakeBeforeSave'
    BY DEF HandshakeBeforeSave, TypeOK
  <2>4. StepNeverAhead' /\ Born' /\ Carried'
    BY DEF StepNeverAhead, Born, Carried, TypeOK
  <2>5. QED
    BY <2>2, <2>3, <2>4
<1>2. CASE SaveUpdates(r) \/ SaveInserts(r)
  <2> DEFINE o == order[r]
  <2>1. /\ pc[r] = "write" /\ pc' = [pc EXCEPT ![r] = "written"] /\ Counted(r)
        /\ UNCHANGED <<lockVars, created, op, order, mem, loaded>>
    BY <1>2 DEF SaveUpdates, SaveInserts
  <2>2. /\ o \in created /\ o \in OrderIds /\ mem[r] \in Row /\ op[r] \in Ops
        /\ mem[r].step <= advances[o] + (IF op[r].kind = "advance" THEN 1 ELSE 0)
        /\ mem[r].step \in Nat
    BY <2>1 DEF Carried, TypeOK, Row
  <2>3. /\ advances' \in [OrderIds -> Nat]
        /\ advances'[o] = advances[o] + (IF op[r].kind = "advance" THEN 1 ELSE 0)
        /\ \A q \in OrderIds : advances[q] <= advances'[q]
    BY <2>1, <2>2 DEF Counted, TypeOK
  <2>4. /\ rows' \in [OrderIds -> Row \cup {Absent}]
        /\ \A q \in OrderIds \ {o} : rows'[q] = rows[q]
        /\ rows'[o] # Absent => /\ rows'[o] \in Row
                               /\ \/ rows'[o].step = mem[r].step
                                  \/ rows[o] # Absent /\ rows'[o].step = rows[o].step
    <3>1. CASE SaveInserts(r)
      BY <2>2, <3>1 DEF SaveInserts, TypeOK
    <3>2. CASE SaveUpdates(r) /\ rows[o] = Absent
      BY <2>2, <3>2 DEF SaveUpdates, TypeOK
    <3>3. CASE SaveUpdates(r) /\ rows[o] # Absent
      <4>1. rows[o] \in Row /\ loaded[r] \in Row
        BY <2>2, <3>3 DEF SaveUpdates, TypeOK
      <4>2. rows' = [rows EXCEPT ![o] = Merged(rows[o], mem[r], loaded[r])]
        BY <3>3 DEF SaveUpdates
      <4>3. /\ Merged(rows[o], mem[r], loaded[r]) \in Row
            /\ Merged(rows[o], mem[r], loaded[r]).step \in {rows[o].step, mem[r].step}
        BY <2>2, <4>1, MergedType
      <4>4. QED
        BY <2>2, <3>3, <4>2, <4>3 DEF TypeOK
    <3>4. QED
      BY <1>2, <3>1, <3>2, <3>3
  <2>5. TypeOK' /\ HandshakeBeforeSave'
    BY <2>1, <2>3, <2>4 DEF TypeOK, LockTypeOK, HandshakeBeforeSave
  <2>6. StepNeverAhead'
    <3>1. ASSUME NEW q \in OrderIds, rows'[q] # Absent PROVE rows'[q].step <= advances'[q]
      <4>1. CASE q # o
        <5>1. rows[q] \in Row /\ rows[q].step \in Nat /\ rows[q].step <= advances[q]
          BY <2>4, <3>1, <4>1 DEF StepNeverAhead, TypeOK, Row
        <5>2. QED
          BY <2>3, <2>4, <4>1, <5>1 DEF TypeOK
      <4>2. CASE q = o
        <5>1. CASE rows'[o].step = mem[r].step
          BY <2>2, <2>3, <4>2, <5>1
        <5>2. CASE rows[o] # Absent /\ rows'[o].step = rows[o].step
          <6>1. rows[o].step \in Nat /\ rows[o].step <= advances[o]
            BY <2>2, <5>2 DEF StepNeverAhead, TypeOK, Row
          <6>2. QED
            BY <2>2, <2>3, <4>2, <5>2, <6>1 DEF TypeOK
        <5>3. QED
          BY <2>4, <3>1, <4>2, <5>1, <5>2
      <4>3. QED
        BY <4>1, <4>2
    <3>2. QED
      BY <3>1 DEF StepNeverAhead
  <2>7. Born'
    BY <2>1, <2>2, <2>4 DEF Born
  <2>8. Carried'
    <3>1. ASSUME NEW q \in Requests, pc'[q] \in Waiting \ {"triggered"}
          PROVE  /\ op'[q] \in Ops /\ order'[q] \in created' /\ mem'[q] \in Row
                 /\ mem'[q].step <= advances'[order'[q]]
                                     + (IF op'[q].kind = "advance" THEN 1 ELSE 0)
      <4>1. /\ pc[q] \in Waiting \ {"triggered"}
            /\ op'[q] = op[q] /\ order'[q] = order[q] /\ mem'[q] = mem[q]
        BY <2>1, <3>1 DEF TypeOK
      <4>2. /\ op[q] \in Ops /\ order[q] \in created /\ mem[q] \in Row
            /\ mem[q].step <= advances[order[q]] + (IF op[q].kind = "advance" THEN 1 ELSE 0)
        BY <3>1, <4>1 DEF Carried
      <4>3. /\ order[q] \in OrderIds /\ mem[q].step \in Nat
            /\ advances[order[q]] \in Nat /\ advances'[order[q]] \in Nat
            /\ advances[order[q]] <= advances'[order[q]]
        BY <2>3, <4>2 DEF TypeOK, Row
      <4>4. QED
        BY <2>1, <4>1, <4>2, <4>3
    <3>2. QED
      BY <3>1 DEF Carried
  <2>9. QED
    BY <2>5, <2>6, <2>7, <2>8
<1>3. CASE SaveConfirmed(r) \/ DatabaseFails(r)
  <2> USE <1>3 DEF SaveConfirmed, DatabaseFails
  <2>1. phase[r] # "running"
    BY DEF HandshakeBeforeSave
  <2>2. TypeOK' /\ HandshakeBeforeSave'
    BY <2>1, FinishInv DEF TypeOK
  <2>3. StepNeverAhead' /\ Born' /\ Carried'
    BY DEF StepNeverAhead, Born, Carried, Finish, TypeOK
  <2>4. QED
    BY <2>2, <2>3
<1>4. QED
  BY <1>1, <1>2, <1>3

LEMMA RestartInv ==
  ASSUME Inv, Restart PROVE Inv'
<1> USE DEF Inv, Restart, LoseAll
<1>1. TypeOK'
  BY DEF TypeOK, LockTypeOK, InFlight
<1>2. \A r \in Requests : pc'[r] \notin Waiting /\ phase'[r] # "running"
  BY DEF TypeOK, LockTypeOK, InFlight
<1>3. HandshakeBeforeSave' /\ Carried'
  BY <1>2, NoneIsNoCall DEF HandshakeBeforeSave, Carried
<1>4. StepNeverAhead' /\ Born'
  BY DEF StepNeverAhead, Born
<1>5. QED
  BY <1>1, <1>3, <1>4

LEMMA StepInv == Inv /\ [Next]_vars => Inv'
<1> SUFFICES ASSUME Inv, [Next]_vars PROVE Inv'
  OBVIOUS
<1>1. ASSUME NEW r \in Requests, NEW o \in created, NEW p \in Ops,
             FindOne(r, p, o) \/ FindOneThrows(r, p, o)
      PROVE  Inv'
  BY <1>1, FindOneInv, ShortInv DEF Inv, TypeOK
<1>2. ASSUME NEW r \in Requests, NEW o \in OrderIds, CreateOrder(r, o) \/ Remove(r, o)
      PROVE  Inv'
  BY <1>2, ShortInv
<1>3. ASSUME NEW r \in Requests, Trigger(r) \/ Answering(r) PROVE Inv'
  BY <1>3, LockInv, SaveInv DEF Answering
<1>4. CASE UNCHANGED vars
  BY <1>4 DEF vars, Inv, TypeOK, LockTypeOK, HandshakeBeforeSave, StepNeverAhead, Carried, Born
<1>5. QED
  BY <1>1, <1>2, <1>3, <1>4, RestartInv DEF Next

LEMMA Invariance == Spec => []Inv
  BY InitInv, StepInv, PTL DEF Spec

\* Type correctness, for any number of concurrent requests.
THEOREM TypeCorrect == Spec => []TypeOK
  BY Invariance, PTL DEF Inv

\* Stale saves, deletions, insertions, failures and restarts in any order never
\* put an order further than the advance-steps the database has executed.
THEOREM NoInventedSteps == Spec => []StepNeverAhead
  BY Invariance, PTL DEF Inv

\* The plant is held by exactly the requests that wait for their handshake;
\* none of them is saving.
THEOREM SavesFollowHandshakes == Spec => []HandshakeBeforeSave
  BY Invariance, PTL DEF Inv

LEMMA GoneStep ==
  ASSUME Inv, [Next]_vars, NEW o \in OrderIds, GoneAtRest(o) PROVE GoneAtRest(o)'
<1> USE DEF Inv, GoneAtRest
<1>1. ASSUME NEW r \in Requests, NEW p \in Ops, NEW q \in created,
             FindOne(r, p, q) \/ FindOneThrows(r, p, q)
      PROVE  GoneAtRest(o)'
  BY <1>1, OrdersAssumption DEF FindOne, FindOneThrows, Finish, TypeOK
<1>2. ASSUME NEW r \in Requests, NEW q \in OrderIds, CreateOrder(r, q) \/ Remove(r, q)
      PROVE  GoneAtRest(o)'
  BY <1>2, OrdersAssumption DEF CreateOrder, Remove, Finish, TypeOK
<1>3. ASSUME NEW r \in Requests, Trigger(r) \/ Dispatch(r) \/ HandshakeEnds(r) \/ TriggerEnds(r)
      PROVE  GoneAtRest(o)'
  <2>1. /\ pc[r] # "written" /\ UNCHANGED <<rows, created, order>>
        /\ \A q \in Requests \ {r} : pc'[q] = pc[q]
    BY <1>3 DEF Trigger, Dispatch, HandshakeEnds, TriggerEnds, Arrives, TypeOK
  <2> QED BY <2>1
<1>4. ASSUME NEW r \in Requests,
             SaveLoads(r) \/ SaveUpdates(r) \/ SaveInserts(r) \/ SaveConfirmed(r) \/ DatabaseFails(r)
      PROVE  GoneAtRest(o)'
  <2>1. rows'[o] = rows[o] /\ created' = created
    BY <1>4 DEF SaveLoads, SaveUpdates, SaveInserts, SaveConfirmed, DatabaseFails, TypeOK
  <2>2. (order'[r] = order[r] /\ order[r] # o) \/ order'[r] = None
    BY <1>4 DEF SaveLoads, SaveUpdates, SaveInserts, SaveConfirmed, DatabaseFails, Finish, TypeOK
  <2>3. \A q \in Requests \ {r} : order'[q] = order[q] /\ pc'[q] = pc[q]
    BY <1>4 DEF SaveLoads, SaveUpdates, SaveInserts, SaveConfirmed, DatabaseFails, Finish, TypeOK
  <2>4. QED
    BY <2>1, <2>2, <2>3, OrdersAssumption
<1>5. CASE Restart
  BY <1>5, OrdersAssumption DEF Restart
<1>6. CASE UNCHANGED vars
  BY <1>6 DEF vars
<1>7. QED
  BY <1>1, <1>2, <1>3, <1>4, <1>5, <1>6 DEF Next, Answering

\* Once the requests that had read a deleted order are over, no request can
\* bring it back.
THEOREM NoLateResurrection == Spec => DeletedAtRestStaysDeleted
<1>1. Inv /\ [Next]_vars => [\A o \in OrderIds : GoneAtRest(o) => GoneAtRest(o)']_vars
  BY GoneStep
<1>2. QED
  BY <1>1, Invariance, PTL DEF Spec, DeletedAtRestStaysDeleted
----------------------------------------------------------------------------
\* One request at a time, and no status route: what VALID_TRANSITIONS governs.
Serial == MaxInFlight = 1 /\ \A p \in Ops : p.kind # "route"

Working == {r \in Requests : pc[r] \in Waiting \ {"triggered", "written"}}

\* The request under way is alone, and works on the row as it still is.
Alone ==
  /\ IsFiniteSet(InFlight)
  /\ \A r, q \in InFlight : r = q
  /\ \A r \in Working :
       /\ rows[order[r]] # Absent
       /\ ~Rejects(op[r], rows[order[r]])
       /\ mem[r] = Applied(op[r], rows[order[r]])
       /\ pc[r] = "write" => loaded[r] = rows[order[r]]

LEMMA NobodyElse ==
  ASSUME Serial, Alone, NEW r \in Requests, Arrives(r)
  PROVE  InFlight = {}
<1>1. Cardinality(InFlight) \in Nat /\ Cardinality(InFlight) < 1
  BY FS_CardinalityType DEF Alone, Arrives, Serial
<1>2. QED
  BY <1>1, FS_EmptySet DEF Alone

\* A request is the only one under way after a step that adds no other.
LEMMA StaysAlone ==
  ASSUME Inv, Alone, NEW r \in Requests, InFlight \subseteq {r},
         \A q \in Requests \ {r} : pc'[q] = pc[q]
  PROVE  IsFiniteSet(InFlight') /\ \A q, s \in InFlight' : q = s
<1>1. InFlight' \subseteq {r}
  BY DEF InFlight
<1>2. IsFiniteSet({r})
  BY FS_Singleton
<1>3. IsFiniteSet(InFlight')
  BY <1>1, <1>2, FS_Subset
<1>4. QED
  BY <1>1, <1>3

\* An UPDATE computed from the row as it is writes the entity.
LEMMA MergedAlone ==
  ASSUME NEW row \in Row, NEW m \in Row PROVE Merged(row, m, row) = m
  BY DEF Merged, Row

\* What the table allows of one request.
LEMMA AppliedMoves ==
  ASSUME Serial, NEW p \in Ops, NEW row \in Row, ~Rejects(p, row)
  PROVE  LET s == Applied(p, row).status IN
         s = row.status \/ (s \in Statuses /\ <<row.status, s>> \in PatchMoves)
<1>1. row.status \in Statuses /\ p.kind \in {"patch", "advance"} /\ p.to \in Statuses \cup {None}
  BY OrdersAssumption DEF Row, Serial
<1>2. CASE p.kind = "advance"
  BY <1>2 DEF Applied, Row
<1>3. CASE p.kind = "patch"
  <2>1. Applied(p, row).status = IF p.to = None THEN row.status ELSE p.to
    BY <1>3 DEF Applied, Patched, Row
  <2>2. CASE p.to = None \/ p.to = row.status
    BY <2>1, <2>2
  <2>3. CASE p.to = "released"
    BY <1>1, <2>1, <2>3, OrdersAssumption DEF PatchMoves
  <2>4. CASE p.to # None /\ p.to # "released" /\ p.to # row.status
    <3>1. p.to \in Statuses /\ p.to \in Allowed(row.status)
      BY <1>1, <1>3, <2>4 DEF Rejects, Changes
    <3>2. <<row.status, p.to>> \in TableMoves
      BY <1>1, <3>1 DEF TableMoves
    <3>3. QED
      BY <2>1, <2>4, <3>1, <3>2 DEF PatchMoves
  <2>5. QED
    BY <2>2, <2>3, <2>4
<1>4. QED
  BY <1>1, <1>2, <1>3

LEMMA AloneStep ==
  ASSUME Serial, Inv, Alone, [Next]_vars PROVE Alone'
<1> USE DEF Inv, TypeOK
<1>1. ASSUME NEW r \in Requests, NEW o \in OrderIds,
             CreateOrder(r, o) \/ Remove(r, o) \/ \E p \in Ops : FindOneThrows(r, p, o)
      PROVE  Alone'
  <2>1. InFlight = {}
    BY <1>1, NobodyElse DEF CreateOrder, Remove, FindOneThrows
  <2>2. pc'[r] \notin Waiting /\ \A q \in Requests \ {r} : pc'[q] = pc[q]
    BY <1>1 DEF CreateOrder, Remove, FindOneThrows, Finish
  <2>3. InFlight' = {}
    BY <2>1, <2>2 DEF InFlight
  <2>4. Working' = {}
    BY <2>3 DEF InFlight, Working
  <2>5. QED
    BY <2>3, <2>4, FS_EmptySet DEF Alone
<1>2. ASSUME NEW r \in Requests, NEW o \in created, NEW p \in Ops, FindOne(r, p, o)
      PROVE  Alone'
  <2>1. InFlight = {}
    BY <1>2, NobodyElse DEF FindOne
  <2>2. /\ pc'[r] \in {"dispatch", "save"} /\ op'[r] = p /\ order'[r] = o /\ rows' = rows
        /\ mem'[r] = Applied(p, rows[o]) /\ rows[o] # Absent /\ ~Rejects(p, rows[o])
        /\ \A q \in Requests \ {r} : pc'[q] = pc[q]
    BY <1>2 DEF FindOne
  <2>3. Working' \subseteq {r}
    BY <2>1, <2>2 DEF InFlight, Working
  <2>4. QED
    BY <2>1, <2>2, <2>3, StaysAlone DEF Alone
<1>3. ASSUME NEW r \in Requests, Trigger(r)
      PROVE  Alone'
  <2>1. InFlight = {}
    BY <1>3, NobodyElse DEF Trigger
  <2>2. pc'[r] \in {"triggered", "done"} /\ \A q \in Requests \ {r} : pc'[q] = pc[q]
    BY <1>3 DEF Trigger
  <2>3. Working' = {}
    BY <2>1, <2>2 DEF InFlight, Working
  <2>4. QED
    BY <2>1, <2>2, <2>3, StaysAlone DEF Alone
<1>4. ASSUME NEW r \in Requests, Answering(r)
      PROVE  Alone'
  <2>1. r \in InFlight /\ InFlight \subseteq {r}
    BY <1>4 DEF Alone, InFlight, Answering, Dispatch, HandshakeEnds, TriggerEnds, SaveLoads,
       SaveUpdates, SaveInserts, SaveConfirmed, DatabaseFails
  <2>2. \A q \in Requests \ {r} : pc'[q] = pc[q]
    BY <1>4 DEF Answering, Dispatch, HandshakeEnds, TriggerEnds, SaveLoads,
       SaveUpdates, SaveInserts, SaveConfirmed, DatabaseFails, Finish
  <2>3. IsFiniteSet(InFlight') /\ \A q, s \in InFlight' : q = s
    BY <2>1, <2>2, StaysAlone
  <2>4. Working' \subseteq {r}
    BY <2>1, <2>2 DEF InFlight, Working
  <2>5. CASE Dispatch(r) \/ HandshakeEnds(r)
    BY <2>3, <2>4, <2>5 DEF Dispatch, HandshakeEnds, Alone, Working
  <2>6. CASE SaveLoads(r)
    BY <2>3, <2>4, <2>6 DEF SaveLoads, Alone, Working
  <2>7. CASE TriggerEnds(r) \/ SaveUpdates(r) \/ SaveInserts(r) \/ SaveConfirmed(r) \/ DatabaseFails(r)
    <3>1. pc'[r] \notin Waiting \ {"written"}
      BY <2>7 DEF TriggerEnds, SaveUpdates, SaveInserts, SaveConfirmed, DatabaseFails, Finish
    <3>2. Working' = {}
      BY <2>4, <3>1 DEF Working
    <3>3. QED
      BY <2>3, <3>2 DEF Alone
  <2>8. QED
    BY <1>4, <2>5, <2>6, <2>7 DEF Answering
<1>5. CASE Restart
  <2>1. InFlight' = {}
    BY <1>5 DEF Restart, InFlight
  <2>2. Working' = {}
    BY <2>1 DEF InFlight, Working
  <2>3. QED
    BY <2>1, <2>2, FS_EmptySet DEF Alone
<1>6. CASE UNCHANGED vars
  BY <1>6 DEF vars, Alone, InFlight, Working
<1>7. QED
  BY <1>1, <1>2, <1>3, <1>4, <1>5, <1>6 DEF Next

LEMMA AloneInit == Init => Alone
<1> SUFFICES ASSUME Init PROVE Alone
  OBVIOUS
<1>1. InFlight = {} /\ Working = {}
  BY DEF Init, InFlight, Working
<1>2. QED
  BY <1>1, FS_EmptySet DEF Alone

\* A step of the requests is a step of the workflow, or none.
LEMMA WorkflowStep ==
  ASSUME Serial, Inv, Alone, [Next]_vars
  PROVE  [Workflow!WorkflowNext]_WorkflowState
<1> USE DEF Inv, TypeOK
<1> USE AbsentIsNoRow
<1>1. CASE rows' = rows /\ created' = created
  BY <1>1 DEF WorkflowState
<1>2. ASSUME NEW r \in Requests, NEW o \in OrderIds, CreateOrder(r, o)
      PROVE  Workflow!WorkflowNext
  <2>1. rows[o] = Absent /\ o \notin created
    BY <1>2 DEF CreateOrder, Born
  <2>2. WorkflowState' = [WorkflowState EXCEPT ![o] = "pending"]
    BY <1>2, <2>1, NewRowIsRow DEF CreateOrder, WorkflowState, NewRow
  <2>3. WorkflowState[o] = "unborn"
    BY <2>1 DEF WorkflowState
  <2>4. QED
    BY <2>2, <2>3 DEF Workflow!WorkflowNext, Workflow!Create
<1>3. ASSUME NEW r \in Requests, NEW o \in OrderIds, Remove(r, o)
      PROVE  [Workflow!WorkflowNext]_WorkflowState
  <2>1. CASE rows[o] = Absent
    <3>1. rows' = rows
      BY <1>3, <2>1 DEF Remove
    <3>2. QED
      BY <1>1, <1>3, <3>1 DEF Remove
  <2>2. CASE rows[o] # Absent
    <3>1. WorkflowState' = [WorkflowState EXCEPT ![o] = "deleted"]
      BY <1>3 DEF Remove, WorkflowState
    <3>2. WorkflowState[o] \in Statuses
      BY <2>2 DEF WorkflowState, Row
    <3>3. QED
      BY <3>1, <3>2 DEF Workflow!WorkflowNext, Workflow!Delete
  <2>3. QED
    BY <2>1, <2>2
<1>4. ASSUME NEW r \in Requests, SaveUpdates(r) \/ SaveInserts(r)
      PROVE  [Workflow!WorkflowNext]_WorkflowState
  <2> DEFINE o == order[r]
             row == rows[o]
  <2>1. /\ r \in Working /\ pc[r] = "write" /\ op[r] \in Ops /\ o \in OrderIds
        /\ created' = created
    BY <1>4 DEF SaveUpdates, SaveInserts, Carried, Working
  <2>2. /\ row # Absent /\ row \in Row /\ ~Rejects(op[r], row) /\ loaded[r] = row
        /\ mem[r] = Applied(op[r], row) /\ mem[r] \in Row
    BY <2>1, AppliedType DEF Alone
  <2>3. rows' = [rows EXCEPT ![o] = mem[r]]
    BY <1>4, <2>1, <2>2, MergedAlone DEF SaveUpdates, SaveInserts
  <2>4. mem[r] # Absent /\ WorkflowState[o] = row.status
    BY <2>1, <2>2 DEF WorkflowState
  <2>5. WorkflowState' = [WorkflowState EXCEPT ![o] = mem[r].status]
    BY <2>1, <2>3, <2>4 DEF WorkflowState
  <2>6. \/ mem[r].status = row.status
        \/ mem[r].status \in Statuses /\ <<row.status, mem[r].status>> \in PatchMoves
    BY <2>1, <2>2, AppliedMoves
  <2>7. CASE mem[r].status = row.status
    <3>1. WorkflowState' = WorkflowState
      BY <2>4, <2>5, <2>7 DEF WorkflowState
    <3>2. QED
      BY <3>1
  <2>8. CASE mem[r].status \in Statuses /\ <<row.status, mem[r].status>> \in PatchMoves
    BY <2>1, <2>4, <2>5, <2>8 DEF Workflow!WorkflowNext, Workflow!Move
  <2>9. QED
    BY <2>6, <2>7, <2>8
<1>5. ASSUME NEW r \in Requests,
             \/ \E o \in created, p \in Ops : FindOne(r, p, o) \/ FindOneThrows(r, p, o)
             \/ Trigger(r) \/ Dispatch(r) \/ HandshakeEnds(r) \/ TriggerEnds(r)
             \/ SaveLoads(r) \/ SaveConfirmed(r) \/ DatabaseFails(r)
      PROVE  rows' = rows /\ created' = created
  BY <1>5 DEF FindOne, FindOneThrows, Trigger, Dispatch, HandshakeEnds, TriggerEnds,
     SaveLoads, SaveConfirmed, DatabaseFails
<1>6. CASE Restart \/ UNCHANGED vars
  BY <1>1, <1>6 DEF Restart, vars
<1>7. QED
  BY <1>1, <1>2, <1>3, <1>4, <1>5, <1>6 DEF Next, Answering

LEMMA WorkflowStart == Init => Workflow!WorkflowInit
  BY NewRowIsRow DEF Init, WorkflowState, NewRow, Workflow!WorkflowInit

\* Requests that come one at a time implement the workflow: whatever fails, is
\* restarted or waits for a handshake, an order moves along VALID_TRANSITIONS or
\* is released, and a deleted one does not come back.
THEOREM SerialRequestsFollowTheTable ==
  ASSUME Serial PROVE Spec => FollowsWorkflow
<1>1. Inv /\ Alone /\ [Next]_vars => Alone'
  BY AloneStep
<1>2. Inv /\ Alone /\ [Next]_vars => [Workflow!WorkflowNext]_WorkflowState
  BY WorkflowStep
<1>3. QED
  BY <1>1, <1>2, AloneInit, WorkflowStart, Invariance, PTL
     DEF Spec, FollowsWorkflow, Workflow!WorkflowSpec

\* So the status never leaves the table except for a release: what a PATCH
\* checks is lost only when two requests overlap, or a status route is used.
THEOREM SerialPatchesAreValidated ==
  ASSUME Serial PROVE Spec => PatchesAreValidated
<1> DEFINE Validated ==
      \A o \in OrderIds :
        rows[o] # Absent /\ rows'[o] # Absent /\ rows'[o].status # rows[o].status
        => rows'[o].status \in Allowed(rows[o].status) \cup {"released"}
<1>1. Inv /\ Alone /\ [Next]_vars => Alone'
  BY AloneStep
<1>2. Inv /\ Inv' /\ Alone /\ [Next]_vars => [Validated]_vars
  <2> SUFFICES ASSUME Inv, Inv', Alone, [Next]_vars, NEW o \in OrderIds,
                      rows[o] # Absent, rows'[o] # Absent, rows'[o].status # rows[o].status
               PROVE  rows'[o].status \in Allowed(rows[o].status) \cup {"released"}
    OBVIOUS
  <2>1. WorkflowState[o] = rows[o].status /\ WorkflowState'[o] = rows'[o].status
    BY DEF WorkflowState
  <2>2. rows[o].status \in Statuses /\ rows'[o].status \in Statuses
    BY AbsentIsNoRow DEF Inv, TypeOK, Row
  <2>3. [Workflow!WorkflowNext]_WorkflowState
    BY WorkflowStep
  <2>4. PICK p \in OrderIds :
          Workflow!Create(p) \/ Workflow!Delete(p) \/ \E s \in Statuses : Workflow!Move(p, s)
    BY <2>1, <2>3 DEF Workflow!WorkflowNext
  <2>5. p = o
    <3>1. DOMAIN WorkflowState = OrderIds /\ WorkflowState'[o] # WorkflowState[o]
      BY <2>1 DEF WorkflowState
    <3>2. \E v : WorkflowState' = [WorkflowState EXCEPT ![p] = v]
      BY <2>4 DEF Workflow!Create, Workflow!Delete, Workflow!Move
    <3> QED BY <3>1, <3>2
  <2>6. WorkflowState[o] # "unborn" /\ WorkflowState'[o] # "deleted"
    BY <2>1, <2>2
  <2>7. DOMAIN WorkflowState = OrderIds
    BY DEF WorkflowState
  <2>8. PICK s \in Statuses : Workflow!Move(o, s)
    BY <2>4, <2>5, <2>6, <2>7 DEF Workflow!Create, Workflow!Delete
  <2>9. <<rows[o].status, rows'[o].status>> \in PatchMoves
    BY <2>1, <2>7, <2>8 DEF Workflow!Move
  <2> QED BY <2>9 DEF PatchMoves, TableMoves
<1>3. QED
  BY <1>1, <1>2, AloneInit, StepInv, Invariance, PTL DEF Spec, PatchesAreValidated

----------------------------------------------------------------------------
\* The parts that go on under a timer.

\* A click of the page posts a path, and a route of the backend sets a status.
LEMMA ButtonsArePaths ==
  ASSUME NEW v \in OrderList!Values
  PROVE  OrderList!Buttons(v) \subseteq OrderList!Routed \cup OrderList!Statuses
<1>1. OrderList!Menu[v] \subseteq OrderList!Statuses
  BY DEF OrderList!Menu, OrderList!Values, OrderList!Statuses
<1>2. \A to \in OrderList!Statuses :
        OrderList!Path(to) \in OrderList!Routed \cup OrderList!Statuses
  BY DEF OrderList!Path, OrderList!Routed, OrderList!Routes, OrderList!Statuses
<1> QED BY <1>1, <1>2 DEF OrderList!Buttons, OrderList!Routed

LEMMA RoutesSetStatuses ==
  ASSUME NEW c \in OrderList!Routed \ {"edit", "delete"}
  PROVE  OrderList!Routes[c] \in OrderList!Statuses
  BY DEF OrderList!Routed, OrderList!Routes, OrderList!Statuses

LEMMA PageStep ==
  ASSUME OrderList!PageTypeOK, OrderList!PageNext
  PROVE  OrderList!PageTypeOK'
<1> USE DEF OrderList!PageTypeOK
<1>1. CASE OrderList!OthersWrite
  BY <1>1 DEF OrderList!OthersWrite
<1>2. CASE OrderList!ReadsList \/ OrderList!ReadsEmpty
  BY <1>2 DEF OrderList!ReadsList, OrderList!ReadsEmpty, OrderList!Values
<1>3. ASSUME NEW p \in Polls, OrderList!ListAnswered(p) \/ OrderList!ListLost(p)
      PROVE  OrderList!PageTypeOK'
  BY <1>3 DEF OrderList!ListAnswered, OrderList!ListLost
<1>4. ASSUME NEW k \in Clicks, OrderList!Click(k)
      PROVE  OrderList!PageTypeOK'
  BY <1>4, ButtonsArePaths DEF OrderList!Click
<1>5. ASSUME NEW k \in Clicks, OrderList!Served(k)
      PROVE  OrderList!PageTypeOK'
  <2>1. db' \in OrderList!Values
    BY <1>5, RoutesSetStatuses DEF OrderList!Served, OrderList!Values
  <2> QED BY <1>5, <2>1 DEF OrderList!Served
<1> QED BY <1>1, <1>2, <1>3, <1>4, <1>5 DEF OrderList!PageNext

LEMMA FeedStep ==
  ASSUME Feed!FeedTypeOK, Feed!FeedNext
  PROVE  Feed!FeedTypeOK'
<1> USE DEF Feed!FeedTypeOK
<1>1. CASE Feed!Heartbeat
  BY <1>1 DEF Feed!Heartbeat
<1>2. CASE Feed!FeedRestart
  BY <1>2 DEF Feed!FeedRestart
<1>3. ASSUME NEW c \in Sockets, Feed!Connects(c)
      PROVE  Feed!FeedTypeOK'
  BY <1>3 DEF Feed!Connects
<1>4. ASSUME NEW c \in Sockets,
             \/ Feed!Pongs(c) \/ Feed!PongArrives(c) \/ Feed!PingLost(c)
             \/ Feed!Closes(c) \/ Feed!Vanishes(c) \/ Feed!CloseArrives(c)
      PROVE  Feed!FeedTypeOK'
  BY <1>4 DEF Feed!Pongs, Feed!PongArrives, Feed!PingLost, Feed!Closes, Feed!Vanishes,
              Feed!CloseArrives
<1> QED BY <1>1, <1>2, <1>3, <1>4 DEF Feed!FeedNext

\* No timer of a cycle is older than two ticks: the interval waits for it.
LEMMA TicksAge ==
  ASSUME Sim!SimTypeOK, 2 \notin cycleTimers
  PROVE  Sim!Older \subseteq 0..2
  BY DEF Sim!SimTypeOK, Sim!Older

LEMMA SimStep ==
  ASSUME Sim!SimTypeOK, Sim!SimNext
  PROVE  Sim!SimTypeOK'
<1> USE DEF Sim!SimTypeOK, Sim!signalVars, Sim!timerVars
<1>1. CASE Sim!Ticks
  <2>1. Sim!Older \subseteq 0..2
    BY <1>1, TicksAge
    DEF Sim!Ticks, Sim!TickOnly, Sim!Awakes, Sim!Starts, Sim!Processes, Sim!Acknowledged,
        Sim!ErrorReset, Sim!Tick
  <2>2. cycleTimers' \subseteq Sim!Older \cup {0}
    BY <1>1
    DEF Sim!Ticks, Sim!TickOnly, Sim!Awakes, Sim!Starts, Sim!Processes, Sim!Acknowledged,
        Sim!ErrorReset
  <2>3. /\ UNCHANGED <<xStart, xAck, xDone, xErrL0>>
        /\ currentState' \in {"Idle", "WaitingForStart", "Processing", "WaitForAck", "Error"}
        /\ pulse' \in {"none", "rise", "fall"}
        /\ clearing' \in BOOLEAN
    BY <1>1
    DEF Sim!Ticks, Sim!TickOnly, Sim!Awakes, Sim!Starts, Sim!Processes, Sim!Acknowledged,
        Sim!ErrorReset
  <2> QED BY <2>1, <2>2, <2>3
<1>2. CASE Sim!Timers
  BY <1>2 DEF Sim!Timers, Sim!CycleEnds, Sim!PulseMoves, Sim!Clears
<1>3. CASE Sim!Commands
  BY <1>3 DEF Sim!Commands
<1> QED BY <1>1, <1>2, <1>3 DEF Sim!SimNext

LEMMA TimersInitTypes == TimersInit => Inv /\ TimersTypeOK
<1> SUFFICES ASSUME TimersInit PROVE Inv /\ TimersTypeOK
  OBVIOUS
<1>1. Inv /\ TypeOK
  BY InitInv DEF TimersInit, Inv
<1>2. OrderList!PageTypeOK
  BY DEF TimersInit, OrderList!PageInit, OrderList!PageTypeOK, OrderList!Values, OrderList!Statuses
<1>3. Feed!FeedTypeOK
  BY DEF TimersInit, Feed!FeedInit, Feed!FeedTypeOK
<1>4. Sim!SimTypeOK
  BY DEF TimersInit, Sim!SimInit, Sim!SimTypeOK
<1> QED BY <1>1, <1>2, <1>3, <1>4 DEF TimersTypeOK

\* A step of one part leaves the others alone.
LEMMA TimersStep ==
  ASSUME Inv, TimersTypeOK, [TimersNext]_timersVars
  PROVE  Inv' /\ TimersTypeOK'
<1>1. [Next]_vars
  BY DEF TimersNext, OfOrders, OfPage, OfFeed, OfSim, timersVars
<1>2. Inv' /\ TypeOK'
  BY <1>1, StepInv DEF Inv
<1>3. OrderList!PageTypeOK'
  <2>1. OrderList!PageNext \/ UNCHANGED pageOwn
    BY DEF TimersNext, OfOrders, OfPage, OfFeed, OfSim, timersVars
  <2>2. CASE UNCHANGED pageOwn
    BY <2>2 DEF TimersTypeOK, OrderList!PageTypeOK, pageOwn
  <2> QED BY <2>1, <2>2, PageStep DEF TimersTypeOK
<1>4. Feed!FeedTypeOK'
  <2>1. Feed!FeedNext \/ UNCHANGED feedOwn
    BY DEF TimersNext, OfOrders, OfPage, OfFeed, OfSim, timersVars
  <2>2. CASE UNCHANGED feedOwn
    BY <2>2 DEF TimersTypeOK, Feed!FeedTypeOK, feedOwn
  <2> QED BY <2>1, <2>2, FeedStep DEF TimersTypeOK
<1>5. Sim!SimTypeOK'
  <2>1. Sim!SimNext \/ UNCHANGED simOwn
    BY DEF TimersNext, OfOrders, OfPage, OfFeed, OfSim, timersVars
  <2>2. CASE UNCHANGED simOwn
    BY <2>2 DEF TimersTypeOK, Sim!SimTypeOK, simOwn
  <2> QED BY <2>1, <2>2, SimStep DEF TimersTypeOK
<1> QED BY <1>2, <1>3, <1>4, <1>5 DEF TimersTypeOK

\* What goes on under a timer keeps its types: no route of the page's menu sets
\* a status that is none, and no timer of the simulator is overdue by a tick.
THEOREM TimersTypeCorrect == TimersSpec => []TimersTypeOK
  BY TimersInitTypes, TimersStep, PTL DEF TimersSpec
=============================================================================
