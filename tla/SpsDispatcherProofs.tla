------------------------ MODULE SpsDispatcherProofs ------------------------
(***************************************************************************)
(* Proofs about SpsDispatcher for any number of calls, carriers and        *)
(* stations, any line-up of identifiers and any bounds.                    *)
(***************************************************************************)
EXTENDS SpsDispatcher, TLAPS

USE DEF Stages, PcValues, Outcomes, PlanFields, localVars, opcuaVars, boundVars, historyVars,
        dispatcherVars

\* The inductive core of type correctness.
TypeInv == TypeOK /\ Loaded

\* The variables dispatch owns keep their types, and Loaded, when it returns.
LEMMA ReturnTypes ==
  ASSUME TypeInv, NEW c \in Calls, NEW res \in Outcomes, Return(c, res)
  PROVE  /\ isProcessing' \in BOOLEAN
         /\ pc' \in [Calls -> PcValues]
         /\ outcome' \in [Calls -> Outcomes]
         /\ arg' \in [Calls -> [ident : Idents \cup {None}, station : Stations \cup {None}]]
         /\ hs' \in [Calls -> [carrier : Carriers \cup {None}, err : BOOLEAN]]
         /\ heard' \in [Calls -> [station : Stations \cup {None}, carrier : Carriers \cup {None}]]
         /\ plan' \in [Calls -> Seq(PlanFields)]
         /\ Loaded'
<1> USE DEF TypeInv, TypeOK, Return
<1>1. pc' \in [Calls -> PcValues] /\ outcome' \in [Calls -> Outcomes] /\ isProcessing' \in BOOLEAN
  OBVIOUS
<1>2. arg' \in [Calls -> [ident : Idents \cup {None}, station : Stations \cup {None}]]
  BY DEF NoArg
<1>3. hs' \in [Calls -> [carrier : Carriers \cup {None}, err : BOOLEAN]]
  BY DEF NoHs
<1>4. heard' \in [Calls -> [station : Stations \cup {None}, carrier : Carriers \cup {None}]]
  BY DEF NoEvent
<1>5. plan' \in [Calls -> Seq(PlanFields)]
  OBVIOUS
<1>6. Loaded'
  BY DEF Loaded
<1>7. QED
  BY <1>1, <1>2, <1>3, <1>4, <1>5, <1>6

LEMMA InitTypeInv == Init => TypeInv
<1> SUFFICES ASSUME Init PROVE TypeInv
  OBVIOUS
<1>1. notes \subseteq MonitoredNotes
  BY DEF Init, FirstNotes, MonitoredNotes
<1>2. rows \in [Carriers -> Row \cup {Absent}] /\ plc \in [Stations -> Block]
  BY DEF Init, Row, Block
<1>3. arg \in [Calls -> [ident : Idents \cup {None}, station : Stations \cup {None}]]
  BY DEF Init, NoArg
<1>4. hs \in [Calls -> [carrier : Carriers \cup {None}, err : BOOLEAN]]
  BY DEF Init, NoHs
<1>5. heard \in [Calls -> [station : Stations \cup {None}, carrier : Carriers \cup {None}]]
  BY DEF Init, NoEvent
<1>6. plan \in [Calls -> Seq(PlanFields)] /\ pc \in [Calls -> PcValues] /\ dispatchQueue \in Seq(Calls)
  BY DEF Init
<1>7. up \in [Stations -> {"up", "down", "connecting"}] /\ disturbances \in 0..MaxDisturbances
      /\ moves \in 0..MaxMoves
  BY DispatcherAssumption DEF Init
<1>8. outcome \in [Calls -> Outcomes] /\ timers \subseteq Calls /\ listeners \subseteq Calls
      /\ wrote \subseteq Calls /\ lastWriter \in Calls \cup {None} /\ pulse \in BOOLEAN
      /\ isProcessing \in BOOLEAN /\ Loaded
  BY DEF Init, Loaded
<1>9. QED
  BY <1>1, <1>2, <1>3, <1>4, <1>5, <1>6, <1>7, <1>8 DEF TypeInv, TypeOK

\* Events never start a dispatch: an xStart payload has no iCarrierID.
LEMMA NoAutoDispatch == \A f : ~AutoDispatches(f)
  BY DEF AutoDispatches, Payload

\* The awaits of one call.
LEMMA ProgressTypeInv ==
  ASSUME TypeInv, NEW c \in Calls, Progress(c) PROVE TypeInv'
<1> USE DispatcherAssumption DEF TypeInv
<1>1. CASE Resolve(c)
  <2> DEFINE k == Resolved(arg[c].ident)
  <2>1. k \in Carriers /\ rows[k] \in Row
    <3>1. arg[c].ident \in Idents /\ k # None
      BY <1>1 DEF Resolve, TypeOK, Loaded
    <3>2. k \in Carriers /\ rows[k] # Absent
      BY <3>1 DEF Resolved, Exists
    <3>3. QED
      BY <3>2 DEF TypeOK
  <2>2. hs' \in [Calls -> [carrier : Carriers \cup {None}, err : BOOLEAN]]
    <3>1. [carrier |-> k, err |-> rows[k].err] \in [carrier : Carriers \cup {None}, err : BOOLEAN]
      BY <2>1 DEF Row
    <3>2. QED
      BY <1>1, <3>1 DEF Resolve, TypeOK
  <2>3. Loaded'
    BY <1>1, <2>1 DEF Resolve, TypeOK, Loaded
  <2>4. QED
    BY <1>1, <2>2, <2>3 DEF Resolve, TypeOK
<1>2. CASE ResolveFails(c)
  BY <1>2, ReturnTypes DEF ResolveFails, TypeOK
<1>3. CASE QueryWritten(c)
  BY <1>3 DEF QueryWritten, Wrote, TypeOK, Loaded
<1>4. CASE QueryFailed(c)
  BY <1>4, ReturnTypes DEF QueryFailed, TypeOK
<1>5. CASE QueryReturns(c)
  BY <1>5 DEF QueryReturns, TypeOK, Loaded
<1>6. CASE StepWrite(c)
  <2> DEFINE s == Target(c)
             f == Head(plan[c])
  <2>1. plan[c] \in Seq(PlanFields) /\ plan[c] # <<>> /\ hs[c].carrier \in Carriers
    BY <1>6 DEF StepWrite, TypeOK, Loaded
  <2>2. Tail(plan[c]) \in Seq(PlanFields)
    BY <2>1
  <2>3. plan' \in [Calls -> Seq(PlanFields)] /\ pc' \in [Calls -> PcValues]
    BY <1>6, <2>2 DEF StepWrite, TypeOK
  <2>4. Loaded'
    BY <1>6, <2>1 DEF StepWrite, TypeOK, Loaded
  <2>5. plc' \in [Stations -> Block] /\ notes' \subseteq MonitoredNotes
    <3>1. CASE UNCHANGED <<plc, notes>>
      BY <3>1 DEF TypeOK
    <3>2. CASE s \in Stations /\ plc' = [plc EXCEPT ![s] = Written(@, f, hs[c].carrier)]
               /\ notes' = notes \cup (IF f = "xDone" THEN DoneNote(s, TRUE) ELSE {})
      <4>1. Written(plc[s], f, hs[c].carrier) \in Block
        <5>1. /\ plc[s] \in Block
              /\ Coerced(Par[hs[c].carrier]) \in Nat
          BY <3>2 DEF TypeOK, Coerced
        <5>2. (plc[s].done \/ f = "xDone") \in BOOLEAN
          OBVIOUS
        <5>3. QED
          BY <5>1, <5>2 DEF Written, Block
      <4>2. QED
        BY <3>2, <4>1 DEF TypeOK, DoneNote, Report
    <3>3. QED
      BY <1>6, <3>1, <3>2 DEF StepWrite, Reachable
  <2>6. wrote' \subseteq Calls /\ lastWriter' \in Calls \cup {None} /\ pulse' \in BOOLEAN
    BY <1>6 DEF StepWrite, Wrote, TypeOK
  <2>7. QED
    BY <1>6, <2>3, <2>4, <2>5, <2>6 DEF StepWrite, TypeOK
<1>7. CASE Save(c)
  <2>1. hs[c].carrier \in Carriers /\ rows[hs[c].carrier] \in Row /\ hs[c].err \in BOOLEAN
    BY <1>7 DEF Save, TypeOK, Loaded
  <2>2. rows' \in [Carriers -> Row \cup {Absent}]
    BY <1>7, <2>1 DEF Save, TypeOK, Row
  <2>3. Loaded'
    BY <1>7 DEF Save, TypeOK, Loaded
  <2>4. QED
    BY <1>7, <2>2, <2>3 DEF Save, TypeOK
<1>8. CASE Throw(c)
  BY <1>8, ReturnTypes DEF Throw, TypeOK
<1>9. CASE Timeout(c)
  BY <1>9, ReturnTypes DEF Timeout, TypeOK
<1>10. CASE SaveReturns(c)
  BY <1>10, ReturnTypes DEF SaveReturns, TypeOK
<1>11. QED
  BY <1>1, <1>2, <1>3, <1>4, <1>5, <1>6, <1>7, <1>8, <1>9, <1>10 DEF Progress

\* A call enters dispatch, or a timer fires after its handshake was answered.
LEMMA EnterTypeInv ==
  ASSUME TypeInv, NEW c \in Calls,
         DispatchBusy(c) \/ (\E r \in Requests : DispatchEnter(c, r)) \/ LateTimer(c)
  PROVE  TypeInv'
<1> USE DispatcherAssumption DEF TypeInv
<1>1. CASE DispatchBusy(c)
  BY <1>1 DEF DispatchBusy, TypeOK, Loaded
<1>2. ASSUME NEW r \in Requests, DispatchEnter(c, r) PROVE TypeInv'
  <2>1. r \in [ident : Idents, station : Stations \cup {None}]
    OBVIOUS
  <2>2. arg' \in [Calls -> [ident : Idents \cup {None}, station : Stations \cup {None}]]
    BY <1>2, <2>1 DEF DispatchEnter, TypeOK
  <2>3. Loaded'
    BY <1>2, <2>1 DEF DispatchEnter, TypeOK, Loaded
  <2>4. QED
    BY <1>2, <2>2, <2>3 DEF DispatchEnter, TypeOK
<1>3. CASE LateTimer(c)
  BY <1>3 DEF LateTimer, TypeOK, Loaded
<1>4. QED
  BY <1>1, <1>2, <1>3

LEMMA PlanType ==
  ASSUME NEW k \in Carriers PROVE Plan(k) \in Seq(PlanFields) /\ Plan(k) # <<>>
<1>1. <<"xAck", "iStepNo", "xDone">> \in Seq(PlanFields)
  OBVIOUS
<1>2. <<"xAck", "iStepNo", "iPar", "xDone">> \in Seq(PlanFields)
  OBVIOUS
<1>3. <<"xAck", "iStepNo", "xDone">> # <<>> /\ <<"xAck", "iStepNo", "iPar", "xDone">> # <<>>
  OBVIOUS
<1>4. QED
  BY <1>1, <1>2, <1>3 DEF Plan

LEMMA RebootTypeInv ==
  ASSUME TypeInv, NEW u \in [Stations -> {"up", "down"}], Reboot(u),
         disturbances' \in 0..MaxDisturbances
  PROVE  TypeInv'
<1> USE DispatcherAssumption DEF TypeInv
<1>1. pc' \in [Calls -> PcValues] /\ dispatchQueue' \in Seq(Calls) /\ plan' \in [Calls -> Seq(PlanFields)]
  BY DEF Reboot, TypeOK
<1>2. arg' \in [Calls -> [ident : Idents \cup {None}, station : Stations \cup {None}]]
  BY DEF Reboot, NoArg
<1>3. hs' \in [Calls -> [carrier : Carriers \cup {None}, err : BOOLEAN]]
  BY DEF Reboot, NoHs
<1>4. heard' \in [Calls -> [station : Stations \cup {None}, carrier : Carriers \cup {None}]]
  BY DEF Reboot, NoEvent
<1>5. up' \in [Stations -> {"up", "down", "connecting"}] /\ disturbances' \in 0..MaxDisturbances
  BY DEF Reboot
<1>6. notes' \subseteq MonitoredNotes
  BY DEF Reboot, FirstNotes, MonitoredNotes
<1>7. Loaded'
  BY DEF Reboot, Loaded, TypeOK
<1>8. QED
  BY <1>1, <1>2, <1>3, <1>4, <1>5, <1>6, <1>7 DEF Reboot, TypeOK

\* Events, restarts and reconnections.
LEMMA OpcuaTypeInv ==
  ASSUME TypeInv, ListenerOwned, Opcua PROVE TypeInv'
<1> USE DispatcherAssumption DEF TypeInv
<1>1. ASSUME NEW s \in Stations, NEW f \in Fields, DeliverEvent(s, f) PROVE TypeInv'
  <2> DEFINE acked == {c \in listeners : Hears(c, s) /\ Matches(c, s, f)}
  <2>1. /\ notes' = notes \ {<<s, f>>}
        /\ listeners' = listeners \ acked
        /\ pc' = [c \in Calls |-> IF c \in acked THEN "write" ELSE pc[c]]
        /\ plan' = [c \in Calls |-> IF c \in acked THEN Plan(hs[c].carrier) ELSE plan[c]]
        /\ heard' = [c \in Calls |-> IF c \in acked
                                     THEN [station |-> s, carrier |-> plc[s].carrier] ELSE heard[c]]
        /\ isProcessing' = isProcessing
        /\ arg' = arg
    <3>1. arg = [c \in Calls |-> arg[c]]
      BY DEF TypeOK
    <3>2. isProcessing \in BOOLEAN
      BY DEF TypeOK
    <3>3. QED
      BY <1>1, <3>1, <3>2, NoAutoDispatch DEF DeliverEvent
  <2>2. \A c \in acked : /\ pc[c] = "await" /\ c \in Calls
                          /\ Plan(hs[c].carrier) \in Seq(PlanFields)
                          /\ Plan(hs[c].carrier) # <<>>
    BY PlanType DEF ListenerOwned, Loaded
  <2>3. pc' \in [Calls -> PcValues] /\ plan' \in [Calls -> Seq(PlanFields)]
    BY <2>1, <2>2 DEF TypeOK
  <2>4. heard' \in [Calls -> [station : Stations \cup {None}, carrier : Carriers \cup {None}]]
    <3>1. plc[s].carrier \in Carriers \cup {None}
      BY DEF TypeOK, Block
    <3>2. QED
      BY <2>1, <3>1 DEF TypeOK
  <2>5. hs' = hs
    BY <1>1 DEF DeliverEvent
  <2>6. Loaded'
    BY <2>1, <2>2, <2>5 DEF Loaded, TypeOK
  <2>7. QED
    BY <1>1, <2>1, <2>3, <2>4, <2>6 DEF DeliverEvent, TypeOK
<1>2. ASSUME NEW s \in Stations, NEW f \in Fields, DeliverNull(s, f) PROVE TypeInv'
  BY <1>2 DEF DeliverNull, TypeOK, Loaded
<1>3. ASSUME NEW u \in [Stations -> {"up", "down"}],
             Restart(u) \/ \E s \in Stations, f \in Fields : CrashOnNull(s, f, u)
      PROVE  TypeInv'
  <2>1. Reboot(u)
    BY <1>3 DEF Restart, CrashOnNull
  <2>2. disturbances' \in 0..MaxDisturbances
    <3>1. \/ disturbances < MaxDisturbances /\ disturbances' = disturbances + 1
          \/ disturbances' = disturbances
      BY <1>3 DEF Restart, CrashOnNull, Disturb
    <3>2. disturbances \in 0..MaxDisturbances /\ MaxDisturbances \in Nat
      BY DEF TypeOK
    <3>3. QED
      BY <3>1, <3>2
  <2>3. QED
    BY <2>1, <2>2, RebootTypeInv
<1>4. CASE Reload
  BY <1>4 DEF Reload, Disturb, TypeOK, Loaded
<1>5. ASSUME NEW s \in Stations, ConnectStation(s) PROVE TypeInv'
  BY <1>5 DEF ConnectStation, FirstNotes, MonitoredNotes, TypeOK, Loaded
<1>6. QED
  BY <1>1, <1>2, <1>3, <1>4, <1>5 DEF Opcua

\* The PLCs and the other writers of the carriers table.
LEMMA EnvironmentTypeInv ==
  ASSUME TypeInv, Environment PROVE TypeInv'
<1> USE DispatcherAssumption DEF TypeInv
<1>1. ASSUME NEW s \in Stations, NEW k \in Arrivals, PlcArrive(s, k) PROVE TypeInv'
  <2>1. plc' \in [Stations -> Block]
    <3>1. plc[s] \in Block /\ k \in Carriers
      BY DEF TypeOK
    <3>2. [plc[s] EXCEPT !.carrier = k] \in Block
      BY <3>1 DEF Block
    <3>3. QED
      BY <1>1, <3>2 DEF PlcArrive, TypeOK
  <2>2. notes' \subseteq MonitoredNotes
    BY <1>1 DEF PlcArrive, Report, TypeOK
  <2>3. QED
    BY <1>1, <2>1, <2>2 DEF PlcArrive, PlcMove, TypeOK, Loaded
<1>2. ASSUME NEW s \in Stations, PlcDone(s) \/ PlcClear(s) PROVE TypeInv'
  <2>1. plc' \in [Stations -> Block]
    <3>1. plc[s] \in Block
      BY DEF TypeOK
    <3>2. \A b \in BOOLEAN : [plc[s] EXCEPT !.done = b] \in Block
      BY <3>1 DEF Block
    <3>3. QED
      BY <1>2, <3>2 DEF PlcDone, PlcClear, TypeOK
  <2>2. notes' \subseteq MonitoredNotes
    BY <1>2 DEF PlcDone, PlcClear, DoneNote, Report, TypeOK
  <2>3. PlcMove
    BY <1>2 DEF PlcDone, PlcClear
  <2>4. QED
    BY <2>1, <2>2, <2>3 DEF PlcMove, TypeOK, Loaded
<1>3. ASSUME NEW k \in Carriers, RemoveCarrier(k) \/ MarkError(k) \/ AdvanceManual(k)
      PROVE  TypeInv'
  <2>1. rows[k] \in Row
    BY <1>3 DEF RemoveCarrier, MarkError, AdvanceManual, TypeOK
  <2>2. rows' \in [Carriers -> Row \cup {Absent}]
    <3>1. [rows[k] EXCEPT !.err = TRUE] \in Row
      BY <2>1 DEF Row
    <3>2. [ack |-> FALSE, err |-> FALSE, step |-> rows[k].step + 1] \in Row
      BY <2>1 DEF Row
    <3>3. QED
      BY <1>3, <3>1, <3>2 DEF RemoveCarrier, MarkError, AdvanceManual, TypeOK
  <2>3. QED
    BY <1>3, <2>2 DEF RemoveCarrier, MarkError, AdvanceManual, RowEdit, Disturb, TypeOK, Loaded
<1>4. QED
  BY <1>1, <1>2, <1>3 DEF Environment

----------------------------------------------------------------------------
\* Listeners and the handshake flag.

\* No acknowledgement listener outlives its wait, in any step.
LEMMA ListenerOwnedStep ==
  ASSUME TypeInv, ListenerOwned, [Next]_vars PROVE ListenerOwned'
<1> USE DEF TypeInv, TypeOK, ListenerOwned
<1>1. ASSUME NEW c \in Calls, Progress(c) PROVE ListenerOwned'
  <2>1. CASE Resolve(c) \/ ResolveFails(c) \/ Save(c) \/ SaveReturns(c) \/ Throw(c)
    BY <2>1 DEF Resolve, ResolveFails, Save, SaveReturns, Throw, Return
  <2>2. CASE QueryWritten(c) \/ QueryFailed(c) \/ QueryReturns(c)
    BY <2>2 DEF QueryWritten, QueryFailed, QueryReturns, Return
  <2>3. CASE StepWrite(c)
    BY <2>3 DEF StepWrite
  <2>4. CASE Timeout(c)
    BY <2>4 DEF Timeout, Return
  <2>5. QED
    BY <1>1, <2>1, <2>2, <2>3, <2>4 DEF Progress
<1>2. ASSUME NEW c \in Calls,
             DispatchBusy(c) \/ (\E r \in Requests : DispatchEnter(c, r)) \/ LateTimer(c)
      PROVE  ListenerOwned'
  BY <1>2 DEF DispatchBusy, DispatchEnter, LateTimer
<1>3. ASSUME NEW s \in Stations, NEW f \in Fields, DeliverEvent(s, f) PROVE ListenerOwned'
  <2> DEFINE acked == {c \in listeners : Hears(c, s) /\ Matches(c, s, f)}
  <2>1. /\ listeners' = listeners \ acked
        /\ pc' = [c \in Calls |-> IF c \in acked THEN "write" ELSE pc[c]]
    BY <1>3, NoAutoDispatch DEF DeliverEvent
  <2>2. QED
    BY <1>3, <2>1 DEF DeliverEvent
<1>4. ASSUME NEW u \in [Stations -> {"up", "down"}],
             Restart(u) \/ \E s \in Stations, f \in Fields : CrashOnNull(s, f, u)
      PROVE  ListenerOwned'
  <2>1. Reboot(u)
    BY <1>4 DEF Restart, CrashOnNull
  <2>2. \A c \in Calls : pc'[c] \notin Stages
    BY <2>1 DEF Reboot
  <2>3. QED
    BY <2>1, <2>2 DEF Reboot
<1>5. CASE \/ \E s \in Stations, f \in Fields : DeliverNull(s, f)
           \/ Reload
           \/ \E s \in Stations : ConnectStation(s)
           \/ Environment
           \/ UNCHANGED vars
  BY <1>5 DEF DeliverNull, Reload, ConnectStation, Environment, PlcArrive, PlcDone, PlcClear, PlcMove,
              RemoveCarrier, MarkError, AdvanceManual, RowEdit, vars
<1>6. QED
  BY <1>1, <1>2, <1>3, <1>4, <1>5 DEF Next, Opcua

\* The flag follows the one running handshake, in any step.
LEMMA HandshakeExclusiveStep ==
  ASSUME TypeInv, ListenerOwned, HandshakeExclusive, [Next]_vars PROVE HandshakeExclusive'
<1> USE DEF TypeInv, TypeOK, HandshakeExclusive, InHandshake
<1>1. ASSUME NEW c \in Calls, Progress(c) PROVE HandshakeExclusive'
  <2>1. c \in InHandshake
    BY <1>1 DEF Progress, Resolve, ResolveFails, QueryWritten, QueryFailed, QueryReturns,
                StepWrite, Save, SaveReturns, Throw, Timeout
  <2>2. CASE \E res \in Outcomes : Return(c, res)
    BY <2>1, <2>2 DEF Return
  <2>3. CASE isProcessing' = isProcessing /\ \E p \in Stages : pc' = [pc EXCEPT ![c] = p]
    BY <2>1, <2>3
  <2>4. QED
    BY <1>1, <2>2, <2>3 DEF Progress, Resolve, ResolveFails, QueryWritten, QueryFailed,
                            QueryReturns, StepWrite, Save, SaveReturns, Throw, Timeout
<1>2. ASSUME NEW c \in Calls,
             DispatchBusy(c) \/ (\E r \in Requests : DispatchEnter(c, r)) \/ LateTimer(c)
      PROVE  HandshakeExclusive'
  BY <1>2 DEF DispatchBusy, DispatchEnter, LateTimer
<1>3. ASSUME NEW s \in Stations, NEW f \in Fields, DeliverEvent(s, f) PROVE HandshakeExclusive'
  <2>1. isProcessing' = isProcessing
    BY <1>3, NoAutoDispatch DEF DeliverEvent
  <2>2. \A c \in Calls : c \in InHandshake' <=> c \in InHandshake
    BY <1>3, NoAutoDispatch DEF DeliverEvent, ListenerOwned
  <2>3. QED
    BY <2>1, <2>2
<1>4. ASSUME NEW u \in [Stations -> {"up", "down"}],
             Restart(u) \/ \E s \in Stations, f \in Fields : CrashOnNull(s, f, u)
      PROVE  HandshakeExclusive'
  <2>1. Reboot(u)
    BY <1>4 DEF Restart, CrashOnNull
  <2>2. \A c \in Calls : pc'[c] \notin Stages
    BY <2>1 DEF Reboot
  <2>3. QED
    BY <2>1, <2>2 DEF Reboot
<1>5. CASE UNCHANGED <<isProcessing, pc>>
  BY <1>5
<1>6. QED
  BY <1>1, <1>2, <1>3, <1>4, <1>5
     DEF Next, Opcua, DeliverNull, Reload, ConnectStation, Environment, PlcArrive, PlcDone, PlcClear,
         PlcMove, RemoveCarrier, MarkError, AdvanceManual, RowEdit, vars

----------------------------------------------------------------------------
\* The inductive invariant: the listeners are needed to know that an event
\* only ever moves a waiting call, the loaded locals to know what it writes.
Inv == TypeInv /\ ListenerOwned /\ HandshakeExclusive

LEMMA InitInv == Init => Inv
<1> SUFFICES ASSUME Init PROVE Inv
  OBVIOUS
<1>1. TypeInv
  BY InitTypeInv
<1>2. ListenerOwned /\ HandshakeExclusive
  BY DEF Init, ListenerOwned, HandshakeExclusive, InHandshake
<1>3. QED
  BY <1>1, <1>2 DEF Inv

LEMMA StepInv == Inv /\ [Next]_vars => Inv'
<1> SUFFICES ASSUME Inv, [Next]_vars PROVE Inv'
  OBVIOUS
<1> USE DEF Inv
<1>1. TypeInv'
  <2>1. CASE \E c \in Calls : \/ DispatchBusy(c) \/ LateTimer(c) \/ Progress(c)
                            \/ \E r \in Requests : DispatchEnter(c, r)
    BY <2>1, EnterTypeInv, ProgressTypeInv
  <2>2. CASE Opcua
    BY <2>2, OpcuaTypeInv
  <2>3. CASE Environment
    BY <2>3, EnvironmentTypeInv
  <2>4. CASE UNCHANGED vars
    BY <2>4 DEF vars, TypeInv, TypeOK, Loaded
  <2>5. QED
    BY <2>1, <2>2, <2>3, <2>4 DEF Next
<1>2. ListenerOwned'
  BY ListenerOwnedStep
<1>3. HandshakeExclusive'
  BY HandshakeExclusiveStep
<1>4. QED
  BY <1>1, <1>2, <1>3

LEMMA Invariance == Spec => []Inv
  BY InitInv, StepInv, PTL DEF Spec

\* Type correctness, for any plant.
THEOREM TypeCorrect == Spec => []TypeOK
  BY Invariance, PTL DEF Inv, TypeInv

\* At most one handshake runs and isProcessing is set exactly then, whatever
\* the PLCs, the database, the sessions and the process do.
THEOREM Exclusion == Spec => []HandshakeExclusive
  BY Invariance, PTL DEF Inv

\* A waiting handshake owns one listener and one armed timer; nothing else
\* owns a listener.
THEOREM NoListenerLeaks == Spec => []ListenerOwned
  BY Invariance, PTL DEF Inv

----------------------------------------------------------------------------
\* Writes, results and answers.

\* Only the actions of c that write change pulse, and c is in a handshake.
LEMMA WriterIsRunning ==
  ASSUME TypeInv, [Next]_vars, pulse' # pulse
  PROVE  \E c \in Calls : /\ pc[c] \in {"query", "write"} /\ lastWriter' = c
                         /\ wrote' = wrote \cup {c}
                         /\ \E p \in {"queried", "write", "save"} : pc' = [pc EXCEPT ![c] = p]
<1>1. ASSUME NEW c \in Calls, QueryWritten(c) \/ StepWrite(c)
      PROVE  /\ pc[c] \in {"query", "write"} /\ lastWriter' = c
             /\ wrote' = wrote \cup {c}
             /\ \E p \in {"queried", "write", "save"} : pc' = [pc EXCEPT ![c] = p]
  BY <1>1 DEF QueryWritten, StepWrite, Wrote
<1>2. \E c \in Calls : QueryWritten(c) \/ StepWrite(c)
  BY DEF Next, Progress, DispatchBusy, DispatchEnter, Resolve, ResolveFails, QueryFailed, QueryReturns,
         Save, SaveReturns, Throw, Timeout, LateTimer, Opcua, DeliverEvent, DeliverNull, CrashOnNull, Restart,
         Reboot, Reload, ConnectStation, Environment, PlcArrive, PlcDone, PlcClear, PlcMove,
         RemoveCarrier, MarkError, AdvanceManual, RowEdit, vars
<1>3. QED
  BY <1>1, <1>2

\* What a step does to pc and outcome, call by call.
LEMMA StepEffect ==
  ASSUME Inv, [Next]_vars
  PROVE  \/ \E c \in Calls, res \in Outcomes \ {"none", "busy"} : pc[c] \in Stages /\ Return(c, res)
         \/ \E c \in Calls : /\ pc[c] = "idle" /\ isProcessing /\ UNCHANGED isProcessing
                            /\ pc' = [pc EXCEPT ![c] = "returned"]
                            /\ outcome' = [outcome EXCEPT ![c] = "busy"]
         \/ \E c \in Calls : /\ pc[c] = "idle" /\ ~isProcessing /\ isProcessing'
                            /\ pc' = [pc EXCEPT ![c] = "resolve"] /\ UNCHANGED outcome
         \/ /\ pc' = [c \in Calls |-> IF pc[c] \in Stages THEN "lost" ELSE pc[c]]
            /\ ~isProcessing' /\ UNCHANGED outcome
         \/ /\ \A c \in Calls : IF pc[c] \in Stages THEN pc'[c] \in Stages ELSE pc'[c] = pc[c]
            /\ UNCHANGED <<isProcessing, outcome>>
<1> DEFINE Returns == \E c \in Calls, res \in Outcomes \ {"none", "busy"} :
                        pc[c] \in Stages /\ Return(c, res)
           Stays == /\ \A c \in Calls : IF pc[c] \in Stages THEN pc'[c] \in Stages
                                                          ELSE pc'[c] = pc[c]
                    /\ UNCHANGED <<isProcessing, outcome>>
<1> USE DEF Inv, TypeInv, TypeOK
<1>1. ASSUME NEW c \in Calls, Progress(c) PROVE Returns \/ Stays
  <2>1. CASE Resolve(c) \/ QueryWritten(c) \/ QueryReturns(c) \/ StepWrite(c) \/ Save(c)
    BY <2>1 DEF Resolve, QueryWritten, QueryReturns, StepWrite, Save
  <2>2. CASE ResolveFails(c) \/ QueryFailed(c) \/ SaveReturns(c) \/ Throw(c) \/ Timeout(c)
    BY <2>2 DEF ResolveFails, QueryFailed, SaveReturns, Throw, Timeout
  <2>3. QED
    BY <1>1, <2>1, <2>2 DEF Progress
<1>2. ASSUME NEW c \in Calls, LateTimer(c) PROVE Stays
  BY <1>2 DEF LateTimer
<1>3. ASSUME NEW s \in Stations, NEW f \in Fields, DeliverEvent(s, f) PROVE Stays
  <2>1. isProcessing' = isProcessing /\ outcome' = outcome
    BY <1>3, NoAutoDispatch DEF DeliverEvent
  <2>2. \A c \in Calls : IF pc[c] \in Stages THEN pc'[c] \in Stages ELSE pc'[c] = pc[c]
    BY <1>3, NoAutoDispatch DEF DeliverEvent, ListenerOwned
  <2>3. QED
    BY <2>1, <2>2
<1>4. CASE \/ \E s \in Stations, f \in Fields : DeliverNull(s, f)
           \/ Reload
           \/ \E s \in Stations : ConnectStation(s)
           \/ Environment
           \/ UNCHANGED vars
  <2>1. UNCHANGED <<isProcessing, pc, outcome>>
    BY <1>4 DEF DeliverNull, Reload, ConnectStation, Environment, PlcArrive, PlcDone, PlcClear,
                PlcMove, RemoveCarrier, MarkError, AdvanceManual, RowEdit, vars
  <2>2. QED
    BY <2>1
<1>5. ASSUME NEW c \in Calls, DispatchBusy(c)
      PROVE  /\ pc[c] = "idle" /\ isProcessing /\ UNCHANGED isProcessing
             /\ pc' = [pc EXCEPT ![c] = "returned"] /\ outcome' = [outcome EXCEPT ![c] = "busy"]
  BY <1>5 DEF DispatchBusy
<1>6. ASSUME NEW c \in Calls, NEW r \in Requests, DispatchEnter(c, r)
      PROVE  /\ pc[c] = "idle" /\ ~isProcessing /\ isProcessing'
             /\ pc' = [pc EXCEPT ![c] = "resolve"] /\ UNCHANGED outcome
  BY <1>6 DEF DispatchEnter
<1>7. ASSUME NEW u \in [Stations -> {"up", "down"}],
             Restart(u) \/ \E s \in Stations, f \in Fields : CrashOnNull(s, f, u)
      PROVE  /\ pc' = [c \in Calls |-> IF pc[c] \in Stages THEN "lost" ELSE pc[c]]
             /\ ~isProcessing' /\ UNCHANGED outcome
  BY <1>7 DEF Restart, CrashOnNull, Reboot
<1>8. QED
  BY <1>1, <1>2, <1>3, <1>4, <1>5, <1>6, <1>7 DEF Next, Opcua

\* A caller's result is never taken back.
THEOREM FinalResults == Spec => ResultsAreFinal
<1>1. Inv /\ [Next]_vars =>
        [\A c \in Calls : pc[c] = "returned" => pc'[c] = "returned" /\ outcome'[c] = outcome[c]]_vars
  BY StepEffect DEF Return, Inv, TypeInv, TypeOK
<1>2. QED
  BY <1>1, Invariance, PTL DEF Spec, ResultsAreFinal

\* A step that ends a wait, or moves an answered handshake, call by call.
LEMMA AnswerStep ==
  ASSUME Inv, [Next]_vars, NEW c \in Calls
  PROVE  /\ pc[c] = "await" /\ pc'[c] = "returned" => timers \ timers' = {c}
         /\ c \in Answered =>
              \/ c \in Answered' /\ heard'[c] = heard[c]
              \/ plan[c] = <<>> /\ outcome'[c] \in {"success", "thrown"}
              \/ pc'[c] = "lost"
<1> USE DEF Inv, TypeInv, TypeOK, Answered
<1> DEFINE Kept == pc'[c] = pc[c] /\ heard'[c] = heard[c]
<1>1. ASSUME NEW d \in Calls, Progress(d), d # c PROVE Kept
  BY <1>1 DEF Progress, Resolve, ResolveFails, QueryWritten, QueryFailed, QueryReturns, StepWrite,
              Save, SaveReturns, Throw, Timeout, Return
<1>2. CASE Progress(c)
  <2>1. CASE pc[c] = "await"
    BY <1>2, <2>1 DEF Progress, Resolve, ResolveFails, QueryWritten, QueryFailed, QueryReturns,
                      StepWrite, Save, SaveReturns, Throw, Timeout, Return
  <2>2. CASE c \in Answered
    <3>1. StepWrite(c) \/ Save(c) \/ SaveReturns(c) \/ (Throw(c) /\ pc[c] # "resolve")
      BY <1>2, <2>2 DEF Progress, Resolve, ResolveFails, QueryWritten, QueryFailed, QueryReturns,
                        Throw, Timeout
    <3>2. CASE StepWrite(c) \/ Save(c)
      BY <3>2 DEF StepWrite, Save
    <3>3. CASE SaveReturns(c) \/ (Throw(c) /\ pc[c] # "resolve")
      BY <3>3 DEF SaveReturns, Throw, Return, Loaded
    <3>4. QED
      BY <3>1, <3>2, <3>3
  <2>3. QED
    BY <2>1, <2>2
<1>3. ASSUME NEW d \in Calls, DispatchBusy(d) \/ \E r \in Requests : DispatchEnter(d, r)
      PROVE  Kept \/ pc[c] = "idle"
  BY <1>3 DEF DispatchBusy, DispatchEnter
<1>4. ASSUME NEW s \in Stations, NEW f \in Fields, DeliverEvent(s, f)
      PROVE  Kept \/ (pc[c] = "await" /\ pc'[c] = "write")
  BY <1>4, NoAutoDispatch DEF DeliverEvent, ListenerOwned
<1>5. ASSUME NEW u \in [Stations -> {"up", "down"}],
             Restart(u) \/ \E s \in Stations, f \in Fields : CrashOnNull(s, f, u)
      PROVE  pc'[c] = IF pc[c] \in Stages THEN "lost" ELSE pc[c]
  <2>1. Reboot(u)
    BY <1>5 DEF Restart, CrashOnNull
  <2>2. QED
    BY <2>1 DEF Reboot
<1>6. CASE UNCHANGED <<pc, heard>>
  BY <1>6
<1>7. QED
  BY <1>1, <1>2, <1>3, <1>4, <1>5, <1>6
     DEF Next, Opcua, LateTimer, DeliverNull, Reload, ConnectStation, Environment, PlcArrive, PlcDone,
         PlcClear, PlcMove, RemoveCarrier, MarkError, AdvanceManual, RowEdit, vars

\* No late timer, event, reload or other caller ends a handshake.
THEOREM HandshakesRunThrough == Spec => NeverCutShort
<1>1. Inv /\ [Next]_vars =>
        [\A c \in Calls :
           /\ pc[c] = "await" /\ pc'[c] = "returned" => timers \ timers' = {c}
           /\ c \in Answered =>
                \/ c \in Answered' /\ heard'[c] = heard[c]
                \/ plan[c] = <<>> /\ outcome'[c] \in {"success", "thrown"}
                \/ pc'[c] = "lost"]_vars
  BY AnswerStep
<1>2. QED
  BY <1>1, Invariance, PTL DEF Spec, NeverCutShort

\* Where a call stands tells whether it has written, and that it wrote last.
WireOrder ==
  \A c \in Calls :
    /\ pc[c] \in {"idle", "resolve", "query"} => c \notin wrote
    /\ pc[c] \in {"queried", "await", "write", "save", "saved"} => lastWriter = c

LEMMA WireOrderStep ==
  ASSUME Inv, WireOrder, [Next]_vars PROVE WireOrder'
<1> USE DEF Inv, TypeInv, TypeOK, WireOrder
<1>1. ASSUME NEW c \in Calls, Progress(c) PROVE WireOrder'
  <2>1. CASE QueryWritten(c) \/ StepWrite(c)
    <3>1. \A d \in Calls \ {c} : pc[d] \notin Stages
      BY <2>1 DEF QueryWritten, StepWrite, HandshakeExclusive, InHandshake
    <3>2. \A d \in Calls \ {c} : pc'[d] = pc[d] /\ (d \in wrote' <=> d \in wrote)
      BY <2>1 DEF QueryWritten, StepWrite, Wrote
    <3>3. pc'[c] \in {"queried", "write", "save"} /\ lastWriter' = c
      BY <2>1 DEF QueryWritten, StepWrite, Wrote
    <3>4. QED
      BY <3>1, <3>2, <3>3
  <2>2. CASE Resolve(c) \/ QueryReturns(c) \/ Save(c)
    BY <2>2 DEF Resolve, QueryReturns, Save
  <2>3. CASE ResolveFails(c) \/ QueryFailed(c) \/ SaveReturns(c) \/ Throw(c) \/ Timeout(c)
    BY <2>3 DEF ResolveFails, QueryFailed, SaveReturns, Throw, Timeout, Return
  <2>4. QED
    BY <1>1, <2>1, <2>2, <2>3 DEF Progress
<1>2. ASSUME NEW c \in Calls,
             DispatchBusy(c) \/ (\E r \in Requests : DispatchEnter(c, r)) \/ LateTimer(c)
      PROVE  WireOrder'
  BY <1>2 DEF DispatchBusy, DispatchEnter, LateTimer
<1>3. ASSUME NEW s \in Stations, NEW f \in Fields, DeliverEvent(s, f) PROVE WireOrder'
  <2> DEFINE acked == {c \in listeners : Hears(c, s) /\ Matches(c, s, f)}
  <2>1. pc' = [c \in Calls |-> IF c \in acked THEN "write" ELSE pc[c]]
    BY <1>3, NoAutoDispatch DEF DeliverEvent
  <2>2. \A c \in Calls : pc'[c] = pc[c] \/ (pc[c] = "await" /\ pc'[c] = "write")
    BY <2>1 DEF ListenerOwned
  <2>3. UNCHANGED <<wrote, lastWriter>>
    BY <1>3 DEF DeliverEvent
  <2>4. QED
    BY <2>2, <2>3
<1>4. ASSUME NEW u \in [Stations -> {"up", "down"}],
             Restart(u) \/ \E s \in Stations, f \in Fields : CrashOnNull(s, f, u)
      PROVE  WireOrder'
  <2>1. Reboot(u)
    BY <1>4 DEF Restart, CrashOnNull
  <2>2. \A c \in Calls : pc'[c] = pc[c] \/ pc'[c] = "lost"
    BY <2>1 DEF Reboot
  <2>3. \A c \in Calls : pc'[c] \notin Stages
    BY <2>1 DEF Reboot
  <2>4. QED
    BY <2>1, <2>2, <2>3 DEF Reboot
<1>5. CASE UNCHANGED <<pc, wrote, lastWriter>>
  BY <1>5
<1>6. QED
  BY <1>1, <1>2, <1>3, <1>4, <1>5
     DEF Next, Opcua, DeliverNull, Reload, ConnectStation, Environment, PlcArrive, PlcDone, PlcClear,
         PlcMove, RemoveCarrier, MarkError, AdvanceManual, RowEdit, vars

\* The writes of two handshakes never interleave, for any number of callers.
THEOREM WiresNeverMix == Spec => WritesContiguous
<1>1. Init => WireOrder
  BY DEF Init, WireOrder
<1>2. Inv /\ WireOrder /\ [Next]_vars =>
        [pulse' # pulse => lastWriter' = lastWriter \/ lastWriter' \notin wrote]_vars
  BY WriterIsRunning DEF WireOrder, Inv
<1>3. Inv /\ WireOrder /\ [Next]_vars => WireOrder'
  BY WireOrderStep
<1>4. QED
  BY <1>1, <1>2, <1>3, Invariance, PTL DEF Spec, WritesContiguous

LEMMA AckStep ==
  ASSUME Inv, AckFromOwnStation, [Next]_vars PROVE AckFromOwnStation'
<1> USE DEF Inv, TypeInv, TypeOK, AckFromOwnStation, Answered, Hears, Target
<1>1. ASSUME NEW c \in Calls, Progress(c) PROVE AckFromOwnStation'
  <2>1. CASE StepWrite(c)
    BY <2>1 DEF StepWrite
  <2>2. CASE QueryWritten(c) \/ QueryReturns(c) \/ Save(c)
    BY <2>2 DEF QueryWritten, QueryReturns, Save
  <2>3. CASE Resolve(c)
    BY <2>3 DEF Resolve
  <2>4. CASE ResolveFails(c) \/ QueryFailed(c) \/ SaveReturns(c) \/ Throw(c) \/ Timeout(c)
    BY <2>4 DEF ResolveFails, QueryFailed, SaveReturns, Throw, Timeout, Return
  <2>5. QED
    BY <1>1, <2>1, <2>2, <2>3, <2>4 DEF Progress
<1>2. ASSUME NEW c \in Calls,
             DispatchBusy(c) \/ (\E r \in Requests : DispatchEnter(c, r)) \/ LateTimer(c)
      PROVE  AckFromOwnStation'
  BY <1>2 DEF DispatchBusy, DispatchEnter, LateTimer
<1>3. ASSUME NEW s \in Stations, NEW f \in Fields, DeliverEvent(s, f) PROVE AckFromOwnStation'
  <2> DEFINE acked == {c \in listeners : Hears(c, s) /\ Matches(c, s, f)}
  <2>1. /\ pc' = [c \in Calls |-> IF c \in acked THEN "write" ELSE pc[c]]
        /\ heard' = [c \in Calls |-> IF c \in acked
                                     THEN [station |-> s, carrier |-> plc[s].carrier] ELSE heard[c]]
    BY <1>3, NoAutoDispatch DEF DeliverEvent
  <2>2. arg' = arg /\ hs' = hs
    <3>1. arg = [c \in Calls |-> arg[c]]
      OBVIOUS
    <3>2. QED
      BY <1>3, <3>1, NoAutoDispatch DEF DeliverEvent
  <2>3. ASSUME NEW c \in Calls, c \in acked PROVE Hears(c, heard[c].station)'
    BY <2>1, <2>2, <2>3
  <2>4. ASSUME NEW c \in Calls, c \notin acked, c \in Answered'
        PROVE  Hears(c, heard[c].station)'
    BY <2>1, <2>2, <2>4
  <2>5. QED
    BY <2>3, <2>4
<1>4. ASSUME NEW u \in [Stations -> {"up", "down"}],
             Restart(u) \/ \E s \in Stations, f \in Fields : CrashOnNull(s, f, u)
      PROVE  AckFromOwnStation'
  <2>1. Reboot(u)
    BY <1>4 DEF Restart, CrashOnNull
  <2>2. \A c \in Calls : pc'[c] \notin Stages
    BY <2>1 DEF Reboot
  <2>3. QED
    BY <2>2
<1>5. CASE UNCHANGED <<pc, localVars>>
  BY <1>5
<1>6. QED
  BY <1>1, <1>2, <1>3, <1>4, <1>5
     DEF Next, Opcua, DeliverNull, Reload, ConnectStation, Environment, PlcArrive, PlcDone, PlcClear,
         PlcMove, RemoveCarrier, MarkError, AdvanceManual, RowEdit, vars

\* Whatever else changes a station's data while a handshake waits, only an
\* event of its own station answers it (station ids that are not falsy).
THEOREM AnswersComeFromTheStation == Spec => []AckFromOwnStation
<1>1. Init => AckFromOwnStation
  BY DEF Init, AckFromOwnStation, Answered
<1>2. Inv /\ AckFromOwnStation /\ [Next]_vars => AckFromOwnStation'
  BY AckStep
<1>3. QED
  BY <1>1, <1>2, Invariance, PTL DEF Spec

----------------------------------------------------------------------------
\* Refinement: dispatch implements the abstract lock.

\* Under the invariant the abstract holder is the one running call.
LEMMA HolderIsRunning ==
  ASSUME HandshakeExclusive
  PROVE  /\ \A c \in Calls : LockHolder = c /\ isProcessing <=> c \in InHandshake
         /\ ~isProcessing => LockHolder = None
  BY DispatcherAssumption DEF HandshakeExclusive, LockHolder, InHandshake

LEMMA LockInitRefined == Init => Lock!LockInit
  BY DEF Init, Lock!LockInit, LockHolder, LockPhase, InHandshake

LEMMA LockStepRefined ==
  ASSUME Inv, Inv', [Next]_vars PROVE [Lock!LockNext]_(Lock!lockVars)
<1> USE DEF Lock!lockVars, LockPhase
<1>a. /\ \A c \in Calls : LockHolder = c /\ isProcessing <=> c \in InHandshake
      /\ ~isProcessing => LockHolder = None
  BY HolderIsRunning DEF Inv
<1>b. /\ \A c \in Calls : LockHolder' = c /\ isProcessing' <=> c \in InHandshake'
      /\ ~isProcessing' => LockHolder' = None
  BY DispatcherAssumption DEF Inv, HandshakeExclusive, LockHolder, InHandshake
<1>c. /\ isProcessing <=> InHandshake # {}
      /\ isProcessing' <=> InHandshake' # {}
      /\ pc \in [Calls -> PcValues] /\ outcome \in [Calls -> Outcomes]
      /\ pc' \in [Calls -> PcValues] /\ outcome' \in [Calls -> Outcomes]
  BY DEF Inv, HandshakeExclusive, TypeInv, TypeOK
<1>1. ASSUME NEW c \in Calls, NEW res \in Outcomes \ {"none", "busy"},
             pc[c] \in Stages, Return(c, res)
      PROVE  Lock!Settle(c)
  <2>1. LockHolder = c /\ LockHolder' = None
    BY <1>1, <1>a, <1>b DEF InHandshake, Return
  <2>2. LockPhase' = [LockPhase EXCEPT ![c] = "settled"]
    BY <1>1, <1>c DEF Return
  <2>3. QED
    BY <1>1, <2>1, <2>2 DEF Lock!Settle
<1>2. ASSUME NEW c \in Calls, pc[c] = "idle", isProcessing, UNCHANGED isProcessing,
             pc' = [pc EXCEPT ![c] = "returned"], outcome' = [outcome EXCEPT ![c] = "busy"]
      PROVE  Lock!Refuse(c)
  <2>1. PICK d \in Calls : d \in InHandshake
    BY <1>2, <1>c DEF InHandshake
  <2>2. d \in InHandshake'
    BY <1>2, <2>1, <1>c DEF InHandshake
  <2>3. LockHolder = d /\ LockHolder' = d /\ d # None
    BY <1>a, <1>b, <2>1, <2>2, DispatcherAssumption
  <2>4. LockPhase' = [LockPhase EXCEPT ![c] = "refused"]
    BY <1>2, <1>c
  <2>5. QED
    BY <1>2, <2>3, <2>4 DEF Lock!Refuse
<1>3. ASSUME NEW c \in Calls, pc[c] = "idle", ~isProcessing, isProcessing',
             pc' = [pc EXCEPT ![c] = "resolve"], UNCHANGED outcome
      PROVE  Lock!Admit(c)
  <2>1. LockHolder = None /\ LockHolder' = c
    BY <1>3, <1>a, <1>b, <1>c DEF InHandshake
  <2>2. LockPhase' = [LockPhase EXCEPT ![c] = "running"]
    BY <1>3, <1>c
  <2>3. QED
    BY <1>3, <2>1, <2>2 DEF Lock!Admit
<1>4. ASSUME pc' = [c \in Calls |-> IF pc[c] \in Stages THEN "lost" ELSE pc[c]],
             ~isProcessing', UNCHANGED outcome
      PROVE  Lock!LoseAll
  <2>1. LockHolder' = None
    BY <1>4, <1>b
  <2>2. LockPhase' = [c \in Calls |-> IF LockPhase[c] = "running" THEN "lost" ELSE LockPhase[c]]
    BY <1>4, <1>c
  <2>3. QED
    BY <2>1, <2>2 DEF Lock!LoseAll
<1>5. ASSUME \A c \in Calls : IF pc[c] \in Stages THEN pc'[c] \in Stages ELSE pc'[c] = pc[c],
             UNCHANGED <<isProcessing, outcome>>
      PROVE  UNCHANGED Lock!lockVars
  <2>1. InHandshake' = InHandshake
    BY <1>5, <1>c DEF InHandshake
  <2>2. LockHolder' = LockHolder
    BY <2>1 DEF LockHolder
  <2>3. LockPhase' = LockPhase
    BY <1>5, <1>c
  <2>4. QED
    BY <2>2, <2>3
<1>6. QED
  BY <1>1, <1>2, <1>3, <1>4, <1>5, StepEffect DEF Lock!LockNext

\* Every behaviour of the dispatcher is a behaviour of the lock.
THEOREM DispatchIsALock == Spec => LockSafety
  BY LockInitRefined, LockStepRefined, Invariance, PTL DEF Spec, LockSafety, Lock!LockSpec
=============================================================================
