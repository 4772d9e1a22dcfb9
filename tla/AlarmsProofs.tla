---------------------------- MODULE AlarmsProofs ----------------------------
(***************************************************************************)
(* Proofs about Alarms for any number of alarms and of requests at a time. *)
(***************************************************************************)
EXTENDS Alarms, TLAPS

AllJobs == AlarmJobs \cup BulkJobs
AlarmHeld(s) == pc[s] \in {"save", "write"}

AlarmSlotTypes ==
  /\ pc \in [Slots -> {"idle", "insert", "save", "write", "answered"}]
  /\ job \in [Slots -> AllJobs \cup {Absent}]
  /\ mem \in [Slots -> AlarmRows \cup {Absent}] /\ loaded \in [Slots -> AlarmRows \cup {Absent}]
  /\ saved \in [Slots -> Nat] /\ outcome \in [Slots -> {"none", "ok", "error"}]

\* What a handler of slot s holds of its alarm: once an acknowledgement has settled
\* nobody who remembers the alarm without it, or wants it back, is at work on it;
\* "sent" is held only of what was emitted or called so; and what a page is about to
\* be told has happened.
AlarmSlotInv(s) ==
  /\ pc[s] # "idle" => job[s] \in AllJobs
  /\ pc[s] = "insert" => job[s].op = "new"
  /\ ~AlarmHeld(s) => saved[s] = 0
  /\ AlarmHeld(s) =>
       /\ mem[s] \in AlarmRows /\ job[s] \in AlarmJobs /\ job[s].op = "edit"
       /\ saved[s] < SavesOf(job[s]) /\ job[s].id \in used
       /\ job[s].id \in settled => mem[s].acked /\ ~TakesBack(job[s])
       /\ mem[s].delivery = "sent" => job[s].id \in emitted \cup claimed
       /\ job[s].handler = "acknowledge" => mem[s].acked
  /\ pc[s] = "write" /\ loaded[s] # Absent =>
       /\ job[s].id \in settled => loaded[s].acked
       /\ loaded[s].acked => job[s].id \in gone
  /\ pc[s] = "answered" /\ outcome[s] = "ok" => MarkedAcked(job[s]) \subseteq gone

\* What pages list, tick and are about to list exists or existed.
PagesKnow ==
  /\ \A a \in AlarmIds :
       /\ rows[a] # Absent /\ rows[a].acked => a \in gone
       /\ shown[a] = "acked" => a \in gone
       /\ shown[a] # "no" => a \in used
       /\ coming # Absent /\ coming[a] = "acked" => a \in gone
       /\ coming # Absent /\ coming[a] # "no" => a \in used
  /\ selected \subseteq used

AlarmInv ==
  /\ AlarmTypeOK
  /\ \A s \in Slots : AlarmSlotInv(s)
  /\ AckHolds /\ SentWasEmitted /\ PagesKnow
----------------------------------------------------------------------------
\* Jobs, and what the handlers make of rows.

LEMMA JobShapes ==
  /\ \A j \in AlarmJobs :
       /\ j \in AllJobs /\ j # Absent /\ j.op \in {"edit", "new", "delete"}
       /\ j.op # "new" => j.id \in AlarmIds
       /\ j.op = "edit" => j.handler \in {"acknowledge", "update", "dispatch"}
       /\ j.op # "edit" => j.handler \in {"create", "remove"}
       /\ j.handler = "update" => j.body \in Patches
       /\ j.op = "new" => j.body \in Posts
  /\ \A j \in BulkJobs :
       j \in AllJobs /\ j # Absent /\ j.op = "bulk" /\ j.id \subseteq AlarmIds
  BY AlarmsAssumption DEF AlarmJobs, BulkJobs, AllJobs, Clients

LEMMA RowShapes ==
  /\ Absent \notin AlarmRows
  /\ \A e \in AlarmRows : e.acked \in BOOLEAN /\ e.delivery \in {"pending", "sending", "sent", "failed"}
  BY AlarmsAssumption DEF AlarmRows, Deliveries

LEMMA AlarmEdits ==
  ASSUME NEW j \in AlarmJobs, NEW n \in Nat, NEW e \in AlarmRows
  PROVE  /\ EditAlarm(j, n, e) \in AlarmRows
         /\ e.acked /\ ~TakesBack(j) => EditAlarm(j, n, e).acked
         /\ j.handler = "acknowledge" => EditAlarm(j, n, e).acked
         /\ EditAlarm(j, n, e).delivery = "sent" =>
              e.delivery = "sent" \/ (j.handler = "dispatch" /\ n # 1) \/ SaysSent(j)
<1>1. e.acked \in BOOLEAN /\ e.delivery \in Deliveries
  BY DEF AlarmRows
<1>2. CASE j.handler = "update"
  <2> DEFINE b == j.body
             w == Patched(b, e)
  <2>1. b.ack \in {"keep", "set", "clear"} /\ b.delivery \in Deliveries \cup {"keep"}
    BY <1>2, JobShapes DEF Patches
  <2>2. EditAlarm(j, n, e) = w
    BY <1>2 DEF EditAlarm
  <2>3. /\ w.acked = (b.ack = "set" \/ (b.ack = "keep" /\ e.acked))
        /\ w.delivery = IF b.delivery = "keep" THEN e.delivery ELSE b.delivery
        /\ w \in AlarmRows
    BY <1>1, <2>1 DEF Patched, AlarmRows
  <2>4. TakesBack(j) <=> b.ack = "clear"
    BY <1>2 DEF TakesBack
  <2>5. SaysSent(j) <=> b.delivery = "sent"
    BY <1>2 DEF SaysSent
  <2> HIDE DEF b, w
  <2>6. QED
    BY <1>2, <2>1, <2>2, <2>3, <2>4, <2>5
<1>3. CASE j.handler = "dispatch"
  <2>1. EditAlarm(j, n, e) = [e EXCEPT !.delivery = IF n = 1 THEN "sending" ELSE "sent"]
    BY <1>3 DEF EditAlarm
  <2>2. QED
    BY <1>1, <1>3, <2>1 DEF AlarmRows, Deliveries
<1>4. CASE j.handler \notin {"update", "dispatch"}
  <2>1. EditAlarm(j, n, e) = [e EXCEPT !.acked = TRUE]
    BY <1>4 DEF EditAlarm
  <2>2. QED
    BY <1>1, <2>1 DEF AlarmRows
<1>5. QED
  BY <1>2, <1>3, <1>4

\* What save() leaves in a row.
LEMMA Saving ==
  ASSUME NEW e \in AlarmRows, NEW l \in AlarmRows \cup {Absent}, NEW now \in AlarmRows \cup {Absent}
  PROVE  LET w == Table!Written(e, l, now) IN
         /\ w \in AlarmRows \cup {Absent}
         /\ now = Absent /\ l # Absent => w = Absent
         /\ l = Absent => w = e
         /\ l # Absent /\ now # Absent =>
              /\ w \in AlarmRows
              /\ e.acked => w.acked \/ (l.acked /\ w.acked = now.acked)
              /\ w.delivery \in {e.delivery, now.delivery}
<1> DEFINE w == Table!Written(e, l, now)
<1>1. CASE l = Absent
  BY <1>1, RowShapes DEF Table!Written
<1>2. CASE l # Absent /\ now = Absent
  BY <1>2, RowShapes DEF Table!Written
<1>3. CASE l # Absent /\ now # Absent
  <2>1. /\ DOMAIN now = {"acked", "delivery"} /\ DOMAIN e = {"acked", "delivery"}
        /\ l \in AlarmRows /\ now \in AlarmRows
    BY <1>3 DEF AlarmRows
  <2>2. w = [c \in {"acked", "delivery"} |-> IF e[c] # l[c] THEN e[c] ELSE now[c]]
    <3>1. w = [c \in DOMAIN now |-> IF c \in DOMAIN e /\ e[c] # l[c] THEN e[c] ELSE now[c]]
      BY <1>3, Zenon DEF Table!Written
    <3>2. QED
      BY <2>1, <3>1
  <2>3. w = [acked |-> IF e.acked # l.acked THEN e.acked ELSE now.acked,
             delivery |-> IF e.delivery # l.delivery THEN e.delivery ELSE now.delivery]
    BY <2>2
  <2>4. w \in AlarmRows /\ w.delivery \in {e.delivery, now.delivery}
    BY <2>1, <2>3, RowShapes DEF AlarmRows
  <2>5. e.acked => w.acked \/ (l.acked /\ w.acked = now.acked)
    <3>1. e.acked \in BOOLEAN /\ l.acked \in BOOLEAN /\ now.acked \in BOOLEAN
      BY <2>1, RowShapes
    <3>2. w.acked = IF e.acked # l.acked THEN e.acked ELSE now.acked
      BY <2>3
    <3>3. CASE e.acked # l.acked
      BY <3>2, <3>3
    <3>4. CASE e.acked = l.acked
      BY <3>2, <3>4
    <3>5. QED
      BY <3>3, <3>4
  <2>6. QED
    BY <1>3, <2>4, <2>5, RowShapes
<1>4. QED
  BY <1>1, <1>2, <1>3

----------------------------------------------------------------------------
LEMMA AlarmTypes ==
  ASSUME AlarmInv
  PROVE  /\ AlarmSlotTypes
         /\ rows \in [AlarmIds -> AlarmRows \cup {Absent}] /\ used \subseteq AlarmIds
         /\ \A a \in AlarmIds \ used : rows[a] = Absent
         /\ notifying \subseteq MqttAlarms \cap used
         /\ settled \subseteq used /\ emitted \subseteq used /\ gone \subseteq used
         /\ claimed \subseteq used
  BY DEF AlarmInv, AlarmTypeOK, Table!TypeOK, AlarmSlotTypes, AllJobs, Table!Waiting

\* Only slot s moves.
AlarmMoved(s) ==
  \A t \in Slots \ {s} :
    /\ pc'[t] = pc[t] /\ job'[t] = job[t] /\ mem'[t] = mem[t] /\ loaded'[t] = loaded[t]
    /\ saved'[t] = saved[t] /\ outcome'[t] = outcome[t]

\* What a step may do to the table.
RowsKept ==
  /\ rows' \in [AlarmIds -> AlarmRows \cup {Absent}]
  /\ used' \subseteq AlarmIds /\ used \subseteq used'
  /\ \A a \in AlarmIds \ used' : rows'[a] = Absent
  /\ emitted \subseteq emitted' /\ emitted' \subseteq used'
  /\ notifying' \subseteq MqttAlarms \cap used'
  /\ \A a \in settled : rows'[a] = Absent \/ rows'[a].acked
  /\ \A a \in AlarmIds :
       rows'[a] # Absent /\ rows'[a].delivery = "sent" => a \in emitted' \cup claimed'

\* The histories grow by what has happened; settled shrinks only for a PATCH that
\* wants the acknowledgement back.
LEMMA Histories ==
  ASSUME AlarmInv, RowsKept, Recorded
  PROVE  /\ settled' \subseteq used' /\ claimed \subseteq claimed'
         /\ gone' \subseteq used' /\ gone \subseteq gone'
         /\ \A a \in AlarmIds : rows'[a] # Absent /\ rows'[a].acked => a \in gone'
         /\ \A a \in used : rows'[a] = Absent => a \in gone'
         /\ \A a \in settled' : rows'[a] = Absent \/ rows'[a].acked
         /\ \A a \in settled' : \A s \in Slots :
              AlarmHeld(s)' /\ job'[s].id = a => a \in settled /\ ~TakesBack(job'[s])
<1>1. /\ used \subseteq AlarmIds /\ settled \subseteq used /\ gone \subseteq used
  BY AlarmTypes
<1>2. Acked(rows') \subseteq used'
  BY DEF Acked, RowsKept
<1>3. settled' = {a \in settled \cup Acked(rows') : \A s \in Slots :
                    Table!Holds(s, a)' => a \in settled /\ ~TakesBack(job'[s])}
  BY DEF Recorded
<1>4. gone' = gone \cup Acked(rows') \cup {a \in used : rows'[a] = Absent}
  BY DEF Recorded
<1>5. settled' \subseteq used' /\ claimed \subseteq claimed'
  BY <1>1, <1>2, <1>3 DEF RowsKept, Recorded
<1>6. gone' \subseteq used' /\ gone \subseteq gone'
  BY <1>1, <1>2, <1>4 DEF RowsKept
<1>7. \A a \in AlarmIds : rows'[a] # Absent /\ rows'[a].acked => a \in gone'
  BY <1>4 DEF Acked
<1>8. \A a \in settled' : rows'[a] = Absent \/ rows'[a].acked
  BY <1>3 DEF Acked, RowsKept
<1>9. \A a \in settled' : \A s \in Slots :
        AlarmHeld(s)' /\ job'[s].id = a => a \in settled /\ ~TakesBack(job'[s])
  BY <1>3 DEF Table!Holds, AlarmHeld
<1>10. QED
  BY <1>4, <1>5, <1>6, <1>7, <1>8, <1>9

\* A slot that does not move keeps its part of the invariant.
LEMMA OthersKept ==
  ASSUME AlarmInv, RowsKept, Recorded, NEW s \in Slots, AlarmMoved(s), NEW t \in Slots \ {s}
  PROVE  AlarmSlotInv(t)'
<1>1. AlarmSlotInv(t)
  BY DEF AlarmInv
<1>2. /\ pc'[t] = pc[t] /\ job'[t] = job[t] /\ mem'[t] = mem[t] /\ loaded'[t] = loaded[t]
      /\ saved'[t] = saved[t] /\ outcome'[t] = outcome[t]
  BY DEF AlarmMoved
<1>3. /\ gone \subseteq gone' /\ used \subseteq used'
      /\ emitted \subseteq emitted' /\ claimed \subseteq claimed'
      /\ AlarmHeld(t) => (job[t].id \in settled' => job[t].id \in settled)
  BY <1>2, Histories DEF RowsKept, AlarmHeld
<1>4. QED
  BY <1>1, <1>2, <1>3 DEF AlarmSlotInv, AlarmHeld

LEMMA SlotStep ==
  ASSUME AlarmInv, NEW s \in Slots, AlarmMoved(s), AlarmSlotTypes', AlarmSlotInv(s)', RowsKept, Recorded,
         UNCHANGED alarmPageVars
  PROVE  AlarmInv'
<1>1. \A t \in Slots : AlarmSlotInv(t)'
  BY OthersKept
<1>2. /\ settled' \subseteq used' /\ gone' \subseteq used' /\ gone \subseteq gone'
      /\ \A a \in AlarmIds : rows'[a] # Absent /\ rows'[a].acked => a \in gone'
      /\ \A a \in settled' : rows'[a] = Absent \/ rows'[a].acked
  BY Histories
<1>3. Table!TypeOK'
  BY <1>1 DEF AlarmSlotTypes, AlarmSlotInv, RowsKept, Table!TypeOK, Table!Waiting, AllJobs, AlarmHeld
<1>4. claimed' \subseteq used'
  <2>1. \A t \in Slots, a \in AlarmIds : Table!Holds(t, a)' => a \in used'
    BY <1>1 DEF AlarmSlotInv, AlarmHeld, Table!Holds
  <2>2. QED
    BY <2>1, AlarmTypes DEF Recorded, RowsKept
<1>5. AlarmTypeOK' /\ AckHolds' /\ SentWasEmitted'
  BY <1>2, <1>3, <1>4 DEF AlarmInv, AlarmTypeOK, RowsKept, alarmPageVars, AckHolds, SentWasEmitted
<1>6. PagesKnow'
  BY <1>2 DEF AlarmInv, PagesKnow, RowsKept, alarmPageVars
<1>7. QED
  BY <1>1, <1>5, <1>6 DEF AlarmInv

----------------------------------------------------------------------------
LEMMA TableStays ==
  ASSUME AlarmInv, UNCHANGED <<rows, used, emitted>>, notifying' \subseteq notifying, Recorded
  PROVE  RowsKept
<1>1. claimed \subseteq claimed'
  BY DEF Recorded
<1>2. QED
  BY <1>1, AlarmTypes DEF AlarmInv, AckHolds, SentWasEmitted, RowsKept

\* The row of one alarm becomes e.
LEMMA RowBecomes ==
  ASSUME AlarmInv, NEW a \in AlarmIds, NEW e \in AlarmRows \cup {Absent},
         rows' = [rows EXCEPT ![a] = e],
         used' \subseteq AlarmIds, used \subseteq used', a \in used',
         emitted \subseteq emitted', emitted' \subseteq used',
         notifying' \subseteq MqttAlarms \cap used', claimed \subseteq claimed',
         a \in settled => e = Absent \/ e.acked,
         e # Absent /\ e.delivery = "sent" => a \in emitted' \cup claimed'
  PROVE  RowsKept
<1>1. /\ rows \in [AlarmIds -> AlarmRows \cup {Absent}]
      /\ \A b \in AlarmIds \ used : rows[b] = Absent
  BY AlarmTypes
<1>2. \A b \in AlarmIds : rows'[b] = IF b = a THEN e ELSE rows[b]
  BY <1>1
<1>3. \A b \in settled : rows[b] = Absent \/ rows[b].acked
  BY DEF AlarmInv, AckHolds
<1>4. \A b \in AlarmIds :
        rows[b] # Absent /\ rows[b].delivery = "sent" => b \in emitted \cup claimed
  BY DEF AlarmInv, SentWasEmitted
<1>5. settled \subseteq AlarmIds
  BY AlarmTypes
<1>6. \A b \in settled : rows'[b] = Absent \/ rows'[b].acked
  BY <1>2, <1>3, <1>5
<1>7. \A b \in AlarmIds :
        rows'[b] # Absent /\ rows'[b].delivery = "sent" => b \in emitted' \cup claimed'
  BY <1>2, <1>4
<1>8. rows' \in [AlarmIds -> AlarmRows \cup {Absent}]
  BY <1>1
<1>9. \A b \in AlarmIds \ used' : rows'[b] = Absent
  BY <1>1, <1>2
<1>10. QED
  BY <1>6, <1>7, <1>8, <1>9 DEF RowsKept

LEMMA AlarmAnswers ==
  ASSUME AlarmInv, NEW s \in Slots, NEW j \in AllJobs, NEW o \in {"ok", "error"},
         Table!Answer(s, j, o), RowsKept, Recorded, UNCHANGED alarmPageVars,
         FromPage(j) /\ o = "ok" => MarkedAcked(j) \subseteq gone'
  PROVE  AlarmInv'
<1>1. AlarmSlotTypes
  BY AlarmTypes
<1>2. CASE FromPage(j)
  <2>1. /\ pc' = [pc EXCEPT ![s] = "answered"] /\ outcome' = [outcome EXCEPT ![s] = o]
        /\ job' = [job EXCEPT ![s] = j] /\ mem' = [mem EXCEPT ![s] = Absent]
        /\ loaded' = [loaded EXCEPT ![s] = Absent] /\ saved' = [saved EXCEPT ![s] = 0]
    BY <1>2 DEF Table!Answer
  <2>2. AlarmSlotTypes' /\ AlarmMoved(s) /\ pc'[s] = "answered" /\ job'[s] = j /\ outcome'[s] = o /\ saved'[s] = 0
    BY <1>1, <2>1 DEF AlarmSlotTypes, AlarmMoved
  <2>3. AlarmSlotInv(s)'
    BY <1>2, <2>2 DEF AlarmSlotInv, AlarmHeld
  <2>4. QED
    BY <2>2, <2>3, SlotStep
<1>3. CASE ~FromPage(j)
  <2>1. /\ pc' = [pc EXCEPT ![s] = "idle"] /\ outcome' = outcome
        /\ job' = [job EXCEPT ![s] = Absent] /\ mem' = [mem EXCEPT ![s] = Absent]
        /\ loaded' = [loaded EXCEPT ![s] = Absent] /\ saved' = [saved EXCEPT ![s] = 0]
    BY <1>3 DEF Table!Answer
  <2>2. AlarmSlotTypes' /\ AlarmMoved(s) /\ pc'[s] = "idle" /\ saved'[s] = 0
    BY <1>1, <2>1 DEF AlarmSlotTypes, AlarmMoved
  <2>3. AlarmSlotInv(s)'
    BY <2>2 DEF AlarmSlotInv, AlarmHeld
  <2>4. QED
    BY <2>2, <2>3, SlotStep
<1>4. QED
  BY <1>2, <1>3

LEMMA Finding ==
  ASSUME AlarmInv, NEW s \in Slots, NEW j \in AlarmJobs, Table!Finds(s, j), Recorded, Unrelated
  PROVE  AlarmInv'
<1>1. RowsKept /\ UNCHANGED alarmPageVars
  BY TableStays DEF Table!Finds, Unrelated
<1>2. CASE Table!Answer(s, j, "error")
  BY <1>1, <1>2, JobShapes, AlarmAnswers
<1>3. CASE /\ rows[j.id] # Absent /\ ~RefusesAlarm(j, rows[j.id])
           /\ mem' = [mem EXCEPT ![s] = EditAlarm(j, 1, rows[j.id])]
           /\ Table!Awaits(s, j, "save")
  <2> DEFINE a == j.id
             e == EditAlarm(j, 1, rows[j.id])
  <2>1. j.op = "edit" /\ a \in AlarmIds /\ AlarmSlotTypes
    BY JobShapes, AlarmTypes DEF Table!Finds, Table!Begins
  <2>2. rows[a] \in AlarmRows /\ a \in used
    BY <1>3, <2>1, AlarmTypes
  <2>3. /\ e \in AlarmRows /\ (rows[a].acked /\ ~TakesBack(j) => e.acked)
        /\ (j.handler = "acknowledge" => e.acked)
        /\ (e.delivery = "sent" => rows[a].delivery = "sent" \/ SaysSent(j))
    BY <2>2, AlarmEdits
  <2> HIDE DEF e
  <2>4. /\ pc' = [pc EXCEPT ![s] = "save"] /\ job' = [job EXCEPT ![s] = j]
        /\ mem' = [mem EXCEPT ![s] = e] /\ UNCHANGED <<loaded, saved, outcome>>
    BY <1>3 DEF Table!Awaits, e
  <2>5. AlarmSlotTypes' /\ AlarmMoved(s) /\ pc'[s] = "save" /\ job'[s] = j /\ mem'[s] = e
    BY <2>1, <2>3, <2>4, JobShapes DEF AlarmSlotTypes, AlarmMoved
  <2>6. saved'[s] = 0 /\ SavesOf(j) > 0
    BY <2>4 DEF AlarmInv, AlarmSlotInv, AlarmHeld, Table!Finds, Table!Begins, SavesOf
  <2>7. a \in settled => rows[a].acked
    BY <2>2, RowShapes DEF AlarmInv, AckHolds
  <2>8. a \in settled' => e.acked /\ ~TakesBack(j)
    BY <1>1, <2>3, <2>5, <2>7, Histories DEF AlarmHeld
  <2>9. e.delivery = "sent" => a \in emitted' \cup claimed'
    <3>1. rows[a].delivery = "sent" => a \in emitted \cup claimed
      BY <2>1, <2>2, RowShapes DEF AlarmInv, SentWasEmitted
    <3>2. claimed \subseteq claimed' /\ emitted' = emitted
      BY DEF Recorded, Unrelated
    <3>3. SaysSent(j) => a \in claimed'
      BY <2>1, <2>5 DEF Recorded, Table!Holds
    <3>4. QED
      BY <2>3, <3>1, <3>2, <3>3
  <2>10. used' = used
    BY DEF Table!Finds
  <2>11. AlarmSlotInv(s)'
    BY <2>1, <2>2, <2>3, <2>5, <2>6, <2>8, <2>9, <2>10, JobShapes DEF AlarmSlotInv, AlarmHeld
  <2>12. QED
    BY <1>1, <2>5, <2>11, SlotStep
<1>4. QED
  BY <1>2, <1>3 DEF Table!Finds

LEMMA Looking ==
  ASSUME AlarmInv, NEW s \in Slots, NEW j \in AlarmJobs, Table!Looks(s, j), Recorded, Unrelated
  PROVE  AlarmInv'
<1>1. RowsKept /\ UNCHANGED alarmPageVars
  BY TableStays DEF Table!Looks, Unrelated
<1>2. CASE Table!Answer(s, j, "error")
  BY <1>1, <1>2, JobShapes, AlarmAnswers
<1>3. CASE Table!Awaits(s, j, "insert") /\ UNCHANGED mem
  <2>1. AlarmSlotTypes /\ j.op = "new" /\ pc[s] = "idle"
    BY AlarmTypes DEF Table!Looks, Table!Begins
  <2>2. /\ pc' = [pc EXCEPT ![s] = "insert"] /\ job' = [job EXCEPT ![s] = j]
        /\ UNCHANGED <<mem, loaded, saved, outcome>>
    BY <1>3 DEF Table!Awaits
  <2>3. AlarmSlotTypes' /\ AlarmMoved(s) /\ pc'[s] = "insert" /\ job'[s] = j /\ saved'[s] = saved[s]
    BY <2>1, <2>2, JobShapes DEF AlarmSlotTypes, AlarmMoved
  <2>4. AlarmSlotInv(s)'
    BY <2>1, <2>3, JobShapes DEF AlarmInv, AlarmSlotInv, AlarmHeld
  <2>5. QED
    BY <1>1, <2>3, <2>4, SlotStep
<1>4. QED
  BY <1>2, <1>3 DEF Table!Looks

LEMMA Deleting ==
  ASSUME AlarmInv, NEW s \in Slots, NEW j \in AlarmJobs, Table!Deletes(s, j), Recorded, Unrelated
  PROVE  AlarmInv'
<1>1. UNCHANGED alarmPageVars /\ j.id \in AlarmIds /\ MarkedAcked(j) = {} /\ j \in AllJobs
  BY JobShapes DEF Table!Deletes, Table!Begins, Unrelated, MarkedAcked
<1>2. CASE UNCHANGED rows /\ Table!Answer(s, j, "error")
  <2>1. RowsKept
    BY <1>2, TableStays DEF Table!Deletes, Unrelated
  <2>2. QED
    BY <1>1, <1>2, <2>1, AlarmAnswers
<1>3. CASE /\ rows[j.id] # Absent \/ FALSE
           /\ rows' = [rows EXCEPT ![j.id] = Absent] /\ Table!Confirmed(s, j)
  <2>1. j.id \in used /\ used \subseteq AlarmIds /\ emitted \subseteq used /\ notifying \subseteq MqttAlarms \cap used
    BY <1>1, <1>3, AlarmTypes
  <2>2. RowsKept
    BY <1>1, <1>3, <2>1, RowBecomes DEF Table!Deletes, Unrelated, Recorded
  <2>3. QED
    BY <1>1, <1>3, <2>2, AlarmAnswers DEF Table!Confirmed
<1>4. QED
  BY <1>2, <1>3 DEF Table!Deletes

LEMMA Bulk ==
  ASSUME AlarmInv, NEW s \in Slots, BulkAcknowledge(s)
  PROVE  AlarmInv'
<1>1. PICK j \in BulkJobs :
       /\ Table!Begins(s, j, "bulk") /\ (FromPage(j) => AlarmClickable(j))
       /\ \/ /\ rows' = [a \in AlarmIds |-> IF a \in j.id /\ rows[a] # Absent
                                            THEN [rows[a] EXCEPT !.acked = TRUE] ELSE rows[a]]
             /\ Table!Confirmed(s, j)
          \/ UNCHANGED rows /\ Table!Answer(s, j, "error")
  BY DEF BulkAcknowledge
<1>2. UNCHANGED <<used, notifying, emitted>> /\ UNCHANGED alarmPageVars /\ Recorded /\ j \in AllJobs
  BY JobShapes DEF BulkAcknowledge, Unrelated
<1>3. CASE UNCHANGED rows /\ Table!Answer(s, j, "error")
  BY <1>2, <1>3, TableStays, AlarmAnswers
<1>4. CASE /\ rows' = [a \in AlarmIds |-> IF a \in j.id /\ rows[a] # Absent
                                          THEN [rows[a] EXCEPT !.acked = TRUE] ELSE rows[a]]
           /\ Table!Confirmed(s, j)
  <2>1. /\ rows \in [AlarmIds -> AlarmRows \cup {Absent}] /\ settled \subseteq AlarmIds
        /\ \A a \in AlarmIds \ used : rows[a] = Absent
    BY AlarmTypes
  <2>2. \A e \in AlarmRows : /\ [e EXCEPT !.acked = TRUE] \in AlarmRows
                             /\ [e EXCEPT !.acked = TRUE].acked
                             /\ [e EXCEPT !.acked = TRUE].delivery = e.delivery
    BY DEF AlarmRows
  <2>3. \A a \in AlarmIds :
          /\ rows[a] = Absent => rows'[a] = Absent
          /\ rows[a] # Absent => /\ rows'[a] \in AlarmRows /\ rows'[a].delivery = rows[a].delivery
                                 /\ rows[a].acked \/ a \in j.id => rows'[a].acked
    BY <1>4, <2>1, <2>2
  <2>4. rows' \in [AlarmIds -> AlarmRows \cup {Absent}]
    BY <1>4, <2>1, <2>2
  <2>5. \A a \in settled : rows'[a] = Absent \/ rows'[a].acked
    BY <2>1, <2>3 DEF AlarmInv, AckHolds
  <2>6. \A a \in AlarmIds :
          rows'[a] # Absent /\ rows'[a].delivery = "sent" => a \in emitted' \cup claimed'
    BY <1>2, <2>3 DEF AlarmInv, SentWasEmitted, Recorded
  <2>7. RowsKept
    BY <1>2, <2>1, <2>3, <2>4, <2>5, <2>6, AlarmTypes DEF RowsKept
  <2>8. PICK o \in {"ok", "error"} : Table!Answer(s, j, o)
    BY <1>4 DEF Table!Confirmed
  <2>9. CASE FromPage(j)
    <3>1. j.id = selected /\ MarkedAcked(j) = j.id /\ j.op = "bulk"
      BY <1>1, <2>9, JobShapes DEF AlarmClickable, AckClickable, MarkedAcked, BulkJobs
    <3>2. j.id \subseteq used /\ used \subseteq AlarmIds
      BY <3>1, AlarmTypes DEF AlarmInv, PagesKnow
    <3>3. MarkedAcked(j) \subseteq gone'
      BY <1>2, <2>1, <2>3, <2>4, <2>7, <3>1, <3>2, RowShapes, Histories
    <3>4. QED
      BY <1>2, <2>7, <2>8, <3>3, AlarmAnswers
  <2>10. CASE ~FromPage(j)
    BY <1>2, <2>7, <2>8, <2>10, AlarmAnswers
  <2>11. QED
    BY <2>9, <2>10
<1>5. QED
  BY <1>1, <1>3, <1>4

----------------------------------------------------------------------------
(* The steps of a handler. *)

\* A step that answers does not save another time.
LEMMA AnswerEmitsNothing ==
  ASSUME AlarmInv, NEW s \in Slots, NEW j, NEW o, Table!Answer(s, j, o), AlarmSaveStep(s)
  PROVE  UNCHANGED <<emitted, notifying>> /\ Recorded /\ UNCHANGED alarmPageVars
<1>1. saved \in [Slots -> Nat]
  BY AlarmTypes DEF AlarmSlotTypes
<1>2. ~(saved'[s] > saved[s])
  BY <1>1 DEF Table!Answer
<1>3. QED
  BY <1>2 DEF AlarmSaveStep

LEMMA Inserting ==
  ASSUME AlarmInv, NEW s \in Slots, Table!Inserts(s), AlarmSaveStep(s)
  PROVE  AlarmInv'
<1> DEFINE j == job[s]
<1>1. j \in AlarmJobs /\ j \in AllJobs /\ j.op = "new"
  BY JobShapes DEF AlarmInv, AlarmSlotInv, AllJobs, Table!Inserts
<1>2. MarkedAcked(j) = {}
  BY <1>1, JobShapes DEF MarkedAcked
<1>3. PICK o \in {"ok", "error"} : Table!Answer(s, j, o)
  BY DEF Table!Inserts, Table!Confirmed
<1>4. UNCHANGED <<emitted, notifying>> /\ Recorded /\ UNCHANGED alarmPageVars
  BY <1>3, AnswerEmitsNothing
<1>5. PICK i \in AlarmIds \ used : rows' = [rows EXCEPT ![i] = NewAlarm(j)] /\ used' = used \cup {i}
  BY DEF Table!Inserts
<1>6. NewAlarm(j) \in AlarmRows /\ i \notin settled
  BY <1>1, <1>5, JobShapes, AlarmTypes DEF NewAlarm, AlarmRows, Posts
<1>7. RowsKept
  <2>1. claimed \subseteq claimed'
    BY <1>4 DEF Recorded
  <2>2. rows'[i] = NewAlarm(j) /\ i \in used' \ used
    BY <1>5, AlarmTypes
  <2>3. NewAlarm(j).delivery = "sent" => i \in claimed'
    BY <1>4, <2>2 DEF Recorded
  <2>4. QED
    BY <1>4, <1>5, <1>6, <2>1, <2>3, AlarmTypes, RowBecomes
<1>8. QED
  BY <1>1, <1>2, <1>3, <1>4, <1>7, AlarmAnswers

LEMMA Loading ==
  ASSUME AlarmInv, NEW s \in Slots, Table!SaveLoads(s), AlarmSaveStep(s)
  PROVE  AlarmInv'
<1>1. /\ AlarmSlotTypes /\ rows \in [AlarmIds -> AlarmRows \cup {Absent}]
      /\ used \subseteq AlarmIds /\ AlarmSlotInv(s) /\ pc[s] = "save"
  BY AlarmTypes DEF AlarmInv, Table!SaveLoads
<1> DEFINE a == job[s].id
<1>2. a \in AlarmIds
  BY <1>1 DEF AlarmSlotInv, AlarmHeld
<1>3. /\ loaded' = [loaded EXCEPT ![s] = rows[a]] /\ pc' = [pc EXCEPT ![s] = "write"]
      /\ UNCHANGED <<rows, used, job, mem, saved, outcome>>
  BY DEF Table!SaveLoads
<1>4. UNCHANGED <<emitted, notifying>> /\ Recorded /\ UNCHANGED alarmPageVars
  <2>1. ~(saved'[s] > saved[s])
    BY <1>1, <1>3 DEF AlarmSlotTypes
  <2>2. QED
    BY <2>1 DEF AlarmSaveStep
<1>5. RowsKept
  BY <1>3, <1>4, TableStays
<1>6. AlarmSlotTypes' /\ AlarmMoved(s) /\ pc'[s] = "write" /\ loaded'[s] = rows[a] /\ job'[s] = job[s]
      /\ mem'[s] = mem[s] /\ saved'[s] = saved[s]
  BY <1>1, <1>2, <1>3 DEF AlarmSlotTypes, AlarmMoved
<1>7. rows[a] # Absent => (a \in settled => rows[a].acked) /\ (rows[a].acked => a \in gone)
  BY <1>2 DEF AlarmInv, AckHolds, PagesKnow
<1>8. gone \subseteq gone' /\ claimed \subseteq claimed' /\ (a \in settled' => a \in settled)
  BY <1>4, <1>5, <1>6, Histories DEF AlarmHeld
<1>9. AlarmSlotInv(s)'
  BY <1>1, <1>3, <1>4, <1>6, <1>7, <1>8 DEF AlarmSlotInv, AlarmHeld
<1>10. QED
  BY <1>4, <1>5, <1>6, <1>9, SlotStep

\* What a write leaves in the row of the handler's alarm.
LEMMA RowWritten ==
  ASSUME AlarmInv, NEW s \in Slots, Table!SaveWrites(s)
  PROVE  LET a == job[s].id
             w == Table!Written(mem[s], loaded[s], rows[a]) IN
         /\ rows' = [rows EXCEPT ![a] = w] /\ used' = used /\ w \in AlarmRows \cup {Absent}
         /\ a \in used /\ a \in AlarmIds
         /\ a \in settled => w = Absent \/ w.acked
         /\ w # Absent /\ w.delivery = "sent" => a \in emitted \cup claimed
         /\ job[s].handler = "acknowledge" => w = Absent \/ w.acked \/ a \in gone
<1> DEFINE a == job[s].id
           e == mem[s]
           l == loaded[s]
           now == rows[a]
           w == Table!Written(e, l, now)
<1>1. /\ AlarmSlotTypes /\ rows \in [AlarmIds -> AlarmRows \cup {Absent}]
      /\ used \subseteq AlarmIds /\ AlarmSlotInv(s) /\ pc[s] = "write"
  BY AlarmTypes DEF AlarmInv, Table!SaveWrites
<1>2. /\ a \in used /\ e \in AlarmRows /\ (a \in settled => e.acked)
      /\ (e.delivery = "sent" => a \in emitted \cup claimed) /\ (job[s].handler = "acknowledge" => e.acked)
      /\ (l # Absent => (a \in settled => l.acked) /\ (l.acked => a \in gone))
  BY <1>1 DEF AlarmSlotInv, AlarmHeld
<1>3. a \in AlarmIds /\ l \in AlarmRows \cup {Absent} /\ now \in AlarmRows \cup {Absent}
  BY <1>1, <1>2 DEF AlarmSlotTypes
<1>4. /\ a \in settled /\ now # Absent => now.acked
      /\ now # Absent /\ now.delivery = "sent" => a \in emitted \cup claimed
  BY <1>3 DEF AlarmInv, AckHolds, SentWasEmitted
<1>5. rows' = [rows EXCEPT ![a] = w] /\ used' = used
  BY <1>1, <1>3 DEF Table!SaveWrites
<1>6. /\ w \in AlarmRows \cup {Absent}
      /\ now = Absent /\ l # Absent => w = Absent
      /\ l = Absent => w = e
      /\ l # Absent /\ now # Absent =>
           /\ w \in AlarmRows
           /\ e.acked => w.acked \/ (l.acked /\ w.acked = now.acked)
           /\ w.delivery \in {e.delivery, now.delivery}
  BY <1>2, <1>3, Saving
<1> HIDE DEF a, e, l, now, w
<1>7. a \in settled => w = Absent \/ w.acked
  BY <1>2, <1>4, <1>6
<1>8. w # Absent /\ w.delivery = "sent" => a \in emitted \cup claimed
  BY <1>2, <1>4, <1>6
<1>9. job[s].handler = "acknowledge" => w = Absent \/ w.acked \/ a \in gone
  BY <1>2, <1>6
<1>10. QED
  BY <1>2, <1>3, <1>5, <1>6, <1>7, <1>8, <1>9 DEF a, e, l, now, w

LEMMA Writing ==
  ASSUME AlarmInv, NEW s \in Slots, Table!SaveWrites(s), AlarmSaveStep(s)
  PROVE  AlarmInv'
<1> DEFINE j == job[s]
           a == job[s].id
           w == Table!Written(mem[s], loaded[s], rows[a])
<1>1. AlarmSlotTypes /\ AlarmSlotInv(s) /\ pc[s] = "write"
  BY AlarmTypes DEF AlarmInv, Table!SaveWrites
<1>2. j \in AlarmJobs /\ j \in AllJobs /\ j.op = "edit" /\ mem[s] \in AlarmRows
  BY <1>1, JobShapes DEF AlarmSlotInv, AlarmHeld
<1>3. /\ rows' = [rows EXCEPT ![a] = w] /\ used' = used /\ w \in AlarmRows \cup {Absent}
      /\ a \in used /\ a \in AlarmIds
      /\ a \in settled => w = Absent \/ w.acked
      /\ w # Absent /\ w.delivery = "sent" => a \in emitted \cup claimed
      /\ j.handler = "acknowledge" => w = Absent \/ w.acked \/ a \in gone
  BY RowWritten
<1>4. Recorded /\ UNCHANGED alarmPageVars /\ claimed \subseteq claimed'
  BY DEF AlarmSaveStep, Recorded
<1> HIDE DEF w
<1>5. ASSUME NEW o \in {"ok", "error"}, Table!Answer(s, j, o)
      PROVE  AlarmInv'
  <2>1. UNCHANGED <<emitted, notifying>>
    BY <1>5, AnswerEmitsNothing
  <2>2. RowsKept
    BY <1>3, <1>4, <2>1, AlarmTypes, RowBecomes
  <2>3. j.handler = "acknowledge" => a \in gone'
    <3>1. rows'[a] = w
      BY <1>3, AlarmTypes
    <3>2. QED
      BY <1>3, <1>4, <2>2, <3>1, Histories
  <2>4. MarkedAcked(j) \subseteq gone'
    BY <1>2, <2>3 DEF MarkedAcked
  <2>5. QED
    BY <1>2, <1>4, <1>5, <2>2, <2>4, AlarmAnswers
<1>6. ASSUME saved[s] + 1 < SavesOf(j), saved' = [saved EXCEPT ![s] = @ + 1],
             mem' = [mem EXCEPT ![s] = EditAlarm(j, saved[s] + 2, @)],
             loaded' = [loaded EXCEPT ![s] = Absent], pc' = [pc EXCEPT ![s] = "save"],
             UNCHANGED <<job, outcome>>
      PROVE  AlarmInv'
  <2> DEFINE e == EditAlarm(j, saved[s] + 2, mem[s])
  <2>1. saved[s] \in Nat
    BY <1>1 DEF AlarmSlotTypes
  <2>2. j.handler = "dispatch" /\ saved[s] = 0
    BY <1>6, <2>1 DEF SavesOf
  <2>3. saved'[s] = 1 /\ saved'[s] > saved[s] /\ SavesOf(j) = 2
    BY <1>1, <1>6, <2>2 DEF AlarmSlotTypes, SavesOf
  <2>4. emitted' = emitted \cup {a} /\ notifying' = notifying \cup ({a} \cap MqttAlarms)
    BY <2>3 DEF AlarmSaveStep
  <2>5. RowsKept
    BY <1>3, <1>4, <2>4, AlarmTypes, RowBecomes
  <2>6. e \in AlarmRows /\ (mem[s].acked => e.acked) /\ ~TakesBack(j)
    BY <1>2, <2>1, <2>2, AlarmEdits DEF TakesBack
  <2> HIDE DEF e
  <2>7. mem' = [mem EXCEPT ![s] = e]
    BY <1>6 DEF e
  <2>8. AlarmSlotTypes' /\ AlarmMoved(s) /\ pc'[s] = "save" /\ job'[s] = j /\ mem'[s] = e
    BY <1>1, <1>6, <2>1, <2>6, <2>7 DEF AlarmSlotTypes, AlarmMoved
  <2>9. a \in settled' => e.acked
    <3>1. a \in settled' => a \in settled
      BY <1>4, <2>5, <2>8, Histories DEF AlarmHeld
    <3>2. a \in settled => mem[s].acked
      BY <1>1 DEF AlarmSlotInv, AlarmHeld
    <3>3. QED
      BY <2>6, <3>1, <3>2
  <2>10. AlarmSlotInv(s)'
    BY <1>2, <1>3, <2>2, <2>3, <2>4, <2>6, <2>8, <2>9 DEF AlarmSlotInv, AlarmHeld
  <2>11. QED
    BY <1>4, <2>5, <2>8, <2>10, SlotStep
<1>7. QED
  BY <1>5, <1>6 DEF Table!SaveWrites

LEMMA Failing ==
  ASSUME AlarmInv, NEW s \in Slots, Table!Fails(s), AlarmSaveStep(s)
  PROVE  AlarmInv'
<1>1. Table!Answer(s, job[s], "error") /\ UNCHANGED <<rows, used>> /\ pc[s] # "idle"
  BY DEF Table!Fails, Table!Waiting
<1>2. UNCHANGED <<emitted, notifying>> /\ Recorded /\ UNCHANGED alarmPageVars
  BY <1>1, AnswerEmitsNothing
<1>3. RowsKept /\ job[s] \in AllJobs
  BY <1>1, <1>2, TableStays DEF AlarmInv, AlarmSlotInv
<1>4. QED
  BY <1>1, <1>2, <1>3, AlarmAnswers

----------------------------------------------------------------------------
(* The pages and the listener. *)

\* A step of a page.
LEMMA PageStep ==
  ASSUME AlarmInv, UNCHANGED <<rows, used, requestVars, historyVars>>, notifying' \subseteq notifying,
         page' \in AlarmPages, shown' \in Listings, coming' \in Listings \cup {Absent}, PagesKnow'
  PROVE  AlarmInv'
<1>1. \A s \in Slots : AlarmSlotInv(s)'
  BY DEF AlarmInv, AlarmSlotInv, AlarmHeld, requestVars, historyVars
<1>2. Table!TypeOK'
  BY DEF AlarmInv, AlarmTypeOK, Table!TypeOK, requestVars
<1>3. AlarmTypeOK'
  BY <1>2, AlarmTypes DEF AlarmInv, AlarmTypeOK, PagesKnow, historyVars
<1>4. AckHolds' /\ SentWasEmitted'
  BY DEF AlarmInv, AckHolds, SentWasEmitted, historyVars
<1>5. QED
  BY <1>1, <1>3, <1>4 DEF AlarmInv

LEMMA Listed ==
  ASSUME AlarmInv, NEW p
  PROVE  \A l \in ListsFor(p) :
           /\ l \in Listings /\ l # Absent
           /\ \A a \in AlarmIds : /\ l[a] = "acked" => a \in gone
                                  /\ l[a] # "no" => a \in used
<1>1. \A a \in AlarmIds : rows[a] # Absent => a \in used
  BY AlarmTypes
<1>2. \A l \in ListsFor(p) : l \in Listings /\ \A a \in AlarmIds :
        (l[a] = "acked" => a \in gone) /\ (l[a] # "no" => rows[a] # Absent)
  BY DEF ListsFor
<1>3. QED
  BY <1>1, <1>2, AlarmsAssumption

LEMMA PageSteps ==
  ASSUME AlarmInv,
         Refresh \/ AlarmListLands \/ Ticks \/ (\E p \in AlarmPages : OpenPage(p)) \/ NotificationSaved
  PROVE  AlarmInv'
<1>1. /\ page \in AlarmPages /\ shown \in Listings /\ coming \in Listings \cup {Absent}
      /\ PagesKnow
  BY DEF AlarmInv, AlarmTypeOK
<1>2. CASE Refresh
  <2>1. coming' \in ListsFor(page) /\ UNCHANGED <<page, shown, selected>> /\ TableUntouched
    BY <1>2 DEF Refresh, AsksList
  <2>2. PagesKnow'
    BY <1>1, <2>1, Listed DEF PagesKnow, TableUntouched, historyVars
  <2>3. QED
    BY <1>1, <2>1, <2>2, Listed, PageStep DEF TableUntouched
<1>3. CASE AlarmListLands
  <2>1. /\ coming \in Listings /\ coming # Absent /\ coming' = Absent
        /\ shown' \in {shown, coming, NothingListed}
        /\ UNCHANGED <<page, selected>> /\ TableUntouched
    BY <1>1, <1>3 DEF AlarmListLands
  <2>2. PagesKnow'
    BY <1>1, <2>1 DEF PagesKnow, TableUntouched, historyVars, NothingListed
  <2>3. QED
    BY <1>1, <2>1, <2>2, PageStep DEF TableUntouched, NothingListed, Listings
<1>4. CASE Ticks
  <2>1. UNCHANGED <<page, shown, coming>> /\ TableUntouched
    BY <1>4 DEF Ticks
  <2>2. selected' \subseteq used
    <3>1. selected \subseteq used /\ \A a \in AlarmIds : shown[a] # "no" => a \in used
      BY <1>1 DEF PagesKnow
    <3>2. \/ \E a \in {b \in AlarmIds : shown[b] # "no"} :
               selected' = (selected \ {a}) \cup ({a} \ selected)
          \/ selected' \subseteq {b \in AlarmIds : shown[b] # "no"}
      BY <1>4 DEF Ticks
    <3>3. QED
      BY <3>1, <3>2
  <2>3. PagesKnow'
    BY <1>1, <2>1, <2>2 DEF PagesKnow, TableUntouched, historyVars
  <2>4. QED
    BY <1>1, <2>1, <2>3, PageStep DEF TableUntouched
<1>5. ASSUME NEW p \in AlarmPages, OpenPage(p) PROVE AlarmInv'
  <2>1. /\ page' = p /\ coming' \in ListsFor(p) /\ shown' = NothingListed
        /\ selected' = {} /\ TableUntouched
    BY <1>5 DEF OpenPage, AsksList
  <2>2. shown' \in Listings
    BY <2>1 DEF Listings, NothingListed
  <2>3. PagesKnow'
    BY <1>1, <2>1, Listed DEF PagesKnow, TableUntouched, historyVars, NothingListed
  <2>4. QED
    BY <1>1, <2>1, <2>2, <2>3, Listed, PageStep DEF TableUntouched
<1>6. CASE NotificationSaved
  <2>1. /\ UNCHANGED <<rows, used, requestVars, alarmPageVars, historyVars>>
        /\ notifying' \subseteq notifying
    BY <1>6 DEF NotificationSaved
  <2>2. PagesKnow'
    BY <1>1, <2>1 DEF PagesKnow, alarmPageVars, historyVars
  <2>3. QED
    BY <1>1, <2>1, <2>2, PageStep DEF alarmPageVars
<1>7. QED
  BY <1>2, <1>3, <1>4, <1>5, <1>6

\* An answer marks on the page what it has done to the table.
LEMMA Hearing ==
  ASSUME AlarmInv, NEW s \in Slots, AlarmAnswered(s)
  PROVE  AlarmInv'
<1> DEFINE j == job[s]
           ok == outcome[s] = "ok"
<1>1. /\ AlarmSlotTypes /\ AlarmSlotInv(s) /\ pc[s] = "answered" /\ j \in AllJobs
      /\ shown \in Listings /\ page \in AlarmPages /\ coming \in Listings \cup {Absent} /\ PagesKnow
  BY AlarmTypes DEF AlarmInv, AlarmSlotInv, AlarmAnswered, Table!Delivered, AlarmTypeOK
<1>2. /\ pc' = [pc EXCEPT ![s] = "idle"] /\ outcome' = [outcome EXCEPT ![s] = "none"]
      /\ job' = [job EXCEPT ![s] = Absent]
      /\ UNCHANGED <<rows, used, mem, loaded, saved, notifying, historyVars, page, coming>>
      /\ PageHears(j, ok) /\ selected' = IF j.op = "bulk" /\ ok THEN {} ELSE selected
  BY DEF AlarmAnswered, Table!Delivered
<1>3. AlarmSlotTypes' /\ AlarmMoved(s) /\ pc'[s] = "idle" /\ saved'[s] = saved[s]
  BY <1>1, <1>2 DEF AlarmSlotTypes, AlarmMoved
<1>4. ASSUME NEW t \in Slots PROVE AlarmSlotInv(t)'
  <2>1. CASE t = s
    BY <1>1, <1>3, <2>1 DEF AlarmSlotInv, AlarmHeld
  <2>2. CASE t # s
    <3>1. AlarmSlotInv(t)
      BY DEF AlarmInv
    <3>2. /\ pc'[t] = pc[t] /\ job'[t] = job[t] /\ mem'[t] = mem[t] /\ loaded'[t] = loaded[t]
          /\ saved'[t] = saved[t] /\ outcome'[t] = outcome[t]
      BY <1>3, <2>2 DEF AlarmMoved
    <3>3. QED
      BY <1>2, <3>1, <3>2 DEF AlarmSlotInv, AlarmHeld, historyVars
  <2>3. QED
    BY <2>1, <2>2
<1>5. ok => MarkedAcked(j) \subseteq gone
  BY <1>1 DEF AlarmSlotInv
<1> HIDE DEF j, ok
<1>6. \A a \in AlarmIds :
        /\ shown'[a] \in {"no", "acked", shown[a]}
        /\ shown'[a] # "no" => shown[a] # "no"
        /\ shown'[a] = "acked" => shown[a] = "acked" \/ (ok /\ a \in MarkedAcked(j))
  BY <1>2 DEF PageHears
<1>7. shown' \in Listings
  <2>1. shown' = [a \in AlarmIds |-> shown'[a]]
    BY <1>2 DEF PageHears
  <2>2. \A a \in AlarmIds : shown'[a] \in {"no", "active", "acked"}
    BY <1>1, <1>6 DEF Listings
  <2>3. QED
    BY <2>1, <2>2 DEF Listings
<1>8. PagesKnow'
  <2>1. selected' \subseteq used'
    BY <1>1, <1>2 DEF PagesKnow
  <2>2. \A a \in AlarmIds : (shown'[a] = "acked" => a \in gone') /\ (shown'[a] # "no" => a \in used')
    BY <1>1, <1>2, <1>5, <1>6 DEF PagesKnow, historyVars
  <2>3. QED
    BY <1>1, <1>2, <2>1, <2>2 DEF PagesKnow, historyVars
<1>9. Table!TypeOK'
  BY <1>2, <1>3, <1>4, AlarmTypes DEF AlarmSlotTypes, AlarmSlotInv, Table!TypeOK, Table!Waiting, AllJobs, AlarmHeld
<1>10. AlarmTypeOK'
  BY <1>1, <1>2, <1>7, <1>8, <1>9, AlarmTypes DEF AlarmTypeOK, PagesKnow, historyVars
<1>11. AckHolds' /\ SentWasEmitted'
  BY <1>2 DEF AlarmInv, AckHolds, SentWasEmitted, historyVars
<1>12. QED
  BY <1>4, <1>8, <1>10, <1>11 DEF AlarmInv

\* A restart lets go of every alarm and answers nobody ok.
LEMMA Restarting ==
  ASSUME AlarmInv, AlarmRestart
  PROVE  AlarmInv'
<1>1. /\ Table!LosesHandlers /\ notifying' = {}
      /\ UNCHANGED <<rows, used, alarmPageVars, emitted>> /\ Recorded /\ AlarmSlotTypes
  BY AlarmTypes DEF AlarmRestart
<1>2. RowsKept
  BY <1>1, TableStays
<1>3. /\ settled' \subseteq used' /\ gone' \subseteq used' /\ gone \subseteq gone'
      /\ \A a \in AlarmIds : rows'[a] # Absent /\ rows'[a].acked => a \in gone'
      /\ \A a \in settled' : rows'[a] = Absent \/ rows'[a].acked
  BY <1>1, <1>2, Histories
<1>4. ASSUME NEW s \in Slots
      PROVE  /\ pc'[s] \in {"idle", "answered"} /\ saved'[s] = 0
             /\ pc'[s] = "answered" => /\ pc[s] # "idle" /\ job'[s] = job[s]
                                       /\ outcome'[s] = "ok" =>
                                            pc[s] = "answered" /\ outcome[s] = "ok"
  BY <1>1 DEF Table!LosesHandlers, AlarmSlotTypes, Table!Waiting
<1>5. ASSUME NEW s \in Slots PROVE AlarmSlotInv(s)'
  <2>1. AlarmSlotInv(s)
    BY DEF AlarmInv
  <2>2. QED
    BY <1>3, <1>4, <2>1 DEF AlarmSlotInv, AlarmHeld
<1>6. AlarmSlotTypes'
  <2>1. pc' \in [Slots -> {"idle", "insert", "save", "write", "answered"}]
    BY <1>1 DEF Table!LosesHandlers, AlarmSlotTypes
  <2>2. job' \in [Slots -> AllJobs \cup {Absent}]
    BY <1>1 DEF Table!LosesHandlers, AlarmSlotTypes
  <2>3. outcome' \in [Slots -> {"none", "ok", "error"}]
    BY <1>1 DEF Table!LosesHandlers, AlarmSlotTypes
  <2>4. /\ mem' \in [Slots -> AlarmRows \cup {Absent}] /\ loaded' \in [Slots -> AlarmRows \cup {Absent}]
        /\ saved' \in [Slots -> Nat]
    BY <1>1 DEF Table!LosesHandlers, AlarmSlotTypes
  <2>5. QED
    BY <2>1, <2>2, <2>3, <2>4 DEF AlarmSlotTypes
<1>7. Table!TypeOK'
  BY <1>2, <1>5, <1>6 DEF AlarmSlotTypes, AlarmSlotInv, RowsKept, Table!TypeOK, Table!Waiting, AllJobs, AlarmHeld
<1>8. AlarmTypeOK'
  <2>1. claimed' \subseteq used'
    BY <1>1, <1>4, AlarmTypes DEF Recorded, Table!Holds
  <2>2. QED
    BY <1>1, <1>2, <1>3, <1>7, <2>1 DEF AlarmInv, AlarmTypeOK, RowsKept, alarmPageVars
<1>9. AckHolds' /\ SentWasEmitted' /\ PagesKnow'
  BY <1>1, <1>2, <1>3 DEF AlarmInv, AckHolds, SentWasEmitted, PagesKnow, RowsKept, alarmPageVars
<1>10. QED
  BY <1>5, <1>8, <1>9 DEF AlarmInv

----------------------------------------------------------------------------
LEMMA AlarmInitInv == AlarmInit => AlarmInv
<1>1. SUFFICES ASSUME AlarmInit PROVE AlarmInv
  OBVIOUS
<1>2. Table!TypeOK
  BY <1>1 DEF AlarmInit, Table!Init, Table!TypeOK, Table!Waiting
<1>3. AlarmTypeOK
  BY <1>1, <1>2 DEF AlarmInit, AlarmTypeOK, Listings, NothingListed
<1>4. \A s \in Slots : AlarmSlotInv(s)
  BY <1>1 DEF AlarmInit, Table!Init, AlarmSlotInv, AlarmHeld
<1>5. AckHolds /\ SentWasEmitted /\ PagesKnow
  BY <1>1 DEF AlarmInit, Table!Init, AckHolds, SentWasEmitted, PagesKnow, NothingListed
<1>6. QED
  BY <1>3, <1>4, <1>5 DEF AlarmInv

LEMMA AlarmStepInv == AlarmInv /\ [AlarmNext]_alarmVars => AlarmInv'
<1>1. SUFFICES ASSUME AlarmInv, [AlarmNext]_alarmVars PROVE AlarmInv'
  OBVIOUS
<1>2. ASSUME NEW s \in Slots, AlarmRequest(s) PROVE AlarmInv'
  BY <1>1, <1>2, Finding, Looking, Deleting DEF AlarmRequest
<1>3. ASSUME NEW s \in Slots, AlarmSaveStep(s) PROVE AlarmInv'
  <2>1. Table!Inserts(s) \/ Table!SaveLoads(s) \/ Table!SaveWrites(s) \/ Table!Fails(s)
    BY <1>3 DEF AlarmSaveStep
  <2>2. QED
    BY <1>1, <1>3, <2>1, Inserting, Loading, Writing, Failing
<1>4. CASE UNCHANGED alarmVars
  <2>1. /\ UNCHANGED <<rows, used, requestVars, notifying, historyVars, page, shown, coming, selected>>
    BY <1>4 DEF alarmVars, alarmPageVars
  <2>2. PagesKnow'
    BY <1>1, <2>1 DEF AlarmInv, PagesKnow, historyVars
  <2>3. QED
    BY <1>1, <2>1, <2>2, PageStep DEF AlarmInv, AlarmTypeOK
<1>5. QED
  BY <1>1, <1>2, <1>3, <1>4, PageSteps, Restarting, Bulk, Hearing DEF AlarmNext

\* Every variable of the alarms keeps its type, for any number of alarms and requests.
THEOREM AlarmsTypeCorrect == AlarmSpec => []AlarmTypeOK
<1>1. AlarmInv => AlarmTypeOK
  BY DEF AlarmInv
<1>2. QED
  BY <1>1, AlarmInitInv, AlarmStepInv, PTL DEF AlarmSpec

\* An acknowledgement that stood while no handler held its alarm is taken back only
\* by a PATCH that says so: the saves of acknowledge, bulkAcknowledge, dispatch and
\* the other PATCHes only lose one that was given while they were under way.
THEOREM AcknowledgementsHold == AlarmSpec => []AckHolds
<1>1. AlarmInv => AckHolds
  BY DEF AlarmInv
<1>2. QED
  BY <1>1, AlarmInitInv, AlarmStepInv, PTL DEF AlarmSpec

\* No row says "sent" of an alarm that dispatch has not handed to the event bus,
\* except where a client's own POST or PATCH called it sent.
THEOREM SentWasHandedOver == AlarmSpec => []SentWasEmitted
<1>1. AlarmInv => SentWasEmitted
  BY DEF AlarmInv
<1>2. QED
  BY <1>1, AlarmInitInv, AlarmStepInv, PTL DEF AlarmSpec

\* What a page (Alarms.tsx, Dashboard.tsx) lists as acknowledged was acknowledged or
\* deleted by then: its optimistic marks only follow answers that were true.
THEOREM ShownIsTrue == AlarmSpec => []ShownAckHappened
<1>1. AlarmInv => ShownAckHappened
  BY DEF AlarmInv, PagesKnow, ShownAckHappened
<1>2. QED
  BY <1>1, AlarmInitInv, AlarmStepInv, PTL DEF AlarmSpec
=============================================================================
